---------------------------- MODULE ExpressionCode ----------------------------
(***************************************************************************)
(* Expressions and the loops around them: the C text that CodeGen.c makes  *)
(* of an expression, the calls it puts in front of the statement where an  *)
(* attribute is involved, and what these calls, the operators on           *)
(* attributes of Derivedtype.c, do when the program runs.                  *)
(*                                                                         *)
(* A behaviour compiles one statement and runs it, next to what the manual *)
(* says the statement means (doc/langSpec-latex/langSpec.tex).             *)
(***************************************************************************)
EXTENDS Integers, Sequences, SequencesExt

CONSTANTS Programs,   \* bound: the statements
          Stores,     \* bound: the values of variables and attributes before
          TypeOf,     \* the declared types of the variables
          MaxTurns    \* bound: the turns of a loop

VARIABLES
  program,   \* the statement
  at,        \* what is next: the program is compiled, a part of it runs, ...
  st,        \* variables, attributes and temporaries, whether the program has died,
             \* and whether it has met a difference that is known (history)
  meant,     \* the same after what the statement means
  turns

vars == <<program, at, st, meant, turns>>

Numbers == {"INT_T", "FLOAT_T"}
Dynamic == {"DYNAMIC_T", "DYN_BOOL_T", "DYN_ATTR_T"}

\* A float is counted in halves, a boolean is 0 or 1.
V(t, v) == [t |-> t, v |-> v]
NULL == V("NULL", 0)          \* no attribute
Dead == V("dead", 0)          \* die()
Missing == V("UNKNOWN_T", 0)  \* an attribute without a value

Bool(b)    == V("BOOL_T", IF b THEN 1 ELSE 0)
True(x)    == x.v # 0
IsDead(x)  == x.t = "dead"
Numeric(x) == x.t \in Numbers

Toward0(n, d) == IF n >= 0 THEN n \div d ELSE -((-n) \div d)

ToFloat(x) == IF x.t = "FLOAT_T" THEN x ELSE V("FLOAT_T", 2 * x.v)
ToInt(x)   == IF x.t = "FLOAT_T" THEN V("INT_T", Toward0(x.v, 2)) ELSE V("INT_T", x.v)
Convert(x, t) == CASE t = "FLOAT_T" -> ToFloat(x) [] t = "INT_T" -> ToInt(x) [] OTHER -> x

\* op on two numbers of C; in halves a product has a factor too much.
Arith(op, x, y) ==
  IF "FLOAT_T" \notin {x.t, y.t}
  THEN V("INT_T", CASE op = "+" -> x.v + y.v [] op = "-" -> x.v - y.v [] op = "*" -> x.v * y.v)
  ELSE LET a == ToFloat(x).v
           b == ToFloat(y).v IN
       V("FLOAT_T", CASE op = "+" -> a + b [] op = "-" -> a - b [] op = "*" -> Toward0(a * b, 2))

Same(x, y) == IF Numeric(x) /\ Numeric(y) THEN ToFloat(x) = ToFloat(y) ELSE x = y
Less(x, y) == ToFloat(x).v < ToFloat(y).v

Math  == {"+", "-", "*"}
Equal == {"==", "!="}
Logic == {"&&", "||"}

------------------------------------------------------------------------------
(* Expressions, and what they mean.                                        *)

Const(x)       == [k |-> "const", value |-> x]
Id(x)          == [k |-> "id", x |-> x]
Attr(a)        == [k |-> "attr", x |-> a]
Bin(op, l, r)  == [k |-> "bin", op |-> op, l |-> l, r |-> r]
Un(op, e)      == [k |-> "un", op |-> op, e |-> e]
Cast(t, e)     == [k |-> "cast", t |-> t, e |-> e]
Assign(l, r)   == [k |-> "assign", l |-> l, r |-> r]
Comma(l, r)    == [k |-> "comma", l |-> l, r |-> r]

RECURSIVE Meaning(_, _), Done(_, _)
Meaning(e, s) ==
  CASE e.k = "const" -> e.value
    [] e.k = "assign" -> IF Done(e, s).died THEN Dead ELSE Meaning(e.l, Done(e, s))
    [] e.k = "comma"  -> Meaning(e.r, Done(e.l, s))
    [] e.k = "id"    -> s.var[e.x]
    [] e.k = "attr"  -> IF s.attr[e.x].t \in {"NULL", "UNKNOWN_T"} THEN Dead ELSE s.attr[e.x]
    [] e.k = "un"    ->
         LET x == Meaning(e.e, s) IN
         CASE e.op = "-" /\ Numeric(x) -> [x EXCEPT !.v = -@]
           [] e.op = "!" /\ x.t = "BOOL_T" -> Bool(~True(x))
           [] OTHER -> Dead
    [] e.k = "cast"  -> LET x == Meaning(e.e, s) IN IF Numeric(x) THEN Convert(x, e.t) ELSE Dead
    [] e.k = "bin"   ->
         LET x == Meaning(e.l, s)
             y == Meaning(e.r, s) IN
         CASE e.op = "&&" /\ x = Bool(FALSE) -> x
           [] e.op = "||" /\ x = Bool(TRUE)  -> x
           [] IsDead(x) \/ IsDead(y) -> Dead
           [] e.op \in Math /\ Numeric(x) /\ Numeric(y) -> Arith(e.op, x, y)
           [] e.op = "<" /\ Numeric(x) /\ Numeric(y) -> Bool(Less(x, y))
           [] e.op \in Equal /\ (x.t = y.t \/ (Numeric(x) /\ Numeric(y))) -> Bool(Same(x, y) = (e.op = "=="))
           [] e.op \in Logic /\ x.t = "BOOL_T" /\ y.t = "BOOL_T" -> y
           [] OTHER -> Dead

\* x becomes the value of a variable or an attribute that had the value old.
Stored(old, x) ==
  IF old.t \in {"NULL", "UNKNOWN_T", x.t} THEN x
  ELSE IF Numeric(old) /\ Numeric(x) THEN Convert(x, old.t)
  ELSE Dead

Kill(s) == [s EXCEPT !.died = TRUE]

\* What the expression leaves behind.
Done(e, s) ==
  IF s.died THEN s
  ELSE CASE e.k = "comma" -> Done(e.r, Done(e.l, s))
    [] e.k = "assign" ->
         LET old == IF e.l.k = "id" THEN s.var[e.l.x] ELSE s.attr[e.l.x]
             new == Stored(old, Meaning(e.r, s)) IN
         IF IsDead(new) THEN Kill(s)
         ELSE IF e.l.k = "id" THEN [s EXCEPT !.var[e.l.x] = new] ELSE [s EXCEPT !.attr[e.l.x] = new]
    [] OTHER -> IF IsDead(Meaning(e, s)) THEN Kill(s) ELSE s

------------------------------------------------------------------------------
(* The operators on attributes.                                            *)

math_operator(x, y, op) == IF Numeric(x) /\ Numeric(y) THEN Arith(op, x, y) ELSE Dead

relational_operator(x, y, op) == IF Numeric(x) /\ Numeric(y) THEN Bool(Less(x, y)) ELSE Dead

logic_operator(x, y, op) ==
  IF x.t # "BOOL_T" \/ y.t # "BOOL_T" THEN Dead
  ELSE Bool(IF op = "&&" THEN True(x) /\ True(y) ELSE True(x) \/ True(y))

\* Two attributes without a value: the function returns nothing.
equal_operator(x, y, op) ==
  IF x.t # y.t THEN Bool(FALSE) ELSE IF x.t = "UNKNOWN_T" THEN Dead ELSE Bool((x.v = y.v) = (op = "=="))

binary_operator(x, y, op) ==
  IF NULL \in {x, y} THEN Dead
  ELSE CASE op \in Math -> math_operator(x, y, op)
         [] op = "<" -> relational_operator(x, y, op)
         [] op \in Logic -> logic_operator(x, y, op)
         [] op \in Equal -> equal_operator(x, y, op)

unary_operator(x, op) ==
  CASE op = "-" /\ Numeric(x) -> [x EXCEPT !.v = -@]
    [] op = "!" /\ x.t = "BOOL_T" -> Bool(~True(x))
    [] OTHER -> Dead

cast_operator(x, t) == IF Numeric(x) /\ t \in Numbers THEN Convert(x, t) ELSE Dead

\* The bytes of a float, taken for an int and converted: some number that is
\* far from any other here.
OwnInt(x) == IF x.v = 0 THEN x ELSE V("FLOAT_T", 1000000)

\* A text that has been freed before it is copied: whatever is found there.
FreedText == V("STRING_T", 1000000)

\* A mutant: the target takes the type of the value.
AssignAnyType(x, y, itself) == IF y.t \in {"NULL", "UNKNOWN_T"} THEN Dead ELSE y

\* attr1 = attr2; a float that is assigned an int takes its own, and a text
\* that is assigned to itself is freed before it is read.
assign_operator(x, y, itself) ==
  IF y.t \in {"NULL", "UNKNOWN_T"} THEN Dead
  ELSE IF itself /\ y.t = "STRING_T" THEN FreedText
  ELSE IF x.t \in {"UNKNOWN_T", y.t} THEN y
  ELSE IF x.t = "FLOAT_T" /\ y.t = "INT_T" THEN OwnInt(x)
  ELSE IF x.t = "INT_T" /\ y.t = "FLOAT_T" THEN ToInt(y)
  ELSE Dead

\* To a variable of type t that holds old; a string is lost.
assign_operator_to_static(y, t, old) ==
  IF t = "STRING_T" /\ y.t = t THEN old
  ELSE IF y.t = t THEN y
  ELSE IF Numeric(y) /\ t \in Numbers THEN Convert(y, t)
  ELSE Dead

get_attr_value_BOOL_T(x) == IF x.t = "BOOL_T" THEN x ELSE Dead

------------------------------------------------------------------------------
(* The C text: operands, operators and casts in a row; the tree that C     *)
(* reads in it; its value.                                                 *)

Operand(e)   == <<e>>
Op(op)       == <<[k |-> "op", op |-> op]>>
Prefix(t)    == <<[k |-> "prefix", t |-> t]>>
Tmp(n)       == <<[k |-> "tmp", n |-> n]>>
Unary(op, c) == <<[k |-> "unary", op |-> op, code |-> c]>>   \* the only parentheses

Binds(op) == CASE op = "*" -> 6 [] op \in {"+", "-"} -> 5 [] op = "<" -> 4 [] op \in Equal -> 3
               [] op = "&&" -> 2 [] op = "||" -> 1

RECURSIVE Reads(_)
Reads(c) ==
  LET ops == {i \in DOMAIN c : c[i].k = "op"} IN
  IF ops # {} THEN
    LET i == CHOOSE i \in ops : \A j \in ops : j # i =>
               \/ Binds(c[i].op) < Binds(c[j].op)
               \/ Binds(c[i].op) = Binds(c[j].op) /\ j < i IN
    Bin(c[i].op, Reads(SubSeq(c, 1, i - 1)), Reads(SubSeq(c, i + 1, Len(c))))
  ELSE IF c[1].k = "prefix" THEN Cast(c[1].t, Reads(Tail(c)))
  ELSE IF c[1].k = "unary" THEN Un(c[1].op, Reads(c[1].code))
  ELSE c[1]

\* C's own arithmetic: a truth value is an int to it, both operands of a
\* comparison are numbers, && and || need not look at the second operand.
RECURSIVE Value(_, _)
Value(e, s) ==
  LET number(x) == IF x.t = "BOOL_T" THEN V("INT_T", x.v) ELSE x IN
  CASE e.k = "const" -> e.value
    [] e.k = "id"    -> s.var[e.x]
    [] e.k = "attr"  -> s.attr[e.x]    \* vertex_get_attribute
    [] e.k = "tmp"   -> s.tmp[e.n]
    [] e.k = "cast"  -> Convert(Value(e.e, s), e.t)
    [] e.k = "un"    -> LET x == Value(e.e, s) IN
                        IF e.op = "!" THEN Bool(~True(x)) ELSE [number(x) EXCEPT !.v = -@]
    [] e.k = "bin"   ->
         LET x == number(Value(e.l, s))
             y == number(Value(e.r, s)) IN
         CASE e.op \in Math  -> Arith(e.op, x, y)
           [] e.op = "<"     -> Bool(Less(x, y))
           [] e.op \in Equal ->    \* two strings: two pointers
                Bool((IF x.t = "STRING_T" THEN e.l = e.r ELSE Same(x, y)) = (e.op = "=="))
           [] e.op = "&&"    -> Bool(True(x) /\ True(y))
           [] e.op = "||"    -> Bool(True(x) \/ True(y))

ValueOf(code, s) == Value(Reads(code), s)

------------------------------------------------------------------------------
(* What CodeGen.c makes of an expression: its C text, its type, and the    *)
(* calls to be made in front of the statement. The n-th call of the front  *)
(* leaves its result in the n-th temporary.                                *)

Text(type, code, front) == [err |-> "", type |-> type, code |-> code, front |-> front]
Fails(err, front)       == [err |-> err, type |-> "VOID_T", code |-> <<>>, front |-> front]
Call(type, call, front) == Text(type, Tmp(Len(front) + 1), Append(front, call))

\* A value of a static type, wrapped as an attribute.
codeAttr(x, front) ==
  IF x.type \in Dynamic THEN [x EXCEPT !.front = front]
  ELSE Call("DYN_ATTR_T", [f |-> "new_attr", type |-> x.type, code |-> x.code], front)

\* A mutant: the temporary of the second operand is given for both.
DynamicallySame(type, op, l, r) ==
  LET x == codeAttr(l, r.front)
      y == codeAttr(r, x.front) IN
  Call(type, [f |-> "binary", op |-> op, l |-> y.code, r |-> y.code], y.front)

\* The call of binary_operator for operands that are not both static.
Dynamically(type, op, l, r) ==
  LET x == codeAttr(l, r.front)
      y == codeAttr(r, x.front) IN
  Call(type, [f |-> "binary", op |-> op, l |-> x.code, r |-> y.code], y.front)

\* Side by side; an int before a float, or on either side of ==, gets a cast.
Beside(type, op, l, r) ==
  LET float(x, y) == IF x.type = "INT_T" /\ y.type = "FLOAT_T" THEN Prefix("FLOAT_T") ELSE <<>> IN
  Text(type, float(l, r) \o l.code \o Op(op) \o (IF op \in Equal THEN float(r, l) ELSE <<>>) \o r.code, r.front)

\* Arithmetic and <: anything may follow a float.
OfNumbers(op, l, r) ==
  IF l.type = "FLOAT_T" /\ r.type \notin Numbers \cup {"BOOL_T"} THEN Fails("not C", r.front)
  ELSE IF l.type = "FLOAT_T" \/ (l.type = "INT_T" /\ r.type \in Numbers)
  THEN Beside(IF op = "<" THEN "BOOL_T" ELSE IF r.type = "FLOAT_T" THEN r.type ELSE l.type, op, l, r)
  ELSE IF {l.type, r.type} \cap Dynamic = {} \/ (op = "<" /\ l.type \in {"BOOL_T", "STRING_T"})
  THEN Fails("refused", r.front)
  ELSE Dynamically("DYNAMIC_T", op, l, r)

OfBooleans(op, l, r) ==
  IF l.type \notin Dynamic \cup {"BOOL_T"} \/ r.type \notin Dynamic \cup {"BOOL_T"} THEN Fails("refused", r.front)
  ELSE IF l.type = r.type /\ l.type = "BOOL_T" THEN Beside("BOOL_T", op, l, r)
  ELSE Dynamically("DYN_BOOL_T", op, l, r)

OfEquals(op, l, r) ==
  IF {l.type, r.type} \cap Dynamic # {} THEN Dynamically("DYN_BOOL_T", op, l, r)
  ELSE IF l.type = r.type \/ {l.type, r.type} = Numbers THEN Beside("BOOL_T", op, l, r)
  ELSE Fails("refused", r.front)

RECURSIVE codeGen(_, _)
codeGen(e, front) ==
  CASE e.k = "const" -> Text(e.value.t, Operand(e), front)
    [] e.k = "id"    -> Text(TypeOf[e.x], Operand(e), front)
    [] e.k = "attr"  -> Text("DYN_ATTR_T", Operand(e), front)
    [] e.k = "bin"   ->
         LET l == codeGen(e.l, front)
             r == codeGen(e.r, l.front) IN
         IF l.err # "" THEN l ELSE IF r.err # "" THEN r
         ELSE IF e.op \in Logic THEN OfBooleans(e.op, l, r)
         ELSE IF e.op \in Equal THEN OfEquals(e.op, l, r)
         ELSE OfNumbers(e.op, l, r)
    [] e.k = "cast"  ->
         LET x == codeGen(e.e, front) IN
         IF x.err # "" THEN x
         ELSE IF x.type \in Dynamic
         THEN Call("DYNAMIC_T", [f |-> "cast", t |-> e.t, code |-> x.code], x.front)
         ELSE IF x.type = e.t \/ {x.type, e.t} = Numbers THEN Text(e.t, Prefix(e.t) \o x.code, x.front)
         ELSE Fails("refused", x.front)
    [] e.k = "un"    ->
         LET x == codeGen(e.e, front) IN
         IF x.err # "" THEN x
         ELSE IF x.type \in Dynamic
         THEN Call(IF e.op = "!" THEN "DYN_BOOL_T" ELSE "DYNAMIC_T", [f |-> "unary", op |-> e.op, code |-> x.code], x.front)
         ELSE IF x.type \in (IF e.op = "!" THEN {"BOOL_T"} ELSE Numbers) THEN Text(x.type, Unary(e.op, x.code), x.front)
         ELSE Fails("refused", x.front)

\* A statement's own expression: what is left in its place is a sequence of
\* values, each to be kept in a variable or not.
Inline(x, to) == [err |-> x.err, type |-> x.type, inline |-> <<[to |-> to, code |-> x.code]>>, front |-> x.front]

codeAssign(e, front) ==
  LET x    == e.l.x
      left == IF e.l.k = "attr" THEN Append(front, [f |-> "left", a |-> x]) ELSE front
      r    == codeGen(e.r, left)
      own  == [r EXCEPT !.type = TypeOf[x]] IN
  IF r.err # "" THEN Inline(r, "")
  ELSE IF e.l.k = "attr"
  THEN LET y == codeAttr(r, r.front) IN
       Inline(Text("DYNAMIC_T", Operand(e.l), Append(y.front, [f |-> "assign", a |-> x, code |-> y.code])), "")
  ELSE IF r.type = TypeOf[x] THEN Inline(r, x)
  ELSE IF {r.type, TypeOf[x]} = Numbers THEN Inline([own EXCEPT !.code = Prefix(TypeOf[x]) \o r.code], x)
  ELSE IF r.type \in Dynamic
  THEN Inline(Text(TypeOf[x], Operand(e.l), Append(r.front, [f |-> "static", x |-> x, code |-> r.code])), "")
  ELSE Inline(Fails("refused", r.front), "")

RECURSIVE Code(_, _)
Code(e, front) ==
  IF e.k = "assign" THEN codeAssign(e, front)
  ELSE IF e.k # "comma" THEN Inline(codeGen(e, front), "")
  ELSE LET l == Code(e.l, front)
           r == Code(e.r, l.front) IN
       [r EXCEPT !.err = IF l.err # "" THEN l.err ELSE r.err, !.inline = l.inline \o r.inline]

------------------------------------------------------------------------------
(* Running the C program.                                                  *)

OddEqual(x, y, op) == op \in Equal /\ (x.t # y.t \/ x.t = "UNKNOWN_T")
OddAssign(x, y, itself) == (x.t = "FLOAT_T" /\ y.t = "INT_T") \/ (itself /\ y.t = "STRING_T")

Made(s, x)      == IF IsDead(x) THEN Kill(s) ELSE [s EXCEPT !.tmp = Append(@, x)]
SetAttr(s, a, x) == IF IsDead(x) THEN Kill(s) ELSE [s EXCEPT !.attr[a] = x, !.tmp = Append(@, x)]
SetVar(s, x, y)  == IF IsDead(y) THEN Kill(s) ELSE [s EXCEPT !.var[x] = y, !.tmp = Append(@, y)]

Called(s, c) ==
  LET value(code) == ValueOf(code, s) IN
  IF s.died THEN s
  ELSE CASE c.f = "new_attr" -> Made(s, Convert(value(c.code), c.type))
         [] c.f = "binary" ->
              [Made(s, binary_operator(value(c.l), value(c.r), c.op))
                 EXCEPT !.odd = @ \/ OddEqual(value(c.l), value(c.r), c.op)]
         [] c.f = "unary"  -> Made(s, unary_operator(value(c.code), c.op))
         [] c.f = "cast"   -> Made(s, cast_operator(value(c.code), c.t))
         [] c.f = "left"   -> SetAttr(s, c.a, IF s.attr[c.a] = NULL THEN Missing ELSE s.attr[c.a])
         [] c.f = "assign" ->
              LET itself == c.code = Operand(Attr(c.a)) IN
              [SetAttr(s, c.a, assign_operator(s.attr[c.a], value(c.code), itself))
                 EXCEPT !.odd = @ \/ OddAssign(s.attr[c.a], value(c.code), itself)]
         [] c.f = "static" ->
              [SetVar(s, c.x, assign_operator_to_static(value(c.code), TypeOf[c.x], s.var[c.x]))
                 EXCEPT !.odd = @ \/ TypeOf[c.x] = "STRING_T"]

CallAll(front, s) == FoldLeft(Called, [s EXCEPT !.tmp = <<>>], front)

Kept(s, i) == IF s.died \/ i.to = "" THEN s ELSE [s EXCEPT !.var[i.to] = Convert(ValueOf(i.code, s), TypeOf[i.to])]

InPlace(code, s) == FoldLeft(Kept, s, code.inline)

Statement(e, s) == LET c == Code(e, <<>>) IN InPlace(c, CallAll(c.front, s))

------------------------------------------------------------------------------
(* The statements: an expression; if; while; for.                          *)

Exp(e)             == [s |-> "exp", b |-> e]
If(c, b)           == [s |-> "if", c |-> c, b |-> b]
While(c, b)        == [s |-> "while", c |-> c, b |-> b]
For(e1, c, e3, b)  == [s |-> "for", e1 |-> e1, c |-> c, e3 |-> e3, b |-> b]

Parts(p) ==
  CASE p.s = "exp" -> <<p.b>>
    [] p.s = "for" -> <<p.e1, p.c, p.e3, p.b>>
    [] OTHER -> <<p.c, p.b>>

IsDynamic(e) == Code(e, <<>>).type \in Dynamic

\* A for that is made a while: one of its expressions is not of a static type.
MadeWhile(p) == IsDynamic(p.e1) \/ IsDynamic(p.c) \/ IsDynamic(p.e3)

Problem(p) ==
  LET errs == {Code(Parts(p)[i], <<>>).err : i \in DOMAIN Parts(p)} \ {""} IN
  IF errs # {} THEN CHOOSE e \in errs : TRUE
  ELSE IF p.s = "if" /\ Code(p.c, <<>>).type \notin Dynamic \cup {"BOOL_T"} THEN "refused"
  ELSE ""

Init ==
  /\ program \in Programs
  /\ \E s \in Stores : st = [var |-> s.var, attr |-> s.attr, tmp |-> <<>>, died |-> FALSE, odd |-> FALSE]
  /\ meant = st
  /\ at = "compile"
  /\ turns = 0

\* A program with an error goes no further, be it NSBL's or the C compiler's.
Compile ==
  /\ at = "compile"
  /\ at' = IF Problem(program) # "" THEN "refused"
           ELSE CASE program.s = "exp" -> "body" [] program.s = "for" -> "first" [] OTHER -> "test"
  /\ UNCHANGED <<program, st, meant, turns>>

\* The first and the third expression of a for: a while has only the calls,
\* C's for only the text.
Control(e, s) ==
  LET c == Code(e, <<>>) IN IF MadeWhile(program) THEN CallAll(c.front, s) ELSE InPlace(c, s)

First ==
  /\ at = "first"
  /\ st' = Control(program.e1, st)
  /\ meant' = Done(program.e1, meant)
  /\ at' = IF st'.died \/ meant'.died THEN "done" ELSE "test"
  /\ UNCHANGED <<program, turns>>

Step ==
  /\ at = "step"
  /\ st' = Control(program.e3, st)
  /\ meant' = Done(program.e3, meant)
  /\ at' = IF st'.died \/ meant'.died THEN "done" ELSE "test"
  /\ UNCHANGED <<program, turns>>

\* A while whose condition has a static type, and C's for, drop the calls.
FrontOf(p) ==
  IF (p.s = "while" /\ ~IsDynamic(p.c)) \/ (p.s = "for" /\ ~MadeWhile(p)) THEN <<>> ELSE Code(p.c, <<>>).front

\* The value that text in place leaves behind in s.
Left(i, s) == IF i.to = "" THEN ValueOf(i.code, s) ELSE s.var[i.to]

\* The outcome of a condition of a type that has the value x; a while made of
\* a for takes a static one for an attribute.
Outcome(p, type, x) ==
  IF type \in Dynamic THEN get_attr_value_BOOL_T(x)
  ELSE IF p.s = "for" /\ MadeWhile(p) THEN Dead
  ELSE Bool(True(x))

\* The outcome of the condition that has the code c, evaluated in s.
OutcomeIn(p, c, s) == IF s.died THEN Dead ELSE Outcome(p, c.type, Left(Last(c.inline), s))

\* The outcome is x in s, and should be y in m.
Decided(s, x, m, y) ==
  /\ st' = IF IsDead(x) THEN Kill(s) ELSE s
  /\ meant' = IF y.t # "BOOL_T" THEN Kill(m) ELSE m
  /\ at' = IF st'.died \/ meant'.died THEN "done"
           ELSE IF x # y THEN "apart"
           ELSE IF True(x) THEN "body" ELSE "done"

Test ==
  /\ at = "test"
  /\ LET c == Code(program.c, <<>>)
         s == InPlace(c, CallAll(FrontOf(program), st)) IN
     Decided(s, OutcomeIn(program, c, s), Done(program.c, meant), Meaning(program.c, meant))
  /\ UNCHANGED <<program, turns>>

Body ==
  /\ at = "body"
  /\ turns < MaxTurns
  /\ st' = Statement(program.b, st)
  /\ meant' = Done(program.b, meant)
  /\ at' = IF st'.died \/ meant'.died THEN "done"
           ELSE CASE program.s = "while" -> "test" [] program.s = "for" -> "step" [] OTHER -> "done"
  /\ turns' = turns + 1
  /\ UNCHANGED program

Next == Compile \/ First \/ Test \/ Body \/ Step

Spec == Init /\ [][Next]_vars

------------------------------------------------------------------------------
(* What the translation does not promise.                                  *)

RECURSIVE Subs(_)
Subs(e) ==
  {e} \cup CASE e.k \in {"bin", "comma", "assign"} -> Subs(e.l) \cup Subs(e.r)
             [] e.k \in {"un", "cast"} -> Subs(e.e)
             [] OTHER -> {}

TypeIn(e) == Code(e, <<>>).type

\* How tightly the text of e holds together.
Tight(e) ==
  IF TypeIn(e) \in Dynamic \/ e.k \notin {"bin", "cast"} THEN 8 ELSE IF e.k = "cast" THEN 7 ELSE Binds(e.op)

\* A binary expression of static type needs no parentheses around its operands.
NeedsNone(e) ==
  CASE e.k = "bin"  -> TypeIn(e) \in Dynamic \/ (Tight(e.l) >= Binds(e.op) /\ Tight(e.r) > Binds(e.op))
    [] e.k = "cast" -> TypeIn(e) \in Dynamic \/ Tight(e.e) >= 7
    [] e.k = "assign" -> e.l.k = "id" /\ {TypeOf[e.l.x], TypeIn(e.r)} = Numbers => Tight(e.r) >= 7
    [] OTHER -> TRUE

\* Strings are compared as pointers; a float takes a boolean for a number.
Sound(e) ==
  e.k = "bin" =>
    /\ e.op \in Equal => ~(TypeIn(e.l) = "STRING_T" /\ TypeIn(e.r) = "STRING_T")
    /\ ~(TypeIn(e.l) = "FLOAT_T" /\ TypeIn(e.r) = "BOOL_T")

NoCalls(e) == Code(e, <<>>).front = <<>>
NoValue(e) == \A i \in DOMAIN Code(e, <<>>).inline : Code(e, <<>>).inline[i].to = ""

\* The calls of a statement all come before its text.
InOrder(e) == e.k = "comma" => NoValue(e.l) \/ NoCalls(e.r)

CarefulLoop(p) ==
  /\ p.s = "while" => NoCalls(p.c) \/ IsDynamic(p.c)
  /\ p.s = "for" => IF MadeWhile(p) THEN IsDynamic(p.c) /\ NoValue(p.e1) /\ NoValue(p.e3)
                    ELSE NoCalls(p.e1) /\ NoCalls(p.c) /\ NoCalls(p.e3)

Careful(p) ==
  /\ \A i \in DOMAIN Parts(p) : \A e \in Subs(Parts(p)[i]) : NeedsNone(e) /\ Sound(e) /\ InOrder(e)
  /\ CarefulLoop(p)

\* && and || look at both operands where an attribute is involved.
LooksAtBoth(p) ==
  \E i \in DOMAIN Parts(p) : \E e \in Subs(Parts(p)[i]) : e.k = "bin" /\ e.op \in Logic /\ TypeIn(e) \in Dynamic

------------------------------------------------------------------------------
(* Properties.                                                             *)

Agree == st.var = meant.var /\ st.attr = meant.attr

\* A program that needs none of the parentheses the compiler drops, keeps
\* attributes out of the places where it loses them and meets none of the
\* known differences does what the manual says: every variable and attribute
\* has the value it should have, every condition is decided as it should be,
\* and the program dies when it must and, but for && and ||, only then
\* (CodeGen.c:185-554, 866-1032, Derivedtype.c:1143-1464).
AsWritten ==
  Problem(program) = "" /\ Careful(program) /\ ~st.odd =>
    /\ at # "apart"
    /\ meant.died => st.died
    /\ st.died => meant.died \/ LooksAtBoth(program)
    /\ ~st.died => Agree

\* An attribute that has a value keeps the type of its first value, whatever
\* it is assigned later (Derivedtype.c:1353-1390).
TypesStay ==
  [][\A a \in DOMAIN st.attr : st.attr[a].t \notin {"NULL", "UNKNOWN_T"} => st'.attr[a].t = st.attr[a].t]_vars

\* A parenthesized expression has the value of the expression in it
\* (langSpec.tex:188; Parser.y:531).
ParenthesesKept == at = "done" /\ ~st.died => Agree

================================================================================
