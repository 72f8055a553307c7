---- MODULE MCExpressionCode ----
EXTENDS ExpressionCode

Vars == [i |-> "INT_T", f |-> "FLOAT_T", b |-> "BOOL_T", s |-> "STRING_T"]

Ids   == {Id("i"), Id("f"), Id("b")}
Attrs == {Attr("a"), Attr("m")}
Nums  == {Const(V("INT_T", 2)), Id("i"), Id("f"), Attr("a")}
Conds == {Id("b"), Attr("m")}

\* Expressions of one operator, and of two.
Sums  == {Bin(op, l, r) : op \in {"+", "*"}, l \in Nums, r \in Nums \cup {Id("b")}}
Tests == {Bin("<", l, r) : l \in Nums, r \in Nums} \cup {Bin("==", l, r) : l \in Nums \cup Conds \cup {Id("s")}, r \in Nums \cup Conds \cup {Id("s")}}
Deep  == {Bin(op, l, r) : op \in {"-", "*"}, l \in {Id("i"), Id("f"), Bin("+", Id("f"), Id("f"))}, r \in Sums}
Bools == {Bin(op, l, r) : op \in Logic, l \in Conds, r \in Conds \cup {Un("!", Attr("m")), Un("!", Id("b"))} \cup Tests}
Casts == {Cast(t, e) : t \in Numbers, e \in Nums \cup {Bin("+", Id("f"), Id("f")), Bin("+", Id("i"), Attr("a"))}}
Signs == {Un("-", e) : e \in Nums \cup {Bin("-", Id("i"), Attr("a"))}}

Lefts  == {Id("i"), Id("f"), Id("b"), Id("s"), Attr("a"), Attr("m")}
Values == Nums \cup Conds \cup Sums \cup Deep \cup Tests \cup Bools \cup Casts \cup Signs \cup {Id("s")}
Assigns == {Exp(Assign(l, r)) : l \in Lefts, r \in Values}

Count  == {Assign(Id("i"), Bin("+", Id("i"), Const(V("INT_T", 1)))), Assign(Attr("a"), Bin("+", Attr("a"), Const(V("INT_T", 1))))}
Starts == {Assign(Id("i"), Const(V("INT_T", 0))), Assign(Attr("a"), Const(V("INT_T", 0)))}
Limits == {Bin("<", Id("i"), Const(V("INT_T", 2))), Bin("<", Attr("a"), Const(V("INT_T", 2))),
           Bin("<", Id("i"), Attr("a")), Assign(Id("b"), Attr("m"))} \cup Conds
Bodies == Count \cup {Assign(Attr("m"), Un("!", Attr("m"))), Comma(Assign(Id("b"), Const(Bool(FALSE))), Assign(Attr("m"), Id("b")))}
Flow   == {If(c, e) : c \in Limits \cup Bools, e \in Count} \cup {While(c, e) : c \in Limits, e \in Bodies}
          \cup {For(s, c, n, e) : s \in Starts, c \in Limits, n \in Count, e \in Bodies}

AllPrograms == Assigns \cup Flow

Start == {[var |-> [i |-> V("INT_T", 1), f |-> V("FLOAT_T", 1), b |-> Bool(x), s |-> V("STRING_T", 1)],
           attr |-> [a |-> a, m |-> m]] :
          x \in BOOLEAN, a \in {NULL, V("INT_T", 1), V("FLOAT_T", 3)}, m \in {Bool(TRUE), V("STRING_T", 1)}}

\* Sums and products of ints.
IntPrograms == {Exp(Assign(Id("i"), Bin(op, Bin("+", Id("i"), Const(V("INT_T", 2))), Const(V("INT_T", 2))))) : op \in {"+", "*"}}
====
