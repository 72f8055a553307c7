-------------------------- MODULE SymbolScopeProofs --------------------------
(***************************************************************************)
(* The symbol table of any program, however its blocks, functions,         *)
(* literals and matches nest and whatever syntax errors it has.            *)
(***************************************************************************)
EXTENDS SymbolScope, SequenceFacts

OpenConstruct == [what : Construct, name : Name \cup {None}, scope : Scope, within : Scope]
TableOK == DOMAIN table \subseteq Key /\ \A k \in DOMAIN table : table[k] \in Entry

\* Error recovery leaves scopes on the stack, and never takes one too many.
StackCovers == Len(stack) > Len(open)

\* A literal is declared when it ends, by the name its head gave.
LiteralsNamed == \A i \in DOMAIN open : open[i].what = "literal" => open[i].name \in Name

StacksOK ==
  /\ stack \in Seq(Scope) /\ stack # <<>> /\ nextScope \in 1 .. MaxScope + 1
  /\ open \in Seq(OpenConstruct)
  /\ StackCovers /\ LiteralsNamed

RestOK ==
  /\ isDynamicScope \in BOOLEAN /\ errno \in BOOLEAN
  /\ call \in [name : Name \cup {None}, sees : Key \cup {None}]
  /\ answer \in Key \cup {None}
  /\ phase \in {"parse", "generate", "resolved", "done"}

Matched == stack = [i \in Blocks |-> ScopeOf(i)]
Guarded == \E i \in DOMAIN open : open[i].what \in {"literal", "match"}

\* The inductive invariant.
IInv == TypeOK /\ StackCovers /\ LiteralsNamed /\ ScopesMatchBlocks /\ AttributesGuarded

LEMMA Parts ==
  IInv <=> /\ TableOK /\ StacksOK /\ RestOK
           /\ ~errno => Matched
           /\ isDynamicScope /\ ~errno => Guarded
BY DEF IInv, TypeOK, TableOK, StacksOK, RestOK, OpenConstruct, Matched, Guarded,
       ScopesMatchBlocks, AttributesGuarded

-----------------------------------------------------------------------------
(* The stacks.                                                             *)

LEMMA Lengths ==
  ASSUME StacksOK
  PROVE  /\ Len(stack) \in Nat /\ DOMAIN stack = 1 .. Len(stack)
         /\ \A i \in 1 .. Len(stack) : stack[i] \in Scope
         /\ Len(open) \in Nat /\ DOMAIN open = 1 .. Len(open)
         /\ \A i \in 1 .. Len(open) : open[i] \in OpenConstruct
         /\ Len(stack) > 0 /\ Top \in Scope
         /\ open # <<>> => Len(open) > 0
<1>1. stack \in Seq(Scope) /\ stack # <<>> /\ open \in Seq(OpenConstruct)
  BY DEF StacksOK
<1>2. Len(stack) > 0 /\ Top \in Scope
  BY <1>1, FrontOfSequence DEF Top
<1>3. open # <<>> => Len(open) > 0
  BY <1>1, FrontOfSequence
<1> QED BY <1>1, <1>2, <1>3, LenProperties

\* Two ways to say that a sequence of scopes is that of the open blocks.
LEMMA MatchedPointwise ==
  ASSUME NEW s \in Seq(Scope), NEW o \in Seq(OpenConstruct)
  PROVE  s = [i \in 1 .. Len(o) + 1 |-> IF i = 1 THEN 0 ELSE o[i - 1].scope]
           <=> /\ Len(s) = Len(o) + 1 /\ s[1] = 0
               /\ \A i \in 1 .. Len(o) : s[i + 1] = o[i].scope
<1> DEFINE at(i) == IF i = 1 THEN 0 ELSE o[i - 1].scope
           n == Len(o) + 1
           t == [i \in 1 .. n |-> at(i)]
<1>1. Len(o) \in Nat /\ n \in Nat /\ s \in [1 .. Len(s) -> Scope] /\ Len(s) \in Nat
  BY LenProperties
<1>2. ASSUME s = t
      PROVE  Len(s) = n /\ s[1] = 0 /\ \A i \in 1 .. Len(o) : s[i + 1] = o[i].scope
  <2>1. DOMAIN s = 1 .. n
    BY <1>2
  <2>2. Len(s) = n
    <3>1. DOMAIN s = 1 .. Len(s)
      BY <1>1
    <3> HIDE DEF n
    <3> QED BY <1>1, <2>1, <3>1, LenProperties, IntervalEnd
  <2>3. \A i \in 1 .. n : s[i] = at(i)
    BY <1>2
  <2> QED BY <1>1, <2>2, <2>3
<1>3. ASSUME Len(s) = n, s[1] = 0, \A i \in 1 .. Len(o) : s[i + 1] = o[i].scope
      PROVE  s = t
  <2>1. s = [i \in 1 .. n |-> s[i]]
    BY <1>1, <1>3
  <2>2. ASSUME NEW i \in 1 .. n
        PROVE  s[i] = at(i)
    <3>1. CASE i = 1
      BY <3>1, <1>3
    <3>2. CASE i # 1
      <4>1. i - 1 \in 1 .. Len(o) /\ (i - 1) + 1 = i
        BY <1>1, <3>2
      <4> QED BY <4>1, <3>2, <1>3
    <3> QED BY <3>1, <3>2
  <2> QED BY <2>1, <2>2
<1> QED BY <1>2, <1>3

LEMMA MatchedNow ==
  ASSUME StacksOK
  PROVE  Matched <=> /\ Len(stack) = Len(open) + 1 /\ stack[1] = 0
                     /\ \A i \in 1 .. Len(open) : stack[i + 1] = open[i].scope
BY MatchedPointwise DEF Matched, Blocks, ScopeOf, StacksOK

LEMMA MatchedNext ==
  ASSUME StacksOK'
  PROVE  Matched' <=> /\ Len(stack') = Len(open') + 1 /\ stack'[1] = 0
                      /\ \A i \in 1 .. Len(open') : stack'[i + 1] = open'[i].scope
BY MatchedPointwise DEF Matched, Blocks, ScopeOf, StacksOK

\* A construct opens, with a scope of its own.
LEMMA Push ==
  ASSUME ScopeAssumption, StacksOK, NEW w \in Construct, NEW n \in Name \cup {None},
         w = "literal" => n \in Name, Opening(w, n)
  PROVE  /\ StacksOK' /\ nextScope \in Scope
         /\ Matched => Matched'
         /\ Guarded => Guarded'
         /\ w \in {"literal", "match"} => Guarded'
<1> DEFINE c == [what |-> w, name |-> n, scope |-> nextScope, within |-> Top]
<1>1. nextScope \in Scope /\ nextScope' \in 1 .. MaxScope + 1
  BY DEF Opening, StacksOK, Scope, ScopeAssumption
<1>2. c \in OpenConstruct
  BY <1>1, Lengths DEF OpenConstruct
<1>3. /\ stack' \in Seq(Scope) /\ stack' # <<>> /\ Len(stack') = Len(stack) + 1
      /\ \A i \in 1 .. Len(stack) : stack'[i] = stack[i]
      /\ stack'[Len(stack) + 1] = nextScope
  BY <1>1, AppendProperties DEF Opening, StacksOK
<1> HIDE DEF c
<1>4. /\ open' \in Seq(OpenConstruct) /\ Len(open') = Len(open) + 1
      /\ \A i \in 1 .. Len(open) : open'[i] = open[i]
      /\ open'[Len(open) + 1] = c
  BY <1>2, AppendProperties DEF Opening, StacksOK, c
<1>5. DOMAIN (open') = 1 .. Len(open) + 1
  BY <1>4, LenProperties
<1>6. c.what = w /\ c.name = n /\ c.scope = nextScope
  BY DEF c
<1>7. StackCovers' /\ LiteralsNamed'
  <2>1. StackCovers'
    BY <1>3, <1>4, Lengths DEF StacksOK, StackCovers
  <2>2. \A i \in 1 .. Len(open) : open[i].what = "literal" => open[i].name \in Name
    BY Lengths DEF StacksOK, LiteralsNamed
  <2>3. \A i \in 1 .. Len(open) + 1 : open'[i].what = "literal" => open'[i].name \in Name
    <3>1. Len(open) \in Nat
      BY Lengths
    <3> QED BY <1>4, <1>6, <2>2, <3>1
  <2> QED BY <1>5, <2>1, <2>3, Zenon DEF LiteralsNamed
<1>8. StacksOK'
  BY <1>1, <1>3, <1>4, <1>7 DEF StacksOK
<1>9. ASSUME Matched PROVE Matched'
  <2>1. /\ Len(stack) = Len(open) + 1 /\ stack[1] = 0
        /\ \A i \in 1 .. Len(open) : stack[i + 1] = open[i].scope
    BY <1>9, MatchedNow
  <2>2. Len(stack') = Len(open') + 1 /\ stack'[1] = 0
    BY <2>1, <1>3, <1>4, Lengths
  <2>3. ASSUME NEW i \in 1 .. Len(open')
        PROVE  stack'[i + 1] = open'[i].scope
    BY <2>1, <1>3, <1>4, <1>6, Lengths
  <2> QED BY <1>8, <2>2, <2>3, MatchedNext
<1>10. (Guarded => Guarded') /\ (w \in {"literal", "match"} => Guarded')
  BY <1>4, <1>5, <1>6, Lengths DEF Guarded
<1> QED BY <1>1, <1>8, <1>9, <1>10

\* A construct and its scope are closed.
LEMMA Pop ==
  ASSUME StacksOK, open # <<>>, nextScope' = nextScope,
         stack' = Front(stack), open' = Front(open)
  PROVE  /\ StacksOK'
         /\ Matched => Matched'
         /\ Guarded /\ Last(open).what \notin {"literal", "match"} => Guarded'
<1>1. Len(stack) > Len(open) /\ Len(open) > 0 /\ Len(stack) \in Nat /\ Len(open) \in Nat
  BY Lengths DEF StacksOK, StackCovers
<1>2. /\ stack' \in Seq(Scope) /\ Len(stack') = Len(stack) - 1
      /\ \A i \in 1 .. Len(stack) - 1 : stack'[i] = stack[i]
  BY FrontOfSequence DEF StacksOK
<1>3. /\ open' \in Seq(OpenConstruct) /\ Len(open') = Len(open) - 1
      /\ \A i \in 1 .. Len(open) - 1 : open'[i] = open[i]
      /\ Last(open) = open[Len(open)]
  BY FrontOfSequence DEF StacksOK
<1>4. DOMAIN (open') = 1 .. Len(open) - 1
  BY <1>3, LenProperties
<1>5. stack' # <<>>
  BY <1>1, <1>2, EmptySeq
<1>6. StackCovers' /\ LiteralsNamed'
  <2>1. StackCovers'
    BY <1>1, <1>2, <1>3 DEF StackCovers
  <2>2. LiteralsNamed'
    <3>1. \A i \in 1 .. Len(open) : open[i].what = "literal" => open[i].name \in Name
      BY Lengths DEF StacksOK, LiteralsNamed
    <3>2. \A i \in 1 .. Len(open) - 1 : open'[i] = open[i] /\ i \in 1 .. Len(open)
      BY <1>3, Lengths
    <3> QED BY <1>4, <3>1, <3>2, Zenon DEF LiteralsNamed
  <2> QED BY <2>1, <2>2
<1>7. StacksOK'
  BY <1>2, <1>3, <1>5, <1>6 DEF StacksOK
<1>8. ASSUME Matched PROVE Matched'
  <2>1. /\ Len(stack) = Len(open) + 1 /\ stack[1] = 0
        /\ \A i \in 1 .. Len(open) : stack[i + 1] = open[i].scope
    BY <1>8, MatchedNow
  <2>2. Len(stack') = Len(open') + 1 /\ stack'[1] = 0
    BY <2>1, <1>1, <1>2, <1>3
  <2>3. ASSUME NEW i \in 1 .. Len(open')
        PROVE  stack'[i + 1] = open'[i].scope
    BY <2>1, <1>1, <1>2, <1>3
  <2> QED BY <1>7, <2>2, <2>3, MatchedNext
<1>9. ASSUME Guarded, Last(open).what \notin {"literal", "match"}
      PROVE  Guarded'
  <2>1. PICK i \in 1 .. Len(open) : open[i].what \in {"literal", "match"}
    BY <1>9, Lengths DEF Guarded
  <2>2. i # Len(open)
    BY <2>1, <1>9, <1>3
  <2>3. i \in 1 .. Len(open) - 1 /\ open'[i] = open[i]
    BY <2>1, <2>2, <1>1, <1>3
  <2> QED BY <2>1, <2>3, <1>4 DEF Guarded
<1> QED BY <1>7, <1>8, <1>9

\* The parser drops the constructs from the m-th on, and at most one scope.
LEMMA Drop ==
  ASSUME StacksOK, NEW m \in 1 .. Len(open), nextScope' = nextScope,
         stack' \in {stack, Front(stack)}, open' = SubSeq(open, 1, m - 1)
  PROVE  StacksOK'
<1>1. Len(stack) > Len(open) /\ Len(stack) \in Nat /\ Len(open) \in Nat
  BY Lengths DEF StacksOK, StackCovers
<1>2. stack' \in Seq(Scope) /\ Len(stack') \in {Len(stack), Len(stack) - 1}
  BY FrontOfSequence DEF StacksOK
<1>3. m - 1 \in 0 .. Len(open)
  BY <1>1
<1>4. /\ open' \in Seq(OpenConstruct) /\ Len(open') = m - 1
      /\ \A i \in 1 .. m - 1 : open'[i] = open[i]
  BY <1>3, PrefixOfSequence DEF StacksOK
<1>5. DOMAIN (open') = 1 .. m - 1
  BY <1>4, LenProperties
<1>6. stack' # <<>>
  BY <1>1, <1>2, EmptySeq
<1>7. StackCovers' /\ LiteralsNamed'
  BY <1>1, <1>2, <1>4, <1>5, Lengths DEF StacksOK, StackCovers, LiteralsNamed
<1> QED BY <1>2, <1>4, <1>6, <1>7 DEF StacksOK

LEMMA Still ==
  ASSUME StacksOK, UNCHANGED <<nextScope, stack, open>>
  PROVE  StacksOK' /\ (Matched => Matched') /\ (Guarded => Guarded')
BY DEF StacksOK, StackCovers, LiteralsNamed, Matched, Blocks, ScopeOf, Guarded

-----------------------------------------------------------------------------
(* The table.                                                              *)

TableOf(t) == DOMAIN t \subseteq Key /\ \A k \in DOMAIN t : t[k] \in Entry

LEMMA InsertedTyped ==
  ASSUME NEW t, TableOf(t), NEW n \in Name, NEW id \in Scope, NEW what \in Entry
  PROVE  TableOf(Inserted(t, n, id, what))
BY DEF TableOf, Inserted, With, Key

LEMMA ParametersTyped ==
  ASSUME NEW t, TableOf(t), nextScope \in Scope, NEW ps \in SUBSET Name
  PROVE  TableOf(Parameters(t, ps))
BY DEF TableOf, Parameters, With, Key, Entry

LEMMA InsertTyped ==
  ASSUME TableOK, errno \in BOOLEAN, NEW n \in Name, NEW id \in Scope, NEW what \in Entry,
         Insert(n, id, what)
  PROVE  TableOK' /\ errno' \in BOOLEAN /\ (errno => errno')
<1>1. CASE Fresh(n, id)
  BY <1>1, InsertedTyped DEF Insert, TableOK, TableOf
<1>2. CASE ~Fresh(n, id)
  BY <1>2 DEF Insert, TableOK
<1> QED BY <1>1, <1>2

LEMMA LookupTyped ==
  ASSUME StacksOK, NEW n \in Name
  PROVE  Lookup(n) \in Key \cup {None}
<1> DEFINE found == {i \in DOMAIN stack : ~Fresh(n, stack[i])}
<1>1. found \in SUBSET (1 .. Len(stack)) /\ Len(stack) \in Nat
  BY Lengths
<1>2. CASE found = {}
  BY <1>2 DEF Lookup
<1>3. CASE found # {}
  <2> HIDE DEF found
  <2>1. Max(found) \in 1 .. Len(stack)
    BY <1>1, <1>3, Largest
  <2>2. stack[Max(found)] \in Scope
    BY <2>1, Lengths
  <2>3. Lookup(n) = <<n, stack[Max(found)]>>
    BY <1>3 DEF Lookup, found
  <2> QED BY <2>2, <2>3 DEF Key
<1> QED BY <1>2, <1>3

-----------------------------------------------------------------------------
(* The inductive invariant.                                                *)

LEMMA Initially ==
  ASSUME ScopeAssumption, Init
  PROVE  IInv
<1>1. TableOK
  BY DEF Init, TableOK
<1>2. StacksOK
  <2>1. stack \in Seq(Scope) /\ Len(stack) = 1 /\ stack # <<>>
    BY DEF Init, Scope, ScopeAssumption
  <2>2. open \in Seq(OpenConstruct) /\ Len(open) = 0 /\ DOMAIN open = {}
    BY EmptySeq DEF Init
  <2> QED BY <2>1, <2>2 DEF Init, StacksOK, StackCovers, LiteralsNamed, ScopeAssumption
<1>3. RestOK
  BY DEF Init, RestOK
<1>4. Matched
  <2>1. Len(stack) = 1 /\ stack[1] = 0 /\ Len(open) = 0
    BY DEF Init
  <2> QED BY <2>1, <1>2, MatchedNow
<1> QED BY <1>1, <1>2, <1>3, <1>4, Parts DEF Init

\* What a step must show.
Kept ==
  /\ TableOK' /\ StacksOK' /\ RestOK'
  /\ ~errno' => Matched'
  /\ isDynamicScope' /\ ~errno' => Guarded'

LEMMA PushStep ==
  ASSUME ScopeAssumption, IInv, Others, answer' = None
  PROVE  (\/ OpenBlock \/ OpenMatch
          \/ \E n \in Name : Foreach(n)
          \/ \E f \in Name, ps \in SUBSET Name : FunctionHead(f, ps) \/ LiteralHead(f, ps)) => Kept
<1>1. TableOK /\ StacksOK /\ RestOK /\ (~errno => Matched) /\ (isDynamicScope /\ ~errno => Guarded)
  BY Parts
<1>2. Top \in Scope /\ "block" \in Construct /\ "match" \in Construct
  BY <1>1, Lengths DEF Construct
<1>3. CASE OpenBlock
  <2>1. Opening("block", None)
    BY <1>3 DEF OpenBlock
  <2>2. StacksOK' /\ (Matched => Matched') /\ (Guarded => Guarded')
    BY <1>1, <1>2, <2>1, Push
  <2> QED BY <1>1, <1>3, <2>2 DEF OpenBlock, Kept, TableOK, RestOK
<1>4. CASE OpenMatch
  <2>1. Opening("match", None)
    BY <1>4 DEF OpenMatch
  <2>2. StacksOK' /\ (Matched => Matched') /\ Guarded'
    BY <1>1, <1>2, <2>1, Push
  <2> QED BY <1>1, <1>4, <2>2 DEF OpenMatch, Kept, TableOK, RestOK
<1>5. ASSUME NEW n \in Name, Foreach(n)
      PROVE  Kept
  <2>1. Opening("foreach", n) /\ Insert(n, Top, "foreach")
    BY <1>5 DEF Foreach
  <2>2. StacksOK' /\ (Matched => Matched') /\ (Guarded => Guarded')
    BY <1>1, <2>1, Push DEF Construct
  <2>3. TableOK' /\ errno' \in BOOLEAN /\ (errno => errno')
    BY <1>1, <1>2, <2>1, InsertTyped DEF RestOK, Entry
  <2> QED BY <1>1, <1>5, <2>2, <2>3 DEF Foreach, Kept, RestOK
<1>6. ASSUME NEW f \in Name, NEW ps \in SUBSET Name, FunctionHead(f, ps)
      PROVE  Kept
  <2>1. Opening("function", f)
    BY <1>6 DEF FunctionHead
  <2>2. StacksOK' /\ (Matched => Matched') /\ (Guarded => Guarded') /\ nextScope \in Scope
    BY <1>1, <2>1, Push DEF Construct
  <2>3. TableOf(Parameters(table, ps))
    BY <1>1, <2>2, ParametersTyped DEF TableOf, TableOK
  <2>4. TableOK'
    BY <1>2, <1>6, <2>3, InsertedTyped DEF FunctionHead, TableOK, TableOf, Entry
  <2>5. errno' \in BOOLEAN /\ (errno => errno')
    BY <1>1, <1>6 DEF FunctionHead, RestOK
  <2> QED BY <1>1, <1>6, <2>2, <2>4, <2>5 DEF FunctionHead, Kept, RestOK
<1>7. ASSUME NEW f \in Name, NEW ps \in SUBSET Name, LiteralHead(f, ps)
      PROVE  Kept
  <2>1. Opening("literal", f)
    BY <1>7 DEF LiteralHead
  <2>2. StacksOK' /\ (Matched => Matched') /\ Guarded' /\ nextScope \in Scope
    BY <1>1, <2>1, Push DEF Construct
  <2>3. TableOK'
    BY <1>1, <1>7, <2>2, ParametersTyped DEF LiteralHead, TableOf, TableOK
  <2> QED BY <1>1, <1>7, <2>2, <2>3 DEF LiteralHead, Kept, RestOK
<1> QED BY <1>3, <1>4, <1>5, <1>6, <1>7

LEMMA PopStep ==
  ASSUME IInv, answer' = None
  PROVE  CloseBlock \/ EndFunction \/ EndLiteral \/ CloseMatch => Kept
<1>1. TableOK /\ StacksOK /\ RestOK /\ (~errno => Matched) /\ (isDynamicScope /\ ~errno => Guarded)
  BY Parts
<1>2. Innermost # "program" => open # <<>> /\ Last(open).what = Innermost
  BY DEF Innermost
<1>3. CASE CloseBlock \/ EndFunction
  <2>1. open # <<>> /\ Last(open).what \notin {"literal", "match"}
    BY <1>2, <1>3 DEF CloseBlock, EndFunction
  <2>2. StacksOK' /\ (Matched => Matched') /\ (Guarded => Guarded')
    BY <1>1, <1>3, <2>1, Pop DEF CloseBlock, EndFunction
  <2> QED BY <1>1, <1>3, <2>2 DEF CloseBlock, EndFunction, Kept, TableOK, RestOK
<1>4. CASE EndLiteral
  <2>1. open # <<>> /\ Last(open).what = "literal"
    BY <1>2, <1>4 DEF EndLiteral
  <2>2. StacksOK' /\ (Matched => Matched')
    BY <1>1, <1>4, <2>1, Pop DEF EndLiteral
  <2>3. Last(open) = open[Len(open)] /\ Len(open) \in 1 .. Len(open) /\ Last(open) \in OpenConstruct
    BY <1>1, <2>1, FrontOfSequence DEF StacksOK
  <2>4. Last(open).name \in Name /\ Last(open).within \in Scope
    BY <1>1, <2>1, <2>3, Lengths DEF StacksOK, LiteralsNamed, OpenConstruct
  <2>5. TableOK' /\ errno' \in BOOLEAN /\ (errno => errno')
    BY <1>1, <1>4, <2>4, InsertTyped DEF EndLiteral, RestOK, Entry
  <2> QED BY <1>1, <1>4, <2>2, <2>5 DEF EndLiteral, Kept, RestOK
<1>5. CASE CloseMatch
  <2>1. open # <<>>
    BY <1>2, <1>5 DEF CloseMatch
  <2>2. StacksOK' /\ (Matched => Matched')
    BY <1>1, <1>5, <2>1, Pop DEF CloseMatch
  <2> QED BY <1>1, <1>5, <2>2 DEF CloseMatch, Kept, TableOK, RestOK
<1> QED BY <1>3, <1>4, <1>5

LEMMA StayStep ==
  ASSUME ScopeAssumption, IInv, answer' = None
  PROVE  (\/ StatementError \/ EndOfFile
          \/ \E n \in Name : Declare(n) \/ ReadCall(n)) => Kept
<1>1. TableOK /\ StacksOK /\ RestOK /\ (~errno => Matched) /\ (isDynamicScope /\ ~errno => Guarded)
  BY Parts
<1>2. CASE StatementError \/ EndOfFile
  <2>1. StacksOK' /\ (Matched => Matched') /\ (Guarded => Guarded')
    BY <1>1, <1>2, Still DEF StatementError, EndOfFile
  <2> QED BY <1>1, <1>2, <2>1 DEF StatementError, EndOfFile, Kept, TableOK, RestOK
<1>3. ASSUME NEW n \in Name, Declare(n)
      PROVE  Kept
  <2>1. StacksOK' /\ (Matched => Matched') /\ (Guarded => Guarded')
    BY <1>1, <1>3, Still DEF Declare
  <2>2. Top \in Scope
    BY <1>1, Lengths
  <2>3. TableOK' /\ errno' \in BOOLEAN /\ (errno => errno')
    BY <1>1, <1>3, <2>2, InsertTyped DEF Declare, RestOK, Entry
  <2> QED BY <1>1, <1>3, <2>1, <2>3 DEF Declare, Kept, RestOK
<1>4. ASSUME NEW n \in Name, ReadCall(n)
      PROVE  Kept
  <2>1. StacksOK' /\ (Matched => Matched') /\ (Guarded => Guarded')
    BY <1>1, <1>4, Still DEF ReadCall
  <2>2. Lookup(n) \in Key \cup {None}
    BY <1>1, LookupTyped
  <2> QED BY <1>1, <1>4, <2>1, <2>2 DEF ReadCall, Kept, TableOK, RestOK
<1> QED BY <1>2, <1>3, <1>4

LEMMA LookupStep ==
  ASSUME ScopeAssumption, IInv, Lookups
  PROVE  Kept
<1>1. TableOK /\ StacksOK /\ RestOK /\ (~errno => Matched) /\ (isDynamicScope /\ ~errno => Guarded)
  BY Parts
<1>2. UNCHANGED <<nextScope, stack, open>>
  BY DEF Lookups, Use, UseAttribute, ResolveCall
<1>3. StacksOK' /\ (Matched => Matched') /\ (Guarded => Guarded')
  BY <1>1, <1>2, Still
<1>4. Top \in Scope /\ 0 \in Scope
  BY <1>1, Lengths DEF Scope, ScopeAssumption
<1>5. ASSUME NEW n \in Name, Use(n)
      PROVE  Kept
  <2>1. Lookup(n) \in Key \cup {None}
    BY <1>1, LookupTyped
  <2> QED BY <1>1, <1>3, <1>5, <2>1 DEF Use, Kept, TableOK, RestOK
<1>6. ASSUME NEW n \in Name, UseAttribute(n)
      PROVE  Kept
  <2>1. Lookup(n) \in Key \cup {None}
    BY <1>1, LookupTyped
  <2>2. TableOK'
    BY <1>1, <1>4, <1>6, InsertedTyped DEF UseAttribute, TableOK, TableOf, Entry
  <2> QED BY <1>1, <1>3, <1>6, <2>1, <2>2 DEF UseAttribute, Kept, RestOK
<1>7. CASE ResolveCall
  <2>1. ~Fresh(call.name, 0) => <<call.name, 0>> \in Key
    BY <1>1 DEF Fresh, TableOK
  <2> QED BY <1>1, <1>3, <1>7, <2>1 DEF ResolveCall, Kept, TableOK, RestOK
<1> QED BY <1>5, <1>6, <1>7 DEF Lookups

\* Whatever the parser drops, the stack keeps a scope for what is left.
LEMMA ErrorStep ==
  ASSUME IInv, SyntaxError, answer' = None
  PROVE  Kept
<1> DEFINE braces == {i \in DOMAIN open : open[i].what # "match"}
           last == open[Max(braces)]
<1>1. TableOK /\ StacksOK /\ RestOK
  BY Parts
<1>2. Len(open) \in Nat /\ braces \in SUBSET (1 .. Len(open))
  BY <1>1, Lengths
<1>3. nextScope' = nextScope /\ call' = call /\ errno' = TRUE
  BY DEF SyntaxError
<1>4. CASE braces = {}
  <2>1. phase' = "done" /\ UNCHANGED <<table, stack, isDynamicScope, open>>
    BY <1>4 DEF SyntaxError
  <2>2. StacksOK'
    BY <1>1, <1>3, <2>1, Still
  <2> QED BY <1>1, <1>3, <2>1, <2>2 DEF Kept, TableOK, RestOK
<1>5. CASE braces # {}
  <2>1. /\ open' = SubSeq(open, 1, Max(braces) - 1)
        /\ stack' \in {stack, Front(stack)}
        /\ IF last.what = "literal"
           THEN isDynamicScope' = FALSE /\ table' = Inserted(table, last.name, last.within, "literal")
           ELSE UNCHANGED <<isDynamicScope, table>>
        /\ UNCHANGED phase
    BY <1>5 DEF SyntaxError
  <2>2. Max(braces) \in 1 .. Len(open)
    <3> HIDE DEF braces
    <3> QED BY <1>2, <1>5, Largest
  <2>3. StacksOK'
    <3> HIDE DEF braces
    <3> QED BY <1>1, <1>3, <2>1, <2>2, Drop
  <2>4. last.what = "literal" => last.name \in Name /\ last.within \in Scope
    <3> HIDE DEF braces
    <3> QED BY <1>1, <2>2, Lengths DEF StacksOK, LiteralsNamed, OpenConstruct
  <2> HIDE DEF braces
  <2> HIDE DEF last
  <2>5. TableOK' /\ isDynamicScope' \in BOOLEAN
    <3>1. CASE last.what = "literal"
      <4>1. TableOf(Inserted(table, last.name, last.within, "literal"))
        BY <1>1, <2>4, <3>1, InsertedTyped DEF TableOK, TableOf, Entry
      <4> QED BY <2>1, <3>1, <4>1 DEF TableOK, TableOf
    <3>2. CASE last.what # "literal"
      BY <1>1, <2>1, <3>2 DEF TableOK, RestOK
    <3> QED BY <3>1, <3>2
  <2> QED BY <1>1, <1>3, <2>1, <2>3, <2>5 DEF Kept, RestOK
<1> QED BY <1>4, <1>5

LEMMA StepKeepsIInv ==
  ASSUME IInv, Next
  PROVE  IInv'
<1>1. Kept
  BY LookupStep, PushStep, PopStep, StayStep, ErrorStep, ScopeAssumption DEF Next, Others
<1> QED BY <1>1 DEF Kept, IInv, TypeOK, TableOK, StacksOK, RestOK, OpenConstruct, Matched,
                    Guarded, ScopesMatchBlocks, AttributesGuarded

THEOREM Invariance == Spec => []IInv
<1>1. Init => IInv
  BY Initially, ScopeAssumption
<1>2. IInv /\ [Next]_vars => IInv'
  <2>1. IInv /\ Next => IInv'
    BY StepKeepsIInv
  <2>2. IInv /\ UNCHANGED vars => IInv'
    BY DEF vars, IInv, TypeOK, StackCovers, LiteralsNamed, ScopesMatchBlocks, Blocks,
           ScopeOf, AttributesGuarded
  <2> QED BY <2>1, <2>2
<1> QED BY <1>1, <1>2, PTL DEF Spec

\* The scope stack is never popped empty and every variable keeps its type,
\* after any number of syntax errors (scope_out, Parser.y:753).
THEOREM TypeCorrect == Spec => []TypeOK
<1>1. IInv => TypeOK
  BY DEF IInv
<1> QED BY <1>1, Invariance, PTL

\* Until the program is rejected the stack holds exactly the scopes of the
\* constructs being read, for any nesting (scope_in and scope_out, Parser.y:747).
THEOREM StackIsOpenBlocks == Spec => []ScopesMatchBlocks
<1>1. IInv => ScopesMatchBlocks
  BY DEF IInv
<1> QED BY <1>1, Invariance, PTL

\* @name is accepted only inside a match or a literal, though the flag is not
\* a depth (dynamic_scope_left, Parser.y:759).
THEOREM AttributesInside == Spec => []AttributesGuarded
<1>1. IInv => AttributesGuarded
  BY DEF IInv
<1> QED BY <1>1, Invariance, PTL

-----------------------------------------------------------------------------
(* The table keyed by scope ids, from which no entry is ever removed,      *)
(* implements a stack of separate tables.                                  *)

\* Why the entries of closed blocks are never met again: ids only grow.
Clean ==
  /\ \A k \in DOMAIN table : k[2] < nextScope
  /\ \A i \in DOMAIN stack : stack[i] < nextScope
  /\ \A i, j \in DOMAIN stack : i < j => stack[i] < stack[j]
  /\ \A i \in DOMAIN open : open[i].within = stack[i]
  /\ phase # "parse" => open = <<>>

RInv == IInv /\ (~errno => Clean)

-----------------------------------------------------------------------------
(* Frames as functions of the stack and the table.                         *)

FrameIn(t, id) == [n \in Name |-> IF <<n, id>> \notin DOMAIN t THEN None ELSE id]
FramesOf(s, t) == [i \in 1 .. Len(s) |-> FrameIn(t, s[i])]
Frame == [Name -> Scope \cup {None}]
Frames == [i \in Blocks |-> FrameOf(ScopeOf(i))]

LEMMA FrameTyped ==
  ASSUME NEW t, NEW id \in Scope
  PROVE  FrameIn(t, id) \in Frame
BY DEF FrameIn, Frame

LEMMA FramesTyped ==
  ASSUME NEW t, NEW s \in Seq(Scope)
  PROVE  /\ FramesOf(s, t) \in Seq(Frame) /\ Len(FramesOf(s, t)) = Len(s)
         /\ \A i \in 1 .. Len(s) : FramesOf(s, t)[i] = FrameIn(t, s[i])
<1>1. Len(s) \in Nat /\ \A i \in 1 .. Len(s) : s[i] \in Scope
  BY LenProperties
<1>2. FramesOf(s, t) \in [1 .. Len(s) -> Frame]
  BY <1>1, FrameTyped DEF FramesOf
<1>3. FramesOf(s, t) \in Seq(Frame)
  BY <1>1, <1>2, SeqDef
<1>4. DOMAIN FramesOf(s, t) = 1 .. Len(s) /\ Len(FramesOf(s, t)) \in Nat
  BY <1>3, LenProperties DEF FramesOf
<1>5. Len(FramesOf(s, t)) = Len(s)
  BY <1>1, <1>3, <1>4, LenProperties, IntervalEnd
<1> QED BY <1>3, <1>5 DEF FramesOf

LEMMA FramesNow ==
  ASSUME StacksOK, Matched
  PROVE  Frames = FramesOf(stack, table)
<1>1. Blocks = 1 .. Len(stack) /\ \A i \in Blocks : stack[i] = ScopeOf(i)
  BY MatchedNow, Lengths DEF Matched, Blocks
<1> QED BY <1>1 DEF Frames, FramesOf, FrameOf, FrameIn, Fresh

LEMMA FramesNext ==
  ASSUME StacksOK', Matched'
  PROVE  Frames' = FramesOf(stack', table')
<1>1. Blocks' = 1 .. Len(stack') /\ \A i \in Blocks' : stack'[i] = ScopeOf(i)'
  BY MatchedNext DEF Matched, Blocks
<1> QED BY <1>1 DEF Frames, FramesOf, FrameOf, FrameIn, Fresh

LEMMA FramesPushed ==
  ASSUME NEW t, NEW s \in Seq(Scope), NEW id \in Scope
  PROVE  FramesOf(Append(s, id), t) = Append(FramesOf(s, t), FrameIn(t, id))
<1> DEFINE a == FramesOf(Append(s, id), t)
           b == Append(FramesOf(s, t), FrameIn(t, id))
<1>1. /\ Append(s, id) \in Seq(Scope) /\ Len(Append(s, id)) = Len(s) + 1 /\ Len(s) \in Nat
      /\ \A i \in 1 .. Len(s) : Append(s, id)[i] = s[i]
      /\ Append(s, id)[Len(s) + 1] = id
  BY AppendProperties, LenProperties
<1>2. /\ a \in Seq(Frame) /\ Len(a) = Len(s) + 1
      /\ \A i \in 1 .. Len(s) + 1 : a[i] = FrameIn(t, Append(s, id)[i])
  BY <1>1, FramesTyped
<1>3. /\ b \in Seq(Frame) /\ Len(b) = Len(s) + 1
      /\ \A i \in 1 .. Len(s) : b[i] = FrameIn(t, s[i])
      /\ b[Len(s) + 1] = FrameIn(t, id)
  BY FramesTyped, FrameTyped, AppendProperties
<1> HIDE DEF a, b
<1>4. \A i \in 1 .. Len(s) + 1 : a[i] = b[i]
  BY <1>1, <1>2, <1>3
<1>5. a = b
  BY <1>2, <1>3, <1>4, SeqEqual
<1> QED BY <1>5 DEF a, b

LEMMA FramesPopped ==
  ASSUME NEW t, NEW s \in Seq(Scope), s # <<>>
  PROVE  FramesOf(Front(s), t) = Front(FramesOf(s, t))
<1> DEFINE a == FramesOf(Front(s), t)
           f == FramesOf(s, t)
<1>1. /\ Len(s) \in Nat /\ Len(s) > 0
      /\ Front(s) \in Seq(Scope) /\ Len(Front(s)) = Len(s) - 1
      /\ \A i \in 1 .. Len(s) - 1 : Front(s)[i] = s[i]
  BY FrontOfSequence
<1>2. /\ a \in Seq(Frame) /\ Len(a) = Len(s) - 1
      /\ \A i \in 1 .. Len(s) - 1 : a[i] = FrameIn(t, Front(s)[i])
  BY <1>1, FramesTyped
<1>3. f \in Seq(Frame) /\ Len(f) = Len(s) /\ \A i \in 1 .. Len(s) : f[i] = FrameIn(t, s[i])
  BY FramesTyped
<1> HIDE DEF a, f
<1>4. f # <<>>
  BY <1>1, <1>3, EmptySeq
<1>5. /\ Front(f) \in Seq(Frame) /\ Len(Front(f)) = Len(s) - 1
      /\ \A i \in 1 .. Len(s) - 1 : Front(f)[i] = f[i]
  BY <1>3, <1>4, FrontOfSequence
<1>6. \A i \in 1 .. Len(s) - 1 : a[i] = Front(f)[i]
  BY <1>1, <1>2, <1>3, <1>5
<1>7. a = Front(f)
  BY <1>2, <1>5, <1>6, SeqEqual
<1> QED BY <1>7 DEF a, f

\* The frames fs with n declared as d in the j-th.
Marked(fs, j, n, d) == [fs EXCEPT ![j][n] = d]

\* A declaration changes the frame of its scope, and no other.
LEMMA FramesDeclared ==
  ASSUME NEW t, NEW s \in Seq(Scope), NEW j \in 1 .. Len(s), NEW n \in Name, NEW what,
         \A i \in 1 .. Len(s) : s[i] = s[j] => i = j
  PROVE  FramesOf(s, Inserted(t, n, s[j], what)) = Marked(FramesOf(s, t), j, n, s[j])
<1>1. Len(s) \in Nat /\ \A i \in 1 .. Len(s) : s[i] \in Scope
  BY LenProperties
<1>2. FramesOf(s, t) = [i \in 1 .. Len(s) |-> FrameIn(t, s[i])]
  BY DEF FramesOf
<1>3. FrameIn(Inserted(t, n, s[j], what), s[j]) = [FrameIn(t, s[j]) EXCEPT ![n] = s[j]]
  BY DEF FrameIn, Inserted, With
<1>4. ASSUME NEW i \in 1 .. Len(s), i # j
      PROVE  FrameIn(Inserted(t, n, s[j], what), s[i]) = FrameIn(t, s[i])
  BY <1>4 DEF FrameIn, Inserted, With
<1> QED BY <1>2, <1>3, <1>4 DEF FramesOf, Marked

-----------------------------------------------------------------------------
(* Ids only grow.                                                          *)

KeysBelow(t, bound) == \A k \in DOMAIN t : k[2] < bound

LEMMA InsertedBelow ==
  ASSUME NEW t, NEW bound \in Nat, KeysBelow(t, bound),
         NEW n \in Name, NEW id \in Scope, id < bound, NEW what
  PROVE  KeysBelow(Inserted(t, n, id, what), bound)
BY DEF KeysBelow, Inserted, With

LEMMA ParametersBelow ==
  ASSUME TableOK, KeysBelow(table, nextScope), nextScope \in Nat, NEW ps \in SUBSET Name
  PROVE  KeysBelow(Parameters(table, ps), nextScope + 1)
<1>1. \A k \in DOMAIN table : k[2] \in Nat
  BY DEF TableOK, Key, Scope
<1>2. DOMAIN Parameters(table, ps) = DOMAIN table \cup (ps \X {nextScope})
  BY DEF Parameters, With
<1> QED BY <1>1, <1>2 DEF KeysBelow

LEMMA InsertBelow ==
  ASSUME NEW bound \in Nat, KeysBelow(table, bound),
         NEW n \in Name, NEW id \in Scope, id < bound, NEW what, Insert(n, id, what)
  PROVE  KeysBelow(table', bound)
<1>1. CASE Fresh(n, id)
  BY <1>1, InsertedBelow DEF Insert
<1>2. CASE ~Fresh(n, id)
  BY <1>2 DEF Insert
<1> QED BY <1>1, <1>2

LEMMA TopBelow ==
  ASSUME StacksOK, Clean
  PROVE  /\ Top \in Scope /\ Top < nextScope /\ Top = stack[Len(stack)]
         /\ Len(stack) \in 1 .. Len(stack) /\ nextScope \in Nat
<1>1. Top \in Scope /\ Top = stack[Len(stack)] /\ Len(stack) \in 1 .. Len(stack)
  BY Lengths DEF Top, Last
<1>2. nextScope \in Nat
  BY ScopeAssumption DEF StacksOK, ScopeAssumption
<1> QED BY <1>1, <1>2, Lengths DEF Clean

LEMMA PushClean ==
  ASSUME StacksOK, Matched, Clean, NEW w \in Construct, NEW n \in Name \cup {None},
         w = "literal" => n \in Name, Opening(w, n),
         KeysBelow(table', nextScope + 1), phase = "parse", phase' = phase
  PROVE  Clean'
<1> DEFINE c == [what |-> w, name |-> n, scope |-> nextScope, within |-> Top]
           N == Len(stack)
<1>1. /\ N \in Nat /\ N = Len(open) + 1 /\ DOMAIN stack = 1 .. N
      /\ \A i \in 1 .. N : stack[i] \in Nat
      /\ DOMAIN open = 1 .. Len(open) /\ Len(open) \in Nat
  <2>1. Len(stack) = Len(open) + 1
    BY MatchedNow
  <2>2. \A i \in 1 .. Len(stack) : stack[i] \in Nat
    BY Lengths DEF Scope
  <2> QED BY <2>1, <2>2, Lengths
<1>2. nextScope \in Scope /\ Top = stack[N] /\ nextScope' = nextScope + 1
  BY Push, TopBelow, ScopeAssumption DEF Opening
<1>3. c \in OpenConstruct
  BY <1>2, Lengths DEF OpenConstruct
<1>4. /\ stack' \in Seq(Scope) /\ Len(stack') = N + 1
      /\ \A i \in 1 .. N : stack'[i] = stack[i]
      /\ stack'[N + 1] = nextScope
  BY <1>2, AppendProperties DEF Opening, StacksOK
<1> HIDE DEF c
<1>5. /\ open' \in Seq(OpenConstruct) /\ Len(open') = N
      /\ \A i \in 1 .. N - 1 : open'[i] = open[i]
      /\ open'[N] = c
  BY <1>1, <1>3, AppendProperties DEF Opening, StacksOK, c
<1>6. DOMAIN (stack') = 1 .. N + 1 /\ DOMAIN (open') = 1 .. N
  BY <1>4, <1>5, LenProperties
<1>7. c.within = Top
  BY DEF c
<1> HIDE DEF N
<1>8. nextScope \in Nat
  BY <1>2 DEF Scope
<1>9. \A i \in DOMAIN (stack') : stack'[i] < nextScope'
  BY <1>1, <1>2, <1>4, <1>6, <1>8 DEF Clean
<1>10. \A i, j \in DOMAIN (stack') : i < j => stack'[i] < stack'[j]
  BY <1>1, <1>2, <1>4, <1>6, <1>8 DEF Clean
<1>11. \A i \in DOMAIN (open') : open'[i].within = stack'[i]
  <2> SUFFICES ASSUME NEW i \in 1 .. N PROVE open'[i].within = stack'[i]
    BY <1>6
  <2>1. CASE i = N
    BY <2>1, <1>2, <1>4, <1>5, <1>7
  <2>2. CASE i # N
    <3>1. i \in 1 .. N - 1 /\ i \in DOMAIN open
      BY <2>2, <1>1
    <3> QED BY <3>1, <1>4, <1>5 DEF Clean
  <2> QED BY <2>1, <2>2
<1> QED BY <1>2, <1>9, <1>10, <1>11 DEF Clean, KeysBelow

LEMMA PopClean ==
  ASSUME StacksOK, Matched, Clean, open # <<>>, nextScope' = nextScope,
         stack' = Front(stack), open' = Front(open),
         KeysBelow(table', nextScope), phase = "parse", phase' = phase
  PROVE  Clean'
<1> DEFINE N == Len(stack)
<1>1. /\ N \in Nat /\ N = Len(open) + 1 /\ DOMAIN stack = 1 .. N /\ N > 1
      /\ DOMAIN open = 1 .. Len(open) /\ Len(open) \in Nat
  <2>1. Len(stack) = Len(open) + 1
    BY MatchedNow
  <2> QED BY <2>1, Lengths
<1>2. /\ stack' \in Seq(Scope) /\ Len(stack') = N - 1
      /\ \A i \in 1 .. N - 1 : stack'[i] = stack[i]
  BY FrontOfSequence DEF StacksOK
<1>3. /\ open' \in Seq(OpenConstruct) /\ Len(open') = N - 2
      /\ \A i \in 1 .. N - 2 : open'[i] = open[i]
  <2>1. Len(open) - 1 = N - 2
    BY <1>1
  <2> QED BY <2>1, FrontOfSequence DEF StacksOK
<1>4. DOMAIN (stack') = 1 .. N - 1 /\ DOMAIN (open') = 1 .. N - 2
  BY <1>2, <1>3, LenProperties
<1> HIDE DEF N
<1>5. \A i \in DOMAIN (stack') : stack'[i] < nextScope'
  BY <1>1, <1>2, <1>4 DEF Clean
<1>6. \A i, j \in DOMAIN (stack') : i < j => stack'[i] < stack'[j]
  BY <1>1, <1>2, <1>4 DEF Clean
<1>7. \A i \in DOMAIN (open') : open'[i].within = stack'[i]
  BY <1>1, <1>2, <1>3, <1>4 DEF Clean
<1> QED BY <1>5, <1>6, <1>7 DEF Clean, KeysBelow

LEMMA StillClean ==
  ASSUME Clean, UNCHANGED <<nextScope, stack, open>>, KeysBelow(table', nextScope),
         phase' = "parse" \/ open = <<>>
  PROVE  Clean'
BY DEF Clean, KeysBelow

\* A program without an error so far: what its steps start from.
Accepted == TableOK /\ StacksOK /\ RestOK /\ Matched /\ Clean

LEMMA AcceptedNow ==
  ASSUME RInv, ~errno
  PROVE  Accepted
BY Parts DEF RInv, Accepted

LEMMA CleanPush ==
  ASSUME ScopeAssumption, Accepted
  PROVE  (\/ OpenBlock \/ OpenMatch
          \/ \E n \in Name : Foreach(n)
          \/ \E f \in Name, ps \in SUBSET Name : FunctionHead(f, ps) \/ LiteralHead(f, ps)) => Clean'
<1>1. /\ StacksOK /\ Matched /\ Clean /\ TableOK
      /\ nextScope \in Nat /\ Top \in Scope /\ Top < nextScope
      /\ KeysBelow(table, nextScope)
  BY TopBelow DEF Accepted, Clean, KeysBelow
<1>2. KeysBelow(table, nextScope + 1)
  <2>1. \A k \in DOMAIN table : k[2] \in Nat
    BY <1>1 DEF TableOK, Key, Scope
  <2> QED BY <1>1, <2>1 DEF KeysBelow
<1>3. CASE OpenBlock
  BY <1>1, <1>2, <1>3, PushClean DEF OpenBlock, InStatements, Construct
<1>4. CASE OpenMatch
  BY <1>1, <1>2, <1>4, PushClean DEF OpenMatch, Construct
<1>5. ASSUME NEW n \in Name, Foreach(n)
      PROVE  Clean'
  <2>1. Opening("foreach", n) /\ Insert(n, Top, "foreach") /\ phase = "parse" /\ phase' = phase
    BY <1>5 DEF Foreach, InStatements
  <2>2. Top < nextScope + 1 /\ nextScope + 1 \in Nat
    BY <1>1 DEF Scope, ScopeAssumption
  <2>3. KeysBelow(table', nextScope + 1)
    BY <1>1, <1>2, <2>1, <2>2, InsertBelow
  <2> QED BY <1>1, <2>1, <2>3, PushClean DEF Construct
<1>6. ASSUME NEW f \in Name, NEW ps \in SUBSET Name, FunctionHead(f, ps)
      PROVE  Clean'
  <2>1. Opening("function", f) /\ phase = "parse" /\ phase' = phase
    BY <1>6 DEF FunctionHead
  <2>2. Top < nextScope + 1 /\ nextScope + 1 \in Nat
    BY <1>1 DEF Scope, ScopeAssumption
  <2>3. KeysBelow(Parameters(table, ps), nextScope + 1)
    BY <1>1, ParametersBelow
  <2>4. KeysBelow(table', nextScope + 1)
    BY <1>1, <1>6, <2>2, <2>3, InsertedBelow DEF FunctionHead
  <2> QED BY <1>1, <2>1, <2>4, PushClean DEF Construct
<1>7. ASSUME NEW f \in Name, NEW ps \in SUBSET Name, LiteralHead(f, ps)
      PROVE  Clean'
  <2>1. Opening("literal", f) /\ phase = "parse" /\ phase' = phase
    BY <1>7 DEF LiteralHead, InStatements
  <2>2. KeysBelow(table', nextScope + 1)
    BY <1>1, <1>7, ParametersBelow DEF LiteralHead
  <2> QED BY <1>1, <2>1, <2>2, PushClean DEF Construct
<1> QED BY <1>3, <1>4, <1>5, <1>6, <1>7

\* The name and the scope a literal is declared with when it ends.
LEMMA LastLiteral ==
  ASSUME Accepted, EndLiteral
  PROVE  /\ open # <<>> /\ Last(open).name \in Name
         /\ Len(open) \in Nat /\ Len(open) > 0 /\ Len(stack) = Len(open) + 1
         /\ Last(open).within = stack[Len(open)]
         /\ stack[Len(open)] \in Scope /\ stack[Len(open)] < nextScope
<1>1. open # <<>> /\ Last(open).what = "literal"
  BY DEF EndLiteral, Innermost
<1>2. Last(open) = open[Len(open)] /\ Len(open) \in Nat /\ Len(open) > 0
  BY <1>1, FrontOfSequence DEF Accepted, StacksOK
<1>3. Len(stack) = Len(open) + 1
  BY MatchedNow DEF Accepted
<1>4. Len(open) \in DOMAIN open /\ Len(open) \in DOMAIN stack /\ stack[Len(open)] \in Scope
  BY <1>2, <1>3, Lengths DEF Accepted
<1> QED BY <1>1, <1>2, <1>3, <1>4 DEF Accepted, Clean, StacksOK, LiteralsNamed

LEMMA CleanPop ==
  ASSUME ScopeAssumption, Accepted
  PROVE  CloseBlock \/ EndFunction \/ EndLiteral \/ CloseMatch => Clean'
<1>1. /\ StacksOK /\ Matched /\ Clean /\ nextScope \in Nat /\ KeysBelow(table, nextScope)
  BY TopBelow DEF Accepted, Clean, KeysBelow
<1>2. CASE CloseBlock \/ EndFunction \/ CloseMatch
  <2>1. /\ open # <<>> /\ nextScope' = nextScope /\ stack' = Front(stack) /\ open' = Front(open)
        /\ table' = table /\ phase = "parse" /\ phase' = phase
    BY <1>2 DEF CloseBlock, EndFunction, CloseMatch, Innermost
  <2> QED BY <1>1, <2>1, PopClean
<1>3. CASE EndLiteral
  <2>1. KeysBelow(table', nextScope)
    BY <1>1, <1>3, LastLiteral, InsertBelow DEF EndLiteral
  <2>2. /\ open # <<>> /\ nextScope' = nextScope /\ stack' = Front(stack) /\ open' = Front(open)
        /\ phase = "parse" /\ phase' = phase
    BY <1>3, LastLiteral DEF EndLiteral
  <2> QED BY <1>1, <2>1, <2>2, PopClean
<1> QED BY <1>2, <1>3

LEMMA CleanStay ==
  ASSUME ScopeAssumption, Accepted, ~errno'
  PROVE  (\/ Lookups \/ StatementError \/ EndOfFile
          \/ \E n \in Name : Declare(n) \/ ReadCall(n)) => Clean'
<1>1. /\ Clean /\ nextScope \in Nat /\ Top \in Scope /\ Top < nextScope
      /\ KeysBelow(table, nextScope)
  BY TopBelow DEF Accepted, Clean, KeysBelow
<1>2. CASE StatementError \/ EndOfFile \/ ResolveCall
  <2>1. UNCHANGED <<table, nextScope, stack, open>> /\ (phase' = "parse" \/ open = <<>>)
    BY <1>1, <1>2 DEF StatementError, InStatements, EndOfFile, ResolveCall, Clean
  <2> QED BY <1>1, <2>1, StillClean
<1>3. ASSUME NEW n \in Name, Use(n) \/ ReadCall(n)
      PROVE  Clean'
  <2>1. UNCHANGED <<table, nextScope, stack, open>> /\ phase' = "parse"
    BY <1>3 DEF Use, ReadCall
  <2> QED BY <1>1, <2>1, StillClean
<1>4. ASSUME NEW n \in Name, Declare(n)
      PROVE  Clean'
  <2>1. KeysBelow(table', nextScope)
    BY <1>1, <1>4, InsertBelow DEF Declare
  <2>2. UNCHANGED <<nextScope, stack, open>> /\ phase' = "parse"
    BY <1>4 DEF Declare, InStatements
  <2> QED BY <1>1, <2>1, <2>2, StillClean
<1>5. ASSUME NEW n \in Name, UseAttribute(n)
      PROVE  Clean'
  <2>1. KeysBelow(table', nextScope)
    BY <1>1, <1>5, InsertedBelow DEF UseAttribute
  <2>2. UNCHANGED <<nextScope, stack, open>> /\ phase' = "parse"
    BY <1>5 DEF UseAttribute
  <2> QED BY <1>1, <2>1, <2>2, StillClean
<1>6. CASE Lookups
  BY <1>2, <1>3, <1>5, <1>6 DEF Lookups
<1> QED BY <1>2, <1>3, <1>4, <1>6

\* ERRNO is never cleared.
LEMMA ErrorsStay ==
  ASSUME IInv, Next, errno
  PROVE  errno'
<1>1. errno = TRUE
  BY DEF IInv, TypeOK
<1> QED BY <1>1 DEF Next, Lookups, Others, Use, UseAttribute, ResolveCall, OpenBlock, CloseBlock,
       EndFunction, EndLiteral, OpenMatch, CloseMatch, Foreach, Declare, ReadCall, FunctionHead,
       LiteralHead, StatementError, SyntaxError, EndOfFile, Insert

LEMMA RInvariance == Spec => []RInv
<1>1. Init => RInv
  <2> SUFFICES ASSUME Init PROVE RInv
    OBVIOUS
  <2>1. DOMAIN stack = {1} /\ stack[1] = 0 /\ DOMAIN open = {} /\ DOMAIN table = {}
    BY DEF Init
  <2>2. Clean
    BY <2>1 DEF Init, Clean
  <2> QED BY <2>2, Initially, ScopeAssumption DEF RInv
<1>2. RInv /\ [Next]_vars => RInv'
  <2> SUFFICES ASSUME RInv, [Next]_vars PROVE RInv'
    OBVIOUS
  <2>1. IInv'
    <3>1. CASE Next
      BY <3>1, StepKeepsIInv DEF RInv
    <3>2. CASE UNCHANGED vars
      BY <3>2 DEF RInv, vars, IInv, TypeOK, StackCovers, LiteralsNamed, ScopesMatchBlocks, Blocks,
                  ScopeOf, AttributesGuarded
    <3> QED BY <3>1, <3>2
  <2>2. ASSUME ~errno' PROVE Clean'
    <3>1. CASE Next
      <4>1. ~errno
        BY <2>2, <3>1, ErrorsStay DEF RInv
      <4>2. Accepted
        BY <4>1, AcceptedNow
      <4>3. ~SyntaxError
        BY <2>2 DEF SyntaxError
      <4> QED BY <2>2, <3>1, <4>2, <4>3, CleanPush, CleanPop, CleanStay, ScopeAssumption
              DEF Next, Others
    <3>2. CASE UNCHANGED vars
      BY <2>2, <3>2 DEF RInv, vars, Clean
    <3> QED BY <3>1, <3>2
  <2> QED BY <2>1, <2>2 DEF RInv
<1> QED BY <1>1, <1>2, PTL DEF Spec

-----------------------------------------------------------------------------
(* The steps of LexicalScope.                                              *)

Answer == IF answer = None THEN None ELSE answer[2]

\* The actions of LexicalScope in terms of the mapped variables.
LEMMA AbstractEnter ==
  ASSUME NEW f \in Frame, Frames' = Append(Frames, f), Answer' = None, errno' = errno
  PROVE  Lexical!Next
BY DEF Lexical!Next, Lexical!Enter, Lexical!Frame, Frame, Frames, Answer

LEMMA AbstractDeclare ==
  ASSUME NEW n \in Name, NEW d \in Scope, Frames[Len(Frames)][n] = None,
         Frames' = [Frames EXCEPT ![Len(Frames)][n] = d], Answer' = None, errno' = errno
  PROVE  Lexical!Next
BY DEF Lexical!Next, Lexical!Declare, Lexical!Last, Frames, Answer

LEMMA AbstractDeclareAndEnter ==
  ASSUME NEW n \in Name, NEW d \in Scope, NEW f \in Frame, Frames[Len(Frames)][n] = None,
         Frames' = Append([Frames EXCEPT ![Len(Frames)][n] = d], f), Answer' = None, errno' = errno
  PROVE  Lexical!Next
BY DEF Lexical!Next, Lexical!DeclareAndEnter, Lexical!Last, Lexical!Frame, Frame, Frames, Answer

LEMMA AbstractLeave ==
  ASSUME Len(Frames) > 1, Frames' = Front(Frames), Answer' = None, errno' = errno
  PROVE  Lexical!Next
BY DEF Lexical!Next, Lexical!Leave, Lexical!Front, Front, Frames, Answer

LEMMA AbstractLeaveAndDeclare ==
  ASSUME NEW n \in Name, NEW d \in Scope, Len(Frames) > 1, Frames[Len(Frames) - 1][n] = None,
         Frames' = [Front(Frames) EXCEPT ![Len(Frames) - 1][n] = d], Answer' = None, errno' = errno
  PROVE  Lexical!Next
BY DEF Lexical!Next, Lexical!LeaveAndDeclare, Lexical!Front, Front, Frames, Answer

LEMMA AbstractRead ==
  ASSUME NEW n \in Name,
         LET there == {i \in DOMAIN Frames : Frames[i][n] # None}
         IN  /\ there # {}
             /\ Frames[Max(there)][n] # None
             /\ Answer' = Frames[Max(there)][n],
         Frames' = Frames, errno' = errno
  PROVE  Lexical!Next
BY DEF Lexical!Next, Lexical!Read, Lexical!Visible, Lexical!Declaring, Lexical!Max, Max, Frames, Answer

\* What a step of an accepted program that stays accepted starts from.
LEMMA Mapped ==
  ASSUME Accepted, StacksOK', Matched'
  PROVE  /\ stack \in Seq(Scope) /\ stack # <<>> /\ Len(stack) \in Nat /\ Len(stack) > 0
         /\ Frames = FramesOf(stack, table) /\ Frames' = FramesOf(stack', table')
         /\ Frames \in Seq(Frame) /\ Len(Frames) = Len(stack)
         /\ \A i \in 1 .. Len(stack) : Frames[i] = FrameIn(table, stack[i])
         /\ \A i, j \in 1 .. Len(stack) : stack[i] = stack[j] => i = j
<1>1. stack \in Seq(Scope) /\ stack # <<>> /\ Len(stack) \in Nat /\ Len(stack) > 0
  BY Lengths DEF Accepted, StacksOK
<1>2. Frames = FramesOf(stack, table) /\ Frames' = FramesOf(stack', table')
  BY FramesNow, FramesNext DEF Accepted
<1>3. /\ FramesOf(stack, table) \in Seq(Frame) /\ Len(FramesOf(stack, table)) = Len(stack)
      /\ \A i \in 1 .. Len(stack) : FramesOf(stack, table)[i] = FrameIn(table, stack[i])
  BY <1>1, FramesTyped
<1>4. ASSUME NEW i \in 1 .. Len(stack), NEW j \in 1 .. Len(stack), stack[i] = stack[j]
      PROVE  i = j
  <2>1. i \in DOMAIN stack /\ j \in DOMAIN stack /\ stack[i] \in Nat /\ stack[j] \in Nat
    BY Lengths DEF Accepted, Scope
  <2>2. ~(i < j) /\ ~(j < i)
    BY <1>4, <2>1 DEF Accepted, Clean
  <2> QED BY <2>2
<1> QED BY <1>1, <1>2, <1>3, <1>4

\* New entries of a scope that is not on the stack change no frame.
LEMMA FramesUnchanged ==
  ASSUME Accepted, NEW ps \in SUBSET Name
  PROVE  FramesOf(stack, Parameters(table, ps)) = FramesOf(stack, table)
<1>1. ASSUME NEW i \in 1 .. Len(stack)
      PROVE  FrameIn(Parameters(table, ps), stack[i]) = FrameIn(table, stack[i])
  <2>1. i \in DOMAIN stack /\ stack[i] \in Nat /\ nextScope \in Nat
    BY Lengths, TopBelow DEF Accepted, Scope
  <2>2. stack[i] # nextScope
    BY <2>1 DEF Accepted, Clean
  <2> QED BY <2>2 DEF FrameIn, Parameters, With
<1> QED BY <1>1 DEF FramesOf

LEMMA DeclaredAtTop ==
  ASSUME Accepted, StacksOK', Matched', NEW t, NEW n \in Name, NEW what
  PROVE  FramesOf(stack, Inserted(t, n, Top, what)) = Marked(FramesOf(stack, t), Len(stack), n, Top)
<1>1. /\ stack \in Seq(Scope) /\ Len(stack) \in 1 .. Len(stack)
      /\ \A i \in 1 .. Len(stack) : stack[i] = stack[Len(stack)] => i = Len(stack)
  BY Mapped
<1>2. FramesOf(stack, Inserted(t, n, stack[Len(stack)], what))
        = Marked(FramesOf(stack, t), Len(stack), n, stack[Len(stack)])
  BY <1>1, FramesDeclared
<1> QED BY <1>2 DEF Top, Last

LEMMA RefinesPush ==
  ASSUME ScopeAssumption, Accepted, StacksOK', Matched', ~errno, ~errno', errno' \in BOOLEAN,
         errno \in BOOLEAN, answer' = None
  PROVE  (\/ OpenBlock \/ OpenMatch
          \/ \E n \in Name : Foreach(n)
          \/ \E f \in Name, ps \in SUBSET Name : FunctionHead(f, ps) \/ LiteralHead(f, ps)) => Lexical!Next
<1>1. /\ stack \in Seq(Scope) /\ Len(stack) \in 1 .. Len(stack) /\ Top = stack[Len(stack)] /\ Top \in Scope
      /\ Frames = FramesOf(stack, table) /\ Frames' = FramesOf(stack', table')
      /\ Len(Frames) = Len(stack) /\ Frames[Len(stack)] = FrameIn(table, Top)
      /\ \A i \in 1 .. Len(stack) : stack[i] = stack[Len(stack)] => i = Len(stack)
  BY Mapped, TopBelow DEF Accepted
<1>2. errno' = errno /\ Answer' = None
  BY DEF Answer
<1>3. ASSUME NEW w \in Construct, NEW n \in Name \cup {None}, Opening(w, n)
      PROVE  /\ nextScope \in Scope
             /\ Frames' = Append(FramesOf(stack, table'), FrameIn(table', nextScope))
             /\ FrameIn(table', nextScope) \in Frame
  <2>1. nextScope \in Scope
    BY <1>3, ScopeAssumption DEF Opening, Accepted, StacksOK, Scope
  <2>2. stack' = Append(stack, nextScope)
    BY <1>3 DEF Opening
  <2> QED BY <1>1, <2>1, <2>2, FramesPushed, FrameTyped
<1>4. CASE OpenBlock \/ OpenMatch
  <2>1. table' = table /\ \E w \in {"block", "match"} : Opening(w, None)
    BY <1>4 DEF OpenBlock, OpenMatch
  <2>2. /\ Frames' = Append(Frames, FrameIn(table', nextScope))
        /\ FrameIn(table', nextScope) \in Frame
    BY <1>1, <1>3, <2>1 DEF Construct
  <2> QED BY <1>2, <2>2, AbstractEnter
<1>5. ASSUME NEW n \in Name, Foreach(n)
      PROVE  Lexical!Next
  <2>1. Opening("foreach", n) /\ Fresh(n, Top) /\ table' = Inserted(table, n, Top, "foreach")
    BY <1>5 DEF Foreach, Insert
  <2>2. /\ Frames' = Append(FramesOf(stack, table'), FrameIn(table', nextScope))
        /\ FrameIn(table', nextScope) \in Frame
    BY <1>3, <2>1 DEF Construct
  <2>3. FramesOf(stack, table') = Marked(Frames, Len(stack), n, Top)
    BY <1>1, <2>1, DeclaredAtTop
  <2>4. Frames[Len(Frames)][n] = None
    BY <1>1, <2>1 DEF FrameIn, Fresh
  <2>5. Frames' = Append([Frames EXCEPT ![Len(Frames)][n] = Top], FrameIn(table', nextScope))
    BY <1>1, <2>2, <2>3 DEF Marked
  <2> QED BY <1>1, <1>2, <2>2, <2>4, <2>5, AbstractDeclareAndEnter, Zenon
<1>6. ASSUME NEW f \in Name, NEW ps \in SUBSET Name, FunctionHead(f, ps)
      PROVE  Lexical!Next
  <2>1. /\ Opening("function", f) /\ Fresh(f, Top)
        /\ table' = Inserted(Parameters(table, ps), f, Top, "function")
    BY <1>6 DEF FunctionHead
  <2>2. /\ Frames' = Append(FramesOf(stack, table'), FrameIn(table', nextScope))
        /\ FrameIn(table', nextScope) \in Frame
    BY <1>3, <2>1 DEF Construct
  <2>3. FramesOf(stack, table') = Marked(FramesOf(stack, Parameters(table, ps)), Len(stack), f, Top)
    BY <1>1, <2>1, DeclaredAtTop
  <2>4. FramesOf(stack, table') = Marked(Frames, Len(stack), f, Top)
    BY <1>1, <2>3, FramesUnchanged
  <2>5. Frames[Len(Frames)][f] = None
    BY <1>1, <2>1 DEF FrameIn, Fresh
  <2>6. Frames' = Append([Frames EXCEPT ![Len(Frames)][f] = Top], FrameIn(table', nextScope))
    BY <1>1, <2>2, <2>4 DEF Marked
  <2> QED BY <1>1, <1>2, <2>2, <2>5, <2>6, AbstractDeclareAndEnter, Zenon
<1>7. ASSUME NEW f \in Name, NEW ps \in SUBSET Name, LiteralHead(f, ps)
      PROVE  Lexical!Next
  <2>1. Opening("literal", f) /\ table' = Parameters(table, ps)
    BY <1>7 DEF LiteralHead
  <2>2. /\ Frames' = Append(FramesOf(stack, table'), FrameIn(table', nextScope))
        /\ FrameIn(table', nextScope) \in Frame
    BY <1>3, <2>1 DEF Construct
  <2>3. FramesOf(stack, table') = Frames
    BY <1>1, <2>1, FramesUnchanged
  <2> QED BY <1>2, <2>2, <2>3, AbstractEnter
<1> QED BY <1>4, <1>5, <1>6, <1>7

LEMMA RefinesPop ==
  ASSUME ScopeAssumption, Accepted, StacksOK', Matched', ~errno, ~errno', errno' \in BOOLEAN,
         errno \in BOOLEAN, answer' = None
  PROVE  CloseBlock \/ EndFunction \/ EndLiteral \/ CloseMatch => Lexical!Next
<1> SUFFICES ASSUME CloseBlock \/ EndFunction \/ EndLiteral \/ CloseMatch PROVE Lexical!Next
  OBVIOUS
<1>1. errno' = errno /\ Answer' = None
  BY DEF Answer
<1>2. open # <<>> /\ stack' = Front(stack)
  BY DEF CloseBlock, EndFunction, EndLiteral, CloseMatch, Innermost
<1>3. /\ stack \in Seq(Scope) /\ stack # <<>> /\ Len(stack) \in Nat
      /\ Frames = FramesOf(stack, table) /\ Frames' = FramesOf(stack', table')
      /\ Len(Frames) = Len(stack)
      /\ \A i \in 1 .. Len(stack) : Frames[i] = FrameIn(table, stack[i])
      /\ \A i, j \in 1 .. Len(stack) : stack[i] = stack[j] => i = j
  BY Mapped
<1>4. Len(open) \in Nat /\ Len(open) > 0 /\ Len(stack) = Len(open) + 1
  <2>1. Len(stack) = Len(open) + 1
    BY MatchedNow DEF Accepted
  <2> QED BY <1>2, <2>1, Lengths DEF Accepted
<1>5. /\ Front(stack) \in Seq(Scope) /\ Len(Front(stack)) = Len(open)
      /\ \A i \in 1 .. Len(open) : Front(stack)[i] = stack[i]
  <2>1. Len(stack) - 1 = Len(open)
    BY <1>4
  <2> QED BY <1>3, <2>1, FrontOfSequence
<1>6. FramesOf(Front(stack), table) = Front(Frames)
  BY <1>3, FramesPopped
<1>7. Len(Frames) > 1
  BY <1>3, <1>4
<1>8. CASE table' = table
  BY <1>1, <1>2, <1>3, <1>6, <1>7, <1>8, AbstractLeave
<1>9. CASE EndLiteral
  <2> DEFINE n == Last(open).name
             j == Len(open)
  <2>1. n \in Name /\ Last(open).within = stack[j] /\ stack[j] \in Scope
    BY <1>9, LastLiteral
  <2>2. Fresh(n, stack[j]) /\ table' = Inserted(table, n, stack[j], "literal")
    BY <1>9, <2>1 DEF EndLiteral, Insert
  <2>3. j \in 1 .. Len(Front(stack)) /\ Front(stack)[j] = stack[j] /\ Len(Frames) - 1 = j
    BY <1>3, <1>4, <1>5
  <2>4. ASSUME NEW i \in 1 .. Len(Front(stack)), Front(stack)[i] = Front(stack)[j]
        PROVE  i = j
    <3>1. i \in 1 .. Len(stack) /\ j \in 1 .. Len(stack) /\ stack[i] = stack[j]
      BY <1>4, <1>5, <2>3, <2>4
    <3> QED BY <1>3, <3>1
  <2>5. Frames[j][n] = None
    <3>1. Frames[j] = FrameIn(table, stack[j])
      BY <1>3, <1>4
    <3> QED BY <2>1, <2>2, <3>1 DEF FrameIn, Fresh
  <2> HIDE DEF n, j
  <2>6. FramesOf(Front(stack), Inserted(table, n, Front(stack)[j], "literal"))
          = Marked(FramesOf(Front(stack), table), j, n, Front(stack)[j])
    BY <1>5, <2>1, <2>3, <2>4, FramesDeclared
  <2>7. Frames' = Marked(Front(Frames), j, n, stack[j])
    BY <1>2, <1>3, <1>6, <2>2, <2>3, <2>6
  <2> QED BY <1>1, <1>7, <2>1, <2>3, <2>5, <2>7, AbstractLeaveAndDeclare DEF Marked
<1> QED BY <1>8, <1>9 DEF CloseBlock, EndFunction, CloseMatch

\* A lookup answers what the innermost frame with the name holds.
LEMMA RefinesRead ==
  ASSUME ScopeAssumption, Accepted, StacksOK', Matched', NEW n \in Name,
         UNCHANGED <<stack, table>>, errno' = errno, answer' = Lookup(n), Lookup(n) # None
  PROVE  Lexical!Next
<1> DEFINE found == {i \in DOMAIN stack : ~Fresh(n, stack[i])}
           there == {i \in DOMAIN Frames : Frames[i][n] # None}
<1>1. /\ Frames' = Frames /\ DOMAIN Frames = 1 .. Len(stack) /\ Len(stack) \in Nat
      /\ \A i \in 1 .. Len(stack) : Frames[i] = FrameIn(table, stack[i])
      /\ DOMAIN stack = 1 .. Len(stack) /\ \A i \in 1 .. Len(stack) : stack[i] \in Scope
  <2>1. Frames = FramesOf(stack, table) /\ Frames' = FramesOf(stack', table')
    BY Mapped
  <2>2. Frames' = Frames
    BY <2>1
  <2>3. Frames \in Seq(Frame) /\ Len(Frames) = Len(stack)
    BY Mapped
  <2> QED BY <2>2, <2>3, Mapped, Lengths, LenProperties DEF Accepted
<1>2. \A i \in 1 .. Len(stack) :
        Frames[i][n] = IF Fresh(n, stack[i]) THEN None ELSE stack[i]
  BY <1>1 DEF FrameIn, Fresh
<1>3. None \notin Scope
  BY ScopeAssumption DEF ScopeAssumption, Scope
<1>4. found = there
  BY <1>1, <1>2, <1>3
<1>5. found # {} /\ Lookup(n) = <<n, stack[Max(found)]>>
  BY DEF Lookup
<1>6. found \in SUBSET (1 .. Len(stack))
  BY <1>1
<1>7. Max(found) \in found
  <2> HIDE DEF found
  <2> QED BY <1>1, <1>5, <1>6, Largest
<1>8. Max(there) \in 1 .. Len(stack) /\ Frames[Max(there)][n] = stack[Max(there)]
  BY <1>2, <1>4, <1>6, <1>7
<1>9. Frames[Max(there)][n] # None
  BY <1>1, <1>3, <1>8
<1>10. Answer' = stack[Max(there)]
  <2>1. answer' = <<n, stack[Max(there)]>> /\ answer' # None
    BY <1>4, <1>5
  <2> HIDE DEF found, there
  <2> QED BY <2>1 DEF Answer
<1> QED BY <1>1, <1>4, <1>5, <1>8, <1>9, <1>10, AbstractRead

LEMMA RefinesLookups ==
  ASSUME ScopeAssumption, RInv, Accepted, StacksOK', Matched', ~errno, ~errno', errno' \in BOOLEAN,
         errno \in BOOLEAN, Lookups
  PROVE  Lexical!Next
<1>1. errno' = errno
  OBVIOUS
<1>2. ASSUME NEW n \in Name, Use(n)
      PROVE  Lexical!Next
  <2>1. answer' = Lookup(n) /\ Lookup(n) # None /\ UNCHANGED <<stack, table>>
    BY <1>2 DEF Use
  <2> QED BY <1>1, <2>1, RefinesRead
<1>3. ASSUME NEW n \in Name, UseAttribute(n)
      PROVE  Lexical!Next
  <2>1. answer' = Lookup(n) /\ stack' = stack
        /\ table' = IF Lookup(n) = None THEN Inserted(table, n, Top, "attribute") ELSE table
    BY <1>3 DEF UseAttribute
  <2>2. CASE Lookup(n) # None
    BY <1>1, <2>1, <2>2, RefinesRead
  <2>3. CASE Lookup(n) = None
    <3>1. /\ stack \in Seq(Scope) /\ Len(stack) \in 1 .. Len(stack) /\ Top = stack[Len(stack)]
          /\ Top \in Scope
          /\ Frames = FramesOf(stack, table) /\ Frames' = FramesOf(stack', table')
          /\ Len(Frames) = Len(stack) /\ Frames[Len(stack)] = FrameIn(table, Top)
      BY Mapped, TopBelow DEF Accepted
    <3>2. Frames' = Marked(Frames, Len(stack), n, Top)
      BY <2>1, <2>3, <3>1, DeclaredAtTop
    <3>3. Fresh(n, Top)
      <4>1. DOMAIN stack = 1 .. Len(stack)
        BY Lengths DEF Accepted
      <4>2. <<n, stack[Max({i \in DOMAIN stack : ~Fresh(n, stack[i])})]>> # None
        \/ {i \in DOMAIN stack : ~Fresh(n, stack[i])} = {}
        <5> DEFINE found == {i \in DOMAIN stack : ~Fresh(n, stack[i])}
        <5>1. found \in SUBSET (1 .. Len(stack)) /\ Len(stack) \in Nat
          BY <4>1, Lengths DEF Accepted
        <5> HIDE DEF found
        <5>2. found # {} => Max(found) \in 1 .. Len(stack)
          BY <5>1, Largest
        <5>3. found # {} => stack[Max(found)] \in Nat
          BY <5>2, Lengths DEF Accepted, Scope
        <5>4. found # {} => <<n, stack[Max(found)]>> # None
          BY <5>3, ScopeAssumption DEF ScopeAssumption
        <5> QED BY <5>4 DEF found
      <4>3. {i \in DOMAIN stack : ~Fresh(n, stack[i])} = {}
        BY <2>3, <4>2 DEF Lookup
      <4> QED BY <3>1, <4>1, <4>3
    <3>4. Frames[Len(Frames)][n] = None
      BY <3>1, <3>3 DEF FrameIn, Fresh
    <3>5. Answer' = None
      BY <2>1, <2>3 DEF Answer
    <3> QED BY <1>1, <3>1, <3>2, <3>4, <3>5, AbstractDeclare DEF Marked
  <2> QED BY <2>2, <2>3
<1>4. CASE ResolveCall
  <2> DEFINE n == call.name
  <2>1. /\ phase = "generate" /\ n # None /\ ~Fresh(n, 0) /\ answer' = <<n, 0>>
        /\ UNCHANGED <<stack, table>>
    BY <1>4 DEF ResolveCall
  <2>2. n \in Name
    BY <2>1 DEF Accepted, RestOK
  <2>3. open = <<>> /\ Len(open) = 0
    BY <2>1 DEF Accepted, Clean
  <2>4. Len(stack) = 1 /\ stack[1] = 0
    BY <2>3, MatchedNow DEF Accepted
  <2>5. Lookup(n) = <<n, 0>>
    <3>1. {i \in DOMAIN stack : ~Fresh(n, stack[i])} = {1}
      <4>1. DOMAIN stack = {1}
        BY <2>4, Lengths DEF Accepted
      <4> QED BY <2>1, <2>4, <4>1
    <3>2. Max({1}) = 1
      BY DEF Max
    <3> QED BY <2>4, <3>1, <3>2 DEF Lookup
  <2>6. Lookup(n) # None
    BY <2>2, <2>5, ScopeAssumption DEF ScopeAssumption
  <2> HIDE DEF n
  <2> QED BY <1>1, <2>1, <2>2, <2>5, <2>6, RefinesRead
<1> QED BY <1>2, <1>3, <1>4 DEF Lookups

LEMMA RefinesStay ==
  ASSUME ScopeAssumption, Accepted, StacksOK', Matched', ~errno, ~errno', errno' \in BOOLEAN,
         errno \in BOOLEAN, answer' = None
  PROVE  (\/ EndOfFile
          \/ \E n \in Name : Declare(n) \/ ReadCall(n)) => Lexical!Next
<1>1. errno' = errno /\ Answer' = None
  BY DEF Answer
<1>2. Frames = FramesOf(stack, table) /\ Frames' = FramesOf(stack', table')
  BY Mapped
<1>3. CASE EndOfFile \/ \E n \in Name : ReadCall(n)
  <2>1. UNCHANGED <<stack, table>>
    BY <1>3 DEF EndOfFile, ReadCall
  <2>2. Frames' = Frames
    BY <1>2, <2>1
  <2> QED BY <1>1, <2>2 DEF Lexical!Next, Frames, Answer
<1>4. ASSUME NEW n \in Name, Declare(n)
      PROVE  Lexical!Next
  <2>1. stack' = stack /\ Fresh(n, Top) /\ table' = Inserted(table, n, Top, "variable")
    BY <1>4 DEF Declare, Insert
  <2>2. /\ Top \in Scope /\ Len(Frames) = Len(stack) /\ Frames[Len(stack)] = FrameIn(table, Top)
    BY Mapped, TopBelow DEF Accepted
  <2>3. Frames' = Marked(Frames, Len(stack), n, Top)
    BY <1>2, <2>1, DeclaredAtTop
  <2>4. Frames[Len(Frames)][n] = None
    BY <2>1, <2>2 DEF FrameIn, Fresh
  <2> QED BY <1>1, <2>2, <2>3, <2>4, AbstractDeclare DEF Marked
<1> QED BY <1>3, <1>4

\* The table of the compiler, keyed by scope ids and never shrinking, is as good
\* as a stack of separate tables: names mean what LexicalScope promises, for any
\* identifiers and any nesting (sTableTryLookupId, SymbolTableUtil.c:132).
THEOREM Refinement == Spec => ImplementsLexicalScope
<1>1. Init => Lexical!Init
  <2> SUFFICES ASSUME Init PROVE Lexical!Init
    OBVIOUS
  <2>1. Blocks = {1} /\ \A i \in Blocks : ScopeOf(i) = 0
    BY DEF Init, Blocks, ScopeOf
  <2>2. FrameOf(0) = [n \in Name |-> None]
    BY DEF Init, FrameOf, Fresh
  <2>3. [i \in Blocks |-> FrameOf(ScopeOf(i))] = <<[n \in Name |-> None]>>
    BY <2>1, <2>2
  <2> QED BY <2>3 DEF Init, Lexical!Init, Lexical!Empty
<1>2. RInv /\ RInv' /\ [Next]_vars => [Lexical!Next]_(Lexical!vars)
  <2> SUFFICES ASSUME RInv, RInv', [Next]_vars PROVE [Lexical!Next]_(Lexical!vars)
    OBVIOUS
  <2>1. CASE UNCHANGED vars
    BY <2>1 DEF vars, Lexical!vars, Blocks, ScopeOf, FrameOf, Fresh
  <2>2. CASE Next /\ errno'
    <3>1. errno' = TRUE
      BY <2>2 DEF RInv, IInv, TypeOK
    <3> QED BY <3>1 DEF Lexical!Next, Lexical!Reject
  <2>3. CASE Next /\ ~errno'
    <3>1. ~errno /\ errno \in BOOLEAN /\ errno' \in BOOLEAN
      BY <2>3, ErrorsStay DEF RInv, IInv, TypeOK
    <3>2. Accepted
      BY <3>1, AcceptedNow
    <3>3. StacksOK' /\ Matched'
      BY <2>3 DEF RInv, IInv, TypeOK, StacksOK, OpenConstruct, Matched, ScopesMatchBlocks
    <3>4. ~SyntaxError /\ ~StatementError
      BY <2>3 DEF SyntaxError, StatementError
    <3>5. CASE Lookups
      BY <2>3, <3>1, <3>2, <3>3, <3>5, RefinesLookups, ScopeAssumption
    <3>6. CASE Others /\ answer' = None
      BY <2>3, <3>1, <3>2, <3>3, <3>4, <3>6, RefinesPush, RefinesPop, RefinesStay, ScopeAssumption
         DEF Others
    <3> QED BY <2>3, <3>5, <3>6 DEF Next
  <2> QED BY <2>1, <2>2, <2>3
<1> QED BY <1>1, <1>2, RInvariance, PTL DEF Spec, ImplementsLexicalScope, Lexical!Spec
=============================================================================
