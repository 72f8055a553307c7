--------------------------- MODULE LoopCodeProofs ---------------------------
(***************************************************************************)
(* What codeGen knows of the loop and the function around a jump, for      *)
(* programs nested to any depth.  The inductive invariant relates the      *)
(* global variables to the constructs on the path: LoopBody is the nearest *)
(* loop or forgotten, and forgotten only when a loop inside every loop     *)
(* around has ended; the function's variables always describe the nearest  *)
(* function or literal.                                                    *)
(***************************************************************************)
EXTENDS LoopCode, SequenceFacts, FiniteSetTheorems

LoopsAround == {i \in DOMAIN path : path[i].what = "loop"}

LoopContext ==
  /\ LoopGotoLabel = LoopBody
  /\ LoopBody # NULL => Nearest(LoopBody, {"loop"})
  /\ LoopBody = NULL => \A i \in LoopsAround : path[i].looped
  /\ inLoop = Cardinality(LoopsAround)

\* Functions are not nested, and neither are literals.
InFunction == Here > 0 /\ path[1].what = "function"
InLiteral == inFuncLiteral = 0
OutsideLiteral == IF InFunction THEN 1 ELSE 0

FunctionContext ==
  /\ \A i \in DOMAIN path : path[i].what = "function" => i = 1 /\ path[i].oldisFunc = 0
  /\ inFunc = IF InFunction THEN 0 ELSE -1
  /\ FuncBody = IF InFunction THEN 1 ELSE NULL
  /\ InLiteral =>
       /\ isFunc = -1
       /\ FuncLiteralBody \in DOMAIN path /\ path[FuncLiteralBody].what = "literal"
       /\ path[FuncLiteralBody].oldisFunc = OutsideLiteral
       /\ \A i \in DOMAIN path : path[i].what = "literal" => i = FuncLiteralBody
  /\ ~InLiteral =>
       /\ isFunc = OutsideLiteral
       /\ \A i \in DOMAIN path : path[i].what # "literal"

Jumps == JumpFreesNearestLoop /\ JumpLeavesLoop /\ ReturnLeavesFunction

\* The inductive invariant.
Context == TypeOK /\ LoopContext /\ FunctionContext
IInv == Context /\ Jumps

-----------------------------------------------------------------------------
(* The path as a sequence.                                                 *)

LEMMA PathDomain ==
  ASSUME TypeOK
  PROVE  /\ Here \in Nat /\ DOMAIN path = 1 .. Here
         /\ path \in [1 .. Here -> Node]
BY LenProperties DEF TypeOK, Here

LEMMA Push ==
  ASSUME TypeOK, NEW n \in Node, path' = Append(path, n)
  PROVE  /\ path' \in Seq(Node)
         /\ Here' = Here + 1 /\ DOMAIN (path') = 1 .. Here + 1
         /\ \A i \in 1 .. Here : path'[i] = path[i]
         /\ path'[Here + 1] = n
<1>1. path \in Seq(Node)
  BY DEF TypeOK
<1>2. path' \in Seq(Node) /\ Len(path') = Len(path) + 1
      /\ (\A i \in 1 .. Len(path) : path'[i] = path[i]) /\ path'[Len(path) + 1] = n
  BY <1>1, AppendProperties
<1> QED BY <1>2, LenProperties DEF Here

LEMMA Pop ==
  ASSUME TypeOK, path # <<>>, path' = Front(path)
  PROVE  /\ path' \in Seq(Node)
         /\ Here' = Here - 1 /\ DOMAIN (path') = 1 .. Here - 1
         /\ \A i \in 1 .. Here - 1 : path'[i] = path[i]
<1>1. path \in Seq(Node)
  BY DEF TypeOK
<1>2. path' \in Seq(Node) /\ Len(path') = Len(path) - 1
      /\ \A i \in 1 .. Len(path) - 1 : path'[i] = path[i]
  BY <1>1, FrontOfSequence
<1> QED BY <1>2, LenProperties DEF Here

\* A path of the same constructs, or of all but the innermost, with other marks.
LEMMA Marked ==
  ASSUME TypeOK, NEW n \in {Here, Here - 1}, n \in Nat,
         path' = [i \in 1 .. n |-> path'[i]],
         \A i \in 1 .. n : path'[i] \in Node
  PROVE  path' \in Seq(Node) /\ Here' = n /\ DOMAIN (path') = 1 .. n
<1>1. path' \in [1 .. n -> Node]
  OBVIOUS
<1>2. path' \in Seq(Node)
  BY <1>1, SeqDef
<1> QED BY <1>1, <1>2, LenProperties DEF Here

-----------------------------------------------------------------------------
(* The loops around.                                                       *)

LEMMA LoopsFinite ==
  ASSUME NEW p \in Seq(Node)
  PROVE  /\ IsFiniteSet({i \in DOMAIN p : p[i].what = "loop"})
         /\ Cardinality({i \in DOMAIN p : p[i].what = "loop"}) \in 0 .. Len(p)
<1> DEFINE L == {i \in DOMAIN p : p[i].what = "loop"}
<1>1. Len(p) \in Nat /\ L \in SUBSET (1 .. Len(p))
  BY LenProperties
<1> HIDE DEF L
<1>2. IsFiniteSet(1 .. Len(p)) /\ Cardinality(1 .. Len(p)) = Len(p)
  <2> DEFINE n == Len(p)
  <2>1. n \in Int /\ 1 \in Int /\ (1 > n => n = 0)
    BY <1>1
  <2> HIDE DEF n
  <2>2. IsFiniteSet(1 .. n) /\ Cardinality(1 .. n) = IF 1 > n THEN 0 ELSE n - 1 + 1
    BY <2>1, FS_Interval
  <2>3. IsFiniteSet(1 .. n) /\ Cardinality(1 .. n) = n
    BY <2>1, <2>2
  <2> QED BY <2>3 DEF n
<1>3. IsFiniteSet(L) /\ Cardinality(L) <= Len(p)
  BY <1>1, <1>2, FS_Subset
<1>4. Cardinality(L) \in Nat
  BY <1>3, FS_CardinalityType
<1>5. Cardinality(L) \in 0 .. Len(p)
  BY <1>1, <1>3, <1>4
<1> QED BY <1>3, <1>5 DEF L

LEMMA LoopsAroundFinite ==
  ASSUME TypeOK
  PROVE  IsFiniteSet(LoopsAround)
<1>1. path \in Seq(Node)
  BY DEF TypeOK
<1> QED BY <1>1, LoopsFinite DEF LoopsAround

\* inLoop stays within the bound as long as it counts the loops around.
LEMMA InLoopBounded ==
  ASSUME MaxDepth \in Nat, path' \in Seq(Node), Here' <= MaxDepth,
         inLoop' = Cardinality(LoopsAround')
  PROVE  inLoop' \in Position
<1>1. Cardinality(LoopsAround') \in 0 .. Len(path')
  BY LoopsFinite DEF LoopsAround
<1>2. Len(path') \in Nat
  BY LenProperties
<1> QED BY <1>1, <1>2 DEF Position, Here

-----------------------------------------------------------------------------
(* The steps.                                                              *)

LEMMA OpenBlockStep ==
  ASSUME Context, OpenBlock, code' = NoJump
  PROVE  Context'
<1> USE LoopAssumption
<1>1. PICK what \in {"block", "foreach"} : path' = Append(path, Plain(what))
  BY DEF OpenBlock
<1>2. Plain(what) \in Node
  BY DEF Context, TypeOK, Plain, Node
<1>3. TypeOK /\ Here \in Nat /\ DOMAIN path = 1 .. Here
  BY PathDomain DEF Context
<1>4. /\ path' \in Seq(Node)
      /\ Here' = Here + 1 /\ DOMAIN (path') = 1 .. Here + 1
      /\ \A i \in 1 .. Here : path'[i] = path[i]
      /\ path'[Here + 1] = Plain(what)
  BY <1>1, <1>2, <1>3, Push
<1>5. path'[Here + 1].what = what
  BY <1>4 DEF Plain
<1>6. LoopsAround' = LoopsAround
  BY <1>3, <1>4, <1>5 DEF LoopsAround
<1>7. TypeOK'
  BY <1>3, <1>4 DEF TypeOK, OpenBlock, Opens, loop, function, NoJump, Position, NULL
<1>8. LoopContext'
  BY <1>3, <1>4, <1>5, <1>6
     DEF Context, LoopContext, OpenBlock, loop, Nearest, LoopsAround
<1>9. InFunction' <=> InFunction
  BY <1>3, <1>4, <1>5 DEF InFunction
<1>10. FunctionContext'
  BY <1>3, <1>4, <1>5, <1>9
     DEF Context, FunctionContext, OpenBlock, function, InLiteral, OutsideLiteral
<1> QED BY <1>7, <1>8, <1>10 DEF Context

LEMMA CloseBlockStep ==
  ASSUME Context, CloseBlock, code' = NoJump
  PROVE  Context'
<1> USE LoopAssumption
<1>1. path # <<>> /\ path' = Front(path) /\ path[Here].what \in {"block", "foreach"}
  BY DEF CloseBlock, Innermost, Last, Here
<1>2. TypeOK /\ Here \in Nat /\ DOMAIN path = 1 .. Here
  BY PathDomain DEF Context
<1>3. /\ path' \in Seq(Node)
      /\ Here' = Here - 1 /\ DOMAIN (path') = 1 .. Here - 1
      /\ \A i \in 1 .. Here - 1 : path'[i] = path[i]
  BY <1>1, <1>2, Pop
<1>4. Here > 0
  BY <1>1, <1>2, EmptySeq DEF TypeOK, Here
<1>5. LoopsAround' = LoopsAround
  BY <1>1, <1>2, <1>3, <1>4 DEF LoopsAround
<1>6. TypeOK'
  BY <1>2, <1>3 DEF TypeOK, CloseBlock, loop, function, NoJump, Position, NULL, Generating
<1>7. LoopContext'
  BY <1>1, <1>2, <1>3, <1>4, <1>5
     DEF Context, LoopContext, CloseBlock, loop, Nearest, LoopsAround
<1>8. InFunction' <=> InFunction
  BY <1>1, <1>2, <1>3, <1>4 DEF InFunction
<1>9. FunctionContext'
  BY <1>1, <1>2, <1>3, <1>4, <1>8
     DEF Context, FunctionContext, CloseBlock, function, InLiteral, OutsideLiteral
<1> QED BY <1>6, <1>7, <1>9 DEF Context

LEMMA OpenLoopStep ==
  ASSUME Context, OpenLoop, code' = NoJump
  PROVE  Context'
<1> USE LoopAssumption
<1>1. path' = Append(path, Plain("loop")) /\ Plain("loop") \in Node
  BY DEF OpenLoop, Context, TypeOK, Plain, Node
<1>2. TypeOK /\ Here \in Nat /\ DOMAIN path = 1 .. Here
  BY PathDomain DEF Context
<1>3. /\ path' \in Seq(Node)
      /\ Here' = Here + 1 /\ DOMAIN (path') = 1 .. Here + 1
      /\ \A i \in 1 .. Here : path'[i] = path[i]
      /\ path'[Here + 1] = Plain("loop")
  BY <1>1, <1>2, Push
<1>4. path'[Here + 1].what = "loop"
  BY <1>3 DEF Plain
<1>5. LoopsAround' = LoopsAround \cup {Here + 1} /\ Here + 1 \notin LoopsAround
  BY <1>2, <1>3, <1>4 DEF LoopsAround
<1>6. Cardinality(LoopsAround') = Cardinality(LoopsAround) + 1
  BY <1>2, <1>5, FS_AddElement, LoopsAroundFinite
<1>7. inLoop' = Cardinality(LoopsAround')
  BY <1>6 DEF OpenLoop, Context, LoopContext
<1>8. Here' <= MaxDepth
  BY <1>2, <1>3 DEF OpenLoop, Opens
<1>9. TypeOK'
  <2>1. inLoop' \in Position
    BY <1>3, <1>7, <1>8, InLoopBounded
  <2>2. LoopBody' \in Position /\ LoopGotoLabel' \in Position
    BY <1>2, <1>3, <1>8 DEF OpenLoop, Position
  <2> QED
    BY <1>2, <1>3, <1>8, <2>1, <2>2
       DEF TypeOK, OpenLoop, Opens, Generating, function, NoJump, Position, NULL
<1>10. LoopContext'
  BY <1>2, <1>3, <1>4, <1>7 DEF LoopContext, OpenLoop, Nearest, NULL
<1>11. InFunction' <=> InFunction
  BY <1>2, <1>3, <1>4 DEF InFunction
<1>12. FunctionContext'
  BY <1>2, <1>3, <1>4, <1>11
     DEF Context, FunctionContext, OpenLoop, function, InLiteral, OutsideLiteral
<1> QED BY <1>9, <1>10, <1>12 DEF Context

LEMMA CloseLoopStep ==
  ASSUME Context, CloseLoop, code' = NoJump
  PROVE  Context'
<1> USE LoopAssumption
<1>1. TypeOK /\ Here \in Nat /\ DOMAIN path = 1 .. Here /\ path \in [1 .. Here -> Node]
  BY PathDomain DEF Context
<1>2. path # <<>> /\ path[Here].what = "loop"
  BY DEF CloseLoop, Innermost, Last, Here
<1>3. Here > 0 /\ Here - 1 \in Nat
  BY <1>1, <1>2, EmptySeq DEF TypeOK, Here
<1>4. /\ path' = [i \in 1 .. Here - 1 |-> path'[i]]
      /\ \A i \in 1 .. Here - 1 : path'[i] = [path[i] EXCEPT !.looped = TRUE]
  BY DEF CloseLoop
<1>5. \A i \in 1 .. Here - 1 :
         /\ path'[i] \in Node
         /\ path'[i].what = path[i].what /\ path'[i].oldisFunc = path[i].oldisFunc
         /\ path'[i].looped
  <2> TAKE i \in 1 .. Here - 1
  <2>1. path[i] \in Node /\ path'[i] = [path[i] EXCEPT !.looped = TRUE]
    BY <1>1, <1>4
  <2> QED BY <2>1 DEF Node
<1>6. path' \in Seq(Node) /\ Here' = Here - 1 /\ DOMAIN (path') = 1 .. Here - 1
  BY <1>1, <1>3, <1>4, <1>5, Marked
<1>7. LoopsAround' = LoopsAround \ {Here} /\ Here \in LoopsAround
  BY <1>1, <1>2, <1>3, <1>5, <1>6 DEF LoopsAround
<1>8. Cardinality(LoopsAround') = Cardinality(LoopsAround) - 1
  BY <1>1, <1>7, FS_RemoveElement, LoopsAroundFinite
<1>9. inLoop' = Cardinality(LoopsAround')
  BY <1>8 DEF CloseLoop, Context, LoopContext
<1>10. Here' <= MaxDepth
  BY <1>1, <1>6 DEF TypeOK
<1>11. TypeOK'
  BY <1>1, <1>6, <1>9, <1>10, InLoopBounded
     DEF TypeOK, CloseLoop, Generating, function, NoJump, Position, NULL
<1>12. LoopContext'
  BY <1>1, <1>5, <1>6, <1>9 DEF LoopContext, CloseLoop, LoopsAround, NULL
<1>13. InFunction' <=> InFunction
  BY <1>1, <1>2, <1>3, <1>5, <1>6 DEF InFunction
<1>14. FunctionContext'
  <2>1. /\ UNCHANGED <<inFunc, inFuncLiteral, isFunc, FuncBody, FuncLiteralBody>>
        /\ OutsideLiteral' = OutsideLiteral
    BY <1>13 DEF CloseLoop, function, OutsideLiteral
  <2>2. InLiteral => FuncLiteralBody \in 1 .. Here - 1
    BY <1>1, <1>2 DEF Context, FunctionContext
  <2>3. /\ \A i \in 1 .. Here - 1 :
              /\ i \in 1 .. Here
              /\ path'[i].what = path[i].what /\ path'[i].oldisFunc = path[i].oldisFunc
        /\ InLiteral => FuncLiteralBody \in 1 .. Here - 1
    BY <1>1, <1>5, <2>2
  <2>4. InLiteral' = InLiteral /\ FunctionContext
    BY <2>1 DEF Context, InLiteral
  <2> QED
    BY <1>1, <1>6, <1>13, <2>1, <2>3, <2>4, SMTT(30) DEF FunctionContext
<1> QED BY <1>11, <1>12, <1>14 DEF Context

LEMMA OpenFunctionStep ==
  ASSUME Context, OpenFunction, code' = NoJump
  PROVE  Context'
<1> USE LoopAssumption
<1>1. PICK params \in BOOLEAN :
        /\ path' = Append(path, [Plain("function") EXCEPT !.params = params])
        /\ FuncParaList' = IF params THEN 1 ELSE NULL
  BY DEF OpenFunction
<1> DEFINE n == [Plain("function") EXCEPT !.params = params]
<1>2. TypeOK /\ Here = 0 /\ DOMAIN path = 1 .. Here
  BY PathDomain, LenProperties DEF Context, OpenFunction, Here
<1>3. n \in Node /\ n.what = "function" /\ n.oldisFunc = isFunc
  BY <1>2 DEF TypeOK, Plain, Node
<1> HIDE DEF n
<1>4. /\ path' \in Seq(Node)
      /\ Here' = 1 /\ DOMAIN (path') = 1 .. 1 /\ path'[1] = n
  BY <1>1, <1>2, <1>3, Push DEF n
<1>5. LoopsAround' = LoopsAround
  BY <1>2, <1>3, <1>4 DEF LoopsAround
<1>6. ~InLiteral /\ ~InFunction /\ isFunc = 0 /\ inFunc = -1 /\ LoopBody = NULL
  BY <1>2 DEF Context, FunctionContext, OutsideLiteral, InFunction, LoopContext, Nearest
<1>7. TypeOK'
  BY <1>1, <1>2, <1>4, <1>6
     DEF TypeOK, OpenFunction, Opens, Generating, loop, NoJump, Position, NULL
<1>8. LoopContext'
  <2>1. LoopsAround = {}
    BY <1>2 DEF LoopsAround
  <2>2. UNCHANGED <<inLoop, LoopBody, LoopGotoLabel>>
    BY DEF OpenFunction, loop
  <2> QED BY <1>5, <1>6, <2>1, <2>2 DEF Context, LoopContext
<1>9. InFunction' /\ ~InLiteral'
  BY <1>3, <1>4, <1>6 DEF InFunction, InLiteral, OpenFunction
<1>10. FunctionContext'
  BY <1>3, <1>4, <1>6, <1>9 DEF FunctionContext, OpenFunction, OutsideLiteral
<1> QED BY <1>7, <1>8, <1>10 DEF Context

LEMMA CloseFunctionStep ==
  ASSUME Context, CloseFunction, path' = Front(path), code' = NoJump,
         inFunc' = inFunc - 1, isFunc' = Last(path).oldisFunc, FuncBody' = NULL,
         FreeParaList, CheckReturn, UNCHANGED <<loop, inFuncLiteral, FuncLiteralBody, phase>>
  PROVE  Context'
<1> USE LoopAssumption
<1>1. path # <<>> /\ path[Here].what = "function" /\ isFunc' = path[Here].oldisFunc
  BY DEF CloseFunction, Innermost, Last, Here
<1>2. TypeOK /\ DOMAIN path = 1 .. Here /\ Here \in Nat
  BY PathDomain DEF Context
<1>3. Here = 1 /\ isFunc' = 0
  BY <1>1, <1>2, EmptySeq DEF TypeOK, Here, Context, FunctionContext
<1>4. path' \in Seq(Node) /\ Here' = 0 /\ DOMAIN (path') = {}
  BY <1>1, <1>2, <1>3, Pop
<1>5. LoopsAround' = LoopsAround
  BY <1>1, <1>2, <1>3, <1>4 DEF LoopsAround
<1>6. InFunction /\ ~InLiteral /\ LoopBody = NULL
  BY <1>1, <1>2, <1>3 DEF Context, FunctionContext, InFunction, LoopContext, Nearest
<1>7. errno' \in BOOLEAN
  BY <1>1, <1>2, PathDomain DEF CheckReturn, TypeOK
<1>8. TypeOK'
  BY <1>2, <1>3, <1>4, <1>6, <1>7
     DEF TypeOK, FreeParaList, loop, NoJump, Position, NULL, Context, FunctionContext
<1>9. LoopContext'
  BY <1>4, <1>5, <1>6 DEF Context, LoopContext, loop, LoopsAround
<1>10. ~InFunction' /\ ~InLiteral'
  BY <1>4, <1>6 DEF InFunction, InLiteral
<1>11. FunctionContext'
  BY <1>3, <1>4, <1>6, <1>10 DEF Context, FunctionContext, OutsideLiteral
<1> QED BY <1>8, <1>9, <1>11 DEF Context

LEMMA OpenLiteralStep ==
  ASSUME Context, OpenLiteral, code' = NoJump
  PROVE  Context'
<1> USE LoopAssumption
<1>1. PICK params \in BOOLEAN :
        /\ path' = Append(path, [Plain("literal") EXCEPT !.params = params])
        /\ FuncParaList' = IF params THEN Here + 1 ELSE NULL
  BY DEF OpenLiteral
<1> DEFINE n == [Plain("literal") EXCEPT !.params = params]
<1>2. TypeOK /\ Here \in Nat /\ DOMAIN path = 1 .. Here
  BY PathDomain DEF Context
<1>3. n \in Node /\ n.what = "literal" /\ n.oldisFunc = isFunc
  BY <1>2 DEF TypeOK, Plain, Node
<1> HIDE DEF n
<1>4. /\ path' \in Seq(Node)
      /\ Here' = Here + 1 /\ DOMAIN (path') = 1 .. Here + 1
      /\ \A i \in 1 .. Here : path'[i] = path[i]
      /\ path'[Here + 1] = n
  BY <1>1, <1>2, <1>3, Push DEF n
<1>5. LoopsAround' = LoopsAround
  BY <1>2, <1>3, <1>4 DEF LoopsAround
<1>6. ~InLiteral /\ inFuncLiteral' = 0
  BY <1>2 DEF OpenLiteral, InLiteral, TypeOK
<1>7. TypeOK'
  <2>1. Here + 1 \in Position
    BY <1>2 DEF OpenLiteral, Opens, Position
  <2> QED
    BY <1>1, <1>2, <1>4, <1>6, <2>1
       DEF TypeOK, OpenLiteral, Opens, Generating, loop, NoJump, Position, NULL
<1>8. LoopContext'
  BY <1>2, <1>3, <1>4, <1>5
     DEF Context, LoopContext, OpenLiteral, loop, Nearest, LoopsAround
<1>9. InFunction' <=> InFunction
  BY <1>2, <1>3, <1>4 DEF InFunction
<1>10. FunctionContext'
  <2>1. isFunc = OutsideLiteral /\ OutsideLiteral' = OutsideLiteral
    BY <1>6, <1>9 DEF Context, FunctionContext, OutsideLiteral
  <2>2. /\ isFunc' = -1 /\ FuncLiteralBody' = Here + 1
        /\ UNCHANGED <<inFunc, FuncBody>>
    BY DEF OpenLiteral
  <2>3. \A i \in DOMAIN (path') : path'[i].what = "function" => i = 1 /\ path'[i].oldisFunc = 0
    BY <1>2, <1>3, <1>4 DEF Context, FunctionContext
  <2>4. \A i \in DOMAIN (path') : path'[i].what = "literal" => i = Here + 1
    BY <1>2, <1>3, <1>4, <1>6 DEF Context, FunctionContext
  <2>5. /\ FuncLiteralBody' \in DOMAIN (path') /\ path'[FuncLiteralBody'].what = "literal"
        /\ path'[FuncLiteralBody'].oldisFunc = OutsideLiteral'
    BY <1>2, <1>3, <1>4, <2>1, <2>2
  <2> QED
    BY <1>6, <1>9, <2>2, <2>3, <2>4, <2>5 DEF Context, FunctionContext, InLiteral
<1> QED BY <1>7, <1>8, <1>10 DEF Context

LEMMA CloseLiteralStep ==
  ASSUME Context, CloseLiteral, code' = NoJump
  PROVE  Context'
<1> USE LoopAssumption
<1>1. /\ path # <<>> /\ path' = Front(path) /\ path[Here].what = "literal"
      /\ isFunc' = path[Here].oldisFunc
  BY DEF CloseLiteral, Innermost, Last, Here
<1>2. TypeOK /\ Here \in Nat /\ DOMAIN path = 1 .. Here /\ path \in [1 .. Here -> Node]
  BY PathDomain DEF Context
<1>3. /\ path' \in Seq(Node)
      /\ Here' = Here - 1 /\ DOMAIN (path') = 1 .. Here - 1
      /\ \A i \in 1 .. Here - 1 : path'[i] = path[i]
  BY <1>1, <1>2, Pop
<1>4. Here > 0
  BY <1>1, <1>2, EmptySeq DEF TypeOK, Here
<1>5. LoopsAround' = LoopsAround
  BY <1>1, <1>2, <1>3, <1>4 DEF LoopsAround
<1>6. InLiteral /\ FuncLiteralBody = Here
  BY <1>1, <1>2, <1>4 DEF Context, FunctionContext
<1>7. inFuncLiteral' = -1 /\ ~InLiteral' /\ isFunc' = OutsideLiteral
  BY <1>1, <1>6 DEF Context, FunctionContext, CloseLiteral, InLiteral
<1>8. TypeOK'
  <2>1. errno' \in BOOLEAN
    BY DEF CloseLiteral, CheckReturn, Context, TypeOK
  <2>2. isFunc' \in {-1, 0, 1}
    BY <1>7 DEF OutsideLiteral
  <2> QED
    BY <1>2, <1>3, <1>7, <2>1, <2>2
       DEF TypeOK, CloseLiteral, Generating, FreeParaList, loop, NoJump, Position, NULL
<1>9. LoopContext'
  BY <1>1, <1>2, <1>3, <1>4, <1>5
     DEF Context, LoopContext, CloseLiteral, loop, Nearest, LoopsAround
<1>10. InFunction' <=> InFunction
  BY <1>1, <1>2, <1>3, <1>4 DEF InFunction
<1>11. FunctionContext'
  BY <1>1, <1>2, <1>3, <1>4, <1>6, <1>7, <1>10
     DEF Context, FunctionContext, CloseLiteral, OutsideLiteral
<1> QED BY <1>8, <1>9, <1>11 DEF Context

\* A break or continue leaves the context alone.
LEMMA LoopJumpStep ==
  ASSUME IInv, NEW what \in {"break", "continue"}, NEW label \in {NULL, LoopGotoLabel},
         what = "continue" => label = LoopGotoLabel,
         LoopJump(what, label)
  PROVE  IInv'
<1> USE LoopAssumption
<1>1. TypeOK /\ Here \in Nat /\ DOMAIN path = 1 .. Here
  BY PathDomain DEF IInv, Context
<1>2. UNCHANGED <<path, loop, function, phase>> /\ Here' = Here
  BY DEF LoopJump, Here
<1>3. LoopContext' /\ FunctionContext'
  BY <1>2 DEF IInv, Context, LoopContext, FunctionContext, loop, function, LoopsAround, Nearest,
              InFunction, InLiteral, OutsideLiteral, Here
<1>4. CASE inLoop = 0
  <2>1. code' = NoJump /\ errno' = TRUE
    BY <1>4 DEF LoopJump
  <2>2. TypeOK'
    BY <1>1, <1>2, <2>1 DEF TypeOK, NoJump, Position, loop, function, NULL
  <2>3. Jumps'
    BY <2>1 DEF Jumps, JumpFreesNearestLoop, JumpLeavesLoop, ReturnLeavesFunction,
                LoopJumped, NoJump
  <2> QED BY <1>3, <2>2, <2>3 DEF IInv, Context
<1>5. CASE inLoop # 0
  <2> DEFINE S == getAllScopeIdInside(LoopBody)
  <2>1. /\ code' = [NoJump EXCEPT !.what = what, !.label = label, !.found = Found(LoopBody),
                                  !.frees = S]
        /\ UNCHANGED errno
    BY <1>5 DEF LoopJump
  <2>2. S = IF LoopBody = NULL THEN {} ELSE LoopBody .. Here
    BY DEF getAllScopeIdInside
  <2>3. S \in SUBSET (1 .. MaxDepth) /\ Found(LoopBody) \in BOOLEAN /\ label \in Position
    BY <1>1, <2>2 DEF TypeOK, Position, Found, NULL
  <2> HIDE DEF S
  <2>4. code'.what = what /\ code'.frees = S /\ code'.label = label
    BY <2>1 DEF NoJump
  <2>5. TypeOK'
    <3>1. code' = [what |-> what, frees |-> S, found |-> Found(LoopBody), label |-> label,
                   keeps |-> NULL]
      BY <2>1 DEF NoJump
    <3>2. NULL \in Position
      BY DEF NULL, Position
    <3> QED BY <1>1, <1>2, <2>1, <2>3, <3>1, <3>2 DEF TypeOK, loop, function
  <2>6. JumpFreesNearestLoop'
    BY <1>2, <2>2, <2>4
       DEF JumpFreesNearestLoop, LoopJumped, Nearest, IInv, Context, LoopContext
  <2>7. JumpLeavesLoop'
    <3> SUFFICES ASSUME NEW l \in DOMAIN path,
                        Nearest(l, {"loop", "foreach", "literal"}), path[l].what = "loop",
                        ~path[l].looped
                 PROVE  S = l .. Here /\ (what = "continue" => label = l)
      BY <1>2, <2>4 DEF JumpLeavesLoop, LoopJumped, Nearest
    <3>1. LoopBody # NULL /\ Nearest(LoopBody, {"loop"}) /\ LoopGotoLabel = LoopBody
      BY DEF IInv, Context, LoopContext, LoopsAround
    <3>2. LoopBody = l
      BY <1>1, <3>1 DEF Nearest
    <3> QED BY <2>2, <3>1, <3>2
  <2>8. ReturnLeavesFunction'
    BY <2>4 DEF ReturnLeavesFunction
  <2> QED BY <1>3, <2>5, <2>6, <2>7, <2>8 DEF IInv, Context, Jumps
<1> QED BY <1>4, <1>5

\* A return only marks the function it is in.
LEMMA ReturnStep ==
  ASSUME IInv, Return
  PROVE  IInv'
<1> USE LoopAssumption
<1>1. /\ TypeOK /\ Here \in Nat /\ DOMAIN path = 1 .. Here /\ path \in [1 .. Here -> Node]
      /\ path = [i \in 1 .. Here |-> path[i]]
  BY PathDomain DEF IInv, Context
<1> DEFINE body == IF isFunc = 1 THEN FuncBody ELSE FuncLiteralBody
<1>2. UNCHANGED <<loop, function, phase>>
  BY DEF Return
<1>3. /\ path' = [i \in 1 .. Here |-> path'[i]]
      /\ \A i \in 1 .. Here :
           \/ path'[i] = path[i]
           \/ path'[i] = [path[i] EXCEPT !.returns = @ \/ i = body]
  BY <1>1 DEF Return
<1>4. \A i \in 1 .. Here :
         /\ path'[i] \in Node
         /\ path'[i].what = path[i].what /\ path'[i].oldisFunc = path[i].oldisFunc
         /\ path'[i].looped = path[i].looped
  <2> TAKE i \in 1 .. Here
  <2>1. path[i] \in Node
    BY <1>1
  <2>2. (path[i].returns \/ i = body) \in BOOLEAN
    OBVIOUS
  <2> QED BY <1>3, <2>1, <2>2 DEF Node
<1>5. path' \in Seq(Node) /\ Here' = Here /\ DOMAIN (path') = 1 .. Here
  BY <1>1, <1>3, <1>4, Marked
<1>6. LoopsAround' = LoopsAround /\ (InFunction' <=> InFunction)
  BY <1>1, <1>4, <1>5 DEF LoopsAround, InFunction
<1>7. LoopContext'
  BY <1>1, <1>2, <1>4, <1>5, <1>6
     DEF IInv, Context, LoopContext, loop, Nearest, LoopsAround
<1>8. FunctionContext'
  BY <1>1, <1>2, <1>4, <1>5, <1>6
     DEF IInv, Context, FunctionContext, function, InLiteral, OutsideLiteral
<1>9. CASE code' = NoJump
  <2>1. errno' = TRUE
    BY <1>9 DEF Return, NoJump
  <2>2. TypeOK'
    BY <1>1, <1>2, <1>5, <1>9, <2>1 DEF TypeOK, NoJump, Position, loop, function, NULL
  <2>3. Jumps'
    BY <1>9 DEF Jumps, JumpFreesNearestLoop, JumpLeavesLoop, ReturnLeavesFunction,
                LoopJumped, NoJump
  <2> QED BY <1>7, <1>8, <2>2, <2>3 DEF IInv, Context
<1>10. CASE code' # NoJump
  <2> DEFINE S == getAllScopeIdInside(body)
  <2>1. /\ ~(inFunc < 0 /\ inFuncLiteral < 0)
        /\ code' = [NoJump EXCEPT !.what = "return", !.found = Found(body), !.frees = S,
                                  !.keeps = FuncParaList]
        /\ UNCHANGED errno
    BY <1>10 DEF Return
  <2>2. body \in 1 .. Here /\ Nearest(body, {"function", "literal"})
    BY <1>1, <2>1
       DEF IInv, Context, FunctionContext, InFunction, InLiteral, OutsideLiteral, Nearest, TypeOK
  <2> HIDE DEF body
  <2>3. S = body .. Here
    BY <1>1, <2>2 DEF getAllScopeIdInside, NULL
  <2>4. S \in SUBSET (1 .. MaxDepth) /\ Found(body) \in BOOLEAN
    BY <1>1, <2>2, <2>3 DEF TypeOK, Found
  <2> HIDE DEF S
  <2>5. code'.what = "return" /\ code'.frees = S
    BY <2>1 DEF NoJump
  <2>6. TypeOK'
    <3>1. code' = [what |-> "return", frees |-> S, found |-> Found(body), label |-> NULL,
                   keeps |-> FuncParaList]
      BY <2>1 DEF NoJump
    <3>2. NULL \in Position
      BY DEF NULL, Position
    <3> QED BY <1>1, <1>2, <1>5, <2>1, <2>4, <3>1, <3>2 DEF TypeOK, loop, function
  <2>7. ReturnLeavesFunction'
    BY <1>1, <1>4, <1>5, <2>2, <2>3, <2>5 DEF ReturnLeavesFunction, Nearest
  <2>8. JumpFreesNearestLoop' /\ JumpLeavesLoop'
    BY <2>5 DEF JumpFreesNearestLoop, JumpLeavesLoop, LoopJumped
  <2> QED BY <1>7, <1>8, <2>6, <2>7, <2>8 DEF IInv, Context, Jumps
<1> QED BY <1>9, <1>10

\* The steps that leave the path and the context alone.
LEMMA OtherStep ==
  ASSUME Context, UNCHANGED <<path, loop, function>>, code' = NoJump,
         errno' \in BOOLEAN, phase' \in {"generate", "done", "crashed"}
  PROVE  Context'
<1>1. TypeOK'
  BY LoopAssumption DEF Context, TypeOK, loop, function, NoJump, Position, NULL, Here
<1>2. LoopContext' /\ FunctionContext'
  BY DEF Context, LoopContext, FunctionContext, loop, function, LoopsAround, Nearest,
         InFunction, InLiteral, OutsideLiteral, Here
<1> QED BY <1>1, <1>2 DEF Context

LEMMA WalkStep ==
  ASSUME IInv, Walk, code' = NoJump
  PROVE  IInv'
<1>1. Jumps'
  BY DEF Jumps, JumpFreesNearestLoop, JumpLeavesLoop, ReturnLeavesFunction, LoopJumped, NoJump
<1>2. Context /\ errno \in BOOLEAN /\ phase \in {"generate", "done", "crashed"}
  BY DEF IInv, Context, TypeOK
<1>3. CASE OpenBlock
  BY <1>1, <1>2, <1>3, OpenBlockStep DEF IInv
<1>4. CASE CloseBlock
  BY <1>1, <1>2, <1>4, CloseBlockStep DEF IInv
<1>5. CASE TypeError
  BY <1>1, <1>2, <1>5, OtherStep DEF IInv, TypeError
<1>6. CASE OpenLoop
  BY <1>1, <1>2, <1>6, OpenLoopStep DEF IInv
<1>7. CASE CloseLoop
  BY <1>1, <1>2, <1>7, CloseLoopStep DEF IInv
<1>8. CASE MissingExpression
  BY <1>1, <1>2, <1>8, OtherStep DEF IInv, MissingExpression
<1>9. CASE OpenFunction
  BY <1>1, <1>2, <1>9, OpenFunctionStep DEF IInv
<1>10. CASE CloseFunction
  <2>1. CASE phase' = "crashed" /\ UNCHANGED <<path, loop, function, errno>>
    BY <1>1, <1>2, <2>1, OtherStep DEF IInv
  <2>2. CASE ~(phase' = "crashed" /\ UNCHANGED <<path, loop, function, errno>>)
    <3>1. /\ path' = Front(path) /\ inFunc' = inFunc - 1 /\ isFunc' = Last(path).oldisFunc
          /\ FuncBody' = NULL /\ FreeParaList /\ CheckReturn
          /\ UNCHANGED <<loop, inFuncLiteral, FuncLiteralBody, phase>>
      BY <1>10, <2>2 DEF CloseFunction
    <3> QED BY <1>1, <1>2, <1>10, <3>1, CloseFunctionStep DEF IInv
  <2> QED BY <2>1, <2>2
<1>11. CASE OpenLiteral
  BY <1>1, <1>2, <1>11, OpenLiteralStep DEF IInv
<1>12. CASE CloseLiteral
  BY <1>1, <1>2, <1>12, CloseLiteralStep DEF IInv
<1>13. CASE NestedLiteral
  BY <1>1, <1>2, <1>13, OtherStep DEF IInv, NestedLiteral
<1>14. CASE EndOfCode
  BY <1>1, <1>2, <1>14, OtherStep DEF IInv, EndOfCode
<1> QED
  BY <1>3, <1>4, <1>5, <1>6, <1>7, <1>8, <1>9, <1>10, <1>11, <1>12, <1>13, <1>14 DEF Walk

-----------------------------------------------------------------------------
(* Theorems.                                                               *)

\* The context describes the constructs around the node, and jumps are right,
\* for programs nested to any depth.
THEOREM Invariance == Spec => []IInv
<1>1. Init => IInv
  <2> SUFFICES ASSUME Init PROVE IInv
    OBVIOUS
  <2>1. Here = 0 /\ DOMAIN path = {} /\ path \in Seq(Node)
    BY EmptySeq DEF Init, Here
  <2>2. LoopsAround = {} /\ Cardinality(LoopsAround) = 0
    BY <2>1, FS_EmptySet DEF LoopsAround
  <2>3. TypeOK
    <3>1. NULL \in Position /\ 0 \in Position /\ 0 <= MaxDepth
      BY LoopAssumption DEF NULL, Position
    <3>2. code = [what |-> "none", frees |-> {}, found |-> TRUE, label |-> NULL, keeps |-> NULL]
      BY DEF Init, NoJump
    <3>3. path \in Seq(Node) /\ Here <= MaxDepth
      BY <2>1, <3>1
    <3>4. /\ inLoop \in Position /\ LoopBody \in Position /\ LoopGotoLabel \in Position
          /\ FuncLiteralBody \in Position /\ FuncParaList \in Position \cup {Freed}
      BY <3>1 DEF Init
    <3>5. /\ inFunc \in {-1, 0} /\ inFuncLiteral \in {-1, 0} /\ isFunc \in {-1, 0, 1}
          /\ FuncBody \in {NULL, 1} /\ errno \in BOOLEAN
          /\ phase \in {"generate", "done", "crashed"}
      BY DEF Init
    <3>6. code \in [what : {"none", "break", "continue", "return"},
                    frees : SUBSET (1 .. MaxDepth), found : BOOLEAN, label : Position,
                    keeps : Position \cup {Freed}]
      BY <3>1, <3>2
    <3> QED BY <3>3, <3>4, <3>5, <3>6 DEF TypeOK
  <2>4. LoopContext /\ FunctionContext
    BY <2>1, <2>2
       DEF Init, LoopContext, FunctionContext, InFunction, InLiteral, OutsideLiteral
  <2>5. Jumps
    BY DEF Init, Jumps, JumpFreesNearestLoop, JumpLeavesLoop, ReturnLeavesFunction,
           LoopJumped, NoJump
  <2> QED BY <2>3, <2>4, <2>5 DEF IInv, Context
<1>2. IInv /\ [Next]_vars => IInv'
  <2> SUFFICES ASSUME IInv, [Next]_vars PROVE IInv'
    OBVIOUS
  <2>1. CASE Break
    BY <2>1, LoopJumpStep DEF Break
  <2>2. CASE Continue
    BY <2>2, LoopJumpStep DEF Continue
  <2>3. CASE Return
    BY <2>3, ReturnStep
  <2>4. CASE Walk /\ code' = NoJump
    BY <2>4, WalkStep
  <2>5. CASE UNCHANGED vars
    BY <2>5 DEF vars, loop, function, IInv, Context, Jumps, TypeOK, LoopContext,
                FunctionContext, LoopsAround, Nearest, InFunction, InLiteral, OutsideLiteral,
                JumpFreesNearestLoop, JumpLeavesLoop, ReturnLeavesFunction, LoopJumped, Here
  <2> QED BY <2>1, <2>2, <2>3, <2>4, <2>5 DEF Next, Jump
<1> QED BY <1>1, <1>2, PTL DEF Spec

\* Type correctness.
THEOREM TypeCorrect == Spec => []TypeOK
<1>1. IInv => TypeOK
  BY DEF IInv, Context
<1> QED BY <1>1, Invariance, PTL

\* A break or continue frees nothing or the blocks of the nearest while or for.
THEOREM JumpsNearest == Spec => []JumpFreesNearestLoop
<1>1. IInv => JumpFreesNearestLoop
  BY DEF IInv, Jumps
<1> QED BY <1>1, Invariance, PTL

\* In a loop that holds no ended loop, it frees exactly the blocks it leaves.
THEOREM SimpleJumpsExact == Spec => []JumpLeavesLoop
<1>1. IInv => JumpLeavesLoop
  BY DEF IInv, Jumps
<1> QED BY <1>1, Invariance, PTL

\* Every return frees exactly the blocks of its function or literal.
THEOREM ReturnsExact == Spec => []ReturnLeavesFunction
<1>1. IInv => ReturnLeavesFunction
  BY DEF IInv, Jumps
<1> QED BY <1>1, Invariance, PTL

=============================================================================
