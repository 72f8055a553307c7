------------------------------ MODULE LoopCode ------------------------------
(***************************************************************************)
(* The context codeGen keeps while it walks the tree of a program: the     *)
(* loop and the function it is in, in global variables, and the jumps it   *)
(* generates from them.  A jump first frees the variables of the blocks it *)
(* leaves, so it has to know which these are.  A behaviour is the walk     *)
(* over the tree of some program the parser accepted.                      *)
(*                                                                         *)
(* A construct on the way from the root to the node being generated, and   *)
(* the scope of its body, are named by their position on that way.         *)
(***************************************************************************)
EXTENDS Integers, Sequences, SequencesExt

CONSTANT MaxDepth   \* bound: how deep constructs nest

ASSUME LoopAssumption == MaxDepth \in Nat \ {0}

VARIABLES
  path,             \* the constructs around the node, the outermost first
  inLoop,           \* how many while and for statements are around it
  LoopBody,         \* the body of the loop, as far as codeGen remembers
  LoopGotoLabel,    \* the label of the same loop
  inFunc, inFuncLiteral,  \* how many functions, literals are around it, less one
  isFunc,           \* 1 in a function, -1 in a literal, 0 in the main program
  FuncBody, FuncLiteralBody,
  FuncParaList,     \* whose parameters the list holds
  errno,            \* has ERRNO been set?
  code,             \* the jump generated in this step, if one is
  phase             \* generate, done, crashed (the compiler)

loop == <<inLoop, LoopBody, LoopGotoLabel>>
function == <<inFunc, inFuncLiteral, isFunc, FuncBody, FuncLiteralBody, FuncParaList>>
vars == <<path, loop, function, errno, code, phase>>

NULL == 0       \* no position
Freed == -1     \* a list that has been freed

Node == [what : {"block", "loop", "foreach", "function", "literal"},
         params : BOOLEAN,      \* of a function or literal: has it any?
         returns : BOOLEAN,     \* noReturn: has one been generated?
         oldisFunc : {-1, 0, 1},
         looped : BOOLEAN]      \* history: has a loop inside it ended?

Plain(what) == [what |-> what, params |-> FALSE, returns |-> FALSE,
                oldisFunc |-> isFunc, looped |-> FALSE]

Here == Len(path)
Innermost == IF path = <<>> THEN "program" ELSE Last(path).what
NoJump == [what |-> "none", frees |-> {}, found |-> TRUE, label |-> NULL, keeps |-> NULL]

Generating == phase = "generate"
Opens == Generating /\ Here < MaxDepth

-----------------------------------------------------------------------------
(* Blocks and loops.                                                       *)

\* The block of an if, a block of its own; a foreach, which leaves the context
\* of the loop alone.
OpenBlock ==
  /\ Opens
  /\ \E what \in {"block", "foreach"} : path' = Append(path, Plain(what))
  /\ UNCHANGED <<loop, function, errno, phase>>

CloseBlock ==
  /\ Generating /\ Innermost \in {"block", "foreach"}
  /\ path' = Front(path)
  /\ UNCHANGED <<loop, function, errno, phase>>

\* An ill-typed if, whose blocks are skipped, or foreach, or other statement.
TypeError ==
  /\ Generating
  /\ errno' = TRUE
  /\ UNCHANGED <<path, loop, function, phase>>

\* while and for, up to codeGen of their body (an empty one holds no jump).
OpenLoop ==
  /\ Opens
  /\ path' = Append(path, Plain("loop"))
  /\ inLoop' = inLoop + 1
  /\ LoopBody' = Here + 1 /\ LoopGotoLabel' = Here + 1
  /\ UNCHANGED <<function, errno, phase>>

\* A mutant: the context outlives the loop.
CloseLoopKeepContext ==
  /\ Generating /\ Innermost = "loop"
  /\ path' = [i \in 1 .. Here - 1 |-> [path[i] EXCEPT !.looped = TRUE]]
  /\ inLoop' = inLoop - 1
  /\ UNCHANGED <<LoopBody, LoopGotoLabel, function, errno, phase>>

\* After the body: the context is reset, not set back to the loop around.
CloseLoop ==
  /\ Generating /\ Innermost = "loop"
  /\ path' = [i \in 1 .. Here - 1 |-> [path[i] EXCEPT !.looped = TRUE]]
  /\ inLoop' = inLoop - 1
  /\ LoopBody' = NULL /\ LoopGotoLabel' = NULL
  /\ UNCHANGED <<function, errno, phase>>

\* A for without one of its expressions: f1->type and the like read NULL.
MissingExpression ==
  /\ Generating /\ Innermost = "loop"
  /\ phase' = "crashed"
  /\ UNCHANGED <<path, loop, function, errno>>

-----------------------------------------------------------------------------
(* Functions and function literals.                                        *)

OpenFunction ==
  /\ Opens /\ path = <<>>
  /\ inFunc' = inFunc + 1 /\ isFunc' = 1 /\ FuncBody' = 1
  /\ \E params \in BOOLEAN :
       /\ path' = Append(path, [Plain("function") EXCEPT !.params = params])
       /\ FuncParaList' = IF params THEN 1 ELSE NULL
  /\ UNCHANGED <<loop, inFuncLiteral, FuncLiteralBody, errno, phase>>

\* A mutant: a literal inside a literal is accepted.
OpenLiteralAnywhere ==
  /\ Opens
  /\ inFuncLiteral' = inFuncLiteral + 1 /\ isFunc' = -1 /\ FuncLiteralBody' = Here + 1
  /\ path' = Append(path, Plain("literal")) /\ FuncParaList' = NULL
  /\ UNCHANGED <<loop, inFunc, FuncBody, errno, phase>>

OpenLiteral ==
  /\ Opens /\ inFuncLiteral < 0
  /\ inFuncLiteral' = inFuncLiteral + 1 /\ isFunc' = -1 /\ FuncLiteralBody' = Here + 1
  /\ \E params \in BOOLEAN :
       /\ path' = Append(path, [Plain("literal") EXCEPT !.params = params])
       /\ FuncParaList' = IF params THEN Here + 1 ELSE NULL
  /\ UNCHANGED <<loop, inFunc, FuncBody, errno, phase>>

\* "nested function literal in another function literal": its body is skipped.
NestedLiteral ==
  /\ Opens /\ inFuncLiteral >= 0
  /\ errno' = TRUE
  /\ UNCHANGED <<path, loop, function, phase>>

\* g_list_free, which a second time for one list corrupts the compiler's heap.
FreeParaList == FuncParaList' = IF FuncParaList = NULL THEN NULL ELSE Freed

CheckReturn == errno' = (errno \/ ~Last(path).returns)

CloseFunction ==
  /\ Generating /\ Innermost = "function"
  /\ \/ /\ FuncParaList = Freed
        /\ phase' = "crashed"
        /\ UNCHANGED <<path, loop, function, errno>>
     \/ /\ path' = Front(path)
        /\ inFunc' = inFunc - 1 /\ isFunc' = Last(path).oldisFunc /\ FuncBody' = NULL
        /\ FreeParaList /\ CheckReturn
        /\ UNCHANGED <<loop, inFuncLiteral, FuncLiteralBody, phase>>

\* A mutant: isFunc is not set back.
CloseLiteralStillLiteral ==
  /\ Generating /\ Innermost = "literal"
  /\ path' = Front(path)
  /\ inFuncLiteral' = inFuncLiteral - 1 /\ FuncLiteralBody' = NULL
  /\ FreeParaList /\ CheckReturn
  /\ UNCHANGED <<loop, inFunc, isFunc, FuncBody, phase>>

CloseLiteral ==
  /\ Generating /\ Innermost = "literal"
  /\ path' = Front(path)
  /\ inFuncLiteral' = inFuncLiteral - 1 /\ isFunc' = Last(path).oldisFunc
  /\ FuncLiteralBody' = NULL
  /\ FreeParaList /\ CheckReturn
  /\ UNCHANGED <<loop, inFunc, FuncBody, phase>>

-----------------------------------------------------------------------------
(* Jumps.                                                                  *)

\* A mutant: the scope of the body itself is left out.
BelowScope(body) == IF body = NULL THEN {} ELSE body + 1 .. Here

\* getAllScopeIdInside(body, NULL, node): the scopes on the way from the body
\* to the jump, none when the jump is not found in it.
getAllScopeIdInside(body) == IF body = NULL THEN {} ELSE body .. Here
Found(body) == getAllScopeIdInside(body) # {}

\* break frees and leaves; continue frees and goes to the label.
LoopJump(what, label) ==
  /\ Generating
  /\ IF inLoop = 0
     THEN errno' = TRUE /\ code' = NoJump
     ELSE /\ code' = [NoJump EXCEPT !.what = what, !.label = label, !.found = Found(LoopBody),
                                    !.frees = getAllScopeIdInside(LoopBody)]
          /\ UNCHANGED errno
  /\ UNCHANGED <<path, loop, function, phase>>

Break == LoopJump("break", NULL)
Continue == LoopJump("continue", LoopGotoLabel)

\* return counts itself, then frees; an ill-typed one only counts itself.
Return ==
  /\ Generating
  /\ LET body == IF isFunc = 1 THEN FuncBody ELSE FuncLiteralBody
     IN  IF inFunc < 0 /\ inFuncLiteral < 0
         THEN errno' = TRUE /\ code' = NoJump /\ UNCHANGED path
         ELSE /\ path' = [i \in DOMAIN path |->
                            [path[i] EXCEPT !.returns = @ \/ i = body]]
              /\ \/ errno' = TRUE /\ code' = NoJump
                 \/ /\ code' = [NoJump EXCEPT
                                  !.what = "return", !.found = Found(body),
                                  !.frees = getAllScopeIdInside(body), !.keeps = FuncParaList]
                    /\ UNCHANGED errno
  /\ UNCHANGED <<loop, function, phase>>

EndOfCode ==
  /\ Generating /\ path = <<>>
  /\ phase' = "done"
  /\ UNCHANGED <<path, loop, function, errno>>

-----------------------------------------------------------------------------
Init ==
  /\ path = <<>>
  /\ inLoop = 0 /\ LoopBody = NULL /\ LoopGotoLabel = NULL
  /\ inFunc = -1 /\ inFuncLiteral = -1 /\ isFunc = 0
  /\ FuncBody = NULL /\ FuncLiteralBody = NULL /\ FuncParaList = NULL
  /\ errno = FALSE /\ code = NoJump /\ phase = "generate"

Jump == Break \/ Continue \/ Return

Walk ==
  \/ OpenBlock \/ CloseBlock \/ TypeError \/ OpenLoop \/ CloseLoop \/ MissingExpression
  \/ OpenFunction \/ CloseFunction \/ OpenLiteral \/ CloseLiteral \/ NestedLiteral
  \/ EndOfCode

Next == Jump \/ (Walk /\ code' = NoJump)

Spec == Init /\ [][Next]_vars

-----------------------------------------------------------------------------
(* Properties.                                                             *)

Position == 0 .. MaxDepth

TypeOK ==
  /\ path \in Seq(Node) /\ Here <= MaxDepth
  /\ inLoop \in Position /\ LoopBody \in Position /\ LoopGotoLabel \in Position
  /\ inFunc \in {-1, 0} /\ inFuncLiteral \in {-1, 0} /\ isFunc \in {-1, 0, 1}
  /\ FuncBody \in {NULL, 1} /\ FuncLiteralBody \in Position
  /\ FuncParaList \in Position \cup {Freed}
  /\ errno \in BOOLEAN
  /\ code \in [what : {"none", "break", "continue", "return"}, frees : SUBSET (1 .. MaxDepth),
               found : BOOLEAN, label : Position, keeps : Position \cup {Freed}]
  /\ phase \in {"generate", "done", "crashed"}

\* Position l is that of the nearest construct around of these kinds.
Nearest(l, kinds) ==
  /\ l \in DOMAIN path /\ path[l].what \in kinds
  /\ \A i \in DOMAIN path : i > l => path[i].what \notin kinds

LoopJumped == code.what \in {"break", "continue"}

\* A break or continue frees nothing at all, or the scopes from the body of the
\* nearest while or for up to itself: never those of a loop farther out or of
\* a loop that has ended.
JumpFreesNearestLoop ==
  LoopJumped =>
    code.frees = {} \/ \E l \in DOMAIN path : Nearest(l, {"loop"}) /\ code.frees = l .. Here

\* In a loop in which no other loop has ended, and with no foreach or literal
\* between the loop and the jump, a break or continue frees exactly the blocks it leaves, and a
\* continue goes to the end of the body it is in.
JumpLeavesLoop ==
  LoopJumped =>
    \A l \in DOMAIN path :
      Nearest(l, {"loop", "foreach", "literal"}) /\ path[l].what = "loop" /\ ~path[l].looped
        => code.frees = l .. Here /\ (code.what = "continue" => code.label = l)

\* A return frees exactly the blocks of the function or literal it is in,
\* whatever literals and loops came before it.
ReturnLeavesFunction ==
  code.what = "return" =>
    \E f \in DOMAIN path : Nearest(f, {"function", "literal"}) /\ code.frees = f .. Here

=============================================================================
