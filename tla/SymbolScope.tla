----------------------------- MODULE SymbolScope -----------------------------
(***************************************************************************)
(* The compiler's symbol table while it parses an NSBL program: the table  *)
(* keyed by name and scope id and the stack of scope ids of SymbolTable.c, *)
(* the insertions and lookups of SymbolTableUtil.c, and the actions of the *)
(* grammar of Parser.y that drive them.  A behaviour is the sequence of    *)
(* reductions of some program, with or without errors, and the resolution  *)
(* of one of its function calls when code is generated.                    *)
(***************************************************************************)
EXTENDS Naturals, Sequences, SequencesExt, FiniteSetsExt

CONSTANTS
  Name,       \* identifiers
  Called,     \* the identifiers a call may name
  None,       \* no entry
  MaxScope    \* bound: the highest scope id

ASSUME ScopeAssumption ==
  /\ MaxScope \in Nat /\ Called \subseteq Name
  /\ None \notin Name \cup Nat \cup (Name \X Nat)

Scope == 0 .. MaxScope
Entry == {"variable", "foreach", "function", "literal", "attribute"}
Construct == {"block", "foreach", "function", "literal", "match"}

VARIABLES
  table,           \* s_table: the entry of each key <<name, scope id>>
  stack,           \* s_stack: the ids of the open scopes
  nextScope,       \* the static counter of s_table_new_scopeid
  isDynamicScope,  \* may @name be used here?  isNoTypeCheck always equals it
  errno,           \* has ERRNO been set?
  open,            \* the parser's stack: the constructs being read, with their
                   \* name, the scope pushed for each and the one around it
  call,            \* a call f() of the program, and the key of the entry
                   \* visible where it stands
  answer,          \* the key of the entry this step looked up
  phase            \* parse, generate, resolved (the call is), done

vars == <<table, stack, nextScope, isDynamicScope, errno, open, call, answer, phase>>

-----------------------------------------------------------------------------
(* SymbolTable.c and SymbolTableUtil.c.                                    *)

Top == Last(stack)

\* The declarations s_table_insert accepts: those with a fresh key.
Fresh(n, id) == <<n, id>> \notin DOMAIN table
With(t, keys, what) ==
  [k \in DOMAIN t \cup keys |-> IF k \in DOMAIN t THEN t[k] ELSE what]
Inserted(t, n, id, what) == With(t, {<<n, id>>}, what)

\* A mutant: the search goes from the outermost scope inwards.
LookupOutermost(n) ==
  LET found == {i \in DOMAIN stack : ~Fresh(n, stack[i])}
  IN  IF found = {} THEN None ELSE <<n, stack[Min(found)]>>

\* sTableTryLookupId: the key of n in the innermost open scope that
\* has one; sStackReset comes first, then sStackDown to the bottom.
Lookup(n) ==
  LET found == {i \in DOMAIN stack : ~Fresh(n, stack[i])}
  IN  IF found = {} THEN None ELSE <<n, stack[Max(found)]>>

\* sTableInsertId and its siblings: an entry, or "already declared".
Insert(n, id, what) ==
  IF Fresh(n, id) THEN table' = Inserted(table, n, id, what) /\ UNCHANGED errno
                  ELSE errno' = TRUE /\ UNCHANGED table

\* The parameters of a function or literal, in its new scope.
Parameters(t, ps) == With(t, ps \X {nextScope}, "variable")

-----------------------------------------------------------------------------
(* Parser.y.                                                               *)

Innermost == IF open = <<>> THEN "program" ELSE Last(open).what
InStatements == phase = "parse" /\ Innermost # "match"

\* scope_in for a construct.
Opening(what, name) ==
  /\ nextScope <= MaxScope /\ nextScope' = nextScope + 1
  /\ stack' = Append(stack, nextScope)
  /\ open' = Append(open, [what |-> what, name |-> name, scope |-> nextScope, within |-> Top])

\* '{' scope_in
OpenBlock ==
  /\ InStatements
  /\ Opening("block", None)
  /\ UNCHANGED <<table, isDynamicScope, errno, call, phase>>

\* foreach (T n : ...) {  The variable goes into the scope around the body.
Foreach(n) ==
  /\ InStatements
  /\ Insert(n, Top, "foreach")
  /\ Opening("foreach", n)
  /\ UNCHANGED <<isDynamicScope, call, phase>>

\* A mutant: scope_out does not pop the stack.
CloseBlockNoPop ==
  /\ phase = "parse" /\ Innermost \in {"block", "foreach"}
  /\ open' = Front(open)
  /\ UNCHANGED <<table, stack, nextScope, isDynamicScope, errno, call, phase>>

\* scope_out '}'
CloseBlock ==
  /\ phase = "parse" /\ Innermost \in {"block", "foreach"}
  /\ stack' = Front(stack)
  /\ open' = Front(open)
  /\ UNCHANGED <<table, nextScope, isDynamicScope, errno, call, phase>>

\* T f(ps): the parameters are declared in the new scope, then f around it.
FunctionHead(f, ps) ==
  /\ phase = "parse" /\ open = <<>>
  /\ IF Fresh(f, Top)
     THEN table' = Inserted(Parameters(table, ps), f, Top, "function") /\ UNCHANGED errno
     ELSE table' = Parameters(table, ps) /\ errno' = TRUE
  /\ Opening("function", f)
  /\ UNCHANGED <<isDynamicScope, call, phase>>

\* A mutant: the scope of a function's body is closed with the body and once
\* more by function_definition.
EndFunctionTwice ==
  /\ phase = "parse" /\ Innermost = "function"
  /\ stack' = SubSeq(stack, 1, Len(stack) - 2)
  /\ open' = Front(open)
  /\ UNCHANGED <<table, nextScope, isDynamicScope, errno, call, phase>>

\* The end of a function's body.
EndFunction ==
  /\ phase = "parse" /\ Innermost = "function"
  /\ stack' = Front(stack)
  /\ open' = Front(open)
  /\ UNCHANGED <<table, nextScope, isDynamicScope, errno, call, phase>>

\* func f(ps) : T =  Attributes are allowed from here on.
LiteralHead(f, ps) ==
  /\ InStatements
  /\ table' = Parameters(table, ps)
  /\ isDynamicScope' = TRUE
  /\ Opening("literal", f)
  /\ UNCHANGED <<errno, call, phase>>

\* The end of a literal's body; only now is its name declared, in the scope
\* its head was read in.
EndLiteral ==
  /\ phase = "parse" /\ Innermost = "literal"
  /\ isDynamicScope' = FALSE
  /\ stack' = Front(stack)
  /\ open' = Front(open)
  /\ Insert(Last(open).name, Last(open).within, "literal")
  /\ UNCHANGED <<nextScope, call, phase>>

\* l ? [
OpenMatch ==
  /\ phase = "parse"
  /\ isDynamicScope' = TRUE
  /\ Opening("match", None)
  /\ UNCHANGED <<table, errno, call, phase>>

\* A mutant: the match leaves the dynamic scope open.
CloseMatchStillDynamic ==
  /\ phase = "parse" /\ Innermost = "match"
  /\ stack' = Front(stack)
  /\ open' = Front(open)
  /\ UNCHANGED <<table, nextScope, isDynamicScope, errno, call, phase>>

\* The ] of a match: scope_out, then the flags are cleared.
CloseMatch ==
  /\ phase = "parse" /\ Innermost = "match"
  /\ stack' = Front(stack)
  /\ isDynamicScope' = FALSE
  /\ open' = Front(open)
  /\ UNCHANGED <<table, nextScope, errno, call, phase>>

\* T n = e;  reduced, and declared, after e was read.
Declare(n) ==
  /\ InStatements
  /\ Insert(n, Top, "variable")
  /\ UNCHANGED <<stack, nextScope, isDynamicScope, open, call, phase>>

\* n in an expression: sTableLookupId.
Use(n) ==
  /\ phase = "parse"
  /\ IF Lookup(n) = None THEN errno' = TRUE /\ answer' = None
                         ELSE answer' = Lookup(n) /\ UNCHANGED errno
  /\ UNCHANGED <<table, stack, nextScope, isDynamicScope, open, call, phase>>

\* @n in an expression: refused outside dynamic scopes, else declared where it
\* first occurs unless the lookup finds anything of that name.
UseAttribute(n) ==
  /\ phase = "parse"
  /\ IF ~isDynamicScope
     THEN errno' = TRUE /\ answer' = None /\ UNCHANGED table
     ELSE /\ answer' = Lookup(n)
          /\ IF Lookup(n) = None THEN table' = Inserted(table, n, Top, "attribute")
                                 ELSE UNCHANGED table
          /\ UNCHANGED errno
  /\ UNCHANGED <<stack, nextScope, isDynamicScope, open, call, phase>>

\* f() in an expression: a node of the tree, nothing is looked up yet.
ReadCall(f) ==
  /\ phase = "parse" /\ f \in Called /\ call.name = None
  /\ call' = [name |-> f, sees |-> Lookup(f)]
  /\ UNCHANGED <<table, stack, nextScope, isDynamicScope, errno, open, phase>>

\* A syntax error in a statement whose rule has an error alternative: the
\* statement is dropped.
StatementError ==
  /\ InStatements
  /\ errno' = TRUE
  /\ UNCHANGED <<table, stack, nextScope, isDynamicScope, open, call, phase>>

\* Any other: the parser drops what it has read since the innermost '{' and
\* goes on after it, or gives up when there is none.  A block is gone, and no
\* scope_out runs for it; a function or a literal is over.
SyntaxError ==
  /\ phase = "parse" /\ open # <<>>
  /\ errno' = TRUE
  /\ LET braces == {i \in DOMAIN open : open[i].what # "match"}
         last == open[Max(braces)]
     IN  \/ /\ braces = {}
            /\ phase' = "done"
            /\ UNCHANGED <<table, stack, isDynamicScope, open>>
         \/ /\ braces # {}
            /\ open' = SubSeq(open, 1, Max(braces) - 1)
            /\ stack' = IF last.what \in {"function", "literal"} THEN Front(stack) ELSE stack
            /\ IF last.what = "literal"
               THEN /\ isDynamicScope' = FALSE
                    /\ table' = Inserted(table, last.name, last.within, "literal")
               ELSE UNCHANGED <<isDynamicScope, table>>
            /\ UNCHANGED phase
  /\ UNCHANGED <<nextScope, call>>

\* translation_unit: code is generated if there was no error.
EndOfFile ==
  /\ phase = "parse" /\ open = <<>>
  /\ phase' = IF errno THEN "done" ELSE "generate"
  /\ UNCHANGED <<table, stack, nextScope, isDynamicScope, errno, open, call>>

\* AST_FUNC_CALL: sTableLookupFunc looks the name up in scope 0.
ResolveCall ==
  /\ phase = "generate" /\ call.name # None
  /\ IF Fresh(call.name, 0) THEN errno' = TRUE /\ answer' = None
                            ELSE answer' = <<call.name, 0>> /\ UNCHANGED errno
  /\ phase' = "resolved"
  /\ UNCHANGED <<table, stack, nextScope, isDynamicScope, open, call>>
-----------------------------------------------------------------------------
Init ==
  /\ table = <<>> /\ stack = <<0>> /\ nextScope = 1
  /\ isDynamicScope = FALSE /\ errno = FALSE
  /\ open = <<>> /\ call = [name |-> None, sees |-> None] /\ answer = None
  /\ phase = "parse"

Lookups == (\E n \in Name : Use(n) \/ UseAttribute(n)) \/ ResolveCall

\* The reductions that look nothing up.
Others ==
  \/ OpenBlock \/ CloseBlock \/ EndFunction \/ EndLiteral \/ OpenMatch \/ CloseMatch
  \/ \E n \in Name : Foreach(n) \/ Declare(n) \/ ReadCall(n)
  \/ \E f \in Name, ps \in SUBSET Name : FunctionHead(f, ps) \/ LiteralHead(f, ps)
  \/ StatementError \/ SyntaxError \/ EndOfFile

Next == Lookups \/ (Others /\ answer' = None)

Spec == Init /\ [][Next]_vars

-----------------------------------------------------------------------------
(* Properties.                                                             *)

Key == Name \X Scope

TypeOK ==
  /\ DOMAIN table \subseteq Key /\ \A k \in DOMAIN table : table[k] \in Entry
  /\ stack \in Seq(Scope) /\ stack # <<>>
  /\ nextScope \in 1 .. MaxScope + 1
  /\ isDynamicScope \in BOOLEAN /\ errno \in BOOLEAN
  /\ open \in Seq([what : Construct, name : Name \cup {None}, scope : Scope, within : Scope])
  /\ call \in [name : Name \cup {None}, sees : Key \cup {None}]
  /\ answer \in Key \cup {None}
  /\ phase \in {"parse", "generate", "resolved", "done"}

\* Every scope on the stack is that of a construct still being read: the
\* scope a SCOPE_OUT node records, whose variables the generated code frees
\* there, is the one its block opened.
Blocks == 1 .. Len(open) + 1
ScopeOf(i) == IF i = 1 THEN 0 ELSE open[i - 1].scope
ScopesMatchBlocks == ~errno => stack = [i \in Blocks |-> ScopeOf(i)]

\* @name is accepted only somewhere inside a match or a function literal.
AttributesGuarded ==
  isDynamicScope /\ ~errno => \E i \in DOMAIN open : open[i].what \in {"literal", "match"}

\* The promise of LexicalScope: a declaration is told apart by its scope.
FrameOf(id) == [n \in Name |-> IF Fresh(n, id) THEN None ELSE id]
Lexical ==
  INSTANCE LexicalScope WITH
    Decl <- Scope,
    frames <- [i \in Blocks |-> FrameOf(ScopeOf(i))],
    answer <- IF answer = None THEN None ELSE answer[2],
    rejected <- errno

\* Names mean what lexical scoping promises, whatever blocks, functions,
\* literals and matches are nested, until the program is rejected.
ImplementsLexicalScope == Lexical!Spec

=============================================================================
