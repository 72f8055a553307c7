---------------------------- MODULE LexicalScope ----------------------------
(***************************************************************************)
(* What an NSBL programmer is promised of names: blocks nest, a name       *)
(* declared in a block is visible from there to the end of the block, and  *)
(* hides the same name of the blocks around it.  SymbolScope is shown to   *)
(* implement this specification.                                           *)
(***************************************************************************)
EXTENDS Naturals, Sequences, FiniteSetsExt, SequencesExt

CONSTANTS
  Name,   \* identifiers
  Decl,   \* what tells two declarations of one name apart
  None    \* no declaration; not in Decl

VARIABLES
  frames,   \* the declarations of the open blocks, the main program first
  answer,   \* what the name read in this step refers to, if one is
  rejected  \* the program has an error

vars == <<frames, answer, rejected>>

Frame == [Name -> Decl \cup {None}]
Empty == [n \in Name |-> None]

\* What n refers to in the innermost open block.
Declaring(n) == {i \in DOMAIN frames : frames[i][n] # None}
Visible(n) == IF Declaring(n) = {} THEN None ELSE frames[Max(Declaring(n))][n]


Init == frames = <<Empty>> /\ answer = None /\ rejected = FALSE

\* A block opens, its parameters declared.
Enter == \E f \in Frame : frames' = Append(frames, f)

\* A name is declared in the innermost block.
Declare ==
  \E n \in Name, d \in Decl :
    /\ Last(frames)[n] = None
    /\ frames' = [frames EXCEPT ![Len(frames)][n] = d]

\* A name is declared around a block that opens: a function, a foreach variable.
DeclareAndEnter ==
  \E n \in Name, d \in Decl, f \in Frame :
    /\ Last(frames)[n] = None
    /\ frames' = Append([frames EXCEPT ![Len(frames)][n] = d], f)

\* The innermost block closes.
Leave == Len(frames) > 1 /\ frames' = Front(frames)

\* A function literal closes: its name is declared around it.
LeaveAndDeclare ==
  /\ Len(frames) > 1
  /\ \E n \in Name, d \in Decl :
       /\ frames[Len(frames) - 1][n] = None
       /\ frames' = [Front(frames) EXCEPT ![Len(frames) - 1][n] = d]

\* A name is read.
Read == \E n \in Name : Visible(n) # None /\ answer' = Visible(n)

\* The program is rejected; nothing is promised any more.
Reject == rejected' = TRUE

Next ==
  \/ Reject
  \/ Read /\ UNCHANGED <<frames, rejected>>
  \/ /\ answer' = None /\ UNCHANGED rejected
     /\ UNCHANGED frames \/ Leave \/ Declare \/ Enter \/ LeaveAndDeclare \/ DeclareAndEnter

Spec == Init /\ [][Next]_vars

=============================================================================
