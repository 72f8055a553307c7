----------------------------- MODULE OrderedTree -----------------------------
(***************************************************************************)
(* What Mini-XML's tree promises: a forest in which the children of a node *)
(* are a sequence, and deleting a node deletes what is under it, at once.  *)
(***************************************************************************)
EXTENDS Naturals, Sequences, SequencesExt

CONSTANTS Node, NULL

VARIABLE kids  \* the children of each node there is

None == CHOOSE f \in [{} -> {}] : TRUE

\* n and what is under it.
Under(k, n) ==
  LET below[m \in DOMAIN k] == {m} \cup UNION {below[c] : c \in Range(k[m])} IN below[n]

Detach(k, n) == [p \in DOMAIN k |-> RemoveFirst(k[p], n)]

\* The place among the children s of a node added before or after c; without
\* such a child, before the first or after the last.
Place(s, where, c) ==
  CASE where = "before" -> IF Contains(s, c) THEN CHOOSE i \in DOMAIN s : s[i] = c ELSE 1
    [] where = "after"  -> IF Contains(s, c) THEN 1 + (CHOOSE i \in DOMAIN s : s[i] = c)
                           ELSE Len(s) + 1

Insert(k, p, where, c, n) ==
  LET s == Detach(k, n)[p] IN [Detach(k, n) EXCEPT ![p] = InsertAt(s, Place(s, where, c), n)]

Without(k, n) == [p \in DOMAIN k \ Under(k, n) |-> Detach(k, n)[p]]

NewNode(n, p) ==
  /\ n \notin DOMAIN kids
  /\ LET grown == [m \in DOMAIN kids \cup {n} |-> IF m = n THEN << >> ELSE kids[m]] IN
       kids' = IF p = NULL THEN grown ELSE Insert(grown, p, "after", NULL, n)

AddNode(p, where, c, n) ==
  /\ {p, n} \subseteq DOMAIN kids /\ p \notin Under(kids, n)
  /\ kids' = Insert(kids, p, where, c, n)

RemoveNode(n) == n \in DOMAIN kids /\ kids' = Detach(kids, n)

DeleteNode(n) == n \in DOMAIN kids /\ kids' = Without(kids, n)

Init == kids = None

Next ==
  \E n \in Node :
    \/ \E p \in DOMAIN kids \cup {NULL} : NewNode(n, p)
    \/ \E p \in DOMAIN kids, where \in {"before", "after"}, c \in DOMAIN kids \cup {NULL} :
         AddNode(p, where, c, n)
    \/ RemoveNode(n) \/ DeleteNode(n)

Spec == Init /\ [][Next]_kids
==============================================================================
