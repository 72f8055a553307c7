------------------------------- MODULE XmlTree -------------------------------
(***************************************************************************)
(* The trees of Mini-XML (mxml-node.c, mxml-search.c), in which graphs are *)
(* written and read: five pointers to a node, a reference count, and a     *)
(* deletion that calls itself for every child.                             *)
(*                                                                         *)
(* A behaviour is a series of calls of some client.  mxmlDelete takes a    *)
(* step for each of its calls and each free; nothing else runs meanwhile.  *)
(***************************************************************************)
EXTENDS Naturals, Sequences, SequencesExt, FiniteSets

CONSTANTS Node,    \* the blocks calloc returns
          NULL,
          Held,    \* bound: the nodes a client moves, retains, releases and deletes
          MaxRefs  \* bound: references to a node

ASSUME XmlTreeAssumption == NULL \notin Node /\ Held \subseteq Node /\ MaxRefs \in Nat \ {0}

VARIABLES
  live,      \* the blocks that are nodes
  link,      \* their parent, child, last_child, prev and next
  ref_count, \* type and value of a node are left out
  deleting   \* the calls of mxmlDelete under way, outermost first

tree == <<live, link, ref_count, deleting>>

Link == [parent : Node \cup {NULL}, child : Node \cup {NULL}, last_child : Node \cup {NULL},
         prev : Node \cup {NULL}, next : Node \cup {NULL}]
Alone == [parent |-> NULL, child |-> NULL, last_child |-> NULL, prev |-> NULL, next |-> NULL]

Idle == deleting = << >>

------------------------------------------------------------------------------
(* The pointer surgery of mxmlRemove and mxmlAdd.                          *)

\* A mutant: the former last child stays the last.
UnlinkKeepLast(l, n) ==
  LET me == l[n] IN
  [x \in Node |-> [l[x] EXCEPT
     !.next   = IF x = n THEN NULL ELSE IF x = me.prev THEN me.next ELSE @,
     !.prev   = IF x = n THEN NULL ELSE IF x = me.next THEN me.prev ELSE @,
     !.child  = IF x = me.parent /\ me.prev = NULL THEN me.next ELSE @,
     !.parent = IF x = n THEN NULL ELSE @]]

\* mxmlRemove of a node that has a parent.
Unlink(l, n) ==
  LET me == l[n] IN
  [x \in Node |-> [l[x] EXCEPT
     !.next       = IF x = n THEN NULL ELSE IF x = me.prev THEN me.next ELSE @,
     !.prev       = IF x = n THEN NULL ELSE IF x = me.next THEN me.prev ELSE @,
     !.child      = IF x = me.parent /\ me.prev = NULL THEN me.next ELSE @,
     !.last_child = IF x = me.parent /\ me.next = NULL THEN me.prev ELSE @,
     !.parent     = IF x = n THEN NULL ELSE @]]

Removed(l, n) == IF l[n].parent = NULL THEN l ELSE Unlink(l, n)

\* n goes between the siblings a and b under p.  At an end (NULL) the node's
\* own pointer is not assigned: it is NULL already.
Between(l, p, a, b, n) ==
  [x \in Node |-> [l[x] EXCEPT
     !.parent     = IF x = n THEN p ELSE @,
     !.prev       = IF x = n /\ a # NULL THEN a ELSE IF x = b THEN n ELSE @,
     !.next       = IF x = n /\ b # NULL THEN b ELSE IF x = a THEN n ELSE @,
     !.child      = IF x = p /\ a = NULL THEN n ELSE @,
     !.last_child = IF x = p /\ b = NULL THEN n ELSE @]]

\* A mutant: the wrong end is compared with.
AddedComparingFirst(l, p, where, c, n) ==
  LET r == [Removed(l, n) EXCEPT ![n].parent = p] IN
  IF where = "before" THEN
    IF c \in {NULL, r[p].child} \/ r[c].parent # p THEN Between(r, p, NULL, r[p].child, n)
    ELSE Between(r, p, r[c].prev, c, n)
  ELSE
    IF c \in {NULL, r[p].child} \/ r[c].parent # p THEN Between(r, p, r[p].last_child, NULL, n)
    ELSE Between(r, p, c, r[c].next, n)

\* Where c is not a child of p, and at the ends, the node becomes the first or
\* the last.  n itself counts as a child of p here: its parent is set by then.
Added(l, p, where, c, n) ==
  LET r == [Removed(l, n) EXCEPT ![n].parent = p] IN
  CASE where = "before" /\ (c \in {NULL, r[p].child} \/ r[c].parent # p) ->
         Between(r, p, NULL, r[p].child, n)
    [] where = "before" /\ c \notin {NULL, r[p].child} /\ r[c].parent = p ->
         Between(r, p, r[c].prev, c, n)
    [] where = "after" /\ (c \in {NULL, r[p].last_child} \/ r[c].parent # p) ->
         Between(r, p, r[p].last_child, NULL, n)
    [] where = "after" /\ c \notin {NULL, r[p].last_child} /\ r[c].parent = p ->
         Between(r, p, c, r[c].next, n)

\* n and its ancestors, by the parent pointers.
Ancestors(n) ==
  LET up[m \in Node \cup {NULL}] == IF m = NULL THEN {} ELSE {m} \cup up[link[m].parent]
  IN  {n} \cup up[link[n].parent]

------------------------------------------------------------------------------
(* The calls.                                                              *)

\* mxml_new and the mxmlNew* around it.
mxmlNew(n, p) ==
  /\ Idle /\ n \notin live
  /\ live' = live \cup {n}
  /\ LET fresh == [link EXCEPT ![n] = Alone] IN
       link' = IF p = NULL THEN fresh ELSE Added(fresh, p, "after", NULL, n)
  /\ ref_count' = [ref_count EXCEPT ![n] = 1]
  /\ UNCHANGED deleting

\* A client does not put a node under itself, or before or after itself:
\* mxmlAdd does not look.
mxmlAdd(p, where, c, n) ==
  /\ Idle /\ n \notin Ancestors(p) /\ c # n
  /\ UNCHANGED <<live, ref_count, deleting>>
  /\ link' = Added(link, p, where, c, n)

mxmlRemove(n) ==
  /\ Idle
  /\ link' = Removed(link, n)
  /\ UNCHANGED <<live, ref_count, deleting>>

mxmlRetain(n) ==
  /\ Idle /\ ref_count[n] < MaxRefs
  /\ ref_count' = [ref_count EXCEPT ![n] = @ + 1]
  /\ UNCHANGED <<live, link, deleting>>

\* mxmlDelete is called for n: it leaves its parent.
Call(n) ==
  /\ link' = Removed(link, n)
  /\ deleting' = Append(deleting, n)

mxmlDelete(n) == Idle /\ Call(n) /\ UNCHANGED <<live, ref_count>>

\* A mutant: the last reference goes and the node stays.
ReleaseOnly(n) ==
  /\ Idle
  /\ ref_count' = [ref_count EXCEPT ![n] = @ - 1]
  /\ UNCHANGED <<live, link, deleting>>

mxmlRelease(n) ==
  /\ Idle
  /\ ref_count' = [ref_count EXCEPT ![n] = @ - 1]
  /\ IF ref_count[n] = 1 THEN Call(n) ELSE UNCHANGED <<link, deleting>>
  /\ UNCHANGED live

\* A mutant: the child is not taken out of the list its parent looks at.
DeleteChildInPlace ==
  /\ ~Idle
  /\ LET n == Last(deleting) IN
       link[n].child # NULL /\ deleting' = Append(deleting, link[n].child)
  /\ UNCHANGED <<live, link, ref_count>>

\* while (node->child) mxmlDelete(node->child)
DeleteChild ==
  /\ ~Idle
  /\ LET n == Last(deleting) IN link[n].child # NULL /\ Call(link[n].child)
  /\ UNCHANGED <<live, ref_count>>

\* free(node): what the block held is gone.
FreeNode ==
  /\ ~Idle
  /\ LET n == Last(deleting) IN
       /\ link[n].child = NULL
       /\ live' = live \ {n}
       /\ link' = [link EXCEPT ![n] = Alone]
       /\ ref_count' = [ref_count EXCEPT ![n] = 0]
  /\ deleting' = Front(deleting)

TreeInit ==
  /\ live = {} /\ deleting = << >>
  /\ link = [n \in Node |-> Alone]
  /\ ref_count = [n \in Node |-> 0]

Client ==
  \/ \E n \in Node, p \in live \cup {NULL} : mxmlNew(n, p)
  \/ \E n \in live \cap Held, p \in live, where \in {"before", "after"}, c \in live \cup {NULL} :
       mxmlAdd(p, where, c, n)
  \/ \E n \in live \cap Held : mxmlRemove(n) \/ mxmlRetain(n) \/ mxmlDelete(n) \/ mxmlRelease(n)

Deletion == DeleteChild \/ FreeNode

TreeNext == Client \/ Deletion

\* A call of mxmlDelete goes on until it returns.
TreeSpec == TreeInit /\ [][TreeNext]_tree /\ WF_tree(Deletion)

------------------------------------------------------------------------------
(* Searching.                                                              *)

\* A mutant: the climb does not stop at top.
UncleAnywhere(n, top) ==
  LET climb[m \in Node] ==
        IF link[m].next # NULL THEN link[m].next
        ELSE IF link[m].parent = NULL THEN NULL
        ELSE climb[link[m].parent]
  IN  climb[n]

\* The while loop of mxmlWalkNext: from a node that has no next one, up to the
\* first that has one, not past top.
Uncle(n, top) ==
  LET climb[m \in Node] ==
        IF link[m].next # NULL THEN link[m].next
        ELSE IF link[m].parent \in {top, NULL} THEN NULL
        ELSE climb[link[m].parent]
  IN  climb[n]

mxmlWalkNext(n, top, descend) ==
  IF link[n].child # NULL /\ descend THEN link[n].child
  ELSE IF n = top THEN NULL
  ELSE IF link[n].next # NULL THEN link[n].next
  ELSE IF link[n].parent \notin {NULL, top} THEN Uncle(link[n].parent, top)
  ELSE NULL

\* The last node under n, or n.
Deepest(n) ==
  LET down[m \in Node] == IF link[m].last_child = NULL THEN m ELSE down[link[m].last_child]
  IN  down[n]

mxmlWalkPrev(n, top, descend) ==
  IF n = top THEN NULL
  ELSE IF link[n].prev # NULL THEN
    IF descend THEN Deepest(link[n].prev) ELSE link[n].prev
  ELSE IF link[n].parent # top THEN link[n].parent
  ELSE NULL

\* A mutant: every search descends.
FindDescending(n, top, hits, how) ==
  LET find[m \in Node \cup {NULL}] ==
        IF m = NULL \/ m \in hits THEN m ELSE find[mxmlWalkNext(m, top, TRUE)]
  IN  find[mxmlWalkNext(n, top, how # "no descend")]

\* hits are the elements that have the name, and the attribute, looked for;
\* how is MXML_DESCEND, MXML_DESCEND_FIRST or MXML_NO_DESCEND.
mxmlFindElement(n, top, hits, how) ==
  LET find[m \in Node \cup {NULL}] ==
        IF m = NULL \/ m \in hits THEN m
        ELSE find[IF how = "descend" THEN mxmlWalkNext(m, top, TRUE) ELSE link[m].next]
  IN  find[mxmlWalkNext(n, top, how # "no descend")]

------------------------------------------------------------------------------
(* Properties.                                                             *)

\* Every variable has its type, and every node that can be used has an owner.
TypeOK ==
  /\ live \subseteq Node
  /\ link \in [Node -> Link]
  /\ ref_count \in [Node -> 0..MaxRefs]
  /\ deleting \in Seq(live)

Points(n) == {link[n][f] : f \in {"parent", "child", "last_child", "prev", "next"}} \ {NULL}

\* A node points to nodes, never to a freed one, and a node that is in no tree
\* is in no list of siblings: mxmlAdd counts on it when it leaves a pointer of
\* a first or last child unassigned (mxml-node.c:107, 141).
LinksLive ==
  \A n \in live :
    /\ Points(n) \subseteq live
    /\ link[n].parent = NULL => link[n].prev = NULL /\ link[n].next = NULL

\* The five pointers tell the same story: siblings know each other and their
\* parent, a parent knows the first and the last, and only these have no
\* sibling on that side (mxml-node.c:91-173, 657-669).
LinksAgree ==
  \A n \in live :
    LET me == link[n] IN
    /\ me.next # NULL => link[me.next].prev = n /\ link[me.next].parent = me.parent
    /\ me.prev # NULL => link[me.prev].next = n /\ link[me.prev].parent = me.parent
    /\ me.child # NULL => link[me.child].parent = n /\ link[me.child].prev = NULL
    /\ me.last_child # NULL => link[me.last_child].parent = n /\ link[me.last_child].next = NULL
    /\ me.child = NULL <=> me.last_child = NULL
    /\ me.parent # NULL /\ me.prev = NULL => link[me.parent].child = n
    /\ me.parent # NULL /\ me.next = NULL => link[me.parent].last_child = n

\* The pointers are sound: nobody follows one to a freed node or into another
\* list of siblings.
LinksSound == LinksLive /\ LinksAgree

\* The children of n, by the pointers child and next.
Children(n) ==
  LET from[m \in Node \cup {NULL}] == IF m = NULL THEN << >> ELSE <<m>> \o from[link[m].next]
  IN  from[link[n].child]

\* A node is being deleted with the one its subtree was cut off at.
Kept == {n \in live : Ancestors(n) \cap Range(deleting) = {}}

Forest == INSTANCE OrderedTree WITH kids <- [n \in Kept |-> Children(n)]

\* The pointers implement the forest: each call does to the sequences of
\* children what OrderedTree says, a node is added in the place the call names,
\* and a deletion, whatever its number of steps, takes the node and all that is
\* under it and nothing else (mxml-node.c:62-277).
ImplementsOrderedTree ==
  /\ Forest!Spec
  /\ [][\A n \in live \cap Held, where \in {"before", "after"}, c \in live \cup {NULL} :
          LET p == link'[n].parent IN
          p # NULL /\ mxmlAdd(p, where, c, n) => Forest!AddNode(p, where, c, n)]_tree

\* A deletion ends: its calls meet no node twice (mxml-node.c:222-223).
DeletionEnds == ~Idle ~> Idle

\* n and what is under it, in document order.
InOrder(n) ==
  LET order[m \in Node] == <<m>> \o FlattenSeq([i \in DOMAIN Children(m) |-> order[Children(m)[i]]])
  IN  order[n]

Walk(top) ==
  LET walk[m \in Node \cup {NULL}] == IF m = NULL THEN << >> ELSE <<m>> \o walk[mxmlWalkNext(m, top, TRUE)]
  IN  walk[top]

\* A walk from the top of any subtree meets each of its nodes once, in document
\* order, and stays inside; walking back meets them in the reverse order
\* (mxml-search.c:215-282: readGraph's loops are such walks).
WalkMeetsAll ==
  \A top \in Kept :
    LET order == InOrder(top) IN
    /\ Walk(top) = order
    /\ \A i \in 3 .. Len(order) : mxmlWalkPrev(order[i], top, TRUE) = order[i - 1]

\* The first of the sequence s that is in hits.
FirstOf(s, hits) == LET at == {i \in DOMAIN s : s[i] \in hits} IN
                    IF at = {} THEN NULL ELSE s[Min(at)]

\* A search that descends finds the next element in document order that is
\* looked for; one that descends first, the first such child, and one that
\* goes on from a child without descending, the next (mxml-search.c:53-117).
FindsNext ==
  \A top \in Kept, hits \in SUBSET Kept :
    LET order == InOrder(top)
        below == Children(top) IN
    /\ \A i \in DOMAIN order :
         mxmlFindElement(order[i], top, hits, "descend") = FirstOf(SubSeq(order, i + 1, Len(order)), hits)
    /\ mxmlFindElement(top, top, hits, "descend first") = FirstOf(below, hits)
    /\ \A i \in DOMAIN below :
         mxmlFindElement(below[i], top, hits, "no descend") = FirstOf(SubSeq(below, i + 1, Len(below)), hits)
==============================================================================
