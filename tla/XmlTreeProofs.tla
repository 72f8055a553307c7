---------------------------- MODULE XmlTreeProofs ----------------------------
(***************************************************************************)
(* For any number of nodes and any series of calls, the five pointers of   *)
(* Mini-XML's nodes are sound (no operation leaves one to a freed node, or *)
(* two that disagree) and implement the forest of OrderedTree: each call   *)
(* changes the sequences of children as the forest says, and a deletion,   *)
(* however many steps it takes, is one step of the forest.                 *)
(***************************************************************************)
EXTENDS XmlTree, SequenceFacts

-----------------------------------------------------------------------------
(* The invariant, in terms of the pointers l of the nodes S.               *)

\* A pointer to a node of S, or none.
PointsInto(l, S) ==
  \A n \in S :
    /\ l[n].parent \in S \cup {NULL} /\ l[n].child \in S \cup {NULL}
    /\ l[n].last_child \in S \cup {NULL}
    /\ l[n].prev \in S \cup {NULL} /\ l[n].next \in S \cup {NULL}

Detached(l, n) == l[n].parent = NULL /\ l[n].prev = NULL /\ l[n].next = NULL

Siblings(l, S) ==
  \A n \in S :
    /\ l[n].parent = NULL => l[n].prev = NULL /\ l[n].next = NULL
    /\ l[n].next # NULL => l[l[n].next].prev = n /\ l[l[n].next].parent = l[n].parent
    /\ l[n].prev # NULL => l[l[n].prev].next = n /\ l[l[n].prev].parent = l[n].parent

FirstAndLast(l, S) ==
  \A n \in S :
    /\ l[n].child # NULL => l[l[n].child].parent = n /\ l[l[n].child].prev = NULL
    /\ l[n].last_child # NULL => l[l[n].last_child].parent = n /\ l[l[n].last_child].next = NULL
    /\ l[n].child = NULL <=> l[n].last_child = NULL
    /\ l[n].parent # NULL /\ l[n].prev = NULL => l[l[n].parent].child = n
    /\ l[n].parent # NULL /\ l[n].next = NULL => l[l[n].parent].last_child = n

\* The siblings of a list have increasing positions: no list is a ring, which
\* the pointers alone would allow.
Ordered(l, S, pos) ==
  \A n \in S : l[n].next # NULL => pos[n] < pos[l[n].next]

Sound(l, S) == PointsInto(l, S) /\ Siblings(l, S) /\ FirstAndLast(l, S)

LEMMA SoundIsLinksSound == Sound(link, live) <=> LinksSound
<1> USE DEF Sound, PointsInto, Siblings, FirstAndLast, LinksSound, LinksLive, LinksAgree
<1>1. \A n \in live : Points(n) = {link[n].parent, link[n].child, link[n].last_child,
                                   link[n].prev, link[n].next} \ {NULL}
  BY DEF Points
<1>2. ASSUME Sound(link, live) PROVE LinksSound
  BY <1>1, <1>2
<1>3. ASSUME LinksSound PROVE Sound(link, live)
  BY <1>1, <1>3
<1> QED BY <1>2, <1>3

-----------------------------------------------------------------------------
(* Taking a node out of its list.                                          *)

\* What the proofs need of a pointer structure that differs from l as Unlink says.
Unlinked(l, r, n) ==
  \A x \in Node :
    /\ r[x].next = IF x = n THEN NULL ELSE IF x = l[n].prev THEN l[n].next ELSE l[x].next
    /\ r[x].prev = IF x = n THEN NULL ELSE IF x = l[n].next THEN l[n].prev ELSE l[x].prev
    /\ r[x].child = IF x = l[n].parent /\ l[n].prev = NULL THEN l[n].next ELSE l[x].child
    /\ r[x].last_child = IF x = l[n].parent /\ l[n].next = NULL THEN l[n].prev
                         ELSE l[x].last_child
    /\ r[x].parent = IF x = n THEN NULL ELSE l[x].parent

LEMMA UnlinkFields ==
  ASSUME NEW l \in [Node -> Link], NEW n \in Node
  PROVE  /\ Unlinked(l, Unlink(l, n), n)
         /\ \A x \in Node : LET r == Unlink(l, n)[x] IN
              r = [parent |-> r.parent, child |-> r.child, last_child |-> r.last_child,
                   prev |-> r.prev, next |-> r.next]
BY ZenonT(60) DEF Unlink, Link, Unlinked

LEMMA UnlinkTyped ==
  ASSUME NEW l \in [Node -> Link], NEW n \in Node
  PROVE  Unlink(l, n) \in [Node -> Link]
<1> DEFINE r == Unlink(l, n)
<1>1. r = [x \in Node |-> r[x]]
  BY DEF Unlink
<1>2. Unlinked(l, r, n) /\ \A x \in Node :
        r[x] = [parent |-> r[x].parent, child |-> r[x].child, last_child |-> r[x].last_child,
                prev |-> r[x].prev, next |-> r[x].next]
  BY UnlinkFields
<1> HIDE DEF r
<1>3. \A y \in Node : /\ l[y].parent \in Node \cup {NULL} /\ l[y].child \in Node \cup {NULL}
                      /\ l[y].last_child \in Node \cup {NULL}
                      /\ l[y].prev \in Node \cup {NULL} /\ l[y].next \in Node \cup {NULL}
  BY DEF Link
<1>4. \A y \in Node : /\ r[y].parent \in Node \cup {NULL} /\ r[y].child \in Node \cup {NULL}
                      /\ r[y].last_child \in Node \cup {NULL}
                      /\ r[y].prev \in Node \cup {NULL} /\ r[y].next \in Node \cup {NULL}
  BY <1>2, <1>3 DEF Unlinked
<1>5. ASSUME NEW x \in Node PROVE r[x] \in Link
  <2>1. [parent |-> r[x].parent, child |-> r[x].child, last_child |-> r[x].last_child,
         prev |-> r[x].prev, next |-> r[x].next] \in Link
    BY <1>4 DEF Link
  <2> QED BY <1>2, <2>1, Zenon
<1>6. r \in [Node -> Link]
  BY <1>1, <1>5, Zenon
<1> QED BY <1>6 DEF r

LEMMA UnlinkedSound ==
  ASSUME NULL \notin Node, NEW S \in SUBSET Node, NEW pos \in [Node -> Nat], NEW l, NEW r,
         NEW n \in S, l[n].parent # NULL, Sound(l, S), Ordered(l, S, pos), Unlinked(l, r, n)
  PROVE  Sound(r, S) /\ Ordered(r, S, pos) /\ Detached(r, n)
<1> DEFINE a == l[n].prev
           b == l[n].next
           p == l[n].parent
<1>1. /\ p \in S /\ a \in S \cup {NULL} /\ b \in S \cup {NULL}
      /\ b # NULL => l[b].prev = n /\ l[b].parent = p
      /\ a # NULL => l[a].next = n /\ l[a].parent = p
      /\ a = NULL => l[p].child = n
      /\ b = NULL => l[p].last_child = n
  BY DEF Sound, PointsInto, Siblings, FirstAndLast
<1>2. /\ b # NULL => pos[n] < pos[b] /\ pos[b] \in Nat
      /\ a # NULL => pos[a] < pos[n] /\ pos[a] \in Nat
      /\ pos[n] \in Nat
  BY <1>1 DEF Ordered
<1>3. a # n /\ b # n /\ (a # NULL => a # b) /\ (a # NULL /\ b # NULL => pos[a] < pos[b])
  BY <1>1, <1>2
<1>4. \A x \in S :
    /\ r[x].next = IF x = n THEN NULL ELSE IF x = a THEN b ELSE l[x].next
    /\ r[x].prev = IF x = n THEN NULL ELSE IF x = b THEN a ELSE l[x].prev
    /\ r[x].child = IF x = p /\ a = NULL THEN b ELSE l[x].child
    /\ r[x].last_child = IF x = p /\ b = NULL THEN a ELSE l[x].last_child
    /\ r[x].parent = IF x = n THEN NULL ELSE l[x].parent
  BY DEF Unlinked
<1>5. NULL \notin S
  OBVIOUS
<1> HIDE DEF a, b, p
<1>6. PointsInto(r, S)
  BY <1>1, <1>4 DEF Sound, PointsInto
<1>7. /\ \A x \in S : l[x].parent = NULL => l[x].prev = NULL /\ l[x].next = NULL
      /\ \A x \in S : l[x].next # NULL => l[l[x].next].prev = x /\ l[l[x].next].parent = l[x].parent
      /\ \A x \in S : l[x].prev # NULL => l[l[x].prev].next = x /\ l[l[x].prev].parent = l[x].parent
      /\ \A x \in S : l[x].next \in S \cup {NULL} /\ l[x].prev \in S \cup {NULL}
  BY DEF Sound, PointsInto, Siblings
<1>8. ASSUME NEW m \in S
      PROVE  /\ r[m].parent = NULL => r[m].prev = NULL /\ r[m].next = NULL
             /\ r[m].next # NULL => r[r[m].next].prev = m /\ r[r[m].next].parent = r[m].parent
             /\ r[m].prev # NULL => r[r[m].prev].next = m /\ r[r[m].prev].parent = r[m].parent
  <2>1. r[m].parent = NULL => r[m].prev = NULL /\ r[m].next = NULL
    BY <1>1, <1>3, <1>4, <1>5, <1>7
  <2>2. ASSUME NEW k, k = r[m].next, k # NULL PROVE r[k].prev = m /\ r[k].parent = r[m].parent
    <3>1. m # n /\ k \in S
      BY <2>2, <1>1, <1>4, <1>7
    <3>2. CASE m = a
      BY <2>2, <3>1, <3>2, <1>1, <1>3, <1>4, <1>5
    <3>3. CASE m # a
      <4>1. k = l[m].next /\ l[k].prev = m /\ l[k].parent = l[m].parent /\ k # n /\ k # b
        BY <2>2, <3>1, <3>3, <1>1, <1>4, <1>5, <1>7 DEF a, b
      <4> QED BY <3>1, <4>1, <1>4
    <3> QED BY <3>2, <3>3
  <2>3. ASSUME NEW k, k = r[m].prev, k # NULL PROVE r[k].next = m /\ r[k].parent = r[m].parent
    <3>1. m # n /\ k \in S
      BY <2>3, <1>1, <1>4, <1>7
    <3>2. CASE m = b
      BY <2>3, <3>1, <3>2, <1>1, <1>3, <1>4, <1>5
    <3>3. CASE m # b
      <4>1. k = l[m].prev /\ l[k].next = m /\ l[k].parent = l[m].parent /\ k # n /\ k # a
        BY <2>3, <3>1, <3>3, <1>1, <1>4, <1>5, <1>7 DEF a, b
      <4> QED BY <3>1, <4>1, <1>4
    <3> QED BY <3>2, <3>3
  <2> QED BY <2>1, <2>2, <2>3
<1>11. Siblings(r, S)
  BY <1>8 DEF Siblings
<1>12. /\ \A x \in S : l[x].child # NULL => l[l[x].child].parent = x /\ l[l[x].child].prev = NULL
       /\ \A x \in S : l[x].last_child # NULL
            => l[l[x].last_child].parent = x /\ l[l[x].last_child].next = NULL
       /\ \A x \in S : l[x].child = NULL <=> l[x].last_child = NULL
       /\ \A x \in S : l[x].parent # NULL /\ l[x].prev = NULL => l[l[x].parent].child = x
       /\ \A x \in S : l[x].parent # NULL /\ l[x].next = NULL => l[l[x].parent].last_child = x
       /\ \A x \in S : l[x].child \in S \cup {NULL} /\ l[x].last_child \in S \cup {NULL}
       /\ \A x \in S : l[x].parent \in S \cup {NULL}
  BY DEF Sound, PointsInto, FirstAndLast
<1>13. ASSUME NEW m \in S
       PROVE  /\ r[m].child # NULL => r[r[m].child].parent = m /\ r[r[m].child].prev = NULL
              /\ r[m].last_child # NULL
                   => r[r[m].last_child].parent = m /\ r[r[m].last_child].next = NULL
              /\ r[m].child = NULL <=> r[m].last_child = NULL
              /\ r[m].parent # NULL /\ r[m].prev = NULL => r[r[m].parent].child = m
              /\ r[m].parent # NULL /\ r[m].next = NULL => r[r[m].parent].last_child = m
  <2>1. ASSUME NEW k, k = r[m].child, k # NULL PROVE r[k].parent = m /\ r[k].prev = NULL
    <3>1. CASE m = p /\ a = NULL
      BY <2>1, <3>1, <1>1, <1>3, <1>4, <1>5
    <3>2. CASE ~(m = p /\ a = NULL)
      <4>1. k = l[m].child /\ k \in S /\ l[k].parent = m /\ l[k].prev = NULL
        BY <2>1, <3>2, <1>4, <1>12
      <4>2. k # n /\ k # b
        BY <3>2, <4>1, <1>1 DEF a, p
      <4> QED BY <4>1, <4>2, <1>4
    <3> QED BY <3>1, <3>2
  <2>2. ASSUME NEW k, k = r[m].last_child, k # NULL PROVE r[k].parent = m /\ r[k].next = NULL
    <3>1. CASE m = p /\ b = NULL
      BY <2>2, <3>1, <1>1, <1>3, <1>4, <1>5
    <3>2. CASE ~(m = p /\ b = NULL)
      <4>1. k = l[m].last_child /\ k \in S /\ l[k].parent = m /\ l[k].next = NULL
        BY <2>2, <3>2, <1>4, <1>12
      <4>2. k # n /\ k # a
        BY <3>2, <4>1, <1>1 DEF b, p
      <4> QED BY <4>1, <4>2, <1>4
    <3> QED BY <3>1, <3>2
  <2>3. r[m].child = NULL <=> r[m].last_child = NULL
    BY <1>1, <1>4, <1>5, <1>12
  <2>4. r[m].parent # NULL /\ r[m].prev = NULL => r[r[m].parent].child = m
    <3> SUFFICES ASSUME r[m].parent # NULL, r[m].prev = NULL PROVE r[r[m].parent].child = m
      OBVIOUS
    <3>1. m # n /\ r[m].parent = l[m].parent /\ l[m].parent \in S
      BY <1>4, <1>12
    <3>2. CASE m = b
      BY <3>1, <3>2, <1>1, <1>4, <1>5
    <3>3. CASE m # b
      <4>1. l[m].prev = NULL /\ l[l[m].parent].child = m
        BY <3>1, <3>3, <1>4, <1>12
      <4> QED BY <3>1, <4>1, <1>1, <1>4
    <3> QED BY <3>2, <3>3
  <2>5. r[m].parent # NULL /\ r[m].next = NULL => r[r[m].parent].last_child = m
    <3> SUFFICES ASSUME r[m].parent # NULL, r[m].next = NULL PROVE r[r[m].parent].last_child = m
      OBVIOUS
    <3>1. m # n /\ r[m].parent = l[m].parent /\ l[m].parent \in S
      BY <1>4, <1>12
    <3>2. CASE m = a
      BY <3>1, <3>2, <1>1, <1>4, <1>5
    <3>3. CASE m # a
      <4>1. l[m].next = NULL /\ l[l[m].parent].last_child = m
        BY <3>1, <3>3, <1>4, <1>12
      <4> QED BY <3>1, <4>1, <1>1, <1>4
    <3> QED BY <3>2, <3>3
  <2> QED BY <2>1, <2>2, <2>3, <2>4, <2>5
<1>14. FirstAndLast(r, S)
  BY <1>13 DEF FirstAndLast
<1>9. Ordered(r, S, pos)
  BY <1>1, <1>3, <1>4, <1>5 DEF Ordered
<1>10. Detached(r, n)
  BY <1>4 DEF Detached
<1> QED BY <1>6, <1>9, <1>10, <1>11, <1>14 DEF Sound

-----------------------------------------------------------------------------
(* Putting a node into a list.                                             *)

\* r differs from l as n, which was in no list, gets the parent p and the
\* siblings a and b.
Linked(l, r, p, a, b, n) ==
  \A x \in Node :
    /\ r[x].parent = IF x = n THEN p ELSE l[x].parent
    /\ r[x].prev = IF x = n /\ a # NULL THEN a ELSE IF x = b THEN n ELSE l[x].prev
    /\ r[x].next = IF x = n /\ b # NULL THEN b ELSE IF x = a THEN n ELSE l[x].next
    /\ r[x].child = IF x = p /\ a = NULL THEN n ELSE l[x].child
    /\ r[x].last_child = IF x = p /\ b = NULL THEN n ELSE l[x].last_child

LEMMA BetweenFields ==
  ASSUME NEW l \in [Node -> Link], NEW n \in Node, NEW p \in Node,
         NEW a \in Node \cup {NULL}, NEW b \in Node \cup {NULL}
  PROVE  LET r == Between([l EXCEPT ![n].parent = p], p, a, b, n) IN
         /\ Linked(l, r, p, a, b, n)
         /\ r \in [Node -> Link]
<1> DEFINE q == [l EXCEPT ![n].parent = p]
           r == Between(q, p, a, b, n)
<1>1. q \in [Node -> Link]
  BY DEF Link
<1>2. \A x \in Node : /\ q[x].parent = IF x = n THEN p ELSE l[x].parent
                      /\ q[x].prev = l[x].prev /\ q[x].next = l[x].next
                      /\ q[x].child = l[x].child /\ q[x].last_child = l[x].last_child
  BY DEF Link
<1> HIDE DEF q
<1>3. r = [x \in Node |-> r[x]]
  BY DEF Between
<1>4. \A x \in Node :
        /\ r[x] = [parent |-> r[x].parent, child |-> r[x].child, last_child |-> r[x].last_child,
                   prev |-> r[x].prev, next |-> r[x].next]
        /\ r[x].parent = IF x = n THEN p ELSE q[x].parent
        /\ r[x].prev = IF x = n /\ a # NULL THEN a ELSE IF x = b THEN n ELSE q[x].prev
        /\ r[x].next = IF x = n /\ b # NULL THEN b ELSE IF x = a THEN n ELSE q[x].next
        /\ r[x].child = IF x = p /\ a = NULL THEN n ELSE q[x].child
        /\ r[x].last_child = IF x = p /\ b = NULL THEN n ELSE q[x].last_child
  BY <1>1, ZenonT(60) DEF Between, Link
<1>5. Linked(l, r, p, a, b, n)
  <2> HIDE DEF r
  <2> QED BY <1>2, <1>4, ZenonT(60) DEF Linked
<1> HIDE DEF r
<1>6. \A y \in Node : /\ l[y].parent \in Node \cup {NULL} /\ l[y].child \in Node \cup {NULL}
                      /\ l[y].last_child \in Node \cup {NULL}
                      /\ l[y].prev \in Node \cup {NULL} /\ l[y].next \in Node \cup {NULL}
  BY DEF Link
<1>7. \A y \in Node : /\ r[y].parent \in Node \cup {NULL} /\ r[y].child \in Node \cup {NULL}
                      /\ r[y].last_child \in Node \cup {NULL}
                      /\ r[y].prev \in Node \cup {NULL} /\ r[y].next \in Node \cup {NULL}
  BY <1>5, <1>6 DEF Linked
<1>8. ASSUME NEW x \in Node PROVE r[x] \in Link
  <2>1. [parent |-> r[x].parent, child |-> r[x].child, last_child |-> r[x].last_child,
         prev |-> r[x].prev, next |-> r[x].next] \in Link
    BY <1>7 DEF Link
  <2> QED BY <1>4, <2>1, Zenon
<1>9. r \in [Node -> Link]
  BY <1>3, <1>8, Zenon
<1> QED BY <1>5, <1>9 DEF r, q

\* a and b are neighbours among the children of p, or NULL beyond its ends.
Neighbours(l, S, p, a, b) ==
  /\ a \in S \cup {NULL} /\ b \in S \cup {NULL}
  /\ a = NULL => b = l[p].child
  /\ a # NULL => l[a].parent = p /\ l[a].next = b
  /\ b = NULL => a = l[p].last_child
  /\ b # NULL => l[b].parent = p /\ l[b].prev = a

LEMMA LinkedSound ==
  ASSUME NULL \notin Node, NEW S \in SUBSET Node, NEW l, NEW r, NEW n \in S, NEW p \in S, p # n,
         NEW a, NEW b, Neighbours(l, S, p, a, b), Detached(l, n), Sound(l, S),
         Linked(l, r, p, a, b, n)
  PROVE  Sound(r, S)
<1>1. /\ a \in S \cup {NULL} /\ b \in S \cup {NULL}
      /\ a = NULL => b = l[p].child
      /\ a # NULL => l[a].parent = p /\ l[a].next = b
      /\ b = NULL => a = l[p].last_child
      /\ b # NULL => l[b].parent = p /\ l[b].prev = a
      /\ l[n].parent = NULL /\ l[n].prev = NULL /\ l[n].next = NULL
  BY DEF Neighbours, Detached
<1>2. NULL \notin S /\ p # NULL
  OBVIOUS
<1>3. a # n /\ b # n
  BY <1>1, <1>2
<1>4. \A x \in S :
    /\ r[x].parent = IF x = n THEN p ELSE l[x].parent
    /\ r[x].prev = IF x = n THEN a ELSE IF x = b THEN n ELSE l[x].prev
    /\ r[x].next = IF x = n THEN b ELSE IF x = a THEN n ELSE l[x].next
    /\ r[x].child = IF x = p /\ a = NULL THEN n ELSE l[x].child
    /\ r[x].last_child = IF x = p /\ b = NULL THEN n ELSE l[x].last_child
  BY <1>1, <1>3 DEF Linked
<1>5. /\ \A x \in S : l[x].parent = NULL => l[x].prev = NULL /\ l[x].next = NULL
      /\ \A x \in S : l[x].next # NULL => l[l[x].next].prev = x /\ l[l[x].next].parent = l[x].parent
      /\ \A x \in S : l[x].prev # NULL => l[l[x].prev].next = x /\ l[l[x].prev].parent = l[x].parent
      /\ \A x \in S : l[x].next \in S \cup {NULL} /\ l[x].prev \in S \cup {NULL}
  BY DEF Sound, PointsInto, Siblings
<1>6. /\ \A x \in S : l[x].child # NULL => l[l[x].child].parent = x /\ l[l[x].child].prev = NULL
      /\ \A x \in S : l[x].last_child # NULL
           => l[l[x].last_child].parent = x /\ l[l[x].last_child].next = NULL
      /\ \A x \in S : l[x].child = NULL <=> l[x].last_child = NULL
      /\ \A x \in S : l[x].parent # NULL /\ l[x].prev = NULL => l[l[x].parent].child = x
      /\ \A x \in S : l[x].parent # NULL /\ l[x].next = NULL => l[l[x].parent].last_child = x
      /\ \A x \in S : l[x].child \in S \cup {NULL} /\ l[x].last_child \in S \cup {NULL}
      /\ \A x \in S : l[x].parent \in S \cup {NULL}
  BY DEF Sound, PointsInto, FirstAndLast
<1>7. PointsInto(r, S)
  BY <1>1, <1>4, <1>5, <1>6 DEF PointsInto
<1>8. ASSUME NEW m \in S
      PROVE  /\ r[m].parent = NULL => r[m].prev = NULL /\ r[m].next = NULL
             /\ r[m].next # NULL => r[r[m].next].prev = m /\ r[r[m].next].parent = r[m].parent
             /\ r[m].prev # NULL => r[r[m].prev].next = m /\ r[r[m].prev].parent = r[m].parent
  <2>1. r[m].parent = NULL => r[m].prev = NULL /\ r[m].next = NULL
    BY <1>1, <1>2, <1>4, <1>5
  <2>2. ASSUME NEW k, k = r[m].next, k # NULL PROVE r[k].prev = m /\ r[k].parent = r[m].parent
    <3>1. CASE m = n
      BY <2>2, <3>1, <1>1, <1>3, <1>4
    <3>2. CASE m = a
      BY <2>2, <3>2, <1>1, <1>3, <1>4
    <3>3. CASE m # n /\ m # a
      <4>1. k = l[m].next /\ k \in S /\ l[k].prev = m /\ l[k].parent = l[m].parent
        BY <2>2, <3>3, <1>4, <1>5
      <4>2. k # n /\ k # b
        BY <3>3, <4>1, <1>1, <1>2
      <4> QED BY <3>3, <4>1, <4>2, <1>4
    <3> QED BY <3>1, <3>2, <3>3
  <2>3. ASSUME NEW k, k = r[m].prev, k # NULL PROVE r[k].next = m /\ r[k].parent = r[m].parent
    <3>1. CASE m = n
      BY <2>3, <3>1, <1>1, <1>3, <1>4
    <3>2. CASE m = b
      BY <2>3, <3>2, <1>1, <1>3, <1>4
    <3>3. CASE m # n /\ m # b
      <4>1. k = l[m].prev /\ k \in S /\ l[k].next = m /\ l[k].parent = l[m].parent
        BY <2>3, <3>3, <1>4, <1>5
      <4>2. k # n /\ k # a
        BY <3>3, <4>1, <1>1, <1>2
      <4> QED BY <3>3, <4>1, <4>2, <1>4
    <3> QED BY <3>1, <3>2, <3>3
  <2> QED BY <2>1, <2>2, <2>3
<1>9. ASSUME NEW m \in S
      PROVE  /\ r[m].child # NULL => r[r[m].child].parent = m /\ r[r[m].child].prev = NULL
             /\ r[m].last_child # NULL
                  => r[r[m].last_child].parent = m /\ r[r[m].last_child].next = NULL
             /\ r[m].child = NULL <=> r[m].last_child = NULL
             /\ r[m].parent # NULL /\ r[m].prev = NULL => r[r[m].parent].child = m
             /\ r[m].parent # NULL /\ r[m].next = NULL => r[r[m].parent].last_child = m
  <2>1. ASSUME NEW k, k = r[m].child, k # NULL PROVE r[k].parent = m /\ r[k].prev = NULL
    <3>1. CASE m = p /\ a = NULL
      BY <2>1, <3>1, <1>1, <1>4
    <3>2. CASE ~(m = p /\ a = NULL)
      <4>1. k = l[m].child /\ k \in S /\ l[k].parent = m /\ l[k].prev = NULL
        BY <2>1, <3>2, <1>4, <1>6
      <4>2. k # n /\ k # b
        BY <3>2, <4>1, <1>1, <1>2
      <4> QED BY <4>1, <4>2, <1>4
    <3> QED BY <3>1, <3>2
  <2>2. ASSUME NEW k, k = r[m].last_child, k # NULL PROVE r[k].parent = m /\ r[k].next = NULL
    <3>1. CASE m = p /\ b = NULL
      BY <2>2, <3>1, <1>1, <1>4
    <3>2. CASE ~(m = p /\ b = NULL)
      <4>1. k = l[m].last_child /\ k \in S /\ l[k].parent = m /\ l[k].next = NULL
        BY <2>2, <3>2, <1>4, <1>6
      <4>2. k # n /\ k # a
        BY <3>2, <4>1, <1>1, <1>2
      <4> QED BY <4>1, <4>2, <1>4
    <3> QED BY <3>1, <3>2
  <2>3. r[m].child = NULL <=> r[m].last_child = NULL
    BY <1>1, <1>2, <1>4, <1>6
  <2>4. r[m].parent # NULL /\ r[m].prev = NULL => r[r[m].parent].child = m
    <3> SUFFICES ASSUME r[m].parent # NULL, r[m].prev = NULL PROVE r[r[m].parent].child = m
      OBVIOUS
    <3>1. CASE m = n
      BY <3>1, <1>4
    <3>2. CASE m # n
      <4>1. m # b /\ l[m].prev = NULL /\ l[l[m].parent].child = m /\ l[m].parent \in S
        BY <3>2, <1>2, <1>4, <1>6
      <4>2. ~(l[m].parent = p /\ a = NULL)
        BY <4>1, <1>1
      <4> QED BY <3>2, <4>1, <4>2, <1>4
    <3> QED BY <3>1, <3>2
  <2>5. r[m].parent # NULL /\ r[m].next = NULL => r[r[m].parent].last_child = m
    <3> SUFFICES ASSUME r[m].parent # NULL, r[m].next = NULL PROVE r[r[m].parent].last_child = m
      OBVIOUS
    <3>1. CASE m = n
      BY <3>1, <1>4
    <3>2. CASE m # n
      <4>1. m # a /\ l[m].next = NULL /\ l[l[m].parent].last_child = m /\ l[m].parent \in S
        BY <3>2, <1>2, <1>4, <1>6
      <4>2. ~(l[m].parent = p /\ b = NULL)
        BY <4>1, <1>1
      <4> QED BY <3>2, <4>1, <4>2, <1>4
    <3> QED BY <3>1, <3>2
  <2> QED BY <2>1, <2>2, <2>3, <2>4, <2>5
<1>10. Siblings(r, S) /\ FirstAndLast(r, S)
  BY <1>8, <1>9 DEF Siblings, FirstAndLast
<1> QED BY <1>7, <1>10 DEF Sound

\* Room is made for n after the position of a.
LEMMA LinkedOrdered ==
  ASSUME NULL \notin Node, NEW S \in SUBSET Node, NEW l, NEW r, NEW n \in S, NEW p \in S, p # n,
         NEW a, NEW b, Neighbours(l, S, p, a, b), Detached(l, n), Sound(l, S),
         NEW pos \in [Node -> Nat], Ordered(l, S, pos), Linked(l, r, p, a, b, n)
  PROVE  \E new \in [Node -> Nat] : Ordered(r, S, new)
<1> DEFINE Moves(x) == a = NULL \/ pos[x] > pos[a]
           here == IF a = NULL THEN 0 ELSE pos[a] + 1
           new == [x \in Node |-> IF x = n THEN here ELSE IF Moves(x) THEN pos[x] + 1 ELSE pos[x]]
<1>1. /\ a \in S \cup {NULL} /\ b \in S \cup {NULL}
      /\ a # NULL => l[a].next = b
      /\ l[n].prev = NULL /\ l[n].next = NULL /\ l[n].parent = NULL
      /\ a # NULL => l[a].parent = p
      /\ b # NULL => l[b].parent = p
      /\ p # NULL
  BY DEF Neighbours, Detached
<1>2. a # n /\ b # n /\ (a # NULL => pos[a] \in Nat)
  BY <1>1
<1>3. here \in Nat /\ new \in [Node -> Nat]
  BY <1>2
<1>4. ASSUME NEW m \in S, NEW k, k = r[m].next, k # NULL
      PROVE  new[m] < new[k]
  <2>1. CASE m = n
    <3>1. k = b /\ b \in Node /\ b # n
      BY <1>1, <1>2, <1>4, <2>1 DEF Linked
    <3>2. a # NULL => pos[a] < pos[b]
      BY <1>1, <3>1, <1>4 DEF Ordered
    <3>3. new[m] = here /\ new[k] = IF Moves(b) THEN pos[b] + 1 ELSE pos[b]
      BY <2>1, <3>1
    <3> QED BY <1>2, <3>1, <3>2, <3>3
  <2>2. CASE m = a
    <3>1. k = n /\ a \in Node /\ a # NULL
      BY <1>1, <1>2, <2>2, <1>4 DEF Linked
    <3> QED BY <1>2, <2>2, <3>1
  <2>3. CASE m # n /\ m # a
    <3>1. k = l[m].next /\ k \in S /\ l[k].prev = m
      BY <2>3, <1>4 DEF Linked, Sound, PointsInto, Siblings
    <3>2. k # n /\ pos[m] < pos[k] /\ pos[m] \in Nat /\ pos[k] \in Nat
      BY <1>1, <1>4, <3>1 DEF Ordered
    <3>3. /\ new[m] = IF Moves(m) THEN pos[m] + 1 ELSE pos[m]
          /\ new[k] = IF Moves(k) THEN pos[k] + 1 ELSE pos[k]
      BY <2>3, <3>1, <3>2
    <3>4. Moves(m) => Moves(k)
      BY <1>2, <3>2
    <3> QED BY <3>2, <3>3, <3>4
  <2> QED BY <2>1, <2>2, <2>3
<1>5. Ordered(r, S, new)
  BY <1>4 DEF Ordered
<1> QED BY <1>3, <1>5

-----------------------------------------------------------------------------
(* mxmlRemove and mxmlAdd.                                                 *)

LEMMA RemovedSound ==
  ASSUME NULL \notin Node, NEW S \in SUBSET Node, NEW l \in [Node -> Link], NEW n \in S,
         NEW pos \in [Node -> Nat], Sound(l, S), Ordered(l, S, pos)
  PROVE  /\ Removed(l, n) \in [Node -> Link] /\ Sound(Removed(l, n), S)
         /\ Ordered(Removed(l, n), S, pos) /\ Detached(Removed(l, n), n)
         /\ \A m \in S : Detached(l, m) => Detached(Removed(l, n), m)
<1>1. CASE l[n].parent = NULL
  <2>1. Removed(l, n) = l
    BY <1>1 DEF Removed
  <2>2. Detached(l, n)
    BY <1>1 DEF Detached, Sound, Siblings
  <2> QED BY <2>1, <2>2
<1>2. CASE l[n].parent # NULL
  <2> DEFINE r == Unlink(l, n)
  <2>1. Removed(l, n) = r
    BY <1>2 DEF Removed
  <2>2. Unlinked(l, r, n) /\ r \in [Node -> Link]
    BY UnlinkFields, UnlinkTyped
  <2> HIDE DEF r
  <2>3. Sound(r, S) /\ Ordered(r, S, pos) /\ Detached(r, n)
    BY <1>2, <2>2, UnlinkedSound
  <2>4. ASSUME NEW m \in S, Detached(l, m) PROVE Detached(r, m)
    <3>1. m # l[n].prev /\ m # l[n].next
      BY <1>2, <2>4 DEF Detached, Sound, Siblings
    <3> QED BY <2>2, <2>4, <3>1 DEF Detached, Unlinked
  <2> QED BY <2>1, <2>2, <2>3, <2>4
<1> QED BY <1>1, <1>2

LEMMA AddedSound ==
  ASSUME NULL \notin Node, NEW S \in SUBSET Node, NEW l \in [Node -> Link],
         NEW n \in S, NEW p \in S, p # n, NEW c \in S \cup {NULL}, c # n,
         NEW where \in {"before", "after"},
         NEW pos \in [Node -> Nat], Sound(l, S), Ordered(l, S, pos)
  PROVE  /\ Added(l, p, where, c, n) \in [Node -> Link]
         /\ Sound(Added(l, p, where, c, n), S)
         /\ \E new \in [Node -> Nat] : Ordered(Added(l, p, where, c, n), S, new)
<1> DEFINE u == Removed(l, n)
           r == [u EXCEPT ![n].parent = p]
<1>1. /\ u \in [Node -> Link] /\ Sound(u, S) /\ Ordered(u, S, pos) /\ Detached(u, n)
  BY RemovedSound
<1> HIDE DEF u
<1>2. /\ r[p].child = u[p].child /\ r[p].last_child = u[p].last_child
      /\ c # NULL => r[c].parent = u[c].parent /\ r[c].prev = u[c].prev /\ r[c].next = u[c].next
  BY <1>1 DEF Link
<1>3. PICK a \in S \cup {NULL}, b \in S \cup {NULL} :
        Added(l, p, where, c, n) = Between(r, p, a, b, n) /\ Neighbours(u, S, p, a, b)
  <2>1. /\ u[p].child \in S \cup {NULL} /\ u[p].last_child \in S \cup {NULL}
        /\ u[p].child # NULL => u[u[p].child].parent = p /\ u[u[p].child].prev = NULL
        /\ u[p].last_child # NULL => u[u[p].last_child].parent = p /\ u[u[p].last_child].next = NULL
        /\ u[p].child = NULL <=> u[p].last_child = NULL
    BY <1>1 DEF Sound, PointsInto, FirstAndLast
  <2>2. c # NULL =>
        /\ u[c].prev \in S \cup {NULL} /\ u[c].next \in S \cup {NULL}
        /\ u[c].next # NULL => u[u[c].next].prev = c /\ u[u[c].next].parent = u[c].parent
        /\ u[c].prev # NULL => u[u[c].prev].next = c /\ u[u[c].prev].parent = u[c].parent
        /\ u[c].parent # NULL /\ u[c].prev = NULL => u[u[c].parent].child = c
        /\ u[c].parent # NULL /\ u[c].next = NULL => u[u[c].parent].last_child = c
    BY <1>1 DEF Sound, PointsInto, Siblings, FirstAndLast
  <2>3. NULL \notin S
    OBVIOUS
  <2> HIDE DEF r
  <2>4. CASE where = "before" /\ (c \in {NULL, r[p].child} \/ r[c].parent # p)
    <3>1. Added(l, p, where, c, n) = Between(r, p, NULL, u[p].child, n)
      BY <1>2, <2>4, Zenon DEF Added, u, r
    <3>2. Neighbours(u, S, p, NULL, u[p].child)
      BY <2>1 DEF Neighbours
    <3> QED BY <2>1, <3>1, <3>2
  <2>5. CASE where = "before" /\ c \notin {NULL, r[p].child} /\ r[c].parent = p
    <3>1. Added(l, p, where, c, n) = Between(r, p, u[c].prev, c, n)
      BY <1>2, <2>5, Zenon DEF Added, u, r
    <3>2. Neighbours(u, S, p, u[c].prev, c)
      BY <1>2, <2>2, <2>3, <2>5 DEF Neighbours
    <3> QED BY <2>2, <2>5, <3>1, <3>2
  <2>6. CASE where = "after" /\ (c \in {NULL, r[p].last_child} \/ r[c].parent # p)
    <3>1. Added(l, p, where, c, n) = Between(r, p, u[p].last_child, NULL, n)
      BY <1>2, <2>6, Zenon DEF Added, u, r
    <3>2. Neighbours(u, S, p, u[p].last_child, NULL)
      BY <2>1 DEF Neighbours
    <3> QED BY <2>1, <3>1, <3>2
  <2>7. CASE where = "after" /\ c \notin {NULL, r[p].last_child} /\ r[c].parent = p
    <3>1. Added(l, p, where, c, n) = Between(r, p, c, u[c].next, n)
      BY <1>2, <2>7, Zenon DEF Added, u, r
    <3>2. Neighbours(u, S, p, c, u[c].next)
      BY <1>2, <2>2, <2>3, <2>7 DEF Neighbours
    <3> QED BY <2>2, <2>7, <3>1, <3>2
  <2> QED BY <2>4, <2>5, <2>6, <2>7
<1>4. Linked(u, Between(r, p, a, b, n), p, a, b, n) /\ Between(r, p, a, b, n) \in [Node -> Link]
  BY <1>1, BetweenFields
<1>5. Sound(Between(r, p, a, b, n), S)
  BY <1>1, <1>3, <1>4, LinkedSound
<1>6. \E new \in [Node -> Nat] : Ordered(Between(r, p, a, b, n), S, new)
  BY <1>1, <1>3, <1>4, LinkedOrdered
<1> QED BY <1>3, <1>4, <1>5, <1>6

-----------------------------------------------------------------------------
(* Freeing a node.                                                         *)

\* A node with no first child is nobody's parent: among the nodes whose parent
\* it were, the one of the lowest position would be its first child.
LEMMA NoOrphans ==
  ASSUME NULL \notin Node, NEW S \in SUBSET Node, NEW l, NEW pos \in [Node -> Nat], NEW n \in S,
         Sound(l, S), Ordered(l, S, pos), l[n].child = NULL, NEW m \in S
  PROVE  l[m].parent # n
<1> DEFINE Less == {q \in Nat \X Nat : q[1] < q[2]}
           T == {pos[k] : k \in {k \in S : l[k].parent = n}}
<1> SUFFICES ASSUME l[m].parent = n PROVE FALSE
  OBVIOUS
<1>1. IsWellFoundedOn(Less, Nat)
  BY NatLessThanWellFounded, Zenon DEF OpToRel
<1>2. T \subseteq Nat /\ T # {}
  OBVIOUS
<1>3. \A x, y \in Nat : x < y => <<x, y>> \in Less
  OBVIOUS
<1> HIDE DEF Less
<1>4. PICK t \in T : \A y \in T : <<y, t>> \notin Less
  <2> HIDE DEF T
  <2> QED BY <1>1, <1>2, WFMin
<1>5. PICK k \in S : l[k].parent = n /\ t = pos[k]
  BY <1>4
<1>6. l[k].prev = NULL
  <2> SUFFICES ASSUME l[k].prev # NULL PROVE FALSE
    OBVIOUS
  <2>1. /\ l[k].prev \in S /\ l[l[k].prev].next = k /\ l[l[k].prev].parent = n
    BY <1>5 DEF Sound, PointsInto, Siblings
  <2>2. pos[l[k].prev] < pos[k] /\ pos[l[k].prev] \in T
    BY <2>1 DEF Ordered
  <2>3. pos[l[k].prev] \in Nat /\ pos[k] \in Nat
    BY <2>1
  <2> QED BY <1>3, <1>4, <1>5, <2>2, <2>3
<1>7. l[n].child = k
  BY <1>5, <1>6 DEF Sound, FirstAndLast
<1> QED BY <1>7

-----------------------------------------------------------------------------
(* The invariant of the state.                                             *)

Acyclic == \E pos \in [Node -> Nat] : Ordered(link, live, pos)

\* The nodes being deleted are cut off, and are different ones.
Apart ==
  /\ \A i \in 1 .. Len(deleting) : Detached(link, deleting[i])
  /\ \A i, j \in 1 .. Len(deleting) : deleting[i] = deleting[j] => i = j

\* Only a node that is being deleted has no owner.
Counted == \A n \in live : ref_count[n] = 0 => \E i \in 1 .. Len(deleting) : deleting[i] = n

Pointers == link \in [Node -> Link] /\ Sound(link, live) /\ Acyclic

IInv == TypeOK /\ Pointers /\ Apart /\ Counted

\* What a call that deletes nothing has to show.
LEMMA CallKept ==
  ASSUME Idle, UNCHANGED deleting, live' \subseteq Node, Pointers',
         ref_count' \in [Node -> 0 .. MaxRefs], \A n \in live' : ref_count'[n] # 0
  PROVE  IInv'
<1>1. deleting = <<>> /\ deleting' = <<>> /\ Len(deleting') = 0
  BY DEF Idle
<1>2. TypeOK'
  BY <1>1 DEF TypeOK, Pointers
<1>3. Apart' /\ Counted'
  BY <1>1 DEF Apart, Counted
<1> QED BY <1>2, <1>3 DEF IInv

LEMMA IdleCounts ==
  ASSUME IInv, Idle
  PROVE  \A n \in live : ref_count[n] # 0
BY DEF IInv, Counted, Idle

LEMMA NewKept ==
  ASSUME IInv, NEW n \in Node, NEW p \in live \cup {NULL}, mxmlNew(n, p)
  PROVE  IInv'
<1> DEFINE fresh == [link EXCEPT ![n] = Alone]
           S == live \cup {n}
<1>1. /\ n \notin live /\ live' = S /\ ref_count' = [ref_count EXCEPT ![n] = 1]
      /\ link' = IF p = NULL THEN fresh ELSE Added(fresh, p, "after", NULL, n)
      /\ Idle /\ UNCHANGED deleting
  BY DEF mxmlNew
<1>2. live \subseteq Node /\ link \in [Node -> Link] /\ NULL \notin Node
      /\ ref_count \in [Node -> 0 .. MaxRefs] /\ MaxRefs \in Nat \ {0}
  BY XmlTreeAssumption DEF IInv, TypeOK, XmlTreeAssumption
<1>3. PICK pos \in [Node -> Nat] : Ordered(link, live, pos)
  BY DEF IInv, Pointers, Acyclic
<1>4. fresh \in [Node -> Link]
  BY <1>2 DEF Alone, Link
<1>5. \A x \in Node : fresh[x] = IF x = n THEN Alone ELSE link[x]
  BY <1>2
<1>6. /\ Alone.parent = NULL /\ Alone.prev = NULL /\ Alone.next = NULL
      /\ Alone.child = NULL /\ Alone.last_child = NULL
  BY DEF Alone
<1> HIDE DEF fresh
<1>7. Sound(link, live)
  BY DEF IInv, Pointers
<1>8. PointsInto(fresh, S)
  BY <1>1, <1>2, <1>5, <1>6, <1>7 DEF Sound, PointsInto
<1>9. Siblings(fresh, S)
  BY <1>1, <1>2, <1>5, <1>6, <1>7 DEF Sound, PointsInto, Siblings
<1>10. FirstAndLast(fresh, S)
  BY <1>1, <1>2, <1>5, <1>6, <1>7 DEF Sound, PointsInto, FirstAndLast
<1>11. Ordered(fresh, S, pos)
  BY <1>2, <1>3, <1>5, <1>6 DEF Ordered
<1>12. Sound(fresh, S)
  BY <1>8, <1>9, <1>10 DEF Sound
<1>13. Pointers'
  <2>1. CASE p = NULL
    BY <1>1, <1>4, <1>11, <1>12, <2>1 DEF Pointers, Acyclic
  <2>2. CASE p # NULL
    <3>1. n \in S /\ p \in S /\ p # n /\ NULL # n /\ S \in SUBSET Node
      BY <1>1, <1>2, <2>2
    <3> HIDE DEF S
    <3>2. /\ Added(fresh, p, "after", NULL, n) \in [Node -> Link]
          /\ Sound(Added(fresh, p, "after", NULL, n), S)
          /\ \E new \in [Node -> Nat] : Ordered(Added(fresh, p, "after", NULL, n), S, new)
      BY <1>2, <1>4, <1>11, <1>12, <3>1, AddedSound
    <3> QED BY <1>1, <2>2, <3>2 DEF Pointers, Acyclic
  <2> QED BY <2>1, <2>2
<1>14. live' \subseteq Node /\ ref_count' \in [Node -> 0 .. MaxRefs]
       /\ \A m \in live' : ref_count'[m] # 0
  <2>1. \A m \in live : ref_count[m] # 0
    BY <1>1, IdleCounts
  <2> QED BY <1>1, <1>2, <2>1
<1> QED BY <1>1, <1>13, <1>14, CallKept

LEMMA AddKept ==
  ASSUME IInv, NEW n \in live, NEW p \in live, NEW where \in {"before", "after"},
         NEW c \in live \cup {NULL}, mxmlAdd(p, where, c, n)
  PROVE  IInv'
<1>1. /\ Idle /\ p # n /\ c # n /\ UNCHANGED <<live, ref_count, deleting>>
      /\ link' = Added(link, p, where, c, n)
  BY DEF mxmlAdd, Ancestors
<1>2. live \in SUBSET Node /\ NULL \notin Node /\ link \in [Node -> Link] /\ Sound(link, live)
  BY XmlTreeAssumption DEF IInv, TypeOK, Pointers, XmlTreeAssumption
<1>3. PICK pos \in [Node -> Nat] : Ordered(link, live, pos)
  BY DEF IInv, Pointers, Acyclic
<1>4. /\ Added(link, p, where, c, n) \in [Node -> Link]
      /\ Sound(Added(link, p, where, c, n), live)
      /\ \E new \in [Node -> Nat] : Ordered(Added(link, p, where, c, n), live, new)
  BY <1>1, <1>2, <1>3, AddedSound
<1>5. Pointers'
  BY <1>1, <1>4 DEF Pointers, Acyclic
<1>6. live' \subseteq Node /\ ref_count' \in [Node -> 0 .. MaxRefs]
       /\ \A m \in live' : ref_count'[m] # 0
  BY <1>1, IdleCounts DEF IInv, TypeOK
<1> QED BY <1>1, <1>5, <1>6, CallKept

LEMMA RemovedPointers ==
  ASSUME IInv, NEW n \in live, link' = Removed(link, n), live' = live
  PROVE  /\ Pointers' /\ Detached(link', n)
         /\ \A m \in live : Detached(link, m) => Detached(link', m)
<1>1. live \in SUBSET Node /\ NULL \notin Node /\ link \in [Node -> Link] /\ Sound(link, live)
  BY XmlTreeAssumption DEF IInv, TypeOK, Pointers, XmlTreeAssumption
<1>2. PICK pos \in [Node -> Nat] : Ordered(link, live, pos)
  BY DEF IInv, Pointers, Acyclic
<1>3. /\ Removed(link, n) \in [Node -> Link] /\ Sound(Removed(link, n), live)
      /\ Ordered(Removed(link, n), live, pos) /\ Detached(Removed(link, n), n)
      /\ \A m \in live : Detached(link, m) => Detached(Removed(link, n), m)
  BY <1>1, <1>2, RemovedSound
<1> QED BY <1>3 DEF Pointers, Acyclic

LEMMA RemoveKept ==
  ASSUME IInv, NEW n \in live, mxmlRemove(n)
  PROVE  IInv'
<1>1. Idle /\ link' = Removed(link, n) /\ UNCHANGED <<live, ref_count, deleting>>
  BY DEF mxmlRemove
<1>2. Pointers'
  BY <1>1, RemovedPointers
<1>3. live' \subseteq Node /\ ref_count' \in [Node -> 0 .. MaxRefs]
       /\ \A m \in live' : ref_count'[m] # 0
  BY <1>1, IdleCounts DEF IInv, TypeOK
<1> QED BY <1>1, <1>2, <1>3, CallKept

LEMMA RetainKept ==
  ASSUME IInv, NEW n \in live, mxmlRetain(n)
  PROVE  IInv'
<1>1. /\ Idle /\ ref_count[n] < MaxRefs /\ ref_count' = [ref_count EXCEPT ![n] = @ + 1]
      /\ UNCHANGED <<live, link, deleting>>
  BY DEF mxmlRetain
<1>2. Pointers'
  BY <1>1 DEF IInv, Pointers, Acyclic
<1>3. /\ live \subseteq Node /\ ref_count \in [Node -> 0 .. MaxRefs] /\ MaxRefs \in Nat
      /\ \A m \in live : ref_count[m] # 0
  BY <1>1, IdleCounts, XmlTreeAssumption DEF IInv, TypeOK, XmlTreeAssumption
<1>4. live' \subseteq Node /\ ref_count' \in [Node -> 0 .. MaxRefs]
       /\ \A m \in live' : ref_count'[m] # 0
  BY <1>1, <1>3
<1> QED BY <1>1, <1>2, <1>4, CallKept

\* A call of mxmlDelete for a node that is not yet being deleted.
LEMMA CallsKept ==
  ASSUME IInv, NEW n \in live, Call(n), live' = live,
         \A i \in 1 .. Len(deleting) : deleting[i] # n,
         ref_count' \in [Node -> 0 .. MaxRefs],
         \A m \in live : m # n => ref_count'[m] = ref_count[m]
  PROVE  IInv'
<1>1. deleting' = Append(deleting, n) /\ link' = Removed(link, n)
  BY DEF Call
<1>2. /\ Pointers' /\ Detached(link', n)
      /\ \A m \in live : Detached(link, m) => Detached(link', m)
  BY <1>1, RemovedPointers
<1>3. deleting \in Seq(live) /\ live \subseteq Node
  BY DEF IInv, TypeOK
<1>4. /\ deleting' \in Seq(live) /\ Len(deleting) \in Nat /\ Len(deleting') = Len(deleting) + 1
      /\ \A i \in 1 .. Len(deleting) : deleting'[i] = deleting[i] /\ deleting[i] \in live
      /\ deleting'[Len(deleting) + 1] = n
  BY <1>1, <1>3, AppendProperties, LenProperties
<1>5. TypeOK'
  BY <1>2, <1>3, <1>4 DEF TypeOK, Pointers
<1>6. Apart'
  BY <1>2, <1>4 DEF IInv, Apart
<1>7. Counted'
  <2> SUFFICES ASSUME NEW m \in live, ref_count'[m] = 0
               PROVE  \E i \in 1 .. Len(deleting') : deleting'[i] = m
    BY DEF Counted
  <2>1. CASE m = n
    BY <1>4, <2>1
  <2>2. CASE m # n
    <3>1. PICK i \in 1 .. Len(deleting) : deleting[i] = m
      BY <2>2 DEF IInv, Counted
    <3> QED BY <1>4, <3>1
  <2> QED BY <2>1, <2>2
<1> QED BY <1>2, <1>5, <1>6, <1>7 DEF IInv

LEMMA DeleteKept ==
  ASSUME IInv, NEW n \in live, mxmlDelete(n) \/ mxmlRelease(n)
  PROVE  IInv'
<1>1. Idle /\ Len(deleting) = 0 /\ live' = live
  BY DEF mxmlDelete, mxmlRelease, Idle
<1>2. /\ live \subseteq Node /\ ref_count \in [Node -> 0 .. MaxRefs] /\ MaxRefs \in Nat
      /\ \A m \in live : ref_count[m] # 0
  BY <1>1, IdleCounts, XmlTreeAssumption DEF IInv, TypeOK, XmlTreeAssumption
<1>3. CASE mxmlDelete(n)
  <2>1. Call(n) /\ ref_count' = ref_count
    BY <1>3 DEF mxmlDelete
  <2> QED BY <1>1, <1>2, <2>1, CallsKept
<1>4. CASE mxmlRelease(n)
  <2>1. ref_count' = [ref_count EXCEPT ![n] = @ - 1]
    BY <1>4 DEF mxmlRelease
  <2>2. /\ ref_count' \in [Node -> 0 .. MaxRefs]
        /\ \A m \in live : m # n => ref_count'[m] = ref_count[m]
        /\ ref_count'[n] = ref_count[n] - 1
    BY <1>2, <2>1
  <2>3. CASE ref_count[n] = 1
    <3>1. Call(n)
      BY <1>4, <2>3 DEF mxmlRelease
    <3> QED BY <1>1, <2>2, <3>1, CallsKept
  <2>4. CASE ref_count[n] # 1
    <3>1. UNCHANGED <<link, deleting>>
      BY <1>4, <2>4 DEF mxmlRelease
    <3>2. Pointers'
      BY <1>1, <3>1 DEF IInv, Pointers, Acyclic
    <3>3. \A m \in live : ref_count'[m] # 0
      BY <1>2, <2>2, <2>4
    <3> QED BY <1>1, <1>2, <2>2, <3>1, <3>2, <3>3, CallKept
  <2> QED BY <2>3, <2>4
<1> QED BY <1>3, <1>4

LEMMA DeleteChildKept ==
  ASSUME IInv, DeleteChild
  PROVE  IInv'
<1> DEFINE n == Last(deleting)
           c == link[n].child
<1>1. /\ deleting # <<>> /\ c # NULL /\ Call(c) /\ UNCHANGED <<live, ref_count>>
  BY DEF DeleteChild, Idle
<1>2. deleting \in Seq(live)
  BY DEF IInv, TypeOK
<1>3. n \in live
  BY <1>1, <1>2, FrontOfSequence
<1>4. c \in live /\ link[c].parent = n
  BY <1>1, <1>3 DEF IInv, Pointers, Sound, PointsInto, FirstAndLast
<1>5. NULL \notin live
  BY XmlTreeAssumption DEF IInv, TypeOK, XmlTreeAssumption
<1>6. \A i \in 1 .. Len(deleting) : deleting[i] # c
  BY <1>3, <1>4, <1>5 DEF IInv, Apart, Detached
<1>7. ref_count' \in [Node -> 0 .. MaxRefs]
  BY <1>1 DEF IInv, TypeOK
<1> HIDE DEF c
<1> QED BY <1>1, <1>4, <1>6, <1>7, CallsKept

LEMMA FreeNodeKept ==
  ASSUME IInv, FreeNode
  PROVE  IInv'
<1> DEFINE n == Last(deleting)
           S == live \ {n}
           N == Len(deleting)
<1>1. /\ deleting # <<>> /\ link[n].child = NULL /\ live' = S
      /\ link' = [link EXCEPT ![n] = Alone] /\ ref_count' = [ref_count EXCEPT ![n] = 0]
      /\ deleting' = Front(deleting)
  BY DEF FreeNode, Idle
<1>2. /\ deleting \in Seq(live) /\ live \subseteq Node /\ link \in [Node -> Link]
      /\ ref_count \in [Node -> 0 .. MaxRefs] /\ MaxRefs \in Nat /\ NULL \notin Node
      /\ Sound(link, live)
  BY XmlTreeAssumption DEF IInv, TypeOK, Pointers, XmlTreeAssumption
<1>3. /\ N \in Nat /\ N > 0 /\ Front(deleting) \in Seq(live) /\ Len(Front(deleting)) = N - 1
      /\ \A i \in 1 .. N - 1 : Front(deleting)[i] = deleting[i]
      /\ n \in live /\ n = deleting[N]
  BY <1>1, <1>2, FrontOfSequence
<1>4. PICK pos \in [Node -> Nat] : Ordered(link, live, pos)
  BY DEF IInv, Pointers, Acyclic
<1>5. /\ Detached(link, n)
      /\ \A i \in 1 .. N : Detached(link, deleting[i])
      /\ \A i, j \in 1 .. N : deleting[i] = deleting[j] => i = j
  BY <1>3 DEF IInv, Apart
<1> HIDE DEF n
<1>6. \A m \in live : link[m].parent # n
  <2>1. live \in SUBSET Node /\ n \in live /\ link[n].child = NULL
    BY <1>1, <1>2, <1>3 DEF n
  <2>2. NULL \notin Node /\ Sound(link, live)
    BY <1>2
  <2> QED BY <1>4, <2>1, <2>2, NoOrphans, Zenon
<1>siblings.
      /\ \A m \in live : link[m].parent = NULL => link[m].prev = NULL /\ link[m].next = NULL
      /\ \A m \in live : link[m].next # NULL
            => link[link[m].next].prev = m /\ link[link[m].next].parent = link[m].parent
      /\ \A m \in live : link[m].prev # NULL
            => link[link[m].prev].next = m /\ link[link[m].prev].parent = link[m].parent
      /\ \A m \in live : link[m].next \in live \cup {NULL} /\ link[m].prev \in live \cup {NULL}
  BY <1>2 DEF Sound, PointsInto, Siblings
<1>ends.
      /\ \A m \in live : link[m].child # NULL
            => link[link[m].child].parent = m /\ link[link[m].child].prev = NULL
      /\ \A m \in live : link[m].last_child # NULL
            => link[link[m].last_child].parent = m /\ link[link[m].last_child].next = NULL
      /\ \A m \in live : link[m].child = NULL <=> link[m].last_child = NULL
      /\ \A m \in live : link[m].parent # NULL /\ link[m].prev = NULL
            => link[link[m].parent].child = m
      /\ \A m \in live : link[m].parent # NULL /\ link[m].next = NULL
            => link[link[m].parent].last_child = m
      /\ \A m \in live : link[m].child \in live \cup {NULL} /\ link[m].last_child \in live \cup {NULL}
      /\ \A m \in live : link[m].parent \in live \cup {NULL}
  BY <1>2 DEF Sound, PointsInto, FirstAndLast
<1>cut. link[n].parent = NULL /\ link[n].prev = NULL /\ link[n].next = NULL /\ NULL \notin live
  BY <1>2, <1>5 DEF Detached
<1>7. \A m \in live : /\ link[m].child # n /\ link[m].last_child # n
                      /\ link[m].prev # n /\ link[m].next # n
  BY <1>3, <1>siblings, <1>ends, <1>cut
<1>8. link' \in [Node -> Link]
  BY <1>1, <1>2 DEF Alone, Link
<1>9. \A m \in S : link'[m] = link[m] /\ m \in live /\ m # n
  BY <1>1, <1>2
<1>10. PointsInto(link', S)
  BY <1>6, <1>7, <1>9, <1>siblings, <1>ends DEF PointsInto
<1>11. Siblings(link', S)
  <2> SUFFICES ASSUME NEW m \in S
      PROVE  /\ link'[m].parent = NULL => link'[m].prev = NULL /\ link'[m].next = NULL
             /\ link'[m].next # NULL => /\ link'[link'[m].next].prev = m
                                       /\ link'[link'[m].next].parent = link'[m].parent
             /\ link'[m].prev # NULL => /\ link'[link'[m].prev].next = m
                                       /\ link'[link'[m].prev].parent = link'[m].parent
    BY DEF Siblings
  <2>1. link'[m] = link[m] /\ m \in live
    BY <1>9
  <2>2. link[m].next # NULL => link'[link[m].next] = link[link[m].next]
    BY <2>1, <1>7, <1>9, <1>siblings
  <2>3. link[m].prev # NULL => link'[link[m].prev] = link[link[m].prev]
    BY <2>1, <1>7, <1>9, <1>siblings
  <2> HIDE DEF S
  <2> QED BY <2>1, <2>2, <2>3, <1>siblings
<1>12. FirstAndLast(link', S)
  <2> SUFFICES ASSUME NEW m \in S
      PROVE  /\ link'[m].child # NULL => /\ link'[link'[m].child].parent = m
                                        /\ link'[link'[m].child].prev = NULL
             /\ link'[m].last_child # NULL => /\ link'[link'[m].last_child].parent = m
                                             /\ link'[link'[m].last_child].next = NULL
             /\ link'[m].child = NULL <=> link'[m].last_child = NULL
             /\ link'[m].parent # NULL /\ link'[m].prev = NULL => link'[link'[m].parent].child = m
             /\ link'[m].parent # NULL /\ link'[m].next = NULL
                  => link'[link'[m].parent].last_child = m
    BY DEF FirstAndLast
  <2>1. link'[m] = link[m] /\ m \in live
    BY <1>9
  <2>2. link[m].child # NULL => link'[link[m].child] = link[link[m].child]
    BY <2>1, <1>7, <1>9, <1>ends
  <2>3. link[m].last_child # NULL => link'[link[m].last_child] = link[link[m].last_child]
    BY <2>1, <1>7, <1>9, <1>ends
  <2>4. link[m].parent # NULL => link'[link[m].parent] = link[link[m].parent]
    BY <2>1, <1>6, <1>9, <1>ends
  <2> HIDE DEF S
  <2> QED BY <2>1, <2>2, <2>3, <2>4, <1>ends
<1>13. Ordered(link', S, pos)
  BY <1>4, <1>9 DEF Ordered
<1>14. Pointers'
  BY <1>1, <1>8, <1>10, <1>11, <1>12, <1>13 DEF Pointers, Acyclic, Sound
<1>15. \A i \in 1 .. N - 1 : deleting'[i] = deleting[i] /\ deleting[i] \in S
  <2> SUFFICES ASSUME NEW i \in 1 .. N - 1
               PROVE  deleting'[i] = deleting[i] /\ deleting[i] \in S
    OBVIOUS
  <2>1. i \in 1 .. N /\ N \in 1 .. N /\ i # N
    BY <1>3
  <2>3. deleting[i] \in live
    BY <1>2, <2>1, LenProperties
  <2> QED BY <1>1, <1>3, <1>5, <2>1, <2>3
<1>16. deleting' \in Seq(S) /\ Len(deleting') = N - 1
  <2>1. deleting' \in Seq(live) /\ Len(deleting') = N - 1
    BY <1>1, <1>3
  <2>2. \A i \in 1 .. Len(deleting') : deleting'[i] \in S
    BY <1>15, <2>1
  <2> HIDE DEF S, N
  <2> QED BY <2>1, <2>2, SeqDef, LenProperties
<1>17. TypeOK'
  BY <1>1, <1>2, <1>8, <1>16 DEF TypeOK
<1>18. Apart'
  <2>1. \A i \in 1 .. N - 1 : Detached(link', deleting'[i])
    BY <1>3, <1>5, <1>9, <1>15 DEF Detached
  <2>2. \A i, j \in 1 .. N - 1 : deleting'[i] = deleting'[j] => i = j
    BY <1>3, <1>5, <1>15
  <2> QED BY <1>16, <2>1, <2>2 DEF Apart
<1>19. Counted'
  <2> SUFFICES ASSUME NEW m \in S, ref_count'[m] = 0
               PROVE  \E i \in 1 .. Len(deleting') : deleting'[i] = m
    BY <1>1 DEF Counted
  <2>1. ref_count[m] = 0 /\ m # n
    BY <1>1, <1>2
  <2>2. PICK i \in 1 .. N : deleting[i] = m
    BY <2>1 DEF IInv, Counted
  <2>3. i # N
    BY <1>3, <2>1, <2>2
  <2> QED BY <1>3, <1>15, <1>16, <2>2, <2>3
<1> QED BY <1>14, <1>17, <1>18, <1>19 DEF IInv

LEMMA InitInvariant == TreeInit => IInv
<1> SUFFICES ASSUME TreeInit PROVE IInv
  OBVIOUS
<1>1. live = {} /\ deleting = <<>> /\ link \in [Node -> Link]
      /\ ref_count \in [Node -> 0 .. MaxRefs]
  BY XmlTreeAssumption DEF TreeInit, XmlTreeAssumption, Alone, Link
<1>2. [x \in Node |-> 0] \in [Node -> Nat]
  OBVIOUS
<1>3. Acyclic
  BY <1>1, <1>2 DEF Acyclic, Ordered
<1>4. Pointers
  BY <1>1, <1>3 DEF Pointers, Sound, PointsInto, Siblings, FirstAndLast
<1> QED BY <1>1, <1>4 DEF IInv, TypeOK, Apart, Counted

LEMMA NextInvariant == IInv /\ [TreeNext]_tree => IInv'
<1> SUFFICES ASSUME IInv, [TreeNext]_tree PROVE IInv'
  OBVIOUS
<1>1. ASSUME NEW n \in Node, NEW p \in live \cup {NULL}, mxmlNew(n, p) PROVE IInv'
  BY <1>1, NewKept
<1>2. ASSUME NEW n \in live, NEW p \in live, NEW where \in {"before", "after"},
             NEW c \in live \cup {NULL}, mxmlAdd(p, where, c, n)
      PROVE  IInv'
  BY <1>2, AddKept
<1>3. ASSUME NEW n \in live, mxmlRemove(n) \/ mxmlRetain(n) \/ mxmlDelete(n) \/ mxmlRelease(n)
      PROVE  IInv'
  BY <1>3, RemoveKept, RetainKept, DeleteKept
<1>4. CASE DeleteChild
  BY <1>4, DeleteChildKept
<1>5. CASE FreeNode
  BY <1>5, FreeNodeKept
<1>6. CASE UNCHANGED tree
  BY <1>6 DEF tree, IInv, TypeOK, Pointers, Acyclic, Apart, Counted
<1> QED BY <1>1, <1>2, <1>3, <1>4, <1>5, <1>6 DEF TreeNext, Client, Deletion

THEOREM TreeInvariance == TreeSpec => []IInv
BY InitInvariant, NextInvariant, PTL DEF TreeSpec

\* Every variable of the tree has its type (mxml-node.c).
THEOREM TreeTypeCorrect == TreeSpec => []TypeOK
<1>1. IInv => TypeOK
  BY DEF IInv
<1> QED BY <1>1, TreeInvariance, PTL

\* The five pointers of every node are sound: no call leaves one to a freed
\* node, or a sibling, parent or child that does not know of the other
\* (mxml-node.c:62-277, 626-683).
THEOREM PointersSound == TreeSpec => []LinksSound
<1>1. IInv => LinksSound
  BY SoundIsLinksSound DEF IInv, Pointers
<1> QED BY <1>1, TreeInvariance, PTL

-----------------------------------------------------------------------------
(* The trees the pointers make.                                            *)

\* A block that is no node points nowhere.
Blank(l, S) == \A n \in Node \ S : l[n] = Alone

\* The pointers of p and of its children, s.
Listed(l, p, s) ==
  LET m == Len(s) IN
  /\ l[p].child = IF m = 0 THEN NULL ELSE s[1]
  /\ l[p].last_child = IF m = 0 THEN NULL ELSE s[m]
  /\ \A i \in 1 .. m : /\ l[s[i]].parent = p
                       /\ l[s[i]].prev = IF i = 1 THEN NULL ELSE s[i - 1]
                       /\ l[s[i]].next = IF i = m THEN NULL ELSE s[i + 1]
  /\ \A i, j \in 1 .. m : s[i] = s[j] => i = j

\* They are the same while those of p to its first and last child, and those of
\* its children, are.
LEMMA ListedStays ==
  ASSUME NEW l, NEW r, NEW p, NEW s, Listed(l, p, s),
         r[p].child = l[p].child, r[p].last_child = l[p].last_child,
         \A i \in 1 .. Len(s) : /\ r[s[i]].parent = l[s[i]].parent
                               /\ r[s[i]].prev = l[s[i]].prev
                               /\ r[s[i]].next = l[s[i]].next
  PROVE  Listed(r, p, s)
BY ZenonT(60) DEF Listed

\* k are the sequences of children.
Lists(l, S, k) ==
  /\ k \in [S -> Seq(S)] /\ \A p \in S : Listed(l, p, k[p])
  /\ \A n \in S : l[n].parent # NULL => \E i \in 1 .. Len(k[l[n].parent]) : k[l[n].parent][i] = n

\* A node is on a lower level than its parent, and the levels end.
Levels(l, S, h, M) ==
  /\ M \in Nat /\ h \in [Node -> Nat]
  /\ \A n \in S : h[n] <= M /\ (l[n].parent # NULL => h[l[n].parent] < h[n])

\* The function from of Children.
From(l) == CHOOSE f : f = [m \in Node \cup {NULL} |-> IF m = NULL THEN << >>
                                                      ELSE <<m>> \o f[l[m].next]]

LEMMA FromSteps ==
  ASSUME NULL \notin Node, NEW S \in SUBSET Node, NEW l \in [Node -> Link], NEW k,
         Blank(l, S), Lists(l, S, k), PointsInto(l, S), Siblings(l, S)
  PROVE  From(l)[NULL] = << >> /\ \A m \in Node : From(l)[m] = <<m>> \o From(l)[l[m].next]
<1> DEFINE Step(f) == [m \in Node \cup {NULL} |-> IF m = NULL THEN << >> ELSE <<m>> \o f[l[m].next]]
           At(m) == CHOOSE i \in 1 .. Len(k[l[m].parent]) : k[l[m].parent][i] = m
           Rest(m) == SubSeq(k[l[m].parent], At(m), Len(k[l[m].parent]))
           Inner(m) == m \in S /\ l[m].parent # NULL
           whole == [m \in Node \cup {NULL} |-> IF m = NULL THEN << >>
                                                ELSE IF Inner(m) THEN Rest(m) ELSE <<m>>]
<1>1. \A x \in S : k[x] \in Seq(S) /\ Listed(l, x, k[x])
  BY DEF Lists
<1>2. ASSUME NEW x \in S, NEW i \in 1 .. Len(k[x])
      PROVE  /\ k[x][i] \in S /\ k[x][i] # NULL /\ l[k[x][i]].parent = x /\ Inner(k[x][i])
             /\ l[k[x][i]].next = IF i = Len(k[x]) THEN NULL ELSE k[x][i + 1]
             /\ At(k[x][i]) = i
             /\ whole[k[x][i]] = SubSeq(k[x], i, Len(k[x]))
  <2>1. k[x][i] \in S /\ x \in S /\ x # NULL
    BY <1>1, ElementOfSeq
  <2>2. /\ l[k[x][i]].parent = x
        /\ l[k[x][i]].next = IF i = Len(k[x]) THEN NULL ELSE k[x][i + 1]
        /\ \A j \in 1 .. Len(k[x]) : k[x][i] = k[x][j] => i = j
    <3>1. Listed(l, x, k[x])
      BY <1>1
    <3> QED BY <3>1 DEF Listed
  <2>3. At(k[x][i]) = i
    BY <2>2, Zenon
  <2>4. k[x][i] # NULL /\ Inner(k[x][i]) /\ k[x][i] \in Node
    BY <2>1, <2>2
  <2>5. whole[k[x][i]] = SubSeq(k[x], i, Len(k[x]))
    BY <2>2, <2>3, <2>4, Zenon
  <2> QED BY <2>1, <2>2, <2>3, <2>4, <2>5, Zenon
<1>3. ASSUME NEW m \in Node \cup {NULL}
      PROVE  whole[m] = IF m = NULL THEN << >> ELSE <<m>> \o whole[l[m].next]
  <2>1. CASE m = NULL
    BY <2>1
  <2>2. CASE m # NULL /\ Inner(m)
    <3> DEFINE x == l[m].parent
    <3>1. x \in S
      BY <2>2 DEF PointsInto
    <3>2. PICK i \in 1 .. Len(k[x]) : k[x][i] = m
      BY <2>2 DEF Lists
    <3>3. whole[m] = SubSeq(k[x], i, Len(k[x]))
      BY <1>2, <3>1, <3>2
    <3>4. l[m].next = IF i = Len(k[x]) THEN NULL ELSE k[x][i + 1]
      <4> HIDE DEF whole, At, Inner
      <4> QED BY <1>2, <3>1, <3>2
    <3>5. k[x] \in Seq(S) /\ Len(k[x]) \in Nat
      BY <1>1, <3>1
    <3>6. SubSeq(k[x], i, Len(k[x])) = <<m>> \o SubSeq(k[x], i + 1, Len(k[x]))
      <4>1. Len(k[x]) \in i .. Len(k[x])
        BY <3>5
      <4> QED BY <3>2, <3>5, <4>1, SubSeqRecursiveFirst
    <3>7. whole[l[m].next] = SubSeq(k[x], i + 1, Len(k[x]))
      <4>1. CASE i = Len(k[x])
        <5>1. l[m].next = NULL
          BY <3>4, <4>1, Zenon
        <5>2. whole[NULL] = << >>
          BY Zenon
        <5>3. i + 1 \in Int /\ Len(k[x]) \in Int /\ Len(k[x]) < i + 1
          BY <3>5, <4>1
        <5>4. SubSeq(k[x], i + 1, Len(k[x])) = << >>
          BY <5>3, SubSeqEmpty
        <5> QED BY <5>1, <5>2, <5>4, Zenon
      <4>2. CASE i # Len(k[x])
        <5>1. i + 1 \in 1 .. Len(k[x])
          BY <3>5, <4>2
        <5>2. l[m].next = k[x][i + 1]
          BY <3>4, <4>2, Zenon
        <5>3. whole[k[x][i + 1]] = SubSeq(k[x], i + 1, Len(k[x]))
          BY <1>2, <3>1, <5>1, Zenon
        <5> QED BY <5>2, <5>3, Zenon
      <4> QED BY <4>1, <4>2
    <3> QED BY <2>2, <3>3, <3>6, <3>7, Zenon
  <2>3. CASE m # NULL /\ ~Inner(m)
    <3>1. l[m].next = NULL
      BY <2>3 DEF Blank, Alone, Siblings
    <3>2. whole[NULL] = << >> /\ whole[m] = <<m>>
      BY <2>3
    <3>3. <<m>> \in Seq(Node)
      BY <2>3
    <3>4. <<m>> \o << >> = <<m>>
      BY <3>3, ConcatEmptySeq
    <3> QED BY <2>3, <3>1, <3>2, <3>4, Zenon
  <2> QED BY <2>1, <2>2, <2>3
<1>whole. whole = [m \in Node \cup {NULL} |-> whole[m]]
  OBVIOUS
<1> HIDE DEF whole
<1>step. whole = Step(whole)
  BY <1>3, <1>whole, Zenon
<1>4. From(l) = Step(From(l))
  <2>1. \E f : f = Step(f)
    <3> HIDE DEF Step
    <3> QED BY <1>step
  <2>2. From(l) = CHOOSE f : f = Step(f)
    BY Zenon DEF From
  <2> HIDE DEF Step
  <2> QED BY <2>1, <2>2, Zenon
<1> DEFINE f == From(l)
<1>5. f[NULL] = << >> /\ \A m \in Node : f[m] = <<m>> \o f[l[m].next]
  <2> HIDE DEF f
  <2>1. f = Step(f)
    BY <1>4 DEF f
  <2>2. f[NULL] = Step(f)[NULL] /\ \A m \in Node : f[m] = Step(f)[m]
    <3> HIDE DEF Step
    <3> QED BY <2>1
  <2>3. Step(f)[NULL] = << >> /\ \A m \in Node : Step(f)[m] = <<m>> \o f[l[m].next]
    OBVIOUS
  <2> HIDE DEF Step
  <2> QED BY <2>2, <2>3
<1> QED BY <1>5

LEMMA ChildrenAre ==
  ASSUME NULL \notin Node, NEW S \in SUBSET Node, NEW l \in [Node -> Link], NEW k,
         Blank(l, S), Lists(l, S, k), PointsInto(l, S), Siblings(l, S), NEW p \in S
  PROVE  From(l)[l[p].child] = k[p]
<1> DEFINE f == From(l)
           s == k[p]
           n == Len(s)
<1>1. s \in Seq(S) /\ Listed(l, p, s)
  BY DEF Lists
<1>5. f[NULL] = << >> /\ \A m \in Node : f[m] = <<m>> \o f[l[m].next]
  BY FromSteps
<1>6. s \in Seq(S) /\ n \in Nat
  BY <1>1
<1>7. /\ l[p].child = IF n = 0 THEN NULL ELSE s[1]
      /\ \A i \in 1 .. n : s[i] \in Node /\ l[s[i]].next = IF i = n THEN NULL ELSE s[i + 1]
  <2>1. l[p].child = IF n = 0 THEN NULL ELSE s[1]
    BY <1>1, Zenon DEF Listed
  <2>2. \A i \in 1 .. n : s[i] \in Node
    BY <1>6, LenProperties
  <2>3. \A i \in 1 .. n : l[s[i]].next = IF i = n THEN NULL ELSE s[i + 1]
    BY <1>1 DEF Listed
  <2> QED BY <2>1, <2>2, <2>3
<1> HIDE DEF f, s
<1> DEFINE T == {d \in Nat : d < n => f[s[n - d]] = SubSeq(s, n - d, n)}
<1>8. ASSUME n # 0 PROVE f[s[1]] = SubSeq(s, 1, n)
  <2>1. n - 0 = n /\ n \in 1 .. n
    BY <1>6, <1>8
  <2>2. 0 \in T
    <3>1. f[s[n]] = <<s[n]>> \o << >>
      BY <1>5, <1>7, <2>1
    <3>2. SubSeq(s, n, n) = <<s[n]>> \o SubSeq(s, n + 1, n)
      <4>1. n \in n .. n
        BY <1>6
      <4> QED BY <1>6, <2>1, <4>1, SubSeqRecursiveFirst
    <3>3. SubSeq(s, n + 1, n) = << >>
      <4>1. n + 1 \in Int /\ n \in Int /\ n < n + 1
        BY <1>6
      <4> QED BY <4>1, SubSeqEmpty
    <3> HIDE DEF n
    <3> QED BY <2>1, <3>1, <3>2, <3>3
  <2>3. ASSUME NEW d \in Nat, d \in T PROVE d + 1 \in T
    <3> SUFFICES ASSUME d + 1 < n PROVE f[s[n - (d + 1)]] = SubSeq(s, n - (d + 1), n)
      OBVIOUS
    <3> DEFINE i == n - (d + 1)
    <3>1. i \in 1 .. n /\ i # n /\ i + 1 = n - d /\ d < n /\ n \in i .. n
      <4> HIDE DEF n
      <4> QED BY <1>6
    <3>2. f[s[i + 1]] = SubSeq(s, i + 1, n)
      BY <2>3, <3>1
    <3> HIDE DEF i
    <3>3. f[s[i]] = <<s[i]>> \o f[s[i + 1]]
      BY <1>5, <1>7, <3>1
    <3>4. SubSeq(s, i, n) = <<s[i]>> \o SubSeq(s, i + 1, n)
      BY <1>6, <3>1, SubSeqRecursiveFirst
    <3>5. f[s[i]] = SubSeq(s, i, n)
      BY <3>2, <3>3, <3>4
    <3> QED BY <3>5 DEF i
  <2> HIDE DEF T, n
  <2>4. n - 1 \in T
    <3>1. n - 1 \in Nat
      BY <1>6, <1>8
    <3> QED BY <2>2, <2>3, <3>1, AllNumbers
  <2>5. n - 1 < n /\ n - (n - 1) = 1
    BY <1>6
  <2> QED BY <2>4, <2>5 DEF T
<1>9. CASE n = 0
  <2>1. s = << >>
    BY <1>6, <1>9, EmptySeq
  <2> QED BY <1>5, <1>7, <1>9, <2>1 DEF f, s
<1>10. CASE n # 0
  <2>1. SubSeq(s, 1, n) = s
    BY <1>6, SubSeqFull
  <2>2. f[l[p].child] = s
    BY <1>7, <1>8, <1>10, <2>1
  <2> QED BY <2>2 DEF f, s
<1> QED BY <1>9, <1>10

\* A set of nodes with the parents of all of them, and the least such set that
\* has m: m and its ancestors.
UpClosed(l, T) == \A x \in T : l[x].parent \in T \cup {NULL}
Above(l, m) == {y \in Node : \A T \in SUBSET Node : m \in T /\ UpClosed(l, T) => y \in T}

LEMMA AboveIsLeast ==
  ASSUME NULL \notin Node, NEW l \in [Node -> Link], NEW m \in Node
  PROVE  /\ m \in Above(l, m) /\ Above(l, m) \subseteq Node /\ UpClosed(l, Above(l, m))
         /\ \A T \in SUBSET Node : m \in T /\ UpClosed(l, T) => Above(l, m) \subseteq T
<1>1. \A x \in Node : l[x].parent \in Node \cup {NULL}
  BY DEF Link
<1>2. m \in Above(l, m) /\ Above(l, m) \subseteq Node
  BY DEF Above
<1>3. \A T \in SUBSET Node : m \in T /\ UpClosed(l, T) => Above(l, m) \subseteq T
  BY DEF Above
<1>4. ASSUME NEW x \in Above(l, m) PROVE l[x].parent \in Above(l, m) \cup {NULL}
  <2> SUFFICES ASSUME l[x].parent # NULL, NEW T \in SUBSET Node, m \in T, UpClosed(l, T)
               PROVE  l[x].parent \in T
    BY <1>1, <1>2 DEF Above
  <2>1. x \in T
    BY <1>3
  <2> QED BY <2>1 DEF UpClosed
<1> QED BY <1>2, <1>3, <1>4 DEF UpClosed

LEMMA AboveIs ==
  ASSUME NULL \notin Node, NEW l \in [Node -> Link], NEW m \in Node
  PROVE  /\ l[m].parent = NULL => Above(l, m) = {m}
         /\ l[m].parent # NULL => Above(l, m) = {m} \cup Above(l, l[m].parent)
         /\ \A y \in Above(l, m) : Above(l, y) \subseteq Above(l, m)
<1>1. \A x \in Node : l[x].parent \in Node \cup {NULL}
  BY DEF Link
<1>2. \A x \in Node :
        /\ x \in Above(l, x) /\ Above(l, x) \subseteq Node /\ UpClosed(l, Above(l, x))
        /\ \A T \in SUBSET Node : x \in T /\ UpClosed(l, T) => Above(l, x) \subseteq T
  BY AboveIsLeast
<1>3. ASSUME l[m].parent = NULL PROVE Above(l, m) = {m}
  <2>1. {m} \in SUBSET Node /\ m \in {m} /\ UpClosed(l, {m})
    BY <1>3 DEF UpClosed
  <2>2. Above(l, m) \subseteq {m}
    BY <1>2, <2>1
  <2> QED BY <1>2, <2>2
<1>4. \A y \in Above(l, m) : Above(l, y) \subseteq Above(l, m)
  BY <1>2
<1>5. ASSUME l[m].parent # NULL PROVE Above(l, m) = {m} \cup Above(l, l[m].parent)
  <2> DEFINE p == l[m].parent
             T == {m} \cup Above(l, p)
  <2>1. p \in Node /\ p \in Above(l, m)
    BY <1>1, <1>2, <1>5 DEF UpClosed
  <2>2. Above(l, p) \subseteq Above(l, m)
    BY <1>4, <2>1
  <2>3. T \in SUBSET Node /\ m \in T /\ UpClosed(l, T)
    BY <1>2, <2>1 DEF UpClosed
  <2>4. Above(l, m) \subseteq T
    BY <1>2, <2>3
  <2> QED BY <1>2, <2>2, <2>4
<1> QED BY <1>3, <1>4, <1>5

\* The function up of Ancestors.
Up(l) == CHOOSE f : f = [m \in Node \cup {NULL} |-> IF m = NULL THEN {}
                                                    ELSE {m} \cup f[l[m].parent]]

LEMMA AncestorsAre ==
  ASSUME NULL \notin Node, NEW S \in SUBSET Node, NEW l \in [Node -> Link], NEW h, NEW M,
         Blank(l, S), Levels(l, S, h, M), PointsInto(l, S), NEW n \in Node
  PROVE  {n} \cup Up(l)[l[n].parent] = Above(l, n)
<1> DEFINE Step(f) == [m \in Node \cup {NULL} |-> IF m = NULL THEN {} ELSE {m} \cup f[l[m].parent]]
           whole == [m \in Node \cup {NULL} |-> IF m = NULL THEN {} ELSE Above(l, m)]
           f == Up(l)
<1>1. \A m \in Node : /\ l[m].parent \in Node \cup {NULL}
                      /\ Above(l, m) = IF l[m].parent = NULL THEN {m}
                                       ELSE {m} \cup Above(l, l[m].parent)
  <2>1. \A m \in Node : l[m].parent \in Node \cup {NULL}
    BY DEF Link
  <2> QED BY <2>1, AboveIs
<1>2. whole = Step(whole)
  <2>1. whole[NULL] = {} /\ \A m \in Node : whole[m] = Above(l, m)
    OBVIOUS
  <2>2. whole = [m \in Node \cup {NULL} |-> whole[m]]
    OBVIOUS
  <2> HIDE DEF whole
  <2>3. ASSUME NEW m \in Node \cup {NULL} PROVE whole[m] = IF m = NULL THEN {}
                                                           ELSE {m} \cup whole[l[m].parent]
    <3>1. CASE m = NULL
      BY <2>1, <3>1
    <3>2. CASE m # NULL /\ l[m].parent = NULL
      <4>1. whole[m] = {m} /\ whole[NULL] = {} /\ {m} = {m} \cup {}
        BY <1>1, <2>1, <3>2
      <4> QED BY <3>2, <4>1, Zenon
    <3>3. CASE m # NULL /\ l[m].parent # NULL
      <4>1. whole[m] = {m} \cup Above(l, l[m].parent) /\ whole[l[m].parent] = Above(l, l[m].parent)
        BY <1>1, <2>1, <3>3
      <4> QED BY <3>3, <4>1, Zenon
    <3> QED BY <3>1, <3>2, <3>3, Zenon
  <2> QED BY <2>2, <2>3, Zenon
<1> HIDE DEF whole
<1>3. f = Step(f)
  <2>1. \E g : g = Step(g)
    <3> HIDE DEF Step
    <3> QED BY <1>2
  <2>2. f = CHOOSE g : g = Step(g)
    BY Zenon DEF Up
  <2> HIDE DEF Step, f
  <2> QED BY <2>1, <2>2, Zenon
<1> HIDE DEF f
<1>4. f[NULL] = {} /\ \A m \in Node : f[m] = {m} \cup f[l[m].parent]
  <2>1. f[NULL] = Step(f)[NULL] /\ \A m \in Node : f[m] = Step(f)[m]
    <3> HIDE DEF Step
    <3> QED BY <1>3
  <2>2. Step(f)[NULL] = {} /\ \A m \in Node : Step(f)[m] = {m} \cup f[l[m].parent]
    OBVIOUS
  <2> HIDE DEF Step
  <2> QED BY <2>1, <2>2
<1>5. \A m \in S : h[m] \in Nat /\ (l[m].parent # NULL => l[m].parent \in S /\ h[l[m].parent] < h[m])
  BY DEF Levels, PointsInto
<1> DEFINE T == {d \in Nat : \A m \in S : h[m] < d => f[m] = Above(l, m)}
<1>6. 0 \in T
  BY <1>5
<1>7. ASSUME NEW d \in Nat, d \in T PROVE d + 1 \in T
  <2> SUFFICES ASSUME NEW m \in S, h[m] < d + 1 PROVE f[m] = Above(l, m)
    OBVIOUS
  <2>1. CASE l[m].parent = NULL
    <3>1. f[m] = {m} \cup {} /\ Above(l, m) = {m}
      BY <1>1, <1>4, <2>1
    <3> QED BY <3>1
  <2>2. CASE l[m].parent # NULL
    <3>1. l[m].parent \in S /\ h[l[m].parent] < h[m] /\ h[l[m].parent] \in Nat /\ h[m] \in Nat
      BY <1>5, <2>2
    <3>2. h[l[m].parent] < d
      BY <3>1
    <3>3. f[l[m].parent] = Above(l, l[m].parent)
      BY <1>7, <3>1, <3>2
    <3> QED BY <1>1, <1>4, <2>2, <3>3
  <2> QED BY <2>1, <2>2
<1> HIDE DEF T
<1>8. Nat \subseteq T
  BY <1>6, <1>7, AllNumbers
<1>9. \A m \in S : f[m] = Above(l, m)
  <2> SUFFICES ASSUME NEW m \in S PROVE f[m] = Above(l, m)
    OBVIOUS
  <2>1. h[m] \in Nat /\ h[m] < h[m] + 1 /\ h[m] + 1 \in T
    BY <1>5, <1>8
  <2> QED BY <2>1 DEF T
<1>10. CASE l[n].parent = NULL
  BY <1>1, <1>4, <1>10 DEF f
<1>11. CASE l[n].parent # NULL
  <2>1. l[n].parent \in S
    BY <1>11 DEF PointsInto, Blank, Alone
  <2> QED BY <1>1, <1>9, <1>11, <2>1 DEF f
<1> QED BY <1>10, <1>11

\* The way up to an ancestor goes through one of its children.
LEMMA ThroughChild ==
  ASSUME NULL \notin Node, NEW l \in [Node -> Link], NEW x \in Node, NEW m \in Above(l, x), m # x
  PROVE  \E c \in Above(l, x) : l[c].parent = m
<1> SUFFICES ASSUME \A c \in Above(l, x) : l[c].parent # m PROVE FALSE
  OBVIOUS
<1> DEFINE T == Above(l, x) \ {m}
<1>1. /\ x \in Above(l, x) /\ Above(l, x) \subseteq Node /\ UpClosed(l, Above(l, x))
      /\ \A R \in SUBSET Node : x \in R /\ UpClosed(l, R) => Above(l, x) \subseteq R
  BY AboveIsLeast
<1>2. T \in SUBSET Node /\ x \in T /\ UpClosed(l, T)
  BY <1>1 DEF UpClosed
<1> QED BY <1>1, <1>2

\* The function below of Under.
BelowIn(k) == CHOOSE f : f = [m \in DOMAIN k |-> {m} \cup UNION {f[c] : c \in Range(k[m])}]

LEMMA UnderIs ==
  ASSUME NULL \notin Node, NEW S \in SUBSET Node, NEW l \in [Node -> Link], NEW k, NEW h, NEW M,
         Lists(l, S, k), Levels(l, S, h, M), PointsInto(l, S), NEW n \in S
  PROVE  BelowIn(k)[n] = {x \in S : n \in Above(l, x)}
<1> DEFINE Step(f) == [m \in DOMAIN k |-> {m} \cup UNION {f[c] : c \in Range(k[m])}]
           Under(m) == {x \in S : m \in Above(l, x)}
           whole == [m \in S |-> Under(m)]
           f == BelowIn(k)
<1>1. DOMAIN k = S /\ \A x \in S : k[x] \in Seq(S)
  BY DEF Lists
<1>2. ASSUME NEW m \in S PROVE Range(k[m]) = {c \in S : l[c].parent = m}
  <2>1. k[m] \in Seq(S) /\ Listed(l, m, k[m]) /\ m # NULL
    BY DEF Lists
  <2>2. Range(k[m]) = {k[m][i] : i \in 1 .. Len(k[m])}
    BY <2>1, LenProperties DEF Range
  <2>3. \A i \in 1 .. Len(k[m]) : k[m][i] \in S /\ l[k[m][i]].parent = m
    BY <2>1, LenProperties DEF Listed
  <2>4. \A c \in S : l[c].parent = m => \E i \in 1 .. Len(k[m]) : k[m][i] = c
    BY <2>1 DEF Lists
  <2> QED BY <2>2, <2>3, <2>4
<1>3. ASSUME NEW x \in S
      PROVE  x \in Above(l, x) /\ UpClosed(l, Above(l, x)) /\ Above(l, x) \subseteq S
  <2>1. /\ x \in Above(l, x) /\ UpClosed(l, Above(l, x))
        /\ \A R \in SUBSET Node : x \in R /\ UpClosed(l, R) => Above(l, x) \subseteq R
    BY AboveIsLeast
  <2>2. UpClosed(l, S)
    BY DEF UpClosed, PointsInto
  <2> QED BY <2>1, <2>2
<1>4. ASSUME NEW m \in S
      PROVE  Under(m) = {m} \cup UNION {Under(c) : c \in {c \in S : l[c].parent = m}}
  <2>1. ASSUME NEW x \in Under(m), x # m
        PROVE  \E c \in S : l[c].parent = m /\ x \in Under(c)
    <3>1. x \in Node /\ x \in S /\ m \in Above(l, x)
      OBVIOUS
    <3>2. PICK c \in Above(l, x) : l[c].parent = m
      BY <2>1, <3>1, ThroughChild
    <3> QED BY <1>3, <3>1, <3>2
  <2>2. ASSUME NEW c \in S, l[c].parent = m, NEW x \in Under(c) PROVE x \in Under(m)
    <3>1. c \in Above(l, x) /\ UpClosed(l, Above(l, x))
      BY <1>3
    <3>2. m # NULL
      OBVIOUS
    <3> QED BY <2>2, <3>1, <3>2 DEF UpClosed
  <2>3. m \in Under(m)
    BY <1>3
  <2> HIDE DEF Under
  <2> QED BY <2>1, <2>2, <2>3
<1> HIDE DEF Under
<1>5. whole = Step(whole)
  <2>1. \A m \in S : whole[m] = Under(m)
    OBVIOUS
  <2>2. whole = [m \in DOMAIN k |-> whole[m]]
    BY <1>1
  <2> HIDE DEF whole
  <2>3. ASSUME NEW m \in DOMAIN k PROVE whole[m] = {m} \cup UNION {whole[c] : c \in Range(k[m])}
    <3>1. {whole[c] : c \in Range(k[m])} = {Under(c) : c \in {c \in S : l[c].parent = m}}
      <4>1. Range(k[m]) = {c \in S : l[c].parent = m}
        BY <1>1, <1>2
      <4>2. {whole[c] : c \in {c \in S : l[c].parent = m}}
              = {Under(c) : c \in {c \in S : l[c].parent = m}}
        BY <2>1, Zenon
      <4> QED BY <4>1, <4>2, Zenon
    <3>2. whole[m] = {m} \cup UNION {Under(c) : c \in {c \in S : l[c].parent = m}}
      BY <1>1, <1>4, <2>1
    <3> QED BY <3>1, <3>2, Zenon
  <2> QED BY <2>2, <2>3, Zenon
<1> HIDE DEF whole
<1>6. f = Step(f)
  <2>1. \E g : g = Step(g)
    <3> HIDE DEF Step
    <3> QED BY <1>5
  <2>2. f = CHOOSE g : g = Step(g)
    BY Zenon DEF BelowIn
  <2> HIDE DEF Step, f
  <2> QED BY <2>1, <2>2, Zenon
<1> HIDE DEF f
<1>7. \A m \in S : f[m] = {m} \cup UNION {f[c] : c \in {c \in S : l[c].parent = m}}
  <2>1. \A m \in S : f[m] = Step(f)[m]
    <3> HIDE DEF Step
    <3> QED BY <1>6
  <2>2. \A m \in S : Step(f)[m] = {m} \cup UNION {f[c] : c \in Range(k[m])}
    BY <1>1
  <2> HIDE DEF Step
  <2>3. \A m \in S : Range(k[m]) = {c \in S : l[c].parent = m}
    BY <1>2
  <2> QED BY <2>1, <2>2, <2>3, Zenon
<1>8. /\ M \in Nat
      /\ \A m \in S : h[m] \in Nat /\ h[m] <= M /\ (l[m].parent # NULL => h[l[m].parent] < h[m])
  BY DEF Levels
<1> DEFINE T == {d \in Nat : \A m \in S : M - h[m] < d => f[m] = Under(m)}
<1>9. 0 \in T
  BY <1>8
<1>10. ASSUME NEW d \in Nat, d \in T PROVE d + 1 \in T
  <2> SUFFICES ASSUME NEW m \in S, M - h[m] < d + 1 PROVE f[m] = Under(m)
    OBVIOUS
  <2>1. ASSUME NEW c \in S, l[c].parent = m PROVE f[c] = Under(c)
    <3>1. h[m] < h[c] /\ h[m] \in Nat /\ h[c] \in Nat
      BY <1>8, <2>1
    <3>2. M - h[c] < d
      BY <1>8, <3>1
    <3> QED BY <1>10, <3>2
  <2>2. {f[c] : c \in {c \in S : l[c].parent = m}} = {Under(c) : c \in {c \in S : l[c].parent = m}}
    BY <2>1
  <2> QED BY <1>4, <1>7, <2>2
<1> HIDE DEF T
<1>11. Nat \subseteq T
  BY <1>9, <1>10, AllNumbers
<1>12. M - h[n] \in Nat /\ M - h[n] + 1 \in T /\ M - h[n] < M - h[n] + 1
  BY <1>8, <1>11
<1>13. f[n] = Under(n)
  BY <1>12 DEF T
<1> QED BY <1>13 DEF f, Under

-----------------------------------------------------------------------------
(* What the pointer surgery does to the trees.                             *)

LEMMA UnlinkedListed ==
  ASSUME NULL \notin Node, NEW S \in SUBSET Node, NEW l, NEW r, NEW p \in S, NEW s \in Seq(S),
         Listed(l, p, s), NEW i \in 1 .. Len(s), NEW n, n = s[i], Unlinked(l, r, n)
  PROVE  Listed(r, p, RemoveAt(s, i))
<1> DEFINE t == RemoveAt(s, i)
           m == Len(s)
<1>1. m \in Nat /\ i \in 1 .. m /\ \A j \in 1 .. m : s[j] \in S /\ s[j] \in Node /\ s[j] # NULL
  BY LenProperties
<1>2. Len(t) = m - 1 /\ \A j \in 1 .. m - 1 : t[j] = IF j < i THEN s[j] ELSE s[j + 1]
  BY RemovedAt
<1>3. /\ l[p].child = IF m = 0 THEN NULL ELSE s[1]
      /\ l[p].last_child = IF m = 0 THEN NULL ELSE s[m]
      /\ \A j \in 1 .. m : /\ l[s[j]].parent = p
                           /\ l[s[j]].prev = IF j = 1 THEN NULL ELSE s[j - 1]
                           /\ l[s[j]].next = IF j = m THEN NULL ELSE s[j + 1]
      /\ \A j, k \in 1 .. m : s[j] = s[k] => j = k
  BY DEF Listed
<1> HIDE DEF m, t
<1>4. /\ l[n].parent = p /\ n \in Node /\ p \in Node
      /\ l[n].prev = IF i = 1 THEN NULL ELSE s[i - 1]
      /\ l[n].next = IF i = m THEN NULL ELSE s[i + 1]
  BY <1>1, <1>3
<1>5. \A x \in Node :
    /\ r[x].next = IF x = n THEN NULL ELSE IF x = l[n].prev THEN l[n].next ELSE l[x].next
    /\ r[x].prev = IF x = n THEN NULL ELSE IF x = l[n].next THEN l[n].prev ELSE l[x].prev
    /\ r[x].child = IF x = l[n].parent /\ l[n].prev = NULL THEN l[n].next ELSE l[x].child
    /\ r[x].last_child = IF x = l[n].parent /\ l[n].next = NULL THEN l[n].prev ELSE l[x].last_child
    /\ r[x].parent = IF x = n THEN NULL ELSE l[x].parent
  BY DEF Unlinked
<1>6. r[p].child = IF m - 1 = 0 THEN NULL ELSE t[1]
  <2>1. CASE i = 1
    <3>1. r[p].child = IF 1 = m THEN NULL ELSE s[2]
      BY <1>4, <1>5, <2>1
    <3>2. m # 1 => t[1] = s[2]
      BY <1>1, <1>2, <2>1
    <3> QED BY <1>1, <3>1, <3>2
  <2>2. CASE i # 1
    <3>1. 1 \in 1 .. m /\ i - 1 \in 1 .. m /\ s[i - 1] # NULL /\ m # 0 /\ m - 1 # 0
          /\ 1 \in 1 .. m - 1 /\ 1 < i
      BY <1>1, <2>2
    <3>2. l[n].prev # NULL /\ r[p].child = s[1]
      BY <1>3, <1>4, <1>5, <2>2, <3>1
    <3> QED BY <1>2, <3>1, <3>2
  <2> QED BY <2>1, <2>2
<1>7. r[p].last_child = IF m - 1 = 0 THEN NULL ELSE t[m - 1]
  <2>1. CASE i = m
    <3>1. r[p].last_child = IF i = 1 THEN NULL ELSE s[i - 1]
      BY <1>4, <1>5, <2>1
    <3>2. m # 1 => t[m - 1] = s[m - 1]
      BY <1>1, <1>2, <2>1
    <3> QED BY <1>1, <2>1, <3>1, <3>2
  <2>2. CASE i # m
    <3>1. i + 1 \in 1 .. m /\ s[i + 1] # NULL /\ m # 0 /\ m - 1 # 0 /\ m - 1 \in 1 .. m - 1
          /\ ~(m - 1 < i) /\ (m - 1) + 1 = m
      BY <1>1, <2>2
    <3>2. l[n].next # NULL /\ r[p].last_child = s[m]
      BY <1>3, <1>4, <1>5, <2>2, <3>1
    <3> QED BY <1>2, <3>1, <3>2
  <2> QED BY <2>1, <2>2
<1>8. ASSUME NEW j \in 1 .. m - 1
      PROVE  /\ r[t[j]].parent = p
             /\ r[t[j]].prev = IF j = 1 THEN NULL ELSE t[j - 1]
             /\ r[t[j]].next = IF j = m - 1 THEN NULL ELSE t[j + 1]
  <2>1. CASE j < i
    <3>1. j \in 1 .. m /\ j # i /\ t[j] = s[j] /\ s[j] # n /\ s[j] \in Node
      BY <1>1, <1>2, <1>3, <2>1
    <3>2. r[s[j]].parent = p
      BY <1>3, <1>5, <3>1
    <3>3. r[s[j]].prev = IF j = 1 THEN NULL ELSE t[j - 1]
      <4>1. s[j] # l[n].next
        <5>1. i # m => i + 1 \in 1 .. m /\ i + 1 # j
          BY <1>1, <2>1
        <5> QED BY <1>3, <1>4, <3>1, <5>1, <1>1
      <4>2. r[s[j]].prev = IF j = 1 THEN NULL ELSE s[j - 1]
        BY <1>3, <1>5, <3>1, <4>1
      <4>3. j # 1 => t[j - 1] = s[j - 1]
        <5>1. j # 1 => j - 1 \in 1 .. m - 1 /\ j - 1 < i
          BY <1>1, <2>1
        <5> QED BY <1>2, <5>1
      <4> QED BY <4>2, <4>3
    <3>4. r[s[j]].next = IF j = m - 1 THEN NULL ELSE t[j + 1]
      <4>1. CASE j = i - 1
        <5>1. s[j] = l[n].prev
          BY <1>1, <1>4, <2>1, <4>1
        <5>2. r[s[j]].next = IF i = m THEN NULL ELSE s[i + 1]
          BY <1>4, <1>5, <3>1, <5>1
        <5>3. (j = m - 1 <=> i = m) /\ (j # m - 1 => t[j + 1] = s[i + 1])
          <6>1. (j = m - 1 <=> i = m)
                /\ (j # m - 1 => j + 1 \in 1 .. m - 1 /\ ~(j + 1 < i) /\ j + 1 + 1 = i + 1)
            BY <1>1, <4>1
          <6> QED BY <1>2, <6>1
        <5> QED BY <5>2, <5>3
      <4>2. CASE j # i - 1
        <5>1. s[j] # l[n].prev
          <6>1. i # 1 => i - 1 \in 1 .. m
            BY <1>1
          <6> QED BY <1>1, <1>3, <1>4, <3>1, <4>2, <6>1
        <5>2. r[s[j]].next = IF j = m THEN NULL ELSE s[j + 1]
          BY <1>3, <1>5, <3>1, <5>1
        <5>3. j # m /\ j # m - 1 /\ j + 1 \in 1 .. m - 1 /\ j + 1 < i
          BY <1>1, <2>1, <4>2
        <5> QED BY <1>2, <5>2, <5>3
      <4> QED BY <4>1, <4>2
    <3> QED BY <3>1, <3>2, <3>3, <3>4
  <2>2. CASE ~(j < i)
    <3>1. j + 1 \in 1 .. m /\ j + 1 # i /\ t[j] = s[j + 1] /\ s[j + 1] # n /\ s[j + 1] \in Node
          /\ (j + 1) - 1 = j
      BY <1>1, <1>2, <1>3, <2>2
    <3>2. r[s[j + 1]].parent = p
      BY <1>3, <1>5, <3>1
    <3>3. r[s[j + 1]].next = IF j = m - 1 THEN NULL ELSE t[j + 1]
      <4>1. s[j + 1] # l[n].prev
        <5>1. i # 1 => i - 1 \in 1 .. m /\ i - 1 # j + 1
          BY <1>1, <2>2
        <5> QED BY <1>3, <1>4, <3>1, <5>1, <1>1
      <4>2. r[s[j + 1]].next = IF j + 1 = m THEN NULL ELSE s[j + 1 + 1]
        BY <1>3, <1>5, <3>1, <4>1
      <4>3. (j + 1 = m <=> j = m - 1) /\ (j # m - 1 => t[j + 1] = s[j + 1 + 1])
        <5>1. (j + 1 = m <=> j = m - 1) /\ (j # m - 1 => j + 1 \in 1 .. m - 1 /\ ~(j + 1 < i))
          BY <1>1, <2>2
        <5> QED BY <1>2, <5>1
      <4> QED BY <4>2, <4>3
    <3>4. r[s[j + 1]].prev = IF j = 1 THEN NULL ELSE t[j - 1]
      <4>1. CASE j = i
        <5>1. s[j + 1] = l[n].next
          <6>1. i # m /\ j + 1 = i + 1
            BY <1>1, <4>1
          <6> QED BY <1>4, <6>1
        <5>2. r[s[j + 1]].prev = IF i = 1 THEN NULL ELSE s[i - 1]
          BY <1>4, <1>5, <3>1, <5>1
        <5>3. j # 1 => t[j - 1] = s[i - 1]
          <6>1. j # 1 => j - 1 \in 1 .. m - 1 /\ j - 1 < i /\ j - 1 = i - 1
            BY <1>1, <4>1
          <6> QED BY <1>2, <6>1
        <5> QED BY <4>1, <5>2, <5>3
      <4>2. CASE j # i
        <5>1. s[j + 1] # l[n].next
          <6>1. i # m => i + 1 \in 1 .. m /\ i + 1 # j + 1
            BY <1>1, <4>2
          <6> QED BY <1>1, <1>3, <1>4, <3>1, <6>1
        <5>2. r[s[j + 1]].prev = IF j + 1 = 1 THEN NULL ELSE s[j]
          BY <1>3, <1>5, <3>1, <5>1
        <5>3. j + 1 # 1 /\ j # 1 /\ j - 1 \in 1 .. m - 1 /\ ~(j - 1 < i) /\ (j - 1) + 1 = j
          BY <1>1, <2>2, <4>2
        <5> QED BY <1>2, <5>2, <5>3
      <4> QED BY <4>1, <4>2
    <3> QED BY <3>1, <3>2, <3>3, <3>4
  <2> QED BY <2>1, <2>2
<1>9. ASSUME NEW j \in 1 .. m - 1, NEW k \in 1 .. m - 1, t[j] = t[k] PROVE j = k
  <2>1. ASSUME NEW x \in 1 .. m - 1
        PROVE  \E y \in 1 .. m : t[x] = s[y] /\ x = IF y < i THEN y ELSE y - 1
    <3>1. CASE x < i
      <4>1. x \in 1 .. m /\ t[x] = s[x]
        BY <1>1, <1>2, <3>1
      <4> QED BY <3>1, <4>1
    <3>2. CASE ~(x < i)
      <4>1. x + 1 \in 1 .. m /\ t[x] = s[x + 1] /\ ~(x + 1 < i) /\ (x + 1) - 1 = x
        BY <1>1, <1>2, <3>2
      <4> QED BY <4>1
    <3> QED BY <3>1, <3>2
  <2>2. PICK y \in 1 .. m : t[j] = s[y] /\ j = IF y < i THEN y ELSE y - 1
    BY <2>1
  <2>3. PICK z \in 1 .. m : t[k] = s[z] /\ k = IF z < i THEN z ELSE z - 1
    BY <2>1
  <2>4. \A u, v \in 1 .. m : s[u] = s[v] => u = v
    BY <1>3
  <2>5. y = z
    BY <1>9, <2>2, <2>3, <2>4, Zenon
  <2> QED BY <2>2, <2>3, <2>5
<1>10. Listed(r, p, t)
  BY <1>2, <1>6, <1>7, <1>8, <1>9 DEF Listed
<1> QED BY <1>10 DEF t

\* The neighbours of the place before position j of s.
BeforeOf(s, j) == IF j = 1 THEN NULL ELSE s[j - 1]
AfterOf(s, j) == IF j = Len(s) + 1 THEN NULL ELSE s[j]

LEMMA LinkedListed ==
  ASSUME NULL \notin Node, NEW S \in SUBSET Node, NEW l, NEW r, NEW p \in S, NEW s \in Seq(S),
         Listed(l, p, s), NEW i \in 1 .. Len(s) + 1, NEW n \in S, Detached(l, n),
         Linked(l, r, p, BeforeOf(s, i), AfterOf(s, i), n)
  PROVE  Listed(r, p, InsertAt(s, i, n))
<1> DEFINE t == InsertAt(s, i, n)
           m == Len(s)
           a == BeforeOf(s, i)
           b == AfterOf(s, i)
<1>1. m \in Nat /\ i \in 1 .. m + 1 /\ \A j \in 1 .. m : s[j] \in S /\ s[j] \in Node /\ s[j] # NULL
  BY LenProperties
<1>2. Len(t) = m + 1 /\ \A j \in 1 .. m + 1 : t[j] = IF j < i THEN s[j] ELSE IF j = i THEN n
                                                     ELSE s[j - 1]
  <2>1. /\ Len(InsertAt(s, i, n)) = Len(s) + 1
        /\ \A j \in 1 .. Len(s) + 1 : InsertAt(s, i, n)[j] = IF j < i THEN s[j]
                                                             ELSE IF j = i THEN n ELSE s[j - 1]
    <3> HIDE DEF m, t, a, b
    <3>1. s \in Seq(S) /\ n \in S /\ i \in 1 .. Len(s) + 1
      OBVIOUS
    <3> QED BY <3>1, InsertedAt, SMTT(30)
  <2> QED BY <2>1, Zenon
<1>3. /\ l[p].child = IF m = 0 THEN NULL ELSE s[1]
      /\ l[p].last_child = IF m = 0 THEN NULL ELSE s[m]
      /\ \A j \in 1 .. m : /\ l[s[j]].parent = p
                           /\ l[s[j]].prev = IF j = 1 THEN NULL ELSE s[j - 1]
                           /\ l[s[j]].next = IF j = m THEN NULL ELSE s[j + 1]
      /\ \A j, k \in 1 .. m : s[j] = s[k] => j = k
  BY DEF Listed
<1>4. /\ a = IF i = 1 THEN NULL ELSE s[i - 1]
      /\ b = IF i = m + 1 THEN NULL ELSE s[i]
  BY DEF BeforeOf, AfterOf
<1>5. \A x \in Node :
    /\ r[x].parent = IF x = n THEN p ELSE l[x].parent
    /\ r[x].prev = IF x = n /\ a # NULL THEN a ELSE IF x = b THEN n ELSE l[x].prev
    /\ r[x].next = IF x = n /\ b # NULL THEN b ELSE IF x = a THEN n ELSE l[x].next
    /\ r[x].child = IF x = p /\ a = NULL THEN n ELSE l[x].child
    /\ r[x].last_child = IF x = p /\ b = NULL THEN n ELSE l[x].last_child
  BY DEF Linked
<1> HIDE DEF m, t, a, b
<1>6. /\ n \in Node /\ p \in Node /\ n # NULL /\ p # NULL
      /\ l[n].parent = NULL /\ l[n].prev = NULL /\ l[n].next = NULL
  BY DEF Detached
<1>7. \A j \in 1 .. m : s[j] # n
  BY <1>3, <1>6
<1>8. /\ i # 1 => i - 1 \in 1 .. m
      /\ i # m + 1 => i \in 1 .. m
  BY <1>1
<1>9. a # n /\ b # n /\ (a = NULL <=> i = 1) /\ (b = NULL <=> i = m + 1)
  BY <1>1, <1>4, <1>6, <1>7, <1>8
<1>10. r[p].child = IF m + 1 = 0 THEN NULL ELSE t[1]
  <2>1. m + 1 # 0 /\ 1 \in 1 .. m + 1
    BY <1>1
  <2>2. CASE i = 1
    BY <1>2, <1>5, <1>6, <1>9, <2>1, <2>2
  <2>3. CASE i # 1
    <3>1. 1 < i /\ m # 0
      BY <1>1, <2>3
    <3> QED BY <1>2, <1>3, <1>5, <1>6, <1>9, <2>1, <2>3, <3>1
  <2> QED BY <2>2, <2>3
<1>11. r[p].last_child = IF m + 1 = 0 THEN NULL ELSE t[m + 1]
  <2>1. m + 1 # 0 /\ m + 1 \in 1 .. m + 1 /\ (m + 1) - 1 = m
    BY <1>1
  <2>2. CASE i = m + 1
    <3>1. ~(m + 1 < i)
      BY <1>1, <2>2
    <3> QED BY <1>2, <1>5, <1>6, <1>9, <2>1, <2>2, <3>1
  <2>3. CASE i # m + 1
    <3>1. ~(m + 1 < i) /\ m # 0
      BY <1>1, <2>3
    <3> QED BY <1>2, <1>3, <1>5, <1>6, <1>9, <2>1, <2>3, <3>1
  <2> QED BY <2>2, <2>3
<1>12. ASSUME NEW j \in 1 .. m + 1
       PROVE  /\ r[t[j]].parent = p
              /\ r[t[j]].prev = IF j = 1 THEN NULL ELSE t[j - 1]
              /\ r[t[j]].next = IF j = m + 1 THEN NULL ELSE t[j + 1]
  <2>1. CASE j < i
    <3>1. j \in 1 .. m /\ t[j] = s[j] /\ s[j] # n /\ s[j] \in Node /\ j # m + 1
      BY <1>1, <1>2, <1>7, <2>1
    <3>2. s[j] # b
      BY <1>1, <1>3, <1>4, <1>8, <2>1, <3>1
    <3>3. r[s[j]].parent = p /\ r[s[j]].prev = IF j = 1 THEN NULL ELSE s[j - 1]
      BY <1>3, <1>5, <3>1, <3>2
    <3>4. j # 1 => t[j - 1] = s[j - 1]
      <4>1. j # 1 => j - 1 \in 1 .. m + 1 /\ j - 1 < i
        BY <1>1, <2>1
      <4> QED BY <1>2, <4>1
    <3>5. r[s[j]].next = t[j + 1]
      <4>1. CASE j + 1 = i
        <5>1. s[j] = a
          <6>1. i # 1 /\ i - 1 = j
            BY <1>1, <4>1
          <6> QED BY <1>4, <6>1
        <5>2. r[s[j]].next = n
          BY <1>5, <3>1, <5>1
        <5>3. i \in 1 .. m + 1 /\ ~(i < i)
          BY <1>1
        <5> QED BY <1>2, <4>1, <5>2, <5>3
      <4>2. CASE j + 1 # i
        <5>1. s[j] # a
          <6>1. i # 1 => i - 1 # j
            BY <1>1, <4>2
          <6> QED BY <1>1, <1>3, <1>4, <1>8, <3>1, <6>1
        <5>2. r[s[j]].next = IF j = m THEN NULL ELSE s[j + 1]
          BY <1>3, <1>5, <3>1, <5>1
        <5>3. j + 1 \in 1 .. m + 1 /\ j + 1 < i /\ j # m
          BY <1>1, <2>1, <4>2
        <5> QED BY <1>2, <5>2, <5>3
      <4> QED BY <4>1, <4>2
    <3> QED BY <3>1, <3>3, <3>4, <3>5
  <2>2. CASE j = i
    <3>1. t[j] = n
      <4>1. ~(j < i)
        BY <1>1, <2>2
      <4> QED BY <1>2, <2>2, <4>1
    <3>2. r[n].parent = p /\ r[n].prev = a /\ r[n].next = b
      BY <1>5, <1>6, <1>9
    <3>3. j # 1 => t[j - 1] = s[j - 1]
      <4>1. j # 1 => j - 1 \in 1 .. m + 1 /\ j - 1 < i
        BY <1>1, <2>2
      <4> QED BY <1>2, <4>1
    <3>4. j # m + 1 => t[j + 1] = s[j]
      <4>1. j # m + 1 => j + 1 \in 1 .. m + 1 /\ ~(j + 1 < i) /\ j + 1 # i /\ (j + 1) - 1 = j
        BY <1>1, <2>2
      <4> QED BY <1>2, <4>1
    <3> QED BY <1>4, <2>2, <3>1, <3>2, <3>3, <3>4
  <2>3. CASE ~(j < i) /\ j # i
    <3> DEFINE k == j - 1
    <3>1. k \in 1 .. m /\ k + 1 = j /\ ~(k < i) /\ j # 1 /\ (k = m <=> j = m + 1)
      BY <1>1, <2>3
    <3> HIDE DEF k
    <3>2. t[j] = s[k] /\ s[k] # n /\ s[k] \in Node
      BY <1>1, <1>2, <1>7, <2>3, <3>1 DEF k
    <3>3. s[k] # a
      <4>1. i # 1 => i - 1 # k
        BY <1>1, <3>1
      <4> QED BY <1>1, <1>3, <1>4, <1>8, <3>1, <4>1
    <3>4. r[s[k]].parent = p /\ r[s[k]].next = IF k = m THEN NULL ELSE s[k + 1]
      BY <1>3, <1>5, <3>1, <3>2, <3>3
    <3>5. j # m + 1 => t[j + 1] = s[k + 1]
      <4>1. j # m + 1 => j + 1 \in 1 .. m + 1 /\ ~(j + 1 < i) /\ j + 1 # i /\ (j + 1) - 1 = k + 1
        BY <1>1, <2>3, <3>1
      <4> QED BY <1>2, <4>1
    <3>6. r[s[k]].prev = t[k]
      <4>1. CASE k = i
        <5>1. s[k] = b
          <6>1. i # m + 1
            BY <1>1, <3>1, <4>1
          <6> QED BY <1>4, <4>1, <6>1
        <5>2. r[s[k]].prev = n
          BY <1>5, <3>2, <5>1
        <5>3. k \in 1 .. m + 1 /\ ~(k < i)
          BY <1>1, <3>1
        <5> QED BY <1>2, <4>1, <5>2, <5>3
      <4>2. CASE k # i
        <5>1. s[k] # b
          BY <1>1, <1>3, <1>4, <1>8, <3>1, <4>2
        <5>2. r[s[k]].prev = IF k = 1 THEN NULL ELSE s[k - 1]
          BY <1>3, <1>5, <3>1, <3>2, <5>1
        <5>3. k \in 1 .. m + 1 /\ ~(k < i) /\ k # 1
          BY <1>1, <3>1, <4>2
        <5> QED BY <1>2, <4>2, <5>2, <5>3
      <4> QED BY <4>1, <4>2
    <3>7. t[j - 1] = t[k]
      BY DEF k
    <3> QED BY <3>1, <3>2, <3>4, <3>5, <3>6, <3>7
  <2> QED BY <2>1, <2>2, <2>3
<1>13. ASSUME NEW j \in 1 .. m + 1, NEW k \in 1 .. m + 1, t[j] = t[k] PROVE j = k
  <2>1. ASSUME NEW x \in 1 .. m + 1
        PROVE  \/ x = i /\ t[x] = n
               \/ \E y \in 1 .. m : t[x] = s[y] /\ s[y] # n /\ x = IF y < i THEN y ELSE y + 1
    <3>1. CASE x < i
      <4>1. x \in 1 .. m /\ t[x] = s[x] /\ s[x] # n
        BY <1>1, <1>2, <1>7, <3>1
      <4> QED BY <3>1, <4>1
    <3>2. CASE x = i
      <4>1. ~(x < i)
        BY <1>1, <3>2
      <4> QED BY <1>2, <3>2, <4>1
    <3>3. CASE ~(x < i) /\ x # i
      <4>1. x - 1 \in 1 .. m /\ t[x] = s[x - 1] /\ ~(x - 1 < i) /\ (x - 1) + 1 = x /\ s[x - 1] # n
        BY <1>1, <1>2, <1>7, <3>3
      <4> QED BY <4>1
    <3> QED BY <3>1, <3>2, <3>3
  <2>2. CASE j = i
    BY <1>13, <2>1, <2>2
  <2>3. CASE k = i
    BY <1>13, <2>1, <2>3
  <2>4. CASE j # i /\ k # i
    <3>1. PICK y \in 1 .. m : t[j] = s[y] /\ j = IF y < i THEN y ELSE y + 1
      BY <2>1, <2>4
    <3>2. PICK z \in 1 .. m : t[k] = s[z] /\ k = IF z < i THEN z ELSE z + 1
      BY <2>1, <2>4
    <3>3. \A u, v \in 1 .. m : s[u] = s[v] => u = v
      BY <1>3
    <3>4. y = z
      BY <1>13, <3>1, <3>2, <3>3, Zenon
    <3> QED BY <3>1, <3>2, <3>4
  <2> QED BY <2>2, <2>3, <2>4
<1>14. Listed(r, p, t)
  BY <1>2, <1>10, <1>11, <1>12, <1>13 DEF Listed
<1> QED BY <1>14 DEF t

\* What a list holds, and that every child is in one.
LEMMA ListsAre ==
  ASSUME NULL \notin Node, NEW S \in SUBSET Node, NEW l, NEW k, Lists(l, S, k), NEW x \in S
  PROVE  /\ k[x] \in Seq(S) /\ Listed(l, x, k[x]) /\ Len(k[x]) \in Nat
         /\ \A i \in 1 .. Len(k[x]) : k[x][i] \in S
<1>1. k[x] \in Seq(S) /\ Listed(l, x, k[x])
  BY DEF Lists
<1>2. Len(k[x]) \in Nat /\ \A i \in 1 .. Len(k[x]) : k[x][i] \in S
  BY <1>1, LenProperties
<1> QED BY <1>1, <1>2

LEMMA UnlinkedLists ==
  ASSUME NULL \notin Node, NEW S \in SUBSET Node, NEW l, NEW r, NEW k, NEW n \in S,
         Lists(l, S, k), Sound(l, S), l[n].parent # NULL, Unlinked(l, r, n)
  PROVE  Lists(r, S, [x \in S |-> RemoveFirst(k[x], n)])
<1> DEFINE p == l[n].parent
           kk == [x \in S |-> RemoveFirst(k[x], n)]
<1>1. PointsInto(l, S) /\ Siblings(l, S)
  BY DEF Sound
<1>2. /\ \A x \in S : k[x] \in Seq(S) /\ Listed(l, x, k[x]) /\ Len(k[x]) \in Nat
      /\ \A x \in S : \A i \in 1 .. Len(k[x]) : k[x][i] \in S /\ l[k[x][i]].parent = x
  <2>1. ASSUME NEW x \in S
        PROVE  /\ k[x] \in Seq(S) /\ Listed(l, x, k[x]) /\ Len(k[x]) \in Nat
               /\ \A j \in 1 .. Len(k[x]) : k[x][j] \in S
    BY ListsAre, Zenon
  <2> QED BY <2>1 DEF Listed
<1>3. p \in S /\ p = l[n].parent /\ p # NULL
  BY <1>1 DEF PointsInto
<1>4. PICK i \in 1 .. Len(k[p]) : k[p][i] = n /\ \A j \in 1 .. Len(k[p]) : k[p][j] = n => j = i
  <2>1. PICK i \in 1 .. Len(k[p]) : k[p][i] = n
    BY DEF Lists
  <2>2. Listed(l, p, k[p])
    BY <1>2, <1>3
  <2> HIDE DEF p, kk
  <2>3. \A a, b \in 1 .. Len(k[p]) : k[p][a] = k[p][b] => a = b
    BY <2>2 DEF Listed
  <2> QED BY <2>1, <2>3
<1>5. /\ l[n].next # NULL => l[l[n].next].parent = p
      /\ l[n].prev # NULL => l[l[n].prev].parent = p
  BY <1>1 DEF Siblings
<1>6. RemoveFirst(k[p], n) = RemoveAt(k[p], i)
  BY <1>4, RemovedFirst, Zenon
<1>7. ASSUME NEW x \in S, x # p PROVE RemoveFirst(k[x], n) = k[x]
  <2>1. \A j \in 1 .. Len(k[x]) : k[x][j] # n
    BY <1>2, <1>7
  <2> QED BY <2>1, RemovedFirst
<1> HIDE DEF p
<1>8. ASSUME NEW x \in S, x # p PROVE Listed(r, x, k[x])
  <2>1. Listed(l, x, k[x]) /\ x \in Node /\ p \in Node /\ NULL \notin S /\ p = l[n].parent
    BY <1>2, <1>3 DEF p
  <2>2. \A j \in 1 .. Len(k[x]) :
           k[x][j] # n /\ k[x][j] # l[n].next /\ k[x][j] # l[n].prev /\ k[x][j] \in Node
    BY <1>2, <1>5, <1>8, <2>1
  <2>3. r[x].child = l[x].child /\ r[x].last_child = l[x].last_child
    BY <1>8, <2>1 DEF Unlinked
  <2>4. \A y \in Node : y # n /\ y # l[n].next /\ y # l[n].prev
          => r[y].parent = l[y].parent /\ r[y].prev = l[y].prev /\ r[y].next = l[y].next
    BY DEF Unlinked
  <2>5. \A j \in 1 .. Len(k[x]) : /\ r[k[x][j]].parent = l[k[x][j]].parent
                                  /\ r[k[x][j]].prev = l[k[x][j]].prev
                                  /\ r[k[x][j]].next = l[k[x][j]].next
    BY <2>2, <2>4
  <2> QED BY <2>1, <2>3, <2>5, ListedStays, Zenon
<1>9. Listed(r, p, RemoveAt(k[p], i)) /\ RemoveAt(k[p], i) \in Seq(S)
  <2>1. k[p] \in Seq(S) /\ Listed(l, p, k[p]) /\ p \in S
    BY <1>2, <1>3
  <2> QED BY <1>4, <2>1, UnlinkedListed, RemovedAt
<1>10. \A x \in S : kk[x] = IF x = p THEN RemoveAt(k[p], i) ELSE k[x]
  BY <1>6, <1>7
<1>11. kk = [x \in S |-> kk[x]]
  OBVIOUS
<1> HIDE DEF kk
<1>12. kk \in [S -> Seq(S)]
  <2>1. \A x \in S : kk[x] \in Seq(S)
    BY <1>2, <1>9, <1>10
  <2> QED BY <1>11, <2>1
<1>13. ASSUME NEW x \in S, r[x].parent # NULL
       PROVE  \E j \in 1 .. Len(kk[r[x].parent]) : kk[r[x].parent][j] = x
  <2>1. x # n /\ r[x].parent = l[x].parent /\ l[x].parent # NULL
    BY <1>13 DEF Unlinked
  <2>2. PICK j \in 1 .. Len(k[l[x].parent]) : k[l[x].parent][j] = x
    BY <2>1 DEF Lists
  <2>3. l[x].parent \in S
    BY <1>1, <2>1 DEF PointsInto
  <2>4. CASE l[x].parent # p
    BY <1>10, <2>1, <2>2, <2>3, <2>4
  <2>5. CASE l[x].parent = p
    <3>0. k[p] \in Seq(S) /\ i \in 1 .. Len(k[p])
      BY <1>2, <1>3
    <3>1. kk[r[x].parent] = RemoveAt(k[p], i)
      BY <1>10, <2>1, <2>3, <2>5
    <3>2. /\ Len(RemoveAt(k[p], i)) = Len(k[p]) - 1
          /\ \A h \in 1 .. Len(k[p]) - 1 : RemoveAt(k[p], i)[h] = IF h < i THEN k[p][h]
                                                                  ELSE k[p][h + 1]
      BY <3>0, RemovedAt, Zenon
    <3> DEFINE m == Len(k[p])
    <3>3. m \in Nat /\ i \in 1 .. m /\ j \in 1 .. m /\ j # i /\ k[p][j] = x
      BY <1>2, <1>3, <1>4, <2>1, <2>2, <2>5
    <3> HIDE DEF m
    <3>4. \E h \in 1 .. m - 1 : h = IF j < i THEN j ELSE j - 1
      BY <3>3
    <3>5. PICK h \in 1 .. m - 1 : h = IF j < i THEN j ELSE j - 1
      BY <3>4
    <3>6. (IF h < i THEN h ELSE h + 1) = j
      BY <3>3, <3>5
    <3>7. RemoveAt(k[p], i)[h] = IF h < i THEN k[p][h] ELSE k[p][h + 1]
      BY <3>2 DEF m
    <3>8. RemoveAt(k[p], i)[h] = x
      BY <3>3, <3>6, <3>7
    <3>9. h \in 1 .. Len(kk[r[x].parent])
      BY <3>1, <3>2 DEF m
    <3> QED BY <3>1, <3>8, <3>9
  <2> QED BY <2>4, <2>5
<1>14. \A x \in S : Listed(r, x, kk[x])
  BY <1>8, <1>9, <1>10
<1>15. Lists(r, S, kk)
  BY <1>12, <1>13, <1>14 DEF Lists
<1> QED BY <1>15 DEF kk

LEMMA RemovedLists ==
  ASSUME NULL \notin Node, NEW S \in SUBSET Node, NEW l \in [Node -> Link], NEW k, NEW n \in S,
         Lists(l, S, k), Sound(l, S)
  PROVE  Lists(Removed(l, n), S, [x \in S |-> RemoveFirst(k[x], n)])
<1>1. CASE l[n].parent = NULL
  <2>1. Removed(l, n) = l /\ PointsInto(l, S)
    BY <1>1 DEF Removed, Sound
  <2>2. \A x \in S : \A i \in 1 .. Len(k[x]) : l[k[x][i]].parent = x
    BY DEF Lists, Listed
  <2>3. ASSUME NEW x \in S PROVE RemoveFirst(k[x], n) = k[x]
    <3>1. \A j \in 1 .. Len(k[x]) : k[x][j] # n
      BY <1>1, <2>2
    <3> QED BY <3>1, RemovedFirst
  <2>4. k = [x \in S |-> k[x]]
    BY DEF Lists
  <2>5. [x \in S |-> RemoveFirst(k[x], n)] = k
    BY <2>3, <2>4
  <2> QED BY <2>1, <2>5
<1>2. CASE l[n].parent # NULL
  <2>1. Removed(l, n) = Unlink(l, n) /\ Unlinked(l, Unlink(l, n), n)
    BY <1>2, UnlinkFields DEF Removed
  <2> QED BY <1>2, <2>1, UnlinkedLists
<1> QED BY <1>1, <1>2

LEMMA LinkedLists ==
  ASSUME NULL \notin Node, NEW S \in SUBSET Node, NEW l, NEW r, NEW k, NEW n \in S, NEW p \in S,
         p # n, Lists(l, S, k), PointsInto(l, S), Detached(l, n), NEW i \in 1 .. Len(k[p]) + 1,
         Linked(l, r, p, BeforeOf(k[p], i), AfterOf(k[p], i), n)
  PROVE  Lists(r, S, [k EXCEPT ![p] = InsertAt(k[p], i, n)])
<1> DEFINE s == k[p]
           kk == [k EXCEPT ![p] = InsertAt(s, i, n)]
           a == BeforeOf(s, i)
           b == AfterOf(s, i)
<1>1. /\ \A x \in S : k[x] \in Seq(S) /\ Listed(l, x, k[x]) /\ Len(k[x]) \in Nat
      /\ \A x \in S : \A j \in 1 .. Len(k[x]) : k[x][j] \in S /\ l[k[x][j]].parent = x
  <2>1. ASSUME NEW x \in S
        PROVE  /\ k[x] \in Seq(S) /\ Listed(l, x, k[x]) /\ Len(k[x]) \in Nat
               /\ \A j \in 1 .. Len(k[x]) : k[x][j] \in S
    BY ListsAre, Zenon
  <2> QED BY <2>1 DEF Listed
<1>2. l[n].parent = NULL /\ NULL \notin S
  BY DEF Detached
<1>3. (a # NULL => l[a].parent = p) /\ (b # NULL => l[b].parent = p)
  <2> DEFINE m == Len(s)
  <2>1. m \in Nat /\ i \in 1 .. m + 1
    BY <1>1
  <2> HIDE DEF m
  <2>2. (i # 1 => i - 1 \in 1 .. m) /\ (i # m + 1 => i \in 1 .. m)
    BY <2>1
  <2> QED BY <1>1, <2>2 DEF BeforeOf, AfterOf, m
<1>4. Listed(r, p, InsertAt(s, i, n)) /\ InsertAt(s, i, n) \in Seq(S)
  <2>1. s \in Seq(S) /\ Listed(l, p, s) /\ i \in 1 .. Len(s) + 1
    BY <1>1
  <2> HIDE DEF s
  <2>2. Linked(l, r, p, BeforeOf(s, i), AfterOf(s, i), n)
    BY DEF s
  <2> QED BY <2>1, <2>2, LinkedListed, InsertedAt
<1>5. \A x \in S : kk[x] = IF x = p THEN InsertAt(s, i, n) ELSE k[x]
  BY DEF Lists
<1>6. kk \in [S -> Seq(S)]
  BY <1>4 DEF Lists
<1> HIDE DEF kk
<1>7. \A x \in Node :
    /\ r[x].parent = IF x = n THEN p ELSE l[x].parent
    /\ r[x].prev = IF x = n /\ a # NULL THEN a ELSE IF x = b THEN n ELSE l[x].prev
    /\ r[x].next = IF x = n /\ b # NULL THEN b ELSE IF x = a THEN n ELSE l[x].next
    /\ r[x].child = IF x = p /\ a = NULL THEN n ELSE l[x].child
    /\ r[x].last_child = IF x = p /\ b = NULL THEN n ELSE l[x].last_child
  BY Zenon DEF Linked
<1> HIDE DEF a, b
<1>8. ASSUME NEW x \in S, x # p PROVE Listed(r, x, k[x])
  <2>1. Listed(l, x, k[x]) /\ x \in Node
    BY <1>1
  <2>2. \A j \in 1 .. Len(k[x]) : k[x][j] # n /\ k[x][j] # a /\ k[x][j] # b /\ k[x][j] \in Node
    BY <1>1, <1>2, <1>3, <1>8
  <2>3. r[x].child = l[x].child /\ r[x].last_child = l[x].last_child
    BY <1>7, <1>8, <2>1
  <2>4. \A y \in Node : y # n /\ y # a /\ y # b
          => r[y].parent = l[y].parent /\ r[y].prev = l[y].prev /\ r[y].next = l[y].next
    BY <1>7
  <2>5. \A j \in 1 .. Len(k[x]) : /\ r[k[x][j]].parent = l[k[x][j]].parent
                                  /\ r[k[x][j]].prev = l[k[x][j]].prev
                                  /\ r[k[x][j]].next = l[k[x][j]].next
    BY <2>2, <2>4
  <2> QED BY <2>1, <2>3, <2>5, ListedStays, Zenon
<1>9. ASSUME NEW x \in S, r[x].parent # NULL
      PROVE  \E j \in 1 .. Len(kk[r[x].parent]) : kk[r[x].parent][j] = x
  <2> DEFINE m == Len(s)
  <2>1. m \in Nat /\ i \in 1 .. m + 1
    BY <1>1
  <2>2. /\ Len(InsertAt(s, i, n)) = m + 1
        /\ \A j \in 1 .. m + 1 : InsertAt(s, i, n)[j] = IF j < i THEN s[j] ELSE IF j = i THEN n
                                                        ELSE s[j - 1]
    <3>1. s \in Seq(S) /\ i \in 1 .. Len(s) + 1
      BY <1>1
    <3> HIDE DEF s
    <3>2. /\ Len(InsertAt(s, i, n)) = Len(s) + 1
          /\ \A j \in 1 .. Len(s) + 1 : InsertAt(s, i, n)[j] = IF j < i THEN s[j]
                                                               ELSE IF j = i THEN n ELSE s[j - 1]
      BY <3>1, InsertedAt
    <3> QED BY <3>2, Zenon
  <2>3. kk[p] = InsertAt(s, i, n)
    BY <1>5
  <2> HIDE DEF m
  <2>4. CASE x = n
    <3>1. r[x].parent = p
      BY <1>7, <2>4
    <3>2. i \in 1 .. m + 1 /\ ~(i < i)
      BY <2>1
    <3> QED BY <2>2, <2>3, <2>4, <3>1, <3>2
  <2>5. CASE x # n
    <3>1. r[x].parent = l[x].parent /\ l[x].parent # NULL /\ l[x].parent \in S
      BY <1>7, <1>9, <2>5 DEF PointsInto
    <3>2. PICK j \in 1 .. Len(k[l[x].parent]) : k[l[x].parent][j] = x
      BY <3>1 DEF Lists
    <3>3. CASE l[x].parent # p
      BY <1>5, <3>1, <3>2, <3>3
    <3>4. CASE l[x].parent = p
      <4>1. j \in 1 .. m /\ s[j] = x
        BY <3>2, <3>4 DEF m
      <4>2. CASE j < i
        <5>1. j \in 1 .. m + 1
          BY <2>1, <4>1
        <5> QED BY <2>2, <2>3, <3>1, <3>4, <4>1, <4>2, <5>1
      <4>3. CASE ~(j < i)
        <5>1. j + 1 \in 1 .. m + 1 /\ ~(j + 1 < i) /\ j + 1 # i /\ (j + 1) - 1 = j
          BY <2>1, <4>1, <4>3
        <5> QED BY <2>2, <2>3, <3>1, <3>4, <4>1, <5>1
      <4> QED BY <4>2, <4>3
    <3> QED BY <3>3, <3>4
  <2> QED BY <2>4, <2>5
<1>10. \A x \in S : Listed(r, x, kk[x])
  BY <1>4, <1>5, <1>8
<1>11. Lists(r, S, kk)
  BY <1>6, <1>9, <1>10 DEF Lists
<1> QED BY <1>11 DEF kk

-----------------------------------------------------------------------------
(* The operators on sequences, as OrderedTree names them.                  *)

LEMMA Bridges ==
  ASSUME NEW s, NEW i, NEW e
  PROVE  /\ Forest!RemoveFirst(s, e) = RemoveFirst(s, e)
         /\ Forest!InsertAt(s, i, e) = InsertAt(s, i, e)
         /\ Forest!Contains(s, e) <=> Contains(s, e)
         /\ Forest!Range(s) = Range(s)
<1>1. Forest!RemoveFirst(s, e) = RemoveFirst(s, e)
  <2>1. \A j : Forest!RemoveAt(s, j) = RemoveAt(s, j)
    BY Zenon DEF Forest!RemoveAt, RemoveAt
  <2>2. Forest!SelectInSeq(s, LAMBDA v : v = e) = SelectInSeq(s, LAMBDA v : v = e)
    BY Zenon DEF Forest!SelectInSeq, SelectInSeq, Forest!Min, Min
  <2> QED BY <2>1, <2>2, Zenon DEF Forest!RemoveFirst, RemoveFirst
<1>2. Forest!InsertAt(s, i, e) = InsertAt(s, i, e)
  BY Zenon DEF Forest!InsertAt, InsertAt
<1>3. Forest!Contains(s, e) <=> Contains(s, e)
  BY Zenon DEF Forest!Contains, Contains
<1>4. Forest!Range(s) = Range(s)
  BY Zenon DEF Forest!Range, Range
<1> QED BY <1>1, <1>2, <1>3, <1>4

LEMMA PlaceIs ==
  ASSUME NEW S, NEW s \in Seq(S), NEW c
  PROVE  /\ \A i \in 1 .. Len(s) : s[i] = c /\ (\A j \in 1 .. Len(s) : s[j] = c => j = i)
              => Forest!Place(s, "before", c) = i /\ Forest!Place(s, "after", c) = i + 1
         /\ (\A i \in 1 .. Len(s) : s[i] # c)
              => Forest!Place(s, "before", c) = 1 /\ Forest!Place(s, "after", c) = Len(s) + 1
<1> DEFINE At == CHOOSE i \in DOMAIN s : s[i] = c
<1>1. DOMAIN s = 1 .. Len(s) /\ Len(s) \in Nat
  BY LenProperties
<1>2. /\ Forest!Place(s, "before", c) = IF Contains(s, c) THEN At ELSE 1
      /\ Forest!Place(s, "after", c) = IF Contains(s, c) THEN 1 + At ELSE Len(s) + 1
  <2>1. "before" # "after"
    OBVIOUS
  <2>2. /\ Forest!Place(s, "before", c) = IF Forest!Contains(s, c) THEN At ELSE 1
        /\ Forest!Place(s, "after", c) = IF Forest!Contains(s, c) THEN 1 + At ELSE Len(s) + 1
    BY <2>1, Zenon DEF Forest!Place
  <2>3. Forest!Contains(s, c) <=> Contains(s, c)
    BY Bridges
  <2> HIDE DEF At
  <2> QED BY <2>2, <2>3, Zenon
<1>3. ASSUME NEW i \in 1 .. Len(s), s[i] = c, \A j \in 1 .. Len(s) : s[j] = c => j = i
      PROVE  Contains(s, c) /\ At = i /\ 1 + At = i + 1
  <2>1. At = i
    BY <1>1, <1>3
  <2> HIDE DEF At
  <2> QED BY <1>1, <1>3, <2>1 DEF Contains
<1>4. ASSUME \A i \in 1 .. Len(s) : s[i] # c PROVE ~Contains(s, c)
  BY <1>4 DEF Contains
<1> HIDE DEF At
<1> QED BY <1>2, <1>3, <1>4, Zenon

\* A node is added between its new neighbours in the list of its new parent.
LEMMA AddedBetween ==
  ASSUME NULL \notin Node, NEW S \in SUBSET Node, NEW l \in [Node -> Link], NEW k, NEW s, NEW u,
         NEW n \in S, NEW p \in S, p # n, NEW c \in S \cup {NULL}, c # n,
         NEW where \in {"before", "after"}, u = Removed(l, n), u \in [Node -> Link],
         Lists(u, S, k), s = k[p]
  PROVE  LET i == Forest!Place(s, where, c) IN
         /\ i \in 1 .. Len(s) + 1
         /\ Linked(u, Added(l, p, where, c, n), p, BeforeOf(s, i), AfterOf(s, i), n)
         /\ Added(l, p, where, c, n) \in [Node -> Link]
<1> DEFINE m == Len(s)
           place == Forest!Place(s, where, c)
           r == [u EXCEPT ![n].parent = p]
           a == BeforeOf(s, place)
           b == AfterOf(s, place)
<1>0. /\ s \in Seq(S) /\ Listed(u, p, s)
      /\ c # NULL /\ u[c].parent = p => \E i \in 1 .. Len(s) : s[i] = c
  <2>1. p # NULL
    OBVIOUS
  <2> QED BY <2>1 DEF Lists
<1>1. m \in Nat /\ \A j \in 1 .. m : s[j] \in S
  BY <1>0, LenProperties
<1>2. /\ u[p].child = IF m = 0 THEN NULL ELSE s[1]
      /\ u[p].last_child = IF m = 0 THEN NULL ELSE s[m]
      /\ \A j \in 1 .. m : /\ u[s[j]].parent = p
                           /\ u[s[j]].prev = IF j = 1 THEN NULL ELSE s[j - 1]
                           /\ u[s[j]].next = IF j = m THEN NULL ELSE s[j + 1]
      /\ \A j, x \in 1 .. m : s[j] = s[x] => j = x
  BY <1>0 DEF Listed
<1>3. /\ r[p].child = u[p].child /\ r[p].last_child = u[p].last_child
      /\ c # NULL => r[c].parent = u[c].parent /\ r[c].prev = u[c].prev /\ r[c].next = u[c].next
  BY DEF Link
<1>4. NULL \notin S
  OBVIOUS
<1>5. /\ BeforeOf(s, 1) = NULL /\ AfterOf(s, 1) = IF m = 0 THEN NULL ELSE s[1]
      /\ BeforeOf(s, m + 1) = (IF m = 0 THEN NULL ELSE s[m]) /\ AfterOf(s, m + 1) = NULL
      /\ \A i \in 1 .. m : /\ AfterOf(s, i) = s[i] /\ BeforeOf(s, i + 1) = s[i]
                           /\ BeforeOf(s, i) = (IF i = 1 THEN NULL ELSE s[i - 1])
                           /\ AfterOf(s, i + 1) = (IF i = m THEN NULL ELSE s[i + 1])
  <2>1. /\ (1 = m + 1 <=> m = 0) /\ (m + 1 = 1 <=> m = 0) /\ (m + 1) - 1 = m
        /\ \A i \in 1 .. m : i # m + 1 /\ i + 1 # 1 /\ (i + 1) - 1 = i /\ (i + 1 = m + 1 <=> i = m)
    BY <1>1
  <2> QED BY <2>1 DEF BeforeOf, AfterOf
<1>6. /\ where = "before" => Added(l, p, where, c, n) =
           IF c \in {NULL, r[p].child} \/ r[c].parent # p THEN Between(r, p, NULL, r[p].child, n)
           ELSE Between(r, p, r[c].prev, c, n)
      /\ where = "after" => Added(l, p, where, c, n) =
           IF c \in {NULL, r[p].last_child} \/ r[c].parent # p THEN Between(r, p, r[p].last_child, NULL, n)
           ELSE Between(r, p, c, r[c].next, n)
  <2>1. where = "before" /\ (c \in {NULL, r[p].child} \/ r[c].parent # p)
          => Added(l, p, where, c, n) = Between(r, p, NULL, r[p].child, n)
    BY Zenon DEF Added
  <2>2. where = "before" /\ c \notin {NULL, r[p].child} /\ r[c].parent = p
          => Added(l, p, where, c, n) = Between(r, p, r[c].prev, c, n)
    BY Zenon DEF Added
  <2>3. where = "after" /\ (c \in {NULL, r[p].last_child} \/ r[c].parent # p)
          => Added(l, p, where, c, n) = Between(r, p, r[p].last_child, NULL, n)
    BY Zenon DEF Added
  <2>4. where = "after" /\ c \notin {NULL, r[p].last_child} /\ r[c].parent = p
          => Added(l, p, where, c, n) = Between(r, p, c, r[c].next, n)
    BY Zenon DEF Added
  <2> QED BY <2>1, <2>2, <2>3, <2>4, Zenon
<1> DEFINE Goal == /\ place \in 1 .. m + 1
                   /\ Added(l, p, where, c, n) = Between(r, p, a, b, n)
<1> HIDE DEF m, r
<1>7. ASSUME \E i \in 1 .. m : s[i] = c PROVE Goal
  <2>1. PICK i \in 1 .. m : s[i] = c
    BY <1>7
  <2>2. \A j \in 1 .. m : s[j] = c => j = i
    BY <1>2, <2>1
  <2>3. Forest!Place(s, "before", c) = i /\ Forest!Place(s, "after", c) = i + 1
    BY <1>0, <2>1, <2>2, PlaceIs DEF m
  <2>4. c # NULL /\ r[c].parent = p /\ u[c].prev = (IF i = 1 THEN NULL ELSE s[i - 1])
        /\ u[c].next = (IF i = m THEN NULL ELSE s[i + 1]) /\ m # 0
    BY <1>1, <1>2, <1>3, <1>4, <2>1
  <2>5. (c = r[p].child <=> i = 1) /\ (c = r[p].last_child <=> i = m)
    <3>1. 1 \in 1 .. m /\ m \in 1 .. m
      BY <1>1, <2>1
    <3> QED BY <1>2, <1>3, <2>1, <2>2, <2>4, <3>1
  <2>6. i + 1 \in 1 .. m + 1 /\ i \in 1 .. m + 1
    BY <1>1, <2>1
  <2>7. CASE where = "before"
    <3>1. place = i
      BY <2>3, <2>7
    <3>2. Added(l, p, where, c, n) = Between(r, p, BeforeOf(s, i), AfterOf(s, i), n)
      <4>1. CASE i = 1
        <5>1. Added(l, p, where, c, n) = Between(r, p, NULL, c, n)
          BY <1>6, <2>5, <2>7, <4>1, Zenon
        <5>2. BeforeOf(s, i) = NULL /\ AfterOf(s, i) = c
          BY <1>5, <2>1, <4>1
        <5> QED BY <5>1, <5>2, Zenon
      <4>2. CASE i # 1
        <5>1. Added(l, p, where, c, n) = Between(r, p, u[c].prev, c, n)
          <6>1. ~(c \in {NULL, r[p].child} \/ r[c].parent # p) /\ r[c].prev = u[c].prev
            BY <1>3, <2>4, <2>5, <4>2
          <6> QED BY <1>6, <2>7, <6>1, Zenon
        <5>2. BeforeOf(s, i) = u[c].prev /\ AfterOf(s, i) = c
          BY <1>5, <2>1, <2>4, <4>2
        <5> QED BY <5>1, <5>2, Zenon
      <4> QED BY <4>1, <4>2
    <3> QED BY <2>6, <3>1, <3>2
  <2>8. CASE where = "after"
    <3>1. place = i + 1
      BY <2>3, <2>8
    <3>2. Added(l, p, where, c, n) = Between(r, p, BeforeOf(s, i + 1), AfterOf(s, i + 1), n)
      <4>1. CASE i = m
        <5>1. Added(l, p, where, c, n) = Between(r, p, c, NULL, n)
          BY <1>6, <2>5, <2>8, <4>1, Zenon
        <5>2. BeforeOf(s, i + 1) = c /\ AfterOf(s, i + 1) = NULL
          BY <1>5, <2>1, <4>1
        <5> QED BY <5>1, <5>2, Zenon
      <4>2. CASE i # m
        <5>1. Added(l, p, where, c, n) = Between(r, p, c, u[c].next, n)
          <6>1. ~(c \in {NULL, r[p].last_child} \/ r[c].parent # p) /\ r[c].next = u[c].next
            BY <1>3, <2>4, <2>5, <4>2
          <6> QED BY <1>6, <2>8, <6>1, Zenon
        <5>2. BeforeOf(s, i + 1) = c /\ AfterOf(s, i + 1) = u[c].next
          BY <1>5, <2>1, <2>4, <4>2
        <5> QED BY <5>1, <5>2, Zenon
      <4> QED BY <4>1, <4>2
    <3> QED BY <2>6, <3>1, <3>2
  <2> QED BY <2>7, <2>8
<1>8. ASSUME \A i \in 1 .. m : s[i] # c PROVE Goal
  <2>1. Forest!Place(s, "before", c) = 1 /\ Forest!Place(s, "after", c) = m + 1
    BY <1>0, <1>8, PlaceIs DEF m
  <2>2. c = NULL \/ r[c].parent # p
    BY <1>0, <1>3, <1>8 DEF m
  <2>3. 1 \in 1 .. m + 1 /\ m + 1 \in 1 .. m + 1
    BY <1>1
  <2>4. CASE where = "before"
    <3>1. Added(l, p, where, c, n) = Between(r, p, NULL, u[p].child, n)
      BY <1>3, <1>6, <2>2, <2>4, Zenon
    <3>2. BeforeOf(s, 1) = NULL /\ AfterOf(s, 1) = u[p].child /\ place = 1
      BY <1>2, <1>5, <2>1, <2>4, Zenon
    <3> QED BY <2>3, <3>1, <3>2, Zenon
  <2>5. CASE where = "after"
    <3>1. Added(l, p, where, c, n) = Between(r, p, u[p].last_child, NULL, n)
      BY <1>3, <1>6, <2>2, <2>5, Zenon
    <3>2. BeforeOf(s, m + 1) = u[p].last_child /\ AfterOf(s, m + 1) = NULL /\ place = m + 1
      BY <1>2, <1>5, <2>1, <2>5, Zenon
    <3> QED BY <2>3, <3>1, <3>2, Zenon
  <2> QED BY <2>4, <2>5
<1>9. Goal
  BY <1>7, <1>8
<1>10. a \in S \cup {NULL} /\ b \in S \cup {NULL}
  <2>1. place \in 1 .. m + 1
    BY <1>9
  <2> HIDE DEF place
  <2>2. (place # 1 => place - 1 \in 1 .. m) /\ (place # m + 1 => place \in 1 .. m)
    BY <1>1, <2>1
  <2> QED BY <1>1, <2>2 DEF BeforeOf, AfterOf, m
<1> HIDE DEF place
<1>11. n \in Node /\ p \in Node /\ a \in Node \cup {NULL} /\ b \in Node \cup {NULL}
  BY <1>10
<1> HIDE DEF a, b
<1>12. Linked(u, Between(r, p, a, b, n), p, a, b, n) /\ Between(r, p, a, b, n) \in [Node -> Link]
  BY <1>11, BetweenFields DEF r
<1>13. Linked(u, Added(l, p, where, c, n), p, a, b, n)
       /\ Added(l, p, where, c, n) \in [Node -> Link]
  BY <1>9, <1>12 DEF a, b
<1> QED BY <1>9, <1>13 DEF a, b, m, place

\* The parents once n has none, and once it has p.
Cut(l, r, n) == \A x \in Node : r[x].parent = IF x = n THEN NULL ELSE l[x].parent
Grafted(l, r, n, p) == \A x \in Node : r[x].parent = IF x = n THEN p ELSE l[x].parent

LEMMA RemovedTree ==
  ASSUME NULL \notin Node, NEW S \in SUBSET Node, NEW l \in [Node -> Link], NEW k, NEW n \in S,
         NEW pos \in [Node -> Nat], Sound(l, S), Ordered(l, S, pos), Lists(l, S, k)
  PROVE  /\ Lists(Removed(l, n), S, [x \in S |-> RemoveFirst(k[x], n)])
         /\ Cut(l, Removed(l, n), n)
         /\ Blank(l, S) => Blank(Removed(l, n), S)
<1> DEFINE u == Removed(l, n)
<1>1. Lists(u, S, [x \in S |-> RemoveFirst(k[x], n)])
  BY RemovedLists
<1>2. Cut(l, u, n)
  <2>1. CASE l[n].parent = NULL
    BY <2>1 DEF Removed, Cut
  <2>2. CASE l[n].parent # NULL
    <3>1. u = Unlink(l, n) /\ Unlinked(l, Unlink(l, n), n)
      BY <2>2, UnlinkFields DEF Removed
    <3> QED BY <3>1 DEF Unlinked, Cut
  <2> QED BY <2>1, <2>2
<1>3. ASSUME Blank(l, S), NEW x \in Node \ S PROVE u[x] = Alone
  <2>1. l[x] = Alone
    BY <1>3 DEF Blank
  <2>2. CASE l[n].parent = NULL
    BY <2>1, <2>2 DEF Removed
  <2>3. CASE l[n].parent # NULL
    <3>1. u = Unlink(l, n)
      BY <2>3 DEF Removed
    <3>2. x # n /\ x # l[n].prev /\ x # l[n].next /\ x # l[n].parent
      BY DEF Sound, PointsInto
    <3>3. Unlink(l, n)[x] = [l[x] EXCEPT !.next = @, !.prev = @, !.child = @, !.last_child = @, !.parent = @]
      BY <3>2, Zenon DEF Unlink
    <3> QED BY <2>1, <3>1, <3>3 DEF Alone
  <2> QED BY <2>2, <2>3
<1> HIDE DEF u
<1>4. Blank(l, S) => Blank(u, S)
  BY <1>3 DEF Blank
<1> QED BY <1>1, <1>2, <1>4 DEF u

LEMMA AddedLists ==
  ASSUME NULL \notin Node, NEW S \in SUBSET Node, NEW l \in [Node -> Link], NEW k,
         NEW n \in S, NEW p \in S, p # n, NEW c \in S \cup {NULL}, c # n,
         NEW where \in {"before", "after"},
         NEW pos \in [Node -> Nat], Sound(l, S), Ordered(l, S, pos), Lists(l, S, k)
  PROVE  /\ Lists(Added(l, p, where, c, n), S, Forest!Insert(k, p, where, c, n))
         /\ Grafted(l, Added(l, p, where, c, n), n, p)
         /\ Blank(l, S) => Blank(Added(l, p, where, c, n), S)
<1> DEFINE u == Removed(l, n)
           kk == [x \in S |-> RemoveFirst(k[x], n)]
           s == kk[p]
           i == Forest!Place(s, where, c)
           a == BeforeOf(s, i)
           b == AfterOf(s, i)
           new == Added(l, p, where, c, n)
<1>1. /\ u \in [Node -> Link] /\ Sound(u, S) /\ Detached(u, n)
  BY RemovedSound
<1>2. Lists(u, S, kk)
  BY RemovedLists
<1>3. PointsInto(u, S)
  BY <1>1 DEF Sound
<1>4. DOMAIN k = S
  BY DEF Lists
<1>5. Forest!Insert(k, p, where, c, n) = [kk EXCEPT ![p] = InsertAt(s, i, n)]
  <2>1. Forest!Detach(k, n) = kk
    BY <1>4, Bridges, Zenon DEF Forest!Detach
  <2> HIDE DEF kk
  <2>2. Forest!Insert(k, p, where, c, n) = [kk EXCEPT ![p] = Forest!InsertAt(s, i, n)]
    BY <2>1, Zenon DEF Forest!Insert
  <2> QED BY <2>2, Bridges, Zenon
<1> HIDE DEF kk
<1>6. s \in Seq(S) /\ Listed(u, p, s)
  BY <1>2, ListsAre, Zenon
<1>8. i \in 1 .. Len(s) + 1 /\ Linked(u, new, p, a, b, n) /\ new \in [Node -> Link]
  <2>1. u = Removed(l, n) /\ s = kk[p]
    OBVIOUS
  <2>2. u \in [Node -> Link] /\ Lists(u, S, kk)
    BY <1>1, <1>2
  <2> HIDE DEF u, s, new
  <2>3. LET at == Forest!Place(s, where, c) IN
        /\ at \in 1 .. Len(s) + 1
        /\ Linked(u, Added(l, p, where, c, n), p, BeforeOf(s, at), AfterOf(s, at), n)
        /\ Added(l, p, where, c, n) \in [Node -> Link]
    BY <2>1, <2>2, AddedBetween
  <2> QED BY <2>3 DEF new
<1> HIDE DEF i
<1>9. s \in Seq(S) /\ Len(s) \in Nat /\ \A j \in 1 .. Len(s) : s[j] \in S
  <2>1. s \in Seq(S)
    BY <1>2 DEF Lists
  <2> QED BY <2>1, LenProperties
<1> HIDE DEF s, u
<1>10. a \in S \cup {NULL} /\ b \in S \cup {NULL}
  <2> DEFINE m == Len(s)
  <2>1. m \in Nat /\ i \in 1 .. m + 1
    BY <1>8, <1>9
  <2> HIDE DEF m
  <2>2. (i # 1 => i - 1 \in 1 .. m) /\ (i # m + 1 => i \in 1 .. m)
    BY <2>1
  <2> QED BY <1>9, <2>2 DEF BeforeOf, AfterOf, m
<1> HIDE DEF a, b
<1>12. Lists(new, S, [kk EXCEPT ![p] = InsertAt(s, i, n)])
  <2> HIDE DEF new
  <2>1. Linked(u, new, p, BeforeOf(kk[p], i), AfterOf(kk[p], i), n)
    BY <1>8, Zenon DEF a, b, s
  <2>2. i \in 1 .. Len(kk[p]) + 1
    BY <1>8 DEF s
  <2>3. Lists(new, S, [kk EXCEPT ![p] = InsertAt(kk[p], i, n)])
    BY <1>1, <1>2, <1>3, <2>1, <2>2, LinkedLists, Zenon
  <2> QED BY <2>3, Zenon DEF s
<1>13. Cut(l, u, n) /\ (Blank(l, S) => Blank(u, S))
  <2>1. Cut(l, Removed(l, n), n) /\ (Blank(l, S) => Blank(Removed(l, n), S))
    BY RemovedTree
  <2> QED BY <2>1 DEF u
<1>14. Grafted(l, new, n, p)
  <2> HIDE DEF new
  <2>1. \A x \in Node : u[x].parent = IF x = n THEN NULL ELSE l[x].parent
    BY <1>13 DEF Cut
  <2>2. \A x \in Node : new[x].parent = IF x = n THEN p ELSE u[x].parent
    BY <1>8 DEF Linked
  <2> QED BY <2>1, <2>2 DEF Grafted
<1>15. ASSUME Blank(l, S), NEW x \in Node \ S PROVE new[x] = Alone
  <2>1. u[x] = Alone
    BY <1>13, <1>15 DEF Blank
  <2>2. x # n /\ x # p /\ x # a /\ x # b /\ x \in Node
    BY <1>10
  <2>3. /\ new[x].parent = u[x].parent /\ new[x].prev = u[x].prev /\ new[x].next = u[x].next
        /\ new[x].child = u[x].child /\ new[x].last_child = u[x].last_child /\ new[x] \in Link
    <3> HIDE DEF new
    <3> QED BY <1>8, <2>2 DEF Linked
  <2> HIDE DEF new
  <2> QED BY <2>1, <2>3 DEF Alone, Link
<1>16. Blank(l, S) => Blank(new, S)
  BY <1>15 DEF Blank
<1> QED BY <1>5, <1>12, <1>14, <1>16, Zenon

-----------------------------------------------------------------------------
(* The ancestors and the levels, as a node loses or gets a parent.         *)

LEMMA AboveAfterCut ==
  ASSUME NULL \notin Node, NEW l \in [Node -> Link], NEW r \in [Node -> Link], NEW n \in Node,
         Cut(l, r, n), NEW x \in Node
  PROVE  /\ n \in Above(r, x) <=> n \in Above(l, x)
         /\ n \notin Above(l, x) => Above(r, x) = Above(l, x)
<1> DEFINE A == Above(l, x)
           B == Above(r, x)
<1>1. /\ x \in A /\ A \subseteq Node /\ UpClosed(l, A)
      /\ \A T \in SUBSET Node : x \in T /\ UpClosed(l, T) => A \subseteq T
  BY AboveIsLeast
<1>2. /\ x \in B /\ B \subseteq Node /\ UpClosed(r, B)
      /\ \A T \in SUBSET Node : x \in T /\ UpClosed(r, T) => B \subseteq T
  BY AboveIsLeast
<1>3. \A y \in Node : r[y].parent = IF y = n THEN NULL ELSE l[y].parent
  BY DEF Cut
<1> HIDE DEF A, B
<1>4. B \subseteq A
  <2>1. UpClosed(r, A)
    BY <1>1, <1>3 DEF UpClosed
  <2> QED BY <1>1, <1>2, <2>1
<1>5. n \notin B => A \subseteq B
  <2>1. n \notin B => UpClosed(l, B)
    BY <1>2, <1>3 DEF UpClosed
  <2> QED BY <1>1, <1>2, <2>1
<1> QED BY <1>4, <1>5 DEF A, B

LEMMA LevelsAfterCut ==
  ASSUME NULL \notin Node, NEW S \in SUBSET Node, NEW l, NEW r, NEW n, Cut(l, r, n),
         NEW h, NEW M, Levels(l, S, h, M)
  PROVE  Levels(r, S, h, M)
<1>1. \A x \in S : h[x] <= M /\ (l[x].parent # NULL => h[l[x].parent] < h[x])
  BY DEF Levels
<1>2. \A x \in S : r[x].parent = NULL \/ r[x].parent = l[x].parent
  BY DEF Cut
<1>3. \A x \in S : h[x] <= M /\ (r[x].parent # NULL => h[r[x].parent] < h[x])
  BY <1>1, <1>2
<1> QED BY <1>3 DEF Levels

\* A node gets a parent that is not under it: all that is under it moves to
\* levels below that of the parent.
LEMMA LevelsAfterGraft ==
  ASSUME NULL \notin Node, NEW S \in SUBSET Node, NEW l \in [Node -> Link], NEW r, NEW n \in S,
         NEW p \in S, n \notin Above(l, p), Grafted(l, r, n, p), PointsInto(l, S),
         NEW h, NEW M, Levels(l, S, h, M)
  PROVE  \E g, N : Levels(r, S, g, N)
<1> DEFINE g == [x \in Node |-> IF n \in Above(l, x) THEN h[x] + h[p] + 1 ELSE h[x]]
           N == M + M + 1
<1>1. /\ M \in Nat /\ h \in [Node -> Nat]
      /\ \A x \in S : h[x] <= M /\ (l[x].parent # NULL => h[l[x].parent] < h[x])
  BY DEF Levels
<1>2. \A x \in S : l[x].parent \in S \cup {NULL}
  BY DEF PointsInto
<1>3. \A x \in Node : g[x] = IF n \in Above(l, x) THEN h[x] + h[p] + 1 ELSE h[x]
  OBVIOUS
<1>4. N \in Nat /\ g \in [Node -> Nat]
  BY <1>1
<1> HIDE DEF g
<1>5. ASSUME NEW x \in S PROVE g[x] <= N
  <2>1. x \in Node /\ p \in Node /\ h[x] \in Nat /\ h[p] \in Nat /\ h[x] <= M /\ h[p] <= M
    BY <1>1
  <2> QED BY <1>1, <1>3, <2>1
<1>6. ASSUME NEW x \in S, r[x].parent # NULL PROVE g[r[x].parent] < g[x]
  <2>1. CASE x = n
    <3>1. r[x].parent = p
      BY <2>1 DEF Grafted
    <3>2. g[p] = h[p]
      BY <1>3
    <3>3. g[n] = h[n] + h[p] + 1
      BY <1>3, AboveIsLeast
    <3>4. h[n] \in Nat /\ h[p] \in Nat
      BY <1>1
    <3> QED BY <2>1, <3>1, <3>2, <3>3, <3>4
  <2>2. CASE x # n
    <3> DEFINE q == l[x].parent
    <3>1. r[x].parent = q /\ q # NULL /\ q \in S
      BY <1>2, <1>6, <2>2 DEF Grafted
    <3>2. Above(l, x) = {x} \cup Above(l, q)
      BY <3>1, AboveIs
    <3>3. h[q] < h[x] /\ h[q] \in Nat /\ h[x] \in Nat /\ h[p] \in Nat /\ q \in Node /\ x \in Node
      BY <1>1, <3>1
    <3> HIDE DEF q
    <3>4. n \in Above(l, x) <=> n \in Above(l, q)
      BY <2>2, <3>2
    <3>5. g[q] < g[x]
      BY <1>3, <3>3, <3>4
    <3> QED BY <3>1, <3>5
  <2> QED BY <2>1, <2>2
<1>7. Levels(r, S, g, N)
  BY <1>4, <1>5, <1>6 DEF Levels
<1> QED BY <1>7

\* The sequences of children, as the pointers have them.
Kids(l, S) == [p \in S |-> From(l)[l[p].child]]

Shaped(l, S) == Blank(l, S) /\ Lists(l, S, Kids(l, S)) /\ \E h, M : Levels(l, S, h, M)

LEMMA KidsAre ==
  ASSUME NULL \notin Node, NEW S \in SUBSET Node, NEW l \in [Node -> Link], NEW k,
         Blank(l, S), Lists(l, S, k), Sound(l, S)
  PROVE  Kids(l, S) = k
<1>1. k = [p \in S |-> k[p]]
  BY DEF Lists
<1>2. ASSUME NEW p \in S PROVE From(l)[l[p].child] = k[p]
  BY ChildrenAre DEF Sound
<1> QED BY <1>1, <1>2, Zenon DEF Kids

-----------------------------------------------------------------------------
(* What each call does to the shape.                                       *)

LEMMA RemovedShaped ==
  ASSUME NULL \notin Node, NEW S \in SUBSET Node, NEW l \in [Node -> Link], NEW n \in S,
         NEW pos \in [Node -> Nat], Sound(l, S), Ordered(l, S, pos), Shaped(l, S)
  PROVE  /\ Shaped(Removed(l, n), S)
         /\ Kids(Removed(l, n), S) = Forest!Detach(Kids(l, S), n)
         /\ Cut(l, Removed(l, n), n)
<1> DEFINE k == Kids(l, S)
           u == Removed(l, n)
           kk == [x \in S |-> RemoveFirst(k[x], n)]
<1>1. Blank(l, S) /\ Lists(l, S, k)
  BY DEF Shaped
<1>2. PICK h, M : Levels(l, S, h, M)
  BY DEF Shaped
<1>3. DOMAIN k = S
  BY DEF Kids
<1> HIDE DEF k
<1>4. u \in [Node -> Link] /\ Sound(u, S)
  BY RemovedSound
<1>5. Lists(u, S, kk) /\ Cut(l, u, n) /\ Blank(u, S)
  BY <1>1, RemovedTree
<1>6. Levels(u, S, h, M)
  BY <1>2, <1>5, LevelsAfterCut
<1>7. Forest!Detach(k, n) = kk
  BY <1>3, Bridges, Zenon DEF Forest!Detach
<1> HIDE DEF u, kk
<1>8. Kids(u, S) = kk
  BY <1>4, <1>5, KidsAre
<1>9. Shaped(u, S)
  BY <1>5, <1>6, <1>8 DEF Shaped
<1> QED BY <1>5, <1>7, <1>8, <1>9 DEF u, k

LEMMA AddedShaped ==
  ASSUME NULL \notin Node, NEW S \in SUBSET Node, NEW l \in [Node -> Link],
         NEW n \in S, NEW p \in S, p # n, n \notin Above(l, p), NEW c \in S \cup {NULL}, c # n,
         NEW where \in {"before", "after"},
         NEW pos \in [Node -> Nat], Sound(l, S), Ordered(l, S, pos), Shaped(l, S)
  PROVE  /\ Shaped(Added(l, p, where, c, n), S)
         /\ Kids(Added(l, p, where, c, n), S) = Forest!Insert(Kids(l, S), p, where, c, n)
<1> DEFINE k == Kids(l, S)
           u == Added(l, p, where, c, n)
           kk == Forest!Insert(k, p, where, c, n)
<1>1. Blank(l, S) /\ Lists(l, S, k) /\ PointsInto(l, S)
  BY DEF Shaped, Sound
<1>2. PICK h, M : Levels(l, S, h, M)
  BY DEF Shaped
<1> HIDE DEF k
<1>4. u \in [Node -> Link] /\ Sound(u, S)
  BY AddedSound
<1>5. Lists(u, S, kk) /\ Grafted(l, u, n, p) /\ Blank(u, S)
  BY <1>1, AddedLists
<1> HIDE DEF u, kk
<1>6. \E g, N : Levels(u, S, g, N)
  BY <1>1, <1>2, <1>5, LevelsAfterGraft
<1>8. Kids(u, S) = kk
  BY <1>4, <1>5, KidsAre
<1>9. Shaped(u, S)
  BY <1>5, <1>6, <1>8 DEF Shaped
<1> QED BY <1>8, <1>9 DEF u, k, kk

SameParents(l, r) == \A x \in Node : r[x].parent = l[x].parent

LEMMA AboveSame ==
  ASSUME NULL \notin Node, NEW l, NEW r, SameParents(l, r)
  PROVE  \A m \in Node : Above(r, m) = Above(l, m)
<1>1. \A T \in SUBSET Node : UpClosed(r, T) <=> UpClosed(l, T)
  BY DEF UpClosed, SameParents
<1> QED BY <1>1 DEF Above

\* The children of S and of n, which has none.
Grown(k, S, n) == [m \in S \cup {n} |-> IF m = n THEN << >> ELSE k[m]]

LEMMA GrownShaped ==
  ASSUME NULL \notin Node, NEW S \in SUBSET Node, NEW l \in [Node -> Link], NEW n \in Node \ S,
         NEW pos \in [Node -> Nat], Sound(l, S), Ordered(l, S, pos), Shaped(l, S)
  PROVE  /\ Sound(l, S \cup {n}) /\ Ordered(l, S \cup {n}, pos) /\ Shaped(l, S \cup {n})
         /\ Kids(l, S \cup {n}) = Grown(Kids(l, S), S, n)
<1> DEFINE k == Kids(l, S)
           R == S \cup {n}
           kk == [m \in R |-> IF m = n THEN << >> ELSE k[m]]
<1>1. Blank(l, S) /\ Lists(l, S, k) /\ PointsInto(l, S) /\ R \in SUBSET Node
  BY DEF Shaped, Sound
<1>2. PICK h, M : Levels(l, S, h, M)
  BY DEF Shaped
<1>3. /\ l[n].parent = NULL /\ l[n].prev = NULL /\ l[n].next = NULL
      /\ l[n].child = NULL /\ l[n].last_child = NULL
  BY <1>1 DEF Blank, Alone
<1> HIDE DEF k
<1>4. PointsInto(l, R)
  BY <1>1, <1>3 DEF PointsInto
<1>5. Siblings(l, R)
  BY <1>3 DEF Sound, Siblings
<1>6. FirstAndLast(l, R)
  BY <1>3 DEF Sound, FirstAndLast
<1>7. Ordered(l, R, pos)
  BY <1>3 DEF Ordered
<1>8. Blank(l, R)
  BY <1>1 DEF Blank
<1>9. Lists(l, R, kk)
  <2>1. << >> \in Seq(R) /\ Len(<< >>) = 0
    OBVIOUS
  <2>2. \A m \in R : kk[m] = IF m = n THEN << >> ELSE k[m]
    OBVIOUS
  <2>3. \A m \in S : k[m] \in Seq(S) /\ k[m] \in Seq(R) /\ Listed(l, m, k[m])
    <3>1. S \subseteq R /\ \A m \in S : k[m] \in Seq(S) /\ Listed(l, m, k[m])
      BY <1>1 DEF Lists
    <3> HIDE DEF R
    <3> QED BY <3>1, SeqMonotonic
  <2>4. kk \in [R -> Seq(R)]
    BY <2>1, <2>3
  <2>5. Listed(l, n, << >>)
    BY <1>3, <2>1 DEF Listed
  <2> HIDE DEF kk
  <2>6. \A m \in R : Listed(l, m, kk[m])
    BY <2>2, <2>3, <2>5
  <2>7. ASSUME NEW m \in R, l[m].parent # NULL
        PROVE  \E i \in 1 .. Len(kk[l[m].parent]) : kk[l[m].parent][i] = m
    <3>1. m \in S /\ l[m].parent \in S
      BY <1>1, <1>3, <2>7 DEF PointsInto
    <3>2. kk[l[m].parent] = k[l[m].parent]
      BY <2>2, <3>1
    <3> QED BY <1>1, <2>7, <3>1, <3>2 DEF Lists
  <2> QED BY <2>4, <2>6, <2>7 DEF Lists
<1>10. Levels(l, R, [h EXCEPT ![n] = 0], M)
  <2>1. M \in Nat /\ h \in [Node -> Nat]
        /\ \A x \in S : h[x] <= M /\ (l[x].parent # NULL => h[l[x].parent] < h[x])
    BY <1>2 DEF Levels
  <2>2. \A x \in S : l[x].parent # n
    BY <1>1 DEF PointsInto
  <2> DEFINE g == [h EXCEPT ![n] = 0]
  <2>3. g \in [Node -> Nat] /\ \A x \in Node : g[x] = IF x = n THEN 0 ELSE h[x]
    BY <2>1
  <2> HIDE DEF g
  <2>4. \A x \in R : g[x] <= M /\ (l[x].parent # NULL => g[l[x].parent] < g[x])
    <3> SUFFICES ASSUME NEW x \in R PROVE g[x] <= M /\ (l[x].parent # NULL => g[l[x].parent] < g[x])
      OBVIOUS
    <3>1. CASE x = n
      BY <1>3, <2>1, <2>3, <3>1
    <3>2. CASE x \in S
      <4>1. x # n /\ l[x].parent \in S \cup {NULL}
        BY <1>1, <3>2 DEF PointsInto
      <4> QED BY <2>1, <2>2, <2>3, <3>2, <4>1
    <3> QED BY <3>1, <3>2
  <2>5. Levels(l, R, g, M)
    BY <2>1, <2>3, <2>4 DEF Levels
  <2> QED BY <2>5 DEF g
<1>11. Sound(l, R)
  BY <1>4, <1>5, <1>6 DEF Sound
<1> HIDE DEF kk, R
<1>12. Kids(l, R) = kk
  BY <1>1, <1>8, <1>9, <1>11, KidsAre
<1>13. Shaped(l, R)
  BY <1>8, <1>9, <1>10, <1>12 DEF Shaped
<1>14. Grown(k, S, n) = kk
  BY Zenon DEF Grown, kk, R
<1> QED BY <1>7, <1>11, <1>12, <1>13, <1>14 DEF R, k

Childless(l, S, n) == l[n].child = NULL /\ \A m \in S : l[m].parent # n
Blanked(l, r, n) == r[n] = Alone /\ \A x \in Node : x # n => r[x] = l[x]

\* A block is freed that was in no tree and had no children.
LEMMA FreedShaped ==
  ASSUME NULL \notin Node, NEW S \in SUBSET Node, NEW l \in [Node -> Link], NEW n \in S,
         Detached(l, n), Childless(l, S, n), Sound(l, S), Shaped(l, S),
         NEW r \in [Node -> Link], Blanked(l, r, n), Sound(r, S \ {n})
  PROVE  /\ Shaped(r, S \ {n})
         /\ \A x \in S \ {n} : Kids(r, S \ {n})[x] = Kids(l, S)[x]
         /\ SameParents(l, r)
<1> DEFINE k == Kids(l, S)
           R == S \ {n}
           kk == [m \in R |-> k[m]]
<1>1. Blank(l, S) /\ Lists(l, S, k) /\ PointsInto(l, S) /\ R \in SUBSET Node
  BY DEF Shaped, Sound
<1>2. PICK h, M : Levels(l, S, h, M)
  BY DEF Shaped
<1>3. /\ \A x \in Node : x # n => r[x] = l[x]
      /\ r[n] = Alone
  BY DEF Blanked
<1>4. \A x \in Node : r[x].parent = l[x].parent
  BY <1>3 DEF Detached, Alone
<1> HIDE DEF k
<1>5. Blank(r, R)
  BY <1>1, <1>3 DEF Blank
<1>6. Lists(r, R, kk)
  <2>1. ASSUME NEW x \in R PROVE k[x] \in Seq(R) /\ Listed(r, x, k[x])
    <3>1. x \in S /\ x # n /\ x \in Node /\ x # NULL
      OBVIOUS
    <3>2. k[x] \in Seq(S) /\ Listed(l, x, k[x]) /\ \A i \in 1 .. Len(k[x]) : k[x][i] \in S
      BY <1>1, <3>1, ListsAre
    <3>3. \A i \in 1 .. Len(k[x]) : l[k[x][i]].parent = x
      BY <3>2 DEF Listed
    <3>4. \A i \in 1 .. Len(k[x]) : k[x][i] \in R /\ k[x][i] \in Node /\ k[x][i] # n
      BY <3>1, <3>2, <3>3 DEF Detached
    <3>5. k[x] \in Seq(R)
      BY <3>2, <3>4, SeqDef, LenProperties
    <3>6. r[x] = l[x] /\ \A i \in 1 .. Len(k[x]) : r[k[x][i]] = l[k[x][i]]
      BY <1>3, <3>1, <3>4
    <3>7. /\ r[x].child = l[x].child /\ r[x].last_child = l[x].last_child
          /\ \A i \in 1 .. Len(k[x]) : /\ r[k[x][i]].parent = l[k[x][i]].parent
                                      /\ r[k[x][i]].prev = l[k[x][i]].prev
                                      /\ r[k[x][i]].next = l[k[x][i]].next
      BY <3>6
    <3>8. Listed(l, x, k[x])
      BY <3>2
    <3>9. Listed(r, x, k[x])
      <4> HIDE DEF R, kk
      <4> QED BY <3>7, <3>8, ListedStays, Zenon
    <3> QED BY <3>5, <3>9
  <2>2. kk \in [R -> Seq(R)]
    BY <2>1
  <2>3. \A x \in R : kk[x] = k[x]
    OBVIOUS
  <2> HIDE DEF kk
  <2>4. ASSUME NEW m \in R, r[m].parent # NULL
        PROVE  \E i \in 1 .. Len(kk[r[m].parent]) : kk[r[m].parent][i] = m
    <3>1. m \in S /\ m \in Node /\ r[m].parent = l[m].parent /\ l[m].parent \in R
      BY <1>1, <1>4, <2>4 DEF PointsInto, Childless
    <3>2. kk[r[m].parent] = k[l[m].parent]
      BY <2>3, <3>1
    <3>3. PICK i \in 1 .. Len(k[l[m].parent]) : k[l[m].parent][i] = m
      <4>1. l[m].parent # NULL
        BY <2>4, <3>1
      <4> QED BY <1>1, <3>1, <4>1 DEF Lists
    <3> QED BY <3>2, <3>3, Zenon
  <2> QED BY <2>1, <2>2, <2>3, <2>4 DEF Lists
<1>7. Levels(r, R, h, M)
  <2>1. M \in Nat /\ h \in [Node -> Nat]
        /\ \A x \in S : h[x] <= M /\ (l[x].parent # NULL => h[l[x].parent] < h[x])
    BY <1>2 DEF Levels
  <2>2. \A x \in R : h[x] <= M /\ (r[x].parent # NULL => h[r[x].parent] < h[x])
    BY <1>4, <2>1
  <2> QED BY <2>1, <2>2 DEF Levels
<1>8. \A x \in R : kk[x] = k[x]
  OBVIOUS
<1> HIDE DEF kk
<1>9. Sound(r, R)
  OBVIOUS
<1> HIDE DEF R
<1>10. Kids(r, R) = kk
  BY <1>1, <1>5, <1>6, <1>9, KidsAre
<1>11. Shaped(r, R)
  BY <1>5, <1>6, <1>7, <1>10 DEF Shaped
<1>12. SameParents(l, r)
  BY <1>4 DEF SameParents
<1> QED BY <1>8, <1>10, <1>11, <1>12 DEF R, k

-----------------------------------------------------------------------------
(* The pointers implement the forest.                                      *)

RInv == IInv /\ Shaped(link, live)

LEMMA Known ==
  ASSUME RInv
  PROVE  /\ NULL \notin Node /\ live \in SUBSET Node /\ link \in [Node -> Link] /\ Sound(link, live)
         /\ Shaped(link, live) /\ deleting \in Seq(live)
         /\ \E pos \in [Node -> Nat] : Ordered(link, live, pos)
BY XmlTreeAssumption DEF XmlTreeAssumption, RInv, IInv, TypeOK, Pointers, Acyclic

\* The nodes that are not being deleted, with their children.
Abs(l, S, D) == [n \in {x \in S : Above(l, x) \cap D = {}} |-> Kids(l, S)[n]]

LEMMA IdleAbs ==
  ASSUME NEW l, NEW S
  PROVE  Abs(l, S, {}) = Kids(l, S)
<1>1. {x \in S : Above(l, x) \cap {} = {}} = S
  OBVIOUS
<1>2. Kids(l, S) = [n \in S |-> Kids(l, S)[n]]
  BY DEF Kids
<1> QED BY <1>1, <1>2, Zenon DEF Abs

LEMMA AncestorsMapped ==
  ASSUME RInv, NEW n \in Node
  PROVE  Ancestors(n) = Above(link, n)
<1>1. Ancestors(n) = {n} \cup Up(link)[link[n].parent]
  BY Zenon DEF Ancestors, Up
<1>2. PICK h, M : Levels(link, live, h, M)
  BY Known DEF Shaped
<1>3. {n} \cup Up(link)[link[n].parent] = Above(link, n)
  BY <1>2, Known, AncestorsAre DEF Shaped, Sound
<1> QED BY <1>1, <1>3

LEMMA ForestMapped == RInv => [n \in Kept |-> Children(n)] = Abs(link, live, Range(deleting))
<1> SUFFICES ASSUME RInv PROVE [n \in Kept |-> Children(n)] = Abs(link, live, Range(deleting))
  OBVIOUS
<1>1. live \subseteq Node
  BY Known
<1>2. Kept = {x \in live : Above(link, x) \cap Range(deleting) = {}}
  <2>1. \A x \in live : Ancestors(x) = Above(link, x)
    BY <1>1, AncestorsMapped
  <2> QED BY <2>1 DEF Kept
<1>3. \A n \in live : Children(n) = Kids(link, live)[n]
  <2> SUFFICES ASSUME NEW n \in live PROVE Children(n) = Kids(link, live)[n]
    OBVIOUS
  <2>1. Children(n) = From(link)[link[n].child]
    BY Zenon DEF Children, From
  <2> QED BY <2>1, Zenon DEF Kids
<1>4. \A n \in Kept : Children(n) = Kids(link, live)[n]
  BY <1>2, <1>3
<1> QED BY <1>2, <1>4, Zenon DEF Abs

LEMMA NewStep ==
  ASSUME RInv, NEW n \in Node, NEW p \in live \cup {NULL}, mxmlNew(n, p)
  PROVE  /\ Shaped(link', live')
         /\ LET k == Kids(link, live)
                grown == Grown(k, live, n) IN
            Kids(link', live') = IF p = NULL THEN grown
                                 ELSE Forest!Insert(grown, p, "after", NULL, n)
<1> DEFINE S == live \cup {n}
           grown == Grown(Kids(link, live), live, n)
<1>0. /\ NULL \notin Node /\ live \in SUBSET Node /\ link \in [Node -> Link] /\ Sound(link, live)
      /\ Shaped(link, live)
  BY Known
<1>1. /\ n \notin live /\ live' = S
      /\ link' = IF p = NULL THEN [link EXCEPT ![n] = Alone]
                 ELSE Added([link EXCEPT ![n] = Alone], p, "after", NULL, n)
  BY Zenon DEF mxmlNew
<1>2. PICK pos \in [Node -> Nat] : Ordered(link, live, pos)
  BY Known
<1>3. [link EXCEPT ![n] = Alone] = link
  <2>1. link[n] = Alone
    BY <1>1, Known DEF Shaped, Blank
  <2> QED BY <2>1, Known
<1>4. link' = IF p = NULL THEN link ELSE Added(link, p, "after", NULL, n)
  BY <1>1, <1>3, Zenon
<1>5. n \in Node \ live
  BY <1>1
<1>6. Sound(link, S) /\ Ordered(link, S, pos) /\ Shaped(link, S) /\ Kids(link, S) = grown
  BY <1>2, <1>5, <1>0, GrownShaped
<1> HIDE DEF grown
<1>7. CASE p = NULL
  BY <1>1, <1>4, <1>6, <1>7 DEF grown
<1>8. CASE p # NULL
  <2>1. n \notin Above(link, p)
    <3> DEFINE T == live
    <3>1. T \in SUBSET Node /\ p \in T /\ UpClosed(link, T) /\ p \in Node
      BY <1>8, Known DEF UpClosed, Sound, PointsInto
    <3>2. Above(link, p) \subseteq T
      BY <3>1, Known, AboveIsLeast
    <3> QED BY <1>1, <3>2
  <2>2. /\ S \in SUBSET Node /\ n \in S /\ p \in S /\ p # n /\ NULL \in S \cup {NULL} /\ NULL # n
        /\ "after" \in {"before", "after"} /\ NULL \notin Node
    BY <1>1, <1>8, Known
  <2> HIDE DEF S
  <2>3. /\ Shaped(Added(link, p, "after", NULL, n), S)
        /\ Kids(Added(link, p, "after", NULL, n), S)
             = Forest!Insert(Kids(link, S), p, "after", NULL, n)
    BY <1>2, <1>6, <2>1, <2>2, <1>0, AddedShaped
  <2>4. link' = Added(link, p, "after", NULL, n)
    BY <1>4, <1>8
  <2>5. /\ Shaped(link', live')
        /\ Kids(link', live') = Forest!Insert(grown, p, "after", NULL, n)
    BY <1>1, <1>6, <2>3, <2>4, Zenon
  <2> QED BY <1>8, <2>5 DEF grown, S
<1> QED BY <1>7, <1>8

LEMMA AddStep ==
  ASSUME RInv, NEW n \in live, NEW p \in live, NEW where \in {"before", "after"},
         NEW c \in live \cup {NULL}, mxmlAdd(p, where, c, n)
  PROVE  /\ Shaped(link', live')
         /\ Kids(link', live') = Forest!Insert(Kids(link, live), p, where, c, n)
         /\ n \notin Above(link, p)
<1>0. /\ NULL \notin Node /\ live \in SUBSET Node /\ link \in [Node -> Link] /\ Sound(link, live)
      /\ Shaped(link, live)
  BY Known
<1>1. /\ n \notin Ancestors(p) /\ c # n /\ live' = live
      /\ link' = Added(link, p, where, c, n)
  BY DEF mxmlAdd
<1>2. PICK pos \in [Node -> Nat] : Ordered(link, live, pos)
  BY Known
<1>3. p \in Node /\ n \in Node
  BY Known
<1>4. n \notin Above(link, p)
  BY <1>1, <1>3, AncestorsMapped
<1>5. p # n
  BY <1>3, <1>4, Known, AboveIsLeast
<1>6. /\ Shaped(Added(link, p, where, c, n), live)
      /\ Kids(Added(link, p, where, c, n), live) = Forest!Insert(Kids(link, live), p, where, c, n)
  <2>1. n \in live /\ p \in live /\ c \in live \cup {NULL} /\ where \in {"before", "after"}
        /\ c # n
    BY <1>1
  <2> QED BY <2>1, <1>2, <1>4, <1>5, <1>0, AddedShaped
<1> QED BY <1>1, <1>4, <1>6

LEMMA RemovedStep ==
  ASSUME RInv, NEW n \in live, link' = Removed(link, n), live' = live
  PROVE  /\ Shaped(link', live') /\ Kids(link', live') = Forest!Detach(Kids(link, live), n)
         /\ Cut(link, link', n) /\ link' \in [Node -> Link]
<1>1. PICK pos \in [Node -> Nat] : Ordered(link, live, pos)
  BY Known
<1>2. /\ Shaped(Removed(link, n), live)
      /\ Kids(Removed(link, n), live) = Forest!Detach(Kids(link, live), n)
      /\ Cut(link, Removed(link, n), n)
  BY <1>1, Known, RemovedShaped
<1>3. Removed(link, n) \in [Node -> Link]
  BY <1>1, Known, RemovedSound
<1> QED BY <1>2, <1>3

LEMMA FreeStep ==
  ASSUME RInv, IInv', FreeNode
  PROVE  /\ Shaped(link', live') /\ live' = live \ {Last(deleting)}
         /\ \A x \in live' : Kids(link', live')[x] = Kids(link, live)[x]
         /\ SameParents(link, link')
         /\ Childless(link, live, Last(deleting))
<1> DEFINE n == Last(deleting)
<1>0. /\ NULL \notin Node /\ live \in SUBSET Node /\ link \in [Node -> Link] /\ Sound(link, live)
      /\ Shaped(link, live)
  BY Known
<1>1. /\ deleting # << >> /\ link[n].child = NULL /\ live' = live \ {n}
      /\ link' = [link EXCEPT ![n] = Alone]
  BY DEF FreeNode, Idle
<1>2. n \in live /\ Detached(link, n)
  <2>1. Len(deleting) \in 1 .. Len(deleting) /\ n = deleting[Len(deleting)] /\ n \in live
    BY <1>1, Known, FrontOfSequence
  <2> QED BY <2>1 DEF RInv, IInv, Apart
<1>3. PICK pos \in [Node -> Nat] : Ordered(link, live, pos)
  BY Known
<1> HIDE DEF n
<1>4. \A m \in live : link[m].parent # n
  BY <1>1, <1>2, <1>3, <1>0, NoOrphans
<1>5. link' \in [Node -> Link] /\ Sound(link', live \ {n})
  BY <1>1 DEF IInv, Pointers
<1>6. /\ Shaped(link', live \ {n})
      /\ \A x \in live \ {n} : Kids(link', live \ {n})[x] = Kids(link, live)[x]
      /\ SameParents(link, link')
  <2>1. Blanked(link, link', n)
    BY <1>0, <1>1, <1>2 DEF Blanked
  <2>2. Childless(link, live, n)
    BY <1>1, <1>4 DEF Childless
  <2>3. link' \in [Node -> Link] /\ Sound(link', live \ {n})
    BY <1>5
  <2>4. n \in live /\ Detached(link, n) /\ live \in SUBSET Node
    BY <1>0, <1>2
  <2> QED BY <2>1, <2>2, <2>3, <2>4, <1>0, FreedShaped
<1>7. Childless(link, live, n)
  BY <1>1, <1>4 DEF Childless
<1> QED BY <1>1, <1>6, <1>7 DEF n

LEMMA ShapedKept == RInv /\ [TreeNext]_tree => RInv'
<1> SUFFICES ASSUME RInv, [TreeNext]_tree PROVE RInv'
  OBVIOUS
<1>1. IInv'
  BY NextInvariant DEF RInv
<1>2. ASSUME NEW n \in Node, NEW p \in live \cup {NULL}, mxmlNew(n, p) PROVE Shaped(link', live')
  BY <1>2, NewStep
<1>3. ASSUME NEW n \in live, NEW p \in live, NEW where \in {"before", "after"},
             NEW c \in live \cup {NULL}, mxmlAdd(p, where, c, n)
      PROVE  Shaped(link', live')
  BY <1>3, AddStep
<1>4. ASSUME NEW n \in live, mxmlRemove(n) \/ mxmlDelete(n) \/ mxmlRelease(n) \/ mxmlRetain(n)
      PROVE  Shaped(link', live')
  <2>1. live' = live /\ (link' = Removed(link, n) \/ link' = link)
    BY <1>4 DEF mxmlRemove, mxmlDelete, mxmlRelease, mxmlRetain, Call
  <2> QED BY <2>1, RemovedStep DEF RInv
<1>5. ASSUME DeleteChild PROVE Shaped(link', live')
  <2>1. live' = live /\ link[Last(deleting)].child # NULL
        /\ link' = Removed(link, link[Last(deleting)].child)
        /\ deleting # << >>
    BY <1>5 DEF DeleteChild, Call, Idle
  <2>2. Last(deleting) \in live
    BY <2>1, Known, FrontOfSequence
  <2>3. link[Last(deleting)].child \in live
    BY <2>1, <2>2, Known DEF Sound, PointsInto
  <2> QED BY <2>1, <2>3, RemovedStep
<1>6. ASSUME FreeNode PROVE Shaped(link', live')
  BY <1>1, <1>6, FreeStep
<1>7. ASSUME UNCHANGED tree PROVE Shaped(link', live')
  BY <1>7 DEF tree, RInv
<1>8. Shaped(link', live')
  BY <1>2, <1>3, <1>4, <1>5, <1>6, <1>7 DEF TreeNext, Client, Deletion
<1> QED BY <1>1, <1>8 DEF RInv

\* The forest of the nodes that are not being deleted, before a step and after it.
Shape == [n \in Kept |-> Children(n)]

Mapped == Shape = Abs(link, live, Range(deleting))

LEMMA MappedNow == RInv => Mapped
BY ForestMapped DEF Mapped, Shape

LEMMA MappedNext == RInv' => Shape' = Abs(link', live', Range(deleting'))
<1>1. RInv' => Mapped'
  BY MappedNow, PTL
<1> QED BY <1>1 DEF Mapped

LEMMA IdleShape ==
  ASSUME RInv, RInv', Idle, deleting' = deleting
  PROVE  Shape = Kids(link, live) /\ Shape' = Kids(link', live') /\ DOMAIN Shape = live
<1>1. Range(deleting) = {} /\ Range(deleting') = {}
  BY DEF Idle, Range
<1>2. Shape = Abs(link, live, Range(deleting)) /\ Shape' = Abs(link', live', Range(deleting'))
  BY MappedNow, MappedNext DEF Mapped
<1>3. Shape = Kids(link, live) /\ Shape' = Kids(link', live')
  BY <1>1, <1>2, IdleAbs, Zenon
<1>4. DOMAIN Kids(link, live) = live
  BY DEF Kids
<1> QED BY <1>3, <1>4

LEMMA UnderForest ==
  ASSUME RInv, NEW n \in live
  PROVE  Forest!Under(Kids(link, live), n) = {x \in live : n \in Above(link, x)}
<1> DEFINE k == Kids(link, live)
<1>0. /\ NULL \notin Node /\ live \in SUBSET Node /\ link \in [Node -> Link]
      /\ PointsInto(link, live)
      /\ Lists(link, live, k)
  BY Known DEF Sound, Shaped
<1>1. PICK h, M : Levels(link, live, h, M)
  BY Known DEF Shaped
<1> HIDE DEF k
<1>2. BelowIn(k)[n] = {x \in live : n \in Above(link, x)}
  BY <1>0, <1>1, UnderIs
<1>3. Forest!Under(k, n) = BelowIn(k)[n]
  <2>1. \A s : Forest!Range(s) = Range(s)
    BY Bridges
  <2> DEFINE one == CHOOSE f : f = [m \in DOMAIN k |-> {m} \cup UNION {f[c] : c \in Forest!Range(k[m])}]
             two == CHOOSE f : f = [m \in DOMAIN k |-> {m} \cup UNION {f[c] : c \in Range(k[m])}]
  <2>2. one = two
    BY <2>1, Zenon
  <2>3. Forest!Under(k, n) = one[n]
    BY Zenon DEF Forest!Under
  <2>4. BelowIn(k)[n] = two[n]
    BY Zenon DEF BelowIn
  <2> HIDE DEF one, two
  <2> QED BY <2>2, <2>3, <2>4, Zenon
<1> QED BY <1>2, <1>3 DEF k

LEMMA RefinesNew ==
  ASSUME RInv, RInv', NEW n \in Node, NEW p \in live \cup {NULL}, mxmlNew(n, p)
  PROVE  Forest!NewNode(n, p) /\ p \in DOMAIN Shape \cup {NULL}
<1> DEFINE grown == [m \in DOMAIN Shape \cup {n} |-> IF m = n THEN << >> ELSE Shape[m]]
<1>1. Idle /\ deleting' = deleting /\ n \notin live
  BY DEF mxmlNew
<1>2. Shape = Kids(link, live) /\ Shape' = Kids(link', live') /\ DOMAIN Shape = live
  BY <1>1, IdleShape
<1>3. Kids(link', live') = IF p = NULL THEN Grown(Kids(link, live), live, n)
                           ELSE Forest!Insert(Grown(Kids(link, live), live, n), p, "after", NULL, n)
  BY NewStep
<1>4. grown = Grown(Kids(link, live), live, n)
  BY <1>2, Zenon DEF Grown
<1>5. Shape' = IF p = NULL THEN grown ELSE Forest!Insert(grown, p, "after", NULL, n)
  <2> HIDE DEF grown
  <2> QED BY <1>2, <1>3, <1>4, Zenon
<1>6. n \notin DOMAIN Shape
  BY <1>1, <1>2
<1>7. Forest!NewNode(n, p)
  BY <1>5, <1>6, Zenon DEF Forest!NewNode, Shape
<1> QED BY <1>2, <1>7

LEMMA RefinesAdd ==
  ASSUME RInv, RInv', NEW n \in live, NEW p \in live, NEW where \in {"before", "after"},
         NEW c \in live \cup {NULL}, mxmlAdd(p, where, c, n)
  PROVE  Forest!AddNode(p, where, c, n) /\ DOMAIN Shape = live
<1>1. Idle /\ deleting' = deleting
  BY DEF mxmlAdd
<1>2. Shape = Kids(link, live) /\ Shape' = Kids(link', live') /\ DOMAIN Shape = live
  BY <1>1, IdleShape
<1>3. Kids(link', live') = Forest!Insert(Kids(link, live), p, where, c, n)
      /\ n \notin Above(link, p)
  BY AddStep
<1>4. p \notin Forest!Under(Shape, n)
  <2>1. Forest!Under(Kids(link, live), n) = {x \in live : n \in Above(link, x)}
    BY UnderForest
  <2> QED BY <1>2, <1>3, <2>1
<1>5. Shape' = Forest!Insert(Shape, p, where, c, n)
  BY <1>2, <1>3, Zenon
<1>6. {p, n} \subseteq DOMAIN Shape
  BY <1>2
<1>7. Forest!AddNode(p, where, c, n)
  BY <1>4, <1>5, <1>6, Zenon DEF Forest!AddNode, Shape
<1> QED BY <1>2, <1>7

LEMMA RefinesRemove ==
  ASSUME RInv, RInv', NEW n \in live, mxmlRemove(n)
  PROVE  Forest!RemoveNode(n)
<1>1. Idle /\ deleting' = deleting /\ link' = Removed(link, n) /\ live' = live
  BY DEF mxmlRemove
<1>2. Shape = Kids(link, live) /\ Shape' = Kids(link', live') /\ DOMAIN Shape = live
  BY <1>1, IdleShape
<1>3. Kids(link', live') = Forest!Detach(Kids(link, live), n)
  BY <1>1, RemovedStep
<1>4. Shape' = Forest!Detach(Shape, n) /\ n \in DOMAIN Shape
  BY <1>2, <1>3
<1> QED BY <1>4, Zenon DEF Forest!RemoveNode, Shape

\* From the call of mxmlDelete on, the node and what is under it are gone.
LEMMA RefinesDelete ==
  ASSUME RInv, RInv', Idle, NEW n \in live, Call(n), live' = live
  PROVE  Forest!DeleteNode(n)
<1> DEFINE k == Kids(link, live)
<1>1. link' = Removed(link, n) /\ deleting' = Append(deleting, n) /\ deleting = << >>
  BY DEF Call, Idle
<1>2. Range(deleting) = {} /\ Range(deleting') = {n}
  <2>1. deleting' = <<n>>
    BY <1>1
  <2>2. Range(<<n>>) = {n}
    BY DEF Range
  <2>3. Range(<< >>) = {}
    BY DEF Range
  <2> QED BY <1>1, <2>1, <2>2, <2>3
<1>3. Shape = Abs(link, live, Range(deleting)) /\ Shape' = Abs(link', live', Range(deleting'))
  BY MappedNow, MappedNext DEF Mapped
<1>4. Shape = k
  BY <1>2, <1>3, IdleAbs
<1>5. /\ Kids(link', live') = Forest!Detach(k, n) /\ Cut(link, link', n)
      /\ link' \in [Node -> Link]
  BY <1>1, RemovedStep
<1>6. DOMAIN k = live
  BY DEF Kids
<1>7. Forest!Under(k, n) = {x \in live : n \in Above(link, x)}
  BY UnderForest
<1> HIDE DEF k
<1>8. {x \in live : Above(link', x) \cap {n} = {}} = DOMAIN k \ Forest!Under(k, n)
  <2>1. NULL \notin Node /\ live \subseteq Node /\ link \in [Node -> Link] /\ n \in Node
    BY Known
  <2>2. \A x \in Node : n \in Above(link', x) <=> n \in Above(link, x)
    BY <1>5, <2>1, AboveAfterCut
  <2> QED BY <1>6, <1>7, <2>1, <2>2
<1>9. Shape' = [x \in DOMAIN k \ Forest!Under(k, n) |-> Forest!Detach(k, n)[x]]
  <2>1. Shape' = [x \in {x \in live : Above(link', x) \cap {n} = {}} |-> Kids(link', live')[x]]
    <3>1. Shape' = Abs(link', live', {n})
      BY <1>2, <1>3
    <3>2. live' = live
      OBVIOUS
    <3> QED BY <3>1, <3>2, Zenon DEF Abs
  <2> QED BY <1>5, <1>8, <2>1, Zenon
<1>10. Shape' = Forest!Without(Shape, n)
  BY <1>4, <1>9, Zenon DEF Forest!Without
<1>11. n \in DOMAIN Shape
  BY <1>4, <1>6
<1> QED BY <1>10, <1>11, Zenon DEF Forest!DeleteNode, Shape

\* The rest of a deletion changes nothing the forest has.
LEMMA StaysWithChild ==
  ASSUME RInv, RInv', DeleteChild
  PROVE  Shape' = Shape
<1> DEFINE n == Last(deleting)
           c == link[n].child
           k == Kids(link, live)
           D == Range(deleting)
<1>1. deleting # << >> /\ c # NULL /\ link' = Removed(link, c) /\ live' = live
      /\ deleting' = Append(deleting, c)
  BY DEF DeleteChild, Call, Idle
<1>0. /\ NULL \notin Node /\ live \in SUBSET Node /\ link \in [Node -> Link] /\ Sound(link, live)
      /\ Shaped(link, live) /\ deleting \in Seq(live)
  BY Known
<1>2. n \in live /\ n \in D
  <2>1. Len(deleting) \in 1 .. Len(deleting) /\ n = deleting[Len(deleting)] /\ n \in live
    BY <1>0, <1>1, FrontOfSequence
  <2>2. DOMAIN deleting = 1 .. Len(deleting)
    BY <1>0, LenProperties
  <2> QED BY <2>1, <2>2 DEF Range
<1>3. c \in live /\ c \in Node /\ link[c].parent = n
  BY <1>0, <1>1, <1>2 DEF Sound, PointsInto, FirstAndLast
<1>4. Range(deleting') = D \cup {c}
  <2>1. deleting \in Seq(live) /\ c \in live
    BY <1>0, <1>3
  <2>2. /\ Append(deleting, c) \in Seq(live) /\ Len(Append(deleting, c)) = Len(deleting) + 1
        /\ \A i \in 1 .. Len(deleting) : Append(deleting, c)[i] = deleting[i]
        /\ Append(deleting, c)[Len(deleting) + 1] = c
    <3> HIDE DEF c
    <3> QED BY <2>1, AppendProperties
  <2> DEFINE m == Len(deleting)
             e == Append(deleting, c)
  <2>3. DOMAIN deleting = 1 .. m /\ m \in Nat /\ DOMAIN e = 1 .. m + 1
    <3>1. DOMAIN deleting = 1 .. Len(deleting) /\ Len(deleting) \in Nat
      BY <2>1, LenProperties
    <3>2. DOMAIN Append(deleting, c) = 1 .. Len(Append(deleting, c))
      BY <2>2, LenProperties
    <3> QED BY <2>2, <3>1, <3>2, Zenon
  <2>4. (\A i \in 1 .. m : e[i] = deleting[i]) /\ e[m + 1] = c
    BY <2>2
  <2> HIDE DEF m, e, c
  <2>5. 1 .. m + 1 = (1 .. m) \cup {m + 1}
    BY <2>3
  <2>6. Range(e) = Range(deleting) \cup {c}
    BY <2>3, <2>4, <2>5 DEF Range
  <2> QED BY <1>1, <2>6 DEF e, c
<1> HIDE DEF n, c
<1>5. /\ Kids(link', live') = Forest!Detach(k, c) /\ Cut(link, link', c)
      /\ link' \in [Node -> Link]
  BY <1>1, <1>3, RemovedStep
<1> HIDE DEF D
<1>6. ASSUME NEW x \in live
      PROVE  Above(link', x) \cap (D \cup {c}) = {} <=> Above(link, x) \cap D = {}
  <2>1. x \in Node
    BY <1>0
  <2>2. /\ c \in Above(link', x) <=> c \in Above(link, x)
        /\ c \notin Above(link, x) => Above(link', x) = Above(link, x)
    BY <1>0, <1>3, <1>5, <2>1, AboveAfterCut
  <2>3. c \in Above(link, x) => n \in Above(link, x)
    <3>1. UpClosed(link, Above(link, x)) /\ n # NULL
      BY <1>0, <1>2, <2>1, AboveIsLeast
    <3> QED BY <1>3, <3>1 DEF UpClosed
  <2> QED BY <1>2, <2>2, <2>3
<1>7. ASSUME NEW x \in live, Above(link, x) \cap D = {} PROVE Kids(link', live')[x] = k[x]
  <2>1. x # n
    BY <1>0, <1>2, <1>7, AboveIsLeast
  <2>2. DOMAIN k = live
    BY DEF Kids
  <2>3. Lists(link, live, k)
    BY <1>0 DEF Shaped
  <2> HIDE DEF k
  <2>4. \A j \in 1 .. Len(k[x]) : k[x][j] # c
    <3>1. Listed(link, x, k[x])
      BY <2>3 DEF Lists
    <3> QED BY <1>3, <2>1, <3>1 DEF Listed
  <2>5. RemoveFirst(k[x], c) = k[x]
    BY <2>4, RemovedFirst
  <2>6. Forest!Detach(k, c)[x] = Forest!RemoveFirst(k[x], c)
    BY <2>2, Zenon DEF Forest!Detach
  <2> QED BY <1>5, <2>5, <2>6, Bridges, Zenon
<1>8. Shape = Abs(link, live, D) /\ Shape' = Abs(link', live', D \cup {c})
  BY <1>4, MappedNow, MappedNext DEF Mapped, D
<1>9. Abs(link', live, D \cup {c}) = Abs(link, live, D)
  <2>1. {x \in live : Above(link', x) \cap (D \cup {c}) = {}} = {x \in live : Above(link, x) \cap D = {}}
    BY <1>6
  <2>2. \A x \in {x \in live : Above(link, x) \cap D = {}} : Kids(link', live)[x] = Kids(link, live)[x]
    BY <1>1, <1>7
  <2> QED BY <2>1, <2>2, Zenon DEF Abs
<1> QED BY <1>1, <1>8, <1>9

LEMMA StaysWithFree ==
  ASSUME RInv, RInv', FreeNode
  PROVE  Shape' = Shape
<1> DEFINE n == Last(deleting)
           D == Range(deleting)
           E == Range(deleting')
<1>1. deleting # << >> /\ deleting' = Front(deleting) /\ live' = live \ {n}
  BY DEF FreeNode, Idle
<1>0. /\ NULL \notin Node /\ live \in SUBSET Node /\ link \in [Node -> Link] /\ Sound(link, live)
      /\ Shaped(link, live) /\ deleting \in Seq(live)
  BY Known
<1>2. n \in live /\ D = E \cup {n}
  <2> DEFINE m == Len(deleting)
             e == Front(deleting)
  <2>1. /\ m \in Nat /\ m > 0 /\ e \in Seq(live) /\ Len(e) = m - 1
        /\ \A i \in 1 .. m - 1 : e[i] = deleting[i]
        /\ n \in live /\ n = deleting[m]
    BY <1>0, <1>1, FrontOfSequence
  <2>2. DOMAIN deleting = 1 .. m
    BY <1>0, LenProperties
  <2>3. DOMAIN e = 1 .. m - 1
    <3>1. DOMAIN e = 1 .. Len(e)
      BY <2>1, LenProperties
    <3> QED BY <2>1, <3>1, Zenon
  <2> HIDE DEF m, e, n
  <2>4. 1 .. m = (1 .. m - 1) \cup {m}
    BY <2>1
  <2>5. Range(deleting) = Range(e) \cup {n}
    BY <2>1, <2>2, <2>3, <2>4 DEF Range
  <2> QED BY <1>1, <2>1, <2>5 DEF e
<1>3. /\ \A x \in live' : Kids(link', live')[x] = Kids(link, live)[x]
      /\ SameParents(link, link') /\ Childless(link, live, n)
  <2>1. IInv'
    BY DEF RInv
  <2> QED BY <2>1, FreeStep
<1> HIDE DEF n, D, E
<1>4. \A x \in Node : Above(link', x) = Above(link, x)
  BY <1>0, <1>3, AboveSame
<1>5. ASSUME NEW x \in live, x # n PROVE n \notin Above(link, x)
  <2> SUFFICES ASSUME n \in Above(link, x) PROVE FALSE
    OBVIOUS
  <2>1. x \in Node
    BY <1>0
  <2>2. PICK c \in Above(link, x) : link[c].parent = n
    BY <1>0, <1>5, <2>1, ThroughChild
  <2>3. Above(link, x) \subseteq live
    <3>1. live \in SUBSET Node /\ x \in live /\ UpClosed(link, live)
      BY <1>0 DEF UpClosed, Sound, PointsInto
    <3> QED BY <1>0, <2>1, <3>1, AboveIsLeast
  <2> QED BY <1>3, <2>2, <2>3 DEF Childless
<1>6. n \in Above(link, n)
  BY <1>0, <1>2, AboveIsLeast
<1>7. {x \in live' : Above(link', x) \cap E = {}} = {x \in live : Above(link, x) \cap D = {}}
  <2>1. ASSUME NEW x \in live' PROVE x \in live /\ (Above(link', x) \cap E = {} <=> Above(link, x) \cap D = {})
    <3>1. x \in live /\ x # n /\ x \in Node
      BY <1>0, <1>1, <2>1
    <3> QED BY <1>2, <1>4, <1>5, <3>1
  <2>2. ASSUME NEW x \in live, Above(link, x) \cap D = {} PROVE x \in live'
    BY <1>1, <1>2, <1>6, <2>2
  <2> QED BY <2>1, <2>2
<1>8. Shape = Abs(link, live, D) /\ Shape' = Abs(link', live', E)
  BY MappedNow, MappedNext DEF Mapped, D, E
<1>9. Abs(link', live', E) = Abs(link, live, D)
  <2>1. \A x \in {x \in live' : Above(link', x) \cap E = {}} : Kids(link', live')[x] = Kids(link, live)[x]
    BY <1>3
  <2> QED BY <1>7, <2>1, Zenon DEF Abs
<1> QED BY <1>8, <1>9

LEMMA ShapedAtFirst == TreeInit => RInv /\ Forest!Init
<1> SUFFICES ASSUME TreeInit PROVE RInv /\ Forest!Init
  OBVIOUS
<1>1. live = {} /\ link = [n \in Node |-> Alone]
  BY DEF TreeInit
<1>2. Blank(link, live)
  BY <1>1 DEF Blank
<1>3. Lists(link, live, Kids(link, live))
  <2>1. Kids(link, live) \in [live -> Seq(live)]
    BY <1>1 DEF Kids
  <2> QED BY <1>1, <2>1 DEF Lists
<1>4. Levels(link, live, [n \in Node |-> 0], 0)
  BY <1>1 DEF Levels
<1>5. RInv
  BY <1>2, <1>3, <1>4, InitInvariant DEF RInv, Shaped
<1>6. Forest!Init
  <2>1. Kept = {}
    BY <1>1 DEF Kept
  <2>2. [n \in Kept |-> Children(n)] \in [{} -> {}]
    BY <2>1
  <2>3. Forest!None \in [{} -> {}]
    BY <2>2 DEF Forest!None
  <2>4. \A f, g \in [{} -> {}] : f = g
    OBVIOUS
  <2>5. [n \in Kept |-> Children(n)] = Forest!None
    BY <2>2, <2>3, <2>4, Zenon
  <2> QED BY <2>5, Zenon DEF Forest!Init
<1> QED BY <1>5, <1>6

\* At every moment the pointers make a forest: each node is once in the list of
\* its parent, and the way up from it ends (mxml-node.c:62-277, 626-683).
THEOREM TreeShape == TreeSpec => []RInv
<1>1. TreeInit => RInv
  BY ShapedAtFirst
<1> QED BY <1>1, ShapedKept, PTL DEF TreeSpec

LEMMA NextRefines == RInv /\ RInv' /\ [TreeNext]_tree => Forest!Next \/ Shape' = Shape
<1> SUFFICES ASSUME RInv, RInv', [TreeNext]_tree PROVE Forest!Next \/ Shape' = Shape
  OBVIOUS
<1>0. live \subseteq Node
  BY Known
<1>1. ASSUME NEW n \in Node, NEW p \in live \cup {NULL}, mxmlNew(n, p) PROVE Forest!Next
  <2>1. Forest!NewNode(n, p) /\ p \in DOMAIN Shape \cup {NULL}
    BY <1>1, RefinesNew
  <2> QED BY <2>1, Zenon DEF Forest!Next, Shape
<1>2. ASSUME NEW n \in live, NEW p \in live, NEW where \in {"before", "after"},
             NEW c \in live \cup {NULL}, mxmlAdd(p, where, c, n)
      PROVE  Forest!Next
  <2>1. Forest!AddNode(p, where, c, n) /\ DOMAIN Shape = live
    BY <1>2, RefinesAdd
  <2>2. n \in Node /\ p \in DOMAIN Shape /\ c \in DOMAIN Shape \cup {NULL}
    BY <1>0, <2>1
  <2> QED BY <2>1, <2>2, Zenon DEF Forest!Next, Shape
<1>3. ASSUME NEW n \in live, mxmlRemove(n) PROVE Forest!Next
  <2>1. Forest!RemoveNode(n) /\ n \in Node
    BY <1>0, <1>3, RefinesRemove
  <2> QED BY <2>1, Zenon DEF Forest!Next
<1>4. ASSUME NEW n \in live, Idle, Call(n), live' = live PROVE Forest!Next
  <2>1. Forest!DeleteNode(n) /\ n \in Node
    BY <1>0, <1>4, RefinesDelete
  <2> QED BY <2>1, Zenon DEF Forest!Next
<1>5. ASSUME UNCHANGED <<live, link, deleting>> PROVE Shape' = Shape
  <2>1. /\ Shape = Abs(link, live, Range(deleting))
        /\ Shape' = Abs(link', live', Range(deleting'))
    BY MappedNow, MappedNext DEF Mapped
  <2> QED BY <1>5, <2>1
<1>6. ASSUME NEW n \in live, mxmlRetain(n) \/ mxmlDelete(n) \/ mxmlRelease(n)
      PROVE  Forest!Next \/ Shape' = Shape
  <2>1. \/ UNCHANGED <<live, link, deleting>>
        \/ Idle /\ Call(n) /\ live' = live
    BY <1>6 DEF mxmlRetain, mxmlDelete, mxmlRelease
  <2> QED BY <1>4, <1>5, <2>1
<1>7. ASSUME DeleteChild \/ FreeNode PROVE Shape' = Shape
  BY <1>7, StaysWithChild, StaysWithFree
<1>8. ASSUME UNCHANGED tree PROVE Shape' = Shape
  BY <1>5, <1>8 DEF tree
<1> QED BY <1>1, <1>2, <1>3, <1>6, <1>7, <1>8 DEF TreeNext, Client, Deletion

\* A call of mxmlAdd puts the node where it says, whatever the nodes around it.
Adds ==
  \A n \in live \cap Held, where \in {"before", "after"}, c \in live \cup {NULL} :
    LET p == link'[n].parent IN
    p # NULL /\ mxmlAdd(p, where, c, n) => Forest!AddNode(p, where, c, n)

LEMMA AddsRefine == RInv /\ RInv' => Adds
<1> SUFFICES ASSUME RInv, RInv', NEW n \in live, NEW where \in {"before", "after"},
                    NEW c \in live \cup {NULL}, NEW p, p = link'[n].parent, p # NULL,
                    mxmlAdd(p, where, c, n)
             PROVE  Forest!AddNode(p, where, c, n)
  BY Zenon DEF Adds
<1>1. live' = live
  BY DEF mxmlAdd
<1>2. PointsInto(link', live')
  BY DEF RInv, IInv, Pointers, Sound
<1>3. p \in live
  BY <1>1, <1>2 DEF PointsInto
<1> QED BY <1>3, RefinesAdd

\* The five pointers implement a forest of sequences of children: every call
\* does to it, at once, what OrderedTree says, a node is added in the place the
\* call names, and a deletion takes the node and all that is under it and
\* nothing else (mxml-node.c:62-277).
THEOREM TreeImplementsForest == TreeSpec => ImplementsOrderedTree
<1>1. TreeInit => Forest!Init
  BY ShapedAtFirst
<1>2. RInv /\ RInv' /\ [TreeNext]_tree => [Forest!Next]_([n \in Kept |-> Children(n)])
  BY NextRefines DEF Shape
<1>3. RInv /\ RInv' => Adds
  BY AddsRefine
<1> QED BY <1>1, <1>2, <1>3, TreeShape, PTL DEF TreeSpec, ImplementsOrderedTree, Forest!Spec, Adds

-----------------------------------------------------------------------------
(* Searching.                                                              *)

\* The first of a sequence, known by what comes before it.
LEMMA FirstIs ==
  ASSUME NEW S, NEW s \in Seq(S), NEW hits
  PROVE  /\ (\A i \in 1 .. Len(s) : s[i] \notin hits) => FirstOf(s, hits) = NULL
         /\ \A i \in 1 .. Len(s) :
              s[i] \in hits /\ (\A j \in 1 .. i - 1 : s[j] \notin hits) => FirstOf(s, hits) = s[i]
<1> DEFINE at == {i \in DOMAIN s : s[i] \in hits}
<1>1. Len(s) \in Nat /\ DOMAIN s = 1 .. Len(s)
  OBVIOUS
<1>2. FirstOf(s, hits) = IF at = {} THEN NULL ELSE s[Min(at)]
  BY DEF FirstOf
<1>3. ASSUME \A i \in 1 .. Len(s) : s[i] \notin hits PROVE FirstOf(s, hits) = NULL
  <2>1. at = {}
    BY <1>1, <1>3
  <2> QED BY <1>2, <2>1
<1>4. ASSUME NEW i \in 1 .. Len(s), s[i] \in hits, \A j \in 1 .. i - 1 : s[j] \notin hits
      PROVE  FirstOf(s, hits) = s[i]
  <2>1. i \in at /\ at \subseteq Nat
    BY <1>1, <1>4
  <2>2. ASSUME NEW j \in at PROVE i <= j
    <3>1. j \in 1 .. Len(s) /\ s[j] \in hits
      BY <1>1
    <3>2. j \notin 1 .. i - 1
      BY <1>4, <3>1
    <3> QED BY <1>1, <3>1, <3>2
  <2> HIDE DEF at
  <2>3. Min(at) = i
    <3>1. \A x \in at : (\A y \in at : x <= y) => x = i
      BY <2>1, <2>2
    <3> QED BY <2>1, <2>2, <3>1 DEF Min
  <2> QED BY <1>2, <2>1, <2>3
<1> QED BY <1>3, <1>4

\* What find makes of the elements of s, when it goes on to the next one from
\* each that is not looked for.
GoesOn(find, s, hits) ==
  \A i \in 1 .. Len(s) :
    find[s[i]] = IF s[i] \in hits THEN s[i] ELSE IF i = Len(s) THEN NULL ELSE find[s[i + 1]]

FindsFirst(find, s, hits) ==
  \A i \in 0 .. Len(s) :
    (IF i = Len(s) THEN NULL ELSE find[s[i + 1]]) = FirstOf(SubSeq(s, i + 1, Len(s)), hits)

LEMMA FoundFirst ==
  ASSUME NEW S, NEW s \in Seq(S), NEW hits, NEW find, GoesOn(find, s, hits)
  PROVE  FindsFirst(find, s, hits)
<1> DEFINE n == Len(s)
           On(i) == IF i = n THEN NULL ELSE find[s[i + 1]]
           Is(i, v) == \/ v = NULL /\ \A j \in i + 1 .. n : s[j] \notin hits
                       \/ \E j \in i + 1 .. n : /\ s[j] = v /\ s[j] \in hits
                                                /\ \A a \in i + 1 .. j - 1 : s[a] \notin hits
           T == {d \in Nat : d <= n => Is(n - d, On(n - d))}
<1>1. n \in Nat
  OBVIOUS
<1>2. \A i \in 0 .. n - 1 : On(i) = IF s[i + 1] \in hits THEN s[i + 1] ELSE On(i + 1)
  BY DEF GoesOn
<1>3. On(n) = NULL
  OBVIOUS
<1>s. \A j \in 1 .. n : s[j] \in S
  OBVIOUS
<1> HIDE DEF n, On
<1>4. 0 \in T
  <2>1. n - 0 = n /\ n + 1 .. n = {}
    BY <1>1
  <2> QED BY <1>3, <2>1
<1>5. ASSUME NEW d \in Nat, d \in T PROVE d + 1 \in T
  <2> DEFINE i == n - (d + 1)
  <2> SUFFICES ASSUME d + 1 <= n PROVE Is(i, On(i))
    OBVIOUS
  <2>1. i \in 0 .. n - 1 /\ i + 1 = n - d /\ d <= n
    BY <1>1
  <2>2. Is(i + 1, On(i + 1))
    BY <1>5, <2>1
  <2> HIDE DEF i
  <2>3. CASE s[i + 1] \in hits
    <3>1. On(i) = s[i + 1]
      BY <1>2, <2>1, <2>3
    <3>2. i + 1 \in i + 1 .. n /\ i + 1 .. (i + 1) - 1 = {}
      BY <1>1, <2>1
    <3> QED BY <2>3, <3>1, <3>2
  <2>4. CASE s[i + 1] \notin hits
    <3>1. On(i) = On(i + 1)
      BY <1>2, <2>1, <2>4
    <3>2. \A j \in i + 1 .. n : j = i + 1 \/ j \in (i + 1) + 1 .. n
      BY <1>1, <2>1
    <3>3. CASE On(i + 1) = NULL /\ \A j \in (i + 1) + 1 .. n : s[j] \notin hits
      BY <2>4, <3>1, <3>2, <3>3
    <3>4. ASSUME NEW j \in (i + 1) + 1 .. n, s[j] = On(i + 1), s[j] \in hits,
                 \A a \in (i + 1) + 1 .. j - 1 : s[a] \notin hits
          PROVE  Is(i, On(i))
      <4>1. j \in i + 1 .. n
        BY <1>1, <2>1
      <4>2. \A a \in i + 1 .. j - 1 : a = i + 1 \/ a \in (i + 1) + 1 .. j - 1
        BY <1>1, <2>1
      <4> QED BY <2>4, <3>1, <3>4, <4>1, <4>2
    <3> QED BY <2>2, <3>3, <3>4
  <2> QED BY <2>3, <2>4
<1> HIDE DEF T
<1>6. ASSUME NEW i \in 0 .. n PROVE Is(i, On(i))
  <2>1. n - i \in T /\ n - i <= n /\ n - (n - i) = i
    BY <1>1, <1>4, <1>5, AllNumbers
  <2> QED BY <2>1 DEF T
<1>7. ASSUME NEW i \in 0 .. n PROVE On(i) = FirstOf(SubSeq(s, i + 1, n), hits)
  <2> DEFINE t == SubSeq(s, i + 1, n)
  <2>1. t \in Seq(S) /\ Len(t) = n - i /\ \A j \in 1 .. n - i : t[j] = s[i + j]
    <3>1. i + 1 \in Int /\ n \in Int /\ \A j \in (i + 1) .. n : s[j] \in S
      BY <1>1, <1>s
    <3>2. /\ t \in Seq(S) /\ Len(t) = IF i + 1 <= n THEN n - (i + 1) + 1 ELSE 0
          /\ \A j \in 1 .. n - (i + 1) + 1 : t[j] = s[(i + 1) + j - 1]
      BY <3>1, SubSeqProperties
    <3> HIDE DEF t
    <3>3. /\ (IF i + 1 <= n THEN n - (i + 1) + 1 ELSE 0) = n - i /\ n - (i + 1) + 1 = n - i
          /\ \A j \in 1 .. n - i : (i + 1) + j - 1 = i + j
      BY <1>1
    <3> QED BY <3>2, <3>3
  <2> HIDE DEF t
  <2>2. CASE On(i) = NULL /\ \A j \in i + 1 .. n : s[j] \notin hits
    <3>1. ASSUME NEW j \in 1 .. Len(t) PROVE t[j] \notin hits
      <4>1. j \in 1 .. n - i /\ i + j \in i + 1 .. n
        BY <1>1, <2>1
      <4> QED BY <2>1, <2>2, <4>1
    <3>2. FirstOf(t, hits) = NULL
      BY <2>1, <3>1, FirstIs
    <3> QED BY <2>2, <3>2 DEF t
  <2>3. ASSUME NEW j \in i + 1 .. n, s[j] = On(i), s[j] \in hits, \A a \in i + 1 .. j - 1 : s[a] \notin hits
        PROVE  On(i) = FirstOf(t, hits)
    <3>1. j - i \in 1 .. n - i /\ i + (j - i) = j
      BY <1>1
    <3>2. t[j - i] = s[j] /\ j - i \in 1 .. Len(t)
      BY <2>1, <3>1
    <3>3. ASSUME NEW a \in 1 .. (j - i) - 1 PROVE t[a] \notin hits
      <4>1. a \in 1 .. n - i /\ i + a \in i + 1 .. j - 1
        BY <1>1
      <4> QED BY <2>1, <2>3, <4>1
    <3>4. FirstOf(t, hits) = t[j - i]
      BY <2>1, <2>3, <3>2, <3>3, FirstIs
    <3> QED BY <2>3, <3>2, <3>4
  <2> QED BY <1>6, <2>2, <2>3 DEF t
<1> QED BY <1>7 DEF n, On, FindsFirst

\* The sequences of children of all blocks, and levels that parents have below
\* their children.
Family(kids, depth, M) ==
  /\ M \in Nat /\ depth \in [Node -> Nat] /\ kids \in [Node -> Seq(Node)]
  /\ \A m \in Node : depth[m] <= M /\ Listed(link, m, kids[m])
  /\ \A m \in Node :
       IF link[m].parent = NULL THEN link[m].prev = NULL /\ link[m].next = NULL
       ELSE /\ link[m].parent \in Node /\ depth[link[m].parent] < depth[m]
            /\ \E i \in 1 .. Len(kids[link[m].parent]) : kids[link[m].parent][i] = m

LEMMA AFamily ==
  ASSUME RInv
  PROVE  \E depth, M : Family([p \in Node |-> Children(p)], depth, M)
<1>0. /\ NULL \notin Node /\ live \in SUBSET Node /\ link \in [Node -> Link] /\ Sound(link, live)
      /\ Blank(link, live) /\ Lists(link, live, Kids(link, live))
  BY Known DEF Shaped
<1>1. PICK h, M : Levels(link, live, h, M)
  BY Known DEF Shaped
<1> DEFINE k == Kids(link, live)
           kids == [p \in Node |-> Children(p)]
           depth == [m \in Node |-> IF m \in live THEN h[m] ELSE 0]
<1>2. \A p \in live : Children(p) = k[p] /\ k[p] \in Seq(live) /\ Listed(link, p, k[p])
  <2>1. \A p \in live : Children(p) = From(link)[link[p].child]
    BY Zenon DEF Children, From
  <2>2. \A p \in live : k[p] = From(link)[link[p].child]
    BY Zenon DEF Kids
  <2>3. \A p \in live : k[p] \in Seq(live) /\ Listed(link, p, k[p])
    <3> HIDE DEF k
    <3> QED BY <1>0 DEF Lists, k
  <2> HIDE DEF k
  <2> QED BY <2>1, <2>2, <2>3
<1>3. ASSUME NEW p \in Node \ live PROVE Children(p) = << >> /\ Listed(link, p, << >>)
  <2>1. link[p] = Alone
    BY <1>0 DEF Blank
  <2>2. Children(p) = From(link)[NULL]
    <3>1. link[p].child = NULL
      BY <2>1 DEF Alone
    <3>2. Children(p) = From(link)[link[p].child]
      BY Zenon DEF Children, From
    <3> QED BY <3>1, <3>2
  <2>3. From(link)[NULL] = << >>
    BY <1>0, FromSteps DEF Sound
  <2>4. Len(<< >>) = 0 /\ 1 .. 0 = {}
    OBVIOUS
  <2>5. Listed(link, p, << >>)
    BY <2>1, <2>4 DEF Listed, Alone
  <2> QED BY <2>2, <2>3, <2>5
<1>4. ASSUME NEW p \in Node PROVE kids[p] \in Seq(Node) /\ Listed(link, p, kids[p])
  <2>1. kids[p] = Children(p) /\ live \subseteq Node
    BY <1>0
  <2> HIDE DEF kids
  <2>2. CASE p \in live
    <3>1. k[p] \in Seq(live) /\ Children(p) = k[p] /\ Listed(link, p, k[p])
      BY <1>2, <2>2
    <3>2. k[p] \in Seq(Node)
      <4> HIDE DEF k
      <4> QED BY <2>1, <3>1
    <3> QED BY <2>1, <3>1, <3>2, Zenon
  <2>3. CASE p \notin live
    <3>1. Children(p) = << >> /\ Listed(link, p, << >>)
      BY <1>3, <2>3
    <3> QED BY <2>1, <3>1
  <2> QED BY <2>2, <2>3
<1>5. M \in Nat /\ \A m \in Node : depth[m] \in Nat /\ depth[m] <= M
  BY <1>1 DEF Levels
<1>6. ASSUME NEW m \in Node, link[m].parent = NULL PROVE link[m].prev = NULL /\ link[m].next = NULL
  <2>1. CASE m \in live
    BY <1>0, <1>6, <2>1 DEF Sound, Siblings
  <2>2. CASE m \notin live
    BY <1>0, <2>2 DEF Blank, Alone
  <2> QED BY <2>1, <2>2
<1>7. ASSUME NEW m \in Node, link[m].parent # NULL
      PROVE  /\ link[m].parent \in Node /\ depth[link[m].parent] < depth[m]
             /\ \E i \in 1 .. Len(kids[link[m].parent]) : kids[link[m].parent][i] = m
  <2>1. m \in live
    BY <1>0, <1>7 DEF Blank, Alone
  <2> DEFINE p == link[m].parent
  <2>2. p \in live
    BY <1>0, <1>7, <2>1 DEF Sound, PointsInto
  <2>3. p \in Node /\ kids[p] = k[p]
    BY <1>0, <1>2, <2>2
  <2>4. depth[p] < depth[m]
    BY <1>0, <1>1, <1>7, <2>1, <2>2 DEF Levels
  <2>5. \E i \in 1 .. Len(k[p]) : k[p][i] = m
    <3> HIDE DEF k
    <3> QED BY <1>0, <1>7, <2>1 DEF Lists, k
  <2> HIDE DEF kids, depth, k
  <2> QED BY <2>3, <2>4, <2>5
<1>8. depth \in [Node -> Nat] /\ kids \in [Node -> Seq(Node)]
  BY <1>4, <1>5
<1>9. Family(kids, depth, M)
  <2> HIDE DEF kids, depth
  <2> QED BY <1>4, <1>5, <1>6, <1>7, <1>8 DEF Family
<1> QED BY <1>9

\* The children of a family, one by one.
LEMMA ChildrenIn ==
  ASSUME NULL \notin Node, NEW kids, NEW depth, NEW M, Family(kids, depth, M), NEW p \in Node
  PROVE  /\ kids[p] \in Seq(Node) /\ Len(kids[p]) \in Nat
         /\ link[p].child = IF Len(kids[p]) = 0 THEN NULL ELSE kids[p][1]
         /\ link[p].last_child = IF Len(kids[p]) = 0 THEN NULL ELSE kids[p][Len(kids[p])]
         /\ \A i \in 1 .. Len(kids[p]) :
              /\ kids[p][i] \in Node /\ link[kids[p][i]].parent = p /\ depth[p] < depth[kids[p][i]]
              /\ link[kids[p][i]].prev = IF i = 1 THEN NULL ELSE kids[p][i - 1]
              /\ link[kids[p][i]].next = IF i = Len(kids[p]) THEN NULL ELSE kids[p][i + 1]
         /\ \A i, j \in 1 .. Len(kids[p]) : kids[p][i] = kids[p][j] => i = j
<1>1. kids[p] \in Seq(Node) /\ Listed(link, p, kids[p])
  BY DEF Family
<1>2. Len(kids[p]) \in Nat /\ \A i \in 1 .. Len(kids[p]) : kids[p][i] \in Node
  BY <1>1, LenProperties
<1>3. \A i \in 1 .. Len(kids[p]) : link[kids[p][i]].parent = p
  BY <1>1 DEF Listed
<1>4. ASSUME NEW i \in 1 .. Len(kids[p]) PROVE depth[p] < depth[kids[p][i]]
  <2>1. kids[p][i] \in Node /\ link[kids[p][i]].parent = p /\ p # NULL
    BY <1>2, <1>3
  <2> QED BY <2>1 DEF Family
<1> QED BY <1>1, <1>2, <1>3, <1>4, Zenon DEF Listed

\* What the children of m contribute to its document order, and the length of
\* what the first i of them do.
Parts(kids, order, m) == [i \in 1 .. Len(kids[m]) |-> order[kids[m][i]]]
Skip(kids, order, m, i) == Len(Joined(Parts(kids, order, m), i))

InDocumentOrder(kids, order) ==
  /\ order \in [Node -> Seq(Node)]
  /\ \A m \in Node : order[m] = <<m>> \o Joined(Parts(kids, order, m), Len(kids[m]))

\* The order function of InOrder.
OrderFrom == CHOOSE f : f = [m \in Node |-> <<m>> \o FlattenSeq([i \in DOMAIN Children(m) |-> f[Children(m)[i]]])]

LEMMA OrderIs ==
  ASSUME NULL \notin Node, NEW kids, NEW depth, NEW M, Family(kids, depth, M),
         \A p \in Node : kids[p] = Children(p)
  PROVE  InDocumentOrder(kids, OrderFrom)
<1> DEFINE V == Seq(Node)
           mu == [m \in Node |-> M - depth[m]]
           Body(f, m) == <<m>> \o Joined(Parts(kids, f, m), Len(kids[m]))
           G == [m \in Node |-> [f \in [Node -> V] |-> Body(f, m)]]
           Step(f) == [m \in Node |-> <<m>> \o FlattenSeq([i \in DOMAIN Children(m) |-> f[Children(m)[i]]])]
<1>1. /\ M \in Nat /\ depth \in [Node -> Nat] /\ kids \in [Node -> Seq(Node)]
      /\ \A m \in Node : depth[m] <= M
  BY DEF Family
<1>2. mu \in [Node -> Nat] /\ \A m \in Node : mu[m] = M - depth[m]
  BY <1>1
<1>3. ASSUME NEW m \in Node
      PROVE  /\ Len(kids[m]) \in Nat /\ DOMAIN kids[m] = 1 .. Len(kids[m])
             /\ \A i \in 1 .. Len(kids[m]) : kids[m][i] \in Node /\ depth[m] < depth[kids[m][i]]
  <2>1. kids[m] \in Seq(Node)
    BY <1>1
  <2> QED BY <2>1, ChildrenIn
<1>4. ASSUME NEW m \in Node, NEW f \in [Node -> V]
      PROVE  Body(f, m) \in V /\ Parts(kids, f, m) \in [1 .. Len(kids[m]) -> V]
  <2>1. Parts(kids, f, m) \in [1 .. Len(kids[m]) -> V]
    BY <1>3 DEF Parts
  <2>2. Len(kids[m]) \in 0 .. Len(kids[m]) /\ Len(kids[m]) \in Nat
    BY <1>3
  <2>3. Joined(Parts(kids, f, m), Len(kids[m])) \in V
    BY <2>1, <2>2, FlattenNext
  <2>4. <<m>> \in V
    OBVIOUS
  <2> HIDE DEF V
  <2> QED BY <2>1, <2>3, <2>4, ConcatProperties DEF V
<1>5. ASSUME NEW m \in Node, NEW f PROVE Step(f)[m] = Body(f, m)
  <2>1. Step(f)[m] = <<m>> \o FlattenSeq([i \in 1 .. Len(kids[m]) |-> f[kids[m][i]]])
    <3>1. Children(m) = kids[m] /\ DOMAIN kids[m] = 1 .. Len(kids[m])
      BY <1>3
    <3>2. Step(f)[m] = <<m>> \o FlattenSeq([i \in DOMAIN Children(m) |-> f[Children(m)[i]]])
      OBVIOUS
    <3> HIDE DEF Step
    <3> QED BY <3>1, <3>2, Zenon
  <2>2. [i \in 1 .. Len(kids[m]) |-> Parts(kids, f, m)[i]] = [i \in 1 .. Len(kids[m]) |-> f[kids[m][i]]]
    BY DEF Parts
  <2> QED BY <2>1, <2>2, Zenon DEF Joined
<1>6. V # {}
  <2>1. << >> \in V
    OBVIOUS
  <2> QED BY <2>1
<1> HIDE DEF V, Body
<1>7. G \in [Node -> [[Node -> V] -> V]]
  BY <1>4
<1>8. Smaller(Node, V, mu, G)
  <2> SUFFICES ASSUME NEW m \in Node, NEW f \in [Node -> V], NEW g \in [Node -> V],
                      \A x \in Node : mu[x] < mu[m] => f[x] = g[x]
               PROVE  G[m][f] = G[m][g]
    BY DEF Smaller
  <2>1. ASSUME NEW i \in 1 .. Len(kids[m]) PROVE f[kids[m][i]] = g[kids[m][i]]
    <3>1. kids[m][i] \in Node /\ depth[m] < depth[kids[m][i]]
      BY <1>3
    <3>2. depth[m] \in Nat /\ depth[kids[m][i]] \in Nat
      BY <1>1, <3>1
    <3>3. mu[kids[m][i]] = M - depth[kids[m][i]] /\ mu[m] = M - depth[m] /\ M \in Nat
      BY <1>1, <3>1
    <3>4. mu[kids[m][i]] < mu[m]
      <4> HIDE DEF mu
      <4> QED BY <3>1, <3>2, <3>3
    <3> QED BY <3>1, <3>4
  <2>2. Parts(kids, f, m) = Parts(kids, g, m)
    BY <2>1 DEF Parts
  <2>3. Body(f, m) = Body(g, m)
    BY <2>2 DEF Body
  <2> QED BY <2>3
<1>9. PICK f \in [Node -> V] : \A m \in Node : f[m] = G[m][f]
  <2> HIDE DEF mu, G
  <2>1. Descending(Node, V, mu, G)
    BY <1>2, <1>6, <1>7, <1>8 DEF Descending
  <2>2. PICK f : Satisfies(f, Node, V, G)
    BY <2>1, Recursion, Zenon
  <2> QED BY <2>2 DEF Satisfies
<1>10. f = Step(f)
  <2>1. \A m \in Node : f[m] = Step(f)[m]
    BY <1>5, <1>9
  <2>2. Step(f) = [m \in Node |-> Step(f)[m]] /\ f = [m \in Node |-> f[m]]
    BY <1>9
  <2> HIDE DEF Step
  <2> QED BY <2>1, <2>2, Zenon
<1> DEFINE o == OrderFrom
<1>11. o = Step(o)
  <2>1. \E g : g = Step(g)
    <3> HIDE DEF Step
    <3> QED BY <1>10
  <2>2. o = CHOOSE g : g = Step(g)
    BY Zenon DEF OrderFrom
  <2> HIDE DEF Step, o
  <2> QED BY <2>1, <2>2, Zenon
<1> HIDE DEF o
<1>12. \A m \in Node : o[m] = Body(o, m)
  <2>1. \A m \in Node : o[m] = Step(o)[m]
    <3> HIDE DEF Step
    <3> QED BY <1>11
  <2> HIDE DEF Step
  <2> QED BY <1>5, <2>1
<1> DEFINE T == {d \in Nat : \A m \in Node : M - depth[m] < d => o[m] \in V}
<1>13. 0 \in T
  BY <1>1
<1>14. ASSUME NEW d \in Nat, d \in T PROVE d + 1 \in T
  <2> SUFFICES ASSUME NEW m \in Node, M - depth[m] < d + 1 PROVE o[m] \in V
    OBVIOUS
  <2> DEFINE g == [x \in Node |-> IF M - depth[x] < d THEN o[x] ELSE << >>]
  <2>1. g \in [Node -> V]
    <3>1. << >> \in V
      BY DEF V
    <3> QED BY <1>14, <3>1
  <2>2. ASSUME NEW i \in 1 .. Len(kids[m]) PROVE g[kids[m][i]] = o[kids[m][i]]
    <3>1. kids[m][i] \in Node /\ depth[m] < depth[kids[m][i]]
      BY <1>3
    <3>2. depth[m] \in Nat /\ depth[kids[m][i]] \in Nat
      BY <1>1, <3>1
    <3>3. M - depth[kids[m][i]] < d
      BY <1>1, <3>1, <3>2
    <3> QED BY <3>1, <3>3
  <2>3. Parts(kids, o, m) = Parts(kids, g, m)
    <3> HIDE DEF g
    <3> QED BY <2>2 DEF Parts
  <2>4. o[m] = Body(g, m)
    BY <1>12, <2>3 DEF Body
  <2> HIDE DEF g
  <2> QED BY <1>4, <2>1, <2>4
<1> HIDE DEF T
<1>15. Nat \subseteq T
  BY <1>13, <1>14, AllNumbers
<1>16. ASSUME NEW m \in Node PROVE o[m] \in V
  <2>1. M - depth[m] \in Nat
    BY <1>2
  <2>2. M - depth[m] + 1 \in T
    BY <1>15, <2>1
  <2>3. M - depth[m] < M - depth[m] + 1
    BY <2>1
  <2> QED BY <2>2, <2>3 DEF T
<1>17. o = [m \in Node |-> o[m]]
  <2>1. Step(o) = [m \in Node |-> Step(o)[m]]
    OBVIOUS
  <2> HIDE DEF Step
  <2> QED BY <1>11, <2>1
<1>18. o \in [Node -> V]
  BY <1>16, <1>17
<1> QED BY <1>12, <1>18 DEF Body, V, o, InDocumentOrder

\* The order of a node is the node and the orders of its children, one after
\* another.
LEMMA OrderOf ==
  ASSUME NULL \notin Node, NEW kids, NEW depth, NEW M, Family(kids, depth, M),
         NEW order, InDocumentOrder(kids, order), NEW m \in Node
  PROVE  /\ order[m] \in Seq(Node) /\ order[m][1] = m
         /\ \A i \in 0 .. Len(kids[m]) :
              /\ Skip(kids, order, m, i) \in Nat
              /\ Skip(kids, order, m, i) <= Skip(kids, order, m, Len(kids[m]))
         /\ Skip(kids, order, m, 0) = 0
         /\ Len(order[m]) = 1 + Skip(kids, order, m, Len(kids[m]))
         /\ \A i \in 1 .. Len(kids[m]) :
              /\ Skip(kids, order, m, i) = Skip(kids, order, m, i - 1) + Len(order[kids[m][i]])
              /\ \A j \in 1 .. Len(order[kids[m][i]]) :
                   order[m][1 + Skip(kids, order, m, i - 1) + j] = order[kids[m][i]][j]
<1> DEFINE f == Parts(kids, order, m)
           n == Len(kids[m])
<1>1. n \in Nat /\ \A i \in 1 .. n : kids[m][i] \in Node
  BY ChildrenIn
<1>2. order \in [Node -> Seq(Node)] /\ order[m] = <<m>> \o Joined(f, n)
  BY DEF InDocumentOrder
<1> HIDE DEF n
<1>3. f \in [1 .. n -> Seq(Node)] /\ \A i \in 1 .. n : f[i] = order[kids[m][i]] /\ f[i] \in Seq(Node)
  BY <1>1, <1>2 DEF Parts, n
<1> HIDE DEF f
<1>4. /\ Joined(f, 0) = << >>
      /\ \A i \in 0 .. n : Joined(f, i) \in Seq(Node) /\ (i < n => Joined(f, i + 1) = Joined(f, i) \o f[i + 1])
  <2>1. 0 \in 0 .. n /\ n \in Nat
    BY <1>1
  <2>2. f \in [1 .. n -> Seq(Node)]
    BY <1>3
  <2> QED BY <2>1, <2>2, FlattenNext, Zenon
<1>5. \A i \in 0 .. n : Len(Joined(f, i)) \in Nat /\ Joined(f, i) \in Seq(Node)
  BY <1>4, LenProperties
<1>6. ASSUME NEW i \in 0 .. n
      PROVE  /\ Len(Joined(f, i)) <= Len(Joined(f, n))
             /\ \A j \in 1 .. Len(Joined(f, i)) : Joined(f, n)[j] = Joined(f, i)[j]
  <2>1. n \in i .. n /\ n \in Nat
    BY <1>1
  <2>2. f \in [1 .. n -> Seq(Node)]
    BY <1>3
  <2>3. ComesFirst(f, i, n)
    BY <2>1, <2>2, FlattenGrows, SMTT(30)
  <2> QED BY <2>3 DEF ComesFirst
<1>7. ASSUME NEW i \in 1 .. n
      PROVE  /\ Len(Joined(f, i)) = Len(Joined(f, i - 1)) + Len(f[i]) /\ Len(f[i]) \in Nat
             /\ \A j \in 1 .. Len(f[i]) : Joined(f, n)[Len(Joined(f, i - 1)) + j] = f[i][j]
  <2>1. i - 1 \in 0 .. n /\ i \in 0 .. n /\ i - 1 < n /\ (i - 1) + 1 = i
    BY <1>1
  <2>2. Joined(f, i) = Joined(f, i - 1) \o f[i] /\ f[i] \in Seq(Node) /\ Joined(f, i - 1) \in Seq(Node)
    BY <1>3, <1>4, <2>1
  <2> DEFINE a == Len(Joined(f, i - 1))
             b == Len(f[i])
  <2>3. /\ Len(Joined(f, i - 1) \o f[i]) = a + b
        /\ \A j \in 1 .. a + b : (Joined(f, i - 1) \o f[i])[j] = IF j <= a THEN Joined(f, i - 1)[j] ELSE f[i][j - a]
    BY <2>2, ConcatProperties
  <2>4. a \in Nat /\ b \in Nat
    BY <2>2, LenProperties
  <2>5. Len(Joined(f, i)) = a + b
    BY <2>2, <2>3
  <2>6. ASSUME NEW j \in 1 .. b PROVE Joined(f, n)[a + j] = f[i][j]
    <3> HIDE DEF a, b
    <3>1. a + j \in 1 .. a + b /\ ~(a + j <= a) /\ (a + j) - a = j
      BY <2>4
    <3>2. Joined(f, i)[a + j] = f[i][j]
      BY <2>2, <2>3, <3>1
    <3>3. a + j \in 1 .. Len(Joined(f, i))
      BY <2>5, <3>1
    <3> QED BY <1>6, <2>1, <3>2, <3>3
  <2> QED BY <2>4, <2>5, <2>6
<1>8. /\ Len(order[m]) = 1 + Len(Joined(f, n)) /\ order[m][1] = m /\ order[m] \in Seq(Node)
      /\ \A j \in 1 .. Len(Joined(f, n)) : order[m][1 + j] = Joined(f, n)[j]
  <2>0. n \in 0 .. n
    BY <1>1
  <2> DEFINE s == Joined(f, n)
  <2>1. s \in Seq(Node) /\ Len(s) \in Nat
    BY <1>5, <2>0
  <2>2. <<m>> \in Seq(Node) /\ Len(<<m>>) = 1 /\ <<m>>[1] = m
    OBVIOUS
  <2> HIDE DEF s
  <2>3. /\ Len(<<m>> \o s) = 1 + Len(s)
        /\ \A j \in 1 .. 1 + Len(s) : (<<m>> \o s)[j] = IF j <= 1 THEN <<m>>[j] ELSE s[j - 1]
    BY <2>1, <2>2, ConcatProperties
  <2>4. order[m] = <<m>> \o s
    BY <1>2 DEF s
  <2>5. order[m][1] = m
    <3>1. 1 \in 1 .. 1 + Len(s) /\ 1 <= 1
      BY <2>1
    <3> QED BY <2>2, <2>3, <2>4, <3>1
  <2>6. ASSUME NEW j \in 1 .. Len(s) PROVE order[m][1 + j] = s[j]
    <3>1. 1 + j \in 1 .. 1 + Len(s) /\ ~(1 + j <= 1) /\ (1 + j) - 1 = j
      BY <2>1
    <3> QED BY <2>3, <2>4, <3>1
  <2>7. order[m] \in Seq(Node)
    BY <1>2
  <2>8. Len(order[m]) = 1 + Len(s)
    BY <2>3, <2>4
  <2> QED BY <2>5, <2>6, <2>7, <2>8 DEF s
<1>9. \A i : Skip(kids, order, m, i) = Len(Joined(f, i))
  BY DEF Skip, f
<1>10. /\ Skip(kids, order, m, 0) = 0 /\ Len(order[m]) = 1 + Skip(kids, order, m, n)
       /\ \A i \in 0 .. n : Skip(kids, order, m, i) \in Nat /\ Skip(kids, order, m, i) <= Skip(kids, order, m, n)
  <2>1. Len(<< >>) = 0
    OBVIOUS
  <2> QED BY <1>4, <1>5, <1>6, <1>8, <1>9, <2>1
<1>11. ASSUME NEW i \in 1 .. n
       PROVE  /\ Skip(kids, order, m, i) = Skip(kids, order, m, i - 1) + Len(order[kids[m][i]])
              /\ \A j \in 1 .. Len(order[kids[m][i]]) :
                   order[m][1 + Skip(kids, order, m, i - 1) + j] = order[kids[m][i]][j]
  <2>1. f[i] = order[kids[m][i]]
    BY <1>3
  <2>2. Len(Joined(f, i)) = Len(Joined(f, i - 1)) + Len(f[i])
    BY <1>7
  <2>3. ASSUME NEW j \in 1 .. Len(f[i]) PROVE order[m][1 + Len(Joined(f, i - 1)) + j] = f[i][j]
    <3> DEFINE a == Len(Joined(f, i - 1))
               b == Len(f[i])
               z == Len(Joined(f, n))
    <3>1. a \in Nat /\ b \in Nat /\ z \in Nat /\ a + b <= z
      <4>1. i - 1 \in 0 .. n /\ i \in 0 .. n /\ n \in 0 .. n
        BY <1>1
      <4>2. a \in Nat /\ b \in Nat /\ z \in Nat
        BY <1>5, <1>7, <4>1
      <4>3. Len(Joined(f, i)) <= z
        BY <1>6, <4>1
      <4> QED BY <2>2, <4>2, <4>3
    <3>2. Joined(f, n)[a + j] = f[i][j]
      BY <1>7
    <3> HIDE DEF a, b, z
    <3>3. a + j \in 1 .. z /\ 1 + (a + j) = 1 + a + j
      BY <2>3, <3>1 DEF b
    <3>4. order[m][1 + (a + j)] = Joined(f, n)[a + j]
      BY <1>8, <3>3 DEF z
    <3> QED BY <3>2, <3>3, <3>4 DEF a
  <2> QED BY <1>9, <2>1, <2>2, <2>3
<1> QED BY <1>8, <1>10, <1>11 DEF n

\* How many nodes of the tree come from a node on, in document order.
RankOfChildren(kids, order, mu) ==
  \A p \in Node : \A i \in 1 .. Len(kids[p]) : mu[kids[p][i]] = mu[p] - 1 - Skip(kids, order, p, i - 1)

Ranked(kids, order, mu) ==
  /\ mu \in [Node -> Nat] /\ \A m \in Node : Len(order[m]) <= mu[m]
  /\ RankOfChildren(kids, order, mu)

LEMMA ARank ==
  ASSUME NULL \notin Node, NEW kids, NEW depth, NEW M, Family(kids, depth, M),
         NEW order, InDocumentOrder(kids, order)
  PROVE  \E mu : Ranked(kids, order, mu)
<1> DEFINE Place(m) == CHOOSE i \in 1 .. Len(kids[link[m].parent]) : kids[link[m].parent][i] = m
           Body(f, m) == IF link[m].parent = NULL THEN Len(order[m])
                         ELSE f[link[m].parent] - 1 - Skip(kids, order, link[m].parent, Place(m) - 1)
           G == [m \in Node |-> [f \in [Node -> Int] |-> Body(f, m)]]
<1>1. M \in Nat /\ depth \in [Node -> Nat] /\ \A m \in Node : depth[m] <= M
  BY DEF Family
<1>2. \A m \in Node : order[m] \in Seq(Node) /\ Len(order[m]) \in Nat
  BY DEF InDocumentOrder
<1>3. ASSUME NEW p \in Node
      PROVE  /\ \A i \in 0 .. Len(kids[p]) :
                  /\ Skip(kids, order, p, i) \in Nat
                  /\ Skip(kids, order, p, i) <= Skip(kids, order, p, Len(kids[p]))
             /\ Len(order[p]) = 1 + Skip(kids, order, p, Len(kids[p])) /\ Len(kids[p]) \in Nat
             /\ \A i \in 1 .. Len(kids[p]) :
                  Skip(kids, order, p, i) = Skip(kids, order, p, i - 1) + Len(order[kids[p][i]])
  BY OrderOf, ChildrenIn
<1>4. ASSUME NEW p \in Node, NEW i \in 1 .. Len(kids[p])
      PROVE  /\ kids[p][i] \in Node /\ link[kids[p][i]].parent = p /\ p # NULL
             /\ Place(kids[p][i]) = i /\ depth[p] < depth[kids[p][i]]
  <2>1. /\ kids[p][i] \in Node /\ link[kids[p][i]].parent = p /\ depth[p] < depth[kids[p][i]]
        /\ \A j \in 1 .. Len(kids[p]) : kids[p][i] = kids[p][j] => i = j
    BY ChildrenIn
  <2>2. Place(kids[p][i]) = i
    BY <2>1, Zenon
  <2> QED BY <2>1, <2>2
<1>5. ASSUME NEW m \in Node, link[m].parent # NULL
      PROVE  /\ link[m].parent \in Node /\ depth[link[m].parent] < depth[m]
             /\ Place(m) \in 1 .. Len(kids[link[m].parent]) /\ kids[link[m].parent][Place(m)] = m
  <2>1. /\ link[m].parent \in Node /\ depth[link[m].parent] < depth[m]
        /\ \E i \in 1 .. Len(kids[link[m].parent]) : kids[link[m].parent][i] = m
    BY <1>5 DEF Family
  <2> QED BY <2>1, Zenon
<1>6. ASSUME NEW m \in Node, NEW f \in [Node -> Int] PROVE Body(f, m) \in Int
  <2>1. CASE link[m].parent = NULL
    BY <1>2, <2>1
  <2>2. CASE link[m].parent # NULL
    <3> DEFINE p == link[m].parent
               i == Place(m)
    <3>1. p \in Node /\ i \in 1 .. Len(kids[p])
      BY <1>5, <2>2
    <3> HIDE DEF p, i
    <3>2. Len(kids[p]) \in Nat
      BY <1>3, <3>1
    <3>3. i - 1 \in 0 .. Len(kids[p])
      BY <3>1, <3>2
    <3>4. Skip(kids, order, p, i - 1) \in Nat /\ f[p] \in Int
      BY <1>3, <3>1, <3>3
    <3>5. f[p] - 1 - Skip(kids, order, p, i - 1) \in Int
      BY <3>4
    <3> QED BY <2>2, <3>5 DEF p, i
  <2> QED BY <2>1, <2>2
<1> HIDE DEF Place
<1>7. G \in [Node -> [[Node -> Int] -> Int]]
  <2> HIDE DEF Body
  <2> QED BY <1>6
<1>8. Smaller(Node, Int, depth, G)
  <2> SUFFICES ASSUME NEW m \in Node, NEW f \in [Node -> Int], NEW g \in [Node -> Int],
                      \A x \in Node : depth[x] < depth[m] => f[x] = g[x]
               PROVE  G[m][f] = G[m][g]
    BY DEF Smaller
  <2>1. Body(f, m) = Body(g, m)
    BY <1>5
  <2> HIDE DEF Body
  <2> QED BY <2>1
<1>9. \E f : Satisfies(f, Node, Int, G)
  <2>1. Descending(Node, Int, depth, G)
    <3>1. Int # {}
      OBVIOUS
    <3> HIDE DEF G
    <3> QED BY <1>1, <1>7, <1>8, <3>1, Zenon DEF Descending
  <2> HIDE DEF G
  <2> QED BY <2>1, Recursion, Zenon
<1>10. PICK f : Satisfies(f, Node, Int, G)
  <2> HIDE DEF G
  <2> QED BY <1>9
<1>11. f \in [Node -> Int] /\ \A m \in Node : f[m] = Body(f, m)
  <2>1. f \in [Node -> Int] /\ \A m \in Node : f[m] = G[m][f]
    <3> HIDE DEF G
    <3> QED BY <1>10 DEF Satisfies
  <2> HIDE DEF Body
  <2> QED BY <2>1
<1>12. RankOfChildren(kids, order, f)
  <2> SUFFICES ASSUME NEW p \in Node, NEW i \in 1 .. Len(kids[p])
               PROVE  f[kids[p][i]] = f[p] - 1 - Skip(kids, order, p, i - 1)
    BY DEF RankOfChildren
  <2> QED BY <1>4, <1>11
<1> HIDE DEF Body, G
<1> DEFINE T == {d \in Nat : \A m \in Node : depth[m] < d => Len(order[m]) <= f[m]}
<1>13. 0 \in T
  BY <1>1
<1>14. ASSUME NEW d \in Nat, d \in T PROVE d + 1 \in T
  <2> SUFFICES ASSUME NEW m \in Node, depth[m] < d + 1 PROVE Len(order[m]) <= f[m]
    OBVIOUS
  <2>1. CASE link[m].parent = NULL
    <3>1. f[m] = Len(order[m])
      BY <1>11, <2>1 DEF Body
    <3> QED BY <1>2, <3>1
  <2>2. CASE link[m].parent # NULL
    <3> DEFINE p == link[m].parent
               i == Place(m)
               n == Len(kids[p])
    <3>1. p \in Node /\ depth[p] < depth[m] /\ i \in 1 .. n /\ kids[p][i] = m
      BY <1>5, <2>2
    <3>2. depth[p] < d
      BY <1>1, <3>1
    <3>3. Len(order[p]) <= f[p]
      BY <1>14, <3>1, <3>2
    <3> HIDE DEF p, i
    <3>4. f[m] = f[p] - 1 - Skip(kids, order, p, i - 1)
      BY <1>12, <3>1 DEF RankOfChildren
    <3>5. n \in Nat
      BY <1>3, <3>1
    <3> HIDE DEF n
    <3>6. i - 1 \in 0 .. n /\ i \in 0 .. n
      BY <3>1, <3>5
    <3>7. /\ Skip(kids, order, p, i - 1) \in Nat
          /\ Skip(kids, order, p, i) = Skip(kids, order, p, i - 1) + Len(order[m])
          /\ Skip(kids, order, p, i) <= Skip(kids, order, p, n) /\ Skip(kids, order, p, n) \in Nat
          /\ Len(order[p]) = 1 + Skip(kids, order, p, n)
      <4>1. n \in 0 .. n
        BY <3>5
      <4> QED BY <1>3, <3>1, <3>6, <4>1 DEF n
    <3>8. Len(order[m]) \in Nat /\ f[p] \in Int /\ f[m] \in Int
      BY <1>2, <1>11, <3>1
    <3> QED BY <3>3, <3>4, <3>7, <3>8
  <2> QED BY <2>1, <2>2
<1> HIDE DEF T
<1>15. Nat \subseteq T
  BY <1>13, <1>14, AllNumbers
<1>16. ASSUME NEW m \in Node PROVE Len(order[m]) <= f[m]
  <2>1. depth[m] + 1 \in T /\ depth[m] < depth[m] + 1
    BY <1>1, <1>15
  <2> QED BY <2>1 DEF T
<1>17. f \in [Node -> Nat]
  <2>1. \A m \in Node : f[m] \in Nat
    BY <1>2, <1>11, <1>16
  <2> QED BY <1>11, <2>1
<1>18. Ranked(kids, order, f)
  BY <1>12, <1>16, <1>17 DEF Ranked
<1> QED BY <1>18

\* Where the pointers of a node lead, in document order.
DownAt(order, mu, m) ==
  /\ order[m][1] = m /\ Len(order[m]) \in Nat /\ 1 <= Len(order[m]) /\ Len(order[m]) <= mu[m]
  /\ IF link[m].child = NULL THEN Len(order[m]) = 1
     ELSE /\ link[m].child \in Node /\ link[link[m].child].parent = m
          /\ mu[link[m].child] = mu[m] - 1

AcrossAt(order, mu, m) ==
  /\ link[m].next # NULL =>
       /\ link[m].next \in Node /\ link[link[m].next].parent = link[m].parent
       /\ mu[link[m].next] = mu[m] - Len(order[m])
  /\ link[m].prev # NULL =>
       /\ link[m].prev \in Node /\ link[link[m].prev].parent = link[m].parent
       /\ mu[m] = mu[link[m].prev] - Len(order[link[m].prev])
  /\ link[m].next = NULL /\ link[m].parent # NULL =>
       mu[m] - Len(order[m]) = mu[link[m].parent] - Len(order[link[m].parent])
  /\ link[m].prev = NULL /\ link[m].parent # NULL => mu[m] = mu[link[m].parent] - 1
  /\ link[m].parent = NULL => link[m].next = NULL /\ link[m].prev = NULL

UpAt(order, mu, depth, m) ==
  link[m].parent # NULL =>
    /\ link[m].parent \in Node /\ depth[link[m].parent] < depth[m] /\ mu[m] < mu[link[m].parent]
    /\ (mu[link[m].parent] - mu[m]) + Len(order[m]) <= Len(order[link[m].parent])
    /\ \A j \in 1 .. Len(order[m]) :
         order[link[m].parent][(mu[link[m].parent] - mu[m]) + j] = order[m][j]

LastAt(order, depth, m) ==
  IF link[m].last_child = NULL THEN Len(order[m]) = 1
  ELSE /\ link[m].last_child \in Node /\ depth[m] < depth[link[m].last_child]
       /\ order[m][Len(order[m])] = order[link[m].last_child][Len(order[link[m].last_child])]

LaidOut(order, mu, depth, M) ==
  /\ M \in Nat /\ depth \in [Node -> Nat] /\ mu \in [Node -> Nat] /\ order \in [Node -> Seq(Node)]
  /\ \A m \in Node : /\ depth[m] <= M /\ DownAt(order, mu, m) /\ AcrossAt(order, mu, m)
                     /\ UpAt(order, mu, depth, m) /\ LastAt(order, depth, m)

\* The child i of p, in numbers.
ChildAt(kids, order, mu, p, i) ==
  LET c == kids[p][i] IN
  /\ c \in Node /\ Len(order[c]) \in Nat /\ mu[c] \in Nat
  /\ mu[p] \in Nat /\ Len(order[p]) \in Nat /\ Len(kids[p]) \in Nat
  /\ mu[c] < mu[p] /\ (mu[p] - mu[c]) + Len(order[c]) <= Len(order[p])
  /\ i = 1 => mu[c] = mu[p] - 1
  /\ i > 1 => mu[c] = mu[kids[p][i - 1]] - Len(order[kids[p][i - 1]])
  /\ i = Len(kids[p]) => mu[c] - Len(order[c]) = mu[p] - Len(order[p])
  /\ \A j \in 1 .. Len(order[c]) : order[p][(mu[p] - mu[c]) + j] = order[c][j]

LEMMA ChildInOrder ==
  ASSUME NULL \notin Node, NEW kids, NEW depth, NEW M, Family(kids, depth, M),
         NEW order, InDocumentOrder(kids, order), NEW mu, Ranked(kids, order, mu),
         NEW p \in Node, NEW i \in 1 .. Len(kids[p])
  PROVE  ChildAt(kids, order, mu, p, i)
<1> DEFINE n == Len(kids[p])
           S(j) == Skip(kids, order, p, j)
           c == kids[p][i]
<1>1. n \in Nat /\ \A j \in 1 .. n : kids[p][j] \in Node
  BY ChildrenIn
<1>2. /\ \A m \in Node : mu[m] \in Nat /\ Len(order[m]) \in Nat
      /\ \A j \in 1 .. n : mu[kids[p][j]] = mu[p] - 1 - S(j - 1)
  <2>1. \A m \in Node : order[m] \in Seq(Node)
    BY DEF InDocumentOrder
  <2> QED BY <2>1, LenProperties DEF Ranked, RankOfChildren
<1>3. /\ \A j \in 0 .. n : S(j) \in Nat /\ S(j) <= S(n)
      /\ S(0) = 0 /\ Len(order[p]) = 1 + S(n)
      /\ \A j \in 1 .. n : /\ S(j) = S(j - 1) + Len(order[kids[p][j]])
                           /\ \A a \in 1 .. Len(order[kids[p][j]]) : order[p][1 + S(j - 1) + a] = order[kids[p][j]][a]
  BY OrderOf
<1>4. i \in 1 .. n
  OBVIOUS
<1> HIDE DEF n, S
<1>5. i - 1 \in 0 .. n /\ i \in 0 .. n /\ n \in 0 .. n
  BY <1>1, <1>4
<1>6. c \in Node /\ mu[c] \in Nat /\ mu[p] \in Nat /\ Len(order[c]) \in Nat
  BY <1>1, <1>2, <1>4
<1>7. /\ mu[c] = mu[p] - 1 - S(i - 1) /\ S(i - 1) \in Nat /\ S(i) \in Nat /\ S(i) <= S(n) /\ S(n) \in Nat
      /\ S(i) = S(i - 1) + Len(order[c]) /\ Len(order[p]) = 1 + S(n)
  BY <1>2, <1>3, <1>4, <1>5
<1>15. \A a \in 1 .. Len(order[c]) : order[p][1 + S(i - 1) + a] = order[c][a]
  BY <1>3, <1>4
<1> HIDE DEF c
<1>8. mu[p] - mu[c] = 1 + S(i - 1)
  BY <1>6, <1>7
<1>9. /\ mu[c] < mu[p] /\ (mu[p] - mu[c]) + Len(order[c]) <= Len(order[p])
      /\ S(i) = S(n) => mu[c] - Len(order[c]) = mu[p] - Len(order[p])
  <2> DEFINE x == mu[c]
             y == mu[p]
             k == Len(order[c])
             z == Len(order[p])
             s == S(i - 1)
             t == S(i)
             u == S(n)
  <2>1. /\ x \in Nat /\ y \in Nat /\ k \in Nat /\ s \in Nat /\ t \in Nat /\ u \in Nat
        /\ x = y - 1 - s /\ t = s + k /\ t <= u /\ z = 1 + u
    BY <1>6, <1>7
  <2> HIDE DEF x, y, k, z, s, t, u
  <2>2. x < y /\ (y - x) + k <= z /\ (t = u => x - k = y - z)
    BY <2>1
  <2> QED BY <2>2 DEF x, y, k, z, t, u
<1>10. i = 1 => mu[c] = mu[p] - 1
  <2> SUFFICES ASSUME i = 1 PROVE mu[c] = mu[p] - 1
    OBVIOUS
  <2>1. S(i - 1) = 0
    BY <1>3
  <2> QED BY <1>6, <1>7, <2>1
<1>11. i = n => mu[c] - Len(order[c]) = mu[p] - Len(order[p])
  BY <1>9, Zenon
<1>12. i > 1 => mu[c] = mu[kids[p][i - 1]] - Len(order[kids[p][i - 1]])
  <2> SUFFICES ASSUME i > 1 PROVE mu[c] = mu[kids[p][i - 1]] - Len(order[kids[p][i - 1]])
    OBVIOUS
  <2> DEFINE h == i - 1
             b == kids[p][h]
  <2>1. h \in 1 .. n /\ h - 1 \in 0 .. n /\ h \in 0 .. n
    BY <1>1, <1>4
  <2> HIDE DEF h
  <2>2. b \in Node /\ mu[b] \in Nat /\ Len(order[b]) \in Nat
    BY <1>1, <1>2, <2>1
  <2>3. mu[b] = mu[p] - 1 - S(h - 1) /\ S(h) = S(h - 1) + Len(order[b]) /\ S(h - 1) \in Nat
    BY <1>2, <1>3, <2>1
  <2> HIDE DEF b
  <2>4. mu[c] = mu[p] - 1 - S(h)
    BY <1>7 DEF h
  <2>5. mu[c] = mu[b] - Len(order[b])
    BY <1>6, <2>2, <2>3, <2>4, SMTT(30)
  <2> QED BY <2>5 DEF b, h
<1>13. \A j \in 1 .. Len(order[c]) : order[p][(mu[p] - mu[c]) + j] = order[c][j]
  BY <1>8, <1>15
<1>14. Len(order[p]) \in Nat
  BY <1>2
<1> QED BY <1>1, <1>6, <1>9, <1>10, <1>11, <1>12, <1>13, <1>14 DEF c, n, ChildAt

LEMMA LaidOutAt ==
  ASSUME NULL \notin Node, NEW kids, NEW depth, NEW M, Family(kids, depth, M),
         NEW order, InDocumentOrder(kids, order), NEW mu, Ranked(kids, order, mu), NEW m \in Node
  PROVE  /\ depth[m] <= M /\ DownAt(order, mu, m) /\ AcrossAt(order, mu, m)
         /\ UpAt(order, mu, depth, m) /\ LastAt(order, depth, m)
<1> DEFINE n == Len(kids[m])
           p == link[m].parent
<1>1. /\ order[m][1] = m /\ Len(order[m]) = 1 + Skip(kids, order, m, n) /\ Skip(kids, order, m, 0) = 0
      /\ \A i \in 0 .. n : Skip(kids, order, m, i) \in Nat
  BY OrderOf
<1>2. /\ n \in Nat /\ link[m].child = IF n = 0 THEN NULL ELSE kids[m][1]
      /\ link[m].last_child = IF n = 0 THEN NULL ELSE kids[m][n]
      /\ \A i \in 1 .. n : kids[m][i] \in Node /\ link[kids[m][i]].parent = m /\ depth[m] < depth[kids[m][i]]
  BY ChildrenIn
<1>3. Len(order[m]) \in Nat /\ 1 <= Len(order[m]) /\ (n = 0 => Len(order[m]) = 1)
  <2>1. n \in 0 .. n
    BY <1>2
  <2> HIDE DEF n
  <2> QED BY <1>1, <2>1
<1>4. depth[m] <= M /\ Len(order[m]) <= mu[m]
  BY DEF Family, Ranked
<1>5. DownAt(order, mu, m)
  <2>1. CASE n = 0
    BY <1>1, <1>2, <1>3, <1>4, <2>1 DEF DownAt
  <2>2. CASE n # 0
    <3>1. 1 \in 1 .. n
      BY <1>2, <2>2
    <3>2. mu[kids[m][1]] = mu[m] - 1
      <4>1. ChildAt(kids, order, mu, m, 1)
        BY <3>1, ChildInOrder
      <4> QED BY <4>1 DEF ChildAt
    <3>3. link[m].child = kids[m][1] /\ kids[m][1] \in Node /\ link[kids[m][1]].parent = m
      BY <1>2, <2>2, <3>1
    <3>4. link[m].child # NULL
      BY <3>3
    <3> QED BY <1>1, <1>3, <1>4, <3>2, <3>3, <3>4 DEF DownAt
  <2> QED BY <2>1, <2>2
<1>6. LastAt(order, depth, m)
  <2>1. CASE n = 0
    BY <1>2, <1>3, <2>1 DEF LastAt
  <2>2. CASE n # 0
    <3> DEFINE c == kids[m][n]
    <3>1. n \in 1 .. n
      BY <1>2, <2>2
    <3>2. link[m].last_child = c /\ c \in Node /\ depth[m] < depth[c]
      BY <1>2, <2>2, <3>1
    <3>3. /\ mu[c] \in Nat /\ mu[m] \in Nat /\ mu[c] - Len(order[c]) = mu[m] - Len(order[m])
          /\ \A j \in 1 .. Len(order[c]) : order[m][(mu[m] - mu[c]) + j] = order[c][j]
      <4>1. ChildAt(kids, order, mu, m, n)
        <5> HIDE DEF n
        <5> QED BY <3>1, ChildInOrder DEF n
      <4> QED BY <4>1 DEF ChildAt
    <3>4. Len(order[c]) \in Nat /\ 1 <= Len(order[c])
      <4>1. /\ Len(order[c]) = 1 + Skip(kids, order, c, Len(kids[c])) /\ Len(kids[c]) \in Nat
            /\ \A i \in 0 .. Len(kids[c]) : Skip(kids, order, c, i) \in Nat
        BY <3>2, OrderOf, ChildrenIn
      <4>2. Len(kids[c]) \in 0 .. Len(kids[c])
        BY <4>1
      <4>3. Skip(kids, order, c, Len(kids[c])) \in Nat
        BY <4>1, <4>2
      <4> HIDE DEF c
      <4> QED BY <4>1, <4>3
    <3> HIDE DEF c
    <3>5. Len(order[c]) \in 1 .. Len(order[c]) /\ (mu[m] - mu[c]) + Len(order[c]) = Len(order[m])
      <4> DEFINE x == mu[c]
                 y == mu[m]
                 u == Len(order[c])
                 v == Len(order[m])
      <4>1. x \in Nat /\ y \in Nat /\ u \in Nat /\ v \in Nat /\ 1 <= u /\ x - u = y - v
        BY <1>3, <3>3, <3>4
      <4> HIDE DEF x, y, u, v
      <4>2. u \in 1 .. u /\ (y - x) + u = v
        BY <4>1
      <4> QED BY <4>2 DEF x, y, u, v
    <3>6. order[m][Len(order[m])] = order[c][Len(order[c])]
      BY <3>3, <3>5
    <3>7. c # NULL
      BY <3>2
    <3> QED BY <3>2, <3>6, <3>7 DEF LastAt
  <2> QED BY <2>1, <2>2
<1>7. CASE p = NULL
  <2>1. link[m].prev = NULL /\ link[m].next = NULL
    BY <1>7 DEF Family
  <2> QED BY <1>4, <1>5, <1>6, <1>7, <2>1 DEF AcrossAt, UpAt
<1>8. CASE p # NULL
  <2>1. p \in Node /\ depth[p] < depth[m] /\ \E i \in 1 .. Len(kids[p]) : kids[p][i] = m
    BY <1>8 DEF Family
  <2>2. PICK i \in 1 .. Len(kids[p]) : kids[p][i] = m
    BY <2>1
  <2>p. link[m].parent = p
    OBVIOUS
  <2> HIDE DEF p
  <2>3. /\ Len(order[m]) \in Nat /\ mu[m] \in Nat
        /\ mu[p] \in Nat /\ Len(order[p]) \in Nat /\ Len(kids[p]) \in Nat
        /\ mu[m] < mu[p]
        /\ i = 1 => mu[m] = mu[p] - 1
        /\ i > 1 => mu[m] = mu[kids[p][i - 1]] - Len(order[kids[p][i - 1]])
        /\ (mu[p] - mu[m]) + Len(order[m]) <= Len(order[p])
        /\ i = Len(kids[p]) => mu[m] - Len(order[m]) = mu[p] - Len(order[p])
        /\ \A j \in 1 .. Len(order[m]) : order[p][(mu[p] - mu[m]) + j] = order[m][j]
    <3>1. ChildAt(kids, order, mu, p, i)
      BY <2>1, <2>2, ChildInOrder
    <3> QED BY <2>2, <3>1 DEF ChildAt
  <2>4. /\ link[m].prev = IF i = 1 THEN NULL ELSE kids[p][i - 1]
        /\ link[m].next = IF i = Len(kids[p]) THEN NULL ELSE kids[p][i + 1]
        /\ \A j \in 1 .. Len(kids[p]) : kids[p][j] \in Node /\ link[kids[p][j]].parent = p
    BY <2>1, <2>2, ChildrenIn
  <2>5. UpAt(order, mu, depth, m)
    BY <2>1, <2>3, <2>p DEF UpAt
  <2>6. i # Len(kids[p]) => /\ link[m].next = kids[p][i + 1] /\ kids[p][i + 1] \in Node
                            /\ link[kids[p][i + 1]].parent = p /\ mu[kids[p][i + 1]] = mu[m] - Len(order[m])
    <3> SUFFICES ASSUME i # Len(kids[p])
                 PROVE  /\ link[m].next = kids[p][i + 1] /\ kids[p][i + 1] \in Node
                        /\ link[kids[p][i + 1]].parent = p /\ mu[kids[p][i + 1]] = mu[m] - Len(order[m])
      OBVIOUS
    <3>1. i + 1 \in 1 .. Len(kids[p]) /\ i + 1 > 1 /\ (i + 1) - 1 = i
      BY <2>3
    <3>2. mu[kids[p][i + 1]] = mu[kids[p][(i + 1) - 1]] - Len(order[kids[p][(i + 1) - 1]])
      <4>1. ChildAt(kids, order, mu, p, i + 1)
        BY <2>1, <3>1, ChildInOrder
      <4> QED BY <3>1, <4>1 DEF ChildAt
    <3>3. mu[kids[p][i + 1]] = mu[m] - Len(order[m])
      BY <2>2, <3>1, <3>2
    <3> QED BY <2>4, <3>1, <3>3
  <2>7. i # 1 => /\ link[m].prev = kids[p][i - 1] /\ kids[p][i - 1] \in Node
                 /\ link[kids[p][i - 1]].parent = p
                 /\ mu[m] = mu[kids[p][i - 1]] - Len(order[kids[p][i - 1]])
    <3> SUFFICES ASSUME i # 1
                 PROVE  /\ link[m].prev = kids[p][i - 1] /\ kids[p][i - 1] \in Node
                        /\ link[kids[p][i - 1]].parent = p
                        /\ mu[m] = mu[kids[p][i - 1]] - Len(order[kids[p][i - 1]])
      OBVIOUS
    <3>1. i - 1 \in 1 .. Len(kids[p]) /\ i > 1
      BY <2>3
    <3> QED BY <2>3, <2>4, <3>1
  <2>8. AcrossAt(order, mu, m)
    <3>1. link[m].next # NULL =>
            /\ link[m].next \in Node /\ link[link[m].next].parent = p
            /\ mu[link[m].next] = mu[m] - Len(order[m])
      BY <2>4, <2>6
    <3>2. link[m].prev # NULL =>
            /\ link[m].prev \in Node /\ link[link[m].prev].parent = p
            /\ mu[m] = mu[link[m].prev] - Len(order[link[m].prev])
      BY <2>4, <2>7
    <3>3. link[m].next = NULL => mu[m] - Len(order[m]) = mu[p] - Len(order[p])
      BY <2>3, <2>6
    <3>4. link[m].prev = NULL => mu[m] = mu[p] - 1
      BY <2>3, <2>7
    <3> QED BY <1>8, <2>p, <3>1, <3>2, <3>3, <3>4 DEF AcrossAt, p
  <2> QED BY <1>4, <1>5, <1>6, <2>5, <2>8
<1> QED BY <1>7, <1>8

LEMMA ALayout ==
  ASSUME NULL \notin Node, NEW kids, NEW depth, NEW M, Family(kids, depth, M),
         \A p \in Node : kids[p] = Children(p)
  PROVE  \E mu : LaidOut(OrderFrom, mu, depth, M)
<1> DEFINE order == OrderFrom
<1>1. InDocumentOrder(kids, order)
  BY OrderIs
<1> HIDE DEF order
<1>2. PICK mu : Ranked(kids, order, mu)
  BY <1>1, ARank
<1>3. ASSUME NEW m \in Node
      PROVE  /\ depth[m] <= M /\ DownAt(order, mu, m) /\ AcrossAt(order, mu, m)
             /\ UpAt(order, mu, depth, m) /\ LastAt(order, depth, m)
  BY <1>1, <1>2, LaidOutAt
<1>4. /\ M \in Nat /\ depth \in [Node -> Nat] /\ mu \in [Node -> Nat] /\ order \in [Node -> Seq(Node)]
  BY <1>1, <1>2 DEF Family, Ranked, InDocumentOrder
<1>5. LaidOut(order, mu, depth, M)
  BY <1>3, <1>4, Zenon DEF LaidOut
<1> QED BY <1>5 DEF order

\* The climb takes the next sibling, of the node or of the first ancestor below
\* top that has one.
LEMMA UncleIs ==
  ASSUME NULL \notin Node, NEW order, NEW mu, NEW depth, NEW M, LaidOut(order, mu, depth, M),
         NEW top \in Node
  PROVE  \A m \in Node :
           Uncle(m, top) = IF link[m].next # NULL THEN link[m].next
                           ELSE IF link[m].parent \in {top, NULL} THEN NULL
                           ELSE Uncle(link[m].parent, top)
<1> DEFINE V == Node \cup {NULL}
           Body(f, m) == IF link[m].next # NULL THEN link[m].next
                         ELSE IF link[m].parent \in {top, NULL} THEN NULL
                         ELSE f[link[m].parent]
           G == [m \in Node |-> [f \in [Node -> V] |-> Body(f, m)]]
           Step(f) == [m \in Node |-> Body(f, m)]
           climb == CHOOSE f : f = Step(f)
<1>1. ASSUME NEW m \in Node
      PROVE  /\ link[m].next \in V
             /\ link[m].parent # NULL => link[m].parent \in Node /\ depth[link[m].parent] < depth[m]
  <2>1. AcrossAt(order, mu, m) /\ UpAt(order, mu, depth, m)
    BY DEF LaidOut
  <2> QED BY <2>1 DEF AcrossAt, UpAt
<1>2. depth \in [Node -> Nat] /\ V # {}
  BY DEF LaidOut
<1>3. G \in [Node -> [[Node -> V] -> V]]
  <2>1. ASSUME NEW m \in Node, NEW f \in [Node -> V] PROVE Body(f, m) \in V
    BY <1>1
  <2> HIDE DEF Body, V
  <2> QED BY <2>1
<1>4. Smaller(Node, V, depth, G)
  <2> SUFFICES ASSUME NEW m \in Node, NEW f \in [Node -> V], NEW g \in [Node -> V],
                      \A x \in Node : depth[x] < depth[m] => f[x] = g[x]
               PROVE  G[m][f] = G[m][g]
    BY DEF Smaller
  <2>1. Body(f, m) = Body(g, m)
    BY <1>1
  <2> HIDE DEF Body, V
  <2> QED BY <2>1
<1> HIDE DEF V
<1>5. Descending(Node, V, depth, G)
  <2> HIDE DEF G
  <2> QED BY <1>2, <1>3, <1>4, Zenon DEF Descending
<1>6. PICK f : Satisfies(f, Node, V, G)
  <2> HIDE DEF G
  <2> QED BY <1>5, Recursion, Zenon
<1>7. f \in [Node -> V] /\ \A m \in Node : f[m] = Body(f, m)
  <2>1. f \in [Node -> V] /\ \A m \in Node : f[m] = G[m][f]
    <3> HIDE DEF G
    <3> QED BY <1>6 DEF Satisfies
  <2> HIDE DEF Body
  <2> QED BY <2>1
<1> HIDE DEF Body, G
<1>8. f = Step(f)
  <2>1. f = [m \in Node |-> f[m]]
    BY <1>7
  <2> QED BY <1>7, <2>1, Zenon
<1>9. climb = Step(climb)
  <2>1. \E g : g = Step(g)
    <3> HIDE DEF Step
    <3> QED BY <1>8
  <2> HIDE DEF Step
  <2> QED BY <2>1, Zenon
<1>10. \A m \in Node : climb[m] = Body(climb, m)
  <2> HIDE DEF climb
  <2> QED BY <1>9
<1>11. \A m : Uncle(m, top) = climb[m]
  BY Zenon DEF Uncle, Body
<1> HIDE DEF climb
<1> QED BY <1>1, <1>10, <1>11 DEF Body

\* From a node that has no child, or whose children are passed over, a walk
\* climbs; it stops at top.
LEMMA WalkNextIs ==
  ASSUME NULL \notin Node, NEW order, NEW mu, NEW depth, NEW M, LaidOut(order, mu, depth, M),
         NEW top \in Node, NEW m \in Node
  PROVE  /\ mxmlWalkNext(m, top, TRUE) = IF link[m].child # NULL THEN link[m].child
                                         ELSE IF m = top THEN NULL ELSE Uncle(m, top)
         /\ mxmlWalkNext(m, top, FALSE) = IF m = top THEN NULL ELSE Uncle(m, top)
<1>1. Uncle(m, top) = IF link[m].next # NULL THEN link[m].next
                      ELSE IF link[m].parent \in {top, NULL} THEN NULL
                      ELSE Uncle(link[m].parent, top)
  BY UncleIs
<1> QED BY <1>1 DEF mxmlWalkNext

\* top and what is under it.
Under(top) == {m \in Node : top \in Above(link, m)}

LEMMA UnderTop ==
  ASSUME NULL \notin Node, link \in [Node -> Link], NEW top \in Node
  PROVE  /\ top \in Under(top) /\ Under(top) \subseteq Node
         /\ \A m \in Under(top) : m # top => link[m].parent # NULL /\ link[m].parent \in Under(top)
         /\ \A m \in Node : link[m].parent # NULL /\ link[m].parent \in Under(top) => m \in Under(top)
<1>1. \A m \in Node : link[m].parent \in Node \cup {NULL}
  BY DEF Link
<1>2. ASSUME NEW m \in Node
      PROVE  /\ link[m].parent = NULL => Above(link, m) = {m}
             /\ link[m].parent # NULL => Above(link, m) = {m} \cup Above(link, link[m].parent)
             /\ m \in Above(link, m)
  BY AboveIs, AboveIsLeast
<1> QED BY <1>1, <1>2 DEF Under

UncleAt(order, mu, top, m) ==
  /\ Uncle(m, top) # NULL => Uncle(m, top) \in Node /\ mu[Uncle(m, top)] = mu[m] - Len(order[m])
  /\ m \in Under(top) /\ m # top =>
       /\ Uncle(m, top) \in Under(top) \cup {NULL}
       /\ Uncle(m, top) = NULL => mu[m] - Len(order[m]) = mu[top] - Len(order[top])

LEMMA UncleRank ==
  ASSUME NULL \notin Node, link \in [Node -> Link],
         NEW order, NEW mu, NEW depth, NEW M, LaidOut(order, mu, depth, M), NEW top \in Node
  PROVE  \A m \in Node : UncleAt(order, mu, top, m)
<1> DEFINE T == {d \in Nat : \A m \in Node : depth[m] < d => UncleAt(order, mu, top, m)}
<1>1. depth \in [Node -> Nat]
  BY DEF LaidOut
<1>2. 0 \in T
  BY <1>1
<1>3. ASSUME NEW d \in Nat, d \in T PROVE d + 1 \in T
  <2> SUFFICES ASSUME NEW m \in Node, depth[m] < d + 1 PROVE UncleAt(order, mu, top, m)
    OBVIOUS
  <2> DEFINE p == link[m].parent
  <2>1. Uncle(m, top) = IF link[m].next # NULL THEN link[m].next
                        ELSE IF p \in {top, NULL} THEN NULL ELSE Uncle(p, top)
    BY UncleIs
  <2>2. AcrossAt(order, mu, m) /\ UpAt(order, mu, depth, m)
    BY DEF LaidOut
  <2>3. m \in Under(top) /\ m # top => p # NULL /\ p \in Under(top)
    BY UnderTop
  <2>4. \A x \in Node : link[x].parent # NULL /\ link[x].parent \in Under(top) => x \in Under(top)
    BY UnderTop
  <2>5. CASE link[m].next # NULL
    <3>1. Uncle(m, top) = link[m].next
      BY <2>1, <2>5
    <3>2. /\ link[m].next \in Node /\ link[link[m].next].parent = p
          /\ mu[link[m].next] = mu[m] - Len(order[m])
      BY <2>2, <2>5 DEF AcrossAt
    <3>3. m \in Under(top) /\ m # top => link[m].next \in Under(top)
      BY <2>3, <2>4, <3>2
    <3> QED BY <2>5, <3>1, <3>2, <3>3 DEF UncleAt
  <2>6. CASE link[m].next = NULL /\ p \in {top, NULL}
    <3>1. Uncle(m, top) = NULL
      BY <2>1, <2>6
    <3>2. ASSUME m \in Under(top), m # top PROVE mu[m] - Len(order[m]) = mu[top] - Len(order[top])
      <4>1. p = top
        BY <2>3, <2>6, <3>2
      <4> QED BY <2>2, <2>6, <4>1, <2>3, <3>2 DEF AcrossAt
    <3> QED BY <3>1, <3>2 DEF UncleAt
  <2>7. CASE link[m].next = NULL /\ p \notin {top, NULL}
    <3>1. Uncle(m, top) = Uncle(p, top)
      BY <2>1, <2>7
    <3>2. p \in Node /\ depth[p] < depth[m] /\ mu[m] - Len(order[m]) = mu[p] - Len(order[p])
      BY <2>2, <2>7 DEF AcrossAt, UpAt
    <3>3. depth[p] < d
      BY <1>1, <3>2
    <3>4. UncleAt(order, mu, top, p)
      BY <1>3, <3>2, <3>3
    <3> HIDE DEF p
    <3> QED BY <2>3, <2>7, <3>1, <3>2, <3>4 DEF UncleAt
  <2> QED BY <2>5, <2>6, <2>7
<1> HIDE DEF T
<1>4. Nat \subseteq T
  BY <1>2, <1>3, AllNumbers
<1>5. ASSUME NEW m \in Node PROVE UncleAt(order, mu, top, m)
  <2>1. depth[m] + 1 \in T /\ depth[m] < depth[m] + 1
    BY <1>1, <1>4
  <2> QED BY <2>1 DEF T
<1> QED BY <1>5

\* A step of a walk goes one node on in document order; it ends at the last one
\* under top.
NextAt(order, mu, top, m) ==
  LET w == mxmlWalkNext(m, top, TRUE) IN
  /\ w # NULL => w \in Node /\ mu[w] = mu[m] - 1
  /\ m \in Under(top) =>
       /\ w \in Under(top) \cup {NULL}
       /\ w = NULL => mu[m] - 1 = mu[top] - Len(order[top])

LEMMA WalkNextRank ==
  ASSUME NULL \notin Node, link \in [Node -> Link],
         NEW order, NEW mu, NEW depth, NEW M, LaidOut(order, mu, depth, M), NEW top \in Node,
         NEW m \in Node
  PROVE  NextAt(order, mu, top, m)
<1> DEFINE w == mxmlWalkNext(m, top, TRUE)
<1>1. w = IF link[m].child # NULL THEN link[m].child
          ELSE IF m = top THEN NULL ELSE Uncle(m, top)
  BY WalkNextIs
<1> HIDE DEF w
<1>2. DownAt(order, mu, m)
  BY DEF LaidOut
<1>3. CASE link[m].child # NULL
  <2>1. w = link[m].child /\ w \in Node /\ link[w].parent = m /\ mu[w] = mu[m] - 1 /\ w # NULL
    BY <1>1, <1>2, <1>3 DEF DownAt
  <2>2. m \in Under(top) => w \in Under(top)
    BY <2>1, UnderTop
  <2> QED BY <2>1, <2>2 DEF NextAt, w
<1>4. CASE link[m].child = NULL /\ m = top
  <2>1. w = NULL /\ Len(order[m]) = 1
    BY <1>1, <1>2, <1>4 DEF DownAt
  <2> QED BY <1>4, <2>1 DEF NextAt, w
<1>5. CASE link[m].child = NULL /\ m # top
  <2>1. w = Uncle(m, top) /\ Len(order[m]) = 1
    BY <1>1, <1>2, <1>5 DEF DownAt
  <2>2. UncleAt(order, mu, top, m)
    BY UncleRank
  <2> QED BY <1>5, <2>1, <2>2 DEF NextAt, UncleAt, w
<1> QED BY <1>3, <1>4, <1>5

\* The place in the order of top of the nodes under it.
PlacedAt(order, mu, top, m) ==
  /\ mu[m] <= mu[top] /\ (mu[top] - mu[m]) + Len(order[m]) <= Len(order[top])
  /\ \A j \in 1 .. Len(order[m]) : order[top][(mu[top] - mu[m]) + j] = order[m][j]

LEMMA Placed ==
  ASSUME NULL \notin Node, link \in [Node -> Link],
         NEW order, NEW mu, NEW depth, NEW M, LaidOut(order, mu, depth, M), NEW top \in Node
  PROVE  \A m \in Under(top) : PlacedAt(order, mu, top, m)
<1> DEFINE T == {d \in Nat : \A m \in Under(top) : depth[m] < d => PlacedAt(order, mu, top, m)}
<1>1. /\ depth \in [Node -> Nat] /\ mu \in [Node -> Nat] /\ Under(top) \subseteq Node
      /\ \A m \in Node : Len(order[m]) \in Nat
  BY UnderTop DEF LaidOut, DownAt
<1>2. 0 \in T
  BY <1>1
<1>3. ASSUME NEW d \in Nat, d \in T PROVE d + 1 \in T
  <2> SUFFICES ASSUME NEW m \in Under(top), depth[m] < d + 1 PROVE PlacedAt(order, mu, top, m)
    OBVIOUS
  <2>1. m \in Node /\ mu[m] \in Nat /\ mu[top] \in Nat /\ Len(order[m]) \in Nat
    BY <1>1
  <2>2. CASE m = top
    <3>1. mu[top] <= mu[top] /\ (mu[top] - mu[top]) + Len(order[top]) <= Len(order[top])
      BY <2>1, <2>2
    <3>2. \A j \in 1 .. Len(order[top]) : (mu[top] - mu[top]) + j = j
      BY <2>1
    <3> QED BY <2>2, <3>1, <3>2 DEF PlacedAt
  <2>3. CASE m # top
    <3> DEFINE p == link[m].parent
    <3>1. p # NULL /\ p \in Under(top)
      BY <2>3, UnderTop
    <3>2. UpAt(order, mu, depth, m)
      BY <2>1 DEF LaidOut
    <3>3. /\ p \in Node /\ depth[p] < depth[m] /\ mu[m] < mu[p]
          /\ (mu[p] - mu[m]) + Len(order[m]) <= Len(order[p])
          /\ \A j \in 1 .. Len(order[m]) : order[p][(mu[p] - mu[m]) + j] = order[m][j]
      BY <3>1, <3>2 DEF UpAt
    <3> HIDE DEF p
    <3>4. depth[p] < d
      BY <1>1, <2>1, <3>3
    <3>5. PlacedAt(order, mu, top, p)
      BY <1>3, <3>1, <3>4
    <3> DEFINE x == mu[m]
               y == mu[p]
               z == mu[top]
               a == Len(order[m])
               b == Len(order[p])
               c == Len(order[top])
    <3>6. /\ x \in Nat /\ y \in Nat /\ z \in Nat /\ a \in Nat /\ b \in Nat /\ c \in Nat
          /\ x < y /\ y <= z /\ (y - x) + a <= b /\ (z - y) + b <= c
      BY <1>1, <2>1, <3>3, <3>5 DEF PlacedAt
    <3>7. /\ \A j \in 1 .. a : order[p][(y - x) + j] = order[m][j]
          /\ \A j \in 1 .. b : order[top][(z - y) + j] = order[p][j]
      BY <3>3, <3>5 DEF PlacedAt
    <3> HIDE DEF x, y, z, a, b, c
    <3>8. x <= z /\ (z - x) + a <= c
      BY <3>6
    <3>9. ASSUME NEW j \in 1 .. a PROVE order[top][(z - x) + j] = order[m][j]
      <4>1. (y - x) + j \in 1 .. b /\ (z - y) + ((y - x) + j) = (z - x) + j
        BY <3>6
      <4> QED BY <3>7, <4>1
    <3> QED BY <3>8, <3>9 DEF PlacedAt, x, z, a, c
  <2> QED BY <2>2, <2>3
<1> HIDE DEF T
<1>4. Nat \subseteq T
  BY <1>2, <1>3, AllNumbers
<1>5. ASSUME NEW m \in Under(top) PROVE PlacedAt(order, mu, top, m)
  <2>1. depth[m] + 1 \in T /\ depth[m] < depth[m] + 1
    BY <1>1, <1>4
  <2> QED BY <2>1 DEF T
<1> QED BY <1>5

\* A walk goes from each node under top to the next one in document order.
VisitedAt(order, mu, top, j) ==
  /\ order[top][j] \in Under(top) /\ mu[top] - mu[order[top][j]] = j - 1

WalksAt(order, top, j) ==
  mxmlWalkNext(order[top][j], top, TRUE) = IF j = Len(order[top]) THEN NULL ELSE order[top][j + 1]

LEMMA Visited ==
  ASSUME NULL \notin Node, link \in [Node -> Link],
         NEW order, NEW mu, NEW depth, NEW M, LaidOut(order, mu, depth, M), NEW top \in Node
  PROVE  /\ \A m \in Under(top) :
              /\ mu[top] - mu[m] + 1 \in 1 .. Len(order[top])
              /\ order[top][mu[top] - mu[m] + 1] = m
         /\ \A j \in 1 .. Len(order[top]) : VisitedAt(order, mu, top, j) /\ WalksAt(order, top, j)
<1> DEFINE L == Len(order[top])
           T == {i \in Nat : i < L => VisitedAt(order, mu, top, i + 1)}
<1>1. /\ mu \in [Node -> Nat] /\ Under(top) \subseteq Node /\ top \in Under(top)
      /\ L \in Nat /\ 1 <= L /\ order[top][1] = top
  <2>1. DownAt(order, mu, top)
    BY DEF LaidOut
  <2> QED BY <2>1, UnderTop DEF LaidOut, DownAt
<1>2. ASSUME NEW m \in Under(top)
      PROVE  mu[top] - mu[m] + 1 \in 1 .. L /\ order[top][mu[top] - mu[m] + 1] = m
  <2>1. PlacedAt(order, mu, top, m)
    BY Placed
  <2>2. DownAt(order, mu, m) /\ mu[m] \in Nat /\ mu[top] \in Nat
    BY <1>1 DEF LaidOut
  <2> DEFINE x == mu[m]
             z == mu[top]
             a == Len(order[m])
  <2>3. /\ x \in Nat /\ z \in Nat /\ a \in Nat /\ 1 <= a /\ x <= z /\ (z - x) + a <= L
        /\ order[m][1] = m /\ \A j \in 1 .. a : order[top][(z - x) + j] = order[m][j]
    BY <2>1, <2>2 DEF PlacedAt, DownAt
  <2> HIDE DEF x, z, a, L
  <2>4. 1 \in 1 .. a /\ (z - x) + 1 \in 1 .. L
    BY <1>1, <2>3
  <2> QED BY <2>3, <2>4 DEF x, z
<1> HIDE DEF L
<1>3. ASSUME NEW j \in 1 .. L, VisitedAt(order, mu, top, j)
      PROVE  /\ mxmlWalkNext(order[top][j], top, TRUE) = IF j = L THEN NULL ELSE order[top][j + 1]
             /\ j < L => VisitedAt(order, mu, top, j + 1)
  <2> DEFINE m == order[top][j]
             w == mxmlWalkNext(m, top, TRUE)
             z == mu[top]
             x == mu[m]
  <2>1. m \in Under(top) /\ m \in Node /\ x \in Nat /\ z \in Nat /\ z - x = j - 1
    BY <1>1, <1>3 DEF VisitedAt
  <2>2. /\ w # NULL => w \in Node /\ mu[w] = x - 1
        /\ w \in Under(top) \cup {NULL} /\ (w = NULL => x - 1 = z - L)
    <3>1. NextAt(order, mu, top, m)
      BY <2>1, WalkNextRank
    <3>2. m \in Under(top)
      BY <2>1
    <3> HIDE DEF m
    <3> QED BY <3>1, <3>2, Zenon DEF NextAt, L
  <2> HIDE DEF w, x, z
  <2>3. CASE w = NULL
    <3>1. x - 1 = z - L
      BY <2>2, <2>3
    <3>2. j = L
      BY <1>1, <2>1, <3>1
    <3>3. ~(j < L)
      BY <1>1, <3>2
    <3> QED BY <2>3, <3>2, <3>3 DEF w
  <2>4. CASE w # NULL
    <3>1. w \in Under(top) /\ mu[w] = x - 1
      BY <2>2, <2>4
    <3>2. z - mu[w] + 1 \in 1 .. L /\ order[top][z - mu[w] + 1] = w
      BY <1>2, <3>1 DEF z
    <3>3. z - mu[w] + 1 = j + 1 /\ z - mu[w] = (j + 1) - 1
      BY <2>1, <3>1
    <3>4. j + 1 \in 1 .. L /\ order[top][j + 1] = w
      BY <3>2, <3>3
    <3>5. j # L
      BY <1>1, <3>4
    <3>6. VisitedAt(order, mu, top, j + 1)
      BY <3>1, <3>3, <3>4 DEF VisitedAt, z
    <3> QED BY <3>4, <3>5, <3>6 DEF w
  <2> QED BY <2>3, <2>4
<1>4. 0 \in T
  <2>1. mu[top] - mu[top] = 1 - 1 /\ 0 + 1 = 1
    BY <1>1
  <2> QED BY <1>1, <2>1 DEF VisitedAt
<1>5. ASSUME NEW i \in Nat, i \in T PROVE i + 1 \in T
  <2> SUFFICES ASSUME i + 1 < L PROVE VisitedAt(order, mu, top, (i + 1) + 1)
    OBVIOUS
  <2>1. i + 1 \in 1 .. L /\ i < L
    BY <1>1
  <2>2. VisitedAt(order, mu, top, i + 1)
    BY <1>5, <2>1
  <2> QED BY <1>3, <2>1, <2>2
<1> HIDE DEF T
<1>6. Nat \subseteq T
  BY <1>4, <1>5, AllNumbers
<1>7. ASSUME NEW j \in 1 .. L PROVE VisitedAt(order, mu, top, j) /\ WalksAt(order, top, j)
  <2>1. j - 1 \in T /\ j - 1 < L /\ (j - 1) + 1 = j
    BY <1>1, <1>6
  <2>2. VisitedAt(order, mu, top, j)
    BY <2>1 DEF T
  <2> QED BY <1>3, <2>2 DEF WalksAt, L
<1> QED BY <1>2, <1>7 DEF L

\* The last node under a node is the last in its order.
LEMMA DeepestIs ==
  ASSUME NULL \notin Node, NEW order, NEW mu, NEW depth, NEW M, LaidOut(order, mu, depth, M)
  PROVE  \A m \in Node : Deepest(m) = order[m][Len(order[m])]
<1> DEFINE Body(f, m) == IF link[m].last_child = NULL THEN m ELSE f[link[m].last_child]
           G == [m \in Node |-> [f \in [Node -> Node] |-> Body(f, m)]]
           Step(f) == [m \in Node |-> Body(f, m)]
           down == CHOOSE f : f = Step(f)
           far == [m \in Node |-> M - depth[m]]
<1>1. ASSUME NEW m \in Node
      PROVE  /\ depth[m] <= M /\ order[m][1] = m
             /\ link[m].last_child = NULL => Len(order[m]) = 1
             /\ link[m].last_child # NULL =>
                  /\ link[m].last_child \in Node /\ depth[m] < depth[link[m].last_child]
                  /\ order[m][Len(order[m])] = order[link[m].last_child][Len(order[link[m].last_child])]
  <2>1. depth[m] <= M /\ DownAt(order, mu, m) /\ LastAt(order, depth, m)
    BY DEF LaidOut
  <2> QED BY <2>1 DEF DownAt, LastAt
<1>2. depth \in [Node -> Nat] /\ M \in Nat
  BY DEF LaidOut
<1>m. far \in [Node -> Nat] /\ \A m \in Node : far[m] = M - depth[m]
  BY <1>1, <1>2
<1> HIDE DEF far
<1>n. ASSUME NEW m \in Node, link[m].last_child # NULL PROVE far[link[m].last_child] < far[m]
  <2> DEFINE c == link[m].last_child
  <2>1. c \in Node /\ depth[m] < depth[c]
    BY <1>1, <1>n
  <2> HIDE DEF c
  <2>2. far[c] = M - depth[c] /\ far[m] = M - depth[m] /\ depth[c] \in Nat /\ depth[m] \in Nat
    BY <1>2, <1>m, <2>1
  <2>3. far[c] < far[m]
    BY <1>2, <2>1, <2>2
  <2> QED BY <2>3 DEF c
<1>3. CASE Node = {}
  BY <1>3
<1>4. CASE Node # {}
  <2>3. G \in [Node -> [[Node -> Node] -> Node]]
    <3>1. ASSUME NEW m \in Node, NEW f \in [Node -> Node] PROVE Body(f, m) \in Node
      BY <1>1
    <3> HIDE DEF Body
    <3> QED BY <3>1
  <2>4. Smaller(Node, Node, far, G)
    <3> SUFFICES ASSUME NEW m \in Node, NEW f \in [Node -> Node], NEW g \in [Node -> Node],
                        \A x \in Node : far[x] < far[m] => f[x] = g[x]
                 PROVE  G[m][f] = G[m][g]
      BY DEF Smaller
    <3>1. Body(f, m) = Body(g, m)
      BY <1>1, <1>n
    <3> HIDE DEF Body
    <3> QED BY <3>1
  <2>5. Descending(Node, Node, far, G)
    <3> HIDE DEF G
    <3> QED BY <1>4, <1>m, <2>3, <2>4, Zenon DEF Descending
  <2>6. PICK f : Satisfies(f, Node, Node, G)
    <3> HIDE DEF G
    <3> QED BY <2>5, Recursion, Zenon
  <2>7. f \in [Node -> Node] /\ \A m \in Node : f[m] = Body(f, m)
    <3>1. f \in [Node -> Node] /\ \A m \in Node : f[m] = G[m][f]
      <4> HIDE DEF G
      <4> QED BY <2>6 DEF Satisfies
    <3> HIDE DEF Body
    <3> QED BY <3>1
  <2> HIDE DEF Body, G
  <2>8. f = Step(f)
    <3>1. f = [m \in Node |-> f[m]]
      BY <2>7
    <3> QED BY <2>7, <3>1, Zenon
  <2>9. down = Step(down)
    <3>1. \E g : g = Step(g)
      <4> HIDE DEF Step
      <4> QED BY <2>8
    <3> HIDE DEF Step
    <3> QED BY <3>1, Zenon
  <2>10. \A m \in Node : down[m] = Body(down, m)
    <3> HIDE DEF down
    <3> QED BY <2>9
  <2>11. \A m : Deepest(m) = down[m]
    BY Zenon DEF Deepest, Body
  <2> HIDE DEF down
  <2> DEFINE T == {d \in Nat : \A m \in Node : far[m] < d => down[m] = order[m][Len(order[m])]}
  <2>12. 0 \in T
    BY <1>m
  <2>13. ASSUME NEW d \in Nat, d \in T PROVE d + 1 \in T
    <3> SUFFICES ASSUME NEW m \in Node, far[m] < d + 1 PROVE down[m] = order[m][Len(order[m])]
      OBVIOUS
    <3>1. down[m] = IF link[m].last_child = NULL THEN m ELSE down[link[m].last_child]
      BY <2>10 DEF Body
    <3>2. CASE link[m].last_child = NULL
      BY <1>1, <3>1, <3>2
    <3>3. CASE link[m].last_child # NULL
      <4> DEFINE c == link[m].last_child
      <4>1. c \in Node /\ order[m][Len(order[m])] = order[c][Len(order[c])] /\ far[c] < far[m]
        BY <1>1, <1>n, <3>3
      <4> HIDE DEF c
      <4>2. far[c] < d
        BY <1>m, <4>1
      <4>3. down[c] = order[c][Len(order[c])]
        BY <2>13, <4>1, <4>2
      <4> QED BY <3>1, <3>3, <4>1, <4>3 DEF c
    <3> QED BY <3>2, <3>3
  <2> HIDE DEF T
  <2>14. Nat \subseteq T
    BY <2>12, <2>13, AllNumbers
  <2>15. ASSUME NEW m \in Node PROVE down[m] = order[m][Len(order[m])]
    <3>1. far[m] + 1 \in T /\ far[m] < far[m] + 1
      BY <1>m, <2>14
    <3> QED BY <3>1 DEF T
  <2> QED BY <2>11, <2>15
<1> QED BY <1>3, <1>4

\* A walk back goes from each node under top, after the first of them, to the
\* one before it.
LEMMA WalkPrevIs ==
  ASSUME NULL \notin Node, link \in [Node -> Link],
         NEW order, NEW mu, NEW depth, NEW M, LaidOut(order, mu, depth, M), NEW top \in Node,
         NEW i \in 3 .. Len(order[top])
  PROVE  mxmlWalkPrev(order[top][i], top, TRUE) = order[top][i - 1]
<1> DEFINE L == Len(order[top])
           m == order[top][i]
           z == mu[top]
           x == mu[m]
           p == link[m].parent
           s == link[m].prev
<1>1. DownAt(order, mu, top) /\ mu \in [Node -> Nat] /\ Under(top) \subseteq Node
  BY UnderTop DEF LaidOut
<1>2. L \in Nat /\ z \in Nat
  BY <1>1 DEF DownAt
<1>3. i \in 1 .. L
  <2> HIDE DEF L
  <2>1. i \in 3 .. L
    BY DEF L
  <2> QED BY <1>2, <2>1
<1>4. m \in Under(top) /\ m \in Node /\ x \in Nat /\ z - x = i - 1
  <2>1. VisitedAt(order, mu, top, i)
    BY <1>3, Visited
  <2> QED BY <1>1, <2>1 DEF VisitedAt
<1> HIDE DEF m
<1>i. i \in Nat /\ i >= 3
  BY <1>2
<1>5. m # top
  BY <1>2, <1>4, <1>i
<1>6. AcrossAt(order, mu, m) /\ p # NULL /\ p \in Under(top) /\ p \in Node
  BY <1>1, <1>4, <1>5, UnderTop DEF LaidOut
<1>7. CASE s # NULL
  <2>1. s \in Node /\ link[s].parent = p /\ x = mu[s] - Len(order[s])
    BY <1>6, <1>7 DEF AcrossAt
  <2>2. s \in Under(top)
    BY <1>6, <2>1, UnderTop
  <2>3. DownAt(order, mu, s) /\ PlacedAt(order, mu, top, s) /\ mu[s] \in Nat
    BY <1>1, <2>1, <2>2, Placed DEF LaidOut
  <2>4. mxmlWalkPrev(m, top, TRUE) = order[s][Len(order[s])]
    BY <1>5, <1>7, <2>1, DeepestIs DEF mxmlWalkPrev
  <2> DEFINE y == mu[s]
             a == Len(order[s])
  <2>5. /\ y \in Nat /\ a \in Nat /\ 1 <= a /\ x = y - a /\ y <= z
        /\ \A j \in 1 .. a : order[top][(z - y) + j] = order[s][j]
    BY <2>1, <2>3 DEF DownAt, PlacedAt
  <2> HIDE DEF x, y, z, a
  <2>6. a \in 1 .. a /\ (z - y) + a = i - 1
    BY <1>2, <1>4, <1>i, <2>5
  <2>7. order[top][i - 1] = order[s][a]
    BY <2>5, <2>6
  <2> QED BY <2>4, <2>7 DEF a, m
<1>8. CASE s = NULL
  <2>1. x = mu[p] - 1
    BY <1>6, <1>8 DEF AcrossAt
  <2>2. order[top][z - mu[p] + 1] = p /\ mu[p] \in Nat
    BY <1>1, <1>6, Visited
  <2>3. z - mu[p] + 1 = i - 1
    <3> DEFINE y == mu[p]
    <3>1. y \in Nat /\ x = y - 1
      BY <2>1, <2>2
    <3> HIDE DEF x, y, z
    <3>2. z - y + 1 = i - 1
      BY <1>2, <1>4, <1>i, <3>1
    <3> QED BY <3>2 DEF y
  <2>4. p # top
    <3> SUFFICES ASSUME p = top PROVE FALSE
      OBVIOUS
    <3>1. x = z - 1
      BY <2>1
    <3> HIDE DEF x, z
    <3> QED BY <1>2, <1>4, <1>i, <3>1
  <2>5. mxmlWalkPrev(m, top, TRUE) = p
    BY <1>5, <1>8, <2>4 DEF mxmlWalkPrev
  <2> QED BY <2>2, <2>3, <2>5 DEF m
<1> QED BY <1>7, <1>8

\* Every step of a walk leads on to fewer nodes.
LEMMA WalkShrinks ==
  ASSUME NULL \notin Node, link \in [Node -> Link],
         NEW order, NEW mu, NEW depth, NEW M, LaidOut(order, mu, depth, M), NEW top \in Node
  PROVE  \E nu \in [Node \cup {NULL} -> Nat] : \A m \in Node :
           /\ mxmlWalkNext(m, top, TRUE) \in Node \cup {NULL} /\ nu[mxmlWalkNext(m, top, TRUE)] < nu[m]
           /\ link[m].next \in Node \cup {NULL} /\ nu[link[m].next] < nu[m]
<1> DEFINE nu == [m \in Node \cup {NULL} |-> IF m = NULL THEN 0 ELSE mu[m]]
<1>1. mu \in [Node -> Nat]
  BY DEF LaidOut
<1>2. nu \in [Node \cup {NULL} -> Nat] /\ nu[NULL] = 0 /\ \A m \in Node : nu[m] = mu[m]
  BY <1>1
<1> HIDE DEF nu
<1>3. ASSUME NEW m \in Node
      PROVE  /\ mxmlWalkNext(m, top, TRUE) \in Node \cup {NULL} /\ nu[mxmlWalkNext(m, top, TRUE)] < nu[m]
             /\ link[m].next \in Node \cup {NULL} /\ nu[link[m].next] < nu[m]
  <2> DEFINE w == mxmlWalkNext(m, top, TRUE)
             x == link[m].next
  <2>1. mu[m] \in Nat /\ 1 <= mu[m] /\ Len(order[m]) \in Nat /\ 1 <= Len(order[m])
    <3>1. DownAt(order, mu, m) /\ mu[m] \in Nat
      BY <1>1 DEF LaidOut
    <3> DEFINE a == Len(order[m])
               b == mu[m]
    <3>2. a \in Nat /\ b \in Nat /\ 1 <= a /\ a <= b
      BY <3>1 DEF DownAt
    <3> HIDE DEF a, b
    <3>3. 1 <= b
      BY <3>2
    <3> QED BY <3>2, <3>3 DEF a, b
  <2>2. w # NULL => w \in Node /\ mu[w] = mu[m] - 1
    <3>1. NextAt(order, mu, top, m)
      BY WalkNextRank
    <3> QED BY <3>1, Zenon DEF NextAt
  <2>3. x # NULL => x \in Node /\ mu[x] = mu[m] - Len(order[m])
    <3>1. AcrossAt(order, mu, m)
      BY DEF LaidOut
    <3> QED BY <3>1 DEF AcrossAt
  <2> HIDE DEF w, x
  <2>4. w \in Node \cup {NULL} /\ nu[w] < nu[m]
    BY <1>2, <2>1, <2>2
  <2>5. x \in Node \cup {NULL} /\ nu[x] < nu[m]
    BY <1>2, <2>1, <2>3
  <2> QED BY <2>4, <2>5 DEF w, x
<1> QED BY <1>2, <1>3

\* A walk from top is the order of top.
LEMMA WalkIs ==
  ASSUME NULL \notin Node, link \in [Node -> Link],
         NEW order, NEW mu, NEW depth, NEW M, LaidOut(order, mu, depth, M), NEW top \in Node
  PROVE  Walk(top) = order[top]
<1> DEFINE D == Node \cup {NULL}
           V == Seq(Node)
           Next(m) == mxmlWalkNext(m, top, TRUE)
           Body(f, m) == IF m = NULL THEN << >> ELSE <<m>> \o f[Next(m)]
           G == [m \in D |-> [f \in [D -> V] |-> Body(f, m)]]
           Step(f) == [m \in D |-> Body(f, m)]
           walk == CHOOSE f : f = Step(f)
<1>1. PICK nu \in [D -> Nat] : \A m \in Node : Next(m) \in D /\ nu[Next(m)] < nu[m]
  BY WalkShrinks
<1>w. Walk(top) = walk[top]
  BY Zenon DEF Walk
<1> HIDE DEF Next
<1>2. V # {}
  <2>1. << >> \in V
    OBVIOUS
  <2> QED BY <2>1
<1>3. G \in [D -> [[D -> V] -> V]]
  <2>1. ASSUME NEW m \in D, NEW f \in [D -> V] PROVE Body(f, m) \in V
    <3>1. CASE m = NULL
      BY <3>1
    <3>2. CASE m # NULL
      <4>1. m \in Node /\ f[Next(m)] \in V
        BY <1>1, <3>2
      <4>2. <<m>> \in V
        BY <4>1
      <4> QED BY <3>2, <4>1, <4>2, ConcatProperties
    <3> QED BY <3>1, <3>2
  <2> HIDE DEF Body, V, D
  <2> QED BY <2>1
<1>4. Smaller(D, V, nu, G)
  <2> SUFFICES ASSUME NEW m \in D, NEW f \in [D -> V], NEW g \in [D -> V],
                      \A x \in D : nu[x] < nu[m] => f[x] = g[x]
               PROVE  G[m][f] = G[m][g]
    BY DEF Smaller
  <2>1. Body(f, m) = Body(g, m)
    BY <1>1
  <2> HIDE DEF Body, V, D
  <2> QED BY <2>1
<1>5. Descending(D, V, nu, G)
  <2> HIDE DEF G, D, V
  <2> QED BY <1>1, <1>2, <1>3, <1>4, Zenon DEF Descending
<1>6. PICK f : Satisfies(f, D, V, G)
  <2> HIDE DEF G, D, V
  <2> QED BY <1>5, Recursion, Zenon
<1>7. f \in [D -> V] /\ \A m \in D : f[m] = Body(f, m)
  <2>1. f \in [D -> V] /\ \A m \in D : f[m] = G[m][f]
    <3> HIDE DEF G, D, V
    <3> QED BY <1>6 DEF Satisfies
  <2> HIDE DEF Body, D, V
  <2> QED BY <2>1
<1> HIDE DEF Body, G
<1>8. f = Step(f)
  <2> HIDE DEF D, V
  <2>1. f = [m \in D |-> f[m]]
    BY <1>7
  <2> QED BY <1>7, <2>1, Zenon
<1>9. walk = Step(walk)
  <2>1. \E g : g = Step(g)
    <3> HIDE DEF Step
    <3> QED BY <1>8
  <2> HIDE DEF Step
  <2> QED BY <2>1, Zenon
<1>10. \A m \in D : walk[m] = Body(walk, m)
  <2> HIDE DEF walk
  <2> QED BY <1>9
<1> HIDE DEF walk
<1> DEFINE O == order[top]
           L == Len(O)
<1>11. O \in V /\ L \in Nat /\ 1 <= L /\ O[1] = top /\ \A i \in 1 .. L : O[i] \in Node
  <2>1. O \in V /\ DownAt(order, mu, top)
    BY DEF LaidOut
  <2>2. L \in Nat /\ \A i \in 1 .. L : O[i] \in Node
    BY <2>1, LenProperties
  <2> QED BY <2>1, <2>2 DEF DownAt
<1>12. ASSUME NEW i \in 1 .. L
       PROVE  walk[O[i]] = <<O[i]>> \o (IF i = L THEN << >> ELSE walk[O[i + 1]])
  <2>1. O[i] \in Node /\ O[i] # NULL /\ O[i] \in D
    BY <1>11
  <2>2. Next(O[i]) = IF i = L THEN NULL ELSE O[i + 1]
    <3>1. WalksAt(order, top, i)
      BY Visited
    <3> QED BY <3>1 DEF WalksAt, Next
  <2>3. walk[O[i]] = <<O[i]>> \o walk[Next(O[i])]
    BY <1>10, <2>1 DEF Body
  <2>4. NULL \in D /\ walk[NULL] = << >>
    BY <1>10 DEF Body
  <2> HIDE DEF O
  <2> QED BY <2>2, <2>3, <2>4
<1>13. walk[O[1]] = SubSeq(O, 1, L)
  <2> HIDE DEF O
  <2>1. \A i \in 1 .. L : walk[O[i]] = SubSeq(O, i, L)
    BY <1>11, <1>12, Traced
  <2>2. 1 \in 1 .. L
    BY <1>11
  <2> QED BY <2>1, <2>2
<1>14. SubSeq(O, 1, L) = O
  <2> HIDE DEF O
  <2> QED BY <1>11, SubSeqFull
<1> QED BY <1>w, <1>11, <1>13, <1>14

\* Every forest a client can make is laid out.
LEMMA Layout ==
  ASSUME RInv
  PROVE  /\ NULL \notin Node /\ link \in [Node -> Link] /\ Kept \subseteq Node
         /\ \E kids, mu, depth, M : /\ Family(kids, depth, M) /\ LaidOut(OrderFrom, mu, depth, M)
                                    /\ \A p \in Node : kids[p] = Children(p)
<1> DEFINE kids == [p \in Node |-> Children(p)]
<1>1. PICK depth, M : Family(kids, depth, M)
  BY AFamily
<1>2. NULL \notin Node /\ link \in [Node -> Link] /\ live \subseteq Node
  BY Known
<1>3. \A p \in Node : kids[p] = Children(p)
  OBVIOUS
<1> HIDE DEF kids
<1>4. PICK mu : LaidOut(OrderFrom, mu, depth, M)
  BY <1>1, <1>2, <1>3, ALayout
<1>5. Kept \subseteq Node
  BY <1>2 DEF Kept
<1> QED BY <1>1, <1>2, <1>3, <1>4, <1>5

\* A walk from the top of any subtree meets each of its nodes once, in document
\* order, and a walk back meets them in the reverse order (mxmlWalkNext,
\* mxmlWalkPrev).
LEMMA WalksMeetAll == RInv => WalkMeetsAll
<1> SUFFICES ASSUME RInv, NEW top \in Kept
             PROVE  /\ Walk(top) = InOrder(top)
                    /\ \A i \in 3 .. Len(InOrder(top)) :
                         mxmlWalkPrev(InOrder(top)[i], top, TRUE) = InOrder(top)[i - 1]
  BY Zenon DEF WalkMeetsAll
<1>1. NULL \notin Node /\ link \in [Node -> Link] /\ top \in Node
  BY Layout
<1>2. PICK mu, depth, M : LaidOut(OrderFrom, mu, depth, M)
  BY Layout
<1>3. InOrder(top) = OrderFrom[top]
  BY Zenon DEF InOrder, OrderFrom
<1>4. Walk(top) = OrderFrom[top]
  BY <1>1, <1>2, WalkIs
<1>5. \A i \in 3 .. Len(OrderFrom[top]) : mxmlWalkPrev(OrderFrom[top][i], top, TRUE) = OrderFrom[top][i - 1]
  BY <1>1, <1>2, WalkPrevIs
<1> QED BY <1>3, <1>4, <1>5, Zenon

\* A walk from the top of any subtree that is not being deleted meets each of
\* its nodes once, in document order, and stays inside, and a walk back meets
\* them in the reverse order, after any series of calls (mxmlWalkNext and
\* mxmlWalkPrev, mxml-search.c:215-282).
THEOREM WalksMeetTheSubtree == TreeSpec => []WalkMeetsAll
<1> QED BY TreeShape, WalksMeetAll, PTL

\* What a search makes of a node it comes to: the node, if it is looked for, or
\* what it makes of the next one.
FindFrom(top, hits, how) ==
  CHOOSE f : f = [m \in Node \cup {NULL} |->
                    IF m = NULL \/ m \in hits THEN m
                    ELSE f[IF how = "descend" THEN mxmlWalkNext(m, top, TRUE) ELSE link[m].next]]

Searches(f, top, hits, how) ==
  /\ f[NULL] = NULL
  /\ \A m \in Node :
       f[m] = IF m \in hits THEN m
              ELSE f[IF how = "descend" THEN mxmlWalkNext(m, top, TRUE) ELSE link[m].next]

LEMMA FindIs ==
  ASSUME NULL \notin Node, link \in [Node -> Link],
         NEW order, NEW mu, NEW depth, NEW M, LaidOut(order, mu, depth, M), NEW top \in Node,
         NEW hits, NULL \notin hits, NEW how
  PROVE  Searches(FindFrom(top, hits, how), top, hits, how)
<1> DEFINE D == Node \cup {NULL}
           Next(m) == IF how = "descend" THEN mxmlWalkNext(m, top, TRUE) ELSE link[m].next
           Body(f, m) == IF m = NULL \/ m \in hits THEN m ELSE f[Next(m)]
           G == [m \in D |-> [f \in [D -> D] |-> Body(f, m)]]
           Step(f) == [m \in D |-> Body(f, m)]
           find == CHOOSE f : f = Step(f)
<1>1. PICK nu \in [D -> Nat] : \A m \in Node : Next(m) \in D /\ nu[Next(m)] < nu[m]
  BY WalkShrinks
<1>w. FindFrom(top, hits, how) = find
  BY Zenon DEF FindFrom
<1>n. \A m : Next(m) = IF how = "descend" THEN mxmlWalkNext(m, top, TRUE) ELSE link[m].next
  OBVIOUS
<1> HIDE DEF Next
<1>2. D # {}
  OBVIOUS
<1>3. G \in [D -> [[D -> D] -> D]]
  <2>1. ASSUME NEW m \in D, NEW f \in [D -> D] PROVE Body(f, m) \in D
    BY <1>1
  <2> HIDE DEF Body, D
  <2> QED BY <2>1
<1>4. Smaller(D, D, nu, G)
  <2> SUFFICES ASSUME NEW m \in D, NEW f \in [D -> D], NEW g \in [D -> D],
                      \A x \in D : nu[x] < nu[m] => f[x] = g[x]
               PROVE  G[m][f] = G[m][g]
    BY DEF Smaller
  <2>1. Body(f, m) = Body(g, m)
    BY <1>1
  <2> HIDE DEF Body, D
  <2> QED BY <2>1
<1>5. Descending(D, D, nu, G)
  <2> HIDE DEF G, D
  <2> QED BY <1>1, <1>2, <1>3, <1>4, Zenon DEF Descending
<1>6. PICK f : Satisfies(f, D, D, G)
  <2> HIDE DEF G, D
  <2> QED BY <1>5, Recursion, Zenon
<1>7. f \in [D -> D] /\ \A m \in D : f[m] = Body(f, m)
  <2>1. f \in [D -> D] /\ \A m \in D : f[m] = G[m][f]
    <3> HIDE DEF G, D
    <3> QED BY <1>6 DEF Satisfies
  <2> HIDE DEF Body, D
  <2> QED BY <2>1
<1> HIDE DEF Body, G
<1>8. f = Step(f)
  <2> HIDE DEF D
  <2>1. f = [m \in D |-> f[m]]
    BY <1>7
  <2> QED BY <1>7, <2>1, Zenon
<1>9. find = Step(find)
  <2>1. \E g : g = Step(g)
    <3> HIDE DEF Step
    <3> QED BY <1>8
  <2> HIDE DEF Step
  <2> QED BY <2>1, Zenon
<1>10. \A m \in D : find[m] = Body(find, m)
  <2> HIDE DEF find
  <2> QED BY <1>9
<1> HIDE DEF find
<1>11. find[NULL] = NULL
  BY <1>10 DEF Body
<1>12. ASSUME NEW m \in Node PROVE find[m] = IF m \in hits THEN m ELSE find[Next(m)]
  <2>1. m \in D /\ m # NULL
    OBVIOUS
  <2> HIDE DEF D
  <2> QED BY <1>10, <2>1 DEF Body
<1> QED BY <1>w, <1>n, <1>11, <1>12 DEF Searches

\* A search from a node under top.
LEMMA FindElementIs ==
  ASSUME NEW n, NEW top, NEW hits, NEW how
  PROVE  mxmlFindElement(n, top, hits, how)
           = FindFrom(top, hits, how)[mxmlWalkNext(n, top, how # "no descend")]
BY Zenon DEF mxmlFindElement, FindFrom

LEMMA FindsInOrder ==
  ASSUME NULL \notin Node, link \in [Node -> Link],
         NEW order, NEW mu, NEW depth, NEW M, LaidOut(order, mu, depth, M), NEW top \in Node,
         NEW hits, NULL \notin hits, NEW i \in DOMAIN order[top]
  PROVE  mxmlFindElement(order[top][i], top, hits, "descend")
           = FirstOf(SubSeq(order[top], i + 1, Len(order[top])), hits)
<1> DEFINE find == FindFrom(top, hits, "descend")
           O == order[top]
           L == Len(O)
<1>1. O \in Seq(Node) /\ L \in Nat /\ \A j \in 1 .. L : O[j] \in Node
  <2>1. O \in Seq(Node)
    BY DEF LaidOut
  <2> QED BY <2>1, LenProperties
<1>2. i \in 1 .. L
  BY <1>1
<1>3. \A j \in 1 .. L : mxmlWalkNext(O[j], top, TRUE) = IF j = L THEN NULL ELSE O[j + 1]
  <2>1. \A j \in 1 .. L : WalksAt(order, top, j)
    BY Visited
  <2> QED BY <2>1 DEF WalksAt
<1>4. /\ find[NULL] = NULL
      /\ \A m \in Node : find[m] = IF m \in hits THEN m ELSE find[mxmlWalkNext(m, top, TRUE)]
  <2>1. Searches(find, top, hits, "descend")
    BY FindIs
  <2> HIDE DEF find
  <2> QED BY <2>1 DEF Searches
<1>5. mxmlFindElement(O[i], top, hits, "descend") = find[mxmlWalkNext(O[i], top, TRUE)]
  <2>1. ("descend" # "no descend") = TRUE
    OBVIOUS
  <2>2. mxmlFindElement(O[i], top, hits, "descend") = find[mxmlWalkNext(O[i], top, "descend" # "no descend")]
    BY FindElementIs
  <2> QED BY <2>1, <2>2, Zenon
<1> HIDE DEF find, O
<1>6. ASSUME NEW j \in 1 .. L
      PROVE  find[O[j]] = IF O[j] \in hits THEN O[j] ELSE IF j = L THEN NULL ELSE find[O[j + 1]]
  <2>1. O[j] \in Node
    BY <1>1
  <2>2. find[O[j]] = IF O[j] \in hits THEN O[j] ELSE find[mxmlWalkNext(O[j], top, TRUE)]
    BY <1>4, <2>1
  <2> QED BY <1>3, <1>4, <2>2
<1>7. \A j \in 0 .. L : (IF j = L THEN NULL ELSE find[O[j + 1]]) = FirstOf(SubSeq(O, j + 1, L), hits)
  <2>1. GoesOn(find, O, hits)
    BY <1>6 DEF GoesOn
  <2>2. FindsFirst(find, O, hits)
    BY <1>1, <2>1, FoundFirst
  <2> QED BY <2>2, Zenon DEF FindsFirst
<1>8. i \in 0 .. L
  BY <1>1, <1>2
<1>9. find[mxmlWalkNext(O[i], top, TRUE)] = IF i = L THEN NULL ELSE find[O[i + 1]]
  BY <1>2, <1>3, <1>4
<1> QED BY <1>5, <1>7, <1>8, <1>9 DEF O

SearchesList(s, top, hits) ==
  /\ mxmlFindElement(top, top, hits, "descend first") = FirstOf(s, hits)
  /\ \A i \in DOMAIN s :
       mxmlFindElement(s[i], top, hits, "no descend") = FirstOf(SubSeq(s, i + 1, Len(s)), hits)

LEMMA FindsInList ==
  ASSUME NULL \notin Node, link \in [Node -> Link],
         NEW order, NEW mu, NEW depth, NEW M, LaidOut(order, mu, depth, M), NEW top \in Node,
         NEW kids, Family(kids, depth, M), NEW hits, NULL \notin hits
  PROVE  SearchesList(kids[top], top, hits)
<1> DEFINE B == kids[top]
           L == Len(B)
           How == {"descend first", "no descend"}
<1>1. /\ B \in Seq(Node) /\ L \in Nat /\ link[top].child = IF L = 0 THEN NULL ELSE B[1]
      /\ \A j \in 1 .. L : /\ B[j] \in Node /\ link[B[j]].parent = top /\ depth[top] < depth[B[j]]
                           /\ link[B[j]].next = IF j = L THEN NULL ELSE B[j + 1]
  BY ChildrenIn
<1>2. ASSUME NEW how \in How
      PROVE  /\ FindFrom(top, hits, how)[NULL] = NULL
             /\ \A m \in Node : FindFrom(top, hits, how)[m] = IF m \in hits THEN m ELSE FindFrom(top, hits, how)[link[m].next]
  <2> DEFINE find == FindFrom(top, hits, how)
  <2>1. Searches(find, top, hits, how) /\ how # "descend"
    BY FindIs
  <2> HIDE DEF find
  <2>2. find[NULL] = NULL /\ \A m \in Node : find[m] = IF m \in hits THEN m ELSE find[link[m].next]
    BY <2>1, Zenon DEF Searches
  <2> QED BY <2>2 DEF find
<1> HIDE DEF B
<1>3. ASSUME NEW how \in How, NEW i \in 0 .. L
      PROVE  (IF i = L THEN NULL ELSE FindFrom(top, hits, how)[B[i + 1]]) = FirstOf(SubSeq(B, i + 1, L), hits)
  <2> DEFINE find == FindFrom(top, hits, how)
  <2>0. find[NULL] = NULL /\ \A m \in Node : find[m] = IF m \in hits THEN m ELSE find[link[m].next]
    BY <1>2
  <2> HIDE DEF find
  <2>1. ASSUME NEW j \in 1 .. L
        PROVE  find[B[j]] = IF B[j] \in hits THEN B[j] ELSE IF j = L THEN NULL ELSE find[B[j + 1]]
    <3>1. B[j] \in Node /\ link[B[j]].next = IF j = L THEN NULL ELSE B[j + 1]
      BY <1>1
    <3> QED BY <2>0, <3>1
  <2>2. \A j \in 0 .. L : (IF j = L THEN NULL ELSE find[B[j + 1]]) = FirstOf(SubSeq(B, j + 1, L), hits)
    <3>1. GoesOn(find, B, hits)
      BY <2>1 DEF GoesOn
    <3>2. FindsFirst(find, B, hits)
      BY <1>1, <3>1, FoundFirst
    <3> QED BY <3>2, Zenon DEF FindsFirst
  <2> QED BY <2>2 DEF find
<1>4. mxmlFindElement(top, top, hits, "descend first") = FirstOf(B, hits)
  <2> DEFINE how == "descend first"
             find == FindFrom(top, hits, how)
  <2>1. (how # "no descend") = TRUE /\ how \in How
    OBVIOUS
  <2>2. mxmlFindElement(top, top, hits, how) = find[mxmlWalkNext(top, top, TRUE)]
    <3>1. mxmlFindElement(top, top, hits, how) = find[mxmlWalkNext(top, top, how # "no descend")]
      BY FindElementIs
    <3> QED BY <2>1, <3>1, Zenon
  <2>3. mxmlWalkNext(top, top, TRUE) = link[top].child
    BY DEF mxmlWalkNext
  <2>4. find[NULL] = NULL
    BY <1>2, <2>1
  <2>5. 0 \in 0 .. L /\ 0 + 1 = 1
    BY <1>1
  <2> HIDE DEF how
  <2>6. (IF 0 = L THEN NULL ELSE find[B[1]]) = FirstOf(SubSeq(B, 1, L), hits)
    <3>1. (IF 0 = L THEN NULL ELSE find[B[0 + 1]]) = FirstOf(SubSeq(B, 0 + 1, L), hits)
      BY <1>3, <2>1, <2>5
    <3> QED BY <2>5, <3>1
  <2>7. SubSeq(B, 1, L) = B
    BY <1>1, SubSeqFull
  <2> HIDE DEF find
  <2>8. find[link[top].child] = IF 0 = L THEN NULL ELSE find[B[1]]
    BY <1>1, <2>4
  <2> QED BY <2>2, <2>3, <2>6, <2>7, <2>8 DEF how
<1>5. ASSUME NEW i \in DOMAIN B
      PROVE  mxmlFindElement(B[i], top, hits, "no descend") = FirstOf(SubSeq(B, i + 1, L), hits)
  <2> DEFINE how == "no descend"
             find == FindFrom(top, hits, how)
  <2>1. (how # "no descend") = FALSE /\ how \in How
    OBVIOUS
  <2>2. mxmlFindElement(B[i], top, hits, how) = find[mxmlWalkNext(B[i], top, FALSE)]
    <3>1. mxmlFindElement(B[i], top, hits, how) = find[mxmlWalkNext(B[i], top, how # "no descend")]
      BY FindElementIs
    <3> QED BY <2>1, <3>1, Zenon
  <2>3. i \in 1 .. L /\ i \in 0 .. L
    BY <1>1
  <2>4. B[i] # top
    <3>1. depth[top] < depth[B[i]] /\ depth[top] \in Nat
      BY <1>1, <2>3 DEF LaidOut
    <3> QED BY <3>1
  <2>5. mxmlWalkNext(B[i], top, FALSE) = link[B[i]].next
    <3>1. link[B[i]].parent = top
      BY <1>1, <2>3
    <3> QED BY <2>4, <3>1 DEF mxmlWalkNext
  <2>6. find[NULL] = NULL
    BY <1>2, <2>1
  <2>7. (IF i = L THEN NULL ELSE find[B[i + 1]]) = FirstOf(SubSeq(B, i + 1, L), hits)
    BY <1>3, <2>1, <2>3
  <2> HIDE DEF find
  <2>8. find[link[B[i]].next] = IF i = L THEN NULL ELSE find[B[i + 1]]
    BY <1>1, <2>3, <2>6
  <2> QED BY <2>2, <2>5, <2>7, <2>8 DEF how
<1> QED BY <1>4, <1>5, Zenon DEF B, SearchesList

LEMMA SearchesFindNext == RInv => FindsNext
<1> SUFFICES ASSUME RInv, NEW top \in Kept, NEW hits \in SUBSET Kept
             PROVE  /\ \A i \in DOMAIN InOrder(top) :
                         mxmlFindElement(InOrder(top)[i], top, hits, "descend")
                           = FirstOf(SubSeq(InOrder(top), i + 1, Len(InOrder(top))), hits)
                    /\ mxmlFindElement(top, top, hits, "descend first") = FirstOf(Children(top), hits)
                    /\ \A i \in DOMAIN Children(top) :
                         mxmlFindElement(Children(top)[i], top, hits, "no descend")
                           = FirstOf(SubSeq(Children(top), i + 1, Len(Children(top))), hits)
  BY Zenon DEF FindsNext
<1>1. NULL \notin Node /\ link \in [Node -> Link] /\ top \in Node /\ NULL \notin hits
  BY Layout
<1>2. PICK kids, mu, depth, M : /\ Family(kids, depth, M) /\ LaidOut(OrderFrom, mu, depth, M)
                                /\ \A p \in Node : kids[p] = Children(p)
  BY Layout
<1>3. InOrder(top) = OrderFrom[top] /\ kids[top] = Children(top)
  <2>1. InOrder(top) = OrderFrom[top]
    BY Zenon DEF InOrder, OrderFrom
  <2> QED BY <1>1, <1>2, <2>1
<1>4. \A i \in DOMAIN OrderFrom[top] :
        mxmlFindElement(OrderFrom[top][i], top, hits, "descend")
          = FirstOf(SubSeq(OrderFrom[top], i + 1, Len(OrderFrom[top])), hits)
  BY <1>1, <1>2, FindsInOrder
<1>5. SearchesList(kids[top], top, hits)
  BY <1>1, <1>2, FindsInList
<1> QED BY <1>3, <1>4, <1>5, Zenon DEF SearchesList

\* After any series of calls, a search that descends finds the next element in
\* document order that is looked for, and none when there is none; one that
\* descends first finds the first such child, and one that goes on from a child
\* without descending the next (mxmlFindElement, mxml-search.c:46-117).
THEOREM SearchesFindTheNext == TreeSpec => []FindsNext
<1> QED BY TreeShape, SearchesFindNext, PTL
==============================================================================
