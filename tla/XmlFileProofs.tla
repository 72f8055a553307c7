---------------------------- MODULE XmlFileProofs ----------------------------
(***************************************************************************)
(* Whatever file is loaded, of any length, and whatever a SAX callback     *)
(* retains: the loader points to nodes there are, the pointers of the tree *)
(* are sound, a load leaves nothing behind it does not hand over, what is  *)
(* retained stays unless an element above it goes, and what is not goes.   *)
(***************************************************************************)
EXTENDS XmlFile, XmlTreeProofs, FiniteSetTheorems

-----------------------------------------------------------------------------
(* A forest gains a leaf, or loses a subtree.                              *)

Grove(l, S) ==
  /\ S \in SUBSET Node /\ l \in [Node -> Link] /\ Sound(l, S) /\ Shaped(l, S)
  /\ \E pos \in [Node -> Nat] : Ordered(l, S, pos)

\* The ancestors are the same while those of a set that holds them are.
LEMMA AboveWithin ==
  ASSUME NULL \notin Node, NEW R \in SUBSET Node, NEW l \in [Node -> Link], NEW r \in [Node -> Link],
         \A x \in R : r[x].parent = l[x].parent /\ l[x].parent \in R \cup {NULL},
         NEW m \in R
  PROVE  Above(r, m) = Above(l, m) /\ Above(l, m) \subseteq R
<1>1. /\ m \in Above(l, m) /\ Above(l, m) \subseteq Node /\ UpClosed(l, Above(l, m))
      /\ \A T \in SUBSET Node : m \in T /\ UpClosed(l, T) => Above(l, m) \subseteq T
  BY AboveIsLeast
<1>2. /\ m \in Above(r, m) /\ Above(r, m) \subseteq Node /\ UpClosed(r, Above(r, m))
      /\ \A T \in SUBSET Node : m \in T /\ UpClosed(r, T) => Above(r, m) \subseteq T
  BY AboveIsLeast
<1>3. Above(l, m) \subseteq R
  <2>1. UpClosed(l, R)
    BY DEF UpClosed
  <2> QED BY <1>1, <2>1
<1>4. Above(r, m) \subseteq Above(l, m)
  <2>1. UpClosed(r, Above(l, m))
    BY <1>1, <1>3 DEF UpClosed
  <2> QED BY <1>1, <1>2, <2>1
<1>5. Above(l, m) \subseteq Above(r, m)
  <2> DEFINE T == Above(r, m) \cap R
  <2>1. UpClosed(l, T) /\ m \in T /\ T \in SUBSET Node
    BY <1>2 DEF UpClosed
  <2>2. Above(l, m) \subseteq T
    BY <1>1, <2>1
  <2> QED BY <2>2
<1> QED BY <1>3, <1>4, <1>5

LEMMA NewLeaf ==
  ASSUME NULL \notin Node, NEW l, NEW S, Grove(l, S), NEW n \in Node \ S, NEW p \in S \cup {NULL}, NEW r,
         r = IF p = NULL THEN [l EXCEPT ![n] = Alone]
             ELSE Added([l EXCEPT ![n] = Alone], p, "after", NULL, n)
  PROVE  Grove(r, S \cup {n}) /\ Grafted(l, r, n, p)
<1> DEFINE R == S \cup {n}
<1>1. S \in SUBSET Node /\ l \in [Node -> Link] /\ Sound(l, S) /\ Shaped(l, S)
  BY DEF Grove
<1>2. PICK pos \in [Node -> Nat] : Ordered(l, S, pos)
  BY DEF Grove
<1>3. l[n] = Alone /\ [l EXCEPT ![n] = Alone] = l
  <2>1. l[n] = Alone
    BY DEF Grove, Shaped, Blank
  <2> QED BY <1>1, <2>1
<1>4. Sound(l, R) /\ Ordered(l, R, pos) /\ Shaped(l, R)
  BY <1>1, <1>2, GrownShaped
<1>5. r = IF p = NULL THEN l ELSE Added(l, p, "after", NULL, n)
  BY <1>3
<1>6. R \in SUBSET Node /\ n \in R /\ n # p /\ NULL # n /\ p # n /\ NULL \in R \cup {NULL}
      /\ "after" \in {"before", "after"}
  BY <1>1
<1> HIDE DEF R
<1>7. CASE p = NULL
  <2>1. r = l /\ Grove(l, R)
    BY <1>1, <1>2, <1>4, <1>5, <1>6, <1>7 DEF Grove
  <2>2. Grafted(l, l, n, NULL)
    BY <1>3 DEF Grafted, Alone
  <2> QED BY <1>7, <2>1, <2>2 DEF R
<1>8. CASE p # NULL
  <2>1. p \in S /\ p \in R
    BY <1>8 DEF R
  <2>2. n \notin Above(l, p)
    <3>1. \A x \in S : l[x].parent \in S \cup {NULL}
      BY <1>1 DEF Sound, PointsInto
    <3>2. Above(l, p) \subseteq S
      BY <1>1, <2>1, <3>1, AboveWithin
    <3> QED BY <3>2
  <2>3. r = Added(l, p, "after", NULL, n)
    BY <1>5, <1>8
  <2> DEFINE a == Added(l, p, "after", NULL, n)
  <2>4. a \in [Node -> Link] /\ Sound(a, R) /\ \E new \in [Node -> Nat] : Ordered(a, R, new)
    BY <1>1, <1>2, <1>4, <1>6, <2>1, AddedSound
  <2>5. Shaped(a, R)
    BY <1>1, <1>2, <1>4, <1>6, <2>1, <2>2, AddedShaped
  <2>6. Grafted(l, a, n, p)
    <3>1. Lists(l, R, Kids(l, R))
      BY <1>4 DEF Shaped
    <3> QED BY <1>1, <1>2, <1>4, <1>6, <2>1, <3>1, AddedLists
  <2> HIDE DEF a
  <2>7. Grove(a, R)
    BY <1>6, <2>4, <2>5 DEF Grove
  <2>8. r = a
    BY <2>3 DEF a
  <2> QED BY <2>6, <2>7, <2>8 DEF R
<1> QED BY <1>7, <1>8

\* The leaf has p for parent; the ancestors of the others are what they were.
LEMMA LeafAncestors ==
  ASSUME NULL \notin Node, NEW l, NEW S, Grove(l, S), NEW n \in Node \ S, NEW p \in S \cup {NULL},
         NEW r \in [Node -> Link], Grafted(l, r, n, p)
  PROVE  /\ \A x \in S : Above(r, x) = Above(l, x) /\ Above(l, x) \subseteq S
         /\ Above(r, n) = {n} \cup (IF p = NULL THEN {} ELSE Above(l, p))
<1>1. S \in SUBSET Node /\ l \in [Node -> Link] /\ \A x \in S : l[x].parent \in S \cup {NULL}
  BY DEF Grove, Sound, PointsInto
<1>2. \A x \in Node : r[x].parent = IF x = n THEN p ELSE l[x].parent
  BY DEF Grafted
<1>3. \A x \in S : Above(r, x) = Above(l, x) /\ Above(l, x) \subseteq S
  <2>1. \A x \in S : r[x].parent = l[x].parent /\ l[x].parent \in S \cup {NULL}
    BY <1>1, <1>2
  <2> QED BY <1>1, <2>1, AboveWithin
<1>4. r[n].parent = p
  BY <1>2
<1> QED BY <1>3, <1>4, AboveIs

\* R are whole trees of those of S, and r is l for them.
Whole(l, r, S, R) ==
  /\ R \subseteq S /\ \A x \in R : r[x] = l[x] /\ l[x].parent \in R \cup {NULL}
  /\ \A x \in S : l[x].parent \in R => x \in R

LEMMA ListedWithin ==
  ASSUME NULL \notin Node, NEW S \in SUBSET Node, NEW l, NEW r, NEW R, Whole(l, r, S, R),
         NEW k, Lists(l, S, k)
  PROVE  Lists(r, R, [x \in R |-> k[x]])
<1>0. /\ R \subseteq S /\ \A x \in R : r[x] = l[x] /\ l[x].parent \in R \cup {NULL}
      /\ \A x \in S : l[x].parent \in R => x \in R
  BY DEF Whole
<1> DEFINE kk == [x \in R |-> k[x]]
<1>1. ASSUME NEW x \in R PROVE k[x] \in Seq(R) /\ Listed(r, x, k[x])
  <2>1. x \in S /\ x \in Node /\ x # NULL
    BY <1>0
  <2>2. k[x] \in Seq(S) /\ Listed(l, x, k[x]) /\ \A i \in 1 .. Len(k[x]) : k[x][i] \in S
    BY <2>1, ListsAre
  <2>3. \A i \in 1 .. Len(k[x]) : l[k[x][i]].parent = x
    BY <2>2 DEF Listed
  <2>4. \A i \in 1 .. Len(k[x]) : k[x][i] \in R
    BY <1>0, <2>2, <2>3
  <2>5. k[x] \in Seq(R)
    BY <2>2, <2>4, SeqDef, LenProperties
  <2>6. r[x] = l[x] /\ \A i \in 1 .. Len(k[x]) : r[k[x][i]] = l[k[x][i]]
    BY <1>0, <2>4
  <2>7. /\ r[x].child = l[x].child /\ r[x].last_child = l[x].last_child
        /\ \A i \in 1 .. Len(k[x]) : /\ r[k[x][i]].parent = l[k[x][i]].parent
                                    /\ r[k[x][i]].prev = l[k[x][i]].prev
                                    /\ r[k[x][i]].next = l[k[x][i]].next
    BY <2>6
  <2>8. Listed(r, x, k[x])
    BY <2>2, <2>7, ListedStays, Zenon
  <2> QED BY <2>5, <2>8
<1>2. kk \in [R -> Seq(R)] /\ \A x \in R : kk[x] = k[x]
  BY <1>1
<1> HIDE DEF kk
<1>3. ASSUME NEW m \in R, r[m].parent # NULL
      PROVE  \E i \in 1 .. Len(kk[r[m].parent]) : kk[r[m].parent][i] = m
  <2>1. r[m].parent = l[m].parent /\ l[m].parent \in R /\ m \in S /\ l[m].parent # NULL
    BY <1>0, <1>3
  <2>2. \E i \in 1 .. Len(k[l[m].parent]) : k[l[m].parent][i] = m
    BY <2>1 DEF Lists
  <2>3. kk[r[m].parent] = k[l[m].parent]
    BY <1>2, <2>1
  <2> QED BY <2>2, <2>3, Zenon
<1>4. Lists(r, R, kk)
  BY <1>1, <1>2, <1>3 DEF Lists
<1> QED BY <1>4 DEF kk

\* n goes with all that is under it.
Subtree(l, S, n) == {m \in S : n \in Above(l, m)}

LEMMA SubtreeGone ==
  ASSUME NULL \notin Node, NEW l, NEW S, Grove(l, S), NEW n \in S, NEW r,
         r = [m \in Node |-> IF m \in Subtree(l, S, n) THEN Alone ELSE Removed(l, n)[m]]
  PROVE  /\ Grove(r, S \ Subtree(l, S, n)) /\ n \in Subtree(l, S, n)
         /\ \A x \in S \ Subtree(l, S, n) : r[x].parent = l[x].parent /\ Above(r, x) = Above(l, x)
         /\ \A x \in S \ Subtree(l, S, n) : l[x].parent \in (S \ Subtree(l, S, n)) \cup {NULL}
<1> DEFINE gone == Subtree(l, S, n)
           R == S \ gone
           u == Removed(l, n)
           k == Kids(u, S)
<1>1. S \in SUBSET Node /\ l \in [Node -> Link] /\ Sound(l, S) /\ Shaped(l, S)
      /\ \A x \in S : l[x].parent \in S \cup {NULL}
  BY DEF Grove, Sound, PointsInto
<1>2. PICK pos \in [Node -> Nat] : Ordered(l, S, pos)
  BY DEF Grove
<1>3. u \in [Node -> Link] /\ Sound(u, S) /\ Ordered(u, S, pos) /\ Detached(u, n)
  BY <1>1, <1>2, RemovedSound
<1>4. Shaped(u, S) /\ Cut(l, u, n)
  BY <1>1, <1>2, RemovedShaped
<1> HIDE DEF u
<1>5. n \in gone /\ \A x \in S : x # n => (x \in gone <=> l[x].parent \in gone)
  <2>1. n \in gone
    BY <1>1, AboveIsLeast DEF Subtree
  <2>2. ASSUME NEW x \in S, x # n PROVE x \in gone <=> l[x].parent \in gone
    <3>1. CASE l[x].parent = NULL
      <4>1. Above(l, x) = {x} /\ NULL \notin gone
        BY <1>1, <3>1, AboveIs DEF Subtree
      <4> QED BY <2>2, <3>1, <4>1 DEF Subtree
    <3>2. CASE l[x].parent # NULL
      <4>1. Above(l, x) = {x} \cup Above(l, l[x].parent) /\ l[x].parent \in S
        BY <1>1, <3>2, AboveIs
      <4> QED BY <2>2, <4>1 DEF Subtree
    <3> QED BY <3>1, <3>2
  <2> QED BY <2>1, <2>2
<1>6. gone \subseteq S /\ R \subseteq S /\ NULL \notin gone /\ NULL \notin S
  BY <1>1 DEF Subtree
<1>r. \A x : x \in R <=> x \in S /\ x \notin gone
  OBVIOUS
<1> HIDE DEF gone, R
<1>7. \A x \in Node : u[x].parent = IF x = n THEN NULL ELSE l[x].parent
  BY <1>4 DEF Cut
<1>8. \A x \in S : u[x].parent # NULL => x # n /\ (x \in gone <=> u[x].parent \in gone)
  BY <1>1, <1>5, <1>7
<1>9. \A x \in R : r[x] = u[x]
  BY <1>1, <1>6, <1>r DEF gone, u
<1>10. ASSUME NEW x \in R
       PROVE  /\ u[x].parent \in R \cup {NULL} /\ u[x].child \in R \cup {NULL}
              /\ u[x].last_child \in R \cup {NULL}
              /\ u[x].prev \in R \cup {NULL} /\ u[x].next \in R \cup {NULL}
  <2>1. /\ u[x].parent \in S \cup {NULL} /\ u[x].child \in S \cup {NULL}
        /\ u[x].last_child \in S \cup {NULL}
        /\ u[x].prev \in S \cup {NULL} /\ u[x].next \in S \cup {NULL} /\ x \in S /\ x \notin gone
    BY <1>3, <1>r DEF Sound, PointsInto
  <2>2. u[x].parent \in R \cup {NULL}
    BY <1>8, <1>r, <2>1
  <2>3. u[x].child # NULL => u[u[x].child].parent = x
    BY <1>3, <2>1 DEF Sound, FirstAndLast
  <2>4. u[x].last_child # NULL => u[u[x].last_child].parent = x
    BY <1>3, <2>1 DEF Sound, FirstAndLast
  <2>5. /\ u[x].next # NULL => u[u[x].next].parent = u[x].parent /\ u[x].parent # NULL
        /\ u[x].prev # NULL => u[u[x].prev].parent = u[x].parent /\ u[x].parent # NULL
    BY <1>3, <2>1 DEF Sound, Siblings
  <2>6. u[x].child \in R \cup {NULL} /\ u[x].last_child \in R \cup {NULL}
    BY <1>6, <1>8, <1>r, <2>1, <2>3, <2>4
  <2>7. u[x].prev \in R \cup {NULL} /\ u[x].next \in R \cup {NULL}
    BY <1>6, <1>8, <1>r, <2>1, <2>2, <2>5
  <2> QED BY <2>2, <2>6, <2>7
<1>11. PointsInto(r, R)
  BY <1>9, <1>10 DEF PointsInto
<1>12. Siblings(r, R)
  <2>1. Siblings(u, S)
    BY <1>3 DEF Sound
  <2>2. \A x \in R : /\ x \in S /\ r[x] = u[x]
                    /\ (u[x].next # NULL => r[u[x].next] = u[u[x].next])
                    /\ (u[x].prev # NULL => r[u[x].prev] = u[u[x].prev])
    BY <1>6, <1>9, <1>10
  <2> SUFFICES ASSUME NEW x \in R
               PROVE  /\ r[x].parent = NULL => r[x].prev = NULL /\ r[x].next = NULL
                      /\ r[x].next # NULL => r[r[x].next].prev = x /\ r[r[x].next].parent = r[x].parent
                      /\ r[x].prev # NULL => r[r[x].prev].next = x /\ r[r[x].prev].parent = r[x].parent
    BY DEF Siblings
  <2> QED BY <2>1, <2>2 DEF Siblings
<1>13. FirstAndLast(r, R)
  <2>1. FirstAndLast(u, S)
    BY <1>3 DEF Sound
  <2>2. \A x \in R : /\ x \in S /\ r[x] = u[x]
                    /\ (u[x].child # NULL => r[u[x].child] = u[u[x].child])
                    /\ (u[x].last_child # NULL => r[u[x].last_child] = u[u[x].last_child])
                    /\ (u[x].parent # NULL => r[u[x].parent] = u[u[x].parent])
    BY <1>6, <1>9, <1>10
  <2> SUFFICES ASSUME NEW x \in R
               PROVE  /\ r[x].child # NULL => r[r[x].child].parent = x /\ r[r[x].child].prev = NULL
                      /\ r[x].last_child # NULL => r[r[x].last_child].parent = x /\ r[r[x].last_child].next = NULL
                      /\ r[x].child = NULL <=> r[x].last_child = NULL
                      /\ r[x].parent # NULL /\ r[x].prev = NULL => r[r[x].parent].child = x
                      /\ r[x].parent # NULL /\ r[x].next = NULL => r[r[x].parent].last_child = x
    BY DEF FirstAndLast
  <2> QED BY <2>1, <2>2 DEF FirstAndLast
<1>14. Ordered(r, R, pos)
  BY <1>3, <1>6, <1>9, <1>10 DEF Ordered
<1>15. r \in [Node -> Link] /\ R \in SUBSET Node
  BY <1>1, <1>3, <1>6 DEF u, Alone, Link
<1>16. Blank(r, R)
  <2>1. \A x \in Node \ S : u[x] = Alone
    BY <1>4 DEF Shaped, Blank
  <2>2. \A x \in Node : r[x] = IF x \in gone THEN Alone ELSE u[x]
    BY DEF u, gone
  <2> QED BY <1>r, <2>1, <2>2 DEF Blank
<1>17. PICK h, M : Levels(u, S, h, M)
  BY <1>4 DEF Shaped
<1>18. Levels(r, R, h, M)
  BY <1>6, <1>9, <1>17 DEF Levels
<1>19. Lists(r, R, [x \in R |-> k[x]])
  <2>1. Lists(u, S, k)
    BY <1>4 DEF Shaped
  <2>2. \A x \in R : r[x] = u[x] /\ u[x].parent \in R \cup {NULL}
    BY <1>9, <1>10
  <2>3. \A x \in S : u[x].parent \in R => x \in R
    BY <1>1, <1>6, <1>8, <1>r
  <2>4. Whole(u, r, S, R)
    BY <1>6, <2>2, <2>3 DEF Whole
  <2> HIDE DEF k
  <2> QED BY <1>1, <2>1, <2>4, ListedWithin
<1>20. Sound(r, R)
  BY <1>11, <1>12, <1>13 DEF Sound
<1>21. Shaped(r, R)
  <2> HIDE DEF k
  <2> DEFINE kk == [x \in R |-> k[x]]
  <2>1. Lists(r, R, kk)
    BY <1>19
  <2> HIDE DEF kk
  <2>2. Kids(r, R) = kk
    BY <1>15, <1>16, <1>20, <2>1, KidsAre
  <2> QED BY <1>16, <1>18, <2>1, <2>2 DEF Shaped
<1>22. Grove(r, R)
  BY <1>14, <1>15, <1>20, <1>21 DEF Grove
<1>23. \A x \in R : r[x].parent = l[x].parent /\ l[x].parent \in R \cup {NULL}
  <2> SUFFICES ASSUME NEW x \in R PROVE r[x].parent = l[x].parent /\ l[x].parent \in R \cup {NULL}
    OBVIOUS
  <2>1. x \in Node /\ x # n /\ r[x] = u[x] /\ u[x].parent \in R \cup {NULL}
    BY <1>1, <1>5, <1>6, <1>9, <1>10, <1>r
  <2> QED BY <1>7, <2>1
<1>24. \A x \in R : Above(r, x) = Above(l, x)
  BY <1>1, <1>15, <1>23, AboveWithin
<1> QED BY <1>5, <1>22, <1>23, <1>24 DEF R, gone

LEMMA NoChildren ==
  ASSUME NULL \notin Node, NEW l, NEW S, Grove(l, S), NEW n \in S, \A x \in S : l[x].parent # n
  PROVE  l[n].child = NULL /\ Subtree(l, S, n) = {n} /\ n \in Node
<1>1. /\ S \in SUBSET Node /\ l \in [Node -> Link] /\ n \in Node
      /\ \A x \in S : l[x].parent \in S \cup {NULL} /\ l[x].child \in S \cup {NULL}
      /\ \A x \in S : l[x].child # NULL => l[l[x].child].parent = x
  BY DEF Grove, Sound, PointsInto, FirstAndLast
<1>2. l[n].child = NULL
  BY <1>1
<1> DEFINE R == S \ {n}
<1>3. \A x \in R : l[x].parent \in R \cup {NULL}
  BY <1>1
<1>4. \A x \in R : Above(l, x) \subseteq R
  <2>1. R \in SUBSET Node
    BY <1>1
  <2> HIDE DEF R
  <2> QED BY <1>1, <1>3, <2>1, AboveWithin
<1>5. n \in Above(l, n)
  BY <1>1, AboveIsLeast
<1> QED BY <1>1, <1>2, <1>4, <1>5 DEF Subtree

-----------------------------------------------------------------------------
(* The state of a load, as the record Now.                                 *)

Contents ==
  [k : {"element"}, n : Name \cup Markup, attrs : {<< >>} \cup {t.attrs : t \in Tags}]
  \cup [k : {"text"}, ws : BOOLEAN, s : Seq(Chars \cup {" "})]
  \cup [k : {"integer", "opaque"}, s : Seq(Chars \cup {" "})]

Locals ==
  [parent : Node \cup {NULL}, first : Node \cup {NULL},
   type : {"text", "integer", "opaque", "ignore"}, whitespace : BOOLEAN,
   buffer : Seq(Chars \cup {" "}), retained : SUBSET Node,
   result : {"loading", "loaded", "failed", "crashed"}]

State ==
  [live : SUBSET Node, link : [Node -> Link], ref_count : [Node -> 0 .. MaxRefs],
   what : [Node -> Contents], l : Locals]

\* The elements that are open.
OpenNodes(s) == IF s.l.parent = NULL THEN {} ELSE Above(s.link, s.l.parent)

\* The loader points to nodes there are.
Pointing(s) ==
  s.l.parent \in s.live \cup {NULL} /\ s.l.first \in s.live \cup {NULL} /\ s.l.retained \subseteq s.live

\* Only an element has children.
Kinds(s) ==
  /\ \A n \in s.live : s.link[n].parent # NULL => s.what[s.link[n].parent].k = "element"
  /\ s.l.parent # NULL => s.what[s.l.parent].k = "element"

\* Without a top, the first node is a root, and the elements that are open are
\* under it.
Rooted(s, c) ==
  c.top = NULL =>
    /\ s.l.first # NULL => s.link[s.l.first].parent = NULL
    /\ s.l.parent # NULL => s.l.first # NULL /\ s.l.first \in OpenNodes(s)

Base(s, c) ==
  /\ s \in State /\ Grove(s.link, s.live) /\ Pointing(s) /\ Kinds(s) /\ Rooted(s, c)
  /\ ~c.sax => s.l.retained = {}

\* Without a top, what is not under the first node, and is not in X, is a value
\* outside it.
Reached(s, c, X) ==
  ~c.sax /\ c.top = NULL =>
    \A n \in s.live \ X :
      \/ s.l.first # NULL /\ s.l.first \in Above(s.link, n)
      \/ s.link[n].parent = NULL /\ s.what[n].k # "element"

\* An element that is open is held by the loader, and by the callback if it
\* has retained it.
Balanced(s, c) ==
  c.sax => \A m \in OpenNodes(s) :
    s.what[m].n \in Name => s.ref_count[m] = IF m \in s.l.retained THEN 2 ELSE 1

\* What is neither open nor retained, nor in X, is gone.
Accounted(s, c, X) == c.sax => s.live = s.l.retained \cup OpenNodes(s) \cup X

\* There is room: i pieces have been read, and what is in the buffer is a node
\* to be.
Pending(s) == IF s.l.buffer # << >> \/ s.l.whitespace THEN 1 ELSE 0
Roomy(s, i) == IsFiniteSet(s.live) /\ Cardinality(s.live) + Pending(s) <= i + 2

-----------------------------------------------------------------------------
(* The calls on the tree.                                                  *)

LEMMA FreshIs ==
  ASSUME NEW s, IsFiniteSet(s.live), s.live \subseteq Node, Cardinality(s.live) < MaxPieces + 2
  PROVE  Fresh(s) \in Node \ s.live
<1>1. \E n \in Node : n \notin s.live
  <2> SUFFICES ASSUME Node \subseteq s.live PROVE FALSE
    OBVIOUS
  <2>1. Node = s.live
    OBVIOUS
  <2>2. IsFiniteSet(Node) /\ Cardinality(Node) < MaxPieces + 2
    BY <2>1, Zenon
  <2>3. Cardinality(Node) \in Nat
    BY <2>2, FS_CardinalityType
  <2> QED BY <2>2, <2>3, XmlFileAssumption DEF XmlFileAssumption
<1> QED BY <1>1, Zenon DEF Fresh

\* What NewNode does to the record.
Made(s, t, n, w) ==
  /\ t \in State /\ Grove(t.link, t.live) /\ Grafted(s.link, t.link, n, s.l.parent)
  /\ t.live = s.live \cup {n} /\ t.what = [s.what EXCEPT ![n] = w]
  /\ t.ref_count = [s.ref_count EXCEPT ![n] = 1] /\ t.l = s.l

LEMMA NewNodeIs ==
  ASSUME NEW s \in State, NEW w \in Contents, Grove(s.link, s.live), s.l.parent \in s.live \cup {NULL},
         Fresh(s) \in Node \ s.live
  PROVE  Made(s, NewNode(s, w), Fresh(s), w)
<1> DEFINE n == Fresh(s)
           t == NewNode(s, w)
           p == s.l.parent
           r == IF p = NULL THEN [s.link EXCEPT ![n] = Alone]
                ELSE Added([s.link EXCEPT ![n] = Alone], p, "after", NULL, n)
<1>1. t = [s EXCEPT !.live = @ \cup {n}, !.what[n] = w, !.ref_count[n] = 1, !.link = r]
  BY Zenon DEF NewNode
<1>2. NULL \notin Node /\ 1 \in 0 .. MaxRefs
  BY XmlTreeAssumption DEF XmlTreeAssumption
<1>3. Grove(r, s.live \cup {n}) /\ Grafted(s.link, r, n, p)
  <2>1. n \in Node \ s.live /\ p \in s.live \cup {NULL}
    OBVIOUS
  <2> HIDE DEF n, p
  <2> QED BY <1>2, <2>1, NewLeaf
<1>4. r \in [Node -> Link]
  BY <1>3 DEF Grove
<1> HIDE DEF t, r, n
<1>5. /\ s.live \in SUBSET Node /\ s.ref_count \in [Node -> 0 .. MaxRefs] /\ s.what \in [Node -> Contents]
      /\ s.l \in Locals
      /\ s = [live |-> s.live, link |-> s.link, ref_count |-> s.ref_count, what |-> s.what, l |-> s.l]
  BY DEF State
<1>6. t = [live |-> s.live \cup {n}, link |-> r, ref_count |-> [s.ref_count EXCEPT ![n] = 1],
           what |-> [s.what EXCEPT ![n] = w], l |-> s.l]
  BY <1>1, <1>5
<1>7. n \in Node
  BY DEF n
<1>8. t \in State
  BY <1>2, <1>4, <1>5, <1>6, <1>7 DEF State
<1>9. Made(s, t, n, w)
  BY <1>3, <1>6, <1>8 DEF Made
<1> QED BY <1>9 DEF n, t

\* The function up of Below.
UpTo(l, n) == CHOOSE f : f = [x \in Node \cup {NULL} |-> x # NULL /\ (x = n \/ f[l[x].parent])]

LEMMA BelowIs ==
  ASSUME NULL \notin Node, NEW s, Grove(s.link, s.live), NEW n \in s.live
  PROVE  Below(s, n) = Subtree(s.link, s.live, n)
<1> DEFINE l == s.link
           S == s.live
           Step(f) == [x \in Node \cup {NULL} |-> x # NULL /\ (x = n \/ f[l[x].parent])]
           whole == [x \in Node \cup {NULL} |-> x # NULL /\ n \in Above(l, x)]
           f == UpTo(l, n)
<1>1. S \in SUBSET Node /\ l \in [Node -> Link] /\ Shaped(l, S) /\ \A x \in S : l[x].parent \in S \cup {NULL}
  BY DEF Grove, Sound, PointsInto
<1>2. PICK h, M : Levels(l, S, h, M)
  BY <1>1 DEF Shaped
<1>s. Below(s, n) = {m \in S : f[m]}
  BY Zenon DEF Below, UpTo
<1> HIDE DEF l, S
<1>3. \A x \in Node : /\ l[x].parent \in Node \cup {NULL}
                      /\ n \in Above(l, x) <=> x = n \/ (l[x].parent # NULL /\ n \in Above(l, l[x].parent))
  <2> SUFFICES ASSUME NEW x \in Node
               PROVE  /\ l[x].parent \in Node \cup {NULL}
                      /\ n \in Above(l, x) <=> x = n \/ (l[x].parent # NULL /\ n \in Above(l, l[x].parent))
    OBVIOUS
  <2>1. l[x].parent \in Node \cup {NULL}
    BY <1>1 DEF Link
  <2>2. CASE l[x].parent = NULL
    <3>1. Above(l, x) = {x}
      BY <1>1, <2>2, AboveIs
    <3> QED BY <2>1, <2>2, <3>1
  <2>3. CASE l[x].parent # NULL
    <3>1. Above(l, x) = {x} \cup Above(l, l[x].parent)
      BY <1>1, <2>3, AboveIs
    <3> QED BY <2>1, <2>3, <3>1
  <2> QED BY <2>2, <2>3
<1>4. whole = Step(whole)
  <2>1. \A x \in Node \cup {NULL} : whole[x] = (x # NULL /\ n \in Above(l, x))
    BY Zenon
  <2>2. whole = [x \in Node \cup {NULL} |-> whole[x]]
    BY Zenon
  <2> HIDE DEF whole
  <2>3. ASSUME NEW x \in Node \cup {NULL} PROVE whole[x] = (x # NULL /\ (x = n \/ whole[l[x].parent]))
    <3>1. CASE x = NULL
      <4>1. whole[x] = FALSE
        BY <2>1, <3>1
      <4> QED BY <3>1, <4>1
    <3>2. CASE x # NULL
      <4>1. x \in Node /\ l[x].parent \in Node \cup {NULL}
        BY <1>3, <3>2
      <4>2. whole[l[x].parent] <=> l[x].parent # NULL /\ n \in Above(l, l[x].parent)
        BY <2>1, <4>1, Zenon
      <4>3. whole[x] <=> n \in Above(l, x)
        BY <2>1, <3>2, Zenon
      <4>4. whole[x] <=> x # NULL /\ (x = n \/ whole[l[x].parent])
        BY <1>3, <3>2, <4>1, <4>2, <4>3, Zenon
      <4>5. whole[x] \in BOOLEAN
        BY <2>1
      <4> QED BY <4>4, <4>5
    <3> QED BY <3>1, <3>2
  <2> QED BY <2>2, <2>3, Zenon
<1> HIDE DEF whole
<1>5. f = Step(f)
  <2>1. \E g : g = Step(g)
    <3> HIDE DEF Step
    <3> QED BY <1>4
  <2>2. f = CHOOSE g : g = Step(g)
    BY Zenon DEF UpTo
  <2> HIDE DEF Step, f
  <2> QED BY <2>1, <2>2, Zenon
<1> HIDE DEF f
<1>6. \A x \in Node \cup {NULL} : f[x] = (x # NULL /\ (x = n \/ f[l[x].parent]))
  BY <1>5, Zenon
<1> HIDE DEF Step
<1>7. \A m \in S : m \in Node /\ h[m] \in Nat
                   /\ (l[m].parent # NULL => l[m].parent \in S /\ h[l[m].parent] < h[m])
  BY <1>1, <1>2 DEF Levels
<1> DEFINE T == {d \in Nat : \A m \in S : h[m] < d => (f[m] <=> n \in Above(l, m))}
<1>8. 0 \in T
  BY <1>7
<1>9. ASSUME NEW d \in Nat, d \in T PROVE d + 1 \in T
  <2> SUFFICES ASSUME NEW m \in S, h[m] < d + 1 PROVE f[m] <=> n \in Above(l, m)
    OBVIOUS
  <2>1. m \in Node /\ m # NULL
    BY <1>7
  <2>2. f[m] <=> m = n \/ f[l[m].parent]
    <3>1. f[m] = (m # NULL /\ (m = n \/ f[l[m].parent]))
      BY <1>6, <2>1
    <3> QED BY <2>1, <3>1, Zenon
  <2>3. CASE l[m].parent = NULL
    <3>1. f[NULL] = (NULL # NULL /\ (NULL = n \/ f[l[NULL].parent]))
      BY <1>6, Zenon
    <3>2. ~f[l[m].parent]
      BY <2>3, <3>1, Zenon
    <3>3. n \in Above(l, m) <=> m = n
      BY <1>3, <2>1, <2>3
    <3> QED BY <2>2, <3>2, <3>3, Zenon
  <2>4. CASE l[m].parent # NULL
    <3>1. l[m].parent \in S /\ h[l[m].parent] < d
      <4>1. l[m].parent \in S /\ h[l[m].parent] < h[m] /\ h[l[m].parent] \in Nat /\ h[m] \in Nat
        BY <1>7, <2>4
      <4> QED BY <4>1
    <3>2. f[l[m].parent] <=> n \in Above(l, l[m].parent)
      BY <1>9, <3>1
    <3>3. n \in Above(l, m) <=> m = n \/ n \in Above(l, l[m].parent)
      BY <1>3, <2>1, <2>4
    <3> QED BY <2>2, <3>2, <3>3, Zenon
  <2> QED BY <2>3, <2>4
<1> HIDE DEF T
<1>10. Nat \subseteq T
  BY <1>8, <1>9, AllNumbers
<1>11. \A m \in S : f[m] <=> n \in Above(l, m)
  <2> SUFFICES ASSUME NEW m \in S PROVE f[m] <=> n \in Above(l, m)
    OBVIOUS
  <2>1. h[m] \in Nat /\ h[m] < h[m] + 1 /\ h[m] + 1 \in T
    BY <1>7, <1>10
  <2> QED BY <2>1 DEF T
<1>12. {m \in S : f[m]} = {m \in S : n \in Above(l, m)}
  BY <1>11, Zenon
<1> QED BY <1>s, <1>12, Zenon DEF Subtree, S, l

\* What Deleted does to the record.
Gone(s, t, n) ==
  LET gone == Subtree(s.link, s.live, n) IN
  /\ t \in State /\ Grove(t.link, t.live) /\ n \in gone
  /\ t.live = s.live \ gone /\ t.what = s.what
  /\ t.ref_count = [m \in Node |-> IF m \in gone THEN 0 ELSE s.ref_count[m]]
  /\ t.l = [s.l EXCEPT !.retained = s.l.retained \ gone]
  /\ \A x \in t.live : /\ t.link[x].parent = s.link[x].parent /\ Above(t.link, x) = Above(s.link, x)
                       /\ s.link[x].parent \in t.live \cup {NULL}

LEMMA DeletedIs ==
  ASSUME NEW s \in State, Grove(s.link, s.live), NEW n \in s.live
  PROVE  Gone(s, Deleted(s, n), n)
<1> DEFINE t == Deleted(s, n)
           gone == Subtree(s.link, s.live, n)
           u == Removed(s.link, n)
           r == [m \in Node |-> IF m \in gone THEN Alone ELSE u[m]]
<1>1. NULL \notin Node /\ 0 \in 0 .. MaxRefs /\ n # NULL
  BY XmlTreeAssumption DEF XmlTreeAssumption, State
<1>2. gone = Below(s, n)
  BY <1>1, BelowIs
<1>3. t = [s EXCEPT !.live = @ \ gone, !.l.retained = @ \ gone, !.link = r,
                    !.ref_count = [m \in Node |-> IF m \in gone THEN 0 ELSE @[m]]]
  <2> HIDE DEF gone
  <2> QED BY <1>1, <1>2, Zenon DEF Deleted
<1>4. /\ s.live \in SUBSET Node /\ s.ref_count \in [Node -> 0 .. MaxRefs] /\ s.what \in [Node -> Contents]
      /\ s.l \in Locals
      /\ s = [live |-> s.live, link |-> s.link, ref_count |-> s.ref_count, what |-> s.what, l |-> s.l]
  BY DEF State
<1> DEFINE S == s.live \ gone
           counts == [m \in Node |-> IF m \in gone THEN 0 ELSE s.ref_count[m]]
           ll == [s.l EXCEPT !.retained = s.l.retained \ gone]
<1>5. /\ Grove(r, S) /\ n \in gone
      /\ \A x \in S : r[x].parent = s.link[x].parent /\ Above(r, x) = Above(s.link, x)
      /\ \A x \in S : s.link[x].parent \in S \cup {NULL}
  BY <1>1, SubtreeGone
<1> HIDE DEF gone, t, u
<1>6. t = [live |-> S, link |-> r, ref_count |-> counts, what |-> s.what, l |-> ll]
  BY <1>3, <1>4
<1>7. ll \in Locals
  BY <1>4 DEF Locals
<1>8. counts \in [Node -> 0 .. MaxRefs]
  BY <1>1, <1>4
<1>9. r \in [Node -> Link] /\ S \in SUBSET Node
  BY <1>5 DEF Grove
<1> HIDE DEF r, counts, ll, S
<1>10. t \in State
  BY <1>4, <1>6, <1>7, <1>8, <1>9 DEF State
<1>11. /\ t.live = S /\ t.link = r /\ t.ref_count = counts /\ t.what = s.what /\ t.l = ll
  BY <1>6
<1>12. Gone(s, t, n)
  BY <1>5, <1>10, <1>11 DEF Gone, S, counts, ll, gone
<1> QED BY <1>12 DEF t

-----------------------------------------------------------------------------
(* The invariant of the loop.                                              *)

\* What holds of the arguments of a load.
Caller(c) ==
  /\ c.sax \in BOOLEAN /\ c.cb \in {NONE, "integer", "opaque", "ignore"}
  /\ c.sax => c.top = NULL /\ c.cb = NONE

Steady(s, c) ==
  /\ Base(s, c) /\ Reached(s, c, {}) /\ Balanced(s, c) /\ Accounted(s, c, {})
  /\ s.l.result = "loading"

\* n has just been made: nobody has it for a parent.
Midway(s, c, n) ==
  /\ Base(s, c) /\ Reached(s, c, {n}) /\ Balanced(s, c) /\ Accounted(s, c, {n})
  /\ s.l.result = "loading"
  /\ n \in s.live /\ n \notin OpenNodes(s)
  /\ s.link[n].parent = s.l.parent /\ \A x \in s.live : s.link[x].parent # n
  /\ s.ref_count[n] = IF n \in s.l.retained THEN 2 ELSE 1

\* The nodes there were stay, where they were and as they were.
Same(s, t, x) ==
  Above(t.link, x) = Above(s.link, x) /\ t.link[x].parent = s.link[x].parent /\ t.what[x] = s.what[x]

Stays(s, t) ==
  /\ s.live \subseteq t.live /\ t.l.retained \cap s.live = s.l.retained
  /\ \A x \in s.live : Same(s, t, x)

LEMMA OpenAreLive ==
  ASSUME NEW s \in State, Grove(s.link, s.live), s.l.parent \in s.live \cup {NULL}
  PROVE  OpenNodes(s) \subseteq s.live
<1>1. /\ s.live \in SUBSET Node /\ s.link \in [Node -> Link] /\ NULL \notin Node
      /\ \A x \in s.live : s.link[x].parent \in s.live \cup {NULL}
  BY XmlTreeAssumption DEF XmlTreeAssumption, Grove, Sound, PointsInto
<1>2. CASE s.l.parent = NULL
  BY <1>2 DEF OpenNodes
<1>3. CASE s.l.parent # NULL
  <2>1. Above(s.link, s.l.parent) \subseteq s.live
    BY <1>1, <1>3, AboveWithin
  <2> QED BY <1>3, <2>1 DEF OpenNodes
<1> QED BY <1>2, <1>3

LEMMA NewIsMidway ==
  ASSUME NEW s, NEW c, Steady(s, c), NEW n \in Node \ s.live, NEW w \in Contents, NEW t, Made(s, t, n, w)
  PROVE  Midway(t, c, n) /\ Stays(s, t)
<1>1. /\ s \in State /\ Grove(s.link, s.live) /\ Pointing(s) /\ Kinds(s) /\ Rooted(s, c)
      /\ (~c.sax => s.l.retained = {}) /\ s.l.result = "loading"
      /\ Reached(s, c, {}) /\ Balanced(s, c) /\ Accounted(s, c, {})
  BY DEF Steady, Base
<1>2. /\ t \in State /\ Grove(t.link, t.live) /\ Grafted(s.link, t.link, n, s.l.parent)
      /\ t.live = s.live \cup {n} /\ t.what = [s.what EXCEPT ![n] = w]
      /\ t.ref_count = [s.ref_count EXCEPT ![n] = 1] /\ t.l = s.l
  BY DEF Made
<1>3. /\ NULL \notin Node /\ s.live \in SUBSET Node /\ t.link \in [Node -> Link] /\ s.l.parent \in s.live \cup {NULL}
      /\ s.what \in [Node -> Contents] /\ s.ref_count \in [Node -> 0 .. MaxRefs]
      /\ \A x \in s.live : s.link[x].parent \in s.live \cup {NULL}
  BY <1>1, <1>2, XmlTreeAssumption DEF XmlTreeAssumption, State, Pointing, Grove, Sound, PointsInto
<1>4. /\ \A x \in s.live : Above(t.link, x) = Above(s.link, x)
      /\ Above(t.link, n) = {n} \cup (IF s.l.parent = NULL THEN {} ELSE Above(s.link, s.l.parent))
  BY <1>1, <1>2, <1>3, LeafAncestors
<1>5. \A x \in s.live : /\ x # n /\ x \in Node /\ t.link[x].parent = s.link[x].parent
                        /\ t.what[x] = s.what[x] /\ t.ref_count[x] = s.ref_count[x]
  BY <1>2, <1>3 DEF Grafted
<1>6. t.link[n].parent = s.l.parent /\ t.what[n] = w /\ t.ref_count[n] = 1
  BY <1>2, <1>3 DEF Grafted
<1>7. OpenNodes(t) = OpenNodes(s) /\ OpenNodes(s) \subseteq s.live
  BY <1>1, <1>2, <1>3, <1>4, OpenAreLive DEF OpenNodes
<1>8. Pointing(t)
  BY <1>1, <1>2 DEF Pointing
<1>9. Kinds(t)
  BY <1>1, <1>2, <1>3, <1>5, <1>6 DEF Kinds
<1>10. Rooted(t, c)
  BY <1>1, <1>2, <1>5, <1>7 DEF Rooted, Pointing
<1>11. Base(t, c)
  BY <1>1, <1>2, <1>8, <1>9, <1>10 DEF Base
<1>12. Reached(t, c, {n})
  BY <1>1, <1>2, <1>4, <1>5 DEF Reached
<1>13. Balanced(t, c)
  BY <1>1, <1>2, <1>5, <1>7 DEF Balanced
<1>14. Accounted(t, c, {n})
  BY <1>1, <1>2, <1>7 DEF Accounted
<1>15. \A x \in t.live : t.link[x].parent # n
  BY <1>2, <1>3, <1>5, <1>6
<1>16. n \notin t.l.retained /\ n \notin OpenNodes(t) /\ n \in t.live /\ t.l.result = "loading"
  BY <1>1, <1>2, <1>7 DEF Pointing
<1>17. Midway(t, c, n)
  BY <1>2, <1>6, <1>11, <1>12, <1>13, <1>14, <1>15, <1>16 DEF Midway
<1>18. Stays(s, t)
  BY <1>1, <1>2, <1>4, <1>5 DEF Stays, Pointing, Same
<1> QED BY <1>17, <1>18

\* Everything but n stays, and nothing comes.
Spared(s, t, n) ==
  /\ s.live \ {n} \subseteq t.live /\ t.live \subseteq s.live
  /\ t.l.retained \ {n} = s.l.retained \ {n}
  /\ \A x \in s.live \ {n} : Same(s, t, x)

LEMMA SparedStays ==
  ASSUME NEW s, NEW m, NEW t, NEW n, n \notin s.live, s.l.retained \subseteq s.live, Stays(s, m), Spared(m, t, n)
  PROVE  Stays(s, t)
BY DEF Stays, Spared, Same

LEMMA SparedTwice ==
  ASSUME NEW s, NEW m, NEW t, NEW n, Spared(s, m, n), Spared(m, t, n)
  PROVE  Spared(s, t, n)
BY DEF Spared, Same

LEMMA ShownIs ==
  ASSUME NEW s, NEW n, Midway(s, setting, n), n \notin s.l.retained, NEW keep, NEW t, t = Shown(s, n, keep)
  PROVE  /\ Midway(t, setting, n) /\ Spared(s, t, n)
         /\ t.live = s.live /\ t.link = s.link /\ t.what = s.what
         /\ t.l = IF setting.sax /\ keep THEN [s.l EXCEPT !.retained = @ \cup {n}] ELSE s.l
<1>1. CASE ~(setting.sax /\ keep)
  <2>1. t = s
    BY <1>1 DEF Shown
  <2> QED BY <1>1, <2>1 DEF Spared, Same
<1>2. CASE setting.sax /\ keep
  <2>1. /\ s \in State /\ Base(s, setting) /\ Balanced(s, setting) /\ Accounted(s, setting, {n})
        /\ s.l.result = "loading" /\ n \in s.live /\ n \notin OpenNodes(s)
        /\ s.link[n].parent = s.l.parent /\ \A x \in s.live : s.link[x].parent # n
        /\ s.ref_count[n] = 1
    BY DEF Midway, Base
  <2>2. t = [s EXCEPT !.ref_count[n] = @ + 1, !.l.retained = @ \cup {n}]
    BY <1>2 DEF Shown
  <2>3. /\ s.live \in SUBSET Node /\ s.ref_count \in [Node -> 0 .. MaxRefs] /\ s.l \in Locals
        /\ s = [live |-> s.live, link |-> s.link, ref_count |-> s.ref_count, what |-> s.what, l |-> s.l]
    BY <2>1 DEF State
  <2> DEFINE counts == [s.ref_count EXCEPT ![n] = 2]
             ll == [s.l EXCEPT !.retained = @ \cup {n}]
  <2>c. [s.ref_count EXCEPT ![n] = @ + 1] = counts
    BY <2>1, <2>3
  <2>t. t = [s EXCEPT !.ref_count = [s.ref_count EXCEPT ![n] = @ + 1], !.l = ll]
    BY <2>2
  <2>4. t = [live |-> s.live, link |-> s.link, ref_count |-> counts, what |-> s.what, l |-> ll]
    <3> HIDE DEF ll, counts
    <3>1. t = [s EXCEPT !.ref_count = counts, !.l = ll]
      BY <2>c, <2>t
    <3> QED BY <2>3, <3>1
  <2>5. 2 \in 0 .. MaxRefs
    BY XmlFileAssumption, XmlTreeAssumption DEF XmlFileAssumption, XmlTreeAssumption
  <2>6. /\ ll \in Locals /\ ll.retained = s.l.retained \cup {n} /\ ll.parent = s.l.parent
        /\ ll.first = s.l.first /\ ll.result = s.l.result
    BY <2>1, <2>3 DEF Locals
  <2>7. counts \in [Node -> 0 .. MaxRefs] /\ counts[n] = 2 /\ \A x \in Node : x # n => counts[x] = s.ref_count[x]
    BY <2>1, <2>3, <2>5
  <2> HIDE DEF counts, ll
  <2>8. /\ t.live = s.live /\ t.link = s.link /\ t.ref_count = counts /\ t.what = s.what /\ t.l = ll
    BY <2>4
  <2>9. t \in State
    BY <2>1, <2>4, <2>6, <2>7 DEF State
  <2>10. OpenNodes(t) = OpenNodes(s)
    BY <2>6, <2>8 DEF OpenNodes
  <2>11. Base(t, setting)
    <3>1. Pointing(t)
      BY <2>1, <2>6, <2>8 DEF Base, Pointing
    <3>2. Kinds(t)
      BY <2>1, <2>6, <2>8 DEF Base, Kinds
    <3>3. Rooted(t, setting)
      BY <2>1, <2>6, <2>8, <2>10 DEF Base, Rooted
    <3> QED BY <1>2, <2>1, <2>8, <2>9, <3>1, <3>2, <3>3 DEF Base
  <2>12. Reached(t, setting, {n})
    BY <1>2 DEF Reached
  <2>13. Balanced(t, setting)
    <3>1. OpenNodes(s) \subseteq Node
      BY <2>1, <2>3, OpenAreLive DEF Base, Pointing
    <3> QED BY <2>1, <2>6, <2>7, <2>8, <2>10, <3>1 DEF Balanced
  <2>14. Accounted(t, setting, {n})
    BY <2>1, <2>6, <2>8, <2>10 DEF Accounted
  <2>15. Midway(t, setting, n)
    BY <2>1, <2>6, <2>7, <2>8, <2>10, <2>11, <2>12, <2>13, <2>14 DEF Midway
  <2>16. Spared(s, t, n)
    BY <2>6, <2>8 DEF Spared, Same
  <2> QED BY <1>2, <2>8, <2>15, <2>16 DEF ll
<1> QED BY <1>1, <1>2

LEMMA FirstSet ==
  ASSUME NEW s, NEW c, NEW n, Midway(s, c, n), s.l.first = NULL
  PROVE  /\ Midway([s EXCEPT !.l.first = n], c, n) /\ Spared(s, [s EXCEPT !.l.first = n], n)
         /\ c.top = NULL => s.l.parent = NULL
<1> DEFINE t == [s EXCEPT !.l.first = n]
           ll == [s.l EXCEPT !.first = n]
<1>1. /\ s \in State /\ Grove(s.link, s.live) /\ Pointing(s) /\ Kinds(s) /\ Rooted(s, c)
      /\ (~c.sax => s.l.retained = {}) /\ Balanced(s, c) /\ Accounted(s, c, {n}) /\ Reached(s, c, {n})
      /\ s.l.result = "loading" /\ n \in s.live /\ n \notin OpenNodes(s)
      /\ s.link[n].parent = s.l.parent /\ \A x \in s.live : s.link[x].parent # n
      /\ s.ref_count[n] = IF n \in s.l.retained THEN 2 ELSE 1
  BY DEF Midway, Base
<1>2. /\ s.live \in SUBSET Node /\ s.l \in Locals
      /\ s = [live |-> s.live, link |-> s.link, ref_count |-> s.ref_count, what |-> s.what, l |-> s.l]
  BY <1>1 DEF State
<1>3. t = [live |-> s.live, link |-> s.link, ref_count |-> s.ref_count, what |-> s.what, l |-> ll]
  BY <1>2
<1>4. /\ ll \in Locals /\ ll.retained = s.l.retained /\ ll.parent = s.l.parent
      /\ ll.first = n /\ ll.result = s.l.result
  BY <1>1, <1>2 DEF Locals
<1> HIDE DEF ll, t
<1>5. /\ t.live = s.live /\ t.link = s.link /\ t.ref_count = s.ref_count /\ t.what = s.what /\ t.l = ll
  BY <1>3
<1>6. t \in State
  BY <1>1, <1>3, <1>4 DEF State
<1>7. OpenNodes(t) = OpenNodes(s)
  BY <1>4, <1>5 DEF OpenNodes
<1>8. c.top = NULL => s.l.parent = NULL
  BY <1>1 DEF Rooted
<1>9. Base(t, c)
  BY <1>1, <1>4, <1>5, <1>6, <1>7, <1>8 DEF Base, Pointing, Kinds, Rooted
<1>10. Reached(t, c, {n})
  BY <1>1, <1>4, <1>5 DEF Reached
<1>11. Balanced(t, c) /\ Accounted(t, c, {n})
  BY <1>1, <1>4, <1>5, <1>7 DEF Balanced, Accounted
<1>12. Midway(t, c, n)
  BY <1>1, <1>4, <1>5, <1>7, <1>9, <1>10, <1>11 DEF Midway
<1>13. Spared(s, t, n)
  BY <1>4, <1>5 DEF Spared, Same
<1> QED BY <1>8, <1>12, <1>13 DEF t

\* The ways a new leaf settles: nobody counts, ...
LEMMA LeafStays ==
  ASSUME NEW s, NEW c, NEW n, Midway(s, c, n), ~c.sax,
         s.l.first = n \/ s.l.parent # NULL \/ s.what[n].k # "element"
  PROVE  Steady(s, c)
<1>1. /\ Base(s, c) /\ Reached(s, c, {n}) /\ Balanced(s, c) /\ s.l.result = "loading"
      /\ s.link[n].parent = s.l.parent /\ n \in s.live /\ s.live \in SUBSET Node /\ s.link \in [Node -> Link]
      /\ NULL \notin Node
  BY XmlTreeAssumption DEF XmlTreeAssumption, Midway, Base, State
<1>2. Reached(s, c, {})
  <2> SUFFICES ASSUME c.top = NULL, s.l.first = NULL \/ s.l.first \notin Above(s.link, n)
               PROVE  s.link[n].parent = NULL /\ s.what[n].k # "element"
    BY <1>1 DEF Reached
  <2>1. s.l.first # n
    BY <1>1, AboveIsLeast
  <2>2. CASE s.l.parent # NULL
    <3>1. s.l.first # NULL /\ s.l.first \in Above(s.link, s.l.parent)
      BY <1>1, <2>2 DEF Base, Rooted, OpenNodes
    <3>2. Above(s.link, n) = {n} \cup Above(s.link, s.l.parent)
      BY <1>1, <2>2, AboveIs
    <3> QED BY <3>1, <3>2
  <2>3. CASE s.l.parent = NULL
    BY <1>1, <2>1, <2>3
  <2> QED BY <2>2, <2>3
<1>3. Accounted(s, c, {})
  BY DEF Accounted
<1> QED BY <1>1, <1>2, <1>3 DEF Steady

\* ... the callback keeps it, ...
Unheld(s, n) == [s EXCEPT !.ref_count[n] = @ - 1]

LEMMA LeafHeld ==
  ASSUME NEW s, NEW c, NEW n, Midway(s, c, n), c.sax, n \in s.l.retained,
         NEW t, t = Unheld(s, n)
  PROVE  /\ Steady(t, c) /\ Spared(s, t, n)
         /\ t.live = s.live /\ t.link = s.link /\ t.what = s.what /\ t.l = s.l
<1> DEFINE counts == [s.ref_count EXCEPT ![n] = 1]
<1>1. /\ s \in State /\ Base(s, c) /\ Balanced(s, c) /\ Accounted(s, c, {n})
      /\ s.l.result = "loading" /\ n \in s.live /\ n \notin OpenNodes(s) /\ s.ref_count[n] = 2
  BY DEF Midway, Base
<1>2. /\ s.live \in SUBSET Node /\ s.ref_count \in [Node -> 0 .. MaxRefs]
      /\ s = [live |-> s.live, link |-> s.link, ref_count |-> s.ref_count, what |-> s.what, l |-> s.l]
  BY <1>1 DEF State
<1>3. t = [live |-> s.live, link |-> s.link, ref_count |-> counts, what |-> s.what, l |-> s.l]
  BY <1>1, <1>2 DEF Unheld
<1>4. 1 \in 0 .. MaxRefs
  BY XmlTreeAssumption DEF XmlTreeAssumption
<1>5. counts \in [Node -> 0 .. MaxRefs] /\ \A x \in Node : x # n => counts[x] = s.ref_count[x]
  BY <1>1, <1>2, <1>4
<1> HIDE DEF counts
<1>6. /\ t.live = s.live /\ t.link = s.link /\ t.ref_count = counts /\ t.what = s.what /\ t.l = s.l
  BY <1>3
<1>7. t \in State
  BY <1>1, <1>3, <1>5 DEF State
<1>8. OpenNodes(t) = OpenNodes(s) /\ OpenNodes(s) \subseteq Node
  BY <1>1, <1>2, <1>6, OpenAreLive DEF OpenNodes, Base, Pointing
<1>9. Base(t, c)
  BY <1>1, <1>6, <1>7, <1>8 DEF Base, Pointing, Kinds, Rooted
<1>10. Reached(t, c, {})
  BY DEF Reached
<1>11. Balanced(t, c)
  BY <1>1, <1>5, <1>6, <1>8 DEF Balanced
<1>12. Accounted(t, c, {})
  BY <1>1, <1>6, <1>8 DEF Accounted
<1>13. Steady(t, c)
  BY <1>1, <1>6, <1>9, <1>10, <1>11, <1>12 DEF Steady
<1>14. Spared(s, t, n)
  BY <1>6 DEF Spared, Same
<1> QED BY <1>6, <1>13, <1>14

\* ... or it goes; where it was the first node, there is none then.
Dropped(s, n) ==
  LET t == Deleted(s, n) IN IF t.l.first = n THEN [t EXCEPT !.l.first = NULL] ELSE t

LEMMA LeafDropped ==
  ASSUME NEW s, NEW c, NEW n, Midway(s, c, n), n \notin s.l.retained, NEW t, t = Dropped(s, n)
  PROVE  /\ Steady(t, c) /\ Spared(s, t, n) /\ n \notin t.live
         /\ t.what = s.what /\ \A x \in t.live : t.link[x].parent = s.link[x].parent
         /\ t.l = [s.l EXCEPT !.first = IF s.l.first = n THEN NULL ELSE s.l.first]
<1> DEFINE d == Deleted(s, n)
           ll == [s.l EXCEPT !.first = IF s.l.first = n THEN NULL ELSE s.l.first]
<1>1. /\ s \in State /\ Grove(s.link, s.live) /\ Pointing(s) /\ Kinds(s) /\ Rooted(s, c)
      /\ (~c.sax => s.l.retained = {}) /\ Balanced(s, c) /\ Accounted(s, c, {n}) /\ Reached(s, c, {n})
      /\ s.l.result = "loading" /\ n \in s.live /\ n \notin OpenNodes(s)
      /\ s.link[n].parent = s.l.parent /\ \A x \in s.live : s.link[x].parent # n
  BY DEF Midway, Base
<1>2. Subtree(s.link, s.live, n) = {n} /\ n \in Node /\ NULL \notin Node
  BY <1>1, NoChildren, XmlTreeAssumption DEF XmlTreeAssumption
<1>3. Gone(s, d, n)
  BY <1>1, DeletedIs
<1> HIDE DEF d
<1>4. /\ d \in State /\ Grove(d.link, d.live) /\ d.live = s.live \ {n} /\ d.what = s.what
      /\ d.ref_count = [m \in Node |-> IF m = n THEN 0 ELSE s.ref_count[m]]
      /\ d.l = [s.l EXCEPT !.retained = s.l.retained \ {n}]
      /\ \A x \in d.live : /\ d.link[x].parent = s.link[x].parent /\ Above(d.link, x) = Above(s.link, x)
                           /\ s.link[x].parent \in d.live \cup {NULL}
  <2>1. \A m : m \in {n} <=> m = n
    OBVIOUS
  <2> QED BY <1>2, <1>3, <2>1 DEF Gone
<1>5. /\ s.live \in SUBSET Node /\ s.l \in Locals /\ s.ref_count \in [Node -> 0 .. MaxRefs]
      /\ d = [live |-> d.live, link |-> d.link, ref_count |-> d.ref_count, what |-> d.what, l |-> d.l]
  BY <1>1, <1>4 DEF State
<1>6. d.l = s.l
  <2>1. s.l.retained \ {n} = s.l.retained
    OBVIOUS
  <2> QED BY <1>4, <1>5, <2>1, ZenonT(60) DEF Locals
<1>7. t = [live |-> d.live, link |-> d.link, ref_count |-> d.ref_count, what |-> d.what, l |-> ll]
  <2>1. t = IF d.l.first = n THEN [d EXCEPT !.l.first = NULL] ELSE d
    BY DEF Dropped, d
  <2>2. CASE s.l.first = n
    BY <1>5, <1>6, <2>1, <2>2
  <2>3. CASE s.l.first # n
    <3>1. ll = s.l
      BY <1>5, <2>3 DEF Locals
    <3> HIDE DEF ll
    <3> QED BY <1>5, <1>6, <2>1, <2>3, <3>1
  <2> QED BY <2>2, <2>3
<1>8. /\ ll \in Locals /\ ll.retained = s.l.retained /\ ll.parent = s.l.parent
      /\ ll.first = (IF s.l.first = n THEN NULL ELSE s.l.first) /\ ll.result = s.l.result
  BY <1>5 DEF Locals
<1>9. t.l = ll
  BY <1>7
<1> HIDE DEF ll
<1>10. /\ t.live = s.live \ {n} /\ t.link = d.link /\ t.ref_count = d.ref_count /\ t.what = s.what
  BY <1>4, <1>7
<1>11. t \in State
  BY <1>4, <1>7, <1>8 DEF State
<1>12. OpenNodes(t) = OpenNodes(s) /\ OpenNodes(s) \subseteq s.live
  <2>1. OpenNodes(s) \subseteq s.live
    BY <1>1, OpenAreLive DEF Pointing
  <2>2. CASE s.l.parent = NULL
    BY <1>8, <1>9, <2>1, <2>2 DEF OpenNodes
  <2>3. CASE s.l.parent # NULL
    <3>1. s.l.parent \in s.live /\ s.link \in [Node -> Link] /\ s.live \in SUBSET Node
      BY <1>1, <1>5, <2>3 DEF Pointing, State
    <3>2. s.l.parent \in Above(s.link, s.l.parent)
      BY <1>2, <3>1, AboveIsLeast
    <3>3. s.l.parent # n
      BY <1>1, <2>3, <3>2 DEF OpenNodes
    <3>4. s.l.parent \in d.live
      BY <1>4, <3>1, <3>3
    <3> QED BY <1>4, <1>8, <1>9, <1>10, <2>1, <2>3, <3>4 DEF OpenNodes
  <2> QED BY <2>2, <2>3
<1>p. s.l.parent # n
  <2>1. CASE s.l.parent = NULL
    BY <1>2, <2>1
  <2>2. CASE s.l.parent # NULL
    <3>1. s.l.parent \in s.live /\ s.link \in [Node -> Link] /\ s.live \in SUBSET Node
      BY <1>1, <1>5, <2>2 DEF Pointing, State
    <3>2. s.l.parent \in Above(s.link, s.l.parent)
      BY <1>2, <3>1, AboveIsLeast
    <3> QED BY <1>1, <2>2, <3>2 DEF OpenNodes
  <2> QED BY <2>1, <2>2
<1>13. Pointing(t)
  BY <1>1, <1>8, <1>9, <1>10, <1>p DEF Pointing
<1>14. Kinds(t)
  <2>1. \A x \in t.live : x \in s.live /\ t.link[x].parent = s.link[x].parent
    BY <1>4, <1>10
  <2> QED BY <1>1, <1>8, <1>9, <1>10, <2>1 DEF Kinds
<1>15. Rooted(t, c)
  <2>1. \A x \in t.live : t.link[x].parent = s.link[x].parent
    BY <1>4, <1>10
  <2> SUFFICES ASSUME c.top = NULL
               PROVE  /\ ll.first # NULL => t.link[ll.first].parent = NULL
                      /\ s.l.parent # NULL => ll.first # NULL /\ ll.first \in OpenNodes(s)
    BY <1>8, <1>9, <1>12 DEF Rooted
  <2>2. CASE s.l.first = n
    BY <1>1, <1>8, <2>2 DEF Rooted
  <2>3. CASE s.l.first # n
    BY <1>1, <1>8, <1>10, <2>1, <2>3 DEF Rooted, Pointing
  <2> QED BY <2>2, <2>3
<1>16. Base(t, c)
  BY <1>1, <1>4, <1>8, <1>9, <1>10, <1>11, <1>13, <1>14, <1>15 DEF Base
<1>17. Reached(t, c, {})
  <2> SUFFICES ASSUME ~c.sax, c.top = NULL, NEW m \in s.live \ {n}
               PROVE  \/ ll.first # NULL /\ ll.first \in Above(t.link, m)
                      \/ t.link[m].parent = NULL /\ t.what[m].k # "element"
    BY <1>9, <1>10 DEF Reached
  <2>1. \/ s.l.first # NULL /\ s.l.first \in Above(s.link, m)
        \/ s.link[m].parent = NULL /\ s.what[m].k # "element"
    BY <1>1 DEF Reached
  <2>2. n \notin Above(s.link, m)
    BY <1>2 DEF Subtree
  <2>3. m \in d.live
    BY <1>4
  <2> QED BY <1>4, <1>8, <1>10, <2>1, <2>2, <2>3
<1>18. Balanced(t, c)
  <2>1. \A m \in OpenNodes(s) : t.ref_count[m] = s.ref_count[m]
    BY <1>1, <1>4, <1>5, <1>10, <1>12
  <2> QED BY <1>1, <1>8, <1>9, <1>10, <1>12, <2>1 DEF Balanced
<1>19. Accounted(t, c, {})
  BY <1>1, <1>8, <1>9, <1>10, <1>12 DEF Accounted
<1>20. Steady(t, c)
  BY <1>1, <1>8, <1>9, <1>16, <1>17, <1>18, <1>19 DEF Steady
<1>21. Spared(s, t, n)
  BY <1>4, <1>8, <1>9, <1>10 DEF Spared, Same
<1> QED BY <1>4, <1>9, <1>10, <1>20, <1>21 DEF ll

\* The value being read, and where, is the same.
Reading(s, t) ==
  /\ t.l.parent = s.l.parent /\ t.l.type = s.l.type /\ t.l.whitespace = s.l.whitespace
  /\ t.l.buffer = s.l.buffer /\ t.l.result = s.l.result

\* What Handed does to the record.
Settled(s, t, n) ==
  /\ Steady(t, setting) /\ Spared(s, t, n) /\ t.what = s.what
  /\ Reading(s, t)
  /\ n \in t.live => /\ t.link[n].parent = s.l.parent /\ t.l.first # NULL
                     /\ s.l.first = NULL => t.l.first = n
                     /\ setting.sax => n \in t.l.retained
  /\ n \notin t.live => setting.sax
  /\ n \notin t.live \/ s.l.first # NULL => t.l.first = s.l.first

LEMMA HandedIs ==
  ASSUME NEW s, NEW n, Midway(s, setting, n), n \notin s.l.retained, s.l.first # n,
         s.what[n].k # "element" \/ s.l.first = NULL \/ s.l.parent # NULL,
         NEW keep \in BOOLEAN, NEW t, t = Handed(s, n, keep)
  PROVE  Settled(s, t, n)
<1> DEFINE u == Shown(s, n, keep)
           r == Released(u, n)
<1>0. /\ s \in State /\ n \in s.live /\ s.live \in SUBSET Node /\ s.l \in Locals /\ s.link[n].parent = s.l.parent
      /\ NULL \notin Node /\ s.ref_count \in [Node -> 0 .. MaxRefs] /\ s.ref_count[n] = 1
  BY XmlTreeAssumption DEF XmlTreeAssumption, Midway, Base, State
<1>1. CASE ~setting.sax
  <2>1. t = IF s.l.first = NULL THEN [s EXCEPT !.l.first = n] ELSE s
    BY <1>0, <1>1 DEF Handed
  <2>2. CASE s.l.first = NULL
    <3> DEFINE v == [s EXCEPT !.l.first = n]
    <3>1. Midway(v, setting, n) /\ Spared(s, v, n)
      BY <2>2, FirstSet
    <3>2. /\ v.live = s.live /\ v.link = s.link /\ v.what = s.what /\ v.l = [s.l EXCEPT !.first = n]
          /\ v.l.first = n /\ Reading(s, v)
      BY <1>0 DEF State, Locals, Reading
    <3> HIDE DEF v
    <3>3. Steady(v, setting)
      BY <1>1, <3>1, <3>2, LeafStays
    <3>4. t = v
      BY <2>1, <2>2 DEF v
    <3> QED BY <1>0, <1>1, <2>2, <3>1, <3>2, <3>3, <3>4 DEF Settled
  <2>3. CASE s.l.first # NULL
    <3>1. Steady(s, setting)
      BY <1>1, <2>3, LeafStays
    <3>2. Spared(s, s, n)
      BY DEF Spared, Same
    <3> QED BY <1>0, <1>1, <2>1, <2>3, <3>1, <3>2 DEF Settled, Reading
  <2> QED BY <2>2, <2>3
<1>2. CASE setting.sax /\ keep
  <2>1. /\ Midway(u, setting, n) /\ Spared(s, u, n)
        /\ u.live = s.live /\ u.link = s.link /\ u.what = s.what
        /\ u.l = IF setting.sax /\ keep THEN [s.l EXCEPT !.retained = @ \cup {n}] ELSE s.l
    BY ShownIs
  <2> HIDE DEF u
  <2>2. u.l.first = s.l.first /\ n \in u.l.retained /\ Reading(s, u)
    <3>1. u.l = [s.l EXCEPT !.retained = s.l.retained \cup {n}]
      BY <1>2, <2>1
    <3> QED BY <1>0, <3>1 DEF Locals, Reading
  <2>3. u.ref_count[n] = 2 /\ u \in State
    BY <2>1, <2>2 DEF Midway, Base
  <2>4. r = [u EXCEPT !.ref_count[n] = @ - 1]
    BY <2>3 DEF Released
  <2>5. u = [live |-> u.live, link |-> u.link, ref_count |-> u.ref_count, what |-> u.what, l |-> u.l]
    BY <2>3 DEF State
  <2>6. r.live = u.live /\ r.l = u.l /\ r.link = u.link /\ r.what = u.what
    BY <2>4, <2>5
  <2>7. t = IF u.l.first = NULL THEN [r EXCEPT !.l.first = n] ELSE r
    BY <1>0, <1>2, <2>1, <2>6 DEF Handed, r, u
  <2>8. CASE s.l.first = NULL
    <3> DEFINE v == [u EXCEPT !.l.first = n]
    <3>1. Midway(v, setting, n) /\ Spared(u, v, n)
      BY <2>1, <2>2, <2>8, FirstSet
    <3>2. /\ v.live = u.live /\ v.link = u.link /\ v.what = u.what /\ v.l = [u.l EXCEPT !.first = n]
          /\ v.ref_count = u.ref_count
          /\ v = [live |-> v.live, link |-> v.link, ref_count |-> v.ref_count, what |-> v.what, l |-> v.l]
      BY <2>5
    <3>3. t = Unheld(v, n)
      BY <2>2, <2>4, <2>5, <2>7, <2>8 DEF Unheld
    <3> HIDE DEF v
    <3>4. u.l \in Locals
      BY <2>3 DEF State
    <3>5. v.l.retained = u.l.retained /\ v.l.first = n /\ Reading(u, v)
      BY <3>2, <3>4 DEF Locals, Reading
    <3>6. /\ Steady(t, setting) /\ Spared(v, t, n)
          /\ t.live = v.live /\ t.link = v.link /\ t.what = v.what /\ t.l = v.l
      <4>1. n \in v.l.retained /\ setting.sax
        BY <1>2, <2>2, <3>5
      <4> QED BY <3>1, <3>3, <4>1, LeafHeld
    <3>8. Spared(s, t, n)
      <4>1. Spared(s, v, n)
        BY <2>1, <3>1, SparedTwice
      <4> QED BY <3>6, <4>1, SparedTwice
    <3>9. Reading(s, t)
      BY <2>2, <3>5, <3>6 DEF Reading
    <3>10. t.live = s.live /\ t.link = s.link /\ t.what = s.what /\ t.l = v.l
      BY <2>1, <3>2, <3>6
    <3>11. n \in t.l.retained /\ t.l.first = n
      BY <2>2, <3>5, <3>6
    <3> QED BY <1>0, <2>8, <3>6, <3>8, <3>9, <3>10, <3>11 DEF Settled
  <2>9. CASE s.l.first # NULL
    <3>1. t = Unheld(u, n)
      BY <2>2, <2>4, <2>7, <2>9 DEF Unheld
    <3>2. /\ Steady(t, setting) /\ Spared(u, t, n)
          /\ t.live = u.live /\ t.link = u.link /\ t.what = u.what /\ t.l = u.l
      <4>1. n \in u.l.retained /\ setting.sax /\ Midway(u, setting, n)
        BY <1>2, <2>1, <2>2
      <4> QED BY <3>1, <4>1, LeafHeld
    <3>4. Spared(s, t, n)
      BY <2>1, <3>2, SparedTwice
    <3>5. Reading(s, t)
      BY <2>2, <3>2 DEF Reading
    <3> QED BY <1>0, <1>2, <2>1, <2>2, <2>9, <3>2, <3>4, <3>5 DEF Settled
  <2> QED BY <2>8, <2>9
<1>3. CASE setting.sax /\ ~keep
  <2> DEFINE d == Dropped(s, n)
  <2>1. u = s
    BY <1>3 DEF Shown
  <2>2. /\ Steady(d, setting) /\ Spared(s, d, n) /\ n \notin d.live /\ d.what = s.what
        /\ d.l = [s.l EXCEPT !.first = s.l.first]
    BY LeafDropped
  <2>3. d.l = s.l
    BY <1>0, <2>2 DEF Locals
  <2>4. Deleted(s, n) = d
    <3>1. Gone(s, Deleted(s, n), n)
      BY <1>0, DeletedIs DEF Midway, Base
    <3>2. Deleted(s, n).l.first = s.l.first
      BY <1>0, <3>1 DEF Gone, Locals
    <3> QED BY <3>2 DEF Dropped
  <2> HIDE DEF d
  <2>5. t = d
    BY <1>0, <1>3, <2>1, <2>2, <2>4 DEF Handed, Released
  <2>6. Reading(s, t)
    BY <2>3, <2>5 DEF Reading
  <2> QED BY <1>3, <2>2, <2>3, <2>5, <2>6 DEF Settled
<1> QED BY <1>1, <1>2, <1>3

\* A value, a comment, a directive: made, and handed over at once.
LEMMA LeafIs ==
  ASSUME NEW s, Steady(s, setting), NEW n, n = Fresh(s), n \in Node \ s.live, NEW w \in Contents,
         w.k # "element" \/ s.l.first = NULL \/ s.l.parent # NULL,
         NEW keep \in BOOLEAN, NEW t, t = Handed(NewNode(s, w), n, keep)
  PROVE  /\ Steady(t, setting) /\ Stays(s, t) /\ t.live \subseteq s.live \cup {n}
         /\ Reading(s, t)
         /\ n \in t.live => /\ t.link[n].parent = s.l.parent /\ t.what[n] = w /\ t.l.first # NULL
                            /\ s.l.first = NULL => t.l.first = n
                            /\ setting.sax => n \in t.l.retained
         /\ n \notin t.live => setting.sax
         /\ n \notin t.live \/ s.l.first # NULL => t.l.first = s.l.first
<1> DEFINE m == NewNode(s, w)
<1>1. /\ s \in State /\ Grove(s.link, s.live) /\ s.l.parent \in s.live \cup {NULL}
      /\ s.l.first \in s.live \cup {NULL} /\ s.l.retained \subseteq s.live /\ s.what \in [Node -> Contents]
  BY DEF Steady, Base, Pointing, State
<1>2. Made(s, m, n, w)
  BY <1>1, NewNodeIs
<1>3. Midway(m, setting, n) /\ Stays(s, m)
  BY <1>2, NewIsMidway
<1> HIDE DEF m
<1>4. m.l = s.l /\ m.live = s.live \cup {n} /\ m.what[n] = w
  BY <1>1, <1>2 DEF Made
<1>5. m.l.first # n /\ n \notin m.l.retained
  BY <1>1, <1>4, XmlTreeAssumption DEF XmlTreeAssumption
<1>6. t = Handed(m, n, keep)
  BY DEF m
<1>7. Settled(m, t, n)
  BY <1>3, <1>4, <1>5, <1>6, HandedIs
<1>8. Stays(s, t)
  BY <1>1, <1>3, <1>7, SparedStays DEF Settled
<1>9. t.live \subseteq m.live
  BY <1>7 DEF Settled, Spared, Same
<1> QED BY <1>4, <1>7, <1>8, <1>9 DEF Settled, Reading

-----------------------------------------------------------------------------
(* The ends of a load.                                                     *)

\* Besides the tree it returns, a load without a top leaves values outside it,
\* and of elements those in X.
Left(t, c, X) ==
  ~c.sax /\ c.top = NULL =>
    \A n \in t.live :
      \/ t.l.result = "loaded" /\ t.l.first # NULL /\ t.l.first \in Above(t.link, n)
      \/ /\ t.link[n].parent = NULL /\ t.link[n].child = NULL
         /\ t.what[n].k = "element" => n \in X

Done(t, c, X) ==
  /\ t \in State /\ Grove(t.link, t.live) /\ Pointing(t) /\ t.l.result # "loading"
  /\ Left(t, c, X)

\* X are leaves, under the first node or outside it.
Loose(s, c, X) ==
  \A x \in X \cap s.live :
    /\ \A y \in s.live : s.link[y].parent # x
    /\ c.top = NULL => s.link[x].parent = NULL \/ (s.l.first # NULL /\ s.l.first \in Above(s.link, x))

LEMMA FailedIs ==
  ASSUME NEW s, NEW c, NEW X, Base(s, c), Reached(s, c, X), Loose(s, c, X), NEW t, t = Failed(s)
  PROVE  Done(t, c, X) /\ t.l.result = "failed"
<1> DEFINE d == Deleted(s, s.l.first)
           ll == [d.l EXCEPT !.result = "failed", !.first = NULL, !.parent = NULL]
<1>1. /\ s \in State /\ Grove(s.link, s.live) /\ Pointing(s) /\ Kinds(s) /\ NULL \notin Node
      /\ s.l.first \in s.live \cup {NULL} /\ s.l.retained \subseteq s.live
      /\ s.live \in SUBSET Node
  BY XmlTreeAssumption DEF XmlTreeAssumption, Base, Pointing, State
<1>2. /\ d \in State /\ Grove(d.link, d.live) /\ d.live \subseteq s.live /\ d.what = s.what
      /\ d.l.retained \subseteq d.live
      /\ \A x \in d.live : d.link[x].parent = s.link[x].parent
      /\ \A x \in d.live : s.l.first = NULL \/ s.l.first \notin Above(s.link, x)
  <2>1. CASE s.l.first = NULL
    <3>1. d = s
      BY <2>1 DEF Deleted
    <3> QED BY <1>1, <2>1, <3>1
  <2>2. CASE s.l.first # NULL
    <3>1. Gone(s, d, s.l.first)
      BY <1>1, <2>2, DeletedIs
    <3> HIDE DEF d
    <3>2. /\ d \in State /\ Grove(d.link, d.live) /\ d.live = s.live \ Subtree(s.link, s.live, s.l.first)
          /\ d.what = s.what /\ d.l = [s.l EXCEPT !.retained = s.l.retained \ Subtree(s.link, s.live, s.l.first)]
          /\ \A x \in d.live : d.link[x].parent = s.link[x].parent
      BY <3>1 DEF Gone
    <3>3. d.l.retained = s.l.retained \ Subtree(s.link, s.live, s.l.first)
      BY <1>1, <3>2 DEF State, Locals
    <3> QED BY <1>1, <3>2, <3>3 DEF Subtree
  <2> QED BY <2>1, <2>2
<1> HIDE DEF d
<1>3. /\ d.l \in Locals /\ d.live \in SUBSET Node
      /\ d = [live |-> d.live, link |-> d.link, ref_count |-> d.ref_count, what |-> d.what, l |-> d.l]
  BY <1>2 DEF State
<1>4. t = [live |-> d.live, link |-> d.link, ref_count |-> d.ref_count, what |-> d.what, l |-> ll]
  BY <1>3 DEF Failed, d
<1>5. ll \in Locals /\ ll.result = "failed" /\ ll.first = NULL /\ ll.parent = NULL /\ ll.retained = d.l.retained
  BY <1>3 DEF Locals
<1> HIDE DEF ll
<1>6. t.live = d.live /\ t.link = d.link /\ t.what = d.what /\ t.l = ll
  BY <1>4
<1>7. t \in State
  BY <1>2, <1>4, <1>5 DEF State
<1>8. Pointing(t)
  BY <1>2, <1>5, <1>6 DEF Pointing
<1>9. Left(t, c, X)
  <2> SUFFICES ASSUME ~c.sax, c.top = NULL, NEW n \in d.live
               PROVE  /\ d.link[n].parent = NULL /\ d.link[n].child = NULL
                      /\ d.what[n].k = "element" => n \in X
    BY <1>6 DEF Left
  <2>1. CASE n \notin X
    <3>1. s.link[n].parent = NULL /\ s.what[n].k # "element"
      BY <1>2, <2>1 DEF Reached
    <3>2. \A x \in d.live : d.link[x].parent # n
      BY <1>1, <1>2, <3>1 DEF Kinds
    <3>3. d.link[n].child = NULL
      BY <1>1, <1>2, <3>2, NoChildren
    <3> QED BY <1>2, <3>1, <3>3
  <2>2. CASE n \in X
    <3>1. s.link[n].parent = NULL /\ \A y \in s.live : s.link[y].parent # n
      BY <1>2, <2>2 DEF Loose
    <3>2. \A x \in d.live : d.link[x].parent # n
      BY <1>2, <3>1
    <3>3. d.link[n].child = NULL
      BY <1>1, <1>2, <3>2, NoChildren
    <3> QED BY <1>2, <2>2, <3>1, <3>3
  <2> QED BY <2>1, <2>2
<1> QED BY <1>2, <1>5, <1>6, <1>7, <1>8, <1>9 DEF Done

LEMMA SecondRefusedIs ==
  ASSUME NEW s, NEW c, Base(s, c), Reached(s, c, {}), SecondRoot(s), NEW t, t = SecondRefused(s)
  PROVE  Done(t, c, {}) /\ (t.l.result = "failed" \/ Stays(s, t))
<1>1. /\ s \in State /\ Grove(s.link, s.live) /\ Pointing(s) /\ Kinds(s) /\ Rooted(s, c) /\ NULL \notin Node
      /\ s.l.first \in s.live /\ s.live \in SUBSET Node
  BY XmlTreeAssumption DEF XmlTreeAssumption, Base, Pointing, SecondRoot, State
<1> DEFINE w == s.what[s.l.first]
<1>2. CASE ~(w.k = "text" /\ w.ws)
  <2>1. t = Failed(s)
    BY <1>2 DEF SecondRefused
  <2>2. Loose(s, c, {})
    BY DEF Loose
  <2> QED BY <2>1, <2>2, FailedIs
<1>3. CASE w.k = "text" /\ w.ws
  <2> DEFINE ll == [s.l EXCEPT !.result = "crashed"]
  <2>1. /\ s.l \in Locals /\ s.live \in SUBSET Node
        /\ s = [live |-> s.live, link |-> s.link, ref_count |-> s.ref_count, what |-> s.what, l |-> s.l]
    BY <1>1 DEF State
  <2>2. t = [live |-> s.live, link |-> s.link, ref_count |-> s.ref_count, what |-> s.what, l |-> ll]
    <3>1. t = [s EXCEPT !.l.result = "crashed"]
      BY <1>3 DEF SecondRefused
    <3> QED BY <2>1, <3>1
  <2>3. /\ ll \in Locals /\ ll.result = "crashed" /\ ll.first = s.l.first /\ ll.parent = s.l.parent
        /\ ll.retained = s.l.retained
    BY <2>1 DEF Locals
  <2> HIDE DEF ll
  <2>4. t.live = s.live /\ t.link = s.link /\ t.what = s.what /\ t.l = ll
    BY <2>2
  <2>5. t \in State
    BY <1>1, <2>2, <2>3 DEF State
  <2>6. Pointing(t)
    BY <1>1, <2>3, <2>4 DEF Pointing
  <2>7. Left(t, c, {})
    <3> SUFFICES ASSUME ~c.sax, c.top = NULL, NEW n \in s.live
                 PROVE  s.link[n].parent = NULL /\ s.link[n].child = NULL /\ s.what[n].k # "element"
      BY <2>4 DEF Left
    <3>1. Subtree(s.link, s.live, s.l.first) = {s.l.first}
      <4>1. \A x \in s.live : s.link[x].parent # s.l.first
        BY <1>1, <1>3 DEF Kinds
      <4> QED BY <1>1, <4>1, NoChildren
    <3>2. s.link[n].parent = NULL /\ s.what[n].k # "element"
      <4>1. CASE s.l.first \in Above(s.link, n)
        <5>1. n = s.l.first
          BY <3>1, <4>1 DEF Subtree
        <5> QED BY <1>1, <1>3, <5>1 DEF Rooted
      <4>2. CASE s.l.first \notin Above(s.link, n)
        BY <4>2 DEF Reached
      <4> QED BY <4>1, <4>2
    <3>3. \A x \in s.live : s.link[x].parent # n
      BY <1>1, <3>2 DEF Kinds
    <3>4. s.link[n].child = NULL
      BY <1>1, <3>3, NoChildren
    <3> QED BY <3>2, <3>4
  <2>8. Stays(s, t)
    BY <1>1, <2>3, <2>4 DEF Stays, Pointing, Same
  <2> QED BY <1>1, <2>3, <2>4, <2>5, <2>6, <2>7, <2>8 DEF Done
<1> QED BY <1>2, <1>3

\* The function climb of Topmost.
ClimbOf(l) ==
  CHOOSE f : f = [m \in Node |-> IF l[m].parent \in {setting.top, NULL} THEN m ELSE f[l[m].parent]]

RootOf(l, m) == CHOOSE y : y \in Above(l, m) /\ l[y].parent = NULL

LEMMA TopmostIs ==
  ASSUME NEW s, s \in State, Grove(s.link, s.live), s.l.parent \in s.live, setting.top = NULL
  PROVE  /\ s.link[Topmost(s)].parent = NULL
         /\ s.link[s.l.parent].parent = NULL => Topmost(s) = s.l.parent
<1> DEFINE l == s.link
           S == s.live
           Step(f) == [m \in Node |-> IF l[m].parent \in {setting.top, NULL} THEN m ELSE f[l[m].parent]]
           root == [m \in Node |-> RootOf(l, m)]
           f == ClimbOf(l)
<1>1. /\ S \in SUBSET Node /\ l \in [Node -> Link] /\ Shaped(l, S) /\ NULL \notin Node
      /\ \A x \in S : l[x].parent \in S \cup {NULL}
  BY XmlTreeAssumption DEF XmlTreeAssumption, Grove, Sound, PointsInto
<1>2. PICK h, M : Levels(l, S, h, M)
  BY <1>1 DEF Shaped
<1>t. Topmost(s) = f[s.l.parent]
  BY Zenon DEF Topmost, ClimbOf
<1>p. s.l.parent \in S
  OBVIOUS
<1> HIDE DEF l, S
<1>3. root = Step(root)
  <2>1. \A m \in Node : root[m] = RootOf(l, m)
    BY Zenon
  <2>2. root = [m \in Node |-> root[m]]
    BY Zenon
  <2> HIDE DEF root
  <2>3. ASSUME NEW m \in Node
        PROVE  root[m] = IF l[m].parent \in {setting.top, NULL} THEN m ELSE root[l[m].parent]
    <3>1. CASE l[m].parent = NULL
      <4>1. Above(l, m) = {m}
        BY <1>1, <3>1, AboveIs
      <4>2. m \in Above(l, m) /\ l[m].parent = NULL /\ \A y : y \in Above(l, m) => y = m
        BY <3>1, <4>1
      <4>3. RootOf(l, m) = m
        BY <4>2 DEF RootOf
      <4>4. root[m] = m
        BY <2>1, <4>3
      <4> QED BY <3>1, <4>4
    <3>2. CASE l[m].parent # NULL
      <4>1. Above(l, m) = {m} \cup Above(l, l[m].parent) /\ l[m].parent \in Node
        BY <1>1, <3>2, AboveIs DEF Link
      <4>2. \A y : y \in Above(l, m) /\ l[y].parent = NULL <=> y \in Above(l, l[m].parent) /\ l[y].parent = NULL
        BY <3>2, <4>1
      <4>3. RootOf(l, m) = RootOf(l, l[m].parent)
        BY <4>2, Zenon DEF RootOf
      <4>4. root[m] = root[l[m].parent]
        BY <2>1, <4>1, <4>3
      <4> QED BY <1>1, <3>2, <4>4
    <3> QED BY <3>1, <3>2
  <2> QED BY <2>2, <2>3, Zenon
<1> HIDE DEF root
<1>5. f = Step(f)
  <2>1. \E g : g = Step(g)
    <3> HIDE DEF Step
    <3> QED BY <1>3
  <2>2. f = CHOOSE g : g = Step(g)
    BY Zenon DEF ClimbOf
  <2> HIDE DEF Step, f
  <2> QED BY <2>1, <2>2, Zenon
<1> HIDE DEF f
<1>6. \A m \in Node : f[m] = IF l[m].parent = NULL THEN m ELSE f[l[m].parent]
  <2>1. \A m \in Node : f[m] = IF l[m].parent \in {setting.top, NULL} THEN m ELSE f[l[m].parent]
    BY <1>5, Zenon
  <2> QED BY <2>1
<1> HIDE DEF Step
<1>7. \A m \in S : m \in Node /\ h[m] \in Nat
                   /\ (l[m].parent # NULL => l[m].parent \in S /\ h[l[m].parent] < h[m])
  BY <1>1, <1>2 DEF Levels
<1> DEFINE T == {d \in Nat : \A m \in S : h[m] < d => l[f[m]].parent = NULL}
<1>8. 0 \in T
  BY <1>7
<1>9. ASSUME NEW d \in Nat, d \in T PROVE d + 1 \in T
  <2> SUFFICES ASSUME NEW m \in S, h[m] < d + 1 PROVE l[f[m]].parent = NULL
    OBVIOUS
  <2>1. CASE l[m].parent = NULL
    BY <1>6, <1>7, <2>1
  <2>2. CASE l[m].parent # NULL
    <3>1. l[m].parent \in S /\ h[l[m].parent] < d
      <4>1. l[m].parent \in S /\ h[l[m].parent] < h[m] /\ h[l[m].parent] \in Nat /\ h[m] \in Nat
        BY <1>7, <2>2
      <4> QED BY <4>1
    <3> QED BY <1>6, <1>7, <1>9, <2>2, <3>1
  <2> QED BY <2>1, <2>2
<1> HIDE DEF T
<1>10. Nat \subseteq T
  BY <1>8, <1>9, AllNumbers
<1>11. l[f[s.l.parent]].parent = NULL
  <2> DEFINE p == s.l.parent
  <2>1. p \in S
    BY <1>p
  <2> HIDE DEF p
  <2>2. h[p] \in Nat /\ h[p] < h[p] + 1 /\ h[p] + 1 \in T
    BY <1>7, <1>10, <2>1
  <2>3. l[f[p]].parent = NULL
    BY <2>1, <2>2 DEF T
  <2> QED BY <2>3 DEF p
<1>12. l[s.l.parent].parent = NULL => f[s.l.parent] = s.l.parent
  BY <1>6, <1>7, <1>p
<1> QED BY <1>11, <1>12, <1>t DEF l

LEMMA FinishedIs ==
  ASSUME NEW s, Base(s, setting), Reached(s, setting, {}), NEW t, t = Finished(s)
  PROVE  Done(t, setting, {}) /\ (t.l.result = "failed" \/ Stays(s, t))
<1>1. /\ s \in State /\ Grove(s.link, s.live) /\ Pointing(s) /\ Kinds(s) /\ Rooted(s, setting) /\ NULL \notin Node
      /\ s.live \in SUBSET Node /\ s.l \in Locals
      /\ s = [live |-> s.live, link |-> s.link, ref_count |-> s.ref_count, what |-> s.what, l |-> s.l]
  BY XmlTreeAssumption DEF XmlTreeAssumption, Base, State
<1> DEFINE top == IF s.l.parent = NULL THEN s.l.first ELSE s.l.parent
           ll == [s.l EXCEPT !.result = "loaded", !.first = top]
<1>2. CASE s.l.parent # NULL /\ Topmost(s) # s.l.parent
  <2>1. t = Failed(s)
    BY <1>2 DEF Finished
  <2>2. Loose(s, setting, {})
    BY DEF Loose
  <2> QED BY <2>1, <2>2, FailedIs
<1>3. CASE s.l.parent = NULL \/ Topmost(s) = s.l.parent
  <2>1. t = [live |-> s.live, link |-> s.link, ref_count |-> s.ref_count, what |-> s.what, l |-> ll]
    <3>1. CASE s.l.parent = NULL
      <4>1. t = [s EXCEPT !.l.result = "loaded"]
        BY <3>1 DEF Finished
      <4>2. ll = [s.l EXCEPT !.result = "loaded"]
        BY <1>1, <3>1 DEF Locals
      <4> HIDE DEF ll
      <4> QED BY <1>1, <4>1, <4>2
    <3>2. CASE s.l.parent # NULL
      <4>1. t = [s EXCEPT !.l.result = "loaded", !.l.first = s.l.parent]
        BY <1>3, <3>2 DEF Finished
      <4> QED BY <1>1, <3>2, <4>1
    <3> QED BY <3>1, <3>2
  <2>2. /\ ll \in Locals /\ ll.result = "loaded" /\ ll.first = top /\ ll.parent = s.l.parent
        /\ ll.retained = s.l.retained
    BY <1>1 DEF Locals
  <2> HIDE DEF ll
  <2>3. t.live = s.live /\ t.link = s.link /\ t.what = s.what /\ t.l = ll
    BY <2>1
  <2>4. t \in State
    BY <1>1, <2>1, <2>2 DEF State
  <2>5. Pointing(t)
    BY <1>1, <2>2, <2>3 DEF Pointing
  <2>6. Left(t, setting, {})
    <3> SUFFICES ASSUME ~setting.sax, setting.top = NULL, NEW n \in s.live
                 PROVE  \/ top # NULL /\ top \in Above(s.link, n)
                        \/ s.link[n].parent = NULL /\ s.link[n].child = NULL /\ s.what[n].k # "element"
      BY <2>2, <2>3 DEF Left
    <3>1. s.l.first # NULL => s.l.first = top
      <4>1. CASE s.l.parent # NULL
        <5>1. s.l.parent \in s.live /\ s.l.parent \in Node /\ s.link \in [Node -> Link]
          BY <1>1, <4>1 DEF Pointing, State
        <5>2. s.link[s.l.parent].parent = NULL
          BY <1>1, <1>3, <4>1, <5>1, TopmostIs
        <5>3. Above(s.link, s.l.parent) = {s.l.parent}
          BY <1>1, <5>1, <5>2, AboveIs
        <5> QED BY <1>1, <4>1, <5>3 DEF Rooted, OpenNodes
      <4> QED BY <4>1
    <3>2. CASE s.l.first # NULL /\ s.l.first \in Above(s.link, n)
      BY <3>1, <3>2
    <3>3. CASE ~(s.l.first # NULL /\ s.l.first \in Above(s.link, n))
      <4>1. s.link[n].parent = NULL /\ s.what[n].k # "element"
        BY <3>3 DEF Reached
      <4>2. \A x \in s.live : s.link[x].parent # n
        BY <1>1, <4>1 DEF Kinds
      <4>3. s.link[n].child = NULL
        BY <1>1, <4>2, NoChildren
      <4> QED BY <4>1, <4>3
    <3> QED BY <3>2, <3>3
  <2>7. Stays(s, t)
    BY <1>1, <2>2, <2>3 DEF Stays, Pointing, Same
  <2> QED BY <1>1, <2>2, <2>3, <2>4, <2>5, <2>6, <2>7 DEF Done
<1> QED BY <1>2, <1>3

-----------------------------------------------------------------------------
(* The parent of what follows.                                             *)

LEMMA NotAboveItself ==
  ASSUME NULL \notin Node, NEW l, NEW S, Grove(l, S), NEW n \in S, l[n].parent # NULL
  PROVE  n \notin Above(l, l[n].parent)
<1>1. /\ S \in SUBSET Node /\ l \in [Node -> Link] /\ Shaped(l, S)
      /\ \A x \in S : l[x].parent \in S \cup {NULL}
  BY DEF Grove, Sound, PointsInto
<1>2. PICK h, M : Levels(l, S, h, M)
  BY <1>1 DEF Shaped
<1>3. \A m \in S : h[m] \in Nat /\ (l[m].parent # NULL => l[m].parent \in S /\ h[l[m].parent] < h[m])
  BY <1>1, <1>2 DEF Levels
<1> DEFINE R == {x \in S : h[x] < h[n]}
<1>4. UpClosed(l, R)
  <2> SUFFICES ASSUME NEW x \in R, l[x].parent # NULL PROVE l[x].parent \in R
    BY DEF UpClosed
  <2> DEFINE y == l[x].parent
  <2>1. /\ y \in S /\ h[y] \in Nat /\ h[x] \in Nat /\ h[n] \in Nat
        /\ h[y] < h[x] /\ h[x] < h[n]
    BY <1>3
  <2> HIDE DEF y
  <2>2. h[y] < h[n]
    BY <2>1
  <2> QED BY <2>1, <2>2 DEF y
<1>5. l[n].parent \in R /\ R \in SUBSET Node
  BY <1>1, <1>3
<1>6. n \notin R
  BY <1>3
<1>7. Above(l, l[n].parent) \subseteq R
  <2> HIDE DEF R
  <2> QED BY <1>1, <1>4, <1>5, AboveIsLeast
<1> QED BY <1>6, <1>7

\* What follows is under p.
Inside(s, p) == [s EXCEPT !.l.parent = p, !.l.type = TypeUnder(p, @)]

LEMMA InsideIs ==
  ASSUME Caller(setting), NEW s \in State, NEW p \in s.live \cup {NULL}, NEW t, t = Inside(s, p)
  PROVE  /\ t \in State /\ t.live = s.live /\ t.link = s.link /\ t.ref_count = s.ref_count /\ t.what = s.what
         /\ t.l.parent = p /\ t.l.first = s.l.first /\ t.l.retained = s.l.retained
         /\ t.l.whitespace = s.l.whitespace /\ t.l.buffer = s.l.buffer /\ t.l.result = s.l.result
         /\ (setting.cb = NONE => t.l.type = s.l.type)
         /\ OpenNodes(t) = IF p = NULL THEN {} ELSE Above(s.link, p)
<1> DEFINE ty == TypeUnder(p, s.l.type)
           ll == [s.l EXCEPT !.parent = p, !.type = ty]
<1>1. /\ s.l \in Locals /\ s.live \in SUBSET Node
      /\ s = [live |-> s.live, link |-> s.link, ref_count |-> s.ref_count, what |-> s.what, l |-> s.l]
  BY DEF State
<1>2. ty \in {"text", "integer", "opaque", "ignore"} /\ (setting.cb = NONE => ty = s.l.type)
  BY <1>1 DEF TypeUnder, Caller, Locals, NONE
<1>3. t = [live |-> s.live, link |-> s.link, ref_count |-> s.ref_count, what |-> s.what, l |-> ll]
  <2>1. t = [s EXCEPT !.l = ll]
    BY <1>1 DEF Inside, Locals
  <2> HIDE DEF ll
  <2> QED BY <1>1, <2>1
<1> HIDE DEF ty
<1>4. /\ ll \in Locals /\ ll.parent = p /\ ll.type = ty /\ ll.first = s.l.first /\ ll.retained = s.l.retained
      /\ ll.whitespace = s.l.whitespace /\ ll.buffer = s.l.buffer /\ ll.result = s.l.result
  BY <1>1, <1>2 DEF Locals
<1> HIDE DEF ll
<1>5. t.live = s.live /\ t.link = s.link /\ t.ref_count = s.ref_count /\ t.what = s.what /\ t.l = ll
  BY <1>3
<1>6. t \in State
  BY <1>3, <1>4 DEF State
<1> QED BY <1>2, <1>4, <1>5, <1>6 DEF OpenNodes

\* Into an element that has just been made, ...
LEMMA EnteredNew ==
  ASSUME Caller(setting), NEW s, NEW n, Midway(s, setting, n), s.what[n].k = "element",
         s.l.first = n \/ (s.l.first # NULL /\ s.l.parent # NULL), NEW t, t = Inside(s, n)
  PROVE  Steady(t, setting)
<1>1. /\ s \in State /\ Grove(s.link, s.live) /\ Pointing(s) /\ Kinds(s) /\ Rooted(s, setting)
      /\ (~setting.sax => s.l.retained = {})
      /\ Balanced(s, setting) /\ Accounted(s, setting, {n}) /\ Reached(s, setting, {n})
      /\ s.l.result = "loading" /\ n \in s.live /\ n \notin OpenNodes(s)
      /\ s.link[n].parent = s.l.parent
      /\ s.ref_count[n] = IF n \in s.l.retained THEN 2 ELSE 1
  BY DEF Midway, Base
<1>2. NULL \notin Node /\ n \in Node /\ s.link \in [Node -> Link]
  BY <1>1, XmlTreeAssumption DEF XmlTreeAssumption, State
<1>3. /\ t \in State /\ t.live = s.live /\ t.link = s.link /\ t.ref_count = s.ref_count /\ t.what = s.what
      /\ t.l.parent = n /\ t.l.first = s.l.first /\ t.l.retained = s.l.retained /\ t.l.result = s.l.result
      /\ OpenNodes(t) = Above(s.link, n)
  <2>1. n \in s.live \cup {NULL} /\ n # NULL
    BY <1>1, <1>2
  <2> QED BY <1>1, <2>1, InsideIs
<1>4. Above(s.link, n) = {n} \cup OpenNodes(s)
  BY <1>1, <1>2, AboveIs DEF OpenNodes
<1>5. Pointing(t) /\ Kinds(t)
  BY <1>1, <1>3 DEF Pointing, Kinds
<1>6. Rooted(t, setting)
  BY <1>1, <1>2, <1>3, <1>4 DEF Rooted
<1>7. Base(t, setting)
  BY <1>1, <1>3, <1>5, <1>6 DEF Base
<1>8. Reached(t, setting, {})
  <2> SUFFICES ASSUME setting.top = NULL PROVE s.l.first \in Above(s.link, n) /\ s.l.first # NULL
    BY <1>1, <1>3 DEF Reached
  <2> QED BY <1>1, <1>2, <1>4 DEF Rooted
<1>9. Balanced(t, setting)
  BY <1>1, <1>3, <1>4 DEF Balanced
<1>10. Accounted(t, setting, {})
  BY <1>1, <1>3, <1>4 DEF Accounted
<1> QED BY <1>1, <1>3, <1>7, <1>8, <1>9, <1>10 DEF Steady

\* ... into the directive that begins a file, ...
LEMMA EnteredFirst ==
  ASSUME Caller(setting), NEW s, NEW n, Steady(s, setting), n \in s.live, s.l.parent = NULL,
         s.link[n].parent = NULL, s.l.first = n, s.what[n].k = "element", s.what[n].n \in Markup,
         setting.sax => n \in s.l.retained, NEW t, t = Inside(s, n)
  PROVE  Steady(t, setting)
<1>1. /\ s \in State /\ Grove(s.link, s.live) /\ Pointing(s) /\ Kinds(s)
      /\ (~setting.sax => s.l.retained = {})
      /\ Accounted(s, setting, {}) /\ Reached(s, setting, {}) /\ s.l.result = "loading"
  BY DEF Steady, Base
<1>2. NULL \notin Node /\ n \in Node /\ s.link \in [Node -> Link]
  BY <1>1, XmlTreeAssumption DEF XmlTreeAssumption, State
<1>3. /\ t \in State /\ t.live = s.live /\ t.link = s.link /\ t.ref_count = s.ref_count /\ t.what = s.what
      /\ t.l.parent = n /\ t.l.first = s.l.first /\ t.l.retained = s.l.retained /\ t.l.result = s.l.result
      /\ OpenNodes(t) = Above(s.link, n)
  <2>1. n \in s.live \cup {NULL} /\ n # NULL
    BY <1>1, <1>2
  <2> QED BY <1>1, <2>1, InsideIs
<1>4. Above(s.link, n) = {n} /\ OpenNodes(s) = {}
  BY <1>1, <1>2, AboveIs DEF OpenNodes
<1>5. Pointing(t) /\ Kinds(t)
  BY <1>1, <1>3 DEF Pointing, Kinds
<1>6. Rooted(t, setting)
  BY <1>1, <1>2, <1>3, <1>4 DEF Rooted
<1>7. Base(t, setting)
  BY <1>1, <1>3, <1>5, <1>6 DEF Base
<1>8. Reached(t, setting, {})
  BY <1>1, <1>3 DEF Reached
<1>9. Balanced(t, setting)
  BY <1>3, <1>4, XmlFileAssumption DEF XmlFileAssumption, Balanced
<1>10. Accounted(t, setting, {})
  BY <1>1, <1>3, <1>4 DEF Accounted
<1> QED BY <1>1, <1>3, <1>7, <1>8, <1>9, <1>10 DEF Steady

\* ... and out of one that is closed.
Closing(s, p, t) ==
  /\ p = s.l.parent /\ p # NULL /\ s.what[p].n \in Name
  /\ t = Inside(Closed(s, p), s.link[p].parent)

LEMMA ClosedIs ==
  ASSUME Caller(setting), NEW s, Steady(s, setting), NEW p, NEW t, Closing(s, p, t)
  PROVE  Steady(t, setting) /\ t.l.whitespace = s.l.whitespace /\ t.l.buffer = s.l.buffer
         /\ t.live \subseteq s.live
         /\ (Stays(s, t) \/ (p \notin s.l.retained /\ \A x \in s.live \ t.live : p \in Above(s.link, x)))
         /\ t.l.retained = s.l.retained \cap t.live /\ (\A x \in t.live : Same(s, t, x))
         /\ t.l.parent = s.link[p].parent /\ (setting.cb = NONE => t.l.type = s.l.type)
<1> DEFINE up == s.link[p].parent
           u == Closed(s, p)
           path == IF up = NULL THEN {} ELSE Above(s.link, up)
           F == s.l.first
<1>0. p = s.l.parent /\ p # NULL /\ s.what[p].n \in Name /\ t = Inside(u, up)
  BY DEF Closing
<1>1. /\ s \in State /\ Grove(s.link, s.live) /\ Pointing(s) /\ Kinds(s) /\ Rooted(s, setting)
      /\ (~setting.sax => s.l.retained = {})
      /\ Balanced(s, setting) /\ Accounted(s, setting, {}) /\ Reached(s, setting, {})
      /\ s.l.result = "loading" /\ p \in s.live /\ F \in s.live \cup {NULL} /\ s.l.retained \subseteq s.live
  BY <1>0 DEF Steady, Base, Pointing
<1>2. /\ NULL \notin Node /\ p \in Node /\ s.link \in [Node -> Link] /\ s.live \in SUBSET Node
      /\ s.ref_count \in [Node -> 0 .. MaxRefs] /\ s.l \in Locals
      /\ s = [live |-> s.live, link |-> s.link, ref_count |-> s.ref_count, what |-> s.what, l |-> s.l]
      /\ \A x \in s.live : s.link[x].parent \in s.live \cup {NULL}
  BY <1>1, XmlTreeAssumption DEF XmlTreeAssumption, State, Grove, Sound, PointsInto
<1>3. /\ OpenNodes(s) = {p} \cup path /\ p \notin path /\ path \subseteq s.live
      /\ \A x \in path : p \notin Above(s.link, x)
      /\ up \in s.live \cup {NULL} /\ (up # NULL => up \in path /\ p \notin Above(s.link, up))
  <2>1. CASE up = NULL
    <3>1. Above(s.link, p) = {p}
      BY <1>2, <2>1, AboveIs
    <3> QED BY <1>0, <1>1, <2>1, <3>1 DEF OpenNodes
  <2>2. CASE up # NULL
    <3>1. Above(s.link, p) = {p} \cup Above(s.link, up) /\ up \in s.live /\ up \in Node
      BY <1>1, <1>2, <2>2, AboveIs
    <3>2. p \notin Above(s.link, up)
      BY <1>1, <1>2, <2>2, NotAboveItself
    <3>3. up \in Above(s.link, up) /\ \A x \in Above(s.link, up) : Above(s.link, x) \subseteq Above(s.link, up)
      BY <1>2, <3>1, AboveIsLeast, AboveIs
    <3>4. OpenNodes(s) \subseteq s.live
      BY <1>0, <1>1, OpenAreLive
    <3> QED BY <1>0, <1>1, <2>2, <3>1, <3>2, <3>3, <3>4 DEF OpenNodes
  <2> QED BY <2>1, <2>2
<1> HIDE DEF path
<1>4. setting.top = NULL => F # NULL /\ s.link[F].parent = NULL /\ (IF up = NULL THEN F = p ELSE F \in path)
  <2> SUFFICES ASSUME setting.top = NULL
               PROVE  F # NULL /\ s.link[F].parent = NULL /\ (IF up = NULL THEN F = p ELSE F \in path)
    OBVIOUS
  <2>1. F # NULL /\ s.link[F].parent = NULL /\ F \in {p} \cup path
    BY <1>0, <1>1, <1>3 DEF Rooted
  <2>2. CASE up = NULL
    BY <2>1, <2>2 DEF path
  <2>3. CASE up # NULL
    BY <2>1, <2>3
  <2> QED BY <2>1, <2>2, <2>3
\* What remains to be shown of the record.
<1> DEFINE Good(v) ==
             /\ v \in State /\ Grove(v.link, v.live) /\ v.live \subseteq s.live /\ v.what = s.what
             /\ \A x \in v.live : v.link[x].parent = s.link[x].parent /\ Above(v.link, x) = Above(s.link, x)
             /\ up \in v.live \cup {NULL} /\ path \subseteq v.live
             /\ v.l.retained \subseteq v.live /\ v.l.retained = s.l.retained \cap v.live /\ Reading(s, v)
             /\ v.l.first = IF F \in v.live THEN F ELSE NULL
             /\ \A x \in path : v.ref_count[x] = s.ref_count[x] /\ (x \in v.l.retained <=> x \in s.l.retained)
             /\ setting.sax => v.live = v.l.retained \cup path
             /\ ~setting.sax => v.live = s.live
             /\ (Stays(s, v) \/ (p \notin s.l.retained /\ \A x \in s.live \ v.live : p \in Above(s.link, x)))
<1>5. Good(u)
  <2>f. F = IF F \in s.live THEN F ELSE NULL
    BY <1>1
  <2>1. CASE ~setting.sax
    <3>1. u = s
      BY <2>1 DEF Closed
    <3>2. Stays(s, s)
      BY <1>1 DEF Stays, Same
    <3> HIDE DEF u, up
    <3> QED BY <1>1, <1>3, <2>1, <2>f, <3>1, <3>2 DEF Reading
  <2>2. CASE setting.sax /\ p \in s.l.retained
    <3> DEFINE counts == [s.ref_count EXCEPT ![p] = 1]
    <3>1. s.ref_count[p] = 2
      BY <1>0, <1>1, <1>3, <2>2 DEF Balanced
    <3>2. Released(s, p) = [live |-> s.live, link |-> s.link, ref_count |-> counts, what |-> s.what, l |-> s.l]
      <4>1. Released(s, p) = [s EXCEPT !.ref_count[p] = @ - 1]
        BY <3>1 DEF Released
      <4> QED BY <1>2, <3>1, <4>1
    <3>3. u = Released(s, p)
      BY <1>1, <2>2, <3>2 DEF Closed
    <3>4. 1 \in 0 .. MaxRefs
      BY XmlTreeAssumption DEF XmlTreeAssumption
    <3>5. counts \in [Node -> 0 .. MaxRefs] /\ \A x \in path : counts[x] = s.ref_count[x]
      BY <1>2, <1>3, <3>4
    <3> HIDE DEF counts, u
    <3>6. u.live = s.live /\ u.link = s.link /\ u.ref_count = counts /\ u.what = s.what /\ u.l = s.l
      BY <3>2, <3>3
    <3>7. u \in State
      BY <1>1, <3>2, <3>3, <3>5 DEF State
    <3>8. s.live = s.l.retained \cup path
      BY <1>1, <1>3, <2>2 DEF Accounted
    <3>9. Stays(s, u)
      BY <1>1, <3>6 DEF Stays, Same
    <3> HIDE DEF up
    <3> QED BY <1>1, <1>3, <2>2, <2>f, <3>5, <3>6, <3>7, <3>8, <3>9 DEF Reading
  <2>3. CASE setting.sax /\ p \notin s.l.retained
    <3> DEFINE d == Deleted(s, p)
               gone == Subtree(s.link, s.live, p)
    <3>1. s.ref_count[p] = 1
      BY <1>0, <1>1, <1>3, <2>3 DEF Balanced
    <3>2. Gone(s, d, p)
      BY <1>1, DeletedIs
    <3>3. u = IF p \notin d.live /\ d.l.first = p THEN [d EXCEPT !.l.first = NULL] ELSE d
      BY <2>3, <3>1 DEF Closed, Released
    <3> HIDE DEF d, u
    <3>4. /\ d \in State /\ Grove(d.link, d.live) /\ p \in gone /\ d.live = s.live \ gone /\ d.what = s.what
          /\ d.ref_count = [m \in Node |-> IF m \in gone THEN 0 ELSE s.ref_count[m]]
          /\ d.l = [s.l EXCEPT !.retained = s.l.retained \ gone]
          /\ \A x \in d.live : d.link[x].parent = s.link[x].parent /\ Above(d.link, x) = Above(s.link, x)
      BY <3>2 DEF Gone
    <3>5. /\ Reading(s, d) /\ d.l.first = F /\ d.l.retained = s.l.retained \ gone
          /\ d.l \in Locals
          /\ d = [live |-> d.live, link |-> d.link, ref_count |-> d.ref_count, what |-> d.what, l |-> d.l]
      BY <1>2, <3>4 DEF Locals, Reading, State
    <3>6. \A x \in path : x \notin gone
      BY <1>3 DEF Subtree
    <3>7. \A x \in gone : p \in Above(s.link, x) /\ x \in s.live
      BY DEF Subtree
    <3> HIDE DEF gone
    <3>8. setting.top = NULL
      BY <2>3 DEF Caller
    <3>9. F # NULL /\ (F = p \/ F \in path)
      BY <1>4, <3>8
    <3> DEFINE ll == [d.l EXCEPT !.first = IF F = p THEN NULL ELSE F]
    <3>10. u = [live |-> d.live, link |-> d.link, ref_count |-> d.ref_count, what |-> d.what, l |-> ll]
      <4>1. CASE F = p
        BY <3>3, <3>4, <3>5, <4>1
      <4>2. CASE F # p
        <5>1. ll = d.l
          BY <3>5, <4>2 DEF Locals
        <5> HIDE DEF ll
        <5> QED BY <3>3, <3>5, <4>2, <5>1
      <4> QED BY <4>1, <4>2
    <3>11. /\ ll \in Locals /\ Reading(s, u) /\ ll.retained = s.l.retained \ gone
           /\ ll.first = IF F = p THEN NULL ELSE F
      BY <1>2, <3>5, <3>10 DEF Locals, Reading
    <3> HIDE DEF ll
    <3>12. u.live = d.live /\ u.link = d.link /\ u.ref_count = d.ref_count /\ u.what = d.what /\ u.l = ll
      BY <3>10
    <3>13. u \in State
      BY <3>4, <3>10, <3>11 DEF State
    <3>14. s.live = s.l.retained \cup {p} \cup path
      BY <1>1, <1>3, <2>3 DEF Accounted
    <3>15. u.live = u.l.retained \cup path
      BY <1>3, <3>4, <3>6, <3>11, <3>12, <3>14
    <3>16. u.l.first = IF F \in u.live THEN F ELSE NULL
      BY <1>3, <3>4, <3>6, <3>9, <3>11, <3>12
    <3>17. path \subseteq u.live /\ up \in u.live \cup {NULL}
      <4> HIDE DEF up
      <4> QED BY <1>3, <3>15
    <3>18. /\ \A x \in u.live : u.link[x].parent = s.link[x].parent /\ Above(u.link, x) = Above(s.link, x)
           /\ u.live \subseteq s.live /\ u.what = s.what /\ Grove(u.link, u.live)
      BY <3>4, <3>12
    <3>19. /\ u.l.retained \subseteq u.live /\ u.l.retained = s.l.retained \cap u.live
           /\ \A x \in path : u.ref_count[x] = s.ref_count[x] /\ (x \in u.l.retained <=> x \in s.l.retained)
      BY <1>1, <1>2, <1>3, <3>4, <3>6, <3>11, <3>12, <3>15
    <3>20. p \notin s.l.retained /\ \A x \in s.live \ u.live : p \in Above(s.link, x)
      BY <2>3, <3>4, <3>7, <3>12
    <3> HIDE DEF up
    <3> QED BY <2>3, <3>11, <3>13, <3>15, <3>16, <3>17, <3>18, <3>19, <3>20
  <2> QED BY <2>1, <2>2, <2>3
<1> HIDE DEF u
<1>6. /\ t \in State /\ t.live = u.live /\ t.link = u.link /\ t.ref_count = u.ref_count /\ t.what = u.what
      /\ t.l.parent = up /\ t.l.first = u.l.first /\ t.l.retained = u.l.retained
      /\ t.l.whitespace = u.l.whitespace /\ t.l.buffer = u.l.buffer /\ t.l.result = u.l.result
      /\ OpenNodes(t) = (IF up = NULL THEN {} ELSE Above(u.link, up)) /\ (setting.cb = NONE => t.l.type = u.l.type)
  <2> HIDE DEF up, Good
  <2>1. u \in State /\ up \in u.live \cup {NULL} /\ t = Inside(u, up)
    BY <1>0, <1>5 DEF u, up, Good
  <2> QED BY <2>1, InsideIs
<1>7. OpenNodes(t) = path
  BY <1>5, <1>6 DEF path
<1>u. up # NULL => s.what[up].k = "element"
  BY <1>1 DEF Kinds
<1> HIDE DEF up
<1>8. Pointing(t)
  BY <1>5, <1>6 DEF Pointing
<1>9. Kinds(t)
  <2>1. \A x \in u.live : x \in s.live /\ t.link[x].parent = s.link[x].parent
    BY <1>5, <1>6
  <2>2. t.what = s.what /\ t.live = u.live /\ t.l.parent = up
    BY <1>5, <1>6
  <2>3. \A x \in s.live : s.link[x].parent # NULL => s.what[s.link[x].parent].k = "element"
    BY <1>1 DEF Kinds
  <2>4. \A x \in t.live : t.link[x].parent # NULL => t.what[t.link[x].parent].k = "element"
    BY <2>1, <2>2, <2>3
  <2>5. t.l.parent # NULL => t.what[t.l.parent].k = "element"
    BY <1>u, <2>2
  <2> QED BY <2>4, <2>5 DEF Kinds
<1>10. Rooted(t, setting)
  <2> SUFFICES ASSUME setting.top = NULL
               PROVE  /\ t.l.first # NULL => t.link[t.l.first].parent = NULL
                      /\ t.l.parent # NULL => t.l.first # NULL /\ t.l.first \in OpenNodes(t)
    BY DEF Rooted
  <2>1. up # NULL => t.l.first = F /\ F \in path
    BY <1>4, <1>5, <1>6
  <2>2. t.l.first # NULL => t.l.first = F /\ F \in u.live
    BY <1>5, <1>6
  <2> QED BY <1>4, <1>5, <1>6, <1>7, <2>1, <2>2
<1>11. Base(t, setting)
  BY <1>1, <1>5, <1>6, <1>8, <1>9, <1>10 DEF Base
<1>12. Reached(t, setting, {})
  <2> SUFFICES ASSUME ~setting.sax, setting.top = NULL, NEW x \in s.live
               PROVE  \/ t.l.first # NULL /\ t.l.first \in Above(t.link, x)
                      \/ t.link[x].parent = NULL /\ t.what[x].k # "element"
    BY <1>5, <1>6 DEF Reached
  <2>1. t.l.first = F /\ Above(t.link, x) = Above(s.link, x) /\ t.link[x].parent = s.link[x].parent /\ t.what = s.what
    BY <1>1, <1>5, <1>6
  <2> QED BY <1>1, <2>1 DEF Reached
<1>13. Balanced(t, setting)
  <2>1. \A x \in path : /\ t.ref_count[x] = s.ref_count[x] /\ (x \in t.l.retained <=> x \in s.l.retained)
                         /\ t.what[x] = s.what[x] /\ x \in OpenNodes(s)
    BY <1>3, <1>5, <1>6
  <2>2. ASSUME setting.sax, NEW x \in path, t.what[x].n \in Name
        PROVE  t.ref_count[x] = IF x \in t.l.retained THEN 2 ELSE 1
    <3>1. Balanced(s, setting)
      BY <1>1
    <3>2. s.ref_count[x] = IF x \in s.l.retained THEN 2 ELSE 1
      BY <2>1, <2>2, <3>1 DEF Balanced
    <3> QED BY <2>1, <2>2, <3>2
  <2> QED BY <1>7, <2>2 DEF Balanced
<1>14. Accounted(t, setting, {})
  BY <1>5, <1>6, <1>7 DEF Accounted
<1>15. Steady(t, setting)
  BY <1>1, <1>5, <1>6, <1>11, <1>12, <1>13, <1>14 DEF Steady, Reading
<1>16. Stays(s, u) => Stays(s, t)
  BY <1>6 DEF Stays, Same
<1>17. t.l.retained = s.l.retained \cap t.live /\ \A x \in t.live : Same(s, t, x)
  BY <1>5, <1>6 DEF Same
<1> QED BY <1>5, <1>6, <1>15, <1>16, <1>17 DEF Reading, up

-----------------------------------------------------------------------------
(* The values before a tag.                                                *)

LEMMA OneMore ==
  ASSUME NEW S, IsFiniteSet(S), NEW n, NEW R, R \subseteq S \cup {n}
  PROVE  IsFiniteSet(R) /\ Cardinality(R) \in Nat /\ Cardinality(S) \in Nat /\ Cardinality(R) <= Cardinality(S) + 1
<1>1. /\ IsFiniteSet(S \cup {n}) /\ Cardinality(S) \in Nat
      /\ Cardinality(S \cup {n}) = IF n \in S THEN Cardinality(S) ELSE Cardinality(S) + 1
  BY FS_AddElement, FS_CardinalityType
<1>2. IsFiniteSet(R) /\ Cardinality(R) <= Cardinality(S \cup {n}) /\ Cardinality(R) \in Nat
  BY <1>1, FS_Subset, FS_CardinalityType
<1> QED BY <1>1, <1>2

LEMMA RoomForOne ==
  ASSUME NEW s \in State, NEW i \in Nat, i < MaxPieces, Roomy(s, i)
  PROVE  Fresh(s) \in Node \ s.live
<1>1. IsFiniteSet(s.live) /\ Cardinality(s.live) + Pending(s) <= i + 2 /\ s.live \subseteq Node
  BY DEF Roomy, State
<1>2. Cardinality(s.live) \in Nat /\ Pending(s) \in Nat /\ MaxPieces \in Nat
  BY <1>1, FS_CardinalityType, XmlFileAssumption DEF Pending, XmlFileAssumption
<1>3. Cardinality(s.live) < MaxPieces + 2
  BY <1>1, <1>2
<1> QED BY <1>1, <1>3, FreshIs

LEMMA RoomAfter ==
  ASSUME NEW s, NEW t, NEW i \in Nat, Roomy(s, i), NEW n, t.live \subseteq s.live \cup {n},
         t.l.buffer = s.l.buffer, t.l.whitespace = s.l.whitespace
  PROVE  Roomy(t, i + 1)
<1>1. IsFiniteSet(s.live) /\ Cardinality(s.live) + Pending(s) <= i + 2
  BY DEF Roomy
<1>2. Pending(t) = Pending(s) /\ Pending(s) \in Nat
  BY DEF Pending
<1>3. /\ IsFiniteSet(t.live) /\ Cardinality(t.live) \in Nat /\ Cardinality(s.live) \in Nat
      /\ Cardinality(t.live) <= Cardinality(s.live) + 1
  BY <1>1, OneMore
<1>4. Cardinality(t.live) + Pending(t) <= i + 1 + 2
  BY <1>1, <1>2, <1>3
<1> QED BY <1>3, <1>4 DEF Roomy

\* Only the buffer and the whitespace change.
Scanned(s, b, ws) == [s EXCEPT !.l.buffer = b, !.l.whitespace = ws]

Scan(b, ws) == b \in Seq(Chars \cup {" "}) /\ ws \in BOOLEAN

LEMMA ScannedIs ==
  ASSUME NEW s, NEW c, Steady(s, c), NEW b, NEW ws, Scan(b, ws), NEW t, t = Scanned(s, b, ws)
  PROVE  /\ Steady(t, c) /\ Stays(s, t) /\ t.live = s.live /\ t.link = s.link /\ t.what = s.what
         /\ t.ref_count = s.ref_count /\ t.l.parent = s.l.parent /\ t.l.first = s.l.first
         /\ t.l.type = s.l.type /\ t.l.retained = s.l.retained /\ t.l.result = s.l.result
         /\ t.l.buffer = b /\ t.l.whitespace = ws
<1> DEFINE ll == [s.l EXCEPT !.buffer = b, !.whitespace = ws]
<1>1. /\ s \in State /\ s.l \in Locals /\ s.l.retained \subseteq s.live
      /\ s = [live |-> s.live, link |-> s.link, ref_count |-> s.ref_count, what |-> s.what, l |-> s.l]
  BY DEF State, Steady, Base, Pointing
<1>2. t = [live |-> s.live, link |-> s.link, ref_count |-> s.ref_count, what |-> s.what, l |-> ll]
  <2>1. t = [s EXCEPT !.l = ll]
    BY <1>1 DEF Scanned, Locals
  <2> HIDE DEF ll
  <2> QED BY <1>1, <2>1
<1>3. /\ ll \in Locals /\ ll.parent = s.l.parent /\ ll.first = s.l.first /\ ll.retained = s.l.retained
      /\ ll.whitespace = ws /\ ll.buffer = b /\ ll.result = s.l.result /\ ll.type = s.l.type
  BY <1>1 DEF Locals, Scan
<1> HIDE DEF ll
<1>4. t.live = s.live /\ t.link = s.link /\ t.ref_count = s.ref_count /\ t.what = s.what /\ t.l = ll
  BY <1>2
<1>5. t \in State
  BY <1>1, <1>2, <1>3 DEF State
<1>6. OpenNodes(t) = OpenNodes(s)
  BY <1>3, <1>4 DEF OpenNodes
<1>7. Pointing(t)
  BY <1>3, <1>4 DEF Steady, Base, Pointing
<1>8. Kinds(t)
  BY <1>3, <1>4 DEF Steady, Base, Kinds
<1>9. Rooted(t, c)
  BY <1>3, <1>4, <1>6 DEF Steady, Base, Rooted
<1>10. Base(t, c)
  BY <1>3, <1>4, <1>5, <1>7, <1>8, <1>9 DEF Steady, Base
<1>11. Reached(t, c, {})
  BY <1>3, <1>4 DEF Steady, Reached
<1>12. Balanced(t, c)
  BY <1>3, <1>4, <1>6 DEF Steady, Balanced
<1>13. Accounted(t, c, {})
  BY <1>3, <1>4, <1>6 DEF Steady, Accounted
<1>14. Steady(t, c)
  BY <1>3, <1>4, <1>10, <1>11, <1>12, <1>13 DEF Steady
<1>15. Stays(s, t)
  BY <1>1, <1>3, <1>4 DEF Stays, Same
<1> QED BY <1>3, <1>4, <1>14, <1>15

LEMMA StaysTwice ==
  ASSUME NEW s, NEW m, NEW t, Stays(s, m), Stays(m, t)
  PROVE  Stays(s, t)
BY DEF Stays, Same

\* The loop goes on, with room for what i pieces make, or has ended.
Onward(s, t, i) ==
  \/ Steady(t, setting) /\ Roomy(t, i) /\ Stays(s, t)
  \/ Done(t, setting, {}) /\ (t.l.result = "failed" \/ Stays(s, t))

LEMMA FlushedIs ==
  ASSUME NEW s, Steady(s, setting), NEW i \in Nat, i < MaxPieces, Roomy(s, i), s.l.buffer # << >>,
         NEW atSpace \in BOOLEAN, NEW keep \in BOOLEAN, NEW t, t = Flushed(s, atSpace, keep)
  PROVE  /\ Onward(s, t, i + 1) /\ (~atSpace => Onward(s, t, i))
         /\ t.l.result = "loading" /\ ~atSpace => t.l.buffer = << >> /\ t.l.whitespace = FALSE
<1> DEFINE w == CASE s.l.type = "text" -> Text(s.l.whitespace, s.l.buffer)
                  [] s.l.type # "text" -> [k |-> s.l.type, s |-> s.l.buffer]
           made == NewNode(s, w)
           ws == atSpace /\ s.l.type = "text"
           n == Fresh(s)
<1>1. /\ s \in State /\ s.l \in Locals /\ s.live \in SUBSET Node /\ Base(s, setting)
      /\ Reached(s, setting, {}) /\ s.l.result = "loading"
      /\ s.l.first \in s.live \cup {NULL} /\ s.l.parent \in s.live \cup {NULL} /\ Grove(s.link, s.live)
      /\ s = [live |-> s.live, link |-> s.link, ref_count |-> s.ref_count, what |-> s.what, l |-> s.l]
  BY DEF Steady, Base, Pointing, State
<1>2. n \in Node \ s.live
  BY <1>1, RoomForOne
<1>3. Scan(<< >>, ws)
  BY EmptySeq DEF Scan
<1>4. /\ IsFiniteSet(s.live) /\ Cardinality(s.live) \in Nat /\ Cardinality(s.live) + 1 <= i + 2
      /\ \A R : R \subseteq s.live \cup {n} => /\ IsFiniteSet(R) /\ Cardinality(R) \in Nat
                                              /\ Cardinality(R) <= Cardinality(s.live) + 1
  <2>1. IsFiniteSet(s.live) /\ Pending(s) = 1 /\ Cardinality(s.live) + Pending(s) <= i + 2
    BY DEF Roomy, Pending
  <2> HIDE DEF n
  <2>2. \A R : R \subseteq s.live \cup {n} => /\ IsFiniteSet(R) /\ Cardinality(R) \in Nat
                                              /\ Cardinality(R) <= Cardinality(s.live) + 1
    BY <2>1, OneMore
  <2> QED BY <2>1, <2>2, FS_CardinalityType
<1> HIDE DEF n
\* After a value, whatever became of it.
<1>5. ASSUME NEW u, Steady(u, setting), Stays(s, u), u.live \subseteq s.live \cup {n}, t = Scanned(u, << >>, ws)
      PROVE  /\ Onward(s, t, i + 1) /\ (~atSpace => Onward(s, t, i))
             /\ ~atSpace => t.l.buffer = << >> /\ t.l.whitespace = FALSE
  <2> HIDE DEF ws
  <2>1. Steady(t, setting) /\ Stays(u, t) /\ t.live = u.live /\ t.l.buffer = << >> /\ t.l.whitespace = ws
    BY <1>3, <1>5, ScannedIs
  <2>2. Stays(s, t)
    BY <1>5, <2>1, StaysTwice
  <2>3. IsFiniteSet(t.live) /\ Cardinality(t.live) \in Nat /\ Cardinality(t.live) <= i + 2
    BY <1>4, <1>5, <2>1
  <2>4. Pending(t) <= 1 /\ Pending(t) \in Nat /\ (~atSpace => Pending(t) = 0 /\ ~ws)
    BY <2>1 DEF Pending, ws
  <2>5. Roomy(t, i + 1) /\ (~atSpace => Roomy(t, i))
    BY <2>3, <2>4 DEF Roomy
  <2> QED BY <1>3, <2>1, <2>2, <2>4, <2>5 DEF Onward
<1>6. CASE s.l.type = "ignore"
  <2>1. t = [s EXCEPT !.l.buffer = << >>, !.l.whitespace = ws]
    BY <1>6 DEF Flushed
  <2>2. Stays(s, s)
    BY <1>1 DEF Stays, Base, Pointing, Same
  <2>3. t = Scanned(s, << >>, ws)
    BY <2>1 DEF Scanned
  <2> HIDE DEF ws
  <2> QED BY <1>5, <2>2, <2>3
<1>7. CASE s.l.type # "ignore"
  <2>1. w \in Contents /\ w.k # "element"
    <3>1. CASE s.l.type = "text"
      BY <1>1, <3>1 DEF Text, Contents, Locals
    <3>2. CASE s.l.type # "text"
      BY <1>1, <1>7, <3>2 DEF Contents, Locals
    <3> QED BY <3>1, <3>2
  <2>2. CASE s.l.type = "integer" /\ ~IsNumber(s.l.buffer)
    <3>1. t = Finished(made)
      BY <2>2 DEF Flushed
    <3> HIDE DEF w
    <3>2. Made(s, made, n, w)
      BY <1>1, <1>2, <2>1, NewNodeIs DEF n
    <3>3. Midway(made, setting, n) /\ Stays(s, made)
      BY <1>2, <2>1, <3>2, NewIsMidway
    <3> HIDE DEF made
    <3>4. Base(made, setting) /\ Reached(made, setting, {n}) /\ made.what[n] = w
      BY <1>1, <1>2, <3>2, <3>3 DEF Midway, Made, State
    <3>5. Reached(made, setting, {})
      <4>1. CASE setting.sax
        BY <4>1 DEF Reached
      <4>2. CASE ~setting.sax
        BY <2>1, <3>3, <3>4, <4>2, LeafStays DEF Steady
      <4> QED BY <4>1, <4>2
    <3>6. Done(t, setting, {}) /\ (t.l.result = "failed" \/ Stays(made, t))
      BY <3>1, <3>4, <3>5, FinishedIs
    <3>7. t.l.result # "loading"
      BY <3>6 DEF Done
    <3>8. t.l.result = "failed" \/ Stays(s, t)
      BY <3>3, <3>6, StaysTwice
    <3> QED BY <3>6, <3>7, <3>8 DEF Onward
  <2>3. CASE ~(s.l.type = "integer" /\ ~IsNumber(s.l.buffer))
    <3> DEFINE u == Handed(made, n, keep)
    <3>1. t = [u EXCEPT !.l.buffer = << >>, !.l.whitespace = ws]
      BY <1>7, <2>3 DEF Flushed, n
    <3>2. Steady(u, setting) /\ Stays(s, u) /\ u.live \subseteq s.live \cup {n}
      <4> HIDE DEF w
      <4> QED BY <1>2, <2>1, LeafIs DEF n
    <3>3. t = Scanned(u, << >>, ws)
      BY <3>1 DEF Scanned
    <3> HIDE DEF u, ws
    <3> QED BY <1>5, <3>2, <3>3
  <2> QED BY <2>2, <2>3
<1> QED BY <1>6, <1>7

LEMMA ScannedWhitespace ==
  ASSUME NEW s, s.l \in Locals, NEW ws
  PROVE  [s EXCEPT !.l.whitespace = ws] = Scanned(s, s.l.buffer, ws) /\ (ws \in BOOLEAN => Scan(s.l.buffer, ws))
<1>1. [s.l EXCEPT !.buffer = s.l.buffer, !.whitespace = ws] = [s.l EXCEPT !.whitespace = ws]
  BY DEF Locals
<1>2. Scanned(s, s.l.buffer, ws) = [s EXCEPT !.l = [s.l EXCEPT !.buffer = s.l.buffer, !.whitespace = ws]]
  BY DEF Scanned, Locals
<1>3. [s EXCEPT !.l.whitespace = ws] = [s EXCEPT !.l = [s.l EXCEPT !.whitespace = ws]]
  OBVIOUS
<1>4. s.l.buffer \in Seq(Chars \cup {" "})
  BY DEF Locals
<1> QED BY <1>1, <1>2, <1>3, <1>4 DEF Scan

LEMMA ScannedBuffer ==
  ASSUME NEW s, s.l \in Locals, NEW c \in Chars \cup {" "}
  PROVE  /\ [s EXCEPT !.l.buffer = Append(@, c)] = Scanned(s, Append(s.l.buffer, c), s.l.whitespace)
         /\ Scan(Append(s.l.buffer, c), s.l.whitespace)
<1> DEFINE b == Append(s.l.buffer, c)
<1>0. s.l.buffer \in Seq(Chars \cup {" "}) /\ s.l.whitespace \in BOOLEAN
  BY DEF Locals
<1>1. b \in Seq(Chars \cup {" "})
  <2> DEFINE S == Chars \cup {" "}
  <2>1. s.l.buffer \in Seq(S) /\ c \in S
    BY <1>0
  <2> HIDE DEF S
  <2>2. b \in Seq(S)
    BY <2>1, AppendProperties
  <2> QED BY <2>2 DEF S
<1>2. [s EXCEPT !.l.buffer = Append(@, c)] = [s EXCEPT !.l.buffer = b]
  OBVIOUS
<1> HIDE DEF b
<1>3. [s.l EXCEPT !.buffer = b, !.whitespace = s.l.whitespace] = [s.l EXCEPT !.buffer = b]
  BY DEF Locals
<1>4. Scanned(s, b, s.l.whitespace) = [s EXCEPT !.l = [s.l EXCEPT !.buffer = b, !.whitespace = s.l.whitespace]]
  BY DEF Scanned, Locals
<1>5. [s EXCEPT !.l.buffer = b] = [s EXCEPT !.l = [s.l EXCEPT !.buffer = b]]
  OBVIOUS
<1>6. [s EXCEPT !.l.buffer = b] = Scanned(s, b, s.l.whitespace)
  BY <1>3, <1>4, <1>5
<1> QED BY <1>0, <1>1, <1>2, <1>6 DEF Scan, b

\* A value that goes on makes no node.
LEMMA RoomAfterScan ==
  ASSUME NEW s, NEW t, NEW i \in Nat, Roomy(s, i), t.live = s.live
  PROVE  Roomy(t, i + 1)
<1>1. IsFiniteSet(s.live) /\ Cardinality(s.live) + Pending(s) <= i + 2 /\ Cardinality(s.live) \in Nat
  BY FS_CardinalityType DEF Roomy
<1>2. Pending(t) \in {0, 1} /\ Pending(s) \in {0, 1}
  BY DEF Pending
<1>3. Cardinality(t.live) + Pending(t) <= i + 1 + 2
  BY <1>1, <1>2
<1> QED BY <1>1, <1>3 DEF Roomy

LEMMA StaysSelf ==
  ASSUME NEW s, NEW c, Steady(s, c)
  PROVE  Stays(s, s)
BY DEF Steady, Base, Pointing, Stays, Same

LEMMA LoneWhitespaceIs ==
  ASSUME NEW s, Steady(s, setting), NEW i \in Nat, i < MaxPieces, Roomy(s, i), s.l.buffer = << >>,
         NEW keep \in BOOLEAN, NEW t, t = LoneWhitespace(s, keep)
  PROVE  Steady(t, setting) /\ Roomy(t, i) /\ Stays(s, t)
<1>1. s \in State /\ s.l \in Locals
  BY DEF Steady, Base, State
<1>2. CASE ~(s.l.whitespace /\ s.l.type = "text")
  BY <1>2, StaysSelf DEF LoneWhitespace
<1>3. CASE s.l.whitespace /\ s.l.type = "text"
  <2>1. IsFiniteSet(s.live) /\ Cardinality(s.live) \in Nat /\ Cardinality(s.live) + 1 <= i + 2
    BY <1>3, FS_CardinalityType DEF Roomy, Pending
  <2>2. ASSUME NEW u, Steady(u, setting), Stays(s, u), u.l.buffer = << >>, NEW n, u.live \subseteq s.live \cup {n},
               t = [u EXCEPT !.l.whitespace = FALSE], s.l.parent # NULL \/ u.live = s.live
        PROVE  Steady(t, setting) /\ Roomy(t, i) /\ Stays(s, t)
    <3>1. u.l \in Locals
      BY <2>2 DEF Steady, Base, State
    <3> DEFINE b == u.l.buffer
               ws == FALSE
    <3>2. t = Scanned(u, b, ws) /\ Scan(b, ws) /\ Steady(u, setting) /\ b = << >>
      BY <2>2, <3>1, ScannedWhitespace
    <3> HIDE DEF b, ws
    <3>3. Steady(t, setting) /\ Stays(u, t) /\ t.live = u.live /\ t.l.buffer = b /\ t.l.whitespace = ws
      BY <3>2, ScannedIs
    <3>4. Pending(t) = 0
      BY <3>2, <3>3 DEF Pending, ws
    <3>5. IsFiniteSet(t.live) /\ Cardinality(t.live) \in Nat /\ Cardinality(t.live) <= Cardinality(s.live) + 1
      BY <2>1, <2>2, <3>3, OneMore
    <3>6. Roomy(t, i)
      BY <2>1, <3>4, <3>5 DEF Roomy
    <3>7. Stays(s, t)
      BY <2>2, <3>3, StaysTwice
    <3> QED BY <3>3, <3>6, <3>7
  <2>3. CASE s.l.parent = NULL
    <3>1. t = [s EXCEPT !.l.whitespace = FALSE]
      BY <1>3, <2>3 DEF LoneWhitespace
    <3>2. Stays(s, s) /\ s.live \subseteq s.live \cup {NULL}
      BY StaysSelf
    <3> QED BY <2>2, <3>1, <3>2
  <2>4. CASE s.l.parent # NULL
    <3> DEFINE w == Text(TRUE, << >>)
               n == Fresh(s)
               u == Handed(NewNode(s, w), n, keep)
    <3>1. t = [u EXCEPT !.l.whitespace = FALSE]
      BY <1>3, <2>4 DEF LoneWhitespace
    <3>2. w \in Contents /\ w.k # "element"
      BY EmptySeq DEF Text, Contents
    <3>3. n \in Node \ s.live
      BY <1>1, RoomForOne
    <3> HIDE DEF w
    <3>4. Steady(u, setting) /\ Stays(s, u) /\ u.live \subseteq s.live \cup {n} /\ Reading(s, u)
      BY <3>2, <3>3, LeafIs
    <3> HIDE DEF u, n
    <3>5. u.l.buffer = << >>
      BY <3>4 DEF Reading
    <3> QED BY <2>2, <2>4, <3>1, <3>4, <3>5
  <2> QED BY <2>3, <2>4
<1> QED BY <1>2, <1>3

LEMMA BeforeTagIs ==
  ASSUME NEW s, Steady(s, setting), NEW i \in Nat, i < MaxPieces, Roomy(s, i),
         NEW keep \in BOOLEAN, NEW t, t = BeforeTag(s, keep)
  PROVE  Onward(s, t, i)
<1> DEFINE u == IF s.l.buffer = << >> THEN s ELSE Flushed(s, FALSE, keep)
<1>1. t = IF u.l.result = "loading" THEN LoneWhitespace(u, keep) ELSE u
  BY DEF BeforeTag
<1>2. CASE s.l.buffer = << >>
  <2>1. u = s /\ s.l.result = "loading"
    BY <1>2 DEF Steady
  <2> HIDE DEF u
  <2>2. t = LoneWhitespace(s, keep)
    BY <1>1, <2>1
  <2> QED BY <1>2, <2>2, LoneWhitespaceIs DEF Onward
<1>3. CASE s.l.buffer # << >>
  <2>1. u = Flushed(s, FALSE, keep)
    BY <1>3
  <2> HIDE DEF u
  <2>2. Onward(s, u, i) /\ (u.l.result = "loading" => u.l.buffer = << >> /\ u.l.whitespace = FALSE)
    BY <1>3, <2>1, FlushedIs
  <2>3. t = u
    BY <1>1, <2>2 DEF LoneWhitespace
  <2> QED BY <2>2, <2>3
<1> QED BY <1>2, <1>3

-----------------------------------------------------------------------------
(* The pieces.                                                             *)

\* What is retained stays, or goes with an ancestor that was not retained.
Keeps(s, t) ==
  \A m \in s.l.retained :
    m \notin t.live /\ t.l.result # "failed" => \E a \in Above(s.link, m) : a \notin s.l.retained

\* From s, a piece leads to t; of elements, those in X may be left.
Leads(s, t, i, X) ==
  /\ (Steady(t, setting) /\ Roomy(t, i)) \/ Done(t, setting, X)
  /\ Keeps(s, t)

LEMMA StaysKeeps ==
  ASSUME NEW s, Steady(s, setting), NEW t, Stays(s, t) \/ t.l.result = "failed"
  PROVE  Keeps(s, t)
BY DEF Steady, Base, Pointing, Stays, Keeps, Same

LEMMA DoneMore ==
  ASSUME NEW t, NEW c, NEW X, NEW Y, Done(t, c, X), X \subseteq Y
  PROVE  Done(t, c, Y)
BY DEF Done, Left

LEMMA FailureLeads ==
  ASSUME NEW s, Steady(s, setting), NEW i, NEW t, t = Failed(s)
  PROVE  Leads(s, t, i, {})
<1>1. Base(s, setting) /\ Reached(s, setting, {}) /\ Loose(s, setting, {})
  BY DEF Steady, Loose
<1>2. Done(t, setting, {}) /\ t.l.result = "failed"
  BY <1>1, FailedIs
<1> QED BY <1>2, StaysKeeps DEF Leads

LEMMA SecondLeads ==
  ASSUME NEW s, Steady(s, setting), SecondRoot(s), NEW i, NEW t, t = SecondRefused(s)
  PROVE  Leads(s, t, i, {})
<1>1. Base(s, setting) /\ Reached(s, setting, {})
  BY DEF Steady
<1>2. Done(t, setting, {}) /\ (t.l.result = "failed" \/ Stays(s, t))
  BY <1>1, SecondRefusedIs
<1> QED BY <1>2, StaysKeeps DEF Leads

\* An element without children.
LEMMA MarkupIs ==
  ASSUME NEW s, Steady(s, setting), NEW i \in Nat, i < MaxPieces, Roomy(s, i), ~SecondRoot(s),
         NEW m \in Markup, NEW keep \in BOOLEAN, NEW n, n = Fresh(s),
         NEW t, t = Handed(NewNode(s, Element(m, << >>)), n, keep)
  PROVE  /\ Steady(t, setting) /\ Stays(s, t) /\ Roomy(t, i + 1) /\ Reading(s, t)
         /\ n \in t.live => /\ t.link[n].parent = s.l.parent /\ t.what[n] = Element(m, << >>)
                            /\ s.l.first = NULL => t.l.first = n
                            /\ setting.sax => n \in t.l.retained
         /\ n \notin t.live => t.l.first = s.l.first
<1> DEFINE w == Element(m, << >>)
<1>1. s \in State
  BY DEF Steady, Base
<1>2. n \in Node \ s.live
  BY <1>1, RoomForOne
<1>3. w \in Contents /\ (s.l.first = NULL \/ s.l.parent # NULL)
  BY DEF Element, Contents, SecondRoot
<1> HIDE DEF w
<1>4. t = Handed(NewNode(s, w), n, keep)
  BY DEF w
<1>5. /\ Steady(t, setting) /\ Stays(s, t) /\ t.live \subseteq s.live \cup {n} /\ Reading(s, t)
      /\ n \in t.live => /\ t.link[n].parent = s.l.parent /\ t.what[n] = w
                         /\ s.l.first = NULL => t.l.first = n
                         /\ setting.sax => n \in t.l.retained
      /\ n \notin t.live => t.l.first = s.l.first
  BY <1>2, <1>3, <1>4, LeafIs
<1>6. Roomy(t, i + 1)
  BY <1>5, RoomAfter DEF Reading
<1> QED BY <1>5, <1>6 DEF w

LEMMA CommentLeads ==
  ASSUME NEW s, Steady(s, setting), NEW i \in Nat, i < MaxPieces, Roomy(s, i),
         NEW m \in Markup, NEW keep \in BOOLEAN, NEW t, t = Comment(s, m, keep)
  PROVE  Leads(s, t, i + 1, {})
<1>1. CASE SecondRoot(s)
  BY <1>1, SecondLeads DEF Comment
<1>2. CASE ~SecondRoot(s)
  <2>1. t = Handed(NewNode(s, Element(m, << >>)), Fresh(s), keep)
    BY <1>2 DEF Comment
  <2>2. Steady(t, setting) /\ Stays(s, t) /\ Roomy(t, i + 1)
    BY <1>2, <2>1, MarkupIs
  <2> QED BY <2>2, StaysKeeps DEF Leads
<1> QED BY <1>1, <1>2

LEMMA DirectiveLeads ==
  ASSUME Caller(setting), NEW s, Steady(s, setting), NEW i \in Nat, i < MaxPieces, Roomy(s, i),
         NEW m \in Markup, NEW keep \in BOOLEAN, NEW t, t = Directive(s, m, keep)
  PROVE  Leads(s, t, i + 1, {})
<1>1. CASE SecondRoot(s)
  BY <1>1, SecondLeads DEF Directive
<1>2. CASE ~SecondRoot(s)
  <2> DEFINE n == Fresh(s)
             u == Handed(NewNode(s, Element(m, << >>)), n, keep)
  <2>1. t = IF n \in u.live /\ s.l.parent = NULL THEN Inside(u, n) ELSE u
    BY <1>2 DEF Directive, Inside
  <2>2. /\ Steady(u, setting) /\ Stays(s, u) /\ Roomy(u, i + 1) /\ u.l.parent = s.l.parent
        /\ n \in u.live => /\ u.link[n].parent = s.l.parent /\ u.what[n] = Element(m, << >>)
                           /\ s.l.first = NULL => u.l.first = n
                           /\ setting.sax => n \in u.l.retained
    BY <1>2, MarkupIs DEF Reading
  <2> HIDE DEF n, u
  <2>3. CASE ~(n \in u.live /\ s.l.parent = NULL)
    <3>1. t = u
      BY <2>1, <2>3
    <3> QED BY <2>2, <3>1, StaysKeeps DEF Leads
  <2>4. CASE n \in u.live /\ s.l.parent = NULL
    <3>1. t = Inside(u, n)
      BY <2>1, <2>4
    <3>2. /\ u.l.parent = NULL /\ u.link[n].parent = NULL /\ u.l.first = n
          /\ u.what[n].k = "element" /\ u.what[n].n \in Markup
          /\ setting.sax => n \in u.l.retained
      BY <1>2, <2>2, <2>4 DEF SecondRoot, Element
    <3>3. Steady(t, setting)
      BY <2>2, <2>4, <3>1, <3>2, EnteredFirst
    <3>4. u \in State
      BY <2>2 DEF Steady, Base
    <3>5. /\ t.live = u.live /\ t.link = u.link /\ t.what = u.what /\ t.l.retained = u.l.retained
          /\ t.l.whitespace = u.l.whitespace /\ t.l.buffer = u.l.buffer
      <4>1. n \in u.live \cup {NULL}
        BY <2>4
      <4> QED BY <3>1, <3>4, <4>1, InsideIs
    <3>6. Stays(s, t)
      BY <2>2, <3>5 DEF Stays, Same
    <3>7. Roomy(t, i + 1)
      BY <2>2, <3>5 DEF Roomy, Pending
    <3> QED BY <3>3, <3>6, <3>7, StaysKeeps DEF Leads
  <2> QED BY <2>3, <2>4
<1> QED BY <1>1, <1>2

LEMMA CloseLeads ==
  ASSUME Caller(setting), NEW s, Steady(s, setting), NEW i \in Nat, Roomy(s, i),
         NEW n \in Name, NEW t, t = Close(s, n)
  PROVE  Leads(s, t, i + 1, {})
<1> DEFINE p == s.l.parent
<1>1. CASE p = NULL \/ s.what[p].n # n
  BY <1>1, FailureLeads DEF Close
<1>2. CASE ~(p = NULL \/ s.what[p].n # n)
  <2>1. t = Inside(Closed(s, p), s.link[p].parent)
    BY <1>2 DEF Close, Inside
  <2>2. Closing(s, p, t)
    BY <1>2, <2>1 DEF Closing
  <2> HIDE DEF p
  <2>3. /\ Steady(t, setting) /\ t.l.whitespace = s.l.whitespace /\ t.l.buffer = s.l.buffer
        /\ t.live \subseteq s.live
        /\ (Stays(s, t) \/ (p \notin s.l.retained /\ \A x \in s.live \ t.live : p \in Above(s.link, x)))
    BY <2>2, ClosedIs
  <2>4. Roomy(t, i + 1)
    <3>1. t.live \subseteq s.live \cup {NULL}
      BY <2>3
    <3> QED BY <2>3, <3>1, RoomAfter
  <2>5. Keeps(s, t)
    <3>1. s.l.retained \subseteq s.live
      BY DEF Steady, Base, Pointing
    <3>2. CASE Stays(s, t)
      BY <3>2, StaysKeeps
    <3>3. CASE p \notin s.l.retained /\ \A x \in s.live \ t.live : p \in Above(s.link, x)
      BY <3>1, <3>3 DEF Keeps
    <3> QED BY <2>3, <3>2, <3>3
  <2> QED BY <2>3, <2>4, <2>5 DEF Leads
<1> QED BY <1>1, <1>2

\* A tag.
NewTag(s, p, n, made) ==
  /\ Steady(s, setting) /\ ~SecondRoot(s) /\ p \in Tags /\ n = Fresh(s) /\ n \in Node \ s.live
  /\ made = NewNode(s, Element(p.n, p.attrs))

Tagged(s, n, made) ==
  /\ Midway(made, setting, n) /\ Stays(s, made) /\ made.live = s.live \cup {n}
  /\ n \notin made.l.retained /\ made.l.first # n /\ made.l = s.l /\ made.what[n].k = "element"
  /\ Loose(made, setting, {n})

LEMMA NewTagIs ==
  ASSUME NEW s, NEW p, NEW n, NEW made, NewTag(s, p, n, made)
  PROVE  Tagged(s, n, made) /\ made.what[n].n = p.n
<1> DEFINE w == Element(p.n, p.attrs)
<1>1. /\ Steady(s, setting) /\ s \in State /\ Grove(s.link, s.live) /\ s.l.parent \in s.live \cup {NULL}
      /\ s.l.first \in s.live \cup {NULL} /\ s.l.retained \subseteq s.live /\ s.what \in [Node -> Contents]
      /\ n = Fresh(s) /\ n \in Node \ s.live /\ made = NewNode(s, w) /\ NULL \notin Node
  BY XmlTreeAssumption DEF XmlTreeAssumption, NewTag, Steady, Base, Pointing, State
<1>2. w \in Contents /\ w.k = "element" /\ w.n = p.n
  BY XmlFileAssumption DEF XmlFileAssumption, NewTag, Element, Contents
<1> HIDE DEF w
<1>3. Made(s, made, n, w)
  BY <1>1, <1>2, NewNodeIs
<1>4. Midway(made, setting, n) /\ Stays(s, made)
  BY <1>1, <1>2, <1>3, NewIsMidway
<1>5. made.l = s.l /\ made.live = s.live \cup {n} /\ made.what[n] = w
  BY <1>1, <1>3 DEF Made
<1>6. Loose(made, setting, {n})
  <2>1. /\ made.link[n].parent = made.l.parent /\ \A y \in made.live : made.link[y].parent # n
        /\ Rooted(made, setting) /\ made.link \in [Node -> Link]
    BY <1>4 DEF Midway, Base, State
  <2> SUFFICES ASSUME setting.top = NULL, made.l.parent # NULL
               PROVE  made.l.first # NULL /\ made.l.first \in Above(made.link, n)
    BY <2>1 DEF Loose
  <2>2. Above(made.link, n) = {n} \cup Above(made.link, made.l.parent)
    BY <1>1, <2>1, AboveIs
  <2> QED BY <2>1, <2>2 DEF Rooted, OpenNodes
<1> QED BY <1>1, <1>2, <1>4, <1>5, <1>6 DEF Tagged

\* Shown, and the first when there was none.
Noted(s, n, shown, known) ==
  known = IF s.l.first = NULL THEN [shown EXCEPT !.l.first = n] ELSE shown

LEMMA KnownIs ==
  ASSUME NEW s, NEW p, NEW n, NEW made, NewTag(s, p, n, made), NEW keep \in BOOLEAN,
         NEW known, Noted(s, n, Shown(made, n, keep), known)
  PROVE  /\ Midway(known, setting, n) /\ Stays(s, known) /\ known.live = made.live
         /\ known.what[n].k = "element" /\ known.what[n].n = p.n
         /\ known.l.first = n \/ (known.l.first # NULL /\ known.l.parent # NULL)
         /\ Reading(s, known)
<1> DEFINE shown == Shown(made, n, keep)
<1>1. /\ Midway(made, setting, n) /\ Stays(s, made) /\ made.live = s.live \cup {n}
      /\ n \notin made.l.retained /\ made.l.first # n /\ made.l = s.l /\ made.what[n].k = "element"
      /\ made.what[n].n = p.n
  <2>1. Tagged(s, n, made) /\ made.what[n].n = p.n
    BY NewTagIs
  <2> QED BY <2>1 DEF Tagged
<1>2. n \notin s.live /\ s.l.retained \subseteq s.live /\ (s.l.first = NULL \/ s.l.parent # NULL)
  BY DEF NewTag, SecondRoot, Steady, Base, Pointing
<1>3. /\ Midway(shown, setting, n) /\ Spared(made, shown, n)
      /\ shown.live = made.live /\ shown.link = made.link /\ shown.what = made.what
      /\ shown.l = IF setting.sax /\ keep THEN [made.l EXCEPT !.retained = @ \cup {n}] ELSE made.l
  BY <1>1, ShownIs
<1>4. known = IF s.l.first = NULL THEN [shown EXCEPT !.l.first = n] ELSE shown
  BY DEF Noted
<1> HIDE DEF shown
<1>5. s.l \in Locals /\ shown.l \in Locals
      /\ shown = [live |-> shown.live, link |-> shown.link, ref_count |-> shown.ref_count, what |-> shown.what,
                  l |-> shown.l]
  BY <1>1, <1>3 DEF Midway, Base, State
<1>6. shown.l.first = s.l.first /\ Reading(s, shown)
  <2>1. CASE setting.sax /\ keep
    <3>1. shown.l = [s.l EXCEPT !.retained = s.l.retained \cup {n}]
      BY <1>1, <1>3, <2>1
    <3> QED BY <1>5, <3>1 DEF Locals, Reading
  <2>2. CASE ~(setting.sax /\ keep)
    BY <1>1, <1>3, <2>2 DEF Reading
  <2> QED BY <2>1, <2>2
<1>7. CASE s.l.first # NULL
  <2>1. known = shown
    BY <1>4, <1>7
  <2>2. Stays(s, shown)
    BY <1>1, <1>2, <1>3, SparedStays
  <2> QED BY <1>1, <1>2, <1>3, <1>6, <1>7, <2>1, <2>2 DEF Reading
<1>8. CASE s.l.first = NULL
  <2> DEFINE v == [shown EXCEPT !.l.first = n]
  <2>1. known = v
    BY <1>4, <1>8
  <2>2. Midway(v, setting, n) /\ Spared(shown, v, n)
    BY <1>3, <1>6, <1>8, FirstSet
  <2>3. v.live = shown.live /\ v.what = shown.what /\ v.l = [shown.l EXCEPT !.first = n]
    BY <1>5
  <2> HIDE DEF v
  <2>4. v.l.first = n /\ Reading(s, v)
    BY <1>5, <1>6, <2>3 DEF Locals, Reading
  <2>5. Spared(made, v, n)
    BY <1>3, <2>2, SparedTwice
  <2>6. Stays(s, v)
    BY <1>1, <1>2, <2>5, SparedStays
  <2> QED BY <1>1, <1>3, <2>1, <2>2, <2>3, <2>4, <2>6
<1> QED BY <1>7, <1>8

\* An element without children is closed at once.
LEMMA ClosedAtOnce ==
  ASSUME NEW s, NEW n, Midway(s, setting, n), s.l.first = n \/ (s.l.first # NULL /\ s.l.parent # NULL),
         NEW t, t = Closed(s, n)
  PROVE  /\ Steady(t, setting) /\ Spared(s, t, n)
         /\ Reading(s, t)
<1>1. /\ n \in s.live /\ s.ref_count[n] = (IF n \in s.l.retained THEN 2 ELSE 1) /\ s \in State /\ s.l \in Locals
      /\ Grove(s.link, s.live) /\ s.live \in SUBSET Node
      /\ s = [live |-> s.live, link |-> s.link, ref_count |-> s.ref_count, what |-> s.what, l |-> s.l]
  BY DEF Midway, Base, State
<1>2. CASE ~setting.sax
  <2>1. t = s
    BY <1>2 DEF Closed
  <2>2. Steady(s, setting)
    BY <1>2, LeafStays
  <2>3. Spared(s, s, n) /\ Reading(s, s)
    BY DEF Spared, Same, Reading
  <2> QED BY <2>1, <2>2, <2>3
<1>3. CASE setting.sax /\ n \in s.l.retained
  <2> DEFINE u == Unheld(s, n)
  <2>1. Released(s, n) = u
    BY <1>1, <1>3 DEF Released, Unheld
  <2>2. Steady(u, setting) /\ Spared(s, u, n) /\ u.live = s.live /\ u.l = s.l
    BY <1>3, LeafHeld
  <2> HIDE DEF u
  <2>3. t = u
    BY <1>1, <1>3, <2>1, <2>2 DEF Closed
  <2> QED BY <2>2, <2>3 DEF Reading
<1>4. CASE setting.sax /\ n \notin s.l.retained
  <2> DEFINE d == Dropped(s, n)
  <2>1. /\ Steady(d, setting) /\ Spared(s, d, n) /\ n \notin d.live
        /\ d.l = [s.l EXCEPT !.first = IF s.l.first = n THEN NULL ELSE s.l.first]
    BY <1>4, LeafDropped
  <2>2. Reading(s, d)
    BY <1>1, <2>1 DEF Locals, Reading
  <2>3. Released(s, n) = Deleted(s, n)
    BY <1>1, <1>4 DEF Released
  <2>4. n \notin Deleted(s, n).live
    <3>1. Gone(s, Deleted(s, n), n)
      BY <1>1, DeletedIs
    <3> QED BY <3>1 DEF Gone
  <2>5. t = d
    BY <1>4, <2>3, <2>4 DEF Closed, Dropped
  <2> QED BY <2>1, <2>2, <2>5
<1> QED BY <1>2, <1>3, <1>4

\* Into the element of a tag, ...
LEMMA TagEntered ==
  ASSUME Caller(setting), NEW s, NEW p, NEW n, NEW made, NewTag(s, p, n, made), NEW keep \in BOOLEAN,
         NEW known, Noted(s, n, Shown(made, n, keep), known), NEW t, t = Inside(known, n)
  PROVE  /\ Steady(t, setting) /\ Stays(s, t) /\ t.live \subseteq s.live \cup {n}
         /\ t.l.buffer = s.l.buffer /\ t.l.whitespace = s.l.whitespace /\ t.l.result = s.l.result
         /\ n \in t.live /\ t.l.parent = n /\ t.link[n].parent = s.l.parent /\ t.what[n].n = p.n
         /\ (setting.cb = NONE => t.l.type = s.l.type)
<1>1. /\ Midway(known, setting, n) /\ Stays(s, known) /\ known.live = made.live
      /\ known.what[n].k = "element" /\ known.what[n].n = p.n
      /\ known.l.first = n \/ (known.l.first # NULL /\ known.l.parent # NULL)
      /\ Reading(s, known)
  BY KnownIs
<1>2. made.live = s.live \cup {n}
  <2>1. Tagged(s, n, made) /\ made.what[n].n = p.n
    BY NewTagIs
  <2> QED BY <2>1 DEF Tagged
<1>3. known \in State /\ n \in known.live /\ known.link[n].parent = known.l.parent
  BY <1>1 DEF Midway, Base
<1>4. Steady(t, setting)
  BY <1>1, EnteredNew
<1>5. /\ t.live = known.live /\ t.link = known.link /\ t.what = known.what /\ t.l.parent = n
      /\ t.l.retained = known.l.retained /\ t.l.whitespace = known.l.whitespace
      /\ t.l.buffer = known.l.buffer /\ t.l.result = known.l.result
      /\ (setting.cb = NONE => t.l.type = known.l.type)
  <2>1. n \in known.live \cup {NULL}
    BY <1>3
  <2> QED BY <1>3, <2>1, InsideIs
<1>6. Stays(s, t)
  BY <1>1, <1>5 DEF Stays, Same
<1> QED BY <1>1, <1>2, <1>3, <1>4, <1>5, <1>6 DEF Reading

\* ... or past it, when it has no children.
LEMMA TagClosed ==
  ASSUME NEW s, NEW p, NEW n, NEW made, NewTag(s, p, n, made), NEW keep \in BOOLEAN,
         NEW known, Noted(s, n, Shown(made, n, keep), known), NEW t, t = Closed(known, n)
  PROVE  /\ Steady(t, setting) /\ Stays(s, t) /\ t.live \subseteq s.live \cup {n}
         /\ Reading(s, t)
<1>1. /\ Midway(known, setting, n) /\ Stays(s, known) /\ known.live = made.live
      /\ known.l.first = n \/ (known.l.first # NULL /\ known.l.parent # NULL)
      /\ Reading(s, known)
  BY KnownIs
<1>2. made.live = s.live \cup {n} /\ n \notin s.live /\ s.l.retained \subseteq s.live
  <2>1. Tagged(s, n, made) /\ made.what[n].n = p.n
    BY NewTagIs
  <2> QED BY <2>1 DEF Tagged, NewTag, Steady, Base, Pointing
<1>3. Steady(t, setting) /\ Spared(known, t, n) /\ Reading(known, t)
  BY <1>1, ClosedAtOnce
<1>4. Stays(s, t)
  BY <1>1, <1>2, <1>3, SparedStays
<1> QED BY <1>1, <1>2, <1>3, <1>4 DEF Reading, Spared

LEMMA OpenLeads ==
  ASSUME Caller(setting), NEW s, Steady(s, setting), NEW i \in Nat, i < MaxPieces, Roomy(s, i),
         NEW p \in Tags, NEW keep \in BOOLEAN, NEW t, t = Open(s, p, keep)
  PROVE  Leads(s, t, i + 1, IF p.attrs # << >> THEN Node ELSE {})
<1> DEFINE X == IF p.attrs # << >> THEN Node ELSE {}
<1>1. CASE SecondRoot(s)
  <2>1. t = SecondRefused(s)
    BY <1>1 DEF Open
  <2>2. Leads(s, t, i + 1, {})
    BY <1>1, <2>1, SecondLeads
  <2> QED BY <2>2, DoneMore DEF Leads
<1>2. CASE ~SecondRoot(s)
  <2> DEFINE n == Fresh(s)
             made == NewNode(s, Element(p.n, p.attrs))
             shown == Shown(made, n, keep)
             known == IF s.l.first = NULL THEN [shown EXCEPT !.l.first = n] ELSE shown
             unread == p.attrs # << >> /\ mxml_parse_element(p.attrs, p.end) = "EOF"
  <2>1. t = IF unread THEN Failed(made)
            ELSE CASE p.end = "/x"  -> Failed(Deleted(made, n))
                   [] p.end = "EOF" -> Finished(known)
                   [] p.end = ">"   -> Inside(known, n)
                   [] p.end = "/"   -> Closed(known, n)
    BY <1>2, Zenon DEF Open, Inside
  <2>2. p.end \in {">", "/", "/x", "EOF"}
    BY XmlFileAssumption DEF XmlFileAssumption
  <2>3. NewTag(s, p, n, made)
    <3>1. s \in State
      BY DEF Steady, Base
    <3>2. n \in Node \ s.live
      BY <3>1, RoomForOne
    <3> QED BY <1>2, <3>2 DEF NewTag
  <2>4. Noted(s, n, Shown(made, n, keep), known)
    BY DEF Noted
  <2> HIDE DEF n, made, known, unread
  <2>5. /\ Midway(made, setting, n) /\ Stays(s, made) /\ made.live = s.live \cup {n}
        /\ n \notin made.l.retained /\ made.l.first # n /\ made.l = s.l /\ made.what[n].k = "element"
        /\ Loose(made, setting, {n})
    <3>1. Tagged(s, n, made)
      BY <2>3, NewTagIs
    <3> QED BY <3>1 DEF Tagged
  <2>6. /\ Midway(known, setting, n) /\ Stays(s, known) /\ known.live = made.live
        /\ known.l.first = n \/ (known.l.first # NULL /\ known.l.parent # NULL)
    BY <2>3, <2>4, KnownIs
  <2>7. n \notin s.live /\ s.l.retained \subseteq s.live /\ n \in Node
    BY <2>3 DEF NewTag, Steady, Base, Pointing
  <2>8. CASE unread
    <3>1. t = Failed(made)
      BY <2>1, <2>8
    <3>2. Base(made, setting) /\ Reached(made, setting, {n})
      BY <2>5 DEF Midway
    <3>3. Done(t, setting, {n}) /\ t.l.result = "failed"
      BY <2>5, <3>1, <3>2, FailedIs
    <3>4. {n} \subseteq X
      BY <2>7, <2>8 DEF unread
    <3> HIDE DEF X
    <3>5. Done(t, setting, X)
      BY <3>3, <3>4, DoneMore
    <3>6. Keeps(s, t)
      BY <3>3, StaysKeeps
    <3> QED BY <3>5, <3>6 DEF Leads, X
  <2>9. CASE ~unread /\ p.end = "/x"
    <3> DEFINE d == Dropped(made, n)
    <3>1. t = Failed(Deleted(made, n))
      BY <2>1, <2>9
    <3>2. Deleted(made, n) = d
      <4>1. Gone(made, Deleted(made, n), n) /\ made.l \in Locals
        BY <2>5, DeletedIs DEF Midway, Base, State
      <4>2. Deleted(made, n).l.first = made.l.first
        BY <4>1 DEF Gone, Locals
      <4> QED BY <2>5, <4>2 DEF Dropped
    <3>3. Steady(d, setting)
      BY <2>5, LeafDropped
    <3> HIDE DEF d
    <3>4. Leads(d, t, i + 1, {}) /\ t.l.result = "failed"
      <4>1. t = Failed(d)
        BY <3>1, <3>2
      <4>2. Base(d, setting) /\ Reached(d, setting, {}) /\ Loose(d, setting, {})
        BY <3>3 DEF Steady, Loose
      <4> QED BY <3>3, <4>1, <4>2, FailureLeads, FailedIs
    <3>5. t.l.result # "loading"
      BY <3>4
    <3>6. Done(t, setting, {})
      BY <3>4, <3>5 DEF Leads, Steady
    <3>7. Keeps(s, t)
      BY <3>4, StaysKeeps
    <3>8. Done(t, setting, X)
      BY <3>6, DoneMore
    <3> QED BY <3>7, <3>8 DEF Leads
  <2>10. CASE ~unread /\ p.end = "EOF"
    <3>1. t = Finished(known)
      BY <2>1, <2>10
    <3>2. Base(known, setting) /\ Reached(known, setting, {})
      <4>1. CASE setting.sax
        BY <2>6, <4>1 DEF Midway, Reached
      <4>2. CASE ~setting.sax
        BY <2>6, <4>2, LeafStays DEF Steady
      <4> QED BY <4>1, <4>2
    <3>3. Done(t, setting, {}) /\ (t.l.result = "failed" \/ Stays(known, t))
      BY <3>1, <3>2, FinishedIs
    <3>4. t.l.result = "failed" \/ Stays(s, t)
      BY <2>6, <3>3, StaysTwice
    <3>5. Keeps(s, t)
      BY <3>4, StaysKeeps
    <3>6. Done(t, setting, X)
      BY <3>3, DoneMore
    <3> QED BY <3>5, <3>6 DEF Leads
  <2>11. CASE ~unread /\ p.end = ">"
    <3>1. t = Inside(known, n)
      BY <2>1, <2>11
    <3>2. /\ Steady(t, setting) /\ Stays(s, t) /\ t.live \subseteq s.live \cup {n}
          /\ t.l.buffer = s.l.buffer /\ t.l.whitespace = s.l.whitespace
      BY <2>3, <2>4, <3>1, TagEntered
    <3>3. Roomy(t, i + 1)
      BY <3>2, RoomAfter
    <3> QED BY <3>2, <3>3, StaysKeeps DEF Leads
  <2>12. CASE ~unread /\ p.end = "/"
    <3>1. t = Closed(known, n)
      BY <2>1, <2>12
    <3>2. /\ Steady(t, setting) /\ Stays(s, t) /\ t.live \subseteq s.live \cup {n}
          /\ t.l.buffer = s.l.buffer /\ t.l.whitespace = s.l.whitespace
      BY <2>3, <2>4, <3>1, TagClosed DEF Reading
    <3>3. Roomy(t, i + 1)
      BY <3>2, RoomAfter
    <3> QED BY <3>2, <3>3, StaysKeeps DEF Leads
  <2> QED BY <2>2, <2>8, <2>9, <2>10, <2>11, <2>12
<1> QED BY <1>1, <1>2

\* The value goes on.
LEMMA ScanLeads ==
  ASSUME NEW s, Steady(s, setting), NEW i \in Nat, Roomy(s, i), NEW b, NEW ws, Scan(b, ws),
         NEW t, t = Scanned(s, b, ws)
  PROVE  Leads(s, t, i + 1, {})
<1>1. Steady(t, setting) /\ Stays(s, t) /\ t.live = s.live
  BY ScannedIs
<1> QED BY <1>1, RoomAfterScan, StaysKeeps DEF Leads

LEMMA CharacterLeads ==
  ASSUME NEW s, Steady(s, setting), NEW i \in Nat, Roomy(s, i), NEW c \in Chars \cup {" "}
  PROVE  Leads(s, [s EXCEPT !.l.buffer = Append(@, c)], i + 1, {})
<1> DEFINE b == Append(s.l.buffer, c)
           ws == s.l.whitespace
           t == [s EXCEPT !.l.buffer = Append(@, c)]
<1>1. s.l \in Locals
  BY DEF Steady, Base, State
<1>2. t = Scanned(s, b, ws) /\ Scan(b, ws)
  BY <1>1, ScannedBuffer
<1> HIDE DEF b, ws, t
<1>3. Leads(s, t, i + 1, {})
  BY <1>2, ScanLeads
<1> QED BY <1>3 DEF t

LEMMA SpaceLeads ==
  ASSUME NEW s, Steady(s, setting), NEW i \in Nat, i < MaxPieces, Roomy(s, i),
         NEW keep \in BOOLEAN, NEW t, t = AtSpace(s, keep)
  PROVE  Leads(s, t, i + 1, {})
<1>1. CASE s.l.type = "opaque"
  <2>1. t = [s EXCEPT !.l.buffer = Append(@, " ")]
    BY <1>1 DEF AtSpace
  <2>2. " " \in Chars \cup {" "}
    OBVIOUS
  <2>3. Leads(s, [s EXCEPT !.l.buffer = Append(@, " ")], i + 1, {})
    BY <2>2, CharacterLeads
  <2> QED BY <2>1, <2>3
<1>2. CASE s.l.type # "opaque" /\ s.l.buffer # << >>
  <2>1. t = Flushed(s, TRUE, keep)
    BY <1>2 DEF AtSpace
  <2> DEFINE b == TRUE
  <2>2. t = Flushed(s, b, keep) /\ b \in BOOLEAN
    BY <2>1
  <2> HIDE DEF b
  <2>3. Onward(s, t, i + 1)
    BY <1>2, <2>2, FlushedIs
  <2> QED BY <2>3, StaysKeeps DEF Onward, Leads
<1>3. CASE s.l.type # "opaque" /\ s.l.buffer = << >>
  <2> DEFINE ws == s.l.whitespace \/ s.l.type = "text"
             b == s.l.buffer
  <2>1. s.l \in Locals
    BY DEF Steady, Base, State
  <2>2. t = [s EXCEPT !.l.whitespace = ws]
    BY <1>3 DEF AtSpace
  <2>3. ws \in BOOLEAN
    OBVIOUS
  <2> HIDE DEF ws
  <2>4. t = Scanned(s, b, ws) /\ Scan(b, ws)
    BY <2>1, <2>2, <2>3, ScannedWhitespace
  <2> HIDE DEF b
  <2> QED BY <2>4, ScanLeads
<1> QED BY <1>1, <1>2, <1>3

\* What a tag does after the value before it.
LEMMA TagLeads ==
  ASSUME NEW s, Steady(s, setting), NEW i \in Nat, i < MaxPieces, Roomy(s, i), NEW keep \in BOOLEAN,
         NEW m, m = BeforeTag(s, keep), NEW after, NEW X,
         Steady(m, setting) /\ Roomy(m, i) => Leads(m, after, i + 1, X),
         NEW t, t = IF m.l.result = "loading" THEN after ELSE m
  PROVE  Leads(s, t, i + 1, X)
<1>1. Onward(s, m, i)
  BY BeforeTagIs
<1>2. CASE m.l.result = "loading"
  <2>1. Steady(m, setting) /\ Roomy(m, i) /\ Stays(s, m)
    BY <1>1, <1>2 DEF Onward, Done
  <2>2. t = after /\ Leads(m, t, i + 1, X)
    BY <1>2, <2>1
  <2>3. Keeps(s, t)
    <3>1. s.l.retained \subseteq s.live
      BY DEF Steady, Base, Pointing
    <3> SUFFICES ASSUME NEW x \in s.l.retained, x \notin t.live, t.l.result # "failed"
                 PROVE  \E a \in Above(s.link, x) : a \notin s.l.retained
      BY DEF Keeps
    <3>2. x \in m.l.retained /\ Above(m.link, x) = Above(s.link, x) /\ s.l.retained \subseteq m.l.retained
      BY <2>1, <3>1 DEF Stays, Same
    <3> QED BY <2>2, <3>2 DEF Leads, Keeps
  <2> QED BY <2>2, <2>3 DEF Leads
<1>3. CASE m.l.result # "loading"
  <2>1. Done(m, setting, {}) /\ (m.l.result = "failed" \/ Stays(s, m))
    BY <1>1, <1>3 DEF Onward, Steady
  <2>2. Done(m, setting, X)
    BY <2>1, DoneMore
  <2> QED BY <1>3, <2>1, <2>2, StaysKeeps DEF Leads
<1> QED BY <1>2, <1>3

-----------------------------------------------------------------------------
(* The invariant.                                                          *)

\* The elements a file may leave outside the tree: the one whose attributes
\* could not be read.
Unread(file) == IF file # << >> /\ Last(file).k = "tag" /\ Last(file).attrs # << >> THEN Node ELSE {}

Loaded(s, c, file) ==
  (Steady(s, c) /\ Roomy(s, Len(file))) \/ Done(s, c, Unread(file))

LInv ==
  /\ setting \in Settings /\ deleting = << >>
  /\ read \in Seq(Piece) /\ Len(read) <= MaxPieces
  /\ Loaded(Now, setting, read)

LEMMA SettingsAre == ASSUME setting \in Settings PROVE Caller(setting)
BY DEF Settings, Caller, NONE

\* A step that leads on keeps the invariant.
LEMMA LeadsOn ==
  ASSUME LInv, NEW p \in Piece, Read(p), NEW t, Become(t), Leads(Now, t, Len(read) + 1, Unread(Append(read, p)))
  PROVE  LInv' /\ Keeps(Now, Now')
<1>1. /\ live' = t.live /\ link' = t.link /\ ref_count' = t.ref_count /\ what' = t.what /\ loader' = t.l
      /\ deleting' = deleting /\ setting' = setting /\ read' = Append(read, p) /\ Len(read) < MaxPieces
  BY DEF Become, Read
<1>2. t \in State
  BY DEF Leads, Steady, Base, Done
<1>3. Now' = t
  <2>1. Now' = [live |-> t.live, link |-> t.link, ref_count |-> t.ref_count, what |-> t.what, l |-> t.l]
    BY <1>1 DEF Now
  <2> QED BY <1>2, <2>1 DEF State
<1>4. read' \in Seq(Piece) /\ Len(read') = Len(read) + 1 /\ Len(read) \in Nat /\ MaxPieces \in Nat
  BY <1>1, AppendProperties, LenProperties, XmlFileAssumption DEF LInv, XmlFileAssumption
<1>5. Loaded(Now', setting', read')
  <2>1. Loaded(t, setting, read')
    BY <1>1, <1>4 DEF Loaded, Leads
  <2> QED BY <1>1, <1>3, <2>1
<1>6. setting' \in Settings'
  BY <1>1 DEF LInv, Settings
<1>7. LInv'
  BY <1>1, <1>4, <1>5, <1>6 DEF LInv
<1> QED BY <1>3, <1>7 DEF Leads

LEMMA EmptyGrove == ASSUME NULL \notin Node PROVE Grove([n \in Node |-> Alone], {})
<1> DEFINE l == [n \in Node |-> Alone]
<1>1. l \in [Node -> Link] /\ Blank(l, {})
  BY DEF Alone, Link, Blank
<1>2. Sound(l, {}) /\ Ordered(l, {}, [n \in Node |-> 0])
  BY DEF Sound, PointsInto, Siblings, FirstAndLast, Ordered
<1> HIDE DEF l
<1>3. Lists(l, {}, Kids(l, {}))
  <2>1. Kids(l, {}) \in [{} -> Seq({})]
    BY DEF Kids
  <2> QED BY <2>1 DEF Lists
<1>4. Levels(l, {}, [n \in Node |-> 0], 0)
  BY DEF Levels
<1>5. Shaped(l, {})
  BY <1>1, <1>3, <1>4 DEF Shaped
<1>6. [n \in Node |-> 0] \in [Node -> Nat]
  OBVIOUS
<1> QED BY <1>1, <1>2, <1>5, <1>6 DEF Grove, l

\* One node, and one under another.
LEMMA SmallGroves ==
  ASSUME NULL \notin Node, NEW l, l = [n \in Node |-> Alone], NEW top \in Node, NEW above \in Node, above # top
  PROVE  /\ Grove(l, {top})
         /\ Grove(Added(l, above, "after", NULL, top), {above, top})
         /\ Grafted(l, Added(l, above, "after", NULL, top), top, above)
<1>1. Grove(l, {}) /\ \A n \in Node : [l EXCEPT ![n] = Alone] = l
  BY EmptyGrove
<1>2. ASSUME NEW n \in Node PROVE Grove(l, {n})
  <2>1. n \in Node \ {} /\ NULL \in {} \cup {NULL} /\ l = [l EXCEPT ![n] = Alone]
    BY <1>1
  <2>2. l = IF NULL = NULL THEN [l EXCEPT ![n] = Alone] ELSE Added([l EXCEPT ![n] = Alone], NULL, "after", NULL, n)
    BY <2>1
  <2>3. Grove(l, {} \cup {n})
    BY <1>1, <2>1, <2>2, NewLeaf
  <2>4. {} \cup {n} = {n}
    OBVIOUS
  <2> QED BY <2>3, <2>4
<1> DEFINE r == Added(l, above, "after", NULL, top)
           S == {above}
<1>3. Grove(l, S) /\ top \in Node \ S /\ above \in S \cup {NULL} /\ above # NULL
  BY <1>2
<1>4. r = IF above = NULL THEN [l EXCEPT ![top] = Alone]
          ELSE Added([l EXCEPT ![top] = Alone], above, "after", NULL, top)
  BY <1>1, <1>3
<1> HIDE DEF r, S
<1>5. Grove(r, S \cup {top}) /\ Grafted(l, r, top, above)
  BY <1>3, <1>4, NewLeaf
<1>6. S \cup {top} = {above, top}
  BY DEF S
<1> QED BY <1>2, <1>5, <1>6 DEF r

LEMMA AtFirst == FileInit => LInv
<1> SUFFICES ASSUME FileInit PROVE LInv
  OBVIOUS
<1> DEFINE top == setting.top
           above == CHOOSE n \in Node : n # top
           alone == [n \in Node |-> Alone]
           w == Element(CHOOSE name \in Name : TRUE, << >>)
<1>1. /\ NULL \notin Node /\ 0 \in 0 .. MaxRefs /\ 1 \in 0 .. MaxRefs /\ MaxPieces \in Nat
      /\ \E name \in Name : TRUE
  BY XmlTreeAssumption, XmlFileAssumption DEF XmlTreeAssumption, XmlFileAssumption
<1>2. \A S \in SUBSET Node : IsFiniteSet(S) /\ Cardinality(S) <= 1 => \E n \in Node : n \notin S
  <2> SUFFICES ASSUME NEW S \in SUBSET Node, IsFiniteSet(S), Cardinality(S) <= 1, Node \subseteq S PROVE FALSE
    OBVIOUS
  <2>1. Node = S /\ Cardinality(S) \in Nat
    BY FS_CardinalityType
  <2>2. IsFiniteSet(Node) /\ Cardinality(Node) <= 1 /\ Cardinality(Node) \in Nat
    BY <2>1, Zenon
  <2> QED BY <1>1, <2>2, XmlFileAssumption DEF XmlFileAssumption
<1>3. top \in Node \cup {NULL}
  <2>1. \E n \in Node : TRUE
    BY <1>2, FS_EmptySet
  <2>2. (CHOOSE n \in Node : TRUE) \in Node
    BY <2>1
  <2>3. setting \in Settings
    BY DEF FileInit
  <2> QED BY <2>2, <2>3 DEF Settings
<1>4. above \in Node /\ above # top
  <2>1. \E n \in Node : n # top
    <3>1. CASE top = NULL
      <4>1. \E n \in Node : n \notin {}
        BY <1>2, FS_EmptySet
      <4> QED BY <1>1, <3>1, <4>1
    <3>2. CASE top # NULL
      <4>1. {top} \in SUBSET Node /\ IsFiniteSet({top}) /\ Cardinality({top}) = 1
        BY <1>3, <3>2, FS_Singleton
      <4> QED BY <1>2, <4>1
    <3> QED BY <3>1, <3>2
  <2> QED BY <2>1
<1>5. /\ setting \in Settings /\ deleting = << >> /\ read = << >>
      /\ IF top = NULL THEN live = {} /\ link = alone /\ ref_count = [n \in Node |-> 0]
         ELSE /\ \/ live = {top} /\ link = alone
                 \/ live = {top, above} /\ link = Added(alone, above, "after", NULL, top)
              /\ ref_count = [n \in Node |-> IF n \in live THEN 1 ELSE 0]
      /\ what = [n \in Node |-> w]
      /\ loader = [parent |-> top, first |-> NULL, type |-> "text", whitespace |-> FALSE,
                   buffer |-> << >>, retained |-> {}, result |-> "loading"]
  BY DEF FileInit, TreeInit
<1> HIDE DEF w, above
<1>6. Caller(setting)
  BY <1>5, SettingsAre
<1>7. Grove(link, live) /\ IsFiniteSet(live) /\ Cardinality(live) <= 2
  <2>1. CASE top = NULL
    <3>1. Grove(alone, {})
      BY <1>1, EmptyGrove
    <3>2. live = {} /\ link = alone
      BY <1>5, <2>1
    <3> HIDE DEF alone
    <3> QED BY <3>1, <3>2, FS_EmptySet
  <2>2. CASE top # NULL /\ live = {top} /\ link = alone
    <3>1. Grove(alone, {top})
      BY <1>1, <1>3, <1>4, <2>2, SmallGroves
    <3>2. IsFiniteSet({top}) /\ Cardinality({top}) = 1
      BY FS_Singleton
    <3>3. IsFiniteSet(live) /\ Cardinality(live) = 1
      BY <2>2, <3>2, Zenon
    <3>4. Grove(link, live)
      BY <2>2, <3>1, Zenon
    <3> QED BY <3>3, <3>4
  <2>3. CASE top # NULL /\ live = {top, above} /\ link = Added(alone, above, "after", NULL, top)
    <3>1. Grove(Added(alone, above, "after", NULL, top), {above, top})
      BY <1>1, <1>3, <1>4, <2>3, SmallGroves
    <3>2. {above, top} = {top} \cup {above}
      OBVIOUS
    <3>3. IsFiniteSet({top} \cup {above}) /\ Cardinality({top} \cup {above}) <= 2
      <4>1. IsFiniteSet({top}) /\ Cardinality({top}) = 1
        BY FS_Singleton
      <4>2. {top} \cup {above} \subseteq {top} \cup {above}
        OBVIOUS
      <4>3. /\ IsFiniteSet({top} \cup {above})
            /\ Cardinality({top} \cup {above}) = IF above \in {top} THEN Cardinality({top}) ELSE Cardinality({top}) + 1
        BY <4>1, FS_AddElement
      <4> QED BY <4>1, <4>3
    <3>4. live = {top} \cup {above} /\ {top, above} = {above, top}
      BY <2>3, <3>2
    <3> HIDE DEF alone
    <3>5. Grove(link, live)
      BY <2>3, <3>1, <3>4
    <3>6. IsFiniteSet(live) /\ Cardinality(live) <= 2
      BY <3>3, <3>4, Zenon
    <3> QED BY <3>5, <3>6
  <2> QED BY <1>5, <2>1, <2>2, <2>3
<1>8. w \in Contents /\ w.k = "element"
  BY <1>1 DEF w, Element, Contents
<1>9. loader \in Locals
  <2>1. << >> \in Seq(Chars \cup {" "})
    BY EmptySeq
  <2> QED BY <1>3, <1>5, <2>1 DEF Locals
<1>10. live \in SUBSET Node /\ link \in [Node -> Link] /\ ref_count \in [Node -> 0 .. MaxRefs]
  <2>1. live \in SUBSET Node /\ link \in [Node -> Link]
    BY <1>7 DEF Grove
  <2> QED BY <1>1, <1>5, <2>1
<1>11. /\ Now.live = live /\ Now.link = link /\ Now.ref_count = ref_count /\ Now.what = what /\ Now.l = loader
       /\ Now \in State
  BY <1>5, <1>8, <1>9, <1>10 DEF Now, State
<1>12. top = NULL => live = {}
  BY <1>5
<1>13. top \in live \cup {NULL}
  BY <1>3, <1>5
<1>14. /\ loader.parent = top /\ loader.first = NULL /\ loader.whitespace = FALSE /\ loader.buffer = << >>
       /\ loader.retained = {} /\ loader.result = "loading"
  BY <1>5
<1>15. Pointing(Now)
  BY <1>11, <1>13, <1>14 DEF Pointing
<1>16. Kinds(Now)
  <2>1. \A n \in live : link[n].parent \in live \cup {NULL}
    BY <1>7 DEF Grove, Sound, PointsInto
  <2>2. \A n \in Node : what[n].k = "element"
    BY <1>5, <1>8
  <2> QED BY <1>10, <1>11, <1>13, <1>14, <2>1, <2>2 DEF Kinds
<1>17. Rooted(Now, setting)
  BY <1>11, <1>14 DEF Rooted
<1>18. Base(Now, setting)
  BY <1>7, <1>11, <1>14, <1>15, <1>16, <1>17 DEF Base
<1>19. Reached(Now, setting, {})
  BY <1>11, <1>12 DEF Reached
<1>20. Balanced(Now, setting) /\ Accounted(Now, setting, {})
  BY <1>6, <1>11, <1>12, <1>14 DEF Balanced, Accounted, OpenNodes, Caller
<1>21. Steady(Now, setting)
  BY <1>11, <1>14, <1>18, <1>19, <1>20 DEF Steady
<1>22. Len(read) = 0 /\ read \in Seq(Piece)
  BY <1>5, EmptySeq
<1>23. Roomy(Now, 0)
  BY <1>7, <1>11, <1>14, FS_CardinalityType DEF Roomy, Pending
<1> QED BY <1>1, <1>5, <1>21, <1>22, <1>23 DEF LInv, Loaded

LEMMA WhileLoading ==
  ASSUME LInv, Loading
  PROVE  /\ Steady(Now, setting) /\ Roomy(Now, Len(read)) /\ Len(read) \in Nat /\ Caller(setting)
         /\ MaxPieces \in Nat
<1>1. Now.l = loader
  BY DEF Now
<1>2. Steady(Now, setting) /\ Roomy(Now, Len(read))
  BY <1>1 DEF LInv, Loaded, Done, Loading
<1>3. Len(read) \in Nat
  BY LenProperties DEF LInv
<1> QED BY <1>2, <1>3, SettingsAre, XmlFileAssumption DEF LInv, XmlFileAssumption

\* A piece is read.
Stepped(p, t) == p \in Piece /\ Read(p) /\ Become(t)

LEMMA PieceStep ==
  ASSUME LInv, NEW p, NEW t, Stepped(p, t), NEW X, Leads(Now, t, Len(read) + 1, X),
         X = {} \/ (p.k = "tag" /\ p.attrs # << >> /\ X = Node)
  PROVE  LInv' /\ Keeps(Now, Now')
<1> DEFINE file == Append(read, p)
<1>0. p \in Piece /\ Read(p) /\ Become(t) /\ read \in Seq(Piece)
  BY DEF Stepped, LInv
<1>1. file # << >> /\ Last(file) = p
  <2>1. Len(file) = Len(read) + 1 /\ file[Len(read) + 1] = p /\ Len(read) \in Nat
    BY <1>0, AppendProperties, LenProperties
  <2> HIDE DEF file
  <2>2. file # << >>
    BY <2>1
  <2> QED BY <2>1, <2>2 DEF Last
<1> HIDE DEF file
<1>2. X \subseteq Unread(file)
  BY <1>1 DEF Unread
<1>3. Leads(Now, t, Len(read) + 1, Unread(file))
  BY <1>2, DoneMore DEF Leads
<1> QED BY <1>0, <1>3, LeadsOn DEF file

\* A tag is read.
TagStep(p, keep, after) ==
  p \in Piece /\ Read(p) /\ Become(IF BeforeTag(Now, keep).l.result = "loading" THEN after ELSE BeforeTag(Now, keep))

LEMMA TagStepped ==
  ASSUME LInv, Loading, Len(read) < MaxPieces, NEW keep \in BOOLEAN, NEW p, NEW after, TagStep(p, keep, after),
         NEW X, X = {} \/ (p.k = "tag" /\ p.attrs # << >> /\ X = Node),
         LET m == BeforeTag(Now, keep) IN
         Steady(m, setting) /\ Roomy(m, Len(read)) => Leads(m, after, Len(read) + 1, X)
  PROVE  LInv' /\ Keeps(Now, Now')
<1> DEFINE m == BeforeTag(Now, keep)
           t == IF m.l.result = "loading" THEN after ELSE m
           i == Len(read)
<1>1. Stepped(p, t)
  BY DEF TagStep, Stepped
<1>2. Steady(Now, setting) /\ Roomy(Now, i) /\ i \in Nat /\ i < MaxPieces
  BY WhileLoading
<1>3. Steady(m, setting) /\ Roomy(m, i) => Leads(m, after, i + 1, X)
  OBVIOUS
<1>4. Leads(Now, t, i + 1, X)
  <2>1. m = BeforeTag(Now, keep) /\ t = IF m.l.result = "loading" THEN after ELSE m
    OBVIOUS
  <2> HIDE DEF m, t, i
  <2> QED BY <1>2, <1>3, <2>1, TagLeads
<1> HIDE DEF m, t
<1> QED BY <1>1, <1>4, PieceStep

LEMMA LoadStep == LInv /\ FileNext => LInv' /\ Keeps(Now, Now')
<1> SUFFICES ASSUME LInv, FileNext PROVE LInv' /\ Keeps(Now, Now')
  OBVIOUS
<1>0. Loading
  BY Zenon DEF FileNext, ReadChar, ReadBadEntity, ReadEOF, ReadSpace, ReadBadTag, ReadMarkup, ReadClose, ReadTag, Read
<1> DEFINE i == Len(read)
<1>1. Steady(Now, setting) /\ Roomy(Now, i) /\ i \in Nat /\ Caller(setting) /\ MaxPieces \in Nat
  BY <1>0, WhileLoading
<1>2. CASE ReadChar
  <2>1. PICK c \in Chars : Read(Char(c)) /\ Become([Now EXCEPT !.l.buffer = Append(@, c)])
    BY <1>2 DEF ReadChar, Chars
  <2> DEFINE t == [Now EXCEPT !.l.buffer = Append(@, c)]
  <2>2. Leads(Now, t, i + 1, {})
    BY <1>1, CharacterLeads
  <2>3. Char(c) \in Piece
    BY DEF Piece
  <2>4. Stepped(Char(c), t)
    BY <2>1, <2>3 DEF Stepped
  <2> HIDE DEF t
  <2> QED BY <2>2, <2>4, PieceStep
<1>3. CASE ReadBadEntity
  <2> DEFINE t == Failed(Now)
  <2>1. Leads(Now, t, i + 1, {})
    BY <1>1, FailureLeads
  <2>2. BadEntity \in Piece
    BY DEF Piece
  <2>3. Stepped(BadEntity, t)
    BY <1>3, <2>2 DEF ReadBadEntity, Stepped
  <2> HIDE DEF t
  <2> QED BY <2>1, <2>3, PieceStep
<1>4. CASE ReadEOF
  <2> DEFINE t == Finished(Now)
  <2>1. Base(Now, setting) /\ Reached(Now, setting, {})
    BY <1>1 DEF Steady
  <2>2. Done(t, setting, {}) /\ (t.l.result = "failed" \/ Stays(Now, t))
    BY <2>1, FinishedIs
  <2>3. Become(t) /\ read' = read
    BY <1>4 DEF ReadEOF
  <2> HIDE DEF t
  <2>4. /\ live' = t.live /\ link' = t.link /\ ref_count' = t.ref_count /\ what' = t.what /\ loader' = t.l
        /\ deleting' = deleting /\ setting' = setting /\ t \in State
    BY <2>2, <2>3 DEF Become, Done
  <2>5. Now' = t
    <3>1. Now' = [live |-> t.live, link |-> t.link, ref_count |-> t.ref_count, what |-> t.what, l |-> t.l]
      BY <2>4 DEF Now
    <3> QED BY <2>4, <3>1 DEF State
  <2>6. Loaded(Now', setting', read')
    <3>1. Done(t, setting, Unread(read))
      BY <2>2, DoneMore
    <3> QED BY <2>3, <2>4, <2>5, <3>1 DEF Loaded
  <2>7. setting' \in Settings'
    BY <2>4 DEF LInv, Settings
  <2>8. LInv'
    BY <2>3, <2>4, <2>6, <2>7 DEF LInv
  <2>9. Keeps(Now, t)
    BY <1>1, <2>2, StaysKeeps
  <2> QED BY <2>5, <2>8, <2>9
<1>5. ASSUME NEW keep \in BOOLEAN,
             ReadSpace(keep) \/ ReadBadTag(keep) \/ ReadMarkup(keep) \/ ReadClose(keep) \/ ReadTag(keep)
      PROVE  LInv' /\ Keeps(Now, Now')
  <2> DEFINE m == BeforeTag(Now, keep)
  <2>0. Len(read) < MaxPieces
    BY <1>5, Zenon DEF ReadSpace, ReadBadTag, ReadMarkup, ReadClose, ReadTag, Read
  <2>1. CASE ReadSpace(keep)
    <3> DEFINE t == AtSpace(Now, keep)
    <3>1. Leads(Now, t, i + 1, {})
      BY <1>1, <2>0, SpaceLeads
    <3>2. Space \in Piece
      BY DEF Piece
    <3>3. Stepped(Space, t)
      BY <2>1, <3>2 DEF ReadSpace, Stepped
    <3> HIDE DEF t
    <3> QED BY <3>1, <3>3, PieceStep
  <2>2. CASE ReadBadTag(keep)
    <3> DEFINE after == Failed(m)
    <3>1. Steady(m, setting) /\ Roomy(m, i) => Leads(m, after, i + 1, {})
      BY FailureLeads
    <3>2. BadTag \in Piece
      BY DEF Piece
    <3>3. TagStep(BadTag, keep, after)
      BY <2>2, <3>2 DEF ReadBadTag, AtTag, TagStep
    <3> HIDE DEF after
    <3> QED BY <1>0, <2>0, <3>1, <3>3, TagStepped
  <2>3. CASE ReadMarkup(keep)
    <3>1. PICK k \in Markup :
            /\ Read(MarkupTag(k))
            /\ AtTag(m, IF k \in {"!--", "![CDATA["} THEN Comment(m, k, keep) ELSE Directive(m, k, keep))
      BY <2>3, Zenon DEF ReadMarkup
    <3> DEFINE after == IF k \in {"!--", "![CDATA["} THEN Comment(m, k, keep) ELSE Directive(m, k, keep)
    <3>2. Steady(m, setting) /\ Roomy(m, i) => Leads(m, after, i + 1, {})
      <4> HIDE DEF m
      <4>1. CASE k \in {"!--", "![CDATA["}
        BY <1>1, <2>0, <4>1, CommentLeads
      <4>2. CASE k \notin {"!--", "![CDATA["}
        BY <1>1, <2>0, <4>2, DirectiveLeads
      <4> QED BY <4>1, <4>2
    <3>3. MarkupTag(k) \in Piece
      BY DEF Piece
    <3> HIDE DEF after
    <3>4. TagStep(MarkupTag(k), keep, after)
      BY <3>1, <3>3 DEF AtTag, TagStep, after
    <3> QED BY <1>0, <2>0, <3>2, <3>4, TagStepped
  <2>4. CASE ReadClose(keep)
    <3>1. PICK n \in Name : Read(CloseTag(n)) /\ AtTag(m, Close(m, n))
      BY <2>4, Zenon DEF ReadClose
    <3> DEFINE after == Close(m, n)
    <3>2. Steady(m, setting) /\ Roomy(m, i) => Leads(m, after, i + 1, {})
      <4> HIDE DEF m
      <4> QED BY <1>1, CloseLeads
    <3>3. CloseTag(n) \in Piece
      BY DEF Piece
    <3> HIDE DEF after
    <3>4. TagStep(CloseTag(n), keep, after)
      BY <3>1, <3>3 DEF AtTag, TagStep, after
    <3> QED BY <1>0, <2>0, <3>2, <3>4, TagStepped
  <2>5. CASE ReadTag(keep)
    <3>1. PICK p \in Tags : Read(p) /\ AtTag(m, Open(m, p, keep))
      BY <2>5, Zenon DEF ReadTag
    <3> DEFINE after == Open(m, p, keep)
               X == IF p.attrs # << >> THEN Node ELSE {}
    <3>2. Steady(m, setting) /\ Roomy(m, i) => Leads(m, after, i + 1, X)
      <4> HIDE DEF m
      <4> QED BY <1>1, <2>0, OpenLeads
    <3>3. p \in Piece /\ p.k = "tag"
      BY XmlFileAssumption DEF XmlFileAssumption, Piece
    <3>4. X = {} \/ (p.k = "tag" /\ p.attrs # << >> /\ X = Node)
      BY <3>3
    <3> HIDE DEF after, X
    <3>5. TagStep(p, keep, after)
      BY <3>1, <3>3 DEF AtTag, TagStep, after
    <3> QED BY <1>0, <2>0, <3>2, <3>4, <3>5, TagStepped
  <2> QED BY <1>5, <2>1, <2>2, <2>3, <2>4, <2>5
<1>6. CASE \E keep \in IF setting.sax THEN BOOLEAN ELSE {FALSE} :
             ReadSpace(keep) \/ ReadBadTag(keep) \/ ReadMarkup(keep) \/ ReadClose(keep) \/ ReadTag(keep)
  <2>1. PICK keep \in BOOLEAN :
          ReadSpace(keep) \/ ReadBadTag(keep) \/ ReadMarkup(keep) \/ ReadClose(keep) \/ ReadTag(keep)
    BY <1>6
  <2> QED BY <1>5, <2>1
<1> QED BY <1>2, <1>3, <1>4, <1>6, Zenon DEF FileNext

\* A load ends, or goes on, in a tree that is sound.
LEMMA LoadedIs ==
  ASSUME LInv
  PROVE  /\ Now \in State /\ Grove(link, live) /\ Pointing(Now)
         /\ Ended => Done(Now, setting, Unread(read))
<1>1. Now \in State /\ Grove(Now.link, Now.live) /\ Pointing(Now)
  BY DEF LInv, Loaded, Steady, Base, Done
<1>2. Now.link = link /\ Now.live = live /\ Now.l = loader
  BY DEF Now
<1>3. Ended => Done(Now, setting, Unread(read))
  BY <1>2 DEF LInv, Loaded, Steady, Ended, Loading
<1> QED BY <1>1, <1>2, <1>3

LEMMA LoadAncestors == ASSUME LInv, NEW n \in live PROVE Ancestors(n) = Above(link, n)
<1>1. Ancestors(n) = {n} \cup Up(link)[link[n].parent]
  BY Zenon DEF Ancestors, Up
<1>2. live \in SUBSET Node /\ link \in [Node -> Link] /\ PointsInto(link, live) /\ Blank(link, live)
  BY LoadedIs DEF Grove, Sound, Shaped
<1>3. PICK h, M : Levels(link, live, h, M)
  BY LoadedIs DEF Grove, Shaped
<1>4. {n} \cup Up(link)[link[n].parent] = Above(link, n)
  BY <1>2, <1>3, AncestorsAre, XmlTreeAssumption DEF XmlTreeAssumption
<1> QED BY <1>1, <1>4

\* Whatever file is read, with any arguments, the loop of mxml_load_data keeps
\* LInv: a tree of sound pointers, an open element for every one on the way to
\* parent, a reference for each holder, room for the piece that follows; or it
\* has ended, with no more than Left says (mxml-file.c:1413-2119).
THEOREM LoadInvariance == FileSpec => []LInv
<1>1. FileInit => LInv
  BY AtFirst
<1>2. LInv /\ [FileNext]_vars => LInv'
  <2>1. LInv /\ FileNext => LInv'
    BY LoadStep
  <2>2. LInv /\ UNCHANGED vars => LInv'
    <3> SUFFICES ASSUME LInv, UNCHANGED vars PROVE LInv'
      OBVIOUS
    <3>1. /\ live' = live /\ link' = link /\ ref_count' = ref_count /\ what' = what /\ loader' = loader
          /\ deleting' = deleting /\ setting' = setting /\ read' = read
      BY DEF vars, tree
    <3>2. Now' = Now
      BY <3>1 DEF Now
    <3>3. setting' \in Settings'
      BY <3>1 DEF LInv, Settings
    <3>4. Loaded(Now', setting', read')
      BY <3>1, <3>2 DEF LInv
    <3> QED BY <3>1, <3>3, <3>4 DEF LInv
  <2> QED BY <2>1, <2>2
<1> QED BY <1>1, <1>2, PTL DEF FileSpec

\* The locals of mxml_load_data point to nodes that have not been freed, at
\* every turn of its loop and when it returns; what the callback has retained
\* is there (mxml-file.c:1413-2119).
THEOREM LoadTypeCorrect == FileSpec => []FileTypeOK
<1>1. LInv => FileTypeOK
  <2> SUFFICES ASSUME LInv PROVE FileTypeOK
    OBVIOUS
  <2>1. Now \in State /\ Pointing(Now)
    BY LoadedIs
  <2>2. /\ Now.live = live /\ Now.link = link /\ Now.ref_count = ref_count /\ Now.l = loader
    BY DEF Now
  <2>3. live \subseteq Node /\ link \in [Node -> Link] /\ ref_count \in [Node -> 0 .. MaxRefs] /\ loader \in Locals
    BY <2>1, <2>2 DEF State
  <2>4. loader.parent \in live \cup {NULL} /\ loader.first \in live \cup {NULL} /\ loader.retained \subseteq live
    BY <2>1, <2>2 DEF Pointing
  <2>5. deleting = << >> /\ read \in Seq(Piece)
    BY DEF LInv
  <2>6. TypeOK /\ Idle
    BY <2>3, <2>5 DEF TypeOK, Idle
  <2>7. /\ loader.type \in {"text", "integer", "opaque", "ignore"} /\ loader.whitespace \in BOOLEAN
        /\ loader.buffer \in Seq(Chars \cup {" "})
        /\ loader.result \in {"loading", "loaded", "failed", "crashed"}
    BY <2>3 DEF Locals
  <2> QED BY <2>4, <2>5, <2>6, <2>7 DEF FileTypeOK
<1> QED BY <1>1, LoadInvariance, PTL

\* The five pointers of every node tell the same story while a file is loaded,
\* after an error and after a SAX callback has retained what it liked
\* (mxml-file.c:1413-2119 with mxml-node.c:62-277).
THEOREM LoadLinksSound == FileSpec => []LinksSound
<1>1. LInv => LinksSound
  BY LoadedIs, SoundIsLinksSound DEF Grove
<1> QED BY <1>1, LoadInvariance, PTL

\* A load without a top that fails deletes the tree it made, at whatever piece
\* of whatever file; besides the tree it returns it leaves values outside the
\* root element, and the root whose own attributes could not be read
\* (mxml-file.c:1993, 2101-2108).
THEOREM LoadLeavesNothingElse == FileSpec => []NothingElseLeft
<1>1. LInv => NothingElseLeft
  <2> SUFFICES ASSUME LInv, Ended, ~setting.sax, setting.top = NULL, NEW n \in live
               PROVE  \/ loader.result = "loaded" /\ loader.first \in Ancestors(n)
                      \/ /\ link[n].parent = NULL /\ link[n].child = NULL
                         /\ what[n].k = "element" => Last(read).k = "tag" /\ Last(read).attrs # << >>
    BY DEF NothingElseLeft
  <2>1. Now.link = link /\ Now.live = live /\ Now.l = loader /\ Now.what = what
    BY DEF Now
  <2>2. Grove(link, live) /\ Left(Now, setting, Unread(read))
    BY LoadedIs DEF Done
  <2>3. Ancestors(n) = Above(link, n)
    BY LoadAncestors
  <2>4. n \in Unread(read) => Last(read).k = "tag" /\ Last(read).attrs # << >>
    BY DEF Unread
  <2>5. \/ loader.result = "loaded" /\ loader.first # NULL /\ loader.first \in Above(link, n)
        \/ /\ link[n].parent = NULL /\ link[n].child = NULL
           /\ what[n].k = "element" => n \in Unread(read)
    BY <2>1, <2>2 DEF Left
  <2> QED BY <2>3, <2>4, <2>5
<1> QED BY <1>1, LoadInvariance, PTL

\* What a SAX callback retains is there until an error, unless it hangs under
\* an element that was not retained, which goes with all its children
\* (mxml-file.c:445, mxml-node.c:222).
THEOREM LoadKeepsWhatIsRetained == FileSpec => RetainedStay
<1> DEFINE Stay == \A n \in loader.retained :
                     n \notin live' /\ loader'.result # "failed" => \E a \in Ancestors(n) : a \notin loader.retained
<1>1. LInv /\ [FileNext]_vars => [Stay]_vars
  <2> SUFFICES ASSUME LInv, FileNext PROVE Stay
    OBVIOUS
  <2>1. Keeps(Now, Now')
    BY LoadStep
  <2>2. Now.l = loader /\ Now.link = link /\ Now'.live = live' /\ Now'.l = loader'
    BY DEF Now
  <2>3. \A n \in loader.retained :
          n \notin live' /\ loader'.result # "failed" => \E a \in Above(link, n) : a \notin loader.retained
    BY <2>1, <2>2 DEF Keeps
  <2>4. loader.retained \subseteq live
    BY <2>2, LoadedIs DEF Pointing, Now
  <2>5. \A n \in live : Ancestors(n) = Above(link, n)
    BY LoadAncestors
  <2> QED BY <2>3, <2>4, <2>5
<1>2. FileSpec => [][Stay]_vars
  BY <1>1, LoadInvariance, PTL DEF FileSpec
<1> QED BY <1>2 DEF RetainedStay

-----------------------------------------------------------------------------
(* The elements open in a file.                                            *)

\* The function open of OpenAfter.
Opens(f, i, g) == g = [j \in 0 .. i |-> IF j = 0 THEN << >> ELSE Opened(g[j - 1], f[j])]

\* There is one, ...
LEMMA OpensExist == ASSUME NEW f, NEW i \in Nat PROVE \E g : Opens(f, i, g)
<1> DEFINE T == {m \in Nat : \E g : Opens(f, m, g)}
<1>1. 0 \in T
  <2> DEFINE g == [j \in 0 .. 0 |-> << >>]
  <2>1. g = [j \in 0 .. 0 |-> IF j = 0 THEN << >> ELSE Opened(g[j - 1], f[j])]
    <3>1. \A j \in 0 .. 0 : j = 0
      OBVIOUS
    <3> QED BY <3>1
  <2> QED BY <2>1 DEF Opens
<1>2. ASSUME NEW m \in Nat, m \in T PROVE m + 1 \in T
  <2>1. PICK g : Opens(f, m, g)
    BY <1>2
  <2> DEFINE h == [j \in 0 .. m + 1 |-> IF j = m + 1 THEN Opened(g[m], f[m + 1]) ELSE g[j]]
             r == [j \in 0 .. m + 1 |-> IF j = 0 THEN << >> ELSE Opened(h[j - 1], f[j])]
  <2>2. \A j \in 0 .. m : g[j] = IF j = 0 THEN << >> ELSE Opened(g[j - 1], f[j])
    <3>1. \A j \in 0 .. m : [x \in 0 .. m |-> IF x = 0 THEN << >> ELSE Opened(g[x - 1], f[x])][j]
                            = IF j = 0 THEN << >> ELSE Opened(g[j - 1], f[j])
      OBVIOUS
    <3> QED BY <2>1, <3>1, Zenon DEF Opens
  <2>3. ASSUME NEW j \in 0 .. m + 1 PROVE h[j] = r[j]
    <3>1. CASE j = m + 1
      <4>1. j # 0 /\ j - 1 = m /\ m \in 0 .. m + 1 /\ m # m + 1
        BY <3>1
      <4>2. h[m] = g[m]
        BY <4>1
      <4>3. h[j] = Opened(g[m], f[j])
        BY <3>1
      <4>4. r[j] = Opened(h[m], f[j])
        BY <4>1
      <4> QED BY <4>2, <4>3, <4>4
    <3>2. CASE j = 0
      <4>1. h[j] = g[j] /\ 0 \in 0 .. m
        BY <3>2
      <4> QED BY <2>2, <3>2, <4>1
    <3>3. CASE j # m + 1 /\ j # 0
      <4>1. j \in 0 .. m /\ j - 1 \in 0 .. m + 1 /\ j - 1 # m + 1
        BY <3>3
      <4>2. h[j] = g[j] /\ h[j - 1] = g[j - 1]
        BY <3>3, <4>1
      <4>3. r[j] = Opened(h[j - 1], f[j])
        BY <3>3
      <4> QED BY <2>2, <3>3, <4>1, <4>2, <4>3
    <3> QED BY <3>1, <3>2, <3>3
  <2>4. h = r
    BY <2>3
  <2>5. Opens(f, m + 1, h)
    <3> HIDE DEF h
    <3> QED BY <2>4 DEF Opens
  <2> QED BY <2>5
<1> HIDE DEF T
<1>3. Nat \subseteq T
  BY <1>1, <1>2, AllNumbers
<1> QED BY <1>3 DEF T

LEMMA OpensStep ==
  ASSUME NEW f, NEW i, NEW g, Opens(f, i, g)
  PROVE  \A j \in 0 .. i : g[j] = IF j = 0 THEN << >> ELSE Opened(g[j - 1], f[j])
<1>1. \A j \in 0 .. i : [x \in 0 .. i |-> IF x = 0 THEN << >> ELSE Opened(g[x - 1], f[x])][j]
                        = IF j = 0 THEN << >> ELSE Opened(g[j - 1], f[j])
  OBVIOUS
<1> QED BY <1>1, Zenon DEF Opens

\* ... and it depends on the first pieces only.
Agree(f, r, i) == \A j \in 1 .. i : r[j] = f[j]

LEMMA OpensAgree ==
  ASSUME NEW f, NEW r, NEW i \in Nat, NEW k \in Nat, i <= k, Agree(f, r, i),
         NEW g, Opens(f, i, g), NEW h, Opens(r, k, h)
  PROVE  g[i] = h[i]
<1> DEFINE T == {m \in Nat : m <= i => g[m] = h[m]}
<1>1. /\ \A j \in 0 .. i : g[j] = IF j = 0 THEN << >> ELSE Opened(g[j - 1], f[j])
      /\ \A j \in 0 .. k : h[j] = IF j = 0 THEN << >> ELSE Opened(h[j - 1], r[j])
  BY OpensStep
<1>2. 0 \in T
  <2>1. 0 \in 0 .. i /\ 0 \in 0 .. k
    OBVIOUS
  <2> QED BY <1>1, <2>1
<1>3. ASSUME NEW m \in Nat, m \in T PROVE m + 1 \in T
  <2>1. SUFFICES ASSUME m + 1 <= i PROVE g[m + 1] = h[m + 1]
    OBVIOUS
  <2>2. m + 1 \in 0 .. i /\ m + 1 \in 0 .. k /\ m + 1 \in 1 .. i /\ m <= i /\ m + 1 # 0 /\ m + 1 - 1 = m
    BY <2>1
  <2>3. g[m] = h[m]
    BY <1>3, <2>2
  <2>4. g[m + 1] = Opened(g[m], f[m + 1]) /\ h[m + 1] = Opened(h[m], r[m + 1])
    BY <1>1, <2>2
  <2> QED BY <2>2, <2>3, <2>4 DEF Agree
<1> HIDE DEF T
<1>4. i \in T
  BY <1>2, <1>3, AllNumbers
<1> QED BY <1>4 DEF T

LEMMA OpenAfterIs ==
  ASSUME NEW f, NEW i \in Nat
  PROVE  \E g : Opens(f, i, g) /\ OpenAfter(f, i) = g[i]
<1> DEFINE open == CHOOSE g : Opens(f, i, g)
<1>1. Opens(f, i, open)
  BY OpensExist
<1>2. OpenAfter(f, i) = open[i]
  BY Zenon DEF OpenAfter, Opens
<1> QED BY <1>1, <1>2

\* After no pieces, and after one more.
LEMMA OpenAfterNone == ASSUME NEW f PROVE OpenAfter(f, 0) = << >>
<1>1. PICK g : Opens(f, 0, g) /\ OpenAfter(f, 0) = g[0]
  BY OpenAfterIs
<1>2. 0 \in 0 .. 0
  OBVIOUS
<1> QED BY <1>1, <1>2, OpensStep

LEMMA OpenAfterMore ==
  ASSUME NEW f, NEW i \in Nat
  PROVE  OpenAfter(f, i + 1) = Opened(OpenAfter(f, i), f[i + 1])
<1>1. PICK g : Opens(f, i, g) /\ OpenAfter(f, i) = g[i]
  BY OpenAfterIs
<1>2. i + 1 \in Nat
  OBVIOUS
<1>3. PICK h : Opens(f, i + 1, h) /\ OpenAfter(f, i + 1) = h[i + 1]
  BY <1>2, OpenAfterIs
<1>4. g[i] = h[i]
  <2>1. i <= i + 1 /\ Agree(f, f, i)
    BY DEF Agree
  <2>2. Opens(f, i, g) /\ Opens(f, i + 1, h)
    BY <1>1, <1>3
  <2> QED BY <1>2, <2>1, <2>2, OpensAgree
<1>5. i + 1 \in 0 .. i + 1 /\ i + 1 # 0 /\ i + 1 - 1 = i
  OBVIOUS
<1>6. h[i + 1] = Opened(h[i], f[i + 1])
  BY <1>3, <1>5, OpensStep
<1> QED BY <1>1, <1>3, <1>4, <1>6

LEMMA OpenAfterSame ==
  ASSUME NEW f, NEW r, NEW i \in Nat, Agree(f, r, i)
  PROVE  OpenAfter(r, i) = OpenAfter(f, i)
<1>1. PICK g : Opens(f, i, g) /\ OpenAfter(f, i) = g[i]
  BY OpenAfterIs
<1>2. PICK h : Opens(r, i, h) /\ OpenAfter(r, i) = h[i]
  BY OpenAfterIs
<1>3. g[i] = h[i]
  <2>1. i <= i /\ Opens(f, i, g) /\ Opens(r, i, h)
    BY <1>1, <1>2
  <2> QED BY <2>1, OpensAgree
<1> QED BY <1>1, <1>2, <1>3

-----------------------------------------------------------------------------
(* What a SAX callback does not retain goes.                               *)

\* The part of WellFormed and of HasOneRoot that the pieces read so far can
\* break, and a file with directives only outside its root.
Leading(p) == p.k = "markup" /\ p.n \in {"?", "!"}

Fitting(f) == \A i \in DOMAIN f : Fits(OpenAfter(f, i - 1), f[i])
OneRoot(f) == \A i, j \in Outer(f) : i < j => Leading(f[i])
Virgin(f)  == \A i \in Outer(f) : Leading(f[i])

\* p goes on with a file after which o is open: v, and after p w, says that
\* there is no root yet.
FollowsOn(o, v, p, w) ==
  /\ v \in BOOLEAN /\ w \in BOOLEAN /\ p \in Piece
  /\ Fits(o, p) /\ (w => v)
  /\ p.k \in {"tag", "markup"} /\ o = << >> => v /\ (w => Leading(p))

LEMMA FileGoesOn ==
  ASSUME NEW f \in Seq(Piece), NEW p \in Piece, NEW g, g = Append(f, p), Fitting(g), OneRoot(g)
  PROVE  /\ Fitting(f) /\ OneRoot(f)
         /\ OpenAfter(g, Len(g)) = Opened(OpenAfter(f, Len(f)), p)
         /\ FollowsOn(OpenAfter(f, Len(f)), Virgin(f), p, Virgin(g))
<1> DEFINE n == Len(f)
           o == OpenAfter(f, n)
<1>1. /\ n \in Nat /\ Len(g) = n + 1 /\ DOMAIN f = 1 .. n /\ DOMAIN g = 1 .. n + 1
      /\ g[n + 1] = p /\ \A j \in 1 .. n : g[j] = f[j]
  BY AppendProperties
<1>2. ASSUME NEW i \in Nat, i <= n PROVE OpenAfter(g, i) = OpenAfter(f, i)
  <2>1. Agree(f, g, i)
    BY <1>1, <1>2 DEF Agree
  <2> QED BY <2>1, OpenAfterSame
<1>3. ASSUME NEW i \in 1 .. n PROVE OpenAfter(g, i - 1) = OpenAfter(f, i - 1) /\ g[i] = f[i] /\ i \in 1 .. n + 1
  BY <1>1, <1>2
<1>4. OpenAfter(g, n) = o
  BY <1>1, <1>2
<1>5. OpenAfter(g, n + 1) = Opened(o, p)
  BY <1>1, <1>4, OpenAfterMore
<1>6. Outer(f) \subseteq Outer(g) /\ \A i \in Outer(f) : i \in 1 .. n /\ g[i] = f[i]
  BY <1>1, <1>3 DEF Outer
<1>7. n + 1 \in 1 .. n + 1 /\ n + 1 - 1 = n /\ \A i \in 1 .. n : i < n + 1
  BY <1>1
<1>8. p.k \in {"tag", "markup"} /\ o = << >> => n + 1 \in Outer(g)
  BY <1>1, <1>4, <1>7 DEF Outer
<1>9. Fits(o, p)
  BY <1>1, <1>4, <1>7 DEF Fitting
<1> HIDE DEF o
<1>10. Fitting(f)
  BY <1>1, <1>3 DEF Fitting
<1>11. OneRoot(f)
  BY <1>6 DEF OneRoot
<1>12. Virgin(g) => Virgin(f)
  BY <1>6 DEF Virgin
<1>13. p.k \in {"tag", "markup"} /\ o = << >> => Virgin(f) /\ (Virgin(g) => Leading(p))
  <2> SUFFICES ASSUME n + 1 \in Outer(g)
               PROVE  Virgin(f) /\ (Virgin(g) => Leading(p))
    BY <1>8
  <2>1. ASSUME NEW i \in Outer(f) PROVE Leading(f[i])
    BY <1>6, <1>7 DEF OneRoot
  <2>2. Virgin(g) => Leading(p)
    BY <1>1 DEF Virgin
  <2> QED BY <2>1, <2>2 DEF Virgin
<1>14. Virgin(f) \in BOOLEAN /\ Virgin(g) \in BOOLEAN
  BY DEF Virgin
<1>15. FollowsOn(o, Virgin(f), p, Virgin(g))
  BY <1>9, <1>12, <1>13, <1>14 DEF FollowsOn
<1> QED BY <1>1, <1>5, <1>10, <1>11, <1>15 DEF o

\* A file with at most two pieces outside, and one root, ...
LEMMA OneRootOfTwo ==
  ASSUME NEW f \in Seq(Piece), HasOneRoot(f), Cardinality(Outer(f)) <= 2
  PROVE  OneRoot(f)
<1>1. Outer(f) \subseteq Nat /\ IsFiniteSet(Outer(f))
  <2>1. Outer(f) \subseteq 1 .. Len(f) /\ Len(f) \in Nat
    BY DEF Outer
  <2>2. IsFiniteSet(1 .. Len(f))
    BY <2>1, FS_Interval
  <2>3. IsFiniteSet(Outer(f))
    BY <2>1, <2>2, FS_Subset
  <2> QED BY <2>1, <2>3
<1>2. SUFFICES ASSUME NEW i \in Outer(f), NEW j \in Outer(f), i < j PROVE Leading(f[i])
  BY DEF OneRoot
<1>3. {i, j} \subseteq Outer(f) /\ i # j
  BY <1>1, <1>2
<1>4. IsFiniteSet({i, j}) /\ Cardinality({i, j}) = 2
  <2>1. IsFiniteSet({i}) /\ Cardinality({i}) = 1
    BY FS_Singleton
  <2>2. j \notin {i} /\ {i} \cup {j} = {i, j}
    BY <1>3
  <2> DEFINE S == {i}
  <2>3. IsFiniteSet(S) /\ Cardinality(S) = 1 /\ j \notin S
    BY <2>1, <2>2
  <2> HIDE DEF S
  <2>4. IsFiniteSet(S \cup {j}) /\ Cardinality(S \cup {j}) = Cardinality(S) + 1
    BY <2>3, FS_AddElement
  <2>5. Cardinality(S \cup {j}) = 2
    BY <2>3, <2>4
  <2>6. S \cup {j} = {i, j}
    BY <2>2 DEF S
  <2> QED BY <2>4, <2>5, <2>6, Zenon
<1>5. Cardinality(Outer(f)) # 1
  <2>1. Cardinality({i, j}) <= Cardinality(Outer(f))
    BY <1>1, <1>3, FS_Subset
  <2> QED BY <1>4, <2>1
<1>6. PICK m \in Outer(f) : Leading(f[m]) /\ \A x \in Outer(f) : m <= x
  BY <1>5 DEF HasOneRoot, Leading
<1>7. ASSUME m # i PROVE FALSE
  <2>1. m \notin {i, j} /\ {i, j} \cup {m} \subseteq Outer(f)
    BY <1>1, <1>2, <1>3, <1>6, <1>7
  <2> DEFINE S == {i, j}
  <2>2. IsFiniteSet(S) /\ Cardinality(S) = 2 /\ m \notin S /\ S \cup {m} \subseteq Outer(f)
    BY <1>4, <2>1
  <2> HIDE DEF S
  <2>3. Cardinality(S \cup {m}) = Cardinality(S) + 1
    BY <2>2, FS_AddElement
  <2>4. Cardinality(S \cup {m}) <= Cardinality(Outer(f))
    BY <1>1, <2>2, FS_Subset
  <2>5. Cardinality(Outer(f)) \in Nat
    BY <1>1, FS_CardinalityType
  <2> QED BY <2>2, <2>3, <2>4, <2>5
<1> QED BY <1>6, <1>7

\* k are the nodes on the way to parent: the elements o that are open, and below
\* them a leading directive, if the callback has retained it.
Path(s, o, k) ==
  /\ o \in Seq(Name) /\ k[Len(o)] = s.l.parent
  /\ k[0] # NULL => k[0] \in s.l.retained /\ s.link[k[0]].parent = NULL
  /\ \A i \in 1 .. Len(o) : k[i] \in s.live /\ s.link[k[i]].parent = k[i - 1] /\ s.what[k[i]].n = o[i]
  /\ \A j \in 1 .. Len(o) : \A i \in 0 .. j - 1 : k[i] # NULL => k[j] \notin Above(s.link, k[i])

\* What a load with a SAX callback keeps to while the file fits.
Standing(s, o, v) ==
  /\ s.l.result = "loading" /\ s.l.type = "text" /\ \E k : Path(s, o, k)
  /\ v => o = << >> /\ s.l.buffer = << >> /\ ~SecondRoot(s)

\* Nodes may have come, but parent is the same.
Along(s, t) ==
  /\ Stays(s, t) /\ t.l.parent = s.l.parent /\ t.l.type = s.l.type /\ t.l.result = "loading"

LEMMA PathStays ==
  ASSUME NEW s, Steady(s, setting), NEW o, NEW k, Path(s, o, k), NEW t, Stays(s, t), t.l.parent = s.l.parent
  PROVE  Path(t, o, k)
<1>1. s.l.retained \subseteq s.live
  BY DEF Steady, Base, Pointing
<1>2. Len(o) \in Nat /\ \A j \in 1 .. Len(o) : \A i \in 0 .. j - 1 : i = 0 \/ i \in 1 .. Len(o)
  BY DEF Path
<1>3. s.live \subseteq t.live /\ t.l.retained \cap s.live = s.l.retained
      /\ \A x \in s.live : Above(t.link, x) = Above(s.link, x) /\ t.link[x].parent = s.link[x].parent
                           /\ t.what[x] = s.what[x]
  BY DEF Stays, Same
<1>4. k[0] # NULL => k[0] \in t.l.retained /\ t.link[k[0]].parent = NULL /\ k[0] \in s.live
  BY <1>1, <1>3 DEF Path
<1>5. \A i \in 1 .. Len(o) : /\ k[i] \in s.live /\ k[i] \in t.live /\ t.link[k[i]].parent = k[i - 1]
                             /\ t.what[k[i]].n = o[i]
  BY <1>3 DEF Path
<1>6. ASSUME NEW j \in 1 .. Len(o), NEW i \in 0 .. j - 1, k[i] # NULL
      PROVE  k[j] \notin Above(t.link, k[i])
  <2>1. k[i] \in s.live
    BY <1>2, <1>4, <1>5, <1>6
  <2>2. k[j] \notin Above(s.link, k[i])
    BY <1>6 DEF Path
  <2> QED BY <1>3, <2>1, <2>2
<1>7. o \in Seq(Name) /\ k[Len(o)] = t.l.parent
  BY DEF Path
<1> QED BY <1>4, <1>5, <1>6, <1>7 DEF Path

LEMMA AlongStands ==
  ASSUME NEW s, Steady(s, setting), NEW o, NEW v, Standing(s, o, v), NEW t, Along(s, t),
         NEW w \in BOOLEAN, w => v = TRUE /\ t.l.buffer = << >> /\ ~SecondRoot(t)
  PROVE  Standing(t, o, w)
<1>1. PICK k : Path(s, o, k)
  BY DEF Standing
<1>2. Path(t, o, k)
  BY <1>1, PathStays DEF Along
<1> QED BY <1>2 DEF Along, Standing

\* An element that is open is parent; without one, there is no root yet.
LEMMA StandsOpen ==
  ASSUME NEW s, Steady(s, setting), NEW o, NEW v, Standing(s, o, v), o # << >>
  PROVE  /\ s.l.parent \in s.live /\ s.l.parent # NULL /\ ~SecondRoot(s)
         /\ s.what[s.l.parent].n = Last(o)
<1>1. PICK k : Path(s, o, k)
  BY DEF Standing
<1>2. Len(o) \in 1 .. Len(o) /\ o \in Seq(Name)
  BY <1>1, EmptySeq DEF Path
<1>3. s.l.parent \in s.live /\ s.what[s.l.parent].n = o[Len(o)]
  BY <1>1, <1>2 DEF Path
<1>4. s.live \subseteq Node /\ NULL \notin Node
  BY XmlTreeAssumption DEF XmlTreeAssumption, Steady, Base, State
<1> QED BY <1>3, <1>4 DEF Last, SecondRoot

LEMMA FlushedAlong ==
  ASSUME NEW s, Steady(s, setting), NEW i \in Nat, i < MaxPieces, Roomy(s, i), s.l.type = "text",
         NEW atSpace \in BOOLEAN, NEW keep \in BOOLEAN, NEW t, t = Flushed(s, atSpace, keep)
  PROVE  Along(s, t) /\ t.l.buffer = << >>
<1> DEFINE w == Text(s.l.whitespace, s.l.buffer)
           n == Fresh(s)
           u == Handed(NewNode(s, w), n, keep)
           ws == atSpace
<1>1. s \in State /\ s.l \in Locals /\ s.l.result = "loading"
  BY DEF Steady, Base, State
<1>2. n \in Node \ s.live
  BY <1>1, RoomForOne
<1>3. w \in Contents /\ w.k # "element"
  BY <1>1 DEF Text, Contents, Locals
<1>4. t = [u EXCEPT !.l.buffer = << >>, !.l.whitespace = ws]
  BY DEF Flushed
<1>5. Steady(u, setting) /\ Stays(s, u) /\ Reading(s, u)
  <2> HIDE DEF w
  <2> QED BY <1>2, <1>3, LeafIs DEF n
<1> HIDE DEF u, ws
<1>6. t = Scanned(u, << >>, ws) /\ Scan(<< >>, ws)
  BY <1>4, EmptySeq DEF Scanned, Scan, ws
<1>7. /\ Stays(u, t) /\ t.l.parent = u.l.parent /\ t.l.type = u.l.type /\ t.l.result = u.l.result
      /\ t.l.buffer = << >>
  BY <1>5, <1>6, ScannedIs
<1>8. Stays(s, t)
  BY <1>5, <1>7, StaysTwice
<1> QED BY <1>1, <1>5, <1>7, <1>8 DEF Along, Reading

LEMMA LoneAlong ==
  ASSUME NEW s, Steady(s, setting), NEW i \in Nat, i < MaxPieces, Roomy(s, i), s.l.buffer = << >>,
         NEW keep \in BOOLEAN, NEW t, t = LoneWhitespace(s, keep)
  PROVE  Along(s, t) /\ t.l.buffer = << >> /\ (~SecondRoot(s) => ~SecondRoot(t))
<1>1. s \in State /\ s.l \in Locals /\ s.l.result = "loading"
  BY DEF Steady, Base, State
<1>2. CASE ~(s.l.whitespace /\ s.l.type = "text")
  BY <1>1, <1>2, StaysSelf DEF LoneWhitespace, Along
<1>3. CASE s.l.whitespace /\ s.l.type = "text"
  <2>1. ASSUME NEW u, Steady(u, setting), Stays(s, u), Reading(s, u), t = [u EXCEPT !.l.whitespace = FALSE],
               s.l.parent # NULL \/ u.l.first = s.l.first
        PROVE  Along(s, t) /\ t.l.buffer = << >> /\ (~SecondRoot(s) => ~SecondRoot(t))
    <3>1. u.l \in Locals
      BY <2>1 DEF Steady, Base, State
    <3> DEFINE b == u.l.buffer
               ws == FALSE
    <3>2. t = Scanned(u, b, ws) /\ Scan(b, ws) /\ Steady(u, setting) /\ b = << >>
      BY <2>1, <3>1, ScannedWhitespace DEF Reading
    <3> HIDE DEF b, ws
    <3>3. /\ Stays(u, t) /\ t.l.parent = u.l.parent /\ t.l.type = u.l.type /\ t.l.result = u.l.result
          /\ t.l.buffer = b /\ t.l.first = u.l.first
      BY <3>2, ScannedIs
    <3>4. Stays(s, t)
      BY <2>1, <3>3, StaysTwice
    <3> QED BY <1>1, <2>1, <3>2, <3>3, <3>4 DEF Along, Reading, SecondRoot
  <2>2. CASE s.l.parent = NULL
    <3>1. t = [s EXCEPT !.l.whitespace = FALSE]
      BY <1>3, <2>2 DEF LoneWhitespace
    <3>2. Stays(s, s) /\ Reading(s, s)
      BY StaysSelf DEF Reading
    <3> QED BY <2>1, <3>1, <3>2
  <2>3. CASE s.l.parent # NULL
    <3> DEFINE w == Text(TRUE, << >>)
               n == Fresh(s)
               u == Handed(NewNode(s, w), n, keep)
    <3>1. t = [u EXCEPT !.l.whitespace = FALSE]
      BY <1>3, <2>3 DEF LoneWhitespace
    <3>2. w \in Contents /\ w.k # "element"
      BY EmptySeq DEF Text, Contents
    <3>3. n \in Node \ s.live
      BY <1>1, RoomForOne
    <3> HIDE DEF w
    <3>4. Steady(u, setting) /\ Stays(s, u) /\ Reading(s, u)
      BY <3>2, <3>3, LeafIs
    <3> HIDE DEF u, n
    <3> QED BY <2>1, <2>3, <3>1, <3>4
  <2> QED BY <2>2, <2>3
<1> QED BY <1>2, <1>3

LEMMA BeforeTagStands ==
  ASSUME NEW s, Steady(s, setting), NEW i \in Nat, i < MaxPieces, Roomy(s, i),
         NEW o, NEW v \in BOOLEAN, Standing(s, o, v), NEW keep \in BOOLEAN, NEW t, t = BeforeTag(s, keep)
  PROVE  Standing(t, o, v) /\ Steady(t, setting) /\ Roomy(t, i)
<1>1. s.l.type = "text" /\ s.l.result = "loading"
  BY DEF Standing, Steady
<1>2. Onward(s, t, i)
  BY BeforeTagIs
<1>3. Along(s, t) /\ t.l.buffer = << >> /\ (v => ~SecondRoot(t))
  <2>1. CASE s.l.buffer = << >>
    <3>1. t = LoneWhitespace(s, keep)
      BY <1>1, <2>1 DEF BeforeTag
    <3>2. v => ~SecondRoot(s)
      BY DEF Standing
    <3>3. Along(s, t) /\ t.l.buffer = << >> /\ (~SecondRoot(s) => ~SecondRoot(t))
      BY <2>1, <3>1, LoneAlong
    <3> QED BY <3>2, <3>3
  <2>2. CASE s.l.buffer # << >>
    <3> DEFINE u == Flushed(s, FALSE, keep)
               b == FALSE
    <3>1. t = IF u.l.result = "loading" THEN LoneWhitespace(u, keep) ELSE u
      BY <2>2 DEF BeforeTag
    <3>2. u = Flushed(s, b, keep) /\ b \in BOOLEAN /\ ~b
      OBVIOUS
    <3> HIDE DEF u, b
    <3>3. Along(s, u) /\ u.l.buffer = << >>
      BY <1>1, <3>2, FlushedAlong
    <3>4. u.l.whitespace = FALSE
      BY <2>2, <3>2, <3>3, FlushedIs DEF Along
    <3>5. t = u
      BY <3>1, <3>3, <3>4 DEF LoneWhitespace
    <3>6. ~v
      BY <2>2 DEF Standing
    <3> QED BY <3>3, <3>5, <3>6
  <2> QED BY <2>1, <2>2
<1>4. Standing(t, o, v)
  BY <1>3, AlongStands
<1>5. Steady(t, setting) /\ Roomy(t, i)
  BY <1>2, <1>3 DEF Onward, Done, Along
<1> QED BY <1>4, <1>5

\* The pieces of a file that fits.
LEMMA FollowsIs ==
  ASSUME NEW o, NEW v, NEW p, NEW w, FollowsOn(o, v, p, w), v => o = << >>
  PROVE  /\ p.k \notin {"tag", "close"} => Opened(o, p) = o
         /\ p.k \in {"char", "close"} => o # << >>
         /\ p.k \in {"tag", "close", "char"} => ~w
         /\ p.k = "markup" /\ w => Leading(p)
         /\ v \in BOOLEAN /\ w \in BOOLEAN /\ (w => v)
<1>1. v \in BOOLEAN /\ w \in BOOLEAN /\ (w => v)
  BY DEF FollowsOn
<1>2. p.k \notin {"tag", "close"} => Opened(o, p) = o
  BY DEF Opened
<1>3. p.k \in {"char", "close"} => o # << >>
  BY DEF FollowsOn, Fits
<1>4. p.k = "markup" /\ w => Leading(p)
  BY <1>1 DEF FollowsOn
<1>5. p.k \in {"tag", "close", "char"} => ~w
  <2>1. p.k = "tag" => ~w
    BY <1>1 DEF FollowsOn, Leading
  <2> QED BY <1>1, <1>3, <2>1
<1> QED BY <1>1, <1>2, <1>3, <1>4, <1>5

\* There is room for another root, or an element is open.
LEMMA StandsReady ==
  ASSUME NEW s, Steady(s, setting), NEW o, NEW v, Standing(s, o, v), NEW p, NEW w, FollowsOn(o, v, p, w),
         p.k \in {"tag", "markup"}
  PROVE  ~SecondRoot(s)
<1>1. CASE o = << >>
  BY <1>1 DEF FollowsOn, Standing
<1>2. CASE o # << >>
  BY <1>2, StandsOpen
<1> QED BY <1>1, <1>2

LEMMA ScannedAlong ==
  ASSUME NEW s, Steady(s, setting), NEW b, NEW ws, Scan(b, ws), NEW t, t = Scanned(s, b, ws)
  PROVE  Along(s, t) /\ t.l.buffer = b /\ t.l.first = s.l.first
<1>1. /\ Stays(s, t) /\ t.l.parent = s.l.parent /\ t.l.type = s.l.type /\ t.l.result = s.l.result
      /\ t.l.buffer = b /\ t.l.first = s.l.first
  BY ScannedIs
<1> QED BY <1>1 DEF Along, Steady

LEMMA CharacterStands ==
  ASSUME NEW s, Steady(s, setting), NEW o, NEW v, Standing(s, o, v), NEW p, NEW w, FollowsOn(o, v, p, w),
         p.k = "char", NEW c \in Chars, NEW t, t = [s EXCEPT !.l.buffer = Append(@, c)]
  PROVE  Standing(t, Opened(o, p), w)
<1>1. s.l \in Locals /\ s.l.result = "loading"
  BY DEF Steady, Base, State
<1>2. Opened(o, p) = o /\ ~w /\ w \in BOOLEAN
  BY FollowsIs DEF Standing
<1> DEFINE b == Append(s.l.buffer, c)
           ws == s.l.whitespace
<1>3. t = Scanned(s, b, ws) /\ Scan(b, ws)
  BY <1>1, ScannedBuffer
<1> HIDE DEF b, ws
<1>4. Along(s, t)
  BY <1>3, ScannedAlong
<1>5. Standing(t, o, w)
  BY <1>2, <1>4, AlongStands
<1> QED BY <1>2, <1>5

LEMMA SpaceStands ==
  ASSUME NEW s, Steady(s, setting), NEW i \in Nat, i < MaxPieces, Roomy(s, i),
         NEW o, NEW v, Standing(s, o, v), NEW p, NEW w, FollowsOn(o, v, p, w),
         p.k = "space", NEW keep \in BOOLEAN, NEW t, t = AtSpace(s, keep)
  PROVE  Standing(t, Opened(o, p), w)
<1>1. s.l \in Locals /\ s.l.result = "loading" /\ s.l.type = "text"
  BY DEF Steady, Base, State, Standing
<1>2. Opened(o, p) = o /\ (w => v) /\ w \in BOOLEAN /\ v \in BOOLEAN
  BY FollowsIs DEF Standing
<1>3. Along(s, t) /\ (w => t.l.buffer = << >> /\ ~SecondRoot(t))
  <2>1. CASE s.l.buffer # << >>
    <3> DEFINE b == TRUE
    <3>1. t = Flushed(s, b, keep) /\ b \in BOOLEAN
      BY <1>1, <2>1 DEF AtSpace
    <3> HIDE DEF b
    <3>2. Along(s, t)
      BY <1>1, <3>1, FlushedAlong
    <3>3. ~w
      BY <1>2, <2>1 DEF Standing
    <3> QED BY <3>2, <3>3
  <2>2. CASE s.l.buffer = << >>
    <3> DEFINE ws == s.l.whitespace \/ s.l.type = "text"
               b == s.l.buffer
    <3>1. t = [s EXCEPT !.l.whitespace = ws]
      BY <1>1, <2>2 DEF AtSpace
    <3>2. ws \in BOOLEAN
      BY <1>1 DEF Locals
    <3> HIDE DEF ws
    <3>3. t = Scanned(s, b, ws) /\ Scan(b, ws) /\ b = << >>
      BY <1>1, <2>2, <3>1, <3>2, ScannedWhitespace
    <3> HIDE DEF b
    <3>4. Along(s, t) /\ t.l.buffer = b /\ t.l.first = s.l.first
      BY <3>3, ScannedAlong
    <3> QED BY <1>2, <3>3, <3>4 DEF Along, Standing, SecondRoot
  <2> QED BY <2>1, <2>2
<1>4. Standing(t, o, w)
  BY <1>2, <1>3, AlongStands
<1> QED BY <1>2, <1>4

LEMMA CommentStands ==
  ASSUME NEW s, Steady(s, setting), NEW i \in Nat, i < MaxPieces, Roomy(s, i),
         NEW o, NEW v, Standing(s, o, v), NEW p, NEW w, FollowsOn(o, v, p, w),
         p.k = "markup", p.n \in {"!--", "![CDATA["}, NEW keep \in BOOLEAN, NEW t, t = Comment(s, p.n, keep)
  PROVE  Standing(t, Opened(o, p), w)
<1>1. s.l.result = "loading"
  BY DEF Steady
<1>2. Opened(o, p) = o /\ ~w /\ w \in BOOLEAN
  BY FollowsIs DEF Standing, Leading
<1>3. ~SecondRoot(s)
  BY StandsReady
<1> DEFINE n == Fresh(s)
           m == p.n
<1>4. t = Handed(NewNode(s, Element(m, << >>)), n, keep) /\ m \in Markup
  BY <1>3 DEF Comment, Markup
<1> HIDE DEF m
<1>5. Stays(s, t) /\ Reading(s, t)
  BY <1>3, <1>4, MarkupIs DEF n
<1>6. Along(s, t)
  BY <1>1, <1>5 DEF Along, Reading
<1>7. Standing(t, o, w)
  BY <1>2, <1>6, AlongStands
<1> QED BY <1>2, <1>7

LEMMA DirectiveStands ==
  ASSUME Caller(setting), setting.sax, NEW s, Steady(s, setting), NEW i \in Nat, i < MaxPieces, Roomy(s, i),
         NEW o, NEW v, Standing(s, o, v), NEW p, NEW w, FollowsOn(o, v, p, w),
         p.k = "markup", p.n \in Markup, NEW keep \in BOOLEAN, NEW t, t = Directive(s, p.n, keep)
  PROVE  Standing(t, Opened(o, p), w)
<1>1. s.l.result = "loading" /\ s.l.type = "text" /\ NULL \notin Node /\ s.live \subseteq Node
  BY XmlTreeAssumption DEF XmlTreeAssumption, Steady, Standing, Base, State
<1>2. Opened(o, p) = o /\ (w => v) /\ w \in BOOLEAN /\ v \in BOOLEAN
  BY FollowsIs DEF Standing
<1>3. ~SecondRoot(s)
  BY StandsReady
<1> DEFINE n == Fresh(s)
           m == p.n
           u == Handed(NewNode(s, Element(m, << >>)), n, keep)
<1>4. t = IF n \in u.live /\ s.l.parent = NULL THEN Inside(u, n) ELSE u
  BY <1>3 DEF Directive, Inside
<1>5. m \in Markup
  OBVIOUS
<1> HIDE DEF m
<1>6. /\ Steady(u, setting) /\ Stays(s, u) /\ Reading(s, u)
      /\ n \in u.live => u.link[n].parent = s.l.parent /\ (setting.sax => n \in u.l.retained)
      /\ n \notin u.live => u.l.first = s.l.first
  BY <1>3, <1>5, MarkupIs
<1> HIDE DEF n, u
<1>7. CASE ~(n \in u.live /\ s.l.parent = NULL)
  <2>1. t = u
    BY <1>4, <1>7
  <2>2. Along(s, u)
    BY <1>1, <1>6 DEF Along, Reading
  <2>3. w => u.l.buffer = << >> /\ ~SecondRoot(u)
    BY <1>2, <1>3, <1>6, <1>7 DEF Standing, Reading, SecondRoot
  <2>4. Standing(u, o, w)
    BY <1>2, <2>2, <2>3, AlongStands
  <2> QED BY <1>2, <2>1, <2>4
<1>8. CASE n \in u.live /\ s.l.parent = NULL
  <2>1. t = Inside(u, n) /\ n \in u.live \cup {NULL} /\ u \in State /\ n # NULL
    <3>1. u \in State /\ u.live \subseteq Node
      BY <1>6 DEF Steady, Base, State
    <3> QED BY <1>1, <1>4, <1>8, <3>1
  <2>2. /\ t.live = u.live /\ t.link = u.link /\ t.l.parent = n /\ t.l.retained = u.l.retained
        /\ t.l.buffer = u.l.buffer /\ t.l.result = u.l.result /\ (setting.cb = NONE => t.l.type = u.l.type)
    BY <2>1, InsideIs
  <2>3. o = << >>
    BY <1>8, StandsOpen
  <2> DEFINE k == [j \in {0} |-> n]
  <2>4. Len(o) = 0 /\ o \in Seq(Name) /\ k[0] = n /\ \A j \in 1 .. Len(o) : FALSE
    BY <2>3, EmptySeq
  <2>5. n \in t.l.retained /\ t.link[n].parent = NULL
    BY <1>6, <1>8, <2>2
  <2> HIDE DEF k
  <2>6. Path(t, o, k)
    BY <2>2, <2>4, <2>5 DEF Path
  <2>7. t.l.type = "text" /\ t.l.result = "loading"
    BY <1>1, <1>6, <2>2 DEF Caller, Reading
  <2>8. ~SecondRoot(t)
    BY <2>1, <2>2 DEF SecondRoot
  <2>9. w => t.l.buffer = << >>
    BY <1>2, <1>6, <2>2 DEF Standing, Reading
  <2> QED BY <1>2, <2>3, <2>6, <2>7, <2>8, <2>9 DEF Standing
<1> QED BY <1>7, <1>8

\* The element p is closed: what is above it stays.
ClosedAs(s, p, t) ==
  /\ t.l.retained = s.l.retained \cap t.live /\ \A x \in t.live : Same(s, t, x)
  /\ \A x \in s.live : p \notin Above(s.link, x) => x \in t.live
  /\ t.l.parent = s.link[p].parent /\ (setting.cb = NONE => t.l.type = s.l.type)
  /\ t.l.result = "loading"

LEMMA ClosedSo ==
  ASSUME Caller(setting), NEW s, Steady(s, setting), NEW p, NEW t, Closing(s, p, t)
  PROVE  ClosedAs(s, p, t)
<1>1. /\ Stays(s, t) \/ (p \notin s.l.retained /\ \A x \in s.live \ t.live : p \in Above(s.link, x))
      /\ t.l.retained = s.l.retained \cap t.live /\ \A x \in t.live : Same(s, t, x)
      /\ t.l.parent = s.link[p].parent /\ (setting.cb = NONE => t.l.type = s.l.type)
      /\ Steady(t, setting)
  BY ClosedIs
<1> QED BY <1>1 DEF ClosedAs, Stays, Steady

LEMMA CloseStands ==
  ASSUME Caller(setting), setting.sax, NEW s, Steady(s, setting),
         NEW o, NEW v, Standing(s, o, v), NEW p, NEW w, FollowsOn(o, v, p, w),
         p.k = "close", p.n \in Name, NEW t, t = Close(s, p.n)
  PROVE  Standing(t, Opened(o, p), w)
<1> DEFINE q == s.l.parent
           n == Len(o)
<1>1. ~w /\ w \in BOOLEAN /\ o # << >> /\ setting.cb = NONE
  BY FollowsIs DEF Standing, Caller
<1>2. q \in s.live /\ q # NULL /\ s.what[q].n = p.n
  <2>1. Last(o) = p.n
    BY DEF FollowsOn, Fits
  <2> QED BY <1>1, <2>1, StandsOpen
<1>3. t = Inside(Closed(s, q), s.link[q].parent)
  BY <1>2 DEF Close, Inside
<1>4. Closing(s, q, t)
  BY <1>2, <1>3 DEF Closing
<1>5. PICK k : Path(s, o, k)
  BY DEF Standing
<1>6. /\ s.l.type = "text" /\ s.l.retained \subseteq s.live
      /\ k[n] = q
  BY <1>5 DEF Standing, Path, Steady, Base, Pointing
<1> HIDE DEF q
<1>7. /\ t.l.retained = s.l.retained \cap t.live /\ \A x \in t.live : Same(s, t, x)
      /\ \A x \in s.live : q \notin Above(s.link, x) => x \in t.live
      /\ t.l.parent = s.link[q].parent /\ t.l.type = s.l.type /\ t.l.result = "loading"
  <2>1. ClosedAs(s, q, t)
    BY <1>4, ClosedSo
  <2> QED BY <1>1, <2>1 DEF ClosedAs
<1>8. /\ o \in Seq(Name) /\ n \in Nat \ {0} /\ Front(o) \in Seq(Name) /\ Len(Front(o)) = n - 1
      /\ \A i \in 1 .. n - 1 : Front(o)[i] = o[i]
  <2>1. o \in Seq(Name) /\ n \in Nat \ {0}
    BY <1>1, <1>5, EmptySeq DEF Path
  <2> QED BY <1>1, <2>1, FrontOfSequence
<1>9. ASSUME NEW i \in 0 .. n - 1, k[i] # NULL PROVE k[i] \in t.live
  <2>1. k[i] \in s.live
    <3>1. i = 0 \/ i \in 1 .. n
      BY <1>8
    <3> QED BY <1>5, <1>6, <1>9, <3>1 DEF Path
  <2>2. q \notin Above(s.link, k[i])
    <3>1. n \in 1 .. n
      BY <1>8
    <3> QED BY <1>5, <1>6, <1>9, <3>1 DEF Path
  <2> QED BY <1>7, <2>1, <2>2
<1>10. t.l.parent = k[n - 1]
  <2>1. n \in 1 .. n
    BY <1>8
  <2> QED BY <1>5, <1>6, <1>7, <2>1 DEF Path
<1>11. k[0] # NULL => k[0] \in t.l.retained /\ t.link[k[0]].parent = NULL
  <2>1. 0 \in 0 .. n - 1
    BY <1>8
  <2> QED BY <1>5, <1>7, <1>9, <2>1 DEF Path, Same
<1>12. ASSUME NEW i \in 1 .. n - 1
       PROVE  k[i] \in t.live /\ t.link[k[i]].parent = k[i - 1] /\ t.what[k[i]].n = Front(o)[i]
  <2>1. i \in 1 .. n /\ i \in 0 .. n - 1
    BY <1>8
  <2>2. k[i] \in s.live /\ s.link[k[i]].parent = k[i - 1] /\ s.what[k[i]].n = o[i]
    BY <1>5, <2>1 DEF Path
  <2>3. k[i] # NULL
    BY <2>2, XmlTreeAssumption DEF XmlTreeAssumption, Steady, Base, State
  <2> QED BY <1>7, <1>8, <1>9, <2>1, <2>2, <2>3 DEF Same
<1>13. ASSUME NEW j \in 1 .. n - 1, NEW i \in 0 .. j - 1, k[i] # NULL PROVE k[j] \notin Above(t.link, k[i])
  <2>1. j \in 1 .. n /\ i \in 0 .. n - 1
    BY <1>8
  <2> QED BY <1>5, <1>7, <1>9, <1>13, <2>1 DEF Path, Same
<1>14. Path(t, Front(o), k)
  <2> DEFINE r == Front(o)
  <2>1. r \in Seq(Name) /\ Len(r) = n - 1
    BY <1>8
  <2>2. \A i \in 1 .. n - 1 : k[i] \in t.live /\ t.link[k[i]].parent = k[i - 1] /\ t.what[k[i]].n = r[i]
    BY <1>12
  <2> HIDE DEF r
  <2>3. Path(t, r, k)
    BY <1>10, <1>11, <1>13, <2>1, <2>2 DEF Path
  <2> QED BY <2>3 DEF r
<1>15. Opened(o, p) = Front(o)
  BY <1>1 DEF Opened
<1> QED BY <1>1, <1>6, <1>7, <1>14, <1>15 DEF Standing

\* Into an element ...
LEMMA PathEnters ==
  ASSUME NEW s, Steady(s, setting), NEW o, NEW k, Path(s, o, k), NEW n \in Node \ s.live, NEW name \in Name,
         NEW t, Stays(s, t), n \in t.live, t.l.parent = n, t.link[n].parent = s.l.parent, t.what[n].n = name
  PROVE  \E h : Path(t, Append(o, name), h)
<1> DEFINE m == Len(o)
           h == [i \in 0 .. m + 1 |-> IF i = m + 1 THEN n ELSE k[i]]
           r == Append(o, name)
<1>1. /\ o \in Seq(Name) /\ m \in Nat /\ r \in Seq(Name) /\ Len(r) = m + 1 /\ r[m + 1] = name
      /\ \A i \in 1 .. m : r[i] = o[i]
  <2>1. o \in Seq(Name)
    BY DEF Path
  <2> QED BY <2>1, AppendProperties
<1>2. /\ s.l.retained \subseteq s.live /\ NULL \notin Node /\ s.live \in SUBSET Node
      /\ Grove(s.link, s.live)
  BY XmlTreeAssumption DEF XmlTreeAssumption, Steady, Base, Pointing, State
<1>3. h[m + 1] = n /\ \A i \in 0 .. m : h[i] = k[i]
  BY <1>1
<1> HIDE DEF h, r
<1>4. /\ k[m] = s.l.parent
      /\ \A i \in 1 .. m : k[i] \in s.live /\ s.link[k[i]].parent = k[i - 1] /\ s.what[k[i]].n = o[i]
      /\ k[0] # NULL => k[0] \in s.l.retained /\ s.link[k[0]].parent = NULL
  BY DEF Path
<1>5. /\ s.live \subseteq t.live /\ t.l.retained \cap s.live = s.l.retained
      /\ \A x \in s.live : Above(t.link, x) = Above(s.link, x) /\ t.link[x].parent = s.link[x].parent
                           /\ t.what[x] = s.what[x]
  BY DEF Stays, Same
<1>6. h[0] # NULL => h[0] \in t.l.retained /\ t.link[h[0]].parent = NULL
  <2>1. h[0] = k[0]
    BY <1>1, <1>3
  <2> QED BY <1>2, <1>4, <1>5, <2>1
<1>7. ASSUME NEW i \in 1 .. m + 1
      PROVE  h[i] \in t.live /\ t.link[h[i]].parent = h[i - 1] /\ t.what[h[i]].n = r[i]
  <2>1. CASE i = m + 1
    <3>1. i - 1 = m /\ m \in 0 .. m
      BY <1>1, <2>1
    <3> QED BY <1>1, <1>3, <1>4, <2>1, <3>1
  <2>2. CASE i # m + 1
    <3>1. i \in 1 .. m /\ i \in 0 .. m /\ i - 1 \in 0 .. m
      BY <1>1, <2>2
    <3> QED BY <1>1, <1>3, <1>4, <1>5, <3>1
  <2> QED BY <2>1, <2>2
<1>8. ASSUME NEW i \in 0 .. m, k[i] # NULL PROVE k[i] \in s.live /\ Above(s.link, k[i]) \subseteq s.live
  <2>1. k[i] \in s.live
    <3>1. i = 0 \/ i \in 1 .. m
      BY <1>1
    <3> QED BY <1>2, <1>4, <1>8, <3>1
  <2>2. /\ s.link \in [Node -> Link]
        /\ \A x \in s.live : s.link[x].parent = s.link[x].parent /\ s.link[x].parent \in s.live \cup {NULL}
    BY <1>2 DEF Grove, Sound, PointsInto
  <2> QED BY <1>2, <2>1, <2>2, AboveWithin
<1>9. ASSUME NEW j \in 1 .. m + 1, NEW i \in 0 .. j - 1, h[i] # NULL PROVE h[j] \notin Above(t.link, h[i])
  <2>1. i \in 0 .. m /\ h[i] = k[i]
    BY <1>1, <1>3
  <2>2. k[i] \in s.live /\ Above(s.link, k[i]) \subseteq s.live /\ Above(t.link, k[i]) = Above(s.link, k[i])
    BY <1>5, <1>8, <1>9, <2>1
  <2>3. CASE j = m + 1
    BY <1>3, <2>1, <2>2, <2>3
  <2>4. CASE j # m + 1
    <3>1. j \in 1 .. m /\ j \in 0 .. m
      BY <1>1, <2>4
    <3>2. k[j] \notin Above(s.link, k[i])
      BY <1>9, <2>1, <3>1 DEF Path
    <3> QED BY <1>3, <2>1, <2>2, <3>1, <3>2
  <2> QED BY <2>3, <2>4
<1>10. Path(t, r, h)
  BY <1>1, <1>3, <1>6, <1>7, <1>9 DEF Path
<1> QED BY <1>10 DEF r

LEMMA OpenStands ==
  ASSUME Caller(setting), setting.sax, NEW s, Steady(s, setting), NEW i \in Nat, i < MaxPieces, Roomy(s, i),
         NEW o, NEW v, Standing(s, o, v), NEW p \in Tags, NEW w, FollowsOn(o, v, p, w),
         NEW keep \in BOOLEAN, NEW t, t = Open(s, p, keep)
  PROVE  Standing(t, Opened(o, p), w)
<1> DEFINE n == Fresh(s)
           made == NewNode(s, Element(p.n, p.attrs))
           shown == Shown(made, n, keep)
           known == IF s.l.first = NULL THEN [shown EXCEPT !.l.first = n] ELSE shown
<1>1. p.k = "tag" /\ p.n \in Name /\ p.end \in {">", "/", "/x", "EOF"}
  BY XmlFileAssumption DEF XmlFileAssumption
<1>2. ~w /\ w \in BOOLEAN /\ setting.cb = NONE
  BY <1>1, FollowsIs DEF Standing, Caller
<1>3. s.l.type = "text" /\ s.l.result = "loading"
  BY DEF Steady, Standing
<1>4. ~SecondRoot(s)
  BY <1>1, StandsReady
<1>5. p.end \in {">", "/"} /\ mxml_parse_element(p.attrs, p.end) # "EOF"
  <2>1. mxml_parse_element(p.attrs, p.end) # "EOF"
    BY <1>1 DEF FollowsOn, Fits
  <2> QED BY <1>1, <2>1 DEF mxml_parse_element
<1>6. t = IF p.end = ">" THEN Inside(known, n) ELSE Closed(known, n)
  <2>1. t = CASE p.end = "/x"  -> Failed(Deleted(made, n))
              [] p.end = "EOF" -> Finished(known)
              [] p.end = ">"   -> Inside(known, n)
              [] p.end = "/"   -> Closed(known, n)
    BY <1>4, <1>5, Zenon DEF Open, Inside
  <2> HIDE DEF n, made, known
  <2> QED BY <1>5, <2>1
<1>7. NewTag(s, p, n, made) /\ n \in Node \ s.live
  <2>1. s \in State
    BY DEF Steady, Base
  <2>2. n \in Node \ s.live
    BY <2>1, RoomForOne
  <2> QED BY <1>4, <2>2 DEF NewTag
<1>8. Noted(s, n, Shown(made, n, keep), known)
  BY DEF Noted
<1> HIDE DEF n, made, known
<1>9. CASE p.end = ">"
  <2>1. t = Inside(known, n)
    BY <1>6, <1>9
  <2>2. /\ Stays(s, t) /\ n \in t.live /\ t.l.parent = n /\ t.link[n].parent = s.l.parent /\ t.what[n].n = p.n
        /\ t.l.result = s.l.result /\ (setting.cb = NONE => t.l.type = s.l.type)
    BY <1>7, <1>8, <2>1, TagEntered
  <2>3. PICK k : Path(s, o, k)
    BY DEF Standing
  <2>4. \E h : Path(t, Append(o, p.n), h)
    BY <1>1, <1>7, <2>2, <2>3, PathEnters
  <2>5. Opened(o, p) = Append(o, p.n)
    BY <1>1, <1>9 DEF Opened
  <2> QED BY <1>2, <1>3, <2>2, <2>4, <2>5 DEF Standing
<1>10. CASE p.end = "/"
  <2>1. t = Closed(known, n)
    BY <1>6, <1>10
  <2>2. Stays(s, t) /\ Reading(s, t)
    BY <1>7, <1>8, <2>1, TagClosed
  <2>3. Along(s, t)
    BY <1>3, <2>2 DEF Along, Reading
  <2>4. Standing(t, o, w)
    BY <1>2, <2>3, AlongStands
  <2>5. Opened(o, p) = o
    BY <1>1, <1>10 DEF Opened
  <2> QED BY <2>4, <2>5
<1> QED BY <1>5, <1>9, <1>10

\* Only some of the record counts.
LEMMA SameStands ==
  ASSUME NEW s, NEW t, t.live = s.live /\ t.link = s.link /\ t.what = s.what /\ t.l = s.l,
         NEW o, NEW v, Standing(s, o, v)
  PROVE  Standing(t, o, v)
<1>1. PICK k : Path(s, o, k)
  BY DEF Standing
<1>2. Path(t, o, k)
  BY <1>1 DEF Path
<1> QED BY <1>2 DEF Standing, SecondRoot

\* At the end nothing but a directive is open, and that is retained.
LEMMA FinishedStands ==
  ASSUME Caller(setting), setting.sax, NEW s, Steady(s, setting), NEW v, Standing(s, << >>, v),
         NEW t, t = Finished(s)
  PROVE  t.l.result = "loaded" /\ t.live = t.l.retained
<1>1. /\ s \in State /\ s.l \in Locals /\ Grove(s.link, s.live) /\ s.link \in [Node -> Link] /\ s.live \in SUBSET Node
      /\ s.l.retained \subseteq s.live /\ NULL \notin Node /\ setting.top = NULL
      /\ s.live = s.l.retained \cup OpenNodes(s)
      /\ s = [live |-> s.live, link |-> s.link, ref_count |-> s.ref_count, what |-> s.what, l |-> s.l]
  BY XmlTreeAssumption DEF XmlTreeAssumption, Caller, Steady, Base, State, Pointing, Accounted
<1>2. s.l.parent # NULL => s.l.parent \in s.l.retained /\ s.link[s.l.parent].parent = NULL
  <2>1. PICK k : Path(s, << >>, k)
    BY DEF Standing
  <2>2. k[0] = s.l.parent
    BY <2>1 DEF Path
  <2> QED BY <2>1, <2>2 DEF Path
<1>3. CASE s.l.parent = NULL
  <2>1. t = [s EXCEPT !.l.result = "loaded"]
    BY <1>3 DEF Finished
  <2> DEFINE ll == [s.l EXCEPT !.result = "loaded"]
  <2>2. t = [live |-> s.live, link |-> s.link, ref_count |-> s.ref_count, what |-> s.what, l |-> ll]
    BY <1>1, <2>1
  <2>3. ll.result = "loaded" /\ ll.retained = s.l.retained
    BY <1>1 DEF Locals
  <2> HIDE DEF ll
  <2>4. t.live = s.live /\ t.l.result = "loaded" /\ t.l.retained = s.l.retained
    BY <2>2, <2>3
  <2> QED BY <1>1, <1>3, <2>4 DEF OpenNodes
<1>4. CASE s.l.parent # NULL
  <2>1. s.l.parent \in s.live /\ s.l.parent \in Node
    BY <1>1, <1>2, <1>4
  <2>2. Topmost(s) = s.l.parent
    BY <1>1, <1>2, <1>4, <2>1, TopmostIs
  <2>3. t = [s EXCEPT !.l.result = "loaded", !.l.first = s.l.parent]
    BY <1>4, <2>2 DEF Finished
  <2> DEFINE ll == [s.l EXCEPT !.result = "loaded", !.first = s.l.parent]
  <2>4. t = [live |-> s.live, link |-> s.link, ref_count |-> s.ref_count, what |-> s.what, l |-> ll]
    BY <1>1, <2>3
  <2>5. ll.result = "loaded" /\ ll.retained = s.l.retained
    BY <1>1 DEF Locals
  <2> HIDE DEF ll
  <2>6. t.live = s.live /\ t.l.result = "loaded" /\ t.l.retained = s.l.retained
    BY <2>4, <2>5
  <2>7. Above(s.link, s.l.parent) = {s.l.parent}
    BY <1>1, <1>2, <1>4, <2>1, AboveIs
  <2> QED BY <1>1, <1>2, <1>4, <2>6, <2>7 DEF OpenNodes
<1> QED BY <1>3, <1>4

\* The invariant, with what a load with a SAX callback keeps to.
OpenNow == OpenAfter(read, Len(read))

Promise ==
  setting.sax /\ Fitting(read) /\ OneRoot(read) =>
    /\ Loading => Standing(Now, OpenNow, Virgin(read))
    /\ Ended /\ OpenNow = << >> => loader.result = "loaded" /\ live = loader.retained

\* A piece that fits leads from s to t.
Stands(s, p, t) ==
  LET w == Virgin(Append(read, p)) IN
  setting.sax /\ Standing(s, OpenNow, Virgin(read)) /\ FollowsOn(OpenNow, Virgin(read), p, w)
    => Standing(t, Opened(OpenNow, p), w)

LEMMA PieceStands ==
  ASSUME LInv, Promise, Loading, NEW p, NEW t, Stepped(p, t), LInv', Stands(Now, p, t)
  PROVE  Promise'
<1>1. /\ live' = t.live /\ link' = t.link /\ ref_count' = t.ref_count /\ what' = t.what /\ loader' = t.l
      /\ setting' = setting /\ read' = Append(read, p) /\ read \in Seq(Piece) /\ p \in Piece
  BY DEF Stepped, Become, Read, LInv
<1> DEFINE g == Append(read, p)
<1>2. read' = g
  BY <1>1
<1> HIDE DEF g
<1>3. Fitting(read)' <=> Fitting(g)
  BY <1>1, <1>2 DEF Fitting, Fits
<1>4. OneRoot(read)' <=> OneRoot(g)
  BY <1>2 DEF OneRoot, Outer
<1>5. OpenNow' = OpenAfter(g, Len(g))
  BY <1>2 DEF OpenNow
<1>6. Virgin(read)' = Virgin(g)
  BY <1>2 DEF Virgin, Outer
<1>7. SUFFICES ASSUME setting.sax, Fitting(g), OneRoot(g)
               PROVE  /\ Loading' /\ Standing(Now, OpenNow, Virgin(read))'
  BY <1>1, <1>3, <1>4 DEF Promise, Ended
<1>8. /\ Fitting(read) /\ OneRoot(read) /\ OpenAfter(g, Len(g)) = Opened(OpenNow, p)
      /\ FollowsOn(OpenNow, Virgin(read), p, Virgin(g))
  BY <1>1, <1>7, FileGoesOn DEF g, OpenNow
<1>9. Standing(t, OpenAfter(g, Len(g)), Virgin(g))
  BY <1>7, <1>8 DEF Promise, Stands, g
<1>10. Now'.live = t.live /\ Now'.link = t.link /\ Now'.what = t.what /\ Now'.l = t.l
  BY <1>1 DEF Now
<1>11. Standing(Now', OpenAfter(g, Len(g)), Virgin(g))
  BY <1>9, <1>10, SameStands
<1>12. t.l.result = "loading"
  BY <1>9 DEF Standing
<1> QED BY <1>1, <1>5, <1>6, <1>11, <1>12 DEF Loading

LEMMA TagStands ==
  ASSUME LInv, Loading, Len(read) < MaxPieces, NEW keep \in BOOLEAN, NEW p, NEW after,
         NEW m, m = BeforeTag(Now, keep),
         Steady(m, setting) /\ Roomy(m, Len(read)) => Stands(m, p, after),
         NEW t, t = IF m.l.result = "loading" THEN after ELSE m
  PROVE  Stands(Now, p, t)
<1> DEFINE o == OpenNow
           v == Virgin(read)
           w == Virgin(Append(read, p))
           i == Len(read)
<1>1. SUFFICES ASSUME setting.sax, Standing(Now, o, v), FollowsOn(o, v, p, w)
               PROVE  Standing(t, Opened(o, p), w)
  BY DEF Stands
<1>2. Steady(Now, setting) /\ Roomy(Now, i) /\ i \in Nat /\ i < MaxPieces
  BY WhileLoading
<1>3. v \in BOOLEAN
  BY DEF Virgin
<1>4. Steady(m, setting) /\ Roomy(m, i) => Stands(m, p, after)
  OBVIOUS
<1>5. Standing(m, o, v) /\ Steady(m, setting) /\ Roomy(m, i)
  <2> HIDE DEF o, v, i
  <2> QED BY <1>1, <1>2, <1>3, BeforeTagStands
<1>6. Stands(m, p, after)
  BY <1>4, <1>5
<1>7. t = after
  BY <1>5 DEF Standing
<1> QED BY <1>1, <1>5, <1>6, <1>7 DEF Stands

LEMMA PromiseStep == LInv /\ Promise /\ FileNext => Promise'
<1> SUFFICES ASSUME LInv, Promise, FileNext PROVE Promise'
  OBVIOUS
<1>0. Loading
  BY Zenon DEF FileNext, ReadChar, ReadBadEntity, ReadEOF, ReadSpace, ReadBadTag, ReadMarkup, ReadClose, ReadTag, Read
<1> DEFINE i == Len(read)
           o == OpenNow
           v == Virgin(read)
<1>1. Steady(Now, setting) /\ Roomy(Now, i) /\ i \in Nat /\ Caller(setting) /\ MaxPieces \in Nat
  BY <1>0, WhileLoading
<1>p. LInv'
  BY LoadStep
<1> HIDE DEF o, v
<1>s. ASSUME NEW s, NEW p, NEW t,
             ASSUME NEW w, setting.sax, Standing(s, o, v), FollowsOn(o, v, p, w) PROVE Standing(t, Opened(o, p), w)
      PROVE  Stands(s, p, t)
  <2> DEFINE w == Virgin(Append(read, p))
  <2>1. SUFFICES ASSUME setting.sax, Standing(s, o, v), FollowsOn(o, v, p, w)
                 PROVE  Standing(t, Opened(o, p), w)
    BY DEF Stands, o, v
  <2> HIDE DEF w
  <2> QED BY <1>s, <2>1
<1>2. CASE ReadChar
  <2>1. PICK c \in Chars : Read(Char(c)) /\ Become([Now EXCEPT !.l.buffer = Append(@, c)])
    BY <1>2 DEF ReadChar, Chars
  <2> DEFINE t == [Now EXCEPT !.l.buffer = Append(@, c)]
             p == Char(c)
  <2>2. p \in Piece /\ p.k = "char"
    BY DEF Piece, Char
  <2>3. Stepped(p, t)
    BY <2>1, <2>2 DEF Stepped
  <2> HIDE DEF p
  <2>4. ASSUME NEW w, setting.sax, Standing(Now, o, v), FollowsOn(o, v, p, w) PROVE Standing(t, Opened(o, p), w)
    BY <1>1, <2>2, <2>4, CharacterStands
  <2> HIDE DEF t
  <2>5. Stands(Now, p, t)
    BY <1>s, <2>4
  <2> QED BY <1>0, <1>p, <2>3, <2>5, PieceStands
<1>3. CASE ReadBadEntity
  <2> DEFINE t == Failed(Now)
  <2>1. BadEntity \in Piece
    BY DEF Piece
  <2>2. Stepped(BadEntity, t)
    BY <1>3, <2>1 DEF ReadBadEntity, Stepped
  <2>3. ASSUME NEW w PROVE ~FollowsOn(o, v, BadEntity, w)
    BY DEF FollowsOn, Fits, BadEntity
  <2> HIDE DEF t
  <2>4. Stands(Now, BadEntity, t)
    BY <1>s, <2>3
  <2> QED BY <1>0, <1>p, <2>2, <2>4, PieceStands
<1>4. CASE ReadEOF
  <2> DEFINE t == Finished(Now)
  <2>1. Become(t) /\ read' = read
    BY <1>4 DEF ReadEOF
  <2>2. ASSUME setting.sax, Standing(Now, << >>, v) PROVE t.l.result = "loaded" /\ t.live = t.l.retained
    BY <1>1, <2>2, FinishedStands
  <2>3. t.l.result # "loading"
    <3>1. Base(Now, setting) /\ Reached(Now, setting, {})
      BY <1>1 DEF Steady
    <3>2. Done(t, setting, {}) /\ (t.l.result = "failed" \/ Stays(Now, t))
      BY <3>1, FinishedIs
    <3> QED BY <3>2 DEF Done
  <2> HIDE DEF t
  <2>4. live' = t.live /\ loader' = t.l /\ setting' = setting
    BY <2>1 DEF Become
  <2>5. (Fitting(read)' <=> Fitting(read)) /\ (OneRoot(read)' <=> OneRoot(read)) /\ OpenNow' = OpenNow
    BY <2>1, <2>4 DEF Fitting, Fits, OneRoot, Outer, OpenNow
  <2>6. SUFFICES ASSUME setting.sax, Fitting(read), OneRoot(read)
                 PROVE  ~Loading' /\ (o = << >> => t.l.result = "loaded" /\ t.live = t.l.retained)
    BY <2>4, <2>5 DEF Promise, o
  <2>7. ~Loading'
    BY <2>3, <2>4 DEF Loading
  <2>8. Standing(Now, o, v)
    BY <1>0, <2>6 DEF Promise, o, v
  <2> QED BY <2>2, <2>6, <2>7, <2>8
<1>5. ASSUME NEW keep \in BOOLEAN,
             ReadSpace(keep) \/ ReadBadTag(keep) \/ ReadMarkup(keep) \/ ReadClose(keep) \/ ReadTag(keep)
      PROVE  Promise'
  <2> DEFINE m == BeforeTag(Now, keep)
  <2>0. Len(read) < MaxPieces
    BY <1>5, Zenon DEF ReadSpace, ReadBadTag, ReadMarkup, ReadClose, ReadTag, Read
  <2>t. ASSUME NEW p \in Piece, NEW after, Read(p), AtTag(m, after),
               ASSUME Steady(m, setting), Roomy(m, i), NEW w, setting.sax, Standing(m, o, v), FollowsOn(o, v, p, w)
               PROVE  Standing(after, Opened(o, p), w)
        PROVE  Promise'
    <3> DEFINE t == IF m.l.result = "loading" THEN after ELSE m
    <3>1. Stepped(p, t)
      BY <2>t DEF Stepped, AtTag
    <3>2. ASSUME Steady(m, setting) /\ Roomy(m, i) PROVE Stands(m, p, after)
      <4> HIDE DEF m
      <4>1. ASSUME NEW w, setting.sax, Standing(m, o, v), FollowsOn(o, v, p, w)
            PROVE  Standing(after, Opened(o, p), w)
        BY <2>t, <3>2, <4>1
      <4> QED BY <1>s, <4>1
    <3>3. m = BeforeTag(Now, keep) /\ t = IF m.l.result = "loading" THEN after ELSE m
      OBVIOUS
    <3> HIDE DEF m, t
    <3>4. Stands(Now, p, t)
      BY <1>0, <2>0, <3>2, <3>3, TagStands
    <3> QED BY <1>0, <1>p, <3>1, <3>4, PieceStands
  <2> HIDE DEF m
  <2>1. CASE ReadSpace(keep)
    <3> DEFINE t == AtSpace(Now, keep)
               p == Space
    <3>1. p \in Piece /\ p.k = "space"
      BY DEF Piece, Space
    <3>2. Stepped(p, t)
      BY <2>1, <3>1 DEF ReadSpace, Stepped
    <3> HIDE DEF p
    <3>3. ASSUME NEW w, setting.sax, Standing(Now, o, v), FollowsOn(o, v, p, w) PROVE Standing(t, Opened(o, p), w)
      BY <1>1, <2>0, <3>1, <3>3, SpaceStands
    <3> HIDE DEF t
    <3>4. Stands(Now, p, t)
      BY <1>s, <3>3
    <3> QED BY <1>0, <1>p, <3>2, <3>4, PieceStands
  <2>2. CASE ReadBadTag(keep)
    <3>1. BadTag \in Piece
      BY DEF Piece
    <3>2. ASSUME NEW w PROVE ~FollowsOn(o, v, BadTag, w)
      BY DEF FollowsOn, Fits, BadTag
    <3>3. Read(BadTag) /\ AtTag(m, Failed(m))
      BY <2>2 DEF ReadBadTag, m
    <3> QED BY <2>t, <3>1, <3>2, <3>3
  <2>3. CASE ReadMarkup(keep)
    <3>1. PICK k \in Markup :
            /\ Read(MarkupTag(k))
            /\ AtTag(m, IF k \in {"!--", "![CDATA["} THEN Comment(m, k, keep) ELSE Directive(m, k, keep))
      BY <2>3, Zenon DEF ReadMarkup, m
    <3> DEFINE after == IF k \in {"!--", "![CDATA["} THEN Comment(m, k, keep) ELSE Directive(m, k, keep)
               p == MarkupTag(k)
    <3>2. p \in Piece /\ p.k = "markup" /\ p.n = k
      BY DEF Piece, MarkupTag
    <3>3. Read(p) /\ AtTag(m, after)
      BY <3>1
    <3> HIDE DEF p
    <3>4. ASSUME Steady(m, setting), Roomy(m, i), NEW w, setting.sax, Standing(m, o, v), FollowsOn(o, v, p, w)
          PROVE  Standing(after, Opened(o, p), w)
      <4>1. CASE k \in {"!--", "![CDATA["}
        <5>1. after = Comment(m, p.n, keep) /\ p.n \in {"!--", "![CDATA["}
          BY <3>2, <4>1
        <5> HIDE DEF after
        <5> QED BY <1>1, <2>0, <3>2, <3>4, <5>1, CommentStands
      <4>2. CASE k \notin {"!--", "![CDATA["}
        <5>1. after = Directive(m, p.n, keep) /\ p.n \in Markup
          BY <3>2, <4>2
        <5> HIDE DEF after
        <5> QED BY <1>1, <2>0, <3>2, <3>4, <5>1, DirectiveStands
      <4> QED BY <4>1, <4>2
    <3> HIDE DEF after
    <3> QED BY <2>t, <3>2, <3>3, <3>4
  <2>4. CASE ReadClose(keep)
    <3>1. PICK n \in Name : Read(CloseTag(n)) /\ AtTag(m, Close(m, n))
      BY <2>4, Zenon DEF ReadClose, m
    <3> DEFINE after == Close(m, n)
               p == CloseTag(n)
    <3>2. p \in Piece /\ p.k = "close" /\ p.n = n
      BY DEF Piece, CloseTag
    <3>3. Read(p) /\ AtTag(m, after)
      BY <3>1
    <3> HIDE DEF p
    <3>4. after = Close(m, p.n) /\ p.n \in Name
      BY <3>2
    <3> HIDE DEF after
    <3>5. ASSUME Steady(m, setting), Roomy(m, i), NEW w, setting.sax, Standing(m, o, v), FollowsOn(o, v, p, w)
          PROVE  Standing(after, Opened(o, p), w)
      BY <1>1, <3>2, <3>4, <3>5, CloseStands
    <3> QED BY <2>t, <3>2, <3>3, <3>5
  <2>5. CASE ReadTag(keep)
    <3>1. PICK p \in Tags : Read(p) /\ AtTag(m, Open(m, p, keep))
      BY <2>5, Zenon DEF ReadTag, m
    <3> DEFINE after == Open(m, p, keep)
    <3>2. p \in Piece
      BY DEF Piece
    <3>3. ASSUME Steady(m, setting), Roomy(m, i), NEW w, setting.sax, Standing(m, o, v), FollowsOn(o, v, p, w)
          PROVE  Standing(after, Opened(o, p), w)
      BY <1>1, <2>0, <3>3, OpenStands
    <3>4. Read(p) /\ AtTag(m, after)
      BY <3>1
    <3> HIDE DEF after
    <3> QED BY <2>t, <3>2, <3>3, <3>4
  <2> QED BY <1>5, <2>1, <2>2, <2>3, <2>4, <2>5
<1>6. CASE \E keep \in IF setting.sax THEN BOOLEAN ELSE {FALSE} :
             ReadSpace(keep) \/ ReadBadTag(keep) \/ ReadMarkup(keep) \/ ReadClose(keep) \/ ReadTag(keep)
  <2>1. PICK keep \in BOOLEAN :
          ReadSpace(keep) \/ ReadBadTag(keep) \/ ReadMarkup(keep) \/ ReadClose(keep) \/ ReadTag(keep)
    BY <1>6
  <2> QED BY <1>5, <2>1
<1> QED BY <1>2, <1>3, <1>4, <1>6, Zenon DEF FileNext

LEMMA PromiseFirst == FileInit => Promise
<1> SUFFICES ASSUME FileInit, setting.sax PROVE Promise
  BY DEF Promise
<1>1. /\ setting \in Settings /\ read = << >> /\ loader.parent = setting.top /\ loader.first = NULL
      /\ loader.type = "text" /\ loader.buffer = << >> /\ loader.result = "loading"
  BY DEF FileInit
<1>2. setting.top = NULL
  BY <1>1, SettingsAre DEF Caller
<1>3. Len(read) = 0 /\ OpenNow = << >> /\ Virgin(read) \in BOOLEAN
  <2>1. Len(read) = 0
    BY <1>1
  <2> QED BY <2>1, OpenAfterNone DEF OpenNow, Virgin
<1>4. Now.l = loader
  BY DEF Now
<1> DEFINE k == [j \in {0} |-> NULL]
           o == << >>
<1>5. k[0] = NULL /\ Len(o) = 0 /\ o \in Seq(Name) /\ \A j \in 1 .. Len(o) : FALSE
  BY EmptySeq
<1> HIDE DEF k
<1>6. Path(Now, o, k)
  BY <1>1, <1>2, <1>4, <1>5 DEF Path
<1>7. Standing(Now, o, Virgin(read))
  BY <1>1, <1>4, <1>6 DEF Standing, SecondRoot
<1> QED BY <1>1, <1>3, <1>7 DEF Promise, Ended, Loading

\* A load with a SAX callback succeeds and leaves nothing that the callback has not
\* retained, whatever the file, as long as it is well-formed and has no more than
\* two pieces outside its root: every element that is opened goes when it is
\* closed, every value, comment and directive at once, and the names on the way
\* to parent are those of the elements that are open (mxml-file.c:445,
\* 1413-2095).
THEOREM LoadKeepsNothingElse == FileSpec => []NothingElseKept
<1>1. FileInit => Promise
  BY PromiseFirst
<1>2. LInv /\ Promise /\ [FileNext]_vars => Promise'
  <2>1. LInv /\ Promise /\ FileNext => Promise'
    BY PromiseStep
  <2>2. Promise /\ UNCHANGED vars => Promise'
    <3> SUFFICES ASSUME Promise, UNCHANGED vars PROVE Promise'
      OBVIOUS
    <3>1. /\ live' = live /\ link' = link /\ ref_count' = ref_count /\ what' = what /\ loader' = loader
          /\ setting' = setting /\ read' = read
      BY DEF vars, tree
    <3>2. Now' = Now /\ (Loading' <=> Loading)
      BY <3>1 DEF Now, Loading
    <3>3. (Fitting(read)' <=> Fitting(read)) /\ (OneRoot(read)' <=> OneRoot(read)) /\ OpenNow' = OpenNow
      BY <3>1 DEF Fitting, Fits, OneRoot, Outer, OpenNow
    <3>4. Virgin(read)' = Virgin(read)
      BY <3>1 DEF Virgin, Outer
    <3>5. Standing(Now, OpenNow, Virgin(read)) => Standing(Now, OpenNow, Virgin(read))'
      BY <3>2, <3>3, <3>4 DEF Standing, Path, SecondRoot
    <3> QED BY <3>1, <3>2, <3>3, <3>5 DEF Promise, Ended
  <2> QED BY <2>1, <2>2
<1>3. LInv /\ Promise => NothingElseKept
  <2> SUFFICES ASSUME LInv, Promise, Ended, setting.sax, WellFormed(read), Cardinality(Outer(read)) <= 2
               PROVE  loader.result = "loaded" /\ live \subseteq loader.retained
    BY DEF NothingElseKept
  <2>1. read \in Seq(Piece) /\ setting.top = NULL
    BY SettingsAre DEF LInv, Caller
  <2>2. Fitting(read) /\ OpenNow = << >> /\ HasOneRoot(read)
    BY <2>1 DEF WellFormed, Fitting, OpenNow
  <2>3. OneRoot(read)
    BY <2>1, <2>2, OneRootOfTwo
  <2> QED BY <2>2, <2>3 DEF Promise
<1> QED BY <1>1, <1>2, <1>3, LoadInvariance, PTL DEF FileSpec
==============================================================================
