------------------------------- MODULE XmlIndex -------------------------------
(***************************************************************************)
(* Attributes of the XML library's elements (mxml-attr.c) and the indexes  *)
(* a client makes of a tree (mxml-index.c). The elements of the tree are   *)
(* numbered in the order mxmlWalkNext meets them, the top is the first;    *)
(* how that order comes about is XmlTree's matter. Names and values are    *)
(* numbers in the order of strcmp; 0 is a null pointer.                    *)
(***************************************************************************)
EXTENDS Integers, Sequences, SequencesExt, FiniteSets

CONSTANTS Elements,    \* 1 .. n
          Names,       \* of elements
          AttrNames,
          Values,      \* of attributes
          Documents,   \* bound: the names and attributes of the elements at the start
          MaxChanges   \* bound: the changes of elements by the client

VARIABLES
  name,     \* of every element
  attrs,    \* of every element: the array of its attributes, pairs of a name and a value
  given,    \* history: of every element, the value given last to each attribute, or 0
  ind,      \* the index: its attribute, its nodes, how many of them were returned
  asked,    \* history: what was searched since the last reset
  got,      \* history: the nodes returned since then
  ended,    \* history: then came a null pointer
  changes,  \* of elements, since the start
  stale,    \* history: an element changed after the index was made
  crashed

vars == <<name, attrs, given, ind, asked, got, ended, changes, stale, crashed>>
search == <<asked, got, ended>>

NoIndex == [attr |-> 0, nodes |-> <<>>, cur |-> -1]
Crash   == 1000    \* strcmp's result for a null pointer

Query == [element : Names \cup {0}, value : Values \cup {0}]

------------------------------------------------------------------------------
(* Attributes.                                                             *)

Places(e, a) == {i \in DOMAIN attrs[e] : attrs[e][i][1] = a}

mxmlElementGetAttr(e, a) == IF Places(e, a) = {} THEN 0 ELSE attrs[e][Min(Places(e, a))][2]

\* A mutant: the array gets shorter, but nothing moves.
Shorter(e, a) == IF Places(e, a) = {} THEN attrs[e] ELSE SubSeq(attrs[e], 1, Len(attrs[e]) - 1)

Without(e, a) == IF Places(e, a) = {} THEN attrs[e] ELSE RemoveAt(attrs[e], Min(Places(e, a)))

mxml_set_attr(e, a, v) ==
  IF Places(e, a) = {} THEN Append(attrs[e], <<a, v>>)
  ELSE [attrs[e] EXCEPT ![Min(Places(e, a))] = <<a, v>>]

Change ==
  /\ ~crashed
  /\ changes < MaxChanges
  /\ changes' = changes + 1
  /\ stale' = (ind # NoIndex)
  /\ UNCHANGED <<ind, search, crashed>>

mxmlElementSetAttr(e, a, v) ==
  /\ Change
  /\ attrs' = [attrs EXCEPT ![e] = mxml_set_attr(e, a, v)]
  /\ given' = [given EXCEPT ![e][a] = v]
  /\ UNCHANGED name

mxmlElementDeleteAttr(e, a) ==
  /\ Change
  /\ attrs' = [attrs EXCEPT ![e] = Without(e, a)]
  /\ given' = [given EXCEPT ![e][a] = 0]
  /\ UNCHANGED name

mxmlSetElement(e, n) ==
  /\ Change
  /\ name' = [name EXCEPT ![e] = n]
  /\ UNCHANGED <<attrs, given>>

------------------------------------------------------------------------------
(* Making an index.                                                        *)

index_compare(a, m, n) ==
  IF name[m] # name[n] THEN name[m] - name[n]
  ELSE IF a # 0 THEN mxmlElementGetAttr(m, a) - mxmlElementGetAttr(n, a)
  ELSE 0

\* The partition of s between left and right: l goes up over what is not
\* above the pivot, r goes down over what is, and the two change places.
RECURSIVE Parted(_, _, _, _, _, _)
Parted(a, s, left, right, l, r) ==
  LET p  == s[left]
      l1 == Min({i \in l .. right : i = right \/ index_compare(a, s[i], p) > 0})
      r1 == Max({i \in left .. r : i = left \/ index_compare(a, s[i], p) <= 0}) IN
  IF l >= r THEN [s |-> s, at |-> r]
  ELSE Parted(a, IF l1 < r1 THEN [s EXCEPT ![l1] = s[r1], ![r1] = s[l1]] ELSE s, left, right, l1, r1)

RECURSIVE index_sort(_, _, _, _)
index_sort(a, s, left, right) ==
  LET p     == Parted(a, s, left, right, left, right)
      m     == p.at
      moved == IF index_compare(a, s[left], p.s[m]) > 0 THEN [p.s EXCEPT ![left] = p.s[m], ![m] = s[left]] ELSE p.s
      lower == IF left < m - 1 THEN index_sort(a, moved, left, m - 1) ELSE moved IN
  IF right > m + 1 THEN index_sort(a, lower, m + 1, right) ELSE lower

\* The top itself is there only in an index of everything.
Indexed(element, a) ==
  SelectSeq([i \in 1 .. Cardinality(Elements) |-> i],
            LAMBDA e : /\ e # 1 \/ (element = 0 /\ a = 0)
                       /\ element \in {0, name[e]}
                       /\ a = 0 \/ mxmlElementGetAttr(e, a) # 0)

mxmlIndexNew(element, a) ==
  /\ ~crashed
  /\ ind = NoIndex
  /\ LET nodes == Indexed(element, a) IN
     ind' = [attr |-> a, cur |-> 0,
             nodes |-> IF Len(nodes) > 1 THEN index_sort(a, nodes, 1, Len(nodes)) ELSE nodes]
  /\ asked' = {} /\ got' = <<>> /\ ended' = FALSE
  /\ stale' = FALSE
  /\ UNCHANGED <<name, attrs, given, changes, crashed>>

mxmlIndexDelete ==
  /\ ind # NoIndex
  /\ ~crashed
  /\ ind' = NoIndex
  /\ asked' = {} /\ got' = <<>> /\ ended' = FALSE
  /\ stale' = FALSE
  /\ UNCHANGED <<name, attrs, given, changes, crashed>>

------------------------------------------------------------------------------
(* Searching it.                                                           *)

index_find(q, n) ==
  IF q.element # 0 /\ q.element # name[n] THEN q.element - name[n]
  ELSE IF q.value = 0 THEN 0
  ELSE IF mxmlElementGetAttr(n, ind.attr) = 0 THEN Crash
  ELSE q.value - mxmlElementGetAttr(n, ind.attr)

\* A mutant: the first match that is met is the one.
AsFound(q, at) == at

\* From a match back to the first of the matches next to it.
RECURSIVE FirstMatch(_, _)
FirstMatch(q, at) ==
  IF at > 1 /\ index_find(q, ind.nodes[at - 1]) = 0 THEN FirstMatch(q, at - 1)
  ELSE IF at > 1 /\ index_find(q, ind.nodes[at - 1]) = Crash THEN -1
  ELSE at

\* The place of the first match between first and last, 0 if there is none,
\* -1 where a null pointer is compared.
RECURSIVE Located(_, _, _)
Located(q, first, last) ==
  LET current == (first + last) \div 2
      diff    == index_find(q, ind.nodes[current])
      near    == {i \in first .. last : index_find(q, ind.nodes[i]) \in {0, Crash}} IN
  IF last - first > 1
  THEN CASE diff = Crash -> -1
         [] diff = 0 -> FirstMatch(q, current)
         [] diff < 0 -> Located(q, first, current)
         [] diff > 0 /\ diff # Crash -> Located(q, current, last)
  ELSE IF near = {} THEN 0
  ELSE IF index_find(q, ind.nodes[Min(near)]) = 0 THEN Min(near) ELSE -1

\* The place of the next answer, 0 or -1.
Next_(q) ==
  IF Len(ind.nodes) = 0 THEN 0
  ELSE IF q.element = 0 /\ q.value = 0 THEN IF ind.cur < Len(ind.nodes) THEN ind.cur + 1 ELSE 0
  ELSE IF ind.cur = 0 THEN Located(q, 1, Len(ind.nodes))
  ELSE IF ind.cur = Len(ind.nodes) THEN 0
  ELSE CASE index_find(q, ind.nodes[ind.cur + 1]) = 0 -> ind.cur + 1
         [] index_find(q, ind.nodes[ind.cur + 1]) = Crash -> -1
         [] OTHER -> 0

\* Without both it is mxmlIndexEnum. The client resets the index before it
\* searches something else.
mxmlIndexFind(q) ==
  LET at == Next_(q) IN
  /\ ind # NoIndex
  /\ ~crashed
  /\ asked \subseteq {q}
  /\ ~(ind.attr = 0 /\ q.value # 0)
  /\ asked' = asked \cup {q}
  /\ crashed' = (at = -1)
  /\ got' = IF at > 0 THEN Append(got, ind.nodes[at]) ELSE got
  /\ ended' = (at = 0)
  /\ ind' = [ind EXCEPT !.cur = IF at > 0 THEN at ELSE Len(ind.nodes)]
  /\ UNCHANGED <<name, attrs, given, changes, stale>>

mxmlIndexReset ==
  /\ ind # NoIndex
  /\ ~crashed
  /\ ind' = [ind EXCEPT !.cur = 0]
  /\ asked' = {} /\ got' = <<>> /\ ended' = FALSE
  /\ UNCHANGED <<name, attrs, given, changes, stale, crashed>>

------------------------------------------------------------------------------

Init ==
  /\ \E d \in Documents : name = d.name /\ given = d.given
  /\ attrs = [e \in Elements |-> SetToSeq({<<a, given[e][a]>> : a \in {b \in AttrNames : given[e][b] # 0}})]
  /\ ind = NoIndex
  /\ asked = {} /\ got = <<>> /\ ended = FALSE
  /\ changes = 0
  /\ stale = FALSE
  /\ crashed = FALSE

Next ==
  \/ \E e \in Elements, a \in AttrNames :
       \/ mxmlElementDeleteAttr(e, a)
       \/ \E v \in Values : mxmlElementSetAttr(e, a, v)
  \/ \E e \in Elements, n \in Names : mxmlSetElement(e, n)
  \/ \E element \in Names \cup {0}, a \in AttrNames \cup {0} : mxmlIndexNew(element, a)
  \/ mxmlIndexDelete
  \/ \E q \in Query : mxmlIndexFind(q)
  \/ mxmlIndexReset

Spec == Init /\ [][Next]_vars

------------------------------------------------------------------------------
(* Properties.                                                             *)

Matches(q, e) == q.element \in {0, name[e]} /\ (q.value = 0 \/ given[e][ind.attr] = q.value)

\* The nodes that match stand next to each other: a value alone says nothing
\* where several names come before it in the order.
Ordered(q) == q.value = 0 \/ q.element # 0 \/ Cardinality({name[n] : n \in ToSet(ind.nodes)}) = 1

\* A search that is repeated until it has no answer has found every node of
\* the index that matches, in an index of a tree that did not change
\* (mxml-index.c:104-284, 585-657: the sort, the binary search, the way back
\* to the first match and the count of what was returned).
FindsEach ==
  \A q \in asked :
    ended /\ ~stale /\ asked = {q} /\ Ordered(q) => ToSet(got) = {n \in ToSet(ind.nodes) : Matches(q, n)}

\* Whatever the client changes meanwhile, an answer has not been given since
\* the reset and does match now (mxml-index.c:104-284, mxml-attr.c:50-141, 243-312).
AnswersMatch ==
  [][\A q \in Query :
       Len(got') = Len(got) + 1 /\ asked' = {q} => Last(got') \notin ToSet(got) /\ Matches(q, Last(got'))]_vars

================================================================================
