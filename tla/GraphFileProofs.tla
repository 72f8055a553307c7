--------------------------- MODULE GraphFileProofs ---------------------------
(***************************************************************************)
(* For any number of programs, graphs and files: pointers and tables stay  *)
(* within what was made; no two vertices, and no two edges, of a process   *)
(* ever have the same id, a read that renames ids included; what is read   *)
(* is what was saved; no graph loses an edge while ids fit in a byte.      *)
(***************************************************************************)
EXTENDS GraphFile, SequenceFacts, FiniteSetTheorems

------------------------------------------------------------------------------
(* The inductive invariant: types.                                         *)

VertexRecord == [id : Nat, attr : Value]
EdgeRecord   == [id : Nat, start : Nat, end : Nat, attr : Value]
GraphRecord  == [vertices : SUBSET Nat, edges : SUBSET Nat]

\* The elements of a file; readGraph gives them ids with a sign.
VertexElement == [id : Int, attr : Value]
EdgeElement   == [id : Int, start : Int, end : Int, attr : Value]
Tree == [vertices : Seq(VertexElement), edges : Seq(EdgeElement), saves : Nat]

State == {"program", "crashed", "undefined", "rename vertices", "rename edges", "negate",
          "load vertices", "load edges", "return"}

\* An edge has both its ends, among n vertices, or none.
Ends(v1, v2, n) == v1 \in 0 .. n /\ v2 \in 0 .. n /\ (v1 = NULL <=> v2 = NULL)

\* What the process has made, and what its pointers and tables refer to.
MadeOK(vs, es, gs, asked) ==
  /\ vs \in Seq(VertexRecord) /\ es \in Seq(EdgeRecord)
  /\ \A i \in 1 .. Len(es) : Ends(es[i].start, es[i].end, Len(vs))
  /\ gs \in Seq(GraphRecord) /\ asked \in Seq(SUBSET Nat)
  /\ Len(gs) > 0 /\ Len(asked) = Len(gs)
  /\ \A g \in 1 .. Len(gs) :
       /\ gs[g].vertices \subseteq 1 .. Len(vs)
       /\ gs[g].edges \subseteq asked[g] /\ asked[g] \subseteq 1 .. Len(es)

Types ==
  /\ vid \in Nat /\ eid \in Nat /\ pos \in Nat /\ pc \in State
  /\ vid > 0 /\ eid > 0 /\ pos > 0
  /\ MadeOK(vertex, edge, graph, appended)
  /\ file \in Tree /\ tree \in Tree
  /\ sv \in 0 .. Len(vertex) /\ ev \in 0 .. Len(vertex)

------------------------------------------------------------------------------
(* The inductive invariant: ids.                                           *)

\* The ids of what was made are distinct and all below the counter.
Distinct(made, next) ==
  /\ \A i \in 1 .. Len(made) : made[i].id > 0 /\ made[i].id < next
  /\ \A i, j \in 1 .. Len(made) : made[i].id = made[j].id => i = j

\* The ids of the elements A of a tree, too: no object has one of them yet.
Promised(id, A, made, next) ==
  /\ \A i \in A : id[i] \in Nat /\ id[i] > 0 /\ id[i] < next
  /\ \A i, j \in A : id[i] = id[j] => i = j
  /\ \A i \in A : \A j \in 1 .. Len(made) : made[j].id # id[i]

Ids(s)    == [i \in 1 .. Len(s) |-> s[i].id]
Signed(s) == [i \in 1 .. Len(s) |-> -s[i].id]

\* The ids that readGraph has taken from a counter and that no object has yet:
\* of the first elements, then of all, then of those that are not loaded.
VertexIds ==
  /\ Distinct(vertex, vid)
  /\ pc = "rename vertices" =>
       Promised(Signed(tree.vertices), {i \in 1 .. Len(tree.vertices) : i < pos}, vertex, vid)
  /\ pc \in {"rename edges", "negate"} =>
       Promised(Signed(tree.vertices), 1 .. Len(tree.vertices), vertex, vid)
  /\ pc = "load vertices" =>
       Promised(Ids(tree.vertices), {i \in 1 .. Len(tree.vertices) : i >= pos}, vertex, vid)

EdgeIds ==
  /\ Distinct(edge, eid)
  /\ pc = "rename edges" =>
       Promised(Signed(tree.edges), {i \in 1 .. Len(tree.edges) : i < pos}, edge, eid)
  /\ pc = "negate" =>
       Promised(Signed(tree.edges), 1 .. Len(tree.edges), edge, eid)
  /\ pc = "load vertices" =>
       Promised(Ids(tree.edges), 1 .. Len(tree.edges), edge, eid)
  /\ pc = "load edges" =>
       Promised(Ids(tree.edges), {i \in 1 .. Len(tree.edges) : i >= pos}, edge, eid)

IInv == Types /\ VertexIds /\ EdgeIds

------------------------------------------------------------------------------
(* Facts about what the actions are built from.                            *)

\* An object made with the counter's id, the counter advanced.
LEMMA DistinctNew ==
  ASSUME NEW R, NEW made \in Seq(R), NEW r \in R, NEW next \in Nat,
         \A q \in R : q.id \in Nat,
         next > 0, r.id = next, Distinct(made, next)
  PROVE  Distinct(Append(made, r), next + 1)
<1>1. /\ Len(Append(made, r)) = Len(made) + 1
      /\ \A i \in 1 .. Len(made) : Append(made, r)[i] = made[i]
      /\ Append(made, r)[Len(made) + 1] = r
  OBVIOUS
<1>2. \A i \in 1 .. Len(made) : made[i].id \in Nat /\ made[i].id < next /\ made[i].id > 0
  BY DEF Distinct
<1>3. \A i \in 1 .. Len(Append(made, r)) : i \in 1 .. Len(made) \/ i = Len(made) + 1
  BY <1>1
<1>4. \A i, j \in 1 .. Len(made) : made[i].id = made[j].id => i = j
  BY DEF Distinct
<1> DEFINE new == Append(made, r)
<1>5. \A i \in 1 .. Len(new) : new[i].id > 0 /\ new[i].id < next + 1
  BY <1>1, <1>2, <1>3
<1>6. ASSUME NEW i \in 1 .. Len(new), NEW j \in 1 .. Len(new), new[i].id = new[j].id
      PROVE  i = j
  BY <1>1, <1>2, <1>3, <1>4, <1>6
<1> QED BY <1>5, <1>6 DEF Distinct

\* An object of the tree, made with the id promised to it; the others keep theirs.
LEMMA DistinctPromised ==
  ASSUME NEW R, NEW made \in Seq(R), NEW r \in R, NEW next \in Nat,
         \A q \in R : q.id \in Nat,
         NEW id, NEW A, NEW p \in A,
         Distinct(made, next), Promised(id, A, made, next), r.id = id[p]
  PROVE  /\ Distinct(Append(made, r), next + 1)
         /\ Promised(id, A \ {p}, Append(made, r), next + 1)
<1>1. /\ Len(Append(made, r)) = Len(made) + 1
      /\ \A i \in 1 .. Len(made) : Append(made, r)[i] = made[i]
      /\ Append(made, r)[Len(made) + 1] = r
  OBVIOUS
<1>2. \A i \in 1 .. Len(made) : made[i].id \in Nat /\ made[i].id < next /\ made[i].id > 0
  BY DEF Distinct
<1>3. \A i \in 1 .. Len(Append(made, r)) : i \in 1 .. Len(made) \/ i = Len(made) + 1
  BY <1>1
<1>4. \A i, j \in 1 .. Len(made) : made[i].id = made[j].id => i = j
  BY DEF Distinct
<1>5. r.id \in Nat /\ r.id > 0 /\ r.id < next /\ \A i \in 1 .. Len(made) : made[i].id # r.id
  BY DEF Promised
<1> DEFINE new == Append(made, r)
<1>6. \A i \in 1 .. Len(new) : new[i].id > 0 /\ new[i].id < next + 1
  BY <1>1, <1>2, <1>3, <1>5
<1>7. ASSUME NEW i \in 1 .. Len(new), NEW j \in 1 .. Len(new), new[i].id = new[j].id
      PROVE  i = j
  BY <1>1, <1>3, <1>4, <1>5, <1>7
<1>8. ASSUME NEW i \in A \ {p}, NEW j \in 1 .. Len(new) PROVE new[j].id # id[i]
  <2>1. id[i] # id[p] /\ \A k \in 1 .. Len(made) : made[k].id # id[i]
    BY <1>8 DEF Promised
  <2> QED BY <2>1, <1>1, <1>3
<1>9. \A i \in A \ {p} : id[i] \in Nat /\ id[i] > 0 /\ id[i] < next + 1
  BY DEF Promised
<1>10. \A i, j \in A \ {p} : id[i] = id[j] => i = j
  BY DEF Promised
<1> HIDE DEF new
<1> QED BY <1>6, <1>7, <1>8, <1>9, <1>10 DEF Distinct, Promised, new

\* Another element gets the counter's id, the counter advanced.
LEMMA PromiseNew ==
  ASSUME NEW R, NEW made \in Seq(R), \A q \in R : q.id \in Nat, NEW next \in Nat,
         NEW id, NEW new, NEW A, NEW p,
         next > 0, new[p] = next, \A i \in A : new[i] = id[i],
         Distinct(made, next), Promised(id, A, made, next)
  PROVE  Distinct(made, next + 1) /\ Promised(new, A \cup {p}, made, next + 1)
<1>1. \A i \in 1 .. Len(made) : made[i].id \in Nat /\ made[i].id < next /\ made[i].id > 0
  BY DEF Distinct
<1>2. Distinct(made, next + 1)
  BY <1>1 DEF Distinct
<1>3. \A i \in A \cup {p} : new[i] \in Nat /\ new[i] > 0 /\ new[i] < next + 1
  BY DEF Promised
<1>4. \A i, j \in A \cup {p} : new[i] = new[j] => i = j
  <2>1. \A i \in A : new[i] \in Nat /\ new[i] < next
    BY DEF Promised
  <2> QED BY <2>1 DEF Promised
<1>5. \A i \in A \cup {p} : \A j \in 1 .. Len(made) : made[j].id # new[i]
  BY <1>1 DEF Promised
<1> QED BY <1>2, <1>3, <1>4, <1>5 DEF Promised

\* A promise to fewer elements, with the same ids.
LEMMA PromiseLess ==
  ASSUME NEW id, NEW new, NEW A, NEW B, B \subseteq A, \A i \in B : new[i] = id[i],
         NEW made, NEW next, Promised(id, A, made, next)
  PROVE  Promised(new, B, made, next)
BY DEF Promised

\* A new counter value changes nothing for what was made before.
LEMMA MadeOKMore ==
  ASSUME NEW vs, NEW es, NEW gs, NEW asked, MadeOK(vs, es, gs, asked)
  PROVE  /\ \A r \in VertexRecord : MadeOK(Append(vs, r), es, gs, asked)
         /\ \A r \in EdgeRecord : Ends(r.start, r.end, Len(vs))
              => MadeOK(vs, Append(es, r), gs, asked)
<1>1. ASSUME NEW r \in VertexRecord PROVE MadeOK(Append(vs, r), es, gs, asked)
  <2>1. Append(vs, r) \in Seq(VertexRecord) /\ Len(Append(vs, r)) = Len(vs) + 1 /\ Len(vs) \in Nat
    BY DEF MadeOK
  <2> QED BY <2>1 DEF MadeOK, Ends
<1>2. ASSUME NEW r \in EdgeRecord, Ends(r.start, r.end, Len(vs))
      PROVE  MadeOK(vs, Append(es, r), gs, asked)
  <2>1. /\ Append(es, r) \in Seq(EdgeRecord) /\ Len(Append(es, r)) = Len(es) + 1 /\ Len(es) \in Nat
        /\ \A i \in 1 .. Len(es) : Append(es, r)[i] = es[i]
        /\ Append(es, r)[Len(es) + 1] = r
    BY DEF MadeOK
  <2>2. \A i \in 1 .. Len(Append(es, r)) :
          Ends(Append(es, r)[i].start, Append(es, r)[i].end, Len(vs))
    BY <1>2, <2>1 DEF MadeOK
  <2> QED BY <2>1, <2>2 DEF MadeOK
<1> QED BY <1>1, <1>2

\* The tables of one graph change, and which edges it was asked to keep.
LEMMA MadeOKGraph ==
  ASSUME NEW vs, NEW es, NEW gs, NEW asked, MadeOK(vs, es, gs, asked),
         NEW g \in 1 .. Len(gs), NEW G \in GraphRecord, NEW more \in Seq(SUBSET Nat),
         Len(more) = Len(asked), \A h \in 1 .. Len(gs) : h # g => more[h] = asked[h],
         G.vertices \subseteq 1 .. Len(vs), G.edges \subseteq more[g], more[g] \subseteq 1 .. Len(es)
  PROVE  MadeOK(vs, es, [gs EXCEPT ![g] = G], more)
<1> DEFINE new == [gs EXCEPT ![g] = G]
<1>1. new \in Seq(GraphRecord) /\ Len(new) = Len(gs) /\ new[g] = G
      /\ \A h \in 1 .. Len(gs) : h # g => new[h] = gs[h]
  BY DEF MadeOK
<1> HIDE DEF new
<1>2. \A h \in 1 .. Len(new) : /\ new[h].vertices \subseteq 1 .. Len(vs)
                               /\ new[h].edges \subseteq more[h] /\ more[h] \subseteq 1 .. Len(es)
  BY <1>1 DEF MadeOK
<1>3. MadeOK(vs, es, new, more)
  BY <1>1, <1>2 DEF MadeOK
<1> QED BY <1>3 DEF new

\* Appending to a table keeps it a table of objects made.
LEMMA Inserted ==
  ASSUME NEW gr \in GraphRecord, NEW made, NEW x \in Nat
  PROVE  /\ g_insert_v(gr, made, x) \in GraphRecord
         /\ g_insert_v(gr, made, x).vertices \subseteq gr.vertices \cup {x}
         /\ g_insert_v(gr, made, x).edges = gr.edges
         /\ g_insert_e(gr, made, x) \in GraphRecord
         /\ g_insert_e(gr, made, x).edges \subseteq gr.edges \cup {x}
         /\ g_insert_e(gr, made, x).vertices = gr.vertices
<1>1. [gr EXCEPT !.vertices = @ \cup {x}] \in GraphRecord
      /\ [gr EXCEPT !.vertices = @ \cup {x}].vertices = gr.vertices \cup {x}
      /\ [gr EXCEPT !.vertices = @ \cup {x}].edges = gr.edges
  BY DEF GraphRecord
<1>2. [gr EXCEPT !.edges = @ \cup {x}] \in GraphRecord
      /\ [gr EXCEPT !.edges = @ \cup {x}].edges = gr.edges \cup {x}
      /\ [gr EXCEPT !.edges = @ \cup {x}].vertices = gr.vertices
  BY DEF GraphRecord
<1>3. g_insert_v(gr, made, x) \in {gr, [gr EXCEPT !.vertices = @ \cup {x}]}
  BY DEF g_insert_v
<1>4. g_insert_e(gr, made, x) \in {gr, [gr EXCEPT !.edges = @ \cup {x}]}
  BY DEF g_insert_e
<1> QED BY <1>1, <1>2, <1>3, <1>4

\* The program's own actions.
LEMMA NewVertexTypes == Types /\ NewVertex => Types'
<1> SUFFICES ASSUME Types, NewVertex PROVE Types'
  OBVIOUS
<1>1. PICK a \in Attrs : vertex' = Append(vertex, [id |-> vid, attr |-> a])
  BY DEF NewVertex
<1>2. [id |-> vid, attr |-> a] \in VertexRecord
  BY GraphFileAssumption DEF GraphFileAssumption, VertexRecord, Types
<1>3. MadeOK(vertex', edge, graph, appended)
  BY <1>1, <1>2, MadeOKMore DEF Types
<1>4. Len(vertex') = Len(vertex) + 1 /\ Len(vertex) \in Nat
  BY <1>1, <1>2 DEF Types, MadeOK
<1> QED BY <1>3, <1>4 DEF NewVertex, Types, reader

LEMMA NewEdgeTypes == Types /\ NewEdge => Types'
<1> SUFFICES ASSUME Types, NewEdge PROVE Types'
  OBVIOUS
<1>1. PICK a \in Attrs : edge' = Append(edge, [id |-> eid, start |-> NULL, end |-> NULL, attr |-> a])
  BY DEF NewEdge
<1> DEFINE r == [id |-> eid, start |-> NULL, end |-> NULL, attr |-> a]
<1>3. Len(vertex) \in Nat
  BY DEF Types, MadeOK
<1>2. r \in EdgeRecord /\ Ends(r.start, r.end, Len(vertex))
  BY <1>3, GraphFileAssumption DEF GraphFileAssumption, EdgeRecord, Types, NULL, Ends
<1> HIDE DEF r
<1>4. MadeOK(vertex, Append(edge, r), graph, appended)
  BY <1>2, <1>3, MadeOKMore DEF Types
<1>5. edge' = Append(edge, r)
  BY <1>1 DEF r
<1> QED BY <1>4, <1>5 DEF NewEdge, Types, reader

LEMMA DirectTypes == Types /\ Direct => Types'
<1> SUFFICES ASSUME Types, Direct PROVE Types'
  OBVIOUS
<1>1. PICK e \in DOMAIN edge, v1 \in DOMAIN vertex, v2 \in DOMAIN vertex :
        edge' = [edge EXCEPT ![e].start = v1, ![e].end = v2]
  BY DEF Direct, edge_assign_direction
<1>2. /\ edge \in Seq(EdgeRecord) /\ vertex \in Seq(VertexRecord)
      /\ e \in 1 .. Len(edge) /\ v1 \in 1 .. Len(vertex) /\ v2 \in 1 .. Len(vertex)
      /\ Len(vertex) \in Nat /\ edge[e] \in EdgeRecord
  BY DEF Types, MadeOK
<1>3. /\ edge' \in Seq(EdgeRecord) /\ Len(edge') = Len(edge)
      /\ edge'[e].start = v1 /\ edge'[e].end = v2
      /\ \A i \in 1 .. Len(edge) : i # e => edge'[i] = edge[i]
  <2> DEFINE r == [edge[e] EXCEPT !.start = v1, !.end = v2]
  <2>1. r \in EdgeRecord /\ r.start = v1 /\ r.end = v2
    <3> DEFINE x == edge[e]
    <3>1. x \in EdgeRecord /\ v1 \in Nat /\ v2 \in Nat
      BY <1>2
    <3> HIDE DEF x
    <3>2. /\ [x EXCEPT !.start = v1, !.end = v2] \in EdgeRecord
          /\ [x EXCEPT !.start = v1, !.end = v2].start = v1
          /\ [x EXCEPT !.start = v1, !.end = v2].end = v2
      BY <3>1 DEF EdgeRecord
    <3> QED BY <3>2 DEF x
  <2>2. edge' = [edge EXCEPT ![e] = r]
    <3> DEFINE one == [edge EXCEPT ![e] = [edge[e] EXCEPT !.start = v1]]
    <3>1. edge' = [one EXCEPT ![e] = [one[e] EXCEPT !.end = v2]]
      BY <1>1, Zenon
    <3>2. one[e] = [edge[e] EXCEPT !.start = v1]
      BY <1>2
    <3>3. edge' = [one EXCEPT ![e] = [edge[e] EXCEPT !.start = v1, !.end = v2]]
      BY <3>1, <3>2
    <3> QED BY <3>3
  <2> HIDE DEF r
  <2>3. /\ [edge EXCEPT ![e] = r] \in Seq(EdgeRecord) /\ Len([edge EXCEPT ![e] = r]) = Len(edge)
        /\ [edge EXCEPT ![e] = r][e] = r
        /\ \A i \in 1 .. Len(edge) : i # e => [edge EXCEPT ![e] = r][i] = edge[i]
    <3>1. edge \in Seq(EdgeRecord) /\ e \in 1 .. Len(edge) /\ r \in EdgeRecord
      BY <1>2, <2>1
    <3> QED BY <3>1
  <2> QED BY ONLY <2>1, <2>2, <2>3, Zenon
<1>4. \A i \in 1 .. Len(edge') :
        Ends(edge'[i].start, edge'[i].end, Len(vertex))
  <2>1. \A i \in 1 .. Len(edge) : Ends(edge[i].start, edge[i].end, Len(vertex))
    BY DEF Types, MadeOK
  <2>2. Ends(v1, v2, Len(vertex))
    BY <1>2 DEF Ends, NULL
  <2> QED BY <1>3, <2>1, <2>2, Zenon
<1>5. MadeOK(vertex, edge', graph, appended)
  BY <1>3, <1>4 DEF Types, MadeOK
<1> QED BY <1>5 DEF Direct, Types, reader

LEMMA AppendTypes == Types /\ (AppendVertex \/ AppendEdge) => Types'
<1> SUFFICES ASSUME Types, AppendVertex \/ AppendEdge PROVE Types'
  OBVIOUS
<1>1. CASE AppendVertex
  <2>1. PICK g \in DOMAIN graph, v \in DOMAIN vertex :
          graph' = [graph EXCEPT ![g] = g_insert_v(graph[g], vertex, v)]
    BY <1>1 DEF AppendVertex
  <2>2. /\ g \in 1 .. Len(graph) /\ v \in 1 .. Len(vertex) /\ v \in Nat /\ graph[g] \in GraphRecord
        /\ graph[g].vertices \subseteq 1 .. Len(vertex)
        /\ graph[g].edges \subseteq appended[g] /\ appended[g] \subseteq 1 .. Len(edge)
        /\ appended \in Seq(SUBSET Nat)
    BY DEF Types, MadeOK
  <2> DEFINE G == g_insert_v(graph[g], vertex, v)
  <2>a. /\ G \in GraphRecord /\ G.vertices \subseteq graph[g].vertices \cup {v}
        /\ G.edges = graph[g].edges
    BY <2>2, Inserted
  <2> HIDE DEF G
  <2>b. G.vertices \subseteq 1 .. Len(vertex) /\ G.edges \subseteq appended[g]
    BY <2>2, <2>a
  <2>c. MadeOK(vertex, edge, graph, appended) /\ graph' = [graph EXCEPT ![g] = G]
    BY <2>1 DEF Types, G
  <2>3. MadeOK(vertex, edge, graph', appended)
    BY <2>2, <2>a, <2>b, <2>c, MadeOKGraph
  <2> QED BY <1>1, <2>3 DEF AppendVertex, Types, reader
<1>2. CASE AppendEdge
  <2>1. PICK g \in DOMAIN graph, e \in DOMAIN edge :
          /\ graph' = [graph EXCEPT ![g] = g_insert_e(graph[g], edge, e)]
          /\ appended' = [appended EXCEPT ![g] = appended[g] \cup {e}]
    BY <1>2 DEF AppendEdge
  <2>2. /\ g \in 1 .. Len(graph) /\ e \in 1 .. Len(edge) /\ e \in Nat /\ graph[g] \in GraphRecord
        /\ graph[g].vertices \subseteq 1 .. Len(vertex)
        /\ graph[g].edges \subseteq appended[g] /\ appended[g] \subseteq 1 .. Len(edge)
        /\ appended \in Seq(SUBSET Nat) /\ Len(appended) = Len(graph)
    BY DEF Types, MadeOK
  <2>3. /\ appended' \in Seq(SUBSET Nat) /\ Len(appended') = Len(appended)
        /\ appended'[g] = appended[g] \cup {e}
        /\ \A h \in 1 .. Len(graph) : h # g => appended'[h] = appended[h]
    BY <2>1, <2>2
  <2> DEFINE G == g_insert_e(graph[g], edge, e)
  <2>a. /\ G \in GraphRecord /\ G.edges \subseteq graph[g].edges \cup {e}
        /\ G.vertices = graph[g].vertices
    BY <2>2, Inserted
  <2> HIDE DEF G
  <2>b. /\ G.vertices \subseteq 1 .. Len(vertex) /\ G.edges \subseteq appended'[g]
        /\ appended'[g] \subseteq 1 .. Len(edge)
    BY <2>2, <2>3, <2>a
  <2>c. MadeOK(vertex, edge, graph, appended) /\ graph' = [graph EXCEPT ![g] = G]
    BY <2>1 DEF Types, G
  <2>4. MadeOK(vertex, edge, graph', appended')
    BY <2>2, <2>3, <2>a, <2>b, <2>c, MadeOKGraph
  <2> QED BY <1>2, <2>4 DEF AppendEdge, Types, reader
<1> QED BY <1>1, <1>2

\* An order of a set of objects made is a sequence of them.
LEMMA OrderOfMade ==
  ASSUME NEW n \in Nat, NEW S \in SUBSET (1 .. n), NEW s \in Orders(S)
  PROVE  s \in Seq(S)
<1>1. IsFiniteSet(1 .. n)
  BY FS_Interval
<1>2. IsFiniteSet(S)
  BY <1>1, FS_Subset
<1>3. Cardinality(S) \in Nat
  BY <1>2, FS_CardinalityType
<1>4. s \in [1 .. Cardinality(S) -> S]
  BY DEF Orders
<1> QED BY <1>3, <1>4

\* A sequence made of another, position by position.
LEMMA MadeByPosition ==
  ASSUME NEW S, NEW s \in Seq(S), NEW T, NEW f \in [DOMAIN s -> T]
  PROVE  f \in Seq(T) /\ Len(f) = Len(s)
<1>1. DOMAIN s = 1 .. Len(s) /\ Len(s) \in Nat
  OBVIOUS
<1> QED BY <1>1

\* An edge, or an element for one, whose ends become a and b.
LEMMA ElementOfEdge ==
  ASSUME NEW x \in EdgeElement, NEW a \in Int, NEW b \in Int
  PROVE  [x EXCEPT !.start = a, !.end = b] \in EdgeElement
BY DEF EdgeElement

LEMMA SaveGraphTypes == Types /\ SaveGraph => Types'
<1> SUFFICES ASSUME Types, SaveGraph PROVE Types'
  OBVIOUS
<1>a. PICK g \in DOMAIN graph :
        /\ \A e \in graph[g].edges : edge[e].start # NULL
        /\ \E vs \in Orders(graph[g].vertices), es \in Orders(graph[g].edges) :
             file' = [vertices |-> [i \in DOMAIN vs |-> vertex[vs[i]]],
                      edges |-> [i \in DOMAIN es |->
                        [edge[es[i]] EXCEPT !.start = vertex[@].id, !.end = vertex[@].id]],
                      saves |-> file.saves + 1]
  BY Zenon DEF SaveGraph
<1>1. PICK vs \in Orders(graph[g].vertices), es \in Orders(graph[g].edges) :
        file' = [vertices |-> [i \in DOMAIN vs |-> vertex[vs[i]]],
                 edges |-> [i \in DOMAIN es |->
                   [edge[es[i]] EXCEPT !.start = vertex[@].id, !.end = vertex[@].id]],
                 saves |-> file.saves + 1]
  BY <1>a, Zenon
<1>2. /\ vertex \in Seq(VertexRecord) /\ edge \in Seq(EdgeRecord) /\ g \in 1 .. Len(graph)
      /\ Len(vertex) \in Nat /\ Len(edge) \in Nat
      /\ graph[g].vertices \in SUBSET (1 .. Len(vertex)) /\ graph[g].edges \in SUBSET (1 .. Len(edge))
  BY DEF Types, MadeOK
<1>3. vs \in Seq(graph[g].vertices) /\ es \in Seq(graph[g].edges)
  BY <1>2, OrderOfMade
<1> DEFINE V == [i \in DOMAIN vs |-> vertex[vs[i]]]
           E == [i \in DOMAIN es |-> [edge[es[i]] EXCEPT !.start = vertex[@].id, !.end = vertex[@].id]]
<1>4. V \in Seq(VertexElement)
  <2>1. ASSUME NEW i \in DOMAIN vs PROVE vertex[vs[i]] \in VertexElement
    <3>1. vs[i] \in 1 .. Len(vertex)
      BY <1>2, <1>3
    <3>2. vertex[vs[i]] \in VertexRecord
      BY <1>2, <3>1
    <3> QED BY <3>2 DEF VertexRecord, VertexElement
  <2>2. V \in [DOMAIN vs -> VertexElement]
    BY <2>1
  <2> HIDE DEF V
  <2> QED BY <1>3, <2>2, MadeByPosition
<1>5. E \in Seq(EdgeElement)
  <2>1. ASSUME NEW x \in EdgeRecord, x.start \in 1 .. Len(vertex), x.end \in 1 .. Len(vertex)
        PROVE  [x EXCEPT !.start = vertex[@].id, !.end = vertex[@].id] \in EdgeElement
    <3>1. x \in EdgeElement
      BY DEF EdgeRecord, EdgeElement
    <3>2. vertex[x.start] \in VertexRecord /\ vertex[x.end] \in VertexRecord
      BY <1>2, <2>1
    <3>3. vertex[x.start].id \in Int /\ vertex[x.end].id \in Int
      BY <3>2 DEF VertexRecord
    <3> QED BY <3>1, <3>3, ElementOfEdge
  <2>2. ASSUME NEW i \in DOMAIN es
        PROVE  [edge[es[i]] EXCEPT !.start = vertex[@].id, !.end = vertex[@].id] \in EdgeElement
    <3>1. es[i] \in graph[g].edges /\ es[i] \in 1 .. Len(edge)
      BY <1>2, <1>3
    <3>2. edge[es[i]] \in EdgeRecord
      BY <1>2, <3>1
    <3>3. edge[es[i]].start # NULL /\ Ends(edge[es[i]].start, edge[es[i]].end, Len(vertex))
      BY <1>a, <3>1 DEF Types, MadeOK
    <3>4. edge[es[i]].start \in 1 .. Len(vertex) /\ edge[es[i]].end \in 1 .. Len(vertex)
      BY <1>2, <3>3 DEF Ends, NULL
    <3> QED BY <2>1, <3>2, <3>4
  <2>3. E \in [DOMAIN es -> EdgeElement]
    BY <2>2
  <2> HIDE DEF E
  <2> QED BY <1>3, <2>3, MadeByPosition
<1> HIDE DEF V, E
<1>6. file' \in Tree
  <2>1. file' = [vertices |-> V, edges |-> E, saves |-> file.saves + 1]
    BY <1>1 DEF V, E
  <2>2. file.saves + 1 \in Nat
    BY DEF Types, Tree
  <2> QED BY <1>4, <1>5, <2>1, <2>2 DEF Tree
<1> QED BY <1>6 DEF SaveGraph, process, reader, Types

\* What the passes over the tree leave is a tree with as many elements.
LEMMA RenamedTree ==
  ASSUME NEW t \in Tree, NEW i \in 1 .. Len(t.vertices), NEW new \in Int
  PROVE  /\ Renamed(t, i, new) \in Tree
         /\ Len(Renamed(t, i, new).vertices) = Len(t.vertices)
         /\ Renamed(t, i, new).vertices[i].id = new
         /\ \A j \in 1 .. Len(t.vertices) : j # i => Renamed(t, i, new).vertices[j] = t.vertices[j]
         /\ Len(Renamed(t, i, new).edges) = Len(t.edges)
         /\ \A j \in 1 .. Len(t.edges) : Renamed(t, i, new).edges[j].id = t.edges[j].id
<1> DEFINE vs == [t.vertices EXCEPT ![i].id = new]
           old == t.vertices[i].id
           es == [j \in DOMAIN t.edges |-> EndsRenamed(t.edges[j], old, new)]
<1>1. t.vertices \in Seq(VertexElement) /\ t.edges \in Seq(EdgeElement) /\ t.saves \in Nat
  BY DEF Tree
<1>2. /\ vs \in Seq(VertexElement) /\ Len(vs) = Len(t.vertices) /\ vs[i].id = new
      /\ \A j \in 1 .. Len(t.vertices) : j # i => vs[j] = t.vertices[j]
  <2> DEFINE x == [t.vertices[i] EXCEPT !.id = new]
  <2>1. t.vertices[i] \in VertexElement
    BY <1>1
  <2>2. x \in VertexElement /\ x.id = new
    BY <2>1 DEF VertexElement
  <2>3. vs = [t.vertices EXCEPT ![i] = x]
    OBVIOUS
  <2> HIDE DEF x, vs
  <2> QED BY <1>1, <2>2, <2>3
<1>3. ASSUME NEW j \in DOMAIN t.edges
      PROVE  /\ EndsRenamed(t.edges[j], old, new) \in EdgeElement
             /\ EndsRenamed(t.edges[j], old, new).id = t.edges[j].id
  <2> DEFINE e == t.edges[j]
  <2>1. e \in EdgeElement
    BY <1>1
  <2>2. Rename(old, new, e.start) \in Int /\ Rename(old, new, e.end) \in Int
    BY <2>1 DEF Rename, EdgeElement
  <2> HIDE DEF e
  <2>3. EndsRenamed(e, old, new) \in EdgeElement
    BY <2>1, <2>2, ElementOfEdge DEF EndsRenamed
  <2>4. EndsRenamed(e, old, new).id = e.id
    BY <2>1 DEF EdgeElement, EndsRenamed
  <2> QED BY <2>3, <2>4 DEF e
<1>4. es \in [DOMAIN t.edges -> EdgeElement]
  BY <1>3
<1>5. ASSUME NEW j \in 1 .. Len(t.edges) PROVE es[j].id = t.edges[j].id
  <2>1. j \in DOMAIN t.edges
    BY <1>1
  <2>2. es[j] = EndsRenamed(t.edges[j], old, new)
    BY <2>1, Zenon
  <2> QED BY <1>3, <2>1, <2>2
<1> HIDE DEF es, vs
<1>6. es \in Seq(EdgeElement) /\ Len(es) = Len(t.edges)
  BY <1>1, <1>4, MadeByPosition
<1>7. Renamed(t, i, new) = [t EXCEPT !.vertices = vs, !.edges = es]
  <2> DEFINE one == [t EXCEPT !.vertices[i].id = new]
  <2>1. Renamed(t, i, new) = [one EXCEPT !.edges = es]
    BY Zenon DEF Renamed, es
  <2>2. one = [t EXCEPT !.vertices = vs]
    BY DEF vs
  <2> QED BY <2>1, <2>2
<1>8. /\ [t EXCEPT !.vertices = vs, !.edges = es] \in Tree
      /\ [t EXCEPT !.vertices = vs, !.edges = es].vertices = vs
      /\ [t EXCEPT !.vertices = vs, !.edges = es].edges = es
  BY <1>2, <1>6 DEF Tree
<1> QED BY <1>2, <1>5, <1>6, <1>7, <1>8

LEMMA EdgeRenamed ==
  ASSUME NEW t \in Tree, NEW i \in 1 .. Len(t.edges), NEW new \in Int
  PROVE  LET u == [t EXCEPT !.edges[i].id = new] IN
         /\ u \in Tree /\ u.vertices = t.vertices
         /\ Len(u.edges) = Len(t.edges) /\ u.edges[i].id = new
         /\ \A j \in 1 .. Len(t.edges) : j # i => u.edges[j] = t.edges[j]
<1> DEFINE x == [t.edges[i] EXCEPT !.id = new]
           es == [t.edges EXCEPT ![i] = x]
<1>1. t.vertices \in Seq(VertexElement) /\ t.edges \in Seq(EdgeElement) /\ t.saves \in Nat
  BY DEF Tree
<1>2. t.edges[i] \in EdgeElement
  BY <1>1
<1>3. x \in EdgeElement /\ x.id = new
  BY <1>2 DEF EdgeElement
<1>4. [t EXCEPT !.edges[i].id = new] = [t EXCEPT !.edges = es]
  OBVIOUS
<1> HIDE DEF x
<1>5. es \in Seq(EdgeElement) /\ Len(es) = Len(t.edges) /\ es[i] = x
      /\ \A j \in 1 .. Len(t.edges) : j # i => es[j] = t.edges[j]
  BY <1>1, <1>3
<1> HIDE DEF es
<1>6. /\ [t EXCEPT !.edges = es] \in Tree /\ [t EXCEPT !.edges = es].vertices = t.vertices
      /\ [t EXCEPT !.edges = es].edges = es
  BY <1>5 DEF Tree
<1> QED BY <1>3, <1>4, <1>5, <1>6

\* The pass that takes the signs away.
LEMMA NegatedTree ==
  ASSUME tree \in Tree, Negate
  PROVE  /\ tree' \in Tree
         /\ Len(tree'.vertices) = Len(tree.vertices) /\ Len(tree'.edges) = Len(tree.edges)
         /\ \A i \in 1 .. Len(tree.vertices) : tree'.vertices[i].id = -tree.vertices[i].id
         /\ \A i \in 1 .. Len(tree.edges) : tree'.edges[i].id = -tree.edges[i].id
<1> DEFINE vs == [i \in DOMAIN tree.vertices |-> VertexNegated(tree.vertices[i])]
           es == [i \in DOMAIN tree.edges |-> EdgeNegated(tree.edges[i])]
<1>1. tree.vertices \in Seq(VertexElement) /\ tree.edges \in Seq(EdgeElement)
  BY DEF Tree
<1>2. ASSUME NEW x \in VertexElement
      PROVE  VertexNegated(x) \in VertexElement /\ VertexNegated(x).id = -x.id
  BY DEF VertexElement, VertexNegated, Sign
<1>3. ASSUME NEW x \in EdgeElement
      PROVE  EdgeNegated(x) \in EdgeElement /\ EdgeNegated(x).id = -x.id
  <2>1. ASSUME NEW a \in Int, NEW b \in Int, NEW c \in Int
        PROVE  /\ [x EXCEPT !.id = a, !.start = b, !.end = c] \in EdgeElement
               /\ [x EXCEPT !.id = a, !.start = b, !.end = c].id = a
    BY DEF EdgeElement
  <2>2. Sign(x.id) \in Int /\ Sign(x.start) \in Int /\ Sign(x.end) \in Int /\ Sign(x.id) = -x.id
    BY DEF EdgeElement, Sign
  <2> QED BY <2>1, <2>2 DEF EdgeNegated
<1>4. /\ \A i \in DOMAIN tree.vertices : tree.vertices[i] \in VertexElement
      /\ \A i \in DOMAIN tree.edges : tree.edges[i] \in EdgeElement
      /\ DOMAIN tree.vertices = 1 .. Len(tree.vertices) /\ DOMAIN tree.edges = 1 .. Len(tree.edges)
  BY <1>1
<1>5. /\ vs \in [DOMAIN tree.vertices -> VertexElement] /\ es \in [DOMAIN tree.edges -> EdgeElement]
      /\ \A i \in 1 .. Len(tree.vertices) : vs[i].id = -tree.vertices[i].id
      /\ \A i \in 1 .. Len(tree.edges) : es[i].id = -tree.edges[i].id
  BY <1>2, <1>3, <1>4
<1>6. tree' = [tree EXCEPT !.vertices = vs, !.edges = es]
  BY Zenon DEF Negate
<1> HIDE DEF vs, es
<1>7. /\ vs \in Seq(VertexElement) /\ Len(vs) = Len(tree.vertices)
      /\ es \in Seq(EdgeElement) /\ Len(es) = Len(tree.edges)
  BY <1>1, <1>5, MadeByPosition
<1>8. tree' \in Tree /\ tree'.vertices = vs /\ tree'.edges = es
  BY <1>6, <1>7 DEF Tree
<1> QED BY <1>5, <1>7, <1>8

LEMMA RenameTypes == Types /\ (RenameVertex \/ RenameEdge \/ Negate) => Types'
<1> SUFFICES ASSUME Types, RenameVertex \/ RenameEdge \/ Negate PROVE Types'
  OBVIOUS
<1>0. tree \in Tree /\ tree.vertices \in Seq(VertexElement) /\ tree.edges \in Seq(EdgeElement)
      /\ vid \in Nat /\ eid \in Nat /\ pos \in Nat /\ vid > 0 /\ eid > 0
  BY DEF Types, Tree
<1>1. CASE RenameVertex
  <2>a. /\ pos \in DOMAIN tree.vertices /\ tree' = Renamed(tree, pos, Sign(vid))
        /\ vid' = vid + 1 /\ pos' = pos + 1
        /\ UNCHANGED <<eid, vertex, edge, graph, appended, file, pc, sv, ev>>
    BY <1>1, Zenon DEF RenameVertex
  <2>1. pos \in 1 .. Len(tree.vertices) /\ Sign(vid) \in Int
    BY <1>0, <2>a DEF Sign
  <2>2. tree' \in Tree
    BY <1>0, <2>1, <2>a, RenamedTree
  <2> QED BY <2>2, <2>a DEF Types
<1>2. CASE RenameEdge
  <2>2. /\ pos \in DOMAIN tree.edges /\ tree' = [tree EXCEPT !.edges[pos].id = Sign(eid)]
        /\ eid' = eid + 1 /\ pos' = pos + 1
        /\ UNCHANGED <<vid, vertex, edge, graph, appended, file, pc, sv, ev>>
    BY <1>2, Zenon DEF RenameEdge
  <2>1. pos \in 1 .. Len(tree.edges) /\ Sign(eid) \in Int
    BY <1>0, <2>2 DEF Sign
  <2>3. tree' \in Tree
    BY <1>0, <2>1, <2>2, EdgeRenamed
  <2>4. /\ eid' = eid + 1 /\ pos' = pos + 1
        /\ UNCHANGED <<vid, vertex, edge, graph, appended, file, pc, sv, ev>>
    BY <2>2, Zenon
  <2> QED BY <2>3, <2>4 DEF Types
<1>3. CASE Negate
  <2>1. tree' \in Tree
    BY <1>0, <1>3, NegatedTree
  <2>2. /\ graph' = Append(graph, NoGraph) /\ appended' = Append(appended, {})
        /\ NoGraph \in GraphRecord /\ NoGraph.vertices = {} /\ NoGraph.edges = {}
    BY <1>3 DEF Negate, NoGraph, GraphRecord
  <2>3. /\ graph \in Seq(GraphRecord) /\ appended \in Seq(SUBSET Nat) /\ Len(appended) = Len(graph)
    BY DEF Types, MadeOK
  <2>4. /\ graph' \in Seq(GraphRecord) /\ appended' \in Seq(SUBSET Nat)
        /\ Len(graph') = Len(graph) + 1 /\ Len(appended') = Len(graph')
        /\ graph'[Len(graph) + 1] = NoGraph /\ appended'[Len(graph) + 1] = {}
        /\ \A g \in 1 .. Len(graph) : graph'[g] = graph[g] /\ appended'[g] = appended[g]
    BY <2>2, <2>3
  <2>5. \A g \in 1 .. Len(graph') : g \in 1 .. Len(graph) \/ g = Len(graph) + 1
    BY <2>3, <2>4
  <2>6. \A g \in 1 .. Len(graph') :
          /\ graph'[g].vertices \subseteq 1 .. Len(vertex)
          /\ graph'[g].edges \subseteq appended'[g] /\ appended'[g] \subseteq 1 .. Len(edge)
    BY <2>2, <2>4, <2>5 DEF Types, MadeOK
  <2>7. MadeOK(vertex, edge, graph', appended')
    BY <2>4, <2>6 DEF Types, MadeOK
  <2>8. pos' = 1 /\ pc' = "load vertices" /\ UNCHANGED <<vid, eid, vertex, edge, file, sv, ev>>
    BY <1>3, Zenon DEF Negate
  <2>9. MadeOK(vertex', edge', graph', appended')
    BY <2>7, <2>8
  <2>10. pc' \in State
    BY <2>8 DEF State
  <2>11. vid' \in Nat /\ eid' \in Nat /\ pos' \in Nat /\ vid' > 0 /\ eid' > 0 /\ pos' > 0
    <3>1. pos' = 1 /\ vid' = vid /\ eid' = eid
      BY <2>8, Zenon
    <3>2. pos' \in Nat /\ pos' > 0
      BY <3>1
    <3>3. vid' \in Nat /\ vid' > 0 /\ eid' \in Nat /\ eid' > 0
      BY <1>0, <3>1
    <3> QED BY <3>2, <3>3
  <2>12. file' \in Tree /\ sv' \in 0 .. Len(vertex') /\ ev' \in 0 .. Len(vertex')
    BY <2>8 DEF Types
  <2> QED BY <2>1, <2>9, <2>10, <2>11, <2>12 DEF Types
<1> QED BY <1>1, <1>2, <1>3

LEMMA ReadBackValue == ASSUME NEW a \in Value PROVE ReadBack(a) \in Value
BY DEF Value, ReadBack

\* What the loading loops take from the tree.
LEMMA VertexTaken ==
  ASSUME Types, VertexIds, LoadVertex
  PROVE  LET r == [id |-> tree.vertices[pos].id, attr |-> ReadBack(tree.vertices[pos].attr)] IN
         /\ pos \in 1 .. Len(tree.vertices) /\ r \in VertexRecord
         /\ vertex' = Append(vertex, r) /\ r.id = Ids(tree.vertices)[pos]
<1>a. pos \in DOMAIN tree.vertices
  BY Zenon DEF LoadVertex
<1>b. tree.vertices \in Seq(VertexElement) /\ pos \in Nat
  BY DEF Types, Tree
<1>1. /\ pos \in 1 .. Len(tree.vertices) /\ pos \in Nat /\ tree.vertices[pos] \in VertexElement
      /\ Len(tree.vertices) \in Nat
  BY <1>a, <1>b
<1>2. pos \in {i \in 1 .. Len(tree.vertices) : i >= pos}
  BY <1>1
<1>3. Ids(tree.vertices)[pos] = tree.vertices[pos].id
  BY <1>1 DEF Ids
<1>4. tree.vertices[pos].id \in Nat
  BY <1>2, <1>3 DEF VertexIds, Promised, LoadVertex
<1>5. ReadBack(tree.vertices[pos].attr) \in Value
  BY <1>1, ReadBackValue DEF VertexElement
<1> QED BY <1>1, <1>3, <1>4, <1>5 DEF VertexRecord, LoadVertex

LEMMA LoadVertexTypes == Types /\ VertexIds /\ LoadVertex => Types'
<1> SUFFICES ASSUME Types, VertexIds, LoadVertex PROVE Types'
  OBVIOUS
<1>1. PICK r \in VertexRecord : vertex' = Append(vertex, r)
  BY VertexTaken
<1> DEFINE n == Len(vertex')
           g == Len(graph)
           G == g_insert_v(graph[g], vertex', n)
<1>2. MadeOK(vertex', edge, graph, appended)
  BY <1>1, MadeOKMore DEF Types
<1>3. /\ n = Len(vertex) + 1 /\ n \in 1 .. Len(vertex') /\ n \in Nat /\ Len(vertex) \in Nat
      /\ g \in 1 .. Len(graph) /\ graph[g] \in GraphRecord
      /\ graph[g].vertices \subseteq 1 .. Len(vertex') /\ graph[g].edges \subseteq appended[g]
      /\ appended[g] \subseteq 1 .. Len(edge) /\ appended \in Seq(SUBSET Nat)
  BY <1>1, <1>2 DEF Types, MadeOK
<1>4. /\ G \in GraphRecord /\ G.vertices \subseteq graph[g].vertices \cup {n}
      /\ G.edges = graph[g].edges
  BY <1>3, Inserted
<1>5. graph' = [graph EXCEPT ![g] = G]
  BY DEF LoadVertex
<1> HIDE DEF G, g, n
<1>6. G.vertices \subseteq 1 .. Len(vertex') /\ G.edges \subseteq appended[g]
  BY <1>3, <1>4
<1>7. MadeOK(vertex', edge, graph', appended)
  BY <1>2, <1>3, <1>4, <1>5, <1>6, MadeOKGraph
<1>8. sv \in 0 .. Len(vertex') /\ ev \in 0 .. Len(vertex')
  BY <1>3 DEF Types, n
<1>9. /\ vid' = vid + 1 /\ pos' = pos + 1
      /\ UNCHANGED <<eid, edge, appended, file, pc, tree, sv, ev>>
  BY DEF LoadVertex
<1> QED BY <1>7, <1>8, <1>9 DEF Types

LEMMA FoundMade ==
  ASSUME Types, NEW old \in 0 .. Len(vertex), NEW id
  PROVE  Found(old, id) \in 0 .. Len(vertex)
<1>1. graph[Len(graph)].vertices \subseteq 1 .. Len(vertex)
  BY DEF Types, MadeOK
<1> QED BY <1>1 DEF Found

LEMMA EdgeTaken ==
  ASSUME Types, EdgeIds, LoadEdge
  PROVE  LET e == tree.edges[pos]
             r == [id |-> e.id, start |-> sv', end |-> ev', attr |-> ReadBack(e.attr)] IN
         /\ pos \in 1 .. Len(tree.edges) /\ r \in EdgeRecord /\ Ends(r.start, r.end, Len(vertex))
         /\ sv' \in 0 .. Len(vertex) /\ ev' \in 0 .. Len(vertex)
         /\ edge' = Append(edge, r) /\ r.id = Ids(tree.edges)[pos]
<1>a. pos \in DOMAIN tree.edges
  BY Zenon DEF LoadEdge
<1>b. tree.edges \in Seq(EdgeElement) /\ pos \in Nat
  BY DEF Types, Tree
<1>1. /\ pos \in 1 .. Len(tree.edges) /\ pos \in Nat /\ tree.edges[pos] \in EdgeElement
      /\ Len(tree.edges) \in Nat
  BY <1>a, <1>b
<1>2. pos \in {i \in 1 .. Len(tree.edges) : i >= pos}
  BY <1>1
<1>3. Ids(tree.edges)[pos] = tree.edges[pos].id
  BY <1>1 DEF Ids
<1>4. tree.edges[pos].id \in Nat
  BY <1>2, <1>3 DEF EdgeIds, Promised, LoadEdge
<1>5. ReadBack(tree.edges[pos].attr) \in Value
  BY <1>1, ReadBackValue DEF EdgeElement
<1>6. sv' \in 0 .. Len(vertex) /\ ev' \in 0 .. Len(vertex) /\ sv' # NULL /\ ev' # NULL
  BY FoundMade DEF LoadEdge, Types
<1>7. Len(vertex) \in Nat
  BY DEF Types, MadeOK
<1> DEFINE e == tree.edges[pos]
           r == [id |-> e.id, start |-> sv', end |-> ev', attr |-> ReadBack(e.attr)]
<1>8. edge' = Append(edge, r)
  BY Zenon DEF LoadEdge
<1>9. r \in EdgeRecord
  BY <1>4, <1>5, <1>6, <1>7 DEF EdgeRecord
<1>10. Ends(r.start, r.end, Len(vertex))
  BY <1>6 DEF Ends
<1> QED BY <1>1, <1>3, <1>6, <1>8, <1>9, <1>10

LEMMA LoadEdgeTypes == Types /\ EdgeIds /\ LoadEdge => Types'
<1> SUFFICES ASSUME Types, EdgeIds, LoadEdge PROVE Types'
  OBVIOUS
<1>1. PICK r \in EdgeRecord : edge' = Append(edge, r) /\ Ends(r.start, r.end, Len(vertex))
  BY EdgeTaken
<1>a. sv' \in 0 .. Len(vertex) /\ ev' \in 0 .. Len(vertex)
  BY EdgeTaken
<1> DEFINE n == Len(edge')
           g == Len(graph)
           G == g_insert_e(graph[g], edge', n)
<1>2. MadeOK(vertex, edge', graph, appended)
  BY <1>1, MadeOKMore DEF Types
<1>3. /\ n \in 1 .. Len(edge') /\ n \in Nat
      /\ g \in 1 .. Len(graph) /\ graph[g] \in GraphRecord
      /\ graph[g].vertices \subseteq 1 .. Len(vertex) /\ graph[g].edges \subseteq appended[g]
      /\ appended[g] \subseteq 1 .. Len(edge') /\ appended \in Seq(SUBSET Nat)
      /\ Len(appended) = Len(graph)
  BY <1>1, <1>2 DEF Types, MadeOK
<1>4. /\ G \in GraphRecord /\ G.edges \subseteq graph[g].edges \cup {n}
      /\ G.vertices = graph[g].vertices
  BY <1>3, Inserted
<1>5. graph' = [graph EXCEPT ![g] = G] /\ appended' = [appended EXCEPT ![g] = appended[g] \cup {n}]
  BY DEF LoadEdge
<1> HIDE DEF G, g, n
<1>6. /\ appended' \in Seq(SUBSET Nat) /\ Len(appended') = Len(appended)
      /\ appended'[g] = appended[g] \cup {n}
      /\ \A h \in 1 .. Len(graph) : h # g => appended'[h] = appended[h]
  BY <1>3, <1>5
<1>7. G.edges \subseteq appended'[g] /\ appended'[g] \subseteq 1 .. Len(edge')
  BY <1>3, <1>4, <1>6
<1>8. MadeOK(vertex, edge', graph', appended')
  BY <1>2, <1>3, <1>4, <1>5, <1>6, <1>7, MadeOKGraph
<1>9. eid' = eid + 1 /\ pos' = pos + 1 /\ UNCHANGED <<vid, vertex, file, pc, tree>>
  BY DEF LoadEdge
<1> QED BY <1>a, <1>8, <1>9 DEF Types

LEMMA ControlTypes ==
  Types /\ (SaveCrash \/ OpenFile \/ LoadStrayEdge \/ EndOfLoop \/ Return \/ UNCHANGED vars) => Types'
<1> SUFFICES ASSUME Types,
                    SaveCrash \/ OpenFile \/ LoadStrayEdge \/ EndOfLoop \/ Return \/ UNCHANGED vars
             PROVE  Types'
  OBVIOUS
<1>0. Len(vertex) \in Nat
  BY DEF Types, MadeOK
<1>1. CASE SaveCrash \/ LoadStrayEdge
  BY <1>1 DEF SaveCrash, LoadStrayEdge, Types, State, process, reader
<1>2. CASE OpenFile
  <2>1. pos' = 1 /\ tree' = file /\ file' = file /\ UNCHANGED <<vid, eid, vertex, edge, graph, appended, sv, ev>>
    BY <1>2 DEF OpenFile, process
  <2>2. pc' \in State
    BY <1>2 DEF OpenFile, State
  <2>3. pos' \in Nat /\ pos' > 0
    BY <2>1
  <2> QED BY <2>1, <2>2, <2>3 DEF Types
<1>3. CASE EndOfLoop
  <2>1. pc \in DOMAIN After
    BY <1>3, Zenon DEF EndOfLoop
  <2>2. After[pc] \in State
    BY <2>1 DEF After, State
  <2> QED BY <1>3, <2>2 DEF EndOfLoop, Types, process
<1>4. CASE Return
  <2>1. NoFile \in Tree
    BY DEF NoFile, Tree
  <2> QED BY <1>0, <1>4, <2>1 DEF Return, Types, State, process, NULL
<1>5. CASE UNCHANGED vars
  BY <1>5 DEF vars, process, reader, Types
<1> QED BY <1>1, <1>2, <1>3, <1>4, <1>5

\* A process starts with nothing made and one empty graph.
LEMMA NothingMade == MadeOK(<< >>, << >>, <<NoGraph>>, <<{}>>)
<1>1. NoGraph \in GraphRecord /\ NoGraph.vertices = {} /\ NoGraph.edges = {}
  BY DEF NoGraph, GraphRecord
<1> QED BY <1>1 DEF MadeOK

LEMMA RestartTypes == Types /\ Restart => Types'
<1> SUFFICES ASSUME Types, Restart PROVE Types'
  OBVIOUS
<1>1. /\ vid' = 1 /\ eid' = 1 /\ pos' = 1 /\ sv' = 0 /\ ev' = 0 /\ vertex' = << >>
      /\ pc' = "program" /\ tree' = NoFile
  BY DEF Restart, NULL
<1>2. MadeOK(vertex', edge', graph', appended')
  BY NothingMade DEF Restart
<1>3. NoFile \in Tree
  BY DEF NoFile, Tree
<1>7. file' \in Tree
  <2>1. CASE UNCHANGED <<file, saved>>
    BY <2>1 DEF Types
  <2>2. CASE CutShort
    <3>1. file.saves \in Nat
      BY DEF Types, Tree
    <3>2. [NoFile EXCEPT !.saves = file.saves + 1] \in Tree
      <4> DEFINE n == file.saves + 1
      <4>1. n \in Nat
        BY <3>1
      <4> HIDE DEF n
      <4>2. [NoFile EXCEPT !.saves = n] \in Tree
        BY <4>1, <1>3 DEF Tree
      <4> QED BY <4>2 DEF n
    <3> QED BY <1>3, <2>2, <3>2 DEF CutShort
  <2> QED BY <2>1, <2>2 DEF Restart
<1>4. pc' \in State
  BY <1>1 DEF State
<1>5. vid' \in Nat /\ eid' \in Nat /\ pos' \in Nat /\ vid' > 0 /\ eid' > 0 /\ pos' > 0
  BY <1>1
<1>6. sv' \in 0 .. Len(vertex') /\ ev' \in 0 .. Len(vertex')
  BY <1>1
<1> QED BY <1>1, <1>2, <1>3, <1>4, <1>5, <1>6, <1>7 DEF Types

LEMMA InitTypes == Init => Types
<1> SUFFICES ASSUME Init PROVE Types
  OBVIOUS
<1>1. NoFile \in Tree
  BY DEF NoFile, Tree
<1>2. MadeOK(vertex, edge, graph, appended)
  BY NothingMade DEF Init
<1>3. pc \in State
  BY DEF Init, State
<1>4. vid \in Nat /\ eid \in Nat /\ pos \in Nat /\ vid > 0 /\ eid > 0 /\ pos > 0
  BY DEF Init
<1>5. sv \in 0 .. Len(vertex) /\ ev \in 0 .. Len(vertex)
  BY DEF Init, NULL
<1> QED BY <1>1, <1>2, <1>3, <1>4, <1>5 DEF Types, Init

LEMMA StepTypes == IInv /\ [Next]_vars => Types'
BY NewVertexTypes, NewEdgeTypes, DirectTypes, AppendTypes, SaveGraphTypes, RenameTypes,
   LoadVertexTypes, LoadEdgeTypes, ControlTypes, RestartTypes, Zenon
   DEF IInv, Next, Program, Reading

------------------------------------------------------------------------------
(* No step gives an id twice.                                              *)

\* The positions a loop has behind it, and before it, when it is at p.
LEMMA LoopEnds ==
  ASSUME NEW R, NEW s \in Seq(R), NEW p \in Nat, p > Len(s)
  PROVE  {i \in 1 .. Len(s) : i < p} = 1 .. Len(s)
<1>1. Len(s) \in Nat
  OBVIOUS
<1> QED BY <1>1

LEMMA LoopStarts ==
  ASSUME NEW n, NEW p, p = 1
  PROVE  {i \in 1 .. n : i < p} = {} /\ {i \in 1 .. n : i >= p} = 1 .. n
OBVIOUS

LEMMA Facts ==
  ASSUME IInv
  PROVE  /\ tree \in Tree /\ tree.vertices \in Seq(VertexElement) /\ tree.edges \in Seq(EdgeElement)
         /\ Len(tree.vertices) \in Nat /\ Len(tree.edges) \in Nat
         /\ DOMAIN tree.vertices = 1 .. Len(tree.vertices) /\ DOMAIN tree.edges = 1 .. Len(tree.edges)
         /\ vertex \in Seq(VertexRecord) /\ edge \in Seq(EdgeRecord)
         /\ vid \in Nat /\ eid \in Nat /\ pos \in Nat /\ vid > 0 /\ eid > 0
         /\ Distinct(vertex, vid) /\ Distinct(edge, eid)
<1>1. tree \in Tree /\ tree.vertices \in Seq(VertexElement) /\ tree.edges \in Seq(EdgeElement)
  BY DEF IInv, Types, Tree
<1>2. /\ Len(tree.vertices) \in Nat /\ Len(tree.edges) \in Nat
      /\ DOMAIN tree.vertices = 1 .. Len(tree.vertices) /\ DOMAIN tree.edges = 1 .. Len(tree.edges)
  BY <1>1
<1> QED BY <1>1, <1>2 DEF IInv, Types, MadeOK, VertexIds, EdgeIds

LEMMA RecordIds == (\A q \in VertexRecord : q.id \in Nat) /\ (\A q \in EdgeRecord : q.id \in Nat)
BY DEF VertexRecord, EdgeRecord

LEMMA PromiseNone ==
  ASSUME NEW id, NEW made, NEW next
  PROVE  Promised(id, {}, made, next)
BY DEF Promised

LEMMA NewVertexIds == IInv /\ NewVertex => VertexIds'
<1> SUFFICES ASSUME IInv, NewVertex PROVE VertexIds'
  OBVIOUS
<1>1. PICK a \in Attrs : vertex' = Append(vertex, [id |-> vid, attr |-> a])
  BY DEF NewVertex
<1> DEFINE r == [id |-> vid, attr |-> a]
<1>2. r \in VertexRecord /\ r.id = vid
  BY GraphFileAssumption DEF GraphFileAssumption, VertexRecord, IInv, Types
<1>3. vertex \in Seq(VertexRecord) /\ vid \in Nat /\ vid > 0 /\ Distinct(vertex, vid)
      /\ \A q \in VertexRecord : q.id \in Nat
  BY Facts, RecordIds
<1>4. vertex' = Append(vertex, r)
  BY <1>1
<1> HIDE DEF r
<1>5. Distinct(Append(vertex, r), vid + 1)
  BY <1>2, <1>3, DistinctNew
<1>6. vid' = vid + 1 /\ pc' = "program"
  BY DEF NewVertex, Running
<1> QED BY <1>4, <1>5, <1>6 DEF VertexIds

LEMMA RenameVertexIds == IInv /\ RenameVertex => VertexIds'
<1> SUFFICES ASSUME IInv, RenameVertex PROVE VertexIds'
  OBVIOUS
<1>1. /\ pc = "rename vertices" /\ pos \in DOMAIN tree.vertices
      /\ tree' = Renamed(tree, pos, Sign(vid)) /\ vid' = vid + 1 /\ pos' = pos + 1
      /\ vertex' = vertex /\ pc' = pc
  BY Zenon DEF RenameVertex
<1> DEFINE n == Len(tree.vertices)
           A == {i \in 1 .. n : i < pos}
<1>2. /\ tree \in Tree /\ tree.vertices \in Seq(VertexElement) /\ vid \in Nat /\ vid > 0 /\ pos \in Nat
      /\ vertex \in Seq(VertexRecord) /\ Distinct(vertex, vid)
      /\ DOMAIN tree.vertices = 1 .. n /\ n \in Nat
  BY Facts
<1>3. Promised(Signed(tree.vertices), A, vertex, vid)
  BY <1>1, Zenon DEF IInv, VertexIds
<1>4. pos \in 1 .. n /\ Sign(vid) \in Int /\ n \in Nat
  <2>1. pos \in 1 .. n
    BY <1>1, <1>2, Zenon
  <2>2. Sign(vid) \in Int
    BY <1>2 DEF Sign
  <2> QED BY <1>2, <2>1, <2>2
<1>5. /\ Len(tree'.vertices) = n /\ tree'.vertices[pos].id = Sign(vid)
      /\ \A j \in 1 .. n : j # pos => tree'.vertices[j] = tree.vertices[j]
  BY <1>1, <1>2, <1>4, RenamedTree
<1>6. Signed(tree'.vertices)[pos] = vid
  <2>1. pos \in 1 .. Len(tree'.vertices)
    BY <1>4, <1>5, Zenon
  <2>2. Signed(tree'.vertices)[pos] = -tree'.vertices[pos].id
    BY <2>1 DEF Signed
  <2>3. -Sign(vid) = vid
    BY <1>2 DEF Sign
  <2> QED BY <1>5, <2>2, <2>3
<1>7. \A i \in A : Signed(tree'.vertices)[i] = Signed(tree.vertices)[i]
  BY <1>2, <1>4, <1>5 DEF Signed
<1>8. {i \in 1 .. n : i < pos + 1} = A \cup {pos}
  BY <1>2, <1>4
<1> HIDE DEF A
<1>9. Distinct(vertex, vid + 1) /\ Promised(Signed(tree'.vertices), A \cup {pos}, vertex, vid + 1)
  BY RecordIds, <1>2, <1>3, <1>6, <1>7, PromiseNew
<1>10. {i \in 1 .. Len(tree'.vertices) : i < pos'} = A \cup {pos}
  BY <1>1, <1>5, <1>8
<1>11. /\ Distinct(vertex', vid')
       /\ Promised(Signed(tree'.vertices), {i \in 1 .. Len(tree'.vertices) : i < pos'}, vertex', vid')
  BY <1>1, <1>9, <1>10
<1> QED BY <1>1, <1>11, Zenon DEF VertexIds

LEMMA NegateVertexIds == IInv /\ Negate => VertexIds'
<1> SUFFICES ASSUME IInv, Negate PROVE VertexIds'
  OBVIOUS
<1>1. /\ pc = "negate" /\ pos' = 1 /\ pc' = "load vertices" /\ vertex' = vertex /\ vid' = vid
  BY Zenon DEF Negate
<1> DEFINE n == Len(tree.vertices)
<1>2. tree \in Tree /\ n \in Nat
  BY Facts
<1>3. Promised(Signed(tree.vertices), 1 .. n, vertex, vid) /\ Distinct(vertex, vid)
  BY <1>1, Zenon DEF IInv, VertexIds
<1>4. Len(tree'.vertices) = n /\ \A i \in 1 .. n : tree'.vertices[i].id = -tree.vertices[i].id
  BY <1>2, NegatedTree
<1>5. \A i \in 1 .. n : Ids(tree'.vertices)[i] = Signed(tree.vertices)[i]
  BY <1>4 DEF Ids, Signed
<1>6. {i \in 1 .. Len(tree'.vertices) : i >= pos'} \subseteq 1 .. n
  BY <1>4
<1> DEFINE B == {i \in 1 .. Len(tree'.vertices) : i >= pos'}
<1> HIDE DEF B, n
<1>7. Promised(Ids(tree'.vertices), B, vertex, vid)
  <2>1. \A i \in B : Ids(tree'.vertices)[i] = Signed(tree.vertices)[i]
    BY <1>5, <1>6 DEF B
  <2>2. B \subseteq 1 .. n
    BY <1>6 DEF B
  <2> QED BY <1>3, <2>1, <2>2, PromiseLess
<1>8. Promised(Ids(tree'.vertices), B, vertex', vid') /\ Distinct(vertex', vid')
  BY <1>1, <1>3, <1>7
<1> QED BY <1>1, <1>8 DEF VertexIds, B

LEMMA LoadVertexIds == IInv /\ LoadVertex => VertexIds'
<1> SUFFICES ASSUME IInv, LoadVertex PROVE VertexIds'
  OBVIOUS
<1>1. /\ pc = "load vertices" /\ vid' = vid + 1 /\ pos' = pos + 1 /\ pc' = pc /\ tree' = tree
  BY Zenon DEF LoadVertex
<1> DEFINE n == Len(tree.vertices)
           A == {i \in 1 .. n : i >= pos}
<1>2. PICK r \in VertexRecord : vertex' = Append(vertex, r) /\ r.id = Ids(tree.vertices)[pos]
  BY VertexTaken DEF IInv
<1>3. pos \in 1 .. n
  BY VertexTaken DEF IInv
<1>4. /\ vertex \in Seq(VertexRecord) /\ Distinct(vertex, vid) /\ vid \in Nat /\ pos \in Nat
      /\ n \in Nat
  BY Facts
<1>5. Promised(Ids(tree.vertices), A, vertex, vid)
  BY <1>1, Zenon DEF IInv, VertexIds
<1>6. pos \in A /\ {i \in 1 .. n : i >= pos + 1} = A \ {pos}
  BY <1>3, <1>4
<1> HIDE DEF A
<1>7. /\ Distinct(Append(vertex, r), vid + 1)
      /\ Promised(Ids(tree.vertices), A \ {pos}, Append(vertex, r), vid + 1)
  BY <1>2, <1>4, <1>5, <1>6, DistinctPromised, RecordIds
<1>8. /\ Distinct(vertex', vid')
      /\ Promised(Ids(tree'.vertices), {i \in 1 .. Len(tree'.vertices) : i >= pos'}, vertex', vid')
  BY <1>1, <1>2, <1>6, <1>7
<1> QED BY <1>1, <1>8, Zenon DEF VertexIds

LEMMA EndOfLoopVertexIds == IInv /\ EndOfLoop => VertexIds'
<1> SUFFICES ASSUME IInv, EndOfLoop PROVE VertexIds'
  OBVIOUS
<1> DEFINE n == Len(tree.vertices)
<1>1. /\ pc \in DOMAIN After /\ pos > Len(Elements) /\ pos' = 1 /\ pc' = After[pc]
      /\ vertex' = vertex /\ vid' = vid /\ tree' = tree
  BY DEF EndOfLoop, process
<1>2. Distinct(vertex, vid)
  BY Facts
<1>3. CASE pc = "rename vertices"
  <2>1. pc' = "rename edges"
    BY <1>1, <1>3 DEF After
  <2>2. pos > n
    BY <1>1, <1>3 DEF Elements
  <2>3. {i \in 1 .. n : i < pos} = 1 .. n
    BY <2>2, Facts, LoopEnds
  <2>4. Promised(Signed(tree.vertices), 1 .. n, vertex, vid)
    BY <1>3, <2>3 DEF IInv, VertexIds
  <2> QED BY <1>1, <1>2, <2>1, <2>4 DEF VertexIds
<1>4. CASE pc = "rename edges"
  <2>1. pc' = "negate"
    BY <1>1, <1>4 DEF After
  <2>2. Promised(Signed(tree.vertices), 1 .. n, vertex, vid)
    BY <1>4 DEF IInv, VertexIds
  <2> QED BY <1>1, <1>2, <2>1, <2>2 DEF VertexIds
<1>5. CASE pc \in {"load vertices", "load edges"}
  <2>1. pc' \in {"load edges", "return"}
    BY <1>1, <1>5 DEF After
  <2> QED BY <1>1, <1>2, <2>1 DEF VertexIds
<1>6. pc \in {"rename vertices", "rename edges", "load vertices", "load edges"}
  BY <1>1 DEF After
<1> QED BY <1>3, <1>4, <1>5, <1>6

\* The steps that make no vertex and take no id for one.
LEMMA OtherVertexIds ==
  ASSUME IInv,
         \/ NewEdge \/ Direct \/ AppendVertex \/ AppendEdge \/ SaveGraph \/ SaveCrash \/ OpenFile
         \/ RenameEdge \/ LoadEdge \/ LoadStrayEdge \/ Return \/ Restart \/ UNCHANGED vars
  PROVE  VertexIds'
<1>0. Distinct(vertex, vid)
  BY Facts
<1>1. CASE NewEdge \/ Direct \/ AppendVertex \/ AppendEdge
  <2>1. vertex' = vertex /\ vid' = vid /\ pc' = "program"
    BY <1>1 DEF NewEdge, Direct, AppendVertex, AppendEdge, Building, Running
  <2> QED BY <1>0, <2>1 DEF VertexIds
<1>2. CASE SaveGraph
  <2>1. vertex' = vertex /\ vid' = vid /\ pc' = "program"
    BY <1>2, Zenon DEF SaveGraph, Building, Running, process
  <2> QED BY <1>0, <2>1 DEF VertexIds
<1>3. CASE SaveCrash \/ LoadStrayEdge \/ Return
  <2>1. vertex' = vertex /\ vid' = vid /\ pc' \in {"crashed", "undefined", "program"}
    BY <1>3 DEF SaveCrash, LoadStrayEdge, Return, process
  <2> QED BY <1>0, <2>1 DEF VertexIds
<1>4. CASE OpenFile
  <2>1. vertex' = vertex /\ vid' = vid /\ pc' = "rename vertices" /\ pos' = 1
    BY <1>4 DEF OpenFile, process
  <2>2. {i \in 1 .. Len(tree'.vertices) : i < pos'} = {}
    BY <2>1, LoopStarts, Zenon
  <2> QED BY <1>0, <2>1, <2>2, PromiseNone DEF VertexIds
<1>5. CASE RenameEdge
  <2>1. /\ vertex' = vertex /\ vid' = vid /\ pc = "rename edges" /\ pc' = pc /\ pos \in DOMAIN tree.edges
        /\ tree' = [tree EXCEPT !.edges[pos].id = Sign(eid)]
    BY <1>5, Zenon DEF RenameEdge
  <2>2. Sign(eid) \in Int
    BY Facts DEF Sign
  <2> DEFINE u == [tree EXCEPT !.edges[pos].id = Sign(eid)]
  <2>a. tree \in Tree /\ pos \in 1 .. Len(tree.edges)
    BY <2>1, Facts, Zenon
  <2>b. u.vertices = tree.vertices
    BY <2>2, <2>a, EdgeRenamed
  <2> HIDE DEF u
  <2>3. tree'.vertices = tree.vertices
    BY <2>1, <2>b DEF u
  <2>4. Promised(Signed(tree.vertices), 1 .. Len(tree.vertices), vertex, vid)
    BY <2>1 DEF IInv, VertexIds
  <2> QED BY <1>0, <2>1, <2>3, <2>4 DEF VertexIds
<1>6. CASE LoadEdge
  <2>1. vertex' = vertex /\ vid' = vid /\ pc' = "load edges"
    BY <1>6, Zenon DEF LoadEdge
  <2> QED BY <1>0, <2>1 DEF VertexIds
<1>7. CASE Restart
  <2>1. vertex' = << >> /\ pc' = "program"
    BY <1>7 DEF Restart
  <2> QED BY <2>1 DEF VertexIds, Distinct
<1>8. CASE UNCHANGED vars
  BY <1>8 DEF vars, process, reader, IInv, VertexIds
<1> QED BY <1>1, <1>2, <1>3, <1>4, <1>5, <1>6, <1>7, <1>8

LEMMA StepVertexIds == IInv /\ [Next]_vars => VertexIds'
BY NewVertexIds, RenameVertexIds, NegateVertexIds, LoadVertexIds, EndOfLoopVertexIds,
   OtherVertexIds, Zenon DEF Next, Program, Reading

LEMMA NewEdgeIds == IInv /\ NewEdge => EdgeIds'
<1> SUFFICES ASSUME IInv, NewEdge PROVE EdgeIds'
  OBVIOUS
<1>1. PICK a \in Attrs : edge' = Append(edge, [id |-> eid, start |-> NULL, end |-> NULL, attr |-> a])
  BY DEF NewEdge
<1> DEFINE r == [id |-> eid, start |-> NULL, end |-> NULL, attr |-> a]
<1>2. edge \in Seq(EdgeRecord) /\ eid \in Nat /\ eid > 0 /\ Distinct(edge, eid)
  BY Facts
<1>3. r \in EdgeRecord /\ r.id = eid
  BY <1>2, GraphFileAssumption DEF GraphFileAssumption, EdgeRecord, NULL
<1>4. edge' = Append(edge, r)
  BY <1>1
<1> HIDE DEF r
<1>5. Distinct(Append(edge, r), eid + 1)
  BY <1>2, <1>3, DistinctNew, RecordIds
<1>6. eid' = eid + 1 /\ pc' = "program"
  BY DEF NewEdge, Running
<1> QED BY <1>4, <1>5, <1>6 DEF EdgeIds

LEMMA DirectIds == IInv /\ Direct => EdgeIds'
<1> SUFFICES ASSUME IInv, Direct PROVE EdgeIds'
  OBVIOUS
<1>1. PICK e \in DOMAIN edge, v1 \in DOMAIN vertex, v2 \in DOMAIN vertex :
        edge' = [edge EXCEPT ![e].start = v1, ![e].end = v2]
  BY DEF Direct, edge_assign_direction
<1>2. edge \in Seq(EdgeRecord) /\ Distinct(edge, eid)
  BY Facts
<1>3. ASSUME NEW x \in EdgeRecord PROVE [x EXCEPT !.start = v1, !.end = v2].id = x.id
  BY DEF EdgeRecord
<1>4. Len(edge') = Len(edge) /\ \A i \in 1 .. Len(edge) : edge'[i].id = edge[i].id
  <2> DEFINE r == [edge[e] EXCEPT !.start = v1, !.end = v2]
             one == [edge EXCEPT ![e] = [edge[e] EXCEPT !.start = v1]]
  <2>1. edge' = [one EXCEPT ![e] = [one[e] EXCEPT !.end = v2]]
    BY <1>1, Zenon
  <2>2. one[e] = [edge[e] EXCEPT !.start = v1]
    BY <1>2
  <2>3. edge' = [edge EXCEPT ![e] = r]
    BY <2>1, <2>2
  <2>4. r.id = edge[e].id
    BY <1>2, <1>3
  <2> HIDE DEF r, one
  <2> QED BY <1>2, <2>3, <2>4
<1>5. eid' = eid /\ pc' = "program"
  BY DEF Direct, Building, Running
<1>6. Distinct(edge', eid)
  BY <1>2, <1>4 DEF Distinct
<1> QED BY <1>5, <1>6 DEF EdgeIds

LEMMA RenameEdgeIds == IInv /\ RenameEdge => EdgeIds'
<1> SUFFICES ASSUME IInv, RenameEdge PROVE EdgeIds'
  OBVIOUS
<1> DEFINE u == [tree EXCEPT !.edges[pos].id = Sign(eid)]
<1>1. /\ pc = "rename edges" /\ pos \in DOMAIN tree.edges /\ tree' = u
      /\ eid' = eid + 1 /\ pos' = pos + 1 /\ edge' = edge /\ pc' = pc
  BY Zenon DEF RenameEdge
<1> DEFINE n == Len(tree.edges)
           A == {i \in 1 .. n : i < pos}
<1>2. /\ tree \in Tree /\ eid \in Nat /\ eid > 0 /\ pos \in Nat
      /\ edge \in Seq(EdgeRecord) /\ Distinct(edge, eid)
      /\ DOMAIN tree.edges = 1 .. n /\ n \in Nat
  BY Facts
<1>3. Promised(Signed(tree.edges), A, edge, eid)
  BY <1>1, Zenon DEF IInv, EdgeIds
<1>4. pos \in 1 .. n /\ Sign(eid) \in Int
  <2>1. pos \in 1 .. n
    BY <1>1, <1>2, Zenon
  <2>2. Sign(eid) \in Int
    BY <1>2 DEF Sign
  <2> QED BY <2>1, <2>2
<1>a. /\ Len(u.edges) = n /\ u.edges[pos].id = Sign(eid)
      /\ \A j \in 1 .. n : j # pos => u.edges[j] = tree.edges[j]
  BY <1>2, <1>4, EdgeRenamed
<1> HIDE DEF u
<1>5. /\ Len(tree'.edges) = n /\ tree'.edges[pos].id = Sign(eid)
      /\ \A j \in 1 .. n : j # pos => tree'.edges[j] = tree.edges[j]
  BY <1>1, <1>a
<1>6. Signed(tree'.edges)[pos] = eid
  <2>1. pos \in 1 .. Len(tree'.edges)
    BY <1>4, <1>5, Zenon
  <2>2. Signed(tree'.edges)[pos] = -tree'.edges[pos].id
    BY <2>1 DEF Signed
  <2>3. -Sign(eid) = eid
    BY <1>2 DEF Sign
  <2> QED BY <1>5, <2>2, <2>3
<1>7. \A i \in A : Signed(tree'.edges)[i] = Signed(tree.edges)[i]
  BY <1>2, <1>4, <1>5 DEF Signed
<1>8. {i \in 1 .. n : i < pos + 1} = A \cup {pos}
  BY <1>2, <1>4
<1> HIDE DEF A
<1>9. Distinct(edge, eid + 1) /\ Promised(Signed(tree'.edges), A \cup {pos}, edge, eid + 1)
  BY <1>2, <1>3, <1>6, <1>7, PromiseNew, RecordIds
<1>10. {i \in 1 .. Len(tree'.edges) : i < pos'} = A \cup {pos}
  BY <1>1, <1>5, <1>8
<1>11. /\ Distinct(edge', eid')
       /\ Promised(Signed(tree'.edges), {i \in 1 .. Len(tree'.edges) : i < pos'}, edge', eid')
  BY <1>1, <1>9, <1>10
<1> QED BY <1>1, <1>11, Zenon DEF EdgeIds

LEMMA NegateEdgeIds == IInv /\ Negate => EdgeIds'
<1> SUFFICES ASSUME IInv, Negate PROVE EdgeIds'
  OBVIOUS
<1>1. pc = "negate" /\ pc' = "load vertices" /\ edge' = edge /\ eid' = eid
  BY Zenon DEF Negate
<1> DEFINE n == Len(tree.edges)
<1>2. tree \in Tree /\ n \in Nat
  BY Facts
<1>3. Promised(Signed(tree.edges), 1 .. n, edge, eid) /\ Distinct(edge, eid)
  BY <1>1, Zenon DEF IInv, EdgeIds
<1>4. Len(tree'.edges) = n /\ \A i \in 1 .. n : tree'.edges[i].id = -tree.edges[i].id
  BY <1>2, NegatedTree
<1>5. \A i \in 1 .. n : Ids(tree'.edges)[i] = Signed(tree.edges)[i]
  BY <1>4 DEF Ids, Signed
<1> HIDE DEF n
<1>6. Promised(Ids(tree'.edges), 1 .. n, edge, eid)
  BY <1>3, <1>5, PromiseLess
<1>7. Promised(Ids(tree'.edges), 1 .. Len(tree'.edges), edge', eid') /\ Distinct(edge', eid')
  BY <1>1, <1>3, <1>4, <1>6
<1> QED BY <1>1, <1>7, Zenon DEF EdgeIds

LEMMA LoadEdgeIds == IInv /\ LoadEdge => EdgeIds'
<1> SUFFICES ASSUME IInv, LoadEdge PROVE EdgeIds'
  OBVIOUS
<1>1. /\ pc = "load edges" /\ eid' = eid + 1 /\ pos' = pos + 1 /\ pc' = pc /\ tree' = tree
  BY Zenon DEF LoadEdge
<1> DEFINE n == Len(tree.edges)
           A == {i \in 1 .. n : i >= pos}
<1>2. PICK r \in EdgeRecord : edge' = Append(edge, r) /\ r.id = Ids(tree.edges)[pos]
  BY EdgeTaken DEF IInv
<1>3. pos \in 1 .. n
  BY EdgeTaken DEF IInv
<1>4. /\ edge \in Seq(EdgeRecord) /\ Distinct(edge, eid) /\ eid \in Nat /\ pos \in Nat
      /\ n \in Nat
  BY Facts
<1>5. Promised(Ids(tree.edges), A, edge, eid)
  BY <1>1, Zenon DEF IInv, EdgeIds
<1>6. pos \in A /\ {i \in 1 .. n : i >= pos + 1} = A \ {pos}
  BY <1>3, <1>4
<1> HIDE DEF A
<1>7. /\ Distinct(Append(edge, r), eid + 1)
      /\ Promised(Ids(tree.edges), A \ {pos}, Append(edge, r), eid + 1)
  BY <1>2, <1>4, <1>5, <1>6, DistinctPromised, RecordIds
<1>8. /\ Distinct(edge', eid')
      /\ Promised(Ids(tree'.edges), {i \in 1 .. Len(tree'.edges) : i >= pos'}, edge', eid')
  BY <1>1, <1>2, <1>6, <1>7
<1> QED BY <1>1, <1>8, Zenon DEF EdgeIds

LEMMA EndOfLoopEdgeIds == IInv /\ EndOfLoop => EdgeIds'
<1> SUFFICES ASSUME IInv, EndOfLoop PROVE EdgeIds'
  OBVIOUS
<1> DEFINE n == Len(tree.edges)
<1>1. /\ pc \in DOMAIN After /\ pos > Len(Elements) /\ pos' = 1 /\ pc' = After[pc]
      /\ edge' = edge /\ eid' = eid /\ tree' = tree
  BY DEF EndOfLoop, process
<1>2. Distinct(edge, eid)
  BY Facts
<1>3. CASE pc = "rename vertices"
  <2>1. pc' = "rename edges"
    BY <1>1, <1>3 DEF After
  <2>2. {i \in 1 .. Len(tree'.edges) : i < pos'} = {}
    BY <1>1, LoopStarts, Zenon
  <2>3. Promised(Signed(tree'.edges), {i \in 1 .. Len(tree'.edges) : i < pos'}, edge', eid')
    BY <2>2, PromiseNone, Zenon
  <2>4. Distinct(edge', eid')
    BY <1>1, <1>2
  <2> QED BY <2>1, <2>3, <2>4 DEF EdgeIds
<1>4. CASE pc = "rename edges"
  <2>1. pc' = "negate"
    BY <1>1, <1>4 DEF After
  <2>2. pos > n
    BY <1>1, <1>4 DEF Elements
  <2>3. {i \in 1 .. n : i < pos} = 1 .. n
    BY <2>2, Facts, LoopEnds
  <2>4. Promised(Signed(tree.edges), 1 .. n, edge, eid)
    BY <1>4, <2>3 DEF IInv, EdgeIds
  <2> QED BY <1>1, <1>2, <2>1, <2>4 DEF EdgeIds
<1>5. CASE pc = "load vertices"
  <2>1. pc' = "load edges"
    BY <1>1, <1>5 DEF After
  <2>2. {i \in 1 .. Len(tree'.edges) : i >= pos'} = 1 .. Len(tree'.edges)
    BY <1>1, LoopStarts, Zenon
  <2>3. Promised(Ids(tree.edges), 1 .. n, edge, eid)
    BY <1>5 DEF IInv, EdgeIds
  <2>4. Promised(Ids(tree'.edges), {i \in 1 .. Len(tree'.edges) : i >= pos'}, edge', eid')
    BY <1>1, <2>2, <2>3
  <2>5. Distinct(edge', eid')
    BY <1>1, <1>2
  <2> QED BY <2>1, <2>4, <2>5 DEF EdgeIds
<1>6. CASE pc = "load edges"
  <2>1. pc' = "return"
    BY <1>1, <1>6 DEF After
  <2> QED BY <1>1, <1>2, <2>1 DEF EdgeIds
<1>7. pc \in {"rename vertices", "rename edges", "load vertices", "load edges"}
  BY <1>1 DEF After
<1> QED BY <1>3, <1>4, <1>5, <1>6, <1>7

\* The steps that make no edge and take no id for one.
LEMMA OtherEdgeIds ==
  ASSUME IInv,
         \/ NewVertex \/ AppendVertex \/ AppendEdge \/ SaveGraph \/ SaveCrash \/ OpenFile
         \/ RenameVertex \/ LoadVertex \/ LoadStrayEdge \/ Return \/ Restart \/ UNCHANGED vars
  PROVE  EdgeIds'
<1>0. Distinct(edge, eid)
  BY Facts
<1>1. CASE NewVertex \/ AppendVertex \/ AppendEdge
  <2>1. edge' = edge /\ eid' = eid /\ pc' = "program"
    BY <1>1 DEF NewVertex, AppendVertex, AppendEdge, Building, Running
  <2> QED BY <1>0, <2>1 DEF EdgeIds
<1>2. CASE SaveGraph
  <2>1. edge' = edge /\ eid' = eid /\ pc' = "program"
    BY <1>2, Zenon DEF SaveGraph, Building, Running, process
  <2> QED BY <1>0, <2>1 DEF EdgeIds
<1>3. CASE SaveCrash \/ LoadStrayEdge \/ Return
  <2>1. edge' = edge /\ eid' = eid /\ pc' \in {"crashed", "undefined", "program"}
    BY <1>3 DEF SaveCrash, LoadStrayEdge, Return, process
  <2> QED BY <1>0, <2>1 DEF EdgeIds
<1>4. CASE OpenFile
  <2>1. edge' = edge /\ eid' = eid /\ pc' = "rename vertices"
    BY <1>4 DEF OpenFile, process
  <2> QED BY <1>0, <2>1 DEF EdgeIds
<1>5. CASE RenameVertex
  <2>1. edge' = edge /\ eid' = eid /\ pc' = "rename vertices"
    BY <1>5, Zenon DEF RenameVertex
  <2> QED BY <1>0, <2>1 DEF EdgeIds
<1>6. CASE LoadVertex
  <2>1. edge' = edge /\ eid' = eid /\ tree' = tree /\ pc = "load vertices" /\ pc' = pc
    BY <1>6, Zenon DEF LoadVertex
  <2>2. Promised(Ids(tree.edges), 1 .. Len(tree.edges), edge, eid)
    BY <2>1 DEF IInv, EdgeIds
  <2> QED BY <1>0, <2>1, <2>2 DEF EdgeIds
<1>7. CASE Restart
  <2>1. edge' = << >> /\ pc' = "program"
    BY <1>7 DEF Restart
  <2> QED BY <2>1 DEF EdgeIds, Distinct
<1>8. CASE UNCHANGED vars
  BY <1>8 DEF vars, process, reader, IInv, EdgeIds
<1> QED BY <1>1, <1>2, <1>3, <1>4, <1>5, <1>6, <1>7, <1>8

LEMMA StepEdgeIds == IInv /\ [Next]_vars => EdgeIds'
BY NewEdgeIds, DirectIds, RenameEdgeIds, NegateEdgeIds, LoadEdgeIds, EndOfLoopEdgeIds,
   OtherEdgeIds, Zenon DEF Next, Program, Reading

------------------------------------------------------------------------------

LEMMA GraphFileInvariance == Spec => []IInv
<1>1. Init => IInv
  <2> SUFFICES ASSUME Init PROVE IInv
    OBVIOUS
  <2>1. Types
    BY InitTypes
  <2>2. VertexIds /\ EdgeIds
    BY DEF Init, VertexIds, EdgeIds, Distinct
  <2> QED BY <2>1, <2>2 DEF IInv
<1>2. IInv /\ [Next]_vars => IInv'
  BY StepTypes, StepVertexIds, StepEdgeIds, Zenon DEF IInv
<1> QED BY <1>1, <1>2, PTL DEF Spec

\* Pointers and tables never leave what the process has made, and a table has
\* no edge that its graph was not asked to keep (Derivedtype.c:256-266,
\* 693-716; FileReadWrite.c:582-806).
THEOREM GraphFileTypeCorrect == Spec => []TypeOK
<1>1. IInv => TypeOK
  <2> SUFFICES ASSUME IInv PROVE TypeOK
    OBVIOUS
  <2>1. /\ vertex \in Seq(VertexRecord) /\ edge \in Seq(EdgeRecord) /\ graph \in Seq(GraphRecord)
        /\ DOMAIN vertex = 1 .. Len(vertex) /\ DOMAIN edge = 1 .. Len(edge)
        /\ DOMAIN graph = 1 .. Len(graph) /\ Len(vertex) \in Nat
    BY DEF IInv, Types, MadeOK
  <2>2. \A i \in DOMAIN vertex : vertex[i].id \in Nat /\ vertex[i].attr \in Value
    <3>1. ASSUME NEW x \in VertexRecord PROVE x.id \in Nat /\ x.attr \in Value
      BY DEF VertexRecord
    <3>2. \A i \in DOMAIN vertex : vertex[i] \in VertexRecord
      BY <2>1
    <3> QED BY <3>1, <3>2, Zenon
  <2>3. \A v \in 0 .. Len(vertex) : v \in DOMAIN vertex \cup {NULL}
    BY <2>1 DEF NULL
  <2>4. ASSUME NEW i \in DOMAIN edge
        PROVE  /\ edge[i].id \in Nat /\ edge[i].attr \in Value
               /\ {edge[i].start, edge[i].end} \subseteq DOMAIN vertex \cup {NULL}
    <3>1. edge[i] \in EdgeRecord
      BY <2>1
    <3>2. edge[i].start \in 0 .. Len(vertex) /\ edge[i].end \in 0 .. Len(vertex)
      BY <2>1 DEF IInv, Types, MadeOK, Ends
    <3>3. edge[i].id \in Nat /\ edge[i].attr \in Value
      BY <3>1 DEF EdgeRecord
    <3> QED BY <2>3, <3>2, <3>3
  <2>5. Len(appended) = Len(graph)
        /\ \A g \in DOMAIN graph :
             graph[g].vertices \subseteq DOMAIN vertex /\ graph[g].edges \subseteq appended[g]
    BY <2>1 DEF IInv, Types, MadeOK
  <2>6. {sv, ev} \subseteq DOMAIN vertex \cup {NULL}
    BY <2>3 DEF IInv, Types
  <2>7. vid \in Nat /\ eid \in Nat /\ pos \in Nat
    BY DEF IInv, Types
  <2> QED BY <2>2, <2>4, <2>5, <2>6, <2>7 DEF TypeOK
<1> QED BY <1>1, GraphFileInvariance, PTL

\* Whatever files are read, and however often, no two vertices and no two edges
\* of a process have the same id (FileReadWrite.c:325-463 take new ids for those
\* of the file; Derivedtype.c:13-21).
THEOREM IdsAreUnique == Spec => []IdsUnique
<1>1. IInv => IdsUnique
  <2> SUFFICES ASSUME IInv PROVE IdsUnique
    OBVIOUS
  <2>1. DOMAIN vertex = 1 .. Len(vertex) /\ DOMAIN edge = 1 .. Len(edge)
    BY DEF IInv, Types, MadeOK
  <2> QED BY <2>1 DEF IdsUnique, IInv, VertexIds, EdgeIds, Distinct
<1> QED BY <1>1, GraphFileInvariance, PTL

------------------------------------------------------------------------------
(* The inductive invariant: what the tree and the process hold of the      *)
(* graph that was saved.  Positions stand for vertices: an id of the file  *)
(* names the vertex at the position of the first element that has it.      *)

\* An id in a tree for the vertex at position v of the saved graph, if it had one there.
RefersTo(id, v, t) == v \in 0 .. Len(t.vertices) /\ (v # NULL => id = t.vertices[v].id)

\* Tree t holds the saved graph s.
Carries(t, s) ==
  /\ DOMAIN s.vertices = 1 .. Len(t.vertices) /\ DOMAIN s.edges = 1 .. Len(t.edges)
  /\ \A k \in 1 .. Len(t.vertices) : t.vertices[k].attr = s.vertices[k]
  /\ \A k \in 1 .. Len(t.edges) :
       /\ t.edges[k].attr = s.edges[k].attr
       /\ RefersTo(t.edges[k].start, s.edges[k].start, t)
       /\ RefersTo(t.edges[k].end, s.edges[k].end, t)

\* The vertices of t from position p on have ids of the file: positive and distinct.
OldIds(t, p) ==
  /\ \A i \in 1 .. Len(t.vertices) : i >= p => t.vertices[i].id > 0
  /\ \A i, j \in 1 .. Len(t.vertices) :
       i >= p /\ j >= p /\ t.vertices[i].id = t.vertices[j].id => i = j

\* The last n of the vertices vs are the first n of tree t, and they are V.
VerticesRead(n, vs, V, t, s) ==
  /\ n <= Len(vs)
  /\ V = Len(vs) - n + 1 .. Len(vs)
  /\ \A k \in 1 .. n : /\ vs[Len(vs) - n + k].id = t.vertices[k].id
                       /\ vs[Len(vs) - n + k].attr = ReadBack(s.vertices[k])

\* Edge e is edge s of the saved graph, its vertices numbered from base on.
ReadFrom(e, s, base) ==
  /\ s.start # NULL => e.start = base + s.start
  /\ s.end # NULL => e.end = base + s.end
  /\ e.attr = ReadBack(s.attr)

\* The last n of the edges es are the first n of the saved graph s.
EdgesRead(n, es, s, base) ==
  /\ n <= Len(es)
  /\ \A k \in 1 .. n : ReadFrom(es[Len(es) - n + k], s.edges[k], base)

\* Of the tree, n vertices are loaded, or n edges; the vertices are all of the new graph.
LoadedVertices(n) == VerticesRead(n, vertex, graph[Len(graph)].vertices, tree, saved)
LoadedEdges(n)    == EdgesRead(n, edge, saved, Base)

ReadingState ==
  {"rename vertices", "rename edges", "negate", "load vertices", "load edges", "return"}

Trip ==
  /\ Carries(file, saved) /\ OldIds(file, 1)
  /\ pc \in ReadingState => Carries(tree, saved)
  /\ pc = "rename vertices" => OldIds(tree, pos)
  /\ pc = "load vertices" => pos <= Len(tree.vertices) + 1 /\ LoadedVertices(pos - 1)
  /\ pc \in {"load edges", "return"} => LoadedVertices(Len(tree.vertices))
  /\ pc = "load edges" => pos <= Len(tree.edges) + 1 /\ LoadedEdges(pos - 1)
  /\ pc = "return" => LoadedEdges(Len(tree.edges))

------------------------------------------------------------------------------
(* Saving and reading back.                                                *)

\* An order of a set of objects made meets each of them once.
LEMMA OrderMeetsOnce ==
  ASSUME NEW n \in Nat, NEW S \in SUBSET (1 .. n), NEW s \in Orders(S)
  PROVE  \A i, j \in DOMAIN s : s[i] = s[j] => i = j
<1>a. IsFiniteSet(1 .. n)
  BY FS_Interval
<1>b. IsFiniteSet(S)
  BY <1>a, FS_Subset
<1>1. IsFiniteSet(S) /\ Cardinality(S) \in Nat
  BY <1>b, FS_CardinalityType
<1> DEFINE D == 1 .. Cardinality(S)
<1>2. s \in [D -> S] /\ \A x \in S : \E i \in D : s[i] = x
  BY DEF Orders, Range
<1>3. IsFiniteSet(D) /\ Cardinality(D) = Cardinality(S)
  BY <1>1, FS_Interval
<1> HIDE DEF D
<1>4. s \in Surjection(D, S)
  BY <1>2 DEF Surjection
<1>5. s \in Injection(D, S)
  BY <1>1, <1>3, <1>4, FS_SurjSameCardinalityImpliesInj
<1> QED BY <1>2, <1>5 DEF Injection, IsInjective

\* The position of an object in an order, if it has one.
LEMMA IndexFinds ==
  ASSUME NEW S, NEW s \in Seq(S), NEW x
  PROVE  Index(s, x) \in 0 .. Len(s) /\ (Index(s, x) # NULL => s[Index(s, x)] = x)
<1>1. DOMAIN s = 1 .. Len(s) /\ Len(s) \in Nat
  OBVIOUS
<1>2. CASE x \in Range(s)
  <2>1. PICK i \in DOMAIN s : s[i] = x
    BY <1>2 DEF Range
  <2>2. Index(s, x) \in DOMAIN s /\ s[Index(s, x)] = x
    BY <1>2, <2>1 DEF Index
  <2> QED BY <1>1, <2>2
<1>3. CASE x \notin Range(s)
  BY <1>1, <1>3 DEF Index, NULL
<1> QED BY <1>2, <1>3

\* What saveGraph writes of an edge: ids for pointers.
LEMMA EdgeWritten ==
  ASSUME NEW x \in EdgeRecord
  PROVE  LET w == [x EXCEPT !.start = vertex[@].id, !.end = vertex[@].id] IN
         w.start = vertex[x.start].id /\ w.end = vertex[x.end].id /\ w.attr = x.attr
<1>1. ASSUME NEW a, NEW b
      PROVE  /\ [x EXCEPT !.start = a, !.end = b].start = a
             /\ [x EXCEPT !.start = a, !.end = b].end = b
             /\ [x EXCEPT !.start = a, !.end = b].attr = x.attr
  BY DEF EdgeRecord
<1> QED BY <1>1

\* The file holds the graph it is written from, whatever the order of the tables.
LEMMA SaveGraphTrip == IInv /\ SaveGraph => Carries(file', saved') /\ OldIds(file', 1)
<1> SUFFICES ASSUME IInv, SaveGraph PROVE Carries(file', saved') /\ OldIds(file', 1)
  OBVIOUS
<1>1. PICK g \in DOMAIN graph :
        \E vs \in Orders(graph[g].vertices), es \in Orders(graph[g].edges) :
          /\ file' =
               [vertices |-> [i \in DOMAIN vs |-> vertex[vs[i]]],
                edges |-> [i \in DOMAIN es |->
                  [edge[es[i]] EXCEPT !.start = vertex[@].id, !.end = vertex[@].id]],
                saves |-> file.saves + 1]
          /\ saved' =
               [vertices |-> [i \in DOMAIN vs |-> vertex[vs[i]].attr],
                edges |-> [i \in DOMAIN es |->
                  [start |-> Index(vs, edge[es[i]].start),
                   end |-> Index(vs, edge[es[i]].end), attr |-> edge[es[i]].attr]]]
  BY Zenon DEF SaveGraph
<1>2. PICK vs \in Orders(graph[g].vertices), es \in Orders(graph[g].edges) :
          /\ file' =
               [vertices |-> [i \in DOMAIN vs |-> vertex[vs[i]]],
                edges |-> [i \in DOMAIN es |->
                  [edge[es[i]] EXCEPT !.start = vertex[@].id, !.end = vertex[@].id]],
                saves |-> file.saves + 1]
          /\ saved' =
               [vertices |-> [i \in DOMAIN vs |-> vertex[vs[i]].attr],
                edges |-> [i \in DOMAIN es |->
                  [start |-> Index(vs, edge[es[i]].start),
                   end |-> Index(vs, edge[es[i]].end), attr |-> edge[es[i]].attr]]]
  BY <1>1, Zenon
<1>3. /\ vertex \in Seq(VertexRecord) /\ edge \in Seq(EdgeRecord) /\ g \in 1 .. Len(graph)
      /\ Len(vertex) \in Nat /\ Len(edge) \in Nat
      /\ graph[g].vertices \in SUBSET (1 .. Len(vertex)) /\ graph[g].edges \in SUBSET (1 .. Len(edge))
  BY DEF IInv, Types, MadeOK
<1>4. vs \in Seq(graph[g].vertices) /\ es \in Seq(graph[g].edges)
  BY <1>3, OrderOfMade
<1>5. \A i, j \in DOMAIN vs : vs[i] = vs[j] => i = j
  BY <1>3, OrderMeetsOnce
<1>6. /\ Len(vs) \in Nat /\ DOMAIN vs = 1 .. Len(vs) /\ Len(es) \in Nat /\ DOMAIN es = 1 .. Len(es)
      /\ \A i \in 1 .. Len(vs) : vs[i] \in 1 .. Len(vertex)
      /\ \A i \in 1 .. Len(es) : es[i] \in 1 .. Len(edge) /\ edge[es[i]] \in EdgeRecord
  BY <1>3, <1>4
<1> DEFINE V  == [i \in DOMAIN vs |-> vertex[vs[i]]]
           E  == [i \in DOMAIN es |->
                   [edge[es[i]] EXCEPT !.start = vertex[@].id, !.end = vertex[@].id]]
           SV == [i \in DOMAIN vs |-> vertex[vs[i]].attr]
           SE == [i \in DOMAIN es |->
                   [start |-> Index(vs, edge[es[i]].start),
                    end |-> Index(vs, edge[es[i]].end), attr |-> edge[es[i]].attr]]
<1>7. /\ file'.vertices = V /\ file'.edges = E /\ saved'.vertices = SV /\ saved'.edges = SE
  BY <1>2
<1>8. /\ Len(V) = Len(vs) /\ DOMAIN SV = 1 .. Len(vs) /\ Len(E) = Len(es) /\ DOMAIN SE = 1 .. Len(es)
  BY <1>6
<1>9. \A k \in 1 .. Len(vs) : V[k] = vertex[vs[k]] /\ SV[k] = vertex[vs[k]].attr
  BY <1>6
<1>10. ASSUME NEW k \in 1 .. Len(es)
       PROVE  LET e == edge[es[k]] IN
              /\ E[k].start = vertex[e.start].id /\ E[k].end = vertex[e.end].id /\ E[k].attr = e.attr
              /\ SE[k].start = Index(vs, e.start) /\ SE[k].end = Index(vs, e.end) /\ SE[k].attr = e.attr
  <2>1. E[k] = [edge[es[k]] EXCEPT !.start = vertex[@].id, !.end = vertex[@].id]
    BY <1>6
  <2>2. /\ E[k].start = vertex[edge[es[k]].start].id /\ E[k].end = vertex[edge[es[k]].end].id
        /\ E[k].attr = edge[es[k]].attr
    BY <1>6, <2>1, EdgeWritten
  <2>3. SE[k] = [start |-> Index(vs, edge[es[k]].start),
                 end |-> Index(vs, edge[es[k]].end), attr |-> edge[es[k]].attr]
    BY <1>6
  <2> HIDE DEF E, SE
  <2> QED BY <2>2, <2>3
<1> HIDE DEF V, E, SV, SE
<1>11. ASSUME NEW x
       PROVE  RefersTo(vertex[x].id, Index(vs, x), file')
  <2>1. Index(vs, x) \in 0 .. Len(vs) /\ (Index(vs, x) # NULL => vs[Index(vs, x)] = x)
    BY <1>4, IndexFinds
  <2>2. Index(vs, x) # NULL => V[Index(vs, x)].id = vertex[x].id
    BY <1>6, <1>9, <2>1 DEF NULL
  <2> QED BY <1>7, <1>8, <2>1, <2>2 DEF RefersTo
<1>12. Carries(file', saved')
  <2>1. \A k \in 1 .. Len(es) :
          /\ E[k].attr = SE[k].attr
          /\ RefersTo(E[k].start, SE[k].start, file') /\ RefersTo(E[k].end, SE[k].end, file')
    BY <1>10, <1>11
  <2>2. \A k \in 1 .. Len(vs) : V[k].attr = SV[k]
    BY <1>9
  <2> QED BY <1>7, <1>8, <2>1, <2>2 DEF Carries
<1>13. OldIds(file', 1)
  <2>1. Distinct(vertex, vid)
    BY DEF IInv, VertexIds
  <2>2. \A i \in 1 .. Len(vs) : V[i].id > 0
    BY <1>6, <1>9, <2>1 DEF Distinct
  <2>3. \A i, j \in 1 .. Len(vs) : V[i].id = V[j].id => i = j
    BY <1>5, <1>6, <1>9, <2>1 DEF Distinct
  <2> QED BY <1>7, <1>8, <2>2, <2>3 DEF OldIds
<1> QED BY <1>12, <1>13

\* What a turn of the first loop of readGraph does to attributes and ends.
LEMMA RenamedParts ==
  ASSUME NEW t \in Tree, NEW i \in 1 .. Len(t.vertices), NEW new \in Int
  PROVE  LET u == Renamed(t, i, new)
             old == t.vertices[i].id IN
         /\ \A j \in 1 .. Len(t.vertices) : u.vertices[j].attr = t.vertices[j].attr
         /\ \A j \in 1 .. Len(t.edges) :
              /\ u.edges[j].start = Rename(old, new, t.edges[j].start)
              /\ u.edges[j].end = Rename(old, new, t.edges[j].end)
              /\ u.edges[j].attr = t.edges[j].attr
<1> DEFINE vs == [t.vertices EXCEPT ![i].id = new]
           old == t.vertices[i].id
           es == [j \in DOMAIN t.edges |-> EndsRenamed(t.edges[j], old, new)]
<1>1. /\ t.vertices \in Seq(VertexElement) /\ t.edges \in Seq(EdgeElement)
      /\ DOMAIN t.edges = 1 .. Len(t.edges)
  BY DEF Tree
<1>2. ASSUME NEW j \in 1 .. Len(t.vertices) PROVE vs[j].attr = t.vertices[j].attr
  <2>1. ASSUME NEW x \in VertexElement PROVE [x EXCEPT !.id = new].attr = x.attr
    BY DEF VertexElement
  <2>2. t.vertices[i] \in VertexElement
    BY <1>1
  <2>3. vs[i] = [t.vertices[i] EXCEPT !.id = new] /\ (j # i => vs[j] = t.vertices[j])
    BY <1>1
  <2>4. vs[i].attr = t.vertices[i].attr
    BY <2>1, <2>2, <2>3, Zenon
  <2> HIDE DEF vs
  <2> QED BY <2>3, <2>4
<1>3. ASSUME NEW j \in 1 .. Len(t.edges)
      PROVE  /\ es[j].start = Rename(old, new, t.edges[j].start)
             /\ es[j].end = Rename(old, new, t.edges[j].end)
             /\ es[j].attr = t.edges[j].attr
  <2>1. ASSUME NEW x \in EdgeElement, NEW a, NEW b
        PROVE  /\ [x EXCEPT !.start = a, !.end = b].start = a
               /\ [x EXCEPT !.start = a, !.end = b].end = b
               /\ [x EXCEPT !.start = a, !.end = b].attr = x.attr
    BY DEF EdgeElement
  <2>2. t.edges[j] \in EdgeElement
    BY <1>1
  <2>3. es[j] = EndsRenamed(t.edges[j], old, new)
    BY <1>1
  <2> HIDE DEF es, old
  <2> QED BY <2>1, <2>2, <2>3 DEF EndsRenamed
<1>4. Renamed(t, i, new).vertices = vs /\ Renamed(t, i, new).edges = es
  <2> DEFINE one == [t EXCEPT !.vertices[i].id = new]
  <2>1. Renamed(t, i, new) = [one EXCEPT !.edges = es]
    BY Zenon DEF Renamed, es
  <2>2. one = [t EXCEPT !.vertices = vs]
    BY DEF vs
  <2> HIDE DEF vs, es
  <2>3. Renamed(t, i, new) = [t EXCEPT !.vertices = vs, !.edges = es]
    BY <2>1, <2>2
  <2>4. /\ [t EXCEPT !.vertices = vs, !.edges = es].vertices = vs
        /\ [t EXCEPT !.vertices = vs, !.edges = es].edges = es
    BY DEF Tree
  <2> QED BY <2>3, <2>4
<1> HIDE DEF vs, es
<1> QED BY <1>2, <1>3, <1>4

\* An id that named the vertex at v names it still, the vertex at i renamed.
LEMMA RefersStill ==
  ASSUME NEW t, NEW u, NEW i, NEW new, NEW v, NEW id,
         Len(u.vertices) = Len(t.vertices), i \in 1 .. Len(t.vertices), Len(t.vertices) \in Nat,
         u.vertices[i].id = new,
         \A j \in 1 .. Len(t.vertices) : j # i =>
           u.vertices[j] = t.vertices[j] /\ t.vertices[j].id # t.vertices[i].id,
         RefersTo(id, v, t)
  PROVE  RefersTo(Rename(t.vertices[i].id, new, id), v, u)
<1>1. CASE v = NULL
  BY <1>1 DEF RefersTo, NULL
<1>2. CASE v # NULL
  <2>1. v \in 1 .. Len(t.vertices) /\ id = t.vertices[v].id
    BY <1>2 DEF RefersTo, NULL
  <2>2. Rename(t.vertices[i].id, new, id) = u.vertices[v].id
    BY <2>1 DEF Rename
  <2> QED BY <2>1, <2>2 DEF RefersTo, NULL
<1> QED BY <1>1, <1>2

\* No other vertex of the tree has the id that is replaced: those before it have
\* negative ids, those after it other ids of the file.
LEMMA OldIdAlone ==
  ASSUME IInv, Trip, RenameVertex
  PROVE  \A j \in 1 .. Len(tree.vertices) :
           j # pos => tree.vertices[j].id # tree.vertices[pos].id
<1>1. pc = "rename vertices" /\ pos \in DOMAIN tree.vertices
  BY Zenon DEF RenameVertex
<1>2. pos \in 1 .. Len(tree.vertices) /\ pos \in Nat /\ Len(tree.vertices) \in Nat
      /\ tree.vertices \in Seq(VertexElement)
  BY <1>1, Facts
<1>3. OldIds(tree, pos)
  BY <1>1 DEF Trip
<1>4. Promised(Signed(tree.vertices), {i \in 1 .. Len(tree.vertices) : i < pos}, vertex, vid)
  BY <1>1 DEF IInv, VertexIds
<1>5. ASSUME NEW j \in 1 .. Len(tree.vertices) PROVE tree.vertices[j].id \in Int
  <2>1. tree.vertices[j] \in VertexElement
    BY <1>2
  <2> QED BY <2>1 DEF VertexElement
<1>6. ASSUME NEW j \in 1 .. Len(tree.vertices), j < pos PROVE tree.vertices[j].id < 0
  <2>1. Signed(tree.vertices)[j] = -tree.vertices[j].id
    BY DEF Signed
  <2>2. Signed(tree.vertices)[j] > 0
    BY <1>4, <1>6 DEF Promised
  <2> QED BY <1>5, <2>1, <2>2
<1>7. tree.vertices[pos].id > 0
  BY <1>2, <1>3 DEF OldIds
<1>8. ASSUME NEW j \in 1 .. Len(tree.vertices), j # pos
      PROVE  tree.vertices[j].id # tree.vertices[pos].id
  <2>1. CASE j < pos
    BY <1>2, <1>5, <1>6, <1>7, <2>1
  <2>2. CASE j > pos
    BY <1>2, <1>3, <1>8, <2>2 DEF OldIds
  <2> QED BY <1>2, <1>8, <2>1, <2>2
<1> QED BY <1>8

LEMMA RenameVertexTrip == IInv /\ Trip /\ RenameVertex => Trip'
<1> SUFFICES ASSUME IInv, Trip, RenameVertex PROVE Trip'
  OBVIOUS
<1> DEFINE n == Len(tree.vertices)
           old == tree.vertices[pos].id
           new == Sign(vid)
<1>1. /\ pc = "rename vertices" /\ pos \in DOMAIN tree.vertices
      /\ tree' = Renamed(tree, pos, new) /\ pos' = pos + 1
      /\ pc' = pc /\ file' = file /\ saved' = saved
  BY Zenon DEF RenameVertex
<1>2. tree \in Tree /\ pos \in 1 .. n /\ pos \in Nat /\ n \in Nat /\ new \in Int
  <2>1. /\ tree \in Tree /\ pos \in Nat /\ vid \in Nat /\ n \in Nat
        /\ pos \in 1 .. n
    BY <1>1, Facts
  <2> QED BY <2>1 DEF Sign
<1> HIDE DEF new
<1>3. /\ Len(tree'.vertices) = n /\ tree'.vertices[pos].id = new
      /\ \A j \in 1 .. n : j # pos => tree'.vertices[j] = tree.vertices[j]
      /\ Len(tree'.edges) = Len(tree.edges)
  BY <1>1, <1>2, RenamedTree
<1>4. /\ \A j \in 1 .. n : tree'.vertices[j].attr = tree.vertices[j].attr
      /\ \A j \in 1 .. Len(tree.edges) :
           /\ tree'.edges[j].start = Rename(old, new, tree.edges[j].start)
           /\ tree'.edges[j].end = Rename(old, new, tree.edges[j].end)
           /\ tree'.edges[j].attr = tree.edges[j].attr
  BY <1>1, <1>2, RenamedParts
<1>5. \A j \in 1 .. n : j # pos => tree.vertices[j].id # old
  BY OldIdAlone
<1>6. Carries(tree, saved) /\ OldIds(tree, pos) /\ Carries(file, saved) /\ OldIds(file, 1)
  BY <1>1 DEF Trip, ReadingState
<1>7. ASSUME NEW id, NEW v, RefersTo(id, v, tree) PROVE RefersTo(Rename(old, new, id), v, tree')
  BY <1>2, <1>3, <1>5, <1>7, RefersStill
<1>8. Carries(tree', saved)
  <2>1. \A k \in 1 .. n : tree'.vertices[k].attr = saved.vertices[k]
    BY <1>4, <1>6 DEF Carries
  <2>2. ASSUME NEW k \in 1 .. Len(tree.edges)
        PROVE  /\ tree'.edges[k].attr = saved.edges[k].attr
               /\ RefersTo(tree'.edges[k].start, saved.edges[k].start, tree')
               /\ RefersTo(tree'.edges[k].end, saved.edges[k].end, tree')
    <3>1. /\ tree.edges[k].attr = saved.edges[k].attr
          /\ RefersTo(tree.edges[k].start, saved.edges[k].start, tree)
          /\ RefersTo(tree.edges[k].end, saved.edges[k].end, tree)
      BY <1>6 DEF Carries
    <3> HIDE DEF old
    <3> QED BY <1>4, <1>7, <3>1
  <2>3. DOMAIN saved.vertices = 1 .. n /\ DOMAIN saved.edges = 1 .. Len(tree.edges)
    BY <1>6 DEF Carries
  <2> QED BY <1>3, <2>1, <2>2, <2>3 DEF Carries
<1>9. OldIds(tree', pos + 1)
  <2>1. \A i \in 1 .. n : i >= pos + 1 => tree'.vertices[i] = tree.vertices[i] /\ i >= pos
    BY <1>2, <1>3
  <2> QED BY <1>3, <1>6, <2>1 DEF OldIds
<1> QED BY <1>1, <1>6, <1>8, <1>9 DEF Trip

LEMMA RenameEdgeTrip == IInv /\ Trip /\ RenameEdge => Trip'
<1> SUFFICES ASSUME IInv, Trip, RenameEdge PROVE Trip'
  OBVIOUS
<1> DEFINE u == [tree EXCEPT !.edges[pos].id = Sign(eid)]
<1>1. /\ pc = "rename edges" /\ pos \in DOMAIN tree.edges /\ tree' = u
      /\ pc' = pc /\ file' = file /\ saved' = saved
  BY Zenon DEF RenameEdge
<1>2. /\ tree \in Tree /\ tree.edges \in Seq(EdgeElement) /\ eid \in Nat
      /\ pos \in 1 .. Len(tree.edges)
  BY <1>1, Facts
<1>3. Sign(eid) \in Int
  BY <1>2 DEF Sign
<1>4. /\ u.vertices = tree.vertices /\ Len(u.edges) = Len(tree.edges)
      /\ \A j \in 1 .. Len(tree.edges) : j # pos => u.edges[j] = tree.edges[j]
  BY <1>2, <1>3, EdgeRenamed
<1>5. /\ u.edges[pos].start = tree.edges[pos].start /\ u.edges[pos].end = tree.edges[pos].end
      /\ u.edges[pos].attr = tree.edges[pos].attr
  <2>1. ASSUME NEW x \in EdgeElement, NEW a
        PROVE  /\ [x EXCEPT !.id = a].start = x.start /\ [x EXCEPT !.id = a].end = x.end
               /\ [x EXCEPT !.id = a].attr = x.attr
    BY DEF EdgeElement
  <2>2. tree.edges[pos] \in EdgeElement
    BY <1>2
  <2>3. u.edges[pos] = [tree.edges[pos] EXCEPT !.id = Sign(eid)]
    BY <1>2 DEF Tree
  <2> HIDE DEF u
  <2> QED BY <2>1, <2>2, <2>3
<1>6. Carries(tree, saved) /\ Carries(file, saved) /\ OldIds(file, 1)
  BY <1>1 DEF Trip, ReadingState
<1> HIDE DEF u
<1>7. Carries(u, saved)
  <2>1. \A k \in 1 .. Len(tree.edges) :
          /\ u.edges[k].start = tree.edges[k].start /\ u.edges[k].end = tree.edges[k].end
          /\ u.edges[k].attr = tree.edges[k].attr
    BY <1>2, <1>4, <1>5
  <2>2. \A id, v : RefersTo(id, v, tree) => RefersTo(id, v, u)
    BY <1>4 DEF RefersTo
  <2> QED BY <1>4, <1>6, <2>1, <2>2 DEF Carries
<1> QED BY <1>1, <1>6, <1>7 DEF Trip

\* The signs are taken from the ids and from the references to them alike.
LEMMA NegatedParts ==
  ASSUME tree \in Tree, Negate
  PROVE  /\ \A i \in 1 .. Len(tree.vertices) : tree'.vertices[i].attr = tree.vertices[i].attr
         /\ \A i \in 1 .. Len(tree.edges) :
              /\ tree'.edges[i].start = -tree.edges[i].start
              /\ tree'.edges[i].end = -tree.edges[i].end
              /\ tree'.edges[i].attr = tree.edges[i].attr
<1> DEFINE vs == [i \in DOMAIN tree.vertices |-> VertexNegated(tree.vertices[i])]
           es == [i \in DOMAIN tree.edges |-> EdgeNegated(tree.edges[i])]
<1>1. tree.vertices \in Seq(VertexElement) /\ tree.edges \in Seq(EdgeElement)
  BY DEF Tree
<1>2. ASSUME NEW x \in VertexElement PROVE VertexNegated(x).attr = x.attr
  BY DEF VertexElement, VertexNegated
<1>3. ASSUME NEW x \in EdgeElement
      PROVE  /\ EdgeNegated(x).start = -x.start /\ EdgeNegated(x).end = -x.end
             /\ EdgeNegated(x).attr = x.attr
  <2>1. ASSUME NEW a, NEW b, NEW c
        PROVE  /\ [x EXCEPT !.id = a, !.start = b, !.end = c].start = b
               /\ [x EXCEPT !.id = a, !.start = b, !.end = c].end = c
               /\ [x EXCEPT !.id = a, !.start = b, !.end = c].attr = x.attr
    BY DEF EdgeElement
  <2> QED BY <2>1 DEF EdgeNegated, Sign
<1>4. /\ \A i \in DOMAIN tree.vertices : tree.vertices[i] \in VertexElement
      /\ \A i \in DOMAIN tree.edges : tree.edges[i] \in EdgeElement
      /\ DOMAIN tree.vertices = 1 .. Len(tree.vertices) /\ DOMAIN tree.edges = 1 .. Len(tree.edges)
  BY <1>1
<1>5. ASSUME NEW i \in DOMAIN tree.vertices PROVE vs[i].attr = tree.vertices[i].attr
  BY <1>2, <1>4
<1>6. ASSUME NEW i \in DOMAIN tree.edges
      PROVE  /\ es[i].start = -tree.edges[i].start /\ es[i].end = -tree.edges[i].end
             /\ es[i].attr = tree.edges[i].attr
  BY <1>3, <1>4
<1>7. tree' = [tree EXCEPT !.vertices = vs, !.edges = es]
  BY Zenon DEF Negate
<1> HIDE DEF vs, es
<1>8. tree'.vertices = vs /\ tree'.edges = es
  BY <1>7 DEF Tree
<1> QED BY <1>4, <1>5, <1>6, <1>8

LEMMA LastAppended ==
  ASSUME NEW S, NEW s \in Seq(S), NEW x
  PROVE  Append(s, x)[Len(Append(s, x))] = x
OBVIOUS

\* No vertex is loaded when the new graph is made.
LEMMA NegateTrip == IInv /\ Trip /\ Negate => Trip'
<1> SUFFICES ASSUME IInv, Trip, Negate PROVE Trip'
  OBVIOUS
<1> DEFINE n == Len(tree.vertices)
           m == Len(tree.edges)
<1>1. /\ pc = "negate" /\ pc' = "load vertices" /\ pos' = 1
      /\ graph' = Append(graph, NoGraph) /\ file' = file /\ saved' = saved /\ vertex' = vertex
  BY Zenon DEF Negate
<1>2. tree \in Tree /\ n \in Nat /\ m \in Nat /\ vertex \in Seq(VertexRecord) /\ graph \in Seq(GraphRecord)
  BY Facts DEF IInv, Types, MadeOK
<1>3. /\ Len(tree'.vertices) = n /\ Len(tree'.edges) = m
      /\ \A i \in 1 .. n : tree'.vertices[i].id = -tree.vertices[i].id
  BY <1>2, NegatedTree
<1>4. /\ \A i \in 1 .. n : tree'.vertices[i].attr = tree.vertices[i].attr
      /\ \A i \in 1 .. m :
           /\ tree'.edges[i].start = -tree.edges[i].start /\ tree'.edges[i].end = -tree.edges[i].end
           /\ tree'.edges[i].attr = tree.edges[i].attr
  BY <1>2, NegatedParts
<1>5. Carries(tree, saved) /\ Carries(file, saved) /\ OldIds(file, 1)
  BY <1>1 DEF Trip, ReadingState
<1>6. ASSUME NEW id, NEW v, RefersTo(id, v, tree) PROVE RefersTo(-id, v, tree')
  <2>1. v \in 0 .. n /\ (v # NULL => v \in 1 .. n /\ id = tree.vertices[v].id)
    BY <1>2, <1>6 DEF RefersTo, NULL
  <2> QED BY <1>3, <2>1 DEF RefersTo
<1>7. Carries(tree', saved)
  <2>1. ASSUME NEW k \in 1 .. m
        PROVE  /\ tree'.edges[k].attr = saved.edges[k].attr
               /\ RefersTo(tree'.edges[k].start, saved.edges[k].start, tree')
               /\ RefersTo(tree'.edges[k].end, saved.edges[k].end, tree')
    <3>1. /\ tree.edges[k].attr = saved.edges[k].attr
          /\ RefersTo(tree.edges[k].start, saved.edges[k].start, tree)
          /\ RefersTo(tree.edges[k].end, saved.edges[k].end, tree)
      BY <1>5 DEF Carries
    <3> QED BY <1>4, <1>6, <3>1
  <2>2. /\ \A k \in 1 .. n : tree'.vertices[k].attr = saved.vertices[k]
        /\ DOMAIN saved.vertices = 1 .. n /\ DOMAIN saved.edges = 1 .. m
    BY <1>4, <1>5 DEF Carries
  <2> QED BY <1>3, <2>1, <2>2 DEF Carries
<1>a. Len(vertex) \in Nat
  BY <1>2
<1>8. pos' - 1 = 0 /\ pos' <= n + 1
  <2> HIDE DEF n
  <2>1. n \in Nat
    BY <1>2 DEF n
  <2>2. pos' = 1
    BY <1>1
  <2> QED BY <2>1, <2>2
<1>9. LoadedVertices(pos - 1)'
  <2>1. graph'[Len(graph')] = NoGraph
    BY <1>1, <1>2, LastAppended
  <2>2. graph'[Len(graph')].vertices = {}
    BY <2>1 DEF NoGraph
  <2>3. Len(vertex') = Len(vertex)
    BY <1>1
  <2>4. Len(vertex) - 0 + 1 .. Len(vertex) = {}
    BY <1>a
  <2> QED BY <1>a, <1>8, <2>2, <2>3, <2>4 DEF LoadedVertices, VerticesRead
<1>10. pos' <= Len(tree'.vertices) + 1
  BY <1>3, <1>8
<1> QED BY <1>1, <1>5, <1>7, <1>9, <1>10 DEF Trip

\* A graph gets a vertex whose id none of its vertices has.
LEMMA InsertedNew ==
  ASSUME NEW gr \in GraphRecord, NEW made, NEW x,
         \A w \in gr.vertices : made[w].id # made[x].id
  PROVE  g_insert_v(gr, made, x).vertices = gr.vertices \cup {x}
<1>1. [gr EXCEPT !.vertices = @ \cup {x}].vertices = gr.vertices \cup {x}
  BY DEF GraphRecord
<1> QED BY <1>1 DEF g_insert_v

LEMMA NextTurn ==
  ASSUME NEW p \in Nat, NEW n \in Nat
  PROVE  /\ p + 1 - 1 = p /\ (p \in 1 .. n => p + 1 <= n + 1)
         /\ (p - 1 <= n => p <= n + 1)
OBVIOUS

LEMMA GraphChanged ==
  ASSUME NEW gs \in Seq(GraphRecord), NEW g \in 1 .. Len(gs), NEW G
  PROVE  Len([gs EXCEPT ![g] = G]) = Len(gs) /\ [gs EXCEPT ![g] = G][g] = G
OBVIOUS

LEMMA LoadVertexTrip == IInv /\ VertexIds' /\ Trip /\ LoadVertex => Trip'
<1> SUFFICES ASSUME IInv, VertexIds', Trip, LoadVertex PROVE Trip'
  OBVIOUS
<1> DEFINE r == [id |-> tree.vertices[pos].id, attr |-> ReadBack(tree.vertices[pos].attr)]
           n == Len(vertex)
           l == Len(graph)
           gr == graph[l]
<1>1. /\ pc = "load vertices" /\ pos' = pos + 1 /\ pc' = pc /\ tree' = tree
      /\ file' = file /\ saved' = saved
      /\ graph' = [graph EXCEPT ![l] = g_insert_v(gr, vertex', Len(vertex'))]
  BY DEF LoadVertex
<1>2. pos \in 1 .. Len(tree.vertices) /\ r \in VertexRecord /\ vertex' = Append(vertex, r)
  BY VertexTaken DEF IInv
<1>3. /\ vertex \in Seq(VertexRecord) /\ n \in Nat /\ Len(tree.vertices) \in Nat /\ pos \in Nat
      /\ graph \in Seq(GraphRecord) /\ l \in 1 .. Len(graph) /\ gr \in GraphRecord
      /\ gr.vertices \subseteq 1 .. n
  BY Facts DEF IInv, Types, MadeOK
<1>4. /\ Carries(tree, saved) /\ Carries(file, saved) /\ OldIds(file, 1)
      /\ pos <= Len(tree.vertices) + 1 /\ LoadedVertices(pos - 1)
  BY <1>1 DEF Trip, ReadingState
<1>5. r.id = tree.vertices[pos].id /\ r.attr = ReadBack(saved.vertices[pos])
  BY <1>2, <1>4 DEF Carries
<1> HIDE DEF r, n, l, gr
<1>6. /\ Len(vertex') = n + 1 /\ vertex'[n + 1] = r
      /\ \A i \in 1 .. n : vertex'[i] = vertex[i]
  BY <1>2, <1>3 DEF n
<1>7. \A w \in gr.vertices : vertex'[w].id # vertex'[n + 1].id
  <2>1. Distinct(vertex', vid')
    BY DEF VertexIds
  <2>2. \A w \in 1 .. n : w \in 1 .. n + 1 /\ n + 1 \in 1 .. n + 1 /\ w # n + 1
    BY <1>3
  <2> QED BY <1>3, <1>6, <2>1, <2>2 DEF Distinct
<1>8. g_insert_v(gr, vertex', n + 1).vertices = gr.vertices \cup {n + 1}
  BY <1>3, <1>7, InsertedNew
<1>9. Len(graph') = l /\ graph'[l].vertices = gr.vertices \cup {n + 1}
  <2>1. graph' = [graph EXCEPT ![l] = g_insert_v(gr, vertex', n + 1)]
    BY <1>1, <1>6
  <2>2. /\ Len([graph EXCEPT ![l] = g_insert_v(gr, vertex', n + 1)]) = Len(graph)
        /\ [graph EXCEPT ![l] = g_insert_v(gr, vertex', n + 1)][l] = g_insert_v(gr, vertex', n + 1)
    BY <1>3, GraphChanged
  <2> QED BY <1>8, <2>1, <2>2 DEF l
<1>10. /\ pos - 1 <= n /\ gr.vertices = n - (pos - 1) + 1 .. n
       /\ \A k \in 1 .. pos - 1 : /\ vertex[n - (pos - 1) + k].id = tree.vertices[k].id
                                  /\ vertex[n - (pos - 1) + k].attr = ReadBack(saved.vertices[k])
  BY <1>4 DEF LoadedVertices, VerticesRead, n, gr, l
<1>11. LoadedVertices(pos - 1)'
  <2>a. pos' = pos + 1 /\ tree' = tree /\ saved' = saved
    BY <1>1, Zenon
  <2>b. pos \in Nat /\ n \in Nat /\ pos - 1 <= n
    BY <1>3, <1>10, Zenon
  <2>1. pos' - 1 = pos /\ pos <= n + 1
    BY <2>a, <2>b
  <2>2. graph'[Len(graph')].vertices = n + 1 - pos + 1 .. n + 1
    BY <1>2, <1>3, <1>9, <1>10
  <2>3. ASSUME NEW k \in 1 .. pos
        PROVE  /\ vertex'[Len(vertex') - pos + k].id = tree.vertices[k].id
               /\ vertex'[Len(vertex') - pos + k].attr = ReadBack(saved.vertices[k])
    <3>1. CASE k = pos
      <4>1. Len(vertex') - pos + k = n + 1
        BY <1>3, <1>6, <3>1
      <4> QED BY <1>5, <1>6, <3>1, <4>1
    <3>2. CASE k # pos
      <4>1. /\ k \in 1 .. pos - 1 /\ Len(vertex') - pos + k = n - (pos - 1) + k
            /\ n - (pos - 1) + k \in 1 .. n
        BY <1>3, <1>6, <1>10, <3>2
      <4>2. vertex'[Len(vertex') - pos + k] = vertex[n - (pos - 1) + k]
        BY <1>6, <4>1
      <4> QED BY <1>10, <4>1, <4>2
    <3> QED BY <3>1, <3>2
  <2>4. VerticesRead(pos, vertex', graph'[Len(graph')].vertices, tree, saved)
    <3>1. Len(vertex') = n + 1
      BY <1>6
    <3>2. graph'[Len(graph')].vertices = Len(vertex') - pos + 1 .. Len(vertex')
      BY <1>3, <2>2, <3>1
    <3> QED BY <2>1, <2>3, <3>1, <3>2, Zenon DEF VerticesRead
  <2> QED BY <2>a, <2>1, <2>4, Zenon DEF LoadedVertices
<1>12. pos' <= Len(tree'.vertices) + 1
  BY <1>1, <1>2, <1>3, NextTurn
<1> QED BY <1>1, <1>4, <1>11, <1>12 DEF Trip

\* The search by id meets the vertex that was loaded from the position the id
\* stands for, and no other.
LEMMA FoundAtPosition ==
  ASSUME IInv, LoadedVertices(Len(tree.vertices)), NEW id, NEW v, RefersTo(id, v, tree),
         v # NULL, NEW old
  PROVE  Found(old, id) = Base + v
<1> DEFINE n == Len(tree.vertices)
           at == Base + v
<1>1. /\ n \in Nat /\ Len(vertex) \in Nat /\ n <= Len(vertex) /\ v \in 1 .. n
      /\ id = tree.vertices[v].id
  BY Facts DEF LoadedVertices, VerticesRead, RefersTo, NULL
<1>2. /\ at = Len(vertex) - n + v /\ at \in Len(vertex) - n + 1 .. Len(vertex)
      /\ at \in 1 .. Len(vertex)
  BY <1>1 DEF Base
<1>3. at \in graph[Len(graph)].vertices /\ vertex[at].id = id
  BY <1>1, <1>2 DEF LoadedVertices, VerticesRead
<1>4. graph[Len(graph)].vertices \subseteq 1 .. Len(vertex)
  BY DEF IInv, Types, MadeOK
<1>5. \A i, j \in 1 .. Len(vertex) : vertex[i].id = vertex[j].id => i = j
  BY Facts DEF Distinct
<1> HIDE DEF at
<1>6. {w \in graph[Len(graph)].vertices : vertex[w].id = id} = {at}
  BY <1>2, <1>3, <1>4, <1>5
<1>7. Found(old, id) = at
  BY <1>6 DEF Found
<1> QED BY <1>7 DEF at

LEMMA LoadEdgeTrip == IInv /\ Trip /\ LoadEdge => Trip'
<1> SUFFICES ASSUME IInv, Trip, LoadEdge PROVE Trip'
  OBVIOUS
<1> DEFINE e == tree.edges[pos]
           s == saved.edges[pos]
           r == [id |-> e.id, start |-> sv', end |-> ev', attr |-> ReadBack(e.attr)]
           m == Len(edge)
           l == Len(graph)
           gr == graph[l]
<1>1. /\ pc = "load edges" /\ pos' = pos + 1 /\ pc' = pc /\ tree' = tree
      /\ vertex' = vertex /\ file' = file /\ saved' = saved
      /\ sv' = Found(sv, e.start) /\ ev' = Found(ev, e.end)
      /\ graph' = [graph EXCEPT ![l] = g_insert_e(gr, edge', Len(edge'))]
  BY DEF LoadEdge
<1>2. pos \in 1 .. Len(tree.edges) /\ r \in EdgeRecord /\ edge' = Append(edge, r)
  BY EdgeTaken DEF IInv
<1>3. /\ edge \in Seq(EdgeRecord) /\ m \in Nat /\ Len(tree.edges) \in Nat /\ pos \in Nat
      /\ graph \in Seq(GraphRecord) /\ l \in 1 .. Len(graph) /\ gr \in GraphRecord
  BY Facts DEF IInv, Types, MadeOK
<1>4. /\ Carries(tree, saved) /\ Carries(file, saved) /\ OldIds(file, 1)
      /\ LoadedVertices(Len(tree.vertices))
      /\ pos <= Len(tree.edges) + 1 /\ LoadedEdges(pos - 1)
  BY <1>1 DEF Trip, ReadingState
<1>5. ReadFrom(r, s, Base)
  <2>1. e.attr = s.attr /\ RefersTo(e.start, s.start, tree) /\ RefersTo(e.end, s.end, tree)
    BY <1>2, <1>4 DEF Carries
  <2>2. s.start # NULL => sv' = Base + s.start
    BY <1>1, <1>4, <2>1, FoundAtPosition
  <2>3. s.end # NULL => ev' = Base + s.end
    BY <1>1, <1>4, <2>1, FoundAtPosition
  <2>4. r.start = sv' /\ r.end = ev' /\ r.attr = ReadBack(e.attr)
    OBVIOUS
  <2> HIDE DEF r, e, s
  <2> QED BY <2>1, <2>2, <2>3, <2>4 DEF ReadFrom
<1> HIDE DEF e, r, m, gr
<1>6. /\ Len(edge') = m + 1 /\ edge'[m + 1] = r
      /\ \A i \in 1 .. m : edge'[i] = edge[i]
  BY <1>2, <1>3 DEF m
<1>7. Len(graph') = l /\ graph'[l].vertices = gr.vertices
  <2>1. g_insert_e(gr, edge', Len(edge')).vertices = gr.vertices
    <3>1. Len(edge') \in Nat
      BY <1>3, <1>6
    <3> QED BY <1>3, <3>1, Inserted
  <2>2. /\ Len([graph EXCEPT ![l] = g_insert_e(gr, edge', Len(edge'))]) = Len(graph)
        /\ [graph EXCEPT ![l] = g_insert_e(gr, edge', Len(edge'))][l] = g_insert_e(gr, edge', Len(edge'))
    BY <1>3, GraphChanged
  <2> QED BY <1>1, <2>1, <2>2
<1>8. LoadedVertices(Len(tree.vertices))'
  BY <1>1, <1>4, <1>7 DEF LoadedVertices, gr
<1>9. pos - 1 <= m /\ \A k \in 1 .. pos - 1 : ReadFrom(edge[m - (pos - 1) + k], saved.edges[k], Base)
  BY <1>4 DEF LoadedEdges, EdgesRead, m
<1>10. LoadedEdges(pos - 1)'
  <2>a. pos' = pos + 1 /\ tree' = tree /\ saved' = saved
    BY <1>1, Zenon
  <2>b. pos \in Nat /\ m \in Nat /\ pos - 1 <= m
    BY <1>3, <1>9, Zenon
  <2>1. pos' - 1 = pos /\ pos <= m + 1
    BY <2>a, <2>b
  <2>2. ASSUME NEW k \in 1 .. pos
        PROVE  ReadFrom(edge'[Len(edge') - pos + k], saved.edges[k], Base)
    <3>1. CASE k = pos
      <4>1. Len(edge') - pos + k = m + 1
        BY <1>3, <1>6, <3>1
      <4> QED BY <1>5, <1>6, <3>1, <4>1
    <3>2. CASE k # pos
      <4>1. /\ k \in 1 .. pos - 1 /\ Len(edge') - pos + k = m - (pos - 1) + k
            /\ m - (pos - 1) + k \in 1 .. m
        BY <1>3, <1>6, <1>9, <3>2
      <4>2. edge'[Len(edge') - pos + k] = edge[m - (pos - 1) + k]
        BY <1>6, <4>1
      <4> QED BY <1>9, <4>1, <4>2
    <3> QED BY <3>1, <3>2
  <2>3. Base' = Base
    BY <1>1 DEF Base
  <2>4. EdgesRead(pos, edge', saved, Base)
    <3>1. Len(edge') = m + 1
      BY <1>6
    <3> QED BY <2>1, <2>2, <3>1, Zenon DEF EdgesRead
  <2> QED BY <2>a, <2>1, <2>3, <2>4, Zenon DEF LoadedEdges
<1>11. pos' <= Len(tree'.edges) + 1
  BY <1>1, <1>2, <1>3, NextTurn
<1> QED BY <1>1, <1>4, <1>8, <1>10, <1>11 DEF Trip

LEMMA EndOfLoopTrip == IInv /\ Trip /\ EndOfLoop => Trip'
<1> SUFFICES ASSUME IInv, Trip, EndOfLoop PROVE Trip'
  OBVIOUS
<1> DEFINE n == Len(tree.vertices)
           m == Len(tree.edges)
<1>1. /\ pc \in DOMAIN After /\ pos > Len(Elements) /\ pos' = 1 /\ pc' = After[pc]
      /\ UNCHANGED <<vertex, edge, graph, file, saved, tree>>
  BY DEF EndOfLoop, process
<1>2. pc \in {"rename vertices", "rename edges", "load vertices", "load edges"}
  BY <1>1 DEF After
<1>3. n \in Nat /\ m \in Nat /\ pos \in Nat
  BY Facts
<1>4. Carries(tree, saved) /\ Carries(file, saved) /\ OldIds(file, 1)
  BY <1>2 DEF Trip, ReadingState
<1>5. CASE pc \in {"rename vertices", "rename edges"}
  <2>1. pc' \in {"rename edges", "negate"}
    BY <1>1, <1>5 DEF After
  <2> QED BY <1>1, <1>4, <2>1 DEF Trip
<1>6. CASE pc = "load vertices"
  <2>1. pc' = "load edges"
    BY <1>1, <1>6 DEF After
  <2>2. pos > n /\ pos <= n + 1 /\ LoadedVertices(pos - 1)
    BY <1>1, <1>6 DEF Elements, Trip
  <2>3. pos - 1 = n
    BY <1>3, <2>2
  <2>4. LoadedVertices(n)'
    BY <1>1, <2>2, <2>3 DEF LoadedVertices
  <2>5. LoadedEdges(pos - 1)' /\ pos' <= Len(tree'.edges) + 1
    <3>1. pos' - 1 = 0
      BY <1>1
    <3>2. Len(edge') \in Nat /\ 0 <= Len(edge')
      BY <1>1 DEF IInv, Types, MadeOK
    <3>3. pos' <= m + 1
      <4> HIDE DEF m
      <4> QED BY <1>1, <1>3
    <3> QED BY <1>1, <3>1, <3>2, <3>3 DEF LoadedEdges, EdgesRead
  <2> QED BY <1>1, <1>4, <2>1, <2>4, <2>5 DEF Trip
<1>7. CASE pc = "load edges"
  <2>1. pc' = "return"
    BY <1>1, <1>7 DEF After
  <2>2. pos > m /\ pos <= m + 1 /\ LoadedEdges(pos - 1) /\ LoadedVertices(n)
    BY <1>1, <1>7 DEF Elements, Trip
  <2>3. pos - 1 = m
    BY <1>3, <2>2
  <2>4. LoadedVertices(n)'
    BY <1>1, <2>2 DEF LoadedVertices
  <2>5. LoadedEdges(m)'
    BY <1>1, <2>2, <2>3 DEF LoadedEdges, Base
  <2> QED BY <1>1, <1>4, <2>1, <2>4, <2>5 DEF Trip
<1> QED BY <1>2, <1>5, <1>6, <1>7

\* The steps of the program, those that begin and end a read, and those that end it badly.
LEMMA OtherTrip ==
  ASSUME IInv, Trip,
         \/ NewVertex \/ NewEdge \/ Direct \/ AppendVertex \/ AppendEdge \/ SaveGraph \/ SaveCrash
         \/ OpenFile \/ LoadStrayEdge \/ Return \/ Restart \/ UNCHANGED vars
  PROVE  Trip'
<1>0. Carries(file, saved) /\ OldIds(file, 1)
  BY DEF Trip
<1>1. CASE NewVertex \/ NewEdge \/ Direct \/ AppendVertex \/ AppendEdge \/ SaveCrash \/ LoadStrayEdge
           \/ Return
  <2>1. file' = file /\ saved' = saved /\ pc' \in {"program", "crashed", "undefined"}
    BY <1>1 DEF NewVertex, NewEdge, Direct, AppendVertex, AppendEdge, SaveCrash, LoadStrayEdge,
                Return, Building, Running
  <2> QED BY <1>0, <2>1 DEF Trip, ReadingState
<1>2. CASE SaveGraph
  <2>1. pc' = "program"
    BY <1>2, Zenon DEF SaveGraph, Building, Running
  <2>2. Carries(file', saved') /\ OldIds(file', 1)
    BY <1>2, SaveGraphTrip
  <2> QED BY <2>1, <2>2 DEF Trip, ReadingState
<1>3. CASE OpenFile
  <2>1. tree' = file /\ pos' = 1 /\ pc' = "rename vertices" /\ file' = file /\ saved' = saved
    BY <1>3 DEF OpenFile
  <2> QED BY <1>0, <2>1 DEF Trip
<1>4. CASE UNCHANGED vars
  BY <1>4 DEF vars, process, reader, Trip, LoadedVertices, LoadedEdges, Base
<1>5. CASE Restart
  <2>1. pc' = "program"
    BY <1>5 DEF Restart
  <2>2. Carries(file', saved') /\ OldIds(file', 1)
    <3>1. CASE UNCHANGED <<file, saved>>
      BY <1>0, <3>1
    <3>2. CASE CutShort
      <4>1. file'.vertices = << >> /\ file'.edges = << >>
        BY <3>2 DEF CutShort, NoFile
      <4>2. saved' = [vertices |-> << >>, edges |-> << >>]
        BY <3>2 DEF CutShort, NothingSaved
      <4> QED BY <4>1, <4>2 DEF Carries, OldIds
    <3> QED BY <1>5, <3>1, <3>2 DEF Restart
  <2> QED BY <2>1, <2>2 DEF Trip, ReadingState
<1> QED BY <1>1, <1>2, <1>3, <1>4, <1>5

LEMMA StepTrip == IInv /\ Trip /\ [Next]_vars => Trip'
BY StepVertexIds, RenameVertexTrip, RenameEdgeTrip, NegateTrip, LoadVertexTrip, LoadEdgeTrip,
   EndOfLoopTrip, OtherTrip, Zenon DEF Next, Program, Reading

LEMMA TripInvariance == Spec => []Trip
<1>1. Init => Trip
  <2> SUFFICES ASSUME Init PROVE Trip
    OBVIOUS
  <2>1. /\ file = [vertices |-> << >>, edges |-> << >>, saves |-> 0]
        /\ saved = [vertices |-> << >>, edges |-> << >>] /\ pc = "program"
    BY DEF Init, NoFile, NothingSaved
  <2>2. Carries(file, saved) /\ OldIds(file, 1)
    BY <2>1 DEF Carries, OldIds
  <2> QED BY <2>1, <2>2 DEF Trip, ReadingState
<1>2. IInv /\ Trip /\ [Next]_vars => Trip'
  BY StepTrip
<1> QED BY <1>1, <1>2, GraphFileInvariance, PTL DEF Spec

\* Whatever is built and however the tables order it, what is read is what was
\* saved: each vertex with its attribute, each edge with its attribute and, of
\* its ends, those that were vertices of the graph (FileReadWrite.c:325-463).
THEOREM ReadingIsFaithful == Spec => []RoundTrip
<1>1. IInv /\ Trip => RoundTrip
  <2> SUFFICES ASSUME IInv, Trip, pc = "return" PROVE RoundTrip
    BY DEF RoundTrip
  <2> DEFINE n == Len(tree.vertices)
             m == Len(tree.edges)
  <2>1. LoadedVertices(n) /\ LoadedEdges(m) /\ Carries(tree, saved)
    BY DEF Trip, ReadingState
  <2>2. n \in Nat /\ m \in Nat /\ Len(vertex) \in Nat /\ Len(edge) \in Nat
    BY Facts
  <2>3. DOMAIN saved.vertices = 1 .. n /\ DOMAIN saved.edges = 1 .. m
    BY <2>1 DEF Carries
  <2>4. Base = Len(vertex) - n
    BY DEF Base
  <2>5. /\ graph[Len(graph)].vertices = Base + 1 .. Len(vertex)
        /\ \A k \in 1 .. n : vertex[Base + k].attr = ReadBack(saved.vertices[k])
    BY <2>1, <2>4, Zenon DEF LoadedVertices, VerticesRead
  <2>6. ASSUME NEW k \in 1 .. m
        PROVE  LET e == LoadedEdge(k) s == saved.edges[k] IN
               /\ s.start # NULL => Place(e.start) = s.start
               /\ s.end # NULL => Place(e.end) = s.end
               /\ e.attr = ReadBack(s.attr)
    <3>1. ReadFrom(LoadedEdge(k), saved.edges[k], Base)
      BY <2>1, Zenon DEF LoadedEdges, EdgesRead, LoadedEdge
    <3>2. saved.edges[k].start \in 0 .. n /\ saved.edges[k].end \in 0 .. n
      BY <2>1 DEF Carries, RefersTo
    <3>3. Base \in Int
      BY <2>2, <2>4
    <3> QED BY <2>2, <3>1, <3>2, <3>3, SMTT(30) DEF ReadFrom, Place
  <2> QED BY <2>3, <2>5, <2>6 DEF RoundTrip
<1> QED BY <1>1, GraphFileInvariance, TripInvariance, PTL

------------------------------------------------------------------------------
(* Ids of one byte.                                                        *)

LEMMA OneByte ==
  ASSUME NEW n \in Nat, n < Byte
  PROVE  n % Byte = n /\ n \div Byte = 0
BY GraphFileAssumption DEF GraphFileAssumption

\* As a string, an id of one byte is that byte.
LEMMA StrKeyOfByte ==
  ASSUME NEW id \in Nat, id > 0, id < Byte
  PROVE  StrKey(id) = <<id>>
<1> DEFINE Step(f) == [n \in 0 .. id |->
                        IF n % Byte = 0 THEN << >> ELSE <<n % Byte>> \o f[n \div Byte]]
           key == CHOOSE f : f = Step(f)
           one == [n \in 0 .. id |-> IF n = 0 THEN << >> ELSE <<n>>]
<1>1. StrKey(id) = key[id]
  BY Zenon DEF StrKey
<1>2. ASSUME NEW n \in 0 .. id PROVE n % Byte = n /\ n \div Byte = 0
  <2>1. n \in Nat /\ n < Byte
    BY GraphFileAssumption DEF GraphFileAssumption
  <2> QED BY <2>1, OneByte
<1>3. one = Step(one)
  <2>1. one[0] = << >>
    OBVIOUS
  <2>2. ASSUME NEW n \in 0 .. id
        PROVE  one[n] = IF n % Byte = 0 THEN << >> ELSE <<n % Byte>> \o one[n \div Byte]
    <3>1. n % Byte = n /\ n \div Byte = 0
      BY <1>2
    <3>2. <<n>> \o << >> = <<n>>
      OBVIOUS
    <3> QED BY <2>1, <3>1, <3>2
  <2> HIDE DEF one
  <2>3. one = [n \in 0 .. id |-> one[n]]
    BY DEF one
  <2> QED BY <2>2, <2>3
<1> HIDE DEF one, Step
<1>4. key = Step(key)
  BY <1>3
<1> HIDE DEF key
<1>5. key[0] = << >> /\ key[id] = <<id>> \o key[0]
  <2>1. 0 \in 0 .. id /\ id \in 0 .. id
    OBVIOUS
  <2>2. \A n \in 0 .. id :
          key[n] = IF n % Byte = 0 THEN << >> ELSE <<n % Byte>> \o key[n \div Byte]
    BY <1>4 DEF Step
  <2>3. key[0] = << >>
    BY <1>2, <2>1, <2>2
  <2>4. id % Byte = id /\ id \div Byte = 0 /\ id # 0
    BY <1>2, <2>1
  <2> QED BY <2>1, <2>2, <2>3, <2>4
<1>6. <<id>> \o << >> = <<id>>
  OBVIOUS
<1> QED BY <1>1, <1>5, <1>6

\* A table whose ids are of one byte has room for every edge.
LEMMA InsertedKept ==
  ASSUME NEW es, NEW next \in Nat, next <= Byte, es \in Seq(EdgeRecord), Distinct(es, next),
         NEW gr \in GraphRecord, gr.edges \subseteq 1 .. Len(es), NEW e \in 1 .. Len(es)
  PROVE  g_insert_e(gr, es, e).edges = gr.edges \cup {e}
<1>0. Byte \in Nat
  BY GraphFileAssumption DEF GraphFileAssumption
<1>1. \A i \in 1 .. Len(es) : es[i].id \in Nat /\ es[i].id > 0 /\ es[i].id < Byte
  <2>1. ASSUME NEW i \in 1 .. Len(es) PROVE es[i].id \in Nat
    BY RecordIds
  <2> QED BY <1>0, <2>1 DEF Distinct
<1>2. \A i \in 1 .. Len(es) : StrKey(es[i].id) = <<es[i].id>>
  BY <1>1, StrKeyOfByte
<1>3. [gr EXCEPT !.edges = @ \cup {e}].edges = gr.edges \cup {e}
  BY DEF GraphRecord
<1>4. CASE Present(es, gr.edges, e)
  <2>1. PICK f \in gr.edges : StrKey(es[f].id) = StrKey(es[e].id)
    BY <1>4 DEF Present
  <2>2. <<es[f].id>> = <<es[e].id>>
    BY <1>2, <2>1
  <2>3. f = e
    BY <2>2 DEF Distinct
  <2> QED BY <1>4, <2>3 DEF g_insert_e
<1>5. CASE ~Present(es, gr.edges, e)
  BY <1>3, <1>5 DEF g_insert_e
<1> QED BY <1>4, <1>5

\* One element of a sequence replaced, the others as they were.
LEMMA OneReplaced ==
  ASSUME NEW S, NEW s \in Seq(S), NEW g \in 1 .. Len(s), NEW x, NEW t, t = [s EXCEPT ![g] = x]
  PROVE  /\ DOMAIN t = 1 .. Len(s) /\ t[g] = x
         /\ \A h \in 1 .. Len(s) : h # g => t[h] = s[h]
OBVIOUS

LEMMA AppendKept == IInv /\ EdgesKept /\ (AppendVertex \/ AppendEdge) => EdgesKept'
<1> SUFFICES ASSUME IInv, EdgesKept, AppendVertex \/ AppendEdge, eid' <= Byte
             PROVE  \A h \in DOMAIN graph' : graph'[h].edges = appended'[h]
  BY DEF EdgesKept
<1>1. /\ graph \in Seq(GraphRecord) /\ appended \in Seq(SUBSET Nat) /\ Len(appended) = Len(graph)
      /\ edge \in Seq(EdgeRecord) /\ Distinct(edge, eid) /\ eid \in Nat
      /\ DOMAIN graph = 1 .. Len(graph)
  BY Facts DEF IInv, Types, MadeOK
<1>2. eid' = eid
  BY DEF AppendVertex, AppendEdge
<1>3. \A g \in 1 .. Len(graph) : graph[g].edges = appended[g]
  BY <1>1, <1>2 DEF EdgesKept
<1>4. CASE AppendVertex
  <2>1. PICK g \in DOMAIN graph, v \in DOMAIN vertex :
          graph' = [graph EXCEPT ![g] = g_insert_v(graph[g], vertex, v)]
    BY <1>4 DEF AppendVertex
  <2> DEFINE G == g_insert_v(graph[g], vertex, v)
  <2>2. v \in Nat
    BY DEF IInv, Types, MadeOK
  <2>3. G.edges = graph[g].edges
    BY <1>1, <2>2, Inserted
  <2>4. appended' = appended
    BY <1>4 DEF AppendVertex
  <2>5. graph' = [graph EXCEPT ![g] = G]
    BY <2>1
  <2> HIDE DEF G
  <2> QED BY <1>1, <1>3, <2>3, <2>4, <2>5
<1>5. CASE AppendEdge
  <2>1. PICK g \in DOMAIN graph, e \in DOMAIN edge :
          /\ graph' = [graph EXCEPT ![g] = g_insert_e(graph[g], edge, e)]
          /\ appended' = [appended EXCEPT ![g] = appended[g] \cup {e}]
    BY <1>5 DEF AppendEdge
  <2> DEFINE G == g_insert_e(graph[g], edge, e)
  <2>2. /\ g \in 1 .. Len(graph) /\ e \in 1 .. Len(edge) /\ e \in Nat /\ graph[g] \in GraphRecord
        /\ graph[g].edges \subseteq 1 .. Len(edge)
    BY DEF IInv, Types, MadeOK
  <2>3. G \in GraphRecord
    BY <2>2, Inserted
  <2>4. G.edges = graph[g].edges \cup {e}
    BY <1>1, <1>2, <2>2, InsertedKept
  <2>5. graph' = [graph EXCEPT ![g] = G]
    BY <2>1
  <2> HIDE DEF G
  <2>6. Len(appended) = Len(graph) /\ appended' = [appended EXCEPT ![g] = appended[g] \cup {e}]
    BY <1>1, <2>1
  <2>7. graph \in Seq(GraphRecord) /\ appended \in Seq(SUBSET Nat) /\ g \in 1 .. Len(graph)
    BY <1>1, <2>2
  <2>8. /\ DOMAIN graph' = 1 .. Len(graph) /\ graph'[g] = G
        /\ \A h \in 1 .. Len(graph) : h # g => graph'[h] = graph[h]
    BY <2>5, <2>7, OneReplaced
  <2>9. /\ appended'[g] = appended[g] \cup {e}
        /\ \A h \in 1 .. Len(graph) : h # g => appended'[h] = appended[h]
    BY <2>6, <2>7, OneReplaced
  <2> QED BY <1>3, <2>4, <2>7, <2>8, <2>9
<1> QED BY <1>4, <1>5

LEMMA LoadEdgeKept == IInv /\ IInv' /\ EdgesKept /\ LoadEdge => EdgesKept'
<1> SUFFICES ASSUME IInv, IInv', EdgesKept, LoadEdge, eid' <= Byte
             PROVE  \A h \in DOMAIN graph' : graph'[h].edges = appended'[h]
  BY DEF EdgesKept
<1> DEFINE g == Len(graph)
           e == Len(edge')
           G == g_insert_e(graph[g], edge', e)
<1>1. /\ graph \in Seq(GraphRecord) /\ appended \in Seq(SUBSET Nat) /\ Len(appended) = Len(graph)
      /\ DOMAIN graph = 1 .. Len(graph) /\ g \in 1 .. Len(graph) /\ graph[g] \in GraphRecord
      /\ graph[g].edges \subseteq 1 .. Len(edge) /\ eid \in Nat /\ Len(edge) \in Nat
  <2>1. /\ graph \in Seq(GraphRecord) /\ appended \in Seq(SUBSET Nat) /\ Len(appended) = Len(graph)
        /\ g > 0 /\ eid \in Nat /\ edge \in Seq(EdgeRecord)
    BY DEF IInv, Types, MadeOK
  <2>2. DOMAIN graph = 1 .. Len(graph) /\ g \in 1 .. Len(graph) /\ graph[g] \in GraphRecord
        /\ Len(edge) \in Nat
    BY <2>1
  <2>3. graph[g].edges \subseteq 1 .. Len(edge)
    BY <2>2 DEF IInv, Types, MadeOK
  <2> QED BY <2>1, <2>2, <2>3
<1>2. /\ eid' = eid + 1 /\ graph' = [graph EXCEPT ![g] = G]
      /\ appended' = [appended EXCEPT ![g] = appended[g] \cup {e}]
  BY DEF LoadEdge
<1>3. /\ edge' \in Seq(EdgeRecord) /\ eid' \in Nat /\ Distinct(edge', eid')
  BY DEF IInv, Types, MadeOK, EdgeIds
<1>4. Len(edge') = Len(edge) + 1
  <2>1. PICK r \in EdgeRecord : edge' = Append(edge, r)
    BY EdgeTaken DEF IInv
  <2>2. edge \in Seq(EdgeRecord)
    BY Facts
  <2> QED BY <2>1, <2>2
<1>5. e \in 1 .. Len(edge') /\ e \in Nat /\ graph[g].edges \subseteq 1 .. Len(edge')
  BY <1>1, <1>4
<1>6. \A h \in 1 .. Len(graph) : graph[h].edges = appended[h]
  <2>1. eid <= Byte
    BY <1>1, <1>2, GraphFileAssumption DEF GraphFileAssumption
  <2> QED BY <1>1, <2>1 DEF EdgesKept
<1>7. G \in GraphRecord
  BY <1>1, <1>5, Inserted
<1>8. G.edges = graph[g].edges \cup {e}
  BY <1>1, <1>3, <1>5, InsertedKept
<1> HIDE DEF G, e, g
<1>9. graph \in Seq(GraphRecord) /\ appended \in Seq(SUBSET Nat) /\ Len(appended) = Len(graph)
  BY <1>1
<1>10. g \in 1 .. Len(graph)
  BY <1>1
<1>11. /\ DOMAIN graph' = 1 .. Len(graph) /\ graph'[g] = G
       /\ \A h \in 1 .. Len(graph) : h # g => graph'[h] = graph[h]
  BY <1>2, <1>9, <1>10, OneReplaced
<1>12. /\ appended'[g] = appended[g] \cup {e}
       /\ \A h \in 1 .. Len(graph) : h # g => appended'[h] = appended[h]
  BY <1>2, <1>9, <1>10, OneReplaced
<1> QED BY <1>6, <1>8, <1>10, <1>11, <1>12

\* The steps that put no edge in a graph: the counter does not fall while the process lives.
LEMMA OtherKept ==
  ASSUME IInv, EdgesKept,
         \/ NewVertex \/ NewEdge \/ Direct \/ SaveGraph \/ SaveCrash \/ OpenFile
         \/ RenameVertex \/ RenameEdge \/ Negate \/ LoadVertex \/ LoadStrayEdge
         \/ EndOfLoop \/ Return \/ Restart \/ UNCHANGED vars
  PROVE  EdgesKept'
<1>1. /\ graph \in Seq(GraphRecord) /\ appended \in Seq(SUBSET Nat) /\ Len(appended) = Len(graph)
      /\ eid \in Nat /\ Byte \in Nat /\ Len(graph) \in 1 .. Len(graph) /\ DOMAIN graph = 1 .. Len(graph)
  BY GraphFileAssumption DEF GraphFileAssumption, IInv, Types, MadeOK
<1>2. CASE graph' = graph /\ appended' = appended /\ eid' \in {eid, eid + 1}
  <2>1. eid' <= Byte => eid <= Byte
    BY <1>1, <1>2
  <2> QED BY <1>2, <2>1 DEF EdgesKept
<1>3. CASE NewVertex \/ NewEdge \/ Direct \/ SaveCrash \/ OpenFile \/ LoadStrayEdge \/ EndOfLoop
           \/ Return \/ UNCHANGED vars
  <2>1. graph' = graph /\ appended' = appended /\ eid' \in {eid, eid + 1}
    BY <1>3 DEF NewVertex, NewEdge, Direct, SaveCrash, OpenFile, LoadStrayEdge, EndOfLoop, Return,
                vars, process
  <2> QED BY <1>2, <2>1
<1>4. CASE SaveGraph \/ RenameVertex \/ RenameEdge
  <2>1. graph' = graph /\ appended' = appended /\ eid' \in {eid, eid + 1}
    <3>1. CASE SaveGraph
      BY <3>1, Zenon DEF SaveGraph, process
    <3>2. CASE RenameVertex
      BY <3>2, Zenon DEF RenameVertex
    <3>3. CASE RenameEdge
      BY <3>3, Zenon DEF RenameEdge
    <3> QED BY <1>4, <3>1, <3>2, <3>3
  <2> QED BY <1>2, <2>1
<1>5. CASE Negate
  <2>1. graph' = Append(graph, NoGraph) /\ appended' = Append(appended, {}) /\ eid' = eid
    BY <1>5, Zenon DEF Negate
  <2>2. NoGraph.edges = {}
    BY DEF NoGraph
  <2>3. /\ DOMAIN graph' = 1 .. Len(graph) + 1
        /\ graph'[Len(graph) + 1] = NoGraph /\ appended'[Len(graph) + 1] = {}
        /\ \A g \in 1 .. Len(graph) : graph'[g] = graph[g] /\ appended'[g] = appended[g]
    BY <1>1, <2>1
  <2>4. \A g \in DOMAIN graph' : g \in 1 .. Len(graph) \/ g = Len(graph) + 1
    BY <1>1, <2>3
  <2> QED BY <1>1, <2>1, <2>2, <2>3, <2>4 DEF EdgesKept
<1>6. CASE LoadVertex
  <2> DEFINE l == Len(graph)
             G == g_insert_v(graph[l], vertex', Len(vertex'))
  <2>1. graph' = [graph EXCEPT ![l] = G] /\ appended' = appended /\ eid' = eid
    BY <1>6 DEF LoadVertex
  <2>2. Len(vertex') \in Nat
    <3>1. PICK r \in VertexRecord : vertex' = Append(vertex, r)
      BY <1>6, VertexTaken DEF IInv
    <3>2. vertex \in Seq(VertexRecord)
      BY Facts
    <3> QED BY <3>1, <3>2
  <2>3. G.edges = graph[l].edges
    <3>1. graph[l] \in GraphRecord
      BY <1>1
    <3> QED BY <2>2, <3>1, Inserted
  <2> HIDE DEF G
  <2> QED BY <1>1, <2>1, <2>3 DEF EdgesKept
<1>7. CASE Restart
  <2>1. graph' = <<NoGraph>> /\ appended' = <<{}>>
    BY <1>7 DEF Restart
  <2>2. NoGraph.edges = {}
    BY DEF NoGraph
  <2>3. DOMAIN graph' = {1} /\ graph'[1] = NoGraph /\ appended'[1] = {}
    BY <2>1
  <2> QED BY <2>2, <2>3 DEF EdgesKept
<1> QED BY <1>3, <1>4, <1>5, <1>6, <1>7

LEMMA StepIInv == IInv /\ [Next]_vars => IInv'
BY StepTypes, StepVertexIds, StepEdgeIds, Zenon DEF IInv

\* As long as the counter fits in a byte, no graph loses an edge it was asked to
\* keep, by the program or by readGraph (Derivedtype.c:77: the table compares
\* ids as strings).
THEOREM NoEdgeIsLost == Spec => []EdgesKept
<1>1. Init => EdgesKept
  <2> SUFFICES ASSUME Init PROVE EdgesKept
    OBVIOUS
  <2>1. graph = <<NoGraph>> /\ appended = <<{}>> /\ NoGraph.edges = {}
    BY DEF Init, NoGraph
  <2>2. DOMAIN graph = {1} /\ graph[1] = NoGraph /\ appended[1] = {}
    BY <2>1
  <2> QED BY <2>1, <2>2 DEF EdgesKept
<1>2. IInv /\ EdgesKept /\ [Next]_vars => EdgesKept'
  BY StepIInv, AppendKept, LoadEdgeKept, OtherKept, Zenon DEF Next, Program, Reading
<1> QED BY <1>1, <1>2, GraphFileInvariance, PTL DEF Spec

==============================================================================
