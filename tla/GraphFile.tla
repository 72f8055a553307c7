------------------------------ MODULE GraphFile ------------------------------
(***************************************************************************)
(* Graphs saved to a file and read back: saveGraph and readGraph of        *)
(* FileReadWrite.c, and what they need of Derivedtype.c: the id counters,  *)
(* the two tables of a graph and the directions of edges.                  *)
(*                                                                         *)
(* A behaviour is a series of runs of NSBL programs that share one file.   *)
(* A program makes vertices and edges, appends them to a graph, saves it   *)
(* and reads it.  A run may end anywhere (Restart): its memory and its     *)
(* counters go, the file stays, cut short if it was being written.         *)
(* readGraph is a step per turn of its loops.  That the search that begins *)
(* at the first child of one element finds the next is not shown here: it  *)
(* is FindsNext of XmlTree.  Nothing is freed here: ownership is           *)
(* ObjectStore's subject.                                                  *)
(***************************************************************************)
EXTENDS Naturals, Integers, Sequences, SequencesExt, FiniteSets

CONSTANTS MaxNew,    \* bound: vertices, and edges, a program makes itself
          MaxLater,  \* the same bound once there is a file
          MaxSaves,  \* bound: files written; a program builds graphs to save them
          MaxGraph,  \* bound: graphs of a process, the program's and those read
          Byte,      \* the number of values of a byte, 256 in the code
          Attrs      \* the attribute values programs use

\* An attribute, by what the trip through the file tells apart.
Value == {"none", "int", "true", "false", "float", "tiny", "zero",
          "word", "phrase", "blank", "unknown"}

ASSUME GraphFileAssumption ==
  /\ MaxNew \in Nat /\ MaxLater \in Nat
  /\ MaxSaves \in Nat /\ MaxGraph \in Nat
  /\ Byte \in Nat \ {0, 1}
  /\ Attrs \subseteq Value

VARIABLES
  vid, eid,  \* the static counters of new_vertexId and new_edgeId
  vertex,    \* the vertices made, oldest first: [id, attr]
  edge,      \* the edges made: [id, start, end, attr], ends index vertex or NULL
  graph,     \* the graphs made: [vertices, edges], the contents of the tables
  file,      \* the XML file: [vertices, edges, saves] with ids for references, or NoFile
  saved,     \* history: the graph that is in the file, by position
  appended,  \* history: the edges g_insert_e was asked to put in each graph
  pc,        \* where the process is; the program runs while "program"
  tree,      \* the tree readGraph loaded
  pos,       \* the element of the tree the loop of readGraph is at
  sv, ev     \* readGraph's local pointers

process == <<vid, eid, vertex, edge, graph, appended>>
reader == <<tree, pos, sv, ev>>
vars == <<process, file, saved, pc, reader>>

NULL == 0
NoGraph == [vertices |-> {}, edges |-> {}]
NoFile == [vertices |-> << >>, edges |-> << >>, saves |-> 0]
NothingSaved == [vertices |-> << >>, edges |-> << >>]

\* A number as g_str_hash and g_str_equal see it: its bytes up to the first zero.
StrKey(id) ==
  LET key[n \in 0..id] == IF n % Byte = 0 THEN << >> ELSE <<n % Byte>> \o key[n \div Byte]
  IN  key[id]

\* The attribute read from what is written for a: text is split at blanks and
\* only its first word is returned, "%f" keeps six digits, an attribute that
\* has no type yet is written without a value and dropped.
ReadBack(a) ==
  CASE a = "phrase" -> "word"
    [] a = "tiny"   -> "zero"
    [] a = "unknown" -> "none"
    [] OTHER -> a

------------------------------------------------------------------------------
(* The program.                                                            *)

Running == pc = "program"
Building == Running /\ file.saves < MaxSaves
MayMake == IF file.saves > 0 THEN MaxLater ELSE MaxNew

NewVertex ==
  /\ Running /\ Len(vertex) < MayMake
  /\ \E a \in Attrs : vertex' = Append(vertex, [id |-> vid, attr |-> a])
  /\ vid' = vid + 1
  /\ UNCHANGED <<eid, edge, graph, appended, file, saved, pc, reader>>

NewEdge ==
  /\ Running /\ Len(edge) < MayMake
  /\ \E a \in Attrs :
       edge' = Append(edge, [id |-> eid, start |-> NULL, end |-> NULL, attr |-> a])
  /\ eid' = eid + 1
  /\ UNCHANGED <<vid, vertex, graph, appended, file, saved, pc, reader>>

edge_assign_direction(e, v1, v2) ==
  edge' = [edge EXCEPT ![e].start = v1, ![e].end = v2]

\* A program directs an edge once here; ObjectStore has the second time.
Direct ==
  /\ Building
  /\ \E e \in DOMAIN edge : \E v1, v2 \in DOMAIN vertex :
       edge[e].start = NULL /\ edge_assign_direction(e, v1, v2)
  /\ UNCHANGED <<vid, eid, vertex, graph, appended, file, saved, pc, reader>>

\* A mutant: the table is given the start vertex for the key.
PresentByStart(es, table, e) == \E f \in table : es[f].start = es[e].start

\* The edge table of a graph hashes the address of an id as a string.
Present(es, table, e) == \E f \in table : StrKey(es[f].id) = StrKey(es[e].id)

g_insert_v(gr, vs, v) ==
  IF \E w \in gr.vertices : vs[w].id = vs[v].id THEN gr
  ELSE [gr EXCEPT !.vertices = @ \cup {v}]

g_insert_e(gr, es, e) ==
  IF Present(es, gr.edges, e) THEN gr ELSE [gr EXCEPT !.edges = @ \cup {e}]

AppendVertex ==
  /\ Building
  /\ \E g \in DOMAIN graph, v \in DOMAIN vertex :
       graph' = [graph EXCEPT ![g] = g_insert_v(@, vertex, v)]
  /\ UNCHANGED <<vid, eid, vertex, edge, appended, file, saved, pc, reader>>

AppendEdge ==
  /\ Building
  /\ \E g \in DOMAIN graph, e \in DOMAIN edge :
       /\ graph' = [graph EXCEPT ![g] = g_insert_e(@, edge, e)]
       /\ appended' = [appended EXCEPT ![g] = @ \cup {e}]
  /\ UNCHANGED <<vid, eid, vertex, edge, file, saved, pc, reader>>

------------------------------------------------------------------------------
(* saveGraph.  The order of the elements is that of the hash tables.       *)

Orders(S) == {s \in [1 .. Cardinality(S) -> S] : Range(s) = S}

Index(s, x) == IF x \in Range(s) THEN CHOOSE i \in DOMAIN s : s[i] = x ELSE NULL

SaveGraph ==
  /\ Building
  /\ \E g \in DOMAIN graph :
       /\ \A e \in graph[g].edges : edge[e].start # NULL
       /\ \E vs \in Orders(graph[g].vertices), es \in Orders(graph[g].edges) :
            /\ file' =
                 [vertices |-> [i \in DOMAIN vs |-> vertex[vs[i]]],
                  edges |-> [i \in DOMAIN es |->
                    [edge[es[i]] EXCEPT !.start = vertex[@].id, !.end = vertex[@].id]],
                  saves |-> file.saves + 1]
            /\ saved' =
                 [vertices |-> [i \in DOMAIN vs |-> vertex[vs[i]].attr],
                  edges |-> [i \in DOMAIN es |->
                    [start |-> Index(vs, edge[es[i]].start),
                     end |-> Index(vs, edge[es[i]].end), attr |-> edge[es[i]].attr]]]
  /\ UNCHANGED <<process, pc, reader>>

\* An edge without a direction: e->start->id through NULL.
SaveCrash ==
  /\ Building
  /\ \E g \in DOMAIN graph : \E e \in graph[g].edges : edge[e].start = NULL
  /\ pc' = "crashed"
  /\ UNCHANGED <<process, file, saved, reader>>

------------------------------------------------------------------------------
(* readGraph.                                                              *)

\* A mutant: new ids are not told from those of the file by their sign.
SignNone(id) == id

Sign(id) == -id
Rename(old, new, id) == IF id = old THEN new ELSE id

\* An edge that refers to vertices by id, old renamed new.
EndsRenamed(e, old, new) ==
  [e EXCEPT !.start = Rename(old, new, @), !.end = Rename(old, new, @)]

\* Vertex i of the tree gets an id, and so do startV and endV that name it.
Renamed(t, i, new) ==
  LET old == t.vertices[i].id IN
  [t EXCEPT
    !.vertices[i].id = new,
    !.edges = [j \in DOMAIN @ |-> EndsRenamed(@[j], old, new)]]

\* The program calls readGraph; the file exists and holds a saved graph.
OpenFile ==
  /\ Running /\ file.saves > 0 /\ Len(graph) < MaxGraph
  /\ tree' = file /\ pos' = 1 /\ pc' = "rename vertices"
  /\ UNCHANGED <<process, file, saved, sv, ev>>

\* A mutant: the counter is read and not advanced.
RenameVertexSameId ==
  /\ pc = "rename vertices" /\ pos \in DOMAIN tree.vertices
  /\ tree' = Renamed(tree, pos, Sign(vid)) /\ pos' = pos + 1
  /\ UNCHANGED <<vid, eid, vertex, edge, graph, appended, file, saved, pc, sv, ev>>

\* A fresh id replaces that of the vertex, negated so that no later turn takes
\* it for an id of the file.
RenameVertex ==
  /\ pc = "rename vertices" /\ pos \in DOMAIN tree.vertices
  /\ tree' = Renamed(tree, pos, Sign(vid)) /\ vid' = vid + 1 /\ pos' = pos + 1
  /\ UNCHANGED <<eid, vertex, edge, graph, appended, file, saved, pc, sv, ev>>

RenameEdge ==
  /\ pc = "rename edges" /\ pos \in DOMAIN tree.edges
  /\ tree' = [tree EXCEPT !.edges[pos].id = Sign(eid)]
  /\ eid' = eid + 1 /\ pos' = pos + 1
  /\ UNCHANGED <<vid, vertex, edge, graph, appended, file, saved, pc, sv, ev>>

\* A mutant: the ids of edges keep their sign.
NegateVertices ==
  /\ pc = "negate"
  /\ tree' = [tree EXCEPT
       !.vertices = [i \in DOMAIN @ |-> [@[i] EXCEPT !.id = Sign(@)]],
       !.edges = [i \in DOMAIN @ |-> [@[i] EXCEPT !.start = Sign(@), !.end = Sign(@)]]]
  /\ graph' = Append(graph, NoGraph) /\ appended' = Append(appended, {})
  /\ pos' = 1 /\ pc' = "load vertices"
  /\ UNCHANGED <<vid, eid, vertex, edge, file, saved, sv, ev>>

VertexNegated(v) == [v EXCEPT !.id = Sign(@)]
EdgeNegated(e) == [e EXCEPT !.id = Sign(@), !.start = Sign(@), !.end = Sign(@)]

\* The second pass takes the signs away; then new_graph().
Negate ==
  /\ pc = "negate"
  /\ tree' = [tree EXCEPT
       !.vertices = [i \in DOMAIN @ |-> VertexNegated(@[i])],
       !.edges = [i \in DOMAIN @ |-> EdgeNegated(@[i])]]
  /\ graph' = Append(graph, NoGraph)
  /\ appended' = Append(appended, {})
  /\ pos' = 1 /\ pc' = "load vertices"
  /\ UNCHANGED <<vid, eid, vertex, edge, file, saved, sv, ev>>

\* new_vertex() takes another id, which that of the tree replaces.
LoadVertex ==
  /\ pc = "load vertices" /\ pos \in DOMAIN tree.vertices
  /\ LET v == tree.vertices[pos] IN
       vertex' = Append(vertex, [id |-> v.id, attr |-> ReadBack(v.attr)])
  /\ graph' = [graph EXCEPT ![Len(graph)] = g_insert_v(@, vertex', Len(vertex'))]
  /\ vid' = vid + 1 /\ pos' = pos + 1
  /\ UNCHANGED <<eid, edge, appended, file, saved, pc, tree, sv, ev>>

\* The search for the vertex with an id: the pointer keeps its value when
\* there is none, and has none before the first edge.
Found(old, id) ==
  LET hits == {v \in graph[Len(graph)].vertices : vertex[v].id = id}
  IN  IF hits = {} THEN old ELSE CHOOSE v \in hits : TRUE

LoadEdge ==
  /\ pc = "load edges" /\ pos \in DOMAIN tree.edges
  /\ LET e == tree.edges[pos] IN
       /\ sv' = Found(sv, e.start) /\ ev' = Found(ev, e.end)
       /\ sv' # NULL /\ ev' # NULL
       /\ edge' = Append(edge,
            [id |-> e.id, start |-> sv', end |-> ev', attr |-> ReadBack(e.attr)])
  /\ graph' = [graph EXCEPT ![Len(graph)] = g_insert_e(@, edge', Len(edge'))]
  /\ appended' = [appended EXCEPT ![Len(graph)] = @ \cup {Len(edge')}]
  /\ eid' = eid + 1 /\ pos' = pos + 1
  /\ UNCHANGED <<vid, vertex, file, saved, pc, tree>>

\* edge_assign_direction through a pointer that was never assigned.
LoadStrayEdge ==
  /\ pc = "load edges" /\ pos \in DOMAIN tree.edges
  /\ \/ Found(sv, tree.edges[pos].start) = NULL
     \/ Found(ev, tree.edges[pos].end) = NULL
  /\ pc' = "undefined"
  /\ UNCHANGED <<process, file, saved, reader>>

\* The loop that follows another.
After == [p \in {"rename vertices", "rename edges", "load vertices", "load edges"} |->
  CASE p = "rename vertices" -> "rename edges"
    [] p = "rename edges"    -> "negate"
    [] p = "load vertices"   -> "load edges"
    [] p = "load edges"      -> "return"]

Elements == IF pc \in {"rename vertices", "load vertices"} THEN tree.vertices ELSE tree.edges

\* A loop of readGraph has met its last element.
EndOfLoop ==
  /\ pc \in DOMAIN After /\ pos > Len(Elements)
  /\ pos' = 1 /\ pc' = After[pc]
  /\ UNCHANGED <<process, file, saved, tree, sv, ev>>

Return ==
  /\ pc = "return"
  /\ pc' = "program" /\ tree' = NoFile /\ pos' = 1 /\ sv' = NULL /\ ev' = NULL
  /\ UNCHANGED <<process, file, saved>>

------------------------------------------------------------------------------

Init ==
  /\ vid = 1 /\ eid = 1
  /\ vertex = << >> /\ edge = << >> /\ graph = <<NoGraph>> /\ appended = <<{}>>
  /\ file = NoFile /\ saved = NothingSaved
  /\ pc = "program" /\ tree = NoFile /\ pos = 1 /\ sv = NULL /\ ev = NULL

\* The process ends between fopen, which empties the file, and the end of
\* mxmlSaveFile: readGraph takes the rest for no file, or for an empty graph
\* when it is the XML declaration alone.  Whatever more is left is a file
\* readGraph refuses.
CutShort ==
  /\ Building
  /\ \E g \in DOMAIN graph : \A e \in graph[g].edges : edge[e].start # NULL
  /\ file' \in {NoFile, [NoFile EXCEPT !.saves = file.saves + 1]}
  /\ saved' = NothingSaved

\* The process ends, wherever it is, and another is started.
Restart ==
  /\ CutShort \/ UNCHANGED <<file, saved>>
  /\ vid' = 1 /\ eid' = 1
  /\ vertex' = << >> /\ edge' = << >> /\ graph' = <<NoGraph>> /\ appended' = <<{}>>
  /\ pc' = "program" /\ tree' = NoFile /\ pos' = 1 /\ sv' = NULL /\ ev' = NULL

Program ==
  \/ NewVertex \/ NewEdge \/ Direct \/ AppendVertex \/ AppendEdge
  \/ SaveGraph \/ SaveCrash \/ OpenFile

Reading ==
  \/ RenameVertex \/ RenameEdge \/ Negate \/ LoadVertex \/ LoadEdge \/ LoadStrayEdge
  \/ EndOfLoop \/ Return

Next == Program \/ Reading \/ Restart

Spec == Init /\ [][Next]_vars

------------------------------------------------------------------------------
(* Properties.                                                             *)

\* Every variable has its type; pointers are NULL or point to an object made.
TypeOK ==
  /\ vid \in Nat /\ eid \in Nat /\ pos \in Nat
  /\ \A i \in DOMAIN vertex : vertex[i].id \in Nat /\ vertex[i].attr \in Value
  /\ \A i \in DOMAIN edge :
       /\ edge[i].id \in Nat /\ edge[i].attr \in Value
       /\ {edge[i].start, edge[i].end} \subseteq DOMAIN vertex \cup {NULL}
  /\ Len(appended) = Len(graph)
  /\ \A g \in DOMAIN graph :
       graph[g].vertices \subseteq DOMAIN vertex /\ graph[g].edges \subseteq appended[g]
  /\ {sv, ev} \subseteq DOMAIN vertex \cup {NULL}

\* No two vertices, and no two edges, of a process have the same id: loaded
\* ones have ids of their own although a file brings ids of another process
\* (FileReadWrite.c:339, 596; a graph keeps one vertex per id).
IdsUnique ==
  /\ \A i, j \in DOMAIN vertex : vertex[i].id = vertex[j].id => i = j
  /\ \A i, j \in DOMAIN edge : edge[i].id = edge[j].id => i = j

\* The place of a vertex of the graph just read, by order of loading.
Base == Len(vertex) - Len(tree.vertices)
Place(v) == v - Base
LoadedEdge(k) == edge[Len(edge) - Len(tree.edges) + k]

\* What readGraph returns is the graph that was saved: each vertex with its
\* attribute as the file keeps it, each edge with its attribute and with those
\* of its ends that were saved, whatever became of the ids (FileReadWrite.c:
\* 326-463 rename them while they still refer to each other).
RoundTrip ==
  pc = "return" =>
    /\ graph[Len(graph)].vertices = Base + 1 .. Len(vertex)
    /\ \A k \in DOMAIN saved.vertices : vertex[Base + k].attr = ReadBack(saved.vertices[k])
    /\ \A k \in DOMAIN saved.edges :
         LET e == LoadedEdge(k) s == saved.edges[k] IN
         /\ s.start # NULL => Place(e.start) = s.start
         /\ s.end # NULL => Place(e.end) = s.end
         /\ e.attr = ReadBack(s.attr)

\* Every edge that is appended to a graph, by the program or by readGraph, is
\* in it, as long as ids fit in one byte: then no two have the same string of
\* bytes (Derivedtype.c:77).
EdgesKept == eid <= Byte => \A g \in DOMAIN graph : graph[g].edges = appended[g]
==============================================================================
