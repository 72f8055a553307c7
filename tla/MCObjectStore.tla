---------------------------- MODULE MCObjectStore ----------------------------
(* Instances of ObjectStore: a few variables of a small NSBL program.       *)
EXTENDS ObjectStore, TLC

CONSTANTS
  a1, a2, a3, a4, a5,        \* blocks of the heap
  v, w, e, g, l, m, s, t, u  \* slots

\* graph g; vertex v; { vertex w; a temporary attribute t }
GraphSlots == {v, w, g, t}
GraphKinds == (v :> "vertex") @@ (w :> "vertex") @@ (g :> "graph") @@ (t :> "attr")
GraphScopes == (v :> 0) @@ (g :> 0) @@ (w :> 1) @@ (t :> 1)

\* vlist l; elist m; graph g; { vertex v; edge e }
ListSlots == {v, e, l, m, g}
ListKinds ==
  (v :> "vertex") @@ (e :> "edge") @@ (l :> "vlist") @@ (m :> "elist") @@ (g :> "graph")
ListScopes == (l :> 0) @@ (m :> 0) @@ (g :> 0) @@ (v :> 1) @@ (e :> 1)

\* vertex v; string s; { temporary attributes t, u }
TextSlots == {v, s, t, u}
TextKinds == (v :> "vertex") @@ (s :> "string") @@ (t :> "attr") @@ (u :> "attr")
TextScopes == (v :> 0) @@ (s :> 0) @@ (t :> 1) @@ (u :> 1)

AddrSymmetry == Permutations(Addr)
=============================================================================
