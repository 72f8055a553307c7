----------------------------- MODULE ObjectStore -----------------------------
(***************************************************************************)
(* The reference-counted heap every compiled NSBL program runs on: the     *)
(* registry of GC.c, the constructors, destructors and assign_operator_*   *)
(* functions of Derivedtype.c, and the statements CodeGen.c emits around   *)
(* them.  A behaviour is the run of some NSBL program: at each step the    *)
(* program executes one more statement on its variables, enters a block,   *)
(* or frees the variables of the block it leaves.                          *)
(*                                                                         *)
(* Who owns a reference: a variable or a compiler temporary (a slot), the  *)
(* vertex and edge tables of a graph, the attribute table of a vertex or   *)
(* an edge.  Everything else is a bare pointer: the elements of a list, the *)
(* ends of an edge, the edges at a vertex, the string in an attribute.     *)
(* Some expressions make an object where they stand: the list of the       *)
(* members of a graph, a string literal.  Nothing owns it, nothing frees it. *)
(***************************************************************************)
EXTENDS Naturals, FiniteSets

CONSTANTS
  Addr,          \* the blocks malloc can return
  NULL,          \* the null pointer
  Slot,          \* variables and temporaries of derived type
  SlotKind,      \* the static type of each slot
  SlotScope,     \* the block each slot is declared in
  LastScope,     \* the deepest block; block 0 is the main program
  MaxNullRefs,   \* bound: how often NULL is registered
  MaxDropped,    \* bound: the blocks made in place
  MaxCareless,   \* bound: the kinds of carelessness before the last statement
  FreedCountReadsPositive  \* may GC_Deref read a positive count from the
                           \* entry it has just freed?

Kind == {"attr", "string", "vlist", "elist", "edge", "vertex", "graph"}
ListKind == {"vlist", "elist"}
Element == {"vertex", "edge"}
Carelessness ==
  {"self_overwrite", "stale_pointer", "shared_string", "null_member", "self_attribute"}

ASSUME StoreAssumption ==
  /\ IsFiniteSet(Addr) /\ IsFiniteSet(Slot)
  /\ NULL \notin Addr
  /\ Slot \cap Addr = {}
  /\ SlotKind \in [Slot -> Kind]
  /\ LastScope \in Nat /\ SlotScope \in [Slot -> 0 .. LastScope]
  /\ MaxNullRefs \in Nat /\ MaxDropped \in Nat /\ MaxCareless \in Nat
  /\ FreedCountReadsPositive \in BOOLEAN

VARIABLES
  kind,      \* what each block is allocated as, or "free"
  nref,      \* GC.c's GCH: the nref of the entry of a pointer, 0 when none
  holds,     \* the objects the tables of a graph, vertex or edge refer to
  links,     \* the bare pointers a block keeps
  dropped,   \* history: the blocks made in place
  env,       \* what each slot points to
  depth,     \* the block being executed
  pc,        \* run, free (leaving a block), done, died, undefined
  careless   \* history: the careless things the program has done

vars == <<kind, nref, holds, links, dropped, env, depth, pc, careless>>

Pointer == Addr \cup {NULL}

\* The element type of a list type, and what the tables of an object hold.
ElementOf(k) == IF k = "vlist" THEN "vertex" ELSE "edge"
Contents(k) == IF k = "graph" THEN Element
               ELSE IF k \in Element THEN {"attr"} ELSE {}

TypeOK ==
  /\ kind \in [Addr -> Kind \cup {"free"}]
  /\ nref \in [Pointer -> Nat]
  /\ holds \in [Addr -> SUBSET Addr]
  /\ links \in [Addr -> SUBSET Pointer]
  /\ dropped \subseteq Addr
  /\ env \in [Slot -> Pointer]
  /\ depth \in 0 .. LastScope
  /\ pc \in {"run", "free", "done", "died", "undefined"}
  /\ careless \subseteq Carelessness

-----------------------------------------------------------------------------
(* GC.c: one entry per registered pointer.                                 *)

\* A mutant: GC_Ref leaves an entry it finds as it is.
GC_RefOnce(h, p) == [h EXCEPT ![p] = IF @ = 0 THEN 1 ELSE @]

\* GC_Ref creates the entry when there is none, then counts.
GC_Ref(h, p) == [h EXCEPT ![p] = @ + 1]

\* GC_Deref on every pointer of S: the entry goes when its count was one; a
\* pointer without an entry is reported and left alone.
GC_Deref(h, S) == [p \in DOMAIN h |-> IF p \in S /\ h[p] > 0 THEN h[p] - 1 ELSE h[p]]

\* The pointers of S whose entry GC_Deref removes.
LastRef(h, S) == {o \in S : h[o] = 1}

(* Destructors.  Each calls gcDef first and goes on only when the count it *)
(* gets back is not positive.  For the last reference GC_Deref returns     *)
(* --gce->nref read from the entry it has freed: zero if the block still   *)
(* holds the count, anything if the allocator has reused those bytes.      *)
(* `skip` are the objects whose destructor stops there.                    *)

\* What the bodies of the destructors of the objects of S release in turn.
Opened(h, hd, S, skip) == UNION {hd[o] : o \in LastRef(h, S) \ skip}

\* destroy_graph releases its edges and vertices, these their attributes.
Released(h, hd, p, skip) ==
  IF p = NULL THEN {}
  ELSE LET members == Opened(h, hd, {p}, skip)
       IN  {p} \cup members \cup Opened(h, hd, members, skip)

\* The destructors that stop early: each was handed a last reference.
Skips(h, hd, p, skip) ==
  /\ skip \subseteq LastRef(h, Released(h, hd, p, skip))
  /\ skip # {} => FreedCountReadsPositive

-----------------------------------------------------------------------------
(* Heaps as values: the one an argument expression leaves, the one a       *)
(* destructor leaves.                                                      *)

Store ==
  [kind |-> kind, nref |-> nref, holds |-> holds, links |-> links, dropped |-> dropped]

Become(st) ==
  /\ kind' = st.kind
  /\ nref' = st.nref
  /\ holds' = st.holds
  /\ links' = st.links
  /\ dropped' = st.dropped

Free == {a \in Addr : kind[a] = "free"}

\* malloc and the initialisation of a constructor; constructors register nothing.
Alloc(a, k, ps) ==
  [Store EXCEPT !.kind = [kind EXCEPT ![a] = k], !.links = [links EXCEPT ![a] = ps]]

\* An attribute with a string of its own.
AllocText(a, s) ==
  [Store EXCEPT !.kind = [kind EXCEPT ![a] = "attr", ![s] = "string"],
                !.links = [links EXCEPT ![a] = {s}, ![s] = {}]]

\* A fresh object that is only read where it stands in the expression.
InPlace(a, k, ps) == [Alloc(a, k, ps) EXCEPT !.dropped = @ \cup {a}]

\* The blocks it can be.
Spare == IF Cardinality(dropped) < MaxDropped THEN Free ELSE {}

\* The objects destroy_T(p) frees as their last reference goes.
Freed(st, p, skip) == LastRef(st.nref, Released(st.nref, st.holds, p, skip)) \ skip

\* destroy_attr also frees the string in the attribute, whoever points to it.
Strings(st, gone) == UNION {st.links[a] : a \in {b \in gone : st.kind[b] = "attr"}}

\* A mutant: destroy_graph frees the graph and leaves its members registered.
DestroyShallow(st, p, skip) ==
  LET gone == LastRef(st.nref, {p} \ {NULL}) \ skip
  IN  [kind  |-> [o \in Addr |-> IF o \in gone THEN "free" ELSE st.kind[o]],
       nref  |-> GC_Deref(st.nref, {p} \ {NULL}),
       holds |-> [o \in Addr |-> IF o \in gone THEN {} ELSE st.holds[o]],
       links |-> [o \in Addr |-> IF o \in gone THEN {} ELSE st.links[o]],
       dropped |-> st.dropped]

\* destroy_T(p) and every destructor it calls.
Destroy(st, p, skip) ==
  LET gone == Freed(st, p, skip)
      lost == gone \cup Strings(st, gone)
  IN  [kind  |-> [o \in Addr |-> IF o \in lost THEN "free" ELSE st.kind[o]],
       nref  |-> GC_Deref(st.nref, Released(st.nref, st.holds, p, skip)),
       holds |-> [o \in Addr |-> IF o \in lost THEN {} ELSE st.holds[o]],
       links |-> [o \in Addr |-> IF o \in lost THEN {} ELSE st.links[o]],
       dropped |-> st.dropped]

\* The body of a destructor is about to run on a block that is not (or no
\* longer) an object of its type: undefined.
Corrupts(x, st, skip) ==
  LET gone == Freed(st, env[x], skip)
  IN  \/ env[x] \in gone /\ st.kind[env[x]] # SlotKind[x]
      \/ \E o \in Strings(st, gone) : st.kind[o] # "string"

-----------------------------------------------------------------------------
(* Statements run on the slots of the blocks the program is in.            *)

Live(x) == SlotScope[x] <= depth
Running == pc = "run" /\ Cardinality(careless) <= MaxCareless
Whole(p, k) == p # NULL /\ kind[p] = k
Sound(x) == Whole(env[x], SlotKind[x])

Stop(how) == pc' = how /\ UNCHANGED <<kind, nref, holds, links, dropped, env, depth>>

\* Careless: overwriting x with the very object only x keeps alive, storing a
\* pointer to a block that is not (any more) an object of x's type, or an
\* attribute built on a string a variable owns.
Care(x, p, st) ==
  (IF p # NULL /\ p = env[x] /\ st.nref[p] = 1 THEN {"self_overwrite"} ELSE {})
  \cup (IF p # NULL /\ st.kind[p] # SlotKind[x] THEN {"stale_pointer"} ELSE {})
  \cup (IF /\ p # NULL /\ SlotKind[x] = "attr"
           /\ \E s \in st.links[p] : st.nref[s] > 0 THEN {"shared_string"} ELSE {})

\* A mutant: the new value is stored and not registered.
AssignNoRef(x, p, st) ==
  \E skip \in SUBSET Addr :
    /\ Skips(st.nref, st.holds, env[x], skip)
    /\ Become(Destroy(st, env[x], skip))
    /\ env' = [env EXCEPT ![x] = p]
    /\ careless' = careless \cup Care(x, p, st)
    /\ UNCHANGED <<depth, pc>>

\* assign_operator_T(&x, p), with p evaluated to the heap st: destroy the old
\* value, register the new one (NULL too), store it.
Assign(x, p, st) ==
  /\ p = NULL => nref[NULL] < MaxNullRefs
  /\ careless' = careless \cup Care(x, p, st)
  /\ \E skip \in SUBSET Addr :
       /\ Skips(st.nref, st.holds, env[x], skip)
       /\ \/ /\ Corrupts(x, st, skip)
             /\ Stop("undefined")
          \/ /\ ~Corrupts(x, st, skip)
             /\ LET d == Destroy(st, env[x], skip)
                IN  Become([d EXCEPT !.nref = GC_Ref(d.nref, p)])
             /\ env' = [env EXCEPT ![x] = p]
             /\ UNCHANGED <<depth, pc>>

\* destroy_T(x); x = NULL;
Release(x) ==
  /\ UNCHANGED careless
  /\ \E skip \in SUBSET Addr :
       /\ Skips(nref, holds, env[x], skip)
       /\ \/ /\ Corrupts(x, Store, skip)
             /\ Stop("undefined")
          \/ /\ ~Corrupts(x, Store, skip)
             /\ Become(Destroy(Store, env[x], skip))
             /\ env' = [env EXCEPT ![x] = NULL]
             /\ UNCHANGED <<depth, pc>>

\* T x;  and every expression whose value is a fresh object: new_vertex(),
\* new_attr_INT_T(1), binary_operator(...), list_declaration(T, 0).
New(x) ==
  /\ Running /\ Live(x)
  /\ \E a \in Free : Assign(x, a, Alloc(a, SlotKind[x], {}))

\* A temporary attribute on a string of its own: a string literal as operand of
\* a dynamic operator (codeAttr), the result of an operator on strings.
NewText(t) ==
  /\ Running /\ Live(t) /\ SlotKind[t] = "attr"
  /\ \E a \in Free : \E s \in Free \ {a} : Assign(t, a, AllocText(a, s))

\* x = y
Copy(x, y) ==
  /\ Running /\ Live(x) /\ Live(y) /\ SlotKind[x] = SlotKind[y] /\ SlotKind[x] # "attr"
  /\ Assign(x, env[y], Store)

\* The temporary of a string operand s of a dynamic operator:
\* new_attr_STRING_T(s) keeps the pointer it is given.
WrapString(t, s) ==
  /\ Running /\ Live(t) /\ Live(s) /\ SlotKind[t] = "attr" /\ SlotKind[s] = "string"
  /\ Sound(s)
  /\ \E a \in Free : Assign(t, a, Alloc(a, "attr", {env[s]}))

\* list x = [y1, ..., yn]: list_declaration registers nothing.
ListDeclaration(x, ys) ==
  /\ Running /\ Live(x) /\ SlotKind[x] \in ListKind
  /\ \A y \in ys : Live(y) /\ SlotKind[y] = ElementOf(SlotKind[x])
  /\ \E a \in Free : Assign(x, a, Alloc(a, SlotKind[x], {env[y] : y \in ys}))

\* The members of g that g.allV or g.allE lists; no graph has none.
Members(g, k) ==
  IF env[g] = NULL THEN {} ELSE {o \in holds[env[g]] : kind[o] = ElementOf(k)}

\* x = g.allV or g.allE: get_g_vlist, get_g_elist.
GraphMembers(x, g) ==
  /\ Running /\ Live(x) /\ Live(g) /\ SlotKind[x] \in ListKind /\ SlotKind[g] = "graph"
  /\ env[g] = NULL \/ Sound(g)
  /\ \E a \in Free : Assign(x, a, Alloc(a, SlotKind[x], Members(g, SlotKind[x])))

\* A list where a statement takes one: a list variable y, or g.allV or g.allE
\* of a graph y, a fresh list each time the statement evaluates it.
ListArguments(y) ==
  IF SlotKind[y] \in ListKind /\ Sound(y)
    THEN {[of |-> SlotKind[y], elements |-> links[env[y]], heap |-> Store]}
  ELSE IF SlotKind[y] = "graph" /\ (env[y] = NULL \/ Sound(y))
    THEN {[of |-> k, elements |-> Members(y, k), heap |-> InPlace(a, k, Members(y, k))] :
            k \in ListKind, a \in Spare}
  ELSE {}

\* The length of a list that is made in place, or the count of turns a foreach,
\* match or pipe takes of it.
LengthInPlace(g) ==
  /\ Running /\ Live(g) /\ SlotKind[g] = "graph"
  /\ \E list \in ListArguments(g) : Become(list.heap)
  /\ UNCHANGED <<env, depth, pc, careless>>

\* A string literal in a static comparison, or naming a file: g_string_new.
LiteralInPlace ==
  /\ Running
  /\ \E a \in Spare : Become(InPlace(a, "string", {}))
  /\ UNCHANGED <<env, depth, pc, careless>>

\* l <: y: list_append skips NULL and an object already in the list; no gcRef.
AppendToList(l, y) ==
  /\ Running /\ Live(l) /\ Live(y)
  /\ SlotKind[l] \in ListKind /\ SlotKind[y] = ElementOf(SlotKind[l])
  /\ Sound(l) /\ env[y] # NULL /\ env[y] \notin links[env[l]]
  /\ links' = [links EXCEPT ![env[l]] = @ \cup {env[y]}]
  /\ UNCHANGED <<kind, nref, holds, dropped, env, depth, pc, careless>>

\* x = l[i], or one turn of foreach (T x : l) or of a match over l: the element
\* is assigned as it is (only list_getelement refuses NULL).
TakeElement(x, l) ==
  /\ Running /\ Live(x) /\ Live(l)
  /\ \E list \in ListArguments(l) :
       /\ SlotKind[x] = ElementOf(list.of)
       /\ \E p \in list.elements : Assign(x, p, list.heap)

\* e : v -> w.  edge_assign_direction sets the ends of e and adds e to the
\* edges of v and w; those of earlier ends keep it.
EdgeDirection(e, v, w) ==
  /\ Running /\ Live(e) /\ Live(v) /\ Live(w)
  /\ SlotKind[e] = "edge" /\ SlotKind[v] = "vertex" /\ SlotKind[w] = "vertex"
  /\ Sound(e) /\ Sound(v) /\ Sound(w)
  /\ links' = [o \in Addr |-> IF o = env[e] THEN {env[v], env[w]}
                             ELSE IF o \in {env[v], env[w]} THEN links[o] \cup {env[e]}
                             ELSE links[o]]
  /\ UNCHANGED <<kind, nref, holds, dropped, env, depth, pc, careless>>

\* One turn of the pipe m = l | outE, inE, startV or endV: edges at the
\* vertex, or an end of the edge, go to the list m.
PipeTurn(m, l) ==
  /\ Running /\ Live(m) /\ Live(l) /\ SlotKind[m] \in ListKind /\ Sound(m)
  /\ \E list \in ListArguments(l) : \E o \in list.elements :
       /\ list.of \in ListKind \ {SlotKind[m]}
       /\ \/ /\ ~Whole(o, ElementOf(list.of))
             /\ careless' = careless \cup {IF o = NULL THEN "null_member" ELSE "stale_pointer"}
             /\ Stop("undefined")
          \/ /\ Whole(o, ElementOf(list.of))
             /\ \E S \in SUBSET (links[o] \ {NULL}) :
                  Become([list.heap EXCEPT !.links[env[m]] = @ \cup S])
             /\ UNCHANGED <<env, depth, pc, careless>>

\* A mutant: g_insert_v forgets gcRef.
InsertNoRef(g, y) ==
  /\ Running /\ Live(g) /\ Live(y) /\ SlotKind[g] = "graph" /\ SlotKind[y] \in Element
  /\ Sound(g) /\ Sound(y) /\ env[y] \notin holds[env[g]]
  /\ holds' = [holds EXCEPT ![env[g]] = @ \cup {env[y]}]
  /\ UNCHANGED <<kind, nref, links, dropped, env, depth, pc, careless>>

\* g <: y: g_insert_v, g_insert_e.  A member already there, or NULL, is ignored.
Insert(g, y) ==
  /\ Running /\ Live(g) /\ Live(y) /\ SlotKind[g] = "graph" /\ SlotKind[y] \in Element
  /\ Sound(g) /\ Sound(y) /\ env[y] \notin holds[env[g]]
  /\ holds' = [holds EXCEPT ![env[g]] = @ \cup {env[y]}]
  /\ nref' = GC_Ref(nref, env[y])
  /\ UNCHANGED <<kind, links, dropped, env, depth, pc, careless>>

\* g <: l: g_append_list inserts the elements that are not members yet.
AppendList(g, l) ==
  /\ Running /\ Live(g) /\ Live(l) /\ SlotKind[g] = "graph" /\ Sound(g)
  /\ \E list \in ListArguments(l) :
       LET new == list.elements \ (holds[env[g]] \cup {NULL})
       IN  /\ new # {} \/ list.heap # Store
           /\ \/ /\ \E o \in new : kind[o] # ElementOf(list.of)
                 /\ careless' = careless \cup {"stale_pointer"}
                 /\ Stop("undefined")
              \/ /\ \A o \in new : kind[o] = ElementOf(list.of)
                 /\ Become([list.heap EXCEPT
                       !.holds[env[g]] = @ \cup new,
                       !.nref = [p \in Pointer |-> IF p \in new THEN nref[p] + 1 ELSE nref[p]]])
                 /\ UNCHANGED <<env, depth, pc, careless>>

\* The temporary of o.name on the left of an assignment: the attribute in the
\* table, or a new one of unknown type that the table registers first.
GetAttribute(t, o) ==
  /\ Running /\ Live(t) /\ Live(o) /\ SlotKind[t] = "attr" /\ SlotKind[o] \in Element
  /\ Sound(o)
  /\ \/ \E a \in holds[env[o]] : Assign(t, a, Store)
     \/ \E a \in Free :
          Assign(t, a, [Alloc(a, "attr", {}) EXCEPT
                          !.holds = [holds EXCEPT ![env[o]] = @ \cup {a}],
                          !.nref = GC_Ref(nref, a)])

\* The attribute a right operand of a dynamic operator is: a temporary, or the
\* one a table of a vertex or an edge holds.
Operands(r) ==
  IF SlotKind[r] = "attr" /\ Sound(r) THEN {env[r]}
  ELSE IF SlotKind[r] \in Element /\ Sound(r) THEN holds[env[r]]
  ELSE {}

\* A mutant: the pointer to the string is copied, not the string.
AssignPointer(t, r) ==
  /\ Running /\ Live(t) /\ Live(r) /\ SlotKind[t] = "attr" /\ Sound(t)
  /\ \E c \in Addr : env[t] \in holds[c]
  /\ \E p \in Operands(r) :
       /\ links[p] # {} /\ p # env[t]
       /\ kind' = [o \in Addr |-> IF o \in links[env[t]] THEN "free" ELSE kind[o]]
       /\ links' = [links EXCEPT ![env[t]] = links[p]]
       /\ UNCHANGED <<nref, holds, dropped, env, depth, pc, careless>>

\* o.name = r with t the temporary of o.name and r a string: assign_operator
\* frees the string of t and then copies the one of r.  (Other values move no
\* pointer, and a string for an attribute of another type dies.)
AssignAttribute(t, r) ==
  /\ Running /\ Live(t) /\ Live(r) /\ SlotKind[t] = "attr" /\ Sound(t)
  /\ \E c \in Addr : env[t] \in holds[c]
  /\ \E p \in Operands(r) :
       LET cleared == [o \in Addr |-> IF o \in links[env[t]] THEN "free" ELSE kind[o]]
       IN  /\ links[p] # {}
           /\ careless' = careless \cup (IF p = env[t] THEN {"self_attribute"} ELSE {})
           /\ \/ /\ \/ \E s \in links[env[t]] : kind[s] # "string"
                    \/ \E s \in links[p] : cleared[s] # "string"
                 /\ Stop("undefined")
              \/ /\ \A s \in links[env[t]] : kind[s] = "string"
                 /\ \A s \in links[p] : cleared[s] = "string"
                 /\ \E b \in Addr :
                      /\ cleared[b] = "free"
                      /\ kind' = [cleared EXCEPT ![b] = "string"]
                      /\ links' = [links EXCEPT ![env[t]] = {b}]
                 /\ UNCHANGED <<nref, holds, dropped, env, depth, pc>>

\* The heap readGraph leaves when it parsed a file: a graph g of vertices V
\* and edges E with their ends, the attributes A in the tables of owners, and
\* the strings of those that bear one.
Loaded(g, V, E, A, T, ends, owner, bearer) ==
  [kind  |-> [o \in Addr |-> IF o = g THEN "graph" ELSE IF o \in V THEN "vertex"
                             ELSE IF o \in E THEN "edge"
                             ELSE IF o \in A THEN "attr"
                             ELSE IF o \in T THEN "string" ELSE kind[o]],
   nref  |-> [p \in Pointer |-> IF p \in V \cup E \cup A THEN nref[p] + 1 ELSE nref[p]],
   holds |-> [o \in Addr |-> IF o = g THEN V \cup E
                             ELSE IF o \in V \cup E THEN {a \in A : owner[a] = o}
                             ELSE holds[o]],
   links |-> [o \in Addr |-> IF o \in V THEN {e \in E : o \in ends[e]}
                             ELSE IF o \in E THEN ends[o]
                             ELSE IF o \in A THEN {s \in T : bearer[s] = o}
                             ELSE IF o \in T \cup {g} THEN {}
                             ELSE links[o]],
   dropped |-> dropped]

\* "file" >> x: assign_operator_graph(&x, readGraph("file")).
ReadGraph(x) ==
  /\ Running /\ Live(x) /\ SlotKind[x] = "graph"
  /\ \E g \in Free : \E V, E \in SUBSET (Free \ {g}) :
     \E A \in SUBSET (Free \ ({g} \cup V \cup E)) :
     \E T \in SUBSET (Free \ ({g} \cup V \cup E \cup A)) :
       /\ V \cap E = {} /\ (E # {} => V # {})
       /\ \E ends \in [E -> SUBSET V], owner \in [A -> V \cup E], bearer \in [T -> A] :
            /\ \A r, s \in T : bearer[r] = bearer[s] => r = s
            /\ Assign(x, g, Loaded(g, V, E, A, T, ends, owner, bearer))

\* readGraph returns NULL for a file it cannot open.
ReadMissingFile(x) ==
  /\ Running /\ Live(x) /\ SlotKind[x] = "graph"
  /\ Assign(x, NULL, Store)

\* die(): a NULL list or object, an index past the end, a NULL element, operands
\* of types that do not fit.
Die ==
  /\ Running
  /\ \E x \in Slot :
       /\ Live(x)
       /\ \/ SlotKind[x] \in Element /\ env[x] = NULL
          \/ SlotKind[x] = "attr" /\ Sound(x)
          \/ SlotKind[x] \in ListKind /\ (env[x] = NULL \/ Sound(x))
  /\ Stop("died") /\ UNCHANGED careless

\* A turn of a match ends: tmpVabDel destroys its temporary.
DeleteTmp(x) ==
  /\ Running /\ Live(x) /\ SlotKind[x] \in Element /\ env[x] # NULL
  /\ Release(x)

\* Any statement that reads the object of a slot whose block is gone.
UseStale(x) ==
  /\ Running /\ Live(x) /\ env[x] # NULL /\ ~Sound(x)
  /\ Stop("undefined") /\ UNCHANGED careless

-----------------------------------------------------------------------------
(* Blocks.                                                                 *)

\* Entering a block, the generated code sets its slots to NULL.
EnterScope ==
  /\ Running /\ depth < LastScope
  /\ depth' = depth + 1
  /\ env' = [x \in Slot |-> IF SlotScope[x] = depth + 1 THEN NULL ELSE env[x]]
  /\ UNCHANGED <<kind, nref, holds, links, dropped, pc, careless>>

\* The end of a block: allFreeCodeInScope.
LeaveScope ==
  /\ Running
  /\ pc' = "free"
  /\ UNCHANGED <<kind, nref, holds, links, dropped, env, depth, careless>>

\* allFreeCodeInScope frees attributes, strings, lists, edges, vertices and
\* graphs in this order.
Rank(k) == IF k = "attr" THEN 1 ELSE IF k = "string" THEN 2 ELSE IF k \in ListKind THEN 3
           ELSE IF k = "edge" THEN 4 ELSE IF k = "vertex" THEN 5 ELSE 6

\* The generated destroy_T(x); x = NULL;
FreeSlot(x) ==
  /\ pc = "free" /\ SlotScope[x] = depth /\ env[x] # NULL
  /\ \A y \in Slot : SlotScope[y] = depth /\ env[y] # NULL
                       => Rank(SlotKind[x]) <= Rank(SlotKind[y])
  /\ Release(x)

\* A mutant: block 0 is left like any other.
EndScopeOfAnyBlock ==
  /\ pc = "free" /\ \A x \in Slot : SlotScope[x] = depth => env[x] = NULL
  /\ pc' = "run" /\ depth' = depth - 1
  /\ UNCHANGED <<kind, nref, holds, links, dropped, env, careless>>

\* The block is left; after block 0 main calls gcDel and returns.
EndScope ==
  /\ pc = "free" /\ \A x \in Slot : SlotScope[x] = depth => env[x] = NULL
  /\ IF depth = 0 THEN pc' = "done" /\ UNCHANGED depth
                  ELSE pc' = "run" /\ depth' = depth - 1
  /\ UNCHANGED <<kind, nref, holds, links, dropped, env, careless>>

-----------------------------------------------------------------------------
Init ==
  /\ kind = [a \in Addr |-> "free"]
  /\ nref = [p \in Pointer |-> 0]
  /\ holds = [a \in Addr |-> {}]
  /\ links = [a \in Addr |-> {}]
  /\ dropped = {}
  /\ env = [x \in Slot |-> NULL]
  /\ depth = 0
  /\ pc = "run"
  /\ careless = {}

Statement ==
  \/ \E x \in Slot :
       \/ New(x) \/ NewText(x) \/ ReadGraph(x) \/ ReadMissingFile(x)
       \/ UseStale(x) \/ DeleteTmp(x) \/ LengthInPlace(x)
  \/ \E x, y \in Slot :
       \/ Copy(x, y) \/ Insert(x, y) \/ AppendList(x, y) \/ WrapString(x, y)
       \/ AppendToList(x, y) \/ GraphMembers(x, y) \/ GetAttribute(x, y)
       \/ AssignAttribute(x, y) \/ TakeElement(x, y) \/ PipeTurn(x, y)
  \/ \E x, y, z \in Slot : EdgeDirection(x, y, z)
  \/ \E x \in Slot, ys \in SUBSET Slot : ys # {} /\ ListDeclaration(x, ys)
  \/ LiteralInPlace
  \/ Die

ScopeExit == (\E x \in Slot : FreeSlot(x)) \/ EndScope

Next == Statement \/ EnterScope \/ LeaveScope \/ ScopeExit

Spec == Init /\ [][Next]_vars

-----------------------------------------------------------------------------
(* Properties.                                                             *)

\* The variables, temporaries and tables that own a reference to o.
Owners(o) == {x \in Slot : env[x] = o} \cup {c \in Addr : o \in holds[c]}

\* GC.c counts exactly: whatever the program does up to its first undefined
\* step, the nref of an object is the number of slots and tables that own it.
ExactCounts == \A o \in Addr : nref[o] = Cardinality(Owners(o))

\* Tables hold objects of the types the language puts there, and an attribute
\* is in the table of one object: what makes the cascade of destructors
\* release each object once.
TablesTyped == \A c \in Addr : \A o \in holds[c] : kind[o] \in Contents(kind[c])
TablesDisjoint ==
  \A c, d \in Addr :
    kind[c] \in Element /\ kind[d] \in Element /\ c # d => holds[c] \cap holds[d] = {}

\* A slot always points to an allocated object of its type.
NoDanglingSlot == \A x \in Slot : env[x] # NULL => kind[env[x]] = SlotKind[x]

\* No slot and no table dangles: unless the program was careless, every
\* slot points to an allocated object of its type; every table entry always does.
OwnedAlive ==
  /\ TablesTyped
  /\ careless = {} => NoDanglingSlot

\* Only a careless program reaches undefined behaviour in the runtime.
DefinedIfCareful == pc = "undefined" => careless # {}

\* What the program can reach from its variables through tables.
Reach(S) == S \cup UNION {holds[o] : o \in S}
Roots == {env[x] : x \in Slot} \ {NULL}

\* Counting references collects what tracing would, but for what was made in
\* place: at every step of a careful program the allocated blocks are those
\* reachable from the slots with the strings of their attributes, and, apart
\* from these, every list and literal the program has made in place.
CollectsExactly ==
  careless = {} =>
    LET reached == Reach(Reach(Roots))
        kept == reached \cup Strings(Store, reached)
    IN  /\ {a \in Addr : kind[a] # "free"} = kept \cup dropped
        /\ kept \cap dropped = {}

=============================================================================
