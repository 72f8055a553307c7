-------------------------- MODULE ObjectStoreProofs --------------------------
(***************************************************************************)
(* ObjectStore's counts are exact and its slots do not dangle, for every   *)
(* set of blocks, slots and blocks of code.  The inductive invariant says  *)
(* of a heap st and the slots e that the counts are the numbers of owners  *)
(* and that tables are layered (a graph holds vertices and edges, these    *)
(* attributes) and disjoint: then the destructors destroy_T(e[x]) calls    *)
(* release each object once, and free it exactly when its last owner went. *)
(***************************************************************************)
EXTENDS ObjectStore, FiniteSetTheorems, TLAPS

Heap == [kind : [Addr -> Kind \cup {"free"}], nref : [Pointer -> Nat],
         holds : [Addr -> SUBSET Addr], links : [Addr -> SUBSET Pointer],
         dropped : SUBSET Addr]

OwnersIn(st, e, o) == {y \in Slot : e[y] = o} \cup {c \in Addr : o \in st.holds[c]}
Exact(st, e) == \A o \in Addr : st.nref[o] = Cardinality(OwnersIn(st, e, o))
Typed(st) == \A c \in Addr : \A o \in st.holds[c] : st.kind[o] \in Contents(st.kind[c])
Disjoint(st) ==
  \A c, d \in Addr :
    st.kind[c] \in Element /\ st.kind[d] \in Element /\ c # d
      => st.holds[c] \cap st.holds[d] = {}

Good(st, e) ==
  /\ st \in Heap /\ e \in [Slot -> Pointer]
  /\ Exact(st, e) /\ Typed(st) /\ Disjoint(st)

\* The slots of the blocks the program is not in own nothing.
DeadSlotsNull == \A x \in Slot : ~Live(x) => env[x] = NULL

\* The inductive invariant.
IInv == TypeOK /\ ExactCounts /\ TablesTyped /\ TablesDisjoint /\ DeadSlotsNull

-----------------------------------------------------------------------------
(* Owners as a finite set.                                                 *)

LEMMA OwnersFinite ==
  ASSUME NEW st, NEW e, NEW o
  PROVE  IsFiniteSet(OwnersIn(st, e, o)) /\ Cardinality(OwnersIn(st, e, o)) \in Nat
<1>1. IsFiniteSet({y \in Slot : e[y] = o})
  BY StoreAssumption, FS_Subset, {y \in Slot : e[y] = o} \subseteq Slot
<1>2. IsFiniteSet({c \in Addr : o \in st.holds[c]})
  BY StoreAssumption, FS_Subset, {c \in Addr : o \in st.holds[c]} \subseteq Addr
<1>3. IsFiniteSet(OwnersIn(st, e, o))
  BY <1>1, <1>2, FS_Union DEF OwnersIn
<1> QED BY <1>3, FS_CardinalityType

\* A count of one names its only owner; a count of zero says there is none.
LEMMA OwnerOfCounted ==
  ASSUME NEW st, NEW e, Good(st, e), NEW o \in Addr
  PROVE  /\ OwnersIn(st, e, o) # {} => st.nref[o] > 0
         /\ st.nref[o] = 1 => \A a, b \in OwnersIn(st, e, o) : a = b
<1> DEFINE O == OwnersIn(st, e, o)
<1>1. IsFiniteSet(O) /\ Cardinality(O) \in Nat /\ st.nref[o] = Cardinality(O)
  BY OwnersFinite DEF Good, Exact
<1>2. O # {} => Cardinality(O) # 0
  BY <1>1, FS_EmptySet
<1>3. Cardinality(O) = 1 => \E a : O = {a}
  BY <1>1, FS_Singleton
<1> QED BY <1>1, <1>2, <1>3

\* Tables are layered: no block holds itself, two levels at most.
LEMMA Layers ==
  ASSUME NEW st, Typed(st), st \in Heap, NEW c \in Addr, NEW o \in st.holds[c]
  PROVE  /\ o \in Addr
         /\ \/ st.kind[c] = "graph" /\ st.kind[o] \in Element
            \/ st.kind[c] \in Element /\ st.kind[o] = "attr"
  BY DEF Typed, Heap, Contents, Element

-----------------------------------------------------------------------------
(* What destroy_T(e[x]) frees and releases.                                *)

\* The freed blocks are e[x] or in a table of a freed block: the chain from
\* e[x] to a released object only goes through freed blocks.
LEMMA FreedChain ==
  ASSUME NEW st, NEW e, Good(st, e), NEW p \in Pointer, NEW skip,
         NEW o, o \in Released(st.nref, st.holds, p, skip)
  PROVE  /\ o \in Addr /\ p \in Addr
         /\ o = p \/ \E c \in Freed(st, p, skip) : o \in st.holds[c]
<1> DEFINE M == Opened(st.nref, st.holds, {p}, skip)
<1>1. p # NULL /\ p \in Addr
  BY DEF Released, Pointer
<1>2. \A m \in M : m \in Addr /\ p \in Freed(st, p, skip) /\ m \in st.holds[p]
  BY <1>1 DEF Opened, LastRef, Freed, Released, Good, Heap
<1>3. \A c \in M : c \in LastRef(st.nref, M) \ skip => c \in Freed(st, p, skip)
  BY <1>1 DEF LastRef, Freed, Released
<1>4. o \in {p} \cup M \cup Opened(st.nref, st.holds, M, skip)
  BY <1>1 DEF Released
<1>5. CASE o = p
  BY <1>1, <1>5
<1>6. CASE o \in M
  BY <1>1, <1>2, <1>6
<1>7. CASE o \in Opened(st.nref, st.holds, M, skip)
  <2>1. PICK c \in LastRef(st.nref, M) \ skip : o \in st.holds[c]
    BY <1>7 DEF Opened
  <2>2. c \in M /\ c \in Addr
    BY <2>1, <1>2 DEF LastRef
  <2>3. o \in Addr
    BY <2>1, <2>2 DEF Good, Heap
  <2> QED BY <1>1, <1>3, <2>1, <2>2, <2>3
<1> QED BY <1>4, <1>5, <1>6, <1>7

\* What a freed block held is released.
LEMMA HeldByFreed ==
  ASSUME NEW st, NEW e, Good(st, e), NEW p \in Pointer, NEW skip,
         NEW c \in Freed(st, p, skip), NEW o \in st.holds[c]
  PROVE  o \in Released(st.nref, st.holds, p, skip)
<1> DEFINE M == Opened(st.nref, st.holds, {p}, skip)
           R == Released(st.nref, st.holds, p, skip)
<1>1. c \in R /\ c \in LastRef(st.nref, R) /\ c \notin skip /\ st.nref[c] = 1
  BY DEF Freed, LastRef
<1>2. c \in Addr /\ p \in Addr /\ p # NULL
  BY <1>1, FreedChain, StoreAssumption DEF Released
<1>3. R = {p} \cup M \cup Opened(st.nref, st.holds, M, skip)
  BY <1>2 DEF Released
<1>4. CASE c = p
  BY <1>1, <1>3, <1>4 DEF Opened, LastRef
<1>5. CASE c \in M
  BY <1>1, <1>3, <1>5 DEF Opened, LastRef
<1>6. CASE c \in Opened(st.nref, st.holds, M, skip)
  <2>1. PICK m \in M : c \in st.holds[m]
    BY <1>6 DEF Opened, LastRef
  <2>2. m \in st.holds[p] /\ m \in Addr
    BY <1>2 DEF Opened, LastRef, Good, Heap
  <2> QED BY <1>2, <2>1, <2>2, Layers DEF Good, Element
<1> QED BY <1>1, <1>3, <1>4, <1>5, <1>6

\* Of the freed blocks and the slot x, exactly one owned a released object.
LEMMA OneOwnerLost ==
  ASSUME NEW st, NEW e, Good(st, e), NEW x \in Slot, NEW skip, NEW o \in Addr
  PROVE  LET F == Freed(st, e[x], skip)
             Lost == {y \in {x} : e[y] = o} \cup {c \in F : o \in st.holds[c]}
         IN  IF o \in Released(st.nref, st.holds, e[x], skip)
             THEN \E a \in OwnersIn(st, e, o) : Lost = {a}
             ELSE Lost = {}
<1> DEFINE F == Freed(st, e[x], skip)
           R == Released(st.nref, st.holds, e[x], skip)
           Lost == {y \in {x} : e[y] = o} \cup {c \in F : o \in st.holds[c]}
           p == e[x]
<1>1. p \in Pointer /\ F \subseteq R /\ R \subseteq Addr
  BY FreedChain DEF Good, Freed, LastRef
<1>2. p = o => o \in R
  BY StoreAssumption DEF Released
<1>3. \A c \in F : o \in st.holds[c] => o \in R
  BY <1>1, HeldByFreed
<1>4. CASE o \notin R
  BY <1>2, <1>3, <1>4
<1>5. CASE o \in R
  <2>1. Lost # {}
    BY <1>1, <1>5, FreedChain
  <2>2. Lost \subseteq OwnersIn(st, e, o)
    BY <1>1 DEF OwnersIn
  <2>3. ASSUME NEW c \in F, o \in st.holds[c]
        PROVE  c \in Addr /\ (c = p \/ c \in st.holds[p])
    <3>1. c = p \/ \E m \in F : c \in st.holds[m]
      BY <1>1, FreedChain
    <3>2. SUFFICES ASSUME NEW m \in F, c \in st.holds[m], m # p PROVE FALSE
      BY <1>1, <3>1
    <3>3. PICK n \in F : m \in st.holds[n]
      BY <1>1, <3>2, FreedChain
    <3> QED BY <1>1, <2>3, <3>2, <3>3, Layers DEF Good, Element
  <2>4. ASSUME p = o, NEW c \in F, o \in st.holds[c] PROVE FALSE
    BY <1>1, <2>3, <2>4, Layers DEF Good, Element
  <2>5. ASSUME NEW c \in F, o \in st.holds[c], NEW d \in F, o \in st.holds[d] PROVE c = d
    <3>1. c \in Addr /\ d \in Addr /\ p \in Addr
      BY <1>1, <1>5, <2>3, <2>5, FreedChain
    <3>2. CASE c = p \/ d = p
      BY <2>3, <2>5, <3>1, <3>2, Layers DEF Good, Element
    <3>3. CASE c # p /\ d # p
      <4>1. st.kind[c] \in Element /\ st.kind[d] \in Element
        BY <2>3, <2>5, <3>1, <3>3, Layers DEF Good, Element
      <4> QED BY <2>5, <3>1, <4>1 DEF Good, Disjoint
    <3> QED BY <3>2, <3>3
  <2>6. \A a, b \in Lost : a = b
    BY <2>4, <2>5
  <2>7. PICK a : a \in Lost
    BY <2>1
  <2>8. Lost = {a} /\ a \in OwnersIn(st, e, o)
    BY <2>2, <2>6, <2>7
  <2> QED BY <1>5, <2>8
<1> QED BY <1>4, <1>5

\* A freed block was owned by nobody but the slot x and freed blocks.
LEMMA FreedUnowned ==
  ASSUME NEW st, NEW e, Good(st, e), NEW x \in Slot, NEW skip,
         NEW o \in Freed(st, e[x], skip)
  PROVE  /\ o \in Addr
         /\ \A y \in Slot : e[y] = o => y = x
         /\ \A c \in Addr : o \in st.holds[c] => c \in Freed(st, e[x], skip)
<1>1. o \in Released(st.nref, st.holds, e[x], skip) /\ st.nref[o] = 1
  BY DEF Freed, LastRef
<1>2. o \in Addr
  BY <1>1, FreedChain DEF Good
<1>3. PICK a \in OwnersIn(st, e, o) :
        {a} = {y \in {x} : e[y] = o} \cup {c \in Freed(st, e[x], skip) : o \in st.holds[c]}
  BY <1>1, <1>2, OneOwnerLost
<1>4. \A b \in OwnersIn(st, e, o) : b = a
  BY <1>1, <1>2, OwnerOfCounted
<1>5. Freed(st, e[x], skip) \subseteq Addr
  BY FreedChain DEF Good, Freed, LastRef
<1>6. a \in {y \in {x} : e[y] = o} \/ a \in Freed(st, e[x], skip)
  BY <1>3
<1>7. \A y \in Slot : e[y] = o => y = a
  BY <1>4 DEF OwnersIn
<1>8. \A c \in Addr : o \in st.holds[c] => c = a
  BY <1>4 DEF OwnersIn
<1> QED BY <1>2, <1>5, <1>6, <1>7, <1>8, StoreAssumption

-----------------------------------------------------------------------------
(* The destructor keeps the counts exact.                                  *)

LEMMA DestroyKeeps ==
  ASSUME NEW st, NEW e, Good(st, e), NEW x \in Slot, NEW skip,
         \A s \in Strings(st, Freed(st, e[x], skip)) : st.kind[s] = "string"
  PROVE  Good(Destroy(st, e[x], skip), [e EXCEPT ![x] = NULL])
<1> DEFINE p == e[x]
           F == Freed(st, p, skip)
           L == F \cup Strings(st, F)
           R == Released(st.nref, st.holds, p, skip)
           d == Destroy(st, p, skip)
           e2 == [e EXCEPT ![x] = NULL]
<1>1. /\ d.kind = [o \in Addr |-> IF o \in L THEN "free" ELSE st.kind[o]]
      /\ d.nref = GC_Deref(st.nref, R)
      /\ d.holds = [o \in Addr |-> IF o \in L THEN {} ELSE st.holds[o]]
      /\ d.links = [o \in Addr |-> IF o \in L THEN {} ELSE st.links[o]]
      /\ d.dropped = st.dropped
  BY DEF Destroy
<1>s. ASSUME NEW o \in Addr, o \in L, o \notin F PROVE st.kind[o] = "string" /\ st.holds[o] = {}
  <2>1. st.kind[o] = "string"
    BY <1>s
  <2> QED BY <2>1, Layers, <1>s DEF Good, Element
<1>2. DOMAIN st.nref = Pointer
  BY DEF Good, Heap
<1>3. d \in Heap /\ e2 \in [Slot -> Pointer]
  <2>1. d = [kind |-> d.kind, nref |-> d.nref, holds |-> d.holds, links |-> d.links,
             dropped |-> d.dropped]
    BY DEF Destroy
  <2>2. d.kind \in [Addr -> Kind \cup {"free"}] /\ d.holds \in [Addr -> SUBSET Addr]
    BY <1>1 DEF Good, Heap
  <2>3. d.nref \in [Pointer -> Nat]
    BY <1>1, <1>2 DEF Good, Heap, GC_Deref
  <2>4. d.links \in [Addr -> SUBSET Pointer] /\ d.dropped \in SUBSET Addr
    BY <1>1 DEF Good, Heap
  <2>5. e2 \in [Slot -> Pointer]
    BY DEF Good, Pointer
  <2> QED BY <2>1, <2>2, <2>3, <2>4, <2>5 DEF Heap
<1>4. Exact(d, e2)
  <2> SUFFICES ASSUME NEW o \in Addr PROVE d.nref[o] = Cardinality(OwnersIn(d, e2, o))
    BY DEF Exact
  <2> DEFINE Lost == {y \in {x} : e[y] = o} \cup {c \in F : o \in st.holds[c]}
  <2>1. OwnersIn(d, e2, o) = OwnersIn(st, e, o) \ Lost
    <3>1. \A y \in Slot : e2[y] = o <=> (e[y] = o /\ y # x)
      BY StoreAssumption DEF Good
    <3>2. \A c \in Addr : o \in d.holds[c] <=> (o \in st.holds[c] /\ c \notin F)
      BY <1>1, <1>s
    <3>3. F \subseteq Addr
      BY FreedChain DEF Good, Freed, LastRef
    <3>4. \A a \in Slot : a \in OwnersIn(d, e2, o) <=> (a \in OwnersIn(st, e, o) /\ a \notin Lost)
      BY <3>1, <3>3, StoreAssumption DEF OwnersIn
    <3>5. \A a \in Addr : a \in OwnersIn(d, e2, o) <=> (a \in OwnersIn(st, e, o) /\ a \notin Lost)
      BY <3>2, <3>3, StoreAssumption DEF OwnersIn
    <3>6. OwnersIn(d, e2, o) \subseteq Slot \cup Addr /\ OwnersIn(st, e, o) \subseteq Slot \cup Addr
      BY DEF OwnersIn
    <3> HIDE DEF d, e2, Lost
    <3> QED BY <3>4, <3>5, <3>6
  <2>2. st.nref[o] = Cardinality(OwnersIn(st, e, o)) /\ o \in Pointer
    BY DEF Good, Exact, Pointer
  <2>3. CASE o \in R
    <3>1. PICK a \in OwnersIn(st, e, o) : Lost = {a}
      BY <2>3, OneOwnerLost
    <3>2. Cardinality(OwnersIn(d, e2, o)) = st.nref[o] - 1
      <4>1. OwnersIn(d, e2, o) = OwnersIn(st, e, o) \ {a}
        BY <2>1, <3>1
      <4>2. IsFiniteSet(OwnersIn(st, e, o))
        BY OwnersFinite
      <4>3. Cardinality(OwnersIn(st, e, o) \ {a}) = Cardinality(OwnersIn(st, e, o)) - 1
        BY <4>2, <3>1, FS_RemoveElement
      <4> QED BY <2>2, <4>1, <4>3
    <3>3. d.nref[o] = st.nref[o] - 1
      BY <1>1, <1>2, <2>2, <2>3, OwnerOfCounted DEF GC_Deref
    <3> QED BY <3>2, <3>3
  <2>4. CASE o \notin R
    <3>1. Lost = {}
      BY <2>4, OneOwnerLost
    <3>2. d.nref[o] = st.nref[o]
      BY <1>1, <1>2, <2>2, <2>4 DEF GC_Deref
    <3> QED BY <2>1, <2>2, <3>1, <3>2
  <2> QED BY <2>3, <2>4
<1>5. Typed(d)
  <2> SUFFICES ASSUME NEW c \in Addr, NEW o \in d.holds[c]
               PROVE  d.kind[o] \in Contents(d.kind[c])
    BY DEF Typed
  <2>1. c \notin L /\ o \in st.holds[c] /\ o \in Addr
    BY <1>1 DEF Good, Heap
  <2>2. o \notin F
    BY <2>1, FreedUnowned
  <2>3. st.kind[o] # "string"
    BY <2>1, Layers DEF Good, Element
  <2>4. o \notin L
    BY <1>s, <2>1, <2>2, <2>3
  <2> QED BY <1>1, <2>1, <2>4 DEF Good, Typed
<1>6. Disjoint(d)
  BY <1>1 DEF Good, Disjoint, Element
<1> QED BY <1>3, <1>4, <1>5, <1>6 DEF Good

\* Registering p and storing it in an empty slot keeps the counts exact.
LEMMA RefKeeps ==
  ASSUME NEW d, NEW e, Good(d, e), NEW x \in Slot, e[x] = NULL, NEW p \in Pointer,
         NEW d2, d2 \in Heap,
         d2.kind = d.kind, d2.holds = d.holds, d2.nref = GC_Ref(d.nref, p)
  PROVE  Good(d2, [e EXCEPT ![x] = p])
<1> DEFINE e2 == [e EXCEPT ![x] = p]
<1>1. e2 \in [Slot -> Pointer] /\ Typed(d2) /\ Disjoint(d2)
  BY DEF Good, Typed, Disjoint
<1>2. ASSUME NEW o \in Addr PROVE d2.nref[o] = Cardinality(OwnersIn(d2, e2, o))
  <2>1. o # NULL /\ o \in Pointer /\ d.nref[o] = Cardinality(OwnersIn(d, e, o))
    BY StoreAssumption DEF Good, Exact, Pointer
  <2>2. x \notin OwnersIn(d, e, o)
    BY <2>1, StoreAssumption DEF OwnersIn
  <2>3. CASE o = p
    <3>1. OwnersIn(d2, e2, o) = OwnersIn(d, e, o) \cup {x}
      BY <2>1, <2>3 DEF OwnersIn, Good
    <3>2. IsFiniteSet(OwnersIn(d, e, o))
      BY OwnersFinite
    <3>3. Cardinality(OwnersIn(d, e, o) \cup {x}) = Cardinality(OwnersIn(d, e, o)) + 1
      BY <2>2, <3>2, FS_AddElement
    <3>4. d2.nref[o] = d.nref[o] + 1
      BY <2>1, <2>3 DEF GC_Ref, Good, Heap
    <3> QED BY <2>1, <3>1, <3>3, <3>4
  <2>4. CASE o # p
    <3>1. OwnersIn(d2, e2, o) = OwnersIn(d, e, o)
      BY <2>1, <2>4 DEF OwnersIn, Good
    <3>2. d2.nref[o] = d.nref[o]
      BY <2>1, <2>4 DEF GC_Ref, Good, Heap
    <3> QED BY <2>1, <3>1, <3>2
  <2> QED BY <2>3, <2>4
<1> QED BY <1>1, <1>2 DEF Good, Exact

-----------------------------------------------------------------------------
(* From heaps to states.                                                   *)

LEMMA StoreFields ==
  /\ Store.kind = kind /\ Store.nref = nref /\ Store.holds = holds
  /\ Store.links = links /\ Store.dropped = dropped
BY DEF Store

LEMMA IInvIsGood == IInv <=> TypeOK /\ Good(Store, env) /\ DeadSlotsNull
<1>1. TypeOK => Store \in Heap /\ env \in [Slot -> Pointer]
  BY DEF Store, Heap, TypeOK
<1>2. \A o : OwnersIn(Store, env, o) = Owners(o)
  BY StoreFields DEF OwnersIn, Owners
<1>3. Exact(Store, env) <=> ExactCounts
  BY StoreFields, <1>2 DEF Exact, ExactCounts
<1>4. Typed(Store) <=> TablesTyped
  BY StoreFields DEF Typed, TablesTyped
<1>5. Disjoint(Store) <=> TablesDisjoint
  BY StoreFields DEF Disjoint, TablesDisjoint
<1> QED BY <1>1, <1>3, <1>4, <1>5 DEF IInv, Good

\* The step that makes the heap st the program's.
LEMMA BecomeKeeps ==
  ASSUME NEW st, Good(st, env'), Become(st), depth' \in 0 .. LastScope,
         pc' \in {"run", "free", "done", "died", "undefined"},
         careless' \subseteq Carelessness, DeadSlotsNull'
  PROVE  IInv'
<1>1. st \in Heap /\ env' \in [Slot -> Pointer]
  BY DEF Good
<1>2. TypeOK'
  BY <1>1 DEF TypeOK, Become, Heap
<1>3. Store' = [kind |-> st.kind, nref |-> st.nref, holds |-> st.holds,
                links |-> st.links, dropped |-> st.dropped]
  BY DEF Become, Store
<1>4. Store' = st
  BY <1>1, <1>3 DEF Heap
<1>5. Good(Store, env)'
  BY <1>4 DEF Good, Exact, OwnersIn, Typed, Disjoint
<1> QED BY <1>2, <1>5, IInvIsGood, PTL

\* Every statement that stores a value goes through assign_operator_T.
LEMMA AssignKeeps ==
  ASSUME IInv, NEW st, Good(st, env),
         NEW x \in Slot, Live(x), NEW p \in Pointer, Assign(x, p, st)
  PROVE  IInv'
<1>0. TypeOK /\ Good(Store, env) /\ DeadSlotsNull
  BY IInvIsGood
<1>1. careless' \subseteq Carelessness
  BY <1>0 DEF TypeOK, Assign, Care, Carelessness
<1>2. PICK skip \in SUBSET Addr :
        \/ Corrupts(x, st, skip) /\ Stop("undefined")
        \/ /\ ~Corrupts(x, st, skip)
           /\ LET d == Destroy(st, env[x], skip)
              IN  Become([d EXCEPT !.nref = GC_Ref(d.nref, p)])
           /\ env' = [env EXCEPT ![x] = p]
           /\ UNCHANGED <<depth, pc>>
  BY DEF Assign
<1>3. CASE Stop("undefined")
  <2>1. TypeOK' /\ DeadSlotsNull'
    BY <1>0, <1>1, <1>3 DEF Stop, TypeOK, DeadSlotsNull, Live
  <2>2. Good(Store, env)'
    BY <1>0, <1>3 DEF Stop, Good, Store, Exact, OwnersIn, Typed, Disjoint
  <2> QED BY <2>1, <2>2, IInvIsGood, PTL
<1>4. CASE /\ ~Corrupts(x, st, skip)
           /\ LET d == Destroy(st, env[x], skip)
              IN  Become([d EXCEPT !.nref = GC_Ref(d.nref, p)])
           /\ env' = [env EXCEPT ![x] = p]
           /\ UNCHANGED <<depth, pc>>
  <2> DEFINE d == Destroy(st, env[x], skip)
             e == [env EXCEPT ![x] = NULL]
             d2 == [d EXCEPT !.nref = GC_Ref(d.nref, p)]
  <2>1. Good(d, e)
    BY <1>4, DestroyKeeps DEF Corrupts
  <2>2. d2 \in Heap /\ d2.kind = d.kind /\ d2.holds = d.holds /\ d2.nref = GC_Ref(d.nref, p)
    <3> HIDE DEF d
    <3> QED BY <2>1 DEF Good, Heap, GC_Ref
  <2>3. env' = [e EXCEPT ![x] = p] /\ e[x] = NULL
    BY <1>0, <1>4 DEF TypeOK
  <2>4. Good(d2, env')
    <3> HIDE DEF d, e, d2
    <3> QED BY <2>1, <2>2, <2>3, RefKeeps
  <2>5. DeadSlotsNull'
    BY <1>0, <1>4 DEF DeadSlotsNull, Live, TypeOK
  <2>6. Become(d2)
    BY <1>4
  <2> HIDE DEF d2
  <2> QED BY <1>0, <1>1, <1>4, <2>4, <2>5, <2>6, BecomeKeeps DEF TypeOK
<1> QED BY <1>2, <1>3, <1>4

\* Blocks that are free or strings can become anything: no table holds one,
\* and they hold nothing.
LEMMA PlainKeeps ==
  ASSUME Good(Store, env), NEW st \in Heap, st.nref = nref, st.holds = holds,
         \A o \in Addr : kind[o] \notin {"free", "string"} => st.kind[o] = kind[o]
  PROVE  Good(st, env)
<1>1. /\ kind \in [Addr -> Kind \cup {"free"}] /\ holds \in [Addr -> SUBSET Addr]
      /\ env \in [Slot -> Pointer]
  BY StoreFields DEF Good, Heap
<1>2. \A c \in Addr : \A o \in holds[c] :
        /\ o \in Addr /\ kind[o] \in Contents(kind[c])
        /\ kind[o] \notin {"free", "string"} /\ kind[c] \notin {"free", "string"}
  BY <1>1, StoreFields DEF Good, Typed, Contents, Element
<1>3. Typed(st)
  BY <1>2 DEF Typed
<1>4. Disjoint(st)
  <2> SUFFICES ASSUME NEW c \in Addr, NEW d \in Addr, c # d, NEW o,
                      st.kind[c] \in Element, st.kind[d] \in Element,
                      o \in holds[c], o \in holds[d]
               PROVE  FALSE
    BY DEF Disjoint
  <2>1. kind[c] \in Element /\ kind[d] \in Element
    BY <1>2
  <2> QED BY <2>1, StoreFields DEF Good, Disjoint
<1>5. Exact(st, env)
  BY StoreFields DEF Good, Exact, OwnersIn
<1> QED BY <1>1, <1>3, <1>4, <1>5 DEF Good

\* A constructor changes a free block only, which no table holds.
LEMMA AllocKeeps ==
  ASSUME TypeOK, Good(Store, env), NEW a \in Free, NEW k \in Kind, NEW es \in SUBSET Pointer
  PROVE  /\ Good(Alloc(a, k, es), env)
         /\ a \in Addr /\ holds[a] = {} /\ \A c \in Addr : a \notin holds[c]
<1> DEFINE st == Alloc(a, k, es)
<1>1. /\ st.kind = [kind EXCEPT ![a] = k] /\ st.nref = nref /\ st.holds = holds
      /\ st.links = [links EXCEPT ![a] = es]
  BY DEF Alloc, Store
<1>2. a \in Addr /\ kind[a] = "free"
  BY DEF Free
<1>3. holds[a] = {} /\ \A c \in Addr : a \notin holds[c]
  BY <1>2, StoreFields DEF Good, Typed, TypeOK, Contents, Element
<1>4. st \in Heap
  <2>1. Store \in Heap
    BY DEF Good
  <2>2. [kind EXCEPT ![a] = k] \in [Addr -> Kind \cup {"free"}]
    BY <1>2 DEF TypeOK
  <2>3. [links EXCEPT ![a] = es] \in [Addr -> SUBSET Pointer]
    BY <1>2 DEF TypeOK
  <2> QED BY <2>1, <2>2, <2>3 DEF Alloc, Heap
<1>5. \A o \in Addr : kind[o] \notin {"free", "string"} => st.kind[o] = kind[o]
  BY <1>1, <1>2 DEF TypeOK
<1> HIDE DEF st
<1>6. Good(st, env)
  BY <1>1, <1>4, <1>5, PlainKeeps
<1> QED BY <1>2, <1>3, <1>6 DEF st

\* GC_Ref on every pointer of S.
Counted(h, S) == [p \in Pointer |-> IF p \in S THEN h[p] + 1 ELSE h[p]]

\* Entering objects into the tables of a graph, vertex or edge: each entered
\* object gets one more owner, the table's, and one more reference.
LEMMA EnterKeeps ==
  ASSUME NEW st, NEW e, Good(st, e), NEW c \in Addr, NEW S \in SUBSET Addr,
         S \cap st.holds[c] = {},
         \A o \in S : st.kind[o] \in Contents(st.kind[c]),
         st.kind[c] \in Element => \A o \in S : \A b \in Addr : o \notin st.holds[b],
         NEW d, d \in Heap, d.kind = st.kind,
         d.holds = [st.holds EXCEPT ![c] = @ \cup S],
         d.nref = Counted(st.nref, S)
  PROVE  Good(d, e)
<1>1. Typed(d)
  BY DEF Good, Typed, Heap
<1>2. Disjoint(d)
  BY DEF Good, Disjoint, Heap
<1>3. ASSUME NEW o \in Addr PROVE d.nref[o] = Cardinality(OwnersIn(d, e, o))
  <2> USE DEF Counted
  <2>1. o \in Pointer /\ st.nref[o] = Cardinality(OwnersIn(st, e, o))
    BY DEF Good, Exact, Pointer
  <2>2. CASE o \in S
    <3>1. OwnersIn(d, e, o) = OwnersIn(st, e, o) \cup {c}
      BY <2>2 DEF OwnersIn, Good, Heap
    <3>2. c \notin OwnersIn(st, e, o)
      BY <2>2, StoreAssumption DEF OwnersIn
    <3>3. IsFiniteSet(OwnersIn(st, e, o))
      BY OwnersFinite
    <3>4. Cardinality(OwnersIn(st, e, o) \cup {c}) = Cardinality(OwnersIn(st, e, o)) + 1
      BY <3>2, <3>3, FS_AddElement
    <3> QED BY <2>1, <2>2, <3>1, <3>4
  <2>3. CASE o \notin S
    <3>1. OwnersIn(d, e, o) = OwnersIn(st, e, o)
      BY <2>3 DEF OwnersIn, Good, Heap
    <3> QED BY <2>1, <2>3, <3>1
  <2> QED BY <2>2, <2>3
<1> QED BY <1>1, <1>2, <1>3 DEF Good, Exact

-----------------------------------------------------------------------------
(* What the statements of a careful program keep.                          *)

\* Every slot points to an object of its type in the heap st.
SlotsTyped(st) == \A y \in Slot : env[y] # NULL => st.kind[env[y]] = SlotKind[y]

\* The string of an attribute is a block of its own: nobody counts it, no other
\* attribute points to it, and it is none of the blocks made in place, which
\* nobody counts either.
OwnTexts(st) ==
  /\ \A a \in Addr : st.kind[a] = "attr" =>
       \A s \in st.links[a] :
         /\ s \in Addr /\ st.kind[s] = "string" /\ st.nref[s] = 0 /\ s \notin st.dropped
         /\ \A b \in Addr : st.kind[b] = "attr" /\ s \in st.links[b] => b = a
  /\ \A o \in st.dropped : st.kind[o] \in ListKind \cup {"string"} /\ st.nref[o] = 0

\* Nobody counts p, but an attribute or the place it was made at has it.
Uncounted(st, p) == p \in st.dropped \/ p \in Strings(st, Addr)

\* What a careful program is at every step.
CInv == careless = {} => pc # "undefined" /\ NoDanglingSlot /\ OwnTexts(Store)

\* An allocated block, but for p, is counted, made in place, or the string of
\* an attribute.
KeptBut(st, p) ==
  \A o \in Addr : st.kind[o] # "free" => o = p \/ st.nref[o] > 0 \/ Uncounted(st, o)

\* NULL is not a block: all of them are.
Kept(st) == KeptBut(st, NULL)

\* The heaps an argument leaves, or a statement that stores no value.
Sane(st) ==
  /\ Good(st, env)
  /\ careless = {} /\ CInv => SlotsTyped(st) /\ OwnTexts(st)
  /\ Kept(Store) => Kept(st)

\* A statement that stores p in x, evaluated to the heap st.
AssignsTo(x, p, st) ==
  /\ Good(st, env) /\ Assign(x, p, st)
  /\ careless' = {} /\ CInv => SlotsTyped(st) /\ OwnTexts(st) /\ ~Uncounted(st, p)
  /\ Kept(Store) => KeptBut(st, p)

Assigns(x) == \E p \in Pointer, st \in Heap : AssignsTo(x, p, st)

\* A statement that stores none.
Moves ==
  /\ UNCHANGED <<env, depth, pc>>
  /\ careless \subseteq careless' /\ careless' \subseteq Carelessness
  /\ \E st \in Heap : Sane(st) /\ Become(st)

\* A statement that reads a block that is gone.
Fails ==
  /\ Stop("undefined")
  /\ careless' \subseteq Carelessness
  /\ CInv => careless' # {}

LEMMA StoreIsSane == ASSUME IInv PROVE Sane(Store)
BY IInvIsGood, StoreFields DEF Sane, CInv, NoDanglingSlot, SlotsTyped

\* A slot or a table counts what it has.
LEMMA OwnedIsCounted ==
  ASSUME IInv, NEW o \in Addr, Owners(o) # {}
  PROVE  nref[o] > 0
<1>1. OwnersIn(Store, env, o) = Owners(o) /\ Good(Store, env)
  BY IInvIsGood, StoreFields DEF OwnersIn, Owners
<1> QED BY <1>1, OwnerOfCounted, StoreFields

LEMMA CountedInStore ==
  ASSUME OwnTexts(Store), NEW o \in Pointer, nref[o] > 0, nref \in [Pointer -> Nat]
  PROVE  ~Uncounted(Store, o)
BY StoreFields DEF OwnTexts, Uncounted, Strings

\* Nobody counts a free block of a careful program.
LEMMA FreeUncounted ==
  ASSUME IInv, NoDanglingSlot, NEW a \in Free
  PROVE  a \in Addr /\ kind[a] = "free" /\ nref[a] = 0
<1>1. a \in Addr /\ kind[a] = "free"
  BY DEF Free
<1>2. \A c \in Addr : a \notin holds[c]
  BY <1>1 DEF IInv, TablesTyped, Contents, Element
<1>3. \A x \in Slot : env[x] # a
  BY <1>1, StoreAssumption DEF NoDanglingSlot, Kind
<1>4. Owners(a) = {}
  BY <1>2, <1>3 DEF Owners
<1> QED BY <1>1, <1>4, FS_EmptySet DEF IInv, ExactCounts

\* Fresh objects leave the other slots as they are.
LEMMA SlotsTypedFresh ==
  ASSUME IInv, NoDanglingSlot, NEW st, \A o \in Addr \ Free : st.kind[o] = kind[o]
  PROVE  SlotsTyped(st)
<1> SUFFICES ASSUME NEW y \in Slot, env[y] # NULL PROVE st.kind[env[y]] = SlotKind[y]
  BY DEF SlotsTyped
<1>1. env[y] \in Addr /\ kind[env[y]] = SlotKind[y]
  BY DEF IInv, TypeOK, Pointer, NoDanglingSlot
<1>2. SlotKind[y] # "free"
  BY StoreAssumption DEF Kind
<1> QED BY <1>1, <1>2 DEF Free

\* A constructor that puts no string in the object keeps the strings apart.
LEMMA AllocOwns ==
  ASSUME IInv, NEW a \in Free, NEW k \in Kind, NEW es \in SUBSET Pointer,
         NEW st, st.kind = [kind EXCEPT ![a] = k], st.nref = nref,
         st.links = [links EXCEPT ![a] = es], st.dropped \in {dropped, dropped \cup {a}}
  PROVE  /\ /\ careless = {} /\ CInv
            /\ k = "attr" => es = {}
            /\ st.dropped # dropped => k \in ListKind \cup {"string"}
            => SlotsTyped(st) /\ OwnTexts(st)
         /\ Kept(Store) => KeptBut(st, a)
<1>1. a \in Addr /\ kind[a] = "free" /\ kind \in [Addr -> Kind \cup {"free"}]
      /\ links \in [Addr -> SUBSET Pointer]
  BY DEF Free, IInv, TypeOK
<1>2. \A o \in Addr : o # a => st.kind[o] = kind[o] /\ st.links[o] = links[o]
  BY <1>1
<1>3. st.kind[a] = k /\ st.links[a] = es
  BY <1>1
<1>4. ASSUME careless = {}, CInv, k = "attr" => es = {},
             st.dropped # dropped => k \in ListKind \cup {"string"}
      PROVE  SlotsTyped(st) /\ OwnTexts(st)
  <2>1. NoDanglingSlot /\ OwnTexts(Store)
    BY <1>4 DEF CInv
  <2>2. nref[a] = 0
    BY <2>1, FreeUncounted
  <2>3. SlotsTyped(st)
    BY <1>1, <1>2, <2>1, SlotsTypedFresh DEF Free
  <2>4. ASSUME NEW b \in Addr, st.kind[b] = "attr", NEW s \in st.links[b]
        PROVE  b # a /\ s # a /\ kind[b] = "attr" /\ s \in links[b]
    <3>1. b # a
      BY <1>3, <1>4, <2>4
    <3>2. kind[b] = "attr" /\ s \in links[b]
      BY <1>2, <2>4, <3>1
    <3> QED BY <1>1, <2>1, <3>1, <3>2, StoreFields DEF OwnTexts
  <2>5. ASSUME NEW b \in Addr, st.kind[b] = "attr", NEW s \in st.links[b]
        PROVE  /\ s \in Addr /\ st.kind[s] = "string" /\ st.nref[s] = 0 /\ s \notin st.dropped
               /\ \A c \in Addr : st.kind[c] = "attr" /\ s \in st.links[c] => c = b
    BY <1>2, <2>1, <2>4, <2>5, StoreFields DEF OwnTexts
  <2>6. ASSUME NEW o \in st.dropped
        PROVE  st.kind[o] \in ListKind \cup {"string"} /\ st.nref[o] = 0
    <3>1. CASE o = a
      <4>1. dropped # st.dropped
        BY <1>1, <2>1, <2>6, <3>1, StoreFields DEF OwnTexts, ListKind
      <4> QED BY <1>3, <1>4, <2>2, <3>1, <4>1
    <3>2. CASE o # a
      <4>1. o \in dropped /\ o \in Addr
        BY <2>6, <3>2 DEF IInv, TypeOK
      <4> QED BY <1>2, <2>1, <3>2, <4>1, StoreFields DEF OwnTexts
    <3> QED BY <3>1, <3>2
  <2> QED BY <2>3, <2>5, <2>6 DEF OwnTexts
<1>5. ASSUME Kept(Store) PROVE KeptBut(st, a)
  <2> SUFFICES ASSUME NEW o \in Addr, st.kind[o] # "free", o # a
               PROVE  st.nref[o] > 0 \/ o \in st.dropped \/ o \in Strings(st, Addr)
    BY DEF KeptBut, Uncounted
  <2>1. kind[o] # "free"
    BY <1>2
  <2>2. nref[o] > 0 \/ o \in dropped \/ o \in Strings(Store, Addr)
    BY <1>5, <2>1, StoreFields, StoreAssumption DEF Kept, KeptBut, Uncounted
  <2>3. CASE o \in Strings(Store, Addr)
    <3>1. PICK b \in Addr : kind[b] = "attr" /\ o \in links[b]
      BY <2>3, StoreFields DEF Strings
    <3>2. st.kind[b] = "attr" /\ o \in st.links[b]
      BY <1>1, <1>2, <3>1
    <3> QED BY <3>2 DEF Strings
  <2> QED BY <2>2, <2>3
<1> QED BY <1>4, <1>5

LEMMA AllocFields ==
  ASSUME NEW a, NEW k, NEW es
  PROVE  /\ Alloc(a, k, es).kind = [kind EXCEPT ![a] = k] /\ Alloc(a, k, es).nref = nref
         /\ Alloc(a, k, es).holds = holds /\ Alloc(a, k, es).links = [links EXCEPT ![a] = es]
         /\ Alloc(a, k, es).dropped = dropped
BY DEF Alloc, Store

-----------------------------------------------------------------------------
(* The statements, one lemma per group.                                    *)

\* A value some slot or table has, or a vertex or an edge.
LEMMA AssignsStored ==
  ASSUME IInv, NEW x \in Slot, NEW p \in Pointer, NEW st \in Heap, Sane(st), Assign(x, p, st),
         \/ p = NULL
         \/ SlotKind[x] \in Element
         \/ st = Store /\ Owners(p) # {}
  PROVE  Assigns(x)
<1>1. ASSUME careless' = {}, CInv PROVE SlotsTyped(st) /\ OwnTexts(st) /\ ~Uncounted(st, p)
  <2>1. careless = {} /\ (p # NULL => st.kind[p] = SlotKind[x])
    BY <1>1 DEF Assign, Care
  <2>2. SlotsTyped(st) /\ OwnTexts(st)
    BY <1>1, <2>1 DEF Sane
  <2>3. CASE p = NULL
    BY <2>2, <2>3, StoreAssumption DEF Uncounted, OwnTexts, Strings, Heap
  <2>4. CASE SlotKind[x] \in Element /\ p # NULL
    BY <2>1, <2>2, <2>4 DEF Uncounted, OwnTexts, Strings, Element, ListKind
  <2>5. CASE st = Store /\ Owners(p) # {} /\ p # NULL
    <3>1. p \in Addr /\ nref \in [Pointer -> Nat]
      BY <2>5 DEF Pointer, IInv, TypeOK
    <3> QED BY <2>2, <2>5, <3>1, OwnedIsCounted, CountedInStore
  <2> QED BY <2>2, <2>3, <2>4, <2>5
<1>2. Kept(Store) => KeptBut(st, p)
  BY StoreAssumption DEF Sane, Kept, KeptBut
<1> QED BY <1>1, <1>2 DEF Assigns, AssignsTo, Sane

LEMMA AssignsFresh ==
  ASSUME IInv, NEW x \in Slot, NEW a \in Free, NEW es \in SUBSET Pointer,
         SlotKind[x] = "attr" => \A s \in es : nref[s] > 0,
         Assign(x, a, Alloc(a, SlotKind[x], es))
  PROVE  Assigns(x)
<1> DEFINE st == Alloc(a, SlotKind[x], es)
<1>1. SlotKind[x] \in Kind /\ a \in Pointer /\ a \in Addr /\ a # NULL
  BY StoreAssumption DEF Free, Pointer
<1>2. Good(st, env)
  BY <1>1, IInvIsGood, AllocKeeps
<1>3. /\ st.kind = [kind EXCEPT ![a] = SlotKind[x]] /\ st.nref = nref
      /\ st.links = [links EXCEPT ![a] = es] /\ st.dropped = dropped
  BY AllocFields
<1>4. Assign(x, a, st)
  OBVIOUS
<1> HIDE DEF st
<1>5. Kept(Store) => KeptBut(st, a)
  BY <1>1, <1>3, AllocOwns
<1>6. ASSUME careless' = {}, CInv PROVE SlotsTyped(st) /\ OwnTexts(st) /\ ~Uncounted(st, a)
  <2>1. careless = {} /\ Care(x, a, st) = {}
    BY <1>4, <1>6 DEF Assign
  <2>2. st.links[a] = es
    BY <1>1, <1>3 DEF IInv, TypeOK
  <2>3. SlotKind[x] = "attr" => es = {}
    BY <1>1, <1>3, <2>1, <2>2 DEF Care
  <2>4. SlotsTyped(st) /\ OwnTexts(st)
    BY <1>1, <1>3, <1>6, <2>1, <2>3, AllocOwns
  <2>5. OwnTexts(Store) /\ kind[a] = "free"
    BY <1>6, <2>1 DEF CInv, Free
  <2>6. a \notin dropped
    BY <2>5, StoreFields DEF OwnTexts, ListKind
  <2>7. ASSUME NEW b \in Addr, st.kind[b] = "attr", a \in st.links[b] PROVE FALSE
    <3>1. b # a
      BY <1>1, <1>3, <2>2, <2>3, <2>7 DEF IInv, TypeOK
    <3>2. kind[b] = "attr" /\ a \in links[b]
      BY <1>1, <1>3, <2>7, <3>1 DEF IInv, TypeOK
    <3> QED BY <2>5, <3>2, StoreFields DEF OwnTexts
  <2> QED BY <1>3, <2>4, <2>6, <2>7 DEF Uncounted, Strings
<1> QED BY <1>1, <1>2, <1>4, <1>5, <1>6 DEF Assigns, AssignsTo, Good

LEMMA NewAssigns == ASSUME IInv, NEW x \in Slot, New(x) PROVE Assigns(x)
<1>1. {} \in SUBSET Pointer
  OBVIOUS
<1> QED BY <1>1, AssignsFresh DEF New

LEMMA ListDeclarationAssigns ==
  ASSUME IInv, NEW x \in Slot, NEW ys \in SUBSET Slot, ListDeclaration(x, ys)
  PROVE  Assigns(x)
<1>1. {env[y] : y \in ys} \in SUBSET Pointer
  BY DEF IInv, TypeOK
<1>2. SlotKind[x] # "attr"
  BY DEF ListDeclaration, ListKind
<1> QED BY <1>1, <1>2, AssignsFresh DEF ListDeclaration

LEMMA WrapStringAssigns ==
  ASSUME IInv, NEW t \in Slot, NEW s \in Slot, WrapString(t, s)
  PROVE  Assigns(t)
<1>1. {env[s]} \in SUBSET Pointer /\ env[s] \in Addr
  BY DEF IInv, TypeOK, WrapString, Sound, Whole, Pointer
<1>2. \E a \in Free : Assign(t, a, Alloc(a, SlotKind[t], {env[s]}))
  BY DEF WrapString
<1>3. nref[env[s]] > 0
  BY <1>1, OwnedIsCounted DEF Owners
<1> QED BY <1>1, <1>2, <1>3, AssignsFresh

LEMMA GraphMembersAssigns ==
  ASSUME IInv, NEW x \in Slot, NEW g \in Slot, GraphMembers(x, g)
  PROVE  Assigns(x)
<1>1. Members(g, SlotKind[x]) \in SUBSET Pointer
  BY DEF Members, IInv, TypeOK, GraphMembers, Sound, Whole, Pointer
<1>2. SlotKind[x] # "attr"
  BY DEF GraphMembers, ListKind
<1> QED BY <1>1, <1>2, AssignsFresh DEF GraphMembers

LEMMA CopyAssigns ==
  ASSUME IInv, NEW x \in Slot, NEW y \in Slot, Copy(x, y)
  PROVE  Assigns(x)
<1>1. env[y] \in Pointer /\ y \in Owners(env[y])
  BY DEF IInv, TypeOK, Owners
<1>2. Store \in Heap
  BY IInvIsGood DEF Good
<1> QED BY <1>1, <1>2, StoreIsSane, AssignsStored DEF Copy

\* A string or a list made in place.
LEMMA InPlaceIsSane ==
  ASSUME IInv, NEW a \in Spare, NEW k \in ListKind \cup {"string"}, NEW es \in SUBSET Pointer
  PROVE  /\ InPlace(a, k, es) \in Heap /\ Sane(InPlace(a, k, es))
         /\ InPlace(a, k, es).kind = [kind EXCEPT ![a] = k]
         /\ InPlace(a, k, es).nref = nref /\ InPlace(a, k, es).holds = holds
         /\ InPlace(a, k, es).links = [links EXCEPT ![a] = es]
         /\ a \in Addr /\ kind[a] = "free"
<1> DEFINE st == InPlace(a, k, es)
           al == Alloc(a, k, es)
<1>1. a \in Free /\ a \in Addr /\ kind[a] = "free" /\ k \in Kind
  BY DEF Spare, Free, ListKind, Kind
<1>2. Good(al, env)
  BY <1>1, IInvIsGood, AllocKeeps
<1>3. /\ st.kind = al.kind /\ st.nref = al.nref /\ st.holds = al.holds /\ st.links = al.links
      /\ st.dropped = al.dropped \cup {a}
  BY DEF InPlace, Alloc, Store
<1>4. /\ al.kind = [kind EXCEPT ![a] = k] /\ al.nref = nref /\ al.holds = holds
      /\ al.links = [links EXCEPT ![a] = es] /\ al.dropped = dropped
  BY AllocFields
<1>5. st \in Heap
  <2>1. al \in Heap
    BY <1>2 DEF Good
  <2>2. st = [al EXCEPT !.dropped = al.dropped \cup {a}]
    BY DEF InPlace
  <2> HIDE DEF st, al
  <2> QED BY <1>1, <2>1, <2>2 DEF Heap
<1> HIDE DEF st, al
<1>6. Good(st, env)
  BY <1>2, <1>3, <1>5 DEF Good, Exact, OwnersIn, Typed, Disjoint
<1>7. st.kind[a] = k
  BY <1>1, <1>3, <1>4 DEF IInv, TypeOK
<1>8. /\ careless = {} /\ CInv => SlotsTyped(st) /\ OwnTexts(st)
      /\ Kept(Store) => KeptBut(st, a)
  <2>1. k # "attr"
    BY DEF ListKind
  <2>2. /\ st.kind = [kind EXCEPT ![a] = k] /\ st.nref = nref
        /\ st.links = [links EXCEPT ![a] = es] /\ st.dropped \in {dropped, dropped \cup {a}}
    BY <1>3, <1>4
  <2> QED BY <1>1, <2>1, <2>2, AllocOwns
<1>9. Kept(Store) => Kept(st)
  <2>1. Uncounted(st, a)
    BY <1>3 DEF Uncounted
  <2> QED BY <1>8, <2>1 DEF Kept, KeptBut
<1> QED BY <1>1, <1>3, <1>4, <1>5, <1>6, <1>8, <1>9 DEF Sane, st

\* A list where a statement takes one.
LEMMA ListArgumentFacts ==
  ASSUME IInv, NEW y \in Slot, NEW list \in ListArguments(y)
  PROVE  /\ list.of \in ListKind /\ list.elements \in SUBSET Pointer
         /\ list.heap \in Heap /\ Sane(list.heap)
         /\ list.heap.nref = nref /\ list.heap.holds = holds
         /\ \A o \in Addr : kind[o] # "free" =>
              list.heap.kind[o] = kind[o] /\ list.heap.links[o] = links[o]
<1>1. CASE SlotKind[y] \in ListKind /\ Sound(y)
  <2>1. list = [of |-> SlotKind[y], elements |-> links[env[y]], heap |-> Store]
    BY <1>1 DEF ListArguments
  <2>2. links[env[y]] \in SUBSET Pointer
    BY <1>1 DEF Sound, Whole, IInv, TypeOK, Pointer
  <2>3. Store \in Heap
    BY IInvIsGood DEF Good
  <2> QED BY <1>1, <2>1, <2>2, <2>3, StoreIsSane, StoreFields
<1>2. CASE SlotKind[y] = "graph" /\ (env[y] = NULL \/ Sound(y))
  <2>1. SlotKind[y] \notin ListKind
    BY <1>2 DEF ListKind
  <2>2. PICK k \in ListKind, a \in Spare :
          list = [of |-> k, elements |-> Members(y, k), heap |-> InPlace(a, k, Members(y, k))]
    BY <1>2, <2>1 DEF ListArguments
  <2>3. Members(y, k) \in SUBSET Pointer
    BY <1>2 DEF Members, Sound, Whole, IInv, TypeOK, Pointer
  <2>4. /\ list.of = k /\ list.elements = Members(y, k)
        /\ list.heap = InPlace(a, k, Members(y, k))
    BY <2>2
  <2>5. /\ list.heap \in Heap /\ Sane(list.heap)
        /\ list.heap.kind = [kind EXCEPT ![a] = k]
        /\ list.heap.nref = nref /\ list.heap.holds = holds
        /\ list.heap.links = [links EXCEPT ![a] = Members(y, k)]
        /\ a \in Addr /\ kind[a] = "free"
    BY <2>3, <2>4, InPlaceIsSane
  <2> QED BY <2>3, <2>4, <2>5 DEF IInv, TypeOK
<1> QED BY <1>1, <1>2 DEF ListArguments

LEMMA ElementAssigns ==
  ASSUME IInv, NEW x \in Slot, NEW l \in Slot, TakeElement(x, l)
  PROVE  Assigns(x)
<1>1. PICK list \in ListArguments(l) :
        SlotKind[x] = ElementOf(list.of) /\ \E p \in list.elements : Assign(x, p, list.heap)
  BY DEF TakeElement
<1>2. PICK p \in list.elements : Assign(x, p, list.heap)
  BY <1>1
<1>3. SlotKind[x] \in Element
  BY <1>1 DEF ElementOf, Element
<1>4. p \in Pointer /\ list.heap \in Heap /\ Sane(list.heap)
  BY ListArgumentFacts
<1> QED BY <1>2, <1>3, <1>4, AssignsStored

LEMMA InPlaceMoves ==
  ASSUME IInv, LiteralInPlace \/ \E g \in Slot : LengthInPlace(g)
  PROVE  Moves
<1>1. CASE LiteralInPlace
  <2>1. PICK a \in Spare : Become(InPlace(a, "string", {}))
    BY <1>1 DEF LiteralInPlace
  <2>2. {} \in SUBSET Pointer
    OBVIOUS
  <2>3. InPlace(a, "string", {}) \in Heap /\ Sane(InPlace(a, "string", {}))
    BY <2>2, InPlaceIsSane
  <2> QED BY <1>1, <2>1, <2>3 DEF LiteralInPlace, Moves, IInv, TypeOK
<1>2. CASE \E g \in Slot : LengthInPlace(g)
  <2>1. PICK g \in Slot : LengthInPlace(g)
    BY <1>2
  <2>2. PICK list \in ListArguments(g) : Become(list.heap)
    BY <2>1 DEF LengthInPlace
  <2>3. list.heap \in Heap /\ Sane(list.heap)
    BY ListArgumentFacts
  <2> QED BY <2>1, <2>2, <2>3 DEF LengthInPlace, Moves, IInv, TypeOK
<1> QED BY <1>1, <1>2

\* Only bare pointers change, and those of attributes do not.
LEMMA LinksSane ==
  ASSUME NEW h \in Heap, Sane(h), NEW st \in Heap,
         st.kind = h.kind, st.nref = h.nref, st.holds = h.holds, st.dropped = h.dropped,
         \A o \in Addr : h.kind[o] = "attr" => st.links[o] = h.links[o]
  PROVE  Sane(st)
<1>1. Good(st, env)
  BY DEF Sane, Good, Exact, OwnersIn, Typed, Disjoint
<1>2. OwnTexts(h) /\ SlotsTyped(h) => OwnTexts(st) /\ SlotsTyped(st)
  BY DEF OwnTexts, SlotsTyped
<1>3. Strings(st, Addr) = Strings(h, Addr)
  BY DEF Strings
<1>4. Kept(h) => Kept(st)
  BY <1>3 DEF Kept, KeptBut, Uncounted
<1> QED BY <1>1, <1>2, <1>4 DEF Sane

LEMMA AppendToListMoves ==
  ASSUME IInv, NEW l \in Slot, NEW y \in Slot, AppendToList(l, y)
  PROVE  Moves
<1>1. env[l] \in Addr /\ kind[env[l]] \in ListKind /\ env[y] \in Pointer
  BY DEF AppendToList, IInv, TypeOK, Sound, Whole, Pointer
<1> DEFINE st == [Store EXCEPT !.links = [links EXCEPT ![env[l]] = @ \cup {env[y]}]]
<1>2. Store \in Heap /\ Sane(Store)
  BY StoreIsSane DEF Sane, Good
<1>3. [links EXCEPT ![env[l]] = @ \cup {env[y]}] \in [Addr -> SUBSET Pointer]
  BY <1>1 DEF IInv, TypeOK
<1>4. st \in Heap
  BY <1>2, <1>3 DEF Heap
<1>5. /\ st.kind = kind /\ st.nref = nref /\ st.holds = holds /\ st.dropped = dropped
      /\ st.links = [links EXCEPT ![env[l]] = @ \cup {env[y]}]
  BY DEF Store
<1>6. Become(st)
  BY <1>5 DEF AppendToList, Become
<1> HIDE DEF st
<1>7. \A o \in Addr : kind[o] = "attr" => st.links[o] = links[o]
  BY <1>1, <1>5 DEF ListKind, IInv, TypeOK
<1>8. Sane(st)
  <2>1. /\ st.kind = Store.kind /\ st.nref = Store.nref /\ st.holds = Store.holds
        /\ st.dropped = Store.dropped
        /\ \A o \in Addr : Store.kind[o] = "attr" => st.links[o] = Store.links[o]
    BY <1>5, <1>7, StoreFields
  <2> QED BY <1>2, <1>4, <2>1, LinksSane
<1> QED BY <1>4, <1>6, <1>8 DEF AppendToList, Moves, IInv, TypeOK

LEMMA EdgeDirectionMoves ==
  ASSUME IInv, NEW e \in Slot, NEW v \in Slot, NEW w \in Slot, EdgeDirection(e, v, w)
  PROVE  Moves
<1>1. /\ env[e] \in Addr /\ env[v] \in Addr /\ env[w] \in Addr
      /\ kind[env[e]] # "attr" /\ kind[env[v]] # "attr" /\ kind[env[w]] # "attr"
  BY DEF EdgeDirection, IInv, TypeOK, Sound, Whole, Pointer
<1> DEFINE new == [o \in Addr |-> IF o = env[e] THEN {env[v], env[w]}
                                  ELSE IF o \in {env[v], env[w]} THEN links[o] \cup {env[e]}
                                  ELSE links[o]]
           st == [Store EXCEPT !.links = new]
<1>2. Store \in Heap /\ Sane(Store)
  BY StoreIsSane DEF Sane, Good
<1>3. new \in [Addr -> SUBSET Pointer]
  BY <1>1 DEF IInv, TypeOK, Pointer
<1>4. links' = new
  BY DEF EdgeDirection
<1>5. \A o \in Addr : kind[o] = "attr" => new[o] = links[o]
  BY <1>1
<1> HIDE DEF new
<1>6. st \in Heap
  BY <1>2, <1>3 DEF Heap
<1>7. /\ st.kind = kind /\ st.nref = nref /\ st.holds = holds /\ st.dropped = dropped
      /\ st.links = new
  BY DEF Store
<1>8. Become(st)
  BY <1>4, <1>7 DEF EdgeDirection, Become
<1> HIDE DEF st
<1>9. Sane(st)
  BY <1>2, <1>5, <1>6, <1>7, LinksSane, StoreFields
<1> QED BY <1>6, <1>8, <1>9 DEF EdgeDirection, Moves, IInv, TypeOK

LEMMA PipeTurnMoves ==
  ASSUME IInv, NEW m \in Slot, NEW l \in Slot, PipeTurn(m, l)
  PROVE  Moves \/ Fails
<1>1. env[m] \in Addr /\ kind[env[m]] \in ListKind
  BY DEF PipeTurn, Sound, Whole, IInv, TypeOK, Pointer
<1>0. PICK list \in ListArguments(l) : \E o \in list.elements :
        \/ /\ careless' = careless \cup {IF o = NULL THEN "null_member" ELSE "stale_pointer"}
           /\ Stop("undefined")
        \/ /\ Whole(o, ElementOf(list.of))
           /\ \E S \in SUBSET (links[o] \ {NULL}) :
                Become([list.heap EXCEPT !.links[env[m]] = @ \cup S])
           /\ UNCHANGED <<env, depth, pc, careless>>
  BY DEF PipeTurn
<1>2. PICK o \in list.elements :
        \/ /\ careless' = careless \cup {IF o = NULL THEN "null_member" ELSE "stale_pointer"}
           /\ Stop("undefined")
        \/ /\ Whole(o, ElementOf(list.of))
           /\ \E S \in SUBSET (links[o] \ {NULL}) :
                Become([list.heap EXCEPT !.links[env[m]] = @ \cup S])
           /\ UNCHANGED <<env, depth, pc, careless>>
  BY <1>0
<1>3. CASE /\ careless' = careless \cup {IF o = NULL THEN "null_member" ELSE "stale_pointer"}
           /\ Stop("undefined")
  BY <1>3 DEF IInv, TypeOK, Carelessness, Fails
<1>4. CASE /\ Whole(o, ElementOf(list.of))
           /\ \E S \in SUBSET (links[o] \ {NULL}) :
                Become([list.heap EXCEPT !.links[env[m]] = @ \cup S])
           /\ UNCHANGED <<env, depth, pc, careless>>
  <2> DEFINE h == list.heap
  <2>1. /\ h \in Heap /\ Sane(h) /\ list.elements \subseteq Pointer
        /\ h.kind[env[m]] = kind[env[m]]
    BY <1>1, ListArgumentFacts DEF ListKind
  <2>2. links[o] \subseteq Pointer
    BY <1>4, <2>1 DEF IInv, TypeOK, Pointer, Whole
  <2>3. PICK S \in SUBSET (links[o] \ {NULL}) :
          Become([list.heap EXCEPT !.links[env[m]] = @ \cup S])
    BY <1>4
  <2> DEFINE st == [h EXCEPT !.links[env[m]] = @ \cup S]
  <2>4. Become(st)
    BY <2>3
  <2> HIDE DEF h
  <2>5. /\ st.kind = h.kind /\ st.nref = h.nref /\ st.holds = h.holds /\ st.dropped = h.dropped
        /\ st.links = [h.links EXCEPT ![env[m]] = @ \cup S] /\ st \in Heap
    BY <1>1, <2>1, <2>2 DEF Heap
  <2> HIDE DEF st
  <2>6. \A b \in Addr : h.kind[b] = "attr" => st.links[b] = h.links[b]
    BY <1>1, <2>1, <2>5 DEF ListKind, Heap
  <2>7. Sane(st)
    BY <2>1, <2>5, <2>6, LinksSane
  <2> QED BY <1>4, <2>4, <2>5, <2>7 DEF Moves, IInv, TypeOK
<1> QED BY <1>2, <1>3, <1>4

\* Objects that are no strings and no lists are entered into a table.
LEMMA EnterOwns ==
  ASSUME NEW h \in Heap, NEW S \in SUBSET Addr,
         \A o \in S : h.kind[o] \notin ListKind \cup {"string"},
         NEW st, st.kind = h.kind, st.links = h.links, st.dropped = h.dropped,
         st.nref = Counted(h.nref, S)
  PROVE  /\ SlotsTyped(h) /\ OwnTexts(h) => SlotsTyped(st) /\ OwnTexts(st)
         /\ \A p : KeptBut(h, p) => KeptBut(st, p)
<1>1. \A o \in Addr : st.nref[o] = IF o \in S THEN h.nref[o] + 1 ELSE h.nref[o]
  BY DEF Counted, Pointer
<1>2. SlotsTyped(h) /\ OwnTexts(h) => SlotsTyped(st) /\ OwnTexts(st)
  <2>1. h.dropped \subseteq Addr
    BY DEF Heap
  <2> QED BY <1>1, <2>1 DEF SlotsTyped, OwnTexts
<1>3. Strings(st, Addr) = Strings(h, Addr)
  BY DEF Strings
<1>4. \A o \in Addr : h.nref[o] \in Nat
  BY DEF Heap, Pointer
<1>5. \A o \in Addr : h.nref[o] > 0 => st.nref[o] > 0
  BY <1>1, <1>4
<1>6. \A o : Uncounted(h, o) => Uncounted(st, o)
  BY <1>3 DEF Uncounted
<1> QED BY <1>2, <1>5, <1>6 DEF KeptBut

LEMMA EnterSane ==
  ASSUME NEW h \in Heap, Sane(h), NEW c \in Addr, NEW S \in SUBSET Addr,
         S \cap h.holds[c] = {}, h.kind[c] = "graph",
         \A o \in S : h.kind[o] \in Element,
         NEW st \in Heap, st.kind = h.kind, st.links = h.links, st.dropped = h.dropped,
         st.holds = [h.holds EXCEPT ![c] = @ \cup S], st.nref = Counted(h.nref, S)
  PROVE  Sane(st)
<1>1. "graph" \notin Element /\ Contents("graph") = Element
  BY DEF Element, Contents
<1>2. Good(st, env)
  BY <1>1, EnterKeeps DEF Sane
<1>3. \A o \in S : h.kind[o] \notin ListKind \cup {"string"}
  BY DEF ListKind, Element
<1> QED BY <1>2, <1>3, EnterOwns DEF Sane, Kept

LEMMA InsertMoves ==
  ASSUME IInv, NEW g \in Slot, NEW y \in Slot, Insert(g, y)
  PROVE  Moves
<1> DEFINE S == {env[y]}
           st == [Store EXCEPT !.holds = [holds EXCEPT ![env[g]] = @ \cup S],
                               !.nref = Counted(nref, S)]
<1>1. /\ env[g] \in Addr /\ env[y] \in Addr /\ kind[env[g]] = "graph"
      /\ kind[env[y]] \in Element /\ env[y] \notin holds[env[g]]
  BY DEF Insert, Sound, Whole, IInv, TypeOK, Pointer
<1>2. nref' = Counted(nref, S)
  BY DEF Insert, GC_Ref, Counted, IInv, TypeOK
<1>3. Store \in Heap /\ Sane(Store)
  BY StoreIsSane DEF Sane, Good
<1>4. /\ Counted(nref, S) \in [Pointer -> Nat]
      /\ [holds EXCEPT ![env[g]] = @ \cup S] \in [Addr -> SUBSET Addr]
  BY <1>1 DEF Counted, IInv, TypeOK
<1>5. st \in Heap
  BY <1>3, <1>4 DEF Heap
<1>6. /\ st.kind = kind /\ st.links = links /\ st.dropped = dropped
      /\ st.nref = Counted(nref, S) /\ st.holds = [holds EXCEPT ![env[g]] = @ \cup S]
  BY DEF Store
<1>7. Become(st)
  BY <1>2, <1>6 DEF Insert, Become
<1>8. Sane(st)
  <2>1. S \in SUBSET Addr /\ S \cap holds[env[g]] = {} /\ \A o \in S : kind[o] \in Element
    BY <1>1
  <2> HIDE DEF st, S
  <2> QED BY <1>1, <1>3, <1>5, <1>6, <2>1, EnterSane, StoreFields
<1> HIDE DEF st
<1> QED BY <1>5, <1>7, <1>8 DEF Insert, Moves, IInv, TypeOK

LEMMA AppendListMoves ==
  ASSUME IInv, NEW g \in Slot, NEW l \in Slot, AppendList(g, l)
  PROVE  Moves \/ Fails
<1>1. env[g] \in Addr /\ kind[env[g]] = "graph"
  BY DEF AppendList, Sound, Whole, IInv, TypeOK, Pointer
<1>2. PICK list \in ListArguments(l) :
        LET new == list.elements \ (holds[env[g]] \cup {NULL})
        IN  \/ careless' = careless \cup {"stale_pointer"} /\ Stop("undefined")
            \/ /\ \A o \in new : kind[o] = ElementOf(list.of)
               /\ Become([list.heap EXCEPT
                     !.holds[env[g]] = @ \cup new,
                     !.nref = [p \in Pointer |-> IF p \in new THEN nref[p] + 1 ELSE nref[p]]])
               /\ UNCHANGED <<env, depth, pc, careless>>
  BY DEF AppendList
<1> DEFINE new == list.elements \ (holds[env[g]] \cup {NULL})
           h == list.heap
           st == [h EXCEPT !.holds[env[g]] = @ \cup new,
                           !.nref = [p \in Pointer |-> IF p \in new THEN nref[p] + 1 ELSE nref[p]]]
<1>3. CASE careless' = careless \cup {"stale_pointer"} /\ Stop("undefined")
  BY <1>3 DEF IInv, TypeOK, Carelessness, Fails
<1>4. CASE /\ \A o \in new : kind[o] = ElementOf(list.of)
           /\ Become(st)
           /\ UNCHANGED <<env, depth, pc, careless>>
  <2>1. /\ h \in Heap /\ Sane(h) /\ list.elements \subseteq Pointer
        /\ h.nref = nref /\ h.holds = holds
        /\ \A o \in Addr : kind[o] # "free" => h.kind[o] = kind[o]
    BY ListArgumentFacts
  <2>2. new \in SUBSET Addr /\ new \cap holds[env[g]] = {}
    BY <2>1 DEF Pointer
  <2>3. \A o \in new : kind[o] \in Element
    BY <1>4 DEF ElementOf, Element
  <2> HIDE DEF new, h
  <2>4. /\ st.kind = h.kind /\ st.links = h.links /\ st.dropped = h.dropped
        /\ st.holds = [h.holds EXCEPT ![env[g]] = @ \cup new]
        /\ st.nref = Counted(h.nref, new)
    BY <1>1, <2>1 DEF Heap, Counted
  <2>5. Counted(h.nref, new) \in [Pointer -> Nat]
    BY <2>1 DEF Heap, Counted
  <2>6. [h.holds EXCEPT ![env[g]] = @ \cup new] \in [Addr -> SUBSET Addr]
    BY <2>1, <2>2 DEF Heap
  <2>7. st \in Heap
    <3>1. st = [h EXCEPT !.holds = [h.holds EXCEPT ![env[g]] = @ \cup new],
                         !.nref = Counted(h.nref, new)]
      BY <2>1 DEF Counted
    <3> HIDE DEF st
    <3> QED BY <2>1, <2>5, <2>6, <3>1 DEF Heap
  <2>8. \A o \in new : h.kind[o] \in Element
    BY <2>1, <2>2, <2>3 DEF Element
  <2>9. h.kind[env[g]] = "graph"
    BY <1>1, <2>1
  <2> HIDE DEF st
  <2>10. Sane(st)
    BY <1>1, <2>1, <2>2, <2>4, <2>7, <2>8, <2>9, EnterSane
  <2> QED BY <1>4, <2>7, <2>10 DEF Moves, IInv, TypeOK
<1> QED BY <1>2, <1>3, <1>4

\* A constructor that makes an attribute and its string.
LEMMA TextAssigns ==
  ASSUME IInv, NEW t \in Slot, NewText(t)
  PROVE  Assigns(t)
<1>0. PICK a \in Free : \E s \in Free \ {a} : Assign(t, a, AllocText(a, s))
  BY DEF NewText
<1>1. PICK s \in Free \ {a} : Assign(t, a, AllocText(a, s))
  BY <1>0
<1> DEFINE st == AllocText(a, s)
<1>2. /\ a \in Addr /\ s \in Addr /\ a # s /\ kind[a] = "free" /\ kind[s] = "free"
      /\ a \in Pointer /\ s \in Pointer /\ a # NULL
  BY StoreAssumption DEF Free, Pointer
<1>3. /\ st.kind = [kind EXCEPT ![a] = "attr", ![s] = "string"]
      /\ st.links = [links EXCEPT ![a] = {s}, ![s] = {}]
      /\ st.nref = nref /\ st.holds = holds /\ st.dropped = dropped
  BY DEF AllocText, Store
<1>4. st \in Heap
  <2>1. Store \in Heap
    BY IInvIsGood DEF Good
  <2>2. [kind EXCEPT ![a] = "attr", ![s] = "string"] \in [Addr -> Kind \cup {"free"}]
    BY <1>2 DEF IInv, TypeOK, Kind
  <2>3. [links EXCEPT ![a] = {s}, ![s] = {}] \in [Addr -> SUBSET Pointer]
    BY <1>2 DEF IInv, TypeOK
  <2> QED BY <2>1, <2>2, <2>3 DEF AllocText, Heap
<1>5. Assign(t, a, st)
  BY <1>1
<1> HIDE DEF st
<1>6. \A o \in Addr : /\ o \notin {a, s} => st.kind[o] = kind[o] /\ st.links[o] = links[o]
                      /\ o = a => st.kind[o] = "attr" /\ st.links[o] = {s}
                      /\ o = s => st.kind[o] = "string" /\ st.links[o] = {}
  BY <1>2, <1>3 DEF IInv, TypeOK
<1>7. Good(st, env)
  BY <1>2, <1>3, <1>4, <1>6, IInvIsGood, PlainKeeps
<1>8. ASSUME careless' = {}, CInv PROVE SlotsTyped(st) /\ OwnTexts(st) /\ ~Uncounted(st, a)
  <2>1. NoDanglingSlot /\ OwnTexts(Store)
    BY <1>5, <1>8 DEF Assign, CInv
  <2>2. SlotsTyped(st)
    BY <1>2, <1>6, <2>1, SlotsTypedFresh DEF Free
  <2>3. nref[a] = 0 /\ nref[s] = 0 /\ a \notin dropped /\ s \notin dropped
    BY <1>2, <2>1, FreeUncounted, StoreFields DEF OwnTexts, ListKind
  <2>4. ASSUME NEW b \in Addr, b # a, st.kind[b] = "attr", NEW z \in st.links[b]
        PROVE  /\ kind[b] = "attr" /\ z \in links[b]
               /\ z \in Addr /\ kind[z] = "string" /\ nref[z] = 0 /\ z \notin dropped
               /\ z \notin {a, s}
               /\ \A c \in Addr : kind[c] = "attr" /\ z \in links[c] => c = b
    <3>1. b # s
      BY <1>6, <2>4
    <3>2. kind[b] = "attr" /\ z \in links[b]
      BY <1>6, <2>4, <3>1
    <3> QED BY <1>2, <2>1, <3>2, StoreFields DEF OwnTexts
  <2>5. ASSUME NEW b \in Addr, st.kind[b] = "attr", NEW z \in st.links[b]
        PROVE  /\ z \in Addr /\ st.kind[z] = "string" /\ st.nref[z] = 0 /\ z \notin st.dropped
               /\ \A c \in Addr : st.kind[c] = "attr" /\ z \in st.links[c] => c = b
    <3>1. CASE b = a
      <4>1. z = s
        BY <1>6, <2>5, <3>1
      <4>2. ASSUME NEW c \in Addr, st.kind[c] = "attr", z \in st.links[c] PROVE c = b
        BY <2>4, <3>1, <4>1, <4>2
      <4> QED BY <1>2, <1>3, <1>6, <2>3, <4>1, <4>2
    <3>2. CASE b # a
      <4>1. /\ z \in Addr /\ kind[z] = "string" /\ nref[z] = 0 /\ z \notin dropped
            /\ z \notin {a, s}
        BY <2>4, <2>5, <3>2
      <4>2. ASSUME NEW c \in Addr, st.kind[c] = "attr", z \in st.links[c] PROVE c = b
        <5>1. c # a
          BY <1>6, <4>1, <4>2
        <5>2. kind[c] = "attr" /\ z \in links[c]
          BY <2>4, <4>2, <5>1
        <5> QED BY <2>4, <2>5, <3>2, <5>2
      <4> QED BY <1>3, <1>6, <4>1, <4>2
    <3> QED BY <3>1, <3>2
  <2>6. \A o \in st.dropped : st.kind[o] \in ListKind \cup {"string"} /\ st.nref[o] = 0
    <3>1. dropped \subseteq Addr
      BY DEF IInv, TypeOK
    <3>2. ASSUME NEW o \in dropped PROVE st.kind[o] \in ListKind \cup {"string"} /\ st.nref[o] = 0
      <4>1. kind[o] \in ListKind \cup {"string"} /\ nref[o] = 0 /\ o \notin {a, s} /\ o \in Addr
        BY <2>1, <2>3, <3>1, StoreFields DEF OwnTexts
      <4> QED BY <1>3, <1>6, <4>1
    <3> QED BY <1>3, <3>2
  <2>7. ~Uncounted(st, a)
    <3>1. ASSUME NEW b \in Addr, st.kind[b] = "attr", a \in st.links[b] PROVE FALSE
      BY <1>2, <1>6, <2>4, <3>1
    <3> QED BY <1>3, <2>3, <3>1 DEF Uncounted, Strings
  <2> QED BY <2>2, <2>5, <2>6, <2>7 DEF OwnTexts
<1>9. ASSUME Kept(Store) PROVE KeptBut(st, a)
  <2> SUFFICES ASSUME NEW o \in Addr, st.kind[o] # "free", o # a
               PROVE  st.nref[o] > 0 \/ o \in st.dropped \/ o \in Strings(st, Addr)
    BY DEF KeptBut, Uncounted
  <2>1. CASE o = s
    BY <1>2, <1>6, <2>1 DEF Strings
  <2>2. CASE o # s
    <3>1. kind[o] # "free"
      BY <1>6, <2>2
    <3>2. nref[o] > 0 \/ o \in dropped \/ o \in Strings(Store, Addr)
      BY <1>9, <3>1, StoreFields, StoreAssumption DEF Kept, KeptBut, Uncounted
    <3>3. CASE o \in Strings(Store, Addr)
      <4>1. PICK b \in Addr : kind[b] = "attr" /\ o \in links[b]
        BY <3>3, StoreFields DEF Strings
      <4>2. st.kind[b] = "attr" /\ o \in st.links[b]
        BY <1>2, <1>6, <4>1
      <4> QED BY <4>2 DEF Strings
    <3> QED BY <1>3, <3>2, <3>3
  <2> QED BY <2>1, <2>2
<1> QED BY <1>2, <1>4, <1>5, <1>7, <1>8, <1>9 DEF Assigns, AssignsTo

LEMMA GetAttributeAssigns ==
  ASSUME IInv, NEW t \in Slot, NEW o \in Slot, GetAttribute(t, o)
  PROVE  Assigns(t)
<1>1. /\ SlotKind[t] = "attr" /\ env[o] \in Addr
      /\ kind[env[o]] = SlotKind[o] /\ SlotKind[o] \in Element
  BY DEF GetAttribute, Sound, Whole, IInv, TypeOK, Pointer
<1>2. TypeOK /\ Good(Store, env) /\ Store \in Heap
  BY IInvIsGood DEF Good
<1>3. ASSUME NEW a \in holds[env[o]], Assign(t, a, Store) PROVE Assigns(t)
  <2>1. a \in Pointer /\ env[o] \in Owners(a)
    BY <1>1, <1>2 DEF TypeOK, Pointer, Owners
  <2> QED BY <1>2, <1>3, <2>1, StoreIsSane, AssignsStored
<1>4. ASSUME NEW a \in Free,
             Assign(t, a, [Alloc(a, "attr", {}) EXCEPT
                             !.holds = [holds EXCEPT ![env[o]] = @ \cup {a}],
                             !.nref = GC_Ref(nref, a)])
      PROVE  Assigns(t)
  <2> DEFINE st == Alloc(a, "attr", {})
             c == env[o]
             d == [st EXCEPT !.holds = [holds EXCEPT ![c] = @ \cup {a}],
                             !.nref = GC_Ref(nref, a)]
  <2>1. /\ Good(st, env) /\ a \in Addr /\ a \in Pointer /\ kind[a] = "free"
        /\ \A b \in Addr : a \notin holds[b]
    <3>1. "attr" \in Kind /\ {} \in SUBSET Pointer
      BY DEF Kind
    <3>2. a \in Addr /\ a \in Pointer /\ kind[a] = "free"
      BY DEF Free, Pointer
    <3>3. Good(Alloc(a, "attr", {}), env) /\ \A b \in Addr : a \notin holds[b]
      BY <1>2, <3>1, AllocKeeps
    <3> QED BY <3>2, <3>3
  <2>2. /\ st.holds = holds /\ st.nref = nref /\ st.kind = [kind EXCEPT ![a] = "attr"]
        /\ st.links = [links EXCEPT ![a] = {}] /\ st.dropped = dropped
        /\ d.kind = st.kind /\ d.links = st.links /\ d.dropped = st.dropped
    BY DEF Alloc, Store
  <2>3. /\ d.holds = [st.holds EXCEPT ![c] = @ \cup {a}]
        /\ d.nref = Counted(st.nref, {a})
    <3>1. d.holds = [st.holds EXCEPT ![c] = @ \cup {a}] /\ d.nref = GC_Ref(nref, a)
      BY <2>2 DEF Alloc, Store
    <3>2. GC_Ref(nref, a) = Counted(nref, {a})
      BY <1>2 DEF GC_Ref, Counted, TypeOK
    <3> QED BY <2>2, <3>1, <3>2
  <2>4. d \in Heap /\ st \in Heap
    <3>1. st \in Heap
      BY <2>1 DEF Good
    <3>2. [holds EXCEPT ![c] = @ \cup {a}] \in [Addr -> SUBSET Addr]
      BY <1>1, <1>2, <2>1 DEF TypeOK
    <3>3. GC_Ref(nref, a) \in [Pointer -> Nat]
      BY <1>2, <2>1 DEF TypeOK, GC_Ref
    <3> HIDE DEF st
    <3> QED BY <3>1, <3>2, <3>3 DEF Heap
  <2>8. Assign(t, a, d)
    BY <1>4
  <2> HIDE DEF st, d
  <2>5. st.kind[c] \in Element /\ c # a /\ \A b \in {a} : st.kind[b] \in Contents(st.kind[c])
    <3>1. c # a
      BY <1>1, <2>1 DEF Element
    <3>2. st.kind[c] = kind[c] /\ st.kind[a] = "attr"
      BY <1>1, <1>2, <2>1, <2>2, <3>1 DEF TypeOK
    <3>3. Contents(kind[c]) = {"attr"}
      BY <1>1 DEF Contents, Element
    <3> QED BY <1>1, <3>1, <3>2, <3>3
  <2>6. /\ {a} \in SUBSET Addr /\ {a} \cap st.holds[c] = {}
        /\ \A b \in {a} : \A f \in Addr : b \notin st.holds[f]
    BY <1>1, <2>1, <2>2
  <2>7. Good(d, env)
    <3>1. c \in Addr
      BY <1>1
    <3> HIDE DEF c
    <3>2. Good(st, env) /\ d.kind = st.kind /\ {a} \in SUBSET Addr
      BY <2>1, <2>2, <2>6
    <3> QED BY <2>3, <2>4, <2>5, <2>6, <3>1, <3>2, EnterKeeps, Zenon
  <2>9. /\ SlotsTyped(st) /\ OwnTexts(st) => SlotsTyped(d) /\ OwnTexts(d)
        /\ KeptBut(st, a) => KeptBut(d, a)
    <3>1. \A b \in {a} : st.kind[b] \notin ListKind \cup {"string"}
      BY <1>2, <2>1, <2>2 DEF TypeOK, ListKind
    <3> QED BY <2>2, <2>3, <2>4, <2>6, <3>1, EnterOwns
  <2>10. /\ careless = {} /\ CInv => SlotsTyped(st) /\ OwnTexts(st)
         /\ Kept(Store) => KeptBut(st, a)
    <3>1. "attr" \in Kind /\ {} \in SUBSET Pointer
      BY DEF Kind
    <3> QED BY <2>2, <3>1, AllocOwns
  <2>11. ASSUME OwnTexts(d) PROVE ~Uncounted(d, a)
    <3>1. d.nref[a] # 0
      BY <1>2, <2>1, <2>2, <2>3 DEF Counted, TypeOK
    <3> QED BY <2>11, <3>1 DEF OwnTexts, Uncounted, Strings
  <2>12. careless' = {} => careless = {}
    BY <2>8 DEF Assign
  <2> QED BY <2>1, <2>4, <2>7, <2>8, <2>9, <2>10, <2>11, <2>12 DEF Assigns, AssignsTo
<1> QED BY <1>3, <1>4 DEF GetAttribute

\* assign_operator gives the attribute t a string of its own again.
LEMMA AssignAttributeMoves ==
  ASSUME IInv, NEW t \in Slot, NEW r \in Slot, AssignAttribute(t, r)
  PROVE  Moves \/ Fails
<1> DEFINE c == env[t]
           cleared == [o \in Addr |-> IF o \in links[c] THEN "free" ELSE kind[o]]
<1>1. c \in Addr /\ kind[c] = "attr"
  BY DEF AssignAttribute, Sound, Whole, IInv, TypeOK, Pointer
<1>2. PICK p \in Operands(r) :
        /\ links[p] # {}
        /\ careless' = careless \cup (IF p = c THEN {"self_attribute"} ELSE {})
        /\ \/ /\ \/ \E s \in links[c] : kind[s] # "string"
                 \/ \E s \in links[p] : cleared[s] # "string"
              /\ Stop("undefined")
           \/ /\ \A s \in links[c] : kind[s] = "string"
              /\ \A s \in links[p] : cleared[s] = "string"
              /\ \E b \in Addr :
                   /\ cleared[b] = "free"
                   /\ kind' = [cleared EXCEPT ![b] = "string"]
                   /\ links' = [links EXCEPT ![c] = {b}]
              /\ UNCHANGED <<nref, holds, dropped, env, depth, pc>>
  BY DEF AssignAttribute
<1>3. careless \subseteq careless' /\ careless' \subseteq Carelessness
  BY <1>2 DEF IInv, TypeOK, Carelessness
<1>4. CASE /\ \/ \E s \in links[c] : kind[s] # "string"
              \/ \E s \in links[p] : cleared[s] # "string"
           /\ Stop("undefined")
  <2>1. ASSUME CInv, careless' = {} PROVE FALSE
    <3>1. careless = {} /\ p # c
      BY <1>2, <2>1
    <3>2. OwnTexts(Store)
      BY <2>1, <3>1 DEF CInv
    <3>3. p \in Addr /\ kind[p] = "attr"
      <4>1. CASE SlotKind[r] = "attr" /\ Sound(r)
        BY <4>1 DEF Operands, Sound, Whole, IInv, TypeOK, Pointer
      <4>2. CASE SlotKind[r] \in Element /\ Sound(r)
        <5>1. SlotKind[r] # "attr" /\ env[r] \in Addr /\ kind[env[r]] \in Element
          BY <4>2 DEF Element, Sound, Whole, IInv, TypeOK, Pointer
        <5>2. p \in holds[env[r]]
          BY <4>2, <5>1 DEF Operands
        <5> QED BY <5>1, <5>2 DEF IInv, TypeOK, TablesTyped, Contents, Element
      <4> QED BY <4>1, <4>2 DEF Operands
    <3>4. \A s \in links[c] : s \in Addr /\ kind[s] = "string"
      BY <1>1, <3>2, StoreFields DEF OwnTexts
    <3>5. \A s \in links[p] : s \in Addr /\ kind[s] = "string" /\ s \notin links[c]
      BY <1>1, <3>1, <3>2, <3>3, StoreFields DEF OwnTexts
    <3> QED BY <1>4, <3>4, <3>5
  <2> QED BY <1>3, <1>4, <2>1 DEF Fails
<1>5. CASE /\ \A s \in links[c] : kind[s] = "string"
           /\ \A s \in links[p] : cleared[s] = "string"
           /\ \E b \in Addr :
                /\ cleared[b] = "free"
                /\ kind' = [cleared EXCEPT ![b] = "string"]
                /\ links' = [links EXCEPT ![c] = {b}]
           /\ UNCHANGED <<nref, holds, dropped, env, depth, pc>>
  <2>1. PICK b \in Addr : /\ cleared[b] = "free"
                          /\ kind' = [cleared EXCEPT ![b] = "string"]
                          /\ links' = [links EXCEPT ![c] = {b}]
    BY <1>5
  <2> DEFINE st == [Store EXCEPT !.kind = [cleared EXCEPT ![b] = "string"],
                                 !.links = [links EXCEPT ![c] = {b}]]
  <2>2. Store \in Heap /\ Good(Store, env)
    BY IInvIsGood DEF Good
  <2>3. /\ [cleared EXCEPT ![b] = "string"] \in [Addr -> Kind \cup {"free"}]
        /\ [links EXCEPT ![c] = {b}] \in [Addr -> SUBSET Pointer]
    BY DEF IInv, TypeOK, Kind, Pointer
  <2>4. st \in Heap
    <3> HIDE DEF cleared, c
    <3> QED BY <2>2, <2>3 DEF Heap
  <2>5. /\ st.kind = [cleared EXCEPT ![b] = "string"] /\ st.links = [links EXCEPT ![c] = {b}]
        /\ st.nref = nref /\ st.holds = holds /\ st.dropped = dropped
    BY DEF Store
  <2>6. Become(st)
    BY <1>5, <2>1, <2>5 DEF Become
  <2>7. /\ b # c /\ (kind[b] = "free" \/ b \in links[c])
        /\ \A o \in Addr : st.kind[o] = IF o = b THEN "string"
                                        ELSE IF o \in links[c] THEN "free" ELSE kind[o]
        /\ \A o \in Addr : st.links[o] = IF o = c THEN {b} ELSE links[o]
    BY <1>1, <1>5, <2>1, <2>5 DEF IInv, TypeOK
  <2> HIDE DEF st, cleared
  <2>8. Good(st, env)
    <3>1. \A o \in Addr : kind[o] \notin {"free", "string"} => st.kind[o] = kind[o]
      BY <1>5, <2>7
    <3> QED BY <2>2, <2>4, <2>5, <3>1, PlainKeeps
  <2>9. ASSUME careless = {}, CInv PROVE SlotsTyped(st) /\ OwnTexts(st)
    <3>1. NoDanglingSlot /\ OwnTexts(Store)
      BY <2>9 DEF CInv
    <3>2. /\ \A s \in links[c] : /\ s \in Addr /\ kind[s] = "string" /\ nref[s] = 0
                                 /\ s \notin dropped
                                 /\ \A a \in Addr : kind[a] = "attr" /\ s \in links[a] => a = c
          /\ \A o \in dropped : kind[o] \in ListKind \cup {"string"} /\ nref[o] = 0
      BY <1>1, <3>1, StoreFields DEF OwnTexts
    <3>3. nref[b] = 0 /\ b \notin dropped
      <4>1. CASE b \in links[c]
        BY <3>2, <4>1
      <4>2. CASE kind[b] = "free"
        BY <3>1, <3>2, <4>2, FreeUncounted DEF Free, ListKind
      <4> QED BY <2>7, <4>1, <4>2
    <3>4. \A y \in Slot : env[y] # b /\ env[y] \notin links[c]
      <4>1. \A y \in Slot : env[y] \in Addr => nref[env[y]] > 0
        BY OwnedIsCounted DEF Owners
      <4> QED BY <3>2, <3>3, <4>1
    <3>5. SlotsTyped(st)
      BY <2>7, <3>1, <3>4 DEF SlotsTyped, NoDanglingSlot, IInv, TypeOK, Pointer
    <3>6. ASSUME NEW a \in Addr, a # c, st.kind[a] = "attr", NEW s \in st.links[a]
          PROVE  /\ kind[a] = "attr" /\ s \in links[a] /\ s # b /\ s \notin links[c]
                 /\ s \in Addr /\ kind[s] = "string" /\ nref[s] = 0 /\ s \notin dropped
                 /\ \A d \in Addr : kind[d] = "attr" /\ s \in links[d] => d = a
      <4>1. kind[a] = "attr" /\ s \in links[a]
        BY <2>7, <3>6
      <4>2. s \notin links[c]
        BY <3>2, <3>6, <4>1
      <4>3. /\ s \in Addr /\ kind[s] = "string" /\ nref[s] = 0 /\ s \notin dropped
            /\ \A d \in Addr : kind[d] = "attr" /\ s \in links[d] => d = a
        BY <3>1, <4>1, StoreFields DEF OwnTexts
      <4> QED BY <2>7, <4>1, <4>2, <4>3
    <3>7. ASSUME NEW a \in Addr, st.kind[a] = "attr", NEW s \in st.links[a]
          PROVE  /\ s \in Addr /\ st.kind[s] = "string" /\ st.nref[s] = 0 /\ s \notin st.dropped
                 /\ \A d \in Addr : st.kind[d] = "attr" /\ s \in st.links[d] => d = a
      <4>1. CASE a = c
        <5>1. s = b
          BY <2>7, <3>7, <4>1
        <5>2. ASSUME NEW d \in Addr, st.kind[d] = "attr", s \in st.links[d] PROVE d = a
          BY <3>6, <4>1, <5>1, <5>2
        <5> QED BY <2>5, <2>7, <3>3, <5>1, <5>2
      <4>2. CASE a # c
        <5>1. /\ kind[a] = "attr" /\ s \in links[a] /\ s # b /\ s \notin links[c]
              /\ s \in Addr /\ kind[s] = "string" /\ nref[s] = 0 /\ s \notin dropped
          BY <3>6, <3>7, <4>2
        <5>2. ASSUME NEW d \in Addr, st.kind[d] = "attr", s \in st.links[d] PROVE d = a
          <6>1. d # c
            BY <2>7, <5>1, <5>2
          <6>2. kind[d] = "attr" /\ s \in links[d]
            BY <3>6, <5>2, <6>1
          <6> QED BY <3>6, <3>7, <4>2, <6>2
        <5> QED BY <2>5, <2>7, <5>1, <5>2
      <4> QED BY <4>1, <4>2
    <3>8. ASSUME NEW o \in st.dropped PROVE st.kind[o] \in ListKind \cup {"string"} /\ st.nref[o] = 0
      <4>1. o \in dropped /\ o \in Addr /\ o # b /\ o \notin links[c]
        BY <2>5, <3>2, <3>3, <3>8 DEF IInv, TypeOK
      <4> QED BY <2>5, <2>7, <3>2, <4>1
    <3> QED BY <3>5, <3>7, <3>8 DEF OwnTexts
  <2>10. ASSUME Kept(Store) PROVE Kept(st)
    <3> SUFFICES ASSUME NEW o \in Addr, st.kind[o] # "free"
                 PROVE  st.nref[o] > 0 \/ o \in st.dropped \/ o \in Strings(st, Addr)
      BY DEF Kept, KeptBut, Uncounted
    <3>1. st.kind[c] = "attr" /\ st.links[c] = {b}
      BY <1>1, <1>5, <2>7
    <3>2. CASE o = b
      BY <1>1, <3>1, <3>2 DEF Strings
    <3>3. CASE o # b
      <4>1. kind[o] # "free" /\ o \notin links[c]
        BY <2>7, <3>3
      <4>2. nref[o] > 0 \/ o \in dropped \/ o \in Strings(Store, Addr)
        BY <2>10, <4>1, StoreFields, StoreAssumption DEF Kept, KeptBut, Uncounted
      <4>3. CASE o \in Strings(Store, Addr)
        <5>1. PICK a \in Addr : kind[a] = "attr" /\ o \in links[a]
          BY <4>3, StoreFields DEF Strings
        <5>2. a # c /\ a # b /\ a \notin links[c]
          BY <1>5, <2>7, <4>1, <5>1
        <5>3. st.kind[a] = "attr" /\ o \in st.links[a]
          BY <2>7, <5>1, <5>2
        <5> QED BY <5>3 DEF Strings
      <4> QED BY <2>5, <4>2, <4>3
    <3> QED BY <3>2, <3>3
  <2> QED BY <1>3, <1>5, <2>4, <2>6, <2>8, <2>9, <2>10 DEF Moves, Sane
<1> QED BY <1>2, <1>4, <1>5

\* Free blocks hold nothing and no table holds them.
LEMMA FreeIsolated ==
  ASSUME IInv, NEW a \in Free
  PROVE  a \in Addr /\ kind[a] = "free" /\ holds[a] = {} /\ \A c \in Addr : a \notin holds[c]
BY DEF Free, IInv, TypeOK, TablesTyped, Contents, Element

LEMMA LoadedGood ==
  ASSUME IInv, NEW g \in Free, NEW V \in SUBSET (Free \ {g}), NEW E \in SUBSET (Free \ {g}),
         V \cap E = {}, NEW A \in SUBSET (Free \ ({g} \cup V \cup E)), NEW T \in SUBSET (Free \ ({g} \cup V \cup E \cup A)),
         NEW ends \in [E -> SUBSET V], NEW owner \in [A -> V \cup E], NEW bearer \in [T -> A]
  PROVE  Good(Loaded(g, V, E, A, T, ends, owner, bearer), env)
<1> DEFINE st == Loaded(g, V, E, A, T, ends, owner, bearer)
           new == V \cup E \cup A \cup T \cup {g}
<1>1. /\ st.kind = [o \in Addr |-> IF o = g THEN "graph" ELSE IF o \in V THEN "vertex"
                                  ELSE IF o \in E THEN "edge"
                                  ELSE IF o \in A THEN "attr"
                                  ELSE IF o \in T THEN "string" ELSE kind[o]]
      /\ st.nref = [p \in Pointer |-> IF p \in V \cup E \cup A THEN nref[p] + 1 ELSE nref[p]]
      /\ st.holds = [o \in Addr |-> IF o = g THEN V \cup E
                                   ELSE IF o \in V \cup E THEN {a \in A : owner[a] = o}
                                   ELSE holds[o]]
      /\ st.links = [o \in Addr |-> IF o \in V THEN {b \in E : o \in ends[b]}
                                   ELSE IF o \in E THEN ends[o]
                                   ELSE IF o \in A THEN {s \in T : bearer[s] = o}
                                   ELSE IF o \in T \cup {g} THEN {}
                                   ELSE links[o]]
      /\ st.dropped = dropped
  BY DEF Loaded
<1>2. \A o \in new : o \in Addr /\ kind[o] = "free" /\ holds[o] = {} /\ \A c \in Addr : o \notin holds[c]
  BY FreeIsolated
<1>3. TypeOK /\ Good(Store, env) /\ TablesTyped /\ TablesDisjoint /\ ExactCounts
  BY IInvIsGood DEF IInv
<1>4. st \in Heap
  <2>1. st = [kind |-> st.kind, nref |-> st.nref, holds |-> st.holds, links |-> st.links,
              dropped |-> st.dropped] /\ st.dropped \in SUBSET Addr
    BY DEF Loaded, IInv, TypeOK
  <2>2. st.kind \in [Addr -> Kind \cup {"free"}] 
    BY <1>1, <1>3 DEF TypeOK, Kind
  <2>5. st.links \in [Addr -> SUBSET Pointer]
    BY <1>1, <1>2, <1>3 DEF TypeOK, Pointer
  <2>3. st.nref \in [Pointer -> Nat]
    BY <1>1, <1>3 DEF TypeOK
  <2>4. st.holds \in [Addr -> SUBSET Addr]
    BY <1>1, <1>2, <1>3 DEF TypeOK
  <2> HIDE DEF st
  <2> QED BY <2>1, <2>2, <2>3, <2>4, <2>5 DEF Heap
<1>5. Typed(st)
  <2> SUFFICES ASSUME NEW c \in Addr, NEW o \in st.holds[c]
               PROVE  st.kind[o] \in Contents(st.kind[c])
    BY DEF Typed
  <2>1. CASE c = g
    BY <1>1, <1>2, <2>1 DEF Contents, Element
  <2>2. CASE c # g /\ c \in V \cup E
    BY <1>1, <1>2, <2>2 DEF Contents, Element
  <2>3. CASE c \notin V \cup E \cup {g}
    <3>1. o \in holds[c] /\ o \notin new /\ c \notin new /\ o \in Addr
      BY <1>1, <1>2, <1>3, <2>3 DEF TypeOK
    <3> QED BY <1>1, <1>3, <3>1 DEF TablesTyped
  <2> QED BY <2>1, <2>2, <2>3
<1>6. Disjoint(st)
  <2> SUFFICES ASSUME NEW c \in Addr, NEW d \in Addr, c # d, NEW o,
                      st.kind[c] \in Element, st.kind[d] \in Element,
                      o \in st.holds[c], o \in st.holds[d]
               PROVE  FALSE
    BY DEF Disjoint
  <2>1. c # g /\ d # g
    BY <1>1 DEF Element
  <2>2. CASE c \in V \cup E /\ d \in V \cup E
    BY <1>1, <2>1, <2>2
  <2>3. CASE c \notin V \cup E /\ d \notin V \cup E
    <3>1. o \in holds[c] /\ o \in holds[d] /\ kind[c] \in Element /\ kind[d] \in Element
      BY <1>1, <1>2, <2>1, <2>3
    <3> QED BY <1>3, <3>1 DEF TablesDisjoint
  <2>4. CASE c \in V \cup E /\ d \notin V \cup E
    BY <1>1, <1>2, <2>1, <2>4
  <2>5. CASE c \notin V \cup E /\ d \in V \cup E
    BY <1>1, <1>2, <2>1, <2>5
  <2> QED BY <2>2, <2>3, <2>4, <2>5
<1>7. Exact(st, env)
  <2> SUFFICES ASSUME NEW o \in Addr PROVE st.nref[o] = Cardinality(OwnersIn(st, env, o))
    BY DEF Exact
  <2>1. /\ o \in Pointer /\ nref[o] \in Nat /\ nref[o] = Cardinality(OwnersIn(Store, env, o))
        /\ IsFiniteSet(OwnersIn(Store, env, o))
    <3>1. o \in Pointer /\ nref[o] \in Nat
      BY <1>3 DEF TypeOK, Pointer
    <3>2. Owners(o) = OwnersIn(Store, env, o)
      BY DEF Owners, OwnersIn, Store
    <3>3. nref[o] = Cardinality(Owners(o))
      BY <1>3 DEF ExactCounts
    <3> QED BY <3>1, <3>2, <3>3, OwnersFinite
  <2>2. CASE o \notin V \cup E \cup A
    <3>1. OwnersIn(st, env, o) = OwnersIn(Store, env, o)
      BY <1>1, <1>2, <2>2 DEF OwnersIn, Store
    <3> QED BY <1>1, <2>1, <2>2, <3>1
  <2>3. CASE o \in V \cup E \cup A
    <3> DEFINE b == IF o \in V \cup E THEN g ELSE owner[o]
    <3>1. b \in Addr /\ \A c \in Addr : o \in st.holds[c] <=> c = b
      BY <1>1, <1>2, <2>3
    <3>2. \A c \in Addr : o \notin holds[c]
      BY <1>2, <2>3
    <3>3. OwnersIn(st, env, o) = OwnersIn(Store, env, o) \cup {b} /\ b \notin OwnersIn(Store, env, o)
      <4> HIDE DEF b
      <4> QED BY <3>1, <3>2, StoreAssumption DEF OwnersIn, Store
    <3>4. Cardinality(OwnersIn(Store, env, o) \cup {b}) = Cardinality(OwnersIn(Store, env, o)) + 1
      BY <2>1, <3>3, FS_AddElement
    <3>5. st.nref[o] = nref[o] + 1
      BY <1>1, <2>1, <2>3
    <3> QED BY <2>1, <3>3, <3>4, <3>5
  <2> QED BY <2>2, <2>3
<1> QED BY <1>3, <1>4, <1>5, <1>6, <1>7 DEF Good


\* The strings readGraph makes are those of its attributes.
LEMMA LoadedOwns ==
  ASSUME IInv, NEW g \in Free, NEW V \in SUBSET (Free \ {g}), NEW E \in SUBSET (Free \ {g}),
         V \cap E = {}, NEW A \in SUBSET (Free \ ({g} \cup V \cup E)),
         NEW T \in SUBSET (Free \ ({g} \cup V \cup E \cup A)),
         NEW ends \in [E -> SUBSET V], NEW owner \in [A -> V \cup E], NEW bearer \in [T -> A]
  PROVE  LET st == Loaded(g, V, E, A, T, ends, owner, bearer)
         IN  /\ careless = {} /\ CInv => SlotsTyped(st) /\ OwnTexts(st) /\ ~Uncounted(st, g)
             /\ Kept(Store) => KeptBut(st, g)
<1> DEFINE st == Loaded(g, V, E, A, T, ends, owner, bearer)
           new == V \cup E \cup A \cup T \cup {g}
<1>1. /\ \A o \in Addr : st.kind[o] = IF o = g THEN "graph" ELSE IF o \in V THEN "vertex"
                                       ELSE IF o \in E THEN "edge"
                                       ELSE IF o \in A THEN "attr"
                                       ELSE IF o \in T THEN "string" ELSE kind[o]
      /\ \A o \in Addr : st.nref[o] = IF o \in V \cup E \cup A THEN nref[o] + 1 ELSE nref[o]
      /\ \A o \in Addr : o \in A => st.links[o] = {s \in T : bearer[s] = o}
      /\ \A o \in Addr : o \notin new => st.links[o] = links[o]
      /\ st.dropped = dropped
  BY DEF Loaded, Pointer
<1>2. \A o \in new : o \in Addr /\ kind[o] = "free"
  BY DEF Free
<1>3. /\ \A o \in Addr : o \notin new => st.kind[o] = kind[o]
      /\ \A o \in Addr : st.kind[o] = "attr" <=> o \in A \/ (o \notin new /\ kind[o] = "attr")
      /\ \A o \in T : st.kind[o] = "string" /\ bearer[o] \in A /\ o \in Addr
  BY <1>1, <1>2
<1>n. \A o \in Addr : nref[o] \in Nat
  BY DEF IInv, TypeOK, Pointer
<1> HIDE DEF st
<1>4. ASSUME careless = {}, CInv PROVE SlotsTyped(st) /\ OwnTexts(st) /\ ~Uncounted(st, g)
  <2>1. NoDanglingSlot /\ OwnTexts(Store)
    BY <1>4 DEF CInv
  <2>2. SlotsTyped(st)
    <3>1. \A o \in Addr \ Free : st.kind[o] = kind[o]
      BY <1>2, <1>3 DEF Free
    <3> QED BY <2>1, <3>1, SlotsTypedFresh
  <2>3. \A o \in new : nref[o] = 0 /\ o \notin dropped
    <3>1. \A o \in new : nref[o] = 0
      BY <2>1, FreeUncounted
    <3>2. \A o \in dropped : kind[o] # "free"
      BY <2>1, StoreFields DEF OwnTexts, ListKind
    <3> QED BY <1>2, <3>1, <3>2
  <2>4. ASSUME NEW b \in Addr, b \notin new, kind[b] = "attr", NEW z \in links[b]
        PROVE  /\ z \in Addr /\ kind[z] = "string" /\ nref[z] = 0 /\ z \notin dropped
               /\ z \notin new
               /\ \A c \in Addr : kind[c] = "attr" /\ z \in links[c] => c = b
    BY <1>2, <2>1, <2>4, StoreFields DEF OwnTexts
  <2>5. ASSUME NEW b \in Addr, st.kind[b] = "attr", NEW z \in st.links[b]
        PROVE  /\ z \in Addr /\ st.kind[z] = "string" /\ st.nref[z] = 0 /\ z \notin st.dropped
               /\ z # g
               /\ \A c \in Addr : st.kind[c] = "attr" /\ z \in st.links[c] => c = b
    <3>1. CASE b \in A
      <4>1. z \in T /\ bearer[z] = b
        BY <1>1, <2>5, <3>1
      <4>2. z \in Addr /\ st.kind[z] = "string" /\ z \in new /\ z \notin V \cup E \cup A \cup {g}
        BY <1>3, <4>1
      <4>3. ASSUME NEW c \in Addr, st.kind[c] = "attr", z \in st.links[c] PROVE c = b
        <5>1. CASE c \in A
          BY <1>1, <4>1, <4>3, <5>1
        <5>2. CASE c \notin new /\ kind[c] = "attr"
          BY <1>1, <2>4, <4>2, <4>3, <5>2
        <5> QED BY <1>3, <4>3, <5>1, <5>2
      <4> QED BY <1>1, <2>3, <4>2, <4>3
    <3>2. CASE b \notin new /\ kind[b] = "attr"
      <4>1. z \in links[b]
        BY <1>1, <2>5, <3>2
      <4>2. /\ z \in Addr /\ kind[z] = "string" /\ nref[z] = 0 /\ z \notin dropped
            /\ z \notin new
        BY <2>4, <3>2, <4>1
      <4>3. ASSUME NEW c \in Addr, st.kind[c] = "attr", z \in st.links[c] PROVE c = b
        <5>1. CASE c \in A
          BY <1>1, <4>2, <4>3, <5>1
        <5>2. CASE c \notin new /\ kind[c] = "attr"
          BY <1>1, <2>4, <3>2, <4>1, <4>3, <5>2
        <5> QED BY <1>3, <4>3, <5>1, <5>2
      <4> QED BY <1>1, <1>3, <4>2, <4>3
    <3> QED BY <1>3, <2>5, <3>1, <3>2
  <2>6. ASSUME NEW o \in st.dropped PROVE st.kind[o] \in ListKind \cup {"string"} /\ st.nref[o] = 0
    <3>1. o \in dropped /\ o \in Addr /\ o \notin new
      BY <1>1, <2>3, <2>6 DEF IInv, TypeOK
    <3>2. kind[o] \in ListKind \cup {"string"} /\ nref[o] = 0
      BY <2>1, <3>1, StoreFields DEF OwnTexts
    <3> QED BY <1>1, <1>3, <3>1, <3>2
  <2>7. ~Uncounted(st, g)
    <3>1. ASSUME NEW b \in Addr, st.kind[b] = "attr", g \in st.links[b] PROVE FALSE
      BY <2>5, <3>1
    <3> QED BY <1>1, <2>3, <3>1 DEF Uncounted, Strings
  <2>8. OwnTexts(st)
    BY <2>5, <2>6 DEF OwnTexts
  <2> QED BY <2>2, <2>7, <2>8
<1>5. ASSUME Kept(Store) PROVE KeptBut(st, g)
  <2> SUFFICES ASSUME NEW o \in Addr, st.kind[o] # "free", o # g
               PROVE  st.nref[o] > 0 \/ o \in st.dropped \/ o \in Strings(st, Addr)
    BY DEF KeptBut, Uncounted
  <2>1. CASE o \in V \cup E \cup A
    BY <1>1, <1>n, <2>1
  <2>2. CASE o \in T
    <3>1. bearer[o] \in Addr /\ st.kind[bearer[o]] = "attr" /\ o \in st.links[bearer[o]]
      BY <1>1, <1>2, <1>3, <2>2
    <3> QED BY <3>1 DEF Strings
  <2>3. CASE o \notin new
    <3>1. nref[o] > 0 \/ o \in dropped \/ o \in Strings(Store, Addr)
      BY <1>3, <1>5, <2>3, StoreFields, StoreAssumption DEF Kept, KeptBut, Uncounted
    <3>2. CASE o \in Strings(Store, Addr)
      <4>1. PICK b \in Addr : kind[b] = "attr" /\ o \in links[b]
        BY <3>2, StoreFields DEF Strings
      <4>2. st.kind[b] = "attr" /\ o \in st.links[b]
        BY <1>1, <1>2, <1>3, <4>1
      <4> QED BY <4>2 DEF Strings
    <3> QED BY <1>1, <2>3, <3>1, <3>2
  <2> QED BY <2>1, <2>2, <2>3
<1> QED BY <1>4, <1>5 DEF st

LEMMA ReadGraphAssigns ==
  ASSUME IInv, NEW x \in Slot, ReadGraph(x) \/ ReadMissingFile(x)
  PROVE  Assigns(x)
<1>1. CASE ReadMissingFile(x)
  <2>1. Store \in Heap /\ NULL \in Pointer
    BY IInvIsGood DEF Good, Pointer
  <2> QED BY <1>1, <2>1, StoreIsSane, AssignsStored DEF ReadMissingFile
<1>2. CASE ReadGraph(x)
  <2>0. PICK g \in Free : \E V, E \in SUBSET (Free \ {g}) :
          \E A \in SUBSET (Free \ ({g} \cup V \cup E)) :
          \E T \in SUBSET (Free \ ({g} \cup V \cup E \cup A)) :
            /\ V \cap E = {}
            /\ \E ends \in [E -> SUBSET V], owner \in [A -> V \cup E], bearer \in [T -> A] :
                 Assign(x, g, Loaded(g, V, E, A, T, ends, owner, bearer))
    BY <1>2 DEF ReadGraph
  <2>1. PICK V, E \in SUBSET (Free \ {g}) :
          \E A \in SUBSET (Free \ ({g} \cup V \cup E)) :
          \E T \in SUBSET (Free \ ({g} \cup V \cup E \cup A)) :
            /\ V \cap E = {}
            /\ \E ends \in [E -> SUBSET V], owner \in [A -> V \cup E], bearer \in [T -> A] :
                 Assign(x, g, Loaded(g, V, E, A, T, ends, owner, bearer))
    BY <2>0
  <2>a. PICK A \in SUBSET (Free \ ({g} \cup V \cup E)) :
          \E T \in SUBSET (Free \ ({g} \cup V \cup E \cup A)) :
            /\ V \cap E = {}
            /\ \E ends \in [E -> SUBSET V], owner \in [A -> V \cup E], bearer \in [T -> A] :
                 Assign(x, g, Loaded(g, V, E, A, T, ends, owner, bearer))
    BY <2>1
  <2>b. PICK T \in SUBSET (Free \ ({g} \cup V \cup E \cup A)) :
            /\ V \cap E = {}
            /\ \E ends \in [E -> SUBSET V], owner \in [A -> V \cup E], bearer \in [T -> A] :
                 Assign(x, g, Loaded(g, V, E, A, T, ends, owner, bearer))
    BY <2>a
  <2>2. PICK ends \in [E -> SUBSET V], owner \in [A -> V \cup E], bearer \in [T -> A] :
          V \cap E = {} /\ Assign(x, g, Loaded(g, V, E, A, T, ends, owner, bearer))
    BY <2>b
  <2> DEFINE st == Loaded(g, V, E, A, T, ends, owner, bearer)
  <2>3. g \in Pointer
    BY DEF Free, Pointer
  <2>4. Good(st, env)
    BY <2>2, LoadedGood
  <2>5. /\ careless = {} /\ CInv => SlotsTyped(st) /\ OwnTexts(st) /\ ~Uncounted(st, g)
        /\ Kept(Store) => KeptBut(st, g)
    BY <2>2, LoadedOwns
  <2>6. Assign(x, g, st)
    BY <2>2
  <2> HIDE DEF st
  <2>7. careless' = {} => careless = {}
    BY <2>6 DEF Assign
  <2> QED BY <2>3, <2>4, <2>5, <2>6, <2>7 DEF Assigns, AssignsTo, Good
<1> QED BY <1>1, <1>2

\* Steps that only move pc, depth or careless.
LEMMA ControlKeeps ==
  ASSUME IInv, UNCHANGED <<kind, nref, holds, links, dropped, env>>, TypeOK', DeadSlotsNull'
  PROVE  IInv'
BY DEF IInv, ExactCounts, Owners, TablesTyped, TablesDisjoint

LEMMA StopKeeps ==
  ASSUME IInv, NEW how \in {"died", "undefined"}, Stop(how),
         careless' \subseteq Carelessness
  PROVE  IInv'
<1>1. TypeOK' /\ DeadSlotsNull'
  BY DEF IInv, TypeOK, DeadSlotsNull, Live, Stop
<1> QED BY <1>1, ControlKeeps DEF Stop


-----------------------------------------------------------------------------
(* The destructors the generated code calls, and the ends of blocks.       *)

LEMMA DestroyInHeap ==
  ASSUME NEW st \in Heap, NEW p, NEW skip
  PROVE  /\ Destroy(st, p, skip).dropped = st.dropped
         /\ Destroy(st, p, skip).nref =
              GC_Deref(st.nref, Released(st.nref, st.holds, p, skip))
         /\ \A o \in Addr :
              LET F == Freed(st, p, skip)
                  lost == o \in F \/ o \in Strings(st, F)
              IN  /\ Destroy(st, p, skip).kind[o] = IF lost THEN "free" ELSE st.kind[o]
                  /\ Destroy(st, p, skip).links[o] = IF lost THEN {} ELSE st.links[o]
BY DEF Destroy

LEMMA ReleaseKeeps == ASSUME IInv, NEW x \in Slot, Release(x) PROVE IInv'
<1>1. TypeOK /\ Good(Store, env) /\ DeadSlotsNull
  BY IInvIsGood
<1>2. PICK skip \in SUBSET Addr :
        \/ Stop("undefined")
        \/ /\ ~Corrupts(x, Store, skip)
           /\ Become(Destroy(Store, env[x], skip))
           /\ env' = [env EXCEPT ![x] = NULL]
           /\ UNCHANGED <<depth, pc>>
  BY DEF Release
<1>3. UNCHANGED careless
  BY DEF Release
<1>4. CASE Stop("undefined")
  BY <1>1, <1>3, <1>4, StopKeeps DEF TypeOK
<1>5. CASE /\ ~Corrupts(x, Store, skip)
           /\ Become(Destroy(Store, env[x], skip))
           /\ env' = [env EXCEPT ![x] = NULL]
           /\ UNCHANGED <<depth, pc>>
  <2> DEFINE d == Destroy(Store, env[x], skip)
  <2>1. Good(d, env')
    BY <1>1, <1>5, DestroyKeeps DEF Corrupts
  <2>2. DeadSlotsNull'
    BY <1>1, <1>5 DEF DeadSlotsNull, Live, TypeOK
  <2>3. Become(d)
    BY <1>5
  <2> HIDE DEF d
  <2> QED BY <1>1, <1>3, <1>5, <2>1, <2>2, <2>3, BecomeKeeps DEF TypeOK
<1> QED BY <1>2, <1>4, <1>5

LEMMA BlockKeeps ==
  ASSUME IInv, EnterScope \/ LeaveScope \/ EndScope
  PROVE  IInv'
<1>1. CASE EnterScope
  <2>1. \A x \in Slot : SlotScope[x] = depth + 1 => env[x] = NULL
    BY <1>1, StoreAssumption DEF IInv, DeadSlotsNull, Live, TypeOK
  <2>2. env' = env
    BY <1>1, <2>1 DEF EnterScope, IInv, TypeOK
  <2>3. TypeOK' /\ DeadSlotsNull'
    BY <1>1, <2>2, StoreAssumption DEF EnterScope, IInv, TypeOK, DeadSlotsNull, Live
  <2> QED BY <1>1, <2>2, <2>3, ControlKeeps DEF EnterScope
<1>2. CASE LeaveScope
  <2>1. TypeOK' /\ DeadSlotsNull'
    BY <1>2 DEF LeaveScope, IInv, TypeOK, DeadSlotsNull, Live
  <2> QED BY <1>2, <2>1, ControlKeeps DEF LeaveScope
<1>3. CASE EndScope
  <2>1. TypeOK' /\ DeadSlotsNull'
    BY <1>3, StoreAssumption DEF EndScope, IInv, TypeOK, DeadSlotsNull, Live
  <2> QED BY <1>3, <2>1, ControlKeeps DEF EndScope
<1> QED BY <1>1, <1>2, <1>3

LEMMA HaltKeeps == ASSUME IInv, Die \/ (\E x \in Slot : UseStale(x)) PROVE IInv'
BY StopKeeps DEF Die, UseStale, IInv, TypeOK

\* A statement stores a value, moves pointers or objects, reads a block that is
\* gone, destroys a temporary, or halts.
LEMMA StatementCases ==
  ASSUME IInv, Statement
  PROVE  \/ \E x \in Slot : Running /\ Live(x) /\ Assigns(x)
         \/ \E x \in Slot : Running /\ Release(x)
         \/ Moves \/ Fails
         \/ Die \/ \E x \in Slot : UseStale(x)
<1>1. ASSUME NEW x \in Slot, New(x) \/ NewText(x) \/ ReadGraph(x) \/ ReadMissingFile(x)
      PROVE  Running /\ Live(x) /\ Assigns(x)
  BY <1>1, NewAssigns, TextAssigns, ReadGraphAssigns DEF New, NewText, ReadGraph, ReadMissingFile
<1>2. ASSUME NEW x \in Slot, NEW y \in Slot,
             \/ Copy(x, y) \/ GraphMembers(x, y) \/ GetAttribute(x, y)
             \/ TakeElement(x, y) \/ WrapString(x, y)
      PROVE  Running /\ Live(x) /\ Assigns(x)
  <2>1. Assigns(x)
    BY <1>2, CopyAssigns, GraphMembersAssigns, GetAttributeAssigns, ElementAssigns,
       WrapStringAssigns
  <2> QED BY <1>2, <2>1 DEF Copy, GraphMembers, GetAttribute, TakeElement, WrapString
<1>3. ASSUME NEW x \in Slot, DeleteTmp(x)
      PROVE  Running /\ Release(x)
  BY <1>3 DEF DeleteTmp
<1>4. ASSUME NEW x \in Slot, NEW ys \in SUBSET Slot, ListDeclaration(x, ys)
      PROVE  Running /\ Live(x) /\ Assigns(x)
  BY <1>4, ListDeclarationAssigns DEF ListDeclaration
<1>5. ASSUME NEW x \in Slot, NEW y \in Slot,
             \/ AppendToList(x, y) \/ PipeTurn(x, y) \/ Insert(x, y)
             \/ AppendList(x, y) \/ AssignAttribute(x, y)
      PROVE  Moves \/ Fails
  BY <1>5, AppendToListMoves, PipeTurnMoves, InsertMoves, AppendListMoves, AssignAttributeMoves
<1>6. CASE LiteralInPlace \/ \E x \in Slot : LengthInPlace(x)
  BY <1>6, InPlaceMoves
<1>7. ASSUME NEW x \in Slot, NEW y \in Slot, NEW z \in Slot, EdgeDirection(x, y, z)
      PROVE  Moves
  BY <1>7, EdgeDirectionMoves
<1> QED BY <1>1, <1>2, <1>3, <1>4, <1>5, <1>6, <1>7 DEF Statement

LEMMA InitIInv == ASSUME Init PROVE IInv
<1>1. TypeOK /\ TablesTyped /\ TablesDisjoint /\ DeadSlotsNull
  BY StoreAssumption DEF Init, TypeOK, TablesTyped, TablesDisjoint, DeadSlotsNull, Pointer
<1>2. \A o \in Addr : Owners(o) = {} /\ nref[o] = 0
  BY StoreAssumption DEF Init, Owners, Pointer
<1> QED BY <1>1, <1>2, FS_EmptySet DEF IInv, ExactCounts

LEMMA StepIInv == ASSUME IInv, [Next]_vars PROVE IInv'
<1>1. CASE \E x \in Slot : Running /\ Live(x) /\ Assigns(x)
  <2>1. PICK x \in Slot : Live(x) /\ Assigns(x)
    BY <1>1
  <2>2. PICK p \in Pointer, st \in Heap : Good(st, env) /\ Assign(x, p, st)
    BY <2>1 DEF Assigns, AssignsTo
  <2> QED BY <2>1, <2>2, AssignKeeps
<1>2. CASE Moves
  <2>1. PICK st \in Heap : Sane(st) /\ Become(st)
    BY <1>2 DEF Moves
  <2>2. UNCHANGED <<env, depth, pc>> /\ careless' \subseteq Carelessness
    BY <1>2 DEF Moves
  <2>3. Good(st, env')
    BY <2>1, <2>2 DEF Sane
  <2>4. DeadSlotsNull' /\ depth' \in 0 .. LastScope
        /\ pc' \in {"run", "free", "done", "died", "undefined"}
    BY <2>2 DEF IInv, TypeOK, DeadSlotsNull, Live
  <2> QED BY <2>1, <2>2, <2>3, <2>4, BecomeKeeps
<1>3. CASE Die \/ \E x \in Slot : UseStale(x)
  BY <1>3, HaltKeeps
<1>4. CASE Fails
  BY <1>4, StopKeeps DEF Fails
<1>5. ASSUME NEW x \in Slot, Release(x) PROVE IInv'
  BY <1>5, ReleaseKeeps
<1>6. CASE EnterScope \/ LeaveScope \/ EndScope
  BY <1>6, BlockKeeps
<1>7. CASE UNCHANGED vars
  <2>1. UNCHANGED <<kind, nref, holds, links, dropped, env>> /\ TypeOK' /\ DeadSlotsNull'
    BY <1>7 DEF vars, IInv, TypeOK, DeadSlotsNull, Live
  <2> QED BY <2>1, ControlKeeps
<1>8. ASSUME NEW x \in Slot, FreeSlot(x) PROVE Release(x)
  BY <1>8 DEF FreeSlot
<1> QED BY <1>1, <1>2, <1>3, <1>4, <1>5, <1>6, <1>7, <1>8, StatementCases DEF Next, ScopeExit

\* Whatever statements a program runs, and whatever the allocator answers,
\* the registry and the tables stay consistent.
THEOREM Invariance == Spec => []IInv
<1>1. Init => IInv
  BY InitIInv
<1>2. IInv /\ [Next]_vars => IInv'
  BY StepIInv
<1> QED BY <1>1, <1>2, PTL DEF Spec

\* The types of the registry, the heap and the slots are kept.
THEOREM TypeCorrect == Spec => []TypeOK
<1>1. IInv => TypeOK
  BY DEF IInv
<1> QED BY <1>1, Invariance, PTL

\* GC.c counts exactly: the nref of every object is the number of slots and
\* tables that own it, for every program.
THEOREM CountsExact == Spec => []ExactCounts
<1>1. IInv => ExactCounts
  BY DEF IInv
<1> QED BY <1>1, Invariance, PTL

-----------------------------------------------------------------------------
(* Careful programs stay defined.                                          *)

\* What destroy_T(x) leaves to a careful program: the strings it frees are those
\* of the attributes it frees, and nobody else has them.
LEMMA DestroyCareful ==
  ASSUME NEW st, Good(st, env), SlotsTyped(st), OwnTexts(st), NEW x \in Slot, NEW skip
  PROVE  LET F == Freed(st, env[x], skip)
             d == Destroy(st, env[x], skip)
         IN  /\ ~Corrupts(x, st, skip)
             /\ OwnTexts(d)
             /\ F \subseteq Addr /\ Strings(st, F) \subseteq Strings(st, Addr)
             /\ \A y \in Slot : y # x => env[y] \notin F /\ env[y] \notin Strings(st, F)
             /\ \A a \in Addr : st.kind[a] = "attr" => a \notin Strings(st, F)
<1> DEFINE F == Freed(st, env[x], skip)
           S == Strings(st, F)
           d == Destroy(st, env[x], skip)
<1>1. st \in Heap /\ env \in [Slot -> Pointer] /\ F \subseteq Addr
  BY FreedUnowned DEF Good
<1>2. \A o \in F : st.nref[o] = 1
  BY DEF Freed, LastRef
<1>3. ASSUME NEW s \in S
      PROVE  /\ s \in Addr /\ st.kind[s] = "string" /\ st.nref[s] = 0 /\ s \notin st.dropped
             /\ \E a \in F : /\ st.kind[a] = "attr" /\ s \in st.links[a]
                             /\ \A b \in Addr : st.kind[b] = "attr" /\ s \in st.links[b] => b = a
  <2>1. PICK a \in F : st.kind[a] = "attr" /\ s \in st.links[a]
    BY DEF Strings
  <2>2. a \in Addr
    BY <1>1
  <2> HIDE DEF F, S
  <2> QED BY <2>1, <2>2 DEF OwnTexts
<1>4. /\ \A o \in Addr : /\ d.kind[o] = IF o \in F \/ o \in S THEN "free" ELSE st.kind[o]
                         /\ d.links[o] = IF o \in F \/ o \in S THEN {} ELSE st.links[o]
      /\ d.nref = GC_Deref(st.nref, Released(st.nref, st.holds, env[x], skip))
      /\ d.dropped = st.dropped
  BY <1>1, DestroyInHeap
<1>5. \A o \in Addr : st.nref[o] = 0 => d.nref[o] = 0
  BY <1>1, <1>4 DEF GC_Deref, Heap, Pointer
<1>6. S \subseteq Strings(st, Addr)
  BY <1>1 DEF Strings
<1>7. ASSUME NEW y \in Slot, y # x PROVE env[y] \notin F /\ env[y] \notin S
  <2>1. env[y] \notin F
    BY <1>7, FreedUnowned
  <2>2. ASSUME env[y] \in S PROVE FALSE
    <3>1. env[y] \in Addr /\ st.nref[env[y]] = 0
      BY <1>3, <2>2
    <3>2. y \in OwnersIn(st, env, env[y])
      BY DEF OwnersIn
    <3> QED BY <3>1, <3>2, OwnerOfCounted
  <2> QED BY <2>1, <2>2
<1>8. ~Corrupts(x, st, skip)
  <2>1. env[x] \in F => st.kind[env[x]] = SlotKind[x]
    BY <1>1, StoreAssumption DEF SlotsTyped
  <2> QED BY <1>3, <2>1 DEF Corrupts
<1>9. \A a \in Addr : st.kind[a] = "attr" => a \notin S
  BY <1>3
<1> HIDE DEF F, S, d
<1>10. ASSUME NEW a \in Addr, d.kind[a] = "attr", NEW s \in d.links[a]
       PROVE  /\ s \in Addr /\ d.kind[s] = "string" /\ d.nref[s] = 0 /\ s \notin d.dropped
              /\ \A b \in Addr : d.kind[b] = "attr" /\ s \in d.links[b] => b = a
  <2>1. a \notin F /\ st.kind[a] = "attr" /\ s \in st.links[a]
    BY <1>4, <1>10
  <2>2. /\ s \in Addr /\ st.kind[s] = "string" /\ st.nref[s] = 0 /\ s \notin st.dropped
        /\ \A b \in Addr : st.kind[b] = "attr" /\ s \in st.links[b] => b = a
    BY <2>1 DEF OwnTexts
  <2>3. s \notin F
    BY <1>2, <2>2
  <2>4. s \notin S
    <3> SUFFICES ASSUME s \in S PROVE FALSE
      OBVIOUS
    <3>1. PICK c \in F : st.kind[c] = "attr" /\ s \in st.links[c]
      BY <1>3
    <3> QED BY <1>1, <2>1, <2>2, <3>1
  <2>5. d.kind[s] = "string" /\ d.nref[s] = 0 /\ s \notin d.dropped
    BY <1>4, <1>5, <2>2, <2>3, <2>4
  <2>6. \A b \in Addr : d.kind[b] = "attr" /\ s \in d.links[b]
                          => st.kind[b] = "attr" /\ s \in st.links[b]
    BY <1>4
  <2> QED BY <2>2, <2>5, <2>6
<1>11. ASSUME NEW o \in d.dropped
       PROVE  d.kind[o] \in ListKind \cup {"string"} /\ d.nref[o] = 0
  <2>1. /\ o \in Addr /\ o \in st.dropped
        /\ st.kind[o] \in ListKind \cup {"string"} /\ st.nref[o] = 0
    BY <1>1, <1>4, <1>11 DEF OwnTexts, Heap
  <2>2. o \notin F /\ o \notin S
    BY <1>2, <1>3, <2>1
  <2> QED BY <1>4, <1>5, <2>1, <2>2
<1>12. OwnTexts(d)
  BY <1>10, <1>11 DEF OwnTexts
<1> QED BY <1>1, <1>6, <1>7, <1>8, <1>9, <1>12 DEF F, S, d

\* The value a careful program stores survives the destruction of the old one.
LEMMA StoredSurvives ==
  ASSUME NEW st, Good(st, env), SlotsTyped(st), NEW x \in Slot, NEW p \in Pointer,
         Care(x, p, st) = {}, NEW skip
  PROVE  p \notin Freed(st, env[x], skip)
<1> DEFINE F == Freed(st, env[x], skip)
<1>1. F \subseteq Addr /\ env[x] \in Pointer
  BY FreedUnowned DEF Good
<1>2. p # NULL => ~(p = env[x] /\ st.nref[p] = 1) /\ st.kind[p] = SlotKind[x]
  BY DEF Care
<1> SUFFICES ASSUME p \in F PROVE FALSE
  OBVIOUS
<1>3. p \in Addr /\ p # NULL /\ st.nref[p] = 1 /\ p # env[x]
  BY <1>1, <1>2, StoreAssumption DEF Freed, LastRef
<1>4. ASSUME NEW o \in F PROVE o = env[x] \/ \E c \in F : o \in st.holds[c]
  <2>1. o \in Released(st.nref, st.holds, env[x], skip)
    BY DEF Freed, LastRef
  <2> HIDE DEF F
  <2> QED BY <1>1, <2>1, FreedChain DEF F
<1>5. PICK c \in F : p \in st.holds[c]
  BY <1>3, <1>4
<1>6. env[x] # NULL /\ st.kind[env[x]] = st.kind[p]
  <2>1. p \in Released(st.nref, st.holds, env[x], skip)
    BY DEF Freed, LastRef
  <2> QED BY <1>2, <1>3, <2>1 DEF SlotsTyped, Released
<1>7. c = env[x] \/ \E n \in F : c \in st.holds[n]
  BY <1>4
<1>8. c # env[x]
  BY <1>1, <1>5, <1>6, Layers DEF Good, Element
<1>9. PICK n \in F : c \in st.holds[n]
  BY <1>7, <1>8
<1>10. n # env[x]
  BY <1>1, <1>5, <1>6, <1>9, Layers DEF Good, Element
<1>11. PICK b \in F : n \in st.holds[b]
  BY <1>4, <1>10
<1> QED BY <1>1, <1>5, <1>9, <1>11, Layers DEF Good, Element

LEMMA AssignsCareful ==
  ASSUME IInv, CInv, Running, NEW x \in Slot, Assigns(x)
  PROVE  CInv'
<1>0. TypeOK
  BY DEF IInv
<1>1. PICK p \in Pointer, st \in Heap : AssignsTo(x, p, st)
  BY DEF Assigns
<1>2. SUFFICES ASSUME careless' = {} PROVE pc' # "undefined" /\ NoDanglingSlot' /\ OwnTexts(Store)'
  BY DEF CInv
<1>3. Good(st, env) /\ SlotsTyped(st) /\ OwnTexts(st) /\ ~Uncounted(st, p)
  BY <1>1, <1>2 DEF AssignsTo
<1>4. Care(x, p, st) = {} /\ (p # NULL => st.kind[p] = SlotKind[x])
  BY <1>1, <1>2 DEF AssignsTo, Assign, Care
<1>5. PICK skip \in SUBSET Addr :
        \/ Corrupts(x, st, skip)
        \/ /\ LET d == Destroy(st, env[x], skip)
              IN  Become([d EXCEPT !.nref = GC_Ref(d.nref, p)])
           /\ env' = [env EXCEPT ![x] = p]
           /\ UNCHANGED <<depth, pc>>
  BY <1>1 DEF AssignsTo, Assign
<1> DEFINE F == Freed(st, env[x], skip)
           S == Strings(st, F)
           d == Destroy(st, env[x], skip)
<1>6. /\ ~Corrupts(x, st, skip) /\ OwnTexts(d) /\ F \subseteq Addr /\ S \subseteq Strings(st, Addr)
      /\ \A y \in Slot : y # x => env[y] \notin F /\ env[y] \notin S
      /\ \A a \in Addr : st.kind[a] = "attr" => a \notin S
  BY <1>3, DestroyCareful
<1>7. p \notin F /\ p \notin S
  BY <1>3, <1>4, <1>6, StoredSurvives DEF Uncounted
<1>8. /\ \A o \in Addr : /\ d.kind[o] = IF o \in F \/ o \in S THEN "free" ELSE st.kind[o]
                         /\ d.links[o] = IF o \in F \/ o \in S THEN {} ELSE st.links[o]
      /\ d.dropped = st.dropped
  BY <1>1, DestroyInHeap
<1>9. /\ kind' = d.kind /\ links' = d.links /\ dropped' = d.dropped
      /\ nref' = GC_Ref(d.nref, p)
      /\ env' = [env EXCEPT ![x] = p] /\ pc' = pc
  BY <1>5, <1>6 DEF Become
<1>10. d.nref \in [Pointer -> Nat]
  <2>1. Good(d, [env EXCEPT ![x] = NULL])
    BY <1>3, <1>6, DestroyKeeps DEF Corrupts
  <2> QED BY <2>1 DEF Good, Heap
<1> HIDE DEF F, S, d
<1>11. NoDanglingSlot'
  <2> SUFFICES ASSUME NEW y \in Slot, env'[y] # NULL PROVE kind'[env'[y]] = SlotKind[y]
    BY DEF NoDanglingSlot
  <2>1. CASE y = x
    BY <1>0, <1>4, <1>7, <1>8, <1>9, <2>1 DEF TypeOK, Pointer
  <2>2. CASE y # x
    BY <1>0, <1>3, <1>6, <1>8, <1>9, <2>2 DEF TypeOK, Pointer, SlotsTyped
  <2> QED BY <2>1, <2>2
<1>12. \A o \in Addr : o # p => nref'[o] = d.nref[o]
  BY <1>9, <1>10 DEF GC_Ref, Pointer
<1>13. ASSUME NEW a \in Addr, d.kind[a] = "attr" PROVE p \notin d.links[a]
  BY <1>3, <1>8, <1>13 DEF Uncounted, Strings
<1>14. p \notin d.dropped
  BY <1>3, <1>8 DEF Uncounted
<1>15. d.dropped \subseteq Addr
  BY <1>8 DEF Heap
<1>16. OwnTexts(Store)'
  <2>1. ASSUME NEW a \in Addr, d.kind[a] = "attr", NEW s \in d.links[a]
        PROVE  /\ s \in Addr /\ d.kind[s] = "string" /\ nref'[s] = 0 /\ s \notin d.dropped
               /\ \A b \in Addr : d.kind[b] = "attr" /\ s \in d.links[b] => b = a
    BY <1>6, <1>12, <1>13, <2>1 DEF OwnTexts
  <2>2. ASSUME NEW o \in d.dropped
        PROVE  d.kind[o] \in ListKind \cup {"string"} /\ nref'[o] = 0
    BY <1>6, <1>12, <1>14, <1>15 DEF OwnTexts
  <2> QED BY <1>9, <2>1, <2>2 DEF OwnTexts, Store
<1> QED BY <1>9, <1>11, <1>16 DEF Running

LEMMA ReleaseCareful ==
  ASSUME IInv, CInv, NEW x \in Slot, Release(x)
  PROVE  CInv'
<1>1. TypeOK /\ Good(Store, env) /\ careless' = careless
  BY IInvIsGood DEF Release
<1>2. SUFFICES ASSUME careless = {} PROVE pc' # "undefined" /\ NoDanglingSlot' /\ OwnTexts(Store)'
  BY <1>1 DEF CInv
<1>3. NoDanglingSlot /\ SlotsTyped(Store) /\ OwnTexts(Store) /\ pc # "undefined"
  BY <1>2, StoreFields DEF CInv, NoDanglingSlot, SlotsTyped
<1>4. PICK skip \in SUBSET Addr :
        \/ Corrupts(x, Store, skip)
        \/ /\ Become(Destroy(Store, env[x], skip))
           /\ env' = [env EXCEPT ![x] = NULL]
           /\ UNCHANGED <<depth, pc>>
  BY DEF Release
<1> DEFINE F == Freed(Store, env[x], skip)
           S == Strings(Store, F)
           d == Destroy(Store, env[x], skip)
<1>5. /\ ~Corrupts(x, Store, skip) /\ OwnTexts(d)
      /\ \A y \in Slot : y # x => env[y] \notin F /\ env[y] \notin S
  BY <1>1, <1>3, DestroyCareful
<1>6. \A o \in Addr : d.kind[o] = IF o \in F \/ o \in S THEN "free" ELSE kind[o]
  BY <1>1, DestroyInHeap, StoreFields DEF Good
<1>7. /\ kind' = d.kind /\ links' = d.links /\ dropped' = d.dropped /\ nref' = d.nref
      /\ env' = [env EXCEPT ![x] = NULL] /\ pc' = pc
  BY <1>4, <1>5 DEF Become
<1> HIDE DEF F, S, d
<1>8. NoDanglingSlot'
  BY <1>1, <1>3, <1>5, <1>6, <1>7 DEF TypeOK, Pointer, NoDanglingSlot
<1>9. OwnTexts(Store)'
  BY <1>5, <1>7 DEF OwnTexts, Store
<1> QED BY <1>3, <1>7, <1>8, <1>9

LEMMA MovesCareful == ASSUME IInv, CInv, Moves PROVE CInv'
<1>1. SUFFICES ASSUME careless' = {} PROVE pc' # "undefined" /\ NoDanglingSlot' /\ OwnTexts(Store)'
  BY DEF CInv
<1>2. PICK st \in Heap : Sane(st) /\ Become(st)
  BY DEF Moves
<1>3. careless = {} /\ UNCHANGED <<env, pc>>
  BY <1>1 DEF Moves
<1>4. SlotsTyped(st) /\ OwnTexts(st) /\ pc # "undefined"
  BY <1>2, <1>3 DEF Sane, CInv
<1>5. NoDanglingSlot'
  BY <1>2, <1>3, <1>4 DEF NoDanglingSlot, SlotsTyped, Become
<1>6. OwnTexts(Store)'
  BY <1>2, <1>4 DEF OwnTexts, Store, Become
<1> QED BY <1>3, <1>4, <1>5, <1>6

\* Steps that leave the heap as it is.
LEMMA ControlCareful ==
  ASSUME CInv, UNCHANGED <<kind, nref, links, dropped, env, careless>>, pc' # "undefined"
  PROVE  CInv'
<1>1. NoDanglingSlot => NoDanglingSlot'
  BY DEF NoDanglingSlot
<1>2. OwnTexts(Store) => OwnTexts(Store)'
  BY DEF OwnTexts, Store
<1> QED BY <1>1, <1>2 DEF CInv

LEMMA StepCInv == ASSUME IInv, CInv, [Next]_vars PROVE CInv'
<1>1. CASE \E x \in Slot : Running /\ Live(x) /\ Assigns(x)
  BY <1>1, AssignsCareful
<1>2. CASE Moves
  BY <1>2, MovesCareful
<1>3. CASE Fails
  BY <1>3 DEF Fails, CInv
<1>4. ASSUME NEW x \in Slot, UseStale(x) PROVE CInv'
  BY <1>4 DEF UseStale, Sound, Whole, CInv, NoDanglingSlot, Stop
<1>5. CASE Die
  BY <1>5, ControlCareful DEF Die, Stop
<1>6. ASSUME NEW x \in Slot, Release(x) PROVE CInv'
  BY <1>6, ReleaseCareful
<1>7. CASE EnterScope
  <2>1. \A x \in Slot : SlotScope[x] = depth + 1 => env[x] = NULL
    BY <1>7, StoreAssumption DEF IInv, DeadSlotsNull, Live, TypeOK
  <2>2. env' = env
    BY <1>7, <2>1 DEF EnterScope, IInv, TypeOK
  <2>3. careless # {} \/ pc # "undefined"
    BY DEF CInv
  <2> QED BY <1>7, <2>2, <2>3, ControlCareful DEF EnterScope, CInv
<1>8. CASE LeaveScope \/ EndScope
  BY <1>8, ControlCareful DEF LeaveScope, EndScope
<1>9. CASE UNCHANGED vars
  BY <1>9, ControlCareful DEF vars, CInv
<1>12. ASSUME NEW x \in Slot, FreeSlot(x) PROVE Release(x)
  BY <1>12 DEF FreeSlot
<1> QED BY <1>1, <1>2, <1>3, <1>4, <1>5, <1>6, <1>7, <1>8, <1>9, <1>12,
           StatementCases DEF Next, ScopeExit

LEMMA InitCInv == ASSUME Init PROVE CInv
BY StoreAssumption DEF Init, CInv, NoDanglingSlot, OwnTexts, Store

\* A careful program never owns a dangling pointer and never reaches the
\* runtime's undefined behaviour.
THEOREM CarefulIsDefined == Spec => [](OwnedAlive /\ DefinedIfCareful)
<1>1. Init => CInv
  BY InitCInv
<1>2. IInv /\ CInv /\ [Next]_vars => CInv'
  BY StepCInv
<1>3. IInv /\ CInv => OwnedAlive /\ DefinedIfCareful
  BY DEF IInv, CInv, OwnedAlive, DefinedIfCareful
<1> QED BY <1>1, <1>2, <1>3, Invariance, PTL DEF Spec

\* Of all its statements, only the five carelessnesses bring a program to the
\* runtime's undefined behaviour: a destructor run on a freed block, a pipe
\* through one, the string of an attribute read after it is freed
\* (Derivedtype.c:111, 898, 1369, 1553).
THEOREM CarefulNeverUndefined == Spec => []DefinedIfCareful
BY CarefulIsDefined, PTL

-----------------------------------------------------------------------------
(* What a careful program leaves allocated, when GC_Deref reads its count  *)
(* reliably.                                                               *)

LInv == careless = {} /\ ~FreedCountReadsPositive => Kept(Store)

\* A destructor that never stops early frees what it releases last.
LEMMA DestroyFrees ==
  ASSUME NEW st, NEW e, Good(st, e), NEW x \in Slot, NEW skip,
         Skips(st.nref, st.holds, e[x], skip), ~FreedCountReadsPositive,
         NEW o \in Addr, st.nref[o] > 0, o \notin Freed(st, e[x], skip)
  PROVE  Destroy(st, e[x], skip).nref[o] > 0
<1>1. skip = {}
  BY DEF Skips
<1>2. o \in Released(st.nref, st.holds, e[x], skip) => st.nref[o] # 1
  BY <1>1 DEF Freed, LastRef
<1> QED BY <1>2 DEF Destroy, GC_Deref, Good, Heap, Pointer

LEMMA DestroyKept ==
  ASSUME NEW st, Good(st, env), SlotsTyped(st), OwnTexts(st), NEW x \in Slot, NEW skip,
         Skips(st.nref, st.holds, env[x], skip), ~FreedCountReadsPositive,
         NEW p, KeptBut(st, p)
  PROVE  KeptBut(Destroy(st, env[x], skip), p)
<1> DEFINE F == Freed(st, env[x], skip)
           S == Strings(st, F)
           d == Destroy(st, env[x], skip)
<1>1. st \in Heap
  BY DEF Good
<1>2. /\ \A o \in Addr : /\ d.kind[o] = IF o \in F \/ o \in S THEN "free" ELSE st.kind[o]
                         /\ d.links[o] = IF o \in F \/ o \in S THEN {} ELSE st.links[o]
      /\ d.dropped = st.dropped
  BY <1>1, DestroyInHeap
<1>3. \A a \in Addr : st.kind[a] = "attr" => a \notin S
  BY DestroyCareful
<1>4. \A o \in Addr : st.nref[o] > 0 /\ o \notin F => d.nref[o] > 0
  BY DestroyFrees
<1>5. \A a \in F : st.kind[a] = "attr" => \A s \in st.links[a] : s \in S
  BY DEF Strings
<1> HIDE DEF F, S, d
<1>6. ASSUME NEW o \in Addr, d.kind[o] # "free", o # p
      PROVE  d.nref[o] > 0 \/ o \in d.dropped \/ o \in Strings(d, Addr)
  <2>1. o \notin F /\ o \notin S /\ st.kind[o] # "free"
    BY <1>2, <1>6
  <2>2. st.nref[o] > 0 \/ o \in st.dropped \/ o \in Strings(st, Addr)
    BY <1>6, <2>1 DEF KeptBut, Uncounted
  <2>3. CASE o \in Strings(st, Addr)
    <3>1. PICK a \in Addr : st.kind[a] = "attr" /\ o \in st.links[a]
      BY <2>3 DEF Strings
    <3>2. a \notin F /\ a \notin S
      BY <1>3, <1>5, <2>1, <3>1
    <3>3. d.kind[a] = "attr" /\ o \in d.links[a]
      BY <1>2, <3>1, <3>2
    <3> QED BY <3>3 DEF Strings
  <2> QED BY <1>2, <1>4, <2>1, <2>2, <2>3
<1> QED BY <1>6 DEF KeptBut, Uncounted, d

\* A stop, a change of control: the heap is as it was.
LEMMA KeptStays ==
  ASSUME LInv, UNCHANGED <<kind, nref, links, dropped>>, careless \subseteq careless'
  PROVE  LInv'
<1>1. Kept(Store) => Kept(Store)'
  BY DEF Kept, KeptBut, Uncounted, Strings, Store
<1> QED BY <1>1 DEF LInv

LEMMA AssignsLeakFree ==
  ASSUME IInv, CInv, LInv, NEW x \in Slot, Assigns(x)
  PROVE  LInv'
<1>1. PICK p \in Pointer, st \in Heap : AssignsTo(x, p, st)
  BY DEF Assigns
<1>2. SUFFICES ASSUME careless' = {}, ~FreedCountReadsPositive PROVE Kept(Store)'
  BY DEF LInv
<1>3. Good(st, env) /\ SlotsTyped(st) /\ OwnTexts(st)
  BY <1>1, <1>2 DEF AssignsTo
<1>4. careless = {}
  BY <1>1, <1>2 DEF AssignsTo, Assign
<1>5. KeptBut(st, p)
  BY <1>1, <1>2, <1>4 DEF AssignsTo, LInv
<1>6. PICK skip \in SUBSET Addr :
        /\ Skips(st.nref, st.holds, env[x], skip)
        /\ \/ Corrupts(x, st, skip)
           \/ LET d == Destroy(st, env[x], skip)
              IN  Become([d EXCEPT !.nref = GC_Ref(d.nref, p)])
  BY <1>1 DEF AssignsTo, Assign
<1> DEFINE d == Destroy(st, env[x], skip)
<1>7. ~Corrupts(x, st, skip)
  BY <1>3, DestroyCareful
<1>8. KeptBut(d, p)
  BY <1>2, <1>3, <1>5, <1>6, DestroyKept
<1>9. d.nref \in [Pointer -> Nat]
  <2>1. Good(d, [env EXCEPT ![x] = NULL])
    BY <1>3, <1>7, DestroyKeeps DEF Corrupts
  <2> QED BY <2>1 DEF Good, Heap
<1>10. /\ kind' = d.kind /\ links' = d.links /\ dropped' = d.dropped
       /\ nref' = GC_Ref(d.nref, p)
  BY <1>6, <1>7 DEF Become
<1> HIDE DEF d
<1>11. \A o \in Addr : (d.nref[o] > 0 \/ o = p) => nref'[o] > 0
  BY <1>9, <1>10 DEF GC_Ref, Pointer
<1>12. \A o \in Addr : kind'[o] # "free"
          => nref'[o] > 0 \/ o \in dropped' \/ o \in Strings(d, Addr)
  BY <1>8, <1>10, <1>11 DEF KeptBut, Uncounted
<1>13. Strings(d, Addr) = Strings(Store, Addr)'
  BY <1>10 DEF Strings, Store
<1> QED BY <1>12, <1>13 DEF Kept, KeptBut, Uncounted, Store

LEMMA ReleaseLeakFree ==
  ASSUME IInv, CInv, LInv, NEW x \in Slot, Release(x)
  PROVE  LInv'
<1>1. Good(Store, env) /\ careless' = careless
  BY IInvIsGood DEF Release
<1>2. SUFFICES ASSUME careless = {}, ~FreedCountReadsPositive PROVE Kept(Store)'
  BY <1>1 DEF LInv
<1>3. SlotsTyped(Store) /\ OwnTexts(Store) /\ KeptBut(Store, NULL)
  BY <1>2, StoreFields DEF CInv, NoDanglingSlot, SlotsTyped, LInv, Kept
<1>4. PICK skip \in SUBSET Addr :
        /\ Skips(nref, holds, env[x], skip)
        /\ Corrupts(x, Store, skip) \/ Become(Destroy(Store, env[x], skip))
  BY DEF Release
<1> DEFINE d == Destroy(Store, env[x], skip)
<1>5. ~Corrupts(x, Store, skip)
  BY <1>1, <1>3, DestroyCareful
<1>6. KeptBut(d, NULL)
  BY <1>1, <1>2, <1>3, <1>4, DestroyKept, StoreFields
<1>7. kind' = d.kind /\ links' = d.links /\ dropped' = d.dropped /\ nref' = d.nref
  BY <1>4, <1>5 DEF Become
<1> HIDE DEF d
<1>8. KeptBut(Store, NULL)'
  BY <1>6, <1>7 DEF KeptBut, Uncounted, Strings, Store
<1> QED BY <1>8 DEF Kept

LEMMA MovesLeakFree == ASSUME LInv, Moves PROVE LInv'
<1>1. PICK st \in Heap : Sane(st) /\ Become(st)
  BY DEF Moves
<1>2. careless \subseteq careless'
  BY DEF Moves
<1>3. Kept(st) => Kept(Store)'
  BY <1>1 DEF Kept, KeptBut, Uncounted, Strings, Store, Become
<1> QED BY <1>1, <1>2, <1>3 DEF LInv, Sane

LEMMA StepLInv == ASSUME IInv, CInv, LInv, [Next]_vars PROVE LInv'
<1>1. CASE \E x \in Slot : Assigns(x)
  BY <1>1, AssignsLeakFree
<1>2. CASE Moves
  BY <1>2, MovesLeakFree
<1>3. CASE Fails
  BY <1>3 DEF Fails, LInv
<1>4. CASE Die \/ \E x \in Slot : UseStale(x)
  BY <1>4, KeptStays DEF Die, UseStale, Stop
<1>5. ASSUME NEW x \in Slot, Release(x) PROVE LInv'
  BY <1>5, ReleaseLeakFree
<1>6. CASE EnterScope \/ LeaveScope \/ EndScope
  BY <1>6, KeptStays DEF EnterScope, LeaveScope, EndScope
<1>7. CASE UNCHANGED vars
  BY <1>7, KeptStays DEF vars
<1>9. ASSUME NEW x \in Slot, FreeSlot(x) PROVE Release(x)
  BY <1>9 DEF FreeSlot
<1> QED BY <1>1, <1>2, <1>3, <1>4, <1>5, <1>6, <1>7, <1>9, StatementCases DEF Next, ScopeExit

\* A counted object is reachable: through two tables at most.
LEMMA OwnedIsReachable ==
  ASSUME IInv, OwnTexts(Store), Kept(Store), NEW o \in Addr, nref[o] > 0
  PROVE  o \in Reach(Reach(Roots))
<1>1. ASSUME NEW b \in Addr, nref[b] > 0
      PROVE  b \in Roots \/ \E c \in Addr : b \in holds[c] /\ nref[c] > 0
  <2>1. Owners(b) # {}
    BY <1>1, FS_EmptySet DEF IInv, ExactCounts
  <2>2. ASSUME NEW c \in Addr, b \in holds[c] PROVE nref[c] > 0
    <3>1. kind[c] = "graph" \/ kind[c] \in Element
      BY <2>2, Layers, IInvIsGood, StoreFields DEF Good
    <3>2. kind[c] \notin ListKind \cup {"string", "free"}
      BY <3>1 DEF Element, ListKind
    <3>3. ~Uncounted(Store, c)
      BY <3>2, StoreFields DEF OwnTexts, Uncounted, Strings
    <3> QED BY <3>2, <3>3, StoreFields, StoreAssumption DEF Kept, KeptBut
  <2> QED BY <2>1, <2>2, StoreAssumption DEF Owners, Roots
<1>2. CASE o \in Roots
  BY <1>2 DEF Reach
<1>3. CASE \E c \in Addr : o \in holds[c] /\ nref[c] > 0
  <2>1. PICK c \in Addr : o \in holds[c] /\ nref[c] > 0
    BY <1>3
  <2>2. CASE c \in Roots
    BY <2>1, <2>2 DEF Reach
  <2>3. CASE \E d \in Addr : c \in holds[d] /\ nref[d] > 0
    <3>1. PICK d \in Addr : c \in holds[d] /\ nref[d] > 0
      BY <2>3
    <3>2. d \in Roots
      BY <1>1, <2>1, <3>1, Layers, IInvIsGood, StoreFields DEF Good, Element
    <3> QED BY <2>1, <3>1, <3>2 DEF Reach
  <2> QED BY <1>1, <2>1, <2>2, <2>3
<1> QED BY <1>1, <1>2, <1>3

\* What a slot or a table has, and what these have, is allocated and counted.
LEMMA ReachableIsCounted ==
  ASSUME IInv, NoDanglingSlot, NEW o \in Reach(Reach(Roots))
  PROVE  o \in Addr /\ kind[o] # "free" /\ nref[o] > 0
<1>1. ASSUME NEW b \in Roots PROVE b \in Addr /\ kind[b] # "free" /\ nref[b] > 0
  <2>1. PICK x \in Slot : env[x] = b /\ b # NULL
    BY <1>1 DEF Roots
  <2>2. b \in Addr /\ kind[b] = SlotKind[x] /\ x \in Owners(b)
    BY <2>1 DEF NoDanglingSlot, IInv, TypeOK, Pointer, Owners
  <2> QED BY <2>2, OwnedIsCounted, StoreAssumption DEF Kind
<1>2. ASSUME NEW c \in Addr, NEW b \in holds[c]
      PROVE  b \in Addr /\ kind[b] # "free" /\ nref[b] > 0
  <2>1. b \in Addr /\ kind[b] \in Contents(kind[c]) /\ c \in Owners(b)
    BY DEF IInv, TypeOK, TablesTyped, Owners
  <2> QED BY <2>1, OwnedIsCounted DEF Contents, Element
<1>3. \A T : (\A b \in T : b \in Addr /\ kind[b] # "free" /\ nref[b] > 0)
               => \A b \in Reach(T) : b \in Addr /\ kind[b] # "free" /\ nref[b] > 0
  BY <1>2 DEF Reach
<1> QED BY <1>1, <1>3

\* Reference counting frees what tracing would, but for what is made in place: if
\* the count GC_Deref reads is the one it wrote, a careful program's allocated
\* blocks are the ones it can reach, their strings, and every list and literal
\* it has made in place (Derivedtype.c:649, CodeGen.c:1048).
THEOREM NoLeak == Spec => [](~FreedCountReadsPositive => CollectsExactly)
<1>1. Init => LInv
  BY DEF Init, LInv, Kept, KeptBut, Store
<1>2. IInv /\ CInv /\ LInv /\ [Next]_vars => LInv'
  BY StepLInv
<1>3. Init => CInv
  BY InitCInv
<1>4. IInv /\ CInv /\ [Next]_vars => CInv'
  BY StepCInv
<1>5. IInv /\ CInv /\ LInv => (~FreedCountReadsPositive => CollectsExactly)
  <2> DEFINE R == Reach(Reach(Roots))
             S == Strings(Store, R)
  <2>0. SUFFICES ASSUME IInv, CInv, LInv, ~FreedCountReadsPositive, careless = {}
                 PROVE  /\ {a \in Addr : kind[a] # "free"} = R \cup S \cup dropped
                        /\ (R \cup S) \cap dropped = {}
    BY DEF CollectsExactly
  <2>1. NoDanglingSlot /\ OwnTexts(Store) /\ Kept(Store) /\ dropped \subseteq Addr
    BY <2>0 DEF CInv, LInv, IInv, TypeOK
  <2>2. /\ \A a \in Addr : kind[a] = "attr" => \A s \in links[a] :
             s \in Addr /\ kind[s] = "string" /\ nref[s] = 0 /\ s \notin dropped
        /\ \A o \in dropped : kind[o] \in ListKind \cup {"string"} /\ nref[o] = 0
    BY <2>1, StoreFields DEF OwnTexts
  <2>3. \A o \in R : o \in Addr /\ kind[o] # "free" /\ nref[o] > 0
    BY <2>0, <2>1, ReachableIsCounted
  <2>4. \A o \in Addr : nref[o] > 0 => o \in R
    BY <2>0, <2>1, OwnedIsReachable
  <2> HIDE DEF R
  <2>5. \A o \in S : o \in Addr /\ kind[o] = "string" /\ o \notin dropped
    BY <2>2, <2>3, StoreFields DEF Strings
  <2>6. ASSUME NEW o \in Strings(Store, Addr) PROVE o \in S
    <3>1. PICK a \in Addr : kind[a] = "attr" /\ o \in links[a]
      BY <2>6, StoreFields DEF Strings
    <3>2. ~Uncounted(Store, a)
      BY <2>1, <3>1, StoreFields DEF OwnTexts, Uncounted, Strings, ListKind
    <3>3. nref[a] > 0
      BY <2>1, <3>1, <3>2, StoreFields, StoreAssumption DEF Kept, KeptBut
    <3> QED BY <2>4, <3>1, <3>3, StoreFields DEF Strings
  <2>7. ASSUME NEW o \in Addr, kind[o] # "free" PROVE o \in R \cup S \cup dropped
    <3>1. nref[o] > 0 \/ o \in dropped \/ o \in Strings(Store, Addr)
      BY <2>1, <2>7, StoreFields, StoreAssumption DEF Kept, KeptBut, Uncounted
    <3> QED BY <2>4, <2>6, <3>1
  <2>8. \A o \in dropped : kind[o] # "free"
    BY <2>2 DEF ListKind
  <2> HIDE DEF S
  <2>9. \A o \in dropped : o \in Addr /\ o \notin R
    <3>1. nref \in [Pointer -> Nat]
      BY <2>0 DEF IInv, TypeOK
    <3> QED BY <2>1, <2>2, <2>3, <3>1
  <2> QED BY <2>3, <2>5, <2>7, <2>8, <2>9
<1> QED BY <1>1, <1>2, <1>3, <1>4, <1>5, Invariance, PTL DEF Spec
=============================================================================
