# NSBL, verified

A TLA+ development kept beside NSBL, a small language for graphs. `src/src` is
a compiler (`Parser.y`, `SymbolTable*.c`, `CodeGen.c`) that turns an NSBL
program into C, and the runtime (`GC.c`, `Derivedtype.c`, `FileReadWrite.c`)
that C is linked with; `src/mxmldir` is the Mini-XML library through which
graphs reach files. All of it is sequential: there are no threads and no
messages. What is hard to test is *long sequences of legal calls* (who owns an
object after twenty statements, which scope is on top after a syntax error
inside a match inside a literal, which pointers a node keeps after it was moved
ten times), *partial failure* (a file that is wrong in its middle, a read that
is interrupted, a process that ends while it reads) and *what the text of the
generated program means*.

## 1. Inventory

| component | state it keeps | operations | interacts with |
|---|---|---|---|
| GC registry (`GC.c`) | `GCH`: pointer -> entry with `nref` | `GC_Ref`, `GC_Deref`, `init_GC`, `del_GC` | called by every destructor and `assign_operator_*` |
| Derived types (`Derivedtype.c`) | heap objects: strings, attributes, vertices, edges, graphs, lists; the id counters | `new_*`, `destroy_*`, `assign_operator_*`, `list_*`, `g_*`, `edge_*` | GC registry; called by generated code and `readGraph` |
| Attribute operators (`Derivedtype.c`) | the type and value of an attribute | `binary_operator`, `unary_operator`, `cast_operator`, `assign_operator*`, `get_attr_value` | called by generated code |
| Generated code (`CodeGen.c`) | the variables and temporaries of the program | statements, block exit, pipes, matches, `foreach`, loops, functions | runtime; scope ids from the parser |
| Symbol table (`SymbolTable.c`, `SymbolTableUtil.c`) | `s_table` (name and scope id -> entry), `s_stack`, the id counter | `sTableInsert*`, `sTableLookup*`, `sStackPush/Pop/Down` | the parser inserts and looks up; code generation looks up calls |
| Parser (`Parser.y`) | `isDynamicScope`, `isNoTypeCheck`, bison's stack, `ERRNO` | grammar actions, error recovery | symbol table, AST |
| Code generator, context (`CodeGen.c`) | `inLoop`, `LoopBody`, `LoopGotoLabel`, `inFunc`, `FuncBody`, `FuncParaList` | the cases of `codeGen` for loops, jumps, functions | AST, scope ids |
| Code generator, expressions (`CodeGen.c`) | the `code` and `codetmp` strings of each node | the cases of `codeGen` for expressions and conditions | attribute operators, the C compiler |
| Graph files (`FileReadWrite.c`) | the XML tree being read, `startV`/`endV` pointers | `readGraph`, `saveGraph` | Derived types, Mini-XML |
| Mini-XML, trees (`mxml-node.c`, `mxml-search.c`) | five pointers and a count per node | `mxmlNew*`, `mxmlAdd`, `mxmlRemove`, `mxmlDelete`, `mxmlRetain/Release`, walks, `mxmlFindElement` | called by the loader and `readGraph` |
| Mini-XML, loading and saving (`mxml-file.c`) | the loader's `parent`, `first`, `buffer`; a descriptor's buffer | `mxmlLoad*`, `mxmlSAXLoad*`, `mxmlSave*` | trees, callbacks of the client, the operating system |
| Mini-XML, attributes and indices (`mxml-attr.c`, `mxml-index.c`) | the array of an element; the sorted array of an index and its cursor | `mxmlElement*Attr`, `mxmlIndexNew/Find/Enum/Reset` | trees |
| Mini-XML, values, strings, entities | one field each | `mxmlGet*`, `mxmlSet*` | - |
| AST, lexer, I/O, errors, tests, mxmldoc | - | - | not modelled, reasons in section 7 |

Hard behaviours, with their lines, are the `hazards` of `PROJECT.json`. The
largest families:

- **Ownership.** `assign_operator_*` destroys before it registers; lists, edge
  ends and strings inside attributes are bare pointers; `destroy_graph`
  cascades through vertices and edges into attribute tables; `GC_Deref` returns
  a count it reads from freed memory.
- **Scoping.** Function literals are declared after their body; parameters and
  `foreach` variables are declared before the scope they belong to is open or
  outside it; flags stand for a nesting depth; a syntax error drops blocks
  without their `scope_out`.
- **Code generation.** Globals that describe the enclosing loop and function
  are overwritten, not stacked; expressions are glued together as text, with
  the calls that attributes need in front.
- **Files.** `readGraph` renames the ids of a file while they refer to each
  other; the XML loader leaves its loop at a dozen places with a tree half
  built; characters are split over reads; a SAX client frees nodes the loader
  still points to.
- **Pointer surgery.** `mxmlAdd`, `mxmlRemove` and `mxmlDelete` keep five
  pointers per node consistent, with special cases at both ends of a list.

What makes each component correct: the registry counts exactly the owners; no
owner dangles and nothing unreachable stays; names mean what lexical scoping
says; a jump frees exactly the blocks it leaves; a program does what the manual
says its expressions mean; a graph comes back from a file as it went in; trees
are trees; a load that fails leaves nothing behind; a search finds each match once.

## 2. Modules

| module | models | kind |
|---|---|---|
| `ObjectStore` | GC.c, constructors, destructors and assignments of Derivedtype.c, ownership code of CodeGen.c, readGraph's effect on the heap | state machine |
| `ObjectStoreProofs` | type correctness, exact counts, no dangling owner, exact collection | TLAPS |
| `LexicalScope` | what names promise to a programmer | abstract specification |
| `SymbolScope` | SymbolTable.c, SymbolTableUtil.c, the actions of Parser.y, the lookup of a call; refines `LexicalScope` | state machine |
| `SymbolScopeProofs` | its invariants; the refinement | TLAPS |
| `LoopCode` | the loops, functions, literals and jumps of `codeGen`, `getAllScopeIdInside` | state machine |
| `LoopCodeProofs` | the context describes the constructs around the node; which scopes a jump frees | TLAPS |
| `ExpressionCode` | the expressions of `codeGen`, the attribute operators, and the run of the C text against the manual's meaning | state machine |
| `GraphFile` | `saveGraph` and `readGraph`: ids, renaming, tables, restarts | state machine |
| `GraphFileProofs` | type correctness, ids are unique, a graph comes back as it was saved, no edge is lost | TLAPS |
| `OrderedTree` | what Mini-XML's tree promises | abstract specification |
| `XmlTree` | mxml-node.c and mxml-search.c; refines `OrderedTree` | state machine |
| `XmlTreeProofs` | its pointers are sound; the refinement; walks and searches | TLAPS |
| `XmlFile` | `mxml_load_data` and `mxml_write_node`, on the tree of `XmlTree` (EXTENDS) | state machine |
| `XmlFileProofs` | the loader points to nodes there are, leaves nothing behind, keeps nothing that is not retained, and what is unless an element above it goes | TLAPS |
| `XmlStream` | buffers, encodings, partial and interrupted calls of mxml-file.c | state machine |
| `XmlStreamProofs` | the buffers hold what is put into them, saves are whole, texts are read back | TLAPS |
| `XmlIndex` | mxml-attr.c and mxml-index.c | state machine |
| `SequenceFacts` | sequences, intervals, `FlattenSeq`, induction over the numbers as sets, recursive functions that descend: facts the proofs share | TLAPS |
| `MC*` | instances of each state machine | TLC |

### ObjectStore

A behaviour is the run of *some* NSBL program over a fixed set of variables
(`Slot`) of given types (`SlotKind`) and blocks (`SlotScope`): each step is
one more statement the compiler could have emitted, chosen freely. Compiler
temporaries are slots too: in the emitted C they are declared, assigned with
`assign_operator_*` and freed at the end of the block as variables are.

| variable | code |
|---|---|
| `kind[a]` | what the block malloc returned at `a` was made as; `"free"` when it is not allocated |
| `nref[p]` | `GCH`: the count of the entry of `p`, 0 when there is none. `NULL` has an entry too: `assign_operator_*` registers it |
| `holds[a]` | the members of the GHashTables that own a reference: a graph's vertices and edges, a vertex's or edge's attributes |
| `links[a]` | the bare pointers: elements of a list, ends of an edge, edges at a vertex, the string of an attribute |
| `env[x]` | the C variable of `x` |
| `depth`, `pc` | the block being executed; whether it runs statements, frees a block, has ended, died by `die()`, or done something undefined |
| `dropped` | history: the blocks the program has made in place |
| `careless` | history: which of five legal but careless things the program has done |

`Destroy` is `destroy_T` with the whole cascade: it removes the counts, and
frees what went to zero, in one step, because generated code calls it in one
statement and nothing runs in between. The result is a heap (a record), so an
assignment of a fresh object composes `Alloc`, `Destroy` and `GC_Ref` in the
order of the C text. `GC_Deref` hands back `--gce->nref` after `free(gce)`
(GC.c:67): `skip` is the set of objects whose destructor read a positive count
and stopped; it is empty unless `FreedCountReadsPositive`.

Undefined steps (a destructor run on a block that is no longer its type, a pipe
through a freed element) end the behaviour with `pc = "undefined"`; so after
such a step the model claims nothing. The carelessnesses are:
`self_overwrite` (assign a variable the very object only it keeps alive),
`stale_pointer` (take a freed object from a list or an edge), `shared_string`
(an attribute made of a string variable), `null_member` (pipe through NULL),
`self_attribute` (`v.a = v.a` on a string: `assign_operator` frees the string of
the left side before it copies that of the right, Derivedtype.c:1370).

Some expressions make an object where they stand: `g.allV` and `g.allE` as the
list a `foreach`, a pipe, a match, an append or a length takes
(`ListArguments`), and a string literal (`LiteralInPlace`). No slot is given the
object, so nothing registers or frees it. `dropped` names these blocks; the
statements that use them are the same actions as for a list variable, on the
heap the argument leaves. `CollectsExactly` says that a careful program leaks
these blocks, all of them, and no others.

The string of an attribute is a block without a count: the attribute frees it.
`AssignAttribute` is `assign_operator` on strings, `NewText` a temporary with a
string of its own, `WrapString` one on the string of a variable.

### SymbolScope and LexicalScope

A behaviour of `SymbolScope` is the sequence of grammar reductions of some
program, with or without errors, then the resolution of one call when its code
is generated. `table`, `stack` and `nextScope` are `s_table`, `s_stack` and the
counter of `s_table_new_scopeid`; `open` is the part of bison's stack that
matters, the constructs being read; `answer` is the entry the step looked up.
`isNoTypeCheck` always has the value of `isDynamicScope` and is not kept twice.

`LexicalScope` has a stack of frames, one per open block, and six actions:
enter, leave, declare, the two that do both, read. The refinement mapping takes
the frame of block `i` to be the entries of the scope that block opened: the
flat table keyed by ids has to behave as a stack of separate tables, although
closed blocks never leave it.

### LoopCode

A behaviour is the walk of `codeGen` over the tree of some program the parser
accepted: each step enters a construct, leaves it, generates a jump, or meets a
type error. A construct around the node and the scope of its body are named by
their position in `path`, so `getAllScopeIdInside(body, NULL, node)` is the
interval from the body to the node.

| variable | code |
|---|---|
| `path` | the nodes `codeGen` is inside of (its call stack), with the locals of their frames: `oldisFunc`, and `noReturn` as "has one been generated". `looped` is history: a loop inside this node has ended |
| `inLoop`, `LoopBody`, `LoopGotoLabel` | the same globals; the label of a loop is its position |
| `inFunc`, `inFuncLiteral`, `isFunc`, `FuncBody`, `FuncLiteralBody` | the same globals |
| `FuncParaList` | the construct whose parameters the list holds, `NULL`, or `Freed` |
| `code` | the jump generated in this step: whose scopes it frees, its label, the parameters it spares |

Two steps crash the compiler and end the behaviour (`phase = "crashed"`): a
`for` without one of its expressions, whose node is read through NULL
(CodeGen.c:1001), and the second `g_list_free` of a list a literal has freed
(CodeGen.c:1241), which may also go unnoticed.

`foreach` does not set the loop's context. A `break` in a `foreach` inside a
`while` therefore frees the scopes of the `while`'s body, though it leaves only
the C `for` the `foreach` becomes; `JumpFreesNearestLoop` names the nearest
`while` or `for` for that reason, and `JumpLeavesLoop`, which says what a
programmer wants, excludes it.

### ExpressionCode

A behaviour takes one statement (an expression, an `if`, a `while` or a `for`),
compiles it as `codeGen` does and runs the result next to what the manual says
the statement means. `Code` returns, as `codeGen` does, the text of an
expression and the calls put in front of the statement; `Reads` is how the C
compiler groups that text again, for it keeps no parentheses; `Value` runs it.
The operators on attributes are those of Derivedtype.c, with their conversions,
and die where they call `die()`.

`AsWritten` compares the two. It leaves out, in `Careful` and `Problem` and in
the history `odd`, the differences that are known, each at its line:

- dropped parentheses and a cast that binds the first operand only
  (Parser.y:531, CodeGen.c:222); these are the `parentheses` run;
- strings of the static types are compared as pointers; a float operand next to
  a boolean is written as it is (CodeGen.c:444);
- the calls of a comma's operands run in the wrong order (CodeGen.c:105);
- a `while` or `for` whose condition is static drops the calls its condition
  needs (CodeGen.c:955, 1009), and a `for` that mixes both kinds does so partly;
- `==` of attributes of different types, or of one without a value, is false
  and so is `!=` (Derivedtype.c:1260); an int assigned to a float attribute
  converts the float's own int field (1379); a string attribute is lost when it
  is read into a variable (1334), and freed before it is copied when it is
  assigned to itself (1370).

So `AsWritten` says that nothing *else* goes wrong: it cannot catch the listed
differences. Section 4 says which of them the manual speaks of; the
`parentheses` run shows the first.

A division, a unary plus, the relations other than `<` and an `else` are the
same cases of the code again and are not instantiated.

### GraphFile

A behaviour is a series of processes that share one file. A program makes
vertices and edges, appends them, saves a graph and reads it back. `Restart`
ends the process *at any step*, in the middle of a read too: its memory and its
counters go, the file stays. Nobody else looks at the file while it is written,
so `SaveGraph` is one step for a process that lives to its end, and `CutShort`
is the save a process does not survive: `fopen` has emptied the file, and what
is in it is no file to `readGraph`, or an empty graph. `readGraph` takes one step per turn of its loops:
rename the vertices (with the ends of the edges that name them), rename the
edges, take the signs away, load vertices, load edges. `tree`, `pos`, `sv` and
`ev` are its tree, the node its loop is at and its two vertex pointers. That a
loop, which goes on from the first child of the element it has just met, comes
to the next element and stops after the last is not a matter of this module,
where it counts elements: it is `FindsNext` of `XmlTree`, about a search from any
node, and no `vertex` or `edge` lies within another. The edge
table of a graph hashes the address of an int id as a string (`StrKey`):
`EdgesKept` holds only while ids fit in one byte, and `Byte` makes that bound
small.

### XmlTree and OrderedTree

A behaviour is a series of calls of some client. `link` are the five pointers
of each node; `Unlink` and `Between` are the pointer assignments of
`mxmlRemove` and `mxmlAdd`, whose branches `Added` keeps, including that the
node's own pointer at an end of a list is not assigned. `mxmlDelete` calls
itself: `deleting` is its call stack, and each call and each `free` is a step.
A client does not put a node under itself, nor next to itself: `mxmlAdd` does
not look, and the code's loops would not end.

`OrderedTree` has, for every node, the sequence of its children. The refinement
mapping reads that sequence from the pointers of nodes that are not being
deleted: a deletion, whatever its number of steps, is one step there.

### XmlFile

Each step reads one more piece of a file: a tag with its attributes, a run of
characters, a space, a comment, a broken entity, or the end. The file is thus
every sequence of pieces, well-formed or not, and `loader` are the local
variables of `mxml_load_data`. `setting` is the caller's: a node to load under
(or none), what its type callback answers, and whether there is a SAX callback,
which may retain any node it is shown, and `loader.retained` are the nodes it
has retained as long as they exist: a block that was freed may become another
node. An element that is retained only when it closes might as well have been
retained when it opened, since nothing looks at its count in between. `Saved` is what `mxml_write_node` makes
of the tree.

What the properties had to leave out is a list of what the loader does:
a load under a node that itself has a parent always fails (mxml-file.c:2077);
a root element left open is accepted; text after the last tag is lost; a value
that is no number ends the loop as if the file ended there (1530), values
outside the root become roots of their own; a comment before the root makes the
root a "second root"; a root whose attributes cannot be read is leaked (1993);
the message about a second root reads a text node as an element (1975); a
retained child goes with a parent that was not retained (mxml-node.c:222,
against the comment at mxml-file.c:453; `RetainedStay` makes this exception and
says that nothing else makes a retained node go before an error).
`NothingElseKept` is the other half: what the callback has not retained is gone.

### XmlStream

The text is a sequence of characters by number, the file a sequence of bytes.
`Write(k)` and `Read(k)` move as many bytes as the system likes; `Interrupted`
is EINTR in a read; `WriteFails` and `ReadFails` are errors that end the call.
`spaces` are the bytes of the text that a whitespace callback has put before an
opening tag, after it or before a closing one: an error there is ignored
(mxml-file.c:2753, 2834, 2849), and `WriteFailsInSpace` is what follows from it.
The rest of the whitespace string is dropped (`Skipped`), `mxml_fd_write` has not
moved `current`, so the next character writes the whole buffer again, and the
save may end in success (`"saved"`, with `ignored`). `SavedWhole` is about saves
that ignore no error; after one the file need not be the text, and
`NothingElseLost` says that no more than whitespace is missing from it. Such a
file is not loaded in the model. `Getc` takes a byte
and is one of `mxml_fd_getc`, `mxml_file_getc` and `mxml_string_getc`, with the
switch to UTF-16 a byte order mark causes; a whole character is given to
`mxml_add_char`, which grows the string buffer. `Unreadable` names the
characters that no loader gets past: the control characters, the last low
surrogate (mxml-file.c:940, 1235, 2553) and, in a big-endian string, any
character below 256 (2393). A write that is interrupted is not retried, unlike
a read (1108).

### XmlIndex

Elements are numbered in document order. `mxmlIndexNew` collects and sorts them
(`index_sort`, translated with its partition), `mxmlIndexFind` is the binary
search with the walk back to the first match, and later calls walk on from the
cursor. A client may set or delete an attribute or rename an element at any
time: the index reads names and values again at each search. A search crashes
when an indexed attribute is gone (`strcmp(NULL)`, mxml-index.c:567). Searching
by value alone misses matches where several names come before the value in the
order: `Ordered` excludes that.

## 3. Runs

| run | instance | checks | shows |
|---|---|---|---|
| `graph` | 2 vertices, graph, attribute; 4 blocks of heap; 2 nested blocks | `TypeOK` `ExactCounts` `OwnedAlive` `DefinedIfCareful` `CollectsExactly` | counts are exact, and counting frees exactly what tracing would, but for what is made in place |
| `lists` | vertex, edge, a list of each, graph; 3 blocks of heap; the freed count may read positive | `DefinedIfCareful` | bare pointers break a program only in the careless ways |
| `text` | vertex, string, two temporary attributes; 5 blocks of heap | `DefinedIfCareful` | the same for the strings of attributes, assigned, shared and freed |
| `nesting` | 2 names, 3 scopes | `TypeOK` `ScopesMatchBlocks` `AttributesGuarded` `ImplementsLexicalScope` | names mean what `LexicalScope` says, until the program is rejected |
| `jumps` | nesting 4 deep | `TypeOK` `JumpFreesNearestLoop` `JumpLeavesLoop` `ReturnLeavesFunction` | the jumps of a simple loop, and all returns, free exactly what they leave |
| `values` | statements of up to two operators, if, while, for; 12 stores | `AsWritten` `TypesStay` | outside the known differences the C text does what the manual says |
| `parentheses` | `(i + 2) + 2` and `(i + 2) * 2` | `ParenthesesKept` (violated) | the compiler drops the parentheses of the second |
| `trips` | 2 vertices, 2 edges, 1 save, 3 graphs; bytes of 5 values | `TypeOK` `IdsUnique` `RoundTrip` `EdgesKept` | a graph comes back, in this process or a later one, with ids of its own |
| `forest` | 5 nodes, one of which the client moves, retains, releases, deletes | `TypeOK` `LinksSound` `ImplementsOrderedTree` `DeletionEnds` `WalkMeetsAll` `FindsNext` | the pointers implement ordered trees; walks and searches follow document order |
| `documents` | files of 5 pieces, 7 nodes | `FileTypeOK` `LoadedAsRead` `NothingElseLeft` `NothingElseKept` `RetainedStay` | well-formed files are loaded and saved as they were; a load without a top that fails leaves nothing but the listed nodes; a SAX load keeps what is retained, unless an element above goes, and nothing else |
| `characters` | texts of 3 characters out of 10, a buffer of 3 bytes | `TypeOK` `Fits` `SavedWhole` `NothingElseLost` `ReadsBack` `Ends` | no byte is lost however calls are split, unless an error in whitespace is ignored, and then only whitespace; every call returns |
| `index` | 5 elements, 2 names, 2 attributes, 96 documents, 1 change | `FindsEach` `AnswersMatch` | a search finds each match once |

**Bounds and why they are enough.** `Addr` has one block more than a
statement of the instance needs live at once, so that reuse of a freed block
happens. `MaxNullRefs` is 1 in `lists` and 0 elsewhere: the count of NULL is written and
never read, one registration shows everything. `MaxDropped` bounds the blocks
made in place: two in `lists`, one in `graph`, where exactly these must leak,
none in `text`, where they would only take room. `MaxCareless` bounds how many
*kinds* of carelessness precede the last statement: `graph` and `text` go on
after one, to see that the counts stay exact; `lists` uses 0, because bare
pointers multiply its states and it checks what a careful program meets. `MaxScope = 2` gives the program, a block inside it and a block inside
or after that one: nesting, siblings and shadowing; two names are a declaration
and another that must not be confused with it; `Called = {f}` limits the one
call a behaviour follows. `MaxDepth = 4` is a loop in a loop in a literal in a
function, or any two with a block between: what an overwritten global can get
wrong needs two constructs of one kind and one between. Statements of two
operators show every pair that the C compiler can regroup and every pair of
types; `MaxTurns = 3` is one turn more than the loops need. Two vertices and
two edges are a renaming that could be mistaken for another, and two edges with
different ends; a third graph is a second read, of a file of this process or an
earlier one; `Byte = 5` makes ids reach two bytes. Five nodes are a parent
with three children, so that a node has both siblings, under another one. Five
pieces hold two nested elements with something between them, or one with a
wrong close tag; 7 nodes are more than 5 pieces make. `Boundaries` are the first
and last characters of every length in UTF-8 and of a surrogate pair; a buffer
of 3 bytes splits those of 4. Five elements reach both halves of the sort's
partition and of the search. Addresses of the heap are symmetric and no
property tells them apart.

**Deadlock.** A program ends, a parse ends, a load ends, an undefined step ends
the behaviour: the configurations that can stop say `CHECK_DEADLOCK FALSE`.

**Fairness.** All of it is sequential code: once called, a function goes on
until it returns. `XmlTree` assumes weak fairness of `Deletion` (the steps of
`mxmlDelete`), `XmlStream` of the steps of a save and of a load. Nothing is assumed of clients: a program may
never call again. A read may be interrupted, but not for ever (`MaxInterrupts`);
errors need not happen. Nothing of the compiler or of a running NSBL program is
fair: the input may end at any token, and a `while` may run for ever.

## 4. Findings

The `parentheses` run states what the manual says of a parenthesized expression
(langSpec.tex:188), and TLC refutes it. The other disagreements met while
modelling are not runs; the models contain them, and the properties name them
where they had to be left out:

- `b && v.m` ends the program when `v.m` is missing or no boolean, also when `b`
  is false: both operands go to a call (CodeGen.c:333), and langSpec.tex:323
  says that the second is evaluated only when the first is true.
- In `b = false, v.m = b` the attribute gets the old value of `b`: the calls
  run before the text they stand in (CodeGen.c:107), and langSpec.tex:370 says
  that a comma's operands are evaluated from left to right.
- `while (b = v.m)` tests `b` and never assigns it (CodeGen.c:955); langSpec.tex:547
  says that the test, with its side effects, occurs before each turn.
- `mxmlSaveFd` may return 0, which its comment calls success (mxml-file.c:305),
  though a write has failed in the whitespace of a callback (2753, 2834, 2849):
  the whitespace is lost, and what was in the buffer is written twice.
- A node that a SAX callback retains is freed with an element above it that it
  did not retain (mxml-node.c:222); the comment at mxml-file.c:453 asks only that
  nodes needed later be retained.
- `s = s` frees the string `s` goes on pointing to (Derivedtype.c:1553); a
  string variable used as a dynamic operand is freed with the temporary
  (CodeGen.c:1607); `v.a = v.a` on a string reads the string it has just freed
  (Derivedtype.c:1370). All three are `careless` in `ObjectStore`, and the last
  is one of the known differences of `ExpressionCode`.
- `foreach (vertex v : g.allV)`, a pipe, match, append or length on `g.allV` or
  `g.allE` (Derivedtype.c:649), and a string literal in a comparison
  (ASTree.c:61), leave a block that is never freed: `dropped` in `ObjectStore`.
- A variable assigned NULL leaves a registry entry, and `del_GC` warns
  (Derivedtype.c:1564).
- The variable of a `foreach` is visible after the loop, against the manual
  (Parser.y:309); a literal declared inside a function cannot be called
  (SymbolTableUtil.c:165).
- After an inner loop, a `break` of the outer one frees nothing and a
  `continue` has no label (CodeGen.c:949); a literal in a function makes the
  function's `return` free its parameters (CodeGen.c:1282).
- A graph with more edges than ids of one byte may lose one
  (Derivedtype.c:77); an edge whose ends are not in its graph comes back with
  the ends of another (FileReadWrite.c:686).
- The lists under ExpressionCode, XmlFile, XmlStream and XmlIndex in section 2.

## 5. Proofs

`ObjectStoreProofs` proves, for every heap, every set of variables, types and
blocks that satisfies `StoreAssumption`:

- `TypeCorrect`: `Spec => []TypeOK`
- `CountsExact`: `Spec => []ExactCounts`
- `CarefulIsDefined`: `Spec => []OwnedAlive`; `CarefulNeverUndefined`: `Spec => []DefinedIfCareful`
- `NoLeak`: if `~FreedCountReadsPositive`, `Spec => []CollectsExactly`: what is
  allocated is what the slots reach, its strings, and what was made in place

`ExactCounts` is not inductive: a destructor's cascade decrements each object
once, whoever holds it, and that is the number of owners that go away only if no two
tables of the objects it frees hold the same attribute and no table holds the
object that owns it. The strengthening `IInv` therefore adds `TablesTyped` (a
graph holds vertices and edges, these hold attributes, nothing else holds
anything: the cascade is two levels deep), `TablesDisjoint` (an attribute is in
one table) and `DeadSlotsNull` (a variable of a block that is not entered is
NULL, so entering needs no release). The step proof has one case per action;
most reduce to three lemmas: what a registered pointer does to the owners, what
`Destroy` does, what an allocation does. Every statement is shown once to be of
one of three kinds (`Assigns`, `Moves`, `Fails`), and these kinds say all that the
other two invariants need. `CInv` is what a careful program is at every step:
its slots do not dangle, and (`OwnTexts`) no two attributes have one string, no
slot has the string of an attribute, and nothing made in place is registered:
so no destructor frees a string twice, and `assign_operator` between distinct
attributes reads a string that is there. `LInv` says (`Kept`) that an allocated
block is counted, made in place or the string of an attribute.

`LoopCodeProofs` proves, for programs nested to any depth (`LoopAssumption`):

- `TypeCorrect`: `Spec => []TypeOK`
- `JumpsNearest`: `Spec => []JumpFreesNearestLoop`
- `SimpleJumpsExact`: `Spec => []JumpLeavesLoop`
- `ReturnsExact`: `Spec => []ReturnLeavesFunction`

What a jump frees follows from the context, so the invariant `IInv` says what
the context is: `LoopContext`, that `inLoop` counts the loops around the node
and that `LoopBody` is the nearest of them, or is NULL when each of them has
had a loop end inside it (`looped`); and `FunctionContext`, that the function
globals describe the function at the bottom of the path and the one literal
that may be on it, and that the `oldisFunc` a literal keeps is that of the
function around it. Entering and leaving a construct each disturb one of the
two.

`SymbolScopeProofs` proves, for any names, any number of scopes and any nesting (`ScopeAssumption`):

- `TypeCorrect`: `Spec => []TypeOK`
- `StackIsOpenBlocks`: `Spec => []ScopesMatchBlocks`
- `AttributesInside`: `Spec => []AttributesGuarded`
- `Refinement`: `Spec => Lexical!Spec`

`TypeOK` is not inductive: a syntax error leaves scopes on the stack, and one
has to know that it never leaves too few, or a `scope_out` would pop the last.
`IInv` adds `StackCovers` (one scope for each open construct, and the
program's) and `LiteralsNamed` (the name that is declared when a literal ends
is a name). The refinement adds to it, while there is no error, that ids only
grow: those in the table and on the stack are below `nextScope`, and those on
the stack increase. Then a closed block's entries cannot be reached again, a
new scope has none, and the frames that the ids on the stack select from the
table change exactly as a stack of frames does. Each action of `SymbolScope` is
shown to be one step of `LexicalScope`; once the program is rejected, every
step is its `Reject`, or changes nothing it sees.

`XmlTreeProofs` proves, for any set of nodes (`XmlTreeAssumption`):

- `TreeTypeCorrect`: `TreeSpec => []TypeOK`
- `PointersSound`: `TreeSpec => []LinksSound`
- `TreeShape`: `TreeSpec => []RInv`
- `TreeImplementsForest`: `TreeSpec => ImplementsOrderedTree`
- `WalksMeetTheSubtree`: `TreeSpec => []WalkMeetsAll`
- `SearchesFindTheNext`: `TreeSpec => []FindsNext`

The pointers of a node agree with those of its neighbours, but that alone is
not inductive: when a node is freed because it has no first child, nobody may
have it for a parent, and a ring of siblings that know only each other would.
`IInv` therefore adds `Acyclic`: the nodes have positions that increase along
every list of siblings. Among the nodes with one parent the lowest is then
first, so the parent has a first child (`NoOrphans`). A node that is put
between two others gets the position after the left one, and the positions
beyond it move up (`LinkedOrdered`). `Apart` says that the nodes `mxmlDelete` is
busy with are cut off and different, `Counted` that every other node has an
owner. `Unlink` and `Between` are characterized field by field and once; all
calls reduce to them (`RemovedSound`, `AddedSound`).

The refinement mapping reads the forest off the pointers with recursive
functions (`Children`, `Ancestors`, `Under`), so the proof first needs what they
compute. The invariant `RInv` adds to `IInv` that the pointers are `Shaped`:
a block that is no node points nowhere (`Blank`); there are sequences `k` that
list every node once, under its parent, and `prev`, `next`, `child` and
`last_child` are the neighbours and the ends in them (`Lists`); and nodes have
levels, lower than their parents' and bounded (`Levels`), so that a walk up and
a walk down both end. Under it `Children(n)` is `k[n]` (`ChildrenAre`),
`Ancestors(n)` the least set that holds `n` and is closed under parents
(`AncestorsAre`, `Above`) and `Under` what it says (`UnderIs`). Pointer surgery
is then surgery on sequences: `UnlinkedListed` and `LinkedListed` say what the
assignments of `mxmlRemove` and `mxmlAdd` take out and put in, and `AddedBetween`
that the branches of `mxmlAdd` are the four places of `OrderedTree`. A node that
is not put under itself keeps the levels (`LevelsAfterGraft`): the assumption
about clients is what makes the forest a forest. `Abs` is the forest of the
nodes that are not being deleted. The first step of a deletion detaches its
subtree, which is one step of `OrderedTree`; the others only take apart nodes
`Abs` does not see (`StaysWithChild`, `StaysWithFree`).

For the walks the proof lays out document order: every node under a top has a
rank, and one step of `mxmlWalkNext` or `mxmlWalkPrev`, down, across or up over
several parents, moves to the rank next to it or, at the end, to NULL. A walk
and the loop of `mxmlFindElement` are recursive functions that descend along the
ranks; `Recursion` says that such a function is what its definition says and
`Traced` what a walk meets, so a walk of any length meets the subtree once, in
order, and a search stops at the first node from there on that satisfies it.

`XmlFileProofs` proves, for files of any length, any tags and any set of nodes
larger than the file needs (`XmlFileAssumption`):

- `LoadInvariance`: `FileSpec => []LInv`
- `LoadTypeCorrect`: `FileSpec => []FileTypeOK`
- `LoadLinksSound`: `FileSpec => []LinksSound`
- `LoadLeavesNothingElse`: `FileSpec => []NothingElseLeft`
- `LoadKeepsWhatIsRetained`: `FileSpec => RetainedStay`
- `LoadKeepsNothingElse`: `FileSpec => []NothingElseKept`

The assumptions say that the actions are about what the code does and not about
a model that ran out: a tag is a tag, no element is named like a comment, a node
can be held twice, and `calloc` finds a block (the nodes outnumber the pieces;
an infinite set of nodes will do).

The loader's locals and the tree say something of each other only between two
pieces, so the invariant `LInv` is about those moments. While the loop goes on
it is `Steady`: the tree is a `Grove` (sound, shaped and ordered as in
`XmlTreeProofs`), only elements are parents (`Kinds`), the elements that are open
are under the first node and that is a root (`Rooted`), what is not under it is
a value outside (`Reached`); with a SAX callback an open element is held once,
twice when it is retained (`Balanced`), and what is neither open nor retained is
gone (`Accounted`); and there is `Room` for the piece that follows. When the loop
has ended it is `Done`, with no more than `Left` behind. In the middle of a piece
a new node is in the tree that nobody has shown yet (`Midway`); `HandedIs` and
`ClosedIs` say what showing and releasing make of it, with the deletion of a
whole subtree (`SubtreeGone`) when its element was not retained. Each
kind of piece then has a lemma that it leads on (`CommentLeads`, ...,
`OpenLeads`), and the values that a tag ends before it does anything are
`BeforeTagIs`, so the dozen places at which the loop is left are dealt with once each
(`FailedIs`, `SecondRefusedIs`, `FinishedIs`).

`LInv` says nothing about the text of the file, which `NothingElseKept` is about. `Promise`
adds it: as long as every piece has fitted where it stands (`Fitting`) and what
came before a second piece at the top were directives (`OneRoot`), a load with a
SAX callback is `Standing`. There are nodes on the way from the root to `parent`, one for
each element the text has open after its pieces (`OpenNow`), with its name, and
none of them is above an earlier one (`Path`): so the close tag that fits names
`parent`, and deleting that takes none of the others along. Below them there may be a
leading directive, which only a callback that retained it can have left there.
And before the root there is no first node, so that the root is not taken for a
second one. Each kind of piece has a lemma again (`CharacterStands`, ...,
`OpenStands`). At the end nothing is open, and `Accounted` of `LInv` says
that what is left was retained.

`XmlStreamProofs` proves, for any set of Unicode characters without surrogates
(a surrogate is no character of its own), texts of any length, a file buffer of
any size and a string buffer of more than 4 bytes at first (`XmlStreamAssumption`):

- `BufferHolds`: `Spec => []Fits`
- `BuffersAreTyped`: `Spec => []TypeOK`
- `SavesAreWhole`: `Spec => []SavedWhole`
- `TextsReadBack`: `Spec => []ReadsBack`

For the first, `Room` adds the least size of the string buffer, which is what
makes doubling it enough. For the last, the proof has three parts. The lemmas
`Utf8Decoded` and `Utf16Decoded` say, for every number of Unicode, that a
loader given the bytes of a character answers that character, given fewer asks
for more, and of which characters it does neither; the digits of a number in
base 64 or 1024 and the byte order mark make their cases. `Upto(n)` are the
bytes of the first `n` characters, and `UnitAt` says where the next one is in
the file. The invariant `StreamInv` then says that for some `n` the loader has
read `n` characters (`Decoding(n)`): it kept what is to be kept of them, its
encoding is the one they leave it in, and the bytes it holds and those in its
buffer are the ones that follow in the file (`Placed`), fewer than the next
character has (`Part`). Wherever the system ends a piece, at any byte of a
character, `Read` leaves that as it is and `Getc` moves on by a byte or by a
character. While saving, the file and the buffer together are the first `put`
bytes (`SavedSoFar`). After an error that is ignored none of this holds: `FullInv`
then asks for `LostInv`, that the file is not loaded, and always for `BufferFits`,
that what `mxml_fd_write` has written and what it still has to write fit in the
buffer.

`GraphFileProofs` proves, for any number of programs, vertices, edges, graphs
and files, and a process that may end anywhere, in a save too (`GraphFileAssumption`):

- `GraphFileTypeCorrect`: `Spec => []TypeOK`
- `IdsAreUnique`: `Spec => []IdsUnique`
- `ReadingIsFaithful`: `Spec => []RoundTrip`
- `NoEdgeIsLost`: `Spec => []EdgesKept`

A read takes ids from the counters long before it makes the objects that get
them, so `IInv` keeps account of those in between: `Promised` says of the ids in
the tree that the loops have renamed (negated at first, then not) and not yet
loaded that they are distinct, below the counter and no object's. The first
loop adds an element to it, the second pass keeps all, the loading loop takes
one away. `Types` adds that an edge has both its ends or none (`Ends`), which a
save relies on, and that a tree holds ids and attributes.

That a graph comes back follows from `Trip`: the tree carries what was saved,
position by position (`Carries`), the ids at the ends of an edge naming the
vertices at the positions it had, whatever has become of the ids; those the first
loop has not reached are still old ones, positive and distinct (`OldIds`), so
that renaming one cannot catch another; and the vertices and edges loaded so far
are those of the first positions (`LoadedVertices`, `LoadedEdges`). That a
graph keeps its edges needs, besides the unique ids, that the string of an id
below `Byte` is that one byte (`StrKeyOfByte`), so that no two are the same.

**Induction.** The induction theorems of the library take an operator as a
parameter, which none of the provers can instantiate. Where a proof needs one
it uses sets: a set of numbers that holds 0 and with each number the next holds
all (`AllNumbers`, from the least number it would miss). What a recursive
*function* computes is then shown by a witness for its definition and such a
set, and `FlattenSeq`, defined by a fold, by `FlattenIs` and `FlattenNext`.

**Only model-checked.** Of `XmlFile`, `LoadedAsRead`, which composes a parser
and a serializer, two functions that recur over data. `AsWritten` of `ExpressionCode` and `FindsEach` of `XmlIndex`: these modules
evaluate trees and sort with RECURSIVE operators, and no theorem can be checked
in a module that has one. Out of the prover's reach in any case: liveness and
`ENABLED`, that is `DeletionEnds`, `Ends`.

## 6. Plan

1. `ObjectStore`, `SymbolScope` refining `LexicalScope`, `LoopCode` - done,
   checked and proved.
2. `GraphFile` - done, checked, all its safety proved.
3. `XmlTree` refining `OrderedTree` - done, checked, all its safety proved;
   `XmlStream` - done, checked, all its safety proved.
4. `XmlFile` - done, checked, its invariant and what a load leaves proved;
   `XmlIndex`, `ExpressionCode` - done, checked.
5. Next to prove: `LoadedAsRead` of `XmlFile`, first that a well-formed file is
   loaded at all, from a `Promise` for loads without a SAX callback.
6. Functions in `ObjectStore`: parameters, and the object a `return` frees.
7. Calls, pipes, matches and lists in `ExpressionCode`.

## 7. Not modelled, and why

Functions (parameters, the object a `return` frees, the string an attribute gives
as an argument, Derivedtype.c:440, which nothing frees) and early exits from loops
in `ObjectStore` (`LoopCode` says which blocks they free); calls, pipes, matches,
lists, initial values and `print` as expressions; `g_remove_*`, `g_insert_subg`,
`list_match` and `list_pipe`, which the compiler does not emit calls to;
formatting of values and of C text; integers that overflow (the C code computes
them as C does); the AST, whose only state other parts use is the scope ids of
a node; the lexer (generated by flex); stdio wrappers, error messages, hand-run
test drivers, build scripts. Of Mini-XML: `mxmlFindPath`, getters and setters
of a field, string formatting, the entity table, custom data handlers, the wrap
margin of the writer; and `mxmldoc`, a documentation generator that nothing
here uses.
