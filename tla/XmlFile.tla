------------------------------- MODULE XmlFile -------------------------------
(***************************************************************************)
(* Loading and saving a file with Mini-XML (mxml-file.c): mxml_load_data,  *)
(* which turns a file into nodes under top, or into a tree of its own, with*)
(* or without a SAX callback, and mxml_write_node, which turns a tree back *)
(* into a file.                                                            *)
(*                                                                         *)
(* A file is a sequence of pieces: a tag, a run of characters, a space.    *)
(* Each step of a behaviour reads one more piece, freely chosen, or meets  *)
(* the end of the file.                                                    *)
(***************************************************************************)
EXTENDS XmlTree

CONSTANTS Name,        \* names of elements
          Tags,        \* bound: the tags that are read
          MaxPieces,   \* bound: the length of a file
          MaxMarkup    \* bound: its comments, CDATA sections, directives and declarations

Markup == {"!--", "![CDATA[", "?", "!"}
Chars  == {"digits", "letters"}

\* The end of a tag is >, /, a slash without a >, or that of the file.
Char(c)      == [k |-> "char", c |-> c]
Tag(n, a, e) == [k |-> "tag", n |-> n, attrs |-> a, end |-> e]
CloseTag(n)  == [k |-> "close", n |-> n]
MarkupTag(m) == [k |-> "markup", n |-> m]
Space        == [k |-> "space"]
BadEntity    == [k |-> "bad entity"]
BadTag       == [k |-> "bad tag"]      \* a bare <, or the file ends in the tag

\* A close tag names an element, not a directive.  The loader and a client can
\* both hold a node, and memory does not run out.
ASSUME XmlFileAssumption ==
  /\ \A t \in Tags : t.k = "tag" /\ t.n \in Name /\ t.end \in {">", "/", "/x", "EOF"}
  /\ Name # {} /\ Name \cap Markup = {}
  /\ MaxPieces \in Nat /\ MaxRefs > 1
  /\ IsFiniteSet(Node) => Cardinality(Node) > MaxPieces + 1

Piece == {Char(c) : c \in Chars} \cup Tags
         \cup {CloseTag(n) : n \in Name} \cup {MarkupTag(m) : m \in Markup}
         \cup {Space, BadEntity, BadTag}

VARIABLES
  what,     \* what each node is: an element, with its attributes, or a value
  setting,  \* the arguments: top, the callback for types, whether there is a SAX callback
  loader,   \* the local variables, and the nodes there are that the SAX callback has retained
  read      \* the file so far

vars == <<tree, what, setting, loader, read>>

Element(n, a) == [k |-> "element", n |-> n, attrs |-> a]
Text(ws, s)   == [k |-> "text", ws |-> ws, s |-> s]

NONE == "MXML_NO_CALLBACK"

\* Everything a step may change, as one record.
Now == [live |-> live, link |-> link, ref_count |-> ref_count, what |-> what, l |-> loader]

------------------------------------------------------------------------------
(* The calls on the tree, each as a whole: mxmlDelete with what it calls,  *)
(* as the refinement of XmlTree allows.                                    *)

Below(s, n) == {m \in s.live :
                  LET up[x \in Node \cup {NULL}] == x # NULL /\ (x = n \/ up[s.link[x].parent])
                  IN  up[m]}

\* Which block calloc returns does not matter.
Fresh(s) == CHOOSE n \in Node : n \notin s.live

\* mxmlNewElement, mxmlNewText, ... : a node, the last under its parent.
NewNode(s, w) ==
  LET n == Fresh(s)
      fresh == [s.link EXCEPT ![n] = Alone]
      p == s.l.parent IN
  [s EXCEPT !.live = @ \cup {n}, !.what[n] = w, !.ref_count[n] = 1,
            !.link = IF p = NULL THEN fresh ELSE Added(fresh, p, "after", NULL, n)]

\* The children go too, retained or not: a node that is gone is nobody's any more,
\* and its block may become another one.
Deleted(s, n) ==
  IF n = NULL THEN s
  ELSE LET gone == Below(s, n)
           l == Removed(s.link, n) IN
       [s EXCEPT !.live = @ \ gone, !.l.retained = @ \ gone,
                 !.link = [m \in Node |-> IF m \in gone THEN Alone ELSE l[m]],
                 !.ref_count = [m \in Node |-> IF m \in gone THEN 0 ELSE @[m]]]

\* A mutant: the references are not looked at.
ReleasedAnyway(s, n) == Deleted(s, n)

Released(s, n) ==
  IF s.ref_count[n] = 1 THEN Deleted(s, n) ELSE [s EXCEPT !.ref_count[n] = @ - 1]

\* The SAX callback is called with n, and retains it or not.  An element it retains
\* at its end only might as well be retained where it opens: until then nobody
\* looks at the count.
Shown(s, n, keep) ==
  IF setting.sax /\ keep THEN [s EXCEPT !.ref_count[n] = @ + 1, !.l.retained = @ \cup {n}] ELSE s

\* A mutant: the node is not released.
HandedUnreleased(s, n, keep) ==
  LET t == Shown(s, n, keep) IN
  IF t.l.first = NULL THEN [t EXCEPT !.l.first = n] ELSE t

\* A node without children is shown and released at once; unless it is gone, it
\* is first when there was none.
Handed(s, n, keep) ==
  LET t == IF setting.sax THEN Released(Shown(s, n, keep), n) ELSE s IN
  IF n \in t.live /\ t.l.first = NULL THEN [t EXCEPT !.l.first = n] ELSE t

------------------------------------------------------------------------------
(* The ends of mxml_load_data.                                             *)

\* A mutant: what was loaded stays.
FailedKeeping(s) == [s EXCEPT !.l.result = "failed", !.l.first = NULL]

\* error: what hangs under the first node is deleted.
Failed(s) == [Deleted(s, s.l.first) EXCEPT !.l.result = "failed", !.l.first = NULL, !.l.parent = NULL]

\* The topmost node above parent, below top.
Topmost(s) ==
  LET climb[m \in Node] ==
        IF s.link[m].parent \in {setting.top, NULL} THEN m ELSE climb[s.link[m].parent]
  IN  climb[s.l.parent]

\* The end of the file: every element but the topmost must have been closed.
Finished(s) ==
  IF s.l.parent = NULL THEN [s EXCEPT !.l.result = "loaded"]
  ELSE IF Topmost(s) # s.l.parent THEN Failed(s)
  ELSE [s EXCEPT !.l.result = "loaded", !.l.first = s.l.parent]

------------------------------------------------------------------------------
(* The parts of the loop.                                                  *)

\* The type of the values under n.
TypeUnder(n, before) == IF setting.cb = NONE \/ n = NULL THEN before ELSE setting.cb

IsNumber(s) == Range(s) = {"digits"}

\* A mutant: the space that ended the value is forgotten.
FlushedForgetting(s, atSpace, keep) ==
  LET w == CASE s.l.type = "text" -> Text(s.l.whitespace, s.l.buffer)
             [] s.l.type # "text" -> [k |-> s.l.type, s |-> s.l.buffer]
      made == NewNode(s, w) IN
  IF s.l.type = "ignore" THEN [s EXCEPT !.l.buffer = << >>, !.l.whitespace = FALSE]
  ELSE IF s.l.type = "integer" /\ ~IsNumber(s.l.buffer) THEN Finished(made)
  ELSE [Handed(made, Fresh(s), keep) EXCEPT !.l.buffer = << >>, !.l.whitespace = FALSE]

\* The buffer becomes a value node.  A bad number ends the loop as the end of
\* the file does, with the node in the tree.
Flushed(s, atSpace, keep) ==
  LET w == CASE s.l.type = "text" -> Text(s.l.whitespace, s.l.buffer)
             [] s.l.type # "text" -> [k |-> s.l.type, s |-> s.l.buffer]
      made == NewNode(s, w)
      ws == atSpace /\ s.l.type = "text" IN
  IF s.l.type = "ignore" THEN [s EXCEPT !.l.buffer = << >>, !.l.whitespace = ws]
  ELSE IF s.l.type = "integer" /\ ~IsNumber(s.l.buffer) THEN Finished(made)
  ELSE [Handed(made, Fresh(s), keep) EXCEPT !.l.buffer = << >>, !.l.whitespace = ws]

\* Whitespace before a tag is a text of its own; at the top it is dropped.
LoneWhitespace(s, keep) ==
  IF ~(s.l.whitespace /\ s.l.type = "text") THEN s
  ELSE IF s.l.parent = NULL THEN [s EXCEPT !.l.whitespace = FALSE]
  ELSE [Handed(NewNode(s, Text(TRUE, << >>)), Fresh(s), keep) EXCEPT !.l.whitespace = FALSE]

\* At a <: the value before it, the whitespace before it.
BeforeTag(s, keep) ==
  LET t == IF s.l.buffer = << >> THEN s ELSE Flushed(s, FALSE, keep) IN
  IF t.l.result = "loading" THEN LoneWhitespace(t, keep) ELSE t

\* There can only be one root element.
SecondRoot(s) == s.l.parent = NULL /\ s.l.first # NULL

\* The message names the first node as an element.  Of a text it reads the
\* whitespace flag as the address of a name: 1 crashes, 0 is a null name.
SecondRefused(s) ==
  LET w == s.what[s.l.first] IN
  IF w.k = "text" /\ w.ws THEN [s EXCEPT !.l.result = "crashed"] ELSE Failed(s)

\* A comment or a CDATA section is an element without children.
Comment(s, m, keep) ==
  IF SecondRoot(s) THEN SecondRefused(s) ELSE Handed(NewNode(s, Element(m, << >>)), Fresh(s), keep)

\* So is a processing instruction or a declaration, but at the top it becomes
\* the parent of the rest of the file.
Directive(s, m, keep) ==
  IF SecondRoot(s) THEN SecondRefused(s)
  ELSE LET n == Fresh(s)
           t == Handed(NewNode(s, Element(m, << >>)), n, keep) IN
       IF n \in t.live /\ s.l.parent = NULL
       THEN [t EXCEPT !.l.parent = n, !.l.type = TypeUnder(n, @)] ELSE t

\* A mutant: the first node stays the first when it goes.
ClosedStillFirst(s, n) == IF ~setting.sax THEN s ELSE Released(s, n)

\* Shown, see Shown, and released, at its end.
Closed(s, n) ==
  IF ~setting.sax THEN s
  ELSE LET t == Released(s, n) IN
       IF n \notin t.live /\ t.l.first = n THEN [t EXCEPT !.l.first = NULL] ELSE t

\* The type of the values that follow is that of the parent, if there is one.
Close(s, n) ==
  LET p == s.l.parent IN
  IF p = NULL \/ s.what[p].n # n THEN Failed(s)
  ELSE LET up == s.link[p].parent IN
       [Closed(s, p) EXCEPT !.l.parent = up, !.l.type = TypeUnder(up, @)]

\* Each attribute has a value and a name of its own.
AttributesRead(attrs) ==
  /\ Cardinality({a.name : a \in Range(attrs)}) = Len(attrs)
  /\ \A a \in Range(attrs) : a.value # NULL

\* And the tag has an end.
mxml_parse_element(attrs, end) == IF end \in {"/x", "EOF"} \/ ~AttributesRead(attrs) THEN "EOF" ELSE end

\* A tag whose attributes cannot be read leaves its element in the tree, one
\* with a slash too much takes it out, one that the file ends in counts.
Open(s, p, keep) ==
  IF SecondRoot(s) THEN SecondRefused(s)
  ELSE LET n == Fresh(s)
           made == NewNode(s, Element(p.n, p.attrs))
           shown == Shown(made, n, keep)
           known == IF s.l.first = NULL THEN [shown EXCEPT !.l.first = n] ELSE shown IN
       IF p.attrs # << >> /\ mxml_parse_element(p.attrs, p.end) = "EOF" THEN Failed(made)
       ELSE CASE p.end = "/x"  -> Failed(Deleted(made, n))
              [] p.end = "EOF" -> Finished(known)
              [] p.end = ">"   -> [known EXCEPT !.l.parent = n, !.l.type = TypeUnder(n, @)]
              [] p.end = "/"   -> Closed(known, n)

\* A space ends a value, except in opaque text.
AtSpace(s, keep) ==
  IF s.l.type = "opaque" THEN [s EXCEPT !.l.buffer = Append(@, " ")]
  ELSE IF s.l.buffer # << >> THEN Flushed(s, TRUE, keep)
  ELSE [s EXCEPT !.l.whitespace = @ \/ s.l.type = "text"]

------------------------------------------------------------------------------
(* The loop: one turn of it, or more for characters.                       *)

Become(s) ==
  /\ live' = s.live /\ link' = s.link /\ ref_count' = s.ref_count /\ what' = s.what
  /\ loader' = s.l
  /\ UNCHANGED <<deleting, setting>>

Loading == loader.result = "loading"

Markups == Len(SelectSeq(read, LAMBDA p : p.k = "markup"))

Read(p) ==
  /\ Loading /\ Len(read) < MaxPieces
  /\ read' = Append(read, p)

\* What a tag does after the value s before it, which may have ended the loop.
AtTag(s, after) == Become(IF s.l.result = "loading" THEN after ELSE s)

\* Digits are told from letters in numbers only.
ReadChar ==
  \E c \in IF setting.cb = "integer" THEN Chars ELSE {"letters"} :
    Read(Char(c)) /\ Become([Now EXCEPT !.l.buffer = Append(@, c)])

ReadSpace(keep) == Read(Space) /\ Become(AtSpace(Now, keep))

ReadBadEntity == Read(BadEntity) /\ Become(Failed(Now))

ReadBadTag(keep) ==
  LET s == BeforeTag(Now, keep) IN Read(BadTag) /\ AtTag(s, Failed(s))

ReadMarkup(keep) ==
  LET s == BeforeTag(Now, keep) IN
  \E m \in Markup :
    /\ Read(MarkupTag(m)) /\ Markups < MaxMarkup
    /\ AtTag(s, IF m \in {"!--", "![CDATA["} THEN Comment(s, m, keep) ELSE Directive(s, m, keep))

ReadClose(keep) ==
  LET s == BeforeTag(Now, keep) IN \E n \in Name : Read(CloseTag(n)) /\ AtTag(s, Close(s, n))

ReadTag(keep) ==
  LET s == BeforeTag(Now, keep) IN \E t \in Tags : Read(t) /\ AtTag(s, Open(s, t, keep))

\* Characters after the last tag are dropped.
ReadEOF == Loading /\ Become(Finished(Now)) /\ UNCHANGED read

FileNext ==
  \/ ReadChar \/ ReadBadEntity \/ ReadEOF
  \/ \E keep \in IF setting.sax THEN BOOLEAN ELSE {FALSE} :
       ReadSpace(keep) \/ ReadBadTag(keep) \/ ReadMarkup(keep) \/ ReadClose(keep) \/ ReadTag(keep)

\* The nodes there are before: top, and for "inner" its parent.
Settings ==
  [top : {NULL}, cb : {NONE, "integer", "opaque", "ignore"}, sax : {FALSE}]
  \cup [top : {NULL}, cb : {NONE}, sax : {TRUE}]
  \cup [top : {CHOOSE n \in Node : TRUE}, cb : {NONE}, sax : {FALSE}]

\* Without a top the values are text until the callback says otherwise.
FileInit ==
  /\ setting \in Settings
  /\ LET top == setting.top
         above == CHOOSE n \in Node : n # top IN
       IF top = NULL THEN TreeInit
       ELSE /\ deleting = << >>
            /\ \/ live = {top} /\ link = [n \in Node |-> Alone]
               \/ live = {top, above} /\ link = Added([n \in Node |-> Alone], above, "after", NULL, top)
            /\ ref_count = [n \in Node |-> IF n \in live THEN 1 ELSE 0]
  /\ what = [n \in Node |-> Element(CHOOSE name \in Name : TRUE, << >>)]
  /\ loader = [parent |-> setting.top, first |-> NULL, type |-> "text", whitespace |-> FALSE,
               buffer |-> << >>, retained |-> {}, result |-> "loading"]
  /\ read = << >>

FileSpec == FileInit /\ [][FileNext]_vars

------------------------------------------------------------------------------
(* Saving.                                                                 *)

\* A value; one that goes on after another of its kind is set apart.
WrittenValue(w, prev) ==
  LET apart == (w.k = "text" /\ w.ws) \/ (w.k = "integer" /\ prev # NULL) IN
  (IF apart THEN <<Space>> ELSE << >>) \o [i \in DOMAIN w.s |-> IF w.s[i] = " " THEN Space ELSE Char(w.s[i])]

\* An element, given what its children are written as.
WrittenElement(w, child, kids) ==
  IF w.n \in Markup THEN <<MarkupTag(w.n)>> \o kids
  ELSE IF child = NULL THEN <<Tag(w.n, w.attrs, "/")>>
  ELSE <<Tag(w.n, w.attrs, ">")>> \o kids \o <<CloseTag(w.n)>>

\* The file a node is saved as.
mxml_write_node(n) ==
  LET saved[m \in Node] ==
        IF what[m].k # "element" THEN WrittenValue(what[m], link[m].prev)
        ELSE WrittenElement(what[m], link[m].child,
                            FlattenSeq([i \in DOMAIN Children(m) |-> saved[Children(m)[i]]]))
  IN  saved[n]

Saved ==
  IF setting.top = NULL THEN mxml_write_node(loader.first)
  ELSE LET c == Children(setting.top) IN FlattenSeq([i \in DOMAIN c |-> mxml_write_node(c[i])])

------------------------------------------------------------------------------
(* What a file is, whatever the loader.                                    *)

Fits(open, p) ==
  CASE p.k = "char"   -> open # << >> /\ (setting.cb = "integer" => p.c = "digits")
    [] p.k = "tag"    -> mxml_parse_element(p.attrs, p.end) # "EOF"
    [] p.k = "close"  -> open # << >> /\ Last(open) = p.n
    [] p.k \in {"markup", "space"} -> TRUE
    [] p.k \in {"bad entity", "bad tag"} -> FALSE

\* The elements open after the piece p, and after the first i pieces.
Opened(open, p) ==
  CASE p.k = "tag" /\ p.end = ">" -> Append(open, p.n)
    [] p.k = "close" /\ open # << >> -> Front(open)
    [] OTHER -> open

OpenAfter(file, i) ==
  LET open[j \in 0 .. i] == IF j = 0 THEN << >> ELSE Opened(open[j - 1], file[j])
  IN  open[i]

Outer(file) == {i \in DOMAIN file : file[i].k \in {"tag", "markup"} /\ OpenAfter(file, i - 1) = << >>}

\* A single parent node for the entire file: the root, or a leading directive.
HasOneRoot(file) ==
  \/ Cardinality(Outer(file)) = 1
  \/ \E i \in Outer(file) :
       file[i].k = "markup" /\ file[i].n \in {"?", "!"} /\ \A j \in Outer(file) : i <= j

WellFormed(file) ==
  /\ \A i \in DOMAIN file : Fits(OpenAfter(file, i - 1), file[i])
  /\ OpenAfter(file, Len(file)) = << >>
  /\ setting.top = NULL => HasOneRoot(file)

\* A file up to the spaces that mean nothing and the values that are ignored,
\* with empty elements written in one way.
Normal(file) ==
  LET meant == {i \in DOMAIN file :
        CASE file[i].k = "space" ->
               /\ setting.cb \in {NONE, "opaque"}
               /\ \E j \in i + 1 .. Len(file) : file[j].k # "space"
               /\ setting.top = NULL => \E j \in 1 .. i - 1 : file[j].k # "space"
               /\ setting.cb = NONE /\ i > 1 => file[i - 1].k # "space"
          [] file[i].k = "char" -> setting.cb # "ignore"
          [] OTHER -> TRUE}
      kept == [i \in 1 .. Cardinality(meant) |->
                 file[CHOOSE j \in meant : Cardinality({m \in meant : m <= j}) = i]]
      closes(i) == i \in DOMAIN kept /\ kept[i].k = "close" /\ kept[i - 1].k = "tag" /\ kept[i - 1].end = ">"
  IN  FlattenSeq([i \in DOMAIN kept |->
        IF i > 1 /\ closes(i) THEN << >>
        ELSE IF closes(i + 1) THEN <<[kept[i] EXCEPT !.end = "/"]>>
        ELSE <<kept[i]>>])

------------------------------------------------------------------------------
(* Properties.                                                             *)

Ended == ~Loading

\* Every variable has its type, and the locals point to nodes there are.
FileTypeOK ==
  /\ TypeOK /\ Idle
  /\ loader.parent \in live \cup {NULL} /\ loader.first \in live \cup {NULL}
  /\ loader.type \in {"text", "integer", "opaque", "ignore"} /\ loader.whitespace \in BOOLEAN
  /\ loader.buffer \in Seq(Chars \cup {" "})
  /\ loader.retained \subseteq live
  /\ loader.result \in {"loading", "loaded", "failed", "crashed"}
  /\ read \in Seq(Piece)

\* A well-formed file is loaded, and what was loaded, saved again, is the file
\* (mxml-file.c:1413-2095, 2732-2996).  Under a top that has a parent itself
\* every load fails: it is taken for a missing close tag.
LoadedAsRead ==
  Ended /\ ~setting.sax /\ WellFormed(read)
    /\ (setting.top # NULL => live = {} \/ link[setting.top].parent = NULL)
  => loader.result = "loaded" /\ Normal(Saved) = Normal(read)

\* What a load without a top leaves besides the tree it returns are values
\* outside the root element, and the root whose own attributes could not be
\* read (mxml-file.c:1993, 2101-2108).
NothingElseLeft ==
  Ended /\ ~setting.sax /\ setting.top = NULL =>
    \A n \in live :
      \/ loader.result = "loaded" /\ loader.first \in Ancestors(n)
      \/ /\ link[n].parent = NULL /\ link[n].child = NULL
         /\ what[n].k = "element" => Last(read).k = "tag" /\ Last(read).attrs # << >>

\* A load with a SAX callback succeeds and keeps no node that the callback has not
\* retained ("nodes are deleted when the parent node is closed or after each data,
\* comment, CDATA, or directive node", mxml-file.c:454).  A leading directive that
\* was released is nobody's parent: the file may then hold one root, and not even
\* a comment before it.
NothingElseKept ==
  Ended /\ setting.sax /\ WellFormed(read) /\ Cardinality(Outer(read)) <= 2 =>
    loader.result = "loaded" /\ live \subseteq loader.retained

\* A retained node goes away, before an error, only with a node above it that was not
\* retained: mxmlDelete does not look at the references of the children
\* (mxml-node.c:222), though the comment of mxmlSAXLoadFd makes no such exception
\* (mxml-file.c:453).
RetainedStay ==
  [][\A n \in loader.retained :
       n \notin live' /\ loader'.result # "failed" => \E a \in Ancestors(n) : a \notin loader.retained]_vars
==============================================================================
