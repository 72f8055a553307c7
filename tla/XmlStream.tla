------------------------------ MODULE XmlStream ------------------------------
(***************************************************************************)
(* The characters of a file in Mini-XML (mxml-file.c): the program saves a *)
(* text through the buffer of a file descriptor, in UTF-8, or another      *)
(* program has written it in UTF-16; then the program loads it from the    *)
(* descriptor, a stdio file or a string, into a buffer that grows.         *)
(*                                                                         *)
(* The operating system takes and hands out as many bytes at a time as it  *)
(* likes, interrupts a read, and fails.  An error ends a save, but not one *)
(* in the whitespace that the program's callback puts around elements.     *)
(***************************************************************************)
EXTENDS Integers, Sequences, SequencesExt

CONSTANTS Chars,          \* the characters of texts, by their number
          MaxText,        \* bound: the length of a text
          BufSize,        \* the bytes a descriptor's buffer holds: 8192
          StartSize,      \* the first size of the string buffer: 64
          MaxInterrupts   \* bound: reads that are interrupted

LastChar == 1114111
Unicode == 0..LastChar

\* The numbers UTF-16 makes its pairs of: no characters.
Surrogate(ch) == ch >= 55296 /\ ch <= 57343

ASSUME XmlStreamAssumption ==
  /\ Chars \subseteq Unicode /\ \A ch \in Chars : ~Surrogate(ch)
  /\ MaxText \in Nat /\ MaxInterrupts \in Nat
  /\ BufSize \in Nat \ {0} /\ StartSize \in Nat /\ StartSize > 4

VARIABLES
  text,       \* what is written
  format,     \* how: by this program in UTF-8, or in UTF-16 by another
  source,     \* what it is loaded from
  spaces,     \* which bytes mxml_write_ws puts where nobody looks at its result
  phase,      \* "saving", "loading", or how it ended
  file,       \* the bytes of the file
  put,        \* how many bytes mxml_fd_putc has been given
  buffer,     \* the bytes between current and end, when saving between ptr and current
  written,    \* the bytes between buffer and ptr, while mxml_fd_write runs
  ignored,    \* history: an error in the whitespace has been ignored
  pos,        \* how many bytes have been read from the file
  bytes,      \* the bytes of the character being read
  encoding,
  got,        \* the characters that mxml_load_data was given
  size, used, \* of the string buffer, and the bytes mxml_add_char put there
  interrupts  \* history

vars == <<text, format, source, spaces, phase, file, put, buffer, written, ignored, pos, bytes, encoding, got, size, used, interrupts>>

------------------------------------------------------------------------------
(* Encoding and decoding.                                                  *)

BOM == 65279

\* The bytes mxml_add_char appends.
Utf8Bytes(ch) ==
  LET low(n) == 128 + ((ch \div n) % 64) IN
  IF ch < 128 THEN <<ch>>
  ELSE IF ch < 2048 THEN <<192 + (ch \div 64), low(1)>>
  ELSE IF ch < 65536 THEN <<224 + (ch \div 4096), low(64), low(1)>>
  ELSE <<240 + (ch \div 262144), low(4096), low(64), low(1)>>

bad_char(ch) == ch < 32 /\ ch \notin {9, 10, 13}

\* What a function that gets a character makes of the bytes it has taken.
More     == [is |-> "more"]
EOF      == [is |-> "EOF"]
Again    == [is |-> "again"]                         \* a byte order mark is skipped
Switch(e) == [is |-> "switch", encoding |-> e]
Got(ch)  == [is |-> "char", ch |-> ch]

Continues(b) == b \in 128..191

\* The number of bytes the first one announces, 0 for none.
Announced(b) ==
  CASE b \in 192..223 -> 2 [] b \in 224..239 -> 3 [] b \in 240..247 -> 4 [] OTHER -> 0

\* The number that two, three or four bytes spell.
Two(b)   == ((b[1] % 32) * 64) + (b[2] % 64)
Three(b) == ((b[1] % 16) * 4096) + ((b[2] % 64) * 64) + (b[3] % 64)
Four(b)  == ((b[1] % 8) * 262144) + ((b[2] % 64) * 4096) + ((b[3] % 64) * 64) + (b[4] % 64)

\* The character; the shortest spelling is the only one.
Spelled(b) ==
  CASE Len(b) = 2 -> IF Two(b) < 128 THEN EOF ELSE Got(Two(b))
    [] Len(b) = 3 -> IF Three(b) < 2048 THEN EOF
                     ELSE IF Three(b) = BOM THEN Again ELSE Got(Three(b))
    [] Len(b) = 4 -> IF Four(b) < 65536 THEN EOF ELSE Got(Four(b))

\* mxml_fd_getc while the encoding is UTF-8.
Utf8(b) ==
  IF b[1] < 128 THEN IF bad_char(b[1]) THEN EOF ELSE Got(b[1])
  ELSE IF b[1] \in {254, 255} THEN
    IF Len(b) = 1 THEN More
    ELSE IF b = <<254, 255>> THEN Switch("UTF16BE")
    ELSE IF b = <<255, 254>> THEN Switch("UTF16LE")
    ELSE EOF
  ELSE IF Announced(b[1]) = 0 \/ (Len(b) > 1 /\ ~Continues(Last(b))) THEN EOF
  ELSE IF Len(b) < Announced(b[1]) THEN More
  ELSE Spelled(b)

Word(b, i, e) == IF e = "UTF16BE" THEN (b[i] * 256) + b[i + 1] ELSE (b[i + 1] * 256) + b[i]

\* mxml_fd_getc in UTF-16; the second word may be any of a pair but the last.
Utf16(b, e) ==
  IF Len(b) < 2 THEN More
  ELSE LET ch == Word(b, 1, e) IN
       IF bad_char(ch) THEN EOF
       ELSE IF ~(ch >= 55296 /\ ch <= 56319) THEN Got(ch)
       ELSE IF Len(b) < 4 THEN More
       ELSE LET lch == Word(b, 3, e) IN
            IF lch < 56320 \/ lch >= 57343 THEN EOF
            ELSE Got(((ch % 1024) * 1024) + (lch % 1024) + 65536)

mxml_fd_getc(b, e) == IF e = "UTF8" THEN Utf8(b) ELSE Utf16(b, e)

\* EOF in the middle of a character is EOF, as for a descriptor.
mxml_file_getc(b, e) == IF e = "UTF8" THEN Utf8(b) ELSE Utf16(b, e)

\* A byte that is zero ends the string, unless it is a part of a word: the first
\* byte of a big-endian one is not.
mxml_string_getc(b, e) ==
  IF e # "UTF16LE" /\ b[1] = 0 THEN EOF
  ELSE IF e = "UTF8" THEN Utf8(b)
  ELSE Utf16(b, e)

getc(b, e) ==
  CASE source = "fd"     -> mxml_fd_getc(b, e)
    [] source = "file"   -> mxml_file_getc(b, e)
    [] source = "string" -> mxml_string_getc(b, e)

------------------------------------------------------------------------------
(* What was written.                                                       *)

\* UTF-16 as the standard has it.
WordBytes(w, e) == IF e = "UTF16BE" THEN <<w \div 256, w % 256>> ELSE <<w % 256, w \div 256>>

Utf16Bytes(ch, e) ==
  IF ch < 65536 THEN WordBytes(ch, e)
  ELSE WordBytes(55296 + ((ch - 65536) \div 1024), e) \o WordBytes(56320 + ((ch - 65536) % 1024), e)

\* The characters of the file: in UTF-16, the first is a byte order mark.
Stored == IF format = "UTF8" THEN text ELSE <<BOM>> \o text

Encoded(ch) == IF format = "UTF8" THEN Utf8Bytes(ch) ELSE Utf16Bytes(ch, format)

\* The bytes that the file is to have.
Contents == FlattenSeq([i \in DOMAIN Stored |-> Encoded(Stored[i])])

------------------------------------------------------------------------------
(* Saving.                                                                 *)

\* Whitespace that more follows; the space before a text is not the callback's.
Blanks == {9, 10, 32}
SpaceAt == {n \in 1 .. Len(Contents) - 1 : Contents[n] \in Blanks}

given == <<text, format, source, spaces>>
failures == <<written, ignored>>
loads == <<pos, bytes, encoding, got, size, used, interrupts>>

AllPut == put = Len(Contents)

\* mxml_fd_putc, with room in the buffer.
Putc ==
  /\ phase = "saving" /\ Len(buffer) < BufSize /\ ~AllPut
  /\ buffer' = Append(buffer, Contents[put + 1]) /\ put' = put + 1
  /\ UNCHANGED <<given, phase, file, failures, loads>>

\* mxml_fd_write runs: there is no room, or nothing more to put; and goes on
\* until the buffer is empty.
Writing ==
  /\ buffer # << >>
  /\ \/ phase = "writing"
     \/ phase = "saving" /\ (Len(buffer) = BufSize \/ AllPut)

\* A mutant: what the system did not take is dropped.
WriteOnce(k) ==
  /\ Writing /\ k \in DOMAIN buffer
  /\ file' = file \o SubSeq(buffer, 1, k)
  /\ buffer' = << >> /\ phase' = "saving"
  /\ UNCHANGED <<given, put, failures, loads>>

\* write(2) takes k bytes.
Write(k) ==
  /\ Writing /\ k \in DOMAIN buffer
  /\ file' = file \o SubSeq(buffer, 1, k)
  /\ buffer' = SubSeq(buffer, k + 1, Len(buffer))
  /\ phase' = IF buffer' = << >> THEN "saving" ELSE "writing"
  /\ written' = IF buffer' = << >> THEN << >> ELSE written \o SubSeq(buffer, 1, k)
  /\ UNCHANGED <<given, put, ignored, loads>>

\* An error, an interruption included, ends the save: in whitespace too when the
\* column stays -1, since an empty text follows.
WriteFails ==
  /\ Writing /\ phase' = "save failed"
  /\ UNCHANGED <<given, put, file, buffer, failures, loads>>

\* The bytes up to the n-th are not put: the rest of a whitespace string, and the
\* space of a text behind it, which is not written in column -1.
Skipped(n) ==
  /\ put < n /\ n < Len(Contents)
  /\ \A i \in put + 1 .. n : i \in spaces \/ (i = n /\ i > put + 1 /\ Contents[i] = 32)

\* A mutant: the buffer is empty after an error.
EmptiedOnError(n) ==
  /\ Writing /\ put + 1 \in spaces /\ Skipped(n)
  /\ put' = n /\ phase' = "saving" /\ ignored' = TRUE
  /\ buffer' = << >> /\ written' = << >>
  /\ UNCHANGED <<given, file, loads>>

\* mxml_write_node ignores an error in whitespace.  mxml_fd_write has left current
\* where it was: the next character writes the whole buffer, once more.
WriteFailsInSpace(n) ==
  /\ Writing /\ put + 1 \in spaces /\ Skipped(n)
  /\ put' = n /\ phase' = "saving" /\ ignored' = TRUE
  /\ buffer' = written \o buffer /\ written' = << >>
  /\ UNCHANGED <<given, file, loads>>

\* mxmlSaveFd returns success, and the file is opened to be loaded; a file that
\* is not the text is not followed any further.
Reopen ==
  /\ phase = "saving" /\ AllPut /\ buffer = << >>
  /\ phase' = IF ignored THEN "saved" ELSE "loading"
  /\ UNCHANGED <<given, put, file, buffer, failures, loads>>

------------------------------------------------------------------------------
(* Loading.                                                                *)

\* A string ends with a zero byte, or two.
Bytes == IF source = "string" THEN file \o <<0, 0>> ELSE file

\* The next byte is not at hand.
Empty == phase = "loading" /\ buffer = << >>

\* mxml_fd_read gets k bytes; stdio and a string hand out one at a time.
Read(k) ==
  /\ Empty /\ k \in 1 .. (IF source = "fd" THEN BufSize ELSE 1) /\ pos + k <= Len(Bytes)
  /\ buffer' = SubSeq(Bytes, pos + 1, pos + k) /\ pos' = pos + k
  /\ UNCHANGED <<given, phase, file, put, failures, bytes, encoding, got, size, used, interrupts>>

\* A mutant: an interrupted read is taken for the end of the file.
GiveUp ==
  /\ Empty /\ source = "fd" /\ interrupts < MaxInterrupts
  /\ phase' = "loaded" /\ interrupts' = interrupts + 1
  /\ UNCHANGED <<given, file, put, buffer, failures, pos, bytes, encoding, got, size, used>>

\* EINTR, EAGAIN: once more.
Interrupted ==
  /\ Empty /\ source = "fd" /\ interrupts < MaxInterrupts
  /\ interrupts' = interrupts + 1
  /\ UNCHANGED <<given, phase, file, put, buffer, failures, pos, bytes, encoding, got, size, used>>

\* Any other error is the end of the file to mxml_load_data.
ReadFails ==
  /\ Empty /\ source # "string" /\ phase' = "cut short"
  /\ UNCHANGED <<given, file, put, buffer, failures, loads>>

\* A mutant: no bytes are taken for an interruption.
ReadRetried == Empty /\ pos = Len(Bytes) /\ UNCHANGED vars

ReadEnds ==
  /\ Empty /\ pos = Len(Bytes) /\ phase' = "loaded"
  /\ UNCHANGED <<given, file, put, buffer, failures, loads>>

\* A mutant: room for one byte is enough.
GrownLate(n, at) == IF at < n - 1 THEN n ELSE IF n < 1024 THEN n * 2 ELSE n + 1024

\* The size of a buffer of n bytes that is to take a character at position at.
Grown(n, at) == IF at < n - 4 THEN n ELSE IF n < 1024 THEN n * 2 ELSE n + 1024

\* A mutant: the next character begins with the bytes of this one.
GetcKeeping ==
  /\ phase = "loading" /\ buffer # << >>
  /\ buffer' = Tail(buffer)
  /\ LET b == Append(bytes, Head(buffer)) IN
     /\ bytes' = b
     /\ phase' = IF getc(b, encoding) = EOF THEN "loaded" ELSE "loading"
  /\ UNCHANGED <<given, file, put, failures, pos, encoding, got, size, used, interrupts>>

\* The next byte; with the last one of a character, mxml_add_char.
Getc ==
  /\ phase = "loading" /\ buffer # << >>
  /\ buffer' = Tail(buffer)
  /\ LET b == Append(bytes, Head(buffer))
         r == getc(b, encoding) IN
     /\ bytes' = IF r = More THEN b ELSE << >>
     /\ phase' = IF r = EOF THEN "loaded" ELSE "loading"
     /\ encoding' = IF r.is = "switch" THEN r.encoding ELSE encoding
     /\ IF r.is = "char"
        THEN /\ got' = Append(got, r.ch)
             /\ size' = Grown(size, used) /\ used' = used + Len(Utf8Bytes(r.ch))
        ELSE UNCHANGED <<got, size, used>>
  /\ UNCHANGED <<given, file, put, failures, pos, interrupts>>

Init ==
  /\ text \in UNION {[1 .. n -> Chars] : n \in 1 .. MaxText}
  /\ format \in {"UTF8", "UTF16BE", "UTF16LE"}
  /\ source \in {"fd", "file", "string"}
  /\ spaces \in IF format = "UTF8" THEN SUBSET SpaceAt ELSE {{}}
  /\ IF format = "UTF8" THEN phase = "saving" /\ file = << >>
     ELSE phase = "loading" /\ file = Contents
  /\ put = 0 /\ buffer = << >> /\ written = << >> /\ ignored = FALSE /\ pos = 0 /\ bytes = << >> /\ encoding = "UTF8" /\ got = << >>
  /\ size = StartSize /\ used = 0 /\ interrupts = 0

Save == Putc \/ (\E k \in 1..BufSize : Write(k)) \/ Reopen
Load == (\E k \in 1..BufSize : Read(k)) \/ ReadEnds \/ Getc

SpaceFails == \E n \in 1 .. Len(Contents) : WriteFailsInSpace(n)

Next == Save \/ Load \/ WriteFails \/ SpaceFails \/ Interrupted \/ ReadFails

\* A call goes on until it returns, and a read is not interrupted for ever.
Spec == Init /\ [][Next]_vars /\ WF_vars(Save) /\ WF_vars(Load)

------------------------------------------------------------------------------
(* Properties.                                                             *)

\* Every variable has its type; what is in the buffers fits into them.
TypeOK ==
  /\ phase \in {"saving", "writing", "saved", "loading", "save failed", "loaded", "cut short"}
  /\ encoding \in {"UTF8", "UTF16BE", "UTF16LE"}
  /\ \A b \in Range(file \o buffer \o bytes) : b \in 0..255
  /\ Len(written) + Len(buffer) <= BufSize /\ Len(bytes) < 4 /\ pos \in 0 .. Len(Bytes)
  /\ got \in Seq(Unicode)
  /\ size \in Nat /\ used \in Nat

\* The string buffer has room for the zero byte that ends the string, however
\* long the characters are (mxml-file.c:625-698).
Fits == used < size

\* A save that returns success after no error has written the whole text, however
\* the system split it; a failed one, a part of it (mxml-file.c:1082-1118).
SavedWhole ==
  /\ format = "UTF8" /\ ~ignored => IsPrefix(file, Contents)
  /\ phase \in {"loading", "loaded", "cut short"} => file = Contents

Solid(s) == SelectSeq(s, LAMBDA b : b \notin Blanks)

\* How many elements of t, from the first on, are found in s, in their order.
FoundOf(t, s) ==
  FoldLeft(LAMBDA n, b : IF n < Len(t) /\ b = t[n + 1] THEN n + 1 ELSE n, 0, s)

\* Whatever a save that ignored errors has lost is whitespace: the rest is in the
\* file, in order, though maybe more than once (mxml-file.c:1107-1115, 2753, 2849).
NothingElseLost ==
  phase = "saved" => FoundOf(Solid(Contents), file) = Len(Solid(Contents))

\* The characters no loader gets past: those that XML does not have; in UTF-16,
\* those that end in the last low surrogate (mxml-file.c:940, 1235, 2553); in a
\* big-endian string, those below 256.
Unreadable(ch) ==
  \/ bad_char(ch)
  \/ format # "UTF8" /\ ch > 65535 /\ (ch - 65536) % 1024 = 1023
  \/ format = "UTF16BE" /\ source = "string" /\ ch < 256

Readable == {i \in DOMAIN Stored : \A j \in 1 .. i : ~Unreadable(Stored[j])}

\* What a loader makes of the i-th character: the first byte order mark is
\* skipped, and in UTF-8 every one.
Loaded(i) == IF Stored[i] = BOM /\ (format = "UTF8" \/ i = 1) THEN << >> ELSE <<Stored[i]>>

Expected == FlattenSeq([i \in Readable |-> Loaded(i)])

\* The characters that can be read are those that were written, in the order,
\* without the byte order marks that UTF-8 drops, whatever pieces the bytes come
\* in and wherever a character is split (mxml-file.c:705-1001, 1125-1330, 2383-2633).
ReadsBack ==
  /\ IsPrefix(got, Expected)
  /\ phase = "loaded" => got = Expected

\* A save and a load end (mxml-file.c:1056, 1107).
Ends == <>(phase \in {"save failed", "saved", "loaded", "cut short"})
==============================================================================
