--------------------------- MODULE XmlStreamProofs ---------------------------
(***************************************************************************)
(* The characters of a file, whatever the text, its length and the sizes   *)
(* of the buffers: the string buffer of mxml_load_data never overflows,    *)
(* for the check of mxml_add_char leaves room for four bytes and the zero  *)
(* byte; what is saved is what was given; and what is loaded is what was   *)
(* written.                                                                *)
(*                                                                         *)
(* The last needs three things: that a loader decodes the bytes of every   *)
(* character to that character and fewer of them to nothing yet (the       *)
(* lemmas on UTF-8 and UTF-16, for every number of Unicode); where the     *)
(* bytes of the n-th character are in the file (Upto); and the invariant,  *)
(* that the bytes at hand are the first of the next character, wherever    *)
(* the pieces that the system hands out end.                               *)
(***************************************************************************)
EXTENDS XmlStream, SequenceFacts

\* The check is made before a character is added: the invariant needs the least
\* size of the buffer besides Fits, for doubling it must make room for one more.
Room == size \in Nat /\ used \in Nat /\ size > 4 /\ Fits

\* A character has one to four bytes.
LEMMA Utf8Length ==
  ASSUME NEW ch
  PROVE  Len(Utf8Bytes(ch)) \in 1 .. 4
<1>1. CASE ch < 128
  BY SMT, <1>1 DEF Utf8Bytes
<1>2. CASE ~(ch < 128) /\ ch < 2048
  BY SMT, <1>2 DEF Utf8Bytes
<1>3. CASE ~(ch < 128) /\ ~(ch < 2048) /\ ch < 65536
  BY SMT, <1>3 DEF Utf8Bytes
<1>4. CASE ~(ch < 128) /\ ~(ch < 2048) /\ ~(ch < 65536)
  BY SMT, <1>4 DEF Utf8Bytes
<1> QED BY <1>1, <1>2, <1>3, <1>4

\* mxml_add_char grows the buffer by enough.
LEMMA GrownEnough ==
  ASSUME NEW n \in Nat, n > 4, NEW at \in Nat, at < n, NEW k \in 1 .. 4
  PROVE  Grown(n, at) \in Nat /\ Grown(n, at) > 4 /\ at + k < Grown(n, at)
<1>1. CASE at < n - 4
  BY <1>1 DEF Grown
<1>2. CASE ~(at < n - 4) /\ n < 1024
  BY SMT, <1>2 DEF Grown
<1>3. CASE ~(at < n - 4) /\ ~(n < 1024)
  BY SMT, <1>3 DEF Grown
<1> QED BY <1>1, <1>2, <1>3

LEMMA RoomInit == Init => Room
<1>1. StartSize \in Nat /\ StartSize > 4
  BY XmlStreamAssumption DEF XmlStreamAssumption
<1> QED BY <1>1 DEF Init, Room, Fits

LEMMA RoomKept == Room /\ [Next]_vars => Room'
<1> SUFFICES ASSUME Room, [Next]_vars PROVE Room'
  OBVIOUS
<1>1. CASE UNCHANGED <<size, used>>
  BY <1>1 DEF Room, Fits
<1>2. CASE Getc
  <2> DEFINE r == getc(Append(bytes, Head(buffer)), encoding)
             k == Len(Utf8Bytes(r.ch))
  <2>1. CASE r.is = "char"
    <3>1. size' = Grown(size, used) /\ used' = used + k
      BY <1>2, <2>1 DEF Getc
    <3>2. k \in 1 .. 4
      BY Utf8Length
    <3> HIDE DEF k
    <3>3. size' \in Nat /\ size' > 4 /\ used + k < size'
      BY <3>1, <3>2, GrownEnough DEF Room, Fits
    <3> QED BY <3>1, <3>2, <3>3 DEF Room, Fits
  <2>2. CASE r.is # "char"
    BY <1>1, <1>2, <2>2 DEF Getc
  <2> QED BY <2>1, <2>2
<1> QED
  BY <1>1, <1>2 DEF Next, Save, Load, Putc, Write, WriteFails, SpaceFails, WriteFailsInSpace, Reopen, Read, ReadFails,
     Interrupted, ReadEnds, loads, vars

\* The string buffer has room for the zero byte that ends the string, however
\* long the text and its characters are (mxml-file.c:625-698).
THEOREM BufferHolds == Spec => []Fits
<1>1. Init => Room
  BY RoomInit
<1>2. Room /\ [Next]_vars => Room'
  BY RoomKept
<1>3. Room => Fits
  BY DEF Room
<1> QED BY <1>1, <1>2, <1>3, PTL DEF Spec
------------------------------------------------------------------------------
(* Encoding and decoding.                                                  *)

Byte == 0..255

\* SMT takes no interval as long as this one.
LEMMA CharNumber ==
  ASSUME NEW ch \in Unicode
  PROVE  ch \in Nat /\ ch <= 1114111
<1>1. LastChar = 1114111
  BY SMT DEF LastChar
<1>2. LastChar \in Nat
  BY SMT DEF LastChar
<1>3. ch \in Nat /\ ch <= LastChar
  BY SMT, <1>2 DEF Unicode
<1> QED BY SMT, <1>1, <1>3

\* Numbers in bases 64: what the bytes of a character are, and what they spell.
LEMMA Digits ==
  ASSUME NEW ch \in Unicode
  PROVE  /\ ch \div 64 \in Nat /\ ch \div 4096 \in Nat /\ ch \div 262144 \in 0..4
         /\ ch % 64 \in 0..63 /\ (ch \div 64) % 64 \in 0..63 /\ (ch \div 4096) % 64 \in 0..63
         /\ ch = ((ch \div 64) * 64) + (ch % 64)
         /\ ch \div 64 = ((ch \div 4096) * 64) + ((ch \div 64) % 64)
         /\ ch \div 4096 = ((ch \div 262144) * 64) + ((ch \div 4096) % 64)
<1>1. ch \in Nat /\ ch <= 1114111
  BY SMT, CharNumber
<1> QED BY SMT, <1>1

\* The bytes of a character, by its size.
LEMMA Utf8Bytes1 ==
  ASSUME NEW ch \in Unicode, ch < 128
  PROVE  /\ Len(Utf8Bytes(ch)) = 1 /\ Utf8Bytes(ch)[1] = ch
  BY SMT DEF Utf8Bytes

LEMMA Utf8Bytes2 ==
  ASSUME NEW ch \in Unicode, ch >= 128, ch < 2048
  PROVE  /\ Len(Utf8Bytes(ch)) = 2
         /\ Utf8Bytes(ch)[1] = 192 + (ch \div 64) /\ Utf8Bytes(ch)[1] \in Nat /\ Utf8Bytes(ch)[1] >= 194 /\ Utf8Bytes(ch)[1] <= 223
         /\ Utf8Bytes(ch)[2] = 128 + (ch % 64) /\ Utf8Bytes(ch)[2] \in Nat /\ Utf8Bytes(ch)[2] >= 128 /\ Utf8Bytes(ch)[2] <= 191
<1>1. /\ ~(ch < 128) /\ ch \div 1 = ch /\ ch \div 64 \in 2..31 /\ ch % 64 \in 0..63
  BY SMT, CharNumber
<1> QED BY SMT, <1>1 DEF Utf8Bytes

LEMMA Utf8Bytes3 ==
  ASSUME NEW ch \in Unicode, ch >= 2048, ch < 65536
  PROVE  /\ Len(Utf8Bytes(ch)) = 3
         /\ Utf8Bytes(ch)[1] = 224 + (ch \div 4096) /\ Utf8Bytes(ch)[1] \in Nat /\ Utf8Bytes(ch)[1] >= 224 /\ Utf8Bytes(ch)[1] <= 239
         /\ Utf8Bytes(ch)[2] = 128 + ((ch \div 64) % 64) /\ Utf8Bytes(ch)[2] \in Nat /\ Utf8Bytes(ch)[2] >= 128 /\ Utf8Bytes(ch)[2] <= 191
         /\ Utf8Bytes(ch)[3] = 128 + (ch % 64) /\ Utf8Bytes(ch)[3] \in Nat /\ Utf8Bytes(ch)[3] >= 128 /\ Utf8Bytes(ch)[3] <= 191
<1>1. /\ ~(ch < 128) /\ ~(ch < 2048) /\ ch \div 1 = ch /\ ch \div 4096 \in 0..15
  BY SMT, CharNumber
<1>2. Utf8Bytes(ch) = <<224 + (ch \div 4096), 128 + ((ch \div 64) % 64), 128 + (ch % 64)>>
  BY SMT, <1>1 DEF Utf8Bytes
<1>3. /\ Len(Utf8Bytes(ch)) = 3
      /\ Utf8Bytes(ch)[1] = 224 + (ch \div 4096) /\ Utf8Bytes(ch)[2] = 128 + ((ch \div 64) % 64)
      /\ Utf8Bytes(ch)[3] = 128 + (ch % 64)
  BY SMT, <1>2
<1>4. 128 + ((ch \div 64) % 64) \in 128..191 /\ 128 + (ch % 64) \in 128..191
  <2>1. (ch \div 64) % 64 \in 0..63 /\ ch % 64 \in 0..63
    BY SMT, Digits
  <2> QED BY SMT, <2>1
<1>5. 224 + (ch \div 4096) \in 224..239
  BY SMT, <1>1
<1> QED BY SMT, <1>3, <1>4, <1>5

LEMMA Utf8Bytes4 ==
  ASSUME NEW ch \in Unicode, ch >= 65536
  PROVE  /\ Len(Utf8Bytes(ch)) = 4
         /\ Utf8Bytes(ch)[1] = 240 + (ch \div 262144) /\ Utf8Bytes(ch)[1] \in Nat /\ Utf8Bytes(ch)[1] >= 240 /\ Utf8Bytes(ch)[1] <= 244
         /\ Utf8Bytes(ch)[2] = 128 + ((ch \div 4096) % 64) /\ Utf8Bytes(ch)[2] \in Nat /\ Utf8Bytes(ch)[2] >= 128 /\ Utf8Bytes(ch)[2] <= 191
         /\ Utf8Bytes(ch)[3] = 128 + ((ch \div 64) % 64) /\ Utf8Bytes(ch)[3] \in Nat /\ Utf8Bytes(ch)[3] >= 128 /\ Utf8Bytes(ch)[3] <= 191
         /\ Utf8Bytes(ch)[4] = 128 + (ch % 64) /\ Utf8Bytes(ch)[4] \in Nat /\ Utf8Bytes(ch)[4] >= 128 /\ Utf8Bytes(ch)[4] <= 191
<1>1. /\ ~(ch < 128) /\ ~(ch < 2048) /\ ~(ch < 65536) /\ ch \div 1 = ch
  BY SMT, CharNumber
<1>2. Utf8Bytes(ch) = <<240 + (ch \div 262144), 128 + ((ch \div 4096) % 64),
                        128 + ((ch \div 64) % 64), 128 + (ch % 64)>>
  BY SMT, <1>1 DEF Utf8Bytes
<1>3. /\ Len(Utf8Bytes(ch)) = 4
      /\ Utf8Bytes(ch)[1] = 240 + (ch \div 262144) /\ Utf8Bytes(ch)[2] = 128 + ((ch \div 4096) % 64)
      /\ Utf8Bytes(ch)[3] = 128 + ((ch \div 64) % 64) /\ Utf8Bytes(ch)[4] = 128 + (ch % 64)
  BY SMT, <1>2
<1>4. /\ 128 + ((ch \div 64) % 64) \in 128..191 /\ 128 + (ch % 64) \in 128..191
      /\ 128 + ((ch \div 4096) % 64) \in 128..191 /\ 240 + (ch \div 262144) \in 240..244
  BY SMT, Digits
<1> QED BY SMT, <1>3, <1>4

LEMMA Utf8Type ==
  ASSUME NEW ch \in Unicode
  PROVE  Utf8Bytes(ch) \in Seq(Byte)
<1>1. CASE ch < 128
  <2>1. ch \in Byte /\ Utf8Bytes(ch) = <<ch>>
    BY SMT, <1>1, CharNumber DEF Byte, Utf8Bytes
  <2> QED BY <2>1
<1>2. CASE ch >= 128 /\ ch < 2048
  <2> DEFINE b1 == Utf8Bytes(ch)[1]  b2 == Utf8Bytes(ch)[2]
  <2>1. b1 \in Byte /\ b2 \in Byte
    BY SMT, <1>2, Utf8Bytes2 DEF Byte
  <2>2. Utf8Bytes(ch) = <<b1, b2>>
    BY SMT, <1>2, CharNumber DEF Utf8Bytes
  <2> HIDE DEF b1, b2
  <2>3. <<b1, b2>> \in Seq(Byte)
    BY <2>1
  <2> QED BY <2>2, <2>3, Zenon
<1>3. CASE ch >= 2048 /\ ch < 65536
  <2> DEFINE b1 == Utf8Bytes(ch)[1]  b2 == Utf8Bytes(ch)[2]  b3 == Utf8Bytes(ch)[3]
  <2>1. b1 \in Byte /\ b2 \in Byte /\ b3 \in Byte
    BY SMT, <1>3, Utf8Bytes3 DEF Byte
  <2>2. Utf8Bytes(ch) = <<b1, b2, b3>>
    BY SMT, <1>3, CharNumber DEF Utf8Bytes
  <2> HIDE DEF b1, b2, b3
  <2>3. <<b1, b2, b3>> \in Seq(Byte)
    BY <2>1
  <2> QED BY SMT, <2>2, <2>3
<1>4. CASE ch >= 65536
  <2> DEFINE b1 == Utf8Bytes(ch)[1]  b2 == Utf8Bytes(ch)[2]  b3 == Utf8Bytes(ch)[3]  b4 == Utf8Bytes(ch)[4]
  <2>1. b1 \in Byte /\ b2 \in Byte /\ b3 \in Byte /\ b4 \in Byte
    BY SMT, <1>4, Utf8Bytes4 DEF Byte
  <2>2. Utf8Bytes(ch) = <<b1, b2, b3, b4>>
    BY SMT, <1>4, CharNumber DEF Utf8Bytes
  <2> HIDE DEF b1, b2, b3, b4
  <2>3. <<b1, b2, b3, b4>> \in Seq(Byte)
    BY <2>1
  <2> QED BY SMT, <2>2, <2>3
<1>5. ch < 128 \/ (ch >= 128 /\ ch < 2048) \/ (ch >= 2048 /\ ch < 65536) \/ ch >= 65536
  BY SMT, CharNumber
<1> QED BY SMT, <1>1, <1>2, <1>3, <1>4, <1>5

\* How many bytes the first one announces.
LEMMA AnnouncedBy ==
  ASSUME NEW x \in Nat
  PROVE  /\ x >= 192 /\ x <= 223 => Announced(x) = 2
         /\ x >= 224 /\ x <= 239 => Announced(x) = 3
         /\ x >= 240 /\ x <= 247 => Announced(x) = 4
<1>1. ASSUME x >= 192, x <= 223 PROVE Announced(x) = 2
  <2>1. x \in 192..223
    BY SMT, <1>1
  <2> QED BY SMT, <2>1 DEF Announced
<1>2. ASSUME x >= 224, x <= 239 PROVE Announced(x) = 3
  <2>1. x \in 224..239 /\ x \notin 192..223
    BY SMT, <1>2
  <2> QED BY SMT, <2>1 DEF Announced
<1>3. ASSUME x >= 240, x <= 247 PROVE Announced(x) = 4
  <2>1. x \in 240..247 /\ x \notin 192..223 /\ x \notin 224..239
    BY SMT, <1>3
  <2> QED BY SMT, <2>1 DEF Announced
<1> QED BY <1>1, <1>2, <1>3

\* What two, three and four bytes spell.
LEMMA SpeltByTwo ==
  ASSUME NEW ch \in Unicode, ch >= 128, ch < 2048
  PROVE  (((192 + (ch \div 64)) % 32) * 64) + ((128 + (ch % 64)) % 64) = ch
<1>1. ch \div 64 \in 0..31
  BY SMT, CharNumber
<1>2. ch % 64 \in 0..63 /\ ch = ((ch \div 64) * 64) + (ch % 64)
  BY SMT, Digits
<1>3. (192 + (ch \div 64)) % 32 = ch \div 64
  BY SMT, <1>1
<1>4. (128 + (ch % 64)) % 64 = ch % 64
  BY SMT, <1>2
<1> QED BY SMT, <1>2, <1>3, <1>4

LEMMA SpeltByThree ==
  ASSUME NEW ch \in Unicode, ch >= 2048, ch < 65536
  PROVE  (((224 + (ch \div 4096)) % 16) * 4096) + (((128 + ((ch \div 64) % 64)) % 64) * 64)
           + ((128 + (ch % 64)) % 64) = ch
<1> DEFINE x == ch \div 4096  y == (ch \div 64) % 64  z == ch % 64
<1>1. x \in 0..15
  BY SMT, CharNumber
<1>2. y \in 0..63 /\ z \in 0..63
  BY SMT, Digits
<1>3. ch = (((x * 64) + y) * 64) + z
  BY SMT, Digits
<1> HIDE DEF x, y, z
<1>4. (224 + x) % 16 = x
  BY SMT, <1>1
<1>5. (128 + y) % 64 = y /\ (128 + z) % 64 = z
  BY SMT, <1>2
<1>6. ch = (x * 4096) + (y * 64) + z
  BY SMT, <1>1, <1>2, <1>3
<1>7. (((224 + x) % 16) * 4096) + (((128 + y) % 64) * 64) + ((128 + z) % 64) = ch
  BY SMT, <1>4, <1>5, <1>6
<1> QED BY SMT, <1>7 DEF x, y, z

LEMMA SpeltByFour ==
  ASSUME NEW ch \in Unicode, ch >= 65536
  PROVE  (((240 + (ch \div 262144)) % 8) * 262144) + (((128 + ((ch \div 4096) % 64)) % 64) * 4096)
           + (((128 + ((ch \div 64) % 64)) % 64) * 64) + ((128 + (ch % 64)) % 64) = ch
<1> DEFINE w == ch \div 262144  x == (ch \div 4096) % 64  y == (ch \div 64) % 64  z == ch % 64
<1>1. w \in 0..4
  BY SMT, Digits
<1>2. x \in 0..63 /\ y \in 0..63 /\ z \in 0..63
  BY SMT, Digits
<1>3. ch = (((((w * 64) + x) * 64) + y) * 64) + z
  BY SMT, Digits
<1> HIDE DEF w, x, y, z
<1>4. (240 + w) % 8 = w
  BY SMT, <1>1
<1>5. (128 + x) % 64 = x /\ (128 + y) % 64 = y /\ (128 + z) % 64 = z
  BY SMT, <1>2
<1>6. ch = (w * 262144) + (x * 4096) + (y * 64) + z
  BY SMT, <1>1, <1>2, <1>3
<1>7. (((240 + w) % 8) * 262144) + (((128 + x) % 64) * 4096) + (((128 + y) % 64) * 64)
        + ((128 + z) % 64) = ch
  BY SMT, <1>4, <1>5, <1>6
<1> QED BY SMT, <1>7 DEF w, x, y, z

\* A character of several bytes, while they come.
LEMMA Utf8Long ==
  ASSUME NEW b, NEW n, NEW first, Len(b) = n, b[1] = first,
         ~(first < 128), first # 254, first # 255, Announced(first) # 0, n > 1 => Continues(b[n])
  PROVE  Utf8(b) = IF n < Announced(first) THEN More ELSE Spelled(b)
<1>1. first \notin {254, 255}
  BY Zenon
<1>2. ~(Announced(first) = 0 \/ (n > 1 /\ ~Continues(Last(b))))
  BY Zenon DEF Last
<1> QED BY ZenonT(60), <1>1, <1>2 DEF Utf8

LEMMA ContinuesIf ==
  ASSUME NEW x \in Nat, x >= 128, x <= 191
  PROVE  Continues(x)
  BY SMT DEF Continues

\* The bytes of a character make that character, and fewer of them nothing yet.
LEMMA Utf8Decoded ==
  ASSUME NEW ch \in Unicode, NEW b, NEW n \in Nat, Len(b) = n, n >= 1, n <= Len(Utf8Bytes(ch)),
         \A i \in 1 .. n : b[i] = Utf8Bytes(ch)[i]
  PROVE  Utf8(b) = IF n < Len(Utf8Bytes(ch)) THEN More
                   ELSE IF bad_char(ch) THEN EOF ELSE IF ch = BOM THEN Again ELSE Got(ch)
<1> DEFINE u == Utf8Bytes(ch)  m == Len(u)
           u1 == u[1]  u2 == u[2]  u3 == u[3]  u4 == u[4]
<1>1. /\ b[1] = u1
      /\ n >= 2 => b[2] = u2
      /\ n >= 3 => b[3] = u3
      /\ n >= 4 => b[4] = u4
  BY SMT
<1>2. ch \in Nat
  BY CharNumber
<1>3. CASE ch < 128
  <2>1. m = 1 /\ u1 = ch
    BY SMT, <1>3, Utf8Bytes1
  <2> HIDE DEF m, u1
  <2>2. n = 1 /\ ~(n < m)
    <3>1. n <= m
      BY Zenon DEF m
    <3> HIDE DEF u
    <3> QED BY SMT, <2>1, <3>1
  <2>3. ch # BOM
    BY SMT, <1>2, <1>3 DEF BOM
  <2>4. Utf8(b) = IF bad_char(b[1]) THEN EOF ELSE Got(b[1])
    <3>1. b[1] < 128
      BY SMT, <1>1, <1>3, <2>1
    <3> QED BY Zenon, <3>1 DEF Utf8
  <2> QED BY Zenon, <1>1, <2>1, <2>2, <2>3, <2>4 DEF m
<1>4. CASE ch >= 128 /\ ch < 2048
  <2>1. m = 2
    BY SMT, <1>4, Utf8Bytes2
  <2>2. /\ u1 \in Nat /\ u1 >= 194 /\ u1 <= 223
        /\ u2 \in Nat /\ u2 >= 128 /\ u2 <= 191
    BY SMT, <1>4, Utf8Bytes2
  <2>3. u1 = 192 + (ch \div 64) /\ u2 = 128 + (ch % 64)
    BY SMT, <1>4, Utf8Bytes2
  <2>4. n <= m
    OBVIOUS
  <2> HIDE DEF u, m, u1, u2, u3, u4
  <2>5. Announced(u1) = 2 /\ u1 >= 192 /\ u1 <= 247
    BY SMT, <2>2, AnnouncedBy
  <2>6. Utf8(b) = IF n < 2 THEN More ELSE Spelled(b)
    <3> DEFINE last == b[n]
    <3>1. n = 1 \/ n = 2
      BY SMT, <2>1, <2>4
    <3>2. n = 1 => ~(n > 1)
      BY SMT
    <3>3. n = 2 => last = u2
      BY SMT, <1>1
    <3>4. Continues(u2)
      BY SMT, <2>2, ContinuesIf
    <3> HIDE DEF last
    <3>5. n > 1 => Continues(last)
      BY Zenon, <3>1, <3>2, <3>3, <3>4
    <3>6. ~(u1 < 128) /\ u1 # 254 /\ u1 # 255 /\ Announced(u1) # 0
      BY SMT, <2>2, <2>5
    <3>7. b[1] = u1
      BY Zenon, <1>1
    <3>8. n > 1 => Continues(b[n])
      BY Zenon, <3>5 DEF last
    <3>9. Utf8(b) = IF n < Announced(u1) THEN More ELSE Spelled(b)
      BY ONLY Zenon, Len(b) = n, <3>6, <3>7, <3>8, Utf8Long
    <3> QED BY Zenon, <2>5, <3>9
  <2>7. ASSUME n >= 2 PROVE Spelled(b) = Got(ch)
    <3>1. n = 2 /\ n >= 2
      BY SMT, <2>1, <2>4, <2>7
    <3>2. Two(b) = ((u1 % 32) * 64) + (u2 % 64)
      BY SMT, <1>1, <3>1 DEF Two
    <3>3. Two(b) = ch
      BY SMT, <3>2, <2>3, <1>4, SpeltByTwo
    <3>4. ~(ch < 128)
      BY SMT, <1>2, <1>4
    <3> QED BY SMT, <3>1, <3>3, <3>4 DEF Spelled
  <2>8. ~bad_char(ch) /\ ch # BOM
    BY SMT, <1>2, <1>4 DEF bad_char, BOM
  <2>9. n < 2 \/ n >= 2
    OBVIOUS
  <2>10. Utf8(b) = IF n < m THEN More ELSE Got(ch)
    BY SMT, <2>1, <2>6, <2>7, <2>9
  <2> QED BY Zenon, <2>8, <2>10 DEF m, u
<1>5. CASE ch >= 2048 /\ ch < 65536
  <2>1. m = 3
    BY SMT, <1>5, Utf8Bytes3
  <2>2. /\ u1 \in Nat /\ u1 >= 224 /\ u1 <= 239
        /\ u2 \in Nat /\ u2 >= 128 /\ u2 <= 191
        /\ u3 \in Nat /\ u3 >= 128 /\ u3 <= 191
    BY SMT, <1>5, Utf8Bytes3
  <2>3. u1 = 224 + (ch \div 4096) /\ u2 = 128 + ((ch \div 64) % 64) /\ u3 = 128 + (ch % 64)
    BY SMT, <1>5, Utf8Bytes3
  <2>4. n <= m
    OBVIOUS
  <2> HIDE DEF u, m, u1, u2, u3, u4
  <2>5. Announced(u1) = 3 /\ u1 >= 192 /\ u1 <= 247
    BY SMT, <2>2, AnnouncedBy
  <2>6. Utf8(b) = IF n < 3 THEN More ELSE Spelled(b)
    <3> DEFINE last == b[n]
    <3>1. n = 1 \/ n = 2 \/ n = 3
      BY SMT, <2>1, <2>4
    <3>2. n = 1 => ~(n > 1)
      BY SMT
    <3>3. n = 2 => last = u2
      BY SMT, <1>1
    <3>4. n = 3 => last = u3
      BY SMT, <1>1
    <3>5. Continues(u2) /\ Continues(u3)
      BY SMT, <2>2, ContinuesIf
    <3> HIDE DEF last
    <3>6. n > 1 => Continues(last)
      BY Zenon, <3>1, <3>2, <3>3, <3>4, <3>5
    <3>7. ~(u1 < 128) /\ u1 # 254 /\ u1 # 255 /\ Announced(u1) # 0
      BY SMT, <2>2, <2>5
    <3>8. b[1] = u1
      BY Zenon, <1>1
    <3>9. n > 1 => Continues(b[n])
      BY Zenon, <3>6 DEF last
    <3>10. Utf8(b) = IF n < Announced(u1) THEN More ELSE Spelled(b)
      BY ONLY Zenon, Len(b) = n, <3>7, <3>8, <3>9, Utf8Long
    <3> QED BY Zenon, <2>5, <3>10
  <2>7. ASSUME n >= 3 PROVE Spelled(b) = IF ch = BOM THEN Again ELSE Got(ch)
    <3>1. n = 3 /\ n >= 2 /\ n >= 3
      BY SMT, <2>1, <2>4, <2>7
    <3>2. Three(b) = ((u1 % 16) * 4096) + ((u2 % 64) * 64) + (u3 % 64)
      BY SMT, <1>1, <3>1 DEF Three
    <3>3. Three(b) = ch
      BY SMT, <3>2, <2>3, <1>5, SpeltByThree
    <3>4. ~(ch < 2048)
      BY SMT, <1>2, <1>5
    <3> QED BY SMT, <3>1, <3>3, <3>4 DEF Spelled
  <2>8. ~bad_char(ch)
    BY SMT, <1>2, <1>5 DEF bad_char
  <2>9. n < 3 \/ n >= 3
    OBVIOUS
  <2>10. Utf8(b) = IF n < m THEN More ELSE IF ch = BOM THEN Again ELSE Got(ch)
    BY SMT, <2>1, <2>6, <2>7, <2>9
  <2> QED BY Zenon, <2>8, <2>10 DEF m, u
<1>6. CASE ch >= 65536
  <2>1. m = 4
    BY SMT, <1>6, Utf8Bytes4
  <2>2. /\ u1 \in Nat /\ u1 >= 240 /\ u1 <= 244
        /\ u2 \in Nat /\ u2 >= 128 /\ u2 <= 191
        /\ u3 \in Nat /\ u3 >= 128 /\ u3 <= 191
        /\ u4 \in Nat /\ u4 >= 128 /\ u4 <= 191
    BY SMT, <1>6, Utf8Bytes4
  <2>3. u1 = 240 + (ch \div 262144) /\ u2 = 128 + ((ch \div 4096) % 64) /\ u3 = 128 + ((ch \div 64) % 64) /\ u4 = 128 + (ch % 64)
    BY SMT, <1>6, Utf8Bytes4
  <2>4. n <= m
    OBVIOUS
  <2> HIDE DEF u, m, u1, u2, u3, u4
  <2>5. Announced(u1) = 4 /\ u1 >= 192 /\ u1 <= 247
    BY SMT, <2>2, AnnouncedBy
  <2>6. Utf8(b) = IF n < 4 THEN More ELSE Spelled(b)
    <3> DEFINE last == b[n]
    <3>1. n = 1 \/ n = 2 \/ n = 3 \/ n = 4
      BY SMT, <2>1, <2>4
    <3>2. n = 1 => ~(n > 1)
      BY SMT
    <3>3. n = 2 => last = u2
      BY SMT, <1>1
    <3>4. n = 3 => last = u3
      BY SMT, <1>1
    <3>5. n = 4 => last = u4
      BY SMT, <1>1
    <3>6. Continues(u2) /\ Continues(u3) /\ Continues(u4)
      BY SMT, <2>2, ContinuesIf
    <3> HIDE DEF last
    <3>7. n > 1 => Continues(last)
      BY Zenon, <3>1, <3>2, <3>3, <3>4, <3>5, <3>6
    <3>8. ~(u1 < 128) /\ u1 # 254 /\ u1 # 255 /\ Announced(u1) # 0
      BY SMT, <2>2, <2>5
    <3>9. b[1] = u1
      BY Zenon, <1>1
    <3>10. n > 1 => Continues(b[n])
      BY Zenon, <3>7 DEF last
    <3>11. Utf8(b) = IF n < Announced(u1) THEN More ELSE Spelled(b)
      BY ONLY Zenon, Len(b) = n, <3>8, <3>9, <3>10, Utf8Long
    <3> QED BY Zenon, <2>5, <3>11
  <2>7. ASSUME n >= 4 PROVE Spelled(b) = Got(ch)
    <3>1. n = 4 /\ n >= 2 /\ n >= 3 /\ n >= 4
      BY SMT, <2>1, <2>4, <2>7
    <3>2. Four(b) = ((u1 % 8) * 262144) + ((u2 % 64) * 4096) + ((u3 % 64) * 64) + (u4 % 64)
      BY SMT, <1>1, <3>1 DEF Four
    <3>3. Four(b) = ch
      BY SMT, <3>2, <2>3, <1>6, SpeltByFour
    <3>4. ~(ch < 65536)
      BY SMT, <1>2, <1>6
    <3> QED BY SMT, <3>1, <3>3, <3>4 DEF Spelled
  <2>8. ~bad_char(ch) /\ ch # BOM
    BY SMT, <1>2, <1>6 DEF bad_char, BOM
  <2>9. n < 4 \/ n >= 4
    OBVIOUS
  <2>10. Utf8(b) = IF n < m THEN More ELSE Got(ch)
    BY SMT, <2>1, <2>6, <2>7, <2>9
  <2> QED BY Zenon, <2>8, <2>10 DEF m, u
<1>7. ch < 128 \/ (ch >= 128 /\ ch < 2048) \/ (ch >= 2048 /\ ch < 65536) \/ ch >= 65536
  BY SMT, CharNumber
<1> QED BY SMT, <1>3, <1>4, <1>5, <1>6, <1>7

\* The two bytes of a word make that word.
LEMMA WordBytesOf ==
  ASSUME NEW w \in Nat, w <= 65535, NEW e \in {"UTF16BE", "UTF16LE"}
  PROVE  /\ WordBytes(w, e) \in Seq(Byte) /\ Len(WordBytes(w, e)) = 2
         /\ WordBytes(w, e)[1] \in Byte /\ WordBytes(w, e)[2] \in Byte
<1> DEFINE x == w \div 256  y == w % 256
<1>1. x \in Byte /\ y \in Byte
  <2>1. x \in Nat /\ y \in Nat /\ x <= 255 /\ y <= 255
    BY SMT
  <2> HIDE DEF x, y
  <2> QED BY SMT, <2>1 DEF Byte
<1> HIDE DEF x, y
<1>2. /\ <<x, y>> \in Seq(Byte) /\ Len(<<x, y>>) = 2
      /\ <<x, y>>[1] \in Byte /\ <<x, y>>[2] \in Byte
  BY SMT, <1>1
<1>3. /\ <<y, x>> \in Seq(Byte) /\ Len(<<y, x>>) = 2
      /\ <<y, x>>[1] \in Byte /\ <<y, x>>[2] \in Byte
  BY SMT, <1>1
<1>4. WordBytes(w, e) = IF e = "UTF16BE" THEN <<x, y>> ELSE <<y, x>>
  BY SMT DEF WordBytes, x, y
<1>5. CASE e = "UTF16BE"
  <2>1. WordBytes(w, e) = <<x, y>>
    BY SMT, <1>4, <1>5
  <2> QED BY SMT, <1>2, <2>1
<1>6. CASE e # "UTF16BE"
  <2>1. WordBytes(w, e) = <<y, x>>
    BY SMT, <1>4, <1>6
  <2> QED BY SMT, <1>3, <2>1
<1> QED BY SMT, <1>5, <1>6

LEMMA WordRead ==
  ASSUME NEW w \in Nat, w <= 65535, NEW e \in {"UTF16BE", "UTF16LE"}, NEW b, NEW i \in Nat,
         b[i] = WordBytes(w, e)[1], b[i + 1] = WordBytes(w, e)[2]
  PROVE  Word(b, i, e) = w
<1> DEFINE x == w \div 256  y == w % 256
<1>1. w = (x * 256) + y
  BY SMT
<1> HIDE DEF x, y
<1>2. WordBytes(w, e) = IF e = "UTF16BE" THEN <<x, y>> ELSE <<y, x>>
  BY SMT DEF WordBytes, x, y
<1>3. CASE e = "UTF16BE"
  <2>1. b[i] = x /\ b[i + 1] = y
    BY SMT, <1>2, <1>3
  <2> QED BY SMT, <1>1, <1>3, <2>1 DEF Word
<1>4. CASE e # "UTF16BE"
  <2>1. b[i] = y /\ b[i + 1] = x
    BY SMT, <1>2, <1>4
  <2> QED BY SMT, <1>1, <1>4, <2>1 DEF Word
<1> QED BY SMT, <1>3, <1>4

\* The pair of a character above 65535, and the character of a pair.
LEMMA PairOf ==
  ASSUME NEW ch \in Unicode, ch >= 65536
  PROVE  LET high == 55296 + ((ch - 65536) \div 1024)
             low  == 56320 + ((ch - 65536) % 1024) IN
         /\ high \in Nat /\ high >= 55296 /\ high <= 56319
         /\ low \in Nat /\ low >= 56320 /\ low <= 57343
         /\ ((high % 1024) * 1024) + (low % 1024) + 65536 = ch
         /\ low >= 57343 <=> (ch - 65536) % 1024 = 1023
<1> DEFINE v == ch - 65536  x == v \div 1024  y == v % 1024
<1>1. v \in Nat /\ v <= 1048575 /\ ch = v + 65536
  BY SMT, CharNumber
<1> HIDE DEF v
<1>2. x \in Nat /\ x <= 1023 /\ y \in Nat /\ y <= 1023 /\ v = (x * 1024) + y
  BY SMT, <1>1
<1> HIDE DEF x, y
<1>3. (55296 + x) % 1024 = x /\ (56320 + y) % 1024 = y
  BY SMT, <1>2
<1>4. /\ 55296 + x \in Nat /\ 55296 + x >= 55296 /\ 55296 + x <= 56319
      /\ 56320 + y \in Nat /\ 56320 + y >= 56320 /\ 56320 + y <= 57343
      /\ (56320 + y >= 57343) <=> (y = 1023)
  BY SMT, <1>2
<1>5. (((55296 + x) % 1024) * 1024) + ((56320 + y) % 1024) + 65536 = ch
  BY SMT, <1>1, <1>2, <1>3
<1> QED BY SMT, <1>4, <1>5 DEF x, y, v

\* The bytes of a character in UTF-16: those of one word, or of a pair.
LEMMA OneWord ==
  ASSUME NEW ch \in Unicode, ch <= 65535, NEW e \in {"UTF16BE", "UTF16LE"}
  PROVE  /\ Utf16Bytes(ch, e) = WordBytes(ch, e) /\ Utf16Bytes(ch, e) \in Seq(Byte)
         /\ Len(Utf16Bytes(ch, e)) = 2
<1>1. ch \in Nat /\ ch < 65536
  BY SMT, CharNumber
<1>2. Utf16Bytes(ch, e) = WordBytes(ch, e)
  BY SMT, <1>1 DEF Utf16Bytes
<1>3. WordBytes(ch, e) \in Seq(Byte) /\ Len(WordBytes(ch, e)) = 2
  BY SMT, <1>1, WordBytesOf
<1> QED BY SMT, <1>2, <1>3

LEMMA TwoPairs ==
  ASSUME NEW S, NEW h \in Seq(S), NEW l \in Seq(S), Len(h) = 2, Len(l) = 2
  PROVE  /\ h \o l \in Seq(S) /\ Len(h \o l) = 4
         /\ (h \o l)[1] = h[1] /\ (h \o l)[2] = h[2]
         /\ (h \o l)[3] = l[1] /\ (h \o l)[4] = l[2]
<1>1. /\ h \o l \in Seq(S)
      /\ Len(h \o l) = Len(h) + Len(l)
      /\ \A i \in 1 .. Len(h) + Len(l) :
           (h \o l)[i] = IF i <= Len(h) THEN h[i] ELSE l[i - Len(h)]
  BY ConcatProperties
<1>2. /\ 2 + 2 = 4 /\ 1 \in 1 .. 4 /\ 2 \in 1 .. 4 /\ 3 \in 1 .. 4 /\ 4 \in 1 .. 4
      /\ 1 <= 2 /\ 2 <= 2 /\ ~(3 <= 2) /\ ~(4 <= 2) /\ 3 - 2 = 1 /\ 4 - 2 = 2
  OBVIOUS
<1> QED BY <1>1, <1>2

LEMMA TwoWords ==
  ASSUME NEW ch \in Unicode, ch >= 65536, NEW e \in {"UTF16BE", "UTF16LE"}
  PROVE  LET high == 55296 + ((ch - 65536) \div 1024)
             low  == 56320 + ((ch - 65536) % 1024)
             u    == Utf16Bytes(ch, e) IN
         /\ u \in Seq(Byte) /\ Len(u) = 4
         /\ u[1] = WordBytes(high, e)[1] /\ u[2] = WordBytes(high, e)[2]
         /\ u[3] = WordBytes(low, e)[1] /\ u[4] = WordBytes(low, e)[2]
<1> DEFINE high == 55296 + ((ch - 65536) \div 1024)
           low  == 56320 + ((ch - 65536) % 1024)
           h == WordBytes(high, e)  l == WordBytes(low, e)
           u == Utf16Bytes(ch, e)
<1>1. high \in Nat /\ high <= 65535 /\ low \in Nat /\ low <= 65535
  <2>1. /\ high \in Nat /\ high <= 56319 /\ low \in Nat /\ low <= 57343
    BY SMT, PairOf
  <2> HIDE DEF high, low
  <2> QED BY SMT, <2>1
<1>2. u = h \o l
  <2>1. ~(ch < 65536)
    BY SMT, CharNumber
  <2> QED BY SMT, <2>1 DEF Utf16Bytes
<1> HIDE DEF high, low, u
<1>3. h \in Seq(Byte) /\ l \in Seq(Byte) /\ Len(h) = 2 /\ Len(l) = 2
  BY SMT, <1>1, WordBytesOf
<1> HIDE DEF h, l
<1>4. /\ h \o l \in Seq(Byte) /\ Len(h \o l) = 4
      /\ (h \o l)[1] = h[1] /\ (h \o l)[2] = h[2]
      /\ (h \o l)[3] = l[1] /\ (h \o l)[4] = l[2]
  BY SMT, <1>3, TwoPairs
<1> QED BY SMTT(30), <1>2, <1>4 DEF u, h, l, high, low

\* A word that is no half of a pair; and both halves.
LEMMA Utf16One ==
  ASSUME NEW b, NEW e, NEW w, NEW n, Len(b) = n, ~(n < 2), Word(b, 1, e) = w,
         ~(w >= 55296 /\ w <= 56319)
  PROVE  Utf16(b, e) = IF bad_char(w) THEN EOF ELSE Got(w)
  BY SMT DEF Utf16

LEMMA Utf16Pair ==
  ASSUME NEW b, NEW e, NEW w, NEW l, NEW n, Len(b) = n, ~(n < 2), ~(n < 4),
         Word(b, 1, e) = w, Word(b, 3, e) = l,
         ~bad_char(w), w >= 55296 /\ w <= 56319
  PROVE  Utf16(b, e) = IF l < 56320 \/ l >= 57343 THEN EOF
                       ELSE Got(((w % 1024) * 1024) + (l % 1024) + 65536)
  BY SMT DEF Utf16

\* A low surrogate that is the last of all (mxml-file.c:940).
LastLow(ch) == ch >= 65536 /\ (ch - 65536) % 1024 = 1023

LEMMA Utf16Decoded ==
  ASSUME NEW ch \in Unicode, ~Surrogate(ch), NEW e \in {"UTF16BE", "UTF16LE"},
         NEW b, NEW n \in Nat, Len(b) = n, n >= 1, n <= Len(Utf16Bytes(ch, e)),
         \A i \in 1 .. n : b[i] = Utf16Bytes(ch, e)[i]
  PROVE  Utf16(b, e) = IF n < Len(Utf16Bytes(ch, e)) THEN More
                       ELSE IF bad_char(ch) \/ LastLow(ch) THEN EOF ELSE Got(ch)
<1> DEFINE u == Utf16Bytes(ch, e)  m == Len(u)
<1>1. n <= m
  OBVIOUS
<1>2. /\ n >= 2 => b[1] = u[1] /\ b[2] = u[2]
      /\ n >= 4 => b[3] = u[3] /\ b[4] = u[4]
  BY SMT
<1>3. ASSUME n < 2 PROVE Utf16(b, e) = More
  BY SMT, <1>3 DEF Utf16
<1>4. ch \in Nat
  BY SMT, CharNumber
<1>5. CASE ch <= 65535
  <2>1. m = 2 /\ u = WordBytes(ch, e)
    BY SMT, <1>5, OneWord
  <2>2. n < 2 \/ (n = 2 /\ n >= 2 /\ ~(n < 2) /\ ~(n < m))
    <3> HIDE DEF m, u
    <3> QED BY SMT, <1>1, <2>1
  <2>3. CASE n < 2
    <3>1. n < m
      <4> HIDE DEF m, u
      <4> QED BY SMT, <2>1, <2>3
    <3> QED BY SMT, <1>3, <2>3, <3>1
  <2>4. CASE n = 2 /\ n >= 2 /\ ~(n < 2) /\ ~(n < m)
    <3>1. Word(b, 1, e) = ch
      <4>1. b[1] = WordBytes(ch, e)[1] /\ b[1 + 1] = WordBytes(ch, e)[2]
        BY SMT, <1>2, <2>1, <2>4
      <4> QED BY SMT, <1>4, <1>5, <4>1, WordRead
    <3>2. ~(ch >= 55296 /\ ch <= 56319) /\ ~LastLow(ch)
      BY SMT, <1>4, <1>5 DEF Surrogate, LastLow
    <3>3. Utf16(b, e) = IF bad_char(ch) THEN EOF ELSE Got(ch)
      BY SMT, <2>4, <3>1, <3>2, Utf16One
    <3> QED BY SMT, <2>4, <3>2, <3>3
  <2> QED BY SMT, <2>2, <2>3, <2>4
<1>6. CASE ch >= 65536
  <2> DEFINE high == 55296 + ((ch - 65536) \div 1024)
             low  == 56320 + ((ch - 65536) % 1024)
  <2>1. /\ m = 4
        /\ u[1] = WordBytes(high, e)[1] /\ u[2] = WordBytes(high, e)[2]
        /\ u[3] = WordBytes(low, e)[1] /\ u[4] = WordBytes(low, e)[2]
    BY SMT, <1>6, TwoWords
  <2>2. /\ high \in Nat /\ high >= 55296 /\ high <= 56319
        /\ low \in Nat /\ low >= 56320 /\ low <= 57343
        /\ ((high % 1024) * 1024) + (low % 1024) + 65536 = ch
        /\ low >= 57343 <=> (ch - 65536) % 1024 = 1023
    BY SMT, <1>6, PairOf
  <2>3. LastLow(ch) <=> low >= 57343
    BY SMT, <1>6, <2>2 DEF LastLow
  <2> HIDE DEF high, low, m, u
  <2>4. high <= 65535 /\ low <= 65535 /\ ~bad_char(high) /\ ~bad_char(ch) /\ ~(low < 56320)
    BY SMT, <1>4, <1>6, <2>2 DEF bad_char
  <2>5. ASSUME n >= 2 PROVE Word(b, 1, e) = high
    <3>1. b[1] = WordBytes(high, e)[1] /\ b[1 + 1] = WordBytes(high, e)[2]
      BY SMT, <1>2, <2>1, <2>5
    <3> QED BY SMTT(30), <2>2, <2>4, <3>1, WordRead
  <2>6. ASSUME n >= 4 PROVE Word(b, 3, e) = low
    <3>1. b[3] = WordBytes(low, e)[1] /\ b[4] = WordBytes(low, e)[2]
      BY SMT, <1>2, <2>1, <2>6
    <3>2. 3 + 1 = 4 /\ 3 \in Nat
      BY SMT
    <3>3. b[3 + 1] = WordBytes(low, e)[2]
      BY SMT, <3>1, <3>2
    <3>4. low \in Nat /\ low <= 65535
      BY SMT, <2>2, <2>4
    <3> QED BY SMTT(30), <3>1, <3>2, <3>3, <3>4, WordRead
  <2>7. CASE n < 2
    <3>1. n < m
      BY SMT, <2>1, <2>7
    <3> QED BY SMT, <1>3, <2>7, <3>1 DEF m, u
  <2>8. CASE n >= 2 /\ n < 4
    <3>1. n < m /\ ~(n < 2) /\ n < 4
      BY SMT, <2>1, <2>8
    <3>2. Word(b, 1, e) = high
      BY SMT, <2>5, <2>8
    <3>3. high >= 55296 /\ high <= 56319 /\ ~bad_char(high)
      BY SMT, <2>2, <2>4
    <3>4. Utf16(b, e) = More
      <4> QED BY SMT, <3>1, <3>2, <3>3 DEF Utf16
    <3> QED BY SMT, <3>1, <3>4 DEF m, u
  <2>9. CASE n >= 4
    <3>1. ~(n < m) /\ ~(n < 2) /\ ~(n < 4) /\ n >= 2
      BY SMT, <2>1, <2>9
    <3>2. Utf16(b, e) = IF low < 56320 \/ low >= 57343 THEN EOF
                        ELSE Got(((high % 1024) * 1024) + (low % 1024) + 65536)
      <4>1. Word(b, 1, e) = high /\ Word(b, 3, e) = low
        BY SMT, <2>5, <2>6, <2>9, <3>1
      <4>2. high >= 55296 /\ high <= 56319 /\ ~bad_char(high)
        BY SMT, <2>2, <2>4
      <4> QED BY SMTT(30), <3>1, <4>1, <4>2, Utf16Pair
    <3>3. Utf16(b, e) = IF low >= 57343 THEN EOF ELSE Got(ch)
      BY SMT, <2>2, <2>4, <3>2
    <3> QED BY SMT, <2>3, <2>4, <3>1, <3>3 DEF m, u
  <2>10. n < 2 \/ (n >= 2 /\ n < 4) \/ n >= 4
    BY SMT
  <2> QED BY SMT, <2>7, <2>8, <2>9, <2>10
<1>7. ch <= 65535 \/ ch >= 65536
  BY SMT, <1>4
<1> QED BY SMT, <1>5, <1>6, <1>7

------------------------------------------------------------------------------
(* The bytes of the file, character by character.                          *)

\* The bytes of the first n characters, and what a loader makes of them.
Upto(n) == FlattenSeq([i \in 1 .. n |-> Encoded(Stored[i])])
Kept(n) == FlattenSeq([i \in 1 .. n |-> Loaded(i)])

GivenOK ==
  /\ text \in Seq(Chars) /\ format \in {"UTF8", "UTF16BE", "UTF16LE"}
  /\ source \in {"fd", "file", "string"}

LEMMA BOMIs == BOM \in Unicode /\ ~Surrogate(BOM)
<1>1. BOM = 65279
  BY SMT DEF BOM
<1>2. LastChar = 1114111
  BY SMT DEF LastChar
<1>3. BOM \in Nat /\ BOM <= LastChar /\ LastChar \in Nat
  BY SMT, <1>1, <1>2
<1>4. BOM \in Unicode
  BY SMT, <1>3 DEF Unicode
<1>5. ~Surrogate(BOM)
  BY SMT, <1>1 DEF Surrogate
<1> QED BY SMT, <1>4, <1>5

LEMMA StoredIs ==
  ASSUME GivenOK
  PROVE  /\ Stored \in Seq(Unicode) /\ Len(Stored) \in Nat /\ DOMAIN Stored = 1 .. Len(Stored)
         /\ \A i \in 1 .. Len(Stored) : Stored[i] \in Unicode /\ ~Surrogate(Stored[i])
         /\ format # "UTF8" => Len(Stored) >= 1 /\ Stored[1] = BOM
<1> DEFINE C == {ch \in Unicode : ~Surrogate(ch)}
<1>1. Chars \subseteq C
  BY XmlStreamAssumption DEF XmlStreamAssumption
<1>2. BOM \in C
  BY BOMIs
<1> HIDE DEF C
<1>3. text \in Seq(C)
  BY <1>1, SeqMonotonic DEF GivenOK
<1>4. <<BOM>> \in Seq(C) /\ Len(<<BOM>>) = 1 /\ <<BOM>>[1] = BOM
  BY <1>2
<1>5. /\ <<BOM>> \o text \in Seq(C) /\ Len(<<BOM>> \o text) >= 1
      /\ (<<BOM>> \o text)[1] = BOM
  <2>1. /\ <<BOM>> \o text \in Seq(C)
        /\ Len(<<BOM>> \o text) = Len(<<BOM>>) + Len(text)
        /\ \A i \in 1 .. Len(<<BOM>>) + Len(text) :
             (<<BOM>> \o text)[i] = IF i <= Len(<<BOM>>) THEN <<BOM>>[i] ELSE text[i - Len(<<BOM>>)]
    BY <1>3, <1>4, ConcatProperties
  <2>2. Len(text) \in Nat
    BY <1>3, LenProperties
  <2> QED BY <1>4, <2>1, <2>2
<1>6. Stored \in Seq(C) /\ (format # "UTF8" => Len(Stored) >= 1 /\ Stored[1] = BOM)
  BY <1>3, <1>5, Zenon DEF Stored
<1>7. Len(Stored) \in Nat /\ DOMAIN Stored = 1 .. Len(Stored) /\ \A i \in 1 .. Len(Stored) : Stored[i] \in C
  BY <1>6, LenProperties, ElementOfSeq
<1>8. Stored \in Seq(Unicode)
  BY <1>6, SeqMonotonic DEF C
<1> QED BY <1>6, <1>7, <1>8 DEF C

LEMMA EncodedIs ==
  ASSUME GivenOK, NEW ch \in Unicode
  PROVE  Encoded(ch) \in Seq(Byte) /\ Len(Encoded(ch)) \in 1 .. 4
<1>1. CASE format = "UTF8"
  <2>1. Utf8Bytes(ch) \in Seq(Byte) /\ Len(Utf8Bytes(ch)) \in 1 .. 4
    BY Utf8Type, Utf8Length, Zenon
  <2> QED BY <1>1, <2>1, Zenon DEF Encoded
<1>2. CASE format # "UTF8"
  <2>1. format \in {"UTF16BE", "UTF16LE"}
    BY <1>2 DEF GivenOK
  <2>2. Encoded(ch) = Utf16Bytes(ch, format)
    BY <1>2, Zenon DEF Encoded
  <2>3. ch \in Nat
    BY SMT, CharNumber
  <2>4. ch <= 65535 \/ ch >= 65536
    BY SMT, <2>3
  <2>5. /\ Utf16Bytes(ch, format) \in Seq(Byte)
        /\ Len(Utf16Bytes(ch, format)) = 2 \/ Len(Utf16Bytes(ch, format)) = 4
    BY SMT, <2>1, <2>4, OneWord, TwoWords
  <2>6. 2 \in 1 .. 4 /\ 4 \in 1 .. 4
    OBVIOUS
  <2> QED BY <2>2, <2>5, <2>6, Zenon
<1> QED BY <1>1, <1>2, Zenon

\* The characters' bytes follow each other.
LEMMA UptoIs ==
  ASSUME GivenOK, NEW n \in 0 .. Len(Stored)
  PROVE  /\ Upto(0) = << >> /\ Upto(n) \in Seq(Byte) /\ Contents = Upto(Len(Stored))
         /\ n < Len(Stored) => Upto(n + 1) = Upto(n) \o Encoded(Stored[n + 1])
         /\ Len(Upto(n)) <= Len(Contents)
         /\ \A i \in 1 .. Len(Upto(n)) : Contents[i] = Upto(n)[i]
<1> DEFINE m == Len(Stored)
           f == [i \in 1 .. m |-> Encoded(Stored[i])]
<1>1. m \in Nat /\ DOMAIN Stored = 1 .. m /\ \A i \in 1 .. m : Stored[i] \in Unicode
  BY StoredIs
<1> HIDE DEF m
<1>2. \A i \in 1 .. m : Encoded(Stored[i]) \in Seq(Byte)
  BY <1>1, EncodedIs, Zenon
<1>3. f \in [1 .. m -> Seq(Byte)]
  BY <1>2
<1>4. ASSUME NEW k \in 0 .. m PROVE Joined(f, k) = Upto(k)
  <2>1. \A i \in 1 .. k : i \in 1 .. m
    BY <1>1
  <2>2. [i \in 1 .. k |-> f[i]] = [i \in 1 .. k |-> Encoded(Stored[i])]
    BY <2>1
  <2> QED BY <2>2, Zenon DEF Joined, Upto
<1>5. Contents = Upto(m)
  BY <1>1, Zenon DEF Contents, Upto
<1> HIDE DEF f
<1>6. n \in 0 .. m /\ 0 \in 0 .. m /\ m \in 0 .. m /\ m \in n .. m
  BY <1>1 DEF m
<1>7. Joined(f, 0) = << >> /\ Joined(f, n) \in Seq(Byte)
  BY <1>1, <1>3, <1>6, FlattenNext
<1>8. n < m => Upto(n + 1) = Upto(n) \o Encoded(Stored[n + 1])
  <2> SUFFICES ASSUME n < m PROVE Upto(n + 1) = Upto(n) \o Encoded(Stored[n + 1])
    OBVIOUS
  <2>1. n + 1 \in 0 .. m /\ n + 1 \in 1 .. m
    BY <1>1, <1>6
  <2>2. /\ Joined(f, n) \in Seq(Byte)
        /\ n < m => Joined(f, n + 1) = Joined(f, n) \o f[n + 1]
    BY <1>1, <1>3, <1>6, FlattenNext
  <2>3. f[n + 1] = Encoded(Stored[n + 1])
    BY <2>1 DEF f
  <2>4. Joined(f, n + 1) = Upto(n + 1) /\ Joined(f, n) = Upto(n)
    BY <1>4, <1>6, <2>1, Zenon
  <2> QED BY <2>2, <2>3, <2>4, Zenon
<1>9. /\ Len(Joined(f, n)) <= Len(Joined(f, m))
      /\ \A i \in 1 .. Len(Joined(f, n)) : Joined(f, m)[i] = Joined(f, n)[i]
  BY <1>1, <1>3, <1>6, FlattenGrows, SMTT(30) DEF ComesFirst
<1>10. Joined(f, 0) = Upto(0) /\ Joined(f, n) = Upto(n) /\ Joined(f, m) = Upto(m)
  BY <1>4, <1>6, Zenon
<1> QED BY <1>5, <1>7, <1>8, <1>9, <1>10, Zenon DEF m

\* Where the bytes of a character are in the file.
LEMMA UnitAt ==
  ASSUME GivenOK, NEW n \in 0 .. Len(Stored), n < Len(Stored)
  PROVE  LET u == Encoded(Stored[n + 1]) IN
         /\ Len(Upto(n)) \in Nat /\ Len(u) \in 1 .. 4 /\ n + 1 \in 0 .. Len(Stored)
         /\ Len(Upto(n + 1)) = Len(Upto(n)) + Len(u)
         /\ Len(Upto(n)) + Len(u) <= Len(Contents)
         /\ \A i \in 1 .. Len(u) : Contents[Len(Upto(n)) + i] = u[i]
<1> DEFINE u == Encoded(Stored[n + 1])
           s == Upto(n)
<1>1. n + 1 \in 1 .. Len(Stored) /\ n + 1 \in 0 .. Len(Stored)
  BY StoredIs
<1>2. u \in Seq(Byte) /\ Len(u) \in 1 .. 4
  BY <1>1, StoredIs, EncodedIs, Zenon
<1>3. s \in Seq(Byte) /\ Upto(n + 1) = s \o u
  BY UptoIs, Zenon
<1>4. Len(Upto(n + 1)) <= Len(Contents) /\ \A i \in 1 .. Len(Upto(n + 1)) : Contents[i] = Upto(n + 1)[i]
  BY <1>1, UptoIs, Zenon
<1> HIDE DEF u, s
<1>5. Len(s) \in Nat /\ Len(u) \in Nat
  BY <1>2, <1>3, LenProperties
<1>6. /\ Len(s \o u) = Len(s) + Len(u)
      /\ \A i \in 1 .. Len(s) + Len(u) : (s \o u)[i] = IF i <= Len(s) THEN s[i] ELSE u[i - Len(s)]
  BY <1>2, <1>3, ConcatProperties
<1>7. ASSUME NEW i \in 1 .. Len(u) PROVE Contents[Len(s) + i] = u[i]
  <2> DEFINE k == Len(s)
  <2>1. /\ k + i \in 1 .. k + Len(u) /\ ~(k + i <= k) /\ (k + i) - k = i
    <3> HIDE DEF k
    <3>1. k \in Nat
      BY <1>5 DEF k
    <3> QED BY <3>1, <1>5
  <2>2. (s \o u)[k + i] = u[i]
    BY <1>6, <2>1, Zenon
  <2> QED BY <1>3, <1>4, <1>6, <2>1, <2>2, Zenon
<1> QED BY <1>1, <1>2, <1>3, <1>4, <1>5, <1>6, <1>7, Zenon DEF u, s

------------------------------------------------------------------------------
(* What the functions that get a character make of the bytes.              *)

\* The encoding of the next character, when n have been read.
EncodingAt(n) == IF format = "UTF8" \/ n = 0 THEN "UTF8" ELSE format

\* b is the first k bytes of u.
Begins(b, k, u) == Len(b) = k /\ k \in Nat /\ k >= 1 /\ k <= Len(u) /\ \A i \in 1 .. k : b[i] = u[i]

\* In UTF-8 a zero byte is no character anyway.
LEMMA GetcUtf8 ==
  ASSUME GivenOK, NEW b
  PROVE  getc(b, "UTF8") = Utf8(b)
<1>1. ASSUME b[1] = 0 PROVE Utf8(b) = EOF
  <2>1. b[1] < 128 /\ bad_char(b[1])
    BY SMT, <1>1 DEF bad_char
  <2> QED BY <2>1, Zenon DEF Utf8
<1>2. mxml_string_getc(b, "UTF8") = Utf8(b)
  BY <1>1, Zenon DEF mxml_string_getc
<1>3. mxml_fd_getc(b, "UTF8") = Utf8(b) /\ mxml_file_getc(b, "UTF8") = Utf8(b)
  BY Zenon DEF mxml_fd_getc, mxml_file_getc
<1>4. source = "fd" \/ source = "file" \/ source = "string"
  BY Zenon DEF GivenOK
<1>5. CASE source = "fd"
  BY <1>3, <1>5 DEF getc
<1>6. CASE source = "file"
  BY <1>3, <1>6 DEF getc
<1>7. CASE source = "string"
  BY <1>2, <1>7 DEF getc
<1> QED BY <1>4, <1>5, <1>6, <1>7

\* In UTF-16, a zero byte ends a big-endian string.
LEMMA GetcUtf16 ==
  ASSUME GivenOK, format # "UTF8", NEW b
  PROVE  getc(b, format) = IF source = "string" /\ format = "UTF16BE" /\ b[1] = 0 THEN EOF
                           ELSE Utf16(b, format)
<1>1. (format = "UTF16BE" \/ format = "UTF16LE") /\ "UTF16BE" # "UTF16LE"
  BY DEF GivenOK
<1>2. mxml_string_getc(b, format) = IF format = "UTF16BE" /\ b[1] = 0 THEN EOF ELSE Utf16(b, format)
  BY <1>1, Zenon DEF mxml_string_getc
<1>3. mxml_fd_getc(b, format) = Utf16(b, format) /\ mxml_file_getc(b, format) = Utf16(b, format)
  BY Zenon DEF mxml_fd_getc, mxml_file_getc
<1>4. source = "fd" \/ source = "file" \/ source = "string"
  BY Zenon DEF GivenOK
<1>5. CASE source = "fd"
  BY <1>3, <1>5 DEF getc
<1>6. CASE source = "file"
  BY <1>3, <1>6 DEF getc
<1>7. CASE source = "string"
  BY <1>2, <1>7 DEF getc
<1> QED BY <1>4, <1>5, <1>6, <1>7

\* The answers differ.
LEMMA Answers ==
  /\ More.is = "more" /\ EOF.is = "EOF" /\ Again.is = "again"
  /\ \A e : Switch(e).is = "switch" /\ Switch(e).encoding = e
  /\ \A ch : Got(ch).is = "char" /\ Got(ch).ch = ch
  BY DEF More, EOF, Again, Switch, Got

\* The byte order mark of UTF-16, read as UTF-8.
LEMMA MarkDecoded ==
  ASSUME NEW e \in {"UTF16BE", "UTF16LE"}, NEW b \in Seq(Byte), NEW k,
         Begins(b, k, Utf16Bytes(BOM, e))
  PROVE  /\ Len(Utf16Bytes(BOM, e)) = 2
         /\ Utf8(b) = IF k < 2 THEN More ELSE Switch(e)
<1>1. BOM = 65279 /\ BOM \in Unicode
  <2>1. BOM = 65279
    BY SMT DEF BOM
  <2> QED BY SMT, <2>1, BOMIs
<1>2. BOM \div 256 = 254 /\ BOM % 256 = 255 /\ BOM <= 65535
  BY SMT, <1>1
<1>3. Utf16Bytes(BOM, e) = WordBytes(BOM, e) /\ Len(Utf16Bytes(BOM, e)) = 2
  BY SMT, <1>1, <1>2, OneWord
<1>4. WordBytes(BOM, e) = IF e = "UTF16BE" THEN <<254, 255>> ELSE <<255, 254>>
  BY SMT, <1>2 DEF WordBytes
<1>5. k = 1 \/ k = 2
  <2>1. k \in Nat /\ k >= 1 /\ k <= 2
    BY <1>3 DEF Begins
  <2> QED BY <2>1
<1>6. Len(b) = k /\ b[1] = WordBytes(BOM, e)[1] /\ (k = 2 => b[2] = WordBytes(BOM, e)[2])
  <2>1. \A i \in 1 .. k : b[i] = WordBytes(BOM, e)[i]
    BY <1>3, Zenon DEF Begins
  <2>2. 1 \in 1 .. k /\ (k = 2 => 2 \in 1 .. k)
    BY SMT, <1>5
  <2>3. Len(b) = k
    BY Zenon DEF Begins
  <2> QED BY <2>1, <2>2, <2>3, Zenon
<1>7. ~(b[1] < 128) /\ b[1] \in {254, 255}
  BY SMT, <1>4, <1>6
<1>8. CASE k = 1
  <2>1. Utf8(b) = More
    BY SMT, <1>6, <1>7, <1>8 DEF Utf8
  <2> QED BY SMT, <2>1, <1>3, <1>8
<1>9. CASE k = 2
  <2>1. Utf8(b) = Switch(e)
    <3>1. DOMAIN b = 1 .. 2 /\ b = [i \in 1 .. 2 |-> b[i]]
      BY <1>6, <1>9
    <3>2. b = <<b[1], b[2]>>
      BY SMT, <3>1
    <3>3. Len(b) # 1 /\ b[1] = WordBytes(BOM, e)[1] /\ b[2] = WordBytes(BOM, e)[2]
      BY SMT, <1>6, <1>9
    <3>4. CASE e = "UTF16BE"
      <4>1. b = <<254, 255>>
        BY SMT, <1>4, <3>2, <3>3, <3>4
      <4> QED BY SMT, <1>7, <3>3, <3>4, <4>1 DEF Utf8
    <3>5. CASE e = "UTF16LE"
      <4>1. b[1] = 255 /\ b[2] = 254
        BY SMT, <1>4, <3>3, <3>5
      <4>2. b = <<255, 254>>
        BY SMT, <3>2, <4>1
      <4>3. b # <<254, 255>>
        BY SMT, <4>1
      <4> QED BY SMT, <1>7, <3>3, <3>5, <4>2, <4>3 DEF Utf8
    <3> QED BY SMT, <3>4, <3>5
  <2> QED BY SMT, <2>1, <1>3, <1>9
<1> QED BY SMT, <1>5, <1>8, <1>9

------------------------------------------------------------------------------
(* What a loader makes of the first characters.                            *)

LEMMA LoadedIs ==
  ASSUME GivenOK, NEW i \in 1 .. Len(Stored)
  PROVE  Loaded(i) \in Seq(Unicode)
<1>1. Stored[i] \in Unicode
  BY StoredIs
<1>2. <<Stored[i]>> \in Seq(Unicode) /\ << >> \in Seq(Unicode)
  BY <1>1
<1> QED BY <1>2, Zenon DEF Loaded

LEMMA KeptIs ==
  ASSUME GivenOK, NEW n \in 0 .. Len(Stored), NEW k \in n .. Len(Stored)
  PROVE  /\ Kept(0) = << >> /\ Kept(n) \in Seq(Unicode)
         /\ n < Len(Stored) => Kept(n + 1) = Kept(n) \o Loaded(n + 1)
         /\ Len(Kept(n)) <= Len(Kept(k))
         /\ \A i \in 1 .. Len(Kept(n)) : Kept(k)[i] = Kept(n)[i]
<1> DEFINE m == Len(Stored)
           f == [i \in 1 .. m |-> Loaded(i)]
<1>1. m \in Nat
  BY StoredIs
<1>2. \A i \in 1 .. m : Loaded(i) \in Seq(Unicode)
  BY LoadedIs, Zenon
<1> HIDE DEF m
<1>3. f \in [1 .. m -> Seq(Unicode)]
  BY <1>2
<1>4. ASSUME NEW j \in 0 .. m PROVE Joined(f, j) = Kept(j)
  <2>1. \A i \in 1 .. j : i \in 1 .. m
    BY <1>1
  <2>2. [i \in 1 .. j |-> f[i]] = [i \in 1 .. j |-> Loaded(i)]
    BY <2>1
  <2> QED BY <2>2, Zenon DEF Joined, Kept
<1> HIDE DEF f
<1>5. n \in 0 .. m /\ 0 \in 0 .. m /\ k \in n .. m /\ k \in 0 .. m
  BY <1>1 DEF m
<1>6. Joined(f, 0) = << >> /\ Joined(f, n) \in Seq(Unicode)
  BY <1>1, <1>3, <1>5, FlattenNext
<1>7. n < m => Kept(n + 1) = Kept(n) \o Loaded(n + 1)
  <2> SUFFICES ASSUME n < m PROVE Kept(n + 1) = Kept(n) \o Loaded(n + 1)
    OBVIOUS
  <2>1. n + 1 \in 0 .. m /\ n + 1 \in 1 .. m
    BY <1>1, <1>5
  <2>2. /\ Joined(f, n) \in Seq(Unicode)
        /\ n < m => Joined(f, n + 1) = Joined(f, n) \o f[n + 1]
    BY <1>1, <1>3, <1>5, FlattenNext
  <2>3. f[n + 1] = Loaded(n + 1)
    BY <2>1 DEF f
  <2>4. Joined(f, n + 1) = Kept(n + 1) /\ Joined(f, n) = Kept(n)
    BY <1>4, <1>5, <2>1, Zenon
  <2> QED BY <2>2, <2>3, <2>4, Zenon
<1>8. /\ Len(Joined(f, n)) <= Len(Joined(f, k))
      /\ \A i \in 1 .. Len(Joined(f, n)) : Joined(f, k)[i] = Joined(f, n)[i]
  BY <1>1, <1>3, <1>5, FlattenGrows DEF ComesFirst
<1>9. Joined(f, 0) = Kept(0) /\ Joined(f, n) = Kept(n) /\ Joined(f, k) = Kept(k)
  BY <1>4, <1>5, Zenon
<1> QED BY <1>6, <1>7, <1>8, <1>9, Zenon DEF m

\* The first n characters can be read.
AllReadable(n) == n \in 0 .. Len(Stored) /\ \A i \in 1 .. n : ~Unreadable(Stored[i])

\* What can be read are the first characters.
LEMMA ReadableIs ==
  ASSUME GivenOK
  PROVE  \E r : AllReadable(r) /\ Readable = 1 .. r
<1> DEFINE m == Len(Stored)
<1>1. m \in Nat /\ DOMAIN Stored = 1 .. m
  BY StoredIs
<1>2. Readable = {i \in 1 .. m : \A j \in 1 .. i : ~Unreadable(Stored[j])}
  BY <1>1, Zenon DEF Readable
<1> HIDE DEF m
<1>3. CASE Readable = {}
  <2>1. 0 \in 0 .. m /\ 1 .. 0 = {}
    BY <1>1
  <2> QED BY <1>3, <2>1 DEF AllReadable, m
<1>4. CASE Readable # {}
  <2> DEFINE r == Max(Readable)
  <2>1. r \in Readable /\ \A y \in Readable : r >= y
    BY <1>1, <1>2, <1>4, Largest
  <2> HIDE DEF r
  <2>2. r \in 1 .. m /\ \A j \in 1 .. r : ~Unreadable(Stored[j])
    BY <1>2, <2>1, Zenon
  <2>3. ASSUME NEW i \in 1 .. r PROVE i \in Readable
    <3>1. i \in 1 .. m /\ \A j \in 1 .. i : j \in 1 .. r
      BY <1>1, <2>2
    <3> QED BY <1>2, <2>2, <3>1, Zenon
  <2>4. ASSUME NEW i \in Readable PROVE i \in 1 .. r
    <3>1. i \in 1 .. m /\ r >= i
      BY <1>2, <2>1
    <3> QED BY <1>1, <2>2, <3>1
  <2>5. r \in 0 .. m
    BY <1>1, <2>2
  <2> QED BY <2>2, <2>3, <2>4, <2>5 DEF AllReadable, m
<1> QED BY <1>3, <1>4

LEMMA ExpectedIs ==
  ASSUME GivenOK, NEW n, AllReadable(n)
  PROVE  /\ Kept(n) \in Seq(Unicode) /\ Expected \in Seq(Unicode)
         /\ Len(Kept(n)) <= Len(Expected)
         /\ \A i \in 1 .. Len(Kept(n)) : Expected[i] = Kept(n)[i]
         /\ n = Len(Stored) \/ Unreadable(Stored[n + 1]) => Expected = Kept(n)
<1>1. PICK r : AllReadable(r) /\ Readable = 1 .. r
  BY ReadableIs
<1>2. Expected = Kept(r)
  BY <1>1, Zenon DEF Expected, Kept
<1>3. Len(Stored) \in Nat /\ DOMAIN Stored = 1 .. Len(Stored)
  BY StoredIs
<1>4. n \in 0 .. Len(Stored) /\ r \in 0 .. Len(Stored)
  BY <1>1 DEF AllReadable
<1>5. n <= r
  <2> SUFFICES ASSUME ~(n <= r) PROVE FALSE
    OBVIOUS
  <2>1. n \in 1 .. Len(Stored) /\ n \in 1 .. n /\ n \notin 1 .. r
    BY <1>3, <1>4
  <2>2. \A j \in 1 .. n : ~Unreadable(Stored[j])
    BY DEF AllReadable
  <2>3. n \in Readable
    BY <1>3, <2>1, <2>2, Zenon DEF Readable
  <2> QED BY <1>1, <2>1, <2>3
<1>6. r \in n .. Len(Stored) /\ r \in r .. Len(Stored)
  BY <1>3, <1>4, <1>5
<1>7. /\ Kept(n) \in Seq(Unicode) /\ Kept(r) \in Seq(Unicode)
      /\ Len(Kept(n)) <= Len(Kept(r))
      /\ \A i \in 1 .. Len(Kept(n)) : Kept(r)[i] = Kept(n)[i]
  BY <1>4, <1>6, KeptIs, Zenon
<1>8. ASSUME n = Len(Stored) \/ Unreadable(Stored[n + 1]) PROVE n = r
  <2>1. CASE n = Len(Stored)
    <3> DEFINE m == Len(Stored)
    <3>1. m \in Nat /\ n = m /\ r \in 0 .. m /\ n <= r
      BY <1>3, <1>4, <1>5, <2>1
    <3> HIDE DEF m
    <3> QED BY <3>1
  <2>2. CASE Unreadable(Stored[n + 1])
    <3>1. n + 1 \notin 1 .. r
      BY <1>1, <2>2, Zenon DEF AllReadable
    <3> DEFINE m == Len(Stored)
    <3>2. m \in Nat /\ n \in 0 .. m /\ r \in 0 .. m /\ n <= r
      BY <1>3, <1>4, <1>5
    <3> HIDE DEF m
    <3> QED BY <3>1, <3>2
  <2> QED BY <1>8, <2>1, <2>2
<1> QED BY <1>2, <1>7, <1>8, Zenon

------------------------------------------------------------------------------
(* What a call of getc answers.                                            *)

\* The first byte of a big-endian character below 256 is zero, and no other.
LEMMA FirstZero ==
  ASSUME NEW ch \in Unicode
  PROVE  Utf16Bytes(ch, "UTF16BE")[1] = 0 <=> ch < 256
<1>1. ch \in Nat
  BY SMT, CharNumber
<1>2. ASSUME NEW w \in Nat PROVE WordBytes(w, "UTF16BE")[1] = 0 <=> w < 256
  <2> DEFINE x == w \div 256  y == w % 256
  <2>1. x \in Nat /\ (x = 0 <=> w < 256)
    BY SMT
  <2>2. WordBytes(w, "UTF16BE") = <<x, y>>
    BY SMT DEF WordBytes
  <2> HIDE DEF x, y
  <2> QED BY SMT, <2>1, <2>2
<1>3. CASE ch <= 65535
  <2>1. Utf16Bytes(ch, "UTF16BE") = WordBytes(ch, "UTF16BE")
    BY SMT, <1>3, OneWord
  <2> QED BY SMT, <1>1, <1>2, <2>1
<1>4. CASE ch >= 65536
  <2> DEFINE high == 55296 + ((ch - 65536) \div 1024)
  <2>1. Utf16Bytes(ch, "UTF16BE")[1] = WordBytes(high, "UTF16BE")[1]
    BY SMT, <1>4, TwoWords
  <2>2. high \in Nat /\ high >= 55296
    BY SMT, <1>4, PairOf
  <2> HIDE DEF high
  <2> QED BY SMT, <1>1, <1>2, <1>4, <2>1, <2>2
<1> QED BY SMT, <1>1, <1>3, <1>4

\* The answer to the first k bytes of the character after the first n.
GetcAnswers(n, b, k) ==
  LET ch == Stored[n + 1]
      r  == getc(b, EncodingAt(n)) IN
  /\ ~Unreadable(ch) /\ k < Len(Encoded(ch)) => r = More
  /\ ~Unreadable(ch) /\ k = Len(Encoded(ch)) =>
       \/ r = Got(ch) /\ Loaded(n + 1) = <<ch>> /\ EncodingAt(n + 1) = EncodingAt(n)
       \/ r = Again /\ Loaded(n + 1) = << >> /\ EncodingAt(n + 1) = EncodingAt(n)
       \/ r = Switch(EncodingAt(n + 1)) /\ Loaded(n + 1) = << >>
  /\ Unreadable(ch) => r = EOF \/ (r = More /\ k < Len(Encoded(ch)))

LEMMA AnswersUtf8 ==
  ASSUME GivenOK, format = "UTF8", NEW n \in 0 .. Len(Stored), n < Len(Stored), NEW b, NEW k,
         Begins(b, k, Encoded(Stored[n + 1]))
  PROVE  GetcAnswers(n, b, k)
<1> DEFINE ch == Stored[n + 1]
           u == Encoded(ch)
<1>1. n + 1 \in 1 .. Len(Stored)
  BY StoredIs
<1>2. ch \in Unicode
  BY <1>1, StoredIs, Zenon
<1>3. u = Utf8Bytes(ch)
  BY Zenon DEF Encoded
<1>4. EncodingAt(n) = "UTF8" /\ EncodingAt(n + 1) = "UTF8"
  BY Zenon DEF EncodingAt
<1>5. Unreadable(ch) <=> bad_char(ch)
  BY SMT DEF Unreadable
<1>6. Loaded(n + 1) = IF ch = BOM THEN << >> ELSE <<ch>>
  BY Zenon DEF Loaded
<1>7. getc(b, EncodingAt(n)) = Utf8(b)
  BY <1>4, GetcUtf8, Zenon
<1> HIDE DEF ch, u
<1>8. Begins(b, k, u)
  BY Zenon DEF u, ch
<1>9. /\ k \in Nat /\ Len(b) = k /\ k >= 1 /\ k <= Len(u) /\ \A i \in 1 .. k : b[i] = u[i]
  BY <1>8, Zenon DEF Begins
<1>10. Utf8(b) = IF k < Len(u) THEN More
                 ELSE IF bad_char(ch) THEN EOF ELSE IF ch = BOM THEN Again ELSE Got(ch)
  BY SMT, <1>2, <1>3, <1>9, Utf8Decoded
<1>11. k = Len(u) => ~(k < Len(u))
  <2> DEFINE m == Len(u)
  <2>1. k = m => ~(k < m)
    <3> HIDE DEF m
    <3> QED BY <1>9
  <2> QED BY <2>1
<1>12. ~(k < Len(u)) => k = Len(u)
  <2> DEFINE m == Len(u)
  <2>1. m \in 1 .. 4
    BY <1>2, EncodedIs, Zenon DEF u
  <2>2. k \in Nat /\ k <= m
    BY <1>9
  <2> HIDE DEF m
  <2>3. ~(k < m) => k = m
    BY <2>1, <2>2
  <2> QED BY <2>3 DEF m
<1>13. /\ ~bad_char(ch) /\ k < Len(u) => Utf8(b) = More
       /\ ~bad_char(ch) /\ k = Len(u) =>
            \/ Utf8(b) = Got(ch) /\ Loaded(n + 1) = <<ch>>
            \/ Utf8(b) = Again /\ Loaded(n + 1) = << >>
       /\ bad_char(ch) => Utf8(b) = EOF \/ (Utf8(b) = More /\ k < Len(u))
  BY <1>6, <1>10, <1>11, Zenon
<1> QED BY <1>4, <1>5, <1>7, <1>13, Zenon DEF GetcAnswers, u, ch

LEMMA AnswersMark ==
  ASSUME GivenOK, format # "UTF8", 0 < Len(Stored), NEW b \in Seq(Byte), NEW k,
         Begins(b, k, Encoded(Stored[1]))
  PROVE  GetcAnswers(0, b, k)
<1>1. Stored[0 + 1] = BOM
  BY StoredIs
<1>2. format \in {"UTF16BE", "UTF16LE"}
  BY DEF GivenOK
<1>3. Encoded(BOM) = Utf16Bytes(BOM, format)
  BY Zenon DEF Encoded
<1>4. EncodingAt(0) = "UTF8" /\ EncodingAt(0 + 1) = format
  BY DEF EncodingAt
<1>5. ~Unreadable(BOM)
  BY SMT DEF Unreadable, BOM, bad_char
<1>6. Loaded(0 + 1) = << >>
  BY <1>1 DEF Loaded
<1>7. getc(b, EncodingAt(0)) = Utf8(b)
  BY <1>4, GetcUtf8, Zenon
<1>8. Begins(b, k, Utf16Bytes(BOM, format))
  BY <1>1, <1>3
<1>9. Len(Utf16Bytes(BOM, format)) = 2 /\ Utf8(b) = IF k < 2 THEN More ELSE Switch(format)
  BY SMT, <1>2, <1>8, MarkDecoded
<1>10. /\ k < 2 => Utf8(b) = More
       /\ k = 2 => Utf8(b) = Switch(format)
  BY SMT, <1>9
<1>11. Len(Encoded(Stored[0 + 1])) = 2
  BY <1>1, <1>3, <1>9, Zenon
<1> QED BY <1>1, <1>4, <1>5, <1>6, <1>7, <1>10, <1>11, Zenon DEF GetcAnswers

LEMMA AnswersUtf16 ==
  ASSUME GivenOK, format # "UTF8", NEW n \in 0 .. Len(Stored), n < Len(Stored), n # 0,
         NEW b, NEW k, Begins(b, k, Encoded(Stored[n + 1]))
  PROVE  GetcAnswers(n, b, k)
<1> DEFINE ch == Stored[n + 1]
           u == Encoded(ch)
<1>1. n + 1 \in 1 .. Len(Stored) /\ n + 1 # 0 /\ n + 1 # 1
  BY StoredIs
<1>2. ch \in Unicode /\ ~Surrogate(ch)
  BY <1>1, StoredIs, Zenon
<1>3. u = Utf16Bytes(ch, format)
  BY Zenon DEF Encoded
<1>4. format \in {"UTF16BE", "UTF16LE"}
  BY DEF GivenOK
<1>5. EncodingAt(n) = format /\ EncodingAt(n + 1) = format
  BY <1>1, Zenon DEF EncodingAt
<1>6. Loaded(n + 1) = <<ch>>
  BY <1>1, Zenon DEF Loaded
<1> HIDE DEF ch, u
<1>7. Begins(b, k, u)
  BY Zenon DEF u, ch
<1>8. /\ k \in Nat /\ Len(b) = k /\ k >= 1 /\ k <= Len(u) /\ \A i \in 1 .. k : b[i] = u[i]
  BY <1>7, Zenon DEF Begins
<1>9. Utf16(b, format) = IF k < Len(u) THEN More
                         ELSE IF bad_char(ch) \/ LastLow(ch) THEN EOF ELSE Got(ch)
  BY SMT, <1>2, <1>3, <1>4, <1>8, Utf16Decoded
<1>10. Unreadable(ch) <=> \/ bad_char(ch) \/ LastLow(ch)
                          \/ format = "UTF16BE" /\ source = "string" /\ ch < 256
  <2>1. ch \in Nat
    BY SMT, <1>2, CharNumber
  <2>2. ch > 65535 <=> ch >= 65536
    BY SMT, <2>1
  <2> QED BY SMT, <2>2 DEF Unreadable, LastLow
<1>11. format = "UTF16BE" => (b[1] = 0 <=> ch < 256)
  <2> SUFFICES ASSUME format = "UTF16BE" PROVE b[1] = 0 <=> ch < 256
    OBVIOUS
  <2>1. 1 \in 1 .. k
    BY <1>8
  <2>2. b[1] = u[1]
    BY <1>8, <2>1, Zenon
  <2>3. u = Utf16Bytes(ch, "UTF16BE")
    BY <1>3, Zenon
  <2>4. Utf16Bytes(ch, "UTF16BE")[1] = 0 <=> ch < 256
    BY <1>2, FirstZero, Zenon
  <2> QED BY <2>2, <2>3, <2>4, Zenon
<1>12. k = Len(u) <=> ~(k < Len(u))
  <2> DEFINE m == Len(u)
  <2>1. m \in 1 .. 4
    BY <1>2, EncodedIs, Zenon DEF u
  <2>2. k \in Nat /\ k <= m
    BY <1>8
  <2> HIDE DEF m
  <2>3. k = m <=> ~(k < m)
    BY <2>1, <2>2
  <2> QED BY <2>3 DEF m
<1>13. getc(b, format) = IF source = "string" /\ format = "UTF16BE" /\ b[1] = 0 THEN EOF
                         ELSE Utf16(b, format)
  BY GetcUtf16, Zenon
<1> DEFINE r == getc(b, format)
<1>14. /\ ~Unreadable(ch) /\ k < Len(u) => r = More
       /\ ~Unreadable(ch) /\ k = Len(u) => r = Got(ch)
       /\ Unreadable(ch) => r = EOF \/ (r = More /\ k < Len(u))
  BY <1>9, <1>10, <1>11, <1>12, <1>13, Zenon
<1> QED BY <1>5, <1>6, <1>14, Zenon DEF GetcAnswers, u, ch

LEMMA AnswersOfGetc ==
  ASSUME GivenOK, NEW n \in 0 .. Len(Stored), n < Len(Stored), NEW b \in Seq(Byte), NEW k,
         Begins(b, k, Encoded(Stored[n + 1]))
  PROVE  GetcAnswers(n, b, k)
<1>1. CASE format = "UTF8"
  BY <1>1, AnswersUtf8, Zenon
<1>2. CASE format # "UTF8" /\ n # 0
  BY <1>2, AnswersUtf16, Zenon
<1>3. CASE format # "UTF8" /\ n = 0
  <2>1. Begins(b, k, Encoded(Stored[1])) /\ 0 < Len(Stored)
    BY <1>3
  <2>2. GetcAnswers(0, b, k)
    BY <1>3, <2>1, AnswersMark
  <2> QED BY <1>3, <2>2, Zenon
<1> QED BY <1>1, <1>2, <1>3, Zenon

\* The zero bytes that end a string; the first is enough but for little-endian words.
LEMMA AnswersEnd ==
  ASSUME GivenOK, source = "string", NEW b, NEW k, Len(b) = k, k = 1 \/ k = 2, b[1] = 0,
         k = 2 => format = "UTF16LE" /\ b[2] = 0
  PROVE  getc(b, EncodingAt(Len(Stored))) = IF format = "UTF16LE" /\ k = 1 THEN More ELSE EOF
<1>1. CASE format = "UTF8"
  <2>1. EncodingAt(Len(Stored)) = "UTF8" /\ format # "UTF16LE"
    BY <1>1 DEF EncodingAt
  <2>2. bad_char(b[1]) /\ b[1] < 128
    BY SMT DEF bad_char
  <2>3. Utf8(b) = EOF
    BY <2>2, Zenon DEF Utf8
  <2> QED BY <2>1, <2>3, GetcUtf8, Zenon
<1>2. CASE format # "UTF8"
  <2>1. Len(Stored) >= 1
    BY <1>2, StoredIs
  <2>2. EncodingAt(Len(Stored)) = format
    <3>1. Len(Stored) # 0
      BY <2>1
    <3> QED BY <1>2, <3>1, Zenon DEF EncodingAt
  <2>3. getc(b, format) = IF source = "string" /\ format = "UTF16BE" /\ b[1] = 0 THEN EOF
                          ELSE Utf16(b, format)
    BY <1>2, GetcUtf16, Zenon
  <2>4. CASE format = "UTF16BE"
    BY <2>2, <2>3, <2>4
  <2>5. CASE format = "UTF16LE"
    <3>1. CASE k = 1
      <4>1. Utf16(b, format) = More
        BY SMT, <3>1 DEF Utf16
      <4> QED BY <2>2, <2>3, <2>5, <3>1, <4>1
    <3>2. CASE k = 2
      <4>1. Word(b, 1, "UTF16LE") = 0
        BY SMT, <3>2 DEF Word
      <4>2. bad_char(0)
        BY SMT DEF bad_char
      <4>3. Utf16(b, "UTF16LE") = EOF
        BY SMT, <3>2, <4>1, <4>2 DEF Utf16
      <4>4. k # 1
        BY <3>2
      <4> QED BY <2>2, <2>3, <2>5, <4>3, <4>4
    <3> QED BY <3>1, <3>2
  <2> QED BY <1>2, <2>4, <2>5 DEF GivenOK
<1> QED BY <1>1, <1>2

------------------------------------------------------------------------------
(* The invariant of saving and loading.                                    *)

Types ==
  /\ GivenOK
  /\ phase \in {"saving", "writing", "loading", "save failed", "loaded", "cut short"}
  /\ encoding \in {"UTF8", "UTF16BE", "UTF16LE"}
  /\ file \in Seq(Byte) /\ buffer \in Seq(Byte) /\ bytes \in Seq(Byte)
  /\ put \in Nat /\ pos \in Nat
  /\ Len(buffer) <= BufSize

\* Until the file is saved: what has been put is in the file or in the buffer.
SavedSoFar ==
  /\ format = "UTF8" /\ pos = 0 /\ bytes = << >> /\ got = << >> /\ encoding = "UTF8"
  /\ put = Len(file) + Len(buffer) /\ put <= Len(Contents)
  /\ \A i \in 1 .. Len(file) : file[i] = Contents[i]
  /\ \A i \in 1 .. Len(buffer) : buffer[i] = Contents[Len(file) + i]

\* Of the p bytes that have been read, the first at make characters, bs are those
\* that follow, and bf the last.
Placed(at, p, bs, bf) ==
  /\ p = at + Len(bs) + Len(bf)
  /\ \A i \in 1 .. Len(bs) : bs[i] = Bytes[at + i]
  /\ \A i \in 1 .. Len(bf) : bf[i] = Bytes[at + Len(bs) + i]

\* After n characters, bs is not yet the next one; at the end, it may be the
\* first of the two zero bytes.
Part(n, bs) ==
  IF n < Len(Stored) THEN Len(bs) < Len(Encoded(Stored[n + 1]))
  ELSE \/ Len(bs) = 0
       \/ Len(bs) = 1 /\ source = "string" /\ format = "UTF16LE"

\* n characters have been read.
Decoding(n) ==
  /\ AllReadable(n) /\ got = Kept(n) /\ encoding = EncodingAt(n)
  /\ Placed(Len(Upto(n)), pos, bytes, buffer) /\ Part(n, bytes)

StreamInv ==
  /\ Types
  /\ phase \in {"saving", "writing", "save failed"} => SavedSoFar
  /\ phase \in {"loading", "loaded", "cut short"} => file = Contents /\ pos <= Len(Bytes)
  /\ phase \in {"loading", "cut short"} => \E n \in 0 .. Len(Stored) : Decoding(n)
  /\ phase = "loaded" => got = Expected /\ Len(bytes) < 4

\* What is given stays, and so does what is made of it.
LEMMA GivenStays ==
  ASSUME UNCHANGED given
  PROVE  /\ Stored' = Stored /\ Contents' = Contents /\ Expected' = Expected /\ (GivenOK => GivenOK')
         /\ \A n : Upto(n)' = Upto(n) /\ Kept(n)' = Kept(n) /\ EncodingAt(n)' = EncodingAt(n)
         /\ \A n : AllReadable(n)' = AllReadable(n)
         /\ \A n, bs : Part(n, bs)' = Part(n, bs)
<1>1. text' = text /\ format' = format /\ source' = source
  BY DEF given
<1>2. Stored' = Stored
  BY <1>1, Zenon DEF Stored
<1>3. \A ch : Encoded(ch)' = Encoded(ch)
  BY <1>1, Zenon DEF Encoded
<1>4. \A ch : Unreadable(ch)' = Unreadable(ch)
  BY SMT, <1>1 DEF Unreadable
<1>5. \A i : Loaded(i)' = Loaded(i)
  BY <1>1, <1>2, Zenon DEF Loaded
<1>6. Readable' = Readable
  BY <1>2, <1>4, Zenon DEF Readable
<1>7. Expected' = Expected
  BY <1>5, <1>6, Zenon DEF Expected
<1>8. Contents' = Contents
  BY <1>1, <1>2, Zenon DEF Contents, Encoded
<1>9. \A n : Upto(n)' = Upto(n)
  BY <1>1, <1>2, Zenon DEF Upto, Encoded
<1>10. \A n : Kept(n)' = Kept(n)
  BY <1>5, Zenon DEF Kept
<1>11. \A n : EncodingAt(n)' = EncodingAt(n)
  BY <1>1, Zenon DEF EncodingAt
<1>12. \A n : AllReadable(n)' = AllReadable(n)
  BY SMT, <1>1, <1>2 DEF AllReadable, Unreadable
<1>13. \A n, bs : Part(n, bs)' = Part(n, bs)
  BY <1>1, <1>2, Zenon DEF Part, Encoded
<1>14. GivenOK => GivenOK'
  BY <1>1, Zenon DEF GivenOK
<1> QED BY <1>2, <1>7, <1>8, <1>9, <1>10, <1>11, <1>12, <1>13, <1>14, Zenon

LEMMA FileStays ==
  ASSUME UNCHANGED <<given, file>>
  PROVE  Bytes' = Bytes /\ \A at, p, bs, bf : Placed(at, p, bs, bf)' = Placed(at, p, bs, bf)
<1>1. source' = source /\ file' = file
  BY DEF given
<1>2. Bytes' = Bytes
  BY <1>1, Zenon DEF Bytes
<1> QED BY <1>2, ZenonT(60) DEF Placed

\* The bytes a loader may get.
LEMMA BytesAre ==
  ASSUME Types
  PROVE  /\ Bytes \in Seq(Byte) /\ Len(Bytes) \in Nat /\ Len(file) \in Nat /\ Len(file) <= Len(Bytes)
         /\ \A i \in 1 .. Len(file) : Bytes[i] = file[i]
         /\ source # "string" => Len(Bytes) = Len(file)
         /\ source = "string" => /\ Len(Bytes) = Len(file) + 2
                                 /\ Bytes[Len(file) + 1] = 0 /\ Bytes[Len(file) + 2] = 0
<1> DEFINE zeros == <<0, 0>>
<1>1. file \in Seq(Byte) /\ Len(file) \in Nat
  BY LenProperties DEF Types
<1>2. zeros \in Seq(Byte) /\ Len(zeros) = 2 /\ zeros[1] = 0 /\ zeros[2] = 0
  BY DEF Byte
<1>3. CASE source = "string"
  <2> DEFINE n == Len(file)  s == file \o zeros
  <2>1. Bytes = s
    BY <1>3, Zenon DEF Bytes
  <2> HIDE DEF zeros
  <2>2. /\ s \in Seq(Byte) /\ Len(s) = n + 2
        /\ \A i \in 1 .. n + 2 : s[i] = IF i <= n THEN file[i] ELSE zeros[i - n]
    <3>1. /\ s \in Seq(Byte) /\ Len(s) = Len(file) + Len(zeros)
          /\ \A i \in 1 .. Len(file) + Len(zeros) :
               s[i] = IF i <= Len(file) THEN file[i] ELSE zeros[i - Len(file)]
      BY <1>1, <1>2, ConcatProperties
    <3> QED BY <1>2, <3>1, Zenon
  <2>3. n \in Nat
    BY <1>1
  <2> HIDE DEF n, s
  <2>4. \A i \in 1 .. n : s[i] = file[i]
    BY <2>2, <2>3
  <2>5. n + 1 \in 1 .. n + 2 /\ n + 2 \in 1 .. n + 2
        /\ ~(n + 1 <= n) /\ ~(n + 2 <= n) /\ (n + 1) - n = 1 /\ (n + 2) - n = 2 /\ n <= n + 2 /\ n + 2 \in Nat
    BY <2>3
  <2>6. s[n + 1] = 0 /\ s[n + 2] = 0
    BY <1>2, <2>2, <2>5, Zenon
  <2> QED BY <1>3, <2>1, <2>2, <2>3, <2>4, <2>5, <2>6, Zenon DEF n
<1>4. CASE source # "string"
  <2>1. Bytes = file
    BY <1>4, Zenon DEF Bytes
  <2>2. Len(file) <= Len(file)
    BY <1>1
  <2> QED BY <1>1, <1>4, <2>1, <2>2, Zenon
<1> QED BY <1>3, <1>4

\* Bytes that are read into an empty buffer.
LEMMA PlacedByRead ==
  ASSUME Types, NEW at \in Nat, NEW p \in Nat, NEW bs \in Seq(Byte), Placed(at, p, bs, << >>),
         NEW k \in Nat, k >= 1, p + k <= Len(Bytes)
  PROVE  LET bf == SubSeq(Bytes, p + 1, p + k) IN
         bf \in Seq(Byte) /\ Len(bf) = k /\ Placed(at, p + k, bs, bf)
<1> DEFINE bf == SubSeq(Bytes, p + 1, p + k)  n == Len(bs)  m == Len(Bytes)
<1>1. m \in Nat /\ \A i \in 1 .. m : Bytes[i] \in Byte
  BY BytesAre, ElementOfSeq
<1>2. n \in Nat /\ Len(<< >>) = 0
  BY LenProperties
<1>3. p = at + n /\ \A i \in 1 .. n : bs[i] = Bytes[at + i]
  BY <1>2 DEF Placed
<1> HIDE DEF n, m
<1>4. \A i \in p + 1 .. p + k : Bytes[i] \in Byte
  BY <1>1 DEF m
<1>5. /\ bf \in Seq(Byte) /\ Len(bf) = IF p + 1 <= p + k THEN (p + k) - (p + 1) + 1 ELSE 0
      /\ \A i \in 1 .. (p + k) - (p + 1) + 1 : bf[i] = Bytes[(p + 1) + i - 1]
  <2>1. p + 1 \in Int /\ p + k \in Int
    OBVIOUS
  <2> QED BY <1>4, <2>1, SubSeqProperties
<1> HIDE DEF bf
<1>6. (p + k) - (p + 1) + 1 = k /\ p + 1 <= p + k
  OBVIOUS
<1>7. Len(bf) = k
  BY <1>5, <1>6, Zenon
<1>8. ASSUME NEW i \in 1 .. k PROVE bf[i] = Bytes[at + n + i]
  <2>1. bf[i] = Bytes[(p + 1) + i - 1]
    BY <1>5, <1>6, Zenon
  <2>2. (p + 1) + i - 1 = at + n + i
    BY <1>2, <1>3
  <2> QED BY <2>1, <2>2, Zenon
<1>9. p + k = at + n + k
  BY <1>2, <1>3
<1> QED BY <1>3, <1>5, <1>7, <1>8, <1>9, Zenon DEF Placed, n, bf

\* One byte of the buffer is taken.
LEMMA PlacedByGetc ==
  ASSUME NEW at \in Nat, NEW p \in Nat, NEW bs \in Seq(Byte), NEW bf \in Seq(Byte), bf # << >>,
         Placed(at, p, bs, bf)
  PROVE  LET b == Append(bs, Head(bf)) IN
         /\ b \in Seq(Byte) /\ Tail(bf) \in Seq(Byte) /\ Len(b) = Len(bs) + 1 /\ Len(Tail(bf)) \in Nat
         /\ Len(Tail(bf)) <= Len(bf)
         /\ Placed(at, p, b, Tail(bf)) /\ Placed(at + Len(b), p, << >>, Tail(bf))
<1> DEFINE b == Append(bs, Head(bf))  t == Tail(bf)  n == Len(bs)  m == Len(bf)
<1>1. n \in Nat /\ m \in Nat /\ m # 0
  BY EmptySeq, LenProperties
<1>2. /\ Head(bf) \in Byte /\ Head(bf) = bf[1] /\ t \in Seq(Byte) /\ Len(t) = m - 1
      /\ \A i \in 1 .. Len(t) : t[i] = bf[i + 1]
  BY HeadTailProperties
<1>3. b \in Seq(Byte) /\ Len(b) = n + 1 /\ b[n + 1] = Head(bf) /\ \A i \in 1 .. n : b[i] = bs[i]
  BY <1>2
<1>4. /\ p = at + n + m
      /\ \A i \in 1 .. n : bs[i] = Bytes[at + i]
      /\ \A i \in 1 .. m : bf[i] = Bytes[at + n + i]
  BY Zenon DEF Placed
<1> HIDE DEF b, t, n, m
<1>5. ASSUME NEW i \in 1 .. n + 1 PROVE b[i] = Bytes[at + i]
  <2>1. CASE i \in 1 .. n
    BY <1>3, <1>4, <2>1, Zenon
  <2>2. CASE i = n + 1
    <3>1. 1 \in 1 .. m /\ at + n + 1 = at + i
      BY <1>1, <2>2
    <3>2. bf[1] = Bytes[at + i]
      BY <1>4, <3>1, Zenon
    <3> QED BY <1>2, <1>3, <2>2, <3>2, Zenon
  <2> QED BY <1>1, <2>1, <2>2
<1>6. ASSUME NEW i \in 1 .. m - 1 PROVE t[i] = Bytes[at + (n + 1) + i]
  <2>1. i + 1 \in 1 .. m /\ at + n + (i + 1) = at + (n + 1) + i
    BY <1>1
  <2>2. bf[i + 1] = Bytes[at + (n + 1) + i]
    BY <1>4, <2>1, Zenon
  <2> QED BY <1>2, <2>2, Zenon
<1>7. p = at + (n + 1) + (m - 1) /\ p = (at + (n + 1)) + 0 + (m - 1) /\ m - 1 \in Nat /\ m - 1 <= m
  BY <1>1, <1>4
<1>8. Placed(at, p, b, t)
  BY <1>2, <1>3, <1>5, <1>6, <1>7, Zenon DEF Placed
<1>9. Placed(at + Len(b), p, << >>, t)
  <2>1. Len(<< >>) = 0 /\ 1 .. 0 = {}
    OBVIOUS
  <2>2. ASSUME NEW i \in 1 .. m - 1 PROVE t[i] = Bytes[at + (n + 1) + 0 + i]
    <3>1. at + (n + 1) + 0 + i = at + (n + 1) + i
      BY <1>1
    <3> QED BY <1>6, <3>1, Zenon
  <2> QED BY <1>2, <1>3, <1>7, <2>1, <2>2, Zenon DEF Placed
<1> QED BY <1>2, <1>3, <1>7, <1>8, <1>9, Zenon DEF b, t, n, m

\* Nothing has been read yet.
LEMMA DecodingBegins ==
  ASSUME GivenOK, got = << >>, encoding = "UTF8", pos = 0, bytes = << >>, buffer = << >>
  PROVE  Decoding(0) /\ 0 \in 0 .. Len(Stored)
<1>1. Len(Stored) \in Nat /\ 0 \in 0 .. Len(Stored)
  BY StoredIs
<1>2. AllReadable(0) /\ EncodingAt(0) = "UTF8"
  BY <1>1 DEF AllReadable, EncodingAt
<1>3. Kept(0) = << >>
  <2>1. 0 \in 0 .. Len(Stored) /\ Len(Stored) \in 0 .. Len(Stored)
    BY <1>1
  <2> QED BY <2>1, KeptIs, Zenon
<1>4. Upto(0) = << >> /\ Len(Upto(0)) = 0
  <2>1. Upto(0) = << >>
    BY <1>1, UptoIs, Zenon
  <2> QED BY <2>1
<1>5. Placed(0, 0, << >>, << >>)
  BY DEF Placed
<1>6. Part(0, << >>)
  <2>1. ASSUME 0 < Len(Stored) PROVE Len(<< >>) < Len(Encoded(Stored[0 + 1]))
    <3>1. 0 + 1 \in 1 .. Len(Stored)
      BY <1>1, <2>1
    <3>2. Stored[0 + 1] \in Unicode
      BY <3>1, StoredIs, Zenon
    <3>3. Len(Encoded(Stored[0 + 1])) \in 1 .. 4
      BY <3>2, EncodedIs, Zenon
    <3> QED BY <3>3
  <2> QED BY <2>1 DEF Part
<1> QED BY <1>1, <1>2, <1>3, <1>4, <1>5, <1>6, Zenon DEF Decoding

LEMMA StreamInit == Init => StreamInv
<1> SUFFICES ASSUME Init PROVE StreamInv
  OBVIOUS
<1>1. /\ put = 0 /\ buffer = << >> /\ pos = 0 /\ bytes = << >> /\ encoding = "UTF8" /\ got = << >>
      /\ format = "UTF8" => phase = "saving" /\ file = << >>
      /\ format # "UTF8" => phase = "loading" /\ file = Contents
  BY Zenon DEF Init
<1>2. GivenOK
  <2>1. text \in UNION {[1 .. n -> Chars] : n \in 1 .. MaxText}
    BY Zenon DEF Init
  <2>2. PICK n \in 1 .. MaxText : text \in [1 .. n -> Chars]
    BY <2>1
  <2>3. n \in Nat
    BY XmlStreamAssumption DEF XmlStreamAssumption
  <2>4. text \in Seq(Chars)
    BY <2>2, <2>3
  <2> QED BY <2>4, Zenon DEF Init, GivenOK
<1>3. Len(Stored) \in Nat /\ Len(Stored) \in 0 .. Len(Stored) /\ 0 \in 0 .. Len(Stored)
  BY <1>2, StoredIs
<1>4. Contents \in Seq(Byte) /\ Len(Contents) \in Nat
  <2>1. Contents \in Seq(Byte)
    BY <1>2, <1>3, UptoIs, Zenon
  <2> QED BY <2>1, LenProperties
<1>5. Types
  <2>1. BufSize \in Nat /\ Len(<< >>) = 0 /\ << >> \in Seq(Byte) /\ 0 \in Nat
    BY XmlStreamAssumption DEF XmlStreamAssumption
  <2>2. Len(buffer) <= BufSize
    BY <1>1, <2>1
  <2>3. file \in Seq(Byte)
    BY <1>1, <1>4, <2>1, Zenon
  <2>4. phase \in {"saving", "writing", "loading", "save failed", "loaded", "cut short"}
    BY <1>1
  <2>5. encoding \in {"UTF8", "UTF16BE", "UTF16LE"}
    BY <1>1
  <2> QED BY <1>1, <1>2, <2>1, <2>2, <2>3, <2>4, <2>5, Zenon DEF Types
<1>6. CASE format = "UTF8"
  <2>1. SavedSoFar
    BY <1>1, <1>4, <1>6 DEF SavedSoFar
  <2>2. phase = "saving"
    BY <1>1, <1>6
  <2> QED BY <1>5, <2>1, <2>2 DEF StreamInv
<1>7. CASE format # "UTF8"
  <2>1. phase = "loading" /\ file = Contents
    BY <1>1, <1>7
  <2>2. pos <= Len(Bytes)
    <3>1. Len(Bytes) \in Nat
      BY <1>5, BytesAre, Zenon
    <3> QED BY <1>1, <3>1
  <2>3. Decoding(0) /\ 0 \in 0 .. Len(Stored)
    BY <1>1, <1>2, DecodingBegins, Zenon
  <2> QED BY <1>5, <2>1, <2>2, <2>3 DEF StreamInv
<1> QED BY <1>6, <1>7

------------------------------------------------------------------------------
(* Saving keeps the invariant.                                             *)

LEMMA ContentsAre ==
  ASSUME GivenOK
  PROVE  Contents \in Seq(Byte) /\ Len(Contents) \in Nat
<1>1. Len(Stored) \in 0 .. Len(Stored)
  BY StoredIs
<1>2. Contents \in Seq(Byte)
  BY <1>1, UptoIs, Zenon
<1> QED BY <1>2, LenProperties

LEMMA PutcKeeps ==
  ASSUME StreamInv, Putc
  PROVE  StreamInv'
<1>1. /\ phase = "saving" /\ phase' = "saving" /\ Len(buffer) < BufSize /\ put # Len(Contents)
      /\ buffer' = Append(buffer, Contents[put + 1]) /\ put' = put + 1
      /\ UNCHANGED <<given, file, pos, bytes, encoding, got>>
  BY Zenon DEF Putc, AllPut, loads
<1>2. Types /\ SavedSoFar
  BY <1>1, Zenon DEF StreamInv
<1>3. Contents' = Contents /\ GivenOK'
  BY <1>1, <1>2, GivenStays, Zenon DEF Types
<1>4. Contents \in Seq(Byte) /\ Len(Contents) \in Nat
  BY <1>2, ContentsAre, Zenon DEF Types
<1> DEFINE n == Len(file)  k == Len(buffer)  m == Len(Contents)
<1>5. n \in Nat /\ k \in Nat /\ m \in Nat
  BY <1>2, <1>4, LenProperties DEF Types
<1>6. /\ put = n + k /\ put <= m /\ put # m
      /\ \A i \in 1 .. k : buffer[i] = Contents[n + i]
      /\ \A i \in 1 .. n : file[i] = Contents[i]
  BY <1>1, <1>2, Zenon DEF SavedSoFar
<1> HIDE DEF n, k, m
<1>7. put + 1 \in 1 .. m /\ put + 1 <= m /\ put + 1 = n + (k + 1) /\ put + 1 \in Nat
  BY <1>5, <1>6
<1>8. Contents[put + 1] \in Byte
  BY <1>4, <1>7, ElementOfSeq DEF m
<1>9. /\ buffer' \in Seq(Byte) /\ Len(buffer') = k + 1
      /\ buffer'[k + 1] = Contents[put + 1] /\ \A i \in 1 .. k : buffer'[i] = buffer[i]
  BY <1>1, <1>2, <1>8, AppendProperties DEF Types, k
<1>10. ASSUME NEW i \in 1 .. k + 1 PROVE buffer'[i] = Contents[n + i]
  <2>1. CASE i \in 1 .. k
    BY <1>6, <1>9, <2>1, Zenon
  <2>2. CASE i = k + 1
    BY <1>7, <1>9, <2>2, Zenon
  <2> QED BY <1>5, <2>1, <2>2
<1>11. k + 1 <= BufSize
  <2>1. BufSize \in Nat /\ k < BufSize
    BY <1>1, XmlStreamAssumption DEF XmlStreamAssumption, k
  <2> QED BY <1>5, <2>1
<1>12. SavedSoFar'
  <2>1. format' = "UTF8" /\ pos' = 0 /\ bytes' = << >> /\ got' = << >> /\ encoding' = "UTF8"
    BY <1>1, <1>2, Zenon DEF SavedSoFar, given
  <2>2. put' = Len(file') + Len(buffer') /\ put' <= Len(Contents')
    BY <1>1, <1>3, <1>7, <1>9, Zenon DEF n, m
  <2>3. \A i \in 1 .. Len(buffer') : buffer'[i] = Contents'[Len(file') + i]
    BY <1>1, <1>3, <1>9, <1>10, Zenon DEF n
  <2>4. \A i \in 1 .. Len(file') : file'[i] = Contents'[i]
    BY <1>1, <1>3, <1>6, Zenon DEF n
  <2> QED BY <2>1, <2>2, <2>3, <2>4, Zenon DEF SavedSoFar
<1>13. Types'
  <2>1. phase' = phase
    BY <1>1
  <2>2. Len(buffer') <= BufSize
    BY <1>9, <1>11, Zenon
  <2> QED BY <1>1, <1>2, <1>3, <1>7, <1>9, <2>1, <2>2, Zenon DEF Types
<1> QED BY <1>1, <1>12, <1>13 DEF StreamInv

LEMMA WriteKeeps ==
  ASSUME StreamInv, NEW k \in 1 .. BufSize, Write(k)
  PROVE  StreamInv'
<1>1. /\ phase \in {"saving", "writing"} /\ phase' \in {"saving", "writing"}
      /\ k \in DOMAIN buffer
      /\ file' = file \o SubSeq(buffer, 1, k)
      /\ buffer' = SubSeq(buffer, k + 1, Len(buffer))
      /\ UNCHANGED <<given, put, pos, bytes, encoding, got>>
  BY DEF Write, Writing, loads
<1>2. Types /\ SavedSoFar
  BY <1>1 DEF StreamInv
<1>3. Contents' = Contents /\ GivenOK'
  BY <1>1, <1>2, GivenStays, Zenon DEF Types
<1> DEFINE n == Len(file)  l == Len(buffer)  out == SubSeq(buffer, 1, k)
<1>4. n \in Nat /\ l \in Nat /\ k \in 1 .. l
  BY <1>1, <1>2, LenProperties DEF Types
<1>5. /\ put = n + l /\ put <= Len(Contents)
      /\ \A i \in 1 .. l : buffer[i] = Contents[n + i]
      /\ \A i \in 1 .. n : file[i] = Contents[i]
  BY <1>2, Zenon DEF SavedSoFar
<1>6. out \in Seq(Byte) /\ Len(out) = k /\ \A i \in 1 .. k : out[i] = buffer[i]
  <2>1. k \in 0 .. Len(buffer)
    BY <1>4
  <2> QED BY <1>2, <2>1, PrefixOfSequence, Zenon DEF Types
<1>7. /\ buffer' \in Seq(Byte)
      /\ Len(buffer') = l - k /\ \A i \in 1 .. l - k : buffer'[i] = buffer[k + i]
  <2>1. \A i \in 1 .. l : buffer[i] \in Byte
    BY <1>2, ElementOfSeq DEF Types
  <2> HIDE DEF l
  <2>2. k + 1 \in Int /\ l \in Int /\ \A i \in k + 1 .. l : buffer[i] \in Byte
    BY <1>4, <2>1
  <2>3. /\ SubSeq(buffer, k + 1, l) \in Seq(Byte)
        /\ Len(SubSeq(buffer, k + 1, l)) = IF k + 1 <= l THEN l - (k + 1) + 1 ELSE 0
        /\ \A i \in 1 .. l - (k + 1) + 1 : SubSeq(buffer, k + 1, l)[i] = buffer[(k + 1) + i - 1]
    BY <2>2, SubSeqProperties
  <2>4. l - (k + 1) + 1 = l - k /\ (k + 1 <= l \/ (~(k + 1 <= l) /\ l - k = 0))
    BY <1>4
  <2>5. buffer' = SubSeq(buffer, k + 1, l)
    BY <1>1 DEF l
  <2>6. ASSUME NEW i \in 1 .. l - k PROVE buffer'[i] = buffer[k + i]
    <3>1. (k + 1) + i - 1 = k + i
      BY <1>4
    <3> QED BY <2>3, <2>4, <2>5, <3>1, Zenon
  <2> QED BY <2>3, <2>4, <2>5, <2>6, Zenon
<1> HIDE DEF n, l, out
<1>8. /\ file' \in Seq(Byte) /\ Len(file') = n + k
      /\ \A i \in 1 .. n + k : file'[i] = IF i <= n THEN file[i] ELSE out[i - n]
  <2>1. /\ file \o out \in Seq(Byte) /\ Len(file \o out) = Len(file) + Len(out)
        /\ \A i \in 1 .. Len(file) + Len(out) :
             (file \o out)[i] = IF i <= Len(file) THEN file[i] ELSE out[i - Len(file)]
    BY <1>2, <1>6, ConcatProperties DEF Types
  <2>2. file' = file \o out
    BY <1>1 DEF out
  <2> QED BY <1>6, <2>1, <2>2, Zenon DEF n
<1>9. ASSUME NEW i \in 1 .. n + k PROVE file'[i] = Contents[i]
  <2>1. CASE i <= n
    <3>1. i \in 1 .. n
      BY <1>4, <2>1
    <3> QED BY <1>5, <1>8, <2>1, <3>1, Zenon
  <2>2. CASE ~(i <= n)
    <3>1. i - n \in 1 .. k /\ i - n \in 1 .. l /\ n + (i - n) = i
      BY <1>4, <2>2
    <3>2. out[i - n] = Contents[n + (i - n)]
      BY <1>5, <1>6, <3>1, Zenon
    <3> QED BY <1>8, <2>2, <3>1, <3>2, Zenon
  <2> QED BY <2>1, <2>2
<1>10. ASSUME NEW i \in 1 .. l - k PROVE buffer'[i] = Contents[n + k + i]
  <2>1. k + i \in 1 .. l /\ n + (k + i) = n + k + i
    BY <1>4
  <2>2. buffer[k + i] = Contents[n + (k + i)]
    BY <1>5, <2>1, Zenon
  <2> QED BY <1>7, <2>1, <2>2, Zenon
<1>11. put = (n + k) + (l - k)
  BY <1>4, <1>5
<1>12. SavedSoFar'
  <2>1. format' = "UTF8" /\ pos' = 0 /\ bytes' = << >> /\ got' = << >> /\ encoding' = "UTF8"
    BY <1>1, <1>2, Zenon DEF SavedSoFar, given
  <2>2. put' = Len(file') + Len(buffer') /\ put' <= Len(Contents')
    BY <1>1, <1>3, <1>5, <1>7, <1>8, <1>11, Zenon
  <2>3. \A i \in 1 .. Len(buffer') : buffer'[i] = Contents'[Len(file') + i]
    BY <1>3, <1>7, <1>8, <1>10, Zenon
  <2>4. \A i \in 1 .. Len(file') : file'[i] = Contents'[i]
    BY <1>3, <1>8, <1>9, Zenon
  <2> QED BY <2>1, <2>2, <2>3, <2>4, Zenon DEF SavedSoFar
<1>13. Types'
  <2>1. phase' \in {"saving", "writing", "loading", "save failed", "loaded", "cut short"}
    BY <1>1
  <2>2. Len(buffer') <= BufSize
    <3>1. l <= BufSize /\ BufSize \in Nat
      BY <1>2, XmlStreamAssumption DEF Types, l, XmlStreamAssumption
    <3> QED BY <1>4, <1>7, <3>1
  <2> QED BY <1>1, <1>2, <1>3, <1>7, <1>8, <2>1, <2>2, Zenon DEF Types
<1>14. phase' \notin {"loading", "loaded", "cut short"}
  BY <1>1
<1> QED BY <1>12, <1>13, <1>14 DEF StreamInv

LEMMA ReopenKeeps ==
  ASSUME StreamInv, ~ignored, Reopen
  PROVE  StreamInv'
<1>1. /\ phase = "saving" /\ phase' = "loading" /\ put = Len(Contents) /\ buffer = << >>
      /\ UNCHANGED <<given, put, file, buffer, pos, bytes, encoding, got>>
  BY Zenon DEF Reopen, AllPut, loads
<1>2. Types /\ SavedSoFar
  BY <1>1, Zenon DEF StreamInv
<1>3. Contents' = Contents /\ GivenOK' /\ Stored' = Stored
  BY <1>1, <1>2, GivenStays, Zenon DEF Types
<1>4. Contents \in Seq(Byte) /\ Len(Contents) \in Nat /\ file \in Seq(Byte) /\ Len(file) \in Nat
  BY <1>2, ContentsAre, LenProperties DEF Types
<1>5. Len(file) = Len(Contents) /\ \A i \in 1 .. Len(file) : file[i] = Contents[i]
  <2>1. Len(buffer) = 0
    BY <1>1
  <2> QED BY <1>1, <1>2, <1>4, <2>1 DEF SavedSoFar
<1>6. file = Contents
  BY <1>4, <1>5, SeqEqual
<1>7. Types'
  <2>1. phase' \in {"saving", "writing", "loading", "save failed", "loaded", "cut short"}
    BY <1>1
  <2> QED BY <1>1, <1>2, <1>3, <2>1, Zenon DEF Types
<1>8. pos' <= Len(Bytes')
  <2>1. Len(Bytes) \in Nat /\ pos' = 0
    BY <1>1, <1>2, BytesAre DEF SavedSoFar
  <2>2. Bytes' = Bytes
    BY <1>1, FileStays, Zenon
  <2> QED BY <2>1, <2>2
<1>9. (Decoding(0) /\ 0 \in 0 .. Len(Stored))'
  <2>1. got' = << >> /\ encoding' = "UTF8" /\ pos' = 0 /\ bytes' = << >> /\ buffer' = << >>
    BY <1>1, <1>2, Zenon DEF SavedSoFar
  <2>2. Decoding(0) /\ 0 \in 0 .. Len(Stored)
    BY <1>1, <1>2, DecodingBegins, Zenon DEF SavedSoFar, Types
  <2>3. AllReadable(0)' = AllReadable(0) /\ Kept(0)' = Kept(0) /\ EncodingAt(0)' = EncodingAt(0)
        /\ Upto(0)' = Upto(0) /\ Part(0, bytes)' = Part(0, bytes)
    <3>1. \A bs : Part(0, bs)' = Part(0, bs)
      BY <1>1, GivenStays, Zenon
    <3>2. Part(0, bytes)' = Part(0, bytes)
      BY <1>1, <1>3, GivenStays, Zenon DEF Part, Encoded, given
    <3> QED BY <1>1, <3>2, GivenStays, Zenon
  <2>4. Placed(Len(Upto(0)), pos, bytes, buffer)' = Placed(Len(Upto(0)), pos, bytes, buffer)
    <3>1. Bytes' = Bytes
      BY <1>1, FileStays, Zenon
    <3> QED BY <1>1, <2>3, <3>1, Zenon DEF Placed
  <2> QED BY <1>1, <1>3, <2>2, <2>3, <2>4, Zenon DEF Decoding
<1> QED BY <1>1, <1>3, <1>6, <1>7, <1>8, <1>9 DEF StreamInv

------------------------------------------------------------------------------
(* Loading keeps the invariant.                                            *)

LEMMA DecodingNext ==
  ASSUME UNCHANGED <<given, file>>, NEW n, AllReadable(n), got' = Kept(n), encoding' = EncodingAt(n),
         Placed(Len(Upto(n)), pos', bytes', buffer'), Part(n, bytes')
  PROVE  Decoding(n)'
<1>1. /\ AllReadable(n)' = AllReadable(n) /\ Kept(n)' = Kept(n) /\ EncodingAt(n)' = EncodingAt(n)
      /\ Upto(n)' = Upto(n) /\ Stored' = Stored
  BY GivenStays, Zenon
<1>2. Bytes' = Bytes /\ text' = text /\ format' = format /\ source' = source
  BY FileStays, Zenon DEF given
<1>3. Part(n, bytes)'
  BY <1>1, <1>2, Zenon DEF Part, Encoded
<1>4. Placed(Len(Upto(n)), pos, bytes, buffer)'
  BY <1>1, <1>2, Zenon DEF Placed
<1> QED BY <1>1, <1>3, <1>4, Zenon DEF Decoding

\* What the steps of loading have in common.
LEMMA LoadingStep ==
  ASSUME StreamInv, phase = "loading", UNCHANGED <<given, file, put>>,
         phase' \in {"loading", "loaded", "cut short"},
         encoding' \in {"UTF8", "UTF16BE", "UTF16LE"},
         buffer' \in Seq(Byte), Len(buffer') <= BufSize, bytes' \in Seq(Byte),
         pos' \in Nat, pos' <= Len(Bytes),
         phase' = "loaded" => got' = Expected /\ Len(bytes') < 4,
         phase' # "loaded" => \E n \in 0 .. Len(Stored) : Decoding(n)'
  PROVE  StreamInv'
<1>1. Types /\ file = Contents
  BY Zenon DEF StreamInv
<1>2. GivenOK' /\ Contents' = Contents /\ Stored' = Stored /\ Expected' = Expected
  BY <1>1, GivenStays, Zenon DEF Types
<1>3. Bytes' = Bytes
  BY FileStays, Zenon
<1>4. phase' \in {"saving", "writing", "loading", "save failed", "loaded", "cut short"}
      /\ phase' \notin {"saving", "writing", "save failed"}
      /\ (phase' \in {"loading", "cut short"} => phase' # "loaded")
  OBVIOUS
<1>5. Types'
  BY <1>1, <1>2, <1>4, Zenon DEF Types
<1>6. phase' \in {"loading", "cut short"} => (\E n \in 0 .. Len(Stored) : Decoding(n))'
  BY <1>2, <1>4, Zenon
<1>7. phase' = "loaded" => (got = Expected /\ Len(bytes) < 4)'
  BY <1>2, Zenon
<1>8. (file = Contents /\ pos <= Len(Bytes))'
  BY <1>1, <1>2, <1>3, Zenon
<1>9. phase' \in {"saving", "writing", "save failed"} => SavedSoFar'
  BY <1>4, Zenon
<1> QED BY <1>5, <1>6, <1>7, <1>8, <1>9, Zenon DEF StreamInv

LEMMA LoadingIs ==
  ASSUME StreamInv, phase = "loading"
  PROVE  /\ Types /\ file = Contents /\ pos <= Len(Bytes) /\ \E n \in 0 .. Len(Stored) : Decoding(n)
         /\ Len(Bytes) \in Nat /\ Len(Contents) \in Nat /\ Len(Contents) <= Len(Bytes)
         /\ \A i \in 1 .. Len(Contents) : Bytes[i] = Contents[i]
<1>1. phase \in {"loading", "loaded", "cut short"} /\ phase \in {"loading", "cut short"}
  OBVIOUS
<1>2. Types /\ file = Contents /\ pos <= Len(Bytes) /\ \E n \in 0 .. Len(Stored) : Decoding(n)
  BY <1>1, Zenon DEF StreamInv
<1>3. /\ Len(Bytes) \in Nat /\ Len(file) \in Nat /\ Len(file) <= Len(Bytes)
      /\ \A i \in 1 .. Len(file) : Bytes[i] = file[i]
  BY <1>2, BytesAre, Zenon
<1> QED BY <1>2, <1>3, Zenon

LEMMA ReadKeeps ==
  ASSUME StreamInv, NEW k \in 1 .. BufSize, Read(k)
  PROVE  StreamInv'
<1>1. /\ phase = "loading" /\ phase' = "loading" /\ buffer = << >> /\ pos + k <= Len(Bytes)
      /\ buffer' = SubSeq(Bytes, pos + 1, pos + k) /\ pos' = pos + k
      /\ UNCHANGED <<given, file, put, bytes, encoding, got>>
  BY Zenon DEF Read, Empty
<1>2. Types /\ \E n \in 0 .. Len(Stored) : Decoding(n)
  BY <1>1, LoadingIs, Zenon
<1>3. PICK n \in 0 .. Len(Stored) : Decoding(n)
  BY <1>2
<1>4. /\ AllReadable(n) /\ got = Kept(n) /\ encoding = EncodingAt(n)
      /\ Placed(Len(Upto(n)), pos, bytes, << >>) /\ Part(n, bytes)
  BY <1>1, <1>3, Zenon DEF Decoding
<1>5. Len(Upto(n)) \in Nat
  <2>1. Upto(n) \in Seq(Byte)
    BY <1>2, UptoIs, Zenon DEF Types
  <2> QED BY <2>1, LenProperties
<1>6. k \in Nat /\ k >= 1 /\ k <= BufSize /\ pos \in Nat /\ pos + k \in Nat /\ bytes \in Seq(Byte)
  <2>1. BufSize \in Nat
    BY XmlStreamAssumption DEF XmlStreamAssumption
  <2>2. pos \in Nat /\ bytes \in Seq(Byte)
    BY <1>2, Zenon DEF Types
  <2>3. k \in Nat /\ k >= 1 /\ k <= BufSize
    BY <2>1
  <2> QED BY <2>2, <2>3
<1>7. /\ buffer' \in Seq(Byte) /\ Len(buffer') = k
      /\ Placed(Len(Upto(n)), pos + k, bytes, buffer')
  BY <1>1, <1>2, <1>4, <1>5, <1>6, PlacedByRead
<1>8. Placed(Len(Upto(n)), pos', bytes', buffer')
  BY <1>1, <1>7, Zenon
<1>9. Decoding(n)'
  BY <1>1, <1>4, <1>8, DecodingNext, Zenon
<1>10. /\ phase' \in {"loading", "loaded", "cut short"} /\ phase' # "loaded"
       /\ encoding' \in {"UTF8", "UTF16BE", "UTF16LE"} /\ bytes' \in Seq(Byte)
  BY <1>1, <1>2 DEF Types
<1>11. pos' \in Nat /\ pos' <= Len(Bytes) /\ Len(buffer') <= BufSize
  BY <1>1, <1>6, <1>7, Zenon
<1> QED BY <1>1, <1>7, <1>9, <1>10, <1>11, LoadingStep, Zenon

\* Between two characters, or within one: fewer bytes than a character has.
LEMMA PartIs ==
  ASSUME Types, NEW n \in 0 .. Len(Stored), NEW bs \in Seq(Byte), Part(n, bs)
  PROVE  Len(bs) \in Nat /\ Len(bs) < 4
<1>1. Len(bs) \in Nat
  BY LenProperties
<1>2. CASE n < Len(Stored)
  <2>1. n + 1 \in 1 .. Len(Stored)
    <3>1. Len(Stored) \in Nat
      BY StoredIs, Zenon DEF Types
    <3> QED BY <1>2, <3>1
  <2>2. Stored[n + 1] \in Unicode
    BY <2>1, StoredIs, Zenon DEF Types
  <2>3. Len(Encoded(Stored[n + 1])) \in 1 .. 4
    BY <2>2, EncodedIs, Zenon DEF Types
  <2>4. Len(bs) < Len(Encoded(Stored[n + 1]))
    BY <1>2, Zenon DEF Part
  <2> DEFINE m == Len(Encoded(Stored[n + 1]))
  <2> HIDE DEF m
  <2>5. m \in 1 .. 4 /\ Len(bs) < m
    BY <2>3, <2>4 DEF m
  <2> QED BY <1>1, <2>5
<1>3. CASE ~(n < Len(Stored))
  BY <1>3 DEF Part
<1> QED BY <1>1, <1>2, <1>3

LEMMA ReadEndsKeeps ==
  ASSUME StreamInv, ReadEnds
  PROVE  StreamInv'
<1>1. /\ phase = "loading" /\ phase' = "loaded" /\ buffer = << >> /\ pos = Len(Bytes)
      /\ UNCHANGED <<given, file, put, buffer, pos, bytes, encoding, got>>
  BY Zenon DEF ReadEnds, Empty, loads
<1>2. Types /\ (\E n \in 0 .. Len(Stored) : Decoding(n)) /\ Len(Bytes) \in Nat /\ Len(Contents) \in Nat
      /\ Len(Contents) <= Len(Bytes)
  BY <1>1, LoadingIs, Zenon
<1>3. PICK n \in 0 .. Len(Stored) : Decoding(n)
  BY <1>2
<1>4. AllReadable(n) /\ got = Kept(n) /\ Placed(Len(Upto(n)), pos, bytes, << >>) /\ Part(n, bytes)
  BY <1>1, <1>3, Zenon DEF Decoding
<1>5. Len(bytes) \in Nat /\ Len(bytes) < 4
  BY <1>2, <1>4, PartIs, Zenon DEF Types
<1>6. n = Len(Stored)
  <2> SUFFICES ASSUME n # Len(Stored) PROVE FALSE
    OBVIOUS
  <2>1. n < Len(Stored)
    <3>1. Len(Stored) \in Nat
      BY <1>2, StoredIs, Zenon DEF Types
    <3> DEFINE m == Len(Stored)
    <3>2. m \in Nat /\ n \in 0 .. m /\ n # m
      BY <3>1
    <3> HIDE DEF m
    <3>3. n < m
      BY <3>2
    <3> QED BY <3>3 DEF m
  <2> DEFINE at == Len(Upto(n))  u == Len(Encoded(Stored[n + 1]))
             c == Len(Contents)  m == Len(Bytes)  k == Len(bytes)
  <2>2. at \in Nat /\ u \in 1 .. 4 /\ at + u <= c
    BY <1>2, <2>1, UnitAt, Zenon DEF Types
  <2>3. k < u
    BY <1>4, <2>1, Zenon DEF Part
  <2>4. m = at + k + 0
    <3>1. Len(<< >>) = 0
      OBVIOUS
    <3> QED BY <1>1, <1>4, <3>1, Zenon DEF Placed
  <2>5. c \in Nat /\ m \in Nat /\ k \in Nat /\ c <= m
    BY <1>2, <1>5
  <2> HIDE DEF at, u, c, m, k
  <2> QED BY <2>2, <2>3, <2>4, <2>5
<1>7. got' = Expected
  BY <1>1, <1>2, <1>4, <1>6, ExpectedIs, Zenon DEF Types
<1>8. /\ phase' \in {"loading", "loaded", "cut short"}
      /\ encoding' \in {"UTF8", "UTF16BE", "UTF16LE"} /\ bytes' \in Seq(Byte) /\ buffer' \in Seq(Byte)
      /\ Len(buffer') <= BufSize /\ pos' \in Nat
  BY <1>1, <1>2 DEF Types
<1>9. pos' <= Len(Bytes)
  BY <1>1, <1>2
<1>10. Len(bytes') < 4
  BY <1>1, <1>5
<1> QED BY <1>1, <1>7, <1>8, <1>9, <1>10, LoadingStep, Zenon

LEMMA ReadFailsKeeps ==
  ASSUME StreamInv, ReadFails
  PROVE  StreamInv'
<1>1. /\ phase = "loading" /\ phase' = "cut short"
      /\ UNCHANGED <<given, file, put, buffer, pos, bytes, encoding, got>>
  BY Zenon DEF ReadFails, Empty, loads
<1>2. Types /\ (\E n \in 0 .. Len(Stored) : Decoding(n)) /\ pos <= Len(Bytes)
  BY <1>1, LoadingIs, Zenon
<1>3. PICK n \in 0 .. Len(Stored) : Decoding(n)
  BY <1>2
<1>4. Decoding(n)'
  BY <1>1, <1>3, DecodingNext, Zenon DEF Decoding
<1>5. /\ phase' \in {"loading", "loaded", "cut short"} /\ phase' # "loaded"
      /\ encoding' \in {"UTF8", "UTF16BE", "UTF16LE"} /\ bytes' \in Seq(Byte) /\ buffer' \in Seq(Byte)
      /\ Len(buffer') <= BufSize /\ pos' \in Nat /\ pos' <= Len(Bytes)
  BY <1>1, <1>2 DEF Types
<1> QED BY <1>1, <1>4, <1>5, LoadingStep, Zenon

------------------------------------------------------------------------------
(* A byte is taken.                                                        *)

LEMMA GetcIs ==
  ASSUME StreamInv, Getc
  PROVE  LET b == Append(bytes, Head(buffer))
             r == getc(b, encoding) IN
         /\ phase = "loading" /\ buffer # << >> /\ buffer' = Tail(buffer)
         /\ UNCHANGED <<given, file, put, pos>>
         /\ bytes' = IF r = More THEN b ELSE << >>
         /\ phase' = IF r = EOF THEN "loaded" ELSE "loading"
         /\ encoding' = IF r.is = "switch" THEN r.encoding ELSE encoding
         /\ IF r.is = "char" THEN got' = Append(got, r.ch) ELSE got' = got
  BY Zenon DEF Getc

\* The bytes that have been taken: the first of the next character.
LEMMA BytesBegin ==
  ASSUME Types, file = Contents, NEW n \in 0 .. Len(Stored), n < Len(Stored),
         NEW bs \in Seq(Byte), Len(bs) >= 1, Len(bs) <= Len(Encoded(Stored[n + 1])),
         NEW p, NEW bf, Placed(Len(Upto(n)), p, bs, bf)
  PROVE  Begins(bs, Len(bs), Encoded(Stored[n + 1]))
<1> DEFINE at == Len(Upto(n))  u == Encoded(Stored[n + 1])  k == Len(bs)  m == Len(u)  c == Len(Contents)
<1>1. /\ at \in Nat /\ m \in 1 .. 4 /\ at + m <= c
      /\ \A i \in 1 .. m : Contents[at + i] = u[i]
  BY UnitAt, Zenon DEF Types
<1>2. k \in Nat /\ k >= 1 /\ k <= m
  BY LenProperties
<1>3. c \in Nat /\ \A i \in 1 .. c : Bytes[i] = Contents[i]
  BY ContentsAre, BytesAre, Zenon DEF Types
<1>4. \A i \in 1 .. k : bs[i] = Bytes[at + i]
  BY Zenon DEF Placed
<1> HIDE DEF at, u, k, m, c
<1>5. ASSUME NEW i \in 1 .. k PROVE bs[i] = u[i]
  <2>1. i \in 1 .. m /\ at + i \in 1 .. c
    BY <1>1, <1>2, <1>3
  <2> QED BY <1>1, <1>3, <1>4, <2>1, Zenon
<1> QED BY <1>2, <1>5, Zenon DEF Begins, k, u, m

\* While n characters are read and there is a next one.
LEMMA GetcWithin ==
  ASSUME StreamInv, Getc, NEW n \in 0 .. Len(Stored), Decoding(n), n < Len(Stored)
  PROVE  StreamInv'
<1> DEFINE b  == Append(bytes, Head(buffer))
           k  == Len(b)
           r  == getc(b, encoding)
           at == Len(Upto(n))
           ch == Stored[n + 1]
           u  == Encoded(ch)
<1>1. /\ phase = "loading" /\ buffer # << >> /\ buffer' = Tail(buffer)
      /\ UNCHANGED <<given, file, put, pos>>
      /\ bytes' = IF r = More THEN b ELSE << >>
      /\ phase' = IF r = EOF THEN "loaded" ELSE "loading"
      /\ encoding' = IF r.is = "switch" THEN r.encoding ELSE encoding
      /\ IF r.is = "char" THEN got' = Append(got, r.ch) ELSE got' = got
  BY GetcIs, Zenon
<1>2. Types /\ file = Contents /\ pos <= Len(Bytes)
  BY <1>1, LoadingIs, Zenon
<1>3. GivenOK
  BY <1>2, Zenon DEF Types
<1>4. /\ AllReadable(n) /\ got = Kept(n) /\ encoding = EncodingAt(n)
      /\ Placed(at, pos, bytes, buffer) /\ Len(bytes) < Len(u)
  BY Zenon DEF Decoding, Part
<1>5. /\ at \in Nat /\ Len(u) \in 1 .. 4 /\ n + 1 \in 0 .. Len(Stored)
      /\ Len(Upto(n + 1)) = at + Len(u)
  BY <1>3, UnitAt, Zenon
<1>6. /\ b \in Seq(Byte) /\ Tail(buffer) \in Seq(Byte) /\ k = Len(bytes) + 1
      /\ Len(Tail(buffer)) \in Nat /\ Len(Tail(buffer)) <= Len(buffer)
      /\ Placed(at, pos, b, Tail(buffer)) /\ Placed(at + k, pos, << >>, Tail(buffer))
  <2>1. bytes \in Seq(Byte) /\ buffer \in Seq(Byte) /\ pos \in Nat
    BY <1>2, Zenon DEF Types
  <2>2. at \in Nat
    BY <1>5
  <2> QED BY <1>1, <1>4, <2>1, <2>2, PlacedByGetc
<1>7. Len(bytes) \in Nat /\ Len(buffer) \in Nat /\ Len(Stored) \in Nat
  BY <1>2, <1>3, StoredIs, LenProperties, Zenon DEF Types
<1>8. k \in Nat /\ k >= 1 /\ k <= Len(u)
  <2> DEFINE m == Len(u)  j == Len(bytes)
  <2>1. m \in 1 .. 4 /\ j \in Nat /\ j < m /\ k = j + 1
    BY <1>4, <1>5, <1>6, <1>7, Zenon
  <2> HIDE DEF m, j, k
  <2> QED BY <2>1 DEF m
<1>9. GetcAnswers(n, b, k)
  <2>1. Begins(b, k, u)
    BY <1>2, <1>6, <1>8, BytesBegin, Zenon
  <2> QED BY <1>3, <1>6, <2>1, AnswersOfGetc, Zenon
<1>10. /\ ~Unreadable(ch) /\ k < Len(u) => r = More
       /\ ~Unreadable(ch) /\ k = Len(u) =>
            \/ r = Got(ch) /\ Loaded(n + 1) = <<ch>> /\ EncodingAt(n + 1) = EncodingAt(n)
            \/ r = Again /\ Loaded(n + 1) = << >> /\ EncodingAt(n + 1) = EncodingAt(n)
            \/ r = Switch(EncodingAt(n + 1)) /\ Loaded(n + 1) = << >>
       /\ Unreadable(ch) => r = EOF \/ (r = More /\ k < Len(u))
  BY <1>4, <1>9, Zenon DEF GetcAnswers
<1>11. Part(n, << >>) /\ Len(<< >>) = 0 /\ << >> \in Seq(Byte)
  <2>1. 0 < Len(u)
    <3> DEFINE m == Len(u)
    <3>1. m \in 1 .. 4
      BY <1>5
    <3> HIDE DEF m
    <3>2. 0 < m
      BY <3>1
    <3> QED BY <3>2 DEF m
  <2>2. Len(<< >>) = 0 /\ << >> \in Seq(Byte)
    OBVIOUS
  <2> QED BY <2>1, <2>2, Zenon DEF Part
<1>12. Len(buffer') <= BufSize /\ buffer' \in Seq(Byte) /\ pos' \in Nat /\ pos' <= Len(Bytes)
  <2>1. BufSize \in Nat /\ Len(buffer) <= BufSize /\ pos \in Nat
    BY <1>2, XmlStreamAssumption DEF Types, XmlStreamAssumption
  <2>2. Len(Tail(buffer)) <= BufSize
    <3> DEFINE j == Len(buffer)  l == Len(Tail(buffer))
    <3>1. j \in Nat /\ l \in Nat /\ l <= j /\ j <= BufSize
      BY <1>6, <1>7, <2>1, Zenon
    <3> HIDE DEF j, l
    <3>2. l <= BufSize
      BY <2>1, <3>1
    <3> QED BY <3>2 DEF l
  <2> QED BY <1>1, <1>2, <1>6, <2>1, <2>2, Zenon
<1> HIDE DEF b, k, r, at, ch, u
<1>13. More.is = "more" /\ EOF.is = "EOF" /\ Again.is = "again"
  BY Answers, Zenon
<1>14. CASE r = More /\ k < Len(u)
  <2>1. r.is = "more" /\ r # EOF /\ r.is # "switch" /\ r.is # "char"
    BY <1>13, <1>14
  <2>2. bytes' = b /\ phase' = "loading" /\ encoding' = encoding /\ got' = got
    BY <1>1, <1>14, <2>1, Zenon
  <2>3. Part(n, b)
    BY <1>14, Zenon DEF Part, u, ch, k
  <2>4. Placed(Len(Upto(n)), pos', bytes', buffer')
    BY <1>1, <1>6, <2>2, Zenon DEF at
  <2>5. Decoding(n)'
    BY <1>1, <1>4, <2>2, <2>3, <2>4, DecodingNext, Zenon
  <2>6. phase' \in {"loading", "loaded", "cut short"} /\ phase' # "loaded"
        /\ encoding' \in {"UTF8", "UTF16BE", "UTF16LE"} /\ bytes' \in Seq(Byte)
    BY <1>2, <1>6, <2>2 DEF Types
  <2> QED BY <1>1, <1>12, <2>5, <2>6, LoadingStep, Zenon
<1>15. CASE r = EOF /\ Unreadable(ch)
  <2>1. r.is = "EOF" /\ r # More /\ r.is # "switch" /\ r.is # "char"
    BY <1>13, <1>15
  <2>2. bytes' = << >> /\ phase' = "loaded" /\ encoding' = encoding /\ got' = got
    BY <1>1, <1>15, <2>1, Zenon
  <2>3. got' = Expected
    BY <1>3, <1>4, <1>15, <2>2, ExpectedIs, Zenon DEF ch
  <2>4. phase' \in {"loading", "loaded", "cut short"} /\ phase' = "loaded" /\ Len(bytes') < 4
        /\ encoding' \in {"UTF8", "UTF16BE", "UTF16LE"} /\ bytes' \in Seq(Byte)
    <3>1. Len(<< >>) < 4 /\ << >> \in Seq(Byte)
      OBVIOUS
    <3> QED BY <1>2, <2>2, <3>1 DEF Types
  <2> QED BY <1>1, <1>12, <2>3, <2>4, LoadingStep, Zenon
<1>16. CASE ~Unreadable(ch) /\ k = Len(u)
  <2>1. AllReadable(n + 1)
    <3>1. ASSUME NEW i \in 1 .. n + 1 PROVE ~Unreadable(Stored[i])
      <4>1. CASE i = n + 1
        BY <1>16, <4>1, Zenon DEF ch
      <4>2. CASE i # n + 1
        <5>1. n \in Nat
          BY <1>7
        <5>2. i \in 1 .. n
          BY <4>2, <5>1
        <5> QED BY <1>4, <5>2, Zenon DEF AllReadable
      <4> QED BY <4>1, <4>2
    <3> QED BY <1>5, <3>1, Zenon DEF AllReadable
  <2>2. Kept(n + 1) = Kept(n) \o Loaded(n + 1) /\ Kept(n) \in Seq(Unicode)
    <3>1. Len(Stored) \in n .. Len(Stored)
      BY <1>7
    <3> QED BY <1>3, <3>1, KeptIs, Zenon
  <2>3. Part(n + 1, << >>)
    <3>1. CASE n + 1 < Len(Stored)
      <4>1. (n + 1) + 1 \in 1 .. Len(Stored)
        <5>1. n \in Nat
          BY <1>7
        <5> QED BY <1>7, <3>1, <5>1
      <4>2. Stored[(n + 1) + 1] \in Unicode
        BY <1>3, <4>1, StoredIs, Zenon
      <4>3. Len(Encoded(Stored[(n + 1) + 1])) \in 1 .. 4
        BY <1>3, <4>2, EncodedIs, Zenon
      <4>4. 0 < Len(Encoded(Stored[(n + 1) + 1]))
        <5> DEFINE m == Len(Encoded(Stored[(n + 1) + 1]))
        <5>1. m \in 1 .. 4
          BY <4>3
        <5> HIDE DEF m
        <5>2. 0 < m
          BY <5>1
        <5> QED BY <5>2 DEF m
      <4> QED BY <1>11, <3>1, <4>4, Zenon DEF Part
    <3>2. CASE ~(n + 1 < Len(Stored))
      BY <1>11, <3>2, Zenon DEF Part
    <3> QED BY <3>1, <3>2
  <2>4. Placed(Len(Upto(n + 1)), pos, << >>, Tail(buffer))
    BY <1>5, <1>6, <1>16, Zenon
  <2>5. /\ bytes' = << >> /\ phase' = "loading"
        /\ encoding' = EncodingAt(n + 1) /\ got' = Kept(n + 1)
    <3>1. CASE r = Got(ch) /\ Loaded(n + 1) = <<ch>> /\ EncodingAt(n + 1) = EncodingAt(n)
      <4>1. r.is = "char" /\ r.ch = ch
        BY <3>1, Answers, Zenon
      <4>2. r # More /\ r # EOF /\ r.is # "switch"
        BY <1>13, <4>1
      <4>3. got' = Append(got, ch)
        BY <1>1, <4>1, Zenon
      <4>4. Append(Kept(n), ch) = Kept(n) \o <<ch>>
        BY <2>2
      <4> QED BY <1>1, <1>4, <2>2, <3>1, <4>2, <4>3, <4>4, Zenon
    <3>2. CASE r = Again /\ Loaded(n + 1) = << >> /\ EncodingAt(n + 1) = EncodingAt(n)
      <4>1. r # More /\ r # EOF /\ r.is # "switch" /\ r.is # "char"
        BY <1>13, <3>2
      <4>2. Kept(n) \o << >> = Kept(n)
        BY <2>2, ConcatEmptySeq
      <4> QED BY <1>1, <1>4, <2>2, <3>2, <4>1, <4>2, Zenon
    <3>3. CASE r = Switch(EncodingAt(n + 1)) /\ Loaded(n + 1) = << >>
      <4>1. r.is = "switch" /\ r.encoding = EncodingAt(n + 1)
        BY <3>3, Answers, Zenon
      <4>2. r # More /\ r # EOF /\ r.is # "char"
        BY <1>13, <4>1
      <4>3. Kept(n) \o << >> = Kept(n)
        BY <2>2, ConcatEmptySeq
      <4> QED BY <1>1, <1>4, <2>2, <3>3, <4>1, <4>2, <4>3, Zenon
    <3> QED BY <1>10, <1>16, <3>1, <3>2, <3>3, Zenon
  <2>6. Placed(Len(Upto(n + 1)), pos', bytes', buffer') /\ Part(n + 1, bytes')
    BY <1>1, <2>3, <2>4, <2>5, Zenon
  <2>7. Decoding(n + 1)'
    BY <1>1, <2>1, <2>5, <2>6, DecodingNext, Zenon
  <2>8. phase' \in {"loading", "loaded", "cut short"} /\ phase' # "loaded"
        /\ encoding' \in {"UTF8", "UTF16BE", "UTF16LE"} /\ bytes' \in Seq(Byte)
    <3>1. EncodingAt(n + 1) \in {"UTF8", "UTF16BE", "UTF16LE"}
      BY <1>3 DEF EncodingAt, GivenOK
    <3> QED BY <1>11, <2>5, <3>1
  <2> QED BY <1>1, <1>5, <1>12, <2>7, <2>8, LoadingStep, Zenon
<1>17. k < Len(u) \/ k = Len(u)
  <2> DEFINE m == Len(u)
  <2>1. m \in 1 .. 4 /\ k <= m
    BY <1>5, <1>8
  <2> HIDE DEF m
  <2>2. k < m \/ k = m
    BY <1>8, <2>1
  <2> QED BY <2>2 DEF m
<1> QED BY <1>10, <1>14, <1>15, <1>16, <1>17, Zenon

\* The zero bytes after the last character of a string.
LEMMA GetcAtEnd ==
  ASSUME StreamInv, Getc, NEW n \in 0 .. Len(Stored), Decoding(n), n = Len(Stored)
  PROVE  StreamInv'
<1> DEFINE b  == Append(bytes, Head(buffer))
           k  == Len(b)
           r  == getc(b, encoding)
           at == Len(Upto(n))
           j  == Len(bytes)
           c  == Len(Contents)
<1>1. /\ phase = "loading" /\ buffer # << >> /\ buffer' = Tail(buffer)
      /\ UNCHANGED <<given, file, put, pos>>
      /\ bytes' = IF r = More THEN b ELSE << >>
      /\ phase' = IF r = EOF THEN "loaded" ELSE "loading"
      /\ encoding' = IF r.is = "switch" THEN r.encoding ELSE encoding
      /\ IF r.is = "char" THEN got' = Append(got, r.ch) ELSE got' = got
  BY GetcIs, Zenon
<1>2. Types /\ file = Contents /\ pos <= Len(Bytes)
  BY <1>1, LoadingIs, Zenon
<1>3. GivenOK /\ bytes \in Seq(Byte) /\ buffer \in Seq(Byte) /\ pos \in Nat
  BY <1>2, Zenon DEF Types
<1>4. /\ AllReadable(n) /\ got = Kept(n) /\ encoding = EncodingAt(n)
      /\ Placed(at, pos, bytes, buffer)
  BY Zenon DEF Decoding
<1>5. ~(n < Len(Stored))
  <2> DEFINE m == Len(Stored)
  <2>1. m \in Nat /\ n = m
    BY <1>3, StoredIs
  <2> HIDE DEF m
  <2>2. ~(n < m)
    BY <2>1
  <2> QED BY <2>2 DEF m
<1>6. j = 0 \/ (j = 1 /\ source = "string" /\ format = "UTF16LE")
  BY <1>5, Zenon DEF Decoding, Part
<1>7. at = c /\ c \in Nat
  BY <1>3, UptoIs, ContentsAre, Zenon
<1>8. /\ b \in Seq(Byte) /\ Tail(buffer) \in Seq(Byte) /\ k = j + 1
      /\ Len(Tail(buffer)) \in Nat /\ Len(Tail(buffer)) <= Len(buffer)
      /\ Placed(at, pos, b, Tail(buffer))
  <2>1. at \in Nat
    BY <1>7
  <2> QED BY <1>1, <1>3, <1>4, <2>1, PlacedByGetc
<1>9. source = "string" /\ Len(Bytes) = c + 2 /\ Bytes[c + 1] = 0 /\ Bytes[c + 2] = 0
  <2>1. pos = at + k + Len(Tail(buffer))
    BY <1>8, Zenon DEF Placed
  <2> DEFINE l == Len(Tail(buffer))
  <2>2. l \in Nat /\ pos = c + k + l /\ (k = 1 \/ k = 2)
    <3>1. k = j + 1 /\ (j = 0 \/ j = 1) /\ l \in Nat /\ pos = c + k + l
      BY <1>6, <1>7, <1>8, <2>1, Zenon
    <3> HIDE DEF j, k, l, c
    <3> QED BY <3>1
  <2> HIDE DEF l, k, c
  <2>3. ~(pos <= c)
    BY <1>7, <2>2
  <2>4. source = "string"
    BY <1>2, <2>3, BytesAre, Zenon DEF c
  <2> QED BY <1>2, <2>4, BytesAre, Zenon DEF c
<1>10. /\ k = 1 \/ k = 2
       /\ b[1] = 0 /\ (k = 2 => format = "UTF16LE" /\ b[2] = 0)
  <2>1. \A i \in 1 .. k : b[i] = Bytes[c + i]
    BY <1>7, <1>8, Zenon DEF Placed
  <2>2. k = 1 \/ (k = 2 /\ format = "UTF16LE")
    <3>1. k = j + 1 /\ (j = 0 \/ (j = 1 /\ format = "UTF16LE"))
      BY <1>6, <1>8, Zenon
    <3> HIDE DEF j, k
    <3> QED BY <3>1
  <2> HIDE DEF k, b, c
  <2>3. 1 \in 1 .. k /\ (k = 2 => 2 \in 1 .. k)
    BY <2>2
  <2>4. b[1] = 0
    BY <1>9, <2>1, <2>3, Zenon
  <2>5. ASSUME k = 2 PROVE format = "UTF16LE" /\ b[2] = 0
    <3>1. 2 \in 1 .. k /\ k # 1
      BY <2>5
    <3>2. b[2] = 0
      BY <1>9, <2>1, <3>1, Zenon
    <3> QED BY <2>2, <3>1, <3>2, Zenon
  <2> QED BY <2>2, <2>4, <2>5, Zenon
<1>11. r = IF format = "UTF16LE" /\ k = 1 THEN More ELSE EOF
  BY <1>3, <1>4, <1>9, <1>10, AnswersEnd, Zenon
<1>12. Len(buffer') <= BufSize /\ buffer' \in Seq(Byte) /\ pos' \in Nat /\ pos' <= Len(Bytes)
  <2>1. BufSize \in Nat /\ Len(buffer) <= BufSize
    BY <1>2, XmlStreamAssumption DEF Types, XmlStreamAssumption
  <2>2. Len(Tail(buffer)) <= BufSize
    <3> DEFINE i == Len(buffer)  l == Len(Tail(buffer))
    <3>1. i \in Nat /\ l \in Nat /\ l <= i /\ i <= BufSize
      BY <1>3, <1>8, <2>1, LenProperties
    <3> HIDE DEF i, l
    <3>2. l <= BufSize
      BY <2>1, <3>1
    <3> QED BY <3>2 DEF l
  <2> QED BY <1>1, <1>2, <1>3, <1>8, <2>1, <2>2, Zenon
<1> HIDE DEF b, k, r, at, j, c
<1>13. More.is = "more" /\ EOF.is = "EOF"
  BY Answers, Zenon
<1>14. CASE r = More /\ k = 1 /\ format = "UTF16LE"
  <2>1. r.is = "more" /\ r # EOF /\ r.is # "switch" /\ r.is # "char"
    BY <1>13, <1>14
  <2>2. bytes' = b /\ phase' = "loading" /\ encoding' = encoding /\ got' = got
    BY <1>1, <1>14, <2>1, Zenon
  <2>3. Part(n, b)
    BY <1>5, <1>9, <1>14, Zenon DEF Part, k
  <2>4. Placed(Len(Upto(n)), pos', bytes', buffer')
    BY <1>1, <1>8, <2>2, Zenon DEF at
  <2>5. Decoding(n)'
    BY <1>1, <1>4, <2>2, <2>3, <2>4, DecodingNext, Zenon
  <2>6. phase' \in {"loading", "loaded", "cut short"} /\ phase' # "loaded"
        /\ encoding' \in {"UTF8", "UTF16BE", "UTF16LE"} /\ bytes' \in Seq(Byte)
    BY <1>2, <1>8, <2>2 DEF Types
  <2> QED BY <1>1, <1>12, <2>5, <2>6, LoadingStep, Zenon
<1>15. CASE r = EOF
  <2>1. r.is = "EOF" /\ r # More /\ r.is # "switch" /\ r.is # "char"
    BY <1>13, <1>15
  <2>2. bytes' = << >> /\ phase' = "loaded" /\ encoding' = encoding /\ got' = got
    BY <1>1, <1>15, <2>1, Zenon
  <2>3. got' = Expected
    BY <1>3, <1>4, <2>2, ExpectedIs, Zenon
  <2>4. phase' \in {"loading", "loaded", "cut short"} /\ phase' = "loaded" /\ Len(bytes') < 4
        /\ encoding' \in {"UTF8", "UTF16BE", "UTF16LE"} /\ bytes' \in Seq(Byte)
    <3>1. Len(<< >>) < 4 /\ << >> \in Seq(Byte)
      OBVIOUS
    <3> QED BY <1>2, <2>2, <3>1 DEF Types
  <2> QED BY <1>1, <1>12, <2>3, <2>4, LoadingStep, Zenon
<1> QED BY <1>11, <1>14, <1>15, Zenon

LEMMA GetcKeeps ==
  ASSUME StreamInv, Getc
  PROVE  StreamInv'
<1>1. Types /\ \E n \in 0 .. Len(Stored) : Decoding(n)
  BY GetcIs, LoadingIs, Zenon
<1>2. PICK n \in 0 .. Len(Stored) : Decoding(n)
  BY <1>1
<1>3. n < Len(Stored) \/ n = Len(Stored)
  <2>1. Len(Stored) \in Nat
    BY <1>1, StoredIs, Zenon DEF Types
  <2> DEFINE m == Len(Stored)
  <2>2. m \in Nat /\ n \in 0 .. m
    BY <2>1
  <2> HIDE DEF m
  <2>3. n < m \/ n = m
    BY <2>2
  <2> QED BY <2>3 DEF m
<1> QED BY <1>2, <1>3, GetcWithin, GetcAtEnd, Zenon

------------------------------------------------------------------------------
(* As long as no error is ignored.                                         *)

LEMMA StreamKept ==
  ASSUME StreamInv, ~ignored, [Next]_vars, ~SpaceFails
  PROVE  StreamInv'
<1>1. CASE UNCHANGED <<given, phase, file, put, buffer, pos, bytes, encoding, got>>
  <2>1. /\ phase' = phase /\ file' = file /\ put' = put /\ buffer' = buffer /\ pos' = pos
        /\ bytes' = bytes /\ encoding' = encoding /\ got' = got
    BY <1>1, Zenon
  <2>2. /\ Stored' = Stored /\ Contents' = Contents /\ Expected' = Expected /\ (GivenOK => GivenOK')
        /\ format' = format
    BY <1>1, GivenStays, Zenon DEF given
  <2>3. Bytes' = Bytes
    BY <1>1, FileStays, Zenon
  <2>4. Types'
    BY <2>1, <2>2, Zenon DEF StreamInv, Types
  <2>5. SavedSoFar => SavedSoFar'
    BY <2>1, <2>2, Zenon DEF SavedSoFar
  <2>6. ASSUME NEW n \in 0 .. Len(Stored), Decoding(n) PROVE Decoding(n)'
    <3>1. UNCHANGED <<given, file>>
      BY <1>1, Zenon
    <3> QED BY <2>1, <2>6, <3>1, DecodingNext, Zenon DEF Decoding
  <2>7. (\E n \in 0 .. Len(Stored) : Decoding(n)) => (\E n \in 0 .. Len(Stored) : Decoding(n))'
    BY <2>2, <2>6, Zenon
  <2> QED BY <2>1, <2>2, <2>3, <2>4, <2>5, <2>7, Zenon DEF StreamInv
<1>2. CASE WriteFails
  <2>1. /\ phase \in {"saving", "writing"} /\ phase' = "save failed"
        /\ UNCHANGED <<given, put, file, buffer, pos, bytes, encoding, got>>
    BY <1>2 DEF WriteFails, Writing, loads
  <2>2. Types /\ SavedSoFar
    BY <2>1 DEF StreamInv
  <2>3. Contents' = Contents /\ (GivenOK => GivenOK') /\ format' = format
    BY <2>1, GivenStays, Zenon DEF given
  <2>4. SavedSoFar'
    BY <2>1, <2>2, <2>3, Zenon DEF SavedSoFar
  <2>5. phase' \in {"saving", "writing", "loading", "save failed", "loaded", "cut short"}
    BY <2>1
  <2>6. Types'
    BY <2>1, <2>2, <2>3, <2>5, Zenon DEF Types
  <2> QED BY <2>1, <2>4, <2>6 DEF StreamInv
<1>3. CASE Interrupted
  BY <1>1, <1>3, Zenon DEF Interrupted
<1>4. CASE Putc
  BY <1>4, PutcKeeps
<1>5. CASE \E k \in 1 .. BufSize : Write(k)
  BY <1>5, WriteKeeps
<1>6. CASE Reopen
  BY <1>6, ReopenKeeps
<1>7. CASE \E k \in 1 .. BufSize : Read(k)
  BY <1>7, ReadKeeps
<1>8. CASE ReadEnds
  BY <1>8, ReadEndsKeeps
<1>9. CASE Getc
  BY <1>9, GetcKeeps
<1>10. CASE ReadFails
  BY <1>10, ReadFailsKeeps
<1>11. CASE UNCHANGED vars
  BY <1>1, <1>11, Zenon DEF vars, given
<1> QED BY <1>2, <1>3, <1>4, <1>5, <1>6, <1>7, <1>8, <1>9, <1>10, <1>11, Zenon DEF Next, Save, Load

------------------------------------------------------------------------------
(* Errors that are ignored: from then on the file may be anything, but it  *)
(* is not loaded, and no byte is put behind the end of a buffer.           *)

\* What is written and what is left of it are the buffer; it is at rest except in
\* mxml_fd_write.
BufferFits ==
  /\ ignored \in BOOLEAN
  /\ written \in Seq(Byte) /\ Len(written) + Len(buffer) <= BufSize
  /\ phase \notin {"writing", "save failed"} => written = << >>

SavingTypes ==
  /\ GivenOK /\ format = "UTF8" /\ pos = 0 /\ bytes = << >> /\ got = << >> /\ encoding = "UTF8"
  /\ file \in Seq(Byte) /\ buffer \in Seq(Byte)
  /\ put \in Nat /\ put <= Len(Contents)

LostInv == SavingTypes /\ phase \in {"saving", "writing", "save failed", "saved"}

FullInv ==
  /\ BufferFits
  /\ ~ignored => StreamInv
  /\ ignored => LostInv

\* The two parts of a buffer.
LEMMA SplitBuffer ==
  ASSUME NEW s \in Seq(Byte), NEW k \in 1 .. Len(s)
  PROVE  /\ SubSeq(s, 1, k) \in Seq(Byte) /\ Len(SubSeq(s, 1, k)) = k
         /\ SubSeq(s, k + 1, Len(s)) \in Seq(Byte) /\ Len(SubSeq(s, k + 1, Len(s))) = Len(s) - k
<1>1. Len(s) \in Nat /\ k \in 0 .. Len(s)
  BY LenProperties
<1>2. SubSeq(s, 1, k) \in Seq(Byte) /\ Len(SubSeq(s, 1, k)) = k
  BY <1>1, PrefixOfSequence, Zenon
<1>3. \A i \in 1 .. Len(s) : s[i] \in Byte
  BY ElementOfSeq
<1> DEFINE n == Len(s)
<1> HIDE DEF n
<1>4. n \in Nat /\ k \in 1 .. n
  BY <1>1 DEF n
<1>5. k + 1 \in Int /\ n \in Int /\ \A i \in k + 1 .. n : s[i] \in Byte
  BY <1>3, <1>4 DEF n
<1>6. /\ SubSeq(s, k + 1, n) \in Seq(Byte)
      /\ Len(SubSeq(s, k + 1, n)) = IF k + 1 <= n THEN n - (k + 1) + 1 ELSE 0
  BY <1>5, SubSeqProperties
<1>7. (IF k + 1 <= n THEN n - (k + 1) + 1 ELSE 0) = n - k
  BY <1>4
<1> QED BY <1>2, <1>6, <1>7, Zenon DEF n

LEMMA SavingTypesIf ==
  ASSUME StreamInv, phase \in {"saving", "writing"}
  PROVE  SavingTypes
<1>1. Types /\ SavedSoFar
  BY DEF StreamInv
<1>2. put <= Len(Contents) /\ put \in Nat
  BY <1>1, Zenon DEF Types, SavedSoFar
<1> QED BY <1>1, <1>2, Zenon DEF Types, SavedSoFar, SavingTypes

LEMMA SavingTypesStay ==
  ASSUME SavingTypes, UNCHANGED <<given, pos, bytes, got, encoding>>,
         file' \in Seq(Byte), buffer' \in Seq(Byte), put' \in Nat, put' <= Len(Contents)
  PROVE  SavingTypes'
<1>1. Contents' = Contents /\ (GivenOK => GivenOK')
  BY GivenStays, Zenon
<1> QED BY <1>1, Zenon DEF SavingTypes, given

LEMMA PutcFits ==
  ASSUME SavingTypes, BufferFits, Putc
  PROVE  BufferFits' /\ SavingTypes' /\ phase' = "saving" /\ ignored' = ignored
<1>1. /\ phase = "saving" /\ phase' = "saving" /\ Len(buffer) < BufSize /\ put # Len(Contents)
      /\ buffer' = Append(buffer, Contents[put + 1]) /\ put' = put + 1
      /\ UNCHANGED <<given, file, written, ignored, pos, bytes, encoding, got>>
  BY Zenon DEF Putc, AllPut, loads, failures
<1>2. Contents \in Seq(Byte) /\ Len(Contents) \in Nat
  BY ContentsAre, Zenon DEF SavingTypes
<1>3. put + 1 \in 1 .. Len(Contents) /\ put' \in Nat /\ put' <= Len(Contents)
  <2> DEFINE m == Len(Contents)
  <2>1. put \in Nat /\ m \in Nat /\ put <= m /\ put # m
    BY <1>1, <1>2, Zenon DEF SavingTypes
  <2> HIDE DEF m
  <2>2. put + 1 \in 1 .. m /\ put + 1 \in Nat /\ put + 1 <= m
    BY <2>1
  <2> QED BY <1>1, <2>2, Zenon DEF m
<1>4. Contents[put + 1] \in Byte
  BY <1>2, <1>3, ElementOfSeq
<1>5. buffer' \in Seq(Byte) /\ Len(buffer') = Len(buffer) + 1
  BY <1>1, <1>4, AppendProperties DEF SavingTypes
<1>6. written = << >> /\ Len(buffer) \in Nat /\ BufSize \in Nat
  BY <1>1, LenProperties, XmlStreamAssumption DEF BufferFits, SavingTypes, XmlStreamAssumption
<1>7. Len(written') + Len(buffer') <= BufSize
  BY <1>1, <1>5, <1>6
<1>8. BufferFits'
  BY <1>1, <1>6, <1>7, Zenon DEF BufferFits
<1>9. file' \in Seq(Byte)
  BY <1>1, Zenon DEF SavingTypes
<1>10. SavingTypes'
  BY <1>1, <1>3, <1>5, <1>9, SavingTypesStay, Zenon
<1> QED BY <1>1, <1>8, <1>10

LEMMA WriteFits ==
  ASSUME SavingTypes, BufferFits, NEW k \in 1 .. BufSize, Write(k)
  PROVE  BufferFits' /\ SavingTypes' /\ phase' \in {"saving", "writing"} /\ ignored' = ignored
<1> DEFINE out == SubSeq(buffer, 1, k)  rest == SubSeq(buffer, k + 1, Len(buffer))
<1>1. /\ k \in DOMAIN buffer /\ file' = file \o out /\ buffer' = rest
      /\ phase' = IF buffer' = << >> THEN "saving" ELSE "writing"
      /\ written' = IF buffer' = << >> THEN << >> ELSE written \o out
      /\ UNCHANGED <<given, put, ignored, pos, bytes, encoding, got>>
  BY Zenon DEF Write, loads
<1>2. k \in 1 .. Len(buffer) /\ Len(buffer) \in Nat
  BY <1>1, LenProperties DEF SavingTypes
<1>3. /\ out \in Seq(Byte) /\ Len(out) = k
      /\ rest \in Seq(Byte) /\ Len(rest) = Len(buffer) - k
  BY <1>2, SplitBuffer, Zenon DEF SavingTypes
<1> HIDE DEF out, rest
<1>4. file' \in Seq(Byte)
  BY <1>1, <1>3, ConcatProperties DEF SavingTypes
<1>5. written \o out \in Seq(Byte) /\ Len(written \o out) = Len(written) + k /\ Len(written) \in Nat
  BY <1>3, ConcatProperties, LenProperties DEF BufferFits
<1>6. written' \in Seq(Byte) /\ Len(written') + Len(buffer') <= BufSize
  <2>1. << >> \in Seq(Byte) /\ Len(<< >>) = 0 /\ BufSize \in Nat
    BY XmlStreamAssumption DEF XmlStreamAssumption
  <2>2. Len(written) + Len(buffer) <= BufSize
    BY Zenon DEF BufferFits
  <2>3. CASE buffer' = << >>
    <3>1. written' = << >>
      BY <1>1, <2>3, Zenon
    <3> QED BY <2>1, <2>3, <3>1
  <2>4. CASE buffer' # << >>
    <3>1. written' = written \o out
      BY <1>1, <2>4, Zenon
    <3>2. Len(written') = Len(written) + k /\ Len(buffer') = Len(buffer) - k
      BY <1>1, <1>3, <1>5, <3>1, Zenon
    <3>3. Len(written') + Len(buffer') <= BufSize
      BY <1>2, <1>5, <2>1, <2>2, <3>2
    <3> QED BY <1>5, <3>1, <3>3, Zenon
  <2> QED BY <2>3, <2>4
<1>7. phase' \in {"saving", "writing"} /\ (phase' # "writing" => written' = << >>)
  BY <1>1
<1>8. BufferFits'
  BY <1>1, <1>6, <1>7 DEF BufferFits
<1>9. buffer' \in Seq(Byte) /\ put' \in Nat /\ put' <= Len(Contents)
  BY <1>1, <1>3, Zenon DEF SavingTypes
<1>10. SavingTypes'
  BY <1>1, <1>4, <1>9, SavingTypesStay, Zenon
<1> QED BY <1>1, <1>7, <1>8, <1>10

LEMMA SpaceFits ==
  ASSUME SavingTypes, BufferFits, NEW n \in 1 .. Len(Contents), WriteFailsInSpace(n)
  PROVE  BufferFits' /\ SavingTypes' /\ phase' = "saving" /\ ignored'
<1>1. /\ put' = n /\ phase' = "saving" /\ ignored' = TRUE
      /\ buffer' = written \o buffer /\ written' = << >>
      /\ UNCHANGED <<given, file, pos, bytes, encoding, got>>
  BY Zenon DEF WriteFailsInSpace, loads
<1>2. Len(Contents) \in Nat
  BY ContentsAre, Zenon DEF SavingTypes
<1>3. put' \in Nat /\ put' <= Len(Contents)
  <2> DEFINE m == Len(Contents)
  <2>1. m \in Nat /\ n \in 1 .. m
    BY <1>2
  <2> HIDE DEF m
  <2>2. n \in Nat /\ n <= m
    BY <2>1
  <2> QED BY <1>1, <2>2, Zenon DEF m
<1>4. buffer' \in Seq(Byte) /\ Len(buffer') = Len(written) + Len(buffer)
  BY <1>1, ConcatProperties DEF SavingTypes, BufferFits
<1>5. Len(written') + Len(buffer') <= BufSize
  <2>1. Len(written') = 0 /\ Len(buffer') \in Nat
    BY <1>1, <1>4, LenProperties
  <2>2. Len(buffer') <= BufSize
    BY <1>4, Zenon DEF BufferFits
  <2> QED BY <2>1, <2>2
<1>6. << >> \in Seq(Byte) /\ TRUE \in BOOLEAN
  OBVIOUS
<1>7. BufferFits'
  BY <1>1, <1>5, <1>6, Zenon DEF BufferFits
<1>8. file' \in Seq(Byte)
  BY <1>1, Zenon DEF SavingTypes
<1>9. SavingTypes'
  BY <1>1, <1>3, <1>4, <1>8, SavingTypesStay, Zenon
<1> QED BY <1>1, <1>7, <1>9

\* The steps that leave the buffer of a save as it is.
LEMMA AtRestFits ==
  ASSUME BufferFits, UNCHANGED <<buffer, written, ignored>>,
         phase' \in {"writing", "save failed"} \/ written = << >>
  PROVE  BufferFits'
  BY Zenon DEF BufferFits

\* Loading, nothing of a save is left.
LEMMA LoadFits ==
  ASSUME BufferFits, StreamInv', phase = "loading", UNCHANGED <<written, ignored>>
  PROVE  BufferFits'
<1>1. written = << >> /\ written' = << >>
  BY DEF BufferFits
<1>2. Len(buffer') \in Nat /\ Len(buffer') <= BufSize
  <2>1. Types'
    BY Zenon DEF StreamInv
  <2> QED BY <2>1, LenProperties DEF Types
<1>3. Len(written') + Len(buffer') <= BufSize
  BY <1>1, <1>2
<1> QED BY <1>1, <1>3, Zenon DEF BufferFits

LEMMA FullInit == Init => FullInv
<1> SUFFICES ASSUME Init PROVE FullInv
  OBVIOUS
<1>1. StreamInv
  BY StreamInit
<1>2. written = << >> /\ buffer = << >> /\ ignored = FALSE
  BY Zenon DEF Init
<1>3. BufferFits
  <2>1. Len(<< >>) + Len(<< >>) <= BufSize /\ << >> \in Seq(Byte) /\ FALSE \in BOOLEAN
    BY XmlStreamAssumption DEF XmlStreamAssumption
  <2> QED BY <1>2, <2>1, Zenon DEF BufferFits
<1> QED BY <1>1, <1>2, <1>3, Zenon DEF FullInv

LEMMA FullKept == FullInv /\ [Next]_vars => FullInv'
<1> SUFFICES ASSUME FullInv, [Next]_vars PROVE FullInv'
  OBVIOUS
<1>1. BufferFits /\ (~ignored => StreamInv) /\ (ignored => LostInv)
  BY Zenon DEF FullInv
<1>2. phase \in {"saving", "writing"} => SavingTypes
  BY <1>1, SavingTypesIf, Zenon DEF LostInv
<1>3. phase = "loading" => ~ignored /\ StreamInv
  BY <1>1 DEF LostInv
<1>4. CASE SpaceFails
  <2>1. PICK n \in 1 .. Len(Contents) : WriteFailsInSpace(n)
    BY <1>4, Zenon DEF SpaceFails
  <2>2. phase \in {"saving", "writing"}
    BY <2>1 DEF WriteFailsInSpace, Writing
  <2>3. BufferFits' /\ SavingTypes' /\ phase' = "saving" /\ ignored'
    BY <1>1, <1>2, <2>1, <2>2, SpaceFits, Zenon
  <2> QED BY <2>3 DEF FullInv, LostInv
<1>5. ASSUME ~SpaceFails PROVE ~ignored => StreamInv'
  BY <1>1, <1>5, StreamKept, Zenon
<1>6. CASE Putc
  <2>1. (phase \in {"saving", "writing"} /\ ~SpaceFails) \/ SpaceFails
    BY <1>6 DEF Putc
  <2>2. CASE ~SpaceFails
    <3>1. BufferFits' /\ SavingTypes' /\ phase' = "saving" /\ ignored' = ignored
      BY <1>1, <1>2, <1>6, <2>1, <2>2, PutcFits, Zenon
    <3> QED BY <1>5, <2>2, <3>1 DEF FullInv, LostInv
  <2> QED BY <1>4, <2>2
<1>7. CASE \E k \in 1 .. BufSize : Write(k)
  <2>1. PICK k \in 1 .. BufSize : Write(k)
    BY <1>7
  <2>2. phase \in {"saving", "writing"}
    BY <2>1 DEF Write, Writing
  <2>3. BufferFits' /\ SavingTypes' /\ phase' \in {"saving", "writing"} /\ ignored' = ignored
    BY <1>1, <1>2, <2>1, <2>2, WriteFits, Zenon
  <2>4. CASE ~SpaceFails
    BY <1>5, <2>3, <2>4 DEF FullInv, LostInv
  <2> QED BY <1>4, <2>4
<1>8. CASE WriteFails
  <2>1. /\ phase \in {"saving", "writing"} /\ phase' = "save failed"
        /\ UNCHANGED <<given, put, file, buffer, written, ignored, pos, bytes, encoding, got>>
    BY <1>8 DEF WriteFails, Writing, loads, failures
  <2>2. BufferFits'
    BY <1>1, <2>1, AtRestFits
  <2>3. SavingTypes'
    <3>1. file' \in Seq(Byte) /\ buffer' \in Seq(Byte) /\ put' \in Nat /\ put' <= Len(Contents)
      BY <1>2, <2>1, Zenon DEF SavingTypes
    <3> QED BY <1>2, <2>1, <3>1, SavingTypesStay, Zenon
  <2>4. CASE ~SpaceFails
    BY <1>5, <2>1, <2>2, <2>3, <2>4 DEF FullInv, LostInv
  <2> QED BY <1>4, <2>4
<1>9. CASE Reopen
  <2>1. /\ phase = "saving" /\ phase' = IF ignored THEN "saved" ELSE "loading"
        /\ UNCHANGED <<given, put, file, buffer, written, ignored, pos, bytes, encoding, got>>
    BY <1>9, Zenon DEF Reopen, loads, failures
  <2>2. BufferFits'
    <3>1. written = << >>
      BY <1>1, <2>1 DEF BufferFits
    <3> QED BY <1>1, <2>1, <3>1, AtRestFits, Zenon
  <2>3. SavingTypes'
    <3>1. SavingTypes
      BY <1>2, <2>1
    <3>2. file' \in Seq(Byte) /\ buffer' \in Seq(Byte) /\ put' \in Nat /\ put' <= Len(Contents)
      BY <2>1, <3>1, Zenon DEF SavingTypes
    <3> QED BY <2>1, <3>1, <3>2, SavingTypesStay, Zenon
  <2>4. CASE ~SpaceFails
    <3>1. ignored' => LostInv'
      BY <2>1, <2>3 DEF LostInv
    <3> QED BY <1>5, <2>1, <2>2, <2>4, <3>1, Zenon DEF FullInv
  <2> QED BY <1>4, <2>4
<1>10. CASE phase = "loading" /\ UNCHANGED <<written, ignored>>
  <2>1. ~SpaceFails
    BY <1>10 DEF SpaceFails, WriteFailsInSpace, Writing
  <2>2. StreamInv' /\ ~ignored'
    BY <1>3, <1>5, <1>10, <2>1, Zenon
  <2>3. BufferFits'
    BY <1>1, <1>10, <2>2, LoadFits, Zenon
  <2> QED BY <2>2, <2>3, Zenon DEF FullInv
<1>11. CASE UNCHANGED vars
  <2>1. /\ UNCHANGED <<given, phase, put, file, buffer, written, ignored, pos, bytes, encoding, got>>
    BY <1>11, Zenon DEF vars, given
  <2>2. BufferFits'
    BY <1>1, <2>1, Zenon DEF BufferFits
  <2>3. SavingTypes => SavingTypes'
    <3>1. SavingTypes => file' \in Seq(Byte) /\ buffer' \in Seq(Byte) /\ put' \in Nat /\ put' <= Len(Contents)
      BY <2>1, Zenon DEF SavingTypes
    <3> QED BY <2>1, <3>1, SavingTypesStay, Zenon
  <2>4. LostInv => LostInv'
    BY <2>1, <2>3, Zenon DEF LostInv
  <2>5. CASE ~SpaceFails
    BY <1>1, <1>5, <2>1, <2>2, <2>4, <2>5, Zenon DEF FullInv
  <2> QED BY <1>4, <2>5
<1>12. \/ Interrupted \/ ReadFails \/ ReadEnds \/ Getc \/ (\E k \in 1 .. BufSize : Read(k))
       => phase = "loading" /\ UNCHANGED <<written, ignored>>
  BY Zenon DEF Interrupted, ReadFails, ReadEnds, Getc, Read, Empty, failures
<1> QED
  BY <1>4, <1>6, <1>7, <1>8, <1>9, <1>10, <1>11, <1>12, Zenon DEF Next, Save, Load

LEMMA StreamHolds == Spec => []FullInv
  BY FullInit, FullKept, PTL DEF Spec

------------------------------------------------------------------------------
(* What the runs check.                                                    *)

LEMMA PrefixIf ==
  ASSUME NEW S, NEW s \in Seq(S), NEW t \in Seq(S), Len(s) <= Len(t), \A i \in 1 .. Len(s) : t[i] = s[i]
  PROVE  IsPrefix(s, t)
<1> DEFINE n == Len(s)
<1>1. n \in Nat /\ Len(t) \in Nat /\ n \in 0 .. Len(s) /\ n \in 0 .. Len(t)
  BY LenProperties
<1>2. /\ SubSeq(s, 1, n) \in Seq(S) /\ Len(SubSeq(s, 1, n)) = n
      /\ \A i \in 1 .. n : SubSeq(s, 1, n)[i] = s[i]
  BY <1>1, PrefixOfSequence, Zenon
<1>3. /\ SubSeq(t, 1, n) \in Seq(S) /\ Len(SubSeq(t, 1, n)) = n
      /\ \A i \in 1 .. n : SubSeq(t, 1, n)[i] = t[i]
  BY <1>1, PrefixOfSequence, Zenon
<1> DEFINE u == SubSeq(s, 1, n)  v == SubSeq(t, 1, n)
<1>4. Len(u) = Len(v) /\ \A i \in 1 .. Len(u) : u[i] = v[i]
  BY <1>2, <1>3, Zenon
<1>5. u \in Seq(S) /\ v \in Seq(S)
  BY <1>2, <1>3, Zenon
<1> HIDE DEF u, v
<1>6. u = v
  BY <1>4, <1>5, SeqEqual
<1> QED BY <1>6, Zenon DEF IsPrefix, u, v, n

LEMMA SavedWithoutErrors == StreamInv => SavedWhole
<1> SUFFICES ASSUME StreamInv PROVE SavedWhole
  OBVIOUS
<1>1. Types
  BY DEF StreamInv
<1>2. /\ Contents \in Seq(Byte) /\ Len(Contents) \in Nat
      /\ file \in Seq(Byte) /\ Len(file) \in Nat /\ Len(buffer) \in Nat
  BY <1>1, ContentsAre, LenProperties, Zenon DEF Types
<1>3. phase \in {"loading", "loaded", "cut short"} => file = Contents
  BY Zenon DEF StreamInv
<1>4. CASE phase \in {"loading", "loaded", "cut short"}
  <2>1. Len(file) <= Len(file)
    BY <1>2
  <2>2. IsPrefix(file, file)
    BY <1>2, <2>1, PrefixIf
  <2> QED BY <1>3, <1>4, <2>2, Zenon DEF SavedWhole
<1>5. CASE phase \in {"saving", "writing", "save failed"}
  <2>1. SavedSoFar
    BY <1>5, Zenon DEF StreamInv
  <2>2. Len(file) <= Len(Contents) /\ \A i \in 1 .. Len(file) : Contents[i] = file[i]
    <3> DEFINE n == Len(file)  k == Len(buffer)  m == Len(Contents)
    <3>1. put = n + k /\ put <= m /\ \A i \in 1 .. n : Contents[i] = file[i]
      BY <2>1, Zenon DEF SavedSoFar
    <3>2. n \in Nat /\ k \in Nat /\ m \in Nat
      BY <1>2, Zenon
    <3> HIDE DEF n, k, m
    <3>3. n <= m
      BY <3>1, <3>2
    <3> QED BY <3>1, <3>3, Zenon DEF n, m
  <2>3. IsPrefix(file, Contents)
    BY <1>2, <2>2, PrefixIf
  <2>4. phase \notin {"loading", "loaded", "cut short"}
    BY <1>5
  <2> QED BY <2>3, <2>4, Zenon DEF SavedWhole
<1> QED BY <1>1, <1>4, <1>5 DEF Types

LEMMA ReadWithoutErrors == StreamInv => ReadsBack /\ got \in Seq(Unicode)
<1> SUFFICES ASSUME StreamInv PROVE ReadsBack /\ got \in Seq(Unicode)
  OBVIOUS
<1>1. Types /\ GivenOK
  BY Zenon DEF StreamInv, Types
<1>2. AllReadable(0) /\ Expected \in Seq(Unicode)
  <2>1. 0 \in 0 .. Len(Stored)
    BY <1>1, StoredIs
  <2>2. AllReadable(0)
    BY <2>1 DEF AllReadable
  <2> QED BY <1>1, <2>2, ExpectedIs, Zenon
<1>3. << >> \in Seq(Unicode) /\ IsPrefix(<< >>, Expected) /\ IsPrefix(Expected, Expected)
  <2>1. Len(Expected) \in Nat /\ Len(<< >>) = 0 /\ << >> \in Seq(Unicode)
    BY <1>2, LenProperties
  <2>2. Len(<< >>) <= Len(Expected) /\ Len(Expected) <= Len(Expected) /\ 1 .. Len(<< >>) = {}
    BY <2>1
  <2> QED BY <1>2, <2>1, <2>2, PrefixIf
<1>4. CASE phase \in {"saving", "writing", "save failed"}
  <2>1. got = << >> /\ phase # "loaded"
    BY <1>4 DEF StreamInv, SavedSoFar
  <2> QED BY <1>3, <2>1, Zenon DEF ReadsBack
<1>5. CASE phase \in {"loading", "cut short"}
  <2>1. PICK n \in 0 .. Len(Stored) : Decoding(n)
    BY <1>5, Zenon DEF StreamInv
  <2>2. AllReadable(n) /\ got = Kept(n)
    BY <2>1, Zenon DEF Decoding
  <2>3. /\ Kept(n) \in Seq(Unicode) /\ Len(Kept(n)) <= Len(Expected)
        /\ \A i \in 1 .. Len(Kept(n)) : Expected[i] = Kept(n)[i]
    BY <1>1, <2>2, ExpectedIs, Zenon
  <2>4. IsPrefix(Kept(n), Expected)
    BY <1>2, <2>3, PrefixIf, Zenon
  <2>5. phase # "loaded"
    BY <1>5
  <2> QED BY <2>2, <2>3, <2>4, <2>5, Zenon DEF ReadsBack
<1>6. CASE phase = "loaded"
  <2>1. got = Expected
    BY <1>6, Zenon DEF StreamInv
  <2> QED BY <1>2, <1>3, <2>1, Zenon DEF ReadsBack
<1> QED BY <1>1, <1>4, <1>5, <1>6 DEF Types

\* After an ignored error nothing has been read, and the save may succeed.
LEMMA LostIs ==
  ASSUME LostInv
  PROVE  /\ phase \notin {"loading", "loaded", "cut short"}
         /\ got = << >> /\ bytes = << >> /\ pos = 0 /\ GivenOK
         /\ phase \in {"saving", "writing", "saved", "loading", "save failed", "loaded", "cut short"}
         /\ encoding \in {"UTF8", "UTF16BE", "UTF16LE"}
         /\ file \in Seq(Byte) /\ buffer \in Seq(Byte)
  BY DEF LostInv, SavingTypes

LEMMA SavedIf == FullInv => SavedWhole
<1>1. StreamInv => SavedWhole
  BY SavedWithoutErrors
<1>2. LostInv /\ ignored => SavedWhole
  BY LostIs, Zenon DEF SavedWhole
<1> QED BY <1>1, <1>2, Zenon DEF FullInv

LEMMA ReadIf == FullInv => ReadsBack /\ got \in Seq(Unicode)
<1>1. StreamInv => ReadsBack /\ got \in Seq(Unicode)
  BY ReadWithoutErrors
<1>2. ASSUME LostInv PROVE ReadsBack /\ got \in Seq(Unicode)
  <2>1. got = << >> /\ phase # "loaded" /\ GivenOK
    BY <1>2, LostIs
  <2>2. AllReadable(0) /\ Expected \in Seq(Unicode)
    <3>1. 0 \in 0 .. Len(Stored)
      BY <2>1, StoredIs
    <3>2. AllReadable(0)
      BY <3>1 DEF AllReadable
    <3> QED BY <2>1, <3>2, ExpectedIs, Zenon
  <2>3. << >> \in Seq(Unicode) /\ IsPrefix(<< >>, Expected)
    <3>1. Len(Expected) \in Nat /\ Len(<< >>) = 0 /\ << >> \in Seq(Unicode)
      BY <2>2, LenProperties
    <3>2. Len(<< >>) <= Len(Expected) /\ 1 .. Len(<< >>) = {}
      BY <3>1
    <3> QED BY <2>2, <3>1, <3>2, PrefixIf
  <2> QED BY <2>1, <2>3, Zenon DEF ReadsBack
<1> QED BY <1>1, <1>2, Zenon DEF FullInv

LEMMA TypeIf == FullInv /\ Room => TypeOK
<1> SUFFICES ASSUME FullInv, Room PROVE TypeOK
  OBVIOUS
<1>1. /\ GivenOK /\ encoding \in {"UTF8", "UTF16BE", "UTF16LE"}
      /\ file \in Seq(Byte) /\ buffer \in Seq(Byte) /\ bytes \in Seq(Byte)
      /\ phase \in {"saving", "writing", "saved", "loading", "save failed", "loaded", "cut short"}
  <2>1. CASE ignored
    <3>1. << >> \in Seq(Byte)
      OBVIOUS
    <3> QED BY <2>1, <3>1, LostIs, Zenon DEF FullInv
  <2>2. CASE ~ignored
    <3>1. Types
      BY <2>2, Zenon DEF FullInv, StreamInv
    <3> QED BY <3>1 DEF Types
  <2> QED BY <2>1, <2>2
<1>2. Len(written) + Len(buffer) <= BufSize
  BY Zenon DEF FullInv, BufferFits
<1>3. got \in Seq(Unicode)
  BY ReadIf, Zenon
<1>4. \A b \in Range(file \o buffer \o bytes) : b \in 0 .. 255
  <2> DEFINE s == file \o buffer \o bytes
  <2>1. file \o buffer \in Seq(Byte)
    BY <1>1, ConcatProperties
  <2>2. s \in Seq(Byte)
    BY <1>1, <2>1, ConcatProperties
  <2> HIDE DEF s
  <2>3. \A i \in DOMAIN s : s[i] \in Byte
    BY <2>2, LenProperties, ElementOfSeq
  <2>4. \A b \in Range(s) : b \in Byte
    BY <2>3, Zenon DEF Range
  <2> QED BY <2>4, Zenon DEF Byte, s
<1>5. Len(Bytes) \in Nat
  <2>1. <<0, 0>> \in Seq(Byte)
    BY DEF Byte
  <2>2. Bytes \in Seq(Byte)
    BY <1>1, <2>1, ConcatProperties DEF Bytes
  <2> QED BY <2>2, LenProperties
<1>6. pos \in 0 .. Len(Bytes) /\ Len(bytes) < 4
  <2>1. CASE ignored \/ phase \in {"saving", "writing", "save failed"}
    <3>1. pos = 0 /\ bytes = << >>
      BY <2>1, LostIs DEF FullInv, StreamInv, SavedSoFar
    <3> QED BY <1>5, <3>1
  <2>2. CASE ~ignored /\ phase \notin {"saving", "writing", "save failed"}
    <3>1. StreamInv /\ Types /\ pos \in Nat
      BY <2>2, Zenon DEF FullInv, StreamInv, Types
    <3>2. phase \in {"loading", "loaded", "cut short"}
      BY <2>2, <3>1 DEF Types
    <3>3. pos <= Len(Bytes)
      BY <3>1, <3>2, Zenon DEF StreamInv
    <3>4. pos \in 0 .. Len(Bytes)
      <4> DEFINE m == Len(Bytes)
      <4>1. m \in Nat /\ pos \in Nat /\ pos <= m
        BY <1>5, <3>1, <3>3, Zenon
      <4> HIDE DEF m
      <4>2. pos \in 0 .. m
        BY <4>1
      <4> QED BY <4>2 DEF m
    <3>5. Len(bytes) < 4
      <4>1. CASE phase = "loaded"
        BY <3>1, <4>1, Zenon DEF StreamInv
      <4>2. CASE phase \in {"loading", "cut short"}
        <5>1. PICK n \in 0 .. Len(Stored) : Decoding(n)
          BY <3>1, <4>2, Zenon DEF StreamInv
        <5> QED BY <1>1, <3>1, <5>1, PartIs, Zenon DEF Decoding
      <4> QED BY <3>2, <4>1, <4>2
    <3> QED BY <3>4, <3>5
  <2> QED BY <2>1, <2>2
<1> QED BY <1>1, <1>2, <1>3, <1>4, <1>5, <1>6, Zenon DEF TypeOK, Room

\* What the buffers hold are bytes, a loader never holds more than the three
\* bytes that a character still lacks one of, nor reads behind the end
\* (mxml-file.c:1015-1118), whatever the characters and the sizes.
THEOREM BuffersAreTyped == Spec => []TypeOK
<1>1. Spec => []Room
  BY RoomInit, RoomKept, PTL DEF Spec
<1> QED BY <1>1, StreamHolds, TypeIf, PTL

\* However the system splits the writes, what a save that succeeds without an error
\* has written is the whole text, and a failed one wrote the beginning of it; only
\* errors in the whitespace, which are ignored, are left out (mxml-file.c:1082-1118,
\* 2753, 2834, 2849).
THEOREM SavesAreWhole == Spec => []SavedWhole
  BY StreamHolds, SavedIf, PTL

\* In every encoding, from every source, and in whatever pieces the bytes come, a
\* loader gets the characters that can be read, in the order they were written
\* (mxml-file.c:705-1001, 1125-1330, 2383-2633).
THEOREM TextsReadBack == Spec => []ReadsBack
<1>1. FullInv => ReadsBack
  BY ReadIf
<1> QED BY <1>1, StreamHolds, PTL
==============================================================================
