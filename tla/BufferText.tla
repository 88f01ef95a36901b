------------------------------ MODULE BufferText ------------------------------
(* Texts and bytes (utils/buffer.js): what Buffer.from and write make of a  *)
(* text in each encoding, and toString of bytes.  A text is a sequence of   *)
(* UTF-16 code units.                                                       *)
EXTENDS Integers, Sequences, SequencesExt, FiniteSetsExt

Encodings == {"utf8", "ucs2", "latin1", "ascii", "hex", "base64"}
Replacement == 65533
Infinity == 1000

IsLead(c) == c \in 55296..56319
IsTrail(c) == c \in 56320..57343
IsSurrogate(c) == IsLead(c) \/ IsTrail(c)

(* --------------------------------- UTF-8 -------------------------------- *)
FollowingByte(n) == 128 + (n % 64)
Utf8(c) ==
  CASE c < 128 -> <<c>>
    [] c \in 128..2047 -> <<192 + (c \div 64), FollowingByte(c)>>
    [] c \in 2048..65535 -> <<224 + (c \div 4096), FollowingByte(c \div 64), FollowingByte(c)>>
    [] c > 65535 -> <<240 + (c \div 262144), FollowingByte(c \div 4096), FollowingByte(c \div 64),
                      FollowingByte(c)>>

(* The bytes run out of units: a character that no longer fits ends the     *)
(* loop, a replacement is left out of it.                                   *)
Replace(s) == [s EXCEPT !.units = @ - 3, !.bytes = IF s.units > 2 THEN @ \o Utf8(Replacement) ELSE @]
Encode(s, c) ==
  IF s.units < Len(Utf8(c)) THEN [s EXCEPT !.full = TRUE, !.lead = 0]
  ELSE [s EXCEPT !.units = @ - Len(Utf8(c)), !.bytes = @ \o Utf8(c), !.lead = 0]

utf8Unit(s, c, atEnd) ==
  IF s.full THEN s
  ELSE IF s.lead = 0
    THEN IF IsTrail(c) \/ (IsLead(c) /\ atEnd) THEN Replace(s)
         ELSE IF IsLead(c) THEN [s EXCEPT !.lead = c] ELSE Encode(s, c)
  ELSE IF IsLead(c) THEN [Replace(s) EXCEPT !.lead = c]
  ELSE IF IsTrail(c) THEN Encode(s, ((s.lead - 55296) * 1024) + (c - 56320) + 65536)
  ELSE Encode(Replace(s), c)

utf8ToBytes(text, units) ==
  FoldLeft(LAMBDA s, i : utf8Unit(s, text[i], i = Len(text)),
           [units |-> IF units = 0 THEN Infinity ELSE units, bytes |-> <<>>, lead |-> 0, full |-> FALSE],
           [i \in DOMAIN text |-> i]).bytes

(* The character at the head of bytes: none when they are cut short,       *)
(* longer than need be, a surrogate or above all characters.                *)
None == -1
Continues(bytes, n) == Len(bytes) >= n /\ \A i \in 2..n : bytes[i] \in 128..191
Low6(bytes, i) == bytes[i] % 64
CodePoint(bytes) ==
  LET b == bytes[1]
      c == CASE b < 192 -> b
             [] b \in 192..223 /\ Continues(bytes, 2) -> ((b % 32) * 64) + Low6(bytes, 2)
             [] b \in 224..239 /\ Continues(bytes, 3) ->
                  ((b % 16) * 4096) + (Low6(bytes, 2) * 64) + Low6(bytes, 3)
             [] b > 239 /\ Continues(bytes, 4) ->
                  ((b % 16) * 262144) + (Low6(bytes, 2) * 4096) + (Low6(bytes, 3) * 64) + Low6(bytes, 4)
             [] OTHER -> None
      least == CASE b < 192 -> 0 [] b \in 192..223 -> 128 [] b \in 224..239 -> 2048 [] b > 239 -> 65536
  IN  IF c < least \/ b \in 128..191 \/ IsSurrogate(c) \/ c > 1114111 THEN None ELSE c

Units(c) == IF c < 65536 THEN <<c>> ELSE <<55296 + ((c - 65536) \div 1024), 56320 + (c % 1024)>>
utf8Slice(bytes) ==
  LET From[i \in 1..(Len(bytes) + 1)] ==
        IF i > Len(bytes) THEN <<>>
        ELSE LET c == CodePoint(SubSeq(bytes, i, Len(bytes)))
             IN  IF c = None THEN <<Replacement>> \o From[i + 1] ELSE Units(c) \o From[i + Len(Utf8(c))]
  IN  From[1]

(* ---------------------------- single and double bytes ------------------- *)
asciiToBytes(text) == [i \in DOMAIN text |-> text[i] % 256]
asciiSlice(bytes) == [i \in DOMAIN bytes |-> bytes[i] % 128]
latin1Slice(bytes) == bytes

utf16leToBytes(text, units) ==
  FlattenSeq([i \in 1..Min({Len(text), units \div 2}) |-> <<text[i] % 256, text[i] \div 256>>])
(* The last of an odd number of bytes is added to an undefined one: NaN is  *)
(* written as the unit 0.                                                   *)
utf16leSlice(bytes) ==
  [i \in 1..((Len(bytes) + 1) \div 2) |->
     IF 2 * i > Len(bytes) THEN 0 ELSE bytes[2 * i - 1] + (bytes[2 * i] * 256)]

(* ---------------------------------- hex --------------------------------- *)
HexValue(c) == CASE c \in 48..57 -> c - 48 [] c \in 97..102 -> c - 87 [] c \in 65..70 -> c - 55 [] OTHER -> -1
HexDigit(n) == IF n < 10 THEN 48 + n ELSE 87 + n

(* parseInt of the i-th two characters: of the first, if the second is no  *)
(* digit; of the second, behind a sign or a blank; of neither, after "0x".  *)
HexPair(text, i) ==
  LET first == text[2 * i - 1]
      second == IF 2 * i > Len(text) THEN 0 ELSE text[2 * i]
      high == HexValue(first)
      low == HexValue(second)
  IN  CASE high # -1 /\ low # -1 -> (16 * high) + low
        [] high # -1 /\ low = -1 -> IF first = 48 /\ second \in {88, 120} THEN -1 ELSE high
        [] high = -1 /\ low # -1 /\ first \in {32, 43} -> low
        [] high = -1 /\ low # -1 /\ first = 45 -> (256 - low) % 256
        [] OTHER -> -1
hexToBytes(text, most) ==
  LET n == Min({most, (Len(text) + 1) \div 2})
      bad == {i \in 1..n : HexPair(text, i) = -1}
  IN  [i \in 1..(IF bad = {} THEN n ELSE Min(bad) - 1) |-> HexPair(text, i)]
hexSlice(bytes) ==
  FlattenSeq([i \in DOMAIN bytes |-> <<HexDigit(bytes[i] \div 16), HexDigit(bytes[i] % 16)>>])

(* -------------------------------- base64 -------------------------------- *)
Pad == 61
lookup(n) ==
  CASE n < 26 -> 65 + n [] n \in 26..51 -> 71 + n [] n \in 52..61 -> n - 4 [] n = 62 -> 43 [] n = 63 -> 47
revLookup(c) ==
  CASE c \in 65..90 -> c - 65 [] c \in 97..122 -> c - 71 [] c \in 48..57 -> c + 4
    [] c \in {43, 45} -> 62 [] c \in {47, 95} -> 63 [] OTHER -> -1

base64clean(text) ==
  LET cut == SelectInSeq(text, LAMBDA c : c = Pad)
      clean == SelectSeq(IF cut = 0 THEN text ELSE SubSeq(text, 1, cut - 1), LAMBDA c : revLookup(c) # -1)
      short == (4 - (Len(clean) % 4)) % 4
  IN  IF Len(clean) < 2 THEN <<>> ELSE clean \o [i \in 1..short |-> Pad]

(* Four characters carry 24 bits; of those before one or two "=" the rest   *)
(* is dropped.  Three "=" leave a byte of zeros and a third of one.         *)
Triplet(bits) == <<bits \div 65536, (bits \div 256) % 256, bits % 256>>
toByteArray(b64) ==
  LET valid == Len(SelectSeq(b64, LAMBDA c : c # Pad))
      holders == Len(b64) - valid
      at(i) == IF i > valid THEN 0 ELSE revLookup(b64[i])
      group(g) == Triplet((at(4*g - 3) * 262144) + (at(4*g - 2) * 4096) + (at(4*g - 1) * 64) + at(4*g))
      all == FlattenSeq([g \in 1..(Len(b64) \div 4) |-> group(g)])
  IN  IF holders = 3 THEN SubSeq(all, 1, Len(all) - 3) ELSE SubSeq(all, 1, Len(all) - holders)
base64ToBytes(text) == toByteArray(base64clean(text))

fromByteArray(bytes) ==
  LET at(i) == IF i > Len(bytes) THEN 0 ELSE bytes[i]
      bits(g) == (at(3*g - 2) * 65536) + (at(3*g - 1) * 256) + at(3*g)
      chars(g) == <<lookup(bits(g) \div 262144), lookup((bits(g) \div 4096) % 64),
                    lookup((bits(g) \div 64) % 64), lookup(bits(g) % 64)>>
      all == FlattenSeq([g \in 1..((Len(bytes) + 2) \div 3) |-> chars(g)])
      extra == (3 - (Len(bytes) % 3)) % 3
  IN  SubSeq(all, 1, Len(all) - extra) \o [i \in 1..extra |-> Pad]

(* -------------------------- all of the encodings ------------------------ *)
byteLength(text, encoding) ==
  CASE encoding = "utf8" -> Len(utf8ToBytes(text, Infinity))
    [] encoding = "ucs2" -> 2 * Len(text)
    [] encoding \in {"latin1", "ascii"} -> Len(text)
    [] encoding = "hex" -> Len(text) \div 2
    [] encoding = "base64" -> Len(base64ToBytes(text))

(* What write stores of a text, given the room behind the offset and the    *)
(* length asked for, which is no longer than the room.                      *)
Written(text, encoding, room, length) ==
  LET bytes == CASE encoding = "utf8" -> utf8ToBytes(text, room)
                 [] encoding = "ucs2" -> utf16leToBytes(text, room)
                 [] encoding \in {"latin1", "ascii"} -> asciiToBytes(text)
                 [] encoding = "hex" -> hexToBytes(text, IF length = 0 THEN room ELSE length)
                 [] encoding = "base64" -> base64ToBytes(text)
  IN  IF encoding = "hex" THEN bytes ELSE SubSeq(bytes, 1, Min({length, Len(bytes)}))

fromString(text, encoding) ==
  LET n == byteLength(text, encoding) IN Written(text, encoding, n, n)

toString(bytes, encoding) ==
  CASE encoding = "utf8" -> utf8Slice(bytes)
    [] encoding = "ucs2" -> utf16leSlice(bytes)
    [] encoding = "latin1" -> latin1Slice(bytes)
    [] encoding = "ascii" -> asciiSlice(bytes)
    [] encoding = "hex" -> hexSlice(bytes)
    [] encoding = "base64" -> fromByteArray(bytes)
===============================================================================
