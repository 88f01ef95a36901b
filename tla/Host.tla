---------------------------------- MODULE Host ----------------------------------
(***************************************************************************)
(* Strings of the URL classes and the host parser (lib/url-state-machine.js  *)
(* with lib/percent-encoding.js, lib/infra.js and utils/punycode.js).        *)
(*                                                                         *)
(* A string is a sequence of symbols: one code point, or a run of letters    *)
(* that the parser never looks into ("http"); Width gives its length.  The   *)
(* base of an IPv4 octet (256 in the code) and the number of pieces of an    *)
(* IPv6 address (8) are constants, so that TLC can count through them.       *)
(***************************************************************************)
EXTENDS Integers, Sequences, SequencesExt, TLC

CONSTANTS
  OctetBase, \* 256 in the code
  Pieces     \* 8 in the code

ASSUME HostAssumption == OctetBase \in Nat \ {0} /\ Pieces \in Nat \ {0}
-----------------------------------------------------------------------------
HexOrder == <<"0", "1", "2", "3", "4", "5", "6", "7", "8", "9",
              "a", "b", "c", "d", "e", "f">>
Digits == {HexOrder[i] : i \in 1 .. 10}
LowerCase == ("A" :> "a") @@ ("B" :> "b") @@ ("C" :> "c") @@ ("D" :> "d")
          @@ ("E" :> "e") @@ ("F" :> "f") @@ ("X" :> "x") @@ ("HTTP" :> "http")
HexDigits == ToSet(HexOrder) \cup {"A", "B", "C", "D", "E", "F"}
Letters == (HexDigits \ Digits) \cup {"x", "X", "u", "p"}
Words == {"http", "HTTP", "ws", "file", "localhost", "undefined"}
Alpha(c) == c \in Letters \cup Words
NonAscii == {"eacute", "fullstop"}
Width(c) == CASE c \in {"http", "HTTP", "file"} -> 4
              [] c = "ws" -> 2
              [] c \in {"localhost", "undefined"} -> 9
              [] OTHER -> 1

Lower(c) == IF c \in DOMAIN LowerCase THEN LowerCase[c] ELSE c
LowerAll(s) == [i \in DOMAIN s |-> Lower(s[i])]
ValueOf(c) == (CHOOSE i \in 1 .. 16 : HexOrder[i] = Lower(c)) - 1

(* String.split(): the parts of s between the separators. *)
Split(s, sep) ==
  FoldLeft(LAMBDA parts, c : IF c = sep THEN Append(parts, <<>>)
                             ELSE [parts EXCEPT ![Len(parts)] = Append(@, c)],
           <<<<>>>>, s)

(* Number.toString(radix). *)
Numeral(n, radix) ==
  LET digits[k \in Nat] == IF k < radix THEN <<HexOrder[k + 1]>>
                           ELSE Append(digits[k \div radix], HexOrder[(k % radix) + 1])
  IN  digits[n]

ParseInt(s, radix) == FoldLeft(LAMBDA n, c : n * radix + ValueOf(c), 0, s)
-----------------------------------------------------------------------------
(* Percent encoding: what each symbol becomes and which sets it is in. *)
Encoded == (" " :> <<"%", "2", "0">>) @@ ("#" :> <<"%", "2", "3">>)
        @@ ("?" :> <<"%", "3", "F">>) @@ ("/" :> <<"%", "2", "F">>)
        @@ (":" :> <<"%", "3", "A">>) @@ ("@" :> <<"%", "4", "0">>)
        @@ ("[" :> <<"%", "5", "B">>) @@ ("]" :> <<"%", "5", "D">>)
        @@ ("\\" :> <<"%", "5", "C">>) @@ ("|" :> <<"%", "7", "C">>)
        @@ ("eacute" :> <<"%", "C", "3", "%", "A", "9">>)
C0Control == {"eacute"}
FragmentSet == C0Control \cup {" "}
PathSet == C0Control \cup {" ", "#", "?"}
UserinfoSet == PathSet \cup {"/", ":", "@", "[", "\\", "]", "|"}

PercentEncodeCodePoint(c, set) == IF c \in set THEN Encoded[c] ELSE <<c>>

Units(s) == FoldLeft(LAMBDA n, c : n + Width(c), 0, s)

(* utf8PercentEncodeString loops with for-in, over the indices of the string and
   not over its characters: the result is the indices, one after the other. *)
PercentEncodeString(s, set) ==
  FoldLeft(LAMBDA out, i : out \o Numeral(i - 1, 10), <<>>, [i \in 1 .. Units(s) |-> i])

(* The byte two hexadecimal digits name, for the ones that inputs use; a byte
   that begins no UTF-8 sequence is "bad". *)
Bytes == (<<"2", "e">> :> ".") @@ (<<"2", "0">> :> " ") @@ (<<"2", "5">> :> "%")
      @@ (<<"2", "f">> :> "/") @@ (<<"2", "3">> :> "#") @@ (<<"2", "6">> :> "&")
      @@ (<<"3", "d">> :> "=") @@ (<<"3", "1">> :> "1") @@ (<<"4", "0">> :> "@")
      @@ (<<"6", "1">> :> "a") @@ (<<"c", "3">> :> "C3") @@ (<<"a", "9">> :> "A9")
      @@ (<<"f", "f">> :> "bad") @@ (<<"3", "a">> :> ":") @@ (<<"3", "f">> :> "?")
      @@ (<<"5", "b">> :> "[") @@ (<<"5", "c">> :> "\\") @@ (<<"5", "d">> :> "]")
      @@ (<<"7", "c">> :> "|")

Escape(s, i) == /\ i + 2 <= Len(s)
                /\ s[i] = "%"
                /\ s[i + 1] \in HexDigits
                /\ s[i + 2] \in HexDigits

PercentDecode(s) ==
  LET rest[i \in 1 .. Len(s) + 3] ==
        IF i > Len(s) THEN <<>>
        ELSE IF Escape(s, i)
             THEN <<Bytes[<<Lower(s[i + 1]), Lower(s[i + 2])>>]>> \o rest[i + 3]
             ELSE <<s[i]>> \o rest[i + 1]
  IN  rest[1]

(* The characters of bytes. *)
Utf8Text(bytes) ==
  LET rest[i \in 1 .. Len(bytes) + 2] ==
        IF i > Len(bytes) THEN <<>>
        ELSE IF bytes[i] = "C3" /\ i < Len(bytes) /\ bytes[i + 1] = "A9" THEN <<"eacute">> \o rest[i + 2]
             ELSE <<bytes[i]>> \o rest[i + 1]
  IN  rest[1]

(* TextDecoder: decodeURIComponent() throws on bytes that are not UTF-8, so the
   result is a sequence of at most one string. *)
Utf8Decode(bytes) ==
  IF ToSet(Utf8Text(bytes)) \cap {"C3", "A9", "bad"} = {} THEN <<Utf8Text(bytes)>> ELSE <<>>
-----------------------------------------------------------------------------
failure == -1

ParseIPv4Number(s) ==
  LET hex == Len(s) >= 2 /\ s[1] = "0" /\ Lower(s[2]) = "x"
      octal == ~hex /\ Len(s) >= 2 /\ s[1] = "0"
      digits == SubSeq(s, IF hex THEN 3 ELSE IF octal THEN 2 ELSE 1, Len(s))
      allowed == IF hex THEN HexDigits
                 ELSE IF octal THEN Digits \ {"8", "9"} ELSE Digits
  IN  IF s = <<>> \/ ~ToSet(digits) \subseteq allowed THEN failure
      ELSE ParseInt(digits, IF hex THEN 16 ELSE IF octal THEN 8 ELSE 10)

(* The labels of a domain, without the empty one behind a final dot. *)
WithoutEmptyLast(parts) == IF Last(parts) = <<>> /\ Len(parts) > 1 THEN Front(parts) ELSE parts
Labels(s) == WithoutEmptyLast(Split(s, "."))

IPv4Sum(numbers, n) ==
  FoldLeftDomain(LAMBDA sum, i : IF i = n THEN sum ELSE sum + numbers[i] * OctetBase ^ (4 - i),
                 numbers[n], numbers)

(* The address that n numbers stand for: the last one fills what is left. *)
IPv4Of(numbers, n) ==
  IF \/ n > 4
     \/ failure \in ToSet(numbers)
     \/ \E i \in 1 .. n - 1 : numbers[i] > OctetBase - 1
     \/ numbers[n] >= OctetBase ^ (5 - n)
  THEN failure ELSE IPv4Sum(numbers, n)

IPv4OfLabels(labels) ==
  IPv4Of([i \in DOMAIN labels |-> ParseIPv4Number(labels[i])], Len(labels))
ParseIPv4(s) == IPv4OfLabels(Labels(s))

SerializeIPv4(address) ==
  LET octet(i) == Numeral((address \div OctetBase ^ (4 - i)) % OctetBase, 10)
  IN  octet(1) \o <<".">> \o octet(2) \o <<".">> \o octet(3) \o <<".">> \o octet(4)

Number(label) ==
  ParseIPv4Number(label) # failure \/ (label # <<>> /\ ToSet(label) \subseteq Digits)
EndsInANumber(s) == Number(Last(Labels(s)))
-----------------------------------------------------------------------------
(* parseIPv6.  The loop's state is [at, piece, compress, address]: at is the
   position that is read next, piece the code's pieceIndex, compress -1 for null;
   an address is a function on 0 .. Pieces - 1 and the failed loop has piece
   failure. *)

SymbolAt(s, i) == IF i \in DOMAIN s THEN s[i] ELSE "end"
Failed(l) == [l EXCEPT !.piece = failure]

(* The hexadecimal digits at position i, four at most. *)
HexRun(s, i) ==
  LET n == CHOOSE k \in 0 .. 4 : /\ \A j \in 0 .. k - 1 : SymbolAt(s, i + j) \in HexDigits
                                 /\ k = 4 \/ SymbolAt(s, i + k) \notin HexDigits
  IN  SubSeq(s, i, i + n - 1)

(* The IPv4 address at the end of an IPv6 address: four decimal numbers without
   leading zeros, which fill two pieces. *)
EmbeddedIPv4(s, l) ==
  LET numbers == Split(SubSeq(s, l.at, Len(s)), ".")
      wellFormed(n) == /\ n # <<>>
                       /\ ToSet(n) \subseteq Digits
                       /\ Len(n) > 1 => n[1] # "0"
                       /\ ParseInt(n, 10) < OctetBase
      value(i) == ParseInt(numbers[i], 10)
  IN  IF l.piece > Pieces - 2 \/ Len(numbers) # 4 \/ ~\A i \in 1 .. 4 : wellFormed(numbers[i])
      THEN Failed(l)
      ELSE [l EXCEPT !.at = Len(s) + 1, !.piece = @ + 2,
                     !.address = [@ EXCEPT ![l.piece] = value(1) * OctetBase + value(2),
                                           ![l.piece + 1] = value(3) * OctetBase + value(4)]]

RECURSIVE IPv6Loop(_, _)
IPv6Loop(s, l) ==
  IF l.piece = failure \/ l.at > Len(s) THEN l
  ELSE IF l.piece = Pieces THEN Failed(l)
  ELSE IF s[l.at] = ":"
       THEN IF l.compress # -1 THEN Failed(l)
            ELSE IPv6Loop(s, [l EXCEPT !.at = @ + 1, !.piece = @ + 1,
                                       !.compress = l.piece + 1])
  ELSE LET run == HexRun(s, l.at)
           next == l.at + Len(run)
           taken == [l EXCEPT !.address[l.piece] = ParseInt(run, 16), !.piece = @ + 1]
       IN  CASE SymbolAt(s, next) = "." ->
                  IF run = <<>> THEN Failed(l) ELSE EmbeddedIPv4(s, l)
             [] SymbolAt(s, next) = ":" ->
                  IF next = Len(s) THEN Failed(l)
                  ELSE IPv6Loop(s, [taken EXCEPT !.at = next + 1])
             [] SymbolAt(s, next) = "end" -> [taken EXCEPT !.at = next]
             [] OTHER -> Failed(l)

(* The pieces read behind the compression go to the end, zeros come between. *)
Spread(l) ==
  LET behind == l.piece - l.compress
  IN  [i \in 0 .. Pieces - 1 |->
         IF i < l.compress THEN l.address[i]
         ELSE IF i < Pieces - behind THEN 0 ELSE l.address[i - Pieces + l.piece]]

(* The address, in a sequence of at most one element. *)
ParseIPv6(s) ==
  LET start == [at |-> 1, piece |-> 0, compress |-> -1,
                address |-> [i \in 0 .. Pieces - 1 |-> 0]]
      colons == SymbolAt(s, 1) = ":"
      l == IF colons /\ SymbolAt(s, 2) # ":" THEN Failed(start)
           ELSE IPv6Loop(s, IF colons THEN [start EXCEPT !.at = 3, !.piece = 1,
                                                         !.compress = 1]
                            ELSE start)
  IN  CASE l.piece = failure -> <<>>
        [] l.compress # -1 -> <<Spread(l)>>
        [] OTHER -> IF l.piece = Pieces THEN <<l.address>> ELSE <<>>

(* findLongestZeroSequence: one pass that remembers the longest run so far, the
   first of several; runs of one zero do not count. *)
LongestZeros(a) ==
  LET Step(r, i) ==
        IF a[i] # 0
        THEN IF r.len > r.maxLen
             THEN [r EXCEPT !.max = r.start, !.maxLen = r.len, !.start = -1, !.len = 0]
             ELSE [r EXCEPT !.start = -1, !.len = 0]
        ELSE [r EXCEPT !.start = IF @ = -1 THEN i ELSE @, !.len = @ + 1]
      r == FoldLeft(Step, [max |-> -1, maxLen |-> 1, start |-> -1, len |-> 0],
                    [i \in 1 .. Pieces |-> i - 1])
  IN  IF r.len > r.maxLen THEN r.start ELSE r.max

SerializeIPv6(a) ==
  LET compress == LongestZeros(a)
      Step(r, i) ==
        IF r.skip /\ a[i] = 0 THEN r
        ELSE IF i = compress
             THEN [out |-> r.out \o IF i = 0 THEN <<":", ":">> ELSE <<":">>, skip |-> TRUE]
             ELSE [out |-> r.out \o Numeral(a[i], 16)
                           \o IF i = Pieces - 1 THEN <<>> ELSE <<":">>,
                   skip |-> FALSE]
  IN  FoldLeft(Step, [out |-> <<>>, skip |-> FALSE], [i \in 1 .. Pieces |-> i - 1]).out
-----------------------------------------------------------------------------
(* A host: nothing, a name, or an address (one number, or the pieces); the parser
   may also fail or throw. *)
HostOf(kind, name, address) == [kind |-> kind, name |-> name, address |-> address]
NoHost == HostOf("null", <<>>, <<>>)
Name(s) == HostOf("name", s, <<>>)
FailedHost == HostOf("failure", <<>>, <<>>)
ThrownHost == HostOf("throws", <<>>, <<>>)

ForbiddenInHost == {" ", "#", "/", ":", "<", ">", "?", "@", "[", "\\", "]", "^", "|"}
ForbiddenInDomain == ForbiddenInHost \cup {"%"}

(* punycode.toASCII: the separators become dots, and a label that is not ASCII
   throws, since encode() fails on its first line (the variable counter is not
   declared in strict code). *)
ASCIIDomain(s) ==
  CASE ToSet(s) \cap NonAscii # {} -> ThrownHost
    [] s = <<>> -> FailedHost
    [] OTHER -> Name(s)
DomainToASCII(s) == ASCIIDomain(ReplaceAll(s, "fullstop", "."))

ParseOpaqueHost(s) ==
  IF ToSet(s) \cap ForbiddenInHost # {} THEN FailedHost
  ELSE Name(PercentEncodeString(s, C0Control))

NumericHost(n) == IF n = failure THEN FailedHost ELSE HostOf("v4", <<>>, <<n>>)
CheckedDomain(host) ==
  CASE host.kind # "name" -> host
    [] ToSet(host.name) \cap ForbiddenInDomain # {} -> FailedHost
    [] EndsInANumber(host.name) -> NumericHost(ParseIPv4(host.name))
    [] OTHER -> host
DecodedDomain(decoded) ==
  IF decoded = <<>> THEN ThrownHost ELSE CheckedDomain(DomainToASCII(decoded[1]))
ParseDomain(s) == DecodedDomain(Utf8Decode(PercentDecode(s)))

IPv6Host(address) ==
  IF address = <<>> THEN FailedHost
  ELSE HostOf("v6", <<>>, [i \in 1 .. Pieces |-> address[1][i - 1]])

ParseHost(s, notSpecial) ==
  IF s # <<>> /\ s[1] = "["
  THEN IF Last(s) # "]" THEN FailedHost ELSE IPv6Host(ParseIPv6(SubSeq(s, 2, Len(s) - 1)))
  ELSE IF notSpecial THEN ParseOpaqueHost(s) ELSE ParseDomain(s)

SerializeHost(host) ==
  CASE host.kind = "v4" -> SerializeIPv4(host.address[1])
    [] host.kind = "v6" ->
         <<"[">> \o SerializeIPv6([i \in 0 .. Pieces - 1 |-> host.address[i + 1]]) \o <<"]">>
    [] OTHER -> host.name
=============================================================================
