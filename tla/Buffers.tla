-------------------------------- MODULE Buffers --------------------------------
(* Buffers (utils/buffer.js): views of arrays of bytes, which share them when  *)
(* one is a slice of the other, and the blobs fetch makes of them              *)
(* (node-fetch.js).  Numbers are written to a row of cells of its own, whose   *)
(* octets are narrower.  Nothing runs between the steps of an operation.       *)
EXTENDS BufferText, BufferNumbers

CONSTANTS Starts,        \* the contents of the buffer a script starts with
          Texts,         \* texts it writes, as code units
          Offsets,       \* offsets and ends it passes
          Values,        \* the whole numbers it writes
          Sampled,       \* the magnitudes of the doubles it writes
          Cells,         \* the octets there are for them
         MaxSteps       \* operations on a buffer and a slice of it

VARIABLES memory,        \* the arrays of bytes
          views,         \* the buffers: array, start and length
          blobs,         \* the blobs: the view each has, and the bytes it was made of
          cells,         \* the octets numbers are written to
          call,          \* the last operation: its name, arguments and result
          steps
bufferVars == <<memory, views, blobs, cells, call, steps>>

Undefined == -1000
RangeError == -2000
TypeError == -3000
Clamp(n, len) == IF n < 0 THEN Max({n + len, 0}) ELSE Min({n, len})

View(array, start, length) == [array |-> array, start |-> start, length |-> length]
Bytes(v) == SubSeq(memory[v.array], v.start + 1, v.start + v.length)

(* The memory with bytes put behind an offset of a view.                       *)
Put(v, offset, bytes) ==
  [memory EXCEPT ![v.array] =
     [i \in DOMAIN @ |-> LET at == i - v.start - offset
                         IN  IF at \in DOMAIN bytes THEN bytes[at] ELSE @[i]]]

(* ------------------------------ making buffers ----------------------------- *)
Created(bytes) == /\ memory' = Append(memory, bytes)
                  /\ views' = Append(views, View(Len(memory) + 1, 0, Len(bytes)))
NothingMade == UNCHANGED <<memory, views>>

FromString(text, encoding) ==
  /\ IF encoding \in Encodings THEN Created(fromString(text, encoding)) ELSE NothingMade
  /\ call' = [op |-> "from", text |-> text, encoding |-> encoding]
  /\ UNCHANGED blobs

FromView(v) == /\ Created(Bytes(v))
               /\ call' = [op |-> "fromView", view |-> v]
               /\ UNCHANGED blobs

(* A buffer of an array's own bytes, from an offset on.                        *)
FromArrayBuffer(array, byteOffset, length) ==
  LET size == Len(memory[array])
      fits == byteOffset \in 0..size /\ byteOffset + Max({length, 0}) <= size
      n == IF length = Undefined THEN size - byteOffset ELSE length
  IN  /\ views' = IF fits THEN Append(views, View(array, byteOffset, n)) ELSE views
      /\ call' = [op |-> "share", array |-> array, from |-> byteOffset, length |-> length]
      /\ UNCHANGED <<memory, blobs>>

sliceOf(v, start, end) ==
  LET from == Clamp(start, v.length)
      to == IF end = Undefined THEN v.length ELSE Clamp(end, v.length)
  IN  View(v.array, v.start + from, Max({to, from}) - from)
Slice(v, start, end) ==
  /\ views' = Append(views, sliceOf(v, start, end))
  /\ call' = [op |-> "slice", view |-> v, start |-> start, end |-> end]
  /\ UNCHANGED <<memory, blobs>>

(* allocUnsafe gives bytes of 0 as well; each buffer is copied as far as it    *)
(* has room.                                                                   *)
concat(list, length) ==
  LET all == FlattenSeq([i \in DOMAIN list |-> Bytes(list[i])])
      n == IF list = <<>> THEN 0 ELSE IF length = Undefined THEN Len(all) ELSE length
  IN  [i \in 1..n |-> IF i <= Len(all) THEN all[i] ELSE 0]
Concat(list, length) == /\ Created(concat(list, length))
                        /\ call' = [op |-> "concat", list |-> list, length |-> length]
                        /\ UNCHANGED blobs

(* ----------------------------- writing to them ----------------------------- *)
(* What write stores, from the offset on; the arguments may be missing.        *)
Write(v, text, offset, length, encoding) ==
  LET from == IF offset = Undefined THEN 0 ELSE Uint(offset)
      room == v.length - from
      most == IF offset = Undefined \/ length = Undefined THEN room ELSE Min({Uint(length), room})
      named == encoding \in Encodings
      bytes == IF room >= 0 /\ named THEN Written(text, encoding, room, most) ELSE <<>>
  IN  /\ memory' = Put(v, from, bytes)
      /\ call' = [op |-> "write", view |-> v, text |-> text, offset |-> from, length |-> most,
                  encoding |-> encoding,
                  result |-> IF room < 0 THEN RangeError ELSE IF named THEN Len(bytes) ELSE TypeError]
      /\ UNCHANGED <<views, blobs>>

(* A buffer that overlaps is read after what the loop has written of it.       *)
FilledFrom(v, source, start, end) ==
  LET at(i) == source.start + ((i - start) % source.length) + 1       \* where the i-th byte is read
      first == v.start + start + 1
      Cell[n \in 0..(end - start)] ==                                 \* the array after n bytes
        IF n = 0 THEN memory
        ELSE LET before == Cell[n - 1]
             IN  [before EXCEPT ![v.array][first + n - 1] = before[source.array][at(start + n - 1)]]
  IN  Cell[end - start]

(* What fill repeats: a byte, a text in an encoding, or a buffer.              *)
FillByte(byte) == [byte |-> byte % 256]
FillText(text, encoding) == [text |-> text, encoding |-> encoding]
FillView(source) == [source |-> source]
IsByte(val) == "byte" \in DOMAIN val
FillBytes(val) ==
  IF IsByte(val) THEN <<val.byte>>
  ELSE IF "source" \in DOMAIN val THEN Bytes(val.source)
  ELSE IF val.text = <<>> THEN <<0>> ELSE fromString(val.text, val.encoding)

Named(val) == "text" \in DOMAIN val => val.encoding \in Encodings
Repeated(bytes, n) == [i \in 1..n |-> bytes[((i - 1) % Len(bytes)) + 1]]

(* The range is looked at before the bytes, the encoding's name before both.   *)
Fill(v, val, start, end) ==
  LET to == IF end = Undefined THEN v.length ELSE end
      inRange == start \in 0..v.length /\ to <= v.length
      bytes == FillBytes(val)
      result == IF ~Named(val) THEN TypeError ELSE IF ~inRange THEN RangeError
                ELSE IF end # Undefined /\ end <= start THEN 0
                ELSE IF bytes = <<>> THEN TypeError ELSE 1
  IN  /\ memory' = IF result # 1 \/ to <= start THEN memory
                   ELSE IF "source" \in DOMAIN val THEN FilledFrom(v, val.source, start, to)
                   ELSE Put(v, start, Repeated(bytes, to - start))
      /\ call' = [op |-> "fill", view |-> v, val |-> val, start |-> start, end |-> to, result |-> result]
      /\ UNCHANGED <<views, blobs>>

(* A new buffer that is filled, unless it is empty.                            *)
Alloc(size, val) ==
  LET fails == size > 0 /\ (~Named(val) \/ FillBytes(val) = <<>>)
  IN  /\ IF size < 0 \/ fails THEN NothingMade
         ELSE Created(IF size = 0 THEN <<>> ELSE Repeated(FillBytes(val), size))
      /\ call' = [op |-> "alloc", size |-> size, val |-> val,
                  result |-> IF size < 0 THEN RangeError ELSE IF fails THEN TypeError ELSE 0]
      /\ UNCHANGED blobs

(* copyWithin and set both read all of the source first.                       *)
copy(v, target, targetStart, start, end) ==
  LET to == IF end = Undefined THEN v.length ELSE end
      last == IF to > 0 /\ to < start THEN start ELSE to
      at == Min({targetStart, target.length})
      cut == Min({last, v.length})
      stop == IF target.length - at < cut - start THEN target.length - at + start ELSE cut
  IN  IF last = start \/ target.length = 0 \/ v.length = 0 THEN [result |-> 0, bytes |-> <<>>, at |-> 0]
      ELSE IF at < 0 \/ start \notin 0..(v.length - 1) \/ last < 0
        THEN [result |-> RangeError, bytes |-> <<>>, at |-> 0]
      ELSE [result |-> stop - start, bytes |-> SubSeq(Bytes(v), start + 1, stop), at |-> at]
Copy(v, target, targetStart, start, end) ==
  LET done == copy(v, target, targetStart, start, end)
  IN  /\ memory' = Put(target, done.at, done.bytes)
      /\ call' = [op |-> "copy", view |-> v, target |-> target, at |-> targetStart,
                  start |-> start, end |-> end, result |-> done.result]
      /\ UNCHANGED <<views, blobs>>

swapped(bytes, n) == [i \in DOMAIN bytes |-> bytes[(((i - 1) \div n) * n) + n - ((i - 1) % n)]]
Swap(v, n) ==
  LET fits == v.length % n = 0
  IN  /\ memory' = IF fits THEN Put(v, 0, swapped(Bytes(v), n)) ELSE memory
      /\ call' = [op |-> "swap", view |-> v, n |-> n, result |-> IF fits THEN 0 ELSE RangeError]
      /\ UNCHANGED <<views, blobs>>

(* ----------------------------- searching them ------------------------------ *)
compareBytes(a, b) ==
  LET differ == {i \in 1..Min({Len(a), Len(b)}) : a[i] # b[i]}
      x == IF differ = {} THEN Len(a) ELSE a[Min(differ)]
      y == IF differ = {} THEN Len(b) ELSE b[Min(differ)]
  IN  IF x < y THEN -1 ELSE IF y < x THEN 1 ELSE 0
compare(v, target, start, end, thisStart, thisEnd) ==
  IF start < 0 \/ end > target.length \/ thisStart < 0 \/ thisEnd > v.length THEN RangeError
  ELSE IF thisStart >= thisEnd /\ start >= end THEN 0
  ELSE IF thisStart >= thisEnd THEN -1
  ELSE IF start >= end THEN 1
  ELSE compareBytes(Bytes(sliceOf(v, thisStart, thisEnd)), Bytes(sliceOf(target, start, end)))
equals(v, w) == compareBytes(Bytes(v), Bytes(w)) = 0

(* In units of two bytes an index is a half, when the offset is odd: here all  *)
(* of them are counted in bytes.  A read that ends behind the last byte throws.*)
ReadsBehind(bytes, at, size) == size = 2 /\ at + 2 > Len(bytes)
Read(bytes, at, size) == SubSeq(bytes, at + 1, at + size)
NotFound == -1

FirstIndex(arr, val, from, size) ==
  LET Scan[at \in 0..(Len(arr) + 2), found \in (-1)..Len(arr)] ==
        LET in == IF found = -1 THEN 0 ELSE at - found
            start == IF found = -1 THEN at ELSE found
        IN  IF at >= Len(arr) THEN NotFound
            ELSE IF ReadsBehind(arr, at, size) \/ ReadsBehind(val, in, size) THEN RangeError
            ELSE IF Read(arr, at, size) # Read(val, in, size) THEN Scan[start + size, -1]
            ELSE IF at - start + size = Len(val) THEN start
            ELSE Scan[at + size, start]
  IN  Scan[from, -1]

LastIndex(arr, val, from, size) ==
  LET offsets == {j \in 0..(Len(val) - 1) : j % size = 0}
      stops(at) == {j \in offsets : \/ ReadsBehind(arr, at + j, size) \/ ReadsBehind(val, j, size)
                                    \/ Read(arr, at + j, size) # Read(val, j, size)}
      throws(at) == stops(at) # {} /\ \/ ReadsBehind(arr, at + Min(stops(at)), size)
                                      \/ ReadsBehind(val, Min(stops(at)), size)
      first == IF from + Len(val) > Len(arr) THEN Len(arr) - Len(val) ELSE from
      ends == {at \in 0..first : (first - at) % size = 0 /\ (stops(at) = {} \/ throws(at))}
  IN  IF ends = {} THEN NotFound ELSE IF throws(Max(ends)) THEN RangeError ELSE Max(ends)

(* The offset is counted from the end when it is negative; dir is forwards.    *)
bidirectionalIndexOf(v, val, byteOffset, encoding, dir) ==
  LET n == v.length
      given == IF byteOffset = Undefined THEN (IF dir THEN 0 ELSE n - 1) ELSE byteOffset
      at == IF given < 0 THEN n + given ELSE given
      size == IF encoding = "ucs2" THEN 2 ELSE 1
  IN  IF n = 0 \/ val = <<>> THEN NotFound
      ELSE IF (dir /\ at >= n) \/ (~dir /\ at < 0) THEN NotFound
      ELSE IF size = 2 /\ (n < 2 \/ Len(val) < 2) THEN NotFound
      ELSE IF dir THEN FirstIndex(Bytes(v), val, Max({at, 0}), size)
      ELSE LastIndex(Bytes(v), val, Min({at, n - 1}), size)
indexOf(v, val, byteOffset, encoding) == bidirectionalIndexOf(v, val, byteOffset, encoding, TRUE)
lastIndexOf(v, val, byteOffset, encoding) == bidirectionalIndexOf(v, val, byteOffset, encoding, FALSE)
includes(v, val, byteOffset, encoding) == indexOf(v, val, byteOffset, encoding) # NotFound

(* What a script asks of a buffer: where bytes are in it, how a part of it      *)
(* compares, and its text.                                                      *)
Search(v, val, byteOffset, encoding) ==
  /\ call' = [op |-> "search", view |-> v, val |-> val, offset |-> byteOffset, encoding |-> encoding,
              first |-> indexOf(v, val, byteOffset, encoding),
              found |-> includes(v, val, byteOffset, encoding),
              last |-> lastIndexOf(v, val, byteOffset, encoding)]
  /\ UNCHANGED <<memory, views, blobs>>
Compare(v, target, start, end, thisStart, thisEnd) ==
  /\ call' = [op |-> "compare", this |-> [view |-> v, from |-> thisStart, to |-> thisEnd],
              that |-> [view |-> target, from |-> start, to |-> end], equal |-> equals(v, target),
              result |-> compare(v, target, start, end, thisStart, thisEnd)]
  /\ UNCHANGED <<memory, views, blobs>>

(* toString of a part of a buffer: no text at all when the part is empty.      *)
slowToString(v, encoding, start, end) ==
  LET from == Max({start, 0})
      to == IF end = Undefined \/ end > v.length THEN v.length ELSE end
  IN  IF from > v.length \/ to <= from THEN <<>>
      ELSE toString(SubSeq(Bytes(v), from + 1, to), encoding)

TextOf(v, encoding, start, end) ==
  /\ call' = [op |-> "text", view |-> v, encoding |-> encoding, start |-> start, end |-> end,
              result |-> slowToString(v, encoding, start, end)]
  /\ UNCHANGED <<memory, views, blobs>>

(* ---------------------------------- blobs ---------------------------------- *)
(* Defect: a blob of one buffer takes it as it is, without a copy.             *)
BlobOfPart(parts) ==
  LET bytes == concat(parts, Undefined)
      view == IF Len(parts) = 1 THEN parts[1] ELSE View(Len(memory) + 1, 0, Len(bytes))
  IN  /\ memory' = Append(memory, bytes)
      /\ blobs' = Append(blobs, [view |-> view, bytes |-> bytes])
      /\ call' = [op |-> "blob"]
      /\ UNCHANGED views

(* A blob joins the bytes of its parts; a slice of it has a part of its bytes. *)
Blob(parts) ==
  LET bytes == concat(parts, Undefined)
  IN  /\ memory' = Append(memory, bytes)
      /\ blobs' = Append(blobs, [view |-> View(Len(memory) + 1, 0, Len(bytes)), bytes |-> bytes])
      /\ call' = [op |-> "blob"]
      /\ UNCHANGED views
BlobSlice(b, start, end) ==
  LET size == b.view.length
      relativeStart == IF start = Undefined THEN 0 ELSE Clamp(start, size)
      relativeEnd == IF end = Undefined THEN size ELSE Clamp(end, size)
      span == Max({relativeEnd - relativeStart, 0})
  IN  /\ blobs' = Append(blobs, [view |-> sliceOf(b.view, relativeStart, relativeStart + span),
                                 bytes |-> SubSeq(b.bytes, relativeStart + 1, relativeStart + span)])
      /\ call' = [op |-> "blobSlice"]
      /\ UNCHANGED <<memory, views>>

(* --------------------------------- numbers --------------------------------- *)
Little == {"UIntLE", "IntLE", "UInt8", "Int8", "UInt16LE", "Int16LE", "UInt32LE", "Int32LE",
           "FloatLE", "DoubleLE"}
Floats == {"FloatLE", "FloatBE"}
Doubles == {"DoubleLE", "DoubleBE"}
SignedKinds == {"IntLE", "IntBE", "Int8", "Int16LE", "Int16BE", "Int32LE", "Int32BE"}

written(n) ==
  CASE n.kind = "UIntLE" -> writeUIntLE(cells, n.value, n.offset, n.octets)
    [] n.kind = "UIntBE" -> writeUIntBE(cells, n.value, n.offset, n.octets)
    [] n.kind = "IntLE" -> writeIntLE(cells, n.value, n.offset, n.octets)
    [] n.kind = "IntBE" -> writeIntBE(cells, n.value, n.offset, n.octets)
    [] n.kind = "UInt8" -> writeUInt8(cells, n.value, n.offset)
    [] n.kind = "UInt16LE" -> writeUInt16LE(cells, n.value, n.offset)
    [] n.kind = "UInt16BE" -> writeUInt16BE(cells, n.value, n.offset)
    [] n.kind = "UInt32LE" -> writeUInt32LE(cells, n.value, n.offset)
    [] n.kind = "UInt32BE" -> writeUInt32BE(cells, n.value, n.offset)
    [] n.kind = "Int8" -> writeInt8(cells, n.value, n.offset)
    [] n.kind = "Int16LE" -> writeInt16LE(cells, n.value, n.offset)
    [] n.kind = "Int16BE" -> writeInt16BE(cells, n.value, n.offset)
    [] n.kind = "Int32LE" -> writeInt32LE(cells, n.value, n.offset)
    [] n.kind = "Int32BE" -> writeInt32BE(cells, n.value, n.offset)
    [] n.kind \in Floats -> writeFloat(cells, n.value, n.offset, n.kind \in Little)
    [] n.kind \in Doubles -> writeDouble(cells, n.value, n.offset, n.kind \in Little)

readBack(row, n) ==
  CASE n.kind = "UIntLE" -> readUIntLE(row, n.offset, n.octets)
    [] n.kind = "UIntBE" -> readUIntBE(row, n.offset, n.octets)
    [] n.kind = "IntLE" -> readIntLE(row, n.offset, n.octets)
    [] n.kind = "IntBE" -> readIntBE(row, n.offset, n.octets)
    [] n.kind = "UInt8" -> readUInt8(row, n.offset)
    [] n.kind = "UInt16LE" -> readUInt16LE(row, n.offset)
    [] n.kind = "UInt16BE" -> readUInt16BE(row, n.offset)
    [] n.kind = "UInt32LE" -> readUInt32LE(row, n.offset)
    [] n.kind = "UInt32BE" -> readUInt32BE(row, n.offset)
    [] n.kind = "Int8" -> readInt8(row, n.offset)
    [] n.kind = "Int16LE" -> readInt16LE(row, n.offset)
    [] n.kind = "Int16BE" -> readInt16BE(row, n.offset)
    [] n.kind = "Int32LE" -> readInt32LE(row, n.offset)
    [] n.kind = "Int32BE" -> readInt32BE(row, n.offset)
    [] n.kind \in Floats -> readFloat(row, n.offset, n.kind \in Little)
    [] n.kind \in Doubles -> readDouble(row, n.offset, n.kind \in Little)

WriteNumber(n) ==
  LET row == written(n)
  IN  /\ cells' = IF row = Thrown THEN cells ELSE row
      /\ call' = [op |-> "number", number |-> n, thrown |-> row = Thrown]
      /\ UNCHANGED <<memory, views, blobs>>

(* -------------------------------- behaviour -------------------------------- *)
(* A script has a buffer, a slice of it that leaves out the first byte, and a  *)
(* blob made of both.                                                          *)
BufferInit ==
  /\ memory \in {<<bytes, bytes \o SubSeq(bytes, 2, Len(bytes))>> : bytes \in Starts}
  /\ views = LET whole == View(1, 0, Len(memory[1])) IN <<whole, sliceOf(whole, 1, Undefined)>>
  /\ blobs = <<[view |-> View(2, 0, Len(memory[2])), bytes |-> memory[2]]>>
  /\ cells \in {[i \in 1..Cells |-> octet] : octet \in IF memory[1] = <<>> THEN {0, Radix - 1} ELSE {0}}
  /\ call = [op |-> "none"]
  /\ steps = 0

Views == ToSet(views)
Indices == Offsets \ {Undefined}
Parts(n) == UNION {[1..k -> Views] : k \in 0..n}
(* What is made may be made of again, and written to.                          *)
Makes ==
  \/ \E v \in Views : FromView(v)
  \/ \E from \in Indices, length \in {Undefined, 0, 2} : FromArrayBuffer(1, from, length)
  \/ \E v \in Views, start \in Indices, end \in Offsets : Slice(v, start, end)
  \/ \E list \in Parts(2), length \in {Undefined, 3} : Concat(list, length)
  \/ \E parts \in Parts(2) : Blob(parts)
  \/ \E b \in ToSet(blobs), start, end \in Offsets : BlobSlice(b, start, end)
FillValues == {FillByte(353), FillText(<<>>, "utf8"), FillText(<<103>>, "hex"), FillText(<<103>>, "utf7"),
               FillText(<<233, 97>>, "utf8")} \union {FillView(w) : w \in Views}
Overwrites ==
  \/ \E v \in Views, val \in FillValues, start \in Indices, end \in Offsets : Fill(v, val, start, end)
  \/ \E v, w \in Views, at, start \in Indices, end \in Offsets : Copy(v, w, at, start, end)
  \/ \E v \in Views, n \in {2, 4, 8} : Swap(v, n)
WritesText ==
  \/ \E size \in Indices, val \in FillValues : Alloc(size, val)
  \/ \E text \in Texts, encoding \in Encodings \union {"utf7"} : FromString(text, encoding)
  \/ \E v \in Views, text \in Texts, offset \in Offsets, length \in {Undefined, 0, 1, 3},
        encoding \in Encodings \union {"utf7"} :
       /\ offset = Undefined => length = Undefined
       /\ Write(v, text, offset, length, encoding)
Asks ==
  \/ \E v, w \in Views, offset \in Offsets, encoding \in {"latin1", "ucs2"} :
       Search(v, Bytes(w), offset, encoding)
  \/ \E v, w \in Views, start, end, thisStart, thisEnd \in Indices :
       Compare(v, w, start, end, thisStart, thisEnd)
  \/ \E v \in Views, encoding \in Encodings, start \in Indices, end \in Offsets :
       TextOf(v, encoding, start, end)

Sizes == [UInt8 |-> 1, Int8 |-> 1, UInt16LE |-> 2, UInt16BE |-> 2, Int16LE |-> 2, Int16BE |-> 2,
          UInt32LE |-> 4, UInt32BE |-> 4, Int32LE |-> 4, Int32BE |-> 4,
          FloatLE |-> 4, FloatBE |-> 4, DoubleLE |-> 8, DoubleBE |-> 8]
WritesNumber ==
  LET Of(kind, value, offset, octets) ==
        [kind |-> kind, value |-> value, offset |-> offset, octets |-> octets]
  IN  \E offset \in Indices :
        \/ \E kind \in (DOMAIN Sizes) \ (Floats \union Doubles), value \in Values :
             WriteNumber(Of(kind, value, offset, Sizes[kind]))
        \/ \E kind \in {"UIntLE", "UIntBE", "IntLE", "IntBE"}, value \in Values, octets \in 1..3 :
             WriteNumber(Of(kind, value, offset, octets))
        \/ \E kind \in Floats \union Doubles, neg \in BOOLEAN, mag \in Sampled :
             /\ mag = NaN => ~neg
             /\ WriteNumber(Of(kind, Number(neg, mag), offset, Sizes[kind]))

(* Numbers are written while the buffer is empty: the two do not meet.         *)
BufferNext ==
  \/ steps < MaxSteps /\ memory[1] # <<>> /\ Makes /\ steps' = steps + 1 /\ UNCHANGED cells
  \/ steps < MaxSteps /\ memory[1] # <<>> /\ Overwrites /\ steps' = MaxSteps /\ UNCHANGED cells
  \/ steps = 0 /\ (WritesText \/ Asks) /\ steps' = MaxSteps /\ UNCHANGED cells
  \/ steps = 0 /\ memory[1] = <<>> /\ WritesNumber /\ steps' = MaxSteps
BufferSpec == BufferInit /\ [][BufferNext]_bufferVars

(* -------------------------------- properties ------------------------------- *)
After(v) == SubSeq(memory'[v.array], v.start + 1, v.start + v.length)
Unchanged == memory' = memory
(* All bytes but n of a view's are what they were.                             *)
OthersKept(v, from, n) ==
  \A array \in DOMAIN memory : \A i \in DOMAIN memory[array] :
    \/ memory'[array][i] = memory[array][i]
    \/ array = v.array /\ i - v.start \in (from + 1)..Min({from + n, v.length})

(* A text with U+FFFD for each half of a pair without the other.  Of two lead  *)
(* halves at its end utf8ToBytes loses the second.                             *)
WellFormed(text) ==
  LET n == Len(text)
      paired(i) == \/ IsLead(text[i]) /\ i < n /\ IsTrail(text[i + 1])
                   \/ IsTrail(text[i]) /\ i > 1 /\ IsLead(text[i - 1])
      lost == n > 1 /\ IsLead(text[n]) /\ IsLead(text[n - 1])
      whole == [i \in 1..n |-> IF IsSurrogate(text[i]) /\ ~paired(i) THEN Replacement ELSE text[i]]
  IN  IF lost THEN SubSeq(whole, 1, n - 1) ELSE whole

(* The characters of a base64 text that its bytes settle, in either alphabet.  *)
Base64Kept(text, bytes) ==
  LET digits == SelectSeq(text, LAMBDA c : c # Pad)
      plain == [i \in DOMAIN digits |->
                  CASE digits[i] = 45 -> 43 [] digits[i] = 95 -> 47 [] OTHER -> digits[i]]
      settled == (Len(bytes) * 4) \div 3
  IN  \/ \E c \in ToSet(plain) : \A n \in 0..63 : lookup(n) # c
      \/ Len(digits) % 4 = 1
      \/ /\ Len(bytes) = (Len(digits) * 3) \div 4
         /\ SubSeq(fromByteArray(bytes), 1, settled) = SubSeq(plain, 1, settled)

(* What is read of the bytes made of a text, and the bytes of what is read.    *)
ReadsBack(text, encoding, bytes) ==
  CASE encoding = "utf8" -> utf8Slice(bytes) = WellFormed(text)
    [] encoding = "ucs2" -> utf16leSlice(bytes) = text
    [] encoding = "latin1" -> latin1Slice(bytes) = [i \in DOMAIN text |-> text[i] % 256]
    [] encoding = "ascii" -> asciiSlice(bytes) = [i \in DOMAIN text |-> text[i] % 128]
    [] encoding = "hex" -> fromString(hexSlice(bytes), "hex") = bytes
    [] encoding = "base64" -> Base64Kept(text, bytes)
BytesReadBack(bytes) ==
  \A encoding \in Encodings :
    \/ fromString(toString(bytes, encoding), encoding) = bytes
    \/ encoding = "ascii" /\ \E i \in DOMAIN bytes : bytes[i] > 127
    \/ encoding = "ucs2" /\ Len(bytes) % 2 = 1
    \/ encoding = "utf8" /\ \E i \in DOMAIN utf8Slice(bytes) : utf8Slice(bytes)[i] = Replacement

FromExact(c) ==
  /\ IsPrefix(memory, memory')
  /\ c.encoding \in Encodings => views'[Len(views')].array \notin DOMAIN memory
  /\ c.encoding \in Encodings => ReadsBack(c.text, c.encoding, memory'[Len(memory')])
CopyMade(c) == /\ views'[Len(views')].array \notin DOMAIN memory
               /\ memory' = Append(memory, Bytes(c.view))
               /\ BytesReadBack(Bytes(c.view))
AllocExact(c) ==
  LET new == memory'[Len(memory')]
      val == FillBytes(c.val)
  IN  IF c.result < 0 THEN Unchanged /\ (c.size < 0 \/ ~Named(c.val) \/ val = <<>>)
      ELSE /\ IsPrefix(memory, memory') /\ Len(new) = c.size
           /\ \A i \in 1..c.size : new[i] = IF i <= Len(val) THEN val[i] ELSE new[i - Len(val)]
(* A slice is a part of its buffer, of the same bytes.                         *)
SliceExact(c) ==
  LET new == views'[Len(views')]
  IN  /\ Unchanged /\ new.array = c.view.array
      /\ new.start >= c.view.start /\ new.start + new.length <= c.view.start + c.view.length

(* A write of as much of the text as there is room for, which is whole         *)
(* characters of it unless the length asked for cuts the last.  A hexadecimal  *)
(* one takes a last single digit, and of length 0 all of the room.             *)
WriteExact(c) ==
  LET all == IF c.encoding = "hex" THEN hexToBytes(c.text, Infinity) ELSE fromString(c.text, c.encoding)
      room == c.view.length - c.offset
      length == IF c.encoding = "hex" /\ c.length = 0 THEN room ELSE c.length
      got == SubSeq(After(c.view), c.offset + 1, c.offset + c.result)
  IN  IF c.result < 0 THEN Unchanged /\ (c.offset > c.view.length \/ c.encoding \notin Encodings)
      ELSE /\ c.result \in 0..length /\ OthersKept(c.view, c.offset, c.result)
           /\ IsPrefix(got, all)
           /\ length = room /\ c.encoding \in {"utf8", "ucs2"} =>
                IsPrefix(toString(got, c.encoding), toString(all, c.encoding))
           /\ Len(all) <= length => c.result = Len(all)

(* A fill repeats what it is given: a buffer that overlaps, as it is read.     *)
FillExact(c) ==
  LET n == c.end - c.start
      val == FillBytes(c.val)
      at(i) == ((i - 1) % Len(val)) + 1
      shared == "source" \in DOMAIN c.val /\ c.val.source.array = c.view.array
  IN  IF c.result < 1 \/ n <= 0 THEN Unchanged
      ELSE /\ OthersKept(c.view, c.start, n)
           /\ \A i \in 1..n : \/ After(c.view)[c.start + i] = val[at(i)]
                              \/ shared /\ After(c.view)[c.start + i] = After(c.val.source)[at(i)]

(* A copy moves the bytes there are, as they were, into the room there is.     *)
CopyExact(c) ==
  LET end == IF c.end = Undefined THEN c.view.length ELSE Min({c.end, c.view.length})
      at == Min({c.at, c.target.length})
      n == Max({Min({end - c.start, c.target.length - at}), 0})
  IN  IF c.at < 0 \/ c.start < 0 \/ end < 0 THEN Unchanged /\ c.result <= 0
      ELSE /\ n > 0 => c.result = n
           /\ OthersKept(c.target, at, n)
           /\ SubSeq(After(c.target), at + 1, at + n) = SubSeq(Bytes(c.view), c.start + 1, c.start + n)

SwapExact(c) == /\ c.result = 0 \/ Unchanged
                /\ OthersKept(c.view, 0, c.view.length)
                /\ c.result = 0 => swapped(After(c.view), c.n) = Bytes(c.view)
                /\ c.result = 0 => \A i \in 1..c.view.length : i % c.n = 1 =>
                     SubSeq(After(c.view), i, i + c.n - 1) = Reverse(SubSeq(Bytes(c.view), i, i + c.n - 1))

(* The first place from an offset on, and the last one up to it, where the     *)
(* bytes are.  In units of two bytes only every other place is looked at, and  *)
(* where the last unit is cut short there may be a RangeError instead.         *)
SearchExact(c) ==
  LET n == c.view.length
      size == IF c.encoding = "ucs2" THEN 2 ELSE 1
      from == IF c.offset = Undefined THEN 0 ELSE IF c.offset < 0 THEN Max({n + c.offset, 0}) ELSE c.offset
      upTo == IF c.offset = Undefined THEN n ELSE IF c.offset < 0 THEN n + c.offset ELSE c.offset
      places == {at \in 0..(n - Len(c.val)) :
                   c.val # <<>> /\ SubSeq(Bytes(c.view), at + 1, at + Len(c.val)) = c.val}
      after == {at \in places : at >= from /\ (at - from) % size = 0}
      room == Min({upTo, n - 1, n - Len(c.val)})
      before == {at \in places : at <= upTo /\ (room - at) % size = 0}
      cut == size = 2 /\ ((n - from) % 2 = 1 \/ Len(c.val) % 2 = 1)
  IN  /\ c.first # RangeError => c.found = (after # {})
      /\ \/ c.first = IF after = {} THEN NotFound ELSE Min(after)
         \/ cut /\ c.first = RangeError
      /\ \/ c.last = IF before = {} THEN NotFound ELSE Max(before)
         \/ size = 2 /\ Len(c.val) % 2 = 1 /\ c.last \in {RangeError, NotFound}

Less(a, b) == \E k \in 0..Len(a) : /\ k < Len(b) /\ SubSeq(a, 1, k) = SubSeq(b, 1, k)
                                  /\ (k = Len(a) \/ a[k + 1] < b[k + 1])
CompareExact(c) ==
  LET part(p) == IF p.from >= p.to THEN <<>> ELSE SubSeq(Bytes(p.view), p.from + 1, p.to)
      inside(p) == p.from >= 0 /\ p.to <= p.view.length
  IN  /\ c.result = IF ~inside(c.this) \/ ~inside(c.that) THEN RangeError
                    ELSE IF Less(part(c.this), part(c.that)) THEN -1
                    ELSE IF Less(part(c.that), part(c.this)) THEN 1 ELSE 0
      /\ c.equal = (Bytes(c.this.view) = Bytes(c.that.view))
TextExact(c) ==
  LET end == IF c.end = Undefined THEN c.view.length ELSE Max({c.end, 0})
  IN  c.result = toString(SubSeq(Bytes(c.view), Max({c.start, 0}) + 1, Min({end, c.view.length})), c.encoding)

(* A number that has room and is in range reads back; a float, as the nearest  *)
(* there is, the larger of two.  Its octets are those of its two's complement. *)
Magnitudes(f) ==
  {m * (2 ^ (Least(f) - f.mLen)) : m \in 0..(2 ^ f.mLen)} \union
  {((2 ^ f.mLen) + m) * (2 ^ (e + Least(f) - f.mLen)) : m \in 0..((2 ^ f.mLen) - 1), e \in 0..(eMax(f) - 2)}
Distance(a, b) == IF a < b THEN b - a ELSE a - b
Nearest(f, value, got) ==
  LET all == Magnitudes(f)
      next == 2 ^ (Least(f) + eMax(f) - 1)                          \* the first that is too large
      tooLarge == value.mag >= next - (Distance(next, Max(all)) \div 2)
  IN  /\ got.neg = value.neg
      /\ IF value.mag < 0 THEN got.mag = value.mag
         ELSE IF tooLarge THEN got.mag = Infinite
         ELSE got.mag = Max({a \in all : \A b \in all : Distance(a, value.mag) <= Distance(b, value.mag)})
InRange(n) ==
  IF n.kind \in Floats \union Doubles THEN TRUE
  ELSE IF n.kind \in SignedKinds
    THEN 2 * n.value \in (-(Radix ^ n.octets))..((Radix ^ n.octets) - 1)
  ELSE n.value \in 0..((Radix ^ n.octets) - 1)
NumberExact(c) ==
  LET n == c.number
      octets == Octets(cells', n.offset, n.octets)
      room == n.offset >= 0 /\ n.offset + n.octets <= Len(cells)
      fits == InRange(n) /\ room
  IN  /\ c.thrown = ~fits /\ (~room => readBack(cells', n) = Thrown)
      /\ c.thrown => cells' = cells
      /\ \A i \in DOMAIN cells : cells'[i] = cells[i] \/ (i - n.offset) \in 1..n.octets
      /\ fits => IF n.kind \in Floats THEN Nearest(Float, n.value, readBack(cells', n))
                 ELSE /\ readBack(cells', n) = n.value
                      /\ \/ n.kind \in Doubles
                         \/ Weighed(IF n.kind \in Little THEN octets ELSE Reverse(octets))
                              = n.value % (Radix ^ n.octets)

(* Every operation of Buffer does to the bytes what it is for and to no other  *)
(* byte, whatever is shared with other buffers or overlaps; what was written   *)
(* as a text or as a number reads back; and searches and comparisons agree     *)
(* with their definition.  A blob keeps the bytes it was made of, whatever is  *)
(* written to the buffers it was made from.                                    *)
OperationExact(c) ==
  CASE c.op = "none" -> TRUE
    [] c.op = "from" -> FromExact(c)
    [] c.op = "fromView" -> CopyMade(c)
    [] c.op \in {"concat", "blob"} -> IsPrefix(memory, memory')
    [] c.op \in {"share", "blobSlice"} -> Unchanged
    [] c.op = "alloc" -> AllocExact(c)
    [] c.op = "slice" -> SliceExact(c)
    [] c.op = "write" -> WriteExact(c)
    [] c.op = "fill" -> FillExact(c)
    [] c.op = "copy" -> CopyExact(c)
    [] c.op = "swap" -> SwapExact(c)
    [] c.op = "search" -> Unchanged /\ SearchExact(c)
    [] c.op = "compare" -> Unchanged /\ CompareExact(c)
    [] c.op = "text" -> Unchanged /\ TextExact(c)
    [] c.op = "number" -> NumberExact(c)
BlobKept(b) == SubSeq(memory'[b.view.array], b.view.start + 1, b.view.start + b.view.length) = b.bytes
BuffersExact == [][OperationExact(call') /\ \A i \in DOMAIN blobs' : BlobKept(blobs'[i])]_bufferVars
===============================================================================
