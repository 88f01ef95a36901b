----------------------------- MODULE BufferNumbers -----------------------------
(* Numbers in buffers (utils/buffer.js): what write...Int, write...Float and *)
(* write...Double make of a row of octets, and the reads of them.  An octet  *)
(* has OctetBits bits and a number as many octets as in the code, so the     *)
(* sizes of everything follow from it.  Nobody passes noAssert.              *)
EXTENDS Integers, Sequences, SequencesExt, FiniteSetsExt

CONSTANTS OctetBits, FloatMantissa, DoubleMantissa

Radix == 2 ^ OctetBits
Thrown == <<>>                \* RangeError: nothing is written

(* offset >>> 0: a negative offset is beyond every buffer.                   *)
Beyond == 2 ^ 20
Uint(offset) == IF offset < 0 THEN Beyond + offset ELSE offset
checkOffset(cells, offset, ext) == Uint(offset) + ext <= Len(cells)
Checked(cells, offset, ext, value) == IF checkOffset(cells, offset, ext) THEN value ELSE Thrown
checkInt(cells, value, offset, ext, max, min) ==
  value \in min..max /\ Uint(offset) + ext <= Len(cells)

(* A typed array ignores an assignment outside of it.                        *)
Store(cells, at, octets) ==
  [i \in DOMAIN cells |-> IF i - at \in DOMAIN octets THEN octets[i - at] % Radix ELSE cells[i]]

(* --------------------------- integers of any size -------------------------- *)
Towards0(value, mul) == IF value < 0 THEN -((-value) \div mul) ELSE value \div mul

UIntOctets(value, byteLength) ==
  [i \in 1..Max({byteLength, 1}) |-> (value \div (Radix ^ (i - 1))) % Radix]
writeUIntLE(cells, value, offset, byteLength) ==
  IF ~checkInt(cells, value, offset, byteLength, (Radix ^ byteLength) - 1, 0) THEN Thrown
  ELSE Store(cells, offset, UIntOctets(value, byteLength))
(* No octet at all is written before the offset.                             *)
writeUIntBE(cells, value, offset, byteLength) ==
  IF ~checkInt(cells, value, offset, byteLength, (Radix ^ byteLength) - 1, 0) THEN Thrown
  ELSE Store(cells, IF byteLength = 0 THEN offset - 1 ELSE offset, Reverse(UIntOctets(value, byteLength)))

(* The octets of a negative value are those of the quotient rounded towards  *)
(* 0, less one once an octet below is not 0.                                 *)
IntOctets(value, byteLength) ==
  LET Octet[i \in 1..byteLength] ==
        LET sub == value < 0 /\ \E j \in 1..(i - 1) : Octet[j] # 0
        IN  (Towards0(value, Radix ^ (i - 1)) - (IF sub THEN 1 ELSE 0)) % Radix
  IN  [i \in 1..byteLength |-> Octet[i]]
IntInRange(value, byteLength) ==
  2 * value \in (-(Radix ^ byteLength))..((Radix ^ byteLength) - 2)
writeIntLE(cells, value, offset, byteLength) ==
  IF ~(IntInRange(value, byteLength) /\ Uint(offset) + byteLength <= Len(cells)) THEN Thrown
  ELSE Store(cells, offset, IntOctets(value, byteLength))
writeIntBE(cells, value, offset, byteLength) ==
  IF ~(IntInRange(value, byteLength) /\ Uint(offset) + byteLength <= Len(cells)) THEN Thrown
  ELSE Store(cells, offset, Reverse(IntOctets(value, byteLength)))

Octets(cells, offset, n) == SubSeq(cells, offset + 1, offset + n)
Weighed(octets) ==
  FoldLeft(LAMBDA sum, i : sum + (octets[i] * (Radix ^ (i - 1))), 0, [i \in DOMAIN octets |-> i])
Signed(value, byteLength) == IF 2 * value >= Radix ^ byteLength THEN value - (Radix ^ byteLength) ELSE value
LittleEndian(cells, offset, byteLength) == Weighed(Octets(cells, offset, byteLength))
BigEndian(cells, offset, byteLength) == Weighed(Reverse(Octets(cells, offset, byteLength)))
(* These are asked for one octet at least.                                    *)
readUIntLE(cells, offset, byteLength) ==
  Checked(cells, offset, byteLength, LittleEndian(cells, offset, byteLength))
readUIntBE(cells, offset, byteLength) ==
  Checked(cells, offset, byteLength, BigEndian(cells, offset, byteLength))
readIntLE(cells, offset, byteLength) ==
  Checked(cells, offset, byteLength, Signed(LittleEndian(cells, offset, byteLength), byteLength))
readIntBE(cells, offset, byteLength) ==
  Checked(cells, offset, byteLength, Signed(BigEndian(cells, offset, byteLength), byteLength))

(* ---------------------- integers of one, two and four octets --------------- *)
(* value >>> n and value & 0xff of the 32 bits of a value, signed or not.     *)
Word(value) == value % (Radix ^ 4)
Shifted(value, octets) == Word(value) \div (Radix ^ octets)

FixedUnsigned(cells, value, offset, n) == checkInt(cells, value, offset, n, (Radix ^ n) - 1, 0)
FixedSigned(cells, value, offset, n) ==
  checkInt(cells, value, offset, n, ((Radix ^ n) \div 2) - 1, -((Radix ^ n) \div 2))

writeUInt8(cells, value, offset) ==
  IF FixedUnsigned(cells, value, offset, 1) THEN Store(cells, offset, <<value>>) ELSE Thrown
writeUInt16LE(cells, value, offset) ==
  IF ~FixedUnsigned(cells, value, offset, 2) THEN Thrown
  ELSE Store(cells, offset, <<value, Shifted(value, 1)>>)
writeUInt16BE(cells, value, offset) ==
  IF ~FixedUnsigned(cells, value, offset, 2) THEN Thrown
  ELSE Store(cells, offset, <<Shifted(value, 1), value>>)
writeUInt32LE(cells, value, offset) ==
  IF ~FixedUnsigned(cells, value, offset, 4) THEN Thrown
  ELSE Store(cells, offset, <<value, Shifted(value, 1), Shifted(value, 2), Shifted(value, 3)>>)
writeUInt32BE(cells, value, offset) ==
  IF ~FixedUnsigned(cells, value, offset, 4) THEN Thrown
  ELSE Store(cells, offset, <<Shifted(value, 3), Shifted(value, 2), Shifted(value, 1), value>>)
writeInt8(cells, value, offset) ==
  IF ~FixedSigned(cells, value, offset, 1) THEN Thrown
  ELSE Store(cells, offset, <<IF value < 0 THEN Radix + value ELSE value>>)
writeInt16LE(cells, value, offset) ==
  IF FixedSigned(cells, value, offset, 2) THEN Store(cells, offset, <<value, Shifted(value, 1)>>) ELSE Thrown
writeInt16BE(cells, value, offset) ==
  IF FixedSigned(cells, value, offset, 2) THEN Store(cells, offset, <<Shifted(value, 1), value>>) ELSE Thrown
writeInt32LE(cells, value, offset) ==
  IF ~FixedSigned(cells, value, offset, 4) THEN Thrown
  ELSE Store(cells, offset, <<value, Shifted(value, 1), Shifted(value, 2), Shifted(value, 3)>>)
writeInt32BE(cells, value, offset) ==
  IF ~FixedSigned(cells, value, offset, 4) THEN Thrown
  ELSE Store(cells, offset, <<Shifted(value, 3), Shifted(value, 2), Shifted(value, 1), value>>)

readUInt8(cells, at) == Checked(cells, at, 1, cells[at + 1])
Word16LE(cells, at) == cells[at + 1] + (cells[at + 2] * Radix)
Word16BE(cells, at) == (cells[at + 1] * Radix) + cells[at + 2]
Word32LE(cells, at) ==
  cells[at + 1] + (cells[at + 2] * Radix) + (cells[at + 3] * (Radix ^ 2)) + (cells[at + 4] * (Radix ^ 3))
Word32BE(cells, at) ==
  (cells[at + 1] * (Radix ^ 3)) + (cells[at + 2] * (Radix ^ 2)) + (cells[at + 3] * Radix) + cells[at + 4]
readUInt16LE(cells, at) == Checked(cells, at, 2, Word16LE(cells, at))
readUInt16BE(cells, at) == Checked(cells, at, 2, Word16BE(cells, at))
readUInt32LE(cells, at) == Checked(cells, at, 4, Word32LE(cells, at))
readUInt32BE(cells, at) == Checked(cells, at, 4, Word32BE(cells, at))
readInt8(cells, at) ==
  Checked(cells, at, 1, IF 2 * cells[at + 1] < Radix THEN cells[at + 1] ELSE -(Radix - cells[at + 1]))
(* A set sign bit extends to the bits above, so the value is a negative one.  *)
readInt16LE(cells, at) == Checked(cells, at, 2, Signed(Word16LE(cells, at), 2))
readInt16BE(cells, at) == Checked(cells, at, 2, Signed(Word16BE(cells, at), 2))
readInt32LE(cells, at) == Checked(cells, at, 4, Signed(Word32LE(cells, at), 4))
readInt32BE(cells, at) == Checked(cells, at, 4, Signed(Word32BE(cells, at), 4))

(* ------------------------------ floating point ----------------------------- *)
(* A number of the script is a double: its sign and its magnitude, counted in  *)
(* the least one above 0; NaN has no sign.                                     *)
Infinite == -1
NaN == -2
Number(neg, mag) == [neg |-> neg, mag |-> mag]

Float == [mLen |-> FloatMantissa, nBytes |-> 4]
Double == [mLen |-> DoubleMantissa, nBytes |-> 8]
eLen(f) == (f.nBytes * OctetBits) - f.mLen - 1
eMax(f) == (2 ^ eLen(f)) - 1
eBias(f) == eMax(f) \div 2
Unit == DoubleMantissa + eBias(Double) - 1                  \* a magnitude of 2^Unit is 1
Least(f) == Unit + 1 - eBias(f)                             \* the exponent of normal numbers

Log2(mag) == CHOOSE e \in 0..31 : 2 ^ e <= mag /\ mag < 2 ^ (e + 1)
Exponent(f, mag) == IF mag = 0 THEN Least(f) ELSE Max({Log2(mag), Least(f)})

(* Half of the last bit is added before the others are cut off, for a float.   *)
Rounded(f, mag) ==
  IF f = Double THEN mag ELSE mag + ((2 ^ (Exponent(f, mag) - f.mLen)) \div 2)
(* The bits below the sign: a subnormal number has the exponent 0.             *)
Bits(f, mag) ==
  LET value == Rounded(f, mag)
      exponent == Exponent(f, value)
      biased == exponent - Unit + eBias(f)
      m == value \div (2 ^ (exponent - f.mLen))
  IN  CASE mag = NaN -> (eMax(f) * (2 ^ f.mLen)) + 1
        [] mag = Infinite -> eMax(f) * (2 ^ f.mLen)
        [] mag >= 0 /\ biased >= eMax(f) -> eMax(f) * (2 ^ f.mLen)
        [] mag >= 0 /\ biased < eMax(f) -> ((biased - 1) * (2 ^ f.mLen)) + m
ieee754write(f, value) ==
  LET bits == Bits(f, value.mag) + (IF value.neg THEN 2 ^ ((f.nBytes * OctetBits) - 1) ELSE 0)
  IN  [i \in 1..f.nBytes |-> (bits \div (Radix ^ (i - 1))) % Radix]

ieee754read(f, octets) ==
  LET bits == Weighed(octets)
      m == bits % (2 ^ f.mLen)
      e == (bits \div (2 ^ f.mLen)) % (2 ^ eLen(f))
      neg == bits \div (2 ^ (f.mLen + eLen(f))) = 1
  IN  IF e = eMax(f) THEN IF m # 0 THEN Number(FALSE, NaN) ELSE Number(neg, Infinite)
      ELSE IF e = 0 THEN Number(neg, m * (2 ^ (Least(f) - f.mLen)))
      ELSE Number(neg, (m + (2 ^ f.mLen)) * (2 ^ (e - 1 + Least(f) - f.mLen)))

Ordered(octets, littleEndian) == IF littleEndian THEN octets ELSE Reverse(octets)
writeFloating(f, cells, value, offset, littleEndian) ==
  IF Uint(offset) + f.nBytes > Len(cells) THEN Thrown
  ELSE Store(cells, offset, Ordered(ieee754write(f, value), littleEndian))
writeFloat(cells, value, offset, littleEndian) == writeFloating(Float, cells, value, offset, littleEndian)
writeDouble(cells, value, offset, littleEndian) == writeFloating(Double, cells, value, offset, littleEndian)
readFloat(cells, at, littleEndian) ==
  Checked(cells, at, 4, ieee754read(Float, Ordered(Octets(cells, at, 4), littleEndian)))
readDouble(cells, at, littleEndian) ==
  Checked(cells, at, 8, ieee754read(Double, Ordered(Octets(cells, at, 8), littleEndian)))
===============================================================================
