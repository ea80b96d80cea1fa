------------------------------ MODULE Num8Crc -------------------------------
(***************************************************************************)
(* The checksum of every frame (src/src/num8lora_codec.c) and what it      *)
(* detects.  The other modules let a damaged frame be recognised as        *)
(* damaged; this one shows how far that is justified: the checksum goes    *)
(* out low byte first (finalize_crc), against the order of the bits that   *)
(* a CRC-16 is usually trusted with.                                       *)
(***************************************************************************)
EXTENDS Integers, SequencesExt, Bitwise

CONSTANTS
  Messages,     \* sequences of bytes of which the checksum is computed
  Bodies,       \* those that go on the air, before their checksum
  BurstBits     \* bound: bits from the first flipped one to the last

ASSUME CrcAssumption ==
  /\ \A bytes \in Messages \cup Bodies : bytes \in Seq(0..255)
  /\ BurstBits \in Nat

UINT16 == 65536
Poly == 4129       \* 0x1021

-----------------------------------------------------------------------------
\* Slip: the top bit is tested after the shift
ShiftTestedLate(crc) ==
  LET shifted == (2 * crc) % UINT16
  IN  IF shifted >= 32768 THEN shifted ^^ Poly ELSE shifted

\* One turn of the loop over the bits
Shift(crc) ==
  IF crc >= 32768 THEN ((2 * crc) % UINT16) ^^ Poly ELSE 2 * crc

UpdateByte(crc, byte) ==
  FoldLeft(LAMBDA c, bit : Shift(c), crc ^^ (byte * 256), [bit \in 1..8 |-> bit])

\* num8lora_codec_crc16_ccitt_false
Crc16(bytes) == FoldLeft(UpdateByte, 65535, bytes)

\* num8lora_codec_write_u16_le and num8lora_codec_read_u16_le
WriteU16(v) == <<v % 256, v \div 256>>
ReadU16(p) == p[1] + 256 * p[2]

\* finalize_crc
Footer(bytes) == WriteU16(Crc16(bytes))

\* Slip: only the byte that is read first is compared
ValidFrameFirstByte(f) == f[Len(f) - 1] = Crc16(SubSeq(f, 1, Len(f) - 2)) % 256

\* num8lora_validate_frame_crc
ValidFrame(f) ==
  ReadU16(SubSeq(f, Len(f) - 1, Len(f))) = Crc16(SubSeq(f, 1, Len(f) - 2))

-----------------------------------------------------------------------------
(* What the checksum is for. *)

\* The bits of n bytes that the radio may flip, the one sent first being 0: one,
\* two anywhere, or any within a burst
Damages(n) ==
  LET bits == 0..8 * n - 1
  IN  {{b, c} : b, c \in bits}
      \cup UNION {{{b} \cup rest : rest \in SUBSET (bits \cap b + 1..b + BurstBits - 1)}
                    : b \in bits}

\* f after the bits of flipped were; a byte goes out from its highest bit
Damaged(f, flipped) ==
  [i \in DOMAIN f |-> f[i] ^^
     MapThenSumSet(LAMBDA b : 2^(7 - (b % 8)), {b \in flipped : b \div 8 = i - 1})]

\* A polynomial over the integers modulo 2 is the set of its exponents;
\* division by x^16 + x^12 + x^5 + 1
Remainder(poly) ==
  LET R[n \in Nat, p \in SUBSET Nat] ==
        IF n < 16 THEN p
        ELSE R[n - 1, IF n \in p THEN SymDiff(p, {n, n - 4, n - 11, n - 16})
                      ELSE p]
  IN  R[Max(poly \cup {0}), poly]

\* The polynomial of the bytes, its first 16 bits inverted, times x^16
Dividend(bytes) ==
  LET bits == 8 * Len(bytes)
      set == {b \in 0..bits - 1 : (bytes[b \div 8 + 1] \div 2^(7 - (b % 8))) % 2 = 1}
  IN  SymDiff({bits - 1 - b + 16 : b \in set}, bits..bits + 15)

\* The loops over bytes and bits compute the CRC-16/CCITT-FALSE of each message,
\* the remainder of a division of polynomials.  For messages of one length both
\* sides are affine in the bits, so a length is settled once the message of zeros
\* and those with a single bit are among Messages.
CrcIsRemainder ==
  \A bytes \in Messages :
    Crc16(bytes) = MapThenSumSet(LAMBDA e : 2^e, Remainder(Dividend(bytes)))

\* A frame on which the radio flipped one or two bits, or any within a burst of
\* BurstBits, is refused, and an undamaged one is accepted, although the bytes
\* of the checksum are swapped on the air.
DetectsDamage ==
  \A bytes \in Bodies :
    LET f == bytes \o Footer(bytes)
    IN  ValidFrame(f) /\ \A d \in Damages(Len(f)) : ~ValidFrame(Damaged(f, d))
=============================================================================
