----------------------- MODULE MCNum8LegacyReceiver ------------------------
(***************************************************************************)
(* A small instance of Num8LegacyReceiver, together with one of Num8Crc,   *)
(* on which its distinction of intact and damaged frames rests.            *)
(***************************************************************************)
EXTENDS Num8LegacyReceiver, Num8Crc

CONSTANTS r1, r2, FirstSender, SecondSender

OneReceiver == {r1}

\* The message in the tests, the digits 1 to 9
\* (tests/num8lora_codec_contract_test.c:33)
MCDigits == [i \in 1..9 |-> 48 + i]

\* Every byte; of each length up to that of an ACK before its checksum the
\* message of zeros and those with one bit set; and some mixed bytes
MCMessages ==
  {<<>>, MCDigits, <<161, 255>>, <<255, 0, 90>>} \cup {<<b>> : b \in 0..255}
  \cup {[i \in 1..n |-> IF i = j THEN b ELSE 0] :
            n \in 1..16, j \in 1..16, b \in {0} \cup {2^k : k \in 0..7}}

\* Which bits are flipped decides, not what they were: the checksum is affine
MCBodies == {<<161>>, <<161, 161>>}

MCFirstNumbers == {0}

Update(id, from, to, removes, adds) ==
  [update_id |-> id, from |-> from, to |-> to, removes |-> removes, adds |-> adds]

\* Two updates in a row, the first once more with another number, both in one,
\* and batches that no sender of the library announces
MCUpdates ==
  { Update(1, 1, 2, <<0>>, <<1>>), Update(1, 1, 2, <<0>>, <<2>>),
    Update(2, 2, 3, <<>>, <<0>>), Update(3, 1, 3, <<>>, <<1, 2>>),
    Update(1, 1, 2, <<0>>, <<MAX_VALUE + 1>>), Update(4, 2, 3, <<1>>, <<1>>) }

Announced(u) == NumbersError(u) = "NONE"

MCFrames ==
  UNION {EncodeBeacon(s, u, PayloadCrc(u)) :
           s \in {FirstSender, SecondSender}, u \in {v \in MCUpdates : Announced(v)}}
  \cup
  UNION {EncodeData(s, r, u) :
           s \in {FirstSender, SecondSender}, r \in {r1, r2}, u \in MCUpdates}

\* tests/num8lora_codec_contract_test.c:37 and 41
TestsPass == Crc16(<<>>) = 65535 /\ Crc16(MCDigits) = 10673

\* The two facts about the checksum, as formulas about behaviours, which is what
\* TLC checks (it evaluates them once).
\* The loops over bytes and bits of num8lora_codec.c compute the CRC-16 they are
\* named for, of every message of up to 16 bytes (see CrcIsRemainder), and return what the
\* tests expect.
ChecksumCorrect == [][CrcIsRemainder /\ TestsPass]_vars

\* No receiver is handed a frame in which the radio flipped two bits or a burst:
\* num8lora_validate_frame_crc refuses it, whatever part of it was hit.
DamageDetected == [][DetectsDamage]_vars
=============================================================================
