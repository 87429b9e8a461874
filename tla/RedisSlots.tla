----------------------------- MODULE RedisSlots -----------------------------
(***************************************************************************)
(* How the cache client computes the hash slot of a key                    *)
(* (packages/cache/src/providers/redis/cluster.ts), beside the way a Redis *)
(* Cluster node computes it.  A key is a sequence of UTF-16 code units; no *)
(* surrogate pairs are used, so a unit is a code point.                    *)
(*                                                                         *)
(* The client feeds the low byte of each code unit to a table-driven CRC;  *)
(* the node sees the UTF-8 bytes, and its CRC is written here as what it   *)
(* is, the remainder of a division of polynomials.                         *)
(***************************************************************************)
EXTENDS Integers, Sequences, SequencesExt, FiniteSetsExt, Bitwise

OpenBrace  == 123
CloseBrace == 125
Slots == 16384

\* The part of a key that is hashed: what its first {...} holds, if anything.
Hashed(key) ==
    LET opens  == {i \in DOMAIN key : key[i] = OpenBrace}
        closes == {i \in DOMAIN key : i > Min(opens) /\ key[i] = CloseBrace}
    IN  IF opens # {} /\ closes # {} /\ Min(closes) # Min(opens) + 1
        THEN SubSeq(key, Min(opens) + 1, Min(closes) - 1)
        ELSE key

-----------------------------------------------------------------------------
(* The client. *)

Crc16Table ==
    LET shift(crc, bit) == IF (crc \div 32768) % 2 = 1
                           THEN (crc * 2) ^^ 4129 ELSE crc * 2
    IN  [i \in 0 .. 255 |->
            FoldLeft(shift, i * 256, <<1, 2, 3, 4, 5, 6, 7, 8>>) % 65536]

Crc16(key) ==
    LET step(crc, unit) ==
            ((crc * 256) ^^ Crc16Table[((crc \div 256) ^^ unit) % 256]) % 65536
    IN  FoldLeft(step, 0, key)

HashSlot(key) == Crc16(Hashed(key)) % Slots

-----------------------------------------------------------------------------
(* The node. *)

Utf8(unit) ==
    CASE unit < 128 -> <<unit>>
      [] unit \in 128 .. 2047 -> <<192 + unit \div 64, 128 + (unit % 64)>>
      [] OTHER -> <<224 + unit \div 4096, 128 + ((unit \div 64) % 64), 128 + (unit % 64)>>

Bytes(key) == FlattenSeq([i \in DOMAIN key |-> Utf8(key[i])])

BitsOf(byte) == [i \in 1 .. 8 |-> (byte \div 2^(8 - i)) % 2]

\* The remainder of the message, followed by sixteen zeros, by
\* x^16 + x^12 + x^5 + 1.
Remainder(bytes) ==
    LET bits == FlattenSeq([i \in DOMAIN bytes |-> BitsOf(bytes[i])])
                    \o [i \in 1 .. 16 |-> 0]
        divide(r, bit) == IF 2 * r + bit >= 65536
                          THEN (2 * r + bit) ^^ 69665 ELSE 2 * r + bit
    IN  FoldLeft(divide, 0, bits)

NodeSlot(key) == Remainder(Bytes(Hashed(key))) % Slots

=============================================================================
