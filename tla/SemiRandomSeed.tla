----------------------------- MODULE SemiRandomSeed -----------------------------
(***************************************************************************)
(* NewSemiRandomStream (contracts/evoting/evoting.go): the seed of the    *)
(* stream that regenerates a shuffle's random vector is binary.Varint of  *)
(* the first 8 bytes of the shuffle hash, and the stream is refused when  *)
(* Varint reports n <= 0.                                                   *)
(*                                                                         *)
(* binary.Uvarint (Go standard library, not under src/) is translated as  *)
(* a RECURSIVE operator.  Its value is kept as the sequence of its 7-bit  *)
(* groups, least significant first, which is exact: TLC's integers would  *)
(* overflow on the 49-bit values 8 bytes can carry.  The hash grows one   *)
(* byte at a time from a set of representative bytes, so every prefix of  *)
(* every such hash is checked, up to a length past the 8-byte cut.        *)
(***************************************************************************)
EXTENDS Naturals, Integers, Sequences, FiniteSets

CONSTANTS
  HashBytes,    \* the byte values a hash byte may take in the model
  MaxHashLen    \* the longest hash prefix checked

ASSUME HashBytes \subseteq 0..255 /\ MaxHashLen \in Nat

VARIABLE hash

MaxVarintLen64 == 10

\* binary.Uvarint: <<groups, n>>; n is the number of bytes read, 0 when the
\* buffer ends before a byte below 0x80, -(i + 1) on a 64-bit overflow
RECURSIVE UvarintFrom(_, _, _)
UvarintFrom(buf, i, groups) ==
  IF i > Len(buf) THEN <<<<>>, 0>>
  ELSE IF i - 1 = MaxVarintLen64 THEN <<<<>>, -i>>
  ELSE IF buf[i] < 128
       THEN IF i = MaxVarintLen64 /\ buf[i] > 1 THEN <<<<>>, -i>>
            ELSE <<Append(groups, buf[i]), i>>
       ELSE UvarintFrom(buf, i + 1, Append(groups, buf[i] - 128))

Uvarint(buf) == UvarintFrom(buf, 1, <<>>)

\* seed[0:8] when the seed is longer than 8 bytes
Truncate(seed) == IF Len(seed) > 8 THEN SubSeq(seed, 1, 8) ELSE seed

\* mutant: only an overflow is refused
SeedRefusedOverflowOnly(n) == n < 0

\* "the seed has a wrong size (too small)"
SeedRefused(n) == n <= 0

\* NewSemiRandomStream: ok, and the 7-bit groups of the Varint seed (the
\* zigzag decoding of the groups is a bijection, so the groups determine it)
NewSemiRandomStream(seed) ==
  LET u == Uvarint(Truncate(seed)) IN
  [ok |-> ~SeedRefused(u[2]), groups |-> u[1]]

-----------------------------------------------------------------------------

Init == hash = <<>>

AppendByte ==
  /\ Len(hash) < MaxHashLen
  /\ \E b \in HashBytes : hash' = Append(hash, b)

Spec == Init /\ [][AppendByte]_hash

-----------------------------------------------------------------------------
(* Properties, against a reference definition without recursion.          *)

\* positions of the bytes below 0x80 among the first 8
LowBytes(h) == {i \in 1..Len(h) : i <= 8 /\ h[i] < 128}

(* The stream is refused exactly when none of the first 8 bytes of the    *)
(* hash is below 0x80, and the seed is made of the bytes up to the first  *)
(* one that is, each without its high bit: bytes after the 8th never     *)
(* matter (NewSemiRandomStream truncation and n <= 0 check, Uvarint).     *)
SeedMatchesReference ==
  LET r == NewSemiRandomStream(hash) IN
  /\ r.ok = (LowBytes(hash) # {})
  /\ r.ok => LET k == CHOOSE i \in LowBytes(hash) : \A j \in LowBytes(hash) : i <= j
             IN r.groups = [i \in 1..k |-> hash[i] % 128]

(* spec.md section 8: the verifier accepts every honestly generated        *)
(* shuffle, so the random-vector stream can be seeded from every 32-byte   *)
(* shuffle hash (NewSemiRandomStream on shuffleHash in shuffleBallots).    *)
SeedAlwaysAccepted ==
  Len(hash) >= 8 => NewSemiRandomStream(hash).ok

=============================================================================
