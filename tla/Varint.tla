------------------------------- MODULE Varint -------------------------------
(***************************************************************************)
(* datastreams/encoding.ts: zigzag encoding in groups of seven bits, and   *)
(* its decoding.  The code halves a number into 32 bits each, since the    *)
(* bitwise operators have no more; the groups are those of the whole.      *)
(***************************************************************************)
EXTENDS Integers, Sequences, FiniteSets, FiniteSetsExt

CONSTANT Numbers \* the numbers encoded

MaxVarLen64 == 9

VARIABLES
    number,  \* the argument of encodeVarint
    bytes,   \* its result
    decoded  \* what decodeVarint makes of it

varintVars == <<number, bytes, decoded>>

\* encodeUvarint64: the last group is the one not above 128.
encodeUvarint64[n \in Nat] ==
    IF n > 128 THEN <<(n % 128) + 128>> \o encodeUvarint64[n \div 128] ELSE <<n % 128>>

\* encodeVarint: the lowest bit is the sign.
ZigZag(v) == IF v \geq 0 THEN 2 * v ELSE 2 * (-v) + 1

\* decodeUvarint64: up to the first byte without the high bit, or the ninth.
decodeUvarint64(bs) ==
    LET last == Min({k \in DOMAIN bs : bs[k] < 128 \/ k = MaxVarLen64})
    IN MapThenSumSet(LAMBDA k : (bs[k] % 128) * 128 ^ (k - 1), 1 .. last)

\* decodeVarint.
UnZigZag(n) == IF n % 2 = 0 THEN n \div 2 ELSE -(n \div 2)

Init == number \in Numbers /\ bytes = <<>> /\ decoded = <<>>

EncodeVarint ==
    /\ bytes = <<>>
    /\ bytes' = encodeUvarint64[ZigZag(number)]
    /\ UNCHANGED <<number, decoded>>

DecodeVarint ==
    /\ bytes # <<>>
    /\ decoded = <<>>
    /\ decoded' = <<UnZigZag(decodeUvarint64(bytes))>>
    /\ UNCHANGED <<number, bytes>>

Next == EncodeVarint \/ DecodeVarint

Spec == Init /\ [][Next]_varintVars

\* What is decoded is the number encoded, as the comment on encodeVarint has it
\* for every number up to half of MAX_SAFE_INTEGER.
VarintRoundTrips == decoded # <<>> => decoded = <<number>>
=============================================================================
