---------------------------- MODULE FractionalIndex ----------------------------
(***************************************************************************)
(* Position keys: src/backend/src/common/ordering/fractional-indexer.ts.   *)
(* A key is a sequence of digits, compared as the strings of the code are. *)
(* The recursion of midpoint() is unrolled: it copies a common prefix,     *)
(* then descends along the lower key at most.                              *)
(***************************************************************************)
EXTENDS Integers, Sequences, SequencesExt, FiniteSetsExt

CONSTANTS Base,   \* size of the alphabet, 62 in the code
          Seed    \* the digit of the first key, "M"

ASSUME IndexAssumption == Base \in Nat /\ Base >= 2 /\ Seed \in 1 .. Base - 1

NoKey == <<>>    \* null, an open end

\* String comparison.
Less(a, b) ==
  \E n \in 0 .. Min({Len(a), Len(b)}) :
    /\ SubSeq(a, 1, n) = SubSeq(b, 1, n)
    /\ n < Len(b) /\ (n < Len(a) => a[n + 1] < b[n + 1])

\* No trailing zero.
IsValidKey(key) ==
  /\ key # <<>> /\ key \in Seq(0 .. Base - 1)
  /\ Last(key) # 0

Digit(a, i) == IF i <= Len(a) THEN a[i] ELSE 0
Middle(x, y) == (x + y + 1) \div 2      \* Math.round(0.5 * (x + y))

\* midpoint(a, null): along a to the first digit with room above it.
MidpointAbove(a) ==
  LET i == Min({j \in 1 .. Len(a) + 1 : Base - Digit(a, j) > 1})
  IN Append(SubSeq(a, 1, i - 1), Middle(Digit(a, i), Base))

\* midpoint(a, b), for a < b.
Midpoint(a, b) ==
  LET i    == Min({j \in 1 .. Len(b) : Digit(a, j) # b[j]})
      same == SubSeq(b, 1, i - 1)
  IN IF b[i] - Digit(a, i) > 1 THEN Append(same, Middle(Digit(a, i), b[i]))
     ELSE IF Len(b) > i THEN SubSeq(b, 1, i)
     ELSE Append(same, Digit(a, i)) \o MidpointAbove(SubSeq(a, i + 1, Len(a)))

\* getIntermediateKey, which throws when there is no room.
HasRoom(prev, next) == prev = NoKey \/ next = NoKey \/ Less(prev, next)

IntermediateKey(prev, next) ==
  IF next # NoKey THEN Midpoint(prev, next)
  ELSE IF prev = NoKey THEN <<Seed>> ELSE MidpointAbove(prev)

\* Math.pow(base, length).
Power[length \in Nat] == IF length = 0 THEN 1 ELSE Base * Power[length - 1]

\* rebalance: count keys, evenly spaced, of one width.
Width(count) == Min({n \in 2 .. count + 2 : Power[n] >= 2 * (count + 1)})

EncodeFixed(value, width) == [i \in 1 .. width |-> (value \div Power[width - i]) % Base]

Evenly(count, k) == (k * Power[Width(count)]) \div (count + 1)
OffZero(value) == IF value % Base = 0 THEN value + 1 ELSE value

\* Mutant: keys may end in the zero digit.
RebalanceAnyDigit(count) ==
  [k \in 1 .. count |-> EncodeFixed(Evenly(count, k), Width(count))]

Values(count) ==
  LET value[k \in 1 .. count] ==
        IF k > 1 /\ OffZero(Evenly(count, k)) <= value[k - 1]
        THEN value[k - 1] + 1 ELSE OffZero(Evenly(count, k))
  IN value

Rebalance(count) == [k \in 1 .. count |-> EncodeFixed(Values(count)[k], Width(count))]
=============================================================================
