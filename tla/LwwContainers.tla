---------------------------- MODULE LwwContainers ----------------------------
(***************************************************************************)
(* The two standalone last-writer-wins containers of the mobile app: the   *)
(* register (src/mobile/src/crdt/lwwRegister.ts) and the element set       *)
(* (src/mobile/src/crdt/lwwElementSet.ts).                                 *)
(*                                                                         *)
(* Stamps are epoch microseconds, node ids are their ranks in string       *)
(* order.  An element an `adds` or `removes` map has no entry for is       *)
(* Absent, which is below every stamp.                                     *)
(***************************************************************************)
EXTENDS Integers

CONSTANTS Element, Content

---------------------------------------------------------------------------
(* The register                                                            *)

Register == [value : Content, updatedAt : Nat, nodeId : Nat]

\* pickLater(a, b) = 1; when stamp and node agree, a is taken.
RegisterWins(a, b) ==
  IF a.updatedAt # b.updatedAt THEN a.updatedAt > b.updatedAt
  ELSE IF a.nodeId # b.nodeId THEN a.nodeId > b.nodeId ELSE TRUE

MergeRegister(a, b) == IF RegisterWins(a, b) THEN a ELSE b

CompareStamps(aClock, aNode, bClock, bNode) ==
  IF aClock # bClock THEN (IF aClock > bClock THEN "local" ELSE "remote")
  ELSE IF aNode # bNode THEN (IF aNode > bNode THEN "local" ELSE "remote")
  ELSE "equal"

\* One node writes at one instant at most once: what HybridClock is for.
SameWrite(a, b) ==
  a.updatedAt = b.updatedAt /\ a.nodeId = b.nodeId => a.value = b.value

---------------------------------------------------------------------------
(* The element set                                                         *)

Absent == -1
Bias == {"add", "remove"}
StampMap == [Element -> Nat \cup {Absent}]
ElementSet == [adds : StampMap, removes : StampMap, bias : Bias]

NoStamps == [e \in Element |-> Absent]
Empty(bias) == [adds |-> NoStamps, removes |-> NoStamps, bias |-> bias]

Bumped(current, stamp) ==
  IF current = Absent \/ stamp > current THEN stamp ELSE current

Bump(map, e, stamp) == [map EXCEPT ![e] = Bumped(@, stamp)]

Add(s, e, stamp) == [s EXCEPT !.adds = Bump(@, e, stamp)]
Remove(s, e, stamp) == [s EXCEPT !.removes = Bump(@, e, stamp)]

Has(s, e) ==
  /\ s.adds[e] # Absent
  /\ \/ s.removes[e] = Absent
     \/ s.adds[e] = s.removes[e] /\ s.bias = "add"
     \/ s.adds[e] > s.removes[e]

Values(s) == {e \in Element : Has(s, e)}

\* Every entry of `other` is bumped in.
BumpAll(map, other) ==
  [e \in Element |-> IF other[e] = Absent THEN map[e] ELSE Bumped(map[e], other[e])]

Merge(s, other) ==
  [adds    |-> BumpAll(s.adds, other.adds),
   removes |-> BumpAll(s.removes, other.removes),
   bias    |-> s.bias]

ToJSON(s) == [adds |-> s.adds, removes |-> s.removes, bias |-> s.bias]
FromJSON(state) == Merge(Empty(state.bias), state)
=============================================================================
