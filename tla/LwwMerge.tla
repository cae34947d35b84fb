------------------------------ MODULE LwwMerge ------------------------------
(***************************************************************************)
(* The last-writer-wins merge both halves of the sync protocol run.        *)
(*                                                                         *)
(* The mobile app (src/mobile/src/crdt/mergeRecord.ts) and the server      *)
(* (src/backend/src/sync/sync-merge.ts) hold two separate implementations  *)
(* of the same algebra.  Each is translated from its own source, so that   *)
(* their agreement is a theorem here and not an assumption.                *)
(*                                                                         *)
(* A record carries a value and a clock for every field, the id of the     *)
(* last writer (an annotation) and a deletion stamp.  Stamps are epoch     *)
(* microseconds, so 0 stands for "no stamp": a missing clock (`?? 0`) and  *)
(* a null deletedAt.  A value is its rank in the order of the JSON texts   *)
(* that compareValues compares; null and undefined share a rank.  A node   *)
(* id is its rank in string order; 0 is the empty or null id.              *)
(***************************************************************************)
EXTENDS Integers

CONSTANTS
  Field,     \* the synchronised fields of a collection
  Value,     \* ranks of the values a field may hold
  NullRank   \* the rank of null (strings rank below it, true above it)

ASSUME ValueAssumption == Value \subseteq Nat /\ NullRank \in Value

Record == [fields    : [Field -> Value],
           clocks    : [Field -> Nat],
           nodeId    : Nat,
           deletedAt : Nat]

---------------------------------------------------------------------------
(* The mobile side: src/mobile/src/crdt/mergeRecord.ts                     *)

\* A tie on the clock left to whoever is local, as if the values were equal.
PickFieldKeepsLocalOnTie(lClock, lValue, rClock, rValue) ==
  IF rClock > lClock THEN "remote" ELSE "local"

\* Later clock; on a tie the greater value; "equal" when both agree.
PickField(lClock, lValue, rClock, rValue) ==
  CASE lClock > rClock                     -> "local"
    [] rClock > lClock                     -> "remote"
    [] lClock = rClock /\ lValue > rValue  -> "local"
    [] lClock = rClock /\ rValue > lValue  -> "remote"
    [] lClock = rClock /\ lValue = rValue  -> "equal"

\* maxFieldClock(a) > maxFieldClock(b), without naming either maximum.
NewerFields(a, b) == \E f \in Field : \A g \in Field : a.clocks[f] > b.clocks[g]

\* A tombstone hides the record unless some field was written after it.
IsDeleted(r) ==
  r.deletedAt > 0 /\ \A f \in Field : r.deletedAt >= r.clocks[f]

NewestNode(local, remote) ==
  IF NewerFields(local, remote) THEN local.nodeId
  ELSE IF NewerFields(remote, local) THEN remote.nodeId
  ELSE IF local.nodeId > remote.nodeId THEN local.nodeId ELSE remote.nodeId

\* Merging by adopting the remote tombstone even when it is the older one.
MergeDeletionTakesRemote(local, remote) ==
  IF remote.deletedAt > 0 THEN remote.deletedAt ELSE local.deletedAt

\* A missing stamp read as -1, and written back as such.
MergeDeletionMinusOne(local, remote) ==
  IF local.deletedAt = remote.deletedAt THEN local.deletedAt - 1
  ELSE IF local.deletedAt > remote.deletedAt THEN local.deletedAt ELSE remote.deletedAt

MergeDeletion(local, remote) ==
  IF local.deletedAt >= remote.deletedAt THEN local.deletedAt ELSE remote.deletedAt

RemoteWins(local, remote, f) ==
  PickField(local.clocks[f], local.fields[f],
            remote.clocks[f], remote.fields[f]) = "remote"

\* One clock for the whole record: the later record takes every field.
MergeRecordWhole(local, remote) ==
  IF NewerFields(remote, local) THEN remote ELSE local

MergeRecord(local, remote) ==
  [fields    |-> [f \in Field |-> IF RemoteWins(local, remote, f)
                                  THEN remote.fields[f] ELSE local.fields[f]],
   clocks    |-> [f \in Field |-> IF RemoteWins(local, remote, f)
                                  THEN remote.clocks[f] ELSE local.clocks[f]],
   nodeId    |-> NewestNode(local, remote),
   deletedAt |-> MergeDeletion(local, remote)]

\* `changed`: the merged record needs a write to the local store.
MergeChanged(local, remote) ==
  \/ \E f \in Field : RemoteWins(local, remote, f)
  \/ MergeDeletion(local, remote) # local.deletedAt
  \/ NewestNode(local, remote) # local.nodeId

---------------------------------------------------------------------------
(* The server side: src/backend/src/sync/sync-merge.ts                     *)

\* Whatever a device pushes replaces what the server holds.
ServerPickFieldTakesPush(sClock, sValue, cClock, cValue) ==
  IF sClock = cClock /\ sValue = cValue THEN "equal" ELSE "client"

ServerPickField(sClock, sValue, cClock, cValue) ==
  CASE sClock > cClock                     -> "server"
    [] cClock > sClock                     -> "client"
    [] sClock = cClock /\ sValue > cValue  -> "server"
    [] sClock = cClock /\ cValue > sValue  -> "client"
    [] sClock = cClock /\ sValue = cValue  -> "equal"

ClientWins(server, client, f) ==
  ServerPickField(server.clocks[f], server.fields[f],
                  client.clocks[f], client.fields[f]) = "client"

MergeTombstone(s, c) == IF s >= c THEN s ELSE c

ServerNewestNode(server, client) ==
  IF NewerFields(server, client) THEN server.nodeId
  ELSE IF NewerFields(client, server) THEN client.nodeId
  ELSE IF server.nodeId >= client.nodeId THEN server.nodeId ELSE client.nodeId

\* A winning value taken over without its clock.
ServerMergedClockSplit(server, client) ==
  [fields    |-> [f \in Field |-> IF ClientWins(server, client, f)
                                  THEN client.fields[f] ELSE server.fields[f]],
   clocks    |-> server.clocks,
   nodeId    |-> ServerNewestNode(server, client),
   deletedAt |-> MergeTombstone(server.deletedAt, client.deletedAt)]

ServerMerged(server, client) ==
  [fields    |-> [f \in Field |-> IF ClientWins(server, client, f)
                                  THEN client.fields[f] ELSE server.fields[f]],
   clocks    |-> [f \in Field |-> IF ClientWins(server, client, f)
                                  THEN client.clocks[f] ELSE server.clocks[f]],
   nodeId    |-> ServerNewestNode(server, client),
   deletedAt |-> MergeTombstone(server.deletedAt, client.deletedAt)]

ServerChanged(server, client) ==
  \/ \E f \in Field : ClientWins(server, client, f)
  \/ MergeTombstone(server.deletedAt, client.deletedAt) # server.deletedAt

\* A delete alone is merged, but not counted as a contribution.
ClientAcceptedFieldsOnly(server, client) ==
  \E f \in Field : ClientWins(server, client, f)

ClientAccepted(server, client) ==
  \/ \E f \in Field : ClientWins(server, client, f)
  \/ client.deletedAt > server.deletedAt

ServerAhead(server, client) ==
  \/ \E f \in Field : server.clocks[f] > client.clocks[f]
  \/ server.deletedAt > client.deletedAt

---------------------------------------------------------------------------
(* The order the merges climb.  No function of the code computes it.       *)

\* Register (c, v) is at or above register (d, w).
AtLeast(c, v, d, w) == c > d \/ (c = d /\ v >= w)

\* Record a holds, field by field, everything b holds or something newer.
Covers(a, b) ==
  /\ \A f \in Field : AtLeast(a.clocks[f], a.fields[f], b.clocks[f], b.fields[f])
  /\ a.deletedAt >= b.deletedAt

\* The parts of a record a user sees; nodeId is an annotation.
SameContent(a, b) ==
  /\ a.fields = b.fields
  /\ a.clocks = b.clocks
  /\ a.deletedAt = b.deletedAt
=============================================================================
