----------------------------- MODULE SyncSystem -----------------------------
(***************************************************************************)
(* Offline-first sync of one collection: mobile devices, each with an      *)
(* editor (the UI) and a sync engine working on the same SQLite store, the *)
(* HTTP transport, and the server's POST /sync handler.                    *)
(*                                                                         *)
(*   device   src/mobile/src/sync/SyncService.ts, httpSyncTransport.ts,    *)
(*            src/mobile/src/crdt/clock.ts                                 *)
(*   server   src/backend/src/sync/sync.service.ts                         *)
(*   web      src/backend/src/cards/cards.service.ts, which writes the     *)
(*            same rows without touching their sync clocks                 *)
(*                                                                         *)
(* Granularity.  A device runs JavaScript: code between two awaits is one  *)
(* step, and every await lets the other activity of the device run.  Each  *)
(* store access is an await, so a read and the write computed from it are  *)
(* two steps (`editPut` and `syncPut` hold the record on its way to the    *)
(* store).  The server handles a request in one transaction that locks the *)
(* rows it merges: one step.  A web edit loads its row in one transaction  *)
(* and saves it in another: two steps.                                     *)
(***************************************************************************)
EXTENDS LwwMerge, FiniteSets

CONSTANTS
  Device,           \* node ids of the devices, as ranks
  Id,               \* ids of the records of the collection, in their order
  None,             \* no record, no store write in flight
  Tombstone,        \* names the deletion register among the writes
  InitialValue,     \* value of every field of a record that starts out
  Shared,           \* records every device and the server hold at the start
  WebOnly,          \* records the server alone holds, made by the web client
  Patch,            \* the partial updates a user may make
  Refused,          \* <<field, value>> pairs sanitizeClientChange drops:
                    \*   parents that are no longer in the organisation
  MaxSyncChanges,   \* MAX_SYNC_CHANGES (1000 in the code)
  MicrosPerTick,    \* microseconds per step of Date.now() (1000 in the code)
  Skew,             \* how far each device's wall clock runs ahead
  WebOps,           \* what the web client does: "create", "update", "remove"
  EditsDuringSync,  \* may the user edit while a sync is in flight?
  StampsCollide,    \* may two devices stamp the same microsecond?
  MaxTime, MaxMicros, MaxEdits, MaxWebOps, MaxTimeouts, MaxCrashes  \* bounds

ASSUME SystemAssumption ==
  /\ Device \subseteq Nat \ {0}
  /\ Id \subseteq Nat
  /\ Shared \subseteq Id /\ WebOnly \subseteq Id /\ Shared \cap WebOnly = {}
  /\ None \notin Record
  /\ None \notin [id : Id, record : Record]
  /\ None \notin [id : Id, record : Record, pending : BOOLEAN]
  /\ Tombstone \notin Field
  /\ InitialValue \in Value
  /\ \A f \in Field : <<f, InitialValue>> \notin Refused
  /\ Patch \subseteq UNION {[S -> Value] : S \in SUBSET Field}
  /\ MicrosPerTick \in Nat
  /\ Skew \in [Device -> Nat]
  /\ EditsDuringSync \in BOOLEAN /\ StampsCollide \in BOOLEAN

\* The server's clock may stop at MaxMicros only where no stamp of a device is
\* later: from there on every row counts as older than the checkpoint, as it
\* would if the clock went on.
ASSUME MicrosAssumption ==
  /\ MaxTime \in Nat /\ MaxEdits \in Nat /\ MaxMicros \in Nat
  /\ \A d \in Device : MicrosPerTick * MaxTime + Skew[d] + MaxEdits - 1 <= MaxMicros

VARIABLES
  time,         \* physical time, in steps of Date.now()
  rows,         \* rows[id]: the server's master row
  lastMicros,   \* SyncService.lastMicros of the server
  webCopy,      \* the entity a web edit has loaded and not yet saved
  local,        \* local[d][id]: the record in d's SQLite store
  pending,      \* pending[d]: the records flagged pending there
  checkpoint,   \* checkpoint[d]: the persisted checkpoint of the collection
  clockLast,    \* clockLast[d]: HybridClock.last, in memory only
  editPut,      \* editPut[d]: the write of mutate/remove on its way to the store
  syncPut,      \* syncPut[d]: the write of the sync engine on its way
  sync,         \* sync[d]: where d's sync engine is
  late,         \* pushes whose client gave up and that may still be handled
  issued,       \* every write ever stamped (history)
  used          \* how much of each bound a behaviour has used

deviceVars == <<local, pending, checkpoint, clockLast>>
serverVars == <<rows, lastMicros, webCopy>>
vars == <<time, rows, lastMicros, webCopy, local, pending, checkpoint,
          clockLast, editPut, syncPut, sync, late, issued, used>>

Table == [Id -> Record \cup {None}]
EmptyTable == [id \in Id |-> None]
IdsOf(table) == {id \in Id : table[id] # None}

\* Where a sync is.  The ids still to be worked through are always ids of the
\* changes replied, or of the batch pushed.
SyncStates == [pc     : {"idle", "pull", "apply", "scan", "push", "ack"},
               cursor : Nat,     \* sinceCheckpoint, then the checkpoint replied
               table  : Table,   \* the changes replied, then the batch pushed
               todo   : SUBSET Id]

SyncState == {s \in SyncStates : s.todo \subseteq IdsOf(s.table)}

Idle == [pc |-> "idle", cursor |-> 0, table |-> EmptyTable, todo |-> {}]

Write == [id : Id, register : Field \cup {Tombstone}, clock : Nat, value : Value]
Bound == {"edits", "web", "timeouts", "crashes"}

TypeOK ==
  /\ time \in Nat
  /\ rows \in Table
  /\ lastMicros \in Nat
  /\ webCopy \in [id : Id, record : Record] \cup {None}
  /\ local \in [Device -> Table]
  /\ pending \in [Device -> SUBSET Id]
  /\ checkpoint \in [Device -> Nat]
  /\ clockLast \in [Device -> Nat]
  /\ editPut \in [Device -> [id : Id, record : Record] \cup {None}]
  /\ syncPut \in [Device -> [id : Id, record : Record, pending : BOOLEAN] \cup {None}]
  /\ sync \in [Device -> SyncState]
  /\ late \subseteq Table
  /\ issued \subseteq Write
  /\ used \in [Bound -> Nat]

---------------------------------------------------------------------------
(* The start: Shared records were made, pushed and pulled long ago, with   *)
(* stamp and checkpoint 1; WebOnly rows were made by the web client and    *)
(* have no clocks.                                                         *)
BaseStamp == 1

InitialRecord(stamp) ==
  [fields    |-> [f \in Field |-> InitialValue],
   clocks    |-> [f \in Field |-> stamp],
   nodeId    |-> 0,
   deletedAt |-> 0]

SharedTable == [id \in Id |-> IF id \in Shared THEN InitialRecord(BaseStamp) ELSE None]

Init ==
  /\ time = 1
  /\ rows = [id \in Id |-> IF id \in WebOnly THEN InitialRecord(0) ELSE SharedTable[id]]
  /\ lastMicros = BaseStamp
  /\ webCopy = None
  /\ local = [d \in Device |-> SharedTable]
  /\ pending = [d \in Device |-> {}]
  /\ checkpoint = [d \in Device |-> IF Shared = {} THEN 0 ELSE BaseStamp]
  /\ clockLast = [d \in Device |-> 0]
  /\ editPut = [d \in Device |-> None]
  /\ syncPut = [d \in Device |-> None]
  /\ sync = [d \in Device |-> Idle]
  /\ late = {}
  /\ issued = {}
  /\ used = [b \in Bound |-> 0]

Spend(b, max) == used[b] < max /\ used' = [used EXCEPT ![b] = @ + 1]

---------------------------------------------------------------------------
(* Clocks                                                                  *)

Wall(d) == MicrosPerTick * time + Skew[d]

\* HybridClock.now(): the wall clock, or one past the last stamp issued.
Now(d) == IF Wall(d) > clockLast[d] THEN Wall(d) ELSE clockLast[d] + 1

\* SyncService.nowMicros() of the server.  It stops at the bound MaxMicros,
\* which no stamp exceeds (MicrosAssumption).
ServerNow ==
  IF MicrosPerTick * time > lastMicros THEN MicrosPerTick * time
  ELSE IF lastMicros < MaxMicros THEN lastMicros + 1 ELSE lastMicros

Tick ==
  /\ time < MaxTime
  /\ time' = time + 1
  /\ UNCHANGED <<serverVars, deviceVars, editPut, syncPut, sync, late, issued, used>>

---------------------------------------------------------------------------
(* The editor: SyncEngine.create, mutate, remove                           *)

MayEdit(d) ==
  /\ editPut[d] = None
  /\ EditsDuringSync \/ sync[d].pc = "idle"
  /\ StampsCollide \/ \A w \in issued : w.clock # Now(d)
  /\ Spend("edits", MaxEdits)

\* One step: nobody else can know the id before the record is stored.
Create(d, id, value) ==
  /\ MayEdit(d)
  /\ \A e \in Device : local[e][id] = None
  /\ rows[id] = None /\ (\A w \in issued : w.id # id)
  /\ local' = [local EXCEPT ![d][id] =
       [fields    |-> [f \in Field |-> value],
        clocks    |-> [f \in Field |-> Now(d)],
        nodeId    |-> d,
        deletedAt |-> 0]]
  /\ pending' = [pending EXCEPT ![d] = @ \cup {id}]
  /\ clockLast' = [clockLast EXCEPT ![d] = Now(d)]
  /\ issued' = issued \cup
       {[id |-> id, register |-> f, clock |-> Now(d), value |-> value] : f \in Field}
  /\ UNCHANGED <<time, serverVars, checkpoint, editPut, syncPut, sync, late>>

\* mutate up to its put: it read the record and stamped the patched fields.
Mutate(d, id, patch) ==
  LET existing == local[d][id]
      now      == Now(d)
  IN /\ MayEdit(d)
     /\ existing # None
     /\ editPut' = [editPut EXCEPT ![d] =
          [id     |-> id,
           record |->
             [fields    |-> [f \in Field |-> IF f \in DOMAIN patch THEN patch[f]
                                             ELSE existing.fields[f]],
              clocks    |-> [f \in Field |-> IF f \in DOMAIN patch THEN now
                                             ELSE existing.clocks[f]],
              nodeId    |-> d,
              deletedAt |-> existing.deletedAt]]]
     /\ clockLast' = [clockLast EXCEPT ![d] = now]
     /\ issued' = issued \cup
          {[id |-> id, register |-> f, clock |-> now, value |-> patch[f]] : f \in DOMAIN patch}
     /\ UNCHANGED <<time, serverVars, local, pending, checkpoint, syncPut, sync, late>>

Remove(d, id) ==
  LET existing == local[d][id]
  IN /\ MayEdit(d)
     /\ existing # None
     /\ editPut' = [editPut EXCEPT ![d] =
          [id     |-> id,
           record |-> [existing EXCEPT !.deletedAt = Now(d), !.nodeId = d]]]
     /\ clockLast' = [clockLast EXCEPT ![d] = Now(d)]
     /\ issued' = issued \cup
          {[id |-> id, register |-> Tombstone, clock |-> Now(d), value |-> NullRank]}
     /\ UNCHANGED <<time, serverVars, local, pending, checkpoint, syncPut, sync, late>>

\* The put of mutate and remove, from a copy read earlier; it sets pending.
EditPut(d) ==
  /\ editPut[d] # None
  /\ local' = [local EXCEPT ![d][editPut[d].id] = editPut[d].record]
  /\ pending' = [pending EXCEPT ![d] = @ \cup {editPut[d].id}]
  /\ editPut' = [editPut EXCEPT ![d] = None]
  /\ UNCHANGED <<time, serverVars, checkpoint, clockLast, syncPut, sync, late, issued, used>>

---------------------------------------------------------------------------
(* The sync engine, first half: pullAndMerge                               *)

\* sync(): read the checkpoint and ask for what is newer.
StartSync(d) ==
  /\ sync[d].pc = "idle"
  /\ EditsDuringSync \/ editPut[d] = None
  /\ sync' = [sync EXCEPT ![d] = [Idle EXCEPT !.pc = "pull", !.cursor = checkpoint[d]]]
  /\ UNCHANGED <<time, serverVars, deviceVars, editPut, syncPut, late, issued, used>>

\* Whether pullSinceCheckpoint selects a row.
ChangedSince(row, since) ==
  row.deletedAt > since \/ \E f \in Field : row.clocks[f] > since

FirstIds(ids, n) == {i \in ids : Cardinality({j \in ids : j < i}) < n}

\* The changes replied to a pull: nothing at all for checkpoint 0.
DeltaIds(since) ==
  IF since = 0 THEN {}
  ELSE FirstIds({id \in IdsOf(rows) : ChangedSince(rows[id], since)}, MaxSyncChanges)

ServerPull(d) ==
  /\ sync[d].pc = "pull"
  /\ LET ids == DeltaIds(sync[d].cursor)
     IN sync' = [sync EXCEPT ![d] =
          [pc     |-> "apply",
           cursor |-> ServerNow,
           table  |-> [id \in Id |-> IF id \in ids THEN rows[id] ELSE None],
           todo   |-> ids]]
  /\ lastMicros' = ServerNow
  /\ UNCHANGED <<time, rows, webCopy, deviceVars, editPut, syncPut, late, issued, used>>

\* The tombstone forgotten: a pending delete looks as if it were pushed.
LocalIsAheadFieldsOnly(mine, remote) ==
  \E f \in Field : mine.clocks[f] > remote.clocks[f]

\* Equal clocks taken for "not ahead", as the code does.
LocalIsAhead(mine, remote) ==
  \/ \E f \in Field : mine.clocks[f] > remote.clocks[f]
  \/ mine.deletedAt > remote.deletedAt

\* applyRemote up to its put, for one change (the order does not matter).
ApplyRemote(d, id) ==
  LET mine         == local[d][id]
      remote       == sync[d].table[id]
      isPending    == id \in pending[d]
      stillPending == isPending /\ LocalIsAhead(mine, remote)
      store(record, flag) ==
        /\ syncPut' = [syncPut EXCEPT ![d] = [id |-> id, record |-> record, pending |-> flag]]
        /\ UNCHANGED sync
  IN /\ sync[d].pc = "apply" /\ id \in sync[d].todo /\ syncPut[d] = None
     /\ \/ mine = None /\ store(remote, FALSE)
        \/ /\ mine # None
           /\ MergeChanged(mine, remote) \/ stillPending # isPending
           /\ store(MergeRecord(mine, remote), stillPending)
        \/ /\ mine # None
           /\ ~MergeChanged(mine, remote) /\ stillPending = isPending
           /\ sync' = [sync EXCEPT ![d].todo = @ \ {id}]
           /\ UNCHANGED syncPut
     /\ UNCHANGED <<time, serverVars, deviceVars, editPut, late, issued, used>>

\* The put of applyRemote and of pushPending.
SyncPut(d) ==
  /\ syncPut[d] # None
  /\ local' = [local EXCEPT ![d][syncPut[d].id] = syncPut[d].record]
  /\ pending' = [pending EXCEPT ![d] = IF syncPut[d].pending THEN @ \cup {syncPut[d].id}
                                       ELSE @ \ {syncPut[d].id}]
  /\ syncPut' = [syncPut EXCEPT ![d] = None]
  /\ sync' = [sync EXCEPT ![d].todo = @ \ {syncPut[d].id}]
  /\ UNCHANGED <<time, serverVars, checkpoint, clockLast, editPut, late, issued, used>>

\* The checkpoint saved without waiting for the changes to be stored.
SetCheckpointEarly(d) ==
  /\ sync[d].pc = "apply" /\ checkpoint[d] # sync[d].cursor
  /\ checkpoint' = [checkpoint EXCEPT ![d] = sync[d].cursor]
  /\ sync' = [sync EXCEPT ![d].pc = IF sync[d].todo = {} THEN "scan" ELSE "apply"]
  /\ UNCHANGED <<time, serverVars, local, pending, clockLast, editPut, syncPut, late, issued, used>>

SetCheckpoint(d) ==
  /\ sync[d].pc = "apply" /\ sync[d].todo = {}
  /\ checkpoint' = [checkpoint EXCEPT ![d] = sync[d].cursor]
  /\ sync' = [sync EXCEPT ![d] = [Idle EXCEPT !.pc = "scan"]]
  /\ UNCHANGED <<time, serverVars, local, pending, clockLast, editPut, syncPut, late, issued, used>>

---------------------------------------------------------------------------
(* The sync engine, second half: pushPending                               *)

\* getPending(), and the batch to push; nothing pending ends the sync.
ScanPending(d) ==
  /\ sync[d].pc = "scan"
  /\ sync' = [sync EXCEPT ![d] =
       IF pending[d] = {} THEN Idle
       ELSE [Idle EXCEPT !.pc = "push",
                         !.table = [id \in Id |-> IF id \in pending[d] THEN local[d][id]
                                                  ELSE None]]]
  /\ UNCHANGED <<time, serverVars, deviceVars, editPut, syncPut, late, issued, used>>

\* sanitizeClientChange: a refused value loses its clock and becomes absent.
Dropped(change) == {f \in Field : <<f, change.fields[f]>> \in Refused}

Sanitize(change) ==
  [fields    |-> [f \in Field |-> IF f \in Dropped(change) THEN NullRank ELSE change.fields[f]],
   clocks    |-> [f \in Field |-> IF f \in Dropped(change) THEN 0 ELSE change.clocks[f]],
   nodeId    |-> change.nodeId,
   deletedAt |-> change.deletedAt]

\* The parent of an offline-created record not looked up.
InsertableAnywhere(change) == TRUE

\* tryInsert: only with a parent in the organisation.
Insertable(change) == Dropped(change) = {}

\* The row after one change of a push: inserted, merged or left alone.  An
\* absent value that wins a clockless tie is `undefined` in the patch and
\* leaves the column as it was.
MergedRow(row, change) ==
  LET merged == ServerMerged(row, Sanitize(change))
  IN [merged EXCEPT !.fields =
        [f \in Field |-> IF f \in Dropped(change) THEN row.fields[f] ELSE merged.fields[f]]]

RowAfter(row, change) ==
  IF row = None
  THEN IF Insertable(change) THEN change ELSE None
  ELSE IF ServerChanged(row, Sanitize(change)) THEN MergedRow(row, change) ELSE row

Accepted(row, change) ==
  IF row = None THEN Insertable(change)
  ELSE ClientAccepted(row, Sanitize(change))

RowsAfter(batch) ==
  [id \in Id |-> IF batch[id] = None THEN rows[id] ELSE RowAfter(rows[id], batch[id])]

\* One transaction.  The records the server is ahead on are echoed in the
\* reply, but HttpSyncTransport.push drops everything except acceptedIds.
ServerPush(d) ==
  LET batch == sync[d].table
  IN /\ sync[d].pc = "push"
     /\ Cardinality(IdsOf(batch)) <= MaxSyncChanges
     /\ rows' = RowsAfter(batch)
     /\ lastMicros' = ServerNow
     /\ sync' = [sync EXCEPT
          ![d].pc   = "ack",
          ![d].todo = {id \in IdsOf(batch) : Accepted(rows[id], batch[id])}]
     /\ UNCHANGED <<time, webCopy, deviceVars, editPut, syncPut, late, issued, used>>

\* ArrayMaxSize on the request body: HTTP 400, and sync() throws.
ServerRejectsBatch(d) ==
  /\ sync[d].pc = "push"
  /\ Cardinality(IdsOf(sync[d].table)) > MaxSyncChanges
  /\ sync' = [sync EXCEPT ![d] = Idle]
  /\ UNCHANGED <<time, serverVars, deviceVars, editPut, syncPut, late, issued, used>>

\* Clearing pending on whatever is there when the answer arrives.
SameClocksUnchecked(a, b) == TRUE

SameClocks(a, b) == a.clocks = b.clocks /\ a.deletedAt = b.deletedAt

\* One accepted id: re-read, and clear pending if nothing changed meanwhile.
Acknowledge(d, id) ==
  LET current == local[d][id]
  IN /\ sync[d].pc = "ack" /\ id \in sync[d].todo /\ syncPut[d] = None
     /\ IF current # None /\ SameClocks(current, sync[d].table[id])
        THEN /\ syncPut' = [syncPut EXCEPT ![d] = [id |-> id, record |-> current, pending |-> FALSE]]
             /\ UNCHANGED sync
        ELSE /\ sync' = [sync EXCEPT ![d].todo = @ \ {id}]
             /\ UNCHANGED syncPut
     /\ UNCHANGED <<time, serverVars, deviceVars, editPut, late, issued, used>>

FinishSync(d) ==
  /\ sync[d].pc = "ack" /\ sync[d].todo = {}
  /\ sync' = [sync EXCEPT ![d] = Idle]
  /\ UNCHANGED <<time, serverVars, deviceVars, editPut, syncPut, late, issued, used>>

---------------------------------------------------------------------------
(* Faults                                                                  *)

\* The request is gone, or is still on its way to the server.
Abandon(d) ==
  late' \in {late} \cup (IF sync[d].pc = "push" THEN {late \cup {sync[d].table}} ELSE {})

\* The 15 s abort, an unreachable server or an error status: sync() throws
\* and SyncService.runSync swallows the error.
RequestFails(d) ==
  /\ sync[d].pc \in {"pull", "push"}
  /\ Spend("timeouts", MaxTimeouts)
  /\ Abandon(d)
  /\ sync' = [sync EXCEPT ![d] = Idle]
  /\ UNCHANGED <<time, serverVars, deviceVars, editPut, syncPut, issued>>

\* The server handles a push nobody waits for any more.
LatePush(batch) ==
  /\ batch \in late
  /\ Cardinality(IdsOf(batch)) <= MaxSyncChanges
  /\ rows' = RowsAfter(batch)
  /\ lastMicros' = ServerNow
  /\ late' = late \ {batch}
  /\ UNCHANGED <<time, webCopy, deviceVars, editPut, syncPut, sync, issued, used>>

\* The app is killed and started again, with its wall clock past every
\* stamp it has issued.  SQLite survives, the memory of the engine does not.
Crash(d) ==
  /\ Spend("crashes", MaxCrashes)
  /\ Wall(d) > clockLast[d]
  /\ Abandon(d)
  /\ sync' = [sync EXCEPT ![d] = Idle]
  /\ editPut' = [editPut EXCEPT ![d] = None]
  /\ syncPut' = [syncPut EXCEPT ![d] = None]
  /\ clockLast' = [clockLast EXCEPT ![d] = 0]
  /\ UNCHANGED <<time, serverVars, local, pending, checkpoint, issued>>

---------------------------------------------------------------------------
(* The web client: cards.service.ts create, update, remove, each after     *)
(* asserting that the card and the list it goes to are in the organisation *)

WebCreate(id, value) ==
  /\ "create" \in WebOps /\ Spend("web", MaxWebOps)
  /\ \A f \in Field : <<f, value>> \notin Refused
  /\ rows[id] = None
  /\ (\A d \in Device : local[d][id] = None) /\ (\A w \in issued : w.id # id)
  /\ rows' = [rows EXCEPT ![id] =
       [InitialRecord(0) EXCEPT !.fields = [f \in Field |-> value]]]
  /\ UNCHANGED <<time, lastMicros, webCopy, deviceVars, editPut, syncPut, sync, late, issued>>

\* update, first transaction: assertCardInOrg loads the entity.
WebLoad(id) ==
  /\ "update" \in WebOps /\ Spend("web", MaxWebOps)
  /\ webCopy = None /\ rows[id] # None
  /\ webCopy' = [id |-> id, record |-> rows[id]]
  /\ UNCHANGED <<time, rows, lastMicros, deviceVars, editPut, syncPut, sync, late, issued>>

\* update, last transaction: save() writes every column that differs from
\* the loaded entity, the sync columns included, and stamps nothing.
WebSave(f, value) ==
  /\ webCopy # None
  /\ <<f, value>> \notin Refused
  /\ rows' = [rows EXCEPT ![webCopy.id] = [webCopy.record EXCEPT !.fields[f] = value]]
  /\ webCopy' = None
  /\ UNCHANGED <<time, lastMicros, deviceVars, editPut, syncPut, sync, late, issued, used>>

\* A hard delete: no tombstone is left behind.
WebRemove(id) ==
  /\ "remove" \in WebOps /\ Spend("web", MaxWebOps)
  /\ rows[id] # None
  /\ rows' = [rows EXCEPT ![id] = None]
  /\ UNCHANGED <<time, lastMicros, webCopy, deviceVars, editPut, syncPut, sync, late, issued>>

---------------------------------------------------------------------------
Edit(d) ==
  \/ \E id \in Id, value \in Value : Create(d, id, value)
  \/ \E id \in Id, patch \in Patch : Mutate(d, id, patch)
  \/ \E id \in Id : Remove(d, id)

\* Every step of a sync already under way, the server's part included.
SyncStep(d) ==
  \/ ServerPull(d)
  \/ \E id \in Id : ApplyRemote(d, id)
  \/ SyncPut(d)
  \/ SetCheckpoint(d)
  \/ ScanPending(d)
  \/ ServerPush(d)
  \/ ServerRejectsBatch(d)
  \/ \E id \in Id : Acknowledge(d, id)
  \/ FinishSync(d)

Web ==
  \/ \E id \in Id, value \in Value : WebCreate(id, value)
  \/ \E id \in Id : WebLoad(id)
  \/ \E f \in Field, value \in Value : WebSave(f, value)
  \/ \E id \in Id : WebRemove(id)

Next ==
  \/ Tick
  \/ \E d \in Device : Edit(d) \/ EditPut(d) \/ StartSync(d) \/ SyncStep(d)
                        \/ RequestFails(d) \/ Crash(d)
  \/ \E batch \in late : LatePush(batch)
  \/ Web

Spec == Init /\ [][Next]_vars

\* Connectivity comes back again and again, each time starting a sync, and
\* what a device or the server has begun it goes on with.
Fairness ==
  \A d \in Device : /\ WF_vars(StartSync(d))
                    /\ WF_vars(SyncStep(d))
                    /\ WF_vars(EditPut(d))

FairSpec == Spec /\ Fairness

---------------------------------------------------------------------------
(* Properties                                                              *)

\* The master row only climbs: no interleaving of pushes, retries and late
\* pushes makes it forget a newer write or a newer tombstone, and no sync
\* removes it (sync.service.ts:300-305).
ServerClimbs ==
  [][\A id \in Id : rows[id] # None => rows'[id] # None /\ Covers(rows'[id], rows[id])]_vars

\* No row of the organisation refers to a list or board outside it: not an
\* offline insert, not a merge in which the refused value would have won, not
\* a late push, not a web edit saved over either (sync.service.ts:594-626 and
\* the parent checks of tryInsert).
InOrg(record) == \A f \in Field : <<f, record.fields[f]>> \notin Refused

ParentsInOrg == \A id \in Id : rows[id] # None => InOrg(rows[id])

\* A device's own copy only climbs: neither a merge, nor an acknowledgement,
\* nor an edit loses a newer write it already holds.
LocalClimbs ==
  [][\A d \in Device, id \in Id : local[d][id] # None =>
       local'[d][id] # None /\ Covers(local'[d][id], local[d][id])]_vars

\* A record not flagged pending holds nothing the server lacks: pending is
\* never cleared, by an acknowledgement or by a pull, while an edit is still
\* to be pushed (ports.ts:18, SyncService.ts:183-185 and 228-232).
PendingCoversEdits ==
  \A d \in Device, id \in Id :
    local[d][id] # None /\ id \notin pending[d] =>
      rows[id] # None /\ Covers(rows[id], local[d][id])

\* The checkpoint moves only when every change of the reply it came with is
\* in the store, so a crash in the middle of a pull loses nothing
\* (SyncService.ts:166-168).
CheckpointAfterStore ==
  [][\A d \in Device : checkpoint'[d] # checkpoint[d] =>
       \A id \in IdsOf(sync[d].table) :
         local[d][id] # None /\ Covers(local[d][id], sync[d].table[id])]_vars

\* Clock and value of a register travel together: every register on the
\* server and on a device is one that somebody stamped, or the initial one.
Traced(id, record) ==
  /\ \A f \in Field :
       \/ record.clocks[f] \in {0, BaseStamp} /\ record.fields[f] = InitialValue
       \/ [id |-> id, register |-> f, clock |-> record.clocks[f],
           value |-> record.fields[f]] \in issued
  /\ \/ record.deletedAt = 0
     \/ [id |-> id, register |-> Tombstone, clock |-> record.deletedAt,
         value |-> NullRank] \in issued

NoInvention ==
  \A id \in Id :
    /\ rows[id] # None => Traced(id, rows[id])
    /\ \A d \in Device : local[d][id] # None => Traced(id, local[d][id])

\* Every edit reaches the server, however many requests are lost: what a
\* device has pending it goes on pushing until the master row holds it or
\* something newer.  And it is acknowledged in the end, unless an answer may
\* have been lost or the master is ahead of the copy, so that a push has
\* nothing to contribute (SyncService.ts:128-129 and 218-232,
\* sync.service.ts:363-368).
AnswerMayBeLost == used["timeouts"] > 0 \/ used["crashes"] > 0

EditsSettle ==
  \A d \in Device, id \in Id :
    id \in pending[d] ~>
      \/ id \notin pending[d]
      \/ /\ rows[id] # None /\ Covers(rows[id], local[d][id])
         /\ AnswerMayBeLost \/ ServerAhead(rows[id], local[d][id])

---------------------------------------------------------------------------
(* What the comments promise and the code does not keep: TLC refutes each  *)
(* under the constants the README names.                                   *)

\* An edit does not stay pending for ever once the device can reach the
\* server again and again (SyncService.ts:128-129).
PendingDrains ==
  \A d \in Device, id \in Id : id \in pending[d] ~> id \notin pending[d]

\* The same, unless a request was lost.
DrainsUnlessLost ==
  \A d \in Device, id \in Id :
    id \in pending[d] ~> id \notin pending[d] \/ used["timeouts"] > 0

\* "so the two replicas converge no matter which side edited which field, or
\* in what order the messages arrive" (SyncService.ts:45-46): a device and the
\* server come to show the same.
ReplicasMeet ==
  \A d \in Device, id \in Id :
    local[d][id] # None ~> rows[id] # None /\ SameContent(local[d][id], rows[id])

\* "Everything changed on the server since `sinceCheckpoint` (0 = full
\* pull)" (ports.ts:36): a reply leaves out no row the device is behind on.
PullDelivers ==
  [][\A d \in Device, id \in Id :
       sync[d].pc = "pull" /\ sync'[d].pc = "apply" /\ rows[id] # None =>
         \/ sync'[d].table[id] # None
         \/ local[d][id] # None /\ Covers(local[d][id], rows[id])]_vars

\* "so a concurrent edit isn't lost" (SyncService.ts:228-229): clearing
\* pending takes nothing back.
AcknowledgeKeepsEdits ==
  [][\A d \in Device, id \in Id :
       sync[d].pc = "ack" /\ syncPut[d] # None /\ syncPut'[d] = None /\ local[d][id] # None =>
         Covers(local'[d][id], local[d][id])]_vars

\* "so concurrent syncs (or a CRUD write) on the same record serialize
\* instead of racing read-modify-write and losing an update"
\* (sync.service.ts:300-302): a sync clock of the master never goes back.
ServerClocksClimb ==
  [][\A id \in Id : rows[id] # None /\ rows'[id] # None =>
       \A f \in Field : rows'[id].clocks[f] >= rows[id].clocks[f]]_vars
=============================================================================
