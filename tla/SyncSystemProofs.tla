-------------------------- MODULE SyncSystemProofs --------------------------
(***************************************************************************)
(* Theorems of SyncSystem for any number of devices, records, fields and   *)
(* values and with no bound on anything: the bounds only guard actions, so *)
(* a larger bound is another instance of the same theorem.                 *)
(***************************************************************************)
EXTENDS SyncSystem, LwwMergeProofs

---------------------------------------------------------------------------
(* Types of the operators                                                  *)

\* A record that starts out is a record.
LEMMA InitialRecordType ==
  ASSUME NEW stamp \in Nat
  PROVE  InitialRecord(stamp) \in Record
  BY SystemAssumption DEF InitialRecord, Record

\* HybridClock.now() and the server's nowMicros() give stamps.
LEMMA ClockTypes ==
  ASSUME TypeOK
  PROVE  ServerNow \in Nat /\ \A d \in Device : Now(d) \in Nat
<1>1. MicrosPerTick * time \in Nat
  BY SystemAssumption DEF TypeOK
<1>2. ServerNow \in Nat
  BY <1>1 DEF ServerNow, TypeOK
<1>3. ASSUME NEW d \in Device PROVE Now(d) \in Nat
  <2>1. Skew[d] \in Nat /\ clockLast[d] \in Nat
    BY SystemAssumption DEF TypeOK
  <2>2. Wall(d) \in Nat
    BY <1>1, <2>1 DEF Wall
  <2> QED
    BY <2>1, <2>2 DEF Now
<1> QED
  BY <1>2, <1>3

\* What the server keeps of a change is a record.
LEMMA SanitizeType ==
  ASSUME NEW change \in Record
  PROVE  Sanitize(change) \in Record
<1>1. NullRank \in Value
  BY ValueAssumption
<1> QED
  BY <1>1, RecordParts DEF Sanitize, Record

\* Merging a change into a row gives a row.
LEMMA MergedRowType ==
  ASSUME NEW row \in Record, NEW change \in Record
  PROVE  MergedRow(row, change) \in Record
<1> DEFINE merged == ServerMerged(row, Sanitize(change))
           kept   == [f \in Field |-> IF f \in Dropped(change) THEN row.fields[f]
                                      ELSE merged.fields[f]]
<1>1. merged \in Record
  BY SanitizeType, MergeType
<1>2. MergedRow(row, change) = [merged EXCEPT !.fields = kept]
  BY DEF MergedRow
<1> HIDE DEF merged
<1>3. kept \in [Field -> Value]
  BY <1>1, RecordParts
<1> HIDE DEF kept
<1> QED
  BY <1>1, <1>2, <1>3 DEF Record

\* A pushed change leaves a row, or no row, behind.
LEMMA RowAfterType ==
  ASSUME NEW row \in Record \cup {None}, NEW change \in Record
  PROVE  RowAfter(row, change) \in Record \cup {None}
<1>1. CASE row = None
  BY <1>1 DEF RowAfter
<1>2. CASE row # None
  BY <1>2, MergedRowType DEF RowAfter
<1> QED
  BY <1>1, <1>2

\* A handled push leaves a table behind.
LEMMA RowsAfterType ==
  ASSUME TypeOK, NEW batch \in Table
  PROVE  RowsAfter(batch) \in Table
<1>1. ASSUME NEW id \in Id
      PROVE  (IF batch[id] = None THEN rows[id] ELSE RowAfter(rows[id], batch[id]))
               \in Record \cup {None}
  <2>1. rows[id] \in Record \cup {None} /\ batch[id] \in Record \cup {None}
    BY DEF TypeOK, Table
  <2>2. CASE batch[id] = None
    BY <2>1, <2>2
  <2>3. CASE batch[id] # None
    BY <2>1, <2>3, RowAfterType
  <2> QED
    BY <2>2, <2>3
<1> QED
  BY <1>1 DEF RowsAfter, Table

\* The idle engine is in a state an engine may be in.
LEMMA IdleType == Idle \in SyncState /\ EmptyTable \in Table
  BY DEF Idle, SyncState, SyncStates, EmptyTable, Table

\* Using up part of a bound.
LEMMA SpendType ==
  ASSUME TypeOK, NEW b \in Bound, NEW max, Spend(b, max)
  PROVE  used' \in [Bound -> Nat]
  BY DEF Spend, TypeOK

\* An abandoned push is a batch.
LEMMA AbandonType ==
  ASSUME TypeOK, NEW d \in Device, Abandon(d)
  PROVE  late' \subseteq Table
<1>1. sync[d].table \in Table
  BY DEF TypeOK, SyncState, SyncStates
<1> QED
  BY <1>1 DEF Abandon, TypeOK

---------------------------------------------------------------------------
(* Type correctness                                                        *)

LEMMA InitType == Init => TypeOK
<1> SUFFICES ASSUME Init PROVE TypeOK
  OBVIOUS
<1>1. InitialRecord(0) \in Record /\ InitialRecord(BaseStamp) \in Record
  BY InitialRecordType DEF BaseStamp
<1>2. SharedTable \in Table
  BY <1>1 DEF SharedTable, Table
<1>3. rows \in Table
  BY <1>1, <1>2 DEF Init, Table
<1>4. BaseStamp \in Nat
  BY DEF BaseStamp
<1>5. checkpoint \in [Device -> Nat]
  BY <1>4 DEF Init
<1> QED
  BY <1>2, <1>3, <1>4, <1>5, IdleType DEF Init, TypeOK

\* The editor keeps the types.
LEMMA EditorType ==
  ASSUME TypeOK, NEW d \in Device, Edit(d) \/ EditPut(d)
  PROVE  TypeOK'
<1>1. Now(d) \in Nat /\ d \in Nat
  BY ClockTypes, SystemAssumption
<1>2. ASSUME NEW id \in Id, NEW value \in Value, Create(d, id, value)
      PROVE  TypeOK'
  <2> DEFINE new == [fields    |-> [f \in Field |-> value],
                     clocks    |-> [f \in Field |-> Now(d)],
                     nodeId    |-> d,
                     deletedAt |-> 0]
  <2>1. new \in Record
    BY <1>1 DEF Record
  <2>2. local' = [local EXCEPT ![d][id] = new]
    BY <1>2 DEF Create
  <2> HIDE DEF new
  <2>3. local' \in [Device -> Table]
    BY <2>1, <2>2 DEF TypeOK, Table
  <2>4. issued' \subseteq Write
    BY <1>1, <1>2 DEF Create, TypeOK, Write
  <2>5. used' \in [Bound -> Nat]
    BY <1>2, SpendType DEF Create, MayEdit, Bound
  <2>6. pending' \in [Device -> SUBSET Id] /\ clockLast' \in [Device -> Nat]
    BY <1>1, <1>2 DEF Create, TypeOK
  <2> QED
    BY <1>2, <2>3, <2>4, <2>5, <2>6 DEF Create, TypeOK, serverVars
<1>3. ASSUME NEW id \in Id, NEW patch \in Patch, Mutate(d, id, patch)
      PROVE  TypeOK'
  <2> DEFINE existing == local[d][id]
             new == [fields    |-> [f \in Field |-> IF f \in DOMAIN patch THEN patch[f]
                                                    ELSE existing.fields[f]],
                     clocks    |-> [f \in Field |-> IF f \in DOMAIN patch THEN Now(d)
                                                    ELSE existing.clocks[f]],
                     nodeId    |-> d,
                     deletedAt |-> existing.deletedAt]
  <2>1. existing \in Record
    BY <1>3 DEF Mutate, TypeOK, Table
  <2>2. DOMAIN patch \subseteq Field /\ \A f \in DOMAIN patch : patch[f] \in Value
    BY SystemAssumption
  <2>3. /\ [f \in Field |-> IF f \in DOMAIN patch THEN patch[f] ELSE existing.fields[f]]
             \in [Field -> Value]
        /\ [f \in Field |-> IF f \in DOMAIN patch THEN Now(d) ELSE existing.clocks[f]]
             \in [Field -> Nat]
        /\ existing.deletedAt \in Nat
    BY <1>1, <2>1, <2>2, RecordParts
  <2>4. new \in Record
    BY <1>1, <2>3 DEF Record
  <2>5. editPut' = [editPut EXCEPT ![d] = [id |-> id, record |-> new]]
    BY <1>3 DEF Mutate
  <2> HIDE DEF new
  <2>6. editPut' \in [Device -> [id : Id, record : Record] \cup {None}]
    BY <2>4, <2>5 DEF TypeOK
  <2>7. issued' \subseteq Write
    BY <1>1, <1>3, <2>2 DEF Mutate, TypeOK, Write
  <2>8. used' \in [Bound -> Nat]
    BY <1>3, SpendType DEF Mutate, MayEdit, Bound
  <2>9. clockLast' \in [Device -> Nat]
    BY <1>1, <1>3 DEF Mutate, TypeOK
  <2> QED
    BY <1>3, <2>6, <2>7, <2>8, <2>9 DEF Mutate, TypeOK, serverVars
<1>4. ASSUME NEW id \in Id, Remove(d, id)
      PROVE  TypeOK'
  <2> DEFINE new == [local[d][id] EXCEPT !.deletedAt = Now(d), !.nodeId = d]
  <2>1. local[d][id] \in Record
    BY <1>4 DEF Remove, TypeOK, Table
  <2>2. new \in Record
    BY <1>1, <2>1 DEF Record
  <2>3. editPut' = [editPut EXCEPT ![d] = [id |-> id, record |-> new]]
    BY <1>4 DEF Remove
  <2> HIDE DEF new
  <2>4. editPut' \in [Device -> [id : Id, record : Record] \cup {None}]
    BY <2>2, <2>3 DEF TypeOK
  <2>5. issued' \subseteq Write
    BY <1>1, <1>4, ValueAssumption DEF Remove, TypeOK, Write
  <2>6. used' \in [Bound -> Nat]
    BY <1>4, SpendType DEF Remove, MayEdit, Bound
  <2>7. clockLast' \in [Device -> Nat]
    BY <1>1, <1>4 DEF Remove, TypeOK
  <2> QED
    BY <1>4, <2>4, <2>5, <2>6, <2>7 DEF Remove, TypeOK, serverVars
<1>5. ASSUME EditPut(d)
      PROVE  TypeOK'
  <2>1. editPut[d] \in [id : Id, record : Record]
    BY <1>5 DEF EditPut, TypeOK
  <2>2. local' \in [Device -> Table]
    BY <1>5, <2>1 DEF EditPut, TypeOK, Table
  <2>3. pending' \in [Device -> SUBSET Id]
    BY <1>5, <2>1 DEF EditPut, TypeOK
  <2>4. editPut' \in [Device -> [id : Id, record : Record] \cup {None}]
    BY <1>5 DEF EditPut, TypeOK
  <2> QED
    BY <1>5, <2>2, <2>3, <2>4 DEF EditPut, TypeOK, serverVars
<1> QED
  BY <1>2, <1>3, <1>4, <1>5 DEF Edit

\* Replacing the state of one engine by a legal one keeps the types.
LEMMA SyncUpdate ==
  ASSUME TypeOK, NEW d \in Device, NEW s \in SyncState
  PROVE  [sync EXCEPT ![d] = s] \in [Device -> SyncState]
  BY DEF TypeOK

\* Crossing ids off what is still to be worked through.
LEMMA CrossOff ==
  ASSUME TypeOK, NEW d \in Device, NEW ids
  PROVE  [sync EXCEPT ![d].todo = @ \ ids] \in [Device -> SyncState]
<1>1. sync[d] \in SyncState
  BY DEF TypeOK
<1>2. [sync[d] EXCEPT !.todo = @ \ ids] \in SyncState
  BY <1>1 DEF SyncState, SyncStates, IdsOf
<1> QED
  BY <1>2, SyncUpdate

\* The first half of a sync, pullAndMerge, keeps the types.
LEMMA PullType ==
  ASSUME TypeOK, NEW d \in Device,
         \/ StartSync(d) \/ ServerPull(d) \/ SyncPut(d) \/ SetCheckpoint(d)
         \/ \E id \in Id : ApplyRemote(d, id)
  PROVE  TypeOK'
<1>0. /\ ServerNow \in Nat
      /\ sync[d].table \in Table
      /\ sync[d].cursor \in Nat
      /\ sync[d].todo \subseteq IdsOf(sync[d].table)
      /\ Idle \in SyncState
  BY ClockTypes, IdleType DEF TypeOK, SyncState, SyncStates
<1>1. CASE StartSync(d)
  <2>1. checkpoint[d] \in Nat
    BY DEF TypeOK
  <2>2. [Idle EXCEPT !.pc = "pull", !.cursor = checkpoint[d]] \in SyncState
    BY <1>0, <2>1 DEF SyncState, SyncStates, Idle, IdsOf
  <2>3. sync' \in [Device -> SyncState]
    BY <1>1, <2>2, SyncUpdate DEF StartSync
  <2> QED
    BY <1>1, <2>3 DEF StartSync, TypeOK, serverVars, deviceVars
<1>2. CASE ServerPull(d)
  <2> DEFINE ids == DeltaIds(sync[d].cursor)
             changes == [id \in Id |-> IF id \in ids THEN rows[id] ELSE None]
             reply == [pc |-> "apply", cursor |-> ServerNow, table |-> changes, todo |-> ids]
  <2>1. ids \subseteq IdsOf(rows)
    BY DEF DeltaIds, FirstIds
  <2>2. changes \in Table /\ ids \subseteq IdsOf(changes) /\ ids \subseteq Id
    BY <2>1 DEF TypeOK, Table, IdsOf
  <2>3. sync' = [sync EXCEPT ![d] = reply]
    BY <1>2 DEF ServerPull
  <2> HIDE DEF ids, changes
  <2>4. reply \in SyncState
    BY <1>0, <2>2 DEF SyncState, SyncStates
  <2>5. sync' \in [Device -> SyncState]
    BY <2>3, <2>4, SyncUpdate
  <2> QED
    BY <1>0, <1>2, <2>5 DEF ServerPull, TypeOK, deviceVars
<1>3. ASSUME NEW id \in Id, ApplyRemote(d, id)
      PROVE  TypeOK'
  <2> DEFINE mine   == local[d][id]
             remote == sync[d].table[id]
             put(record, flag) == [id |-> id, record |-> record, pending |-> flag]
             stillPending == id \in pending[d] /\ LocalIsAhead(mine, remote)
  <2>1. mine \in Record \cup {None} /\ remote \in Record
    BY <1>0, <1>3 DEF ApplyRemote, TypeOK, Table, IdsOf
  <2>2. mine # None => MergeRecord(mine, remote) \in Record
    BY <2>1, MergeType
  <2>3. stillPending \in BOOLEAN
    BY DEF LocalIsAhead
  <2> DEFINE Puts == [id : Id, record : Record, pending : BOOLEAN]
  <2>4. syncPut' = syncPut \/ \E w \in Puts : syncPut' = [syncPut EXCEPT ![d] = w]
    <3>1. put(remote, FALSE) \in Puts
      BY <2>1
    <3>2. mine # None => put(MergeRecord(mine, remote), stillPending) \in Puts
      BY <2>2, <2>3
    <3>3. \/ syncPut' = syncPut
          \/ syncPut' = [syncPut EXCEPT ![d] = put(remote, FALSE)]
          \/ /\ mine # None
             /\ syncPut' = [syncPut EXCEPT ![d] = put(MergeRecord(mine, remote), stillPending)]
      BY <1>3 DEF ApplyRemote
    <3> HIDE DEF put, Puts, mine, remote, stillPending
    <3> QED
      BY <3>1, <3>2, <3>3
  <2>5. syncPut' \in [Device -> Puts \cup {None}]
    <3> HIDE DEF Puts
    <3>1. syncPut \in [Device -> Puts \cup {None}]
      BY DEF TypeOK, Puts
    <3> QED
      BY <2>4, <3>1
  <2>6. sync' = sync \/ sync' = [sync EXCEPT ![d].todo = @ \ {id}]
    BY <1>3 DEF ApplyRemote
  <2>7. [sync EXCEPT ![d].todo = @ \ {id}] \in [Device -> SyncState]
    BY CrossOff
  <2>8. sync' \in [Device -> SyncState]
    BY <2>6, <2>7 DEF TypeOK
  <2> QED
    BY <1>3, <2>5, <2>8 DEF ApplyRemote, TypeOK, serverVars, deviceVars
<1>4. CASE SyncPut(d)
  <2>1. syncPut[d] \in [id : Id, record : Record, pending : BOOLEAN]
    BY <1>4 DEF SyncPut, TypeOK
  <2>2. local' \in [Device -> Table]
    BY <1>4, <2>1 DEF SyncPut, TypeOK, Table
  <2>3. pending' \in [Device -> SUBSET Id]
    BY <1>4, <2>1 DEF SyncPut, TypeOK
  <2>4. syncPut' \in [Device -> [id : Id, record : Record, pending : BOOLEAN] \cup {None}]
    BY <1>4 DEF SyncPut, TypeOK
  <2>5. sync' \in [Device -> SyncState]
    BY <1>4, CrossOff DEF SyncPut
  <2> QED
    BY <1>4, <2>2, <2>3, <2>4, <2>5 DEF SyncPut, TypeOK, serverVars
<1>5. CASE SetCheckpoint(d)
  <2>1. checkpoint' \in [Device -> Nat]
    BY <1>0, <1>5 DEF SetCheckpoint, TypeOK
  <2>2. [Idle EXCEPT !.pc = "scan"] \in SyncState
    BY <1>0 DEF SyncState, SyncStates, Idle, IdsOf
  <2>3. sync' \in [Device -> SyncState]
    BY <1>5, <2>2, SyncUpdate DEF SetCheckpoint
  <2> QED
    BY <1>5, <2>1, <2>3 DEF SetCheckpoint, TypeOK, serverVars
<1> QED
  BY <1>1, <1>2, <1>3, <1>4, <1>5

\* The second half of a sync, pushPending, keeps the types.
LEMMA PushType ==
  ASSUME TypeOK, NEW d \in Device,
         \/ ScanPending(d) \/ ServerPush(d) \/ ServerRejectsBatch(d) \/ FinishSync(d)
         \/ \E id \in Id : Acknowledge(d, id)
  PROVE  TypeOK'
<1>0. /\ ServerNow \in Nat
      /\ sync[d] \in SyncState
      /\ sync[d].table \in Table
      /\ Idle \in SyncState
  BY ClockTypes, IdleType DEF TypeOK, SyncState, SyncStates
<1>1. CASE ScanPending(d)
  <2> DEFINE batch == [id \in Id |-> IF id \in pending[d] THEN local[d][id] ELSE None]
  <2>1. batch \in Table
    BY DEF TypeOK, Table
  <2> HIDE DEF batch
  <2>2. [Idle EXCEPT !.pc = "push", !.table = batch] \in SyncState
    BY <1>0, <2>1 DEF SyncState, SyncStates, Idle, IdsOf
  <2>3. \/ sync' = [sync EXCEPT ![d] = Idle]
        \/ sync' = [sync EXCEPT ![d] = [Idle EXCEPT !.pc = "push", !.table = batch]]
    BY <1>1 DEF ScanPending, batch
  <2>4. sync' \in [Device -> SyncState]
    BY <1>0, <2>2, <2>3, SyncUpdate
  <2> QED
    BY <1>1, <2>4 DEF ScanPending, TypeOK, serverVars, deviceVars
<1>2. CASE ServerPush(d)
  <2> DEFINE taken == {id \in IdsOf(sync[d].table) : Accepted(rows[id], sync[d].table[id])}
  <2>1. taken \subseteq IdsOf(sync[d].table) /\ taken \subseteq Id
    BY DEF IdsOf
  <2>2. sync' = [sync EXCEPT ![d] = [sync[d] EXCEPT !.pc = "ack", !.todo = taken]]
    BY <1>2 DEF ServerPush, TypeOK
  <2> HIDE DEF taken
  <2>3. [sync[d] EXCEPT !.pc = "ack", !.todo = taken] \in SyncState
    BY <1>0, <2>1 DEF SyncState, SyncStates
  <2>4. sync' \in [Device -> SyncState]
    BY <2>2, <2>3, SyncUpdate
  <2>5. rows' \in Table
    BY <1>0, <1>2, RowsAfterType DEF ServerPush
  <2> QED
    BY <1>0, <1>2, <2>4, <2>5 DEF ServerPush, TypeOK, deviceVars
<1>3. CASE ServerRejectsBatch(d)
  <2>1. sync' \in [Device -> SyncState]
    BY <1>0, <1>3, SyncUpdate DEF ServerRejectsBatch
  <2> QED
    BY <1>3, <2>1 DEF ServerRejectsBatch, TypeOK, serverVars, deviceVars
<1>4. ASSUME NEW id \in Id, Acknowledge(d, id)
      PROVE  TypeOK'
  <2> DEFINE Puts  == [id : Id, record : Record, pending : BOOLEAN]
             clear == [id |-> id, record |-> local[d][id], pending |-> FALSE]
  <2>1. syncPut' = syncPut \/ (local[d][id] # None /\ syncPut' = [syncPut EXCEPT ![d] = clear])
    BY <1>4 DEF Acknowledge
  <2>2. local[d][id] # None => clear \in Puts
    BY DEF TypeOK, Table
  <2>3. syncPut' \in [Device -> Puts \cup {None}]
    <3> HIDE DEF Puts, clear
    <3>1. syncPut \in [Device -> Puts \cup {None}]
      BY DEF TypeOK, Puts
    <3> QED
      BY <2>1, <2>2, <3>1
  <2>4. sync' = sync \/ sync' = [sync EXCEPT ![d].todo = @ \ {id}]
    BY <1>4 DEF Acknowledge
  <2>5. [sync EXCEPT ![d].todo = @ \ {id}] \in [Device -> SyncState]
    BY CrossOff
  <2>6. sync' \in [Device -> SyncState]
    BY <2>4, <2>5 DEF TypeOK
  <2> QED
    BY <1>4, <2>3, <2>6 DEF Acknowledge, TypeOK, serverVars, deviceVars
<1>5. CASE FinishSync(d)
  <2>1. sync' \in [Device -> SyncState]
    BY <1>0, <1>5, SyncUpdate DEF FinishSync
  <2> QED
    BY <1>5, <2>1 DEF FinishSync, TypeOK, serverVars, deviceVars
<1> QED
  BY <1>1, <1>2, <1>3, <1>4, <1>5

\* Failed requests, late pushes and crashes keep the types.
LEMMA FaultType ==
  ASSUME TypeOK,
         \/ \E d \in Device : RequestFails(d) \/ Crash(d)
         \/ \E batch \in late : LatePush(batch)
  PROVE  TypeOK'
<1>1. ASSUME NEW d \in Device, RequestFails(d)
      PROVE  TypeOK'
  <2>1. sync' \in [Device -> SyncState]
    BY <1>1, IdleType, SyncUpdate DEF RequestFails
  <2>2. late' \subseteq Table
    BY <1>1, AbandonType DEF RequestFails
  <2>3. used' \in [Bound -> Nat]
    BY <1>1, SpendType DEF RequestFails, Bound
  <2> QED
    BY <1>1, <2>1, <2>2, <2>3 DEF RequestFails, TypeOK, serverVars, deviceVars
<1>2. ASSUME NEW d \in Device, Crash(d)
      PROVE  TypeOK'
  <2>1. sync' \in [Device -> SyncState]
    BY <1>2, IdleType, SyncUpdate DEF Crash
  <2>2. late' \subseteq Table
    BY <1>2, AbandonType DEF Crash
  <2>3. used' \in [Bound -> Nat]
    BY <1>2, SpendType DEF Crash, Bound
  <2>4. /\ editPut' \in [Device -> [id : Id, record : Record] \cup {None}]
        /\ syncPut' \in [Device -> [id : Id, record : Record, pending : BOOLEAN] \cup {None}]
        /\ clockLast' \in [Device -> Nat]
    BY <1>2 DEF Crash, TypeOK
  <2> QED
    BY <1>2, <2>1, <2>2, <2>3, <2>4 DEF Crash, TypeOK, serverVars
<1>3. ASSUME NEW batch \in late, LatePush(batch)
      PROVE  TypeOK'
  <2>1. batch \in Table
    BY DEF TypeOK
  <2>2. rows' \in Table
    BY <1>3, <2>1, RowsAfterType DEF LatePush
  <2>3. lastMicros' \in Nat
    BY <1>3, ClockTypes DEF LatePush
  <2> QED
    BY <1>3, <2>2, <2>3 DEF LatePush, TypeOK, deviceVars
<1> QED
  BY <1>1, <1>2, <1>3

\* The web client keeps the types.
LEMMA WebType ==
  ASSUME TypeOK, Web
  PROVE  TypeOK'
<1>1. ASSUME NEW id \in Id, NEW value \in Value, WebCreate(id, value)
      PROVE  TypeOK'
  <2>1. [InitialRecord(0) EXCEPT !.fields = [f \in Field |-> value]] \in Record
    BY InitialRecordType DEF Record
  <2>2. rows' \in Table
    BY <1>1, <2>1 DEF WebCreate, TypeOK, Table
  <2>3. used' \in [Bound -> Nat]
    BY <1>1, SpendType DEF WebCreate, Bound
  <2> QED
    BY <1>1, <2>2, <2>3 DEF WebCreate, TypeOK, deviceVars
<1>2. ASSUME NEW id \in Id, WebLoad(id)
      PROVE  TypeOK'
  <2>1. rows[id] \in Record
    BY <1>2 DEF WebLoad, TypeOK, Table
  <2>2. webCopy' \in [id : Id, record : Record] \cup {None}
    BY <1>2, <2>1 DEF WebLoad
  <2>3. used' \in [Bound -> Nat]
    BY <1>2, SpendType DEF WebLoad, Bound
  <2> QED
    BY <1>2, <2>2, <2>3 DEF WebLoad, TypeOK, deviceVars
<1>3. ASSUME NEW f \in Field, NEW value \in Value, WebSave(f, value)
      PROVE  TypeOK'
  <2>1. webCopy \in [id : Id, record : Record]
    BY <1>3 DEF WebSave, TypeOK
  <2>2. [webCopy.record EXCEPT !.fields[f] = value] \in Record
    BY <2>1 DEF Record
  <2>3. rows' \in Table
    BY <1>3, <2>1, <2>2 DEF WebSave, TypeOK, Table
  <2> QED
    BY <1>3, <2>3 DEF WebSave, TypeOK, deviceVars
<1>4. ASSUME NEW id \in Id, WebRemove(id)
      PROVE  TypeOK'
  <2>1. rows' \in Table
    BY <1>4 DEF WebRemove, TypeOK, Table
  <2>2. used' \in [Bound -> Nat]
    BY <1>4, SpendType DEF WebRemove, Bound
  <2> QED
    BY <1>4, <2>1, <2>2 DEF WebRemove, TypeOK, deviceVars
<1> QED
  BY <1>1, <1>2, <1>3, <1>4 DEF Web

\* Every step keeps the types.
LEMMA NextType == TypeOK /\ [Next]_vars => TypeOK'
<1> SUFFICES ASSUME TypeOK, [Next]_vars PROVE TypeOK'
  OBVIOUS
<1>1. CASE Tick
  BY <1>1 DEF Tick, TypeOK, serverVars, deviceVars
<1>2. ASSUME NEW d \in Device, Edit(d) \/ EditPut(d)
      PROVE  TypeOK'
  BY <1>2, EditorType
<1>3. ASSUME NEW d \in Device, StartSync(d) \/ SyncStep(d)
      PROVE  TypeOK'
  BY <1>3, PullType, PushType DEF SyncStep
<1>4. ASSUME NEW d \in Device, RequestFails(d) \/ Crash(d)
      PROVE  TypeOK'
  BY <1>4, FaultType
<1>5. ASSUME NEW batch \in late, LatePush(batch)
      PROVE  TypeOK'
  BY <1>5, FaultType
<1>6. CASE Web
  BY <1>6, WebType
<1>7. CASE UNCHANGED vars
  BY <1>7 DEF vars, TypeOK
<1> QED
  BY <1>1, <1>2, <1>3, <1>4, <1>5, <1>6, <1>7 DEF Next

\* In every behaviour every variable has its type; a record on its way to a
\* store is a whole record, and the sync engine works only through changes
\* that were replied, or records that were pushed.
THEOREM TypeCorrect == Spec => []TypeOK
  BY InitType, NextType, PTL DEF Spec

---------------------------------------------------------------------------
(* The master row only climbs                                              *)

\* A merge with a sanitised change takes nothing from the row: a field whose
\* value was refused keeps its value, and its clock does not move.
LEMMA MergedRowCovers ==
  ASSUME NEW row \in Record, NEW change \in Record
  PROVE  Covers(MergedRow(row, change), row)
<1> DEFINE client == Sanitize(change)
           merged == ServerMerged(row, client)
<1>1. client \in Record
  BY SanitizeType
<1>2. merged \in Record /\ Covers(merged, row)
  BY <1>1, MergeType, MergeCovers
<1>3. /\ MergedRow(row, change).clocks = merged.clocks
      /\ MergedRow(row, change).deletedAt = merged.deletedAt
      /\ \A f \in Field : MergedRow(row, change).fields[f] =
           IF f \in Dropped(change) THEN row.fields[f] ELSE merged.fields[f]
  <2>1. merged.fields \in [Field -> Value]
    BY <1>2, RecordParts
  <2>2. DOMAIN merged = {"fields", "clocks", "nodeId", "deletedAt"}
    BY DEF ServerMerged
  <2> HIDE DEF merged
  <2>3. MergedRow(row, change) = [merged EXCEPT !.fields =
          [f \in Field |-> IF f \in Dropped(change) THEN row.fields[f] ELSE merged.fields[f]]]
    BY DEF MergedRow, merged
  <2> QED
    BY <1>2, <2>3 DEF Record
<1>4. ASSUME NEW f \in Field
      PROVE  AtLeast(MergedRow(row, change).clocks[f], MergedRow(row, change).fields[f],
                     row.clocks[f], row.fields[f])
  <2>1. AtLeast(merged.clocks[f], merged.fields[f], row.clocks[f], row.fields[f])
    BY <1>2 DEF Covers
  <2>2. /\ merged.clocks[f] \in Nat /\ merged.fields[f] \in Nat
        /\ row.clocks[f] \in Nat /\ row.fields[f] \in Nat
    BY <1>2, RecordParts
  <2> HIDE DEF merged
  <2> QED
    BY <1>3, <2>1, <2>2 DEF AtLeast
<1> HIDE DEF merged
<1> QED
  BY <1>2, <1>3, <1>4 DEF Covers

\* A handled push, prompt or late, takes nothing from any row.
LEMMA PushClimbs ==
  ASSUME TypeOK, NEW batch \in Table, NEW id \in Id, rows[id] # None
  PROVE  RowsAfter(batch)[id] # None /\ Covers(RowsAfter(batch)[id], rows[id])
<1>1. rows[id] \in Record
  BY DEF TypeOK, Table
<1>2. Covers(rows[id], rows[id])
  BY <1>1, CoversOrder
<1>3. CASE batch[id] = None
  BY <1>2, <1>3 DEF RowsAfter
<1>4. CASE batch[id] # None
  <2>1. batch[id] \in Record
    BY <1>4 DEF Table
  <2>2. RowsAfter(batch)[id] = RowAfter(rows[id], batch[id])
    BY <1>4 DEF RowsAfter
  <2>3. RowAfter(rows[id], batch[id]) \in {rows[id], MergedRow(rows[id], batch[id])}
    BY DEF RowAfter
  <2>4. MergedRow(rows[id], batch[id]) # None
    BY <1>1, <2>1, MergedRowType, SystemAssumption
  <2>5. Covers(MergedRow(rows[id], batch[id]), rows[id])
    BY <1>1, <2>1, MergedRowCovers
  <2> QED
    BY <1>2, <2>2, <2>3, <2>4, <2>5
<1> QED
  BY <1>3, <1>4

\* Without web edits nothing is ever loaded by the web client.
LEMMA NoWebCopy ==
  ASSUME WebOps = {}
  PROVE  Spec => [](webCopy = None)
<1>1. Init => webCopy = None
  BY DEF Init
<1>2. webCopy = None /\ [Next]_vars => (webCopy = None)'
  <2> SUFFICES ASSUME webCopy = None, [Next]_vars PROVE webCopy' = None
    OBVIOUS
  <2> USE DEF serverVars, deviceVars
  <2>1. CASE Tick
    BY <2>1 DEF Tick
  <2>2. ASSUME NEW d \in Device, Edit(d) \/ EditPut(d) PROVE webCopy' = None
    BY <2>2 DEF Edit, Create, Mutate, Remove, EditPut
  <2>3. ASSUME NEW d \in Device, StartSync(d) \/ SyncStep(d) PROVE webCopy' = None
    BY <2>3 DEF StartSync, SyncStep, ServerPull, ApplyRemote, SyncPut, SetCheckpoint,
                ScanPending, ServerPush, ServerRejectsBatch, Acknowledge, FinishSync
  <2>4. ASSUME NEW d \in Device, RequestFails(d) \/ Crash(d) PROVE webCopy' = None
    BY <2>4 DEF RequestFails, Crash
  <2>5. ASSUME NEW batch \in late, LatePush(batch) PROVE webCopy' = None
    BY <2>5 DEF LatePush
  <2>6. CASE Web
    BY <2>6 DEF Web, WebCreate, WebLoad, WebSave, WebRemove
  <2>7. CASE UNCHANGED vars
    BY <2>7 DEF vars
  <2> QED
    BY <2>1, <2>2, <2>3, <2>4, <2>5, <2>6, <2>7 DEF Next
<1> QED
  BY <1>1, <1>2, PTL DEF Spec

\* As long as only devices write, no interleaving of pushes, retries, late
\* pushes, crashes and skewed clocks makes a master row lose a newer write
\* or tombstone, and none removes it (ServerClimbs, for every instance).
THEOREM MasterClimbs ==
  ASSUME WebOps = {}
  PROVE  Spec => ServerClimbs
<1> DEFINE Climbs == \A id \in Id : rows[id] # None =>
                       rows'[id] # None /\ Covers(rows'[id], rows[id])
<1>1. TypeOK /\ webCopy = None /\ [Next]_vars => [Climbs]_vars
  <2> SUFFICES ASSUME TypeOK, webCopy = None, [Next]_vars PROVE [Climbs]_vars
    OBVIOUS
  <2> USE DEF serverVars, deviceVars
  <2>1. ASSUME rows' = rows PROVE Climbs
    <3> SUFFICES ASSUME NEW id \in Id, rows[id] # None
                 PROVE  Covers(rows[id], rows[id])
      BY <2>1
    <3>1. rows[id] \in Record
      BY DEF TypeOK, Table
    <3> QED
      BY <3>1, CoversOrder
  <2>2. ASSUME NEW batch \in Table, rows' = RowsAfter(batch) PROVE Climbs
    BY <2>2, PushClimbs
  <2> HIDE DEF Climbs
  <2>3. CASE Tick
    BY <2>1, <2>3 DEF Tick
  <2>4. ASSUME NEW d \in Device, Edit(d) \/ EditPut(d) PROVE Climbs
    BY <2>1, <2>4 DEF Edit, Create, Mutate, Remove, EditPut
  <2>5. ASSUME NEW d \in Device, ServerPush(d) PROVE Climbs
    <3>1. sync[d].table \in Table
      BY DEF TypeOK, SyncState, SyncStates
    <3> QED
      BY <2>2, <2>5, <3>1 DEF ServerPush
  <2>6. ASSUME NEW d \in Device, StartSync(d) \/ SyncStep(d), ~ServerPush(d) PROVE Climbs
    BY <2>1, <2>6 DEF StartSync, SyncStep, ServerPull, ApplyRemote, SyncPut, SetCheckpoint,
                      ScanPending, ServerRejectsBatch, Acknowledge, FinishSync
  <2>7. ASSUME NEW d \in Device, RequestFails(d) \/ Crash(d) PROVE Climbs
    BY <2>1, <2>7 DEF RequestFails, Crash
  <2>8. ASSUME NEW batch \in late, LatePush(batch) PROVE Climbs
    <3>1. batch \in Table
      BY DEF TypeOK
    <3> QED
      BY <2>2, <2>8, <3>1 DEF LatePush
  <2>9. ~Web
    BY DEF Web, WebCreate, WebLoad, WebSave, WebRemove
  <2>10. CASE UNCHANGED vars
    BY <2>10 DEF vars
  <2> QED
    BY <2>3, <2>4, <2>5, <2>6, <2>7, <2>8, <2>9, <2>10 DEF Next
<1> QED
  BY <1>1, TypeCorrect, NoWebCopy, PTL DEF Spec, ServerClimbs

---------------------------------------------------------------------------
(* No reference leaves the organisation                                    *)

\* The web client's copy was a row, and a later save keeps what it loaded.
CopyInOrg == webCopy # None => InOrg(webCopy.record)

\* What a start is made of refers to nothing outside.
LEMMA InitialInOrg ==
  ASSUME NEW stamp \in Nat
  PROVE  InOrg(InitialRecord(stamp))
  BY SystemAssumption DEF InOrg, InitialRecord

\* A merged row takes a field from the row, or from the change if the field
\* was not refused.
LEMMA MergedRowInOrg ==
  ASSUME NEW row \in Record, NEW change \in Record, InOrg(row)
  PROVE  InOrg(MergedRow(row, change))
<1> DEFINE merged == ServerMerged(row, Sanitize(change))
           kept   == [f \in Field |-> IF f \in Dropped(change) THEN row.fields[f]
                                      ELSE merged.fields[f]]
<1>1. merged.fields = [f \in Field |-> IF ClientWins(row, Sanitize(change), f)
                                       THEN Sanitize(change).fields[f] ELSE row.fields[f]]
  BY DEF ServerMerged
<1>2. ASSUME NEW f \in Field, f \notin Dropped(change)
      PROVE  merged.fields[f] \in {row.fields[f], change.fields[f]}
  <2>1. Sanitize(change).fields[f] = change.fields[f]
    BY <1>2 DEF Sanitize
  <2> HIDE DEF merged
  <2> QED
    BY <1>1, <2>1
<1>3. MergedRow(row, change).fields = kept
  <2>1. merged \in Record
    BY SanitizeType, MergeType
  <2> HIDE DEF merged
  <2> QED
    BY <2>1 DEF MergedRow, Record, merged
<1> HIDE DEF merged
<1>4. ASSUME NEW f \in Field
      PROVE  <<f, kept[f]>> \notin Refused
  <2>1. CASE f \in Dropped(change)
    BY <2>1 DEF InOrg
  <2>2. CASE f \notin Dropped(change)
    <3>1. <<f, change.fields[f]>> \notin Refused
      BY <2>2 DEF Dropped
    <3> QED
      BY <1>2, <2>2, <3>1 DEF InOrg
  <2> QED
    BY <2>1, <2>2
<1> QED
  BY <1>3, <1>4 DEF InOrg

\* A handled push, prompt or late, brings in no reference from outside.
LEMMA PushInOrg ==
  ASSUME TypeOK, ParentsInOrg, NEW batch \in Table, NEW id \in Id, RowsAfter(batch)[id] # None
  PROVE  InOrg(RowsAfter(batch)[id])
<1>1. rows[id] \in Record \cup {None} /\ batch[id] \in Record \cup {None}
  BY DEF TypeOK, Table
<1>2. CASE batch[id] = None
  BY <1>2 DEF RowsAfter, ParentsInOrg
<1>3. CASE batch[id] # None
  <2>1. RowsAfter(batch)[id] = RowAfter(rows[id], batch[id])
    BY <1>3 DEF RowsAfter
  <2>2. CASE rows[id] = None
    <3>1. Insertable(batch[id]) /\ RowsAfter(batch)[id] = batch[id]
      BY <2>1, <2>2 DEF RowAfter
    <3> QED
      BY <3>1 DEF Insertable, Dropped, InOrg
  <2>3. CASE rows[id] # None
    <3>1. RowAfter(rows[id], batch[id]) \in {rows[id], MergedRow(rows[id], batch[id])}
      BY <2>3 DEF RowAfter
    <3>2. InOrg(rows[id]) /\ InOrg(MergedRow(rows[id], batch[id]))
      BY <1>1, <1>3, <2>3, MergedRowInOrg DEF ParentsInOrg
    <3> QED
      BY <2>1, <3>1, <3>2
  <2> QED
    BY <2>2, <2>3
<1> QED
  BY <1>2, <1>3

\* Only pushes and the web client write rows; the web client writes values
\* it has checked over a copy that was in order when it was loaded.
LEMMA WebInOrg ==
  ASSUME TypeOK, ParentsInOrg, CopyInOrg, Web
  PROVE  ParentsInOrg' /\ CopyInOrg'
<1> USE DEF deviceVars
<1>1. ASSUME NEW id \in Id, NEW value \in Value, WebCreate(id, value)
      PROVE  ParentsInOrg' /\ CopyInOrg'
  <2> DEFINE new == [InitialRecord(0) EXCEPT !.fields = [f \in Field |-> value]]
  <2>1. InOrg(new)
    BY <1>1 DEF WebCreate, InOrg, InitialRecord
  <2>2. rows' = [rows EXCEPT ![id] = new]
    BY <1>1 DEF WebCreate
  <2> HIDE DEF new
  <2>3. ASSUME NEW i \in Id, rows'[i] # None PROVE InOrg(rows'[i])
    BY <2>1, <2>2, <2>3 DEF TypeOK, Table, ParentsInOrg
  <2> QED
    BY <1>1, <2>3 DEF WebCreate, ParentsInOrg, CopyInOrg, InOrg
<1>2. ASSUME NEW id \in Id, WebLoad(id)
      PROVE  ParentsInOrg' /\ CopyInOrg'
  BY <1>2 DEF WebLoad, ParentsInOrg, CopyInOrg, InOrg
<1>3. ASSUME NEW f \in Field, NEW value \in Value, WebSave(f, value)
      PROVE  ParentsInOrg' /\ CopyInOrg'
  <2> DEFINE saved == [webCopy.record EXCEPT !.fields[f] = value]
  <2>1. InOrg(webCopy.record) /\ webCopy.record \in Record /\ webCopy.id \in Id
    BY <1>3 DEF WebSave, CopyInOrg, TypeOK
  <2>2. InOrg(saved)
    <3>1. saved.fields = [webCopy.record.fields EXCEPT ![f] = value]
      BY <2>1 DEF Record
    <3> QED
      BY <1>3, <2>1, <3>1, RecordParts DEF WebSave, InOrg
  <2>3. rows' = [rows EXCEPT ![webCopy.id] = saved] /\ webCopy' = None
    BY <1>3 DEF WebSave
  <2> HIDE DEF saved
  <2>4. ASSUME NEW i \in Id, rows'[i] # None PROVE InOrg(rows'[i])
    BY <2>1, <2>2, <2>3, <2>4 DEF TypeOK, Table, ParentsInOrg
  <2> QED
    BY <2>3, <2>4 DEF ParentsInOrg, CopyInOrg, InOrg
<1>4. ASSUME NEW id \in Id, WebRemove(id)
      PROVE  ParentsInOrg' /\ CopyInOrg'
  BY <1>4 DEF WebRemove, TypeOK, Table, ParentsInOrg, CopyInOrg, InOrg
<1> QED
  BY <1>1, <1>2, <1>3, <1>4 DEF Web

\* No row ever refers to a list or board outside the organisation, whatever
\* devices push, however late, and whatever the web client saves over it.
THEOREM ParentsStayInOrg == Spec => []ParentsInOrg
<1>1. Init => ParentsInOrg /\ CopyInOrg
  <2>1. InOrg(InitialRecord(0)) /\ InOrg(InitialRecord(BaseStamp))
    BY InitialInOrg DEF BaseStamp
  <2> QED
    BY <2>1 DEF Init, SharedTable, ParentsInOrg, CopyInOrg
<1>2. TypeOK /\ ParentsInOrg /\ CopyInOrg /\ [Next]_vars => (ParentsInOrg /\ CopyInOrg)'
  <2> DEFINE Goal == ParentsInOrg' /\ CopyInOrg'
  <2> SUFFICES ASSUME TypeOK, ParentsInOrg, CopyInOrg, [Next]_vars
               PROVE  Goal
    OBVIOUS
  <2> USE DEF serverVars, deviceVars
  <2>1. ASSUME rows' = rows, webCopy' = webCopy PROVE Goal
    BY <2>1 DEF ParentsInOrg, CopyInOrg, InOrg
  <2>2. ASSUME NEW batch \in Table, rows' = RowsAfter(batch), webCopy' = webCopy PROVE Goal
    BY <2>2, PushInOrg DEF ParentsInOrg, CopyInOrg, InOrg
  <2>3. CASE Web
    BY <2>3, WebInOrg
  <2> HIDE DEF Goal
  <2>4. CASE Tick
    BY <2>1, <2>4 DEF Tick
  <2>5. ASSUME NEW d \in Device, Edit(d) \/ EditPut(d) PROVE Goal
    BY <2>1, <2>5 DEF Edit, Create, Mutate, Remove, EditPut
  <2>6. ASSUME NEW d \in Device, ServerPush(d) PROVE Goal
    <3>1. sync[d].table \in Table
      BY DEF TypeOK, SyncState, SyncStates
    <3> QED
      BY <2>2, <2>6, <3>1 DEF ServerPush
  <2>7. ASSUME NEW d \in Device, StartSync(d) \/ SyncStep(d), ~ServerPush(d) PROVE Goal
    BY <2>1, <2>7 DEF StartSync, SyncStep, ServerPull, ApplyRemote, SyncPut, SetCheckpoint,
                      ScanPending, ServerRejectsBatch, Acknowledge, FinishSync
  <2>8. ASSUME NEW d \in Device, RequestFails(d) \/ Crash(d) PROVE Goal
    BY <2>1, <2>8 DEF RequestFails, Crash
  <2>9. ASSUME NEW batch \in late, LatePush(batch) PROVE Goal
    <3>1. batch \in Table
      BY DEF TypeOK
    <3> QED
      BY <2>2, <2>9, <3>1 DEF LatePush
  <2>10. CASE UNCHANGED vars
    BY <2>1, <2>10 DEF vars
  <2> QED
    BY <2>3, <2>4, <2>5, <2>6, <2>7, <2>8, <2>9, <2>10 DEF Next
<1> QED
  BY <1>1, <1>2, TypeCorrect, PTL DEF Spec

---------------------------------------------------------------------------
(* Nothing is invented                                                     *)

\* Traced, against a given set of writes.
TracedBy(writes, id, record) ==
  /\ \A f \in Field :
       \/ record.clocks[f] \in {0, BaseStamp} /\ record.fields[f] = InitialValue
       \/ [id |-> id, register |-> f, clock |-> record.clocks[f],
           value |-> record.fields[f]] \in writes
  /\ \/ record.deletedAt = 0
     \/ [id |-> id, register |-> Tombstone, clock |-> record.deletedAt,
         value |-> NullRank] \in writes

TracedTable(writes, table) ==
  \A id \in Id : table[id] # None => TracedBy(writes, id, table[id])

\* The inductive invariant: every copy of a record, wherever it is on its
\* way, is made of stamped registers.
TracedInv ==
  /\ TracedTable(issued, rows)
  /\ \A batch \in late : TracedTable(issued, batch)
  /\ \A d \in Device :
       /\ TracedTable(issued, local[d])
       /\ TracedTable(issued, sync[d].table)
       /\ editPut[d] # None => TracedBy(issued, editPut[d].id, editPut[d].record)
       /\ syncPut[d] # None => TracedBy(issued, syncPut[d].id, syncPut[d].record)

\* A write once stamped stays stamped.
LEMMA TracedGrows ==
  ASSUME NEW old, NEW new, old \subseteq new
  PROVE  /\ \A id, record : TracedBy(old, id, record) => TracedBy(new, id, record)
         /\ \A table : TracedTable(old, table) => TracedTable(new, table)
  BY DEF TracedBy, TracedTable

\* What a start is made of is traced.
LEMMA InitialTraced ==
  ASSUME NEW writes, NEW id \in Id, NEW stamp \in {0, BaseStamp}
  PROVE  TracedBy(writes, id, InitialRecord(stamp))
  BY DEF TracedBy, InitialRecord

\* Each register of a merge is a register of one side, clock and value.
LEMMA MergeTraced ==
  ASSUME NEW writes, NEW id \in Id, NEW a \in Record, NEW b \in Record,
         TracedBy(writes, id, a), TracedBy(writes, id, b)
  PROVE  TracedBy(writes, id, MergeRecord(a, b))
<1> DEFINE m == MergeRecord(a, b)
<1>1. ASSUME NEW f \in Field
      PROVE  \/ m.clocks[f] = a.clocks[f] /\ m.fields[f] = a.fields[f]
             \/ m.clocks[f] = b.clocks[f] /\ m.fields[f] = b.fields[f]
  BY MergedRegister
<1>2. m.deletedAt \in {a.deletedAt, b.deletedAt}
  BY MergedDeletion
<1> HIDE DEF m
<1>3. TracedBy(writes, id, m)
  BY <1>1, <1>2 DEF TracedBy
<1> QED
  BY <1>3 DEF m

\* The same on the server, where a refused value is dropped with its clock:
\* the register of the row stays as it was.
LEMMA MergedRowTraced ==
  ASSUME NEW writes, NEW id \in Id, NEW row \in Record, NEW change \in Record,
         TracedBy(writes, id, row), TracedBy(writes, id, change)
  PROVE  TracedBy(writes, id, MergedRow(row, change))
<1> DEFINE client == Sanitize(change)
           merged == ServerMerged(row, client)
           kept   == [f \in Field |-> IF f \in Dropped(change) THEN row.fields[f]
                                      ELSE merged.fields[f]]
           after  == MergedRow(row, change)
<1>1. client \in Record
  BY SanitizeType
<1>2. merged \in Record
  BY <1>1, MergeType
<1>3. after.fields = kept /\ after.clocks = merged.clocks /\ after.deletedAt = merged.deletedAt
  <2>1. after = [merged EXCEPT !.fields = kept]
    BY DEF MergedRow
  <2> HIDE DEF merged, kept, after
  <2> QED
    BY <1>2, <2>1 DEF Record
<1>4. merged.deletedAt \in {row.deletedAt, change.deletedAt}
  <2>1. client.deletedAt = change.deletedAt
    BY DEF Sanitize
  <2>2. merged.deletedAt \in {row.deletedAt, client.deletedAt}
    BY <1>1, MergedDeletion
  <2> QED
    BY <2>1, <2>2
<1>5. ASSUME NEW f \in Field
      PROVE  \/ after.clocks[f] = row.clocks[f] /\ after.fields[f] = row.fields[f]
             \/ after.clocks[f] = change.clocks[f] /\ after.fields[f] = change.fields[f]
  <2>1. \/ merged.clocks[f] = row.clocks[f] /\ merged.fields[f] = row.fields[f]
        \/ /\ ~AtLeast(row.clocks[f], row.fields[f], client.clocks[f], client.fields[f])
           /\ merged.clocks[f] = client.clocks[f] /\ merged.fields[f] = client.fields[f]
    BY <1>1, MergedRegister
  <2>2. after.clocks[f] = merged.clocks[f]
        /\ after.fields[f] = IF f \in Dropped(change) THEN row.fields[f] ELSE merged.fields[f]
    BY <1>3
  <2>3. f \in Dropped(change) => client.clocks[f] = 0
    BY DEF Sanitize
  <2>4. f \notin Dropped(change) =>
          client.clocks[f] = change.clocks[f] /\ client.fields[f] = change.fields[f]
    BY DEF Sanitize
  <2>5. row.clocks[f] \in Nat
    BY RecordParts
  <2> HIDE DEF client, merged, after
  <2> QED
    BY <2>1, <2>2, <2>3, <2>4, <2>5 DEF AtLeast
<1> HIDE DEF after, merged
<1>6. TracedBy(writes, id, after)
  <2>1. after.deletedAt \in {row.deletedAt, change.deletedAt}
    BY <1>3, <1>4
  <2> QED
    BY ONLY <1>5, <2>1, TracedBy(writes, id, row), TracedBy(writes, id, change) DEF TracedBy
<1> QED
  BY <1>6 DEF after

\* A handled push, prompt or late, leaves only traced rows.
LEMMA PushTraced ==
  ASSUME TypeOK, TracedInv, NEW batch \in Table, TracedTable(issued, batch)
  PROVE  TracedTable(issued, RowsAfter(batch))
<1> SUFFICES ASSUME NEW id \in Id, RowsAfter(batch)[id] # None
             PROVE  TracedBy(issued, id, RowsAfter(batch)[id])
  BY DEF TracedTable
<1>1. rows[id] \in Record \cup {None} /\ batch[id] \in Record \cup {None}
  BY DEF TypeOK, Table
<1>2. /\ rows[id] # None => TracedBy(issued, id, rows[id])
      /\ batch[id] # None => TracedBy(issued, id, batch[id])
  BY DEF TracedInv, TracedTable
<1>3. CASE batch[id] = None
  BY <1>2, <1>3 DEF RowsAfter
<1>4. CASE batch[id] # None /\ rows[id] = None
  BY <1>2, <1>4 DEF RowsAfter, RowAfter
<1>5. CASE batch[id] # None /\ rows[id] # None
  <2>1. RowsAfter(batch)[id] \in {rows[id], MergedRow(rows[id], batch[id])}
    BY <1>5 DEF RowsAfter, RowAfter
  <2> QED
    BY <1>1, <1>2, <1>5, <2>1, MergedRowTraced
<1> QED
  BY <1>3, <1>4, <1>5

LEMMA InitTraced == Init => TracedInv
<1> SUFFICES ASSUME Init PROVE TracedInv
  OBVIOUS
<1>1. ASSUME NEW id \in Id
      PROVE  /\ TracedBy(issued, id, InitialRecord(0))
             /\ TracedBy(issued, id, InitialRecord(BaseStamp))
  BY InitialTraced
<1>2. TracedTable(issued, SharedTable) /\ TracedTable(issued, rows)
  BY <1>1 DEF TracedTable, SharedTable, Init
<1>3. TracedTable(issued, EmptyTable)
  BY DEF TracedTable, EmptyTable
<1>4. \A d \in Device : local[d] = SharedTable /\ sync[d].table = EmptyTable
                        /\ editPut[d] = None /\ syncPut[d] = None
  BY DEF Init, Idle
<1>5. late = {}
  BY DEF Init
<1> QED
  BY <1>2, <1>3, <1>4, <1>5 DEF TracedInv

\* The editor stamps what it writes, and its put carries what it stamped.
LEMMA EditorTraced ==
  ASSUME TypeOK, TracedInv, NEW d \in Device, Edit(d) \/ EditPut(d)
  PROVE  TracedInv'
<1> USE DEF serverVars
<1>0. /\ \A id \in Id : local[d][id] # None => TracedBy(issued, id, local[d][id])
      /\ d \in DOMAIN local /\ d \in DOMAIN editPut
      /\ \A id \in Id : id \in DOMAIN local[d]
  BY DEF TracedInv, TracedTable, TypeOK, Table
<1>1. ASSUME issued \subseteq issued', rows' = rows, late' = late, sync' = sync,
             syncPut' = syncPut,
             \A e \in Device :
               /\ TracedTable(issued', local'[e])
               /\ editPut'[e] # None => TracedBy(issued', editPut'[e].id, editPut'[e].record)
      PROVE  TracedInv'
  BY <1>1, TracedGrows DEF TracedInv
<1>2. ASSUME NEW id \in Id, NEW record, issued \subseteq issued',
             TracedBy(issued', id, record), rows' = rows, late' = late, sync' = sync,
             syncPut' = syncPut,
             \/ editPut' = editPut /\ local' = [local EXCEPT ![d][id] = record]
             \/ local' = local
                /\ editPut' = [editPut EXCEPT ![d] = [id |-> id, record |-> record]]
      PROVE  TracedInv'
  <2>1. ASSUME NEW e \in Device
        PROVE  /\ TracedTable(issued', local[e])
               /\ editPut[e] # None => TracedBy(issued', editPut[e].id, editPut[e].record)
    BY <1>2, TracedGrows DEF TracedInv
  <2>2. CASE local' = [local EXCEPT ![d][id] = record] /\ editPut' = editPut
    <3>1. ASSUME NEW e \in Device PROVE TracedTable(issued', local'[e])
      BY <1>0, <1>2, <2>1, <2>2 DEF TracedTable, TypeOK, Table
    <3> QED
      BY <1>1, <1>2, <2>1, <2>2, <3>1
  <2>3. CASE local' = local
             /\ editPut' = [editPut EXCEPT ![d] = [id |-> id, record |-> record]]
    <3>1. ASSUME NEW e \in Device, editPut'[e] # None
          PROVE  TracedBy(issued', editPut'[e].id, editPut'[e].record)
      BY <1>0, <1>2, <2>1, <2>3, <3>1 DEF TypeOK
    <3> QED
      BY <1>1, <1>2, <2>1, <2>3, <3>1
  <2> QED
    BY <1>2, <2>2, <2>3
<1>3. ASSUME NEW id \in Id, NEW value \in Value, Create(d, id, value)
      PROVE  TracedInv'
  <2> DEFINE new == [fields    |-> [f \in Field |-> value],
                     clocks    |-> [f \in Field |-> Now(d)],
                     nodeId    |-> d,
                     deletedAt |-> 0]
  <2>1. TracedBy(issued', id, new) /\ issued \subseteq issued'
    BY <1>3 DEF Create, TracedBy
  <2>2. local' = [local EXCEPT ![d][id] = new] /\ editPut' = editPut
    BY <1>3 DEF Create
  <2> HIDE DEF new
  <2>3. rows' = rows /\ late' = late /\ sync' = sync /\ syncPut' = syncPut
    BY <1>3 DEF Create
  <2> QED
    BY <1>2, <2>1, <2>2, <2>3
<1>4. ASSUME NEW id \in Id, NEW patch \in Patch, Mutate(d, id, patch)
      PROVE  TracedInv'
  <2> DEFINE existing == local[d][id]
             new == [fields    |-> [f \in Field |-> IF f \in DOMAIN patch THEN patch[f]
                                                    ELSE existing.fields[f]],
                     clocks    |-> [f \in Field |-> IF f \in DOMAIN patch THEN Now(d)
                                                    ELSE existing.clocks[f]],
                     nodeId    |-> d,
                     deletedAt |-> existing.deletedAt]
  <2>1. issued \subseteq issued' /\ TracedBy(issued', id, existing)
    BY <1>0, <1>4, TracedGrows DEF Mutate
  <2>2. \A f \in DOMAIN patch :
          [id |-> id, register |-> f, clock |-> Now(d), value |-> patch[f]] \in issued'
    BY <1>4 DEF Mutate
  <2>3. TracedBy(issued', id, new)
    BY <2>1, <2>2 DEF TracedBy
  <2>4. editPut' = [editPut EXCEPT ![d] = [id |-> id, record |-> new]]
    BY <1>4 DEF Mutate
  <2> HIDE DEF new
  <2>5. rows' = rows /\ late' = late /\ sync' = sync /\ syncPut' = syncPut /\ local' = local
    BY <1>4 DEF Mutate
  <2> QED
    BY <1>2, <2>1, <2>3, <2>4, <2>5
<1>5. ASSUME NEW id \in Id, Remove(d, id)
      PROVE  TracedInv'
  <2> DEFINE existing == local[d][id]
             new == [existing EXCEPT !.deletedAt = Now(d), !.nodeId = d]
  <2>1. issued \subseteq issued' /\ TracedBy(issued', id, existing)
    BY <1>0, <1>5, TracedGrows DEF Remove
  <2>2. existing \in Record
    BY <1>5 DEF Remove, TypeOK, Table
  <2>3. new.fields = existing.fields /\ new.clocks = existing.clocks /\ new.deletedAt = Now(d)
    BY <2>2 DEF Record
  <2>4. [id |-> id, register |-> Tombstone, clock |-> Now(d), value |-> NullRank] \in issued'
    BY <1>5 DEF Remove
  <2>5. editPut' = [editPut EXCEPT ![d] = [id |-> id, record |-> new]]
    BY <1>5 DEF Remove
  <2> HIDE DEF new, existing
  <2>6. TracedBy(issued', id, new)
    BY <2>1, <2>3, <2>4 DEF TracedBy
  <2>7. rows' = rows /\ late' = late /\ sync' = sync /\ syncPut' = syncPut /\ local' = local
    BY <1>5 DEF Remove
  <2> QED
    BY <1>2, <2>1, <2>5, <2>6, <2>7
<1>6. ASSUME EditPut(d)
      PROVE  TracedInv'
  <2>1. /\ editPut[d].id \in Id
        /\ TracedBy(issued, editPut[d].id, editPut[d].record)
    BY <1>6 DEF EditPut, TypeOK, TracedInv
  <2>2. /\ local' = [local EXCEPT ![d][editPut[d].id] = editPut[d].record]
        /\ editPut' = [editPut EXCEPT ![d] = None]
        /\ rows' = rows /\ late' = late /\ sync' = sync /\ syncPut' = syncPut
        /\ issued' = issued
    BY <1>6 DEF EditPut
  <2>3. ASSUME NEW e \in Device PROVE TracedTable(issued, local'[e])
    BY <2>1, <2>2 DEF TracedInv, TracedTable, TypeOK, Table
  <2>4. ASSUME NEW e \in Device, editPut'[e] # None
        PROVE  TracedBy(issued, editPut'[e].id, editPut'[e].record)
    BY <2>2, <2>4 DEF TracedInv, TypeOK
  <2> QED
    BY <1>1, <2>2, <2>3, <2>4
<1> QED
  BY <1>3, <1>4, <1>5, <1>6 DEF Edit

\* A sync moves records about and merges them.
LEMMA SyncTraced ==
  ASSUME TypeOK, TracedInv, NEW d \in Device, StartSync(d) \/ SyncStep(d)
  PROVE  TracedInv'
<1> USE DEF serverVars, deviceVars
<1>0. /\ sync[d].table \in Table
      /\ TracedTable(issued, rows)
      /\ TracedTable(issued, sync[d].table)
      /\ TracedTable(issued, local[d])
      /\ TracedTable(issued, EmptyTable)
      /\ sync \in [Device -> SyncState]
  BY DEF TracedInv, TypeOK, SyncState, SyncStates, TracedTable, EmptyTable
\* Only the engine moves, and its table is traced.
<1>1. ASSUME UNCHANGED <<rows, local, editPut, late, issued>>, syncPut' = syncPut,
             \A e \in Device : e # d => sync'[e] = sync[e],
             TracedTable(issued, sync'[d].table)
      PROVE  TracedInv'
  BY <1>1 DEF TracedInv
<1>2. CASE StartSync(d) \/ SetCheckpoint(d) \/ ServerRejectsBatch(d) \/ FinishSync(d)
  <2>1. sync'[d].table = EmptyTable /\ \A e \in Device : e # d => sync'[e] = sync[e]
    <3>1. \E start \in SyncStates : start.table = EmptyTable /\ sync' = [sync EXCEPT ![d] = start]
      <4> DEFINE Fresh(pc, cursor) == [Idle EXCEPT !.pc = pc, !.cursor = cursor]
      <4>1. /\ Fresh("pull", checkpoint[d]) \in SyncStates
            /\ Fresh("pull", checkpoint[d]).table = EmptyTable
        BY IdleType DEF SyncStates, Idle, TypeOK
      <4>2. /\ [Idle EXCEPT !.pc = "scan"] \in SyncStates
            /\ [Idle EXCEPT !.pc = "scan"].table = EmptyTable
            /\ Idle \in SyncStates /\ Idle.table = EmptyTable
        BY IdleType DEF SyncStates, Idle
      <4>3. sync' \in {[sync EXCEPT ![d] = Fresh("pull", checkpoint[d])],
                      [sync EXCEPT ![d] = [Idle EXCEPT !.pc = "scan"]],
                      [sync EXCEPT ![d] = Idle]}
        BY <1>2 DEF StartSync, SetCheckpoint, ServerRejectsBatch, FinishSync
      <4> QED
        BY <4>1, <4>2, <4>3
    <3> QED
      BY <1>0, <3>1
  <2>2. UNCHANGED <<rows, local, editPut, late, issued>> /\ syncPut' = syncPut
    BY <1>2 DEF StartSync, SetCheckpoint, ServerRejectsBatch, FinishSync
  <2>3. TracedTable(issued, sync'[d].table)
    BY <1>0, <2>1
  <2> QED
    BY <1>1, <2>1, <2>2, <2>3
<1>3. CASE ServerPull(d)
  <2> DEFINE ids == DeltaIds(sync[d].cursor)
             changes == [id \in Id |-> IF id \in ids THEN rows[id] ELSE None]
  <2>1. TracedTable(issued, changes)
    BY <1>0 DEF TracedTable
  <2>2. sync'[d].table = changes /\ \A e \in Device : e # d => sync'[e] = sync[e]
    BY <1>0, <1>3 DEF ServerPull
  <2> HIDE DEF changes
  <2> QED
    BY <1>1, <1>3, <2>1, <2>2 DEF ServerPull
<1>4. CASE ScanPending(d)
  <2> DEFINE batch == [id \in Id |-> IF id \in pending[d] THEN local[d][id] ELSE None]
  <2>1. TracedTable(issued, batch)
    BY <1>0 DEF TracedTable
  <2>2. sync'[d].table \in {batch, EmptyTable} /\ \A e \in Device : e # d => sync'[e] = sync[e]
    BY <1>0, <1>4 DEF ScanPending, Idle
  <2> HIDE DEF batch
  <2> QED
    BY <1>0, <1>1, <1>4, <2>1, <2>2 DEF ScanPending
\* A record set out for the store.
<1>5. ASSUME NEW id \in Id, NEW record, NEW flag, TracedBy(issued, id, record),
             UNCHANGED <<rows, local, editPut, late, issued, sync>>,
             syncPut' = [syncPut EXCEPT ![d] = [id |-> id, record |-> record, pending |-> flag]]
      PROVE  TracedInv'
  <2>1. ASSUME NEW e \in Device, syncPut'[e] # None
        PROVE  TracedBy(issued, syncPut'[e].id, syncPut'[e].record)
    BY <1>5, <2>1 DEF TracedInv, TypeOK
  <2> QED
    BY <1>5, <2>1 DEF TracedInv
\* An id crossed off.
<1>6. ASSUME NEW id \in Id, UNCHANGED <<rows, local, editPut, late, issued, syncPut>>,
             sync' = [sync EXCEPT ![d].todo = @ \ {id}]
      PROVE  TracedInv'
  <2>1. sync'[d].table = sync[d].table /\ \A e \in Device : e # d => sync'[e] = sync[e]
    BY <1>0, <1>6 DEF SyncState, SyncStates
  <2> QED
    BY <1>0, <1>1, <1>6, <2>1
<1>7. ASSUME NEW id \in Id, ApplyRemote(d, id)
      PROVE  TracedInv'
  <2> DEFINE mine   == local[d][id]
             remote == sync[d].table[id]
             put(record, flag) == [syncPut EXCEPT ![d] =
                                     [id |-> id, record |-> record, pending |-> flag]]
  <2>1. mine \in Record \cup {None} /\ remote \in Record
    BY <1>0, <1>7 DEF ApplyRemote, TypeOK, SyncState, SyncStates, Table, IdsOf
  <2>2. /\ TracedBy(issued, id, remote)
        /\ mine # None => TracedBy(issued, id, mine)
    BY <1>0, <2>1, SystemAssumption DEF TracedTable
  <2>3. mine # None => TracedBy(issued, id, MergeRecord(mine, remote))
    BY <2>1, <2>2, MergeTraced
  <2>4. UNCHANGED <<rows, local, editPut, late, issued>>
    BY <1>7 DEF ApplyRemote
  <2>5. \/ syncPut' = put(remote, FALSE) /\ sync' = sync
        \/ /\ mine # None
           /\ \E flag : syncPut' = put(MergeRecord(mine, remote), flag)
           /\ sync' = sync
        \/ syncPut' = syncPut /\ sync' = [sync EXCEPT ![d].todo = @ \ {id}]
    BY <1>7 DEF ApplyRemote
  <2> HIDE DEF mine, remote
  <2> QED
    BY <1>5, <1>6, <2>2, <2>3, <2>4, <2>5
<1>8. ASSUME NEW id \in Id, Acknowledge(d, id)
      PROVE  TracedInv'
  <2>1. UNCHANGED <<rows, local, editPut, late, issued>>
    BY <1>8 DEF Acknowledge
  <2>2. \/ /\ local[d][id] # None /\ sync' = sync
           /\ syncPut' = [syncPut EXCEPT ![d] =
                            [id |-> id, record |-> local[d][id], pending |-> FALSE]]
        \/ syncPut' = syncPut /\ sync' = [sync EXCEPT ![d].todo = @ \ {id}]
    BY <1>8 DEF Acknowledge
  <2>3. local[d][id] # None => TracedBy(issued, id, local[d][id])
    BY <1>0 DEF TracedTable
  <2> QED
    BY <1>5, <1>6, <2>1, <2>2, <2>3
<1>9. CASE SyncPut(d)
  <2>1. /\ syncPut[d].id \in Id
        /\ TracedBy(issued, syncPut[d].id, syncPut[d].record)
    BY <1>9 DEF SyncPut, TypeOK, TracedInv
  <2>2. /\ local' = [local EXCEPT ![d][syncPut[d].id] = syncPut[d].record]
        /\ syncPut' = [syncPut EXCEPT ![d] = None]
        /\ sync' = [sync EXCEPT ![d].todo = @ \ {syncPut[d].id}]
        /\ UNCHANGED <<rows, editPut, late, issued>>
    BY <1>9 DEF SyncPut
  <2>3. ASSUME NEW e \in Device PROVE TracedTable(issued, local'[e])
    BY <2>1, <2>2 DEF TracedInv, TracedTable, TypeOK, Table
  <2>4. ASSUME NEW e \in Device, syncPut'[e] # None
        PROVE  TracedBy(issued, syncPut'[e].id, syncPut'[e].record)
    BY <2>2, <2>4 DEF TracedInv, TypeOK
  <2>5. ASSUME NEW e \in Device PROVE sync'[e].table = sync[e].table
    BY <1>0, <2>2 DEF SyncState, SyncStates
  <2> QED
    BY <2>2, <2>3, <2>4, <2>5 DEF TracedInv
<1>10. CASE ServerPush(d)
  <2>1. TracedTable(issued, RowsAfter(sync[d].table))
    BY <1>0, PushTraced
  <2>2. /\ rows' = RowsAfter(sync[d].table)
        /\ UNCHANGED <<local, editPut, late, issued, syncPut>>
    BY <1>10 DEF ServerPush
  <2>3. ASSUME NEW e \in Device PROVE sync'[e].table = sync[e].table
    BY <1>0, <1>10 DEF ServerPush, SyncState, SyncStates
  <2> QED
    BY <2>1, <2>2, <2>3 DEF TracedInv
<1> QED
  BY <1>2, <1>3, <1>4, <1>7, <1>8, <1>9, <1>10 DEF SyncStep

\* A lost request leaves at most the batch pushed behind, a crash less.
LEMMA FaultTraced ==
  ASSUME TypeOK, TracedInv,
         \/ \E d \in Device : RequestFails(d) \/ Crash(d)
         \/ \E batch \in late : LatePush(batch)
  PROVE  TracedInv'
<1> USE DEF serverVars, deviceVars
<1>1. ASSUME NEW d \in Device, RequestFails(d) \/ Crash(d)
      PROVE  TracedInv'
  <2>1. late' \subseteq late \cup {sync[d].table}
    BY <1>1 DEF RequestFails, Crash, Abandon
  <2>2. \A batch \in late' : TracedTable(issued, batch)
    BY <2>1 DEF TracedInv
  <2>3. rows' = rows /\ local' = local /\ issued' = issued
    BY <1>1 DEF RequestFails, Crash
  <2>4. ASSUME NEW e \in Device
        PROVE  /\ sync'[e].table \in {sync[e].table, EmptyTable}
               /\ editPut'[e] \in {editPut[e], None}
               /\ syncPut'[e] \in {syncPut[e], None}
    BY <1>1 DEF RequestFails, Crash, TypeOK, Idle
  <2>5. TracedTable(issued, EmptyTable)
    BY DEF TracedTable, EmptyTable
  <2> QED
    BY <2>2, <2>3, <2>4, <2>5 DEF TracedInv
<1>2. ASSUME NEW batch \in late, LatePush(batch)
      PROVE  TracedInv'
  <2>1. TracedTable(issued, RowsAfter(batch))
    BY PushTraced DEF TracedInv, TypeOK
  <2>2. /\ rows' = RowsAfter(batch) /\ late' = late \ {batch}
        /\ UNCHANGED <<local, editPut, issued, syncPut, sync>>
    BY <1>2 DEF LatePush
  <2> QED
    BY <2>1, <2>2 DEF TracedInv
<1> QED
  BY <1>1, <1>2

\* Every step that is not the web client's keeps every copy traced.
LEMMA TracedStep ==
  ASSUME WebOps = {}, TypeOK, TracedInv, webCopy = None, [Next]_vars
  PROVE  TracedInv'
<1>1. ASSUME UNCHANGED <<rows, local, editPut, syncPut, sync, late, issued>>
      PROVE  TracedInv'
  BY <1>1 DEF TracedInv
<1>2. CASE Tick
  BY <1>1, <1>2 DEF Tick, serverVars, deviceVars
<1>3. CASE UNCHANGED vars
  BY <1>1, <1>3 DEF vars
<1>4. ~Web
  BY DEF Web, WebCreate, WebLoad, WebSave, WebRemove
<1>5. ASSUME NEW d \in Device, Edit(d) \/ EditPut(d) PROVE TracedInv'
  BY <1>5, EditorTraced
<1>6. ASSUME NEW d \in Device, StartSync(d) \/ SyncStep(d) PROVE TracedInv'
  BY <1>6, SyncTraced
<1>7. ASSUME NEW d \in Device, RequestFails(d) \/ Crash(d) PROVE TracedInv'
  BY <1>7, FaultTraced
<1>8. ASSUME NEW batch \in late, LatePush(batch) PROVE TracedInv'
  BY <1>8, FaultTraced
<1> QED
  BY <1>2, <1>3, <1>4, <1>5, <1>6, <1>7, <1>8 DEF Next

\* As long as only devices write, every register on the server and on every
\* device is one that somebody stamped, clock and value together, or the
\* initial one: no merge, retry or late push pairs a value with a clock it
\* was not written under (NoInvention, for every instance).
THEOREM NothingInvented ==
  ASSUME WebOps = {}
  PROVE  Spec => []NoInvention
<1>1. TypeOK /\ TracedInv /\ webCopy = None /\ [Next]_vars => TracedInv'
  BY TracedStep
<1>2. TracedInv => NoInvention
  BY DEF TracedInv, TracedTable, NoInvention, Traced, TracedBy
<1> QED
  BY <1>1, <1>2, InitTraced, TypeCorrect, NoWebCopy, PTL DEF Spec

---------------------------------------------------------------------------
(* What is not pending is on the server                                    *)

\* No two edits share a stamp, and none shares one with the start, so the
\* clock of a register tells its value.
StampsTell ==
  /\ time >= 1
  /\ \A w \in issued : w.clock > BaseStamp
  /\ \A v, w \in issued :
       v.id = w.id /\ v.register = w.register /\ v.clock = w.clock => v.value = w.value

\* A table holds a record, or a newer one.
HoldsIn(table, id, record) == table[id] # None /\ Covers(table[id], record)

\* The inductive invariant: what came with a reply, what was pushed, and what
\* is about to be stored without the pending flag is on the server too.
PushedInv ==
  /\ PendingCoversEdits
  /\ \A d \in Device, id \in Id :
       sync[d].pc \in {"apply", "ack"} /\ sync[d].table[id] # None =>
         HoldsIn(rows, id, sync[d].table[id])
  /\ \A d \in Device :
       syncPut[d] # None /\ ~syncPut[d].pending => HoldsIn(rows, syncPut[d].id, syncPut[d].record)
\* Every stamp is later than the start.
LEMMA NowIsLate ==
  ASSUME TypeOK, StampsTell, MicrosPerTick > BaseStamp, NEW d \in Device
  PROVE  Now(d) \in Nat /\ Now(d) > BaseStamp
<1>1. /\ MicrosPerTick \in Nat /\ time \in Nat /\ time >= 1
      /\ Skew[d] \in Nat /\ clockLast[d] \in Nat
  BY SystemAssumption DEF TypeOK, StampsTell
<1>2. MicrosPerTick * time \in Nat /\ MicrosPerTick * time >= MicrosPerTick
  <2>1. MicrosPerTick * time = MicrosPerTick * (time - 1) + MicrosPerTick
    BY <1>1
  <2>2. MicrosPerTick * (time - 1) \in Nat
    BY <1>1
  <2> QED
    BY <1>1, <2>1, <2>2
<1>3. Wall(d) \in Nat /\ Wall(d) > BaseStamp
  BY <1>1, <1>2 DEF Wall, BaseStamp
<1> QED
  BY <1>1, <1>3 DEF Now, BaseStamp

\* An edit stamps one value for a register, with a stamp nobody has used.
LEMMA EditStampsTell ==
  ASSUME TypeOK, StampsTell, ~StampsCollide, MicrosPerTick > BaseStamp,
         NEW d \in Device, Edit(d)
  PROVE  StampsTell'
<1>1. Now(d) > BaseStamp
  BY NowIsLate
<1>2. ASSUME NEW id \in Id, NEW value \in Value, Create(d, id, value)
      PROVE  StampsTell'
  <2>1. time' = time /\ \A w \in issued : w.clock # Now(d)
    BY <1>2 DEF Create, MayEdit
  <2>2. \A w \in issued' : w \in issued \/ (w.clock = Now(d) /\ w.value = value)
    BY <1>2 DEF Create
  <2> QED
    BY <1>1, <2>1, <2>2 DEF StampsTell
<1>3. ASSUME NEW id \in Id, NEW patch \in Patch, Mutate(d, id, patch)
      PROVE  StampsTell'
  <2>1. time' = time /\ \A w \in issued : w.clock # Now(d)
    BY <1>3 DEF Mutate, MayEdit
  <2>2. \A w \in issued' : w \in issued \/ (w.clock = Now(d) /\ w.value = patch[w.register])
    BY <1>3 DEF Mutate
  <2> QED
    BY <1>1, <2>1, <2>2 DEF StampsTell
<1>4. ASSUME NEW id \in Id, Remove(d, id)
      PROVE  StampsTell'
  <2>1. time' = time /\ \A w \in issued : w.clock # Now(d)
    BY <1>4 DEF Remove, MayEdit
  <2>2. \A w \in issued' : w \in issued \/ (w.clock = Now(d) /\ w.value = NullRank)
    BY <1>4 DEF Remove
  <2> QED
    BY <1>1, <2>1, <2>2 DEF StampsTell
<1> QED
  BY <1>2, <1>3, <1>4 DEF Edit

\* Two traced registers with the same clock hold the same value.
LEMMA SameStampSameValue ==
  ASSUME StampsTell, NEW id \in Id, NEW a, NEW b, NEW f \in Field,
         TracedBy(issued, id, a), TracedBy(issued, id, b), a.clocks[f] = b.clocks[f]
  PROVE  a.fields[f] = b.fields[f]
<1> DEFINE A == [id |-> id, register |-> f, clock |-> a.clocks[f], value |-> a.fields[f]]
           B == [id |-> id, register |-> f, clock |-> b.clocks[f], value |-> b.fields[f]]
<1>1. \/ a.clocks[f] \in {0, BaseStamp} /\ a.fields[f] = InitialValue
      \/ A \in issued
  BY DEF TracedBy
<1>2. \/ b.clocks[f] \in {0, BaseStamp} /\ b.fields[f] = InitialValue
      \/ B \in issued
  BY DEF TracedBy
<1>3. \A w \in issued : w.clock \notin {0, BaseStamp}
  BY DEF StampsTell, BaseStamp
<1>4. A \in issued => a.clocks[f] \notin {0, BaseStamp}
  BY <1>3
<1>5. B \in issued => b.clocks[f] \notin {0, BaseStamp}
  BY <1>3
<1>6. A \in issued /\ B \in issued => A.value = B.value
  BY DEF StampsTell
<1> QED
  BY <1>1, <1>2, <1>4, <1>5, <1>6

\* Once nothing is refused, the server holds what was pushed.
LEMMA PushDelivers ==
  ASSUME TypeOK, Refused = {}, NEW batch \in Table, NEW id \in Id, batch[id] # None
  PROVE  HoldsIn(RowsAfter(batch), id, batch[id])
<1> DEFINE row    == rows[id]
           change == batch[id]
<1>1. row \in Record \cup {None} /\ change \in Record
  BY DEF TypeOK, Table
<1>2. RowsAfter(batch)[id] = RowAfter(row, change)
  BY DEF RowsAfter
<1>3. Dropped(change) = {}
  BY DEF Dropped
<1>4. Sanitize(change) = change
  <2>1. /\ [f \in Field |-> change.fields[f]] = change.fields
        /\ [f \in Field |-> change.clocks[f]] = change.clocks
    BY <1>1, RecordParts
  <2>2. change = [fields |-> change.fields, clocks |-> change.clocks,
                  nodeId |-> change.nodeId, deletedAt |-> change.deletedAt]
    BY <1>1 DEF Record
  <2> HIDE DEF change
  <2> QED
    BY <1>3, <2>1, <2>2 DEF Sanitize
<1> HIDE DEF row, change
<1>5. CASE row = None
  BY <1>1, <1>2, <1>3, <1>5, CoversOrder, SystemAssumption
     DEF RowAfter, Insertable, HoldsIn, change
<1>6. CASE row # None /\ ServerChanged(row, change)
  <2>1. RowsAfter(batch)[id] = MergedRow(row, change)
    BY <1>2, <1>4, <1>6 DEF RowAfter
  <2>2. MergedRow(row, change) \in Record
    BY <1>1, <1>6, MergedRowType
  <2>3. MergedRow(row, change).clocks = ServerMerged(row, change).clocks
        /\ MergedRow(row, change).deletedAt = ServerMerged(row, change).deletedAt
        /\ \A f \in Field : MergedRow(row, change).fields[f] = ServerMerged(row, change).fields[f]
    <3> DEFINE merged == ServerMerged(row, change)
    <3>1. merged \in Record
      BY <1>1, <1>6, MergeType
    <3> HIDE DEF merged
    <3>2. MergedRow(row, change) = [merged EXCEPT !.fields = [f \in Field |-> merged.fields[f]]]
      BY <1>3, <1>4 DEF MergedRow, merged
    <3>3. MergedRow(row, change) = merged
      BY <3>1, <3>2 DEF Record
    <3> QED
      BY <3>3 DEF merged
  <2>4. Covers(ServerMerged(row, change), change)
    BY <1>1, <1>6, MergeCovers
  <2>5. Covers(MergedRow(row, change), change)
    BY <2>3, <2>4 DEF Covers
  <2> QED
    BY <2>1, <2>2, <2>5, SystemAssumption DEF HoldsIn, change
<1>7. CASE row # None /\ ~ServerChanged(row, change)
  <2>1. RowsAfter(batch)[id] = row
    BY <1>2, <1>4, <1>7 DEF RowAfter
  <2>2. Covers(row, change)
    BY <1>1, <1>7, UnchangedIsCovered
  <2> QED
    BY <1>7, <2>1, <2>2 DEF HoldsIn, change
<1> QED
  BY <1>5, <1>6, <1>7

\* ... and goes on holding it.
LEMMA PushKeeps ==
  ASSUME TypeOK, NEW batch \in Table, NEW id \in Id, NEW record \in Record,
         HoldsIn(rows, id, record)
  PROVE  HoldsIn(RowsAfter(batch), id, record)
<1>1. rows[id] # None /\ Covers(rows[id], record)
  BY DEF HoldsIn
<1>2. RowsAfter(batch)[id] # None /\ Covers(RowsAfter(batch)[id], rows[id])
  BY <1>1, PushClimbs
<1>3. rows[id] \in Record
  BY <1>1 DEF TypeOK, Table
<1>4. RowsAfter(batch)[id] \in Record
  BY <1>2, RowsAfterType DEF Table
<1> QED
  BY <1>1, <1>2, <1>3, <1>4, CoversOrder DEF HoldsIn

\* A step of one engine that writes neither rows nor its store.
LEMMA EngineKeeps ==
  ASSUME PushedInv, NEW d \in Device, UNCHANGED <<rows, local, pending>>,
         \A e \in Device : e # d => sync'[e] = sync[e] /\ syncPut'[e] = syncPut[e],
         sync'[d].pc \in {"apply", "ack"} =>
           \A id \in Id : sync'[d].table[id] # None => HoldsIn(rows, id, sync'[d].table[id]),
         syncPut'[d] # None /\ ~syncPut'[d].pending =>
           HoldsIn(rows, syncPut'[d].id, syncPut'[d].record)
  PROVE  PushedInv'
<1>1. PendingCoversEdits'
  BY DEF PushedInv, PendingCoversEdits
<1> QED
  BY <1>1 DEF PushedInv

\* The push of a batch, by an engine that waits or by one that has given up.
LEMMA PushKeepsInv ==
  ASSUME TypeOK, PushedInv, NEW batch \in Table, rows' = RowsAfter(batch),
         UNCHANGED <<local, pending, syncPut>>
  PROVE  /\ PendingCoversEdits'
         /\ \A e \in Device, id \in Id :
              sync[e].pc \in {"apply", "ack"} /\ sync[e].table[id] # None =>
                HoldsIn(rows', id, sync[e].table[id])
         /\ \A e \in Device :
              syncPut[e] # None /\ ~syncPut[e].pending =>
                HoldsIn(rows', syncPut[e].id, syncPut[e].record)
<1>1. ASSUME NEW id \in Id, NEW record \in Record, HoldsIn(rows, id, record)
      PROVE  HoldsIn(rows', id, record)
  BY <1>1, PushKeeps
<1>2. ASSUME NEW e \in Device, NEW id \in Id, local[e][id] # None, id \notin pending[e]
      PROVE  rows'[id] # None /\ Covers(rows'[id], local[e][id])
  <2>1. local[e][id] \in Record
    BY <1>2 DEF TypeOK, Table
  <2>2. HoldsIn(rows, id, local[e][id])
    BY <1>2 DEF PushedInv, PendingCoversEdits, HoldsIn
  <2> QED
    BY <1>1, <2>1, <2>2 DEF HoldsIn
<1>3. PendingCoversEdits'
  BY <1>2 DEF PendingCoversEdits
<1>4. ASSUME NEW e \in Device, NEW id \in Id,
             sync[e].pc \in {"apply", "ack"}, sync[e].table[id] # None
      PROVE  HoldsIn(rows', id, sync[e].table[id])
  <2>1. sync[e].table[id] \in Record
    BY <1>4 DEF TypeOK, SyncState, SyncStates, Table
  <2> QED
    BY <1>1, <1>4, <2>1 DEF PushedInv
<1>5. ASSUME NEW e \in Device, syncPut[e] # None, ~syncPut[e].pending
      PROVE  HoldsIn(rows', syncPut[e].id, syncPut[e].record)
  <2>1. syncPut[e].id \in Id /\ syncPut[e].record \in Record
    BY <1>5 DEF TypeOK
  <2>2. HoldsIn(rows, syncPut[e].id, syncPut[e].record)
    BY <1>5 DEF PushedInv
  <2> QED
    BY <1>1, <2>1, <2>2
<1> QED
  BY <1>3, <1>4, <1>5

\* What applyRemote sends to the store without the pending flag is on the
\* server: nothing was pending, or the reply covers what was.
LEMMA ApplyStoresWhatIsThere ==
  ASSUME TypeOK, StampsTell, NEW id \in Id, NEW mine \in Record, NEW remote \in Record,
         TracedBy(issued, id, mine), TracedBy(issued, id, remote),
         HoldsIn(rows, id, remote),
         HoldsIn(rows, id, mine) \/ ~LocalIsAhead(mine, remote)
  PROVE  HoldsIn(rows, id, MergeRecord(mine, remote))
<1>1. rows[id] \in Record
  BY DEF HoldsIn, TypeOK, Table
<1>2. ASSUME ~LocalIsAhead(mine, remote) PROVE Covers(remote, mine)
  <2>1. ASSUME NEW f \in Field
        PROVE  AtLeast(remote.clocks[f], remote.fields[f], mine.clocks[f], mine.fields[f])
    <3>1. /\ mine.clocks[f] \in Nat /\ remote.clocks[f] \in Nat
          /\ mine.fields[f] \in Nat /\ remote.fields[f] \in Nat
      BY RecordParts
    <3>2. ~(mine.clocks[f] > remote.clocks[f])
      BY <1>2 DEF LocalIsAhead
    <3>3. mine.clocks[f] = remote.clocks[f] => mine.fields[f] = remote.fields[f]
      BY SameStampSameValue
    <3> QED
      BY <3>1, <3>2, <3>3 DEF AtLeast
  <2>2. remote.deletedAt >= mine.deletedAt
    BY <1>2, RecordParts DEF LocalIsAhead
  <2> QED
    BY <2>1, <2>2 DEF Covers
<1>3. Covers(rows[id], remote)
  BY DEF HoldsIn
<1>4. Covers(rows[id], mine)
  BY <1>1, <1>2, <1>3, CoversOrder DEF HoldsIn
<1> QED
  BY <1>1, <1>3, <1>4, MergeIsLeast DEF HoldsIn

\* The editor flags what it stores.
LEMMA EditorKeepsPushed ==
  ASSUME TypeOK, PushedInv, NEW d \in Device, Edit(d) \/ EditPut(d)
  PROVE  PushedInv'
<1> USE DEF serverVars
<1>1. UNCHANGED <<rows, sync, syncPut>>
  BY DEF Edit, Create, Mutate, Remove, EditPut
<1>2. \/ UNCHANGED <<local, pending>>
      \/ \E id \in Id : \E record :
           /\ local' = [local EXCEPT ![d][id] = record]
           /\ pending' = [pending EXCEPT ![d] = @ \cup {id}]
  BY DEF Edit, Create, Mutate, Remove, EditPut, TypeOK
<1>3. PendingCoversEdits'
  <2>1. CASE UNCHANGED <<local, pending>>
    BY <1>1, <2>1 DEF PushedInv, PendingCoversEdits
  <2>2. ASSUME NEW id \in Id, NEW record,
               local' = [local EXCEPT ![d][id] = record],
               pending' = [pending EXCEPT ![d] = @ \cup {id}]
        PROVE  PendingCoversEdits'
    <3>1. ASSUME NEW e \in Device, NEW i \in Id, i \notin pending'[e]
          PROVE  i \notin pending[e] /\ local'[e][i] = local[e][i]
      BY <2>2, <3>1 DEF TypeOK, Table
    <3> QED
      BY <1>1, <3>1 DEF PushedInv, PendingCoversEdits
  <2> QED
    BY <1>2, <2>1, <2>2
<1> QED
  BY <1>1, <1>3 DEF PushedInv

\* Every step of a sync keeps the invariant.
LEMMA SyncKeepsPushed ==
  ASSUME TypeOK, TracedInv, StampsTell, PushedInv, Refused = {},
         NEW d \in Device, StartSync(d) \/ SyncStep(d)
  PROVE  PushedInv'
<1> USE DEF serverVars, deviceVars
<1>0. /\ sync \in [Device -> SyncState]
      /\ sync[d] \in SyncStates
      /\ sync[d].table \in Table
      /\ \A id \in Id : local[d][id] \in Record \cup {None}
      /\ DOMAIN syncPut = Device
  BY DEF TypeOK, SyncState, SyncStates, Table
<1>1. CASE StartSync(d) \/ SetCheckpoint(d) \/ ServerRejectsBatch(d) \/ FinishSync(d)
           \/ ScanPending(d)
  <2>1. UNCHANGED <<rows, local, pending, syncPut>>
    BY <1>1 DEF StartSync, SetCheckpoint, ServerRejectsBatch, FinishSync, ScanPending
  <2>2. /\ \A e \in Device : e # d => sync'[e] = sync[e]
        /\ sync'[d].pc \notin {"apply", "ack"}
    <3>1. CASE StartSync(d)
      BY <1>0, <3>1 DEF StartSync, Idle
    <3>2. CASE SetCheckpoint(d)
      BY <1>0, <3>2 DEF SetCheckpoint, Idle
    <3>3. CASE ServerRejectsBatch(d) \/ FinishSync(d)
      BY <1>0, <3>3 DEF ServerRejectsBatch, FinishSync, Idle
    <3>4. CASE ScanPending(d)
      <4> DEFINE batch == [id \in Id |-> IF id \in pending[d] THEN local[d][id] ELSE None]
             pushing == [Idle EXCEPT !.pc = "push", !.table = batch]
      <4>1. sync' = [sync EXCEPT ![d] = IF pending[d] = {} THEN Idle ELSE pushing]
        BY <3>4 DEF ScanPending
      <4> HIDE DEF batch
      <4>2. pushing.pc = "push" /\ Idle.pc = "idle"
        BY DEF Idle
      <4> HIDE DEF pushing
      <4> QED
        BY <1>0, <4>1, <4>2
    <3> QED
      BY <1>1, <3>1, <3>2, <3>3, <3>4
  <2>3. syncPut'[d] # None /\ ~syncPut'[d].pending =>
          HoldsIn(rows, syncPut'[d].id, syncPut'[d].record)
    BY <2>1 DEF PushedInv
  <2> QED
    BY <2>1, <2>2, <2>3, EngineKeeps
<1>2. CASE ServerPull(d)
  <2> DEFINE ids == DeltaIds(sync[d].cursor)
             changes == [id \in Id |-> IF id \in ids THEN rows[id] ELSE None]
  <2>1. UNCHANGED <<rows, local, pending, syncPut>>
    BY <1>2 DEF ServerPull
  <2>2. /\ \A e \in Device : e # d => sync'[e] = sync[e]
        /\ sync'[d].table = changes
    BY <1>0, <1>2 DEF ServerPull
  <2>3. ASSUME NEW id \in Id, changes[id] # None PROVE HoldsIn(rows, id, changes[id])
    <3>1. changes[id] = rows[id] /\ rows[id] # None
      BY <2>3
    <3>2. rows[id] \in Record
      BY <3>1 DEF TypeOK, Table
    <3> HIDE DEF changes
    <3> QED
      BY <3>1, <3>2, CoversOrder DEF HoldsIn
  <2> HIDE DEF changes
  <2>4. \A id \in Id : sync'[d].table[id] # None => HoldsIn(rows, id, sync'[d].table[id])
    BY <2>2, <2>3
  <2>5. syncPut'[d] # None /\ ~syncPut'[d].pending =>
          HoldsIn(rows, syncPut'[d].id, syncPut'[d].record)
    BY <2>1 DEF PushedInv
  <2> QED
    BY <2>1, <2>2, <2>4, <2>5, EngineKeeps
\* A record sent to the store, or an id crossed off.
<1>3. ASSUME NEW id \in Id, NEW record, NEW flag, ~flag => HoldsIn(rows, id, record),
             UNCHANGED <<rows, local, pending, sync>>,
             syncPut' = [syncPut EXCEPT ![d] = [id |-> id, record |-> record, pending |-> flag]]
      PROVE  PushedInv'
  <2>1. \A e \in Device : e # d => sync'[e] = sync[e] /\ syncPut'[e] = syncPut[e]
    BY <1>3
  <2>2. sync'[d].pc \in {"apply", "ack"} =>
          \A i \in Id : sync'[d].table[i] # None => HoldsIn(rows, i, sync'[d].table[i])
    BY <1>3 DEF PushedInv
  <2>3. syncPut'[d] # None /\ ~syncPut'[d].pending =>
          HoldsIn(rows, syncPut'[d].id, syncPut'[d].record)
    BY <1>0, <1>3
  <2> QED
    BY <1>3, <2>1, <2>2, <2>3, EngineKeeps
<1>4. ASSUME NEW id \in Id, UNCHANGED <<rows, local, pending, syncPut>>,
             sync' = [sync EXCEPT ![d].todo = @ \ {id}]
      PROVE  PushedInv'
  <2>1. /\ sync'[d].table = sync[d].table /\ sync'[d].pc = sync[d].pc
        /\ \A e \in Device : e # d => sync'[e] = sync[e]
    BY <1>0, <1>4 DEF SyncStates
  <2>2. sync'[d].pc \in {"apply", "ack"} =>
          \A i \in Id : sync'[d].table[i] # None => HoldsIn(rows, i, sync'[d].table[i])
    BY <2>1 DEF PushedInv
  <2>3. syncPut'[d] # None /\ ~syncPut'[d].pending =>
          HoldsIn(rows, syncPut'[d].id, syncPut'[d].record)
    BY <1>4 DEF PushedInv
  <2> QED
    BY <1>4, <2>1, <2>2, <2>3, EngineKeeps
<1>5. ASSUME NEW id \in Id, ApplyRemote(d, id)
      PROVE  PushedInv'
  <2> DEFINE mine   == local[d][id]
             remote == sync[d].table[id]
             still  == id \in pending[d] /\ LocalIsAhead(mine, remote)
             put(record, flag) == [syncPut EXCEPT ![d] =
                                     [id |-> id, record |-> record, pending |-> flag]]
  <2>1. sync[d].pc = "apply" /\ remote \in Record /\ remote # None
    BY <1>0, <1>5, SystemAssumption
       DEF ApplyRemote, TypeOK, SyncState, SyncStates, Table, IdsOf
  <2>2. HoldsIn(rows, id, remote)
    BY <2>1 DEF PushedInv
  <2>3. ASSUME mine # None, ~still PROVE HoldsIn(rows, id, MergeRecord(mine, remote))
    <3>1. mine \in Record
      BY <1>0, <2>3
    <3>2. TracedBy(issued, id, mine) /\ TracedBy(issued, id, remote)
      BY <2>1, <2>3 DEF TracedInv, TracedTable
    <3>3. HoldsIn(rows, id, mine) \/ ~LocalIsAhead(mine, remote)
      BY <2>3 DEF PushedInv, PendingCoversEdits, HoldsIn
    <3> HIDE DEF mine, remote, still
    <3> QED
      BY <2>1, <2>2, <3>1, <3>2, <3>3, ApplyStoresWhatIsThere
  <2>4. UNCHANGED <<rows, local, pending>>
    BY <1>5 DEF ApplyRemote
  <2>5. \/ syncPut' = put(remote, FALSE) /\ sync' = sync
        \/ mine # None /\ syncPut' = put(MergeRecord(mine, remote), still) /\ sync' = sync
        \/ syncPut' = syncPut /\ sync' = [sync EXCEPT ![d].todo = @ \ {id}]
    BY <1>5 DEF ApplyRemote
  <2> HIDE DEF mine, remote, still
  <2>6. CASE syncPut' = put(remote, FALSE) /\ sync' = sync
    BY <1>3, <2>2, <2>4, <2>6
  <2>7. CASE mine # None /\ syncPut' = put(MergeRecord(mine, remote), still) /\ sync' = sync
    BY <1>3, <2>3, <2>4, <2>7
  <2>8. CASE syncPut' = syncPut /\ sync' = [sync EXCEPT ![d].todo = @ \ {id}]
    BY <1>4, <2>4, <2>8
  <2> QED
    BY <2>5, <2>6, <2>7, <2>8
<1>6. ASSUME NEW id \in Id, Acknowledge(d, id)
      PROVE  PushedInv'
  <2> DEFINE current == local[d][id]
             pushed  == sync[d].table[id]
  <2>1. UNCHANGED <<rows, local, pending>>
    BY <1>6 DEF Acknowledge
  <2>2. \/ /\ current # None /\ SameClocks(current, pushed) /\ sync' = sync
           /\ syncPut' = [syncPut EXCEPT ![d] =
                            [id |-> id, record |-> current, pending |-> FALSE]]
        \/ syncPut' = syncPut /\ sync' = [sync EXCEPT ![d].todo = @ \ {id}]
    BY <1>6 DEF Acknowledge
  <2>3. ASSUME current # None, SameClocks(current, pushed)
        PROVE  HoldsIn(rows, id, current)
    <3>1. sync[d].pc = "ack" /\ pushed # None
      BY <1>6 DEF Acknowledge, TypeOK, SyncState, IdsOf
    <3>2. HoldsIn(rows, id, pushed)
      BY <3>1 DEF PushedInv
    <3>3. TracedBy(issued, id, current) /\ TracedBy(issued, id, pushed)
      BY <2>3, <3>1 DEF TracedInv, TracedTable
    <3> HIDE DEF current, pushed
    <3>4. current.clocks = pushed.clocks /\ current.deletedAt = pushed.deletedAt
      BY <2>3 DEF SameClocks
    <3>5. \A f \in Field : current.fields[f] = pushed.fields[f]
      BY <3>3, <3>4, SameStampSameValue
    <3> QED
      BY <3>2, <3>4, <3>5 DEF HoldsIn, Covers
  <2> HIDE DEF current, pushed
  <2> QED
    BY <1>3, <1>4, <2>1, <2>2, <2>3
<1>7. CASE SyncPut(d)
  <2> DEFINE id     == syncPut[d].id
             record == syncPut[d].record
  <2>1. /\ syncPut[d] # None /\ id \in Id /\ syncPut[d].pending \in BOOLEAN
        /\ rows' = rows
        /\ local' = [local EXCEPT ![d][id] = record]
        /\ pending' = [pending EXCEPT ![d] = IF syncPut[d].pending THEN @ \cup {id}
                                             ELSE @ \ {id}]
        /\ syncPut' = [syncPut EXCEPT ![d] = None]
        /\ sync' = [sync EXCEPT ![d].todo = @ \ {id}]
    BY <1>7 DEF SyncPut, TypeOK
  <2>2. ~syncPut[d].pending => HoldsIn(rows, id, record)
    BY <2>1 DEF PushedInv
  <2>3. ASSUME NEW e \in Device, NEW i \in Id, local'[e][i] # None, i \notin pending'[e]
        PROVE  rows[i] # None /\ Covers(rows[i], local'[e][i])
    <3> HIDE DEF id, record
    <3>1. CASE e = d /\ i = id
      <4>1. ~syncPut[d].pending
        BY <2>1, <2>3, <3>1 DEF TypeOK
      <4>2. local'[e][i] = record
        BY <2>1, <3>1 DEF TypeOK, Table
      <4> QED
        BY <2>2, <3>1, <4>1, <4>2 DEF HoldsIn
    <3>2. CASE ~(e = d /\ i = id)
      <4>1. local'[e][i] = local[e][i]
        BY <2>1, <3>2 DEF TypeOK, Table
      <4>2. i \notin pending[e]
        BY <2>1, <2>3, <3>2 DEF TypeOK
      <4> QED
        BY <2>3, <4>1, <4>2 DEF PushedInv, PendingCoversEdits
    <3> QED
      BY <3>1, <3>2
  <2>4. PendingCoversEdits'
    BY <2>1, <2>3 DEF PendingCoversEdits
  <2> HIDE DEF id, record
  <2>5. ASSUME NEW e \in Device
        PROVE  sync'[e].table = sync[e].table /\ sync'[e].pc = sync[e].pc
               /\ (syncPut'[e] = None \/ syncPut'[e] = syncPut[e])
    BY <1>0, <2>1 DEF SyncState, SyncStates
  <2> QED
    BY <2>1, <2>4, <2>5 DEF PushedInv
<1>8. CASE ServerPush(d)
  <2> DEFINE batch == sync[d].table
  <2>1. /\ rows' = RowsAfter(batch)
        /\ UNCHANGED <<local, pending, syncPut>>
    BY <1>8 DEF ServerPush
  <2>2. /\ PendingCoversEdits'
        /\ \A e \in Device, id \in Id :
             sync[e].pc \in {"apply", "ack"} /\ sync[e].table[id] # None =>
               HoldsIn(rows', id, sync[e].table[id])
        /\ \A e \in Device :
             syncPut[e] # None /\ ~syncPut[e].pending =>
               HoldsIn(rows', syncPut[e].id, syncPut[e].record)
    BY <1>0, <2>1, PushKeepsInv
  <2>3. /\ sync'[d].table = batch
        /\ \A e \in Device : e # d => sync'[e] = sync[e]
    BY <1>0, <1>8 DEF ServerPush, SyncStates
  <2>4. \A id \in Id : batch[id] # None => HoldsIn(rows', id, batch[id])
    BY <1>0, <2>1, PushDelivers
  <2>5. ASSUME NEW e \in Device, NEW id \in Id,
               sync'[e].pc \in {"apply", "ack"}, sync'[e].table[id] # None
        PROVE  HoldsIn(rows', id, sync'[e].table[id])
    BY <2>2, <2>3, <2>4, <2>5
  <2> QED
    BY <2>1, <2>2, <2>5 DEF PushedInv
<1> QED
  BY <1>1, <1>2, <1>5, <1>6, <1>7, <1>8 DEF SyncStep

\* Faults forget what is on its way, or deliver it late.
LEMMA FaultKeepsPushed ==
  ASSUME TypeOK, PushedInv,
         \/ \E d \in Device : RequestFails(d) \/ Crash(d)
         \/ \E batch \in late : LatePush(batch)
  PROVE  PushedInv'
<1> USE DEF serverVars, deviceVars
<1>1. ASSUME NEW d \in Device, RequestFails(d) \/ Crash(d)
      PROVE  PushedInv'
  <2>1. UNCHANGED <<rows, local, pending>> /\ sync' = [sync EXCEPT ![d] = Idle]
    BY <1>1 DEF RequestFails, Crash
  <2>2. syncPut' = syncPut \/ syncPut' = [syncPut EXCEPT ![d] = None]
    BY <1>1 DEF RequestFails, Crash
  <2>3. \A e \in Device : e # d => sync'[e] = sync[e] /\ syncPut'[e] = syncPut[e]
    BY <2>1, <2>2 DEF TypeOK
  <2>4. sync'[d].pc \notin {"apply", "ack"}
    BY <2>1 DEF TypeOK, Idle
  <2>5. syncPut'[d] # None /\ ~syncPut'[d].pending =>
          HoldsIn(rows, syncPut'[d].id, syncPut'[d].record)
    BY <2>2 DEF PushedInv, TypeOK
  <2> QED
    BY <2>1, <2>3, <2>4, <2>5, EngineKeeps
<1>2. ASSUME NEW batch \in late, LatePush(batch)
      PROVE  PushedInv'
  <2>1. /\ batch \in Table /\ rows' = RowsAfter(batch)
        /\ UNCHANGED <<local, pending, syncPut, sync>>
    BY <1>2 DEF LatePush, TypeOK
  <2> QED
    BY <2>1, PushKeepsInv DEF PushedInv
<1> QED
  BY <1>1, <1>2

\* Every step that is not the web client's keeps the stamps telling.
LEMMA StampsStep ==
  ASSUME WebOps = {}, ~StampsCollide, MicrosPerTick > BaseStamp,
         TypeOK, StampsTell, webCopy = None, [Next]_vars
  PROVE  StampsTell'
<1> USE DEF serverVars, deviceVars
<1>1. ASSUME time' \in {time, time + 1}, issued' = issued PROVE StampsTell'
  BY <1>1 DEF StampsTell, TypeOK
<1>2. CASE Tick
  BY <1>1, <1>2 DEF Tick
<1>3. CASE UNCHANGED vars
  BY <1>1, <1>3 DEF vars
<1>4. ~Web
  BY DEF Web, WebCreate, WebLoad, WebSave, WebRemove
<1>5. ASSUME NEW d \in Device, Edit(d) PROVE StampsTell'
  BY <1>5, EditStampsTell
<1>6. ASSUME NEW d \in Device, EditPut(d) PROVE StampsTell'
  BY <1>1, <1>6 DEF EditPut
<1>7. ASSUME NEW d \in Device, StartSync(d) \/ SyncStep(d) PROVE StampsTell'
  BY <1>1, <1>7 DEF StartSync, SyncStep, ServerPull, ApplyRemote, SyncPut, SetCheckpoint,
                    ScanPending, ServerPush, ServerRejectsBatch, Acknowledge, FinishSync
<1>8. ASSUME NEW d \in Device, RequestFails(d) \/ Crash(d) PROVE StampsTell'
  BY <1>1, <1>8 DEF RequestFails, Crash
<1>9. ASSUME NEW batch \in late, LatePush(batch) PROVE StampsTell'
  BY <1>1, <1>9 DEF LatePush
<1> QED
  BY <1>2, <1>3, <1>4, <1>5, <1>6, <1>7, <1>8, <1>9 DEF Next

\* Every step that is not the web client's keeps what is not pending there.
LEMMA PushedStep ==
  ASSUME WebOps = {}, Refused = {}, TypeOK, TracedInv, StampsTell, PushedInv,
         webCopy = None, [Next]_vars
  PROVE  PushedInv'
<1>1. ASSUME UNCHANGED <<rows, local, pending, sync, syncPut>> PROVE PushedInv'
  BY <1>1 DEF PushedInv, PendingCoversEdits
<1>2. CASE Tick
  BY <1>1, <1>2 DEF Tick, serverVars, deviceVars
<1>3. CASE UNCHANGED vars
  BY <1>1, <1>3 DEF vars
<1>4. ~Web
  BY DEF Web, WebCreate, WebLoad, WebSave, WebRemove
<1>5. ASSUME NEW d \in Device, Edit(d) \/ EditPut(d) PROVE PushedInv'
  BY <1>5, EditorKeepsPushed
<1>6. ASSUME NEW d \in Device, StartSync(d) \/ SyncStep(d) PROVE PushedInv'
  BY <1>6, SyncKeepsPushed
<1>7. ASSUME NEW d \in Device, RequestFails(d) \/ Crash(d) PROVE PushedInv'
  BY <1>7, FaultKeepsPushed
<1>8. ASSUME NEW batch \in late, LatePush(batch) PROVE PushedInv'
  BY <1>8, FaultKeepsPushed
<1> QED
  BY <1>2, <1>3, <1>4, <1>5, <1>6, <1>7, <1>8 DEF Next

\* As long as only devices write and no two edits share a stamp, a record
\* not flagged pending holds nothing the server lacks, whatever the user
\* edits while a sync is under way, however the clocks are skewed and
\* whatever is lost, late or killed (PendingCoversEdits, for every instance).
THEOREM PendingKeepsEdits ==
  ASSUME WebOps = {}, Refused = {}, ~StampsCollide, MicrosPerTick > BaseStamp
  PROVE  Spec => []PendingCoversEdits
<1> DEFINE Inv == TracedInv /\ StampsTell /\ PushedInv
<1>1. Init => Inv
  <2> SUFFICES ASSUME Init PROVE StampsTell /\ PushedInv
    BY InitTraced
  <2>1. StampsTell
    BY DEF Init, StampsTell
  <2>2. ASSUME NEW d \in Device, NEW id \in Id, local[d][id] # None
        PROVE  rows[id] # None /\ Covers(rows[id], local[d][id])
    <3>1. id \in Shared /\ local[d][id] = InitialRecord(BaseStamp)
      BY <2>2 DEF Init, SharedTable
    <3>2. InitialRecord(BaseStamp) \in Record /\ InitialRecord(0) \in Record
      BY InitialRecordType DEF BaseStamp
    <3>3. rows[id] = IF id \in WebOnly THEN InitialRecord(0) ELSE InitialRecord(BaseStamp)
      BY <3>1 DEF Init, SharedTable
    <3> QED
      BY <3>1, <3>2, <3>3, CoversOrder, SystemAssumption
  <2>3. \A d \in Device : sync[d].pc = "idle" /\ syncPut[d] = None
    BY DEF Init, Idle
  <2> QED
    BY <2>1, <2>2, <2>3 DEF PushedInv, PendingCoversEdits
<1>2. TypeOK /\ Inv /\ webCopy = None /\ [Next]_vars => Inv'
  BY TracedStep, StampsStep, PushedStep
<1>3. Inv => PendingCoversEdits
  BY DEF PushedInv
<1> QED
  BY <1>1, <1>2, <1>3, TypeCorrect, NoWebCopy, PTL DEF Spec

---------------------------------------------------------------------------
(* The checkpoint follows the store, and the store only climbs             *)

\* A device with store `mine`, engine `engine`, and writes `put` of the
\* engine and `edit` of the editor on their way: what the engine is about to
\* store covers what is stored, and what the reply carried is in the store
\* once it is crossed off.
StoreOK(mine, engine, put, edit) ==
  /\ edit # None => engine.pc = "idle"
  /\ put # None =>
       /\ engine.pc \in {"apply", "ack"}
       /\ put.id \in engine.todo
       /\ mine[put.id] # None => Covers(put.record, mine[put.id])
       /\ engine.pc = "apply" => Covers(put.record, engine.table[put.id])
  /\ engine.pc = "apply" =>
       \A id \in IdsOf(engine.table) \ engine.todo : HoldsIn(mine, id, engine.table[id])

\* The inductive invariant while nobody edits during a sync.
StoreInv == \A d \in Device : StoreOK(local[d], sync[d], syncPut[d], editPut[d])

\* A step of one device.
LEMMA StoreOfOne ==
  ASSUME StoreInv, NEW d \in Device,
         \A e \in Device : e # d =>
           /\ local'[e] = local[e] /\ sync'[e] = sync[e]
           /\ syncPut'[e] = syncPut[e] /\ editPut'[e] = editPut[e],
         StoreOK(local'[d], sync'[d], syncPut'[d], editPut'[d])
  PROVE  StoreInv'
  BY DEF StoreInv

\* An edit finds the engine idle and nothing on its way to the store.
LEMMA EditorKeepsStore ==
  ASSUME TypeOK, StoreInv, ~EditsDuringSync, NEW d \in Device, Edit(d) \/ EditPut(d)
  PROVE  StoreInv'
<1>1. sync' = sync /\ syncPut' = syncPut
  BY DEF Edit, Create, Mutate, Remove, EditPut
<1>2. sync[d].pc = "idle"
  BY DEF Edit, Create, Mutate, Remove, MayEdit, EditPut, StoreInv, StoreOK
<1>3. \A e \in Device : e # d => local'[e] = local[e] /\ editPut'[e] = editPut[e]
  <2>1. CASE EditPut(d)
    BY <2>1 DEF EditPut, TypeOK
  <2>2. ASSUME NEW id \in Id, NEW value \in Value, Create(d, id, value)
        PROVE  \A e \in Device : e # d => local'[e] = local[e] /\ editPut'[e] = editPut[e]
    BY <2>2 DEF Create, TypeOK
  <2>3. ASSUME NEW id \in Id, \E record : editPut' = [editPut EXCEPT ![d] = record],
               local' = local
        PROVE  \A e \in Device : e # d => local'[e] = local[e] /\ editPut'[e] = editPut[e]
    BY <2>3 DEF TypeOK
  <2> QED
    BY <2>1, <2>2, <2>3 DEF Edit, Mutate, Remove
<1>4. StoreOK(local'[d], sync'[d], syncPut'[d], editPut'[d])
  <2>1. syncPut[d] = None
    BY <1>2 DEF StoreInv, StoreOK
  <2> QED
    BY <1>1, <1>2, <2>1 DEF StoreOK
<1> QED
  BY <1>1, <1>3, <1>4, StoreOfOne

\* A fault leaves the store alone and the engine as it was or idle.
LEMMA FaultKeepsStore ==
  ASSUME TypeOK, StoreInv,
         \/ \E d \in Device : RequestFails(d) \/ Crash(d)
         \/ \E batch \in late : LatePush(batch)
  PROVE  StoreInv'
<1> USE DEF serverVars, deviceVars
<1>1. ASSUME NEW d \in Device, RequestFails(d) \/ Crash(d)
      PROVE  StoreInv'
  <2>1. /\ local' = local /\ sync' = [sync EXCEPT ![d] = Idle]
        /\ \/ syncPut' = syncPut /\ sync[d].pc \in {"pull", "push"}
           \/ syncPut' = [syncPut EXCEPT ![d] = None]
        /\ editPut' = editPut \/ editPut' = [editPut EXCEPT ![d] = None]
    BY <1>1 DEF RequestFails, Crash
  <2>2. \A e \in Device : e # d =>
          /\ local'[e] = local[e] /\ sync'[e] = sync[e]
          /\ syncPut'[e] = syncPut[e] /\ editPut'[e] = editPut[e]
    BY <2>1 DEF TypeOK
  <2>3. sync'[d].pc = "idle"
    BY <2>1 DEF TypeOK, Idle
  <2>4. syncPut'[d] = None
    BY <2>1 DEF TypeOK, StoreInv, StoreOK
  <2>5. StoreOK(local'[d], sync'[d], syncPut'[d], editPut'[d])
    BY <2>3, <2>4 DEF StoreOK
  <2> QED
    BY <2>2, <2>5, StoreOfOne
<1>2. ASSUME NEW batch \in late, LatePush(batch)
      PROVE  StoreInv'
  BY <1>2 DEF LatePush, StoreInv
<1> QED
  BY <1>1, <1>2

\* Every step of a sync: replies are crossed off as they are stored.
LEMMA SyncKeepsStore ==
  ASSUME TypeOK, StoreInv, ~EditsDuringSync, NEW d \in Device, StartSync(d) \/ SyncStep(d)
  PROVE  StoreInv'
<1> USE DEF serverVars, deviceVars
<1> DEFINE Goal == StoreInv'
<1>0. /\ sync \in [Device -> SyncState]
      /\ sync[d] \in SyncStates
      /\ sync[d].table \in Table
      /\ sync[d].todo \subseteq IdsOf(sync[d].table)
      /\ \A id \in Id : local[d][id] \in Record \cup {None}
      /\ DOMAIN syncPut = Device
      /\ StoreOK(local[d], sync[d], syncPut[d], editPut[d])
  BY DEF TypeOK, SyncState, SyncStates, Table, StoreInv
<1>1. ASSUME NEW engine \in SyncStates, sync' = [sync EXCEPT ![d] = engine],
             local' = local, editPut' = editPut, syncPut' = syncPut,
             StoreOK(local[d], engine, syncPut[d], editPut[d])
      PROVE  Goal
  <2>1. \A e \in Device : e # d => sync'[e] = sync[e]
    BY <1>0, <1>1
  <2>2. sync'[d] = engine
    BY <1>0, <1>1
  <2> QED
    BY <1>1, <2>1, <2>2, StoreOfOne
<1>2. ASSUME NEW put, syncPut' = [syncPut EXCEPT ![d] = put],
             local' = local, editPut' = editPut, sync' = sync,
             StoreOK(local[d], sync[d], put, editPut[d])
      PROVE  Goal
  <2>1. \A e \in Device : e # d => syncPut'[e] = syncPut[e]
    BY <1>0, <1>2
  <2>2. syncPut'[d] = put
    BY <1>0, <1>2
  <2> QED
    BY <1>2, <2>1, <2>2, StoreOfOne
<1> SUFFICES Goal
  OBVIOUS
<1> HIDE DEF Goal
\* The engine between two rounds of work, with nothing on its way.
<1>3. ASSUME NEW engine \in SyncStates, sync' = [sync EXCEPT ![d] = engine],
             local' = local, editPut' = editPut, syncPut' = syncPut,
             syncPut[d] = None, engine.pc \in {"idle", "pull", "scan", "push", "ack"},
             editPut[d] = None \/ engine.pc = "idle"
      PROVE  Goal
  <2>1. StoreOK(local[d], engine, syncPut[d], editPut[d])
    BY <1>3 DEF StoreOK
  <2> QED
    BY <1>1, <1>3, <2>1
<1>4. CASE StartSync(d)
  <2> DEFINE engine == [Idle EXCEPT !.pc = "pull", !.cursor = checkpoint[d]]
  <2>1. engine \in SyncStates /\ engine.pc = "pull"
    BY IdleType DEF SyncStates, Idle, TypeOK
  <2>2. sync' = [sync EXCEPT ![d] = engine]
    BY <1>4 DEF StartSync
  <2> HIDE DEF engine
  <2>3. syncPut[d] = None /\ editPut[d] = None
    BY <1>0, <1>4 DEF StartSync, StoreOK
  <2> QED
    BY <1>3, <1>4, <2>1, <2>2, <2>3 DEF StartSync
<1>5. CASE ServerPull(d)
  <2> DEFINE ids == DeltaIds(sync[d].cursor)
             changes == [id \in Id |-> IF id \in ids THEN rows[id] ELSE None]
             reply == [pc |-> "apply", cursor |-> ServerNow, table |-> changes, todo |-> ids]
  <2>1. ids \subseteq Id /\ changes \in Table /\ ServerNow \in Nat
    BY ClockTypes DEF DeltaIds, FirstIds, IdsOf, TypeOK, Table
  <2>2. IdsOf(changes) \subseteq ids
    BY DEF IdsOf
  <2>3. sync' = [sync EXCEPT ![d] = reply]
    BY <1>5 DEF ServerPull
  <2> HIDE DEF ids, changes
  <2>4. reply \in SyncStates
    BY <2>1 DEF SyncStates
  <2>5. syncPut[d] = None /\ editPut[d] = None
    BY <1>0, <1>5 DEF ServerPull, StoreOK
  <2>6. StoreOK(local[d], reply, syncPut[d], editPut[d])
    BY <2>2, <2>5 DEF StoreOK
  <2>7. local' = local /\ editPut' = editPut /\ syncPut' = syncPut
    BY <1>5 DEF ServerPull
  <2> HIDE DEF reply
  <2> QED
    BY <1>1, <2>3, <2>4, <2>6, <2>7
<1>6. CASE SetCheckpoint(d)
  <2> DEFINE engine == [Idle EXCEPT !.pc = "scan"]
  <2>1. engine \in SyncStates /\ engine.pc = "scan"
    BY IdleType DEF SyncStates, Idle
  <2>2. sync' = [sync EXCEPT ![d] = engine]
    BY <1>6 DEF SetCheckpoint
  <2> HIDE DEF engine
  <2>3. syncPut[d] = None /\ editPut[d] = None
    BY <1>0, <1>6 DEF SetCheckpoint, StoreOK
  <2> QED
    BY <1>3, <1>6, <2>1, <2>2, <2>3 DEF SetCheckpoint
<1>7. CASE ScanPending(d)
  <2> DEFINE batch   == [id \in Id |-> IF id \in pending[d] THEN local[d][id] ELSE None]
             pushing == [Idle EXCEPT !.pc = "push", !.table = batch]
             engine  == IF pending[d] = {} THEN Idle ELSE pushing
  <2>1. batch \in Table
    BY DEF TypeOK, Table
  <2> HIDE DEF batch
  <2>2. pushing \in SyncStates /\ pushing.pc = "push"
    BY <2>1, IdleType DEF SyncStates, Idle
  <2>3. Idle \in SyncStates /\ Idle.pc = "idle"
    BY IdleType DEF SyncStates, Idle
  <2>4. sync' = [sync EXCEPT ![d] = engine]
    BY <1>7 DEF ScanPending, batch
  <2> HIDE DEF pushing
  <2>5. engine \in SyncStates /\ engine.pc \in {"idle", "push"}
    BY <2>2, <2>3
  <2> HIDE DEF engine
  <2>6. syncPut[d] = None /\ editPut[d] = None
    BY <1>0, <1>7 DEF ScanPending, StoreOK
  <2> QED
    BY <1>3, <1>7, <2>4, <2>5, <2>6 DEF ScanPending
<1>8. CASE ServerPush(d)
  <2> DEFINE taken  == {id \in IdsOf(sync[d].table) : Accepted(rows[id], sync[d].table[id])}
             engine == [sync[d] EXCEPT !.pc = "ack", !.todo = taken]
  <2>1. taken \subseteq Id
    BY DEF IdsOf
  <2>2. sync' = [sync EXCEPT ![d] = engine]
    BY <1>0, <1>8 DEF ServerPush
  <2> HIDE DEF taken
  <2>3. engine \in SyncStates /\ engine.pc = "ack"
    BY <1>0, <2>1 DEF SyncStates
  <2> HIDE DEF engine
  <2>4. syncPut[d] = None /\ editPut[d] = None
    BY <1>0, <1>8 DEF ServerPush, StoreOK
  <2> QED
    BY <1>3, <1>8, <2>2, <2>3, <2>4 DEF ServerPush
<1>9. CASE ServerRejectsBatch(d) \/ FinishSync(d)
  <2>1. Idle \in SyncStates /\ Idle.pc = "idle"
    BY IdleType DEF SyncStates, Idle
  <2>2. syncPut[d] = None
    BY <1>0, <1>9 DEF ServerRejectsBatch, FinishSync, StoreOK
  <2>3. /\ sync' = [sync EXCEPT ![d] = Idle]
        /\ local' = local /\ editPut' = editPut /\ syncPut' = syncPut
    BY <1>9 DEF ServerRejectsBatch, FinishSync
  <2> QED
    BY <1>3, <2>1, <2>2, <2>3
\* An id crossed off although nothing is stored for it.
<1>10. ASSUME NEW id \in Id, syncPut[d] = None,
              sync' = [sync EXCEPT ![d].todo = @ \ {id}],
              local' = local, editPut' = editPut, syncPut' = syncPut,
              sync[d].pc = "apply" => HoldsIn(local[d], id, sync[d].table[id])
       PROVE  Goal
  <2> DEFINE engine == [sync[d] EXCEPT !.todo = @ \ {id}]
  <2>1. /\ engine \in SyncStates /\ engine.pc = sync[d].pc /\ engine.table = sync[d].table
        /\ engine.todo = sync[d].todo \ {id}
    BY <1>0 DEF SyncStates
  <2>2. sync' = [sync EXCEPT ![d] = engine]
    BY <1>0, <1>10
  <2> HIDE DEF engine
  <2>3. StoreOK(local[d], engine, syncPut[d], editPut[d])
    BY <1>0, <1>10, <2>1 DEF StoreOK
  <2> QED
    BY <1>1, <1>10, <2>1, <2>2, <2>3
\* A record set out for the store.
<1>11. ASSUME NEW id \in sync[d].todo, NEW record, NEW flag,
              [id |-> id, record |-> record, pending |-> flag] # None,
              sync[d].pc \in {"apply", "ack"},
              local[d][id] # None => Covers(record, local[d][id]),
              sync[d].pc = "apply" => Covers(record, sync[d].table[id]),
              local' = local, editPut' = editPut, sync' = sync,
              syncPut' = [syncPut EXCEPT ![d] = [id |-> id, record |-> record, pending |-> flag]]
       PROVE  Goal
  <2> DEFINE put == [id |-> id, record |-> record, pending |-> flag]
  <2>1. put.id = id /\ put.record = record
    OBVIOUS
  <2>2. syncPut' = [syncPut EXCEPT ![d] = put]
    BY <1>11
  <2> HIDE DEF put
  <2>3. StoreOK(local[d], sync[d], put, editPut[d])
    BY <1>0, <1>11, <2>1 DEF StoreOK
  <2> QED
    BY <1>2, <1>11, <2>2, <2>3
<1>12. ASSUME NEW id \in Id, ApplyRemote(d, id)
       PROVE  Goal
  <2> DEFINE mine   == local[d][id]
             remote == sync[d].table[id]
             merged == MergeRecord(mine, remote)
             still  == id \in pending[d] /\ LocalIsAhead(mine, remote)
             put(record, flag) == [id |-> id, record |-> record, pending |-> flag]
  <2>1. /\ sync[d].pc = "apply" /\ id \in sync[d].todo /\ syncPut[d] = None
        /\ local' = local /\ editPut' = editPut
        /\ \/ /\ mine = None /\ sync' = sync
              /\ syncPut' = [syncPut EXCEPT ![d] = put(remote, FALSE)]
           \/ /\ mine # None /\ sync' = sync
              /\ syncPut' = [syncPut EXCEPT ![d] = put(merged, still)]
           \/ /\ mine # None /\ ~MergeChanged(mine, remote)
              /\ sync' = [sync EXCEPT ![d].todo = @ \ {id}] /\ syncPut' = syncPut
    BY <1>12 DEF ApplyRemote
  <2>2. mine \in Record \cup {None} /\ remote \in Record
    BY <1>0, <2>1 DEF Table, IdsOf
  <2>3. Covers(remote, remote)
    BY <2>2, CoversOrder
  <2>4. mine # None => merged \in Record /\ Covers(merged, mine) /\ Covers(merged, remote)
    BY <2>2, MergeType, MergeCovers
  <2>5. mine # None /\ ~MergeChanged(mine, remote) => Covers(mine, remote)
    BY <2>2, UnchangedLocallyIsCovered
  <2>6. /\ put(remote, FALSE) # None
        /\ mine # None => put(merged, still) # None
    <3>1. still \in BOOLEAN
      BY DEF LocalIsAhead
    <3> HIDE DEF mine, remote, merged, still
    <3>2. put(remote, FALSE) \in [id : Id, record : Record, pending : BOOLEAN]
      BY <2>2
    <3>3. mine # None => put(merged, still) \in [id : Id, record : Record, pending : BOOLEAN]
      BY <2>4, <3>1
    <3> HIDE DEF put
    <3> QED
      BY <3>2, <3>3, SystemAssumption
  <2> HIDE DEF merged, still
  <2>7. CASE mine = None /\ sync' = sync
             /\ syncPut' = [syncPut EXCEPT ![d] = put(remote, FALSE)]
    BY <1>11, <2>1, <2>3, <2>6, <2>7
  <2>8. CASE mine # None /\ sync' = sync
             /\ syncPut' = [syncPut EXCEPT ![d] = put(merged, still)]
    BY <1>11, <2>1, <2>4, <2>6, <2>8
  <2>9. CASE /\ mine # None /\ ~MergeChanged(mine, remote)
             /\ sync' = [sync EXCEPT ![d].todo = @ \ {id}] /\ syncPut' = syncPut
    <3>1. HoldsIn(local[d], id, sync[d].table[id])
      BY <2>5, <2>9 DEF HoldsIn
    <3> QED
      BY <1>10, <2>1, <2>9, <3>1
  <2> QED
    BY <2>1, <2>7, <2>8, <2>9
<1>13. ASSUME NEW id \in Id, Acknowledge(d, id)
       PROVE  Goal
  <2> DEFINE current == local[d][id]
             put     == [id |-> id, record |-> current, pending |-> FALSE]
  <2>1. /\ sync[d].pc = "ack" /\ id \in sync[d].todo /\ syncPut[d] = None
        /\ local' = local /\ editPut' = editPut
        /\ \/ /\ current # None /\ sync' = sync
              /\ syncPut' = [syncPut EXCEPT ![d] = put]
           \/ sync' = [sync EXCEPT ![d].todo = @ \ {id}] /\ syncPut' = syncPut
    BY <1>13 DEF Acknowledge
  <2>2. current # None => Covers(current, current) /\ put # None
    <3>1. current # None => put \in [id : Id, record : Record, pending : BOOLEAN]
      BY <1>0
    <3> HIDE DEF put
    <3> QED
      BY <1>0, <3>1, CoversOrder, SystemAssumption
  <2>3. CASE current # None /\ sync' = sync /\ syncPut' = [syncPut EXCEPT ![d] = put]
    BY <1>11, <2>1, <2>2, <2>3
  <2>4. CASE sync' = [sync EXCEPT ![d].todo = @ \ {id}] /\ syncPut' = syncPut
    BY <1>10, <2>1, <2>4
  <2> QED
    BY <2>1, <2>3, <2>4
<1>14. CASE SyncPut(d)
  <2> DEFINE id     == syncPut[d].id
             record == syncPut[d].record
             stored == [local[d] EXCEPT ![id] = record]
             engine == [sync[d] EXCEPT !.todo = @ \ {id}]
  <2>1. /\ syncPut[d] # None /\ id \in Id /\ record \in Record
        /\ local' = [local EXCEPT ![d] = stored]
        /\ syncPut' = [syncPut EXCEPT ![d] = None]
        /\ sync' = [sync EXCEPT ![d] = engine]
        /\ editPut' = editPut
    BY <1>0, <1>14 DEF SyncPut, TypeOK
  <2>2. /\ engine.pc = sync[d].pc /\ engine.table = sync[d].table
        /\ engine.todo = sync[d].todo \ {id}
    BY <1>0 DEF SyncStates
  <2>3. \A i \in Id : stored[i] = IF i = id THEN record ELSE local[d][i]
    BY DEF TypeOK, Table
  <2> HIDE DEF stored, engine, id, record
  <2>4. engine.pc = "apply" =>
          \A i \in IdsOf(engine.table) \ engine.todo : HoldsIn(stored, i, engine.table[i])
    <3> SUFFICES ASSUME engine.pc = "apply",
                        NEW i \in IdsOf(engine.table) \ engine.todo
                 PROVE  HoldsIn(stored, i, engine.table[i])
      OBVIOUS
    <3>1. CASE i = id
      <4>1. Covers(record, engine.table[i])
        BY <1>0, <2>1, <2>2, <3>1 DEF StoreOK, id, record
      <4> QED
        BY <2>1, <2>3, <3>1, <4>1, SystemAssumption DEF HoldsIn
    <3>2. CASE i # id
      <4>1. HoldsIn(local[d], i, engine.table[i])
        BY <1>0, <2>2, <3>2 DEF StoreOK
      <4> QED
        BY <2>3, <3>2, <4>1 DEF HoldsIn, IdsOf
    <3> QED
      BY <3>1, <3>2
  <2>5. StoreOK(stored, engine, None, editPut[d])
    BY <1>0, <2>2, <2>4 DEF StoreOK
  <2>6. \A e \in Device : e # d =>
          /\ local'[e] = local[e] /\ sync'[e] = sync[e]
          /\ syncPut'[e] = syncPut[e] /\ editPut'[e] = editPut[e]
    BY <1>0, <2>1 DEF TypeOK
  <2>7. local'[d] = stored /\ sync'[d] = engine /\ syncPut'[d] = None
    BY <1>0, <2>1 DEF TypeOK
  <2>8. StoreOK(local'[d], sync'[d], syncPut'[d], editPut'[d])
    BY <2>1, <2>5, <2>7
  <2> QED
    BY <2>6, <2>8, StoreOfOne DEF Goal
<1> QED
  BY <1>4, <1>5, <1>6, <1>7, <1>8, <1>9, <1>12, <1>13, <1>14 DEF SyncStep

\* Every step keeps the store's invariant.
LEMMA StoreStep ==
  ASSUME ~EditsDuringSync, TypeOK, StoreInv, [Next]_vars
  PROVE  StoreInv'
<1>1. ASSUME UNCHANGED <<local, sync, syncPut, editPut>> PROVE StoreInv'
  BY <1>1 DEF StoreInv
<1>2. CASE Tick
  BY <1>1, <1>2 DEF Tick, serverVars, deviceVars
<1>3. CASE UNCHANGED vars
  BY <1>1, <1>3 DEF vars
<1>4. CASE Web
  BY <1>1, <1>4 DEF Web, WebCreate, WebLoad, WebSave, WebRemove, deviceVars
<1>5. ASSUME NEW d \in Device, Edit(d) \/ EditPut(d) PROVE StoreInv'
  BY <1>5, EditorKeepsStore
<1>6. ASSUME NEW d \in Device, StartSync(d) \/ SyncStep(d) PROVE StoreInv'
  BY <1>6, SyncKeepsStore
<1>7. ASSUME NEW d \in Device, RequestFails(d) \/ Crash(d) PROVE StoreInv'
  BY <1>7, FaultKeepsStore
<1>8. ASSUME NEW batch \in late, LatePush(batch) PROVE StoreInv'
  BY <1>8, FaultKeepsStore
<1> QED
  BY <1>2, <1>3, <1>4, <1>5, <1>6, <1>7, <1>8 DEF Next

LEMMA InitStore == Init => StoreInv
  BY DEF Init, StoreInv, StoreOK, Idle

\* The only step that moves a checkpoint finds every change of the reply
\* stored.
LEMMA CheckpointStep ==
  ASSUME TypeOK, StoreInv, [Next]_vars,
         NEW d \in Device, checkpoint'[d] # checkpoint[d], NEW id \in IdsOf(sync[d].table)
  PROVE  local[d][id] # None /\ Covers(local[d][id], sync[d].table[id])
<1> USE DEF serverVars, deviceVars
<1>1. PICK e \in Device : SetCheckpoint(e)
  <2>1. ~ UNCHANGED checkpoint
    OBVIOUS
  <2>2. \/ ~ (Tick \/ Web \/ UNCHANGED vars)
    BY <2>1 DEF Tick, Web, WebCreate, WebLoad, WebSave, WebRemove, vars
  <2>3. ASSUME NEW e \in Device PROVE ~ (Edit(e) \/ EditPut(e))
    BY <2>1 DEF Edit, Create, Mutate, Remove, EditPut
  <2>4. ASSUME NEW e \in Device PROVE ~ (RequestFails(e) \/ Crash(e))
    BY <2>1 DEF RequestFails, Crash
  <2>5. ASSUME NEW batch \in late PROVE ~ LatePush(batch)
    BY <2>1 DEF LatePush
  <2>6. ASSUME NEW e \in Device, StartSync(e) \/ SyncStep(e) PROVE SetCheckpoint(e)
    BY <2>1, <2>6 DEF StartSync, SyncStep, ServerPull, ApplyRemote, SyncPut, ScanPending,
                      ServerPush, ServerRejectsBatch, Acknowledge, FinishSync
  <2> QED
    BY <2>2, <2>3, <2>4, <2>5, <2>6 DEF Next
<1>2. e = d
  BY <1>1 DEF SetCheckpoint, TypeOK
<1>3. sync[d].pc = "apply" /\ sync[d].todo = {}
  BY <1>1, <1>2 DEF SetCheckpoint
<1> QED
  BY <1>3 DEF StoreInv, StoreOK, HoldsIn

\* As long as nobody edits during a sync, the checkpoint moves only when
\* every change of the reply is in the store, whatever the web client does
\* and whatever is lost, late or killed (CheckpointAfterStore, for every
\* instance).
THEOREM CheckpointFollowsStore ==
  ASSUME ~EditsDuringSync
  PROVE  Spec => CheckpointAfterStore
<1> DEFINE Follows == \A d \in Device : checkpoint'[d] # checkpoint[d] =>
                        \A id \in IdsOf(sync[d].table) :
                          local[d][id] # None /\ Covers(local[d][id], sync[d].table[id])
<1>1. TypeOK /\ StoreInv /\ [Next]_vars => StoreInv' /\ [Follows]_vars
  BY StoreStep, CheckpointStep
<1> QED
  BY <1>1, InitStore, TypeCorrect, PTL DEF Spec, CheckpointAfterStore

---------------------------------------------------------------------------
(* The store only climbs                                                   *)

\* A sync takes nothing back from the store it works on.
LEMMA SyncClimbs ==
  ASSUME TypeOK, StoreInv, NEW e \in Device, StartSync(e) \/ SyncStep(e),
         NEW d \in Device, NEW id \in Id, local[d][id] # None
  PROVE  local'[d][id] # None /\ Covers(local'[d][id], local[d][id])
<1>1. Covers(local[d][id], local[d][id])
  BY CoversOrder DEF TypeOK, Table
<1>2. CASE SyncPut(e)
  <2>1. /\ syncPut[e] # None /\ syncPut[e].id \in Id /\ syncPut[e].record \in Record
        /\ local' = [local EXCEPT ![e][syncPut[e].id] = syncPut[e].record]
    BY <1>2 DEF SyncPut, TypeOK
  <2>2. CASE d = e /\ id = syncPut[e].id
    <3>1. local'[d][id] = syncPut[e].record
      BY <2>1, <2>2 DEF TypeOK, Table
    <3>2. Covers(syncPut[e].record, local[d][id])
      BY <2>1, <2>2 DEF StoreInv, StoreOK
    <3> QED
      BY <2>1, <3>1, <3>2, SystemAssumption
  <2>3. CASE ~(d = e /\ id = syncPut[e].id)
    <3>1. local'[d][id] = local[d][id]
      BY <2>1, <2>3 DEF TypeOK, Table
    <3> QED
      BY <1>1, <3>1
  <2> QED
    BY <2>2, <2>3
<1>3. CASE ~SyncPut(e)
  <2>1. local' = local
    BY <1>3 DEF StartSync, SyncStep, ServerPull, ApplyRemote, SetCheckpoint, ScanPending,
                ServerPush, ServerRejectsBatch, Acknowledge, FinishSync, deviceVars
  <2> QED
    BY <1>1, <2>1
<1> QED
  BY <1>2, <1>3

\* Above the wall clock the stamps issued leave no gap.
Gapless ==
  /\ \A d \in Device : clockLast[d] = 0 \/ \E w \in issued : w.clock = clockLast[d]
  /\ \A d \in Device, w \in issued : \A k \in 1 .. w.clock :
       Wall(d) <= k => \E v \in issued : v.clock = k

\* What the editor is about to store covers what is stored.
EditClimbs ==
  \A d \in Device : editPut[d] # None =>
    /\ local[d][editPut[d].id] # None
    /\ Covers(editPut[d].record, local[d][editPut[d].id])

\* So a stamp nobody has used is later than all of them.
LEMMA UnusedIsLatest ==
  ASSUME TypeOK, Gapless, NEW d \in Device, \A w \in issued : w.clock # Now(d)
  PROVE  \A w \in issued : w.clock < Now(d)
<1>1. clockLast[d] \in Nat /\ Now(d) \in Nat
  BY ClockTypes DEF TypeOK
<1>2. Wall(d) \in Nat
  <2>1. MicrosPerTick * time \in Nat /\ Skew[d] \in Nat
    BY SystemAssumption DEF TypeOK
  <2> QED
    BY <2>1 DEF Wall
<1>3. Wall(d) <= Now(d) /\ 1 <= Now(d)
  BY <1>1, <1>2 DEF Now
<1> SUFFICES ASSUME NEW w \in issued, ~ (w.clock < Now(d)) PROVE FALSE
  OBVIOUS
<1>4. w.clock \in Nat
  BY DEF TypeOK, Write
<1>5. Now(d) \in 1 .. w.clock
  BY <1>1, <1>3, <1>4
<1>6. \E v \in issued : v.clock = Now(d)
  BY <1>3, <1>5 DEF Gapless
<1> QED
  BY <1>6

SameSkew == \A d, e \in Device : Skew[d] = Skew[e]

\* What an edit does to the stamps.
LEMMA EditStamps ==
  ASSUME TypeOK, ~StampsCollide, Field # {}, \A patch \in Patch : DOMAIN patch # {},
         NEW d \in Device, Edit(d)
  PROVE  /\ time' = time
         /\ \A w \in issued : w.clock # Now(d)
         /\ issued \subseteq issued'
         /\ \A w \in issued' : w \in issued \/ w.clock = Now(d)
         /\ \E w \in issued' : w.clock = Now(d)
         /\ clockLast' = [clockLast EXCEPT ![d] = Now(d)]
<1>1. /\ time' = time
      /\ \A w \in issued : w.clock # Now(d)
      /\ clockLast' = [clockLast EXCEPT ![d] = Now(d)]
  BY DEF Edit, Create, Mutate, Remove, MayEdit
<1>2. ASSUME NEW writes, issued' = issued \cup writes, writes # {},
             \A w \in writes : w.clock = Now(d)
      PROVE  /\ issued \subseteq issued'
             /\ \A w \in issued' : w \in issued \/ w.clock = Now(d)
             /\ \E w \in issued' : w.clock = Now(d)
  BY <1>2
<1> DEFINE Goal == /\ issued \subseteq issued'
                   /\ \A w \in issued' : w \in issued \/ w.clock = Now(d)
                   /\ \E w \in issued' : w.clock = Now(d)
<1>3. ASSUME NEW id \in Id, NEW value \in Value, Create(d, id, value)
      PROVE  Goal
  <2> DEFINE writes == {[id |-> id, register |-> f, clock |-> Now(d), value |-> value]
                          : f \in Field}
  <2>1. issued' = issued \cup writes
    BY <1>3 DEF Create
  <2>2. writes # {} /\ \A w \in writes : w.clock = Now(d)
    <3>1. PICK f \in Field : TRUE
      OBVIOUS
    <3>2. [id |-> id, register |-> f, clock |-> Now(d), value |-> value] \in writes
      OBVIOUS
    <3>3. \A w \in writes : w.clock = Now(d)
      OBVIOUS
    <3> QED
      BY <3>2, <3>3
  <2> HIDE DEF writes
  <2> QED
    BY <1>2, <2>1, <2>2
<1>4. ASSUME NEW id \in Id, NEW patch \in Patch, Mutate(d, id, patch)
      PROVE  Goal
  <2> DEFINE writes == {[id |-> id, register |-> f, clock |-> Now(d), value |-> patch[f]]
                          : f \in DOMAIN patch}
  <2>1. issued' = issued \cup writes
    BY <1>4 DEF Mutate
  <2>2. writes # {} /\ \A w \in writes : w.clock = Now(d)
    <3>1. PICK f \in DOMAIN patch : TRUE
      OBVIOUS
    <3>2. [id |-> id, register |-> f, clock |-> Now(d), value |-> patch[f]] \in writes
      OBVIOUS
    <3>3. \A w \in writes : w.clock = Now(d)
      OBVIOUS
    <3> QED
      BY <3>2, <3>3
  <2> HIDE DEF writes
  <2> QED
    BY <1>2, <2>1, <2>2
<1>5. ASSUME NEW id \in Id, Remove(d, id)
      PROVE  Goal
  <2> DEFINE writes == {[id |-> id, register |-> Tombstone, clock |-> Now(d),
                         value |-> NullRank]}
  <2>1. issued' = issued \cup writes
    BY <1>5 DEF Remove
  <2>2. writes # {} /\ \A w \in writes : w.clock = Now(d)
    OBVIOUS
  <2> HIDE DEF writes
  <2> QED
    BY <1>2, <2>1, <2>2
<1> QED
  BY <1>1, <1>3, <1>4, <1>5 DEF Edit

\* An edit leaves no gap: its stamp is the wall clock or follows the last.
LEMMA EditKeepsGapless ==
  ASSUME TypeOK, Gapless, SameSkew, ~StampsCollide, Field # {},
         \A patch \in Patch : DOMAIN patch # {}, NEW d \in Device, Edit(d)
  PROVE  Gapless'
<1>1. /\ time' = time
      /\ issued \subseteq issued'
      /\ \A w \in issued' : w \in issued \/ w.clock = Now(d)
      /\ \E w \in issued' : w.clock = Now(d)
      /\ clockLast' = [clockLast EXCEPT ![d] = Now(d)]
  BY EditStamps
<1>2. \A e \in Device : Wall(e)' = Wall(e) /\ Wall(e) = Wall(d)
  BY <1>1 DEF Wall, SameSkew
<1>3. ASSUME NEW e \in Device
      PROVE  clockLast'[e] = 0 \/ \E w \in issued' : w.clock = clockLast'[e]
  <2>1. clockLast'[e] = IF e = d THEN Now(d) ELSE clockLast[e]
    BY <1>1 DEF TypeOK
  <2> QED
    BY <1>1, <2>1 DEF Gapless
<1>4. ASSUME NEW e \in Device, NEW w \in issued', NEW k \in 1 .. w.clock, Wall(e) <= k
      PROVE  \E v \in issued' : v.clock = k
  <2>1. CASE w \in issued
    BY <1>1, <1>4, <2>1 DEF Gapless
  <2>2. CASE w.clock = Now(d) /\ k = Now(d)
    BY <1>1, <2>2
  <2>3. CASE w.clock = Now(d) /\ k # Now(d)
    <3>1. clockLast[d] \in Nat /\ Now(d) \in Nat /\ Wall(d) <= k
      BY <1>2, <1>4, ClockTypes DEF TypeOK
    <3>2. k \in Nat /\ 1 <= k /\ k < Now(d)
      BY <2>3, <3>1
    <3>3. Now(d) = clockLast[d] + 1
      BY <3>1, <3>2 DEF Now
    <3>4. clockLast[d] # 0 /\ k \in 1 .. clockLast[d]
      BY <3>1, <3>2, <3>3
    <3>5. PICK u \in issued : u.clock = clockLast[d]
      BY <3>4 DEF Gapless
    <3>6. \E v \in issued : v.clock = k
      BY <1>4, <3>4, <3>5 DEF Gapless
    <3> QED
      BY <1>1, <3>6
  <2> QED
    BY <1>1, <2>1, <2>2, <2>3
<1> QED
  BY <1>2, <1>3, <1>4 DEF Gapless

\* Every step leaves no gap.
LEMMA GaplessStep ==
  ASSUME SameSkew, ~StampsCollide, Field # {}, \A patch \in Patch : DOMAIN patch # {},
         TypeOK, Gapless, [Next]_vars
  PROVE  Gapless'
<1> USE DEF serverVars, deviceVars
<1>1. ASSUME time' \in {time, time + 1}, issued' = issued,
             \A d \in Device : clockLast'[d] \in {0, clockLast[d]}
      PROVE  Gapless'
  <2>1. ASSUME NEW d \in Device PROVE Wall(d) \in Nat /\ Wall(d)' \in Nat /\ Wall(d) <= Wall(d)'
    <3>1. MicrosPerTick \in Nat /\ time \in Nat /\ Skew[d] \in Nat
      BY SystemAssumption DEF TypeOK
    <3>2. MicrosPerTick * time \in Nat /\ MicrosPerTick * (time + 1) \in Nat
      BY <3>1
    <3>3. MicrosPerTick * (time + 1) = MicrosPerTick * time + MicrosPerTick
      BY <3>1
    <3>4. Wall(d) = MicrosPerTick * time + Skew[d]
          /\ Wall(d)' = MicrosPerTick * time' + Skew[d]
      BY DEF Wall
    <3>5. CASE time' = time
      BY <3>1, <3>2, <3>4, <3>5
    <3>6. CASE time' = time + 1
      BY <3>1, <3>2, <3>3, <3>4, <3>6
    <3> QED
      BY <1>1, <3>5, <3>6
  <2>2. ASSUME NEW d \in Device, NEW w \in issued, NEW k \in 1 .. w.clock, Wall(d)' <= k
        PROVE  \E v \in issued : v.clock = k
    <3>1. w.clock \in Nat
      BY DEF TypeOK, Write
    <3>2. Wall(d) <= k
      BY <2>1, <2>2, <3>1
    <3> QED
      BY <3>2 DEF Gapless
  <2> QED
    BY <1>1, <2>2 DEF Gapless
<1>2. CASE Tick
  BY <1>1, <1>2 DEF Tick
<1>3. CASE UNCHANGED vars
  BY <1>1, <1>3 DEF vars
<1>4. CASE Web
  BY <1>1, <1>4 DEF Web, WebCreate, WebLoad, WebSave, WebRemove
<1>5. ASSUME NEW d \in Device, Edit(d) PROVE Gapless'
  BY <1>5, EditKeepsGapless
<1>6. ASSUME NEW d \in Device, EditPut(d) PROVE Gapless'
  BY <1>1, <1>6 DEF EditPut
<1>7. ASSUME NEW d \in Device, StartSync(d) \/ SyncStep(d) PROVE Gapless'
  BY <1>1, <1>7 DEF StartSync, SyncStep, ServerPull, ApplyRemote, SyncPut, SetCheckpoint,
                    ScanPending, ServerPush, ServerRejectsBatch, Acknowledge, FinishSync
<1>8. ASSUME NEW d \in Device, RequestFails(d) \/ Crash(d) PROVE Gapless'
  <2>1. clockLast' = clockLast \/ clockLast' = [clockLast EXCEPT ![d] = 0]
    BY <1>8 DEF RequestFails, Crash
  <2>2. \A e \in Device : clockLast'[e] \in {0, clockLast[e]}
    BY <2>1 DEF TypeOK
  <2>3. time' = time /\ issued' = issued
    BY <1>8 DEF RequestFails, Crash
  <2> QED
    BY <1>1, <2>2, <2>3
<1>9. ASSUME NEW batch \in late, LatePush(batch) PROVE Gapless'
  BY <1>1, <1>9 DEF LatePush
<1> QED
  BY <1>2, <1>3, <1>4, <1>5, <1>6, <1>7, <1>8, <1>9 DEF Next

\* With a stamp later than all, what an edit writes covers what it read.
LEMMA StampedCovers ==
  ASSUME TypeOK, TracedInv, StampsTell, Gapless, ~StampsCollide, MicrosPerTick > BaseStamp,
         NEW d \in Device, \A w \in issued : w.clock # Now(d),
         NEW id \in Id, local[d][id] # None
  PROVE  /\ local[d][id] \in Record
         /\ \A f \in Field : Now(d) > local[d][id].clocks[f]
         /\ Now(d) > local[d][id].deletedAt
<1>1. Now(d) \in Nat /\ Now(d) > BaseStamp
  BY NowIsLate
<1>2. \A w \in issued : w.clock < Now(d) /\ w.clock \in Nat
  BY UnusedIsLatest DEF TypeOK, Write
<1>3. local[d][id] \in Record
  BY DEF TypeOK, Table
<1>4. TracedBy(issued, id, local[d][id])
  BY DEF TracedInv, TracedTable
<1>5. ASSUME NEW f \in Field PROVE Now(d) > local[d][id].clocks[f]
  <2> DEFINE w == [id |-> id, register |-> f, clock |-> local[d][id].clocks[f],
                   value |-> local[d][id].fields[f]]
  <2>1. local[d][id].clocks[f] \in {0, BaseStamp} \/ w \in issued
    BY <1>4 DEF TracedBy
  <2>2. w \in issued => w.clock < Now(d)
    BY <1>2
  <2>3. w.clock = local[d][id].clocks[f]
    OBVIOUS
  <2>4. local[d][id].clocks[f] \in Nat
    BY <1>3, RecordParts
  <2> HIDE DEF w
  <2> QED
    BY <1>1, <2>1, <2>2, <2>3, <2>4 DEF BaseStamp
<1>6. Now(d) > local[d][id].deletedAt
  <2> DEFINE w == [id |-> id, register |-> Tombstone, clock |-> local[d][id].deletedAt,
                   value |-> NullRank]
  <2>1. local[d][id].deletedAt = 0 \/ w \in issued
    BY <1>4 DEF TracedBy
  <2>2. w \in issued => w.clock < Now(d)
    BY <1>2
  <2>3. w.clock = local[d][id].deletedAt
    OBVIOUS
  <2>4. local[d][id].deletedAt \in Nat
    BY <1>3, RecordParts
  <2> HIDE DEF w
  <2> QED
    BY <1>1, <2>1, <2>2, <2>3, <2>4 DEF BaseStamp
<1> QED
  BY <1>3, <1>5, <1>6

\* The editor sets out only what covers its store.
LEMMA EditorKeepsClimbing ==
  ASSUME TypeOK, TracedInv, StampsTell, Gapless, EditClimbs, ~StampsCollide,
         MicrosPerTick > BaseStamp, NEW d \in Device, Edit(d) \/ EditPut(d)
  PROVE  EditClimbs'
<1>1. ASSUME NEW id \in Id, NEW record, local[d][id] # None,
             Covers(record, local[d][id]), local' = local,
             editPut' = [editPut EXCEPT ![d] = [id |-> id, record |-> record]]
      PROVE  EditClimbs'
  <2>1. ASSUME NEW e \in Device, editPut'[e] # None
        PROVE  /\ local[e][editPut'[e].id] # None
               /\ Covers(editPut'[e].record, local[e][editPut'[e].id])
    <3>1. CASE e = d
      BY <1>1, <3>1 DEF TypeOK
    <3>2. CASE e # d
      BY <1>1, <2>1, <3>2 DEF EditClimbs, TypeOK
    <3> QED
      BY <3>1, <3>2
  <2> QED
    BY <1>1, <2>1 DEF EditClimbs
<1>2. ASSUME NEW id \in Id, NEW value \in Value, Create(d, id, value)
      PROVE  EditClimbs'
  <2>1. editPut[d] = None /\ editPut' = editPut
        /\ \A e \in Device : e # d => local'[e] = local[e]
    BY <1>2 DEF Create, MayEdit, TypeOK
  <2> QED
    BY <2>1 DEF EditClimbs
<1>3. ASSUME NEW id \in Id, NEW patch \in Patch, Mutate(d, id, patch)
      PROVE  EditClimbs'
  <2> DEFINE existing == local[d][id]
             fields == [f \in Field |-> IF f \in DOMAIN patch THEN patch[f]
                                        ELSE existing.fields[f]]
             clocks == [f \in Field |-> IF f \in DOMAIN patch THEN Now(d)
                                        ELSE existing.clocks[f]]
             new == [fields    |-> fields,
                     clocks    |-> clocks,
                     nodeId    |-> d,
                     deletedAt |-> existing.deletedAt]
  <2>1. /\ existing # None /\ local' = local
        /\ \A w \in issued : w.clock # Now(d)
        /\ editPut' = [editPut EXCEPT ![d] = [id |-> id, record |-> new]]
    BY <1>3 DEF Mutate, MayEdit
  <2>2. existing \in Record /\ \A f \in Field : Now(d) > existing.clocks[f]
    BY <2>1, StampedCovers
  <2>3. ASSUME NEW f \in Field
        PROVE  AtLeast(clocks[f], fields[f], existing.clocks[f], existing.fields[f])
    <3>1. existing.clocks[f] \in Nat /\ existing.fields[f] \in Nat
      BY <2>2, RecordParts
    <3> QED
      BY <2>2, <3>1 DEF AtLeast
  <2>4. existing.deletedAt >= existing.deletedAt
    BY <2>2, RecordParts
  <2>5. new.fields = fields /\ new.clocks = clocks /\ new.deletedAt = existing.deletedAt
    OBVIOUS
  <2> HIDE DEF new, fields, clocks, existing
  <2>6. Covers(new, existing)
    BY <2>3, <2>4, <2>5 DEF Covers
  <2>7. local[d][id] # None /\ Covers(new, local[d][id])
    BY <2>1, <2>6 DEF existing
  <2>8. local' = local /\ editPut' = [editPut EXCEPT ![d] = [id |-> id, record |-> new]]
    BY <2>1
  <2> QED
    BY <1>1, <2>7, <2>8
<1>4. ASSUME NEW id \in Id, Remove(d, id)
      PROVE  EditClimbs'
  <2> DEFINE existing == local[d][id]
             new == [existing EXCEPT !.deletedAt = Now(d), !.nodeId = d]
  <2>1. /\ existing # None /\ local' = local
        /\ \A w \in issued : w.clock # Now(d)
        /\ editPut' = [editPut EXCEPT ![d] = [id |-> id, record |-> new]]
    BY <1>4 DEF Remove, MayEdit
  <2>2. existing \in Record /\ Now(d) > existing.deletedAt
    BY <2>1, StampedCovers
  <2>3. Now(d) \in Nat
    BY ClockTypes
  <2>4. /\ new.fields = existing.fields /\ new.clocks = existing.clocks
        /\ new.deletedAt = Now(d)
    BY <2>2 DEF Record
  <2> HIDE DEF new, existing
  <2>5. Covers(existing, existing)
    BY <2>2, CoversOrder
  <2>6. existing.deletedAt \in Nat
    BY <2>2, RecordParts
  <2>7. new.deletedAt >= existing.deletedAt
    BY <2>2, <2>3, <2>4, <2>6
  <2>8. Covers(new, existing)
    BY <2>4, <2>5, <2>7 DEF Covers
  <2>9. local[d][id] # None /\ Covers(new, local[d][id])
    BY <2>1, <2>8 DEF existing
  <2>10. local' = local /\ editPut' = [editPut EXCEPT ![d] = [id |-> id, record |-> new]]
    BY <2>1
  <2> QED
    BY <1>1, <2>9, <2>10
<1>5. CASE EditPut(d)
  <2>1. /\ editPut'[d] = None
        /\ \A e \in Device : e # d => local'[e] = local[e] /\ editPut'[e] = editPut[e]
    BY <1>5 DEF EditPut, TypeOK
  <2> QED
    BY <2>1 DEF EditClimbs
<1> QED
  BY <1>2, <1>3, <1>4, <1>5 DEF Edit

\* Every step keeps what the editor is about to store above its store.
LEMMA ClimbingStep ==
  ASSUME TypeOK, TracedInv, StampsTell, Gapless, StoreInv, EditClimbs, ~StampsCollide,
         MicrosPerTick > BaseStamp, [Next]_vars
  PROVE  EditClimbs'
<1> USE DEF serverVars, deviceVars
<1>1. ASSUME local' = local, \A d \in Device : editPut'[d] \in {None, editPut[d]}
      PROVE  EditClimbs'
  BY <1>1 DEF EditClimbs
<1>2. CASE Tick
  BY <1>1, <1>2 DEF Tick
<1>3. CASE UNCHANGED vars
  BY <1>1, <1>3 DEF vars
<1>4. CASE Web
  BY <1>1, <1>4 DEF Web, WebCreate, WebLoad, WebSave, WebRemove
<1>5. ASSUME NEW d \in Device, Edit(d) \/ EditPut(d) PROVE EditClimbs'
  BY <1>5, EditorKeepsClimbing
<1>6. ASSUME NEW d \in Device, SyncPut(d) PROVE EditClimbs'
  <2>1. editPut' = editPut /\ \A e \in Device : e # d => local'[e] = local[e]
    BY <1>6 DEF SyncPut, TypeOK
  <2>2. editPut[d] = None
    BY <1>6 DEF SyncPut, StoreInv, StoreOK
  <2> QED
    BY <2>1, <2>2 DEF EditClimbs
<1>7. ASSUME NEW d \in Device, StartSync(d) \/ SyncStep(d), ~SyncPut(d) PROVE EditClimbs'
  BY <1>1, <1>7 DEF StartSync, SyncStep, ServerPull, ApplyRemote, SetCheckpoint,
                    ScanPending, ServerPush, ServerRejectsBatch, Acknowledge, FinishSync
<1>8. ASSUME NEW d \in Device, RequestFails(d) \/ Crash(d) PROVE EditClimbs'
  <2>1. editPut' = editPut \/ editPut' = [editPut EXCEPT ![d] = None]
    BY <1>8 DEF RequestFails, Crash
  <2>2. \A e \in Device : editPut'[e] \in {None, editPut[e]}
    BY <2>1 DEF TypeOK
  <2>3. local' = local
    BY <1>8 DEF RequestFails, Crash
  <2> QED
    BY <1>1, <2>2, <2>3
<1>9. ASSUME NEW batch \in late, LatePush(batch) PROVE EditClimbs'
  BY <1>1, <1>9 DEF LatePush
<1> QED
  BY <1>2, <1>3, <1>4, <1>5, <1>6, <1>7, <1>8, <1>9 DEF Next

\* A store gives nothing back, to an edit or to a sync.
LEMMA LocalClimbsStep ==
  ASSUME TypeOK, StoreInv, EditClimbs, [Next]_vars,
         NEW d \in Device, NEW id \in Id, local[d][id] # None
  PROVE  local'[d][id] # None /\ Covers(local'[d][id], local[d][id])
<1> USE DEF serverVars, deviceVars
<1> DEFINE Goal == local'[d][id] # None /\ Covers(local'[d][id], local[d][id])
<1>1. ASSUME local'[d][id] = local[d][id] PROVE Goal
  BY <1>1, CoversOrder DEF TypeOK, Table
<1> SUFFICES Goal
  OBVIOUS
<1> HIDE DEF Goal
<1>2. CASE Tick \/ UNCHANGED vars
  BY <1>1, <1>2 DEF Tick, vars
<1>3. CASE Web
  BY <1>1, <1>3 DEF Web, WebCreate, WebLoad, WebSave, WebRemove
<1>4. ASSUME NEW e \in Device, Edit(e) PROVE Goal
  <2>1. ASSUME NEW i \in Id, NEW value \in Value, Create(e, i, value)
        PROVE  local'[d][id] = local[d][id]
    <3>1. i # id \/ e # d
      BY <2>1 DEF Create
    <3>2. \E record : local' = [local EXCEPT ![e][i] = record]
      BY <2>1 DEF Create
    <3> QED
      BY <3>1, <3>2 DEF TypeOK, Table
  <2>2. ASSUME NEW i \in Id, NEW patch \in Patch, Mutate(e, i, patch)
        PROVE  local'[d][id] = local[d][id]
    BY <2>2 DEF Mutate
  <2>3. ASSUME NEW i \in Id, Remove(e, i)
        PROVE  local'[d][id] = local[d][id]
    BY <2>3 DEF Remove
  <2> QED
    BY <1>1, <1>4, <2>1, <2>2, <2>3 DEF Edit
<1>5. ASSUME NEW e \in Device, EditPut(e) PROVE Goal
  <2>1. /\ editPut[e] # None /\ editPut[e].id \in Id /\ editPut[e].record \in Record
        /\ local' = [local EXCEPT ![e][editPut[e].id] = editPut[e].record]
    BY <1>5 DEF EditPut, TypeOK
  <2>2. CASE d = e /\ id = editPut[e].id
    <3>1. local'[d][id] = editPut[e].record
      BY <2>1, <2>2 DEF TypeOK, Table
    <3>2. Covers(editPut[e].record, local[d][id])
      BY <2>1, <2>2 DEF EditClimbs
    <3> QED
      BY <2>1, <3>1, <3>2, SystemAssumption DEF Goal
  <2>3. CASE ~(d = e /\ id = editPut[e].id)
    <3>1. local'[d][id] = local[d][id]
      BY <2>1, <2>3 DEF TypeOK, Table
    <3> QED
      BY <1>1, <3>1
  <2> QED
    BY <2>2, <2>3
<1>6. ASSUME NEW e \in Device, StartSync(e) \/ SyncStep(e) PROVE Goal
  BY <1>6, SyncClimbs DEF Goal
<1>7. ASSUME NEW e \in Device, RequestFails(e) \/ Crash(e) PROVE Goal
  BY <1>1, <1>7 DEF RequestFails, Crash
<1>8. ASSUME NEW batch \in late, LatePush(batch) PROVE Goal
  BY <1>1, <1>8 DEF LatePush
<1> QED
  BY <1>2, <1>3, <1>4, <1>5, <1>6, <1>7, <1>8 DEF Next

\* As long as only devices write, nobody edits during a sync, wall clocks
\* agree and no two edits share a stamp, a device's own copy loses neither
\* a newer write nor a tombstone, to a merge, an acknowledgement or an edit
\* (LocalClimbs, for every instance).
THEOREM StoreClimbs ==
  ASSUME WebOps = {}, ~EditsDuringSync, ~StampsCollide, SameSkew,
         MicrosPerTick > BaseStamp, Field # {}, \A patch \in Patch : DOMAIN patch # {}
  PROVE  Spec => LocalClimbs
<1> DEFINE Inv == TracedInv /\ StampsTell /\ StoreInv /\ Gapless /\ EditClimbs
           Climbs == \A d \in Device, id \in Id : local[d][id] # None =>
                       local'[d][id] # None /\ Covers(local'[d][id], local[d][id])
<1>1. Init => Inv
  <2> SUFFICES ASSUME Init PROVE StampsTell /\ Gapless /\ EditClimbs
    BY InitTraced, InitStore
  <2> QED
    BY DEF Init, StampsTell, Gapless, EditClimbs
<1>2. TypeOK /\ webCopy = None /\ Inv /\ [Next]_vars => Inv' /\ [Climbs]_vars
  <2> SUFFICES ASSUME TypeOK, webCopy = None, Inv, [Next]_vars
               PROVE  Inv' /\ Climbs
    OBVIOUS
  <2>1. TracedInv' /\ StampsTell' /\ StoreInv'
    BY TracedStep, StampsStep, StoreStep
  <2>2. Gapless'
    BY GaplessStep
  <2>3. EditClimbs'
    BY ClimbingStep
  <2>4. Climbs
    BY LocalClimbsStep
  <2> QED
    BY <2>1, <2>2, <2>3, <2>4
<1> QED
  BY <1>1, <1>2, TypeCorrect, NoWebCopy, PTL DEF Spec, LocalClimbs
=============================================================================
