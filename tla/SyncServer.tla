----------------------------- MODULE SyncServer -----------------------------
(***************************************************************************)
(* The /sync handler as the database runs it: one transaction per request, *)
(* one statement at a time (src/backend/src/sync/sync.service.ts).         *)
(*                                                                         *)
(* SyncSystem takes a whole push for one step.  Here every statement is a  *)
(* step and requests interleave between them, under READ COMMITTED: a      *)
(* statement sees what is committed when it starts, and what its own       *)
(* transaction wrote.  Rows are locked until the transaction ends, a card  *)
(* that is inserted or moved locks its list for key share (the foreign     *)
(* key), and Postgres aborts one of the transactions of a wait cycle.      *)
(*                                                                         *)
(* Ids are ranks in string order.  A change carries the fields the device  *)
(* sent (`given`) and the record made of them.  Keys of the fractional     *)
(* order are BoardOrder's; the delta-pull and the checkpoint, which read   *)
(* only, are SyncSystem's.  Boards stay: a list's own parent is not locked.*)
(***************************************************************************)
EXTENDS LwwMerge, FiniteSets, Sequences

CONSTANTS
  Card, List,    \* ids of the two collections
  Request,       \* the handlers, each serving one request at a time
  Pushes,        \* the sets of changes a device may send
  InitialRows,   \* [Card \cup List -> Record \cup {None}]
  Parent,        \* the field that names a card's list
  None,          \* no row
  Nobody,        \* no transaction
  MaxRequests,   \* bound: requests received
  MaxDeaths,     \* bound: database errors and killed processes
  MaxRemovals    \* bound: hard deletes of the web client

Id == Card \cup List
Change == {c \in [id : Id, given : SUBSET Field, record : Record] :
             \A f \in Field \ c.given : c.record.fields[f] = NullRank /\ c.record.clocks[f] = 0}
Transaction == {"load", "insert", "reload", "lock", "share"}
EventType == {"created", "updated", "moved", "deleted"}

ASSUME SyncServerAssumption ==
  /\ List \subseteq Nat /\ Card \subseteq Nat /\ List \cap Card = {}
  /\ Nobody \notin Request \cup List /\ None \notin Record /\ None \notin Change /\ Parent \in Field
  /\ Pushes \subseteq SUBSET Change
  /\ InitialRows \in [Id -> Record \cup {None}]
  /\ \A id \in Card : InitialRows[id] # None => InitialRows[id].fields[Parent] \in List

\* A push is of one collection, and its device lists a record once.
ASSUME PushAssumption ==
  /\ IsFiniteSet(Request)
  /\ \A batch \in Pushes : \A c, d \in batch :
       (c.id = d.id => c = d) /\ (c.id \in Card <=> d.id \in Card)

VARIABLES
  rows,       \* what is committed
  lock,       \* who holds a row, or the index entry of a row being inserted
  keyShare,   \* who holds a list for key share
  request,    \* what each handler is doing
  acked,      \* history: the changes reported as accepted
  written,    \* history: how many transactions committed a write of an id
  announced,  \* history: how many of those writes were emitted as board events
  unsaid,     \* history: how many were not, because the process was killed
  used        \* what is spent of each bound

vars == <<rows, lock, keyShare, request, acked, written, announced, unsaid, used>>

Untouched == [id \in Id |-> None]
Idle == [pc |-> "idle", todo |-> {}, change |-> None, loaded |-> None, draft |-> Untouched,
         parent |-> Nobody, accepted |-> {}, events |-> <<>>]
Handler == [pc       : Transaction \cup {"idle", "emit"},
            todo     : SUBSET Change,
            change   : Change \cup {None},
            loaded   : Record \cup {None},
            draft    : [Id -> Record \cup {None}],   \* written, not committed
            parent   : List \cup {Nobody},
            accepted : SUBSET Change,
            events   : Seq([type : EventType, id : Id])]
Tally == [Id -> Nat]

\* Every variable holds what the handler's types allow.
TypeOK ==
  /\ rows \in [Id -> Record \cup {None}]
  /\ lock \in [Id -> Request \cup {Nobody}]
  /\ keyShare \in [List -> SUBSET Request]
  /\ request \in [Request -> Handler]
  /\ acked \subseteq Change
  /\ written \in Tally /\ announced \in Tally /\ unsaid \in Tally
  /\ used \in [{"requests", "deaths", "removals"} -> Nat]

Init ==
  /\ rows = InitialRows
  /\ lock = [id \in Id |-> Nobody]
  /\ keyShare = [l \in List |-> {}]
  /\ request = [r \in Request |-> Idle]
  /\ acked = {}
  /\ written = [id \in Id |-> 0] /\ announced = written /\ unsaid = written
  /\ used = [b \in {"requests", "deaths", "removals"} |-> 0]

Spend(b, max) == used[b] < max /\ used' = [used EXCEPT ![b] = @ + 1]

---------------------------------------------------------------------------
(* Taking a request                                                        *)

Receive(r, batch) ==
  /\ request[r].pc = "idle"
  /\ Spend("requests", MaxRequests)
  /\ request' = [request EXCEPT ![r] = [Idle EXCEPT !.pc = "load", !.todo = batch]]
  /\ UNCHANGED <<rows, lock, keyShare, acked, written, announced, unsaid>>

\* What a statement of r reads.
Visible(r, id) == IF request[r].draft[id] # None THEN request[r].draft[id] ELSE rows[id]

Current(r) == request[r].change
At(r, pc) == request[r].pc = pc

\* Taking the changes in whatever order the device listed them.
ComesFirstAnyhow(c, todo) == TRUE

\* The changes are taken in the order of their ids.
ComesFirst(c, todo) == \A d \in todo : c.id <= d.id

Load(r) ==
  \E c \in request[r].todo :
    /\ At(r, "load") /\ ComesFirst(c, request[r].todo)
    /\ LET row == Visible(r, c.id) IN
       request' = [request EXCEPT ![r].todo = @ \ {c}, ![r].change = c,
                                  ![r].loaded = row,
                                  ![r].pc = IF row = None THEN "insert" ELSE "lock"]
    /\ UNCHANGED <<rows, lock, keyShare, acked, written, announced, unsaid, used>>

\* On to the next change; this one stays pending on the device, or is done.
Done(state) == [state EXCEPT !.pc = "load", !.change = None, !.loaded = None]

---------------------------------------------------------------------------
(* A record made offline                                                   *)

\* Inserting with a title alone, whatever became of the parent.
InsertableWithoutParent(r) == "title" \in Current(r).given

ListInOrg(r, id) == id \in List /\ Visible(r, id) # None

\* Every field the collection needs is there, and a card's list is the org's.
Insertable(r) ==
  /\ Current(r).given = Field
  /\ Current(r).id \in Card => ListInOrg(r, Current(r).record.fields[Parent])

Incomplete(r) ==
  /\ At(r, "insert") /\ ~Insertable(r)
  /\ request' = [request EXCEPT ![r].pc = "reload"]
  /\ UNCHANGED <<rows, lock, keyShare, acked, written, announced, unsaid, used>>

Reload(r) ==
  /\ At(r, "reload")
  /\ LET row == Visible(r, Current(r).id) IN
     request' = [request EXCEPT ![r] = IF row = None THEN Done(@)
                                       ELSE [@ EXCEPT !.loaded = row, !.pc = "lock"]]
  /\ UNCHANGED <<rows, lock, keyShare, acked, written, announced, unsaid, used>>

\* The list whose key the foreign key check locks, when there is one to lock.
ParentOf(id, record) == IF id \in Card THEN record.fields[Parent] ELSE Nobody

Event(type, id) == [type |-> type, id |-> id]

\* The statement waits while another transaction holds the index entry.
Insert(r) ==
  LET c == Current(r) IN
  /\ At(r, "insert") /\ Insertable(r)
  /\ lock[c.id] = Nobody /\ rows[c.id] = None
  /\ lock' = [lock EXCEPT ![c.id] = r]
  /\ request' = [request EXCEPT ![r].pc = "share",
                                ![r].draft[c.id] = c.record,
                                ![r].parent = ParentOf(c.id, c.record),
                                ![r].accepted = @ \cup {c},
                                ![r].events = Append(@, Event("created", c.id))]
  /\ UNCHANGED <<rows, keyShare, acked, written, announced, unsaid, used>>

---------------------------------------------------------------------------
(* A record both sides know                                                *)

\* What Postgres keeps of a transaction that ends: a roll back that forgets
\* the connection would keep its locks.
LocksAfterForgotten(r) == lock

LocksAfter(r) == [id \in Id |-> IF lock[id] = r THEN Nobody ELSE lock[id]]

Release(r) ==
  /\ lock' = LocksAfter(r)
  /\ keyShare' = [l \in List |-> keyShare[l] \ {r}]

\* The merge takes the row as the first read found it.
LockedRowStale(r) == request[r].loaded

\* SELECT ... FOR UPDATE answers with the row as committed when it is granted.
LockedRow(r) == Visible(r, Current(r).id)

LockFree(r, id) ==
  /\ lock[id] \in {Nobody, r}
  /\ id \in List => keyShare[id] \subseteq {r}

\* A card's list counts only when it is one of the organisation's.
Kept(r) ==
  LET c == Current(r) IN
  IF c.id \in Card /\ ~ListInOrg(r, c.record.fields[Parent]) THEN c.given \ {Parent} ELSE c.given

\* The change without the fields that are refused, and without their clocks.
Sanitized(r) ==
  LET c == Current(r) IN
  [id     |-> c.id,
   given  |-> Kept(r),
   record |-> [c.record EXCEPT
      !.fields = [f \in Field |-> IF f \in Kept(r) THEN c.record.fields[f] ELSE NullRank],
      !.clocks = [f \in Field |-> IF f \in Kept(r) THEN c.record.clocks[f] ELSE 0]]]

\* A field the change does not give may still win a tie without clocks; it is
\* then `undefined` in the patch, and the column stays as it was.
MergedRow(row, c) ==
  LET merged == ServerMerged(row, c.record) IN
  [merged EXCEPT !.fields =
     [f \in Field |-> IF f \in c.given THEN merged.fields[f] ELSE row.fields[f]]]

EventForUpdate(id, before, after) ==
  Event(IF after.deletedAt > 0 /\ before.deletedAt = 0 THEN "deleted"
        ELSE IF id \in Card /\ before.fields[Parent] # after.fields[Parent] THEN "moved"
        ELSE "updated", id)

\* The merged row, when the change moves it, and the events and ids to report.
Merged(r, row, c) ==
  LET after == MergedRow(row, c) IN
  [request[r] EXCEPT
     !.pc       = "share",
     !.draft    = IF ServerChanged(row, c.record) THEN [@ EXCEPT ![c.id] = after] ELSE @,
     !.parent   = IF ParentOf(c.id, after) # ParentOf(c.id, row)
                  THEN ParentOf(c.id, after) ELSE Nobody,
     !.accepted = IF ClientAccepted(row, c.record) THEN @ \cup {c} ELSE @,
     !.events   = IF ServerChanged(row, c.record)
                  THEN Append(@, EventForUpdate(c.id, row, after)) ELSE @]

LockAndMerge(r) ==
  LET c == Current(r) IN
  /\ At(r, "lock") /\ LockFree(r, c.id)
  /\ \/ /\ Visible(r, c.id) = None
        /\ request' = [request EXCEPT ![r] = Done(@)]
        /\ UNCHANGED lock
     \/ /\ Visible(r, c.id) # None
        /\ lock' = [lock EXCEPT ![c.id] = r]
        /\ request' = [request EXCEPT ![r] = Merged(r, LockedRow(r), Sanitized(r))]
  /\ UNCHANGED <<rows, keyShare, acked, written, announced, unsaid, used>>

\* The end of an INSERT or UPDATE: its foreign key check locks the parent.
Share(r) ==
  LET parent == request[r].parent IN
  /\ At(r, "share")
  /\ parent \in List => lock[parent] \in {Nobody, r}
  /\ keyShare' = [l \in List |-> keyShare[l] \cup (IF l = parent THEN {r} ELSE {})]
  /\ request' = [request EXCEPT ![r] = [Done(@) EXCEPT !.parent = Nobody]]
  /\ UNCHANGED <<rows, lock, acked, written, announced, unsaid, used>>

---------------------------------------------------------------------------
(* The end of a transaction                                                *)

Drafted(r) == {id \in Id : request[r].draft[id] # None}

\* Board events are published only after the commit.
Commit(r) ==
  /\ At(r, "load") /\ request[r].todo = {}
  /\ rows' = [id \in Id |-> Visible(r, id)]
  /\ written' = [id \in Id |-> written[id] + (IF id \in Drafted(r) THEN 1 ELSE 0)]
  /\ acked' = acked \cup request[r].accepted
  /\ request' = [request EXCEPT ![r] = [Idle EXCEPT !.pc = "emit", !.events = request[r].events]]
  /\ Release(r)
  /\ UNCHANGED <<announced, unsaid, used>>

\* Emitting as soon as the statement has run.
EmitBeforeCommit(r) ==
  /\ request[r].events # <<>>
  /\ announced' = [announced EXCEPT ![Head(request[r].events).id] = @ + 1]
  /\ request' = [request EXCEPT ![r].events = Tail(@)]
  /\ UNCHANGED <<rows, lock, keyShare, acked, written, unsaid, used>>

Emit(r) ==
  /\ request[r].pc = "emit" /\ request[r].events # <<>>
  /\ announced' = [announced EXCEPT ![Head(request[r].events).id] = @ + 1]
  /\ request' = [request EXCEPT ![r].events = Tail(@)]
  /\ UNCHANGED <<rows, lock, keyShare, acked, written, unsaid, used>>

Answer(r) ==
  /\ request[r].pc = "emit" /\ request[r].events = <<>>
  /\ request' = [request EXCEPT ![r] = Idle]
  /\ UNCHANGED <<rows, lock, keyShare, acked, written, announced, unsaid, used>>

Rollback(r) ==
  /\ request' = [request EXCEPT ![r] = Idle]
  /\ Release(r)
  /\ UNCHANGED <<rows, acked, written, announced>>

\* Another transaction committed the id since the first read.  The unique
\* violation is caught, but it has aborted the transaction: the read that
\* follows fails, and with it the request.
InsertLoses(r) ==
  /\ At(r, "insert") /\ Insertable(r)
  /\ lock[Current(r).id] = Nobody /\ rows[Current(r).id] # None
  /\ Rollback(r)
  /\ UNCHANGED <<unsaid, used>>

\* The transactions that hold what r's statement is waiting for.
Blockers(r) ==
  {s \in Request \ {r} :
     \/ At(r, "insert") /\ Insertable(r) /\ lock[Current(r).id] = s
     \/ At(r, "lock") /\ lock[Current(r).id] = s
     \/ At(r, "lock") /\ Current(r).id \in List /\ s \in keyShare[Current(r).id]
     \/ At(r, "share") /\ request[r].parent \in List /\ lock[request[r].parent] = s}

WaitCycle(S) ==
  /\ S # {}
  /\ \A r \in S : (\E s \in S : s \in Blockers(r)) /\ (\E s \in S : r \in Blockers(s))

DeadlockAborts(r) ==
  /\ \E S \in SUBSET Request : r \in S /\ WaitCycle(S)
  /\ Rollback(r)
  /\ UNCHANGED <<unsaid, used>>

\* A database error, or the process is killed: what is not committed is
\* rolled back, what is committed and not yet emitted is never emitted.
Dies(r) ==
  /\ request[r].pc # "idle"
  /\ Spend("deaths", MaxDeaths)
  /\ unsaid' = [id \in Id |-> unsaid[id] +
                  (IF request[r].pc = "emit" /\ \E i \in DOMAIN request[r].events :
                        request[r].events[i].id = id
                   THEN 1 ELSE 0)]
  /\ Rollback(r)

\* The web client hard-deletes a card, which waits for its row.
WebRemove(id) ==
  /\ rows[id] # None /\ lock[id] = Nobody
  /\ Spend("removals", MaxRemovals)
  /\ rows' = [rows EXCEPT ![id] = None]
  /\ acked' = {c \in acked : c.id # id}
  /\ UNCHANGED <<lock, keyShare, request, written, announced, unsaid>>

Statement(r) ==
  \/ Load(r) \/ Incomplete(r) \/ Reload(r) \/ Insert(r) \/ InsertLoses(r)
  \/ LockAndMerge(r) \/ Share(r) \/ Commit(r) \/ Emit(r) \/ Answer(r)

Next ==
  \/ \E r \in Request :
       \/ \E batch \in Pushes : Receive(r, batch)
       \/ Statement(r) \/ DeadlockAborts(r) \/ Dies(r)
  \/ \E id \in Card : WebRemove(id)

Spec == Init /\ [][Next]_vars

\* The event loop and Postgres go on, and Postgres looks for deadlocks.
FairSpec ==
  Spec /\ \A r \in Request : WF_vars(Statement(r)) /\ WF_vars(DeadlockAborts(r))

---------------------------------------------------------------------------
(* Properties                                                              *)

\* The row holds every field the change gives, or something newer, and its
\* deletion.
Holds(row, c) ==
  /\ row # None
  /\ \A f \in c.given :
       AtLeast(row.clocks[f], row.fields[f], c.record.clocks[f], c.record.fields[f])
  /\ row.deletedAt >= c.record.deletedAt

\* What a device was told is accepted is in the committed row for good, or
\* lost to something newer, however the statements of two requests interleave
\* (until the web client deletes the row): the row is locked and read again
\* before the merge.  sync.service.ts:300-311.
AcceptedStays ==
  \A c \in acked : Holds(rows[c.id], c)

Awaiting(id) ==
  Cardinality({r \in Request : request[r].pc = "emit" /\ \E i \in DOMAIN request[r].events :
                                 request[r].events[i].id = id})

\* No board event without a committed write, and no committed write without
\* its event unless the process was killed first.  sync.service.ts:397-400.
EventsMatchWrites ==
  \A id \in Id : announced[id] + Awaiting(id) + unsaid[id] = written[id]

\* Requests of one collection never wait for each other in a circle: changes
\* are taken in id order.  sync.service.ts:261-270.  (A request for cards and
\* one for lists may: the cards lock their lists in the order of the cards.)
NoDeadlockWithinCollection ==
  \A S \in SUBSET Request : WaitCycle(S) =>
     \E r, s \in S : Current(r).id \in Card /\ Current(s).id \in List

\* Every request is answered, or fails and is rolled back, in the end.
EveryRequestEnds ==
  \A r \in Request : request[r].pc # "idle" ~> request[r].pc = "idle"
=============================================================================
