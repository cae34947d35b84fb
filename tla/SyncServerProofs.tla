-------------------------- MODULE SyncServerProofs --------------------------
(***************************************************************************)
(* What a /sync request reports as accepted stays, for any number of       *)
(* requests, records and statements; every write is announced once; and    *)
(* requests of one collection never deadlock.                              *)
(*                                                                         *)
(* AcceptedStays speaks of committed rows only.  It is inductive together  *)
(* with what a transaction in progress owes: it holds the lock of every    *)
(* row it has written, what it wrote is at or above what is committed, and *)
(* what it will report is in what it wrote.  The other two rest on the     *)
(* order in which a transaction takes its changes: what it has locked lies *)
(* behind what it has yet to lock, and it has one event for each row it    *)
(* wrote.                                                                  *)
(***************************************************************************)
EXTENDS SyncServer, LwwMergeProofs, FiniteSetTheorems, WellFoundedInduction

\* What handler r, in state h, owes to the committed rows and to the locks.
HandlerOK(r, h, committed, locks) ==
  /\ h.pc \in {"insert", "reload", "lock"} => h.change \in Change
  /\ \A id \in Id : h.draft[id] # None =>
       /\ locks[id] = r
       /\ id \in Card => h.draft[id].fields[Parent] \in List
       /\ committed[id] # None => Covers(h.draft[id], committed[id])
  /\ \A c \in h.accepted : Holds(h.draft[c.id], c)

\* The inductive invariant: types, a list for every committed card, what
\* each handler owes, and the property itself.
ServerInv ==
  /\ TypeOK
  /\ \A id \in Card : rows[id] # None => rows[id].fields[Parent] \in List
  /\ \A r \in Request : HandlerOK(r, request[r], rows, lock)
  /\ AcceptedStays

\* The changes a handler has yet to finish, the one it is at included.
Working == {"insert", "reload", "lock", "share"}
Ahead(h) == h.todo \cup (IF h.pc \in Working THEN {h.change} ELSE {})

Alike(id, other) == id \in Card <=> other \in Card

\* What handler r, in state h, has locked lies behind what it has yet to lock.
OrderOK(r, h, locks, shares) ==
  /\ Ahead(h) \subseteq Change
  /\ \A c, d \in Ahead(h) : (c.id = d.id => c = d) /\ Alike(c.id, d.id)
  /\ h.pc \in Working => \A c \in h.todo : h.change.id < c.id
  /\ \A id \in Id : locks[id] = r =>
       /\ h.pc \in Transaction
       /\ \A c \in h.todo : id < c.id /\ Alike(id, c.id)
       /\ h.pc \in Working => id <= h.change.id /\ Alike(id, h.change.id)
       /\ h.pc \in Working \ {"share"} => id # h.change.id
  /\ \A l \in List : r \in shares[l] =>
       h.pc \in Transaction /\ \A c \in Ahead(h) : c.id \in Card
  /\ h.pc = "share" /\ h.parent \in List => h.change.id \in Card

\* A transaction has one event for every row it has written, and no other.
EventsOK(h) ==
  /\ \A i, j \in DOMAIN h.events : h.events[i].id = h.events[j].id => i = j
  /\ h.pc \in Transaction => \A id \in Id :
       h.draft[id] # None <=> \E i \in DOMAIN h.events : h.events[i].id = id

\* The inductive invariant of the locks and of the events, beside ServerInv.
OrderInv ==
  /\ \A r \in Request : OrderOK(r, request[r], lock, keyShare)
  /\ \A r \in Request : EventsOK(request[r])
  /\ EventsMatchWrites

---------------------------------------------------------------------------
(* Records and changes                                                     *)

\* What a row holds of a change, any row at or above it holds.
LEMMA HoldsAbove ==
  ASSUME NEW above \in Record, NEW row \in Record, NEW c \in Change,
         Covers(above, row), Holds(row, c)
  PROVE  Holds(above, c)
<1>1. c.record \in Record /\ c.given \subseteq Field
  BY DEF Change
<1>2. above # None
  BY SyncServerAssumption
<1>3. ASSUME NEW f \in c.given
      PROVE  AtLeast(above.clocks[f], above.fields[f], c.record.clocks[f], c.record.fields[f])
  <2>1. f \in Field
    BY <1>1
  <2>2. /\ AtLeast(above.clocks[f], above.fields[f], row.clocks[f], row.fields[f])
        /\ AtLeast(row.clocks[f], row.fields[f], c.record.clocks[f], c.record.fields[f])
    BY <2>1 DEF Covers, Holds
  <2>3. /\ above.clocks[f] \in Nat /\ above.fields[f] \in Nat
        /\ row.clocks[f] \in Nat /\ row.fields[f] \in Nat
        /\ c.record.clocks[f] \in Nat /\ c.record.fields[f] \in Nat
    BY <1>1, <2>1, RecordParts
  <2> QED
    BY <2>2, <2>3 DEF AtLeast
<1>4. above.deletedAt >= c.record.deletedAt
  BY <1>1, RecordParts DEF Covers, Holds
<1> QED
  BY <1>2, <1>3, <1>4 DEF Holds

\* The row a change leaves behind is at or above the row it found, and holds
\* the fields the change gives; a field it does not give stays as it was.
LEMMA MergedRowIsAbove ==
  ASSUME NEW row \in Record, NEW c \in Change
  PROVE  /\ MergedRow(row, c) \in Record
         /\ Covers(MergedRow(row, c), row)
         /\ Holds(MergedRow(row, c), c)
<1> DEFINE merged == ServerMerged(row, c.record)
           after == MergedRow(row, c)
<1>1. c.record \in Record /\ c.given \subseteq Field
  BY DEF Change
<1>2. merged \in Record
  BY <1>1, MergeType
<1>3. /\ after.fields = [f \in Field |-> IF f \in c.given THEN merged.fields[f] ELSE row.fields[f]]
      /\ after.clocks = merged.clocks
      /\ after.deletedAt = merged.deletedAt
      /\ after \in Record
  BY <1>2, RecordParts DEF MergedRow, Record
<1>4. Covers(merged, row) /\ Covers(merged, c.record)
  BY <1>1, MergeCovers
<1>5. ASSUME NEW f \in Field, f \notin c.given
      PROVE  after.clocks[f] = row.clocks[f] /\ after.fields[f] = row.fields[f]
  <2>1. c.record.clocks[f] = 0 /\ c.record.fields[f] = NullRank
    BY <1>5 DEF Change
  <2>2. /\ row.clocks[f] \in Nat /\ row.fields[f] \in Nat
        /\ NullRank \in Nat
    BY <1>1, RecordParts, ValueAssumption
  <2>3. CASE AtLeast(row.clocks[f], row.fields[f], c.record.clocks[f], c.record.fields[f])
    BY <2>3, <1>1, <1>3, <1>5, MergedRegister
  <2>4. CASE ~AtLeast(row.clocks[f], row.fields[f], c.record.clocks[f], c.record.fields[f])
    <3>1. merged.clocks[f] = c.record.clocks[f]
      BY <2>4, <1>1, MergedRegister
    <3>2. row.clocks[f] = 0
      BY <2>1, <2>2, <2>4 DEF AtLeast
    <3> QED
      BY <3>1, <3>2, <2>1, <1>3, <1>5
  <2> QED
    BY <2>3, <2>4
<1>6. ASSUME NEW f \in Field
      PROVE  AtLeast(after.clocks[f], after.fields[f], row.clocks[f], row.fields[f])
  <2>1. CASE f \in c.given
    BY <2>1, <1>3, <1>4 DEF Covers
  <2>2. CASE f \notin c.given
    BY <2>2, <1>5, RecordParts DEF AtLeast
  <2> QED
    BY <2>1, <2>2
<1>7. Covers(after, row)
  BY <1>3, <1>4, <1>6 DEF Covers
<1>8. \A f \in c.given :
        AtLeast(after.clocks[f], after.fields[f], c.record.clocks[f], c.record.fields[f])
  BY <1>1, <1>3, <1>4 DEF Covers
<1>9. after # None /\ after.deletedAt >= c.record.deletedAt
  BY <1>3, <1>4, SyncServerAssumption DEF Covers
<1> QED
  BY <1>3, <1>7, <1>8, <1>9 DEF Holds

\* A card's merged row names the list of the row or the list of the change.
LEMMA MergedRowNamesAList ==
  ASSUME NEW row \in Record, NEW c \in Change, row.fields[Parent] \in List,
         Parent \in c.given => c.record.fields[Parent] \in List
  PROVE  MergedRow(row, c).fields[Parent] \in List
<1>1. c.record \in Record /\ Parent \in Field
  BY SyncServerAssumption DEF Change
<1>2. MergedRow(row, c).fields[Parent] =
        IF Parent \in c.given THEN ServerMerged(row, c.record).fields[Parent] ELSE row.fields[Parent]
  <2>1. ServerMerged(row, c.record) \in Record
    BY <1>1, MergeType
  <2> QED
    BY <1>1, <2>1, RecordParts DEF MergedRow, Record
<1>3. ServerMerged(row, c.record).fields[Parent] \in {row.fields[Parent], c.record.fields[Parent]}
  BY <1>1, MergedRegister
<1> QED
  BY <1>2, <1>3

---------------------------------------------------------------------------
(* Handlers                                                                *)

\* A handler's state has the parts the proofs below use.
LEMMA HandlerParts ==
  ASSUME NEW h \in Handler
  PROVE  /\ h.pc \in Transaction \cup {"idle", "emit"}
         /\ h.todo \subseteq Change /\ h.change \in Change \cup {None}
         /\ h.loaded \in Record \cup {None}
         /\ h.draft \in [Id -> Record \cup {None}]
         /\ h.parent \in List \cup {Nobody}
         /\ h.accepted \subseteq Change
         /\ h.events \in Seq([type : EventType, id : Id])
  BY DEF Handler

\* What an idle handler owes: nothing.
LEMMA IdleOwesNothing ==
  ASSUME NEW r, NEW h, NEW committed, NEW locks, h.draft = Untouched, h.accepted = {},
         h.pc \notin {"insert", "reload", "lock"}
  PROVE  HandlerOK(r, h, committed, locks)
  BY DEF HandlerOK, Untouched

\* The state of an idle handler.
LEMMA IdleIsHandler ==
  /\ Idle \in Handler /\ Idle.draft = Untouched /\ Idle.accepted = {} /\ Idle.pc = "idle"
  /\ \A batch \in SUBSET Change :
       [Idle EXCEPT !.pc = "load", !.todo = batch] \in Handler
  /\ \A events \in Seq([type : EventType, id : Id]) :
       [Idle EXCEPT !.pc = "emit", !.events = events] \in Handler
<1>1. <<>> \in Seq([type : EventType, id : Id])
  OBVIOUS
<1> QED
  BY <1>1 DEF Idle, Handler, Transaction, Untouched

\* What a statement reads: the row as committed, or what the transaction
\* wrote over it; both name a list when the row is a card's.
LEMMA VisibleIsAbove ==
  ASSUME ServerInv, NEW r \in Request, NEW id \in Id, Visible(r, id) # None
  PROVE  /\ Visible(r, id) \in Record
         /\ rows[id] # None => Covers(Visible(r, id), rows[id])
         /\ id \in Card => Visible(r, id).fields[Parent] \in List
         /\ \A c \in request[r].accepted : c.id = id => Holds(Visible(r, id), c)
<1>1. /\ rows[id] \in Record \cup {None}
      /\ request[r] \in Handler
      /\ request[r].draft[id] \in Record \cup {None}
      /\ HandlerOK(r, request[r], rows, lock)
  BY HandlerParts DEF ServerInv, TypeOK
<1>2. CASE request[r].draft[id] # None
  <2>1. Visible(r, id) = request[r].draft[id]
    BY <1>2 DEF Visible
  <2> QED
    BY <1>1, <1>2, <2>1 DEF HandlerOK
<1>3. CASE request[r].draft[id] = None
  <2>1. Visible(r, id) = rows[id]
    BY <1>3 DEF Visible
  <2>2. rows[id] \in Record /\ Covers(rows[id], rows[id])
    BY <1>1, <2>1, CoversOrder
  <2>3. \A c \in request[r].accepted : c.id # id
    BY <1>1, <1>3 DEF HandlerOK, Holds
  <2> QED
    BY <2>1, <2>2, <2>3 DEF ServerInv
<1> QED
  BY <1>2, <1>3

---------------------------------------------------------------------------
(* Steps that commit nothing                                               *)

\* A step of one handler that commits nothing keeps the invariant when that
\* handler owes no more than it can pay and no other loses a lock.
LEMMA HandlerStep ==
  ASSUME ServerInv, NEW r \in Request,
         UNCHANGED <<rows, acked>>,
         request' \in [Request -> Handler],
         \A s \in Request \ {r} : request'[s] = request[s],
         HandlerOK(r, request'[r], rows, lock'),
         lock' \in [Id -> Request \cup {Nobody}],
         \A s \in Request \ {r}, id \in Id : lock[id] = s => lock'[id] = s,
         keyShare' \in [List -> SUBSET Request],
         written' \in Tally, announced' \in Tally, unsaid' \in Tally,
         used' \in [{"requests", "deaths", "removals"} -> Nat]
  PROVE  ServerInv'
<1>1. TypeOK'
  BY DEF ServerInv, TypeOK
<1>2. ASSUME NEW s \in Request
      PROVE  HandlerOK(s, request'[s], rows', lock')
  <2>1. CASE s = r
    BY <2>1
  <2>2. CASE s # r
    <3>1. HandlerOK(s, request[s], rows, lock) /\ request'[s] = request[s]
      BY <2>2 DEF ServerInv
    <3> QED
      BY <2>2, <3>1 DEF HandlerOK
  <2> QED
    BY <2>1, <2>2
<1>3. AcceptedStays'
  BY DEF ServerInv, AcceptedStays
<1>4. \A id \in Card : rows'[id] # None => rows'[id].fields[Parent] \in List
  BY DEF ServerInv
<1> QED
  BY <1>1, <1>2, <1>3, <1>4 DEF ServerInv

\* Reading, waiting, and telling: the handler writes nothing and reports
\* nothing more.
LEMMA QuietStep ==
  ASSUME ServerInv, NEW r \in Request,
         UNCHANGED <<rows, lock, acked, written, unsaid, used>>,
         keyShare' \in [List -> SUBSET Request], announced' \in Tally,
         request' \in [Request -> Handler],
         \A s \in Request \ {r} : request'[s] = request[s],
         request'[r].draft = request[r].draft,
         request'[r].accepted = request[r].accepted,
         request'[r].pc \in {"insert", "reload", "lock"} => request'[r].change \in Change
  PROVE  ServerInv'
<1>1. HandlerOK(r, request[r], rows, lock)
  BY DEF ServerInv
<1>2. HandlerOK(r, request'[r], rows, lock')
  BY <1>1 DEF HandlerOK
<1> QED
  BY <1>2, HandlerStep DEF ServerInv, TypeOK

\* A handler that starts over owes nothing, and lets go of its own locks only.
LEMMA FreshStep ==
  ASSUME ServerInv, NEW r \in Request,
         UNCHANGED <<rows, acked>>,
         lock' = lock \/ Release(r) , keyShare' \in [List -> SUBSET Request],
         request' \in [Request -> Handler],
         \A s \in Request \ {r} : request'[s] = request[s],
         request'[r].draft = Untouched, request'[r].accepted = {},
         request'[r].pc \notin {"insert", "reload", "lock"},
         written' \in Tally, announced' \in Tally, unsaid' \in Tally,
         used' \in [{"requests", "deaths", "removals"} -> Nat]
  PROVE  ServerInv'
<1>1. lock' \in [Id -> Request \cup {Nobody}]
  BY DEF ServerInv, TypeOK, Release, LocksAfter
<1>2. \A s \in Request \ {r}, id \in Id : lock[id] = s => lock'[id] = s
  BY DEF Release, LocksAfter
<1>3. HandlerOK(r, request'[r], rows, lock')
  BY IdleOwesNothing
<1> QED
  BY <1>1, <1>2, <1>3, HandlerStep

\* What a step leaves alone keeps its type.
LEMMA TypesKept ==
  ASSUME ServerInv
  PROVE  /\ UNCHANGED keyShare => keyShare' \in [List -> SUBSET Request]
         /\ UNCHANGED written => written' \in Tally
         /\ UNCHANGED announced => announced' \in Tally
         /\ UNCHANGED unsaid => unsaid' \in Tally
         /\ UNCHANGED used => used' \in [{"requests", "deaths", "removals"} -> Nat]
         /\ request \in [Request -> Handler]
         /\ rows \in [Id -> Record \cup {None}]
  BY DEF ServerInv, TypeOK

\* What is spent stays a number.
LEMMA SpendKeepsType ==
  ASSUME ServerInv, NEW b \in {"requests", "deaths", "removals"}, NEW max, Spend(b, max)
  PROVE  used' \in [{"requests", "deaths", "removals"} -> Nat]
  BY DEF ServerInv, TypeOK, Spend

\* The locks that are let go leave a set of holders for every list.
LEMMA ReleaseKeepsType ==
  ASSUME ServerInv, NEW r \in Request, Release(r)
  PROVE  keyShare' \in [List -> SUBSET Request]
  BY DEF ServerInv, TypeOK, Release

LEMMA ReceiveKeepsInv ==
  ASSUME ServerInv, NEW r \in Request, NEW batch \in Pushes, Receive(r, batch)
  PROVE  ServerInv'
<1> DEFINE h == [Idle EXCEPT !.pc = "load", !.todo = batch]
<1>1. h \in Handler /\ h.draft = Untouched /\ h.accepted = {} /\ h.pc = "load"
  <2>1. batch \in SUBSET Change
    BY SyncServerAssumption
  <2> QED
    BY <2>1, IdleIsHandler DEF Idle
<1>2. request' = [request EXCEPT ![r] = h]
  BY DEF Receive
<1> HIDE DEF h
<1>3. /\ request' \in [Request -> Handler] /\ request'[r] = h
      /\ \A s \in Request \ {r} : request'[s] = request[s]
  BY <1>1, <1>2, TypesKept
<1>4. used' \in [{"requests", "deaths", "removals"} -> Nat]
  BY SpendKeepsType DEF Receive
<1> QED
  BY <1>1, <1>3, <1>4, FreshStep, TypesKept DEF Receive

LEMMA LoadKeepsInv ==
  ASSUME ServerInv, NEW r \in Request, Load(r)
  PROVE  ServerInv'
<1>1. PICK c \in request[r].todo :
        request' = [request EXCEPT ![r].todo = @ \ {c}, ![r].change = c,
                      ![r].loaded = Visible(r, c.id),
                      ![r].pc = IF Visible(r, c.id) = None THEN "insert" ELSE "lock"]
  BY DEF Load
<1>2. request[r] \in Handler /\ c \in Change /\ c.id \in Id
  BY <1>1, TypesKept, HandlerParts DEF Change
<1>3. Visible(r, c.id) \in Record \cup {None}
  BY <1>2, VisibleIsAbove
<1>4. /\ request' \in [Request -> Handler] /\ request'[r].draft = request[r].draft
      /\ request'[r].accepted = request[r].accepted /\ request'[r].change = c
      /\ \A s \in Request \ {r} : request'[s] = request[s]
  BY <1>1, <1>2, <1>3, TypesKept DEF Handler, Transaction
<1> QED
  BY <1>2, <1>4, QuietStep, TypesKept DEF Load

LEMMA IncompleteKeepsInv ==
  ASSUME ServerInv, NEW r \in Request, Incomplete(r)
  PROVE  ServerInv'
<1>1. request' = [request EXCEPT ![r].pc = "reload"]
  BY DEF Incomplete
<1>2. request[r].change \in Change
  BY DEF Incomplete, At, ServerInv, HandlerOK
<1> DEFINE h == [request[r] EXCEPT !.pc = "reload"]
<1>3. request[r] \in Handler /\ request \in [Request -> Handler]
  BY TypesKept
<1>4. /\ h \in Handler /\ h.draft = request[r].draft
      /\ h.accepted = request[r].accepted /\ h.change = request[r].change
  BY <1>3 DEF Handler, Transaction
<1>5. request' = [request EXCEPT ![r] = h]
  BY <1>1
<1> HIDE DEF h
<1>6. /\ request' \in [Request -> Handler] /\ request'[r] = h
      /\ \A s \in Request \ {r} : request'[s] = request[s]
  BY <1>3, <1>4, <1>5
<1> QED
  BY <1>2, <1>4, <1>6, QuietStep, TypesKept DEF Incomplete

\* Going on to the next change, or to the end of the transaction.
LEMMA DoneIsHandler ==
  ASSUME NEW h \in Handler
  PROVE  /\ Done(h) \in Handler /\ Done(h).draft = h.draft /\ Done(h).accepted = h.accepted
         /\ Done(h).pc = "load" /\ [Done(h) EXCEPT !.parent = Nobody] \in Handler
  BY DEF Done, Handler, Transaction

LEMMA ReloadKeepsInv ==
  ASSUME ServerInv, NEW r \in Request, Reload(r)
  PROVE  ServerInv'
<1> DEFINE row == Visible(r, Current(r).id)
           h == IF row = None THEN Done(request[r])
                ELSE [request[r] EXCEPT !.loaded = row, !.pc = "lock"]
<1>1. request[r] \in Handler /\ request[r].change \in Change /\ Current(r).id \in Id
  BY TypesKept DEF Reload, At, ServerInv, HandlerOK, Current, Change
<1>2. row \in Record \cup {None}
  BY <1>1, VisibleIsAbove
<1>3. request' = [request EXCEPT ![r] = h]
  BY DEF Reload
<1>4. /\ h \in Handler /\ h.draft = request[r].draft /\ h.accepted = request[r].accepted
      /\ h.pc = "lock" => h.change \in Change
      /\ h.pc \in {"load", "lock"}
  <2>1. CASE row = None
    BY <1>1, <2>1, DoneIsHandler
  <2>2. CASE row # None
    BY <1>1, <1>2, <2>2 DEF Handler, Transaction
  <2> QED
    BY <2>1, <2>2
<1> HIDE DEF h
<1>5. /\ request' \in [Request -> Handler] /\ request'[r] = h
      /\ \A s \in Request \ {r} : request'[s] = request[s]
  BY <1>3, <1>4, TypesKept
<1> QED
  BY <1>4, <1>5, QuietStep, TypesKept DEF Reload

LEMMA ShareKeepsInv ==
  ASSUME ServerInv, NEW r \in Request, Share(r)
  PROVE  ServerInv'
<1> DEFINE h == [Done(request[r]) EXCEPT !.parent = Nobody]
<1>1. /\ h \in Handler /\ h.draft = request[r].draft
      /\ h.accepted = request[r].accepted /\ h.pc = "load"
  BY TypesKept, DoneIsHandler DEF Done, Handler
<1>2. request' = [request EXCEPT ![r] = h]
  BY DEF Share
<1> HIDE DEF h
<1>3. /\ request' \in [Request -> Handler] /\ request'[r] = h
      /\ \A s \in Request \ {r} : request'[s] = request[s]
  BY <1>1, <1>2, TypesKept
<1>4. keyShare' \in [List -> SUBSET Request]
  BY DEF Share, ServerInv, TypeOK
<1> QED
  BY <1>1, <1>3, <1>4, QuietStep, TypesKept DEF Share

---------------------------------------------------------------------------
(* Steps that write                                                        *)

\* A handler that writes a row it may lock: no other handler has written it.
LEMMA WriteStep ==
  ASSUME ServerInv, NEW r \in Request, NEW c \in Change,
         UNCHANGED <<rows, keyShare, acked, written, announced, unsaid, used>>,
         lock[c.id] \in {Nobody, r}, lock' = [lock EXCEPT ![c.id] = r],
         request' \in [Request -> Handler],
         \A s \in Request \ {r} : request'[s] = request[s],
         HandlerOK(r, request'[r], rows, lock')
  PROVE  ServerInv'
<1>1. c.id \in Id /\ lock \in [Id -> Request \cup {Nobody}] /\ Nobody \notin Request
  BY SyncServerAssumption DEF Change, ServerInv, TypeOK
<1>2. \A s \in Request \ {r}, id \in Id : lock[id] = s => lock'[id] = s
  BY <1>1
<1>3. lock' \in [Id -> Request \cup {Nobody}]
  BY <1>1
<1> QED
  BY <1>2, <1>3, HandlerStep, TypesKept

\* Events are queued and taken one by one.
LEMMA QueueOfEvents ==
  ASSUME NEW S, NEW queue \in Seq(S)
  PROVE  /\ \A e \in S : Append(queue, e) \in Seq(S)
         /\ queue # <<>> => Head(queue) \in S /\ Tail(queue) \in Seq(S)
  OBVIOUS

\* Board events of the types there are.
LEMMA EventIsEvent ==
  ASSUME NEW type \in EventType, NEW id \in Id
  PROVE  Event(type, id) \in [type : EventType, id : Id]
  BY DEF Event

LEMMA InsertKeepsInv ==
  ASSUME ServerInv, NEW r \in Request, Insert(r)
  PROVE  ServerInv'
<1> DEFINE c == Current(r)
           h == [request[r] EXCEPT !.pc = "share", !.draft = [@ EXCEPT ![c.id] = c.record],
                   !.parent = ParentOf(c.id, c.record), !.accepted = @ \cup {c},
                   !.events = Append(@, Event("created", c.id))]
<1>1. /\ request[r] \in Handler /\ HandlerOK(r, request[r], rows, lock)
      /\ c \in Change /\ c.id \in Id /\ c.record \in Record
  BY TypesKept DEF Insert, At, ServerInv, HandlerOK, Current, Change
<1>2. c.id \in Card => c.record.fields[Parent] \in List
  BY DEF Insert, Insertable, ListInOrg
<1>3. lock[c.id] = Nobody /\ rows[c.id] = None /\ lock' = [lock EXCEPT ![c.id] = r]
  BY DEF Insert
<1>4. Append(request[r].events, Event("created", c.id)) \in Seq([type : EventType, id : Id])
  <2>1. Event("created", c.id) \in [type : EventType, id : Id]
    BY <1>1, EventIsEvent DEF EventType
  <2>2. request[r].events \in Seq([type : EventType, id : Id])
    BY <1>1, HandlerParts
  <2> QED
    BY <2>1, <2>2, QueueOfEvents
<1>5. ParentOf(c.id, c.record) \in List \cup {Nobody}
  BY <1>2 DEF ParentOf
<1>6. request[r].draft[c.id] = None
  BY <1>1, <1>3, SyncServerAssumption DEF HandlerOK
<1>7. /\ h.pc = "share" /\ h.accepted = request[r].accepted \cup {c}
      /\ h.draft = [request[r].draft EXCEPT ![c.id] = c.record]
      /\ h \in Handler
  BY <1>1, <1>4, <1>5 DEF Handler, Transaction
<1>8. request' = [request EXCEPT ![r] = h]
  BY <1>1, TypesKept DEF Insert, Handler
<1> HIDE DEF h
<1>9. /\ request' \in [Request -> Handler] /\ request'[r] = h
      /\ \A s \in Request \ {r} : request'[s] = request[s]
  BY <1>7, <1>8, TypesKept
<1>10. request[r].draft \in [Id -> Record \cup {None}] /\ request[r].accepted \subseteq Change
  BY <1>1, HandlerParts
<1>11. Holds(c.record, c)
  <2>1. \A f \in c.given : f \in Field
    BY <1>1 DEF Change
  <2> QED
    BY <1>1, <2>1, RecordParts, SyncServerAssumption DEF Holds, AtLeast
<1>12. HandlerOK(r, h, rows, lock')
  <2>1. ASSUME NEW id \in Id, h.draft[id] # None
        PROVE  /\ lock'[id] = r
               /\ id \in Card => h.draft[id].fields[Parent] \in List
               /\ rows[id] # None => Covers(h.draft[id], rows[id])
    <3>1. CASE id = c.id
      BY <3>1, <1>2, <1>3, <1>7, <1>10 DEF ServerInv, TypeOK
    <3>2. CASE id # c.id
      BY <2>1, <3>2, <1>1, <1>3, <1>7, <1>10 DEF HandlerOK, ServerInv, TypeOK
    <3> QED
      BY <3>1, <3>2
  <2>2. ASSUME NEW d \in h.accepted
        PROVE  Holds(h.draft[d.id], d)
    <3>1. CASE d = c
      BY <3>1, <1>1, <1>7, <1>10, <1>11
    <3>2. CASE d # c
      <4>1. d \in request[r].accepted /\ d.id \in Id
        BY <2>2, <3>2, <1>7, <1>10 DEF Change
      <4>2. Holds(request[r].draft[d.id], d)
        BY <4>1, <1>1 DEF HandlerOK
      <4>3. d.id # c.id
        BY <4>2, <1>6 DEF Holds
      <4> QED
        BY <4>1, <4>2, <4>3, <1>7, <1>10
    <3> QED
      BY <3>1, <3>2
  <2> QED
    BY <2>1, <2>2, <1>7 DEF HandlerOK
<1> QED
  BY <1>1, <1>3, <1>9, <1>12, WriteStep DEF Insert

\* What is left of a change after sanitising is a change of the same record,
\* and a list it still names is one.
LEMMA SanitizedIsChange ==
  ASSUME NEW r \in Request, Current(r) \in Change
  PROVE  /\ Sanitized(r) \in Change /\ Sanitized(r).id = Current(r).id
         /\ Current(r).id \in Card /\ Parent \in Sanitized(r).given =>
              Sanitized(r).record.fields[Parent] \in List
<1> DEFINE c == Current(r)
           k == Kept(r)
           fields == [f \in Field |-> IF f \in k THEN c.record.fields[f] ELSE NullRank]
           clocks == [f \in Field |-> IF f \in k THEN c.record.clocks[f] ELSE 0]
           record == [c.record EXCEPT !.fields = fields, !.clocks = clocks]
<1>1. c \in Change /\ c.record \in Record /\ c.given \subseteq Field /\ c.id \in Id
  BY DEF Change
<1>2. k \subseteq c.given
  BY DEF Kept
<1>3. fields \in [Field -> Value] /\ clocks \in [Field -> Nat]
  BY <1>1, RecordParts, ValueAssumption
<1>4. /\ Sanitized(r).id = c.id /\ Sanitized(r).given = k /\ Sanitized(r).record = record
      /\ Sanitized(r) = [id |-> c.id, given |-> k, record |-> record]
  BY DEF Sanitized
<1>5. Parent \in k /\ c.id \in Card => c.record.fields[Parent] \in List
  BY DEF Kept, ListInOrg
<1> HIDE DEF k
<1>6. record \in Record /\ record.fields = fields /\ record.clocks = clocks
  BY <1>1, <1>3 DEF Record
<1>7. \A f \in Field \ k : record.fields[f] = NullRank /\ record.clocks[f] = 0
  BY <1>6
<1>8. [id |-> c.id, given |-> k, record |-> record] \in Change
  <2> HIDE DEF record, c
  <2>1. [id |-> c.id, given |-> k, record |-> record] \in
          [id : Id, given : SUBSET Field, record : Record]
    BY <1>1, <1>2, <1>6
  <2> QED
    BY <2>1, <1>7 DEF Change
<1>9. Parent \in k => record.fields[Parent] = c.record.fields[Parent]
  BY <1>6, SyncServerAssumption
<1> QED
  BY <1>4, <1>5, <1>8, <1>9

\* An update is announced under one of the event types.
LEMMA EventForUpdateIsEvent ==
  ASSUME NEW id \in Id, NEW before, NEW after
  PROVE  EventForUpdate(id, before, after) \in [type : EventType, id : Id]
  BY DEF EventForUpdate, Event, EventType

\* The handler after the merge under the lock: what it wrote is at or above
\* the row it read, and holds whatever it will report.
LEMMA MergedIsOK ==
  ASSUME ServerInv, NEW r \in Request, NEW c \in Change, NEW locks \in [Id -> Request \cup {Nobody}],
         Visible(r, c.id) # None, locks[c.id] = r,
         \A id \in Id : lock[id] = r => locks[id] = r,
         c.id \in Card /\ Parent \in c.given => c.record.fields[Parent] \in List
  PROVE  /\ Merged(r, Visible(r, c.id), c) \in Handler
         /\ HandlerOK(r, Merged(r, Visible(r, c.id), c), rows, locks)
<1> DEFINE row == Visible(r, c.id)
           after == MergedRow(row, c)
           h == Merged(r, row, c)
           draft == IF ServerChanged(row, c.record)
                    THEN [request[r].draft EXCEPT ![c.id] = after] ELSE request[r].draft
<1>1. c.id \in Id /\ c.record \in Record
  BY DEF Change
<1>2. /\ request[r] \in Handler /\ HandlerOK(r, request[r], rows, lock)
      /\ request[r].draft \in [Id -> Record \cup {None}] /\ request[r].accepted \subseteq Change
      /\ rows[c.id] \in Record \cup {None}
  BY <1>1, TypesKept, HandlerParts DEF ServerInv
<1>3. /\ row \in Record /\ (rows[c.id] # None => Covers(row, rows[c.id]))
      /\ c.id \in Card => row.fields[Parent] \in List
      /\ \A d \in request[r].accepted : d.id = c.id => Holds(row, d)
  BY <1>1, VisibleIsAbove
<1>4. /\ after \in Record /\ Covers(after, row) /\ Holds(after, c)
      /\ c.id \in Card => after.fields[Parent] \in List
  BY <1>3, MergedRowIsAbove, MergedRowNamesAList
<1>5. rows[c.id] # None => Covers(after, rows[c.id])
  BY <1>2, <1>3, <1>4, CoversOrder
<1> HIDE DEF row
<1>6. /\ h.pc = "share" /\ h.draft = draft
      /\ h.accepted = IF ClientAccepted(row, c.record)
                      THEN request[r].accepted \cup {c} ELSE request[r].accepted
      /\ h \in Handler
  <2>1. draft \in [Id -> Record \cup {None}]
    BY <1>1, <1>2, <1>4
  <2>2. \A event \in [type : EventType, id : Id] :
          Append(request[r].events, event) \in Seq([type : EventType, id : Id])
    <3>1. request[r].events \in Seq([type : EventType, id : Id])
      BY <1>2, HandlerParts
    <3> QED
      BY <3>1, QueueOfEvents
  <2>3. EventForUpdate(c.id, row, after) \in [type : EventType, id : Id]
    BY <1>1, EventForUpdateIsEvent
  <2>4. ParentOf(c.id, after) \in List \cup {Nobody}
    BY <1>4 DEF ParentOf
  <2> DEFINE next == IF ParentOf(c.id, after) # ParentOf(c.id, row)
                     THEN ParentOf(c.id, after) ELSE Nobody
             accepted == IF ClientAccepted(row, c.record)
                         THEN request[r].accepted \cup {c} ELSE request[r].accepted
             events == IF ServerChanged(row, c.record)
                       THEN Append(request[r].events, EventForUpdate(c.id, row, after))
                       ELSE request[r].events
  <2>5. next \in List \cup {Nobody} /\ accepted \subseteq Change
    BY <2>4, <1>2
  <2>6. events \in Seq([type : EventType, id : Id])
    BY <2>2, <2>3, <1>2, HandlerParts
  <2>7. h = [request[r] EXCEPT !.pc = "share", !.draft = draft, !.parent = next,
                               !.accepted = accepted, !.events = events]
    BY DEF Merged
  <2> HIDE DEF next, events, draft, h
  <2>8. request[r] \in Handler
    BY <1>2
  <2>9. h \in Handler
    BY ONLY <2>1, <2>5, <2>6, <2>7, <2>8 DEF Handler, Transaction
  <2>10. h.pc = "share" /\ h.draft = draft /\ h.accepted = accepted
    BY ONLY <2>7, <2>8 DEF Handler
  <2> QED
    BY <2>9, <2>10
<1> HIDE DEF h, after
<1>7. ClientAccepted(row, c.record) => ServerChanged(row, c.record)
  BY <1>1, <1>3, RecordParts DEF ClientAccepted, ServerChanged, MergeTombstone
<1>8. ASSUME NEW id \in Id, h.draft[id] # None
      PROVE  /\ locks[id] = r
             /\ id \in Card => h.draft[id].fields[Parent] \in List
             /\ rows[id] # None => Covers(h.draft[id], rows[id])
  <2>1. CASE id = c.id /\ ServerChanged(row, c.record)
    BY <2>1, <1>1, <1>2, <1>4, <1>5, <1>6
  <2>2. CASE ~(id = c.id /\ ServerChanged(row, c.record))
    <3>1. h.draft[id] = request[r].draft[id]
      BY <2>2, <1>1, <1>2, <1>6
    <3> QED
      BY <3>1, <1>2, <1>8 DEF HandlerOK
  <2> QED
    BY <2>1, <2>2
<1>9. ASSUME NEW d \in h.accepted
      PROVE  Holds(h.draft[d.id], d)
  <2>1. d \in Change /\ d.id \in Id
    BY <1>2, <1>6, <1>9 DEF Change
  <2>2. CASE d \notin request[r].accepted
    BY <2>2, <1>1, <1>2, <1>4, <1>6, <1>7, <1>9
  <2>3. CASE d \in request[r].accepted /\ d.id = c.id /\ ServerChanged(row, c.record)
    <3>1. Holds(after, d)
      BY <2>1, <2>3, <1>3, <1>4, HoldsAbove
    <3> QED
      BY <3>1, <2>3, <1>1, <1>2, <1>6
  <2>4. CASE d \in request[r].accepted /\ ~(d.id = c.id /\ ServerChanged(row, c.record))
    <3>1. h.draft[d.id] = request[r].draft[d.id]
      BY <2>1, <2>4, <1>1, <1>2, <1>6
    <3> QED
      BY <3>1, <2>4, <1>2 DEF HandlerOK
  <2> QED
    BY <2>2, <2>3, <2>4
<1>10. HandlerOK(r, h, rows, locks)
  BY <1>6, <1>8, <1>9 DEF HandlerOK
<1> QED
  BY <1>6, <1>10 DEF row, h

LEMMA LockAndMergeKeepsInv ==
  ASSUME ServerInv, NEW r \in Request, LockAndMerge(r)
  PROVE  ServerInv'
<1> DEFINE c == Current(r)
<1>1. request[r] \in Handler /\ c \in Change /\ c.id \in Id
  BY TypesKept DEF LockAndMerge, At, ServerInv, HandlerOK, Current, Change
<1>2. CASE Visible(r, c.id) = None
  <2>1. request' = [request EXCEPT ![r] = Done(request[r])] /\ UNCHANGED lock
    BY <1>2 DEF LockAndMerge
  <2>2. /\ Done(request[r]) \in Handler /\ Done(request[r]).draft = request[r].draft
        /\ Done(request[r]).accepted = request[r].accepted /\ Done(request[r]).pc = "load"
    BY <1>1, DoneIsHandler
  <2>3. /\ request' \in [Request -> Handler] /\ request'[r] = Done(request[r])
        /\ \A s \in Request \ {r} : request'[s] = request[s]
    BY <2>1, <2>2, TypesKept
  <2> QED
    BY <2>1, <2>2, <2>3, QuietStep, TypesKept DEF LockAndMerge
<1>3. CASE Visible(r, c.id) # None
  <2> DEFINE d == Sanitized(r)
             h == Merged(r, Visible(r, c.id), d)
  <2>1. /\ request' = [request EXCEPT ![r] = h] /\ lock' = [lock EXCEPT ![c.id] = r]
        /\ lock[c.id] \in {Nobody, r}
        /\ UNCHANGED <<rows, keyShare, acked, written, announced, unsaid, used>>
    BY <1>3 DEF LockAndMerge, LockedRow, LockFree
  <2>2. /\ d \in Change /\ d.id = c.id
        /\ c.id \in Card /\ Parent \in d.given => d.record.fields[Parent] \in List
    BY <1>1, SanitizedIsChange
  <2>3. /\ lock' \in [Id -> Request \cup {Nobody}] /\ lock'[c.id] = r
        /\ \A id \in Id : lock[id] = r => lock'[id] = r
    BY <1>1, <2>1 DEF ServerInv, TypeOK
  <2> HIDE DEF d
  <2>4. h \in Handler /\ HandlerOK(r, h, rows, lock')
    BY <1>3, <2>2, <2>3, MergedIsOK
  <2> HIDE DEF h
  <2>5. /\ request' \in [Request -> Handler] /\ request'[r] = h
        /\ \A s \in Request \ {r} : request'[s] = request[s]
    BY <2>1, <2>4, TypesKept
  <2> QED
    BY <1>1, <2>1, <2>4, <2>5, WriteStep
<1> QED
  BY <1>2, <1>3

---------------------------------------------------------------------------
(* The end of a transaction, and rows that are removed                     *)

\* Committing makes visible what the handler wrote.  A row that was accepted
\* before is covered by what replaces it; one accepted now is in the draft.
LEMMA CommitKeepsInv ==
  ASSUME ServerInv, NEW r \in Request, Commit(r)
  PROVE  ServerInv'
<1> DEFINE h == [Idle EXCEPT !.pc = "emit", !.events = request[r].events]
<1>1. /\ request[r] \in Handler /\ HandlerOK(r, request[r], rows, lock)
      /\ request[r].draft \in [Id -> Record \cup {None}] /\ request[r].accepted \subseteq Change
      /\ request[r].events \in Seq([type : EventType, id : Id])
      /\ rows \in [Id -> Record \cup {None}] /\ acked \subseteq Change
  BY TypesKept, HandlerParts DEF ServerInv, TypeOK
<1>2. /\ h \in Handler /\ h.draft = Untouched /\ h.accepted = {} /\ h.pc = "emit"
  BY <1>1, IdleIsHandler DEF Idle
<1>3. request' = [request EXCEPT ![r] = h]
  BY DEF Commit
<1> HIDE DEF h
<1>4. /\ request' \in [Request -> Handler] /\ request'[r] = h
      /\ \A s \in Request \ {r} : request'[s] = request[s]
  BY <1>2, <1>3, TypesKept
<1>5. /\ rows' \in [Id -> Record \cup {None}]
      /\ \A id \in Id : rows'[id] = Visible(r, id)
  BY <1>1 DEF Commit, Visible
<1>6. written' \in Tally
  BY DEF Commit, ServerInv, TypeOK, Tally
<1>7. TypeOK'
  <2>1. lock' \in [Id -> Request \cup {Nobody}]
    BY DEF Commit, Release, LocksAfter, ServerInv, TypeOK
  <2>2. keyShare' \in [List -> SUBSET Request]
    BY ReleaseKeepsType DEF Commit
  <2>3. acked' \subseteq Change
    BY <1>1 DEF Commit
  <2> QED
    BY <1>4, <1>5, <1>6, <2>1, <2>2, <2>3 DEF Commit, ServerInv, TypeOK
<1>8. \A id \in Card : rows'[id] # None => rows'[id].fields[Parent] \in List
  BY <1>5, VisibleIsAbove DEF Id
<1>9. ASSUME NEW s \in Request
      PROVE  HandlerOK(s, request'[s], rows', lock')
  <2>1. CASE s = r
    BY <2>1, <1>2, <1>4, IdleOwesNothing
  <2>2. CASE s # r
    <3>1. HandlerOK(s, request[s], rows, lock) /\ request'[s] = request[s]
      BY <2>2, <1>4 DEF ServerInv
    <3>2. ASSUME NEW id \in Id, request[s].draft[id] # None
          PROVE  lock'[id] = s /\ rows'[id] = rows[id]
      <4>1. lock[id] = s
        BY <3>1, <3>2 DEF HandlerOK
      <4>2. request[r].draft[id] = None
        BY <4>1, <2>2, <1>1 DEF HandlerOK
      <4> QED
        BY <4>1, <4>2, <2>2, <1>5 DEF Visible, Commit, Release, LocksAfter
    <3> QED
      BY <3>1, <3>2 DEF HandlerOK
  <2> QED
    BY <2>1, <2>2
<1>10. ASSUME NEW c \in acked'
       PROVE  Holds(rows'[c.id], c)
  <2>1. c \in Change /\ c.id \in Id /\ rows'[c.id] = Visible(r, c.id)
    BY <1>1, <1>5, <1>10 DEF Commit, Change
  <2>2. CASE c \in request[r].accepted
    <3>1. Holds(request[r].draft[c.id], c)
      BY <2>2, <1>1 DEF HandlerOK
    <3> QED
      BY <3>1, <2>1 DEF Visible, Holds
  <2>3. CASE c \notin request[r].accepted
    <3>1. Holds(rows[c.id], c)
      BY <2>3, <1>10 DEF Commit, ServerInv, AcceptedStays
    <3>2. rows[c.id] # None /\ rows[c.id] \in Record
      BY <3>1, <2>1, <1>1 DEF Holds
    <3>3. Visible(r, c.id) # None
      BY <3>2 DEF Visible
    <3>4. Visible(r, c.id) \in Record /\ Covers(Visible(r, c.id), rows[c.id])
      BY <3>2, <3>3, <2>1, VisibleIsAbove
    <3> QED
      BY <3>1, <3>2, <3>4, <2>1, HoldsAbove
  <2> QED
    BY <2>2, <2>3
<1> QED
  BY <1>7, <1>8, <1>9, <1>10 DEF ServerInv, AcceptedStays

LEMMA EmitKeepsInv ==
  ASSUME ServerInv, NEW r \in Request, Emit(r)
  PROVE  ServerInv'
<1>1. /\ request[r] \in Handler /\ request[r].events # <<>> /\ request[r].pc = "emit"
      /\ request[r].events \in Seq([type : EventType, id : Id])
  BY TypesKept, HandlerParts DEF Emit
<1>2. Tail(request[r].events) \in Seq([type : EventType, id : Id])
  BY <1>1, QueueOfEvents
<1>3. request' = [request EXCEPT ![r].events = Tail(request[r].events)]
  BY DEF Emit
<1>4. /\ request' \in [Request -> Handler] /\ request'[r].draft = request[r].draft
      /\ request'[r].accepted = request[r].accepted /\ request'[r].pc = "emit"
      /\ \A s \in Request \ {r} : request'[s] = request[s]
  BY <1>1, <1>2, <1>3, TypesKept DEF Handler
<1>5. announced' \in Tally
  <2>1. Head(request[r].events).id \in Id
    <3>1. Head(request[r].events) \in [type : EventType, id : Id]
      BY <1>1, QueueOfEvents
    <3> QED
      BY <3>1
  <2>2. announced \in [Id -> Nat]
    BY DEF ServerInv, TypeOK, Tally
  <2>3. announced' = [announced EXCEPT ![Head(request[r].events).id] = @ + 1]
    BY DEF Emit
  <2> QED
    BY <2>1, <2>2, <2>3 DEF Tally
<1> QED
  BY <1>4, <1>5, QuietStep, TypesKept DEF Emit

LEMMA AnswerKeepsInv ==
  ASSUME ServerInv, NEW r \in Request, Answer(r)
  PROVE  ServerInv'
<1>1. /\ request' \in [Request -> Handler] /\ request'[r] = Idle
      /\ \A s \in Request \ {r} : request'[s] = request[s]
  BY TypesKept, IdleIsHandler DEF Answer
<1> QED
  BY <1>1, FreshStep, TypesKept, IdleIsHandler DEF Answer

\* A transaction that is rolled back leaves the committed rows alone.
LEMMA RollbackKeepsInv ==
  ASSUME ServerInv, NEW r \in Request, Rollback(r), unsaid' \in Tally,
         used' \in [{"requests", "deaths", "removals"} -> Nat]
  PROVE  ServerInv'
<1>1. /\ request' \in [Request -> Handler] /\ request'[r] = Idle
      /\ \A s \in Request \ {r} : request'[s] = request[s]
  BY TypesKept, IdleIsHandler DEF Rollback
<1>2. keyShare' \in [List -> SUBSET Request] /\ Release(r)
  BY ReleaseKeepsType DEF Rollback
<1> QED
  BY <1>1, <1>2, FreshStep, TypesKept, IdleIsHandler DEF Rollback

LEMMA DiesKeepsInv ==
  ASSUME ServerInv, NEW r \in Request, Dies(r)
  PROVE  ServerInv'
<1>1. unsaid' \in Tally
  BY DEF Dies, ServerInv, TypeOK, Tally
<1>2. used' \in [{"requests", "deaths", "removals"} -> Nat]
  BY SpendKeepsType DEF Dies
<1> QED
  BY <1>1, <1>2, RollbackKeepsInv DEF Dies

\* The web client deletes only a row no transaction has written.
LEMMA WebRemoveKeepsInv ==
  ASSUME ServerInv, NEW id \in Card, WebRemove(id)
  PROVE  ServerInv'
<1>1. /\ id \in Id /\ lock[id] = Nobody /\ rows' = [rows EXCEPT ![id] = None]
      /\ rows \in [Id -> Record \cup {None}]
      /\ acked' = {c \in acked : c.id # id} /\ UNCHANGED <<lock, request>>
  BY DEF WebRemove, Id, ServerInv, TypeOK
<1>2. TypeOK'
  <2>1. used' \in [{"requests", "deaths", "removals"} -> Nat]
    BY SpendKeepsType DEF WebRemove
  <2> QED
    BY <1>1, <2>1 DEF WebRemove, ServerInv, TypeOK
<1>3. \A card \in Card : rows'[card] # None => rows'[card].fields[Parent] \in List
  BY <1>1 DEF ServerInv, Id
<1>4. ASSUME NEW s \in Request
      PROVE  HandlerOK(s, request'[s], rows', lock')
  <2>1. HandlerOK(s, request[s], rows, lock)
    BY DEF ServerInv
  <2>2. \A other \in Id : rows'[other] # None => rows'[other] = rows[other]
    BY <1>1
  <2> QED
    BY <1>1, <2>1, <2>2 DEF HandlerOK
<1>5. \A c \in acked' : Holds(rows'[c.id], c)
  BY <1>1 DEF ServerInv, AcceptedStays, TypeOK, Change
<1> QED
  BY <1>2, <1>3, <1>4, <1>5 DEF ServerInv, AcceptedStays

---------------------------------------------------------------------------
(* The theorems                                                            *)

LEMMA InitHasInv == Init => ServerInv
<1> SUFFICES ASSUME Init PROVE ServerInv
  OBVIOUS
<1>1. TypeOK
  BY IdleIsHandler, SyncServerAssumption DEF Init, TypeOK, Tally
<1>2. \A r \in Request : HandlerOK(r, request[r], rows, lock)
  BY IdleIsHandler, IdleOwesNothing DEF Init
<1> QED
  BY <1>1, <1>2, SyncServerAssumption DEF Init, ServerInv, AcceptedStays

LEMMA NextKeepsInv == ServerInv /\ [Next]_vars => ServerInv'
<1> SUFFICES ASSUME ServerInv, [Next]_vars PROVE ServerInv'
  OBVIOUS
<1>1. ASSUME NEW r \in Request, NEW batch \in Pushes, Receive(r, batch) PROVE ServerInv'
  BY <1>1, ReceiveKeepsInv
<1>2. ASSUME NEW r \in Request, Statement(r) PROVE ServerInv'
  <2>1. CASE Load(r)
    BY <2>1, LoadKeepsInv
  <2>2. CASE Incomplete(r)
    BY <2>2, IncompleteKeepsInv
  <2>3. CASE Reload(r)
    BY <2>3, ReloadKeepsInv
  <2>4. CASE Insert(r)
    BY <2>4, InsertKeepsInv
  <2>5. CASE InsertLoses(r)
    BY <2>5, RollbackKeepsInv, TypesKept DEF InsertLoses
  <2>6. CASE LockAndMerge(r)
    BY <2>6, LockAndMergeKeepsInv
  <2>7. CASE Share(r)
    BY <2>7, ShareKeepsInv
  <2>8. CASE Commit(r)
    BY <2>8, CommitKeepsInv
  <2>9. CASE Emit(r)
    BY <2>9, EmitKeepsInv
  <2>10. CASE Answer(r)
    BY <2>10, AnswerKeepsInv
  <2> QED
    BY <1>2, <2>1, <2>2, <2>3, <2>4, <2>5, <2>6, <2>7, <2>8, <2>9, <2>10 DEF Statement
<1>3. ASSUME NEW r \in Request, DeadlockAborts(r) PROVE ServerInv'
  BY <1>3, RollbackKeepsInv, TypesKept DEF DeadlockAborts
<1>4. ASSUME NEW r \in Request, Dies(r) PROVE ServerInv'
  BY <1>4, DiesKeepsInv
<1>5. ASSUME NEW id \in Card, WebRemove(id) PROVE ServerInv'
  BY <1>5, WebRemoveKeepsInv
<1>6. CASE UNCHANGED vars
  BY <1>6 DEF vars, ServerInv, TypeOK, AcceptedStays, HandlerOK
<1> QED
  BY <1>1, <1>2, <1>3, <1>4, <1>5, <1>6 DEF Next

\* The invariant holds in every state of every behaviour.
LEMMA AlwaysServerInv == Spec => []ServerInv
  BY InitHasInv, NextKeepsInv, PTL DEF Spec

\* Whatever requests, records and removals there are, every variable of the
\* handlers keeps its type (sync.service.ts:250-404).
THEOREM ServerTypes == Spec => []TypeOK
<1>1. ServerInv => TypeOK
  BY DEF ServerInv
<1> QED
  BY <1>1, AlwaysServerInv, PTL

\* A change that was reported as accepted is in the committed row for good,
\* or lost to something newer, however many requests interleave, whatever
\* they carry and wherever a process dies: the row lock, and the read under
\* it, serialise the merges (sync.service.ts:300-311).
THEOREM AcceptedStaysForGood == Spec => []AcceptedStays
<1>1. ServerInv => AcceptedStays
  BY DEF ServerInv
<1> QED
  BY <1>1, AlwaysServerInv, PTL

\* A committed card always names a list: an insert without one is left
\* pending and a move to something else is dropped from the change
\* (sync.service.ts:190-193, 606-613).
THEOREM CardsNameLists ==
  Spec => [](\A id \in Card : rows[id] # None => rows[id].fields[Parent] \in List)
<1>1. ServerInv => \A id \in Card : rows[id] # None => rows[id].fields[Parent] \in List
  BY DEF ServerInv
<1> QED
  BY <1>1, AlwaysServerInv, PTL

---------------------------------------------------------------------------
(* Locks in order, one event for every write                               *)

\* A set of numbers has a least one.
LEMMA LeastOfSet ==
  ASSUME NEW S \in SUBSET Nat, S # {}
  PROVE  \E n \in S : \A m \in S : n <= m
<1> DEFINE R == OpToRel(<, Nat)
<1>1. IsWellFoundedOn(R, Nat)
  BY NatLessThanWellFounded
<1>2. \A n, m \in Nat : n < m => <<n, m>> \in R
  BY DEF OpToRel
<1> HIDE DEF R
<1>3. \E n \in S : \A m \in S : ~(<<m, n>> \in R)
  BY <1>1, WFMin
<1>4. PICK n \in S : \A m \in S : ~(<<m, n>> \in R)
  BY <1>3
<1>5. \A m \in S : ~(m < n)
  BY <1>2, <1>4
<1>6. \A m \in S : n <= m
  BY <1>5
<1> QED
  BY <1>6

\* Ids are numbers.
LEMMA IdsAreNumbers ==
  Id \subseteq Nat /\ \A c \in Change : c.id \in Id
  BY SyncServerAssumption DEF Id, Change

\* What the handler that moves leaves to the others: they keep their part.
LEMMA OrderStep ==
  ASSUME OrderInv, NEW r \in Request,
         \A s \in Request \ {r} : request'[s] = request[s],
         \A s \in Request \ {r}, id \in Id : lock'[id] = s => lock[id] = s,
         \A s \in Request \ {r}, l \in List : s \in keyShare'[l] => s \in keyShare[l],
         OrderOK(r, request'[r], lock', keyShare'), EventsOK(request'[r]),
         EventsMatchWrites'
  PROVE  OrderInv'
<1>1. ASSUME NEW s \in Request, s # r
      PROVE  OrderOK(s, request'[s], lock', keyShare') /\ EventsOK(request'[s])
  <2>1. OrderOK(s, request[s], lock, keyShare) /\ EventsOK(request[s])
    BY DEF OrderInv
  <2>2. /\ request'[s] = request[s]
        /\ \A id \in Id : lock'[id] = s => lock[id] = s
        /\ \A l \in List : s \in keyShare'[l] => s \in keyShare[l]
    BY <1>1
  <2> DEFINE h == request[s]
  <2> HIDE DEF h
  <2>3. OrderOK(s, h, lock', keyShare')
    BY <2>1, <2>2 DEF OrderOK, h
  <2> QED
    BY <2>1, <2>2, <2>3 DEF h
<1> QED
  BY <1>1 DEF OrderInv

\* A handler that has no lock and nothing to do is in order.
LEMMA NothingHeld ==
  ASSUME NEW r, NEW h, NEW locks, NEW shares, h.todo = {}, h.pc \in {"idle", "emit"},
         \A id \in Id : locks[id] # r, \A l \in List : r \notin shares[l]
  PROVE  OrderOK(r, h, locks, shares)
  BY DEF OrderOK, Ahead, Working

\* The handlers that have events of id yet to emit.
Telling(id) ==
  {r \in Request : request[r].pc = "emit" /\ \E i \in DOMAIN request[r].events :
                     request[r].events[i].id = id}

\* There are finitely many of them, and Awaiting counts them.
LEMMA TellingIsFinite ==
  ASSUME NEW id
  PROVE  /\ IsFiniteSet(Telling(id)) /\ Awaiting(id) = Cardinality(Telling(id))
         /\ Awaiting(id) \in Nat
<1>1. Telling(id) \in SUBSET Request
  BY DEF Telling
<1>2. IsFiniteSet(Telling(id))
  BY <1>1, FS_Subset, PushAssumption
<1>3. Awaiting(id) = Cardinality(Telling(id))
  BY DEF Awaiting, Telling
<1> QED
  BY <1>2, <1>3, FS_CardinalityType

LEMMA TellingIsFiniteNext ==
  ASSUME NEW id
  PROVE  /\ IsFiniteSet(Telling(id)') /\ Awaiting(id)' = Cardinality(Telling(id)')
         /\ Awaiting(id)' \in Nat
<1>1. Telling(id)' \in SUBSET Request
  BY DEF Telling
<1>2. IsFiniteSet(Telling(id)')
  BY <1>1, FS_Subset, PushAssumption
<1>3. Awaiting(id)' = Cardinality(Telling(id)')
  BY DEF Awaiting, Telling
<1> QED
  BY <1>2, <1>3, FS_CardinalityType

\* A step of a transaction that goes on tells nothing and commits nothing.
LEMMA SameTally ==
  ASSUME EventsMatchWrites, NEW r \in Request,
         \A s \in Request \ {r} : request'[s] = request[s],
         request[r].pc # "emit", request'[r].pc # "emit",
         UNCHANGED <<written, announced, unsaid>>
  PROVE  EventsMatchWrites'
<1>1. ASSUME NEW id \in Id
      PROVE  announced'[id] + Awaiting(id)' + unsaid'[id] = written'[id]
  <2>1. \A s \in Request : request'[s] = request[s] \/ s = r
    OBVIOUS
  <2>2. Telling(id)' = Telling(id)
    BY <2>1 DEF Telling
  <2>3. Awaiting(id)' = Awaiting(id)
    BY <2>2, TellingIsFinite, TellingIsFiniteNext
  <2> QED
    BY <2>3 DEF EventsMatchWrites
<1> QED
  BY <1>1 DEF EventsMatchWrites

\* The handler of a step, in parts, and what is asked of it.
LEMMA AtHandler ==
  ASSUME ServerInv, OrderInv, NEW r \in Request
  PROVE  /\ request[r] \in Handler /\ request \in [Request -> Handler]
         /\ OrderOK(r, request[r], lock, keyShare) /\ EventsOK(request[r])
         /\ HandlerOK(r, request[r], rows, lock)
         /\ lock \in [Id -> Request \cup {Nobody}] /\ keyShare \in [List -> SUBSET Request]
         /\ EventsMatchWrites
  BY DEF ServerInv, TypeOK, OrderInv

LEMMA ReceiveInOrder ==
  ASSUME ServerInv, OrderInv, NEW r \in Request, NEW batch \in Pushes, Receive(r, batch)
  PROVE  OrderInv'
<1> DEFINE h == [Idle EXCEPT !.pc = "load", !.todo = batch]
<1>1. /\ request[r].pc = "idle" /\ request' = [request EXCEPT ![r] = h]
      /\ UNCHANGED <<lock, keyShare, written, announced, unsaid>>
  BY DEF Receive
<1>2. /\ h.pc = "load" /\ h.todo = batch /\ h.draft = Untouched /\ h.events = <<>>
  BY DEF Idle
<1> HIDE DEF h
<1>3. request'[r] = h /\ \A s \in Request \ {r} : request'[s] = request[s]
  BY <1>1, AtHandler
<1>4. \A id \in Id : lock[id] # r
  BY <1>1, AtHandler DEF OrderOK, Transaction
<1>5. \A l \in List : r \notin keyShare[l]
  BY <1>1, AtHandler DEF OrderOK, Transaction
<1>6. /\ batch \subseteq Change
      /\ \A c, d \in batch : (c.id = d.id => c = d) /\ Alike(c.id, d.id)
  BY SyncServerAssumption, PushAssumption DEF Alike
<1>7. OrderOK(r, h, lock', keyShare')
  BY <1>1, <1>2, <1>4, <1>5, <1>6 DEF OrderOK, Ahead, Working
<1>8. EventsOK(h)
  BY <1>2 DEF EventsOK, Untouched
<1>9. EventsMatchWrites'
  BY <1>1, <1>2, <1>3, SameTally, AtHandler
<1> QED
  BY <1>1, <1>3, <1>7, <1>8, <1>9, OrderStep

LEMMA LoadInOrder ==
  ASSUME ServerInv, OrderInv, NEW r \in Request, Load(r)
  PROVE  OrderInv'
<1>1. PICK c \in request[r].todo :
        /\ request[r].pc = "load" /\ ComesFirst(c, request[r].todo)
        /\ request' = [request EXCEPT ![r].todo = @ \ {c}, ![r].change = c,
                         ![r].loaded = Visible(r, c.id),
                         ![r].pc = IF Visible(r, c.id) = None THEN "insert" ELSE "lock"]
  BY DEF Load, At
<1> DEFINE x == request[r]
           h == [x EXCEPT !.todo = @ \ {c}, !.change = c, !.loaded = Visible(r, c.id),
                          !.pc = IF Visible(r, c.id) = None THEN "insert" ELSE "lock"]
<1>2. request' = [request EXCEPT ![r] = h]
  BY <1>1
<1>3. /\ h.pc \in {"insert", "lock"} /\ h.todo = x.todo \ {c} /\ h.change = c
      /\ h.draft = x.draft /\ h.events = x.events
  BY AtHandler DEF Handler
<1>4. OrderOK(r, x, lock, keyShare) /\ EventsOK(x) /\ x.pc = "load"
  BY <1>1, AtHandler
<1> HIDE DEF h, x
<1>5. request'[r] = h /\ \A s \in Request \ {r} : request'[s] = request[s]
  BY <1>2, AtHandler
<1>6. Ahead(x) = x.todo /\ Ahead(h) = x.todo /\ c \in x.todo /\ x.todo \subseteq Change
  BY <1>1, <1>3, <1>4 DEF Ahead, Working, OrderOK, x
<1>7. \A d \in h.todo : c.id < d.id
  <2> SUFFICES ASSUME NEW d \in h.todo
               PROVE  c.id < d.id
    OBVIOUS
  <2>1. d \in x.todo /\ d # c
    BY <1>3
  <2>2. c.id <= d.id
    BY <1>1, <2>1 DEF ComesFirst, x
  <2>3. c.id # d.id
    BY <1>4, <1>6, <2>1 DEF OrderOK
  <2>4. c.id \in Nat /\ d.id \in Nat
    BY <1>6, <2>1, IdsAreNumbers
  <2> QED
    BY <2>2, <2>3, <2>4
<1>8. ASSUME NEW id \in Id, lock[id] = r
      PROVE  /\ \A d \in h.todo : id < d.id /\ Alike(id, d.id)
             /\ id < c.id /\ Alike(id, c.id)
  BY <1>3, <1>4, <1>6, <1>8 DEF OrderOK
<1>9. ASSUME NEW l \in List, r \in keyShare[l]
      PROVE  \A d \in Ahead(h) : d.id \in Card
  BY <1>4, <1>6, <1>9 DEF OrderOK
<1>10. \A d, e \in Ahead(h) : (d.id = e.id => d = e) /\ Alike(d.id, e.id)
  BY <1>4, <1>6 DEF OrderOK
<1>11. ASSUME NEW id \in Id, lock[id] = r
       PROVE  id <= c.id /\ id # c.id
  <2>1. id < c.id
    BY <1>8, <1>11
  <2>2. id \in Nat /\ c.id \in Nat
    BY <1>6, IdsAreNumbers
  <2> QED
    BY <2>1, <2>2
<1>12. UNCHANGED <<lock, keyShare, written, announced, unsaid>>
  BY DEF Load
<1>13. OrderOK(r, h, lock', keyShare')
  BY <1>12, <1>3, <1>6, <1>7, <1>8, <1>9, <1>10, <1>11 DEF OrderOK, Transaction, Working
<1>14. EventsOK(h)
  BY <1>3, <1>4 DEF EventsOK, Transaction
<1>15. EventsMatchWrites'
  BY <1>3, <1>4, <1>5, <1>12, SameTally, AtHandler DEF x
<1> QED
  BY <1>5, <1>12, <1>13, <1>14, <1>15, OrderStep

LEMMA IncompleteInOrder ==
  ASSUME ServerInv, OrderInv, NEW r \in Request, Incomplete(r)
  PROVE  OrderInv'
<1> DEFINE x == request[r]
           h == [x EXCEPT !.pc = "reload"]
<1>1. x.pc = "insert" /\ request' = [request EXCEPT ![r] = h]
  BY DEF Incomplete, At
<1>2. UNCHANGED <<lock, keyShare, written, announced, unsaid>>
  BY DEF Incomplete
<1>3. /\ h.pc = "reload" /\ h.todo = x.todo /\ h.change = x.change
      /\ h.draft = x.draft /\ h.events = x.events /\ h.parent = x.parent
  BY AtHandler DEF Handler
<1>4. OrderOK(r, x, lock, keyShare) /\ EventsOK(x)
  BY AtHandler
<1> HIDE DEF h, x
<1>5. request'[r] = h /\ \A s \in Request \ {r} : request'[s] = request[s]
  BY <1>1, AtHandler
<1>6. Ahead(h) = Ahead(x)
  BY <1>1, <1>3 DEF Ahead, Working
<1>7. OrderOK(r, h, lock', keyShare')
  BY <1>1, <1>2, <1>3, <1>4, <1>6 DEF OrderOK, Transaction, Working
<1>8. EventsOK(h)
  BY <1>1, <1>3, <1>4 DEF EventsOK, Transaction
<1>9. EventsMatchWrites'
  BY <1>1, <1>2, <1>3, <1>5, SameTally, AtHandler DEF x
<1> QED
  BY <1>2, <1>5, <1>7, <1>8, <1>9, OrderStep

\* Done with a change: what was ahead of it still is.
LEMMA DoneInOrder ==
  ASSUME ServerInv, OrderInv, NEW r \in Request, NEW h, NEW shares,
         request[r].pc \in Working, h.pc = "load",
         h.todo = request[r].todo, h.draft = request[r].draft,
         h.events = request[r].events,
         \A l \in List : r \in shares[l] => r \in keyShare[l] \/ request[r].change.id \in Card
  PROVE  OrderOK(r, h, lock, shares) /\ EventsOK(h)
<1> DEFINE x == request[r]
<1>1. OrderOK(r, x, lock, keyShare) /\ EventsOK(x)
  BY AtHandler
<1> HIDE DEF x
<1>2. /\ Ahead(h) = x.todo /\ Ahead(x) = x.todo \cup {x.change}
  BY DEF Ahead, Working, x
<1>3. \A l \in List : r \in shares[l] => \A d \in x.todo : d.id \in Card
  <2>1. \A d \in x.todo : Alike(d.id, x.change.id)
    BY <1>1, <1>2 DEF OrderOK
  <2>2. \A l \in List : r \in keyShare[l] => \A d \in x.todo : d.id \in Card
    BY <1>1, <1>2 DEF OrderOK
  <2> QED
    BY <2>1, <2>2 DEF Alike, x
<1>4. h.pc = "load" /\ h.todo = x.todo /\ h.draft = x.draft /\ h.events = x.events
      /\ x.pc \in Working
  BY DEF x
<1>5. OrderOK(r, h, lock, shares)
  BY <1>1, <1>2, <1>3, <1>4 DEF OrderOK, Transaction, Working
<1>6. EventsOK(h)
  BY <1>1, <1>4 DEF EventsOK, Transaction, Working
<1> QED
  BY <1>5, <1>6

LEMMA DoneParts ==
  ASSUME NEW h \in Handler
  PROVE  /\ Done(h).pc = "load" /\ Done(h).todo = h.todo /\ Done(h).draft = h.draft
         /\ Done(h).events = h.events
  BY DEF Done, Handler

LEMMA ReloadInOrder ==
  ASSUME ServerInv, OrderInv, NEW r \in Request, Reload(r)
  PROVE  OrderInv'
<1> DEFINE x == request[r]
           row == Visible(r, Current(r).id)
<1>1. /\ x.pc = "reload"
      /\ request' = [request EXCEPT ![r] = IF row = None THEN Done(x)
                                           ELSE [x EXCEPT !.loaded = row, !.pc = "lock"]]
  BY DEF Reload, At
<1>2. UNCHANGED <<lock, keyShare, written, announced, unsaid>>
  BY DEF Reload
<1>3. x \in Handler /\ OrderOK(r, x, lock, keyShare) /\ EventsOK(x)
  BY AtHandler
<1>4. CASE row = None
  <2>1. request'[r] = Done(x) /\ \A s \in Request \ {r} : request'[s] = request[s]
    BY <1>1, <1>4, AtHandler
  <2>2. /\ Done(x).pc = "load" /\ Done(x).todo = x.todo /\ Done(x).draft = x.draft
        /\ Done(x).events = x.events
    BY <1>3, DoneParts
  <2>3. OrderOK(r, Done(x), lock, keyShare) /\ EventsOK(Done(x))
    BY <1>1, <2>2, DoneInOrder DEF Working
  <2>4. EventsMatchWrites'
    BY <1>1, <1>2, <2>1, <2>2, SameTally, AtHandler
  <2> QED
    BY <1>2, <2>1, <2>3, <2>4, OrderStep
<1>5. CASE row # None
  <2> DEFINE h == [x EXCEPT !.loaded = row, !.pc = "lock"]
  <2>1. request'[r] = h /\ \A s \in Request \ {r} : request'[s] = request[s]
    BY <1>1, <1>5, AtHandler
  <2>2. /\ h.pc = "lock" /\ h.todo = x.todo /\ h.change = x.change
        /\ h.draft = x.draft /\ h.events = x.events /\ h.parent = x.parent
    BY <1>3 DEF Handler
  <2> HIDE DEF h, x
  <2>3. Ahead(h) = Ahead(x)
    BY <1>1, <2>2 DEF Ahead, Working
  <2>4. OrderOK(r, h, lock', keyShare')
    BY <1>1, <1>2, <1>3, <2>2, <2>3 DEF OrderOK, Transaction, Working
  <2>5. EventsOK(h)
    BY <1>1, <1>3, <2>2 DEF EventsOK, Transaction
  <2>6. EventsMatchWrites'
    BY <1>1, <1>2, <2>1, <2>2, SameTally, AtHandler DEF x
  <2> QED
    BY <1>2, <2>1, <2>4, <2>5, <2>6, OrderStep
<1> QED
  BY <1>4, <1>5

\* A card that is inserted or moved shares its list: cards hold no list.
LEMMA ShareInOrder ==
  ASSUME ServerInv, OrderInv, NEW r \in Request, Share(r)
  PROVE  OrderInv'
<1> DEFINE x == request[r]
           h == [Done(x) EXCEPT !.parent = Nobody]
<1>1. x.pc = "share" /\ request' = [request EXCEPT ![r] = h]
  BY DEF Share, At
<1>2. /\ UNCHANGED <<lock, written, announced, unsaid>>
      /\ keyShare' = [l \in List |-> keyShare[l] \cup (IF l = x.parent THEN {r} ELSE {})]
  BY DEF Share
<1>3. x \in Handler /\ OrderOK(r, x, lock, keyShare) /\ EventsOK(x)
  BY AtHandler
<1>4. h.pc = "load" /\ h.todo = x.todo /\ h.draft = x.draft /\ h.events = x.events
  BY <1>3 DEF Done, Handler
<1> HIDE DEF h
<1>5. request'[r] = h /\ \A s \in Request \ {r} : request'[s] = request[s]
  BY <1>1, AtHandler
<1>6. \A l \in List : r \in keyShare'[l] => r \in keyShare[l] \/ x.change.id \in Card
  BY <1>1, <1>2, <1>3 DEF OrderOK
<1>7. OrderOK(r, h, lock, keyShare') /\ EventsOK(h)
  BY <1>1, <1>4, <1>6, DoneInOrder DEF Working
<1>8. \A s \in Request \ {r}, l \in List : s \in keyShare'[l] => s \in keyShare[l]
  BY <1>2
<1>9. EventsMatchWrites'
  BY <1>1, <1>2, <1>4, <1>5, SameTally, AtHandler
<1> QED
  BY <1>2, <1>5, <1>7, <1>8, <1>9, OrderStep

\* What r writes it has locked, and has one more event to tell: of a record
\* it had not written before.
LEMMA WriteInOrder ==
  ASSUME ServerInv, OrderInv, NEW r \in Request,
         request[r].pc \in {"insert", "lock"},
         \A s \in Request \ {r} : request'[s] = request[s],
         lock' = [lock EXCEPT ![request[r].change.id] = r],
         lock[request[r].change.id] # r,
         request'[r].pc = "share", request'[r].todo = request[r].todo,
         request'[r].change = request[r].change,
         request'[r].parent \in List => request[r].change.id \in Card,
         \/ request'[r].draft = request[r].draft /\ request'[r].events = request[r].events
         \/ /\ \E after : after # None /\
                 request'[r].draft = [request[r].draft EXCEPT ![request[r].change.id] = after]
            /\ \E event : event.id = request[r].change.id /\
                 request'[r].events = Append(request[r].events, event),
         UNCHANGED <<keyShare, written, announced, unsaid>>
  PROVE  OrderInv'
<1> DEFINE x == request[r]
           c == x.change
           h == request'[r]
<1>1. /\ x \in Handler /\ OrderOK(r, x, lock, keyShare) /\ EventsOK(x)
      /\ HandlerOK(r, x, rows, lock) /\ lock \in [Id -> Request \cup {Nobody}]
  BY AtHandler
<1>2. /\ h.pc = "share" /\ h.todo = x.todo /\ h.change = c /\ x.pc \in {"insert", "lock"}
      /\ (h.parent \in List => c.id \in Card) /\ lock' = [lock EXCEPT ![c.id] = r]
      /\ lock[c.id] # r
      /\ \/ h.draft = x.draft /\ h.events = x.events
         \/ /\ \E after : after # None /\ h.draft = [x.draft EXCEPT ![c.id] = after]
            /\ \E event : event.id = c.id /\ h.events = Append(x.events, event)
  OBVIOUS
<1>3. request'[r] = h /\ \A s \in Request \ {r} : request'[s] = request[s]
  OBVIOUS
<1>4. \A s \in Request \ {r}, id \in Id : lock'[id] = s => lock[id] = s
  BY <1>1, <1>2
<1>5. EventsMatchWrites'
  BY <1>2, <1>3, SameTally, AtHandler
<1> HIDE DEF x, h
<1>6. Ahead(h) = Ahead(x) /\ Ahead(x) = x.todo \cup {c} /\ c \in Change
  BY <1>1, <1>2 DEF Ahead, Working, OrderOK
<1>7. c.id \in Id /\ c.id \in Nat
  BY <1>6, IdsAreNumbers
<1> HIDE DEF c
<1>8. ASSUME NEW id \in Id, lock'[id] = r
      PROVE  (\A d \in h.todo : id < d.id /\ Alike(id, d.id)) /\ id <= c.id /\ Alike(id, c.id)
  <2>1. CASE id = c.id
    <3>1. \A d \in h.todo : c.id < d.id /\ Alike(c.id, d.id)
      BY <1>1, <1>2, <1>6 DEF OrderOK, Working, c
    <3>2. c.id <= c.id /\ Alike(c.id, c.id)
      BY <1>7 DEF Alike
    <3> QED
      BY <2>1, <3>1, <3>2
  <2>2. CASE id # c.id
    <3>1. lock[id] = r
      BY <1>1, <1>2, <1>7, <1>8, <2>2
    <3> QED
      BY <3>1, <1>1, <1>2 DEF OrderOK, Working, c
  <2> QED
    BY <2>1, <2>2
<1>9. \A l \in List : r \in keyShare[l] => \A d \in Ahead(h) : d.id \in Card
  BY <1>1, <1>6 DEF OrderOK
<1>10. \A d, e \in Ahead(h) : (d.id = e.id => d = e) /\ Alike(d.id, e.id)
  BY <1>1, <1>6 DEF OrderOK
<1>11. Ahead(h) \subseteq Change /\ \A d \in h.todo : h.change.id < d.id
  BY <1>1, <1>2, <1>6 DEF OrderOK, Working, c
<1>12. OrderOK(r, h, lock', keyShare)
  BY <1>2, <1>8, <1>9, <1>10, <1>11 DEF OrderOK, Transaction, Working
<1>13. x.draft[c.id] = None
  BY <1>1, <1>2, <1>7 DEF HandlerOK
<1>14. EventsOK(h)
  <2>1. CASE h.draft = x.draft /\ h.events = x.events
    <3>1. EventsOK(x) /\ h.pc = "share" /\ x.pc \in {"insert", "lock"}
      BY <1>1, <1>2
    <3> QED
      BY <2>1, <3>1 DEF EventsOK, Transaction
  <2>2. CASE /\ \E after : after # None /\ h.draft = [x.draft EXCEPT ![c.id] = after]
             /\ \E event : event.id = c.id /\ h.events = Append(x.events, event)
    <3>10. PICK after : after # None /\ h.draft = [x.draft EXCEPT ![c.id] = after]
      BY <2>2
    <3>11. PICK event : event.id = c.id /\ h.events = Append(x.events, event)
      BY <2>2
    <3>1. /\ x.draft \in [Id -> Record \cup {None}]
          /\ x.events \in Seq([type : EventType, id : Id])
      BY <1>1, HandlerParts
    <3>2. /\ \A i, j \in DOMAIN x.events : x.events[i].id = x.events[j].id => i = j
          /\ \A id \in Id : x.draft[id] # None <=> \E i \in DOMAIN x.events : x.events[i].id = id
      BY <1>1, <1>2 DEF EventsOK, Transaction
    <3> DEFINE n == Len(x.events) + 1
    <3>3. /\ Len(x.events) \in Nat /\ DOMAIN x.events = 1 .. Len(x.events)
          /\ DOMAIN h.events = 1 .. n /\ h.events[n] = event
          /\ \A i \in DOMAIN x.events : h.events[i] = x.events[i]
      BY <3>11, <3>1
    <3>4. \A i \in DOMAIN x.events : x.events[i].id # c.id
      BY <3>2, <1>7, <1>13
    <3>5. \A i \in DOMAIN h.events : i \in DOMAIN x.events \/ i = n
      BY <3>3
    <3>6. /\ n \notin DOMAIN x.events /\ n \in DOMAIN h.events
          /\ \A i \in DOMAIN x.events : i \in DOMAIN h.events
      BY <3>3
    <3> HIDE DEF n
    <3>7. ASSUME NEW i \in DOMAIN h.events, NEW j \in DOMAIN h.events,
                 h.events[i].id = h.events[j].id
          PROVE  i = j
      <4>1. CASE i = n /\ j = n
        BY <4>1
      <4>2. CASE i = n /\ j \in DOMAIN x.events
        BY <4>2, <3>3, <3>4, <3>7, <3>11
      <4>3. CASE j = n /\ i \in DOMAIN x.events
        BY <4>3, <3>3, <3>4, <3>7, <3>11
      <4>4. CASE i \in DOMAIN x.events /\ j \in DOMAIN x.events
        BY <4>4, <3>2, <3>3, <3>7
      <4> QED
        BY <3>5, <4>1, <4>2, <4>3, <4>4
    <3>8. ASSUME NEW id \in Id
          PROVE  h.draft[id] # None <=> \E i \in DOMAIN h.events : h.events[i].id = id
      <4>1. CASE id = c.id
        <5>1. h.draft[id] = after
          BY <3>10, <3>1, <4>1
        <5>2. n \in DOMAIN h.events /\ h.events[n].id = id
          BY <3>3, <3>6, <4>1, <3>11
        <5> QED
          BY <5>1, <5>2, <3>10
      <4>2. CASE id # c.id
        <5>1. h.draft[id] = x.draft[id]
          BY <3>10, <3>1, <4>2
        <5>2. (\E i \in DOMAIN h.events : h.events[i].id = id) <=>
                \E i \in DOMAIN x.events : x.events[i].id = id
          <6>1. h.events[n].id # id
            BY <3>3, <3>11, <4>2
          <6> QED
            BY <3>3, <3>5, <3>6, <6>1
        <5> QED
          BY <5>1, <5>2, <3>2
      <4> QED
        BY <4>1, <4>2
    <3> QED
      BY <3>7, <3>8 DEF EventsOK
  <2> QED
    BY <2>1, <2>2, <1>2
<1> QED
  BY <1>3, <1>4, <1>5, <1>12, <1>14, OrderStep

LEMMA InsertInOrder ==
  ASSUME ServerInv, OrderInv, NEW r \in Request, Insert(r)
  PROVE  OrderInv'
<1> DEFINE x == request[r]
           c == x.change
           event == Event("created", c.id)
           h == [x EXCEPT !.pc = "share", !.draft = [@ EXCEPT ![c.id] = c.record],
                   !.parent = ParentOf(c.id, c.record), !.accepted = @ \cup {c},
                   !.events = Append(@, event)]
<1>1. x \in Handler /\ x.pc = "insert" /\ request' = [request EXCEPT ![r] = h]
  <2>1. x \in Handler /\ request \in [Request -> Handler]
    BY AtHandler
  <2>2. x.pc = "insert"
    BY DEF Insert, At
  <2>3. request' = [request EXCEPT ![r].pc = "share", ![r].draft[c.id] = c.record,
                      ![r].parent = ParentOf(c.id, c.record), ![r].accepted = @ \cup {c},
                      ![r].events = Append(@, event)]
    BY DEF Insert, Current
  <2> QED
    BY <2>1, <2>2, <2>3 DEF Handler
<1>2. /\ lock' = [lock EXCEPT ![c.id] = r] /\ lock[c.id] # r
      /\ UNCHANGED <<keyShare, written, announced, unsaid>>
  BY SyncServerAssumption DEF Insert, Current
<1>3. c \in Change /\ c.record # None
  BY <1>1, AtHandler, SyncServerAssumption DEF HandlerOK, Change
<1>4. ParentOf(c.id, c.record) \in List => c.id \in Card
  BY SyncServerAssumption DEF ParentOf
<1>5. /\ h.pc = "share" /\ h.todo = x.todo /\ h.change = c
      /\ h.parent = ParentOf(c.id, c.record)
      /\ h.draft = [x.draft EXCEPT ![c.id] = c.record] /\ h.events = Append(x.events, event)
  BY <1>1 DEF Handler
<1>6. event.id = c.id
  BY DEF Event
<1> HIDE DEF h, event
<1>7. request'[r] = h /\ \A s \in Request \ {r} : request'[s] = request[s]
  BY <1>1, AtHandler
<1>8. /\ \E after : after # None /\ h.draft = [x.draft EXCEPT ![c.id] = after]
      /\ \E e : e.id = c.id /\ h.events = Append(x.events, e)
  BY <1>3, <1>5, <1>6
<1>9. /\ x.pc \in {"insert", "lock"} /\ (request'[r].parent \in List => c.id \in Card)
      /\ request'[r].pc = "share" /\ request'[r].todo = x.todo /\ request'[r].change = c
  BY <1>1, <1>4, <1>5, <1>7
<1>10. /\ \E after : after # None /\ request'[r].draft = [x.draft EXCEPT ![c.id] = after]
       /\ \E e : e.id = c.id /\ request'[r].events = Append(x.events, e)
  BY <1>7, <1>8
<1> QED
  BY <1>2, <1>7, <1>9, <1>10, WriteInOrder

LEMMA LockAndMergeInOrder ==
  ASSUME ServerInv, OrderInv, NEW r \in Request, LockAndMerge(r)
  PROVE  OrderInv'
<1> DEFINE x == request[r]
           c == x.change
<1>1. /\ x \in Handler /\ x.pc = "lock" /\ c \in Change /\ c.id \in Id
      /\ UNCHANGED <<keyShare, written, announced, unsaid>> /\ Current(r) = c
  BY AtHandler, IdsAreNumbers DEF LockAndMerge, At, HandlerOK, Current
<1>2. CASE Visible(r, c.id) = None
  <2>1. request' = [request EXCEPT ![r] = Done(x)] /\ UNCHANGED lock
    BY <1>1, <1>2 DEF LockAndMerge
  <2>2. request'[r] = Done(x) /\ \A s \in Request \ {r} : request'[s] = request[s]
    BY <2>1, AtHandler
  <2>3. /\ Done(x).pc = "load" /\ Done(x).todo = x.todo /\ Done(x).draft = x.draft
        /\ Done(x).events = x.events
    BY <1>1, DoneParts
  <2>4. OrderOK(r, Done(x), lock, keyShare) /\ EventsOK(Done(x))
    BY <1>1, <2>3, DoneInOrder DEF Working
  <2>5. EventsMatchWrites'
    BY <1>1, <2>1, <2>2, <2>3, SameTally, AtHandler
  <2> QED
    BY <1>1, <2>1, <2>2, <2>4, <2>5, OrderStep
<1>3. CASE Visible(r, c.id) # None
  <2> DEFINE d == Sanitized(r)
             row == Visible(r, c.id)
             after == MergedRow(row, d)
             event == EventForUpdate(c.id, row, after)
             h == Merged(r, row, d)
  <2>1. request' = [request EXCEPT ![r] = h] /\ lock' = [lock EXCEPT ![c.id] = r]
    BY <1>1, <1>3 DEF LockAndMerge, LockedRow
  <2>2. d \in Change /\ d.id = c.id
    BY <1>1, SanitizedIsChange
  <2>3. after # None
    <3>1. row \in Record
      BY <1>1, <1>3, VisibleIsAbove
    <3> QED
      BY <2>2, <3>1, MergedRowIsAbove, SyncServerAssumption
  <2>4. lock[c.id] # r
    BY <1>1, AtHandler DEF OrderOK, Working
  <2>5. event.id = c.id
    BY DEF EventForUpdate, Event
  <2> HIDE DEF d, row, after, event
  <2> DEFINE draft == IF ServerChanged(row, d.record)
                      THEN [x.draft EXCEPT ![c.id] = after] ELSE x.draft
             parent == IF ParentOf(c.id, after) # ParentOf(c.id, row)
                       THEN ParentOf(c.id, after) ELSE Nobody
             accepted == IF ClientAccepted(row, d.record) THEN x.accepted \cup {d} ELSE x.accepted
             events == IF ServerChanged(row, d.record) THEN Append(x.events, event) ELSE x.events
  <2>6. h = [x EXCEPT !.pc = "share", !.draft = draft, !.parent = parent,
                      !.accepted = accepted, !.events = events]
    BY <2>2 DEF Merged, after, event
  <2>7. parent \in List => c.id \in Card
    BY SyncServerAssumption DEF ParentOf
  <2>8. \/ draft = x.draft /\ events = x.events
        \/ draft = [x.draft EXCEPT ![c.id] = after] /\ events = Append(x.events, event)
    OBVIOUS
  <2> HIDE DEF draft, parent, accepted, events, h
  <2>9. /\ h.pc = "share" /\ h.todo = x.todo /\ h.change = c
        /\ h.parent = parent /\ h.draft = draft /\ h.events = events
    BY <1>1, <2>6 DEF Handler
  <2>10. request'[r] = h /\ \A s \in Request \ {r} : request'[s] = request[s]
    BY <2>1, AtHandler
  <2>11. \/ h.draft = x.draft /\ h.events = x.events
         \/ /\ \E a : a # None /\ h.draft = [x.draft EXCEPT ![c.id] = a]
            /\ \E e : e.id = c.id /\ h.events = Append(x.events, e)
    BY <2>3, <2>5, <2>8, <2>9
  <2>12. /\ x.pc \in {"insert", "lock"} /\ (request'[r].parent \in List => c.id \in Card)
         /\ request'[r].pc = "share" /\ request'[r].todo = x.todo /\ request'[r].change = c
    BY <1>1, <2>7, <2>9, <2>10
  <2>13. \/ request'[r].draft = x.draft /\ request'[r].events = x.events
         \/ /\ \E a : a # None /\ request'[r].draft = [x.draft EXCEPT ![c.id] = a]
            /\ \E e : e.id = c.id /\ request'[r].events = Append(x.events, e)
    BY <2>10, <2>11
  <2> QED
    BY <1>1, <2>1, <2>4, <2>10, <2>12, <2>13, WriteInOrder
<1> QED
  BY <1>2, <1>3

\* Letting go of everything takes no lock from anybody else.
LEMMA ReleaseHolds ==
  ASSUME ServerInv, OrderInv, NEW r \in Request, Release(r)
  PROVE  /\ \A s \in Request \ {r}, id \in Id : lock'[id] = s => lock[id] = s
         /\ \A s \in Request \ {r}, l \in List : s \in keyShare'[l] => s \in keyShare[l]
         /\ \A id \in Id : lock'[id] # r
         /\ \A l \in List : r \notin keyShare'[l]
<1>1. Nobody \notin Request
  BY SyncServerAssumption
<1> QED
  BY <1>1 DEF Release, LocksAfter

\* A commit hands the events of the transaction over to be emitted.
LEMMA CommitInOrder ==
  ASSUME ServerInv, OrderInv, NEW r \in Request, Commit(r)
  PROVE  OrderInv'
<1> DEFINE x == request[r]
           h == [Idle EXCEPT !.pc = "emit", !.events = x.events]
<1>1. /\ x.pc = "load" /\ request' = [request EXCEPT ![r] = h] /\ Release(r)
      /\ written' = [id \in Id |-> written[id] + (IF id \in Drafted(r) THEN 1 ELSE 0)]
      /\ UNCHANGED <<announced, unsaid>>
  BY DEF Commit, At
<1>2. h.pc = "emit" /\ h.todo = {} /\ h.events = x.events
  BY DEF Idle
<1>3. EventsOK(x) /\ written \in [Id -> Nat] /\ announced \in [Id -> Nat] /\ unsaid \in [Id -> Nat]
  BY AtHandler DEF ServerInv, TypeOK, Tally
<1> HIDE DEF h
<1>4. request'[r] = h /\ \A s \in Request \ {r} : request'[s] = request[s]
  BY <1>1, AtHandler
<1>5. OrderOK(r, request'[r], lock', keyShare')
  BY <1>1, <1>2, <1>4, ReleaseHolds, NothingHeld
<1>6. EventsOK(request'[r])
  BY <1>2, <1>3, <1>4 DEF EventsOK, Transaction
<1>7. ASSUME NEW id \in Id
      PROVE  announced'[id] + Awaiting(id)' + unsaid'[id] = written'[id]
  <2>1. announced[id] + Awaiting(id) + unsaid[id] = written[id]
    BY AtHandler DEF EventsMatchWrites
  <2>2. id \in Drafted(r) <=> \E i \in DOMAIN x.events : x.events[i].id = id
    BY <1>1, <1>3 DEF EventsOK, Transaction, Drafted
  <2>3. \A s \in Request : s = r \/ request'[s] = request[s]
    BY <1>4
  <2>4. CASE id \in Drafted(r)
    <3>1. Telling(id)' = Telling(id) \cup {r} /\ r \notin Telling(id)
      BY <1>1, <1>2, <1>4, <2>2, <2>3, <2>4 DEF Telling
    <3>2. Awaiting(id)' = Awaiting(id) + 1
      BY <3>1, TellingIsFinite, TellingIsFiniteNext, FS_AddElement
    <3> QED
      BY <1>1, <1>3, <2>1, <2>4, <3>2, TellingIsFinite
  <2>5. CASE id \notin Drafted(r)
    <3>1. Telling(id)' = Telling(id)
      BY <1>1, <1>2, <1>4, <2>2, <2>3, <2>5 DEF Telling
    <3>2. Awaiting(id)' = Awaiting(id)
      BY <3>1, TellingIsFinite, TellingIsFiniteNext
    <3> QED
      BY <1>1, <1>3, <2>1, <2>5, <3>2
  <2> QED
    BY <2>4, <2>5
<1> QED
  BY <1>1, <1>4, <1>5, <1>6, <1>7, ReleaseHolds, OrderStep DEF EventsMatchWrites

\* An event of id that a handler had to tell, and no longer has.
LEMMA OneFewerToTell ==
  ASSUME NEW r \in Request, NEW id,
         \A s \in Request \ {r} : request'[s] = request[s],
         request[r].pc = "emit", \E i \in DOMAIN request[r].events : request[r].events[i].id = id,
         \/ request'[r].pc # "emit"
         \/ \A i \in DOMAIN request'[r].events : request'[r].events[i].id # id
  PROVE  Awaiting(id)' = Awaiting(id) - 1
<1>1. \A s \in Request : s = r \/ request'[s] = request[s]
  OBVIOUS
<1>2. Telling(id)' = Telling(id) \ {r} /\ r \in Telling(id)
  BY <1>1 DEF Telling
<1> QED
  BY <1>2, TellingIsFinite, TellingIsFiniteNext, FS_RemoveElement

\* The events of a handler that tells nothing of id do not count.
LEMMA SameToTell ==
  ASSUME NEW r \in Request, NEW id,
         \A s \in Request \ {r} : request'[s] = request[s],
         (request[r].pc = "emit" /\ \E i \in DOMAIN request[r].events : request[r].events[i].id = id)
         <=> (request'[r].pc = "emit" /\ \E i \in DOMAIN request'[r].events :
                                           request'[r].events[i].id = id)
  PROVE  Awaiting(id)' = Awaiting(id)
<1>1. \A s \in Request : s = r \/ request'[s] = request[s]
  OBVIOUS
<1>2. Telling(id)' = Telling(id)
  BY <1>1 DEF Telling
<1> QED
  BY <1>2, TellingIsFinite, TellingIsFiniteNext

\* The first event of a queue without repetitions, and the others.
LEMMA EventsAfterFirst ==
  ASSUME NEW queue \in Seq([type : EventType, id : Id]), queue # <<>>,
         \A i, j \in DOMAIN queue : queue[i].id = queue[j].id => i = j
  PROVE  /\ Head(queue).id \in Id
         /\ \E i \in DOMAIN queue : queue[i].id = Head(queue).id
         /\ \A i \in DOMAIN Tail(queue) : Tail(queue)[i].id # Head(queue).id
         /\ \A i, j \in DOMAIN Tail(queue) : Tail(queue)[i].id = Tail(queue)[j].id => i = j
         /\ \A id : id # Head(queue).id =>
              ((\E i \in DOMAIN queue : queue[i].id = id)
               <=> \E i \in DOMAIN Tail(queue) : Tail(queue)[i].id = id)
<1> DEFINE tail == Tail(queue)
           n == Len(queue)
<1>1. n \in Nat /\ n > 0 /\ DOMAIN queue = 1 .. n
  OBVIOUS
<1>2. Head(queue) = queue[1] /\ 1 \in DOMAIN queue
  BY <1>1
<1>3. /\ DOMAIN tail = 1 .. (n - 1)
      /\ \A i \in 1 .. (n - 1) : tail[i] = queue[i + 1]
  OBVIOUS
<1>4. queue[1] \in [type : EventType, id : Id]
  BY <1>2, QueueOfEvents
<1> HIDE DEF tail, n
<1>5. \A i \in DOMAIN tail : i + 1 \in DOMAIN queue /\ i + 1 # 1 /\ tail[i] = queue[i + 1] /\ i \in Nat
  BY <1>1, <1>3
<1>6. \A i \in DOMAIN queue : i = 1 \/ (i - 1 \in DOMAIN tail /\ tail[i - 1] = queue[i])
  <2> SUFFICES ASSUME NEW i \in DOMAIN queue, i # 1
               PROVE  i - 1 \in DOMAIN tail /\ tail[i - 1] = queue[i]
    OBVIOUS
  <2>1. i - 1 \in 1 .. (n - 1) /\ (i - 1) + 1 = i
    BY <1>1
  <2> QED
    BY <1>3, <2>1
<1>7. \A i \in DOMAIN tail : tail[i].id # queue[1].id
  BY <1>2, <1>5
<1>8. \A i, j \in DOMAIN tail : tail[i].id = tail[j].id => i = j
  <2> SUFFICES ASSUME NEW i \in DOMAIN tail, NEW j \in DOMAIN tail, tail[i].id = tail[j].id
               PROVE  i = j
    OBVIOUS
  <2>1. i + 1 = j + 1
    BY <1>5
  <2> QED
    BY <1>5, <2>1
<1>9. ASSUME NEW id, id # queue[1].id
      PROVE  (\E i \in DOMAIN queue : queue[i].id = id) <=> \E i \in DOMAIN tail : tail[i].id = id
  <2>1. ASSUME NEW i \in DOMAIN queue, queue[i].id = id
        PROVE  \E j \in DOMAIN tail : tail[j].id = id
    <3>1. i - 1 \in DOMAIN tail /\ tail[i - 1] = queue[i]
      BY <1>6, <1>9, <2>1
    <3> QED
      BY <2>1, <3>1
  <2>2. ASSUME NEW j \in DOMAIN tail, tail[j].id = id
        PROVE  \E i \in DOMAIN queue : queue[i].id = id
    BY <1>5, <2>2
  <2> QED
    BY <2>1, <2>2
<1> QED
  BY <1>2, <1>4, <1>7, <1>8, <1>9 DEF tail

LEMMA EmitInOrder ==
  ASSUME ServerInv, OrderInv, NEW r \in Request, Emit(r)
  PROVE  OrderInv'
<1> DEFINE x == request[r]
           h == [x EXCEPT !.events = Tail(x.events)]
           first == Head(x.events).id
<1>1. /\ x.pc = "emit" /\ x.events # <<>> /\ request' = [request EXCEPT ![r] = h]
      /\ announced' = [announced EXCEPT ![first] = @ + 1]
      /\ UNCHANGED <<lock, keyShare, written, unsaid>>
  BY DEF Emit
<1>2. x \in Handler /\ x.events \in Seq([type : EventType, id : Id]) /\ EventsOK(x)
  BY AtHandler, HandlerParts
<1>3. /\ h.pc = "emit" /\ h.todo = x.todo /\ h.change = x.change
      /\ h.events = Tail(x.events)
  BY <1>1, <1>2 DEF Handler
<1> HIDE DEF h
<1>4. request'[r] = h /\ \A s \in Request \ {r} : request'[s] = request[s]
  BY <1>1, AtHandler
<1>5. OrderOK(r, request'[r], lock', keyShare')
  <2>1. OrderOK(r, x, lock, keyShare)
    BY AtHandler
  <2>2. Ahead(h) = Ahead(x)
    BY <1>1, <1>3 DEF Ahead, Working
  <2>3. OrderOK(r, h, lock, keyShare)
    BY <1>1, <1>3, <2>1, <2>2 DEF OrderOK, Transaction, Working
  <2> QED
    BY <1>1, <1>4, <2>3
<1>6. /\ first \in Id
      /\ \E i \in DOMAIN x.events : x.events[i].id = first
      /\ \A i \in DOMAIN h.events : h.events[i].id # first
      /\ \A i, j \in DOMAIN h.events : h.events[i].id = h.events[j].id => i = j
      /\ \A id : id # first => ((\E i \in DOMAIN x.events : x.events[i].id = id)
                                <=> \E i \in DOMAIN h.events : h.events[i].id = id)
  <2> DEFINE queue == x.events
  <2>1. /\ queue \in Seq([type : EventType, id : Id]) /\ queue # <<>>
        /\ \A i, j \in DOMAIN queue : queue[i].id = queue[j].id => i = j
        /\ h.events = Tail(queue) /\ first = Head(queue).id /\ x.events = queue
    BY <1>1, <1>2, <1>3 DEF EventsOK
  <2> HIDE DEF queue, first, x
  <2>2. /\ Head(queue).id \in Id
        /\ \E i \in DOMAIN queue : queue[i].id = Head(queue).id
        /\ \A i \in DOMAIN Tail(queue) : Tail(queue)[i].id # Head(queue).id
        /\ \A i, j \in DOMAIN Tail(queue) : Tail(queue)[i].id = Tail(queue)[j].id => i = j
        /\ \A id : id # Head(queue).id =>
             ((\E i \in DOMAIN queue : queue[i].id = id)
              <=> \E i \in DOMAIN Tail(queue) : Tail(queue)[i].id = id)
    BY <2>1, EventsAfterFirst
  <2> QED
    BY ONLY <2>1, <2>2
<1>7. EventsOK(request'[r])
  BY <1>3, <1>4, <1>6 DEF EventsOK, Transaction
<1>8. written \in [Id -> Nat] /\ announced \in [Id -> Nat] /\ unsaid \in [Id -> Nat]
  BY DEF ServerInv, TypeOK, Tally
<1> HIDE DEF first
<1>9. ASSUME NEW id \in Id
      PROVE  announced'[id] + Awaiting(id)' + unsaid'[id] = written'[id]
  <2>1. announced[id] + Awaiting(id) + unsaid[id] = written[id]
    BY AtHandler DEF EventsMatchWrites
  <2>2. CASE id = first
    <3>1. Awaiting(id)' = Awaiting(id) - 1
      BY <1>1, <1>4, <1>6, <2>2, OneFewerToTell
    <3>2. announced'[id] = announced[id] + 1
      BY <1>1, <1>8, <2>2
    <3> QED
      BY <1>1, <1>8, <2>1, <3>1, <3>2, TellingIsFinite
  <2>3. CASE id # first
    <3>1. Awaiting(id)' = Awaiting(id)
      <4>1. request[r].pc = "emit" /\ request'[r].pc = "emit"
        BY <1>1, <1>3, <1>4
      <4>2. (\E i \in DOMAIN request[r].events : request[r].events[i].id = id)
            <=> \E i \in DOMAIN request'[r].events : request'[r].events[i].id = id
        BY <1>4, <1>6, <2>3
      <4> QED
        BY <1>4, <4>1, <4>2, SameToTell
    <3>2. announced'[id] = announced[id]
      BY <1>1, <1>8, <2>3
    <3> QED
      BY <1>1, <2>1, <3>1, <3>2
  <2> QED
    BY <2>2, <2>3
<1> QED
  BY <1>1, <1>4, <1>5, <1>7, <1>9, OrderStep DEF EventsMatchWrites

\* The state of a handler that is idle again.
LEMMA IdleInOrder ==
  /\ Idle.pc = "idle" /\ Idle.todo = {} /\ Idle.events = <<>> /\ EventsOK(Idle)
<1>1. Idle.pc = "idle" /\ Idle.todo = {} /\ Idle.events = <<>>
  BY DEF Idle
<1> QED
  BY <1>1 DEF EventsOK, Transaction

LEMMA AnswerInOrder ==
  ASSUME ServerInv, OrderInv, NEW r \in Request, Answer(r)
  PROVE  OrderInv'
<1>1. /\ request[r].pc = "emit" /\ request[r].events = <<>>
      /\ request' = [request EXCEPT ![r] = Idle]
      /\ UNCHANGED <<lock, keyShare, written, announced, unsaid>>
  BY DEF Answer
<1>2. request'[r] = Idle /\ \A s \in Request \ {r} : request'[s] = request[s]
  BY <1>1, AtHandler
<1>3. (\A id \in Id : lock[id] # r) /\ \A l \in List : r \notin keyShare[l]
  BY <1>1, AtHandler DEF OrderOK, Transaction
<1>4. OrderOK(r, Idle, lock', keyShare')
  BY <1>1, <1>3, IdleInOrder, NothingHeld
<1>5. ASSUME NEW id \in Id
      PROVE  Awaiting(id)' = Awaiting(id)
  <2>1. ~\E i \in DOMAIN request[r].events : request[r].events[i].id = id
    BY <1>1
  <2>2. request'[r].pc # "emit"
    BY <1>2, IdleInOrder
  <2> QED
    BY <1>2, <2>1, <2>2, SameToTell
<1>6. EventsMatchWrites'
  BY <1>1, <1>5, AtHandler DEF EventsMatchWrites
<1> QED
  BY <1>1, <1>2, <1>4, <1>6, IdleInOrder, OrderStep

\* What a roll back owes: the events it takes with it are counted as unsaid.
LEMMA RollbackInOrder ==
  ASSUME ServerInv, OrderInv, NEW r \in Request, Rollback(r), unsaid' \in [Id -> Nat],
         \A id \in Id : unsaid'[id] = unsaid[id] +
           (IF request[r].pc = "emit" /\ \E i \in DOMAIN request[r].events :
                 request[r].events[i].id = id
            THEN 1 ELSE 0)
  PROVE  OrderInv'
<1>1. /\ request' = [request EXCEPT ![r] = Idle] /\ Release(r)
      /\ UNCHANGED <<written, announced>>
  BY DEF Rollback
<1>2. request'[r] = Idle /\ \A s \in Request \ {r} : request'[s] = request[s]
  BY <1>1, AtHandler
<1>3. OrderOK(r, Idle, lock', keyShare')
  BY <1>1, IdleInOrder, ReleaseHolds, NothingHeld
<1>4. written \in [Id -> Nat] /\ announced \in [Id -> Nat] /\ unsaid \in [Id -> Nat]
  BY DEF ServerInv, TypeOK, Tally
<1>5. request'[r].pc # "emit"
  BY <1>2, IdleInOrder
<1>6. ASSUME NEW id \in Id
      PROVE  announced'[id] + Awaiting(id)' + unsaid'[id] = written'[id]
  <2>1. announced[id] + Awaiting(id) + unsaid[id] = written[id]
    BY AtHandler DEF EventsMatchWrites
  <2> DEFINE told == request[r].pc = "emit" /\ \E i \in DOMAIN request[r].events :
                       request[r].events[i].id = id
  <2>2. CASE told
    <3>1. Awaiting(id)' = Awaiting(id) - 1
      BY <1>2, <1>5, <2>2, OneFewerToTell
    <3>2. unsaid'[id] = unsaid[id] + 1
      BY <2>2
    <3> QED
      BY <1>1, <1>4, <2>1, <3>1, <3>2, TellingIsFinite
  <2>3. CASE ~told
    <3>1. Awaiting(id)' = Awaiting(id)
      BY <1>2, <1>5, <2>3, SameToTell
    <3>2. unsaid'[id] = unsaid[id] + 0
      BY <2>3
    <3> QED
      BY <1>1, <1>4, <2>1, <3>1, <3>2
  <2> QED
    BY <2>2, <2>3
<1> QED
  BY <1>1, <1>2, <1>3, <1>6, IdleInOrder, ReleaseHolds, OrderStep DEF EventsMatchWrites

\* A transaction that is not over has told nothing when it is rolled back.
LEMMA AbortInOrder ==
  ASSUME ServerInv, OrderInv, NEW r \in Request, Rollback(r), UNCHANGED unsaid,
         request[r].pc # "emit"
  PROVE  OrderInv'
<1>1. unsaid \in [Id -> Nat]
  BY DEF ServerInv, TypeOK, Tally
<1>2. \A id \in Id : unsaid'[id] = unsaid[id] + 0
  BY <1>1
<1> QED
  BY <1>1, <1>2, RollbackInOrder

\* A transaction in a wait cycle is at a statement that waits.
LEMMA WaitersWait ==
  ASSUME NEW S \in SUBSET Request, WaitCycle(S), NEW r \in S
  PROVE  request[r].pc \in {"insert", "lock", "share"}
  BY DEF WaitCycle, Blockers, At

LEMMA OrderNext == ServerInv /\ OrderInv /\ [Next]_vars => OrderInv'
<1> SUFFICES ASSUME ServerInv, OrderInv, [Next]_vars PROVE OrderInv'
  OBVIOUS
<1>1. ASSUME NEW r \in Request, NEW batch \in Pushes, Receive(r, batch) PROVE OrderInv'
  BY <1>1, ReceiveInOrder
<1>2. ASSUME NEW r \in Request, Statement(r) PROVE OrderInv'
  <2>1. CASE Load(r)
    BY <2>1, LoadInOrder
  <2>2. CASE Incomplete(r)
    BY <2>2, IncompleteInOrder
  <2>3. CASE Reload(r)
    BY <2>3, ReloadInOrder
  <2>4. CASE Insert(r)
    BY <2>4, InsertInOrder
  <2>5. CASE InsertLoses(r)
    <3>1. Rollback(r) /\ UNCHANGED unsaid /\ request[r].pc = "insert"
      BY <2>5 DEF InsertLoses, At
    <3> QED
      BY <3>1, AbortInOrder
  <2>6. CASE LockAndMerge(r)
    BY <2>6, LockAndMergeInOrder
  <2>7. CASE Share(r)
    BY <2>7, ShareInOrder
  <2>8. CASE Commit(r)
    BY <2>8, CommitInOrder
  <2>9. CASE Emit(r)
    BY <2>9, EmitInOrder
  <2>10. CASE Answer(r)
    BY <2>10, AnswerInOrder
  <2> QED
    BY <1>2, <2>1, <2>2, <2>3, <2>4, <2>5, <2>6, <2>7, <2>8, <2>9, <2>10 DEF Statement
<1>3. ASSUME NEW r \in Request, DeadlockAborts(r) PROVE OrderInv'
  <2>1. /\ Rollback(r) /\ UNCHANGED unsaid
        /\ \E S \in SUBSET Request : r \in S /\ WaitCycle(S)
    BY <1>3 DEF DeadlockAborts
  <2>2. request[r].pc # "emit"
    BY <2>1, WaitersWait
  <2> QED
    BY <2>1, <2>2, AbortInOrder
<1>4. ASSUME NEW r \in Request, Dies(r) PROVE OrderInv'
  <2>1. /\ Rollback(r) /\ unsaid \in [Id -> Nat]
        /\ unsaid' = [id \in Id |-> unsaid[id] +
                        (IF request[r].pc = "emit" /\ \E i \in DOMAIN request[r].events :
                              request[r].events[i].id = id
                         THEN 1 ELSE 0)]
    BY <1>4 DEF Dies, ServerInv, TypeOK, Tally
  <2>2. unsaid' \in [Id -> Nat]
    BY <1>4, DiesKeepsInv DEF ServerInv, TypeOK, Tally
  <2> QED
    BY <2>1, <2>2, RollbackInOrder
<1>5. ASSUME NEW id \in Card, WebRemove(id) PROVE OrderInv'
  <2>1. UNCHANGED <<lock, keyShare, request, written, announced, unsaid>>
    BY <1>5 DEF WebRemove
  <2>2. \A i \in Id : Awaiting(i)' = Awaiting(i)
    BY <2>1 DEF Awaiting
  <2> QED
    BY <2>1, <2>2 DEF OrderInv, OrderOK, EventsMatchWrites
<1>6. CASE UNCHANGED vars
  <2>1. UNCHANGED <<lock, keyShare, request, written, announced, unsaid>>
    BY <1>6 DEF vars
  <2>2. \A i \in Id : Awaiting(i)' = Awaiting(i)
    BY <2>1 DEF Awaiting
  <2> QED
    BY <2>1, <2>2 DEF OrderInv, OrderOK, EventsMatchWrites
<1> QED
  BY <1>1, <1>2, <1>3, <1>4, <1>5, <1>6 DEF Next

LEMMA OrderInit == Init => OrderInv
<1> SUFFICES ASSUME Init PROVE OrderInv
  OBVIOUS
<1>1. \A r \in Request : OrderOK(r, request[r], lock, keyShare)
  BY IdleInOrder, NothingHeld, SyncServerAssumption DEF Init
<1>2. \A r \in Request : EventsOK(request[r])
  BY IdleInOrder DEF Init
<1>3. ASSUME NEW id \in Id
      PROVE  announced[id] + Awaiting(id) + unsaid[id] = written[id]
  <2>1. Telling(id) = {}
    BY IdleInOrder DEF Init, Telling
  <2>2. Awaiting(id) = 0
    BY <2>1, TellingIsFinite, FS_EmptySet
  <2> QED
    BY <2>2 DEF Init
<1> QED
  BY <1>1, <1>2, <1>3 DEF OrderInv, EventsMatchWrites

LEMMA AlwaysInOrder == Spec => []OrderInv
  BY AlwaysServerInv, OrderInit, OrderNext, PTL DEF Spec

\* Nobody in a wait cycle waits for a handler that is further on, when all
\* are at cards, or all at lists.
LEMMA BlockersAreAhead ==
  ASSUME ServerInv, OrderInv, NEW S \in SUBSET Request, WaitCycle(S),
         \A r, s \in S : Alike(Current(r).id, Current(s).id),
         NEW r \in S, NEW s \in S, s \in Blockers(r)
  PROVE  Current(r).id < Current(s).id
<1> DEFINE x == request[r]
           y == request[s]
           wanted == x.change.id
           held == y.change.id
<1>1. /\ OrderOK(r, x, lock, keyShare) /\ OrderOK(s, y, lock, keyShare)
      /\ HandlerOK(s, y, rows, lock) /\ r # s
  BY AtHandler DEF Blockers
<1>2. x.pc \in {"insert", "lock", "share"} /\ y.pc \in {"insert", "lock", "share"}
  BY WaitersWait
<1>3. /\ Current(r).id = wanted /\ Current(s).id = held
      /\ wanted \in Id /\ held \in Id /\ Alike(wanted, held)
  BY <1>1, <1>2, IdsAreNumbers DEF Current, OrderOK, Ahead, Working
<1>4. x.pc = "share" /\ x.parent \in List => wanted \in Card /\ lock[x.parent] # s
  <2> SUFFICES ASSUME x.pc = "share", x.parent \in List, lock[x.parent] = s
               PROVE  FALSE
    BY <1>1 DEF OrderOK
  <2>1. wanted \in Card /\ Alike(x.parent, held)
    BY <1>1, <1>2 DEF OrderOK, Working, Id
  <2> QED
    BY <2>1, <1>3, SyncServerAssumption DEF Alike
<1>5. wanted \in List => s \notin keyShare[wanted]
  <2> SUFFICES ASSUME wanted \in List, s \in keyShare[wanted]
               PROVE  FALSE
    OBVIOUS
  <2>1. held \in Card
    BY <1>1, <1>2 DEF OrderOK, Ahead, Working
  <2> QED
    BY <2>1, <1>3, SyncServerAssumption DEF Alike
<1>6. lock[wanted] = s
  BY <1>3, <1>4, <1>5 DEF Blockers, Current, At
<1>7. wanted <= held
  BY <1>1, <1>2, <1>3, <1>6 DEF OrderOK, Working
<1>8. wanted # held
  <2> SUFFICES ASSUME wanted = held
               PROVE  FALSE
    OBVIOUS
  <2>1. y.pc = "share"
    BY <1>1, <1>2, <1>3, <1>6 DEF OrderOK, Working
  <2>2. PICK t \in S : t \in Blockers(s)
    BY DEF WaitCycle
  <2>3. y.parent \in List /\ lock[y.parent] = t /\ t \in Request /\ t # s
    BY <2>1, <2>2 DEF Blockers, At
  <2>4. held \in Card
    BY <1>1, <2>1, <2>3 DEF OrderOK
  <2>5. /\ OrderOK(t, request[t], lock, keyShare)
        /\ request[t].pc \in {"insert", "lock", "share"}
    BY <2>3, AtHandler, WaitersWait
  <2>6. Alike(y.parent, request[t].change.id)
    BY <2>3, <2>5 DEF OrderOK, Working, Id
  <2>7. Alike(request[t].change.id, held)
    BY DEF Current
  <2> QED
    BY <2>3, <2>4, <2>6, <2>7, SyncServerAssumption DEF Alike
<1>9. wanted \in Nat /\ held \in Nat
  BY <1>3, IdsAreNumbers
<1> QED
  BY <1>3, <1>7, <1>8, <1>9

\* The handler whose record comes first would wait for one before it.
LEMMA NoCycleWithinCollection ==
  ServerInv /\ OrderInv => NoDeadlockWithinCollection
<1> SUFFICES ASSUME ServerInv, OrderInv, NEW S \in SUBSET Request, WaitCycle(S)
             PROVE  \E r, s \in S : Current(r).id \in Card /\ Current(s).id \in List
  BY DEF NoDeadlockWithinCollection
<1>1. ASSUME NEW r \in S
      PROVE  Current(r).id \in Id /\ Current(r).id \in Nat
  <2>1. OrderOK(r, request[r], lock, keyShare) /\ request[r].pc \in {"insert", "lock", "share"}
    BY AtHandler, WaitersWait
  <2>2. request[r].change \in Change
    BY <2>1 DEF OrderOK, Ahead, Working
  <2> QED
    BY <2>2, IdsAreNumbers DEF Current
<1>2. SUFFICES ASSUME \A r, s \in S : Alike(Current(r).id, Current(s).id)
               PROVE  FALSE
  BY <1>1 DEF Alike, Id
<1> DEFINE Wanted == {Current(r).id : r \in S}
<1>3. Wanted \in SUBSET Nat /\ Wanted # {}
  BY <1>1 DEF WaitCycle
<1>4. PICK n \in Wanted : \A m \in Wanted : n <= m
  BY <1>3, LeastOfSet
<1>5. PICK r \in S : Current(r).id = n
  BY <1>4
<1>6. PICK s \in S : r \in Blockers(s)
  BY <1>5 DEF WaitCycle
<1>7. Current(s).id < n
  BY <1>2, <1>5, <1>6, BlockersAreAhead
<1>8. n <= Current(s).id
  BY <1>4
<1> QED
  BY <1>1, <1>5, <1>7, <1>8

\* Every committed write of an id is announced once, or is still to be, or
\* was lost to a killed process, and nothing else is announced: for any
\* number of requests and events, however their statements interleave.
\* Events wait for the commit (sync.service.ts:397-400).
THEOREM OneEventForEveryWrite == Spec => []EventsMatchWrites
<1>1. OrderInv => EventsMatchWrites
  BY DEF OrderInv
<1> QED
  BY <1>1, AlwaysInOrder, PTL

\* Requests for one collection never wait for each other in a circle, for any
\* number of them and of records: each has locked what lies behind the record
\* it waits for, in the order of the ids (sync.service.ts:261-270).
THEOREM OneCollectionNeverDeadlocks == Spec => []NoDeadlockWithinCollection
  BY AlwaysServerInv, AlwaysInOrder, NoCycleWithinCollection, PTL
=============================================================================
