---------------------------- MODULE SyncScheduler ----------------------------
(***************************************************************************)
(* When the mobile app syncs, and what one sync of all collections is good *)
(* for: SyncService in src/mobile/src/sync/SyncService.ts, driven by       *)
(* networkMonitor.ts, over the requests of httpSyncTransport.ts.           *)
(*                                                                         *)
(* SyncSystem has the merge of one collection; here a record is a version  *)
(* number, one record to a collection, each the parent of the next.  The   *)
(* device edits at any time.  A sync takes the collections in order, each  *)
(* with a pull and, if anything is pending, a push; each of these waits    *)
(* for the token, the answer's head and the answer's body in turn.         *)
(***************************************************************************)
EXTENDS Integers, Sequences, FiniteSets

CONSTANTS
  Slot,          \* room for syncs under way: the code means to need one
  MaxEdits,      \* bound: edits
  MaxFailures,   \* bound: requests that fail or stall, and killed apps
  MaxDrops       \* bound: losses of the connection, and stops

ASSUME SchedulerAssumption ==
  /\ IsFiniteSet(Slot) /\ Slot # {}
  /\ {MaxEdits, MaxFailures, MaxDrops} \subseteq Nat

VARIABLES
  edited,      \* the device: the version of each collection's record, 0 if none
  pending,     \* the device: what is still to be acknowledged
  master,      \* the server: the version of each record, 0 if none
  online,      \* what the network monitor last heard
  subscribed,  \* start() has been called
  syncing,     \* the re-entrancy guard
  syncs,       \* the syncAll calls under way
  settled,     \* history: a sync got through and nothing was edited since it began
  used         \* what is spent of each bound

device == <<edited, pending>>
vars == <<device, master, online, subscribed, syncing, syncs, settled, used>>

\* The collections the other way round.
ChildrenFirst == <<"cards", "lists", "boards">>

Order == <<"boards", "lists", "cards">>

Collection == {"boards", "lists", "cards"}
Parent == [lists |-> "boards", cards |-> "lists"]
Bound == {"edits", "failures", "drops"}

Sync == [pc       : {"none", "token", "sent", "handled", "body", "stalled"},
         at       : 1 .. Len(Order),
         doing    : {"pull", "push"},
         carried  : Nat,
         accepted : BOOLEAN,
         calm     : BOOLEAN]

\* Nothing under way.  `carried` is the version a push sends, `calm` (history)
\* that nothing was edited since the sync began.
NoSync == [pc |-> "none", at |-> 1, doing |-> "pull", carried |-> 0,
           accepted |-> FALSE, calm |-> TRUE]

\* Every variable has its type: a sync, while it goes on, is at one of the
\* collections (SyncService.ts:287-291).
TypeOK ==
  /\ edited \in [Collection -> Nat] /\ master \in [Collection -> Nat]
  /\ pending \in [Collection -> BOOLEAN]
  /\ online \in BOOLEAN /\ subscribed \in BOOLEAN /\ syncing \in BOOLEAN
  /\ syncs \in [Slot -> Sync]
  /\ settled \in BOOLEAN
  /\ used \in [Bound -> Nat]

Init ==
  /\ edited = [c \in Collection |-> 0] /\ master = edited
  /\ pending = [c \in Collection |-> FALSE]
  /\ online = FALSE /\ subscribed = FALSE /\ syncing = FALSE
  /\ syncs = [s \in Slot |-> NoSync]
  /\ settled = FALSE
  /\ used = [b \in Bound |-> 0]

Spend(b, max) == used[b] < max /\ used' = [used EXCEPT ![b] = @ + 1]

\* The collection a sync is at.
Here(s) == Order[syncs[s].at]

---------------------------------------------------------------------------
(* The user                                                                *)

\* create or mutate of a record; its parent is made first.
Edit(c) ==
  /\ c \in DOMAIN Parent => edited[Parent[c]] > 0
  /\ Spend("edits", MaxEdits)
  /\ edited' = [edited EXCEPT ![c] = @ + 1]
  /\ pending' = [pending EXCEPT ![c] = TRUE]
  /\ settled' = FALSE
  /\ syncs' = [s \in Slot |-> [syncs[s] EXCEPT !.calm = FALSE]]
  /\ UNCHANGED <<master, online, subscribed, syncing>>

---------------------------------------------------------------------------
(* Starting a sync                                                         *)

Request(sync, doing, carried) ==
  [sync EXCEPT !.pc = "token", !.doing = doing, !.carried = carried, !.accepted = FALSE]

\* syncAll without the guard.
BeginAlways(connected) ==
  \E s \in Slot :
    /\ syncs[s].pc = "none"
    /\ syncing' = connected
    /\ syncs' = IF connected THEN [syncs EXCEPT ![s] = Request(NoSync, "pull", 0)] ELSE syncs

\* syncAll: dropped while another is under way; offline every collection is
\* skipped at once.
Begin(connected) ==
  \/ /\ ~syncing
     /\ \E s \in Slot :
          /\ syncs[s].pc = "none"
          /\ syncing' = connected
          /\ syncs' = IF connected THEN [syncs EXCEPT ![s] = Request(NoSync, "pull", 0)]
                      ELSE syncs
  \/ syncing /\ UNCHANGED <<syncing, syncs>>

\* An event of the network, or the state hydrate() asked for.
Hear(connected) ==
  /\ online' = connected
  /\ IF connected THEN UNCHANGED used ELSE online /\ Spend("drops", MaxDrops)
  /\ IF subscribed /\ connected THEN Begin(TRUE) ELSE UNCHANGED <<syncing, syncs>>
  /\ UNCHANGED <<device, master, subscribed, settled>>

Start ==
  /\ ~subscribed
  /\ subscribed' = TRUE
  /\ IF online THEN Begin(TRUE) ELSE UNCHANGED <<syncing, syncs>>
  /\ UNCHANGED <<device, master, online, settled, used>>

\* What is under way goes on.
Stop ==
  /\ subscribed
  /\ Spend("drops", MaxDrops)
  /\ subscribed' = FALSE
  /\ UNCHANGED <<device, master, online, syncing, syncs, settled>>

\* A sync the user asks for.
SyncAll ==
  /\ Begin(online)
  /\ UNCHANGED <<device, master, online, subscribed, settled, used>>

---------------------------------------------------------------------------
(* The requests of a sync                                                  *)

\* The token is there and the request goes out.
TokenReady(s) ==
  /\ syncs[s].pc = "token"
  /\ syncs' = [syncs EXCEPT ![s].pc = "sent"]
  /\ UNCHANGED <<device, master, online, subscribed, syncing, settled, used>>

\* A record the server has, or can insert under its parent.
Welcome(c) == master[c] > 0 \/ (c \in DOMAIN Parent => master[Parent[c]] > 0)

\* The server answers; a push that brings nothing new is not accepted.
ServerHandles(s) ==
  LET c   == Here(s)
      new == syncs[s].doing = "push" /\ Welcome(c) /\ syncs[s].carried > master[c]
  IN /\ syncs[s].pc = "sent"
     /\ master' = IF new THEN [master EXCEPT ![c] = syncs[s].carried] ELSE master
     /\ syncs' = [syncs EXCEPT ![s].pc = "handled", ![s].accepted = new]
     /\ UNCHANGED <<device, online, subscribed, syncing, settled, used>>

\* The head of the answer: from here on nothing limits the time.
HeadArrives(s) ==
  /\ syncs[s].pc = "handled"
  /\ syncs' = [syncs EXCEPT ![s].pc = "body"]
  /\ UNCHANGED <<device, master, online, subscribed, syncing, settled, used>>

\* Off by one: the last collection is not known for the last.
FollowingPastEnd(sync) ==
  IF online /\ sync.at < Len(Order) + 1
  THEN Request([sync EXCEPT !.at = @ + 1], "pull", 0) ELSE NoSync

\* On to the next collection.  Offline, all that are left are skipped.
Following(sync) ==
  IF online /\ sync.at < Len(Order)
  THEN Request([sync EXCEPT !.at = @ + 1], "pull", 0) ELSE NoSync

\* Go on with the sync, or end it: the guard is lowered in `finally`.
GoOn(s, next) ==
  /\ syncs' = [syncs EXCEPT ![s] = next]
  /\ syncing' = (next # NoSync)
  /\ settled' = (settled \/ (next = NoSync /\ syncs[s].at = Len(Order) /\ syncs[s].calm))

\* A pull that shows the server has what the device has clears `pending`; then
\* pushPending reads what is pending.
PullArrives(s) ==
  LET c == Here(s) IN
  /\ syncs[s].pc = "body" /\ syncs[s].doing = "pull"
  /\ \/ UNCHANGED pending
     \/ master[c] >= edited[c] /\ pending' = [pending EXCEPT ![c] = FALSE]
  /\ GoOn(s, IF pending'[c] THEN Request(syncs[s], "push", edited[c]) ELSE Following(syncs[s]))
  /\ UNCHANGED <<edited, master, online, subscribed, used>>

\* `pending` is cleared for what was accepted and not edited since.
PushArrives(s) ==
  LET c == Here(s) IN
  /\ syncs[s].pc = "body" /\ syncs[s].doing = "push"
  /\ pending' = IF syncs[s].accepted /\ edited[c] = syncs[s].carried
                THEN [pending EXCEPT ![c] = FALSE] ELSE pending
  /\ GoOn(s, Following(syncs[s]))
  /\ UNCHANGED <<edited, master, online, subscribed, used>>

\* A failure that leaves the guard up.
FailsStuck(s) ==
  /\ syncs' = [syncs EXCEPT ![s] = NoSync]
  /\ UNCHANGED syncing

\* The sync ends where it is: the collections left are not synced.
Fails(s) ==
  /\ syncs' = [syncs EXCEPT ![s] = NoSync]
  /\ syncing' = FALSE

\* No token, no connection, a time-out before the head, a status that is not
\* 2xx, a body that breaks off or is not of the expected shape.
RequestFails(s) ==
  /\ syncs[s].pc \in {"token", "sent", "handled", "body"}
  /\ Spend("failures", MaxFailures)
  /\ Fails(s)
  /\ UNCHANGED <<device, master, online, subscribed, settled>>

\* The body stops coming: the timer was cleared with the head, so the sync
\* waits, and every other is dropped, until the app is killed.
Stall(s) ==
  /\ syncs[s].pc = "body"
  /\ Spend("failures", MaxFailures)
  /\ syncs' = [syncs EXCEPT ![s].pc = "stalled"]
  /\ UNCHANGED <<device, master, online, subscribed, syncing, settled>>

\* The app is killed, and opened again.
Crash ==
  /\ Spend("failures", MaxFailures)
  /\ online' = FALSE /\ subscribed' = FALSE /\ syncing' = FALSE
  /\ syncs' = [s \in Slot |-> NoSync]
  /\ UNCHANGED <<device, master, settled>>

---------------------------------------------------------------------------
Advance(s) ==
  TokenReady(s) \/ ServerHandles(s) \/ HeadArrives(s) \/ PullArrives(s) \/ PushArrives(s)

Next ==
  \/ \E c \in Collection : Edit(c)
  \/ \E connected \in BOOLEAN : Hear(connected)
  \/ Start \/ Stop \/ SyncAll \/ Crash
  \/ \E s \in Slot : Advance(s) \/ RequestFails(s) \/ Stall(s)

Spec == Init /\ [][Next]_vars

\* Answers that do not stall arrive, the app calls start(), and the connection
\* changes while no sync is under way, again and again.
FairSpec ==
  /\ Spec
  /\ \A s \in Slot : WF_vars(Advance(s))
  /\ WF_vars(Start)
  /\ SF_vars(~syncing /\ Hear(TRUE))

---------------------------------------------------------------------------
(* Properties                                                              *)

\* There is never a second sync under way, and the guard is up exactly while
\* there is one, whatever events, starts, stops and failures overlap
\* (SyncService.ts:257-258, 277-296).
AtMostOneSync ==
  /\ Cardinality({s \in Slot : syncs[s].pc # "none"}) <= 1
  /\ syncing <=> \E s \in Slot : syncs[s].pc # "none"

\* One sync that gets through all collections is enough: what was made
\* before it is on the server, children made offline together with their
\* parents included (SyncService.ts:278, 287-291).
OneSyncIsEnough ==
  settled => \A c \in Collection : master[c] = edited[c]

\* Every edit reaches the server in the end, however syncs are dropped, cut
\* off and fail (SyncService.ts:298-315), unless an answer stalls.
EditsReachServer ==
  \A c \in Collection :
    edited[c] > master[c] ~>
      edited[c] = master[c] \/ \E s \in Slot : syncs[s].pc = "stalled"
=============================================================================
