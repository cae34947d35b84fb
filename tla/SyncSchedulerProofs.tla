------------------------ MODULE SyncSchedulerProofs ------------------------
(***************************************************************************)
(* One sync at a time, and one that gets through is enough: for any number *)
(* of edits, failures, losses of the connection and overlapping calls.     *)
(*                                                                         *)
(* The guard is up exactly while a sync is under way, so a second is never *)
(* begun.  A sync during which nothing was edited leaves every collection  *)
(* it has passed equal on both sides: its parents come first, so the       *)
(* server never turns its records away.                                    *)
(***************************************************************************)
EXTENDS SyncScheduler, FiniteSetTheorems, TLAPS

UnderWay(y) == y.pc # "none"

\* What a sync at y has brought about, given both sides' versions.
SyncOK(y, ed, ma) ==
  LET c == Order[y.at] IN
  /\ y.doing = "push" => y.carried <= ed[c]
  /\ y.accepted => y.doing = "push" /\ y.carried <= ma[c]
  /\ y.calm =>
       /\ \A i \in 1 .. Len(Order) : i < y.at => ma[Order[i]] = ed[Order[i]]
       /\ y.doing = "push" => y.carried = ed[c]
       /\ y.doing = "push" /\ y.pc \in {"handled", "body", "stalled"} => ma[c] = ed[c]

\* What both sides hold, whatever is under way.
SidesOK ==
  \A c \in Collection :
    /\ master[c] <= edited[c]
    /\ ~pending[c] => master[c] = edited[c]
    /\ c \in DOMAIN Parent /\ edited[c] > 0 => edited[Parent[c]] > 0

OneUnderWay ==
  /\ \A s, t \in Slot : UnderWay(syncs[s]) /\ UnderWay(syncs[t]) => s = t
  /\ syncing <=> \E s \in Slot : UnderWay(syncs[s])

\* The inductive invariant.
SchedulerInv ==
  /\ TypeOK
  /\ SidesOK
  /\ OneUnderWay
  /\ \A s \in Slot : UnderWay(syncs[s]) => SyncOK(syncs[s], edited, master)
  /\ OneSyncIsEnough

---------------------------------------------------------------------------
(* Collections and syncs                                                   *)

\* The collections in their order, and their parents.
LEMMA OrderFacts ==
  /\ Len(Order) = 3 /\ Order[1] = "boards" /\ Order[2] = "lists" /\ Order[3] = "cards"
  /\ \A i \in 1 .. 3 : Order[i] \in Collection
  /\ \A c \in Collection : \E i \in 1 .. 3 : c = Order[i]
  /\ DOMAIN Parent = {"lists", "cards"}
  /\ Parent["lists"] = "boards" /\ Parent["cards"] = "lists"
  /\ Order[1] \notin DOMAIN Parent
  /\ \A i \in 1 .. 3 : i > 1 => Order[i] \in DOMAIN Parent /\ Parent[Order[i]] = Order[i - 1]
<1>1. Len(Order) = 3 /\ Order[1] = "boards" /\ Order[2] = "lists" /\ Order[3] = "cards"
  BY DEF Order
<1>2. \A i \in 1 .. 3 : i = 1 \/ i = 2 \/ i = 3
  OBVIOUS
<1>3. /\ DOMAIN Parent = {"lists", "cards"}
      /\ Parent["lists"] = "boards" /\ Parent["cards"] = "lists"
  BY DEF Parent
<1> QED
  BY <1>1, <1>2, <1>3 DEF Collection

\* The parts of a sync, and the collection it is at.
LEMMA SyncParts ==
  ASSUME NEW y \in Sync
  PROVE  /\ y.at \in 1 .. 3 /\ y.carried \in Nat /\ y.accepted \in BOOLEAN /\ y.calm \in BOOLEAN
         /\ Order[y.at] \in Collection
  BY OrderFacts DEF Sync

\* A request is the next thing a sync does; nothing else of it changes.
LEMMA RequestIsSync ==
  ASSUME NEW y \in Sync, NEW doing \in {"pull", "push"}, NEW carried \in Nat
  PROVE  /\ Request(y, doing, carried) \in Sync
         /\ Request(y, doing, carried).pc = "token" /\ Request(y, doing, carried).at = y.at
         /\ Request(y, doing, carried).doing = doing
         /\ Request(y, doing, carried).carried = carried
         /\ ~Request(y, doing, carried).accepted
         /\ Request(y, doing, carried).calm = y.calm
  BY DEF Request, Sync

LEMMA NoSyncIsSync ==
  /\ NoSync \in Sync /\ ~UnderWay(NoSync) /\ NoSync.at = 1 /\ NoSync.calm = TRUE
  BY OrderFacts DEF NoSync, Sync, UnderWay

\* The first request of a sync pulls the first collection.
LEMMA FirstRequest ==
  LET y == Request(NoSync, "pull", 0) IN
  y \in Sync /\ y.pc = "token" /\ y.at = 1 /\ y.doing = "pull" /\ ~y.accepted
<1> DEFINE y == Request(NoSync, "pull", 0)
<1>1. NoSync \in Sync /\ NoSync.at = 1
  BY NoSyncIsSync
<1>2. ASSUME NEW x \in Sync
      PROVE  /\ Request(x, "pull", 0) \in Sync /\ Request(x, "pull", 0).pc = "token"
             /\ Request(x, "pull", 0).at = x.at
             /\ Request(x, "pull", 0).doing = "pull" /\ ~Request(x, "pull", 0).accepted
  BY RequestIsSync
<1> QED
  BY <1>1, <1>2

---------------------------------------------------------------------------
(* Starting                                                                *)

\* Whatever happens, syncAll begins a sync only when none is under way.
LEMMA BeginKeepsOne ==
  ASSUME SchedulerInv, NEW connected \in BOOLEAN, Begin(connected)
  PROVE  /\ syncs' \in [Slot -> Sync] /\ syncing' \in BOOLEAN
         /\ OneUnderWay'
         /\ \A s \in Slot : UnderWay(syncs'[s]) => SyncOK(syncs'[s], edited, master)
<1>1. /\ syncs \in [Slot -> Sync] /\ syncing \in BOOLEAN /\ OneUnderWay
      /\ \A s \in Slot : UnderWay(syncs[s]) => SyncOK(syncs[s], edited, master)
  BY DEF SchedulerInv, TypeOK
<1>2. CASE UNCHANGED <<syncing, syncs>>
  BY <1>1, <1>2 DEF OneUnderWay
<1>3. CASE ~syncing /\ connected
  <2> DEFINE y == Request(NoSync, "pull", 0)
  <2>1. PICK s \in Slot : syncing' = TRUE /\ syncs' = [syncs EXCEPT ![s] = y]
    BY <1>3 DEF Begin
  <2>2. /\ y \in Sync /\ y.pc = "token" /\ y.at = 1 /\ y.doing = "pull" /\ ~y.accepted
    BY ONLY FirstRequest
  <2> HIDE DEF y
  <2>3. UnderWay(y) /\ SyncOK(y, edited, master)
    BY <2>2, OrderFacts DEF UnderWay, SyncOK
  <2>4. \A t \in Slot : ~UnderWay(syncs[t])
    BY <1>1, <1>3 DEF OneUnderWay
  <2>5. /\ syncs' \in [Slot -> Sync] /\ syncs'[s] = y
        /\ \A t \in Slot : t # s => syncs'[t] = syncs[t]
    BY <1>1, <2>1, <2>2
  <2>6. OneUnderWay'
    BY <2>1, <2>3, <2>4, <2>5 DEF OneUnderWay
  <2> QED
    BY <2>1, <2>3, <2>4, <2>5, <2>6
<1>4. CASE ~syncing /\ ~connected
  <2>1. syncing' = FALSE /\ syncs' = syncs
    BY <1>4 DEF Begin
  <2> QED
    BY <1>1, <1>4, <2>1 DEF OneUnderWay
<1> QED
  BY <1>2, <1>3, <1>4 DEF Begin

\* A step that at most begins a sync keeps the invariant.
LEMMA StartStep ==
  ASSUME SchedulerInv, UNCHANGED <<device, master, settled>>,
         online' \in BOOLEAN, subscribed' \in BOOLEAN, used' \in [Bound -> Nat],
         UNCHANGED <<syncing, syncs>> \/ \E connected \in BOOLEAN : Begin(connected)
  PROVE  SchedulerInv'
<1>1. /\ syncs' \in [Slot -> Sync] /\ syncing' \in BOOLEAN /\ OneUnderWay'
      /\ \A s \in Slot : UnderWay(syncs'[s]) => SyncOK(syncs'[s], edited, master)
  <2>1. CASE UNCHANGED <<syncing, syncs>>
    BY <2>1 DEF SchedulerInv, TypeOK, OneUnderWay
  <2>2. CASE \E connected \in BOOLEAN : Begin(connected)
    BY <2>2, BeginKeepsOne
  <2> QED
    BY <2>1, <2>2
<1>2. edited' = edited /\ pending' = pending /\ master' = master /\ settled' = settled
  BY DEF device
<1>3. TypeOK'
  BY <1>1, <1>2 DEF SchedulerInv, TypeOK
<1>4. SidesOK' /\ OneSyncIsEnough'
  BY <1>2 DEF SchedulerInv, SidesOK, OneSyncIsEnough
<1> QED
  BY <1>1, <1>2, <1>3, <1>4 DEF SchedulerInv

\* What is spent stays a number.
LEMMA SpendKeepsType ==
  ASSUME SchedulerInv, NEW b \in Bound, NEW max, Spend(b, max)
  PROVE  used' \in [Bound -> Nat]
  BY DEF SchedulerInv, TypeOK, Spend

LEMMA HearKeepsInv ==
  ASSUME SchedulerInv, NEW connected \in BOOLEAN, Hear(connected)
  PROVE  SchedulerInv'
<1>1. used' \in [Bound -> Nat]
  <2>1. CASE connected
    BY <2>1 DEF Hear, SchedulerInv, TypeOK
  <2>2. CASE ~connected
    BY <2>2, SpendKeepsType DEF Hear, Bound
  <2> QED
    BY <2>1, <2>2
<1>2. UNCHANGED <<syncing, syncs>> \/ \E c \in BOOLEAN : Begin(c)
  BY DEF Hear
<1>3. online' \in BOOLEAN /\ subscribed' \in BOOLEAN
  BY DEF Hear, SchedulerInv, TypeOK
<1> QED
  BY <1>1, <1>2, <1>3, StartStep DEF Hear

LEMMA StartKeepsInv ==
  ASSUME SchedulerInv, Start \/ Stop \/ SyncAll
  PROVE  SchedulerInv'
<1>1. used' \in [Bound -> Nat]
  BY SpendKeepsType DEF Start, Stop, SyncAll, Bound, SchedulerInv, TypeOK
<1>2. online' \in BOOLEAN /\ subscribed' \in BOOLEAN /\ online \in BOOLEAN
  BY DEF Start, Stop, SyncAll, SchedulerInv, TypeOK
<1>3. UNCHANGED <<syncing, syncs>> \/ \E c \in BOOLEAN : Begin(c)
  BY <1>2 DEF Start, Stop, SyncAll
<1>4. UNCHANGED <<device, master, settled>>
  BY DEF Start, Stop, SyncAll
<1> QED
  BY <1>1, <1>2, <1>3, <1>4, StartStep

\* A kill leaves nothing under way and the guard down.
LEMMA CrashKeepsInv ==
  ASSUME SchedulerInv, Crash
  PROVE  SchedulerInv'
<1>1. syncs' = [s \in Slot |-> NoSync] /\ syncing' = FALSE
  BY DEF Crash
<1>2. \A s \in Slot : ~UnderWay(syncs'[s])
  BY <1>1, NoSyncIsSync
<1>3. used' \in [Bound -> Nat]
  BY SpendKeepsType DEF Crash, Bound
<1>4. TypeOK'
  BY <1>1, <1>3, NoSyncIsSync DEF Crash, device, SchedulerInv, TypeOK
<1>5. OneUnderWay'
  BY <1>1, <1>2 DEF OneUnderWay
<1>6. SidesOK' /\ OneSyncIsEnough'
  BY DEF Crash, device, SchedulerInv, SidesOK, OneSyncIsEnough
<1> QED
  BY <1>2, <1>4, <1>5, <1>6 DEF SchedulerInv

\* An edit puts the device ahead, and ends the calm of the sync under way.
LEMMA EditKeepsInv ==
  ASSUME SchedulerInv, NEW c \in Collection, Edit(c)
  PROVE  SchedulerInv'
<1>1. /\ edited' = [edited EXCEPT ![c] = @ + 1] /\ pending' = [pending EXCEPT ![c] = TRUE]
      /\ settled' = FALSE /\ syncs' = [s \in Slot |-> [syncs[s] EXCEPT !.calm = FALSE]]
      /\ UNCHANGED <<master, online, subscribed, syncing>>
      /\ c \in DOMAIN Parent => edited[Parent[c]] > 0
  BY DEF Edit
<1>2. /\ edited \in [Collection -> Nat] /\ master \in [Collection -> Nat]
      /\ pending \in [Collection -> BOOLEAN] /\ syncs \in [Slot -> Sync]
      /\ SidesOK /\ OneUnderWay
      /\ \A s \in Slot : UnderWay(syncs[s]) => SyncOK(syncs[s], edited, master)
  BY DEF SchedulerInv, TypeOK
<1>3. used' \in [Bound -> Nat]
  BY SpendKeepsType DEF Edit, Bound
<1>4. \A s \in Slot : /\ syncs'[s] \in Sync /\ syncs'[s].pc = syncs[s].pc
                      /\ syncs'[s].at = syncs[s].at /\ syncs'[s].doing = syncs[s].doing
                      /\ syncs'[s].carried = syncs[s].carried
                      /\ syncs'[s].accepted = syncs[s].accepted /\ syncs'[s].calm = FALSE
  BY <1>1, <1>2 DEF Sync
<1>5. TypeOK'
  <2>1. edited' \in [Collection -> Nat] /\ pending' \in [Collection -> BOOLEAN]
    BY <1>1, <1>2
  <2>2. syncs' \in [Slot -> Sync]
    BY <1>1, <1>4
  <2> QED
    BY <1>1, <1>3, <2>1, <2>2 DEF SchedulerInv, TypeOK
<1>6. \A d \in Collection : edited'[d] \in Nat /\ edited'[d] >= edited[d]
  BY <1>1, <1>2
<1>7. SidesOK'
  <2> SUFFICES ASSUME NEW d \in Collection
               PROVE  /\ master[d] <= edited'[d]
                      /\ ~pending'[d] => master[d] = edited'[d]
                      /\ d \in DOMAIN Parent /\ edited'[d] > 0 => edited'[Parent[d]] > 0
    BY <1>1 DEF SidesOK
  <2>1. /\ master[d] <= edited[d] /\ (~pending[d] => master[d] = edited[d])
        /\ d \in DOMAIN Parent /\ edited[d] > 0 => edited[Parent[d]] > 0
    BY <1>2 DEF SidesOK
  <2>2. d \in DOMAIN Parent => Parent[d] \in Collection
    BY OrderFacts DEF Collection
  <2> QED
    BY <1>1, <1>2, <1>6, <2>1, <2>2
<1>8. ASSUME NEW s \in Slot, UnderWay(syncs'[s])
      PROVE  SyncOK(syncs'[s], edited', master')
  <2>1. UnderWay(syncs[s]) /\ SyncOK(syncs[s], edited, master)
    BY <1>2, <1>4, <1>8 DEF UnderWay
  <2>2. Order[syncs[s].at] \in Collection /\ syncs[s].carried \in Nat
    BY <1>2, SyncParts
  <2> DEFINE x == syncs[s]
             o == Order[x.at]
  <2>3. /\ x.doing = "push" => x.carried <= edited[o]
        /\ x.accepted => x.doing = "push" /\ x.carried <= master[o]
    BY <2>1 DEF SyncOK
  <2>4. edited[o] \in Nat /\ edited'[o] \in Nat /\ edited[o] <= edited'[o]
    BY <1>2, <1>6, <2>2
  <2> HIDE DEF x, o
  <2>5. x.doing = "push" => x.carried <= edited'[o]
    BY <2>2, <2>3, <2>4 DEF x
  <2>6. /\ syncs'[s].doing = x.doing /\ syncs'[s].carried = x.carried
        /\ Order[syncs'[s].at] = o /\ master' = master
    BY <1>1, <1>4 DEF x, o
  <2>7. (syncs'[s].accepted <=> x.accepted) /\ ~syncs'[s].calm
    BY <1>4 DEF x
  <2> DEFINE z == syncs'[s]
  <2>8. /\ z.doing = "push" => z.carried <= edited'[Order[z.at]]
        /\ z.accepted => z.doing = "push" /\ z.carried <= master'[Order[z.at]]
        /\ ~z.calm
    BY <2>3, <2>5, <2>6, <2>7
  <2> HIDE DEF z
  <2>9. SyncOK(z, edited', master')
    BY <2>8 DEF SyncOK
  <2> QED
    BY <2>9 DEF z
<1>9. OneUnderWay'
  <2>1. \A s \in Slot : UnderWay(syncs'[s]) <=> UnderWay(syncs[s])
    BY <1>4 DEF UnderWay
  <2>2. syncing' = syncing
    BY <1>1
  <2> QED
    BY <1>2, <2>1, <2>2 DEF OneUnderWay
<1> QED
  BY <1>1, <1>5, <1>7, <1>8, <1>9 DEF SchedulerInv, OneSyncIsEnough

---------------------------------------------------------------------------
(* The requests of a sync                                                  *)

\* What is common to the steps of a sync that is under way.
LEMMA SyncStep ==
  ASSUME SchedulerInv, NEW s \in Slot, UnderWay(syncs[s]), NEW y \in Sync,
         syncs' = [syncs EXCEPT ![s] = y], syncing' \in BOOLEAN, syncing' <=> UnderWay(y),
         UNCHANGED <<edited, online, subscribed>>,
         master' \in [Collection -> Nat], pending' \in [Collection -> BOOLEAN],
         settled' \in BOOLEAN, used' \in [Bound -> Nat],
         SidesOK', UnderWay(y) => SyncOK(y, edited, master'), OneSyncIsEnough'
  PROVE  SchedulerInv'
<1>1. /\ syncs \in [Slot -> Sync] /\ OneUnderWay
  BY DEF SchedulerInv, TypeOK
<1>2. /\ syncs' \in [Slot -> Sync] /\ syncs'[s] = y
      /\ \A t \in Slot : t # s => syncs'[t] = syncs[t]
  BY <1>1
<1>3. \A t \in Slot : UnderWay(syncs'[t]) => t = s
  BY <1>1, <1>2 DEF OneUnderWay
<1>4. OneUnderWay'
  BY <1>2, <1>3 DEF OneUnderWay
<1>5. TypeOK'
  BY <1>2 DEF SchedulerInv, TypeOK
<1>6. \A t \in Slot : UnderWay(syncs'[t]) => SyncOK(syncs'[t], edited', master')
  BY <1>2, <1>3
<1> QED
  BY <1>4, <1>5, <1>6 DEF SchedulerInv

\* The facts a step of a sync starts from.
LEMMA AtStep ==
  ASSUME SchedulerInv, NEW s \in Slot, syncs[s].pc # "none"
  PROVE  /\ UnderWay(syncs[s]) /\ syncing = TRUE /\ syncs[s] \in Sync
         /\ SyncOK(syncs[s], edited, master) /\ SidesOK
         /\ Here(s) = Order[syncs[s].at] /\ Here(s) \in Collection
         /\ edited \in [Collection -> Nat] /\ master \in [Collection -> Nat]
         /\ pending \in [Collection -> BOOLEAN] /\ syncs \in [Slot -> Sync]
         /\ settled \in BOOLEAN /\ used \in [Bound -> Nat] /\ OneSyncIsEnough
  BY SyncParts DEF SchedulerInv, TypeOK, OneUnderWay, UnderWay, Here

\* Waiting for the token, or for the body: neither side changes, and the
\* stage a push must have passed is not reached or was reached before.
LEMMA WaitingKeepsInv ==
  ASSUME SchedulerInv, NEW s \in Slot, TokenReady(s) \/ HeadArrives(s) \/ Stall(s)
  PROVE  SchedulerInv'
<1>1. PICK pc \in {"sent", "body", "stalled"} :
        /\ syncs' = [syncs EXCEPT ![s].pc = pc]
        /\ UNCHANGED <<device, master, online, subscribed, syncing, settled>>
        /\ pc = "sent" \/ syncs[s].pc \in {"handled", "body"}
  BY DEF TokenReady, HeadArrives, Stall
<1>2. syncs[s].pc # "none"
  BY DEF TokenReady, HeadArrives, Stall
<1> DEFINE y == [syncs[s] EXCEPT !.pc = pc]
<1>3. /\ y \in Sync /\ y.pc = pc /\ y.at = syncs[s].at /\ y.doing = syncs[s].doing
      /\ y.carried = syncs[s].carried /\ y.accepted = syncs[s].accepted
      /\ y.calm = syncs[s].calm
  BY <1>1, <1>2, AtStep DEF Sync
<1>4. syncs' = [syncs EXCEPT ![s] = y]
  BY <1>1
<1> HIDE DEF y
<1>5. UnderWay(y) /\ SyncOK(y, edited, master)
  BY <1>1, <1>2, <1>3, AtStep DEF SyncOK, UnderWay
<1>6. used' \in [Bound -> Nat]
  BY <1>2, AtStep, SpendKeepsType DEF TokenReady, HeadArrives, Stall, Bound
<1>7. edited' = edited /\ pending' = pending /\ master' = master
  BY <1>1 DEF device
<1>8. SidesOK' /\ OneSyncIsEnough'
  BY <1>1, <1>2, <1>7, AtStep DEF SidesOK, OneSyncIsEnough
<1>9. /\ UnderWay(syncs[s]) /\ syncing = TRUE
      /\ master \in [Collection -> Nat] /\ pending \in [Collection -> BOOLEAN]
      /\ settled \in BOOLEAN
  BY <1>2, AtStep
<1>10. /\ syncing' \in BOOLEAN /\ (syncing' <=> UnderWay(y))
       /\ UNCHANGED <<edited, online, subscribed>>
       /\ master' \in [Collection -> Nat] /\ pending' \in [Collection -> BOOLEAN]
       /\ settled' \in BOOLEAN /\ (UnderWay(y) => SyncOK(y, edited, master'))
  BY <1>1, <1>5, <1>7, <1>9
<1> QED
  BY <1>3, <1>4, <1>6, <1>8, <1>9, <1>10, SyncStep

\* The server takes a push whose parent it has, which is every calm one.
LEMMA ServerHandlesKeepsInv ==
  ASSUME SchedulerInv, NEW s \in Slot, ServerHandles(s)
  PROVE  SchedulerInv'
<1> DEFINE x == syncs[s]
           c == Here(s)
           new == x.doing = "push" /\ Welcome(c) /\ x.carried > master[c]
           y == [x EXCEPT !.pc = "handled", !.accepted = new]
<1>1. x.pc = "sent"
  BY DEF ServerHandles
<1>2. /\ UnderWay(x) /\ syncing = TRUE /\ x \in Sync
      /\ SyncOK(x, edited, master) /\ SidesOK
      /\ c = Order[x.at] /\ c \in Collection
      /\ edited \in [Collection -> Nat] /\ master \in [Collection -> Nat]
      /\ pending \in [Collection -> BOOLEAN] /\ syncs \in [Slot -> Sync]
      /\ settled \in BOOLEAN /\ used \in [Bound -> Nat] /\ OneSyncIsEnough
  BY <1>1, AtStep
<1>3. /\ master' = IF new THEN [master EXCEPT ![c] = x.carried] ELSE master
      /\ syncs' = [syncs EXCEPT ![s].pc = "handled", ![s].accepted = new]
      /\ UNCHANGED <<device, online, subscribed, syncing, settled, used>>
  BY DEF ServerHandles
<1>4. new \in BOOLEAN /\ x.carried \in Nat /\ x.at \in 1 .. 3
  BY <1>2, SyncParts
<1>5. /\ y \in Sync /\ y.pc = "handled" /\ y.at = x.at /\ y.doing = x.doing
      /\ y.carried = x.carried /\ y.accepted = new /\ y.calm = x.calm
  BY <1>2, <1>4 DEF Sync
<1>6. syncs' = [syncs EXCEPT ![s] = y]
  BY <1>2, <1>3 DEF Sync
<1> HIDE DEF y
<1>7. x.doing = "push" => x.carried <= edited[c]
  BY <1>2 DEF SyncOK
<1>8. /\ master' \in [Collection -> Nat]
      /\ \A d \in Collection : master[d] <= edited[d] /\ master[d] <= master'[d] /\ master'[d] <= edited[d]
      /\ \A d \in Collection : d # c => master'[d] = master[d]
      /\ master'[c] = IF new THEN x.carried ELSE master[c]
  <2>1. \A d \in Collection : master[d] <= edited[d] /\ master[d] \in Nat /\ edited[d] \in Nat
    BY <1>2 DEF SidesOK
  <2>2. CASE new
    BY <2>1, <2>2, <1>2, <1>3, <1>4, <1>7
  <2>3. CASE ~new
    BY <2>1, <2>3, <1>2, <1>3
  <2> QED
    BY <2>2, <2>3
<1>9. \A d \in Collection : master[d] = edited[d] => master'[d] = edited[d]
  <2> SUFFICES ASSUME NEW d \in Collection, master[d] = edited[d] PROVE master'[d] = edited[d]
    OBVIOUS
  <2>1. master[d] \in Nat /\ master'[d] \in Nat /\ edited[d] \in Nat
    BY <1>2, <1>8
  <2> QED
    BY <2>1, <1>8
<1>10. edited' = edited /\ pending' = pending /\ settled' = settled
  BY <1>3 DEF device
<1>11. SidesOK' /\ OneSyncIsEnough'
  <2>1. SidesOK'
    BY <1>2, <1>8, <1>9, <1>10 DEF SidesOK
  <2>2. OneSyncIsEnough'
    BY <1>2, <1>9, <1>10 DEF OneSyncIsEnough
  <2> QED
    BY <2>1, <2>2
<1>12. ASSUME x.calm, x.doing = "push" PROVE master'[c] = edited[c]
  <2>1. /\ x.carried = edited[c]
        /\ \A i \in 1 .. 3 : i < x.at => master[Order[i]] = edited[Order[i]]
    BY <1>2, <1>12, OrderFacts DEF SyncOK
  <2>2. master[c] \in Nat /\ edited[c] \in Nat /\ master[c] <= edited[c]
    BY <1>2, <1>8
  <2>3. CASE new
    BY <2>1, <2>3, <1>8
  <2>4. CASE ~new /\ Welcome(c)
    BY <2>1, <2>2, <2>4, <1>8, <1>12
  <2>5. CASE ~Welcome(c)
    <3>1. c \in DOMAIN Parent /\ ~(master[Parent[c]] > 0) /\ ~(master[c] > 0)
      BY <2>5 DEF Welcome
    <3>2. x.at \in 2 .. 3 /\ x.at - 1 \in 1 .. 3 /\ x.at - 1 < x.at
      BY <1>2, <1>4, <3>1, OrderFacts
    <3>3. Parent[c] = Order[x.at - 1]
      BY <1>2, <1>4, <3>2, OrderFacts
    <3>4. master[Parent[c]] = edited[Parent[c]]
      BY <2>1, <3>2, <3>3
    <3>5. ~(edited[c] > 0)
      BY <1>2, <3>1, <3>4 DEF SidesOK
    <3> QED
      BY <2>2, <2>5, <3>1, <3>5, <1>8
  <2> QED
    BY <2>3, <2>4, <2>5
<1>13. new => x.doing = "push" /\ x.carried <= master'[c]
  BY <1>4, <1>8
<1>14. \A i \in 1 .. 3 : x.calm /\ i < x.at => master'[Order[i]] = edited[Order[i]]
  BY <1>2, <1>9, OrderFacts DEF SyncOK
<1>15. x.calm /\ x.doing = "push" => x.carried = edited[c]
  BY <1>2 DEF SyncOK
<1>16. UnderWay(y) /\ SyncOK(y, edited, master')
  <2>1. Order[y.at] = c
    BY <1>2, <1>5
  <2>2. y.doing = "push" => y.carried <= edited[c]
    BY <1>5, <1>7
  <2>3. y.accepted => y.doing = "push" /\ y.carried <= master'[c]
    BY <1>5, <1>13
  <2>4. y.calm => /\ \A i \in 1 .. Len(Order) : i < y.at => master'[Order[i]] = edited[Order[i]]
                  /\ y.doing = "push" => y.carried = edited[c] /\ master'[c] = edited[c]
    BY <1>5, <1>12, <1>14, <1>15, OrderFacts
  <2> QED
    BY <1>5, <2>1, <2>2, <2>3, <2>4 DEF SyncOK, UnderWay
<1> QED
  BY <1>2, <1>3, <1>5, <1>6, <1>8, <1>10, <1>11, <1>16, SyncStep

\* On to the next collection, with every one up to here the same on both
\* sides if all was calm; or to the end.
LEMMA FollowingIsOK ==
  ASSUME NEW x \in Sync, NEW ed, NEW ma, online \in BOOLEAN,
         x.calm => \A i \in 1 .. 3 : i <= x.at => ma[Order[i]] = ed[Order[i]]
  PROVE  /\ Following(x) \in Sync
         /\ Following(x) # NoSync <=> UnderWay(Following(x))
         /\ UnderWay(Following(x)) => SyncOK(Following(x), ed, ma)
<1>1. CASE online /\ x.at < 3
  <2> DEFINE z == [x EXCEPT !.at = @ + 1]
             y == Request(z, "pull", 0)
  <2>1. z \in Sync /\ z.at = x.at + 1 /\ z.calm = x.calm
    BY <1>1, SyncParts, OrderFacts DEF Sync
  <2>2. Following(x) = y
    BY <1>1, OrderFacts DEF Following
  <2> HIDE DEF z
  <2>3. /\ y \in Sync /\ y.pc = "token" /\ y.at = z.at /\ y.doing = "pull"
        /\ ~y.accepted /\ y.calm = z.calm
    <3>1. "pull" \in {"pull", "push"} /\ 0 \in Nat
      OBVIOUS
    <3> QED
      BY <2>1, <3>1, RequestIsSync
  <2> HIDE DEF y
  <2>4. \A i \in 1 .. 3 : i < y.at => i <= x.at
    BY <2>1, <2>3, SyncParts
  <2>5. SyncOK(y, ed, ma)
    BY <2>1, <2>3, <2>4, OrderFacts DEF SyncOK
  <2>6. UnderWay(y) /\ y # NoSync
    BY <2>3 DEF UnderWay, NoSync
  <2> QED
    BY <2>2, <2>3, <2>5, <2>6
<1>2. CASE ~(online /\ x.at < 3)
  <2>1. Following(x) = NoSync
    BY <1>2, OrderFacts DEF Following
  <2> QED
    BY <2>1, NoSyncIsSync
<1> QED
  BY <1>1, <1>2

\* A sync that goes on, or ends: when it was calm through the last
\* collection, everything is on the server.
LEMMA GoOnKeepsInv ==
  ASSUME SchedulerInv, NEW s \in Slot, syncs[s].pc # "none", NEW y \in Sync, GoOn(s, y),
         y # NoSync <=> UnderWay(y), UnderWay(y) => SyncOK(y, edited, master),
         UNCHANGED <<edited, master, online, subscribed, used>>,
         pending' \in [Collection -> BOOLEAN], SidesOK',
         y = NoSync /\ syncs[s].calm /\ syncs[s].at = 3 =>
           \A i \in 1 .. 3 : master[Order[i]] = edited[Order[i]]
  PROVE  SchedulerInv'
<1>1. /\ syncs' = [syncs EXCEPT ![s] = y] /\ syncing' = (y # NoSync)
      /\ settled' = (settled \/ (y = NoSync /\ syncs[s].at = 3 /\ syncs[s].calm))
  BY OrderFacts DEF GoOn
<1>2. syncing' \in BOOLEAN /\ settled' \in BOOLEAN /\ (syncing' <=> UnderWay(y))
  BY <1>1
<1>3. OneSyncIsEnough'
  <2> SUFFICES ASSUME settled', NEW c \in Collection PROVE master[c] = edited[c]
    BY DEF OneSyncIsEnough
  <2>1. CASE settled
    BY <2>1, AtStep DEF OneSyncIsEnough
  <2>2. CASE ~settled
    <3>1. y = NoSync /\ syncs[s].at = 3 /\ syncs[s].calm
      BY <2>2, <1>1
    <3>2. PICK i \in 1 .. 3 : c = Order[i]
      BY OrderFacts
    <3> QED
      BY <3>1, <3>2
  <2> QED
    BY <2>1, <2>2
<1> QED
  BY <1>1, <1>2, <1>3, AtStep, SyncStep

\* A pull clears `pending` only where both sides are the same, and a push
\* takes what is edited last.
LEMMA PullArrivesKeepsInv ==
  ASSUME SchedulerInv, NEW s \in Slot, PullArrives(s)
  PROVE  SchedulerInv'
<1> DEFINE x == syncs[s]
           c == Here(s)
           y == IF pending'[c] THEN Request(x, "push", edited[c]) ELSE Following(x)
<1>1. x.pc = "body" /\ x.doing = "pull"
  BY DEF PullArrives
<1>2. /\ UnderWay(x) /\ x \in Sync /\ SyncOK(x, edited, master) /\ SidesOK
      /\ c = Order[x.at] /\ c \in Collection
      /\ edited \in [Collection -> Nat] /\ master \in [Collection -> Nat]
      /\ pending \in [Collection -> BOOLEAN] /\ x.at \in 1 .. 3 /\ online \in BOOLEAN
  BY <1>1, AtStep, SyncParts DEF SchedulerInv, TypeOK
<1>3. /\ GoOn(s, y) /\ UNCHANGED <<edited, master, online, subscribed, used>>
      /\ \/ UNCHANGED pending
         \/ master[c] >= edited[c] /\ pending' = [pending EXCEPT ![c] = FALSE]
  BY DEF PullArrives
<1>4. /\ pending' \in [Collection -> BOOLEAN]
      /\ \A d \in Collection : ~pending'[d] => master[d] = edited[d]
  <2>1. \A d \in Collection : /\ master[d] <= edited[d] /\ (~pending[d] => master[d] = edited[d])
                              /\ master[d] \in Nat /\ edited[d] \in Nat
    BY <1>2 DEF SidesOK
  <2>2. CASE UNCHANGED pending
    BY <2>1, <2>2, <1>2
  <2>3. CASE master[c] >= edited[c] /\ pending' = [pending EXCEPT ![c] = FALSE]
    <3>1. master[c] = edited[c]
      BY <2>1, <2>3, <1>2
    <3> QED
      BY <2>1, <2>3, <3>1, <1>2
  <2> QED
    BY <2>2, <2>3, <1>3
<1>5. SidesOK'
  BY <1>2, <1>3, <1>4 DEF SidesOK
<1>6. x.calm => \A i \in 1 .. 3 : i < x.at => master[Order[i]] = edited[Order[i]]
  BY <1>2, OrderFacts DEF SyncOK
<1>7. CASE pending'[c]
  <2>1. y = Request(x, "push", edited[c])
    BY <1>7
  <2> HIDE DEF y
  <2>2. /\ y \in Sync /\ y.pc = "token" /\ y.at = x.at /\ y.doing = "push"
        /\ y.carried = edited[c] /\ ~y.accepted /\ y.calm = x.calm
    <3> DEFINE n == edited[c]
    <3>1. "push" \in {"pull", "push"} /\ n \in Nat /\ x \in Sync /\ y = Request(x, "push", n)
      BY <1>2, <2>1
    <3> HIDE DEF x, n
    <3>2. /\ y \in Sync /\ y.pc = "token" /\ y.at = x.at /\ y.doing = "push"
          /\ y.carried = n /\ ~y.accepted /\ y.calm = x.calm
      BY <3>1, RequestIsSync
    <3> QED
      BY <3>2 DEF n
  <2>3. UnderWay(y) /\ y # NoSync
    BY <2>2 DEF UnderWay, NoSync
  <2>4. SyncOK(y, edited, master)
    BY <2>2, <1>2, <1>6, OrderFacts DEF SyncOK
  <2> QED
    BY <2>2, <2>3, <2>4, <1>1, <1>3, <1>4, <1>5, GoOnKeepsInv
<1>8. CASE ~pending'[c]
  <2>1. y = Following(x)
    BY <1>8
  <2> HIDE DEF y
  <2>2. master[c] = edited[c]
    BY <1>2, <1>4, <1>8
  <2>3. x.calm => \A i \in 1 .. 3 : i <= x.at => master[Order[i]] = edited[Order[i]]
    BY <2>2, <1>2, <1>6
  <2>4. /\ y \in Sync /\ (y # NoSync <=> UnderWay(y))
        /\ UnderWay(y) => SyncOK(y, edited, master)
    BY <2>1, <2>3, <1>2, FollowingIsOK
  <2>5. x.calm /\ x.at = 3 => \A i \in 1 .. 3 : master[Order[i]] = edited[Order[i]]
    BY <2>3
  <2> QED
    BY <2>4, <2>5, <1>1, <1>3, <1>4, <1>5, GoOnKeepsInv
<1> QED
  BY <1>7, <1>8

\* A push that was accepted, and of what is still the last edit, clears
\* `pending`: the server has that edit.
LEMMA PushArrivesKeepsInv ==
  ASSUME SchedulerInv, NEW s \in Slot, PushArrives(s)
  PROVE  SchedulerInv'
<1> DEFINE x == syncs[s]
           c == Here(s)
           y == Following(x)
<1>1. x.pc = "body" /\ x.doing = "push"
  BY DEF PushArrives
<1>2. /\ UnderWay(x) /\ x \in Sync /\ SyncOK(x, edited, master) /\ SidesOK
      /\ c = Order[x.at] /\ c \in Collection
      /\ edited \in [Collection -> Nat] /\ master \in [Collection -> Nat]
      /\ pending \in [Collection -> BOOLEAN] /\ x.at \in 1 .. 3 /\ online \in BOOLEAN
  BY <1>1, AtStep, SyncParts DEF SchedulerInv, TypeOK
<1>3. /\ GoOn(s, y) /\ UNCHANGED <<edited, master, online, subscribed, used>>
      /\ pending' = IF x.accepted /\ edited[c] = x.carried
                    THEN [pending EXCEPT ![c] = FALSE] ELSE pending
  BY DEF PushArrives
<1>4. /\ pending' \in [Collection -> BOOLEAN]
      /\ \A d \in Collection : ~pending'[d] => master[d] = edited[d]
  <2>1. \A d \in Collection : /\ master[d] <= edited[d] /\ (~pending[d] => master[d] = edited[d])
                              /\ master[d] \in Nat /\ edited[d] \in Nat
    BY <1>2 DEF SidesOK
  <2>2. CASE ~(x.accepted /\ edited[c] = x.carried)
    BY <2>1, <2>2, <1>2, <1>3
  <2>3. CASE x.accepted /\ edited[c] = x.carried
    <3>1. x.carried <= master[c]
      BY <2>3, <1>2 DEF SyncOK
    <3>2. master[c] = edited[c]
      BY <2>1, <2>3, <3>1, <1>2
    <3> QED
      BY <2>1, <2>3, <3>2, <1>2, <1>3
  <2> QED
    BY <2>2, <2>3
<1>5. SidesOK'
  BY <1>2, <1>3, <1>4 DEF SidesOK
<1>6. x.calm => \A i \in 1 .. 3 : i <= x.at => master[Order[i]] = edited[Order[i]]
  <2>1. x.calm => /\ \A i \in 1 .. 3 : i < x.at => master[Order[i]] = edited[Order[i]]
                  /\ master[Order[x.at]] = edited[Order[x.at]]
    BY <1>1, <1>2, OrderFacts DEF SyncOK
  <2> QED
    BY <2>1, <1>2
<1> HIDE DEF y
<1>7. /\ y \in Sync /\ (y # NoSync <=> UnderWay(y))
      /\ UnderWay(y) => SyncOK(y, edited, master)
  BY <1>2, <1>6, FollowingIsOK DEF y
<1>8. x.calm /\ x.at = 3 => \A i \in 1 .. 3 : master[Order[i]] = edited[Order[i]]
  BY <1>6
<1> QED
  BY <1>1, <1>3, <1>4, <1>5, <1>7, <1>8, GoOnKeepsInv

\* A request that fails ends the sync and lowers the guard.
LEMMA RequestFailsKeepsInv ==
  ASSUME SchedulerInv, NEW s \in Slot, RequestFails(s)
  PROVE  SchedulerInv'
<1>1. /\ syncs[s].pc # "none" /\ syncs' = [syncs EXCEPT ![s] = NoSync] /\ syncing' = FALSE
      /\ UNCHANGED <<device, master, online, subscribed, settled>>
  BY DEF RequestFails, Fails
<1>2. used' \in [Bound -> Nat]
  BY SpendKeepsType DEF RequestFails, Bound
<1>3. SidesOK' /\ OneSyncIsEnough' /\ edited' = edited /\ pending' = pending
  BY <1>1, AtStep DEF device, SidesOK, OneSyncIsEnough
<1> QED
  BY <1>1, <1>2, <1>3, AtStep, NoSyncIsSync, SyncStep

---------------------------------------------------------------------------
(* The theorems                                                            *)

LEMMA InitHasInv == Init => SchedulerInv
<1> SUFFICES ASSUME Init PROVE SchedulerInv
  OBVIOUS
<1>1. \A s \in Slot : syncs[s] \in Sync /\ ~UnderWay(syncs[s])
  BY NoSyncIsSync DEF Init
<1>2. TypeOK
  BY <1>1 DEF Init, TypeOK
<1>3. SidesOK
  BY DEF Init, SidesOK
<1>4. OneUnderWay
  BY <1>1 DEF Init, OneUnderWay
<1> QED
  BY <1>1, <1>2, <1>3, <1>4 DEF Init, SchedulerInv, OneSyncIsEnough

LEMMA NextKeepsInv == SchedulerInv /\ [Next]_vars => SchedulerInv'
<1> SUFFICES ASSUME SchedulerInv, [Next]_vars PROVE SchedulerInv'
  OBVIOUS
<1>1. ASSUME NEW c \in Collection, Edit(c) PROVE SchedulerInv'
  BY <1>1, EditKeepsInv
<1>2. ASSUME NEW connected \in BOOLEAN, Hear(connected) PROVE SchedulerInv'
  BY <1>2, HearKeepsInv
<1>3. CASE Start \/ Stop \/ SyncAll
  BY <1>3, StartKeepsInv
<1>4. CASE Crash
  BY <1>4, CrashKeepsInv
<1>5. ASSUME NEW s \in Slot, Advance(s) PROVE SchedulerInv'
  BY <1>5, WaitingKeepsInv, ServerHandlesKeepsInv, PullArrivesKeepsInv,
     PushArrivesKeepsInv DEF Advance
<1>6. ASSUME NEW s \in Slot, RequestFails(s) \/ Stall(s) PROVE SchedulerInv'
  BY <1>6, RequestFailsKeepsInv, WaitingKeepsInv
<1>7. CASE UNCHANGED vars
  BY <1>7 DEF vars, device, SchedulerInv, TypeOK, SidesOK, OneUnderWay, OneSyncIsEnough
<1> QED
  BY <1>1, <1>2, <1>3, <1>4, <1>5, <1>6, <1>7 DEF Next

\* The invariant holds in every state of every behaviour.
LEMMA AlwaysSchedulerInv == Spec => []SchedulerInv
  BY InitHasInv, NextKeepsInv, PTL DEF Spec

\* The scheduler's variables keep their types (SyncService.ts:287-291).
THEOREM SchedulerTypes == Spec => []TypeOK
<1>1. SchedulerInv => TypeOK
  BY DEF SchedulerInv
<1> QED
  BY <1>1, AlwaysSchedulerInv, PTL

\* However calls, events, failures and stops overlap, at most one sync is
\* under way, and the guard is up exactly then (SyncService.ts:277-296).
THEOREM NeverTwoSyncs == Spec => []AtMostOneSync
<1>1. SchedulerInv => AtMostOneSync
  <2> SUFFICES ASSUME SchedulerInv PROVE AtMostOneSync
    OBVIOUS
  <2> DEFINE busy == {s \in Slot : syncs[s].pc # "none"}
  <2>1. /\ \A s, t \in busy : s = t
        /\ syncing <=> \E s \in Slot : syncs[s].pc # "none"
    BY DEF SchedulerInv, OneUnderWay, UnderWay
  <2>2. Cardinality(busy) <= 1
    <3>1. CASE busy = {}
      BY <3>1, FS_EmptySet
    <3>2. CASE busy # {}
      <4>1. PICK s \in busy : busy = {s}
        BY <3>2, <2>1
      <4>2. Cardinality(busy) = 1
        BY <4>1, FS_Singleton
      <4> QED
        BY <4>2
    <3> QED
      BY <3>1, <3>2
  <2> QED
    BY <2>1, <2>2 DEF AtMostOneSync
<1> QED
  BY <1>1, AlwaysSchedulerInv, PTL

\* A sync that gets through all collections, with no edit since it began,
\* leaves the server with everything the device has: boards before lists
\* before cards, so no record is turned away for want of its parent
\* (SyncService.ts:278, 287-291).
THEOREM OneSyncSuffices == Spec => []OneSyncIsEnough
<1>1. SchedulerInv => OneSyncIsEnough
  BY DEF SchedulerInv
<1> QED
  BY <1>1, AlwaysSchedulerInv, PTL
=============================================================================
