--------------------------- MODULE AttachmentQueue ---------------------------
(***************************************************************************)
(* The background upload queue of the mobile app                           *)
(* (src/mobile/src/attachments/AttachmentUploadQueue.ts), its persistent   *)
(* table, the network monitor that kicks it, the timers of its back-off    *)
(* and the OS background task that drains it.                              *)
(*                                                                         *)
(* Code between two awaits is one step.  Time is relative: a record stores *)
(* how long it still has to wait for nextAttemptAt, a timer how long until *)
(* it fires, so time itself needs no bound.  A listed record may be        *)
(* claimed in any order; the code goes by nextAttemptAt.                   *)
(***************************************************************************)
EXTENDS Integers, FiniteSets

CONSTANTS
  Id,               \* the files a user may attach
  None,             \* no record
  MaxConcurrent,    \* cfg.maxConcurrent (2 in the code)
  MaxAttempts,      \* cfg.maxAttempts (6 in the code)
  BackoffBase,      \* cfg.backoffBaseMs, in steps of Tick
  BackoffMax,       \* cfg.backoffMaxMs
  MaxNetChanges, MaxRetries, MaxStops, MaxCrashes   \* bounds

Status == {"queued", "uploading", "uploaded", "failed"}
Upload == [status : Status, attempts : 0..MaxAttempts, wait : 0..BackoffMax]

ASSUME QueueAssumption ==
  /\ MaxConcurrent \in Nat \ {0}
  /\ MaxAttempts \in Nat \ {0}
  /\ BackoffBase \in Nat /\ BackoffMax \in Nat
  /\ None \notin Upload

VARIABLES
  stored,     \* stored[id]: the row of the attachment_uploads table
  good,       \* isSuitableForLargeUpload(network)
  started,    \* listening to the network (unsubscribe is set)
  stopped,    \* stop() was called and start() was not
  phase,      \* of the drain: "idle" is ~draining
  rerun,      \* a kick arrived during the drain
  todo,       \* the records listed by this pass and not yet claimed
  worker,     \* worker[w]: what worker w is doing, on which record
  timers,     \* how long until each pending back-off timer fires
  retrying,   \* retrying[id]: retry(id) calls that have read "failed"
  used        \* how much of each bound a behaviour has used

vars == <<stored, good, started, stopped, phase, rerun, todo, worker,
          timers, retrying, used>>

Listed == [id : Id, attempts : 0..MaxAttempts]

\* Workers of one pass and, were the draining guard to fail, of a second one.
Worker == 1..(2 * MaxConcurrent)
Off == [pc |-> "off"]
AtLoopHead == [pc |-> "claim"]
Busy == [pc : {"mark", "upload", "store", "park"}, record : Listed]

Bound == {"net", "retries", "stops", "crashes"}

TypeOK ==
  /\ stored \in [Id -> Upload \cup {None}]
  /\ good \in BOOLEAN /\ started \in BOOLEAN /\ stopped \in BOOLEAN
  /\ phase \in {"idle", "list", "work"}
  /\ rerun \in BOOLEAN
  /\ todo \subseteq Listed
  /\ worker \in [Worker -> {Off, AtLoopHead} \cup Busy]
  /\ timers \subseteq 0..BackoffMax
  /\ retrying \in [Id -> Nat]
  /\ used \in [Bound -> Nat]

Init ==
  /\ stored = [id \in Id |-> None]
  /\ good = FALSE
  /\ started = FALSE /\ stopped = FALSE
  /\ phase = "idle" /\ rerun = FALSE
  /\ todo = {}
  /\ worker = [w \in Worker |-> Off]
  /\ timers = {}
  /\ retrying = [id \in Id |-> 0]
  /\ used = [b \in Bound |-> 0]

Spend(b, max) == used[b] < max /\ used' = [used EXCEPT ![b] = @ + 1]

HasStatus(id, status) == stored[id] # None /\ stored[id].status = status

Open == good /\ ~stopped

BusyWorkers == {w \in Worker : worker[w] \in Busy}
InFlight == {worker[w].record.id : w \in BusyWorkers}

---------------------------------------------------------------------------
(* The drain: kick, process, drainOnce                                     *)

\* The re-entrancy guard forgotten: every kick begins a pass of its own.
KickUnguarded(open) ==
  /\ phase' = IF open THEN "list" ELSE phase
  /\ rerun' = FALSE

\* A kick during a drain dropped instead of noted.
KickDropped(open) ==
  /\ phase' = IF phase = "idle" /\ open THEN "list" ELSE phase
  /\ UNCHANGED rerun

\* process(): note the kick if a drain is on, else begin one; with the
\* network unsuitable or the queue stopped the drain is over at once.
Kick(open) ==
  \/ phase # "idle" /\ rerun' = TRUE /\ UNCHANGED phase
  \/ phase = "idle" /\ phase' = (IF open THEN "list" ELSE "idle") /\ rerun' = FALSE

\* The end of a pass: another one if a kick arrived meanwhile.
PassEnds ==
  /\ phase' = IF rerun /\ Open THEN "list" ELSE "idle"
  /\ rerun' = FALSE

\* Everything past its back-off, whatever became of it.
RunnableAnyStatus ==
  {id \in Id : stored[id] # None /\ stored[id].wait = 0 /\ id \notin InFlight}

Runnable ==
  {id \in Id : HasStatus(id, "queued") /\ stored[id].wait = 0 /\ id \notin InFlight}

\* listRunnable() resolves: the pass is over, or its workers begin.
List ==
  /\ phase = "list"
  /\ IF Runnable = {} THEN PassEnds /\ UNCHANGED <<todo, worker>>
     ELSE /\ phase' = "work"
          /\ UNCHANGED rerun
          /\ todo' = {[id |-> id, attempts |-> stored[id].attempts] : id \in Runnable}
          /\ \E pool \in SUBSET {w \in Worker : worker[w] = Off} :
               /\ Cardinality(pool) = IF Cardinality(Runnable) < MaxConcurrent
                                      THEN Cardinality(Runnable) ELSE MaxConcurrent
               /\ \A w \in pool, v \in Worker \ pool : worker[v] = Off => w < v
               /\ worker' = [w \in Worker |-> IF w \in pool THEN AtLoopHead ELSE worker[w]]
  /\ UNCHANGED <<stored, good, started, stopped, timers, retrying, used>>

\* Promise.all over the workers resolves.
FinishPass ==
  /\ phase = "work" /\ \A w \in Worker : worker[w] = Off
  /\ PassEnds
  /\ UNCHANGED <<stored, good, started, stopped, todo, worker, timers, retrying, used>>

---------------------------------------------------------------------------
(* A worker: the loop of drainOnce, runClaimed, handleFailure              *)

Claim(w) ==
  /\ worker[w] = AtLoopHead
  /\ \/ /\ Open
        /\ \E r \in todo :
             /\ r.id \notin InFlight
             /\ worker' = [worker EXCEPT ![w] = [pc |-> "mark", record |-> r]]
             /\ todo' = todo \ {r}
     \/ /\ ~Open \/ \A r \in todo : r.id \in InFlight
        /\ worker' = [worker EXCEPT ![w] = Off]
        /\ UNCHANGED todo
  /\ UNCHANGED <<stored, good, started, stopped, phase, rerun, timers, retrying, used>>

\* Worker w is at pc with its record, and goes on to pc2.
GoesOn(w, pc, pc2) ==
  /\ worker[w].pc = pc
  /\ worker' = [worker EXCEPT ![w].pc = pc2]

\* Worker w stores its record with a new status.
Stores(w, status, attempts, wait) ==
  stored' = [stored EXCEPT ![worker[w].record.id] =
               [status |-> status, attempts |-> attempts, wait |-> wait]]

Mark(w) ==
  /\ GoesOn(w, "mark", "upload")
  /\ Stores(w, "uploading", worker[w].record.attempts, 0)
  /\ UNCHANGED <<good, started, stopped, phase, rerun, todo, timers, retrying, used>>

\* The uploader resolves or rejects.
UploadEnds(w) ==
  /\ GoesOn(w, "upload", "store") \/ GoesOn(w, "upload", "park")
  /\ UNCHANGED <<stored, good, started, stopped, phase, rerun, todo, timers, retrying, used>>

\* The result thrown away when the queue was stopped during the transfer.
StoreUploadedUnlessStopped(w) ==
  /\ worker[w].pc = "store"
  /\ worker' = [worker EXCEPT ![w] = AtLoopHead]
  /\ stopped \/ Stores(w, "uploaded", worker[w].record.attempts, 0)
  /\ stopped => UNCHANGED stored
  /\ UNCHANGED <<good, started, stopped, phase, rerun, todo, timers, retrying, used>>

StoreUploaded(w) ==
  /\ worker[w].pc = "store"
  /\ worker' = [worker EXCEPT ![w] = AtLoopHead]
  /\ Stores(w, "uploaded", worker[w].record.attempts, 0)
  /\ UNCHANGED <<good, started, stopped, phase, rerun, todo, timers, retrying, used>>

\* One attempt too many.
ExhaustedLate(attempts) == attempts > MaxAttempts

Exhausted(attempts) == attempts >= MaxAttempts

Backoff(attempts) ==
  LET delay == BackoffBase * 2 ^ (attempts - 1)
  IN IF delay < BackoffMax THEN delay ELSE BackoffMax

\* handleFailure: park the record for good, or until its back-off is over;
\* a stopped queue sets no timer.
Park(w) ==
  LET attempts == worker[w].record.attempts + 1
  IN /\ worker[w].pc = "park"
     /\ worker' = [worker EXCEPT ![w] = AtLoopHead]
     /\ \/ /\ Exhausted(attempts)
           /\ Stores(w, "failed", attempts, 0)
           /\ UNCHANGED timers
        \/ /\ ~Exhausted(attempts)
           /\ Stores(w, "queued", attempts, Backoff(attempts))
           /\ timers' = timers \cup (IF stopped THEN {} ELSE {Backoff(attempts)})
     /\ UNCHANGED <<good, started, stopped, phase, rerun, todo, retrying, used>>

WorkerStep(w) == Claim(w) \/ Mark(w) \/ UploadEnds(w) \/ StoreUploaded(w) \/ Park(w)

---------------------------------------------------------------------------
(* The app                                                                 *)

Enqueue(id) ==
  /\ stored[id] = None
  /\ stored' = [stored EXCEPT ![id] = [status |-> "queued", attempts |-> 0, wait |-> 0]]
  /\ Kick(Open)
  /\ UNCHANGED <<good, started, stopped, todo, worker, timers, retrying, used>>

\* retry(id), up to its await: only a failed record is re-queued.
RetryRead(id) ==
  /\ HasStatus(id, "failed")
  /\ Spend("retries", MaxRetries)
  /\ retrying' = [retrying EXCEPT ![id] = @ + 1]
  /\ UNCHANGED <<stored, good, started, stopped, phase, rerun, todo, worker, timers>>

RetryPut(id) ==
  /\ retrying[id] > 0
  /\ retrying' = [retrying EXCEPT ![id] = @ - 1]
  /\ stored' = [stored EXCEPT ![id] = [status |-> "queued", attempts |-> 0, wait |-> 0]]
  /\ Kick(Open)
  /\ UNCHANGED <<good, started, stopped, todo, worker, timers, used>>

Start ==
  /\ ~started
  /\ started' = TRUE /\ stopped' = FALSE
  /\ Kick(good)
  /\ UNCHANGED <<stored, good, todo, worker, timers, retrying, used>>

Stop ==
  /\ Spend("stops", MaxStops)
  /\ stopped' = TRUE /\ started' = FALSE
  /\ timers' = {}
  /\ UNCHANGED <<stored, good, phase, rerun, todo, worker, retrying>>

---------------------------------------------------------------------------
(* The world around it                                                     *)

\* A network event; a started queue is kicked by it.
NetChange ==
  /\ Spend("net", MaxNetChanges)
  /\ good' = ~good
  /\ IF started THEN Kick(good' /\ ~stopped) ELSE UNCHANGED <<phase, rerun>>
  /\ UNCHANGED <<stored, started, stopped, todo, worker, timers, retrying>>

\* runBackgroundUploadOnce: the OS wakes the app and it drains the queue.
BackgroundWake ==
  /\ good /\ Kick(Open)
  /\ UNCHANGED <<stored, good, started, stopped, todo, worker, timers, retrying, used>>

Less(n) == IF n > 0 THEN n - 1 ELSE 0

Tick ==
  /\ \/ \E n \in timers : n > 0
     \/ \E id \in Id : stored[id] # None /\ stored[id].wait > 0
  /\ stored' = [id \in Id |-> IF stored[id] = None THEN None
                              ELSE [stored[id] EXCEPT !.wait = Less(@)]]
  /\ timers' = {Less(n) : n \in timers}
  /\ UNCHANGED <<good, started, stopped, phase, rerun, todo, worker, retrying, used>>

TimerFires ==
  /\ 0 \in timers
  /\ timers' = timers \ {0}
  /\ Kick(Open)
  /\ UNCHANGED <<stored, good, started, stopped, todo, worker, retrying, used>>

\* The app is killed; what start() and the constructor set up is gone.
Crash ==
  /\ Spend("crashes", MaxCrashes)
  /\ started' = FALSE /\ stopped' = FALSE
  /\ phase' = "idle" /\ rerun' = FALSE
  /\ todo' = {}
  /\ worker' = [w \in Worker |-> Off]
  /\ timers' = {}
  /\ retrying' = [id \in Id |-> 0]
  /\ UNCHANGED <<stored, good>>

App == Start \/ Stop \/ \E id \in Id : Enqueue(id) \/ RetryRead(id) \/ RetryPut(id)

Next ==
  \/ App
  \/ List \/ FinishPass \/ \E w \in Worker : WorkerStep(w)
  \/ NetChange \/ BackgroundWake \/ Tick \/ TimerFires \/ Crash

Spec == Init /\ [][Next]_vars

\* The JavaScript runtime goes on with what it has begun, an upload ends one
\* way or the other, time passes and timers fire; a killed or new app starts
\* its queue.  Nothing obliges the user, the network or the OS.
Fairness ==
  /\ WF_vars(List) /\ WF_vars(FinishPass)
  /\ \A w \in Worker : WF_vars(WorkerStep(w))
  /\ WF_vars(Tick) /\ WF_vars(TimerFires)
  /\ WF_vars(Start)

FairSpec == Spec /\ Fairness

---------------------------------------------------------------------------
(* Properties                                                              *)

\* No more than maxConcurrent transfers at once, whatever kicks arrive and
\* however often the queue is stopped and started in the middle of a drain
\* (AttachmentUploadQueue.ts:14 and 51).
ConcurrencyBound == Cardinality(BusyWorkers) <= MaxConcurrent

\* A file that has been uploaded is not uploaded again: nothing takes it
\* back to the queue, neither a stale listing nor a kick in the middle of a
\* drain.  The exception is a retry that read `failed` before another retry
\* of the same file had it uploaded: its put comes too late (lines 109-120).
UploadedStays ==
  [][\A id \in Id : HasStatus(id, "uploaded") /\ retrying[id] = 0 =>
       stored'[id] = stored[id]]_vars

\* A record marked uploading is in the hands of a worker, so its fate is
\* still to be stored, unless the app was killed.
UploadingHasWorker ==
  used["crashes"] = 0 =>
    \A id \in Id : HasStatus(id, "uploading") => id \in InFlight

\* Once the queue runs on a suitable network, everything staged is uploaded
\* or given up, without another event: no kick is lost, and the back-off
\* timer is enough.  Not claimed after stop() or a kill, which drop timers.
Waiting(id) == HasStatus(id, "queued") \/ HasStatus(id, "uploading")
Undisturbed == started /\ good /\ used["stops"] = 0 /\ used["crashes"] = 0

EverythingSettles ==
  \A id \in Id : Waiting(id) ~> ~Waiting(id) \/ ~Undisturbed

\* "restarting the app resumes exactly where it left off" (ports.ts:7).
\* Violated: a record left uploading by a kill is never listed again.
RestartResumes ==
  \A id \in Id : HasStatus(id, "uploading") ~> ~HasStatus(id, "uploading")
=============================================================================
