------------------------ MODULE AttachmentQueueProofs ------------------------
(***************************************************************************)
(* Theorems of AttachmentQueue for any files, any maxConcurrent, any       *)
(* maxAttempts and back-off, and with no bound on network changes,         *)
(* retries, stops or crashes.                                              *)
(*                                                                         *)
(* Two inductive invariants.  TypeInv: every variable has its type, and    *)
(* whatever is still to be tried has an attempt left, which is why an      *)
(* attempt counter never passes maxAttempts.  DrainInv: workers exist only *)
(* in a drain and never more than maxConcurrent, and each record is in the *)
(* hands of one of them at most.                                           *)
(***************************************************************************)
EXTENDS AttachmentQueue, FiniteSetTheorems, TLAPS

---------------------------------------------------------------------------
(* Types                                                                   *)

AttemptsLeft ==
  /\ \A id \in Id : HasStatus(id, "queued") => stored[id].attempts < MaxAttempts
  /\ \A r \in todo : r.attempts < MaxAttempts
  /\ \A w \in Worker : worker[w] \in Busy => worker[w].record.attempts < MaxAttempts

TypeInv == TypeOK /\ AttemptsLeft

\* A worker at a step of a transfer is busy, and stays so from step to step
\* with the same record; at the head of the loop or off it is not busy.
LEMMA BusySteps ==
  ASSUME TypeOK, NEW w \in Worker
  PROVE  /\ worker[w] \in Busy <=> worker[w].pc \in {"mark", "upload", "store", "park"}
         /\ worker[w] \in Busy => /\ worker[w].record \in Listed
                                  /\ worker[w].record.id \in Id
                                  /\ worker[w].record.attempts \in 0..MaxAttempts
         /\ Off \notin Busy /\ AtLoopHead \notin Busy /\ AtLoopHead # Off
         /\ \A pc \in {"upload", "store", "park"} :
              worker[w] \in Busy =>
                /\ [worker[w] EXCEPT !.pc = pc] \in Busy
                /\ [worker[w] EXCEPT !.pc = pc].record = worker[w].record
<1>1. Off \notin Busy /\ AtLoopHead \notin Busy /\ AtLoopHead # Off
  BY DEF Off, AtLoopHead, Busy
<1>2. worker[w] \in {Off, AtLoopHead} \cup Busy
  BY DEF TypeOK
<1>3. worker[w] \in Busy <=> worker[w].pc \in {"mark", "upload", "store", "park"}
  BY <1>2 DEF Off, AtLoopHead, Busy
<1>4. worker[w] \in Busy => /\ worker[w].record \in Listed
                            /\ worker[w].record.id \in Id
                            /\ worker[w].record.attempts \in 0..MaxAttempts
  BY DEF Busy, Listed
<1>5. ASSUME NEW pc \in {"upload", "store", "park"}, worker[w] \in Busy
      PROVE  /\ [worker[w] EXCEPT !.pc = pc] \in Busy
             /\ [worker[w] EXCEPT !.pc = pc].record = worker[w].record
  BY <1>5 DEF Busy
<1> QED
  BY <1>1, <1>3, <1>4, <1>5

\* The back-off is a number of steps within its limit.
LEMMA BackoffType ==
  ASSUME NEW attempts \in Nat \ {0}
  PROVE  Backoff(attempts) \in 0..BackoffMax
<1> DEFINE n == attempts - 1
<1>1. n \in Nat
  OBVIOUS
<1>2. 2 ^ n \in Nat
  <2>1. IsFiniteSet(1..n) /\ Cardinality(1..n) = n
    BY <1>1, FS_Interval
  <2>2. IsFiniteSet(SUBSET (1..n)) /\ Cardinality(SUBSET (1..n)) = 2 ^ n
    BY <2>1, FS_SUBSET
  <2> QED
    BY <2>2, FS_CardinalityType
<1> HIDE DEF n
<1>3. BackoffBase * 2 ^ n \in Nat
  BY <1>2, QueueAssumption
<1> QED
  BY <1>3, QueueAssumption DEF Backoff, n

\* A kick may begin a drain; the workers of a drain under way never see it.
LEMMA KickType ==
  ASSUME TypeOK, NEW open \in BOOLEAN, Kick(open)
  PROVE  /\ phase' \in {"idle", "list", "work"} /\ rerun' \in BOOLEAN
         /\ phase' = "work" <=> phase = "work"
  BY DEF Kick, TypeOK

\* The end of a pass begins another one or none.
LEMMA PassEndsType ==
  ASSUME PassEnds
  PROVE  phase' \in {"idle", "list"} /\ rerun' \in BOOLEAN
  BY DEF PassEnds

LEMMA QueueInitType == Init => TypeInv
<1> SUFFICES ASSUME Init PROVE TypeOK /\ AttemptsLeft
  BY DEF TypeInv
<1>1. TypeOK
  <2>1. worker \in [Worker -> {Off, AtLoopHead} \cup Busy]
    BY DEF Init
  <2> QED
    BY <2>1 DEF Init, TypeOK
<1>2. \A w \in Worker : worker[w] \notin Busy
  BY DEF Init, Off, Busy
<1>3. AttemptsLeft
  BY <1>2 DEF Init, AttemptsLeft, HasStatus
<1> QED
  BY <1>1, <1>3

\* A record of the table, whichever way it is written.
LEMMA StoresType ==
  ASSUME TypeOK, NEW w \in Worker, worker[w] \in Busy,
         NEW status \in Status, NEW attempts \in 0..MaxAttempts, NEW wait \in 0..BackoffMax,
         Stores(w, status, attempts, wait)
  PROVE  /\ stored' \in [Id -> Upload \cup {None}]
         /\ stored'[worker[w].record.id] =
              [status |-> status, attempts |-> attempts, wait |-> wait]
         /\ stored'[worker[w].record.id] # None
         /\ \A id \in Id : id # worker[w].record.id => stored'[id] = stored[id]
<1> DEFINE new == [status |-> status, attempts |-> attempts, wait |-> wait]
<1>1. worker[w].record.id \in Id
  BY BusySteps
<1>2. new \in Upload /\ new # None
  BY QueueAssumption DEF Upload
<1>3. stored' = [stored EXCEPT ![worker[w].record.id] = new]
  BY DEF Stores
<1> HIDE DEF new
<1>4. stored' \in [Id -> Upload \cup {None}] /\ stored'[worker[w].record.id] = new
  BY <1>1, <1>2, <1>3 DEF TypeOK
<1>5. \A id \in Id : id # worker[w].record.id => stored'[id] = stored[id]
  BY <1>3 DEF TypeOK
<1> QED
  BY <1>2, <1>4, <1>5 DEF new

\* Listing, and the end of a pass, keep the types.
LEMMA DrainType ==
  ASSUME TypeInv, List \/ FinishPass
  PROVE  TypeInv'
<1> USE DEF TypeInv
<1>1. ASSUME List, Runnable = {}
      PROVE  TypeInv'
  BY <1>1, PassEndsType DEF List, TypeOK, AttemptsLeft, HasStatus
<1>2. ASSUME List, Runnable # {}
      PROVE  TypeInv'
  <2>1. PICK pool \in SUBSET {w \in Worker : worker[w] = Off} :
          worker' = [w \in Worker |-> IF w \in pool THEN AtLoopHead ELSE worker[w]]
    BY <1>2 DEF List
  <2>2. ASSUME NEW id \in Runnable
        PROVE  stored[id].attempts \in 0..MaxAttempts /\ stored[id].attempts < MaxAttempts
    BY DEF Runnable, HasStatus, TypeOK, Upload, AttemptsLeft
  <2>3. todo' = {[id |-> id, attempts |-> stored[id].attempts] : id \in Runnable}
    BY <1>2 DEF List
  <2>4. todo' \subseteq Listed /\ \A r \in todo' : r.attempts < MaxAttempts
    BY <2>2, <2>3 DEF Runnable, Listed
  <2>5. worker' \in [Worker -> {Off, AtLoopHead} \cup Busy]
    BY <2>1 DEF TypeOK
  <2>6. \A w \in Worker : worker'[w] \in Busy => worker'[w] = worker[w]
    BY <2>1, BusySteps
  <2> QED
    BY <1>2, <2>4, <2>5, <2>6 DEF List, TypeOK, AttemptsLeft, HasStatus
<1>3. CASE FinishPass
  BY <1>3, PassEndsType DEF FinishPass, TypeOK, AttemptsLeft, HasStatus
<1> QED
  BY <1>1, <1>2, <1>3

\* Every step of a worker keeps the types; a failed attempt is counted only
\* while one is left, so the counter stops at maxAttempts.
LEMMA WorkerType ==
  ASSUME TypeInv, NEW w \in Worker, WorkerStep(w)
  PROVE  TypeInv'
<1> USE DEF TypeInv
<1> DEFINE record == worker[w].record
<1>1. CASE Claim(w)
  <2>1. /\ todo' \subseteq todo
        /\ \E r \in todo \cup {Off} :
             worker' = [worker EXCEPT ![w] = IF r = Off THEN Off
                                             ELSE [pc |-> "mark", record |-> r]]
    <3>1. Off \notin todo
      BY DEF TypeOK, Listed, Off
    <3> QED
      BY <1>1, <3>1 DEF Claim
  <2>2. PICK r \in todo \cup {Off} :
          worker' = [worker EXCEPT ![w] = IF r = Off THEN Off ELSE [pc |-> "mark", record |-> r]]
    BY <2>1
  <2>3. r = Off \/ (r \in todo /\ [pc |-> "mark", record |-> r] \in Busy)
    BY DEF TypeOK, Busy
  <2>4. worker' \in [Worker -> {Off, AtLoopHead} \cup Busy]
    BY <2>2, <2>3 DEF TypeOK
  <2>5. \A v \in Worker : worker'[v] \in Busy => worker'[v].record.attempts < MaxAttempts
    BY <2>2, <2>3, BusySteps DEF TypeOK, AttemptsLeft
  <2> QED
    BY <1>1, <2>1, <2>4, <2>5 DEF Claim, TypeOK, AttemptsLeft, HasStatus
<1>2. ASSUME NEW pc \in {"upload", "store", "park"},
             worker[w] \in Busy, worker' = [worker EXCEPT ![w].pc = pc]
      PROVE  /\ worker' \in [Worker -> {Off, AtLoopHead} \cup Busy]
             /\ \A v \in Worker : worker'[v] \in Busy => worker'[v].record.attempts < MaxAttempts
  <2>1. [worker[w] EXCEPT !.pc = pc] \in Busy /\ [worker[w] EXCEPT !.pc = pc].record = record
    BY <1>2, BusySteps
  <2>2. worker' = [worker EXCEPT ![w] = [worker[w] EXCEPT !.pc = pc]]
    BY <1>2
  <2> QED
    BY <1>2, <2>1, <2>2 DEF TypeOK, AttemptsLeft
<1>3. ASSUME worker[w] \in Busy, worker' = [worker EXCEPT ![w] = AtLoopHead]
      PROVE  /\ worker' \in [Worker -> {Off, AtLoopHead} \cup Busy]
             /\ \A v \in Worker : worker'[v] \in Busy => worker'[v].record.attempts < MaxAttempts
  BY <1>3, BusySteps DEF TypeOK, AttemptsLeft
<1>4. ASSUME worker[w] \in Busy, NEW status \in Status, NEW attempts \in 0..MaxAttempts,
             NEW wait \in 0..BackoffMax, Stores(w, status, attempts, wait),
             status = "queued" => attempts < MaxAttempts
      PROVE  /\ stored' \in [Id -> Upload \cup {None}]
             /\ \A id \in Id : HasStatus(id, "queued")' => stored'[id].attempts < MaxAttempts
  <2>1. /\ stored' \in [Id -> Upload \cup {None}]
        /\ stored'[record.id] = [status |-> status, attempts |-> attempts, wait |-> wait]
        /\ \A id \in Id : id # record.id => stored'[id] = stored[id]
    BY <1>4, StoresType
  <2> QED
    BY <1>4, <2>1 DEF HasStatus, AttemptsLeft
<1>5. worker[w] \in Busy => record.attempts \in 0..MaxAttempts /\ record.attempts < MaxAttempts
  BY BusySteps DEF AttemptsLeft
<1>6. 0 \in 0..BackoffMax
  BY QueueAssumption
<1>7. CASE Mark(w)
  <2>1. worker[w] \in Busy /\ worker' = [worker EXCEPT ![w].pc = "upload"]
    BY <1>7, BusySteps DEF Mark, GoesOn
  <2>2. /\ stored' \in [Id -> Upload \cup {None}]
        /\ \A id \in Id : HasStatus(id, "queued")' => stored'[id].attempts < MaxAttempts
    BY <1>4, <1>5, <1>6, <1>7, <2>1 DEF Mark, Status
  <2> QED
    BY <1>2, <1>7, <2>1, <2>2 DEF Mark, TypeOK, AttemptsLeft
<1>8. CASE UploadEnds(w)
  <2>1. PICK pc \in {"store", "park"} :
          worker[w] \in Busy /\ worker' = [worker EXCEPT ![w].pc = pc]
    BY <1>8, BusySteps DEF UploadEnds, GoesOn
  <2> QED
    BY <1>2, <1>8, <2>1 DEF UploadEnds, TypeOK, AttemptsLeft, HasStatus
<1>9. CASE StoreUploaded(w)
  <2>1. worker[w] \in Busy /\ worker' = [worker EXCEPT ![w] = AtLoopHead]
    BY <1>9, BusySteps DEF StoreUploaded
  <2>2. /\ stored' \in [Id -> Upload \cup {None}]
        /\ \A id \in Id : HasStatus(id, "queued")' => stored'[id].attempts < MaxAttempts
    BY <1>4, <1>5, <1>6, <1>9, <2>1 DEF StoreUploaded, Status
  <2> QED
    BY <1>3, <1>9, <2>1, <2>2 DEF StoreUploaded, TypeOK, AttemptsLeft
<1>10. CASE Park(w)
  <2> DEFINE attempts == record.attempts + 1
  <2>1. worker[w] \in Busy /\ worker' = [worker EXCEPT ![w] = AtLoopHead]
    BY <1>10, BusySteps DEF Park
  <2>2. attempts \in 0..MaxAttempts /\ attempts \in Nat \ {0}
    BY <1>5, <2>1, QueueAssumption
  <2>3. Backoff(attempts) \in 0..BackoffMax
    BY <2>2, BackoffType
  <2>4. /\ \/ Stores(w, "failed", attempts, 0)
           \/ attempts < MaxAttempts /\ Stores(w, "queued", attempts, Backoff(attempts))
        /\ timers' \subseteq timers \cup {Backoff(attempts)}
    BY <1>10, <2>2, QueueAssumption DEF Park, Exhausted
  <2> HIDE DEF attempts
  <2>5. /\ stored' \in [Id -> Upload \cup {None}]
        /\ \A id \in Id : HasStatus(id, "queued")' => stored'[id].attempts < MaxAttempts
    BY <1>4, <1>6, <2>1, <2>2, <2>3, <2>4 DEF Status
  <2> QED
    BY <1>3, <1>10, <2>1, <2>3, <2>4, <2>5 DEF Park, TypeOK, AttemptsLeft
<1> QED
  BY <1>1, <1>7, <1>8, <1>9, <1>10 DEF WorkerStep

\* What the app and the world do keeps the types.
LEMMA EventType ==
  ASSUME TypeInv, App \/ NetChange \/ BackgroundWake \/ Tick \/ TimerFires \/ Crash
  PROVE  TypeInv'
<1> USE DEF TypeInv
<1>1. \A open \in BOOLEAN : Kick(open) =>
        phase' \in {"idle", "list", "work"} /\ rerun' \in BOOLEAN
  BY KickType
<1>2. Open \in BOOLEAN
  BY DEF Open, TypeOK
<1>3. ASSUME NEW b \in Bound, NEW max, Spend(b, max)
      PROVE  used' \in [Bound -> Nat]
  BY <1>3 DEF Spend, TypeOK
<1>4. ASSUME NEW id \in Id, NEW fresh \in Upload, fresh.attempts = 0,
             stored' = [stored EXCEPT ![id] = fresh]
      PROVE  /\ stored' \in [Id -> Upload \cup {None}]
             /\ \A i \in Id : HasStatus(i, "queued")' => stored'[i].attempts < MaxAttempts
  BY <1>4, QueueAssumption DEF TypeOK, AttemptsLeft, HasStatus
<1>5. [status |-> "queued", attempts |-> 0, wait |-> 0] \in Upload
  BY QueueAssumption DEF Upload, Status
<1>6. ASSUME NEW id \in Id, Enqueue(id) PROVE TypeInv'
  <2>1. /\ stored' \in [Id -> Upload \cup {None}]
        /\ \A i \in Id : HasStatus(i, "queued")' => stored'[i].attempts < MaxAttempts
    BY <1>4, <1>5, <1>6 DEF Enqueue
  <2> QED
    BY <1>1, <1>2, <1>6, <2>1 DEF Enqueue, TypeOK, AttemptsLeft
<1>7. ASSUME NEW id \in Id, RetryRead(id) PROVE TypeInv'
  <2>1. used' \in [Bound -> Nat]
    BY <1>3, <1>7 DEF RetryRead, Bound
  <2> QED
    BY <1>7, <2>1 DEF RetryRead, TypeOK, AttemptsLeft, HasStatus
<1>8. ASSUME NEW id \in Id, RetryPut(id) PROVE TypeInv'
  <2>1. /\ stored' \in [Id -> Upload \cup {None}]
        /\ \A i \in Id : HasStatus(i, "queued")' => stored'[i].attempts < MaxAttempts
    BY <1>4, <1>5, <1>8 DEF RetryPut
  <2>2. retrying' \in [Id -> Nat]
    BY <1>8 DEF RetryPut, TypeOK
  <2> QED
    BY <1>1, <1>2, <1>8, <2>1, <2>2 DEF RetryPut, TypeOK, AttemptsLeft
<1>9. CASE Start
  BY <1>1, <1>9 DEF Start, TypeOK, AttemptsLeft, HasStatus
<1>10. CASE Stop
  <2>1. used' \in [Bound -> Nat]
    BY <1>3, <1>10 DEF Stop, Bound
  <2> QED
    BY <1>10, <2>1 DEF Stop, TypeOK, AttemptsLeft, HasStatus
<1>11. CASE NetChange
  <2>1. used' \in [Bound -> Nat]
    BY <1>3, <1>11 DEF NetChange, Bound
  <2>2. phase' \in {"idle", "list", "work"} /\ rerun' \in BOOLEAN
    BY <1>1, <1>11 DEF NetChange, TypeOK
  <2> QED
    BY <1>11, <2>1, <2>2 DEF NetChange, TypeOK, AttemptsLeft, HasStatus
<1>12. CASE BackgroundWake
  BY <1>1, <1>2, <1>12 DEF BackgroundWake, TypeOK, AttemptsLeft, HasStatus
<1>13. CASE Tick
  <2>1. \A n \in 0..BackoffMax : Less(n) \in 0..BackoffMax
    BY QueueAssumption DEF Less
  <2>2. timers' \subseteq 0..BackoffMax
    BY <1>13, <2>1 DEF Tick, TypeOK
  <2>3. ASSUME NEW id \in Id
        PROVE  /\ stored'[id] \in Upload \cup {None}
               /\ HasStatus(id, "queued")' => stored'[id].attempts < MaxAttempts
    <3>1. CASE stored[id] = None
      BY <1>13, <3>1 DEF Tick, HasStatus
    <3>2. CASE stored[id] # None
      <4>1. stored[id] \in Upload
        BY <3>2 DEF TypeOK
      <4>2. stored'[id] = [stored[id] EXCEPT !.wait = Less(@)]
        BY <1>13, <3>2 DEF Tick
      <4>3. [stored[id] EXCEPT !.wait = Less(@)] \in Upload
        BY <2>1, <4>1 DEF Upload
      <4> QED
        BY <3>2, <4>1, <4>2, <4>3 DEF Upload, HasStatus, AttemptsLeft
    <3> QED
      BY <3>1, <3>2
  <2>4. stored' \in [Id -> Upload \cup {None}]
    BY <1>13, <2>3 DEF Tick
  <2> QED
    BY <1>13, <2>2, <2>3, <2>4 DEF Tick, TypeOK, AttemptsLeft
<1>14. CASE TimerFires
  BY <1>1, <1>2, <1>14 DEF TimerFires, TypeOK, AttemptsLeft, HasStatus
<1>15. CASE Crash
  <2>1. used' \in [Bound -> Nat]
    BY <1>3, <1>15 DEF Crash, Bound
  <2>2. /\ worker' \in [Worker -> {Off, AtLoopHead} \cup Busy]
        /\ \A w \in Worker : worker'[w] \notin Busy
    BY <1>15 DEF Crash, Off, Busy
  <2> QED
    BY <1>15, <2>1, <2>2 DEF Crash, TypeOK, AttemptsLeft, HasStatus
<1> QED
  BY <1>6, <1>7, <1>8, <1>9, <1>10, <1>11, <1>12, <1>13, <1>14, <1>15 DEF App

LEMMA QueueNextType == TypeInv /\ [Next]_vars => TypeInv'
<1> SUFFICES ASSUME TypeInv, [Next]_vars PROVE TypeInv'
  OBVIOUS
<1>1. CASE UNCHANGED vars
  BY <1>1 DEF vars, TypeInv, TypeOK, AttemptsLeft, HasStatus
<1> QED
  BY <1>1, DrainType, WorkerType, EventType DEF Next

\* In every behaviour every variable has its type; in particular no record
\* ever counts more than maxAttempts attempts, and no timer or back-off is
\* longer than backoffMaxMs.
THEOREM QueueTypeCorrect == Spec => []TypeOK
<1>1. Spec => []TypeInv
  BY QueueInitType, QueueNextType, PTL DEF Spec
<1>2. TypeInv => TypeOK
  BY DEF TypeInv
<1> QED
  BY <1>1, <1>2, PTL

---------------------------------------------------------------------------
(* The drain                                                               *)

Active == {w \in Worker : worker[w] # Off}

\* Workers exist only while a pass is at work, and maxConcurrent at most.
Pool ==
  /\ phase # "work" => Active = {}
  /\ Cardinality(Active) <= MaxConcurrent

\* A record is listed once, and claimed by one worker.
Exclusive ==
  /\ \A r, s \in todo : r.id = s.id => r = s
  /\ \A v, w \in Worker :
       worker[v] \in Busy /\ worker[w] \in Busy /\ worker[v].record.id = worker[w].record.id
         => v = w
  /\ \A w \in Worker, r \in todo : worker[w] \in Busy => worker[w].record.id # r.id

\* What a worker holds or will claim has not been uploaded or given up.
Unfinished ==
  /\ \A w \in Worker : worker[w] \in Busy =>
       HasStatus(worker[w].record.id, "queued") \/ HasStatus(worker[w].record.id, "uploading")
  /\ phase = "work" => \A r \in todo : HasStatus(r.id, "queued")

\* A record that is done waits for nothing.
Rested == \A id \in Id : HasStatus(id, "uploaded") => stored[id].wait = 0

DrainInv == Pool /\ Exclusive /\ Unfinished /\ UploadingHasWorker /\ Rested

\* The workers are finitely many.
LEMMA WorkersFinite ==
  ASSUME NEW S \in SUBSET Worker
  PROVE  IsFiniteSet(S) /\ Cardinality(S) \in Nat
<1>1. IsFiniteSet(Worker)
  BY FS_Interval, QueueAssumption DEF Worker
<1> QED
  BY <1>1, FS_Subset, FS_CardinalityType

\* With fewer workers the bound still holds.
LEMMA FewerWorkers ==
  ASSUME Pool, NEW S \in SUBSET Active
  PROVE  Cardinality(S) <= MaxConcurrent
<1>1. Active \in SUBSET Worker
  BY DEF Active
<1>2. IsFiniteSet(Active) /\ Cardinality(Active) \in Nat
  BY <1>1, WorkersFinite
<1>3. Cardinality(S) \in Nat /\ Cardinality(S) <= Cardinality(Active)
  BY <1>2, FS_Subset, FS_CardinalityType
<1> QED
  BY <1>2, <1>3, QueueAssumption DEF Pool

\* Nothing changes for the drain when neither records nor workers change and
\* the pass stays what it is.
LEMMA DrainUndisturbed ==
  ASSUME DrainInv, UNCHANGED <<stored, todo, worker>>,
         phase' = "work" <=> phase = "work",
         used'["crashes"] = 0 => used["crashes"] = 0
  PROVE  DrainInv'
  BY DEF DrainInv, Pool, Active, Exclusive, Unfinished, UploadingHasWorker, InFlight,
         BusyWorkers, Rested, HasStatus

LEMMA DrainInit == Init => DrainInv
<1> SUFFICES ASSUME Init PROVE DrainInv
  OBVIOUS
<1>1. Active = {} /\ \A w \in Worker : worker[w] \notin Busy
  BY DEF Init, Active, Off, Busy
<1>2. Cardinality({}) = 0
  BY FS_EmptySet
<1> QED
  BY <1>1, <1>2, QueueAssumption DEF Init, DrainInv, Pool, Exclusive, Unfinished,
     UploadingHasWorker, Rested, HasStatus

\* A pass begins with nobody at work, and lists each record once.
LEMMA ListDrains ==
  ASSUME TypeInv, DrainInv, List
  PROVE  DrainInv'
<1>1. phase = "list" /\ Active = {}
  BY DEF List, DrainInv, Pool
<1>2. CASE Runnable = {}
  BY <1>1, <1>2, DrainUndisturbed, PassEndsType DEF List
<1>3. CASE Runnable # {}
  <2>1. PICK pool \in SUBSET {w \in Worker : worker[w] = Off} :
          /\ Cardinality(pool) = IF Cardinality(Runnable) < MaxConcurrent
                                 THEN Cardinality(Runnable) ELSE MaxConcurrent
          /\ worker' = [w \in Worker |-> IF w \in pool THEN AtLoopHead ELSE worker[w]]
    BY <1>3 DEF List
  <2>2. \A w \in Worker : worker[w] = Off /\ worker[w] \notin Busy
    BY <1>1 DEF Active, Off, Busy
  <2>3. \A w \in Worker : worker'[w] \notin Busy
    BY <2>1, <2>2 DEF AtLoopHead, Busy
  <2>4. Active' = pool
    BY <2>1, <2>2 DEF Active, AtLoopHead, Off
  <2>5. Cardinality(pool) \in Nat
    BY <2>1, WorkersFinite
  <2>6. Pool'
    <3>1. phase' = "work"
      BY <1>3 DEF List
    <3>2. Cardinality(pool) <= MaxConcurrent
      BY <2>1, <2>5, QueueAssumption
    <3> QED
      BY <2>4, <3>1, <3>2 DEF Pool
  <2>7. /\ todo' = {[id |-> id, attempts |-> stored[id].attempts] : id \in Runnable}
        /\ stored' = stored /\ used' = used
    BY <1>3 DEF List
  <2>8. Exclusive' /\ Unfinished'
    BY <2>3, <2>7 DEF Exclusive, Unfinished, Runnable, HasStatus
  <2>9. UploadingHasWorker' /\ Rested'
    BY <2>2, <2>7 DEF DrainInv, UploadingHasWorker, InFlight, BusyWorkers, Rested, HasStatus
  <2> QED
    BY <2>6, <2>8, <2>9 DEF DrainInv
<1> QED
  BY <1>2, <1>3

\* A claim moves one listed record into the hands of one worker.
LEMMA ClaimDrains ==
  ASSUME TypeInv, DrainInv, NEW w \in Worker, Claim(w)
  PROVE  DrainInv'
<1> USE DEF TypeInv
<1>1. /\ worker[w] = AtLoopHead /\ worker[w] \notin Busy /\ AtLoopHead # Off
      /\ UNCHANGED <<stored, phase, used>>
  BY BusySteps DEF Claim
<1>2. w \in Active /\ phase = "work"
  BY <1>1 DEF DrainInv, Pool, Active
<1>3. ASSUME NEW r \in todo, worker' = [worker EXCEPT ![w] = [pc |-> "mark", record |-> r]],
             todo' = todo \ {r}
      PROVE  DrainInv'
  <2>1. [pc |-> "mark", record |-> r] \in Busy /\ [pc |-> "mark", record |-> r] # Off
    BY DEF TypeOK, Busy, Off
  <2>2. worker'[w].record = r /\ worker'[w] \in Busy
    BY <1>3, <2>1 DEF TypeOK
  <2>3. \A v \in Worker : v # w => worker'[v] = worker[v]
    BY <1>3 DEF TypeOK
  <2>4. Active' = Active
    BY <1>2, <1>3, <2>1 DEF TypeOK, Active
  <2>5. Pool'
    BY <1>1, <2>4 DEF DrainInv, Pool
  <2>6. Exclusive'
    BY <1>3, <2>2, <2>3 DEF DrainInv, Exclusive
  <2>7. Unfinished'
    BY <1>1, <1>2, <1>3, <2>2, <2>3 DEF DrainInv, Unfinished, HasStatus
  <2>8. UploadingHasWorker'
    <3>1. BusyWorkers' = BusyWorkers \cup {w}
      BY <2>2, <2>3 DEF BusyWorkers
    <3>2. \A v \in BusyWorkers : worker'[v].record.id = worker[v].record.id
      BY <1>1, <2>3 DEF BusyWorkers
    <3>3. InFlight \subseteq InFlight'
      BY <3>1, <3>2 DEF InFlight
    <3> QED
      BY <1>1, <3>3 DEF DrainInv, UploadingHasWorker, HasStatus
  <2>9. Rested'
    BY <1>1 DEF DrainInv, Rested, HasStatus
  <2> QED
    BY <2>5, <2>6, <2>7, <2>8, <2>9 DEF DrainInv
<1>4. ASSUME worker' = [worker EXCEPT ![w] = Off], todo' = todo
      PROVE  DrainInv'
  <2>1. \A v \in Worker : worker'[v] \in Busy <=> worker[v] \in Busy
    BY <1>1, <1>4, BusySteps DEF TypeOK
  <2>2. \A v \in Worker : worker[v] \in Busy => worker'[v] = worker[v]
    BY <1>1, <1>4 DEF TypeOK
  <2>3. Active' \in SUBSET Active
    BY <1>4 DEF TypeOK, Active
  <2>4. Pool'
    BY <1>1, <1>2, <2>3, FewerWorkers DEF DrainInv, Pool
  <2>5. Exclusive' /\ Unfinished' /\ Rested'
    BY <1>1, <1>4, <2>1, <2>2 DEF DrainInv, Exclusive, Unfinished, Rested, HasStatus
  <2>6. BusyWorkers' = BusyWorkers /\ \A v \in BusyWorkers : worker'[v] = worker[v]
    BY <2>1, <2>2 DEF BusyWorkers
  <2>7. UploadingHasWorker'
    BY <1>1, <2>6 DEF DrainInv, UploadingHasWorker, InFlight, HasStatus
  <2> QED
    BY <2>4, <2>5, <2>7 DEF DrainInv
<1> QED
  BY <1>3, <1>4 DEF Claim

\* A busy worker goes on with its record, or leaves it with its fate stored.
LEMMA TransferDrains ==
  ASSUME TypeInv, DrainInv, NEW w \in Worker, worker[w] \in Busy,
         NEW record, record = worker[w].record,
         UNCHANGED <<todo, phase, used>>,
         \A v \in Worker : v # w => worker'[v] = worker[v],
         worker'[w] # Off,
         worker'[w] \in Busy => worker'[w].record = record,
         \A id \in Id : id # record.id => stored'[id] = stored[id],
         worker'[w] \in Busy => HasStatus(record.id, "queued")' \/ HasStatus(record.id, "uploading")',
         worker'[w] \notin Busy => ~HasStatus(record.id, "uploading")',
         HasStatus(record.id, "uploaded")' => stored'[record.id].wait = 0
  PROVE  DrainInv'
<1> USE DEF TypeInv
<1>1. record.id \in Id
  BY BusySteps
<1>2. Pool'
  <2>1. worker[w] # Off
    BY BusySteps
  <2>2. Active' = Active
    BY <2>1 DEF Active
  <2> QED
    BY <2>2 DEF DrainInv, Pool
<1>3. Exclusive'
  BY DEF DrainInv, Exclusive
<1>4. ASSUME NEW v \in Worker, worker[v] \in Busy, v # w
      PROVE  /\ worker[v].record.id \in Id
             /\ worker[v].record.id # record.id
             /\ stored'[worker[v].record.id] = stored[worker[v].record.id]
  BY <1>4, BusySteps DEF DrainInv, Exclusive
<1>5. \A r \in todo : stored'[r.id] = stored[r.id]
  BY DEF DrainInv, Exclusive, TypeOK, Listed
<1>6. Unfinished'
  BY <1>4, <1>5 DEF DrainInv, Unfinished, HasStatus
<1>7. UploadingHasWorker'
  <2>1. ASSUME NEW id \in Id, used["crashes"] = 0, HasStatus(id, "uploading")'
        PROVE  \E v \in Worker : worker'[v] \in Busy /\ worker'[v].record.id = id
    <3>1. CASE id = record.id
      BY <2>1, <3>1
    <3>2. CASE id # record.id
      <4>1. HasStatus(id, "uploading")
        BY <2>1, <3>2 DEF HasStatus
      <4>2. PICK v \in Worker : worker[v] \in Busy /\ worker[v].record.id = id
        BY <2>1, <4>1 DEF DrainInv, UploadingHasWorker, InFlight, BusyWorkers
      <4> QED
        BY <3>2, <4>2
    <3> QED
      BY <3>1, <3>2
  <2> QED
    BY <2>1 DEF UploadingHasWorker, InFlight, BusyWorkers
<1>8. Rested'
  BY DEF DrainInv, Rested, HasStatus
<1> QED
  BY <1>2, <1>3, <1>6, <1>7, <1>8 DEF DrainInv

\* Every step of a worker keeps the drain in order.
LEMMA WorkerDrains ==
  ASSUME TypeInv, DrainInv, NEW w \in Worker, WorkerStep(w)
  PROVE  DrainInv'
<1> USE DEF TypeInv
<1>0. PICK record : record = worker[w].record
  OBVIOUS
<1>1. AtLoopHead \notin Busy /\ AtLoopHead # Off
  BY BusySteps
<1>2. ASSUME NEW pc \in {"upload", "store", "park"},
             worker[w] \in Busy, worker' = [worker EXCEPT ![w].pc = pc]
      PROVE  /\ \A v \in Worker : v # w => worker'[v] = worker[v]
             /\ worker'[w] \in Busy /\ worker'[w] # Off
             /\ worker'[w].record = record
  <2>1. [worker[w] EXCEPT !.pc = pc] \in Busy /\ [worker[w] EXCEPT !.pc = pc].record = record
    BY <1>0, <1>2, BusySteps
  <2>2. worker' = [worker EXCEPT ![w] = [worker[w] EXCEPT !.pc = pc]]
    BY <1>2
  <2> QED
    BY <1>0, <2>1, <2>2, BusySteps DEF TypeOK
<1>3. ASSUME worker' = [worker EXCEPT ![w] = AtLoopHead]
      PROVE  /\ \A v \in Worker : v # w => worker'[v] = worker[v]
             /\ worker'[w] \notin Busy /\ worker'[w] # Off
  BY <1>1, <1>3 DEF TypeOK
<1>4. ASSUME worker[w] \in Busy, NEW status \in Status, NEW attempts \in 0..MaxAttempts,
             NEW wait \in 0..BackoffMax, Stores(w, status, attempts, wait)
      PROVE  /\ stored'[record.id].wait = wait
             /\ \A s \in Status : HasStatus(record.id, s)' <=> s = status
             /\ \A id \in Id : id # record.id => stored'[id] = stored[id]
  <2>1. /\ stored'[record.id] = [status |-> status, attempts |-> attempts, wait |-> wait]
        /\ stored'[record.id] # None
        /\ \A id \in Id : id # record.id => stored'[id] = stored[id]
    BY <1>0, <1>4, StoresType
  <2> QED
    BY <2>1 DEF HasStatus
<1>5. worker[w] \in Busy => record.attempts \in 0..MaxAttempts /\ record.attempts < MaxAttempts
  BY <1>0, BusySteps DEF AttemptsLeft
<1>6. 0 \in 0..BackoffMax
  BY QueueAssumption
<1>7. CASE Claim(w)
  BY <1>7, ClaimDrains
<1>8. CASE Mark(w)
  <2>1. /\ worker[w] \in Busy /\ worker' = [worker EXCEPT ![w].pc = "upload"]
        /\ Stores(w, "uploading", record.attempts, 0)
        /\ UNCHANGED <<todo, phase, used>>
    BY <1>0, <1>8, BusySteps DEF Mark, GoesOn
  <2>2. /\ HasStatus(record.id, "uploading")' /\ ~HasStatus(record.id, "uploaded")'
        /\ \A id \in Id : id # record.id => stored'[id] = stored[id]
    BY <1>4, <1>5, <1>6, <2>1 DEF Status
  <2>3. /\ \A v \in Worker : v # w => worker'[v] = worker[v]
        /\ worker'[w] \in Busy /\ worker'[w] # Off
        /\ worker'[w].record = record
    BY <1>2, <2>1
  <2> QED
    BY <2>1, <2>2, <2>3, <1>0, TransferDrains
<1>9. CASE UploadEnds(w)
  <2>1. PICK pc \in {"store", "park"} :
          /\ worker[w] \in Busy /\ worker' = [worker EXCEPT ![w].pc = pc]
          /\ UNCHANGED <<stored, todo, phase, used>>
    BY <1>9, BusySteps DEF UploadEnds, GoesOn
  <2>2. /\ \A v \in Worker : v # w => worker'[v] = worker[v]
        /\ worker'[w] \in Busy /\ worker'[w] # Off
        /\ worker'[w].record = record
    BY <1>2, <2>1
  <2>3. /\ HasStatus(record.id, "queued")' \/ HasStatus(record.id, "uploading")'
        /\ ~HasStatus(record.id, "uploaded")'
    BY <1>0, <2>1 DEF DrainInv, Unfinished, HasStatus
  <2> QED
    BY <2>1, <2>2, <2>3, <1>0, TransferDrains
<1>10. CASE StoreUploaded(w)
  <2>1. /\ worker[w] \in Busy /\ worker' = [worker EXCEPT ![w] = AtLoopHead]
        /\ Stores(w, "uploaded", record.attempts, 0)
        /\ UNCHANGED <<todo, phase, used>>
    BY <1>0, <1>10, BusySteps DEF StoreUploaded
  <2>2. /\ ~HasStatus(record.id, "uploading")' /\ stored'[record.id].wait = 0
        /\ \A id \in Id : id # record.id => stored'[id] = stored[id]
    BY <1>4, <1>5, <1>6, <2>1 DEF Status
  <2>3. /\ \A v \in Worker : v # w => worker'[v] = worker[v]
        /\ worker'[w] \notin Busy /\ worker'[w] # Off
    BY <1>3, <2>1
  <2> QED
    BY <2>1, <2>2, <2>3, <1>0, TransferDrains
<1>11. CASE Park(w)
  <2> DEFINE attempts == record.attempts + 1
  <2>1. /\ worker[w] \in Busy /\ worker' = [worker EXCEPT ![w] = AtLoopHead]
        /\ \/ Stores(w, "failed", attempts, 0)
           \/ Stores(w, "queued", attempts, Backoff(attempts))
        /\ UNCHANGED <<todo, phase, used>>
    BY <1>0, <1>11, BusySteps DEF Park
  <2>2. attempts \in 0..MaxAttempts /\ attempts \in Nat \ {0}
    BY <1>5, <2>1, QueueAssumption
  <2>3. Backoff(attempts) \in 0..BackoffMax
    BY <2>2, BackoffType
  <2> HIDE DEF attempts
  <2>4. /\ ~HasStatus(record.id, "uploading")' /\ ~HasStatus(record.id, "uploaded")'
        /\ \A id \in Id : id # record.id => stored'[id] = stored[id]
    BY <1>4, <1>6, <2>1, <2>2, <2>3 DEF Status
  <2>5. /\ \A v \in Worker : v # w => worker'[v] = worker[v]
        /\ worker'[w] \notin Busy /\ worker'[w] # Off
    BY <1>3, <2>1
  <2> QED
    BY <2>1, <2>4, <2>5, <1>0, TransferDrains
<1> QED
  BY <1>7, <1>8, <1>9, <1>10, <1>11 DEF WorkerStep

\* A record staged or re-queued takes nothing out of a worker's hands.
LEMMA RequeueDrains ==
  ASSUME TypeInv, DrainInv, NEW id \in Id, UNCHANGED <<todo, worker, used>>,
         phase' = "work" <=> phase = "work",
         stored' = [stored EXCEPT ![id] = [status |-> "queued", attempts |-> 0, wait |-> 0]]
  PROVE  DrainInv'
<1> USE DEF TypeInv
<1> DEFINE new == [status |-> "queued", attempts |-> 0, wait |-> 0]
<1>1. new \in Upload /\ new # None
  BY QueueAssumption DEF Upload, Status
<1>2. /\ stored'[id] = new
      /\ \A i \in Id : i # id => stored'[i] = stored[i]
  BY DEF TypeOK
<1>3. /\ HasStatus(id, "queued")' /\ ~HasStatus(id, "uploading")' /\ ~HasStatus(id, "uploaded")'
      /\ \A i \in Id, s \in Status : i # id => (HasStatus(i, s)' <=> HasStatus(i, s))
  BY <1>1, <1>2 DEF HasStatus
<1> HIDE DEF new
<1>4. Pool' /\ Exclusive'
  BY DEF DrainInv, Pool, Active, Exclusive
<1>5. Unfinished'
  <2>1. \A w \in Worker : worker[w] \in Busy => worker[w].record.id \in Id
    BY BusySteps
  <2>2. \A r \in todo : r.id \in Id
    BY DEF TypeOK, Listed
  <2> QED
    BY <1>3, <2>1, <2>2 DEF DrainInv, Unfinished, Status
<1>6. UploadingHasWorker'
  BY <1>3 DEF DrainInv, UploadingHasWorker, InFlight, BusyWorkers, Status
<1>7. Rested'
  BY <1>2, <1>3 DEF DrainInv, Rested, Status
<1> QED
  BY <1>4, <1>5, <1>6, <1>7 DEF DrainInv

\* Spending another bound leaves the count of crashes alone.
LEMMA OtherBound ==
  ASSUME TypeOK, NEW b \in Bound, b # "crashes", NEW max, Spend(b, max)
  PROVE  used'["crashes"] = used["crashes"]
  BY DEF Spend, TypeOK, Bound

\* Time takes a wait towards its end and touches nothing else.
LEMMA TickDrains ==
  ASSUME TypeInv, DrainInv, Tick
  PROVE  DrainInv'
<1> USE DEF TypeInv
<1>1. ASSUME NEW id \in Id
      PROVE  /\ \A s \in Status : HasStatus(id, s)' <=> HasStatus(id, s)
             /\ stored[id] # None /\ stored[id].wait = 0 => stored'[id] = stored[id]
  <2>1. CASE stored[id] = None
    BY <2>1 DEF Tick, HasStatus
  <2>2. CASE stored[id] # None
    <3>1. stored[id] \in Upload
      BY <2>2 DEF TypeOK
    <3>2. stored'[id] = [stored[id] EXCEPT !.wait = Less(@)]
      BY <2>2 DEF Tick
    <3>3. Less(stored[id].wait) \in 0..BackoffMax
      BY <3>1, QueueAssumption DEF Upload, Less
    <3>4. stored'[id] \in Upload /\ stored'[id].status = stored[id].status
      BY <3>1, <3>2, <3>3 DEF Upload
    <3>5. stored[id].wait = 0 => stored'[id] = stored[id]
      BY <3>1, <3>2 DEF Upload, Less
    <3> QED
      BY <2>2, <3>4, <3>5, QueueAssumption DEF HasStatus
  <2> QED
    BY <2>1, <2>2
<1>2. UNCHANGED <<todo, worker, phase, used>>
  BY DEF Tick
<1>3. Pool' /\ Exclusive'
  BY <1>2 DEF DrainInv, Pool, Active, Exclusive
<1>4. Unfinished'
  <2>1. \A w \in Worker : worker[w] \in Busy => worker[w].record.id \in Id
    BY BusySteps
  <2>2. \A r \in todo : r.id \in Id
    BY DEF TypeOK, Listed
  <2> QED
    BY <1>1, <1>2, <2>1, <2>2 DEF DrainInv, Unfinished, Status
<1>5. UploadingHasWorker'
  BY <1>1, <1>2 DEF DrainInv, UploadingHasWorker, InFlight, BusyWorkers, Status
<1>6. Rested'
  <2>1. ASSUME NEW id \in Id, HasStatus(id, "uploaded")'
        PROVE  stored'[id].wait = 0
    <3>1. HasStatus(id, "uploaded")
      BY <1>1, <2>1 DEF Status
    <3>2. stored[id] # None /\ stored[id].wait = 0
      BY <3>1 DEF DrainInv, Rested, HasStatus
    <3> QED
      BY <1>1, <3>2
  <2> QED
    BY <2>1 DEF Rested
<1> QED
  BY <1>3, <1>4, <1>5, <1>6 DEF DrainInv

\* A kill leaves no worker behind.
LEMMA CrashDrains ==
  ASSUME TypeInv, DrainInv, Crash
  PROVE  DrainInv'
<1>1. /\ todo' = {} /\ phase' = "idle" /\ stored' = stored
      /\ \A w \in Worker : worker'[w] = Off /\ worker'[w] \notin Busy
  BY DEF Crash, Off, Busy
<1>2. Active' = {}
  BY <1>1 DEF Active
<1>3. Cardinality({}) = 0
  BY FS_EmptySet
<1>4. Pool'
  BY <1>2, <1>3, QueueAssumption DEF Pool
<1>5. Exclusive' /\ Unfinished'
  BY <1>1 DEF Exclusive, Unfinished
<1>6. used'["crashes"] # 0
  <2>1. used["crashes"] \in Nat /\ used' = [used EXCEPT !["crashes"] = @ + 1]
    BY DEF Crash, Spend, TypeInv, TypeOK, Bound
  <2> QED
    BY <2>1 DEF TypeInv, TypeOK, Bound
<1>7. UploadingHasWorker'
  BY <1>6 DEF UploadingHasWorker
<1>8. Rested'
  BY <1>1 DEF DrainInv, Rested, HasStatus
<1> QED
  BY <1>4, <1>5, <1>7, <1>8 DEF DrainInv

\* Every step keeps the drain in order.
LEMMA DrainNext == TypeInv /\ DrainInv /\ [Next]_vars => DrainInv'
<1> SUFFICES ASSUME TypeInv, DrainInv, [Next]_vars PROVE DrainInv'
  OBVIOUS
<1> USE DEF TypeInv
<1>1. \A open \in BOOLEAN : Kick(open) => (phase' = "work" <=> phase = "work")
  BY KickType
<1>2. Open \in BOOLEAN
  BY DEF Open, TypeOK
<1>3. CASE List
  BY <1>3, ListDrains
<1>4. CASE FinishPass
  <2>1. Active = {}
    BY <1>4 DEF FinishPass, Active
  <2>2. phase' \in {"idle", "list"} /\ UNCHANGED <<stored, todo, worker, used>>
    BY <1>4, PassEndsType DEF FinishPass
  <2> QED
    BY <2>1, <2>2 DEF DrainInv, Pool, Active, Exclusive, Unfinished, UploadingHasWorker,
       InFlight, BusyWorkers, Rested, HasStatus
<1>5. ASSUME NEW w \in Worker, WorkerStep(w) PROVE DrainInv'
  BY <1>5, WorkerDrains
<1>6. ASSUME NEW id \in Id, Enqueue(id) PROVE DrainInv'
  BY <1>1, <1>2, <1>6, RequeueDrains DEF Enqueue
<1>7. ASSUME NEW id \in Id, RetryPut(id) PROVE DrainInv'
  BY <1>1, <1>2, <1>7, RequeueDrains DEF RetryPut
<1>8. ASSUME NEW id \in Id, RetryRead(id) PROVE DrainInv'
  <2>1. used'["crashes"] = used["crashes"]
    BY <1>8, OtherBound DEF RetryRead, Bound
  <2> QED
    BY <1>8, <2>1, DrainUndisturbed DEF RetryRead
<1>9. CASE Start
  BY <1>1, <1>9, DrainUndisturbed DEF Start, TypeOK
<1>10. CASE Stop
  <2>1. used'["crashes"] = used["crashes"]
    BY <1>10, OtherBound DEF Stop, Bound
  <2> QED
    BY <1>10, <2>1, DrainUndisturbed DEF Stop
<1>11. CASE NetChange
  <2>1. used'["crashes"] = used["crashes"]
    BY <1>11, OtherBound DEF NetChange, Bound
  <2>2. phase' = "work" <=> phase = "work"
    BY <1>1, <1>11 DEF NetChange, TypeOK
  <2> QED
    BY <1>11, <2>1, <2>2, DrainUndisturbed DEF NetChange
<1>12. CASE BackgroundWake
  BY <1>1, <1>2, <1>12, DrainUndisturbed DEF BackgroundWake
<1>13. CASE Tick
  BY <1>13, TickDrains
<1>14. CASE TimerFires
  BY <1>1, <1>2, <1>14, DrainUndisturbed DEF TimerFires
<1>15. CASE Crash
  BY <1>15, CrashDrains
<1>16. CASE UNCHANGED vars
  BY <1>16, DrainUndisturbed DEF vars
<1> QED
  BY <1>3, <1>4, <1>5, <1>6, <1>7, <1>8, <1>9, <1>10, <1>11, <1>12, <1>13, <1>14, <1>15, <1>16
     DEF Next, App

LEMMA DrainAlways == Spec => [](TypeInv /\ DrainInv)
  BY QueueInitType, QueueNextType, DrainInit, DrainNext, PTL DEF Spec

\* However kicks, timers, stops, starts, retries and kills fall, there are
\* never more transfers than maxConcurrent at once.
THEOREM TransfersBounded == Spec => []ConcurrencyBound
<1>1. TypeInv /\ DrainInv => ConcurrencyBound
  <2> SUFFICES ASSUME TypeInv, DrainInv PROVE Cardinality(BusyWorkers) <= MaxConcurrent
    BY DEF ConcurrencyBound
  <2>1. BusyWorkers \in SUBSET Active
    BY BusySteps DEF BusyWorkers, Active, TypeInv
  <2> QED
    BY <2>1, FewerWorkers DEF DrainInv
<1> QED
  BY <1>1, DrainAlways, PTL

\* Until the app is killed, a record marked uploading is in a worker's hands.
THEOREM UploadsHaveWorkers == Spec => []UploadingHasWorker
<1>1. DrainInv => UploadingHasWorker
  BY DEF DrainInv
<1> QED
  BY <1>1, DrainAlways, PTL

\* Nothing but a retry that read `failed` before the upload takes an uploaded
\* file back to the queue.
THEOREM UploadedIsFinal == Spec => UploadedStays
<1> DEFINE Stays == \A id \in Id : HasStatus(id, "uploaded") /\ retrying[id] = 0 =>
                      stored'[id] = stored[id]
<1>1. TypeInv /\ DrainInv /\ [Next]_vars => [Stays]_vars
  <2> SUFFICES ASSUME TypeInv, DrainInv, Next,
                      NEW id \in Id, HasStatus(id, "uploaded"), retrying[id] = 0
               PROVE  stored'[id] = stored[id]
    OBVIOUS
  <2> USE DEF TypeInv
  <2>1. ASSUME NEW w \in Worker, worker[w] \in Busy PROVE id # worker[w].record.id
    BY <2>1 DEF DrainInv, Unfinished, HasStatus
  <2>2. ASSUME NEW w \in Worker, WorkerStep(w) PROVE stored'[id] = stored[id]
    <3>1. stored' = stored \/
            (/\ worker[w] \in Busy
             /\ \E new : stored' = [stored EXCEPT ![worker[w].record.id] = new])
      BY <2>2, BusySteps DEF WorkerStep, Claim, Mark, GoesOn, UploadEnds, StoreUploaded, Park, Stores
    <3> QED
      BY <2>1, <3>1 DEF TypeOK
  <2>3. ASSUME NEW i \in Id, Enqueue(i) PROVE stored'[id] = stored[id]
    BY <2>3 DEF Enqueue, HasStatus, TypeOK
  <2>4. ASSUME NEW i \in Id, RetryPut(i) PROVE stored'[id] = stored[id]
    BY <2>4 DEF RetryPut, TypeOK
  <2>5. CASE Tick
    <3>1. stored[id] # None /\ stored[id].wait = 0 /\ stored[id] \in Upload
      BY DEF DrainInv, Rested, HasStatus, TypeOK
    <3>2. stored'[id] = [stored[id] EXCEPT !.wait = Less(@)]
      BY <2>5, <3>1 DEF Tick
    <3> QED
      BY <3>1, <3>2 DEF Upload, Less
  <2>6. ASSUME \/ List \/ FinishPass \/ Start \/ Stop \/ NetChange \/ BackgroundWake
               \/ TimerFires \/ Crash
               \/ \E i \in Id : RetryRead(i)
        PROVE  stored'[id] = stored[id]
    BY <2>6 DEF List, FinishPass, Start, Stop, NetChange, BackgroundWake, TimerFires,
                Crash, RetryRead
  <2> QED
    BY <2>2, <2>3, <2>4, <2>5, <2>6 DEF Next, App
<1> QED
  BY <1>1, DrainAlways, PTL DEF Spec, UploadedStays
=============================================================================
