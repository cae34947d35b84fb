---------------------------- MODULE LwwReplicas ----------------------------
(***************************************************************************)
(* What the sync algebra promises when whole records travel: one record    *)
(* replicated on the server and on devices, edited on the devices, and     *)
(* merged pairwise from messages that may be lost, duplicated, delayed and *)
(* reordered at will.  The devices merge with the mobile mergeRecord, the  *)
(* server with its own mergeServerRecord.  Module SyncSystem replaces the  *)
(* free exchange of this module by the checkpointed pull and push of the   *)
(* code.                                                                   *)
(*                                                                         *)
(* `kept` is a history variable: the writes that have reached a replica,   *)
(* directly or through others, and that no edit made there has overwritten *)
(* with an earlier stamp.  A merge keeps everything; an edit overwrites    *)
(* whatever it finds, and what it finds may be stamped later than itself.  *)
(***************************************************************************)
EXTENDS LwwMerge, FiniteSets

CONSTANTS
  Device,        \* node ids of the devices, as ranks (0 is the empty id)
  Server,        \* the server's name among the replicas
  InitialValue,  \* the value every field starts with, unstamped
  Tombstone,     \* names the deletion register among the writes
  MaxStamp,      \* bound: the latest stamp a clock may give
  MaxEdits,      \* bound: edits in a behaviour
  MaxSends       \* bound: messages in a behaviour

ASSUME ReplicaAssumption ==
  /\ Device \subseteq Nat \ {0}
  /\ Server \notin Device
  /\ InitialValue \in Value
  /\ Tombstone \notin Field

Replica == Device \cup {Server}

Write == [register : Field \cup {Tombstone}, clock : Nat, value : Value, by : Device]

VARIABLES
  held,    \* held[p]: the record replica p stores
  kept,    \* kept[p]: the writes that have reached p and were not undone there
  sent,    \* every message ever sent: a record and the writes behind it
  edits    \* how many edits were made, for the bound

vars == <<held, kept, sent, edits>>

Message == [record : Record, kept : SUBSET Write]

TypeOK ==
  /\ held \in [Replica -> Record]
  /\ kept \in [Replica -> SUBSET Write]
  /\ sent \subseteq Message
  /\ edits \in Nat

InitialRecord ==
  [fields    |-> [f \in Field |-> InitialValue],
   clocks    |-> [f \in Field |-> 0],
   nodeId    |-> 0,
   deletedAt |-> 0]

Init ==
  /\ held = [p \in Replica |-> InitialRecord]
  /\ kept = [p \in Replica |-> {}]
  /\ sent = {}
  /\ edits = 0

---------------------------------------------------------------------------
(* Edits.  HybridClock.now() exceeds the stamps this device has issued     *)
(* since the app was started and no others: it never observes a stamp that *)
(* was merged, and wall clocks disagree and are set back.  So the stamp of *)
(* an edit may lie anywhere, also below the one it replaces, and neither   *)
(* mutate nor remove compares the two.                                     *)

Stamped(d, register, stamp, value) ==
  [register |-> register, clock |-> stamp, value |-> value, by |-> d]

\* What remains of `writes` when w overwrites its register: w itself, the
\* writes to other registers, and those that w would also have won against.
Overwritten(writes, w) ==
  {u \in writes : u.register = w.register => AtLeast(w.clock, w.value, u.clock, u.value)}
    \cup {w}

\* Device d re-stamps field x.
Mutate(d, x, v, stamp) ==
  /\ edits < MaxEdits
  /\ edits' = edits + 1
  /\ held' = [held EXCEPT ![d].fields[x] = v,
                          ![d].clocks[x] = stamp,
                          ![d].nodeId    = d]
  /\ kept' = [kept EXCEPT ![d] = Overwritten(@, Stamped(d, x, stamp, v))]
  /\ UNCHANGED sent

RemoveRecord(d, stamp) ==
  /\ edits < MaxEdits
  /\ edits' = edits + 1
  /\ held' = [held EXCEPT ![d].deletedAt = stamp,
                          ![d].nodeId    = d]
  /\ kept' = [kept EXCEPT ![d] = Overwritten(@, Stamped(d, Tombstone, stamp, NullRank))]
  /\ UNCHANGED sent

---------------------------------------------------------------------------
(* The exchange of records                                                 *)

Send(p) ==
  /\ Cardinality(sent) < MaxSends
  /\ sent' = sent \cup {[record |-> held[p], kept |-> kept[p]]}
  /\ UNCHANGED <<held, kept, edits>>

MergeAtDevice(d, m) ==
  /\ held' = [held EXCEPT ![d] = MergeRecord(held[d], m.record)]
  /\ kept' = [kept EXCEPT ![d] = @ \cup m.kept]
  /\ UNCHANGED <<sent, edits>>

\* A merge that changes nothing but the annotation is not written back.
MergeAtServer(m) ==
  /\ held' = [held EXCEPT ![Server] = IF ServerChanged(held[Server], m.record)
                                      THEN ServerMerged(held[Server], m.record)
                                      ELSE @]
  /\ kept' = [kept EXCEPT ![Server] = @ \cup m.kept]
  /\ UNCHANGED <<sent, edits>>

Next ==
  \/ \E d \in Device, x \in Field, v \in Value, stamp \in 1..MaxStamp :
       Mutate(d, x, v, stamp)
  \/ \E d \in Device, stamp \in 1..MaxStamp : RemoveRecord(d, stamp)
  \/ \E p \in Replica : Send(p)
  \/ \E d \in Device, m \in sent : MergeAtDevice(d, m)
  \/ \E m \in sent : MergeAtServer(m)

Spec == Init /\ [][Next]_vars

---------------------------------------------------------------------------
(* Properties                                                              *)

\* Two replicas that keep the same writes show the same record, whatever
\* order, duplication or path the merges took, whichever of the two
\* implementations ran them and however the clocks of the writers disagree
\* (SyncService.ts:44-46, mergeRecord.ts:26-27).  In particular two replicas
\* that have merged each other's record are equal, whatever was overwritten
\* on either before: both keep the union.
StrongConvergence ==
  \A p, q \in Replica : kept[p] = kept[q] => SameContent(held[p], held[q])

\* A register never mixes the clock of one write with the value of another:
\* what a replica shows was written, with that stamp, by someone it has
\* heard of, or is the unstamped initial value.
NoInvention ==
  \A p \in Replica :
    /\ \A x \in Field :
         \/ \E d \in Device :
              Stamped(d, x, held[p].clocks[x], held[p].fields[x]) \in kept[p]
         \/ held[p].clocks[x] = 0 /\ held[p].fields[x] = InitialValue
    /\ \/ held[p].deletedAt = 0
       \/ \E d \in Device :
            Stamped(d, Tombstone, held[p].deletedAt, NullRank) \in kept[p]

\* A replica that a delete has reached hides the record unless a write to
\* some field that is stamped later has reached it too, or the delete was
\* replaced there by one stamped earlier: a later edit resurrects, a later
\* delete buries, and no merge brings a deleted record back on its own
\* (mergeRecord.ts:30-32).
DeleteBuries ==
  \A p \in Replica : \A w \in kept[p] :
    w.register = Tombstone =>
      \/ IsDeleted(held[p])
      \/ \E u \in kept[p] : u.register \in Field /\ u.clock > w.clock

---------------------------------------------------------------------------
(* What the comments promise and the code does not keep: TLC refutes each  *)
(* under the constants the README names.                                   *)

\* "strictly-increasing, so re-stamps always advance" (SyncService.ts:101):
\* no step takes a clock of a replica back.
RestampsAdvance ==
  [][\A p \in Replica, x \in Field : held'[p].clocks[x] >= held[p].clocks[x]]_vars

\* "a later delete buries" (mergeRecord.ts:32): a record is hidden where
\* somebody has just removed it.
RemoveHides ==
  [][\A d \in Device, stamp \in 1..MaxStamp :
       RemoveRecord(d, stamp) => IsDeleted(held'[d])]_vars
=============================================================================
