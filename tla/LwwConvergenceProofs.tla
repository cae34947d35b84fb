------------------------ MODULE LwwConvergenceProofs ------------------------
(***************************************************************************)
(* What is replicated converges: whole records that replicas merge with    *)
(* either implementation of the record merge (module LwwReplicas), and the *)
(* register and the element set of the mobile app (module LwwContainers).  *)
(*                                                                         *)
(* For the replicas the argument is that what a replica holds is decided   *)
(* by the set of writes it keeps: every register is as one of them left it *)
(* (Told), and none of them is newer (Abreast).  The merges, by the lemmas *)
(* of LwwMergeProofs, turn two such records into one for the union of both *)
(* sets; an edit may take a register back, and with it the writes that are *)
(* newer than the edit.                                                    *)
(***************************************************************************)
EXTENDS LwwReplicas, LwwContainers, LwwMergeProofs

---------------------------------------------------------------------------
(* What a replica's record says of the writes it keeps                     *)

\* Every register of the record is unwritten or as one of `writes` left it.
Told(record, writes) ==
  /\ \A x \in Field :
       \/ record.clocks[x] = 0 /\ record.fields[x] = InitialValue
       \/ \E w \in writes : /\ w.register = x
                            /\ w.clock = record.clocks[x]
                            /\ w.value = record.fields[x]
  /\ \/ record.deletedAt = 0
     \/ \E w \in writes : /\ w.register = Tombstone
                          /\ w.clock = record.deletedAt
                          /\ w.value = NullRank

\* None of `writes`, all of them stamped, is newer than the record.
Abreast(record, writes) ==
  \A w \in writes :
    /\ w.clock > 0
    /\ \A x \in Field : w.register = x =>
         AtLeast(record.clocks[x], record.fields[x], w.clock, w.value)
    /\ w.register = Tombstone => record.deletedAt >= w.clock

\* The inductive invariant.  Messages are in it because they outlive the
\* state they were sent from.
ReplicaInv ==
  /\ TypeOK
  /\ \A p \in Replica : Told(held[p], kept[p]) /\ Abreast(held[p], kept[p])
  /\ \A m \in sent : Told(m.record, m.kept) /\ Abreast(m.record, m.kept)

\* A write has a clock, a value and a register.
LEMMA WriteParts ==
  ASSUME NEW w \in Write
  PROVE  /\ w.register \in Field \cup {Tombstone}
         /\ w.clock \in Nat /\ w.value \in Value /\ w.value \in Nat
BY ValueAssumption DEF Write

\* A merge, of either implementation, of two records that are told by and
\* abreast of the writes kept with it is so of those kept on either side.
LEMMA MergeKeepsUp ==
  ASSUME NEW a \in Record, NEW b \in Record,
         NEW S \in SUBSET Write, NEW T \in SUBSET Write,
         NEW m \in {MergeRecord(a, b), ServerMerged(a, b)},
         Told(a, S), Abreast(a, S), Told(b, T), Abreast(b, T)
  PROVE  Told(m, S \cup T) /\ Abreast(m, S \cup T)
<1>1. m \in Record
  BY MergeType
<1>2. Covers(m, a) /\ Covers(m, b)
  BY MergeCovers
<1>3. Told(m, S \cup T)
  <2>1. ASSUME NEW x \in Field
        PROVE  \/ m.clocks[x] = 0 /\ m.fields[x] = InitialValue
               \/ \E w \in S \cup T : /\ w.register = x
                                      /\ w.clock = m.clocks[x]
                                      /\ w.value = m.fields[x]
    <3>1. \/ m.clocks[x] = a.clocks[x] /\ m.fields[x] = a.fields[x]
          \/ m.clocks[x] = b.clocks[x] /\ m.fields[x] = b.fields[x]
      BY MergedRegister
    <3>. QED BY <3>1 DEF Told
  <2>2. m.deletedAt = a.deletedAt \/ m.deletedAt = b.deletedAt
    BY MergedDeletion
  <2>3. \/ m.deletedAt = 0
        \/ \E w \in S \cup T : /\ w.register = Tombstone
                              /\ w.clock = m.deletedAt
                              /\ w.value = NullRank
    BY <2>2 DEF Told
  <2>. QED BY <2>1, <2>3 DEF Told
<1>4. Abreast(m, S \cup T)
  <2>1. ASSUME NEW r \in {a, b}, NEW W \in SUBSET Write, Abreast(r, W), NEW w \in W
        PROVE  /\ w.clock > 0
               /\ \A x \in Field : w.register = x =>
                    AtLeast(m.clocks[x], m.fields[x], w.clock, w.value)
               /\ w.register = Tombstone => m.deletedAt >= w.clock
    <3>1. r \in Record /\ Covers(m, r)
      BY <1>2
    <3>2. w \in Write /\ w.clock \in Nat /\ w.value \in Nat
      BY WriteParts
    <3>3. w.clock > 0
      BY <2>1 DEF Abreast
    <3>4. ASSUME NEW x \in Field, w.register = x
          PROVE  AtLeast(m.clocks[x], m.fields[x], w.clock, w.value)
      <4>1. AtLeast(r.clocks[x], r.fields[x], w.clock, w.value)
        BY <2>1, <3>4 DEF Abreast
      <4>2. AtLeast(m.clocks[x], m.fields[x], r.clocks[x], r.fields[x])
        BY <3>1 DEF Covers
      <4>3. /\ m.clocks[x] \in Nat /\ m.fields[x] \in Nat
            /\ r.clocks[x] \in Nat /\ r.fields[x] \in Nat
        BY <1>1, <3>1, RecordParts
      <4>. QED BY <3>2, <4>1, <4>2, <4>3 DEF AtLeast
    <3>5. ASSUME w.register = Tombstone PROVE m.deletedAt >= w.clock
      <4>1. r.deletedAt >= w.clock /\ m.deletedAt >= r.deletedAt
        BY <2>1, <3>1, <3>5 DEF Abreast, Covers
      <4>2. m.deletedAt \in Nat /\ r.deletedAt \in Nat
        BY <1>1, <3>1, RecordParts
      <4>. QED BY <3>2, <4>1, <4>2
    <3>. QED BY <3>3, <3>4, <3>5
  <2>2. ASSUME NEW w \in S \cup T
        PROVE  /\ w.clock > 0
               /\ \A x \in Field : w.register = x =>
                    AtLeast(m.clocks[x], m.fields[x], w.clock, w.value)
               /\ w.register = Tombstone => m.deletedAt >= w.clock
    <3>1. CASE w \in S
      BY <3>1, <2>1
    <3>2. CASE w \in T
      BY <3>2, <2>1
    <3>. QED BY <3>1, <3>2
  <2>. QED BY <2>2 DEF Abreast
<1>. QED BY <1>3, <1>4

\* The server that skips its write has nothing to catch up with.
LEMMA SkipKeepsUp ==
  ASSUME NEW a \in Record, NEW b \in Record,
         NEW S \in SUBSET Write, NEW T \in SUBSET Write,
         Told(a, S), Abreast(a, S), Abreast(b, T), Covers(a, b)
  PROVE  Told(a, S \cup T) /\ Abreast(a, S \cup T)
<1>1. Told(a, S \cup T)
  BY DEF Told
<1>2. ASSUME NEW w \in T
      PROVE  /\ w.clock > 0
             /\ \A x \in Field : w.register = x =>
                  AtLeast(a.clocks[x], a.fields[x], w.clock, w.value)
             /\ w.register = Tombstone => a.deletedAt >= w.clock
  <2>1. w \in Write /\ w.clock \in Nat /\ w.value \in Nat
    BY WriteParts
  <2>2. ASSUME NEW x \in Field, w.register = x
        PROVE  AtLeast(a.clocks[x], a.fields[x], w.clock, w.value)
    <3>1. AtLeast(b.clocks[x], b.fields[x], w.clock, w.value)
      BY <2>2 DEF Abreast
    <3>2. AtLeast(a.clocks[x], a.fields[x], b.clocks[x], b.fields[x])
      BY DEF Covers
    <3>3. /\ a.clocks[x] \in Nat /\ a.fields[x] \in Nat
          /\ b.clocks[x] \in Nat /\ b.fields[x] \in Nat
      BY RecordParts
    <3>. QED BY <2>1, <3>1, <3>2, <3>3 DEF AtLeast
  <2>3. ASSUME w.register = Tombstone PROVE a.deletedAt >= w.clock
    <3>1. b.deletedAt >= w.clock /\ a.deletedAt >= b.deletedAt
      BY <2>3 DEF Abreast, Covers
    <3>. QED BY <2>1, <3>1, RecordParts
  <2>. QED BY <2>2, <2>3 DEF Abreast
<1>3. Abreast(a, S \cup T)
  BY <1>2 DEF Abreast
<1>. QED BY <1>1, <1>3

\* Two records told by and abreast of the same writes are the same.
LEMMA SameWritesSameRecord ==
  ASSUME NEW a \in Record, NEW b \in Record, NEW S \in SUBSET Write,
         Told(a, S), Abreast(a, S), Told(b, S), Abreast(b, S)
  PROVE  SameContent(a, b)
<1>1. ASSUME NEW r \in {a, b}, NEW o \in {a, b}
      PROVE  /\ \A x \in Field : \/ r.clocks[x] = 0 /\ r.fields[x] = InitialValue
                                 \/ /\ r.clocks[x] > 0
                                    /\ AtLeast(o.clocks[x], o.fields[x],
                                               r.clocks[x], r.fields[x])
             /\ o.deletedAt >= r.deletedAt
  <2>1. r \in Record /\ o \in Record /\ Told(r, S) /\ Abreast(o, S)
    OBVIOUS
  <2>2. ASSUME NEW x \in Field
        PROVE  \/ r.clocks[x] = 0 /\ r.fields[x] = InitialValue
               \/ /\ r.clocks[x] > 0
                  /\ AtLeast(o.clocks[x], o.fields[x], r.clocks[x], r.fields[x])
    BY <2>1 DEF Told, Abreast
  <2>3. \/ r.deletedAt = 0
        \/ \E w \in S : w.register = Tombstone /\ w.clock = r.deletedAt
    BY <2>1 DEF Told
  <2>4. o.deletedAt >= r.deletedAt
    <3>1. CASE r.deletedAt = 0
      BY <2>1, <3>1, RecordParts
    <3>2. CASE \E w \in S : w.register = Tombstone /\ w.clock = r.deletedAt
      BY <2>1, <3>2 DEF Abreast
    <3>. QED BY <2>3, <3>1, <3>2
  <2>. QED BY <2>2, <2>4
<1>2. ASSUME NEW x \in Field
      PROVE  a.clocks[x] = b.clocks[x] /\ a.fields[x] = b.fields[x]
  <2>1. /\ a.clocks[x] \in Nat /\ a.fields[x] \in Nat
        /\ b.clocks[x] \in Nat /\ b.fields[x] \in Nat
    BY RecordParts
  <2>2. /\ \/ a.clocks[x] = 0 /\ a.fields[x] = InitialValue
           \/ /\ a.clocks[x] > 0
              /\ AtLeast(b.clocks[x], b.fields[x], a.clocks[x], a.fields[x])
        /\ \/ b.clocks[x] = 0 /\ b.fields[x] = InitialValue
           \/ /\ b.clocks[x] > 0
              /\ AtLeast(a.clocks[x], a.fields[x], b.clocks[x], b.fields[x])
    BY <1>1
  <2>. QED BY <2>1, <2>2 DEF AtLeast
<1>3. a.deletedAt >= b.deletedAt /\ b.deletedAt >= a.deletedAt
  BY <1>1
<1>4. a.deletedAt = b.deletedAt
  BY <1>3, RecordParts
<1>. QED BY <1>2, <1>4, SameRegisters

\* Before anything is written every replica holds the same unwritten record.
LEMMA InitialReplicas == Init => ReplicaInv
<1> SUFFICES ASSUME Init PROVE ReplicaInv
  OBVIOUS
<1>1. InitialRecord \in Record
  BY ReplicaAssumption DEF InitialRecord, Record
<1>2. TypeOK
  BY <1>1 DEF Init, TypeOK
<1>3. Told(InitialRecord, {}) /\ Abreast(InitialRecord, {})
  BY DEF Told, Abreast, InitialRecord
<1>. QED BY <1>2, <1>3 DEF Init, ReplicaInv

\* What one replica does to its record and to the writes it keeps preserves the
\* invariant when the new record is told by and abreast of the new set.
LEMMA OneReplicaMoves ==
  ASSUME ReplicaInv, NEW p \in Replica, NEW r \in Record, NEW S \in SUBSET Write,
         Told(r, S), Abreast(r, S),
         held' = [held EXCEPT ![p] = r], kept' = [kept EXCEPT ![p] = S],
         sent' = sent, edits' \in Nat
  PROVE  ReplicaInv'
<1>1. TypeOK'
  BY DEF ReplicaInv, TypeOK
<1>2. ASSUME NEW q \in Replica
      PROVE  Told(held'[q], kept'[q]) /\ Abreast(held'[q], kept'[q])
  <2>1. held \in [Replica -> Record] /\ kept \in [Replica -> SUBSET Write]
    BY DEF ReplicaInv, TypeOK
  <2>2. CASE q = p
    BY <2>1, <2>2
  <2>3. CASE q # p
    <3>1. held'[q] = held[q] /\ kept'[q] = kept[q]
      BY <2>1, <2>3
    <3>. QED BY <3>1 DEF ReplicaInv
  <2>. QED BY <2>2, <2>3
<1>3. \A m \in sent' : Told(m.record, m.kept) /\ Abreast(m.record, m.kept)
  BY DEF ReplicaInv
<1>. QED BY <1>1, <1>2, <1>3 DEF ReplicaInv

\* Every step leaves replicas and messages told by and abreast of the writes
\* they keep.
LEMMA ReplicaStep == ReplicaInv /\ [Next]_vars => ReplicaInv'
<1> SUFFICES ASSUME ReplicaInv, [Next]_vars PROVE ReplicaInv'
  OBVIOUS
<1>0. /\ held \in [Replica -> Record]
      /\ kept \in [Replica -> SUBSET Write]
      /\ sent \subseteq Message /\ edits \in Nat
      /\ Device \subseteq Replica /\ Server \in Replica
      /\ Device \subseteq Nat
  BY ReplicaAssumption DEF ReplicaInv, TypeOK, Replica
<1>1. ASSUME NEW d \in Device, NEW x \in Field, NEW v \in Value,
             NEW stamp \in 1..MaxStamp, Mutate(d, x, v, stamp)
      PROVE  ReplicaInv'
  <2> DEFINE r == [held[d] EXCEPT !.fields[x] = v, !.clocks[x] = stamp, !.nodeId = d]
             w == [register |-> x, clock |-> stamp, value |-> v, by |-> d]
             S == Overwritten(kept[d], w)
  <2>1. /\ d \in Replica /\ d \in Nat /\ stamp \in Nat /\ stamp > 0
        /\ held[d] \in Record /\ kept[d] \in SUBSET Write
    BY <1>0
  <2>2. /\ held[d].fields \in [Field -> Value] /\ held[d].clocks \in [Field -> Nat]
        /\ held[d].deletedAt \in Nat
    BY <2>1, RecordParts
  <2>3. /\ r.fields = [held[d].fields EXCEPT ![x] = v]
        /\ r.clocks = [held[d].clocks EXCEPT ![x] = stamp]
        /\ r.nodeId = d /\ r.deletedAt = held[d].deletedAt
        /\ r \in Record
    BY <2>1, <2>2 DEF Record
  <2>4. w \in Write
    BY <2>1 DEF Write
  <2>5. S \in SUBSET Write
    BY <2>1, <2>4 DEF Overwritten
  <2>6. /\ w.register = x /\ w.clock = stamp /\ w.value = v
        /\ x # Tombstone
    BY ReplicaAssumption
  <2>7. /\ Told(held[d], kept[d]) /\ Abreast(held[d], kept[d])
        /\ w \in S /\ \A u \in S : u = w \/ u \in kept[d]
        /\ \A u \in kept[d] : u.register # x => u \in S
        /\ \A u \in S : u = w \/ (u.register = x => AtLeast(stamp, v, u.clock, u.value))
    BY <2>1, <2>6 DEF ReplicaInv, Overwritten
  <2>8. /\ held' = [held EXCEPT ![d] = r] /\ kept' = [kept EXCEPT ![d] = S]
        /\ sent' = sent /\ edits' \in Nat
    <3>1. w = Stamped(d, x, stamp, v)
      BY DEF Stamped
    <3>2. edits' \in Nat
      BY <1>0, <1>1 DEF Mutate
    <3>. QED BY <1>1, <3>1, <3>2 DEF Mutate
  <2> HIDE DEF r, w
  <2>9. /\ r.fields[x] = v /\ r.clocks[x] = stamp
        /\ \A y \in Field : y # x => /\ r.fields[y] = held[d].fields[y]
                                     /\ r.clocks[y] = held[d].clocks[y]
    BY <2>2, <2>3
  <2>10. Told(r, S)
    <3>1. ASSUME NEW y \in Field
          PROVE  \/ r.clocks[y] = 0 /\ r.fields[y] = InitialValue
                 \/ \E u \in S : /\ u.register = y
                                 /\ u.clock = r.clocks[y]
                                 /\ u.value = r.fields[y]
      <4>1. CASE y = x
        BY <2>6, <2>7, <2>9, <4>1
      <4>2. CASE y # x
        <5>1. /\ r.clocks[y] = held[d].clocks[y]
              /\ r.fields[y] = held[d].fields[y]
          BY <2>9, <4>2
        <5>. QED BY <2>7, <4>2, <5>1 DEF Told
      <4>. QED BY <4>1, <4>2
    <3>2. \/ r.deletedAt = 0
          \/ \E u \in S : /\ u.register = Tombstone
                         /\ u.clock = r.deletedAt
                         /\ u.value = NullRank
      BY <2>3, <2>6, <2>7 DEF Told
    <3>. QED BY <3>1, <3>2 DEF Told
  <2>11. Abreast(r, S)
    <3>1. ASSUME NEW u \in S
          PROVE  /\ u.clock > 0
                 /\ \A y \in Field : u.register = y =>
                      AtLeast(r.clocks[y], r.fields[y], u.clock, u.value)
                 /\ u.register = Tombstone => r.deletedAt >= u.clock
      <4>1. CASE u = w
        <5>1. AtLeast(r.clocks[x], r.fields[x], stamp, v)
          <6>1. v \in Nat
            BY ValueAssumption
          <6>. QED BY <2>1, <2>9, <6>1 DEF AtLeast
        <5>. QED BY <2>1, <2>6, <4>1, <5>1
      <4>2. CASE u # w
        <5>1. u \in kept[d] /\ u.clock > 0
          BY <2>7, <4>2 DEF Abreast
        <5>2. u.register = x => AtLeast(r.clocks[x], r.fields[x], u.clock, u.value)
          BY <2>7, <2>9, <4>2
        <5>3. ASSUME NEW y \in Field, u.register = y, y # x
              PROVE  AtLeast(r.clocks[y], r.fields[y], u.clock, u.value)
          BY <2>7, <2>9, <5>1, <5>3 DEF Abreast
        <5>4. u.register = Tombstone => r.deletedAt >= u.clock
          BY <2>3, <2>7, <5>1 DEF Abreast
        <5>. QED BY <5>1, <5>2, <5>3, <5>4
      <4>. QED BY <4>1, <4>2
    <3>. QED BY <3>1 DEF Abreast
  <2> HIDE DEF S
  <2>. QED BY <2>1, <2>3, <2>5, <2>8, <2>10, <2>11, OneReplicaMoves
<1>2. ASSUME NEW d \in Device, NEW stamp \in 1..MaxStamp, RemoveRecord(d, stamp)
      PROVE  ReplicaInv'
  <2> DEFINE r == [held[d] EXCEPT !.deletedAt = stamp, !.nodeId = d]
             w == [register |-> Tombstone, clock |-> stamp, value |-> NullRank, by |-> d]
             S == Overwritten(kept[d], w)
  <2>1. /\ d \in Replica /\ d \in Nat /\ stamp \in Nat /\ stamp > 0
        /\ held[d] \in Record /\ kept[d] \in SUBSET Write
    BY <1>0
  <2>2. /\ r.fields = held[d].fields /\ r.clocks = held[d].clocks
        /\ r.deletedAt = stamp /\ r \in Record
    BY <2>1 DEF Record
  <2>3. w \in Write
    BY <2>1, ValueAssumption DEF Write
  <2>4. S \in SUBSET Write
    BY <2>1, <2>3 DEF Overwritten
  <2>5. /\ w.register = Tombstone /\ w.clock = stamp /\ w.value = NullRank
        /\ Tombstone \notin Field
    BY ReplicaAssumption
  <2>6. /\ Told(held[d], kept[d]) /\ Abreast(held[d], kept[d])
        /\ w \in S /\ \A u \in S : u = w \/ u \in kept[d]
        /\ \A u \in kept[d] : u.register # Tombstone => u \in S
        /\ \A u \in S : u = w \/ (u.register = Tombstone =>
                                    AtLeast(stamp, NullRank, u.clock, u.value))
    BY <2>1, <2>5 DEF ReplicaInv, Overwritten
  <2>7. /\ held' = [held EXCEPT ![d] = r] /\ kept' = [kept EXCEPT ![d] = S]
        /\ sent' = sent /\ edits' \in Nat
    <3>1. w = Stamped(d, Tombstone, stamp, NullRank)
      BY DEF Stamped
    <3>2. edits' \in Nat
      BY <1>0, <1>2 DEF RemoveRecord
    <3>. QED BY <1>2, <3>1, <3>2 DEF RemoveRecord
  <2> HIDE DEF r, w
  <2>8. Told(r, S)
    BY <2>2, <2>5, <2>6 DEF Told
  <2>9. Abreast(r, S)
    <3>1. ASSUME NEW u \in S
          PROVE  /\ u.clock > 0
                 /\ \A y \in Field : u.register = y =>
                      AtLeast(r.clocks[y], r.fields[y], u.clock, u.value)
                 /\ u.register = Tombstone => r.deletedAt >= u.clock
      <4>1. CASE u = w
        BY <2>1, <2>2, <2>5, <4>1
      <4>2. CASE u # w
        <5>1. u \in kept[d] /\ u \in Write
          BY <2>1, <2>6, <4>2
        <5>2. u.clock \in Nat
          BY <5>1, WriteParts
        <5>3. u.register = Tombstone => stamp >= u.clock
          BY <2>1, <2>6, <4>2, <5>2 DEF AtLeast
        <5>. QED BY <2>2, <2>6, <5>1, <5>3 DEF Abreast
      <4>. QED BY <4>1, <4>2
    <3>. QED BY <3>1 DEF Abreast
  <2> HIDE DEF S
  <2>. QED BY <2>1, <2>2, <2>4, <2>7, <2>8, <2>9, OneReplicaMoves
<1>3. ASSUME NEW p \in Replica, Send(p) PROVE ReplicaInv'
  <2> DEFINE m == [record |-> held[p], kept |-> kept[p]]
  <2>1. sent' = sent \cup {m} /\ held' = held /\ kept' = kept /\ edits' = edits
    BY <1>3 DEF Send
  <2>2. m \in Message /\ m.record = held[p] /\ m.kept = kept[p]
    BY <1>0 DEF Message
  <2> HIDE DEF m
  <2>3. Told(m.record, m.kept) /\ Abreast(m.record, m.kept)
    BY <2>2 DEF ReplicaInv
  <2>4. TypeOK'
    BY <2>1, <2>2 DEF ReplicaInv, TypeOK
  <2>5. \A q \in Replica : Told(held'[q], kept'[q]) /\ Abreast(held'[q], kept'[q])
    BY <2>1 DEF ReplicaInv
  <2>6. \A n \in sent' : Told(n.record, n.kept) /\ Abreast(n.record, n.kept)
    BY <2>1, <2>3 DEF ReplicaInv
  <2>. QED BY <2>4, <2>5, <2>6 DEF ReplicaInv
<1>4. ASSUME NEW d \in Device, NEW m \in sent, MergeAtDevice(d, m) PROVE ReplicaInv'
  <2> DEFINE r == MergeRecord(held[d], m.record)
             S == kept[d] \cup m.kept
  <2>1. /\ d \in Replica /\ held[d] \in Record /\ kept[d] \in SUBSET Write
        /\ m.record \in Record /\ m.kept \in SUBSET Write
    BY <1>0 DEF Message
  <2>2. r \in Record /\ S \in SUBSET Write
    BY <2>1, MergeType
  <2>3. /\ Told(held[d], kept[d]) /\ Abreast(held[d], kept[d])
        /\ Told(m.record, m.kept) /\ Abreast(m.record, m.kept)
    BY <2>1 DEF ReplicaInv
  <2>4. Told(r, S) /\ Abreast(r, S)
    BY <2>1, <2>3, MergeKeepsUp
  <2>5. /\ held' = [held EXCEPT ![d] = r] /\ kept' = [kept EXCEPT ![d] = S]
        /\ sent' = sent /\ edits' \in Nat
    BY <1>0, <1>4 DEF MergeAtDevice
  <2> HIDE DEF r, S
  <2>. QED BY <2>1, <2>2, <2>4, <2>5, OneReplicaMoves
<1>5. ASSUME NEW m \in sent, MergeAtServer(m) PROVE ReplicaInv'
  <2> DEFINE a == held[Server]
             b == m.record
             r == IF ServerChanged(a, b) THEN ServerMerged(a, b) ELSE a
             S == kept[Server] \cup m.kept
  <2>1. /\ Server \in Replica /\ a \in Record /\ kept[Server] \in SUBSET Write
        /\ b \in Record /\ m.kept \in SUBSET Write
    BY <1>0 DEF Message
  <2>2. r \in Record /\ S \in SUBSET Write
    BY <2>1, MergeType
  <2>3. /\ Told(a, kept[Server]) /\ Abreast(a, kept[Server])
        /\ Told(b, m.kept) /\ Abreast(b, m.kept)
    BY <2>1 DEF ReplicaInv
  <2>4. Told(r, S) /\ Abreast(r, S)
    <3>1. CASE ServerChanged(a, b)
      <4>1. Told(ServerMerged(a, b), S) /\ Abreast(ServerMerged(a, b), S)
        BY <2>1, <2>3, MergeKeepsUp
      <4>. QED BY <3>1, <4>1
    <3>2. CASE ~ServerChanged(a, b)
      <4>1. Covers(a, b)
        BY <2>1, <3>2, UnchangedIsCovered
      <4>2. Told(a, S) /\ Abreast(a, S)
        BY <2>1, <2>3, <4>1, SkipKeepsUp
      <4>. QED BY <3>2, <4>2
    <3>. QED BY <3>1, <3>2
  <2>5. /\ held' = [held EXCEPT ![Server] = r] /\ kept' = [kept EXCEPT ![Server] = S]
        /\ sent' = sent /\ edits' \in Nat
    BY <1>0, <1>5 DEF MergeAtServer
  <2> HIDE DEF a, b, r, S
  <2>. QED BY <2>1, <2>2, <2>4, <2>5, OneReplicaMoves
<1>6. CASE UNCHANGED vars
  BY <1>6 DEF ReplicaInv, TypeOK, vars
<1>. QED BY <1>1, <1>2, <1>3, <1>4, <1>5, <1>6 DEF Next

\* Every reachable state of the replicas keeps the inductive invariant.
LEMMA ReplicasKeepUp == Spec => []ReplicaInv
<1>. QED BY InitialReplicas, ReplicaStep, PTL DEF Spec

\* Two replicas that keep the same writes show the same record, for any
\* devices, fields, values and writes, whatever order, duplication or path the
\* merges took, whichever of the two implementations ran them, ties included,
\* and although an edit may overwrite what is stamped later than itself
\* (mergeRecord.ts:26-27, sync-merge.ts:42, SyncService.ts:88-124).
THEOREM ReplicasConverge == Spec => []StrongConvergence
<1>1. ReplicaInv => StrongConvergence
  <2> SUFFICES ASSUME ReplicaInv, NEW p \in Replica, NEW q \in Replica, kept[p] = kept[q]
               PROVE  SameContent(held[p], held[q])
    BY DEF StrongConvergence
  <2>1. held[p] \in Record /\ held[q] \in Record /\ kept[p] \in SUBSET Write
    BY DEF ReplicaInv, TypeOK
  <2>2. /\ Told(held[p], kept[p]) /\ Abreast(held[p], kept[p])
        /\ Told(held[q], kept[p]) /\ Abreast(held[q], kept[p])
    BY DEF ReplicaInv
  <2>. QED BY <2>1, <2>2, SameWritesSameRecord
<1>. QED BY <1>1, ReplicasKeepUp, PTL

\* A replica that a delete has reached hides the record unless it keeps a newer
\* write to some field, or an edit made there has replaced the delete by one
\* stamped earlier: no merge ever brings a deleted record back on its own
\* (mergeRecord.ts:30-32).
THEOREM DeletesBury == Spec => []DeleteBuries
<1>1. ReplicaInv => DeleteBuries
  <2> SUFFICES ASSUME ReplicaInv, NEW p \in Replica, NEW w \in kept[p],
                      w.register = Tombstone, ~IsDeleted(held[p])
               PROVE  \E u \in kept[p] : u.register \in Field /\ u.clock > w.clock
    BY DEF DeleteBuries
  <2>1. held[p] \in Record /\ kept[p] \in SUBSET Write /\ w \in Write
    BY DEF ReplicaInv, TypeOK
  <2>2. Told(held[p], kept[p]) /\ w.clock > 0 /\ held[p].deletedAt >= w.clock
    BY DEF ReplicaInv, Abreast
  <2>3. held[p].deletedAt \in Nat /\ w.clock \in Nat
    BY <2>1, RecordParts, WriteParts
  <2>4. PICK f \in Field : ~(held[p].deletedAt >= held[p].clocks[f])
    BY <2>2, <2>3 DEF IsDeleted
  <2>5. held[p].clocks[f] \in Nat
    BY <2>1, RecordParts
  <2>6. held[p].clocks[f] # 0 /\ held[p].clocks[f] > w.clock
    BY <2>2, <2>3, <2>4, <2>5
  <2>7. PICK u \in kept[p] : u.register = f /\ u.clock = held[p].clocks[f]
    BY <2>2, <2>6 DEF Told
  <2>. QED BY <2>6, <2>7
<1>. QED BY <1>1, ReplicasKeepUp, PTL

\* A replica never mixes the clock of one write with the value of another: all
\* it shows was written, with that stamp, by a device it has heard of, or is
\* unwritten (mergeRecord.ts:68-74, the value and the clock of a field move together).
THEOREM ReplicasInventNothing == Spec => []NoInvention
<1>1. ReplicaInv => NoInvention
  <2> SUFFICES ASSUME ReplicaInv, NEW p \in Replica
               PROVE  /\ \A x \in Field :
                           \/ \E d \in Device :
                                Stamped(d, x, held[p].clocks[x], held[p].fields[x]) \in kept[p]
                           \/ held[p].clocks[x] = 0 /\ held[p].fields[x] = InitialValue
                      /\ \/ held[p].deletedAt = 0
                         \/ \E d \in Device :
                              Stamped(d, Tombstone, held[p].deletedAt, NullRank) \in kept[p]
    BY DEF NoInvention
  <2>1. kept[p] \in SUBSET Write /\ Told(held[p], kept[p])
    BY DEF ReplicaInv, TypeOK
  <2>2. ASSUME NEW w \in kept[p]
        PROVE  /\ w.by \in Device
               /\ w = Stamped(w.by, w.register, w.clock, w.value)
    BY <2>1 DEF Write, Stamped
  <2>. QED BY <2>1, <2>2 DEF Told
<1>. QED BY <1>1, ReplicasKeepUp, PTL

---------------------------------------------------------------------------
(* The register                                                            *)

\* Two replicas that merge the same two registers agree, whichever is local,
\* as long as a stamp names one write.  lwwRegister.ts:3-13.
THEOREM RegisterCommutes ==
  ASSUME NEW a \in Register, NEW b \in Register, SameWrite(a, b)
  PROVE  MergeRegister(a, b) = MergeRegister(b, a)
<1>1. CASE a.updatedAt = b.updatedAt /\ a.nodeId = b.nodeId
  <2>1. a.value = b.value
    BY <1>1 DEF SameWrite
  <2>2. a = b
    BY <1>1, <2>1 DEF Register
  <2>. QED BY <2>2
<1>2. CASE ~(a.updatedAt = b.updatedAt /\ a.nodeId = b.nodeId)
  BY <1>2 DEF Register, MergeRegister, RegisterWins
<1>. QED BY <1>1, <1>2

\* Three registers merge to the same one in any grouping.
THEOREM RegisterAssociates ==
  ASSUME NEW a \in Register, NEW b \in Register, NEW c \in Register
  PROVE  MergeRegister(MergeRegister(a, b), c) = MergeRegister(a, MergeRegister(b, c))
BY DEF Register, MergeRegister, RegisterWins

\* compareStamps and registerWins, two readings of the rule, agree.
THEOREM StampsAgree ==
  ASSUME NEW a \in Register, NEW b \in Register
  PROVE  RegisterWins(a, b) <=>
           CompareStamps(a.updatedAt, a.nodeId, b.updatedAt, b.nodeId) \in {"local", "equal"}
BY DEF Register, RegisterWins, CompareStamps

---------------------------------------------------------------------------
(* The element set                                                         *)

\* Bumping one stamp map with another is the greater stamp of each element.
LEMMA BumpAllIsMax ==
  ASSUME NEW m \in StampMap, NEW n \in StampMap
  PROVE  /\ BumpAll(m, n) \in StampMap
         /\ \A e \in Element : BumpAll(m, n)[e] = IF m[e] >= n[e] THEN m[e] ELSE n[e]
BY DEF StampMap, BumpAll, Bumped, Absent

\* Stamp maps that agree on every element are equal.
LEMMA StampMapEqual ==
  ASSUME NEW m \in StampMap, NEW n \in StampMap, \A e \in Element : m[e] = n[e]
  PROVE  m = n
BY DEF StampMap

\* Bumping stamp maps into each other commutes, associates and repeats.
LEMMA BumpAllAlgebra ==
  ASSUME NEW l \in StampMap, NEW m \in StampMap, NEW n \in StampMap
  PROVE  /\ BumpAll(l, m) = BumpAll(m, l)
         /\ BumpAll(BumpAll(l, m), n) = BumpAll(l, BumpAll(m, n))
         /\ BumpAll(l, l) = l
         /\ BumpAll(BumpAll(l, m), m) = BumpAll(l, m)
<1>1. /\ BumpAll(l, m) \in StampMap /\ BumpAll(m, l) \in StampMap
      /\ BumpAll(m, n) \in StampMap /\ BumpAll(l, l) \in StampMap
  BY BumpAllIsMax
<1>2. /\ BumpAll(BumpAll(l, m), n) \in StampMap
      /\ BumpAll(l, BumpAll(m, n)) \in StampMap
      /\ BumpAll(BumpAll(l, m), m) \in StampMap
  BY <1>1, BumpAllIsMax
<1>3. ASSUME NEW e \in Element
      PROVE  /\ BumpAll(l, m)[e] = BumpAll(m, l)[e]
             /\ BumpAll(BumpAll(l, m), n)[e] = BumpAll(l, BumpAll(m, n))[e]
             /\ BumpAll(l, l)[e] = l[e]
             /\ BumpAll(BumpAll(l, m), m)[e] = BumpAll(l, m)[e]
  <2>1. l[e] \in Int /\ m[e] \in Int /\ n[e] \in Int
    BY DEF StampMap, Absent
  <2>2. /\ BumpAll(l, m)[e] = IF l[e] >= m[e] THEN l[e] ELSE m[e]
        /\ BumpAll(m, l)[e] = IF m[e] >= l[e] THEN m[e] ELSE l[e]
        /\ BumpAll(m, n)[e] = IF m[e] >= n[e] THEN m[e] ELSE n[e]
        /\ BumpAll(l, l)[e] = IF l[e] >= l[e] THEN l[e] ELSE l[e]
    BY BumpAllIsMax
  <2>3. /\ BumpAll(BumpAll(l, m), n)[e] =
             IF BumpAll(l, m)[e] >= n[e] THEN BumpAll(l, m)[e] ELSE n[e]
        /\ BumpAll(BumpAll(l, m), m)[e] =
             IF BumpAll(l, m)[e] >= m[e] THEN BumpAll(l, m)[e] ELSE m[e]
        /\ BumpAll(l, BumpAll(m, n))[e] =
             IF l[e] >= BumpAll(m, n)[e] THEN l[e] ELSE BumpAll(m, n)[e]
    BY <1>1, BumpAllIsMax
  <2>. QED BY <2>1, <2>2, <2>3
<1>4. /\ BumpAll(l, m) = BumpAll(m, l)
      /\ BumpAll(l, l) = l
  BY <1>1, <1>3, StampMapEqual
<1>5. BumpAll(BumpAll(l, m), n) = BumpAll(l, BumpAll(m, n))
  BY <1>2, <1>3, StampMapEqual
<1>6. BumpAll(BumpAll(l, m), m) = BumpAll(l, m)
  BY <1>1, <1>2, <1>3, StampMapEqual
<1>. QED BY <1>4, <1>5, <1>6

\* A merge of two element sets is one.
LEMMA SetMergeType ==
  ASSUME NEW s \in ElementSet, NEW t \in ElementSet
  PROVE  Merge(s, t) \in ElementSet
BY BumpAllIsMax DEF Merge, ElementSet

\* Replicas that merge in either order hold the same stamps.
\* lwwElementSet.ts:4-8, 65-73.
THEOREM SetMergeCommutes ==
  ASSUME NEW s \in ElementSet, NEW t \in ElementSet, s.bias = t.bias
  PROVE  Merge(s, t) = Merge(t, s)
BY BumpAllAlgebra DEF Merge, ElementSet

\* Messages may be batched in any way before they are merged.
THEOREM SetMergeAssociates ==
  ASSUME NEW s \in ElementSet, NEW t \in ElementSet, NEW u \in ElementSet
  PROVE  Merge(Merge(s, t), u) = Merge(s, Merge(t, u))
BY BumpAllAlgebra DEF Merge, ElementSet

\* A duplicated message changes nothing.
THEOREM MergeAgain ==
  ASSUME NEW s \in ElementSet, NEW t \in ElementSet
  PROVE  Merge(Merge(s, t), t) = Merge(s, t) /\ Merge(s, s) = s
<1>1. Merge(Merge(s, t), t) = Merge(s, t)
  BY BumpAllAlgebra DEF Merge, ElementSet
<1>2. Merge(s, s) = [adds |-> s.adds, removes |-> s.removes, bias |-> s.bias]
  BY BumpAllAlgebra DEF Merge, ElementSet
<1>. QED BY <1>1, <1>2 DEF ElementSet

\* A write made before a merge or after it leaves the same set: edits and
\* messages may come in any order.
THEOREM WritesAreMerges ==
  ASSUME NEW s \in ElementSet, NEW t \in ElementSet, NEW e \in Element, NEW stamp \in Nat
  PROVE  /\ Merge(Add(s, e, stamp), t) = Add(Merge(s, t), e, stamp)
         /\ Merge(Remove(s, e, stamp), t) = Remove(Merge(s, t), e, stamp)
<1>1. ASSUME NEW m \in StampMap, NEW n \in StampMap
      PROVE  BumpAll(Bump(m, e, stamp), n) = Bump(BumpAll(m, n), e, stamp)
  <2>1. /\ Bump(m, e, stamp) \in StampMap
        /\ BumpAll(m, n) \in StampMap
    BY BumpAllIsMax DEF Bump, Bumped, StampMap
  <2>2. Bump(BumpAll(m, n), e, stamp) \in StampMap
    BY <2>1 DEF Bump, Bumped, StampMap
  <2>3. BumpAll(Bump(m, e, stamp), n) \in StampMap
    BY <2>1, BumpAllIsMax
  <2>4. \A x \in Element :
          BumpAll(Bump(m, e, stamp), n)[x] = Bump(BumpAll(m, n), e, stamp)[x]
    BY <2>1 DEF Bump, Bumped, BumpAll, StampMap, Absent
  <2>. QED BY <2>2, <2>3, <2>4, StampMapEqual
<1>. QED BY <1>1 DEF Add, Remove, Merge, ElementSet

\* Membership is decided by the latest stamps, and a tie by the bias: a
\* removal at the same instant wins in a set biased to remove, wherever the
\* two stamps came from.  lwwElementSet.ts:45-53.
THEOREM MembershipByLatest ==
  ASSUME NEW s \in ElementSet, NEW e \in Element
  PROVE  /\ s.bias = "remove" => (Has(s, e) <=> s.adds[e] > s.removes[e])
         /\ s.bias = "add" => (Has(s, e) <=> s.adds[e] # Absent /\ s.adds[e] >= s.removes[e])
BY DEF ElementSet, StampMap, Bias, Has, Absent

\* Storing a set and reading it back gives the set, ties and bias included.
THEOREM RoundTrip ==
  ASSUME NEW s \in ElementSet
  PROVE  FromJSON(ToJSON(s)) = s
<1>1. /\ NoStamps \in StampMap
      /\ \A e \in Element : NoStamps[e] = Absent
  BY DEF NoStamps, StampMap
<1>2. ASSUME NEW m \in StampMap PROVE BumpAll(NoStamps, m) = m
  <2>1. BumpAll(NoStamps, m) \in StampMap
    BY <1>1, BumpAllIsMax
  <2>2. \A e \in Element : BumpAll(NoStamps, m)[e] = m[e]
    BY <1>1 DEF BumpAll, Bumped, StampMap
  <2>. QED BY <2>1, <2>2, StampMapEqual
<1>3. s.adds \in StampMap /\ s.removes \in StampMap
  BY DEF ElementSet
<1>4. FromJSON(ToJSON(s)) = [adds |-> s.adds, removes |-> s.removes, bias |-> s.bias]
  BY <1>2, <1>3 DEF FromJSON, ToJSON, Merge, Empty
<1>. QED BY <1>4 DEF ElementSet
=============================================================================
