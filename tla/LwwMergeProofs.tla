--------------------------- MODULE LwwMergeProofs ---------------------------
(***************************************************************************)
(* The two merge implementations are joins of the same order.              *)
(*                                                                         *)
(* The argument goes by register: PickFieldIsMax shows that each chooser   *)
(* takes the other side exactly when its own side is not AtLeast as new,   *)
(* and AtLeast is a total order on stamped values.  Everything else (the   *)
(* merge commutes, associates, is idempotent and is the least record that  *)
(* covers both) follows from that, for any set of fields and of values.    *)
(***************************************************************************)
EXTENDS LwwMerge, TLAPS

\* The fields of a record have the types the proofs below use.
LEMMA RecordParts ==
  ASSUME NEW r \in Record
  PROVE  /\ r.fields \in [Field -> Value]
         /\ r.clocks \in [Field -> Nat]
         /\ r.nodeId \in Nat
         /\ r.deletedAt \in Nat
         /\ \A f \in Field : r.clocks[f] \in Nat /\ r.fields[f] \in Nat
  BY ValueAssumption DEF Record

\* pickField (mobile) and pickField (server) are the same function: each
\* gives the register up exactly when it is not AtLeast as new as the other.
LEMMA PickFieldIsMax ==
  ASSUME NEW a \in Record, NEW b \in Record, NEW f \in Field
  PROVE  /\ RemoteWins(a, b, f) <=>
              ~AtLeast(a.clocks[f], a.fields[f], b.clocks[f], b.fields[f])
         /\ ClientWins(a, b, f) <=>
              ~AtLeast(a.clocks[f], a.fields[f], b.clocks[f], b.fields[f])
<1> DEFINE ac == a.clocks[f]
           av == a.fields[f]
           bc == b.clocks[f]
           bv == b.fields[f]
<1>1. ac \in Nat /\ av \in Nat /\ bc \in Nat /\ bv \in Nat
  BY RecordParts
<1> HIDE DEF ac, av, bc, bv
<1>2. (PickField(ac, av, bc, bv) = "remote") <=> ~AtLeast(ac, av, bc, bv)
  BY <1>1 DEF PickField, AtLeast
<1>3. (ServerPickField(ac, av, bc, bv) = "client") <=> ~AtLeast(ac, av, bc, bv)
  BY <1>1 DEF ServerPickField, AtLeast
<1> QED
  BY <1>2, <1>3 DEF RemoteWins, ClientWins, ac, av, bc, bv

\* A merge of two records is a record, on either side.
THEOREM MergeType ==
  ASSUME NEW a \in Record, NEW b \in Record
  PROVE  MergeRecord(a, b) \in Record /\ ServerMerged(a, b) \in Record
<1>1. NewestNode(a, b) \in Nat /\ ServerNewestNode(a, b) \in Nat
  BY RecordParts DEF NewestNode, ServerNewestNode
<1>2. /\ MergeDeletion(a, b) \in Nat
      /\ MergeTombstone(a.deletedAt, b.deletedAt) \in Nat
  BY RecordParts DEF MergeDeletion, MergeTombstone
<1>3. MergeRecord(a, b) \in Record
  BY <1>1, <1>2, RecordParts DEF MergeRecord, Record
<1>4. ServerMerged(a, b) \in Record
  BY <1>1, <1>2, RecordParts DEF ServerMerged, Record
<1> QED
  BY <1>3, <1>4

\* Merging a record with itself changes nothing: a message delivered twice
\* is harmless (sync-merge.ts:42 "order-independent and idempotent").
THEOREM MergeIdempotent ==
  ASSUME NEW a \in Record
  PROVE  MergeRecord(a, a) = a
<1>1. \A f \in Field : ~RemoteWins(a, a, f)
  <2> TAKE f \in Field
  <2>1. AtLeast(a.clocks[f], a.fields[f], a.clocks[f], a.fields[f])
    BY RecordParts DEF AtLeast
  <2> QED
    BY <2>1, PickFieldIsMax
<1>2. NewestNode(a, a) = a.nodeId
  BY DEF NewestNode
<1>3. MergeDeletion(a, a) = a.deletedAt
  BY DEF MergeDeletion
<1>4. a = [fields |-> a.fields, clocks |-> a.clocks,
           nodeId |-> a.nodeId, deletedAt |-> a.deletedAt]
  BY DEF Record
<1>5. MergeRecord(a, a).fields = a.fields
  <2>1. MergeRecord(a, a).fields = [f \in Field |-> a.fields[f]]
    BY <1>1 DEF MergeRecord
  <2> QED
    BY <2>1, RecordParts
<1>6. MergeRecord(a, a).clocks = a.clocks
  <2>1. MergeRecord(a, a).clocks = [f \in Field |-> a.clocks[f]]
    BY <1>1 DEF MergeRecord
  <2> QED
    BY <2>1, RecordParts
<1> QED
  BY <1>2, <1>3, <1>4, <1>5, <1>6 DEF MergeRecord

\* What a merge holds in one register: the newer side's clock and value.
LEMMA MergedRegister ==
  ASSUME NEW a \in Record, NEW b \in Record, NEW f \in Field
  PROVE  /\ AtLeast(a.clocks[f], a.fields[f], b.clocks[f], b.fields[f])
              => /\ MergeRecord(a, b).clocks[f] = a.clocks[f]
                 /\ MergeRecord(a, b).fields[f] = a.fields[f]
                 /\ ServerMerged(a, b).clocks[f] = a.clocks[f]
                 /\ ServerMerged(a, b).fields[f] = a.fields[f]
         /\ ~AtLeast(a.clocks[f], a.fields[f], b.clocks[f], b.fields[f])
              => /\ MergeRecord(a, b).clocks[f] = b.clocks[f]
                 /\ MergeRecord(a, b).fields[f] = b.fields[f]
                 /\ ServerMerged(a, b).clocks[f] = b.clocks[f]
                 /\ ServerMerged(a, b).fields[f] = b.fields[f]
  BY PickFieldIsMax DEF MergeRecord, ServerMerged

\* The deletion stamp of a merge is the later of the two.
LEMMA MergedDeletion ==
  ASSUME NEW a \in Record, NEW b \in Record
  PROVE  /\ MergeRecord(a, b).deletedAt =
              IF a.deletedAt >= b.deletedAt THEN a.deletedAt ELSE b.deletedAt
         /\ ServerMerged(a, b).deletedAt =
              IF a.deletedAt >= b.deletedAt THEN a.deletedAt ELSE b.deletedAt
  BY DEF MergeRecord, ServerMerged, MergeDeletion, MergeTombstone

\* Two records with the same registers and the same stamp show the same
\* content.
LEMMA SameRegisters ==
  ASSUME NEW a \in Record, NEW b \in Record,
         \A f \in Field : a.clocks[f] = b.clocks[f] /\ a.fields[f] = b.fields[f],
         a.deletedAt = b.deletedAt
  PROVE  SameContent(a, b)
<1>1. a.clocks = b.clocks
  BY RecordParts
<1>2. a.fields = b.fields
  BY RecordParts
<1> QED
  BY <1>1, <1>2 DEF SameContent

\* AtLeast is a total order on stamped values.
LEMMA AtLeastOrder ==
  ASSUME NEW c1 \in Nat, NEW v1 \in Nat, NEW c2 \in Nat, NEW v2 \in Nat,
         NEW c3 \in Nat, NEW v3 \in Nat
  PROVE  /\ AtLeast(c1, v1, c1, v1)
         /\ AtLeast(c1, v1, c2, v2) \/ AtLeast(c2, v2, c1, v1)
         /\ AtLeast(c1, v1, c2, v2) /\ AtLeast(c2, v2, c1, v1) => c1 = c2 /\ v1 = v2
         /\ AtLeast(c1, v1, c2, v2) /\ AtLeast(c2, v2, c3, v3) => AtLeast(c1, v1, c3, v3)
  BY DEF AtLeast

\* The device and the server reach the same content whichever of the two
\* holds which record: mergeRecord and mergeServerRecord implement one merge.
THEOREM SidesAgree ==
  ASSUME NEW s \in Record, NEW c \in Record
  PROVE  SameContent(ServerMerged(s, c), MergeRecord(c, s))
<1>1. ServerMerged(s, c) \in Record /\ MergeRecord(c, s) \in Record
  BY MergeType
<1>2. ASSUME NEW f \in Field
      PROVE  /\ ServerMerged(s, c).clocks[f] = MergeRecord(c, s).clocks[f]
             /\ ServerMerged(s, c).fields[f] = MergeRecord(c, s).fields[f]
  <2> DEFINE down == AtLeast(s.clocks[f], s.fields[f], c.clocks[f], c.fields[f])
             up   == AtLeast(c.clocks[f], c.fields[f], s.clocks[f], s.fields[f])
  <2>1. /\ down \/ up
        /\ down /\ up => s.clocks[f] = c.clocks[f] /\ s.fields[f] = c.fields[f]
    BY RecordParts, AtLeastOrder
  <2>2. /\ down => /\ ServerMerged(s, c).clocks[f] = s.clocks[f]
                   /\ ServerMerged(s, c).fields[f] = s.fields[f]
        /\ ~down => /\ ServerMerged(s, c).clocks[f] = c.clocks[f]
                    /\ ServerMerged(s, c).fields[f] = c.fields[f]
    BY MergedRegister
  <2>3. /\ up => /\ MergeRecord(c, s).clocks[f] = c.clocks[f]
                 /\ MergeRecord(c, s).fields[f] = c.fields[f]
        /\ ~up => /\ MergeRecord(c, s).clocks[f] = s.clocks[f]
                  /\ MergeRecord(c, s).fields[f] = s.fields[f]
    BY MergedRegister
  <2> HIDE DEF down, up
  <2> QED
    BY <2>1, <2>2, <2>3
<1>3. ServerMerged(s, c).deletedAt = MergeRecord(c, s).deletedAt
  BY MergedDeletion, RecordParts
<1> QED
  BY <1>1, <1>2, <1>3, SameRegisters

\* The order in which two replicas meet does not matter
\* (sync-merge.ts:42 "The result is order-independent").
THEOREM MergeCommutes ==
  ASSUME NEW a \in Record, NEW b \in Record
  PROVE  SameContent(MergeRecord(a, b), MergeRecord(b, a))
<1>1. MergeRecord(a, b) \in Record /\ ServerMerged(a, b) \in Record
  BY MergeType
<1>2. ASSUME NEW f \in Field
      PROVE  /\ MergeRecord(a, b).clocks[f] = ServerMerged(a, b).clocks[f]
             /\ MergeRecord(a, b).fields[f] = ServerMerged(a, b).fields[f]
  BY MergedRegister
<1>3. MergeRecord(a, b).deletedAt = ServerMerged(a, b).deletedAt
  BY MergedDeletion
<1>4. SameContent(MergeRecord(a, b), ServerMerged(a, b))
  BY <1>1, <1>2, <1>3, SameRegisters
<1>5. SameContent(ServerMerged(a, b), MergeRecord(b, a))
  BY SidesAgree
<1> QED
  BY <1>4, <1>5 DEF SameContent

\* A merge loses nothing either side holds, field by field and tombstone.
THEOREM MergeCovers ==
  ASSUME NEW a \in Record, NEW b \in Record
  PROVE  /\ Covers(MergeRecord(a, b), a) /\ Covers(MergeRecord(a, b), b)
         /\ Covers(ServerMerged(a, b), a) /\ Covers(ServerMerged(a, b), b)
<1>1. ASSUME NEW m \in {MergeRecord(a, b), ServerMerged(a, b)}, NEW f \in Field
      PROVE  /\ AtLeast(m.clocks[f], m.fields[f], a.clocks[f], a.fields[f])
             /\ AtLeast(m.clocks[f], m.fields[f], b.clocks[f], b.fields[f])
  <2> DEFINE keep == AtLeast(a.clocks[f], a.fields[f], b.clocks[f], b.fields[f])
  <2>1. /\ keep => m.clocks[f] = a.clocks[f] /\ m.fields[f] = a.fields[f]
        /\ ~keep => m.clocks[f] = b.clocks[f] /\ m.fields[f] = b.fields[f]
    BY <1>1, MergedRegister
  <2>2. /\ ~keep => AtLeast(b.clocks[f], b.fields[f], a.clocks[f], a.fields[f])
        /\ AtLeast(a.clocks[f], a.fields[f], a.clocks[f], a.fields[f])
        /\ AtLeast(b.clocks[f], b.fields[f], b.clocks[f], b.fields[f])
    BY RecordParts, AtLeastOrder
  <2> QED
    BY <2>1, <2>2
<1>2. ASSUME NEW m \in {MergeRecord(a, b), ServerMerged(a, b)}
      PROVE  m.deletedAt >= a.deletedAt /\ m.deletedAt >= b.deletedAt
  BY <1>2, MergedDeletion, RecordParts
<1> QED
  BY <1>1, <1>2 DEF Covers

\* ... and adds nothing neither side holds: it is the least record above
\* both, so merging a stale copy into a newer one cannot bring anything back.
THEOREM MergeIsLeast ==
  ASSUME NEW a \in Record, NEW b \in Record, NEW c \in Record,
         Covers(c, a), Covers(c, b)
  PROVE  Covers(c, MergeRecord(a, b)) /\ Covers(c, ServerMerged(a, b))
<1>1. ASSUME NEW m \in {MergeRecord(a, b), ServerMerged(a, b)}, NEW f \in Field
      PROVE  AtLeast(c.clocks[f], c.fields[f], m.clocks[f], m.fields[f])
  <2>1. \/ m.clocks[f] = a.clocks[f] /\ m.fields[f] = a.fields[f]
        \/ m.clocks[f] = b.clocks[f] /\ m.fields[f] = b.fields[f]
    BY <1>1, MergedRegister
  <2> QED
    BY <2>1 DEF Covers
<1>2. ASSUME NEW m \in {MergeRecord(a, b), ServerMerged(a, b)}
      PROVE  c.deletedAt >= m.deletedAt
  BY <1>2, MergedDeletion DEF Covers
<1> QED
  BY <1>1, <1>2 DEF Covers

\* Covers is an order on what records show.
LEMMA CoversOrder ==
  ASSUME NEW a \in Record, NEW b \in Record, NEW c \in Record
  PROVE  /\ Covers(a, a)
         /\ Covers(a, b) /\ Covers(b, a) => SameContent(a, b)
         /\ Covers(a, b) /\ Covers(b, c) => Covers(a, c)
<1>1. Covers(a, a)
  BY RecordParts, AtLeastOrder DEF Covers
<1>2. ASSUME Covers(a, b), Covers(b, a) PROVE SameContent(a, b)
  <2>1. ASSUME NEW f \in Field
        PROVE  a.clocks[f] = b.clocks[f] /\ a.fields[f] = b.fields[f]
    <3>1. /\ AtLeast(a.clocks[f], a.fields[f], b.clocks[f], b.fields[f])
          /\ AtLeast(b.clocks[f], b.fields[f], a.clocks[f], a.fields[f])
      BY <1>2 DEF Covers
    <3>2. /\ a.clocks[f] \in Nat /\ a.fields[f] \in Nat
          /\ b.clocks[f] \in Nat /\ b.fields[f] \in Nat
      BY RecordParts
    <3> QED
      BY <3>1, <3>2 DEF AtLeast
  <2>2. a.deletedAt = b.deletedAt
    BY <1>2, RecordParts DEF Covers
  <2> QED
    BY <2>1, <2>2, SameRegisters
<1>3. ASSUME Covers(a, b), Covers(b, c) PROVE Covers(a, c)
  <2>1. ASSUME NEW f \in Field
        PROVE  AtLeast(a.clocks[f], a.fields[f], c.clocks[f], c.fields[f])
    <3>1. /\ AtLeast(a.clocks[f], a.fields[f], b.clocks[f], b.fields[f])
          /\ AtLeast(b.clocks[f], b.fields[f], c.clocks[f], c.fields[f])
      BY <1>3 DEF Covers
    <3>2. /\ a.clocks[f] \in Nat /\ a.fields[f] \in Nat
          /\ b.clocks[f] \in Nat /\ b.fields[f] \in Nat
          /\ c.clocks[f] \in Nat /\ c.fields[f] \in Nat
      BY RecordParts
    <3> QED
      BY <3>1, <3>2 DEF AtLeast
  <2>2. a.deletedAt >= c.deletedAt
    BY <1>3, RecordParts DEF Covers
  <2> QED
    BY <2>1, <2>2 DEF Covers
<1> QED
  BY <1>1, <1>2, <1>3

\* Nor does the grouping matter, so replicas may meet along any path
\* (mergeRecord.ts:26-27 "every replica converges regardless of merge order").
THEOREM MergeAssociates ==
  ASSUME NEW a \in Record, NEW b \in Record, NEW c \in Record
  PROVE  SameContent(MergeRecord(MergeRecord(a, b), c), MergeRecord(a, MergeRecord(b, c)))
<1> DEFINE ab    == MergeRecord(a, b)
           bc    == MergeRecord(b, c)
           left  == MergeRecord(ab, c)
           right == MergeRecord(a, bc)
<1>1. /\ ab \in Record /\ bc \in Record
      /\ left \in Record /\ right \in Record
  BY MergeType
<1>2. /\ Covers(ab, a) /\ Covers(ab, b) /\ Covers(bc, b) /\ Covers(bc, c)
      /\ Covers(left, ab) /\ Covers(left, c)
      /\ Covers(right, a) /\ Covers(right, bc)
  BY <1>1, MergeCovers
<1>3. \A x \in Record, y \in Record, z \in Record :
        Covers(x, y) /\ Covers(y, z) => Covers(x, z)
  BY CoversOrder
<1>4. \A x \in Record, y \in Record, z \in Record :
        Covers(z, x) /\ Covers(z, y) => Covers(z, MergeRecord(x, y))
  BY MergeIsLeast
<1> HIDE DEF ab, bc, left, right
<1>5. Covers(left, a) /\ Covers(left, b) /\ Covers(right, b) /\ Covers(right, c)
  BY <1>1, <1>2, <1>3
<1>6. Covers(left, bc) /\ Covers(right, ab)
  BY <1>1, <1>2, <1>4, <1>5 DEF ab, bc
<1>7. Covers(left, right) /\ Covers(right, left)
  BY <1>1, <1>2, <1>4, <1>5, <1>6 DEF left, right
<1> QED
  BY <1>1, <1>7, CoversOrder DEF left, right, ab, bc

\* The server tells a device that its change was not accepted only when it
\* already holds everything the device sent (sync-merge.ts `clientAccepted`).
THEOREM NotAcceptedIsCovered ==
  ASSUME NEW s \in Record, NEW c \in Record, ~ClientAccepted(s, c)
  PROVE  Covers(s, c)
<1>1. \A f \in Field : AtLeast(s.clocks[f], s.fields[f], c.clocks[f], c.fields[f])
  BY PickFieldIsMax DEF ClientAccepted
<1>2. s.deletedAt >= c.deletedAt
  BY RecordParts DEF ClientAccepted
<1> QED
  BY <1>1, <1>2 DEF Covers

\* When the server skips the write because nothing changed, the row already
\* held everything the device sent (sync-merge.ts `serverChanged`).
THEOREM UnchangedIsCovered ==
  ASSUME NEW s \in Record, NEW c \in Record, ~ServerChanged(s, c)
  PROVE  Covers(s, c)
<1>1. \A f \in Field : AtLeast(s.clocks[f], s.fields[f], c.clocks[f], c.fields[f])
  BY PickFieldIsMax DEF ServerChanged
<1>2. s.deletedAt >= c.deletedAt
  BY RecordParts DEF ServerChanged, MergeTombstone
<1> QED
  BY <1>1, <1>2 DEF Covers

\* A device that skips the write because `changed` is false already held
\* everything the reply carried.
THEOREM UnchangedLocallyIsCovered ==
  ASSUME NEW l \in Record, NEW r \in Record, ~MergeChanged(l, r)
  PROVE  Covers(l, r)
<1>1. \A f \in Field : AtLeast(l.clocks[f], l.fields[f], r.clocks[f], r.fields[f])
  BY PickFieldIsMax DEF MergeChanged
<1>2. l.deletedAt >= r.deletedAt
  BY RecordParts DEF MergeChanged, MergeDeletion
<1> QED
  BY <1>1, <1>2 DEF Covers
=============================================================================
