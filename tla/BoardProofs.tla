---------------------------- MODULE BoardProofs ----------------------------
(***************************************************************************)
(* What the board of the web client rests on: the realtime pipeline that   *)
(* brings its frames, and the order in which its lists and cards are kept. *)
(*                                                                         *)
(* The pipeline implements the feed, for any number of board views,        *)
(* frames, concurrent emits, faults and any length of the replay log, as   *)
(* long as no two views share a browser's localStorage.                    *)
(* A client skips a number only when it is missing between two frames of   *)
(* one sync result.  LogOK says which numbers can be missing from the log: *)
(* those below all of it, those that failed or were overtaken, and those   *)
(* still on their way; and a straggler that arrives after the log was      *)
(* trimmed is trimmed away at once, because then the log is full.          *)
(*                                                                         *)
(* Ordering: between two keys there is always a third, a rebalance spreads *)
(* any number of rows evenly, and what a request that nothing overtook     *)
(* read of its neighbours still holds when it saves.                       *)
(***************************************************************************)
EXTENDS BoardChannel, BoardOrder, FiniteSetTheorems, WellFoundedInduction, SequenceTheorems, TLAPS

\* No number is missing between two of the frames, except those that are gone.
Contiguous(frames, gone) ==
  \A a, b \in frames : \A n \in a .. b : n \in frames \/ n \in gone

GoodHandlers(n, gone) ==
  {h \in Handlers : /\ h.pc = "send" => h.head <= n
                    /\ h.frames \subseteq 1 .. n /\ Contiguous(h.frames, gone)}

GoodMessages(n, gone) ==
  {m \in Messages : /\ m.head <= n /\ (m.kind = "frame" => m.head >= 1)
                    /\ m.frames \subseteq 1 .. n /\ Contiguous(m.frames, gone)}

\* The numbers given out and not yet in the log.
Unlogged(calls) == {e.seq : e \in {f \in calls : f.pc = "numbered"}}

\* The replay log is whole but for what is gone, on its way, or trimmed away.
LogOK(entries, calls, n, gone) ==
  /\ IsFiniteSet(entries) /\ Cardinality(entries) <= ReplayMax
  /\ \A p \in Unlogged(calls), k \in entries : p < k => p \in gone
  /\ \A i \in 1 .. n :
       \/ i \in entries \/ i \in gone \/ i \in Unlogged(calls)
       \/ /\ \A k \in entries : i < k
          /\ Cardinality(entries) >= ReplayMax \/ \A p \in Unlogged(calls) : i < p

\* The inductive invariant.
ChannelInv ==
  /\ TypeOK
  /\ handling \in [Client -> SUBSET GoodHandlers(counter, overtaken)]
  /\ inbox \in [Client -> Seq(GoodMessages(counter, overtaken))]
  /\ LogOK(log, emit, counter, overtaken)

---------------------------------------------------------------------------
(* Finite sets of numbers                                                  *)

\* A non-empty set of numbers has a least element.
LEMMA LeastElement ==
  ASSUME NEW S \in SUBSET Nat, S # {}
  PROVE  \E x \in S : \A y \in S : x <= y
<1>1. PICK x \in S : \A y \in S : ~(<<y, x>> \in OpToRel(<, Nat))
  BY NatLessThanWellFounded, WFMin
<1>2. \A y \in S : ~(y < x)
  BY <1>1 DEF OpToRel
<1> QED
  BY <1>2

\* Min is the least element.
LEMMA MinIsLeast ==
  ASSUME NEW S \in SUBSET Nat, S # {}
  PROVE  Min(S) \in S /\ \A y \in S : Min(S) <= y
  BY LeastElement DEF Min

\* A non-empty set of numbers with a bound has a greatest, and Max is it.
LEMMA MaxIsGreatest ==
  ASSUME NEW n \in Nat, NEW S \in SUBSET (1 .. n), S # {}
  PROVE  Max(S) \in S /\ \A y \in S : Max(S) >= y
<1> DEFINE T == {n - x : x \in S}
<1>1. T \in SUBSET Nat /\ T # {}
  <2>1. \A x \in S : x \in 1 .. n
    OBVIOUS
  <2>2. \A x \in S : n - x \in Nat
    BY <2>1
  <2>3. PICK x \in S : TRUE
    OBVIOUS
  <2>4. n - x \in T
    BY <2>3
  <2> QED
    BY <2>2, <2>4
<1>2. PICK t \in T : \A u \in T : t <= u
  BY <1>1, LeastElement
<1>3. PICK x \in S : t = n - x
  BY <1>2
<1>4. \A y \in S : x >= y
  <2> TAKE y \in S
  <2>1. n - y \in T
    OBVIOUS
  <2> QED
    BY <1>2, <1>3, <2>1
<1> QED
  BY <1>4 DEF Max

\* Keeping the latest R of at most R + 1 numbers trims only numbers below all
\* that are kept, and leaves R of them when there were as many.
LEMMA TrimKeepsLatest ==
  ASSUME NEW S \in SUBSET Nat, IsFiniteSet(S), NEW R \in Nat \ {0}, Cardinality(S) <= R + 1
  PROVE  /\ Latest(S, R) \subseteq S /\ IsFiniteSet(Latest(S, R))
         /\ Cardinality(Latest(S, R)) <= R
         /\ \A i \in S \ Latest(S, R) : \A k \in Latest(S, R) : i < k
         /\ S # Latest(S, R) => Cardinality(Latest(S, R)) >= R
         /\ \A i \in S : Cardinality({j \in S : j > i}) >= R => i \notin Latest(S, R)
<1> DEFINE Above(i) == {j \in S : j > i}
           L == Latest(S, R)
<1>1. \A i \in S : i \in L <=> Cardinality(Above(i)) < R
  BY DEF Latest
<1>2. L \subseteq S /\ IsFiniteSet(L)
  BY FS_Subset DEF Latest
<1>3. \A i \in S : IsFiniteSet(Above(i)) /\ Cardinality(Above(i)) \in Nat
  BY FS_Subset, FS_CardinalityType
<1> HIDE DEF L
<1>4. \A i \in S \ L : \A k \in L : i < k
  <2> SUFFICES ASSUME NEW i \in S \ L, NEW k \in L, ~(i < k) PROVE FALSE
    OBVIOUS
  <2>1. Above(i) \subseteq Above(k)
    <3> SUFFICES ASSUME NEW j \in Above(i) PROVE j \in Above(k)
      OBVIOUS
    <3>1. j \in S /\ j > i
      OBVIOUS
    <3>2. j \in Nat /\ i \in Nat /\ k \in Nat /\ k <= i
      BY <1>2, <3>1
    <3> QED
      BY <3>1, <3>2
  <2>2. Cardinality(Above(i)) <= Cardinality(Above(k))
    BY <2>1, <1>2, <1>3, FS_Subset
  <2> QED
    BY <2>2, <1>1, <1>2, <1>3
<1>5. ASSUME NEW i \in S \ L PROVE Cardinality(L) >= R /\ Above(i) \subseteq L
  <2>1. ASSUME NEW k \in Above(i) PROVE k \in L
    <3>1. Above(k) \subseteq (S \ {i}) \ {k}
      BY <2>1
    <3>2. /\ IsFiniteSet((S \ {i}) \ {k})
          /\ Cardinality((S \ {i}) \ {k}) = Cardinality(S) - 2
      <4>1. IsFiniteSet(S \ {i}) /\ Cardinality(S \ {i}) = Cardinality(S) - 1
        BY FS_RemoveElement
      <4>2. k \in S \ {i}
        BY <2>1
      <4>3. /\ IsFiniteSet((S \ {i}) \ {k})
            /\ Cardinality((S \ {i}) \ {k}) = Cardinality(S \ {i}) - 1
        BY <4>1, <4>2, FS_RemoveElement
      <4> QED
        BY <4>1, <4>3, FS_CardinalityType
    <3>3. Cardinality(Above(k)) <= Cardinality(S) - 2
      BY <3>1, <3>2, FS_Subset
    <3>4. Cardinality(S) \in Nat /\ k \in S
      BY <2>1, FS_CardinalityType
    <3> QED
      BY <3>3, <3>4, <1>1, <1>3
  <2>2. Above(i) \subseteq L
    BY <2>1
  <2>3. Cardinality(Above(i)) <= Cardinality(L)
    BY <2>2, <1>2, FS_Subset
  <2>4. Cardinality(L) \in Nat /\ Cardinality(Above(i)) >= R
    BY <1>1, <1>2, <1>3, FS_CardinalityType
  <2> QED
    BY <2>2, <2>3, <2>4, <1>3
<1>6. Cardinality(L) <= R
  <2>1. CASE Cardinality(S) <= R
    <3>1. Cardinality(L) <= Cardinality(S) /\ Cardinality(L) \in Nat /\ Cardinality(S) \in Nat
      BY <1>2, FS_Subset, FS_CardinalityType
    <3> QED
      BY <2>1, <3>1
  <2>2. CASE ~(Cardinality(S) <= R)
    <3>1. Cardinality(S) = R + 1 /\ S # {}
      BY <2>2, FS_CardinalityType, FS_EmptySet
    <3>2. PICK m \in S : \A y \in S : m <= y
      BY <3>1, LeastElement
    <3>3. Above(m) = S \ {m}
      <4>1. \A y \in S : y \in Nat /\ m \in Nat /\ m <= y
        BY <3>2
      <4>2. \A y \in S : y > m <=> y # m
        BY <4>1
      <4> QED
        BY <4>2
    <3>4. Cardinality(Above(m)) = R
      BY <3>1, <3>3, FS_RemoveElement
    <3>5. m \notin L
      BY <3>4, <1>1
    <3>6. L \subseteq S \ {m}
      BY <3>5, <1>2
    <3>7. IsFiniteSet(S \ {m}) /\ Cardinality(S \ {m}) = R
      BY <3>1, FS_RemoveElement
    <3> QED
      BY <3>6, <3>7, FS_Subset
  <2> QED
    BY <2>1, <2>2
<1>7. \A i \in S : Cardinality(Above(i)) >= R => i \notin L
  BY <1>1, <1>3
<1>8. S # L => Cardinality(L) >= R
  BY <1>2, <1>5
<1> QED
  BY <1>2, <1>4, <1>6, <1>7, <1>8 DEF L

---------------------------------------------------------------------------
(* The replay log                                                          *)

Calls(n) == [pc : {"numbered", "logged"}, seq : 1 .. n]

\* A number is on its way when its call is, and calls change as they should.
LEMMA UnloggedCalls ==
  ASSUME NEW n \in Nat, NEW calls \in SUBSET Calls(n)
  PROVE  /\ \A p : p \in Unlogged(calls) <=> [pc |-> "numbered", seq |-> p] \in calls
         /\ Unlogged(calls) \subseteq 1 .. n
         /\ \A e \in calls : e.pc = "numbered" =>
              /\ e.seq \in Unlogged(calls)
              /\ Unlogged(calls \ {e}) = Unlogged(calls) \ {e.seq}
              /\ Unlogged((calls \ {e}) \cup {[e EXCEPT !.pc = "logged"]}) = Unlogged(calls) \ {e.seq}
              /\ {f.seq : f \in {g \in calls : g.pc = "numbered" /\ g.seq < e.seq}} =
                   {p \in Unlogged(calls) : p < e.seq}
         /\ \A e \in calls : e.pc = "logged" => Unlogged(calls \ {e}) = Unlogged(calls)
         /\ (\A e \in calls : e.pc # "numbered") => Unlogged(calls) = {}
<1>1. \A e \in calls : e \in Calls(n)
  OBVIOUS
<1>2. \A e \in Calls(n) : e.seq \in 1 .. n /\ (e.pc = "numbered" => e = [pc |-> "numbered", seq |-> e.seq])
  BY DEF Calls
<1>3. \A p : p \in Unlogged(calls) <=> [pc |-> "numbered", seq |-> p] \in calls
  BY <1>1, <1>2 DEF Unlogged
<1>4. Unlogged(calls) \subseteq 1 .. n
  BY <1>1, <1>2 DEF Unlogged
<1>5. ASSUME NEW e \in calls, e.pc = "numbered"
      PROVE  /\ e.seq \in Unlogged(calls)
             /\ Unlogged(calls \ {e}) = Unlogged(calls) \ {e.seq}
             /\ Unlogged((calls \ {e}) \cup {[e EXCEPT !.pc = "logged"]}) = Unlogged(calls) \ {e.seq}
             /\ {f.seq : f \in {g \in calls : g.pc = "numbered" /\ g.seq < e.seq}} =
                  {p \in Unlogged(calls) : p < e.seq}
  <2>1. e.seq \in Unlogged(calls)
    BY <1>5 DEF Unlogged
  <2>2. \A f \in calls : f.pc = "numbered" /\ f # e => f.seq # e.seq
    BY <1>1, <1>2, <1>5
  <2>3. Unlogged(calls \ {e}) = Unlogged(calls) \ {e.seq}
    BY <2>2, <1>5 DEF Unlogged
  <2>4. [e EXCEPT !.pc = "logged"].pc # "numbered"
    BY <1>1 DEF Calls
  <2>5. Unlogged((calls \ {e}) \cup {[e EXCEPT !.pc = "logged"]}) = Unlogged(calls \ {e})
    BY <2>4 DEF Unlogged
  <2>6. {f.seq : f \in {g \in calls : g.pc = "numbered" /\ g.seq < e.seq}} =
          {p \in Unlogged(calls) : p < e.seq}
    BY DEF Unlogged
  <2> QED
    BY <2>1, <2>3, <2>5, <2>6
<1>6. \A e \in calls : e.pc = "logged" => Unlogged(calls \ {e}) = Unlogged(calls)
  BY DEF Unlogged
<1>7. (\A e \in calls : e.pc # "numbered") => Unlogged(calls) = {}
  BY DEF Unlogged
<1> QED
  BY <1>3, <1>4, <1>5, <1>6, <1>7

\* The next number is above everything in the log.
LEMMA LogAfterNumber ==
  ASSUME NEW n \in Nat, NEW entries \in SUBSET (1 .. n), NEW calls \in SUBSET Calls(n),
         NEW gone, LogOK(entries, calls, n, gone)
  PROVE  LogOK(entries, calls \cup {[pc |-> "numbered", seq |-> n + 1]}, n + 1, gone)
<1> DEFINE after == calls \cup {[pc |-> "numbered", seq |-> n + 1]}
<1>1. Unlogged(after) = Unlogged(calls) \cup {n + 1}
  <2> DEFINE new == [pc |-> "numbered", seq |-> n + 1]
  <2>1. new.pc = "numbered" /\ new.seq = n + 1
    OBVIOUS
  <2>2. after = calls \cup {new}
    OBVIOUS
  <2> HIDE DEF new, after
  <2>3. \A p : p \in Unlogged(after) <=> \E e \in after : e.pc = "numbered" /\ p = e.seq
    BY DEF Unlogged
  <2>4. \A p : p \in Unlogged(calls) <=> \E e \in calls : e.pc = "numbered" /\ p = e.seq
    BY DEF Unlogged
  <2>5. \A p : p \in Unlogged(after) <=> p \in Unlogged(calls) \/ p = n + 1
    BY <2>1, <2>2, <2>3, <2>4
  <2> QED
    BY <2>5
<1>2. Unlogged(calls) \subseteq 1 .. n
  BY UnloggedCalls
<1> HIDE DEF after
<1>3. \A p \in Unlogged(after), k \in entries : p < k => p \in gone
  <2> SUFFICES ASSUME NEW p \in Unlogged(after), NEW k \in entries, p < k PROVE p \in gone
    OBVIOUS
  <2>1. k \in 1 .. n
    OBVIOUS
  <2>2. p \in Unlogged(calls)
    BY <1>1, <2>1
  <2> QED
    BY <2>2 DEF LogOK
<1>4. ASSUME NEW i \in 1 .. n + 1
      PROVE  \/ i \in entries \/ i \in gone \/ i \in Unlogged(after)
             \/ /\ \A k \in entries : i < k
                /\ Cardinality(entries) >= ReplayMax \/ \A p \in Unlogged(after) : i < p
  <2>1. CASE i = n + 1
    BY <2>1, <1>1
  <2>2. CASE i \in 1 .. n
    <3>1. i < n + 1
      BY <2>2
    <3> QED
      BY <2>2, <3>1, <1>1 DEF LogOK
  <2> QED
    BY <2>1, <2>2
<1> QED
  BY <1>3, <1>4 DEF LogOK, after

\* A number that comes to the log after a later one is gone, and so are those
\* it overtakes; what is trimmed is below all that is kept.
LEMMA LogAfterAppend ==
  ASSUME NEW n \in Nat, NEW entries \in SUBSET (1 .. n), NEW calls \in SUBSET Calls(n),
         NEW gone, LogOK(entries, calls, n, gone), NEW e \in calls, e.pc = "numbered"
  PROVE  /\ LogOK(Latest(entries \cup {e.seq}, ReplayMax),
                  (calls \ {e}) \cup {[e EXCEPT !.pc = "logged"]}, n,
                  gone \cup {f.seq : f \in {g \in calls : g.pc = "numbered" /\ g.seq < e.seq}})
         /\ Latest(entries \cup {e.seq}, ReplayMax) \subseteq 1 .. n
<1> DEFINE q == e.seq
           S == entries \cup {q}
           L == Latest(S, ReplayMax)
           U == Unlogged(calls)
           after == (calls \ {e}) \cup {[e EXCEPT !.pc = "logged"]}
           lost == gone \cup {p \in U : p < q}
<1>1. /\ q \in U /\ U \subseteq 1 .. n /\ Unlogged(after) = U \ {q}
      /\ {f.seq : f \in {g \in calls : g.pc = "numbered" /\ g.seq < q}} = {p \in U : p < q}
  BY UnloggedCalls
<1>2. /\ IsFiniteSet(entries) /\ Cardinality(entries) <= ReplayMax /\ Cardinality(entries) \in Nat
      /\ ReplayMax \in Nat \ {0} /\ q \in 1 .. n
      /\ \A p \in U, k \in entries : p < k => p \in gone
      /\ \A i \in 1 .. n :
           \/ i \in entries \/ i \in gone \/ i \in U
           \/ /\ \A k \in entries : i < k
              /\ Cardinality(entries) >= ReplayMax \/ \A p \in U : i < p
  BY <1>1, FS_CardinalityType, ChannelAssumption DEF LogOK
<1> HIDE DEF U, after, q
<1>3. /\ IsFiniteSet(S) /\ Cardinality(S) \in Nat /\ S \subseteq 1 .. n
      /\ Cardinality(S) = IF q \in entries THEN Cardinality(entries) ELSE Cardinality(entries) + 1
  BY <1>2, FS_AddElement, FS_CardinalityType
<1>4. S \in SUBSET Nat /\ Cardinality(S) <= ReplayMax + 1
  BY <1>2, <1>3
<1> HIDE DEF S
<1>5. /\ L \subseteq S /\ IsFiniteSet(L) /\ Cardinality(L) <= ReplayMax
      /\ \A i \in S \ L : \A k \in L : i < k
      /\ S # L => Cardinality(L) >= ReplayMax
      /\ \A i \in S : Cardinality({j \in S : j > i}) >= ReplayMax => i \notin L
  BY <1>2, <1>3, <1>4, TrimKeepsLatest
<1> HIDE DEF L
<1>6. Cardinality(S) >= ReplayMax => Cardinality(L) >= ReplayMax
  BY <1>5
<1>7. \A p \in U \ {q}, k \in L : p < k => p \in lost
  BY <1>2, <1>5 DEF S
<1>8. ASSUME NEW i \in 1 .. n
      PROVE  \/ i \in L \/ i \in lost \/ i \in U \ {q}
             \/ /\ \A k \in L : i < k
                /\ Cardinality(L) >= ReplayMax \/ \A p \in U \ {q} : i < p
  <2>1. CASE i \in S
    BY <2>1, <1>5
  <2>2. CASE i \notin S /\ (i \in gone \/ i \in U)
    BY <2>2 DEF S
  <2>3. CASE i \notin S /\ i \notin gone /\ i \notin U
    <3>1. /\ \A k \in entries : i < k
          /\ Cardinality(entries) >= ReplayMax \/ \A p \in U : i < p
      BY <2>3, <1>2 DEF S
    <3>2. i # q
      BY <2>3 DEF S
    <3>3. CASE \A p \in U : i < p
      <4>1. \A k \in S : i < k
        BY <3>1, <3>3, <1>1 DEF S
      <4> QED
        BY <4>1, <3>3, <1>5
    <3>4. CASE Cardinality(entries) >= ReplayMax /\ q < i
      <4>1. q \notin entries
        BY <3>1, <3>4, <1>2
      <4>2. {j \in S : j > q} = entries
        <5>1. \A k \in entries : k \in 1 .. n /\ k > q
          BY <3>1, <3>4, <1>2
        <5>2. ~(q > q)
          BY <1>2
        <5> QED
          BY <5>1, <5>2 DEF S
      <4>3. q \notin L
        BY <4>2, <3>4, <1>5 DEF S
      <4>4. \A k \in L : i < k
        BY <4>3, <3>1, <1>5 DEF S
      <4>5. Cardinality(L) >= ReplayMax
        BY <3>4, <4>1, <1>2, <1>3, <1>6
      <4> QED
        BY <4>4, <4>5
    <3>5. CASE Cardinality(entries) >= ReplayMax /\ i < q
      <4>1. \A k \in S : i < k
        BY <3>1, <3>5 DEF S
      <4>2. Cardinality(S) >= ReplayMax
        BY <3>5, <1>2, <1>3
      <4> QED
        BY <4>1, <4>2, <1>5, <1>6
    <3>6. q < i \/ i < q
      BY <3>2, <1>2
    <3> QED
      BY <3>1, <3>3, <3>4, <3>5, <3>6
  <2> QED
    BY <2>1, <2>2, <2>3
<1>9. LogOK(L, after, n, lost)
  BY <1>1, <1>5, <1>7, <1>8 DEF LogOK
<1> QED
  BY <1>1, <1>3, <1>5, <1>9 DEF L, S, q, after

\* A call that is over, or fails, leaves the log whole: what it had not
\* appended is gone.
LEMMA LogAfterCall ==
  ASSUME NEW n \in Nat, NEW entries \in SUBSET (1 .. n), NEW calls \in SUBSET Calls(n),
         NEW gone, LogOK(entries, calls, n, gone), NEW e \in calls
  PROVE  /\ e.pc = "logged" => LogOK(entries, calls \ {e}, n, gone)
         /\ e.pc = "numbered" => LogOK(entries, calls \ {e}, n, gone \cup {e.seq})
<1>1. CASE e.pc = "logged"
  <2>1. Unlogged(calls \ {e}) = Unlogged(calls)
    BY <1>1, UnloggedCalls
  <2> QED
    BY <1>1, <2>1 DEF LogOK
<1>2. CASE e.pc = "numbered"
  <2>1. Unlogged(calls \ {e}) = Unlogged(calls) \ {e.seq}
    BY <1>2, UnloggedCalls
  <2> QED
    BY <1>2, <2>1 DEF LogOK
<1> QED
  BY <1>1, <1>2

\* When the log expires nothing is on its way, so nothing is missing.
LEMMA LogAfterExpiry ==
  ASSUME NEW n \in Nat, NEW calls \in SUBSET Calls(n), NEW gone,
         \A e \in calls : e.pc # "numbered"
  PROVE  LogOK({}, calls, n, gone)
<1>1. Unlogged(calls) = {}
  BY UnloggedCalls
<1>2. IsFiniteSet({}) /\ Cardinality({}) = 0
  BY FS_EmptySet
<1> QED
  BY <1>1, <1>2, ChannelAssumption DEF LogOK

\* What is read from the log is contiguous.
LEMMA LogIsContiguous ==
  ASSUME NEW n \in Nat, NEW entries \in SUBSET (1 .. n), NEW calls, NEW gone,
         LogOK(entries, calls, n, gone), NEW since \in Nat
  PROVE  Contiguous({k \in entries : k > since}, gone)
<1> SUFFICES ASSUME NEW a \in entries, NEW b \in entries, a > since, b > since,
                    NEW i \in a .. b, i \notin gone
             PROVE  i \in entries /\ i > since
  BY DEF Contiguous
<1>1. a \in 1 .. n /\ b \in 1 .. n /\ i \in 1 .. n /\ a <= i /\ i <= b
  OBVIOUS
<1>2. i > since
  BY <1>1
<1>3. ~(\A k \in entries : i < k)
  BY <1>1
<1>4. i \in Unlogged(calls) => i = b
  BY <1>1 DEF LogOK
<1> QED
  BY <1>1, <1>2, <1>3, <1>4 DEF LogOK

---------------------------------------------------------------------------
(* Messages and handlers                                                   *)

\* What is good stays good while numbers are given out and frames are lost.
LEMMA GoodGrows ==
  ASSUME NEW n \in Nat, NEW m \in Nat, n <= m, NEW gone, NEW more, gone \subseteq more
  PROVE  /\ 1 .. n \subseteq 1 .. m
         /\ GoodHandlers(n, gone) \subseteq GoodHandlers(m, more)
         /\ GoodMessages(n, gone) \subseteq GoodMessages(m, more)
<1>1. 1 .. n \subseteq 1 .. m
  OBVIOUS
<1>2. \A F : Contiguous(F, gone) => Contiguous(F, more)
  BY DEF Contiguous
<1>3. GoodHandlers(n, gone) \subseteq GoodHandlers(m, more)
  <2> SUFFICES ASSUME NEW h \in GoodHandlers(n, gone) PROVE h \in GoodHandlers(m, more)
    OBVIOUS
  <2>1. h \in Handlers /\ (h.pc = "send" => h.head <= n) /\ h.frames \subseteq 1 .. n
    BY DEF GoodHandlers
  <2>2. h.head \in Nat
    BY <2>1 DEF Handlers
  <2>3. (h.pc = "send" => h.head <= m) /\ h.frames \subseteq 1 .. m
    BY <1>1, <2>1, <2>2
  <2> QED
    BY <1>2, <2>1, <2>3 DEF GoodHandlers
<1>4. GoodMessages(n, gone) \subseteq GoodMessages(m, more)
  <2> SUFFICES ASSUME NEW h \in GoodMessages(n, gone) PROVE h \in GoodMessages(m, more)
    OBVIOUS
  <2>1. h \in Messages /\ h.head <= n /\ h.frames \subseteq 1 .. n /\ (h.kind = "frame" => h.head >= 1)
    BY DEF GoodMessages
  <2>2. h.head \in Nat
    BY <2>1 DEF Messages
  <2>3. h.head <= m /\ h.frames \subseteq 1 .. m
    BY <1>1, <2>1, <2>2
  <2> QED
    BY <1>2, <2>1, <2>3 DEF GoodMessages
<1> QED
  BY <1>1, <1>3, <1>4

\* Queues of good things are queues of their type.
LEMMA GoodIsTyped ==
  ASSUME NEW n, NEW gone
  PROVE  /\ \A f \in [Client -> SUBSET GoodHandlers(n, gone)] : f \in [Client -> SUBSET Handlers]
         /\ \A f \in [Client -> Seq(GoodMessages(n, gone))] : f \in [Client -> Seq(Messages)]
<1>1. GoodHandlers(n, gone) \subseteq Handlers /\ GoodMessages(n, gone) \subseteq Messages
  BY DEF GoodHandlers, GoodMessages
<1>2. \A s \in Seq(GoodMessages(n, gone)) : s \in Seq(Messages)
  BY <1>1, SeqMonotonic
<1> QED
  BY <1>1, <1>2

\* A queue of one kind, lengthened and shortened.
LEMMA Queues ==
  ASSUME NEW S, NEW f \in [Client -> Seq(S)], NEW c \in Client
  PROVE  /\ \A x \in S : [f EXCEPT ![c] = Append(@, x)] \in [Client -> Seq(S)]
         /\ f[c] # <<>> => Head(f[c]) \in S /\ [f EXCEPT ![c] = Tail(@)] \in [Client -> Seq(S)]
         /\ [f EXCEPT ![c] = <<>>] \in [Client -> Seq(S)]
<1>1. \A x \in S : Append(f[c], x) \in Seq(S)
  OBVIOUS
<1>2. f[c] # <<>> => Head(f[c]) \in S /\ Tail(f[c]) \in Seq(S)
  OBVIOUS
<1>3. <<>> \in Seq(S)
  OBVIOUS
<1> QED
  BY <1>1, <1>2, <1>3

\* What is spent stays a number.
LEMMA SpendKeepsType ==
  ASSUME TypeOK, NEW kind \in {"frames", "faults"}, NEW max, Spend(kind, max)
  PROVE  used' \in [{"frames", "faults"} -> Nat]
  BY DEF TypeOK, Spend

---------------------------------------------------------------------------
(* Steps of emit() and Redis                                               *)

\* A step of the backend towards the log leaves the rest as it is; numbers
\* and losses only grow.
LEMMA BackendStep ==
  ASSUME ChannelInv, counter' \in Nat, counter <= counter', overtaken \subseteq overtaken',
         overtaken' \subseteq 1 .. counter', log' \subseteq 1 .. counter', pub' \subseteq 1 .. counter',
         emit' \subseteq Calls(counter'), LogOK(log', emit', counter', overtaken'),
         feed' \in [Client -> Seq(1 .. counter')],
         UNCHANGED <<room, handling, inbox, link, lastSeq, shown, misled, refused>>,
         used' \in [{"frames", "faults"} -> Nat]
  PROVE  ChannelInv'
<1>1. counter \in Nat /\ TypeOK
  BY DEF ChannelInv, TypeOK
<1>2. /\ 1 .. counter \subseteq 1 .. counter'
      /\ GoodHandlers(counter, overtaken) \subseteq GoodHandlers(counter', overtaken')
      /\ GoodMessages(counter, overtaken) \subseteq GoodMessages(counter', overtaken')
  BY <1>1, GoodGrows
<1>3. handling' \in [Client -> SUBSET GoodHandlers(counter', overtaken')]
  BY <1>2 DEF ChannelInv
<1>4. inbox' \in [Client -> Seq(GoodMessages(counter', overtaken'))]
  <2>1. inbox \in [Client -> Seq(GoodMessages(counter, overtaken))]
    BY DEF ChannelInv
  <2>2. \A s \in Seq(GoodMessages(counter, overtaken)) : s \in Seq(GoodMessages(counter', overtaken'))
    BY <1>2, SeqMonotonic
  <2> QED
    BY <2>1, <2>2
<1>5. shown' \in [Client -> SUBSET (1 .. counter')]
  BY <1>1, <1>2 DEF TypeOK
<1>6. TypeOK'
  BY <1>1, <1>3, <1>4, <1>5 DEF TypeOK, Calls
<1> QED
  BY <1>3, <1>4, <1>6 DEF ChannelInv

\* The parts of the invariant the steps of the backend start from.
LEMMA BackendParts ==
  ASSUME ChannelInv
  PROVE  /\ counter \in Nat /\ log \in SUBSET (1 .. counter) /\ pub \in SUBSET (1 .. counter)
         /\ emit \in SUBSET Calls(counter) /\ overtaken \in SUBSET (1 .. counter)
         /\ feed \in [Client -> Seq(1 .. counter)]
         /\ used \in [{"frames", "faults"} -> Nat]
         /\ LogOK(log, emit, counter, overtaken) /\ TypeOK
  BY DEF ChannelInv, TypeOK, Calls

LEMMA NumberKeepsInv == ASSUME ChannelInv, Number PROVE ChannelInv'
<1> DEFINE new == [pc |-> "numbered", seq |-> counter + 1]
<1>1. /\ counter' = counter + 1 /\ emit' = emit \cup {new}
      /\ UNCHANGED <<log, pub, feed, room, handling, inbox, link, lastSeq, shown, overtaken,
                     misled, refused>>
  BY DEF Number, gateway
<1>2. counter' \in Nat /\ counter <= counter' /\ 1 .. counter \subseteq 1 .. counter'
  BY <1>1, BackendParts
<1>3. emit' \subseteq Calls(counter')
  <2>1. new \in Calls(counter')
    BY <1>1, BackendParts DEF Calls
  <2>2. Calls(counter) \subseteq Calls(counter')
    BY <1>2 DEF Calls
  <2> QED
    BY <1>1, <2>1, <2>2, BackendParts
<1>4. LogOK(log', emit', counter', overtaken')
  BY <1>1, BackendParts, LogAfterNumber
<1>5. feed' \in [Client -> Seq(1 .. counter')]
  <2>1. \A s \in Seq(1 .. counter) : s \in Seq(1 .. counter')
    BY <1>2, SeqMonotonic
  <2> QED
    BY <1>1, <2>1, BackendParts
<1>6. used' \in [{"frames", "faults"} -> Nat]
  BY BackendParts, SpendKeepsType DEF Number
<1>7. log' \subseteq 1 .. counter' /\ pub' \subseteq 1 .. counter' /\ overtaken' \subseteq 1 .. counter'
  BY <1>1, <1>2, BackendParts
<1> QED
  BY <1>1, <1>2, <1>3, <1>4, <1>5, <1>6, <1>7, BackendStep

LEMMA AppendKeepsInv == ASSUME ChannelInv, NEW e \in emit, AppendToLog(e) PROVE ChannelInv'
<1> DEFINE lost == {f.seq : f \in {g \in emit : g.pc = "numbered" /\ g.seq < e.seq}}
           moved == [e EXCEPT !.pc = "logged"]
           kept == Latest(log \cup {e.seq}, ReplayMax)
<1>1. e.pc = "numbered"
  BY DEF AppendToLog
<1>2. /\ log' = kept /\ emit' = (emit \ {e}) \cup {moved} /\ overtaken' = overtaken \cup lost
      /\ UNCHANGED <<counter, pub, feed, room, handling, inbox, link, lastSeq, shown, misled,
                     refused, used>>
  BY DEF AppendToLog, gateway
<1>3. /\ LogOK(kept, (emit \ {e}) \cup {moved}, counter, overtaken \cup lost)
      /\ kept \subseteq 1 .. counter
  BY <1>1, BackendParts, LogAfterAppend
<1>4. moved \in Calls(counter) /\ (emit \ {e}) \cup {moved} \subseteq Calls(counter)
  BY BackendParts DEF Calls
<1>5. lost \subseteq 1 .. counter
  BY BackendParts DEF Calls
<1> HIDE DEF lost, moved, kept
<1>6. /\ counter' \in Nat /\ counter <= counter' /\ overtaken \subseteq overtaken'
      /\ overtaken' \subseteq 1 .. counter' /\ log' \subseteq 1 .. counter'
      /\ pub' \subseteq 1 .. counter'
  <2>1. /\ counter \in Nat /\ overtaken \subseteq 1 .. counter /\ pub \subseteq 1 .. counter
    BY BackendParts
  <2>2. counter' = counter /\ pub' = pub /\ overtaken' = overtaken \cup lost /\ log' = kept
    BY <1>2
  <2>3. overtaken' \subseteq 1 .. counter'
    BY <1>5, <2>1, <2>2
  <2>4. log' \subseteq 1 .. counter'
    BY <1>3, <2>2
  <2> QED
    BY <2>1, <2>2, <2>3, <2>4
<1>7. emit' \subseteq Calls(counter') /\ LogOK(log', emit', counter', overtaken')
  BY <1>2, <1>3, <1>4
<1>8. feed' \in [Client -> Seq(1 .. counter')] /\ used' \in [{"frames", "faults"} -> Nat]
  BY <1>2, BackendParts
<1> QED
  BY <1>2, <1>6, <1>7, <1>8, BackendStep

LEMMA PublishKeepsInv == ASSUME ChannelInv, NEW e \in emit, Publish(e) PROVE ChannelInv'
<1>1. /\ e.pc = "logged" /\ pub' = pub \cup {e.seq} /\ feed' = FanOut(e.seq) /\ emit' = emit \ {e}
      /\ UNCHANGED <<counter, log, room, handling, inbox, link, lastSeq, shown, overtaken, misled,
                     refused, used>>
  BY DEF Publish
<1>2. e.seq \in 1 .. counter
  BY BackendParts DEF Calls
<1>3. LogOK(log', emit', counter', overtaken')
  BY <1>1, BackendParts, LogAfterCall
<1>4. feed' \in [Client -> Seq(1 .. counter)]
  <2>1. \A c \in Client : Append(feed[c], e.seq) \in Seq(1 .. counter)
    <3> TAKE c \in Client
    <3>1. feed[c] \in Seq(1 .. counter)
      BY BackendParts
    <3> HIDE DEF FanOut
    <3> QED
      BY <1>2, <3>1
  <2> QED
    BY <1>1, <2>1 DEF FanOut
<1> QED
  BY <1>1, <1>2, <1>3, <1>4, BackendParts, BackendStep

LEMMA EmitFailsKeepsInv == ASSUME ChannelInv, NEW e \in emit, EmitFails(e) PROVE ChannelInv'
<1>1. /\ emit' = emit \ {e}
      /\ overtaken' = IF e.pc = "numbered" THEN overtaken \cup {e.seq} ELSE overtaken
      /\ UNCHANGED <<counter, log, pub, feed, room, handling, inbox, link, lastSeq, shown, misled,
                     refused>>
  BY DEF EmitFails, redis, gateway
<1>2. e.seq \in 1 .. counter /\ e.pc \in {"numbered", "logged"}
  BY BackendParts DEF Calls
<1>3. LogOK(log', emit', counter', overtaken')
  BY <1>1, <1>2, BackendParts, LogAfterCall
<1>4. used' \in [{"frames", "faults"} -> Nat]
  BY BackendParts, SpendKeepsType DEF EmitFails, Fault
<1> QED
  BY <1>1, <1>2, <1>3, <1>4, BackendParts, BackendStep

LEMMA ExpireKeepsInv == ASSUME ChannelInv, ExpireLog PROVE ChannelInv'
<1>1. /\ log' = {} /\ \A e \in emit : e.pc # "numbered"
      /\ UNCHANGED <<counter, pub, emit, feed, room, handling, inbox, link, lastSeq, shown,
                     overtaken, misled, refused, used>>
  BY DEF ExpireLog, gateway
<1>2. LogOK(log', emit', counter', overtaken')
  BY <1>1, BackendParts, LogAfterExpiry
<1> QED
  BY <1>1, <1>2, BackendParts, BackendStep

\* After a flush nothing is numbered and nothing is under way.
LEMMA FlushKeepsInv == ASSUME ChannelInv, FlushRedis PROVE ChannelInv'
<1>1. /\ counter' = 0 /\ log' = {} /\ pub' = {} /\ overtaken' = {} /\ emit' = {}
      /\ emit = {} /\ shown' = [c \in Client |-> {}]
      /\ misled' = [c \in Client |-> lastSeq[StoreOf[c]]]
      /\ \A c \in Client : feed[c] = <<>> /\ inbox[c] = <<>> /\ handling[c] = {}
      /\ UNCHANGED <<feed, room, handling, inbox, link, lastSeq, refused>>
  BY DEF FlushRedis, gateway
<1>2. /\ handling' \in [Client -> SUBSET GoodHandlers(0, {})]
      /\ inbox' \in [Client -> Seq(GoodMessages(0, {}))]
      /\ feed' \in [Client -> Seq(1 .. 0)]
  <2>1. /\ handling \in [Client -> SUBSET Handlers] /\ inbox \in [Client -> Seq(Messages)]
        /\ feed \in [Client -> Seq(1 .. counter)]
    BY DEF ChannelInv, TypeOK
  <2>2. /\ handling = [c \in Client |-> {}] /\ inbox = [c \in Client |-> <<>>]
        /\ feed = [c \in Client |-> <<>>]
    BY <1>1, <2>1
  <2>3. \A S : <<>> \in Seq(S)
    OBVIOUS
  <2> QED
    BY <1>1, <2>2, <2>3
<1>3. LogOK({}, {}, 0, {})
  BY LogAfterExpiry DEF Calls
<1>4. misled' \in [Client -> Nat]
  BY <1>1, ChannelAssumption DEF ChannelInv, TypeOK
<1>5. used' \in [{"frames", "faults"} -> Nat]
  BY BackendParts, SpendKeepsType DEF FlushRedis, Fault
<1>6. TypeOK'
  <2>1. handling' \in [Client -> SUBSET Handlers] /\ inbox' \in [Client -> Seq(Messages)]
    BY <1>2, GoodIsTyped
  <2> QED
    BY <1>1, <1>2, <1>4, <1>5, <2>1 DEF ChannelInv, TypeOK
<1> QED
  BY <1>1, <1>2, <1>3, <1>6 DEF ChannelInv

---------------------------------------------------------------------------
(* Steps of the gateway and of the clients                                 *)

\* A step of the gateway or of a client leaves Redis and emit() as they are.
LEMMA ClientStep ==
  ASSUME ChannelInv, UNCHANGED <<counter, log, pub, emit, overtaken>>,
         feed' \in [Client -> Seq(1 .. counter)],
         room' \subseteq {c \in Client : link'[c] = "on"}, link' \in [Client -> {"off", "on"}],
         handling' \in [Client -> SUBSET GoodHandlers(counter, overtaken)],
         inbox' \in [Client -> Seq(GoodMessages(counter, overtaken))],
         lastSeq' \in [Store -> Nat], shown' \in [Client -> SUBSET (1 .. counter)],
         misled' \in [Client -> Nat], refused' \subseteq Client,
         used' \in [{"frames", "faults"} -> Nat]
  PROVE  ChannelInv'
<1>1. handling' \in [Client -> SUBSET Handlers] /\ inbox' \in [Client -> Seq(Messages)]
  BY GoodIsTyped
<1>2. TypeOK'
  BY <1>1 DEF ChannelInv, TypeOK
<1> QED
  BY <1>2 DEF ChannelInv

\* The parts of the invariant these steps start from.
LEMMA ClientParts ==
  ASSUME ChannelInv
  PROVE  /\ counter \in Nat /\ log \in SUBSET (1 .. counter)
         /\ feed \in [Client -> Seq(1 .. counter)]
         /\ room \subseteq {c \in Client : link[c] = "on"} /\ link \in [Client -> {"off", "on"}]
         /\ handling \in [Client -> SUBSET GoodHandlers(counter, overtaken)]
         /\ inbox \in [Client -> Seq(GoodMessages(counter, overtaken))]
         /\ lastSeq \in [Store -> Nat] /\ shown \in [Client -> SUBSET (1 .. counter)]
         /\ misled \in [Client -> Nat] /\ refused \subseteq Client
         /\ used \in [{"frames", "faults"} -> Nat] /\ TypeOK
         /\ LogOK(log, emit, counter, overtaken)
         /\ \A c \in Client : StoreOf[c] \in Store /\ Position(c) \in Nat
  BY ChannelAssumption DEF ChannelInv, TypeOK, Position

LEMMA RelayKeepsInv == ASSUME ChannelInv, NEW c \in Client, Relay(c) PROVE ChannelInv'
<1> DEFINE seq == Head(feed[c])
           message == [kind |-> "frame", frames |-> {seq}, head |-> seq]
<1>1. /\ feed[c] # <<>> /\ feed' = [feed EXCEPT ![c] = Tail(@)]
      /\ inbox' = [inbox EXCEPT ![c] = Append(@, message)] \/ inbox' = inbox
      /\ UNCHANGED <<counter, log, pub, emit, room, handling, link, lastSeq, shown, overtaken,
                     misled, refused, used>>
  BY DEF Relay, Send, Dispatched, redis
<1>2. seq \in 1 .. counter /\ feed' \in [Client -> Seq(1 .. counter)]
  BY <1>1, ClientParts, Queues
<1>3. message \in GoodMessages(counter, overtaken)
  BY <1>2, ClientParts DEF GoodMessages, Messages, Contiguous
<1> HIDE DEF seq, message
<1>4. inbox' \in [Client -> Seq(GoodMessages(counter, overtaken))]
  <2>1. inbox \in [Client -> Seq(GoodMessages(counter, overtaken))]
    BY ClientParts
  <2>2. [inbox EXCEPT ![c] = Append(@, message)] \in [Client -> Seq(GoodMessages(counter, overtaken))]
    BY <1>3, <2>1, Queues
  <2> QED
    BY <1>1, <2>1, <2>2
<1> QED
  BY <1>1, <1>2, <1>4, ClientParts, ClientStep

LEMMA JoinKeepsInv == ASSUME ChannelInv, NEW c \in Client, Join(c) PROVE ChannelInv'
<1> DEFINE new == [kind |-> "joined", pc |-> "head", since |-> 0, frames |-> {}, head |-> 0]
<1>1. /\ link[c] = "on" /\ room' = room \cup {c}
      /\ handling' = [handling EXCEPT ![c] = @ \cup {new}]
      /\ UNCHANGED <<counter, log, pub, emit, feed, inbox, link, lastSeq, shown, overtaken, misled,
                     refused, used>>
  BY DEF Join, redis
<1>2. new \in GoodHandlers(counter, overtaken)
  BY DEF GoodHandlers, Handlers, Contiguous
<1> HIDE DEF new
<1>3. handling' \in [Client -> SUBSET GoodHandlers(counter, overtaken)]
  BY <1>1, <1>2, ClientParts
<1> QED
  BY <1>1, <1>3, ClientParts, ClientStep

\* A step of one handler.
LEMMA HandlerKeepsInv == ASSUME ChannelInv, NEW c \in Client, Handler(c) PROVE ChannelInv'
<1>1. PICK h \in handling[c] : ReadLog(c, h) \/ ReadHead(c, h) \/ Answer(c, h)
  BY DEF Handler
<1>2. /\ h \in Handlers /\ h.frames \subseteq 1 .. counter /\ Contiguous(h.frames, overtaken)
      /\ h.pc = "send" => h.head <= counter
  BY ClientParts DEF GoodHandlers
<1>3. h.since \in Nat /\ h.head \in Nat /\ h.kind \in {"joined", "result"}
  BY <1>2 DEF Handlers
<1>4. CASE ReadLog(c, h)
  <2> DEFINE frames == {n \in log : n > h.since}
             next == [h EXCEPT !.pc = "head", !.frames = frames]
  <2>1. /\ handling' = [handling EXCEPT ![c] = (@ \ {h}) \cup {next}]
        /\ UNCHANGED <<counter, log, pub, emit, feed, room, inbox, link, lastSeq, shown, overtaken,
                       misled, refused, used>>
    BY <1>4 DEF ReadLog, Step, redis
  <2>2. Contiguous(frames, overtaken) /\ frames \subseteq 1 .. counter
    <3>1. counter \in Nat /\ log \in SUBSET (1 .. counter) /\ LogOK(log, emit, counter, overtaken)
      BY ClientParts
    <3>2. Contiguous(frames, overtaken)
      BY <1>3, <3>1, LogIsContiguous
    <3> QED
      BY <3>1, <3>2
  <2> HIDE DEF frames
  <2>3. next \in Handlers /\ next.pc = "head" /\ next.frames = frames
    <3>1. frames \in SUBSET Nat
      BY <2>2
    <3> QED
      BY <3>1, <1>2 DEF Handlers
  <2>4. next \in GoodHandlers(counter, overtaken)
    BY <2>2, <2>3 DEF GoodHandlers
  <2> HIDE DEF next
  <2>5. handling' \in [Client -> SUBSET GoodHandlers(counter, overtaken)]
    BY <2>1, <2>4, ClientParts
  <2> QED
    BY <2>1, <2>5, ClientParts, ClientStep
<1>5. CASE ReadHead(c, h)
  <2> DEFINE next == [h EXCEPT !.pc = "send", !.head = counter]
  <2>1. /\ handling' = [handling EXCEPT ![c] = (@ \ {h}) \cup {next}]
        /\ UNCHANGED <<counter, log, pub, emit, feed, room, inbox, link, lastSeq, shown, overtaken,
                       misled, refused, used>>
    BY <1>5 DEF ReadHead, Step, redis
  <2>2. next \in Handlers /\ next.head = counter /\ next.frames = h.frames
    <3>1. counter \in Nat
      BY ClientParts
    <3> QED
      BY <1>2, <3>1 DEF Handlers
  <2> HIDE DEF next
  <2>3. next \in GoodHandlers(counter, overtaken)
    <3>1. next.head <= counter
      BY <2>2, ClientParts
    <3>2. next.frames \subseteq 1 .. counter /\ Contiguous(next.frames, overtaken)
      BY <1>2, <2>2
    <3> QED
      BY <2>2, <3>1, <3>2 DEF GoodHandlers
  <2>4. handling' \in [Client -> SUBSET GoodHandlers(counter, overtaken)]
    BY <2>1, <2>3, ClientParts
  <2> QED
    BY <2>1, <2>4, ClientParts, ClientStep
<1>6. CASE Answer(c, h)
  <2> DEFINE message == [kind |-> h.kind, frames |-> h.frames, head |-> h.head]
  <2>1. /\ h.pc = "send" /\ handling' = [handling EXCEPT ![c] = @ \ {h}]
        /\ inbox' = [inbox EXCEPT ![c] = Append(@, message)]
        /\ UNCHANGED <<counter, log, pub, emit, feed, room, link, lastSeq, shown, overtaken,
                       misled, refused, used>>
    BY <1>6 DEF Answer, Send, redis
  <2>2. message \in Messages
    BY <1>2, <1>3 DEF Messages, Handlers
  <2>3. message \in GoodMessages(counter, overtaken)
    BY <1>2, <1>3, <2>1, <2>2 DEF GoodMessages
  <2> HIDE DEF message
  <2>4. handling' \in [Client -> SUBSET GoodHandlers(counter, overtaken)]
    BY <2>1, ClientParts
  <2>5. inbox' \in [Client -> Seq(GoodMessages(counter, overtaken))]
    BY <2>1, <2>3, ClientParts, Queues
  <2> QED
    BY <2>1, <2>4, <2>5, ClientParts, ClientStep
<1> QED
  BY <1>1, <1>4, <1>5, <1>6

LEMMA RefuseKeepsInv == ASSUME ChannelInv, NEW c \in Client, Refuse(c) PROVE ChannelInv'
<1>1. /\ refused' = refused \cup {c}
      /\ handling' = handling \/ \E h \in handling[c] : handling' = [handling EXCEPT ![c] = @ \ {h}]
      /\ UNCHANGED <<counter, log, pub, emit, feed, room, inbox, link, lastSeq, shown, overtaken,
                     misled>>
  BY DEF Refuse, redis
<1>2. handling' \in [Client -> SUBSET GoodHandlers(counter, overtaken)]
  BY <1>1, ClientParts
<1>3. used' \in [{"frames", "faults"} -> Nat]
  BY ClientParts, SpendKeepsType DEF Refuse, Fault
<1> QED
  BY <1>1, <1>2, <1>3, ClientParts, ClientStep

LEMMA ConnectKeepsInv == ASSUME ChannelInv, NEW c \in Client, Connect(c) PROVE ChannelInv'
<1>1. /\ link' = [link EXCEPT ![c] = "on"]
      /\ UNCHANGED <<counter, log, pub, emit, feed, room, handling, inbox, lastSeq, shown,
                     overtaken, misled, refused, used>>
  BY DEF Connect, redis, gateway
<1>2. link' \in [Client -> {"off", "on"}] /\ room' \subseteq {d \in Client : link'[d] = "on"}
  BY <1>1, ClientParts
<1> QED
  BY <1>1, <1>2, ClientParts, ClientStep

LEMMA DropKeepsInv == ASSUME ChannelInv, NEW c \in Client, Drop(c) PROVE ChannelInv'
<1>1. /\ link' = [link EXCEPT ![c] = "off"] /\ room' = room \ {c}
      /\ handling' = [handling EXCEPT ![c] = {}] /\ inbox' = [inbox EXCEPT ![c] = <<>>]
      /\ refused' = refused \ {c}
      /\ UNCHANGED <<counter, log, pub, emit, feed, lastSeq, shown, overtaken, misled>>
  BY DEF Drop, redis
<1>2. link' \in [Client -> {"off", "on"}] /\ room' \subseteq {d \in Client : link'[d] = "on"}
  BY <1>1, ClientParts
<1>3. handling' \in [Client -> SUBSET GoodHandlers(counter, overtaken)]
  BY <1>1, ClientParts
<1>4. inbox' \in [Client -> Seq(GoodMessages(counter, overtaken))]
  BY <1>1, ClientParts, Queues
<1>5. used' \in [{"frames", "faults"} -> Nat]
  BY ClientParts, SpendKeepsType DEF Drop, Fault
<1> QED
  BY <1>1, <1>2, <1>3, <1>4, <1>5, ClientParts, ClientStep

\* What a client does with a message of the backend: nothing, ask for the
\* frames it missed, apply frames, or load the board again.
Outcome(c, frames, n) ==
  \/ UNCHANGED <<handling, lastSeq, shown, misled>>
  \/ RequestSync(c) /\ UNCHANGED <<lastSeq, shown, misled>>
  \/ /\ ApplyInOrder(c, frames) /\ UNCHANGED <<handling, misled>>
     /\ frames = {} \/ \E k \in frames : k <= Position(c) + 1
  \/ Realign(c, n) /\ UNCHANGED handling

\* A message has one of these outcomes, for frames and a number that are good.
LEMMA ReceiveOutcome ==
  ASSUME ChannelInv, NEW c \in Client, Receive(c)
  PROVE  /\ inbox[c] # <<>> /\ inbox' = [inbox EXCEPT ![c] = Tail(@)]
         /\ UNCHANGED <<counter, log, pub, emit, feed, room, link, overtaken, refused, used>>
         /\ \E frames \in SUBSET (1 .. counter), n \in 0 .. counter :
              Contiguous(frames, overtaken) /\ Outcome(c, frames, n)
<1> DEFINE message == Head(inbox[c])
           n == message.head
<1>1. /\ inbox[c] # <<>> /\ inbox' = [inbox EXCEPT ![c] = Tail(@)]
      /\ UNCHANGED <<counter, log, pub, emit, feed, room, link, overtaken, refused, used>>
      /\ \/ message.kind = "frame" /\ HandleIncoming(c, n)
         \/ HandleJoined(c, n)
         \/ HandleResult(c, message.frames, n)
  BY DEF Receive, redis
<1>2. message \in GoodMessages(counter, overtaken) /\ counter \in Nat /\ Position(c) \in Nat
  BY <1>1, ClientParts, Queues
<1>3. /\ n \in Nat /\ n <= counter /\ (message.kind = "frame" => n >= 1)
      /\ message.frames \subseteq 1 .. counter /\ Contiguous(message.frames, overtaken)
  BY <1>2 DEF GoodMessages, Messages
<1> HIDE DEF message
<1>4. n \in 0 .. counter
  BY <1>2, <1>3
<1>5. CASE message.kind = "frame" /\ HandleIncoming(c, n)
  <2>1. {n} \subseteq 1 .. counter /\ Contiguous({n}, overtaken)
    BY <1>2, <1>3, <1>5 DEF Contiguous
  <2>2. Outcome(c, {n}, n)
    BY <1>5 DEF Outcome, HandleIncoming
  <2> QED
    BY <1>1, <1>4, <2>1, <2>2
<1>6. CASE HandleJoined(c, n)
  <2>1. Outcome(c, message.frames, n)
    BY <1>6 DEF Outcome, HandleJoined
  <2> QED
    BY <1>1, <1>3, <1>4, <2>1
<1>7. CASE HandleResult(c, message.frames, n)
  <2>1. message.frames # {} => Min(message.frames) \in message.frames
    BY <1>3, MinIsLeast
  <2>2. ~HasGap(c, message.frames, n) =>
          message.frames = {} \/ \E k \in message.frames : k <= Position(c) + 1
    <3> SUFFICES ASSUME ~HasGap(c, message.frames, n), message.frames # {}
                 PROVE  \E k \in message.frames : k <= Position(c) + 1
      OBVIOUS
    <3>1. ~(Min(message.frames) > Position(c) + 1)
      BY DEF HasGap
    <3>2. Min(message.frames) \in Nat
      BY <1>3, <2>1
    <3> QED
      BY <1>2, <2>1, <3>1, <3>2
  <2>3. Outcome(c, message.frames, n)
    BY <1>7, <2>2 DEF Outcome, HandleResult
  <2> QED
    BY <1>1, <1>3, <1>4, <2>3
<1> QED
  BY <1>1, <1>5, <1>6, <1>7

LEMMA ReceiveKeepsInv == ASSUME ChannelInv, NEW c \in Client, Receive(c) PROVE ChannelInv'
<1>1. /\ inbox[c] # <<>> /\ inbox' = [inbox EXCEPT ![c] = Tail(@)]
      /\ UNCHANGED <<counter, log, pub, emit, feed, room, link, overtaken, refused, used>>
  BY ReceiveOutcome
<1>2. PICK frames \in SUBSET (1 .. counter), n \in 0 .. counter : Outcome(c, frames, n)
  BY ReceiveOutcome
<1>3. inbox' \in [Client -> Seq(GoodMessages(counter, overtaken))]
  BY <1>1, ClientParts, Queues
<1>4. counter \in Nat /\ Position(c) \in Nat /\ StoreOf[c] \in Store
  BY ClientParts
<1>5. /\ handling' \in [Client -> SUBSET GoodHandlers(counter, overtaken)]
      /\ lastSeq' \in [Store -> Nat] /\ shown' \in [Client -> SUBSET (1 .. counter)]
      /\ misled' \in [Client -> Nat]
  <2>1. CASE UNCHANGED <<handling, lastSeq, shown, misled>>
    BY <2>1, ClientParts
  <2>2. CASE RequestSync(c) /\ UNCHANGED <<lastSeq, shown, misled>>
    <3> DEFINE new == [kind |-> "result", pc |-> "log", since |-> Position(c), frames |-> {},
                       head |-> 0]
    <3>1. new \in GoodHandlers(counter, overtaken)
      BY <1>4 DEF GoodHandlers, Handlers, Contiguous
    <3>2. handling' = [handling EXCEPT ![c] = @ \cup {new}]
      BY <2>2 DEF RequestSync
    <3> HIDE DEF new
    <3>3. handling' \in [Client -> SUBSET GoodHandlers(counter, overtaken)]
      BY <3>1, <3>2, ClientParts
    <3> QED
      BY <2>2, <3>3, ClientParts
  <2>3. CASE ApplyInOrder(c, frames) /\ UNCHANGED <<handling, misled>>
    <3> DEFINE fresh == {k \in frames : k > Position(c)}
    <3>1. fresh \in SUBSET (1 .. counter)
      OBVIOUS
    <3>2. \/ UNCHANGED <<lastSeq, shown>>
          \/ /\ fresh # {} /\ lastSeq' = [lastSeq EXCEPT ![StoreOf[c]] = Max(fresh)]
             /\ shown' = [shown EXCEPT ![c] = @ \cup fresh]
      BY <2>3 DEF ApplyInOrder, SetLastSeq
    <3> HIDE DEF fresh
    <3>3. fresh # {} => Max(fresh) \in Nat
      <4>1. ASSUME fresh # {} PROVE Max(fresh) \in Nat
        <5>1. Max(fresh) \in fresh
          BY <1>4, <3>1, <4>1, MaxIsGreatest
        <5>2. Max(fresh) \in 1 .. counter
          BY <3>1, <5>1
        <5> QED
          BY <1>4, <5>2
      <4> QED
        BY <4>1
    <3>4. lastSeq \in [Store -> Nat] /\ shown \in [Client -> SUBSET (1 .. counter)]
      BY ClientParts
    <3>5. lastSeq' \in [Store -> Nat]
      BY <3>2, <3>3, <3>4
    <3>6. shown' \in [Client -> SUBSET (1 .. counter)]
      BY <3>1, <3>2, <3>4
    <3> QED
      BY <2>3, <3>5, <3>6, ClientParts
  <2>4. CASE Realign(c, n) /\ UNCHANGED handling
    BY <2>4, ClientParts DEF Realign, SetLastSeq
  <2> QED
    BY <1>2, <2>1, <2>2, <2>3, <2>4 DEF Outcome
<1> QED
  BY <1>1, <1>3, <1>5, ClientParts, ClientStep

---------------------------------------------------------------------------
(* The invariant                                                           *)

\* At first nothing is numbered, on its way or known.
LEMMA InitInv == Init => ChannelInv
<1> SUFFICES ASSUME Init PROVE ChannelInv
  OBVIOUS
<1>1. LogOK({}, {}, 0, {})
  BY LogAfterExpiry DEF Calls
<1>2. \A S : <<>> \in Seq(S)
  OBVIOUS
<1>3. /\ handling \in [Client -> SUBSET GoodHandlers(0, {})]
      /\ inbox \in [Client -> Seq(GoodMessages(0, {}))]
      /\ feed \in [Client -> Seq(1 .. 0)]
  BY <1>2 DEF Init
<1>4. handling \in [Client -> SUBSET Handlers] /\ inbox \in [Client -> Seq(Messages)]
  BY <1>3, GoodIsTyped
<1>5. TypeOK
  BY <1>3, <1>4 DEF Init, TypeOK
<1> QED
  BY <1>1, <1>3, <1>5 DEF Init, ChannelInv

\* Every step keeps it, and so does a step that changes nothing.
LEMMA NextKeepsInv == ChannelInv /\ [Next]_vars => ChannelInv'
<1> SUFFICES ASSUME ChannelInv, [Next]_vars PROVE ChannelInv'
  OBVIOUS
<1>1. CASE UNCHANGED vars
  BY <1>1 DEF vars, ChannelInv, TypeOK
<1>2. CASE Number
  BY <1>2, NumberKeepsInv
<1>3. CASE \E e \in emit : AppendToLog(e) \/ Publish(e) \/ EmitFails(e)
  BY <1>3, AppendKeepsInv, PublishKeepsInv, EmitFailsKeepsInv
<1>4. CASE ExpireLog
  BY <1>4, ExpireKeepsInv
<1>5. CASE FlushRedis
  BY <1>5, FlushKeepsInv
<1>6. CASE \E c \in Client : Relay(c) \/ Join(c) \/ Handler(c) \/ Refuse(c)
  BY <1>6, RelayKeepsInv, JoinKeepsInv, HandlerKeepsInv, RefuseKeepsInv
<1>7. CASE \E c \in Client : Connect(c) \/ Drop(c) \/ Receive(c)
  BY <1>7, ConnectKeepsInv, DropKeepsInv, ReceiveKeepsInv
<1> QED
  BY <1>1, <1>2, <1>3, <1>4, <1>5, <1>6, <1>7 DEF Next

\* The invariant holds of every behaviour: the log misses only what was
\* overtaken, lost, trimmed or is on its way (board-events.service.ts:26-42).
THEOREM LogIsWhole == Spec => []ChannelInv
<1>1. Init => ChannelInv
  BY InitInv
<1>2. ChannelInv /\ [Next]_vars => ChannelInv'
  BY NextKeepsInv
<1> QED
  BY <1>1, <1>2, PTL DEF Spec

\* Sequence numbers in the log, on the wire and in the views are numbers that
\* were given out, and only connected sockets are in the room.
THEOREM ChannelTypes == Spec => []TypeOK
<1>1. ChannelInv => TypeOK
  BY DEF ChannelInv
<1> QED
  BY <1>1, LogIsWhole, PTL

---------------------------------------------------------------------------
(* The pipeline implements the feed                                        *)

\* Every view has a localStorage of its own: one tab of a board per browser.
OneTab == \A c, d \in Client : StoreOf[c] = StoreOf[d] => c = d

\* A step that leaves what the feed tells of as it is.
LEMMA Stutters ==
  ASSUME UNCHANGED <<counter, overtaken, lastSeq, shown, misled>>
  PROVE  [Feed!Next]_(Feed!vars)
  BY DEF Feed!vars, Position

\* The number of one view moves, and no other's.
LEMMA OthersStay ==
  ASSUME OneTab, ChannelInv, NEW c \in Client, NEW n, SetLastSeq(c, n)
  PROVE  [d \in Client |-> Position(d)]' = [[d \in Client |-> Position(d)] EXCEPT ![c] = n]
<1>1. \A d \in Client : Position(d)' = IF d = c THEN n ELSE Position(d)
  BY ClientParts DEF OneTab, SetLastSeq, Position
<1> QED
  BY <1>1

\* Frames that are handed over skip only what is gone.
LEMMA ApplyingGives ==
  ASSUME OneTab, ChannelInv, NEW c \in Client, NEW frames \in SUBSET (1 .. counter),
         Contiguous(frames, overtaken), frames = {} \/ \E k \in frames : k <= Position(c) + 1,
         ApplyInOrder(c, frames), UNCHANGED <<counter, overtaken, misled>>
  PROVE  [Feed!Next]_(Feed!vars)
<1> DEFINE fresh == {k \in frames : k > Position(c)}
           n == Max(fresh)
<1>1. counter \in Nat /\ Position(c) \in Nat
  BY ClientParts
<1>2. CASE fresh = {}
  BY <1>2, Stutters DEF ApplyInOrder
<1>3. CASE fresh # {}
  <2>1. fresh \in SUBSET (1 .. counter)
    OBVIOUS
  <2>2. n \in fresh /\ \A k \in fresh : n >= k
    BY <1>1, <1>3, <2>1, MaxIsGreatest
  <2>3. SetLastSeq(c, n) /\ shown' = [shown EXCEPT ![c] = @ \cup fresh]
    BY <1>3 DEF ApplyInOrder
  <2> HIDE DEF n
  <2>4. n \in 1 .. counter /\ fresh \in SUBSET (1 .. n) /\ fresh \subseteq Position(c) + 1 .. n
    <3>1. n \in 1 .. counter
      BY <2>1, <2>2
    <3>2. \A k \in fresh : k \in 1 .. n /\ k \in Position(c) + 1 .. n
      BY <1>1, <2>1, <2>2, <3>1
    <3> QED
      BY <3>1, <3>2
  <2>5. (Position(c) + 1 .. n) \ fresh \subseteq overtaken
    <3> SUFFICES ASSUME NEW i \in Position(c) + 1 .. n, i \notin fresh PROVE i \in overtaken
      OBVIOUS
    <3>1. PICK k \in frames : k <= Position(c) + 1
      BY <1>3
    <3>2. k \in Nat /\ n \in Nat /\ i \in k .. n /\ i > Position(c)
      BY <1>1, <2>4, <3>1
    <3>3. i \notin frames /\ n \in frames
      BY <2>2, <3>2
    <3> QED
      BY <3>2, <3>3 DEF Contiguous
  <2>6. [d \in Client |-> Position(d)]' = [[d \in Client |-> Position(d)] EXCEPT ![c] = n]
    BY <2>3, OthersStay
  <2> HIDE DEF fresh
  <2>7. [d \in Client |-> Position(d)][c] = Position(c)
    OBVIOUS
  <2>8. Feed!Give(c, fresh, n)
    BY <2>2, <2>3, <2>4, <2>5, <2>6, <2>7 DEF Feed!Give
  <2> QED
    BY <2>4, <2>8 DEF Feed!Next
<1> QED
  BY <1>2, <1>3

\* A message of the backend makes a view work on, load the board again, or
\* neither.
LEMMA ReceiveIsFeed ==
  ASSUME OneTab, ChannelInv, NEW c \in Client, Receive(c)
  PROVE  [Feed!Next]_(Feed!vars)
<1>1. UNCHANGED <<counter, overtaken>>
  BY ReceiveOutcome
<1>2. PICK frames \in SUBSET (1 .. counter), n \in 0 .. counter :
        Contiguous(frames, overtaken) /\ Outcome(c, frames, n)
  BY ReceiveOutcome
<1>3. CASE UNCHANGED <<lastSeq, shown, misled>>
  BY <1>1, <1>3, Stutters
<1>4. CASE /\ ApplyInOrder(c, frames) /\ UNCHANGED misled
           /\ frames = {} \/ \E k \in frames : k <= Position(c) + 1
  BY <1>1, <1>2, <1>4, ApplyingGives
<1>5. CASE Realign(c, n)
  <2>1. /\ SetLastSeq(c, n) /\ shown' = [shown EXCEPT ![c] = 1 .. counter]
        /\ misled' = [misled EXCEPT ![c] = 0]
    BY <1>5 DEF Realign
  <2>2. [d \in Client |-> Position(d)]' = [[d \in Client |-> Position(d)] EXCEPT ![c] = n]
    BY <2>1, OthersStay
  <2>3. Feed!Reload(c, n)
    BY <1>1, <2>1, <2>2 DEF Feed!Reload
  <2> QED
    BY <2>3 DEF Feed!Next
<1> QED
  BY <1>2, <1>3, <1>4, <1>5 DEF Outcome

\* Every step of the pipeline is a step of the feed or leaves it as it is.
LEMMA StepIsFeed ==
  ASSUME OneTab, ChannelInv, [Next]_vars
  PROVE  [Feed!Next]_(Feed!vars)
<1>1. CASE UNCHANGED vars
  BY <1>1, Stutters DEF vars
<1>2. CASE Number
  BY <1>2 DEF Number, Feed!Next, Feed!NumberFrame, Position
<1>3. ASSUME NEW e \in emit, AppendToLog(e) \/ Publish(e) \/ EmitFails(e)
      PROVE  [Feed!Next]_(Feed!vars)
  <2>1. counter \in Nat /\ emit \in SUBSET Calls(counter)
    BY BackendParts
  <2>2. ASSUME NEW gone \in SUBSET (1 .. counter), overtaken' = overtaken \cup gone,
               UNCHANGED <<counter, lastSeq, shown, misled>>
        PROVE  [Feed!Next]_(Feed!vars)
    <3>1. Feed!Lose(gone)
      BY <2>2 DEF Feed!Lose, Position
    <3> QED
      BY <3>1 DEF Feed!Next
  <2>3. CASE AppendToLog(e)
    <3> DEFINE gone == {f.seq : f \in {g \in emit : g.pc = "numbered" /\ g.seq < e.seq}}
    <3>1. overtaken' = overtaken \cup gone /\ UNCHANGED <<counter, lastSeq, shown, misled>>
      BY <2>3 DEF AppendToLog
    <3>2. gone \in SUBSET (1 .. counter)
      BY <2>1 DEF Calls
    <3> HIDE DEF gone
    <3> QED
      BY <2>2, <3>1, <3>2
  <2>4. CASE Publish(e)
    BY <2>4, Stutters DEF Publish
  <2>5. CASE EmitFails(e)
    <3>1. /\ overtaken' = overtaken \cup {e.seq} \/ overtaken' = overtaken
          /\ UNCHANGED <<counter, lastSeq, shown, misled>>
      BY <2>5 DEF EmitFails, redis
    <3>2. {e.seq} \in SUBSET (1 .. counter)
      BY <2>1 DEF Calls
    <3>3. CASE overtaken' = overtaken
      BY <3>1, <3>3, Stutters
    <3>4. CASE overtaken' = overtaken \cup {e.seq}
      BY <2>2, <3>1, <3>2, <3>4
    <3> QED
      BY <3>1, <3>3, <3>4
  <2> QED
    BY <1>3, <2>3, <2>4, <2>5
<1>4. CASE ExpireLog
  BY <1>4, Stutters DEF ExpireLog
<1>5. CASE FlushRedis
  <2>1. Feed!Restart
    BY <1>5 DEF FlushRedis, Feed!Restart, Position
  <2> QED
    BY <2>1 DEF Feed!Next
<1>6. ASSUME NEW c \in Client, Relay(c) \/ Join(c) \/ Handler(c) \/ Refuse(c)
      PROVE  [Feed!Next]_(Feed!vars)
  <2>1. UNCHANGED <<counter, overtaken, lastSeq, shown, misled>>
    BY <1>6 DEF Relay, Join, Handler, ReadLog, ReadHead, Answer, Refuse, redis
  <2> QED
    BY <2>1, Stutters
<1>7. ASSUME NEW c \in Client, Connect(c) \/ Drop(c)
      PROVE  [Feed!Next]_(Feed!vars)
  <2>1. UNCHANGED <<counter, overtaken, lastSeq, shown, misled>>
    BY <1>7 DEF Connect, Drop, redis
  <2> QED
    BY <2>1, Stutters
<1>8. ASSUME NEW c \in Client, Receive(c) PROVE [Feed!Next]_(Feed!vars)
  BY <1>8, ReceiveIsFeed
<1> QED
  BY <1>1, <1>2, <1>3, <1>4, <1>5, <1>6, <1>7, <1>8 DEF Next

\* The pipeline implements the feed (boardSocketManager.ts:154-172,239-255):
\* frames are handed over in their order, and one is passed over only if it
\* was lost or overtaken on its way to the log, or the board is loaded again.
THEOREM ChannelImplementsFeed == ASSUME OneTab PROVE Spec => ImplementsFeed
<1>1. Init => Feed!Init
  BY ChannelAssumption DEF Init, Feed!Init, Position
<1>2. ChannelInv /\ [Next]_vars => [Feed!Next]_(Feed!vars)
  BY StepIsFeed
<1> QED
  BY <1>1, <1>2, LogIsWhole, PTL DEF Spec, ImplementsFeed, Feed!Spec

---------------------------------------------------------------------------
(* The feed covers every frame                                             *)

\* A view is never beyond the head, unless it has not noticed a restart.
Covering ==
  /\ FramesCovered
  /\ \A c \in Client : Position(c) <= counter \/ Position(c) <= misled[c]

\* Steps of the feed keep every view covered.
LEMMA FeedKeepsCovering ==
  ASSUME ChannelInv, ChannelInv', Covering, [Feed!Next]_(Feed!vars)
  PROVE  Covering'
<1>1. \A c \in Client : Position(c) \in Nat /\ Position(c)' \in Nat
  BY ChannelAssumption DEF ChannelInv, TypeOK, Position
<1>2. counter \in Nat /\ counter' \in Nat /\ misled \in [Client -> Nat] /\ misled' \in [Client -> Nat]
  BY DEF ChannelInv, TypeOK
<1>3. \A c \in Client : \A i \in 1 .. Position(c) :
        i <= counter => i \in shown[c] \/ i \in overtaken \/ i <= misled[c]
  BY DEF Covering, FramesCovered, Feed!Covered
<1>4. \A c \in Client : Position(c) <= counter \/ Position(c) <= misled[c]
  BY DEF Covering
<1> DEFINE Goal ==
      \A c \in Client :
        /\ Position(c)' <= counter' \/ Position(c)' <= misled'[c]
        /\ \A i \in 1 .. Position(c)' :
             i <= counter' => i \in shown'[c] \/ i \in overtaken' \/ i <= misled'[c]
<1> SUFFICES Goal
  BY DEF Covering, FramesCovered, Feed!Covered
<1>5. ASSUME [d \in Client |-> Position(d)]' = [d \in Client |-> Position(d)]
      PROVE  \A c \in Client : Position(c)' = Position(c)
  BY <1>5
<1>6. shown \in [Client -> SUBSET (1 .. counter)]
  BY DEF ChannelInv, TypeOK
<1>7. CASE UNCHANGED Feed!vars
  <2>1. \A c \in Client : Position(c)' = Position(c)
    BY <1>5, <1>7 DEF Feed!vars
  <2>2. UNCHANGED <<counter, overtaken, shown, misled>>
    BY <1>7 DEF Feed!vars
  <2> QED
    BY <1>3, <1>4, <2>1, <2>2
<1>8. CASE Feed!NumberFrame
  <2>1. \A c \in Client : Position(c)' = Position(c)
    BY <1>5, <1>8 DEF Feed!NumberFrame
  <2>2. counter' = counter + 1 /\ UNCHANGED <<overtaken, shown, misled>>
    BY <1>8 DEF Feed!NumberFrame
  <2> QED
    BY <1>1, <1>2, <1>3, <1>4, <2>1, <2>2
<1>9. ASSUME NEW gone, Feed!Lose(gone) PROVE Goal
  <2>1. \A c \in Client : Position(c)' = Position(c)
    BY <1>5, <1>9 DEF Feed!Lose
  <2>2. overtaken' = overtaken \cup gone /\ UNCHANGED <<counter, shown, misled>>
    BY <1>9 DEF Feed!Lose
  <2> QED
    BY <1>3, <1>4, <2>1, <2>2
<1>10. ASSUME NEW c \in Client, NEW n \in 1 .. counter, NEW frames \in SUBSET (1 .. n),
              Feed!Give(c, frames, n)
       PROVE  Goal
  <2>1. \A d \in Client : Position(d)' = IF d = c THEN n ELSE Position(d)
    <3>1. [d \in Client |-> Position(d)]' = [[d \in Client |-> Position(d)] EXCEPT ![c] = n]
      BY <1>10 DEF Feed!Give
    <3> QED
      BY <3>1
  <2>2. /\ (Position(c) + 1 .. n) \ frames \subseteq overtaken
        /\ shown' = [shown EXCEPT ![c] = @ \cup frames]
        /\ UNCHANGED <<counter, overtaken, misled>>
    BY <1>10 DEF Feed!Give
  <2>3. ASSUME NEW d \in Client, NEW i \in 1 .. Position(d)', i <= counter
        PROVE  i \in shown'[d] \/ i \in overtaken' \/ i <= misled'[d]
    <3>1. CASE d # c
      BY <1>3, <1>6, <2>1, <2>2, <2>3, <3>1
    <3>2. CASE d = c /\ i \in 1 .. Position(c)
      BY <1>3, <1>6, <2>2, <2>3, <3>2
    <3>3. CASE d = c /\ i \in Position(c) + 1 .. n
      BY <1>6, <2>2, <3>3
    <3> QED
      BY <1>1, <2>1, <2>3, <3>1, <3>2, <3>3
  <2> QED
    BY <1>2, <1>4, <2>1, <2>2, <2>3
<1>11. ASSUME NEW c \in Client, NEW n \in 0 .. counter, Feed!Reload(c, n) PROVE Goal
  <2>1. \A d \in Client : Position(d)' = IF d = c THEN n ELSE Position(d)
    <3>1. [d \in Client |-> Position(d)]' = [[d \in Client |-> Position(d)] EXCEPT ![c] = n]
      BY <1>11 DEF Feed!Reload
    <3> QED
      BY <3>1
  <2>2. /\ shown' = [shown EXCEPT ![c] = 1 .. counter] /\ misled' = [misled EXCEPT ![c] = 0]
        /\ UNCHANGED <<counter, overtaken>>
    BY <1>11 DEF Feed!Reload
  <2> QED
    BY <1>1, <1>2, <1>3, <1>4, <1>6, <2>1, <2>2
<1>12. CASE Feed!Restart
  <2>1. \A c \in Client : Position(c)' = Position(c)
    BY <1>5, <1>12 DEF Feed!Restart
  <2>2. counter' = 0 /\ misled' = [c \in Client |-> Position(c)]
    BY <1>12 DEF Feed!Restart
  <2> QED
    BY <1>1, <2>1, <2>2
<1> QED
  BY <1>7, <1>8, <1>9, <1>10, <1>11, <1>12 DEF Feed!Next

\* A view that has worked up to a number was handed every frame up to it or
\* told to load the board, whatever was dropped, delayed, expired or trimmed,
\* except what was lost or overtaken on its way to the log.
THEOREM NoFrameSkipped == ASSUME OneTab PROVE Spec => []FramesCovered
<1>1. Init => Covering
  BY ChannelAssumption DEF Init, Covering, FramesCovered, Feed!Covered, Position
<1>2. ChannelInv /\ ChannelInv' /\ Covering /\ [Next]_vars => Covering'
  BY StepIsFeed, FeedKeepsCovering
<1>3. Covering => FramesCovered
  BY DEF Covering
<1> QED
  BY <1>1, <1>2, <1>3, LogIsWhole, PTL DEF Spec

---------------------------------------------------------------------------
(* Fractional indexing: keys, their order, and a key between two of them  *)

\* The digits a key is written in.
Digits == 0 .. Base - 1

\* a and b agree up to place n; at the next, b goes on and a ends, or is less.
LessAt(a, b, n) ==
  /\ n <= Len(a) /\ n < Len(b)
  /\ \A i \in 1 .. n : a[i] = b[i]
  /\ n < Len(a) => a[n + 1] < b[n + 1]

\* A key has a length and natural digits.
LEMMA KeyParts ==
  ASSUME NEW a \in Seq(Digits)
  PROVE  /\ Len(a) \in Nat
         /\ \A i \in 1 .. Len(a) : a[i] \in Digits /\ a[i] \in Nat /\ a[i] < Base
         /\ \A i \in Nat \ {0} : Digit(a, i) \in Nat /\ Digit(a, i) < Base
<1>1. Len(a) \in Nat
  BY LenProperties
<1>2. \A i \in 1 .. Len(a) : a[i] \in Digits
  BY ElementOfSeq
<1>. QED BY <1>1, <1>2, IndexAssumption DEF Digits, Digit

\* The head of a key up to place n.
LEMMA HeadOfKey ==
  ASSUME NEW a \in Seq(Digits), NEW n \in 0 .. Len(a)
  PROVE  /\ SubSeq(a, 1, n) \in Seq(Digits)
         /\ Len(SubSeq(a, 1, n)) = n
         /\ \A i \in 1 .. n : SubSeq(a, 1, n)[i] = a[i]
<1>1. \A i \in 1 .. n : a[i] \in Digits
  BY KeyParts
<1>2. n \in Int
  BY KeyParts
<1>3. /\ SubSeq(a, 1, n) \in Seq(Digits)
      /\ Len(SubSeq(a, 1, n)) = IF 1 <= n THEN n - 1 + 1 ELSE 0
      /\ \A i \in 1 .. n - 1 + 1 : SubSeq(a, 1, n)[i] = a[1 + i - 1]
  BY <1>1, <1>2, SubSeqProperties
<1>. QED BY <1>2, <1>3, KeyParts

\* Strings compare by the first place where they differ.
LEMMA LessByDigit ==
  ASSUME NEW a \in Seq(Digits), NEW b \in Seq(Digits)
  PROVE  Less(a, b) <=> \E n \in Nat : LessAt(a, b, n)
<1>0. Len(a) \in Nat /\ Len(b) \in Nat
  BY KeyParts
<1> DEFINE least == Min({Len(a), Len(b)})
<1>1. /\ least \in Nat
      /\ \A n \in Nat : n \in 0 .. least <=> n <= Len(a) /\ n <= Len(b)
  <2>1. {Len(a), Len(b)} \in SUBSET Nat /\ {Len(a), Len(b)} # {}
    BY <1>0
  <2>2. least \in {Len(a), Len(b)} /\ least <= Len(a) /\ least <= Len(b)
    BY <2>1, MinIsLeast
  <2> HIDE DEF least
  <2>. QED BY <1>0, <2>2
<1>1a. Less(a, b) <=> \E n \in 0 .. least : /\ SubSeq(a, 1, n) = SubSeq(b, 1, n)
                                            /\ n < Len(b) /\ (n < Len(a) => a[n + 1] < b[n + 1])
  BY DEF Less
<1> HIDE DEF least
<1>2. ASSUME NEW n \in Nat, n <= Len(a), n <= Len(b)
      PROVE  SubSeq(a, 1, n) = SubSeq(b, 1, n) <=> \A i \in 1 .. n : a[i] = b[i]
  <2>1. n \in 0 .. Len(a) /\ n \in 0 .. Len(b)
    BY <1>0, <1>2
  <2>2. /\ SubSeq(a, 1, n) \in Seq(Digits) /\ Len(SubSeq(a, 1, n)) = n
        /\ \A i \in 1 .. n : SubSeq(a, 1, n)[i] = a[i]
    BY <2>1, HeadOfKey
  <2>3. /\ SubSeq(b, 1, n) \in Seq(Digits) /\ Len(SubSeq(b, 1, n)) = n
        /\ \A i \in 1 .. n : SubSeq(b, 1, n)[i] = b[i]
    BY <2>1, HeadOfKey
  <2>4. (\A i \in 1 .. n : a[i] = b[i]) => SubSeq(a, 1, n) = SubSeq(b, 1, n)
    BY <2>2, <2>3, SeqEqual
  <2>5. SubSeq(a, 1, n) = SubSeq(b, 1, n) => \A i \in 1 .. n : a[i] = b[i]
    BY <2>2, <2>3
  <2>. QED BY <2>4, <2>5
<1>3. ASSUME NEW n \in 0 .. least,
             SubSeq(a, 1, n) = SubSeq(b, 1, n), n < Len(b), n < Len(a) => a[n + 1] < b[n + 1]
      PROVE  \E m \in Nat : LessAt(a, b, m)
  <2>1. n \in Nat /\ n <= Len(a) /\ n <= Len(b)
    BY <1>0, <1>1
  <2>2. LessAt(a, b, n)
    BY <1>2, <1>3, <2>1 DEF LessAt
  <2>. QED BY <2>1, <2>2
<1>4. ASSUME NEW n \in Nat, LessAt(a, b, n)
      PROVE  Less(a, b)
  <2>1. /\ n <= Len(a) /\ n < Len(b) /\ (n < Len(a) => a[n + 1] < b[n + 1])
        /\ \A i \in 1 .. n : a[i] = b[i]
    BY <1>4 DEF LessAt
  <2>2. n <= Len(b)
    BY <1>0, <2>1
  <2>3. SubSeq(a, 1, n) = SubSeq(b, 1, n)
    BY <1>2, <2>1, <2>2
  <2>4. n \in 0 .. least
    BY <1>1, <2>1, <2>2
  <2>. QED BY <1>1a, <2>1, <2>3, <2>4
<1>. QED BY <1>1a, <1>3, <1>4

\* The middle of two digits that are not adjacent lies between them.
LEMMA MiddleIsBetween ==
  ASSUME NEW x \in Nat, NEW y \in Nat, y - x > 1
  PROVE  Middle(x, y) \in Nat /\ x < Middle(x, y) /\ Middle(x, y) < y
BY DEF Middle

\* midpoint(a, null) sorts after a, and is a key.
LEMMA MidpointAboveIsAbove ==
  ASSUME NEW a \in Seq(Digits)
  PROVE  /\ IsValidKey(MidpointAbove(a))
         /\ \E n \in Nat : LessAt(a, MidpointAbove(a), n)
<1> DEFINE S == {j \in 1 .. Len(a) + 1 : Base - Digit(a, j) > 1}
           i == Min(S)
           d == Digit(a, i)
           m == MidpointAbove(a)
<1>0. Len(a) \in Nat /\ Base \in Nat /\ Base >= 2
  BY KeyParts, IndexAssumption
<1>1. Len(a) + 1 \in S
  BY <1>0 DEF Digit
<1>2. S \in SUBSET Nat /\ S # {}
  BY <1>0, <1>1
<1>3. i \in S
  BY <1>2, MinIsLeast
<1>4. i \in 1 .. Len(a) + 1 /\ Base - d > 1 /\ d \in Nat
  BY <1>0, <1>3, KeyParts
<1>5. i - 1 \in 0 .. Len(a)
  BY <1>0, <1>4
<1>6. m = Append(SubSeq(a, 1, i - 1), Middle(d, Base))
  BY DEF MidpointAbove
<1> HIDE DEF S, i, d, m
<1>7. Middle(d, Base) \in Digits /\ Middle(d, Base) > d
  BY <1>0, <1>4, MiddleIsBetween DEF Digits
<1>8. /\ SubSeq(a, 1, i - 1) \in Seq(Digits) /\ Len(SubSeq(a, 1, i - 1)) = i - 1
      /\ \A j \in 1 .. i - 1 : SubSeq(a, 1, i - 1)[j] = a[j]
  BY <1>5, HeadOfKey
<1>9. /\ m \in Seq(Digits) /\ m # <<>> /\ Len(m) = i
      /\ \A j \in 1 .. i - 1 : m[j] = a[j]
      /\ m[i] = Middle(d, Base)
  <2>1. /\ m \in Seq(Digits) /\ m # <<>> /\ Len(m) = i - 1 + 1
        /\ \A j \in 1 .. i - 1 : m[j] = SubSeq(a, 1, i - 1)[j]
        /\ m[i - 1 + 1] = Middle(d, Base)
    BY <1>6, <1>7, <1>8, AppendProperties
  <2>2. i - 1 + 1 = i
    BY <1>0, <1>4
  <2>. QED BY <1>8, <2>1, <2>2
<1>10. IsValidKey(m)
  BY <1>4, <1>7, <1>9 DEF IsValidKey, Last, Digits
<1>11. LessAt(a, m, i - 1)
  <2>1. i - 1 < Len(a) => a[i] = d
    BY <1>0, <1>4 DEF d, Digit
  <2>2. i - 1 + 1 = i /\ i - 1 <= Len(a) /\ i - 1 < i
    BY <1>0, <1>4
  <2>. QED BY <1>7, <1>9, <2>1, <2>2 DEF LessAt
<1>12. i - 1 \in Nat
  BY <1>0, <1>5
<1>. QED BY <1>10, <1>11, <1>12 DEF m

\* midpoint(a, b) sorts between a and b, and is a key.
LEMMA MidpointIsBetween ==
  ASSUME NEW a \in Seq(Digits), NEW b \in Seq(Digits), IsValidKey(b),
         NEW n \in Nat, LessAt(a, b, n)
  PROVE  /\ IsValidKey(Midpoint(a, b))
         /\ \E k \in Nat : LessAt(a, Midpoint(a, b), k)
         /\ \E k \in Nat : LessAt(Midpoint(a, b), b, k)
<1> DEFINE S    == {j \in 1 .. Len(b) : Digit(a, j) # b[j]}
           i    == Min(S)
           d    == Digit(a, i)
           same == SubSeq(b, 1, i - 1)
           m    == Midpoint(a, b)
<1>0. /\ Len(a) \in Nat /\ Len(b) \in Nat /\ Base \in Nat /\ Base >= 2
      /\ b[Len(b)] # 0
      /\ \A j \in 1 .. Len(b) : b[j] \in Nat /\ b[j] < Base
      /\ \A j \in 1 .. Len(a) : a[j] \in Nat /\ a[j] < Base /\ Digit(a, j) = a[j]
      /\ \A j \in Nat : j > Len(a) => Digit(a, j) = 0
  BY KeyParts, IndexAssumption DEF IsValidKey, Last, Digit
<1>1. /\ n <= Len(a) /\ n < Len(b)
      /\ \A j \in 1 .. n : a[j] = b[j]
      /\ n < Len(a) => a[n + 1] < b[n + 1]
  BY DEF LessAt
<1>2. S # {}
  <2>1. CASE n < Len(a)
    <3>1. n + 1 \in 1 .. Len(b) /\ n + 1 \in 1 .. Len(a) /\ a[n + 1] < b[n + 1]
      BY <1>0, <1>1, <2>1
    <3>2. Digit(a, n + 1) # b[n + 1]
      BY <1>0, <3>1
    <3>. QED BY <3>1, <3>2
  <2>2. CASE ~(n < Len(a))
    <3>1. Len(b) > Len(a) /\ Len(b) \in 1 .. Len(b)
      BY <1>0, <1>1, <2>2
    <3>2. Digit(a, Len(b)) # b[Len(b)]
      BY <1>0, <3>1
    <3>. QED BY <3>1, <3>2
  <2>. QED BY <2>1, <2>2
<1>3. i \in S /\ \A j \in S : i <= j
  <2>1. S \in SUBSET Nat
    BY <1>0
  <2>. QED BY <1>2, <2>1, MinIsLeast
<1>4. /\ i \in 1 .. Len(b) /\ d # b[i] /\ i \in Nat
      /\ \A j \in 1 .. i - 1 : Digit(a, j) = b[j]
  <2>1. i \in 1 .. Len(b) /\ d # b[i] /\ i \in Nat
    BY <1>0, <1>3
  <2>2. ASSUME NEW j \in 1 .. i - 1 PROVE Digit(a, j) = b[j]
    <3>1. j \in 1 .. Len(b) /\ ~(i <= j)
      BY <1>0, <2>1, <2>2
    <3>2. j \notin S
      BY <1>3, <3>1
    <3>. QED BY <3>1, <3>2
  <2>. QED BY <2>1, <2>2
<1>5. m = IF b[i] - d > 1 THEN Append(same, Middle(d, b[i]))
          ELSE IF Len(b) > i THEN SubSeq(b, 1, i)
          ELSE Append(same, d) \o MidpointAbove(SubSeq(a, i + 1, Len(a)))
  BY DEF Midpoint
<1> HIDE DEF S, i, same, m
<1>6. d \in Nat /\ d < Base /\ b[i] \in Nat /\ b[i] < Base
  BY <1>0, <1>4, KeyParts
<1>7. d < b[i]
  <2>1. n < i
    <3>1. ASSUME i <= n PROVE FALSE
      <4>1. i \in 1 .. n /\ i \in 1 .. Len(a)
        BY <1>0, <1>1, <1>4, <3>1
      <4>2. d = a[i] /\ a[i] = b[i]
        BY <1>0, <1>1, <4>1
      <4>. QED BY <1>4, <4>2
    <3>. QED BY <1>4, <3>1
  <2>2. CASE i <= Len(a)
    <3>1. n < Len(a) /\ n + 1 \in 1 .. Len(a) /\ n + 1 \in 1 .. Len(b)
      BY <1>0, <1>1, <1>4, <2>1, <2>2
    <3>2. a[n + 1] < b[n + 1] /\ Digit(a, n + 1) = a[n + 1]
      BY <1>0, <1>1, <3>1
    <3>3. ~(n + 1 < i)
      <4>1. ASSUME n + 1 < i PROVE FALSE
        <5>1. n + 1 \in 1 .. i - 1
          BY <1>4, <4>1
        <5>2. a[n + 1] = b[n + 1]
          BY <1>4, <3>2, <5>1
        <5>3. a[n + 1] \in Nat
          BY <1>0, <3>1
        <5>. QED BY <3>2, <5>2, <5>3
      <4>. QED BY <4>1
    <3>4. i = n + 1
      BY <1>4, <2>1, <3>3
    <3>. QED BY <3>2, <3>4
  <2>3. CASE ~(i <= Len(a))
    <3>1. d = 0
      BY <1>0, <1>4, <2>3
    <3>. QED BY <1>4, <1>6, <3>1
  <2>. QED BY <2>2, <2>3
<1>8. /\ same \in Seq(Digits) /\ Len(same) = i - 1
      /\ \A j \in 1 .. i - 1 : same[j] = b[j]
  <2>1. i - 1 \in 0 .. Len(b)
    BY <1>0, <1>4
  <2>. QED BY <2>1, HeadOfKey DEF same
\* What begins like b up to i - 1 and then has a greater digit than a.
<1>9. ASSUME NEW k \in Seq(Digits), Len(k) >= i,
             \A j \in 1 .. i - 1 : k[j] = b[j], d < k[i]
      PROVE  \E l \in Nat : LessAt(a, k, l)
  <2>1. CASE i - 1 <= Len(a)
    <3>1. /\ i - 1 \in Nat /\ i - 1 + 1 = i /\ i - 1 < Len(k)
          /\ \A j \in 1 .. i - 1 : a[j] = k[j]
      <4>1. ASSUME NEW j \in 1 .. i - 1 PROVE a[j] = k[j]
        <5>1. j \in 1 .. Len(a)
          BY <1>0, <1>4, <2>1, <4>1
        <5>. QED BY <1>0, <1>4, <1>9, <5>1
      <4>. QED BY <1>4, <1>9, <4>1, KeyParts
    <3>2. i - 1 < Len(a) => a[i] < k[i]
      <4>1. i - 1 < Len(a) => i \in 1 .. Len(a)
        BY <1>0, <1>4
      <4>. QED BY <1>0, <1>9, <4>1
    <3>3. LessAt(a, k, i - 1)
      BY <2>1, <3>1, <3>2 DEF LessAt
    <3>. QED BY <3>1, <3>3
  <2>2. CASE ~(i - 1 <= Len(a))
    <3>1. Len(a) < Len(k)
      BY <1>0, <1>4, <1>9, <2>2, KeyParts
    <3>2. \A j \in 1 .. Len(a) : a[j] = k[j]
      <4>1. ASSUME NEW j \in 1 .. Len(a) PROVE a[j] = k[j]
        <5>1. j \in 1 .. i - 1
          BY <1>0, <1>4, <2>2
        <5>. QED BY <1>0, <1>4, <1>9, <5>1
      <4>. QED BY <4>1
    <3>3. LessAt(a, k, Len(a))
      BY <1>0, <3>1, <3>2 DEF LessAt
    <3>. QED BY <1>0, <3>3
  <2>. QED BY <2>1, <2>2
\* What begins like b up to i - 1 and then has a smaller digit than b.
<1>10. ASSUME NEW k \in Seq(Digits), Len(k) >= i,
              \A j \in 1 .. i - 1 : k[j] = b[j], k[i] < b[i]
       PROVE  \E l \in Nat : LessAt(k, b, l)
  <2>1. i - 1 \in Nat /\ i - 1 <= Len(k) /\ i - 1 < Len(b) /\ i - 1 + 1 = i
    <3>1. Len(k) \in Nat
      BY KeyParts
    <3>. QED BY <1>0, <1>4, <1>10, <3>1
  <2>2. LessAt(k, b, i - 1)
    BY <1>10, <2>1 DEF LessAt
  <2>. QED BY <2>1, <2>2
<1>11. CASE b[i] - d > 1
  <2>1. m = Append(same, Middle(d, b[i]))
    BY <1>5, <1>11
  <2>2. /\ Middle(d, b[i]) \in Digits /\ d < Middle(d, b[i])
        /\ Middle(d, b[i]) < b[i] /\ Middle(d, b[i]) # 0
    <3>1. /\ Middle(d, b[i]) \in Nat /\ d < Middle(d, b[i]) /\ Middle(d, b[i]) < b[i]
      BY <1>6, <1>11, MiddleIsBetween
    <3>. QED BY <1>0, <1>6, <3>1 DEF Digits
  <2>3. /\ m \in Seq(Digits) /\ m # <<>> /\ Len(m) = i
        /\ \A j \in 1 .. i - 1 : m[j] = b[j]
        /\ m[i] = Middle(d, b[i])
    <3>1. /\ m \in Seq(Digits) /\ m # <<>> /\ Len(m) = i - 1 + 1
          /\ \A j \in 1 .. i - 1 : m[j] = same[j]
          /\ m[i - 1 + 1] = Middle(d, b[i])
      BY <1>8, <2>1, <2>2, AppendProperties
    <3>2. i - 1 + 1 = i
      BY <1>4
    <3>. QED BY <1>8, <3>1, <3>2
  <2>4. IsValidKey(m)
    BY <2>2, <2>3 DEF IsValidKey, Last, Digits
  <2>5. Len(m) >= i
    BY <1>4, <2>3
  <2>6. (\E l \in Nat : LessAt(a, m, l)) /\ (\E l \in Nat : LessAt(m, b, l))
    BY <1>9, <1>10, <2>2, <2>3, <2>5
  <2>. QED BY <2>4, <2>6 DEF m
<1>12. CASE ~(b[i] - d > 1) /\ Len(b) > i
  <2>1. m = SubSeq(b, 1, i)
    BY <1>5, <1>12
  <2>2. i \in 0 .. Len(b)
    BY <1>0, <1>4
  <2>3. /\ m \in Seq(Digits) /\ Len(m) = i
        /\ \A j \in 1 .. i : m[j] = b[j]
    BY <2>1, <2>2, HeadOfKey
  <2>4. m[i] = b[i] /\ d < m[i] /\ m[i] # 0
    <3>1. i \in 1 .. i
      BY <1>4
    <3>. QED BY <1>6, <1>7, <2>3, <3>1
  <2>5. IsValidKey(m)
    <3>1. m # <<>>
      BY <1>4, <2>3, EmptySeq
    <3>. QED BY <2>3, <2>4, <3>1 DEF IsValidKey, Last, Digits
  <2>6. \E l \in Nat : LessAt(a, m, l)
    <3>1. Len(m) >= i /\ \A j \in 1 .. i - 1 : m[j] = b[j]
      BY <1>4, <2>3
    <3>. QED BY <1>9, <2>3, <2>4, <3>1
  <2>7. \E l \in Nat : LessAt(m, b, l)
    <3>1. LessAt(m, b, i)
      BY <1>4, <1>12, <2>3 DEF LessAt
    <3>. QED BY <1>4, <3>1
  <2>. QED BY <2>5, <2>6, <2>7 DEF m
<1>13. CASE ~(b[i] - d > 1) /\ ~(Len(b) > i)
  <2> DEFINE rest == SubSeq(a, i + 1, Len(a))
             low  == Append(same, d)
             tail == MidpointAbove(rest)
  <2>1. m = low \o tail
    BY <1>5, <1>13
  <2>2. /\ rest \in Seq(Digits)
        /\ Len(rest) = IF i + 1 <= Len(a) THEN Len(a) - i ELSE 0
        /\ \A j \in 1 .. Len(a) - i : rest[j] = a[i + j]
    <3>1. \A j \in i + 1 .. Len(a) : a[j] \in Digits
      <4>1. ASSUME NEW j \in i + 1 .. Len(a) PROVE a[j] \in Digits
        <5>1. j \in 1 .. Len(a)
          BY <1>0, <1>4
        <5>. QED BY <5>1, KeyParts
      <4>. QED BY <4>1
    <3>2. i + 1 \in Int /\ Len(a) \in Int
      BY <1>0, <1>4
    <3>3. /\ rest \in Seq(Digits)
          /\ Len(rest) = IF i + 1 <= Len(a) THEN Len(a) - (i + 1) + 1 ELSE 0
          /\ \A j \in 1 .. Len(a) - (i + 1) + 1 : rest[j] = a[i + 1 + j - 1]
      BY <3>1, <3>2, SubSeqProperties
    <3>. QED BY <1>0, <1>4, <3>3
  <2>3. /\ IsValidKey(tail) /\ tail \in Seq(Digits) /\ tail # <<>>
        /\ \E k \in Nat : LessAt(rest, tail, k)
    BY <2>2, MidpointAboveIsAbove DEF IsValidKey, Digits
  <2> HIDE DEF rest, low, tail
  <2>4. Len(tail) \in Nat \ {0} /\ tail[Len(tail)] # 0
    BY <2>3, EmptySeq DEF IsValidKey, Last
  <2>5. d \in Digits
    BY <1>0, <1>6 DEF Digits
  <2>6. /\ low \in Seq(Digits) /\ Len(low) = i
        /\ \A j \in 1 .. i - 1 : low[j] = b[j]
        /\ low[i] = d
    <3>1. /\ low \in Seq(Digits) /\ Len(low) = i - 1 + 1
          /\ \A j \in 1 .. i - 1 : low[j] = same[j]
          /\ low[i - 1 + 1] = d
      BY <1>8, <2>5, AppendProperties DEF low
    <3>2. i - 1 + 1 = i
      BY <1>4
    <3>. QED BY <1>8, <3>1, <3>2
  <2>7. /\ m \in Seq(Digits) /\ Len(m) = i + Len(tail)
        /\ \A j \in 1 .. i : m[j] = low[j]
        /\ \A j \in 1 .. Len(tail) : m[i + j] = tail[j]
    <3>1. /\ m \in Seq(Digits) /\ Len(m) = i + Len(tail)
          /\ \A j \in 1 .. i + Len(tail) : m[j] = IF j <= i THEN low[j] ELSE tail[j - i]
      BY <2>1, <2>3, <2>6, ConcatProperties
    <3>2. ASSUME NEW j \in 1 .. i PROVE m[j] = low[j]
      <4>1. j \in 1 .. i + Len(tail) /\ j <= i
        BY <1>4, <2>4
      <4>. QED BY <3>1, <4>1
    <3>3. ASSUME NEW j \in 1 .. Len(tail) PROVE m[i + j] = tail[j]
      <4> DEFINE x == i + j
      <4>1. x \in 1 .. i + Len(tail) /\ ~(x <= i) /\ x - i = j
        BY <1>4, <2>4
      <4> HIDE DEF x
      <4>2. m[x] = tail[j]
        BY <3>1, <4>1
      <4>. QED BY <4>2 DEF x
    <3>. QED BY <3>1, <3>2, <3>3
  <2>8. IsValidKey(m)
    <3>1. m[i + Len(tail)] = tail[Len(tail)]
      <4>1. Len(tail) \in 1 .. Len(tail)
        BY <2>4
      <4>. QED BY <2>7, <4>1
    <3>2. m # <<>>
      <4>1. Len(m) # 0
        BY <1>4, <2>4, <2>7
      <4>. QED BY <4>1, EmptySeq
    <3>. QED BY <2>4, <2>7, <3>1, <3>2 DEF IsValidKey, Last, Digits
  <2>9. /\ Len(m) >= i /\ m[i] = d
        /\ \A j \in 1 .. i - 1 : m[j] = b[j]
    <3>1. i \in 1 .. i /\ Len(m) >= i
      BY <1>4, <2>4, <2>7
    <3>2. ASSUME NEW j \in 1 .. i - 1 PROVE m[j] = b[j]
      <4>1. j \in 1 .. i
        BY <1>4
      <4>. QED BY <2>6, <2>7, <4>1
    <3>. QED BY <2>6, <2>7, <3>1, <3>2
  <2>10. \E l \in Nat : LessAt(m, b, l)
    BY <1>7, <1>10, <2>7, <2>9
  <2>11. \E l \in Nat : LessAt(a, m, l)
    <3>1. CASE Len(a) < i
      <4>1. \A j \in 1 .. Len(a) : a[j] = m[j]
        <5>1. ASSUME NEW j \in 1 .. Len(a) PROVE a[j] = m[j]
          <6>1. j \in 1 .. i - 1
            BY <1>0, <1>4, <3>1
          <6>. QED BY <1>0, <1>4, <2>9, <6>1
        <5>. QED BY <5>1
      <4>2. Len(a) < Len(m)
        BY <1>0, <1>4, <2>4, <2>7, <3>1
      <4>3. LessAt(a, m, Len(a))
        BY <1>0, <4>1, <4>2 DEF LessAt
      <4>. QED BY <1>0, <4>3
    <3>2. CASE ~(Len(a) < i)
      <4>1. PICK k \in Nat : LessAt(rest, tail, k)
        BY <2>3
      <4>2. Len(rest) = Len(a) - i /\ i + Len(rest) = Len(a)
        BY <1>0, <1>4, <2>2, <3>2
      <4>3. /\ k <= Len(rest) /\ k < Len(tail)
            /\ \A j \in 1 .. k : rest[j] = tail[j]
            /\ k < Len(rest) => rest[k + 1] < tail[k + 1]
        BY <4>1 DEF LessAt
      <4>4. i + k \in Nat /\ i + k <= Len(a) /\ i + k < Len(m)
        BY <1>0, <1>4, <2>4, <2>7, <4>2, <4>3
      <4>5. ASSUME NEW j \in 1 .. i + k PROVE a[j] = m[j]
        <5>1. CASE j <= i - 1
          <6>1. j \in 1 .. i - 1 /\ j \in 1 .. Len(a)
            BY <1>0, <1>4, <3>2, <5>1
          <6>. QED BY <1>0, <1>4, <2>9, <6>1
        <5>2. CASE j = i
          <6>1. i \in 1 .. Len(a)
            BY <1>0, <1>4, <3>2
          <6>. QED BY <1>0, <2>9, <5>2, <6>1
        <5>3. CASE j > i
          <6>1. /\ j - i \in 1 .. k /\ j - i \in 1 .. Len(a) - i /\ i + (j - i) = j
                /\ j - i \in 1 .. Len(tail)
            BY <1>0, <1>4, <2>4, <4>2, <4>3, <4>4, <5>3
          <6>2. /\ rest[j - i] = tail[j - i] /\ rest[j - i] = a[i + (j - i)]
                /\ m[i + (j - i)] = tail[j - i]
            BY <2>2, <2>7, <4>3, <6>1
          <6>. QED BY <6>1, <6>2
        <5>. QED BY <1>4, <5>1, <5>2, <5>3
      <4>6. ASSUME i + k < Len(a) PROVE a[i + k + 1] < m[i + k + 1]
        <5>1. /\ k < Len(rest) /\ k + 1 \in 1 .. Len(a) - i
              /\ k + 1 \in 1 .. Len(tail) /\ i + (k + 1) = i + k + 1
          BY <1>0, <1>4, <2>4, <4>2, <4>3, <4>6
        <5>2. rest[k + 1] = a[i + (k + 1)] /\ m[i + (k + 1)] = tail[k + 1]
          BY <2>2, <2>7, <5>1
        <5>. QED BY <4>3, <5>1, <5>2
      <4>7. LessAt(a, m, i + k)
        BY <4>4, <4>5, <4>6 DEF LessAt
      <4>. QED BY <4>4, <4>7
    <3>. QED BY <1>0, <1>4, <3>1, <3>2
  <2>. QED BY <2>8, <2>10, <2>11 DEF m
<1>. QED BY <1>11, <1>12, <1>13

\* A key from NoKey or a valid key is a sequence of digits.
LEMMA EndsAreDigits ==
  ASSUME NEW key, key = NoKey \/ IsValidKey(key)
  PROVE  /\ key \in Seq(Digits)
         /\ key # NoKey => Len(key) \in Nat \ {0}
BY EmptySeq DEF IsValidKey, NoKey, Digits

\* getIntermediateKey: between any two keys in order, before any key, after
\* any key and in an empty column there is a key, and the one returned is
\* again a legal one, so there always is room (fractional-indexer.ts:17-24,
\* 104-134: its check of its own result never throws).
THEOREM AlwaysAKeyBetween ==
  ASSUME NEW prev, prev = NoKey \/ IsValidKey(prev),
         NEW next, next = NoKey \/ IsValidKey(next),
         HasRoom(prev, next)
  PROVE  /\ IsValidKey(IntermediateKey(prev, next))
         /\ prev # NoKey => Less(prev, IntermediateKey(prev, next))
         /\ next # NoKey => Less(IntermediateKey(prev, next), next)
<1> DEFINE key == IntermediateKey(prev, next)
<1>1. prev \in Seq(Digits) /\ next \in Seq(Digits)
  BY EndsAreDigits
<1>2. CASE next # NoKey
  <2>1. IsValidKey(next) /\ Len(next) \in Nat \ {0}
    BY <1>2, EndsAreDigits
  <2>2. \E n \in Nat : LessAt(prev, next, n)
    <3>1. CASE prev = NoKey
      <4>1. Len(prev) = 0
        BY <3>1, EmptySeq DEF NoKey
      <4>2. LessAt(prev, next, 0)
        BY <2>1, <4>1 DEF LessAt
      <4>. QED BY <4>2
    <3>2. CASE prev # NoKey
      BY <1>1, <1>2, <3>2, LessByDigit DEF HasRoom
    <3>. QED BY <3>1, <3>2
  <2>3. key = Midpoint(prev, next)
    BY <1>2 DEF IntermediateKey
  <2> HIDE DEF key
  <2>4. /\ IsValidKey(key)
        /\ \E k \in Nat : LessAt(prev, key, k)
        /\ \E k \in Nat : LessAt(key, next, k)
    BY <1>1, <2>1, <2>2, <2>3, MidpointIsBetween
  <2>5. key \in Seq(Digits)
    BY <2>4, EndsAreDigits
  <2>6. Less(prev, key) /\ Less(key, next)
    BY <1>1, <2>4, <2>5, LessByDigit
  <2>. QED BY <2>4, <2>6 DEF key
<1>3. CASE next = NoKey /\ prev # NoKey
  <2>1. key = MidpointAbove(prev)
    BY <1>3 DEF IntermediateKey
  <2> HIDE DEF key
  <2>2. /\ IsValidKey(key)
        /\ \E k \in Nat : LessAt(prev, key, k)
    BY <1>1, <2>1, MidpointAboveIsAbove
  <2>3. key \in Seq(Digits)
    BY <2>2, EndsAreDigits
  <2>4. Less(prev, key)
    BY <1>1, <2>2, <2>3, LessByDigit
  <2>. QED BY <1>3, <2>2, <2>4 DEF key
<1>4. CASE next = NoKey /\ prev = NoKey
  <2>1. key = <<Seed>>
    BY <1>4 DEF IntermediateKey
  <2>2. Seed \in 0 .. Base - 1 /\ Seed # 0
    BY IndexAssumption
  <2>3. IsValidKey(<<Seed>>)
    BY <2>2 DEF IsValidKey, Last
  <2>. QED BY <1>4, <2>1, <2>3
<1>. QED BY <1>2, <1>3, <1>4

\* The comparison is a strict order of all keys, so a column sorted by it has
\* one order, and a key between two others has its place there.
THEOREM LessIsAnOrder ==
  ASSUME NEW a \in Seq(Digits), NEW b \in Seq(Digits), NEW c \in Seq(Digits)
  PROVE  /\ ~Less(a, a)
         /\ Less(a, b) /\ Less(b, c) => Less(a, c)
         /\ Less(a, b) \/ Less(b, a) \/ a = b
<1>0. /\ Len(a) \in Nat /\ Len(b) \in Nat /\ Len(c) \in Nat
      /\ \A i \in 1 .. Len(a) : a[i] \in Nat
      /\ \A i \in 1 .. Len(b) : b[i] \in Nat
      /\ \A i \in 1 .. Len(c) : c[i] \in Nat
  BY KeyParts
<1>1. ~Less(a, a)
  <2>1. ASSUME NEW n \in Nat, LessAt(a, a, n) PROVE FALSE
    <3>1. n < Len(a) /\ a[n + 1] < a[n + 1] /\ n + 1 \in 1 .. Len(a)
      BY <1>0, <2>1 DEF LessAt
    <3>. QED BY <1>0, <3>1
  <2>. QED BY <2>1, LessByDigit
<1>2. ASSUME Less(a, b), Less(b, c) PROVE Less(a, c)
  <2>1. PICK m \in Nat : LessAt(a, b, m)
    BY <1>2, LessByDigit
  <2>2. PICK n \in Nat : LessAt(b, c, n)
    BY <1>2, LessByDigit
  <2>3. /\ m <= Len(a) /\ m < Len(b) /\ n <= Len(b) /\ n < Len(c)
        /\ \A i \in 1 .. m : a[i] = b[i]
        /\ \A i \in 1 .. n : b[i] = c[i]
        /\ m < Len(a) => a[m + 1] < b[m + 1]
        /\ n < Len(b) => b[n + 1] < c[n + 1]
    BY <2>1, <2>2 DEF LessAt
  <2>4. CASE m < n
    <3>1. m + 1 \in 1 .. n /\ \A i \in 1 .. m : i \in 1 .. n
      BY <2>4
    <3>2. b[m + 1] = c[m + 1] /\ \A i \in 1 .. m : a[i] = c[i]
      BY <2>3, <3>1
    <3>3. m <= Len(a) /\ m < Len(c) /\ (m < Len(a) => a[m + 1] < c[m + 1])
      BY <1>0, <2>3, <2>4, <3>2
    <3>4. LessAt(a, c, m)
      BY <3>2, <3>3 DEF LessAt
    <3>. QED BY <3>4, LessByDigit
  <2>5. CASE m >= n
    <3>1. \A i \in 1 .. n : i \in 1 .. m
      BY <2>5
    <3>2. \A i \in 1 .. n : a[i] = c[i]
      BY <2>3, <3>1
    <3>3. n <= Len(a) /\ n < Len(c)
      BY <1>0, <2>3, <2>5
    <3>4. ASSUME n < Len(a) PROVE a[n + 1] < c[n + 1]
      <4>1. /\ n + 1 \in 1 .. Len(a) /\ n + 1 \in 1 .. Len(b) /\ n + 1 \in 1 .. Len(c)
            /\ n < Len(b) /\ b[n + 1] < c[n + 1]
        BY <1>0, <2>3, <2>5, <3>4
      <4>2. CASE m = n
        BY <1>0, <2>3, <3>4, <4>1, <4>2
      <4>3. CASE m > n
        <5>1. n + 1 \in 1 .. m
          BY <4>3
        <5>2. a[n + 1] = b[n + 1]
          BY <2>3, <5>1
        <5>. QED BY <4>1, <5>2
      <4>. QED BY <2>5, <4>2, <4>3
    <3>5. LessAt(a, c, n)
      BY <3>2, <3>3, <3>4 DEF LessAt
    <3>. QED BY <3>5, LessByDigit
  <2>. QED BY <2>4, <2>5
<1>3. ASSUME a # b PROVE Less(a, b) \/ Less(b, a)
  <2> DEFINE S == {n \in Nat : \/ n >= Len(a) \/ n >= Len(b) \/ a[n + 1] # b[n + 1]}
             n == Min(S)
  <2>1. Len(a) \in S
    BY <1>0
  <2>2. S \in SUBSET Nat /\ S # {}
    BY <2>1
  <2>3. n \in S /\ \A k \in S : n <= k
    BY <2>2, MinIsLeast
  <2>4. Len(b) \in S
    BY <1>0
  <2>5. n \in Nat /\ n <= Len(a) /\ n <= Len(b)
    BY <2>1, <2>2, <2>3, <2>4
  <2>6. n = Len(a) \/ n = Len(b) \/ a[n + 1] # b[n + 1]
    BY <1>0, <2>3, <2>5
  <2>7. ASSUME NEW i \in 1 .. n PROVE a[i] = b[i]
    <3>1. i - 1 \in Nat /\ ~(n <= i - 1) /\ i - 1 + 1 = i
      BY <2>5, <2>7
    <3>2. i - 1 \notin S
      BY <2>3, <3>1
    <3>. QED BY <3>1, <3>2
  <2> HIDE DEF S, n
  <2>8. CASE n < Len(a) /\ n < Len(b)
    <3>1. /\ n + 1 \in 1 .. Len(a) /\ n + 1 \in 1 .. Len(b)
          /\ a[n + 1] # b[n + 1]
      BY <1>0, <2>5, <2>6, <2>8
    <3>2. a[n + 1] < b[n + 1] \/ b[n + 1] < a[n + 1]
      BY <1>0, <3>1
    <3>3. LessAt(a, b, n) \/ LessAt(b, a, n)
      BY <2>5, <2>7, <2>8, <3>2 DEF LessAt
    <3>. QED BY <2>5, <3>3, LessByDigit
  <2>9. CASE n = Len(a) /\ n < Len(b)
    <3>1. LessAt(a, b, n)
      BY <1>0, <2>5, <2>7, <2>9 DEF LessAt
    <3>. QED BY <2>5, <3>1, LessByDigit
  <2>10. CASE n < Len(a) /\ n = Len(b)
    <3>1. LessAt(b, a, n)
      BY <1>0, <2>5, <2>7, <2>10 DEF LessAt
    <3>. QED BY <2>5, <3>1, LessByDigit
  <2>11. CASE n = Len(a) /\ n = Len(b)
    <3>1. a = b
      BY <2>7, <2>11, SeqEqual
    <3>. QED BY <1>3, <3>1
  <2>. QED BY <1>0, <2>5, <2>8, <2>9, <2>10, <2>11
<1>. QED BY <1>1, <1>2, <1>3

\* The equation that defines the powers of the base, and the same up to n.
PowerIs(f) == f = [length \in Nat |-> IF length = 0 THEN 1 ELSE Base * f[length - 1]]

PowersUpTo(f, n) == f[0] = 1 /\ \A i \in 1 .. n : f[i] = Base * f[i - 1]

\* A product with a factor of two or more is at least twice the other factor.
LEMMA ProductGrows ==
  ASSUME NEW x \in Nat, NEW y \in Nat, y >= 2
  PROVE  y * x \in Nat /\ y * x >= 2 * x
OBVIOUS

\* Up to any number there is a function that multiplies by the base at each step.
LEMMA SomePowersUpTo ==
  ASSUME NEW n \in Nat
  PROVE  \E f \in [Nat -> Nat] : PowersUpTo(f, n)
<1> DEFINE Short == {k \in Nat : ~ \E f \in [Nat -> Nat] : PowersUpTo(f, k)}
           k     == Min(Short)
<1>1. ASSUME Short # {} PROVE FALSE
  <2>1. Short \in SUBSET Nat
    OBVIOUS
  <2>2. k \in Short /\ \A j \in Short : k <= j
    BY <1>1, <2>1, MinIsLeast
  <2>3. CASE k = 0
    <3> DEFINE one == [i \in Nat |-> 1]
    <3>1. one \in [Nat -> Nat] /\ one[0] = 1
      OBVIOUS
    <3>2. \A i \in 1 .. k : FALSE
      BY <2>3
    <3> HIDE DEF one, k
    <3>3. PowersUpTo(one, k)
      BY <3>1, <3>2 DEF PowersUpTo
    <3>. QED BY <2>2, <3>1, <3>3
  <2>4. CASE k # 0
    <3>1. k - 1 \in Nat /\ k \in Nat /\ ~(k <= k - 1)
      BY <2>2, <2>4
    <3>2. k - 1 \notin Short
      BY <2>2, <3>1
    <3>3. PICK f \in [Nat -> Nat] : PowersUpTo(f, k - 1)
      BY <3>1, <3>2
    <3> DEFINE g == [f EXCEPT ![k] = Base * f[k - 1]]
    <3>4. Base * f[k - 1] \in Nat
      BY <3>1, IndexAssumption, ProductGrows
    <3>5. g \in [Nat -> Nat]
      BY <3>1, <3>4
    <3>6. \A i \in 1 .. k : g[i] = Base * g[i - 1]
      <4>1. ASSUME NEW i \in 1 .. k PROVE g[i] = Base * g[i - 1]
        <5>1. i \in Nat /\ i - 1 \in Nat /\ i - 1 # k
          BY <3>1
        <5>2. g[i - 1] = f[i - 1]
          BY <5>1
        <5>3. CASE i = k
          BY <3>1, <5>2, <5>3
        <5>4. CASE i # k
          <6>1. i \in 1 .. k - 1
            BY <3>1, <5>4
          <6>2. f[i] = Base * f[i - 1] /\ g[i] = f[i]
            BY <3>3, <5>1, <5>4, <6>1 DEF PowersUpTo
          <6>. QED BY <5>2, <6>2
        <5>. QED BY <5>3, <5>4
      <4>. QED BY <4>1
    <3>7. g[0] = 1
      BY <2>4, <3>1, <3>3 DEF PowersUpTo
    <3>8. PowersUpTo(g, k)
      BY <3>6, <3>7 DEF PowersUpTo
    <3>. QED BY <2>2, <3>5, <3>8
  <2>. QED BY <2>3, <2>4
<1>. QED BY <1>1

\* Two such functions agree.
LEMMA PowersAgree ==
  ASSUME NEW f, NEW g, NEW n \in Nat, PowersUpTo(f, n), PowersUpTo(g, n)
  PROVE  f[n] = g[n]
<1> DEFINE Apart == {k \in 0 .. n : f[k] # g[k]}
           k     == Min(Apart)
<1>1. ASSUME Apart # {} PROVE FALSE
  <2>1. Apart \in SUBSET Nat
    OBVIOUS
  <2>2. k \in Apart /\ \A j \in Apart : k <= j
    BY <1>1, <2>1, MinIsLeast
  <2>3. k # 0
    BY <2>2 DEF PowersUpTo
  <2>4. k \in 1 .. n /\ k - 1 \in 0 .. n /\ ~(k <= k - 1)
    BY <2>2, <2>3
  <2>5. f[k - 1] = g[k - 1]
    BY <2>2, <2>4
  <2>6. f[k] = Base * f[k - 1] /\ g[k] = Base * g[k - 1]
    BY <2>4 DEF PowersUpTo
  <2>. QED BY <2>2, <2>5, <2>6
<1>2. n \in 0 .. n
  OBVIOUS
<1>. QED BY <1>1, <1>2

\* Math.pow: the powers of the base.
LEMMA PowerLaws ==
  /\ Power \in [Nat -> Nat]
  /\ Power[0] = 1
  /\ \A n \in Nat : Power[n + 1] = Base * Power[n]
<1> DEFINE P(n) == CHOOSE f \in [Nat -> Nat] : PowersUpTo(f, n)
           F    == [n \in Nat |-> P(n)[n]]
<1>1. \A n \in Nat : P(n) \in [Nat -> Nat] /\ PowersUpTo(P(n), n)
  BY SomePowersUpTo
<1> HIDE DEF P
<1>2. F \in [Nat -> Nat]
  BY <1>1
<1>3. F[0] = 1
  BY <1>1 DEF PowersUpTo
<1>4. ASSUME NEW n \in Nat PROVE F[n + 1] = Base * F[n]
  <2>1. n + 1 \in 1 .. n + 1 /\ n + 1 - 1 = n /\ n + 1 \in Nat
    OBVIOUS
  <2>2. PowersUpTo(P(n + 1), n + 1)
    BY <1>1, <2>1
  <2>3. P(n + 1)[n + 1] = Base * P(n + 1)[n]
    BY <2>1, <2>2 DEF PowersUpTo
  <2>4. PowersUpTo(P(n + 1), n)
    BY <2>2 DEF PowersUpTo
  <2>5. P(n + 1)[n] = P(n)[n]
    BY <1>1, <2>4, PowersAgree
  <2>. QED BY <2>1, <2>3, <2>5
<1>5. PowerIs(F)
  <2>1. ASSUME NEW n \in Nat
        PROVE  F[n] = IF n = 0 THEN 1 ELSE Base * F[n - 1]
    <3>1. CASE n = 0
      BY <1>3, <3>1
    <3>2. CASE n # 0
      <4>1. n - 1 \in Nat /\ n - 1 + 1 = n
        BY <3>2
      <4>2. F[n - 1 + 1] = Base * F[n - 1]
        BY <1>4, <4>1
      <4>. QED BY <3>2, <4>1, <4>2
    <3>. QED BY <3>1, <3>2
  <2> HIDE DEF F
  <2>. QED BY <1>2, <2>1 DEF PowerIs
<1> HIDE DEF F
<1>6. Power = CHOOSE f : PowerIs(f)
  BY DEF Power, PowerIs
<1>7. PowerIs(Power)
  BY <1>5, <1>6
<1>8. \A n \in Nat : Power[n] = IF n = 0 THEN 1 ELSE Base * Power[n - 1]
  BY <1>7 DEF PowerIs
<1>9. PowersUpTo(Power, 0) /\ Power[0] = 1
  BY <1>8 DEF PowersUpTo
<1>10. ASSUME NEW n \in Nat PROVE Power[n + 1] = Base * Power[n]
  BY <1>8
<1>11. ASSUME NEW n \in Nat PROVE PowersUpTo(Power, n)
  BY <1>8, <1>9 DEF PowersUpTo
<1>12. ASSUME NEW n \in Nat PROVE Power[n] \in Nat
  <2>1. PICK f \in [Nat -> Nat] : PowersUpTo(f, n)
    BY SomePowersUpTo
  <2>2. Power[n] = f[n]
    BY <1>11, <2>1, PowersAgree
  <2>. QED BY <2>1, <2>2
<1>13. DOMAIN Power = Nat /\ Power = [n \in DOMAIN Power |-> Power[n]]
  BY <1>7 DEF PowerIs
<1>14. Power \in [Nat -> Nat]
  BY <1>12, <1>13
<1>. QED BY <1>9, <1>10, <1>14

\* The powers are positive, and grow at least twofold.
LEMMA PowerGrows ==
  /\ \A n \in Nat : Power[n] \in Nat /\ Power[n] >= 1
  /\ \A n \in Nat \ {0} : Power[n] >= 2 * n
<1>1. \A n \in Nat : Power[n] \in Nat
  BY PowerLaws
<1>2. \A n \in Nat : Power[n + 1] >= 2 * Power[n]
  BY <1>1, PowerLaws, ProductGrows, IndexAssumption
<1> DEFINE Good(n) == Power[n] >= 1 /\ (n # 0 => Power[n] >= 2 * n)
           Bad == {n \in Nat : ~Good(n)}
           k == Min(Bad)
<1>3. ASSUME Bad # {} PROVE FALSE
  <2>1. Bad \in SUBSET Nat
    OBVIOUS
  <2>2. k \in Bad /\ \A j \in Bad : k <= j
    BY <1>3, <2>1, MinIsLeast
  <2>3. k # 0
    BY <2>2, PowerLaws
  <2>4. k - 1 \in Nat /\ k - 1 + 1 = k /\ ~(k <= k - 1)
    BY <2>2, <2>3
  <2>5. k - 1 \notin Bad
    BY <2>2, <2>4
  <2> HIDE DEF k
  <2>6. Power[k - 1] >= 1 /\ (k - 1 # 0 => Power[k - 1] >= 2 * (k - 1)) /\ Power[k - 1] \in Nat
    BY <1>1, <2>4, <2>5
  <2>7. Power[k] >= 2 * Power[k - 1] /\ Power[k] \in Nat /\ k \in Nat
    BY <1>1, <1>2, <2>2, <2>4
  <2>. QED BY <2>2, <2>3, <2>6, <2>7
<1>. QED BY <1>1, <1>3

\* What a quotient is.
LEMMA Quotient ==
  ASSUME NEW v \in Nat, NEW p \in Nat, p >= 1
  PROVE  /\ v \div p \in Nat /\ v % p \in 0 .. p - 1
         /\ v = p * (v \div p) + (v % p)
         /\ p * (v \div p) <= v /\ v < p * (v \div p) + p
OBVIOUS

\* Products keep the order of their factors, strictly where p is positive.
LEMMA ProductOrder ==
  ASSUME NEW x \in Int, NEW y \in Int, NEW p \in Nat, p >= 1
  PROVE  /\ x <= y <=> p * x <= p * y
         /\ x < y <=> p * x < p * y
OBVIOUS

\* A quotient against a number, by their products.
LEMMA QuotientAtLeast ==
  ASSUME NEW v \in Nat, NEW p \in Nat, p >= 1, NEW q \in Nat
  PROVE  /\ p * q <= v => q <= v \div p
         /\ v < p * q => v \div p < q
<1>1. /\ v \div p \in Nat /\ p * (v \div p) <= v /\ v < p * (v \div p) + p
  BY Quotient
<1> DEFINE d == v \div p
<1> HIDE DEF d
<1>2. d \in Nat /\ p * d <= v /\ v < p * d + p
  BY <1>1 DEF d
<1>3. p * (d + 1) = p * d + p /\ p * q \in Nat /\ p * d \in Nat /\ p * (d + 1) \in Nat
  BY <1>2
<1>4. ASSUME p * q <= v PROVE q <= d
  <2>1. p * q < p * (d + 1)
    BY <1>2, <1>3, <1>4
  <2>2. q < d + 1
    BY <1>2, <2>1, ProductOrder
  <2>. QED BY <1>2, <2>2
<1>5. ASSUME v < p * q PROVE d < q
  <2>1. p * d < p * q
    BY <1>2, <1>3, <1>5
  <2>. QED BY <1>2, <2>1, ProductOrder
<1>. QED BY <1>4, <1>5 DEF d

\* Dividing by Base * p is dividing by p and then by Base.
LEMMA QuotientTwice ==
  ASSUME NEW v \in Nat, NEW p \in Nat, p >= 1
  PROVE  v \div (Base * p) = (v \div p) \div Base
<1> DEFINE q == v \div p
           d == q \div Base
<1>0. Base \in Nat /\ Base >= 1
  BY IndexAssumption
<1>1. q \in Nat /\ p * q <= v /\ v < p * q + p
  BY Quotient
<1>2. d \in Nat /\ Base * d <= q /\ q < Base * d + Base
  BY <1>0, <1>1, Quotient
<1> HIDE DEF q, d
<1> DEFINE bp == Base * p
<1>3. bp \in Nat /\ bp >= 1
  BY <1>0
<1>4. bp * d <= v
  <2>1. p * (Base * d) <= p * q
    BY <1>0, <1>1, <1>2, ProductOrder
  <2>2. bp * d = p * (Base * d)
    BY <1>0, <1>2
  <2>. QED BY <1>0, <1>1, <1>2, <1>3, <2>1, <2>2
<1>5. v < bp * (d + 1)
  <2>1. q + 1 <= Base * d + Base /\ Base * d + Base = Base * (d + 1) /\ Base * (d + 1) \in Nat
    BY <1>0, <1>1, <1>2
  <2>2. p * (q + 1) <= p * (Base * (d + 1))
    BY <1>1, <1>2, <2>1, ProductOrder
  <2>3. bp * (d + 1) = p * (Base * (d + 1))
    BY <1>0, <1>2
  <2>4. p * (q + 1) = p * q + p
    BY <1>1
  <2>5. p * q \in Nat /\ p * (Base * (d + 1)) \in Nat
    BY <1>1, <2>1
  <2>. QED BY <1>1, <2>2, <2>3, <2>4, <2>5
<1> HIDE DEF bp
<1>6. d <= v \div bp /\ v \div bp < d + 1
  BY <1>2, <1>3, <1>4, <1>5, QuotientAtLeast
<1>7. v \div bp \in Nat
  BY <1>3, Quotient
<1>8. v \div bp = d
  BY <1>2, <1>6, <1>7
<1>. QED BY <1>8 DEF bp, d, q

\* Stepping off a zero digit goes up by one at most.
LEMMA OffZeroIsNear ==
  ASSUME NEW v \in Nat
  PROVE  /\ OffZero(v) \in Nat /\ v <= OffZero(v) /\ OffZero(v) <= v + 1
         /\ OffZero(v) % Base # 0
<1>0. Base \in Nat /\ Base >= 2
  BY IndexAssumption
<1>1. CASE v % Base # 0
  BY <1>1 DEF OffZero
<1>2. CASE v % Base = 0
  <2> DEFINE q == v \div Base
             w == v + 1
             e == w \div Base
  <2>1. q \in Nat /\ v = Base * q
    BY <1>0, <1>2, Quotient
  <2>2. w \in Nat /\ e \in Nat /\ w % Base \in Nat /\ w = Base * e + (w % Base)
    BY <1>0, Quotient
  <2> HIDE DEF q, e, w
  <2>3. ASSUME w % Base = 0 PROVE FALSE
    <3>1. Base * q + 1 = Base * e /\ Base * q \in Nat /\ Base * e \in Nat
      BY <1>0, <2>1, <2>2, <2>3 DEF w
    <3>2. Base * q < Base * e
      BY <3>1
    <3>3. q < e
      BY <1>0, <2>1, <2>2, <3>2, ProductOrder
    <3>4. q + 1 <= e
      BY <2>1, <2>2, <3>3
    <3>5. Base * (q + 1) <= Base * e
      BY <1>0, <2>1, <2>2, <3>4, ProductOrder
    <3>6. Base * (q + 1) = Base * q + Base
      BY <1>0, <2>1
    <3>. QED BY <1>0, <3>1, <3>5, <3>6
  <2>4. OffZero(v) = w
    BY <1>2 DEF OffZero, w
  <2>. QED BY <2>3, <2>4 DEF w
<1>. QED BY <1>1, <1>2

\* encodeFixed writes a number that fits as a key; greater numbers are greater
\* keys, and the last digit is that of the number.
LEMMA EncodedInOrder ==
  ASSUME NEW width \in Nat, width >= 1,
         NEW v \in Nat, NEW w \in Nat, v < w, w < Power[width]
  PROVE  Less(EncodeFixed(v, width), EncodeFixed(w, width))
<1> DEFINE Q(x, i) == x \div Power[width - i]
           Apart == {i \in 1 .. width : Q(v, i) # Q(w, i)}
           i == Min(Apart)
           a == EncodeFixed(v, width)
           b == EncodeFixed(w, width)
<1>0. Base \in Nat /\ Base >= 2
  BY IndexAssumption
<1>1. \A j \in 0 .. width : /\ width - j \in Nat
                            /\ Power[width - j] \in Nat /\ Power[width - j] >= 1
  BY PowerGrows
<1>2. Q(v, 0) = 0 /\ Q(w, 0) = 0
  <2>1. ASSUME NEW x \in Nat, x < Power[width] PROVE x \div Power[width] = 0
    <3>1. Power[width] \in Nat /\ Power[width] >= 1 /\ Power[width] * 1 = Power[width]
      BY PowerGrows
    <3>2. x \div Power[width] \in Nat
      BY <3>1, Quotient
    <3>3. x \div Power[width] < 1
      BY <2>1, <3>1, QuotientAtLeast
    <3>. QED BY <3>2, <3>3
  <2>2. v < Power[width] /\ width - 0 = width
    BY PowerGrows
  <2>. QED BY <2>1, <2>2
<1>3. Q(v, width) = v /\ Q(w, width) = w
  <2>1. width - width = 0
    OBVIOUS
  <2>2. Power[width - width] = 1
    BY <2>1, PowerLaws
  <2>. QED BY <2>2
<1>4. Apart # {}
  <2>1. width \in Apart
    BY <1>3
  <2>. QED BY <2>1
<1>5. i \in Apart /\ \A j \in Apart : i <= j
  <2>1. Apart \in SUBSET Nat
    OBVIOUS
  <2>. QED BY <1>4, <2>1, MinIsLeast
<1>6. i \in 1 .. width /\ i - 1 \in 0 .. width /\ i \in 0 .. width
  <2>1. i \in 1 .. width
    BY <1>5
  <2> HIDE DEF i
  <2>. QED BY <2>1
<1>7. Q(v, i) # Q(w, i)
  BY <1>5
<1>8. \A j \in 1 .. i - 1 : Q(v, j) = Q(w, j)
  <2>1. ASSUME NEW j \in 1 .. i - 1 PROVE Q(v, j) = Q(w, j)
    <3>1. j \in 1 .. width /\ ~(i <= j)
      BY <1>6
    <3>. QED BY <1>5, <3>1
  <2>. QED BY <2>1
<1>9. Q(v, i - 1) = Q(w, i - 1)
  <2>1. CASE i = 1
    <3>1. i - 1 = 0
      BY <2>1
    <3>. QED BY <1>2, <3>1
  <2>2. CASE i # 1
    <3>1. i - 1 \in 1 .. i - 1
      BY <1>6, <2>2
    <3>. QED BY <1>8, <3>1
  <2>. QED BY <2>1, <2>2
<1> HIDE DEF i, Apart
<1>10. \A x \in Nat : /\ Q(x, i) \in Nat /\ Q(x, i - 1) \in Nat
                      /\ Q(x, i) % Base \in Nat
                      /\ Q(x, i) = Base * Q(x, i - 1) + (Q(x, i) % Base)
  <2>1. ASSUME NEW x \in Nat
        PROVE  /\ Q(x, i) \in Nat /\ Q(x, i - 1) \in Nat /\ Q(x, i) % Base \in Nat
               /\ Q(x, i) = Base * Q(x, i - 1) + (Q(x, i) % Base)
    <3>1. width - (i - 1) = width - i + 1 /\ width - i \in Nat
      BY <1>6
    <3>2. Power[width - (i - 1)] = Base * Power[width - i]
      BY <3>1, PowerLaws
    <3>3. Power[width - i] \in Nat /\ Power[width - i] >= 1
      BY <1>1, <1>6
    <3>4. Q(x, i - 1) = Q(x, i) \div Base
      BY <3>2, <3>3, QuotientTwice
    <3>5. Q(x, i) \in Nat
      BY <3>3, Quotient
    <3> DEFINE y == Q(x, i)
    <3> HIDE DEF y
    <3>6. y \in Nat
      BY <3>5 DEF y
    <3>7. y \div Base \in Nat /\ y % Base \in Nat /\ y = Base * (y \div Base) + (y % Base)
      <4>1. Base >= 1
        BY <1>0
      <4>2. /\ y \div Base \in Nat /\ y % Base \in 0 .. Base - 1
            /\ y = Base * (y \div Base) + (y % Base)
        BY <1>0, <3>6, <4>1, Quotient
      <4>3. y % Base \in Nat
        BY <1>0, <4>2
      <4>. QED BY <4>2, <4>3
    <3>. QED BY <3>4, <3>6, <3>7 DEF y
  <2>. QED BY <2>1
<1>11. Q(v, i) < Q(w, i)
  <2> DEFINE p == Power[width - i]
  <2>1. p \in Nat /\ p >= 1
    BY <1>1, <1>6
  <2> HIDE DEF p
  <2>2. v \div p \in Nat /\ p * (v \div p) <= v /\ w \div p \in Nat
    BY <2>1, Quotient
  <2>3. p * (v \div p) <= w /\ p * (v \div p) \in Nat
    BY <2>1, <2>2
  <2>4. v \div p <= w \div p
    BY <2>1, <2>2, <2>3, QuotientAtLeast
  <2>5. v \div p # w \div p
    BY <1>7 DEF p
  <2>6. v \div p < w \div p
    BY <2>2, <2>4, <2>5
  <2>. QED BY <2>6 DEF p
<1>12. Q(v, i) % Base < Q(w, i) % Base
  <2>1. Q(v, i) = Base * Q(v, i - 1) + (Q(v, i) % Base) /\ Q(v, i) \in Nat /\ Q(v, i) % Base \in Nat
    BY <1>10
  <2>2. Q(w, i) = Base * Q(v, i - 1) + (Q(w, i) % Base) /\ Q(w, i) \in Nat /\ Q(w, i) % Base \in Nat
    BY <1>9, <1>10
  <2>3. Base * Q(v, i - 1) \in Nat
    BY <1>0, <1>10
  <2> HIDE DEF Q
  <2>. QED BY <1>11, <2>1, <2>2, <2>3
<1>13. /\ a \in Seq(Digits) /\ b \in Seq(Digits) /\ Len(a) = width /\ Len(b) = width
       /\ \A j \in 1 .. width : a[j] = Q(v, j) % Base /\ b[j] = Q(w, j) % Base
  <2>1. \A j \in 1 .. width : Q(v, j) % Base \in Digits /\ Q(w, j) % Base \in Digits
    <3>1. ASSUME NEW j \in 1 .. width, NEW x \in Nat PROVE Q(x, j) % Base \in Digits
      <4>1. Power[width - j] \in Nat /\ Power[width - j] >= 1
        BY <1>1
      <4>2. Q(x, j) \in Nat
        BY <4>1, Quotient
      <4> HIDE DEF Q
      <4>. QED BY <1>0, <4>2, Quotient DEF Digits
    <3>. QED BY <3>1
  <2>2. /\ a = [j \in 1 .. width |-> Q(v, j) % Base]
        /\ b = [j \in 1 .. width |-> Q(w, j) % Base]
    BY DEF EncodeFixed
  <2> HIDE DEF Q, a, b
  <2>. QED BY <2>1, <2>2
<1> HIDE DEF Q, a, b
<1>14. LessAt(a, b, i - 1)
  <2>1. \A j \in 1 .. i - 1 : a[j] = b[j]
    <3>1. ASSUME NEW j \in 1 .. i - 1 PROVE a[j] = b[j]
      <4>1. j \in 1 .. width
        BY <1>6
      <4>. QED BY <1>8, <1>13, <4>1
    <3>. QED BY <3>1
  <2>2. a[i] < b[i] /\ i - 1 + 1 = i /\ i - 1 <= width /\ i - 1 < width
    BY <1>6, <1>12, <1>13
  <2>. QED BY <1>13, <2>1, <2>2 DEF LessAt
<1>15. i - 1 \in Nat
  BY <1>6
<1>16. Less(a, b)
  BY <1>13, <1>14, <1>15, LessByDigit
<1>. QED BY <1>16 DEF a, b

\* The width that is chosen leaves two places for every key and one more.
LEMMA WideEnough ==
  ASSUME NEW count \in Nat
  PROVE  /\ Width(count) \in Nat /\ Width(count) >= 2
         /\ Power[Width(count)] \in Nat
         /\ Power[Width(count)] >= 2 * (count + 1)
<1> DEFINE Wide == {n \in 2 .. count + 2 : Power[n] >= 2 * (count + 1)}
<1>1. count + 2 \in Nat \ {0} /\ count + 2 \in 2 .. count + 2
  OBVIOUS
<1>2. Power[count + 2] >= 2 * (count + 2) /\ Power[count + 2] \in Nat
  BY <1>1, PowerGrows
<1>3. Wide # {} /\ Wide \in SUBSET Nat
  <2>1. count + 2 \in Wide
    BY <1>1, <1>2
  <2>. QED BY <2>1
<1>4. Min(Wide) \in Wide
  BY <1>3, MinIsLeast
<1>5. Width(count) \in Wide
  BY <1>4 DEF Width
<1>. QED BY <1>5, PowerGrows

\* The evenly spaced numbers are at least two apart, and two below the end.
LEMMA EvenlyApart ==
  ASSUME NEW count \in Nat, NEW j \in 1 .. count
  PROVE  /\ Evenly(count, j) \in Nat
         /\ Evenly(count, j) + 2 <= Power[Width(count)]
         /\ \A i \in 1 .. j - 1 :
              Evenly(count, i) \in Nat /\ Evenly(count, i) + 2 <= Evenly(count, j)
<1> DEFINE cap == Power[Width(count)]
           n   == count + 1
<1>1. cap \in Nat /\ cap >= 2 * n
  BY WideEnough
<1> HIDE DEF cap
<1>2. n \in Nat /\ n >= 1
  OBVIOUS
<1>3. \A k \in 1 .. count : /\ k * cap \in Nat
                            /\ Evenly(count, k) = (k * cap) \div n
  BY <1>1 DEF Evenly, cap
<1>4. \A k \in 1 .. count : /\ Evenly(count, k) \in Nat
                            /\ n * Evenly(count, k) <= k * cap
  <2>1. ASSUME NEW k \in 1 .. count
        PROVE  Evenly(count, k) \in Nat /\ n * Evenly(count, k) <= k * cap
    <3> DEFINE v == k * cap
    <3>1. v \in Nat /\ Evenly(count, k) = v \div n
      BY <1>3
    <3> HIDE DEF v, n
    <3>2. v \div n \in Nat /\ n * (v \div n) <= v
      BY <1>2, <3>1, Quotient
    <3>. QED BY <3>1, <3>2 DEF v
  <2>. QED BY <2>1
<1> DEFINE e == Evenly(count, j)
<1>5. e \in Nat /\ n * e <= j * cap
  BY <1>4
<1>6. e + 2 <= cap
  <2>1. j * cap <= count * cap /\ j * cap \in Nat /\ count * cap \in Nat
    <3>1. cap * j <= cap * count
      BY <1>1, ProductOrder
    <3>. QED BY <1>1, <3>1
  <2>2. n * cap = count * cap + cap
    BY <1>1
  <2>3. n * (e + 2) = n * e + 2 * n /\ n * e \in Nat
    BY <1>2, <1>5
  <2> HIDE DEF e
  <2>4. n * (e + 2) <= n * cap
    <3>1. n * e + 2 * n <= count * cap + cap
      BY <1>1, <1>2, <1>5, <2>1, <2>3
    <3>. QED BY <2>2, <2>3, <3>1
  <2>. QED BY <1>1, <1>2, <1>5, <2>4, ProductOrder
<1>7. ASSUME NEW i \in 1 .. j - 1 PROVE Evenly(count, i) + 2 <= e
  <2> DEFINE d == Evenly(count, i)
  <2>1. i \in 1 .. count /\ i + 1 <= j
    OBVIOUS
  <2>2. d \in Nat /\ n * d <= i * cap /\ i * cap \in Nat
    BY <1>3, <1>4, <2>1
  <2>3. i * cap + cap <= j * cap /\ j * cap \in Nat
    <3>1. cap * (i + 1) <= cap * j
      BY <1>1, <2>1, ProductOrder
    <3>. QED BY <1>1, <3>1
  <2> HIDE DEF d
  <2>4. n * (d + 2) = n * d + 2 * n /\ n * d \in Nat
    BY <1>2, <2>2
  <2>5. n * d + 2 * n <= j * cap
    BY <1>1, <1>2, <2>2, <2>3, <2>4
  <2> DEFINE v == j * cap
             q == d + 2
  <2>6. v \in Nat /\ q \in Nat /\ n * q <= v
    BY <2>2, <2>3, <2>4, <2>5
  <2> HIDE DEF v, q, n
  <2>7. q <= v \div n
    BY <1>2, <2>6, QuotientAtLeast
  <2>. QED BY <1>3, <2>7 DEF d, v, q, n
<1>8. \A i \in 1 .. j - 1 : Evenly(count, i) \in Nat
  BY <1>4
<1>. QED BY <1>5, <1>6, <1>7, <1>8 DEF cap

\* No number is ever pushed up behind the one before it.
LEMMA ValuesAreEven ==
  ASSUME NEW count \in Nat
  PROVE  Values(count) = [k \in 1 .. count |-> OffZero(Evenly(count, k))]
<1> DEFINE Is(f) == f = [k \in 1 .. count |->
                      IF k > 1 /\ OffZero(Evenly(count, k)) <= f[k - 1]
                      THEN f[k - 1] + 1 ELSE OffZero(Evenly(count, k))]
           even == [k \in 1 .. count |-> OffZero(Evenly(count, k))]
<1>1. \A k \in 1 .. count : OffZero(Evenly(count, k)) \in Nat
  BY EvenlyApart, OffZeroIsNear
<1>2. ASSUME NEW k \in 1 .. count, k > 1
      PROVE  ~(OffZero(Evenly(count, k)) <= OffZero(Evenly(count, k - 1)))
  <2>1. k - 1 \in 1 .. k - 1 /\ k - 1 \in 1 .. count
    BY <1>2
  <2>2. /\ Evenly(count, k) \in Nat /\ Evenly(count, k - 1) \in Nat
        /\ Evenly(count, k - 1) + 2 <= Evenly(count, k)
    BY <2>1, EvenlyApart
  <2>3. /\ Evenly(count, k) <= OffZero(Evenly(count, k))
        /\ OffZero(Evenly(count, k - 1)) <= Evenly(count, k - 1) + 1
        /\ OffZero(Evenly(count, k)) \in Nat /\ OffZero(Evenly(count, k - 1)) \in Nat
    BY <2>2, OffZeroIsNear
  <2>. QED BY <2>2, <2>3
<1>3. Is(even)
  <2>1. ASSUME NEW k \in 1 .. count, k > 1
        PROVE  k - 1 \in 1 .. count /\ even[k - 1] = OffZero(Evenly(count, k - 1))
    BY <2>1
  <2>2. \A k \in 1 .. count : ~(k > 1 /\ OffZero(Evenly(count, k)) <= even[k - 1])
    BY <1>2, <2>1
  <2>3. \A k \in 1 .. count :
          even[k] = IF k > 1 /\ OffZero(Evenly(count, k)) <= even[k - 1]
                    THEN even[k - 1] + 1 ELSE OffZero(Evenly(count, k))
    BY <2>2
  <2>. QED BY <2>2, <2>3
<1>4. Values(count) = CHOOSE f : Is(f)
  BY DEF Values
<1> DEFINE f == Values(count)
<1> HIDE DEF even
<1>5. Is(f)
  BY <1>3, <1>4
<1> HIDE DEF f
<1>6. /\ f = [k \in 1 .. count |-> f[k]]
      /\ \A k \in 1 .. count : f[k] = IF k > 1 /\ OffZero(Evenly(count, k)) <= f[k - 1]
                                      THEN f[k - 1] + 1 ELSE OffZero(Evenly(count, k))
  BY <1>5
<1> HIDE DEF Is
<1> DEFINE Apart == {k \in 1 .. count : f[k] # OffZero(Evenly(count, k))}
           k == Min(Apart)
<1>7. ASSUME Apart # {} PROVE FALSE
  <2>1. Apart \in SUBSET Nat
    OBVIOUS
  <2>2. k \in Apart /\ \A j \in Apart : k <= j
    BY <1>7, <2>1, MinIsLeast
  <2> HIDE DEF k
  <2>3. k \in 1 .. count /\ f[k] # OffZero(Evenly(count, k))
    BY <2>2
  <2>4. k > 1 /\ OffZero(Evenly(count, k)) <= f[k - 1]
    BY <1>6, <2>3
  <2>5. k - 1 \in 1 .. count /\ ~(k <= k - 1)
    BY <2>3, <2>4
  <2>6. k - 1 \notin Apart
    BY <2>2, <2>5
  <2>7. f[k - 1] = OffZero(Evenly(count, k - 1))
    BY <2>5, <2>6
  <2>. QED BY <1>2, <2>3, <2>4, <2>7
<1>8. \A i \in 1 .. count : f[i] = OffZero(Evenly(count, i))
  BY <1>7
<1>9. f = [i \in 1 .. count |-> OffZero(Evenly(count, i))]
  BY <1>6, <1>8
<1>. QED BY <1>9 DEF f

\* rebalance: the keys are legal, and strictly in the order of the rows they
\* are given to; no two rows share one (fractional-indexer.ts:138-149).
THEOREM RebalanceSpreads ==
  ASSUME NEW count \in Nat, NEW j \in 1 .. count
  PROVE  /\ IsValidKey(Rebalance(count)[j])
         /\ \A i \in 1 .. j - 1 : Less(Rebalance(count)[i], Rebalance(count)[j])
<1> DEFINE width == Width(count)
           V(k) == OffZero(Evenly(count, k))
<1>1. width \in Nat /\ width >= 2
  BY WideEnough
<1>2. /\ V(j) \in Nat /\ V(j) < Power[width] /\ V(j) % Base # 0
      /\ \A i \in 1 .. j - 1 : V(i) \in Nat /\ V(i) < V(j)
  <2>1. /\ Evenly(count, j) \in Nat /\ Evenly(count, j) + 2 <= Power[width]
        /\ \A i \in 1 .. j - 1 :
             Evenly(count, i) \in Nat /\ Evenly(count, i) + 2 <= Evenly(count, j)
        /\ Power[width] \in Nat
    BY EvenlyApart, WideEnough
  <2>2. /\ V(j) \in Nat /\ Evenly(count, j) <= V(j) /\ V(j) <= Evenly(count, j) + 1
        /\ V(j) % Base # 0
    BY <2>1, OffZeroIsNear
  <2>3. V(j) < Power[width]
    BY <2>1, <2>2
  <2>4. ASSUME NEW i \in 1 .. j - 1 PROVE V(i) \in Nat /\ V(i) < V(j)
    <3>1. Evenly(count, i) \in Nat /\ Evenly(count, i) + 2 <= Evenly(count, j)
      BY <2>1
    <3>2. V(i) \in Nat /\ V(i) <= Evenly(count, i) + 1
      BY <3>1, OffZeroIsNear
    <3>. QED BY <2>1, <2>2, <3>1, <3>2
  <2>. QED BY <2>2, <2>3, <2>4
<1>3. \A k \in 1 .. count : Rebalance(count)[k] = EncodeFixed(V(k), width)
  BY ValuesAreEven DEF Rebalance
<1> HIDE DEF width, V
<1>4. ASSUME NEW i \in 1 .. j - 1 PROVE Less(Rebalance(count)[i], Rebalance(count)[j])
  <2>1. i \in 1 .. count /\ width >= 1
    BY <1>1
  <2>2. Less(EncodeFixed(V(i), width), EncodeFixed(V(j), width))
    BY <1>1, <1>2, <2>1, EncodedInOrder
  <2>. QED BY <1>3, <2>1, <2>2
<1>5. IsValidKey(EncodeFixed(V(j), width))
  <2> DEFINE key == EncodeFixed(V(j), width)
  <2>1. \A i \in 1 .. width : (V(j) \div Power[width - i]) % Base \in 0 .. Base - 1
    <3>1. ASSUME NEW i \in 1 .. width
          PROVE  (V(j) \div Power[width - i]) % Base \in 0 .. Base - 1
      <4> DEFINE q == V(j) \div Power[width - i]
      <4>1. width - i \in Nat
        BY <1>1
      <4>2. Power[width - i] \in Nat /\ Power[width - i] >= 1
        BY <4>1, PowerGrows
      <4>3. q \in Nat
        BY <1>2, <4>2, Quotient
      <4> HIDE DEF q
      <4>4. Base \in Nat /\ Base >= 1
        BY IndexAssumption
      <4>5. q % Base \in 0 .. Base - 1
        BY <4>3, <4>4, Quotient
      <4>. QED BY <4>5 DEF q
    <3>. QED BY <3>1
  <2>2. key = [i \in 1 .. width |-> (V(j) \div Power[width - i]) % Base]
    BY DEF EncodeFixed
  <2>3. key \in Seq(0 .. Base - 1) /\ Len(key) = width
    BY <1>1, <2>1, <2>2
  <2>4. key # <<>>
    BY <1>1, <2>3, EmptySeq
  <2>5. key[width] # 0
    <3>1. width \in 1 .. width /\ width - width = 0
      BY <1>1
    <3>2. key[width] = (V(j) \div Power[0]) % Base
      BY <2>2, <3>1
    <3>3. V(j) \div 1 = V(j)
      BY <1>2
    <3>. QED BY <1>2, <3>2, <3>3, PowerLaws
  <2> HIDE DEF key
  <2>6. IsValidKey(key)
    BY <2>3, <2>4, <2>5 DEF IsValidKey, Last
  <2>. QED BY <2>6 DEF key
<1>. QED BY <1>3, <1>4, <1>5

---------------------------------------------------------------------------
(* The order of lists and cards                                           *)

\* The legal keys, and what a row can be.
ValidKey == {key \in Seq(0 .. Base - 1) : IsValidKey(key)}

RowState == {Gone} \cup [col : Column, key : ValidKey]

\* What a request under way can hold.
Orders == [op : {"none", "create", "place", "append", "edit", "remove"},
           at : {"idle", "before", "after", "last", "insert", "save", "delete"},
           row : Row \cup {Nobody}, col : Column \cup {Elsewhere},
           before : Row \cup {Nobody}, after : Row \cup {Nobody},
           loaded : RowState, prev : ValidKey \cup {NoKey}, key : ValidKey \cup {NoKey},
           clean : BOOLEAN]

\* Where a request of each kind can be, and what it has by then.
InStep(r) ==
  /\ r.at = "idle" => r = Idle
  /\ r.at # "idle" =>
       /\ r.col \in Column
       /\ r.at \in CASE r.op = "create" -> {"last", "insert"}
                     [] r.op = "place" -> {"before", "after", "save"}
                     [] r.op = "append" -> {"last", "save"}
                     [] r.op = "edit" -> {"save"}
                     [] r.op = "remove" -> {"delete"}
                     [] OTHER -> {}
       /\ r.op # "create" => r.row \in Row /\ r.loaded \in [col : Column, key : ValidKey]
  /\ r.op = "edit" => r.key = NoKey
  /\ r.at = "insert" \/ (r.at = "save" /\ r.op # "edit") => r.key \in ValidKey

\* What a request that nothing overtook may rely on.
Undisturbed(r) ==
  /\ r.op = "edit" => row[r.row] = [col |-> r.col, key |-> r.loaded.key]
  /\ r.op \in {"create", "append"} /\ r.at \in {"insert", "save"} =>
       \A s \in RowsIn(r.col) : Less(row[s].key, r.key)
  /\ r.op = "place" =>
       /\ Adjacent(r.col, r.row, r.before, r.after)
       /\ r.before # r.after /\ r.row \notin {r.before, r.after}
  /\ r.at \in {"after", "save"} /\ r.op = "place" => IsThere(r.before, r.col)
  /\ r.at = "after" => r.prev = KeyOf(r.before)
  /\ r.at = "save" /\ r.op = "place" =>
       /\ IsThere(r.after, r.col)
       /\ r.before # Nobody => Less(row[r.before].key, r.key)
       /\ r.after # Nobody => Less(r.key, row[r.after].key)

\* A rebalance under way: a clean one still has the order of its column.
PassOK ==
  /\ pass = [col |-> pass.col, place |-> pass.place, clean |-> pass.clean]
  /\ pass.clean \in BOOLEAN
  /\ pass.col = Elsewhere => pass = NoPass
  /\ pass.col \in Column \cup {Elsewhere}
  /\ DOMAIN pass.place \subseteq Row
  /\ pass.place \in [DOMAIN pass.place -> 1 .. Cardinality(DOMAIN pass.place)]
  /\ pass.col # Elsewhere /\ pass.clean => pass.place = PlaceIn(RowsIn(pass.col))

\* The requests that will each take a new row id.
Creating == {q \in Request : req[q].op = "create"}

\* The inductive invariant.
OrderInv ==
  /\ row \in [Row -> RowState]
  /\ req \in [Request -> Orders]
  /\ \A q \in Request : InStep(req[q]) /\ (req[q].clean => Undisturbed(req[q]))
  /\ PassOK
  /\ disturbed \subseteq Row
  /\ counts \in [requests : Nat, rebalances : Nat, rows : Nat]
  /\ counts.rows + Cardinality(Creating) <= Cardinality(Row)
  /\ AlwaysRoom

\* What a legal key is.
LEMMA ValidKeys ==
  /\ \A key : key \in ValidKey <=> IsValidKey(key)
  /\ ValidKey \subseteq Seq(Digits) /\ NoKey \notin ValidKey
BY DEF ValidKey, IsValidKey, NoKey, Digits

\* The comparison of keys, by cases.
LEMMA KeysInOrder ==
  ASSUME NEW a \in ValidKey, NEW b \in ValidKey, NEW c \in ValidKey
  PROVE  /\ ~Less(a, a)
         /\ Less(a, b) /\ Less(b, c) => Less(a, c)
         /\ Less(a, b) \/ Less(b, a) \/ a = b
         /\ ~(Less(a, b) /\ Less(b, a))
<1>1. a \in Seq(Digits) /\ b \in Seq(Digits) /\ c \in Seq(Digits)
  BY ValidKeys
<1>2. /\ ~Less(a, a)
      /\ Less(a, b) /\ Less(b, c) => Less(a, c)
      /\ Less(a, b) \/ Less(b, a) \/ a = b
  BY <1>1, LessIsAnOrder
<1>3. Less(a, b) /\ Less(b, a) => Less(a, a)
  BY <1>1, LessIsAnOrder
<1>. QED BY <1>2, <1>3

\* A set of rows that have keys.
Keyed(rows, S) == S \subseteq Row /\ \A r \in S : rows[r].key \in ValidKey

\* The rows are the first numbers.
LEMMA RowsAreNumbered ==
  /\ Cardinality(Row) \in Nat /\ Row = 1 .. Cardinality(Row) /\ Row \subseteq Nat
<1> DEFINE n == Cardinality(Row)
<1>1. n \in Nat
  BY OrderAssumption, FS_CardinalityType
<1>2. Row = 1 .. n
  BY OrderAssumption
<1> HIDE DEF n
<1>3. Row \subseteq Nat
  BY <1>1, <1>2
<1>. QED BY <1>1, <1>2, <1>3 DEF n

\* Rows with legal keys are in a strict total order.
LEMMA PrecedesIsAnOrder ==
  ASSUME NEW rows, NEW S, Keyed(rows, S), NEW r \in S, NEW s \in S, NEW t \in S
  PROVE  /\ ~Precedes(rows, r, r)
         /\ Precedes(rows, r, s) /\ Precedes(rows, s, t) => Precedes(rows, r, t)
         /\ Precedes(rows, r, s) \/ Precedes(rows, s, r) \/ r = s
         /\ ~(Precedes(rows, r, s) /\ Precedes(rows, s, r))
<1>1. r \in Nat /\ s \in Nat /\ t \in Nat
  BY RowsAreNumbered DEF Keyed
<1> DEFINE a == rows[r].key
           b == rows[s].key
           c == rows[t].key
<1>2. a \in ValidKey /\ b \in ValidKey /\ c \in ValidKey
  BY DEF Keyed
<1>3. /\ Precedes(rows, r, r) <=> Less(a, a) \/ (a = a /\ r < r)
      /\ Precedes(rows, r, s) <=> Less(a, b) \/ (a = b /\ r < s)
      /\ Precedes(rows, s, r) <=> Less(b, a) \/ (b = a /\ s < r)
      /\ Precedes(rows, s, t) <=> Less(b, c) \/ (b = c /\ s < t)
      /\ Precedes(rows, r, t) <=> Less(a, c) \/ (a = c /\ r < t)
  BY DEF Precedes
<1> HIDE DEF a, b, c
<1>4. /\ ~Less(a, a) /\ ~Less(b, b)
      /\ Less(a, b) /\ Less(b, c) => Less(a, c)
      /\ Less(a, b) \/ Less(b, a) \/ a = b
      /\ ~(Less(a, b) /\ Less(b, a))
  BY <1>2, KeysInOrder
<1>. QED BY <1>1, <1>3, <1>4

\* Any set of rows is finite.
LEMMA RowsAreFinite ==
  ASSUME NEW S, S \subseteq Row
  PROVE  IsFiniteSet(S) /\ Cardinality(S) \in Nat
BY OrderAssumption, FS_Subset, FS_CardinalityType

\* A smaller set of rows has fewer of them.
LEMMA FewerRows ==
  ASSUME NEW S, NEW T, S \subseteq T, T \subseteq Row
  PROVE  /\ Cardinality(S) <= Cardinality(T)
         /\ S # T => Cardinality(S) < Cardinality(T)
<1>1. IsFiniteSet(T)
  BY RowsAreFinite
<1>. QED BY <1>1, FS_Subset, FS_CardinalityType

\* The places of a set of rows are in their order, and from one on.
LEMMA PlacesAreInOrder ==
  ASSUME NEW S, Keyed(row, S)
  PROVE  /\ PlaceIn(S) \in [S -> 1 .. Cardinality(S)]
         /\ \A r, s \in S : /\ Precedes(row, r, s) <=> PlaceIn(S)[r] < PlaceIn(S)[s]
                            /\ PlaceIn(S)[r] = PlaceIn(S)[s] => r = s
<1> DEFINE Before(r) == {s \in S : Precedes(row, s, r)}
<1>1. S \subseteq Row /\ Cardinality(S) \in Nat
  BY RowsAreFinite DEF Keyed
<1>2. ASSUME NEW r \in S
      PROVE  /\ PlaceIn(S)[r] = Cardinality(Before(r)) + 1
             /\ Cardinality(Before(r)) \in Nat
             /\ Cardinality(Before(r)) < Cardinality(S)
  <2>1. Before(r) \subseteq S /\ r \notin Before(r)
    BY PrecedesIsAnOrder
  <2>2. Before(r) # S /\ Before(r) \subseteq Row
    BY <1>1, <2>1
  <2>3. Cardinality(Before(r)) < Cardinality(S) /\ Cardinality(Before(r)) \in Nat
    BY <1>1, <2>1, <2>2, FewerRows, RowsAreFinite
  <2>. QED BY <2>3 DEF PlaceIn
<1>3. ASSUME NEW r \in S, NEW s \in S, Precedes(row, r, s)
      PROVE  PlaceIn(S)[r] < PlaceIn(S)[s]
  <2>1. Before(r) \subseteq Before(s)
    <3>1. ASSUME NEW t \in S, Precedes(row, t, r) PROVE Precedes(row, t, s)
      BY <1>3, <3>1, PrecedesIsAnOrder
    <3>. QED BY <3>1
  <2>2. r \in Before(s) /\ r \notin Before(r)
    BY <1>3, PrecedesIsAnOrder
  <2>3. Before(s) \subseteq Row
    BY <1>1
  <2>4. Cardinality(Before(r)) < Cardinality(Before(s))
    BY <2>1, <2>2, <2>3, FewerRows
  <2> HIDE DEF Before
  <2>. QED BY <1>2, <2>4
<1>4. PlaceIn(S) \in [S -> 1 .. Cardinality(S)]
  <2>1. \A r \in S : PlaceIn(S)[r] \in 1 .. Cardinality(S)
    <3> HIDE DEF Before
    <3>. QED BY <1>1, <1>2
  <2>2. PlaceIn(S) = [r \in S |-> PlaceIn(S)[r]]
    BY DEF PlaceIn
  <2>. QED BY <2>1, <2>2
<1>5. \A r \in S : PlaceIn(S)[r] \in Nat
  <2> HIDE DEF Before
  <2>. QED BY <1>2
<1>6. ASSUME NEW r \in S, NEW s \in S
      PROVE  /\ Precedes(row, r, s) <=> PlaceIn(S)[r] < PlaceIn(S)[s]
             /\ PlaceIn(S)[r] = PlaceIn(S)[s] => r = s
  <2>1. PlaceIn(S)[r] \in Nat /\ PlaceIn(S)[s] \in Nat
    BY <1>5
  <2>2. /\ Precedes(row, r, s) \/ Precedes(row, s, r) \/ r = s
        /\ ~Precedes(row, r, r)
    BY PrecedesIsAnOrder
  <2>3. /\ Precedes(row, r, s) => PlaceIn(S)[r] < PlaceIn(S)[s]
        /\ Precedes(row, s, r) => PlaceIn(S)[s] < PlaceIn(S)[r]
    BY <1>3
  <2>. QED BY <2>1, <2>2, <2>3
<1>. QED BY <1>4, <1>6

\* A finite set of rows has a last one.
LEMMA SomeLast ==
  ASSUME NEW S, Keyed(row, S), S # {}
  PROVE  \E r \in S : \A s \in S : ~Less(row[r].key, row[s].key)
<1> DEFINE n    == Cardinality(S)
           Rest == {n - PlaceIn(S)[r] : r \in S}
<1>1. n \in Nat
  BY RowsAreFinite DEF Keyed
<1>2. \A r \in S : PlaceIn(S)[r] \in 1 .. n
  BY PlacesAreInOrder
<1> HIDE DEF n
<1>3. Rest \in SUBSET Nat /\ Rest # {}
  BY <1>1, <1>2
<1>4. Min(Rest) \in Rest /\ \A k \in Rest : Min(Rest) <= k
  BY <1>3, MinIsLeast
<1>5. PICK r \in S : Min(Rest) = n - PlaceIn(S)[r]
  BY <1>4
<1>6. \A s \in S : n - PlaceIn(S)[r] <= n - PlaceIn(S)[s]
  BY <1>4, <1>5
<1>7. ASSUME NEW s \in S, Less(row[r].key, row[s].key) PROVE FALSE
  <2>1. Precedes(row, r, s)
    BY <1>7 DEF Precedes
  <2>2. PlaceIn(S)[r] < PlaceIn(S)[s]
    BY <2>1, PlacesAreInOrder
  <2>. QED BY <1>1, <1>2, <1>6, <2>2
<1>. QED BY <1>7

\* The rows of a column have keys.
LEMMA ColumnIsKeyed ==
  ASSUME row \in [Row -> RowState], NEW col \in Column
  PROVE  /\ Keyed(row, RowsIn(col))
         /\ \A r \in RowsIn(col) : row[r] \in [col : Column, key : ValidKey] /\ row[r].col = col
<1>1. Elsewhere \notin Column
  BY OrderAssumption
<1>. QED BY <1>1 DEF Keyed, RowsIn, RowState, Gone

\* A row appended to a column gets a key above all that are there.
LEMMA AppendIsLast ==
  ASSUME row \in [Row -> RowState], NEW col \in Column
  PROVE  /\ KeyForAppend(col) \in ValidKey
         /\ \A s \in RowsIn(col) : Less(row[s].key, KeyForAppend(col))
<1>1. Keyed(row, RowsIn(col))
  BY ColumnIsKeyed
<1>2. CASE RowsIn(col) = {}
  <2>1. KeyForAppend(col) = IntermediateKey(NoKey, NoKey)
    BY <1>2 DEF KeyForAppend
  <2>2. IsValidKey(IntermediateKey(NoKey, NoKey))
    BY AlwaysAKeyBetween DEF HasRoom
  <2>. QED BY <1>2, <2>1, <2>2, ValidKeys
<1>3. CASE RowsIn(col) # {}
  <2> DEFINE r   == LastIn(col)
             prev == row[r].key
             key == KeyForAppend(col)
  <2>1. r \in RowsIn(col) /\ \A s \in RowsIn(col) : ~Less(row[r].key, row[s].key)
    BY <1>1, <1>3, SomeLast DEF LastIn
  <2> HIDE DEF r
  <2>2. prev \in ValidKey /\ prev # NoKey
    BY <1>1, <2>1, ValidKeys DEF Keyed
  <2>3. key = IntermediateKey(prev, NoKey)
    BY <1>3 DEF KeyForAppend, r
  <2>4. IsValidKey(prev) /\ HasRoom(prev, NoKey)
    BY <2>2, ValidKeys DEF HasRoom
  <2> HIDE DEF prev, key
  <2>5. IsValidKey(key) /\ Less(prev, key)
    BY <2>2, <2>3, <2>4, AlwaysAKeyBetween
  <2>6. key \in ValidKey
    BY <2>5, ValidKeys
  <2>7. ASSUME NEW s \in RowsIn(col) PROVE Less(row[s].key, key)
    <3>1. row[s].key \in ValidKey /\ ~Less(prev, row[s].key)
      BY <1>1, <2>1 DEF Keyed, prev
    <3>2. Less(row[s].key, prev) \/ row[s].key = prev
      BY <2>2, <3>1, KeysInOrder
    <3>. QED BY <2>2, <2>5, <2>6, <3>1, <3>2, KeysInOrder
  <2>. QED BY <2>6, <2>7 DEF key
<1>. QED BY <1>2, <1>3

\* A key between two neighbours is not the key of any other row shown.
LEMMA BetweenIsFree ==
  ASSUME row \in [Row -> RowState], NEW col \in Column, NEW r, NEW before, NEW after,
         NEW key \in ValidKey,
         Adjacent(col, r, before, after),
         IsThere(before, col), IsThere(after, col),
         before # Nobody => Less(row[before].key, key),
         after # Nobody => Less(key, row[after].key),
         NEW s \in VisibleIn(col), s # r
  PROVE  row[s].key # key
<1> DEFINE others     == VisibleIn(col) \ {r}
           UpTo       == before # Nobody /\ (s = before \/ Precedes(row, s, before))
           Onwards    == after # Nobody /\ (s = after \/ Precedes(row, after, s))
<1>1. /\ {before, after} \subseteq others \cup {Nobody}
      /\ UpTo <=> ~Onwards
  BY DEF Adjacent
<1>2. Keyed(row, RowsIn(col)) /\ others \subseteq RowsIn(col) /\ s \in RowsIn(col)
  BY ColumnIsKeyed DEF VisibleIn
<1>3. row[s].key \in ValidKey
  BY <1>2 DEF Keyed
<1>4. ASSUME UpTo, row[s].key = key PROVE FALSE
  <2>1. before \in RowsIn(col) /\ row[before].key \in ValidKey
    BY <1>1, <1>2, <1>4 DEF Keyed
  <2>2. Less(row[before].key, row[s].key)
    BY <1>4
  <2>3. s # before /\ Precedes(row, s, before)
    BY <1>3, <1>4, <2>2, KeysInOrder
  <2>4. Less(row[s].key, row[before].key) \/ row[s].key = row[before].key
    BY <2>3 DEF Precedes
  <2>. QED BY <1>3, <2>1, <2>2, <2>4, KeysInOrder
<1>5. ASSUME Onwards, row[s].key = key PROVE FALSE
  <2>1. after \in RowsIn(col) /\ row[after].key \in ValidKey
    BY <1>1, <1>2, <1>5 DEF Keyed
  <2>2. Less(row[s].key, row[after].key)
    BY <1>5
  <2>3. s # after /\ Precedes(row, after, s)
    BY <1>3, <1>5, <2>2, KeysInOrder
  <2>4. Less(row[after].key, row[s].key) \/ row[s].key = row[after].key
    BY <2>3 DEF Precedes
  <2>. QED BY <1>3, <2>1, <2>2, <2>4, KeysInOrder
<1>. QED BY <1>1, <1>4, <1>5

\* What a request relies on stays true while no row changes.
LEMMA SameRowsSamePromise ==
  ASSUME NEW p, NEW r, Undisturbed(r), UNCHANGED row, req'[p] = r
  PROVE  Undisturbed(req[p])'
<1>1. /\ \A col : RowsIn(col)' = RowsIn(col) /\ VisibleIn(col)' = VisibleIn(col)
      /\ \A s, col : IsThere(s, col)' <=> IsThere(s, col)
      /\ \A s : KeyOf(s)' = KeyOf(s)
      /\ \A col, s, before, after :
           Adjacent(col, s, before, after)' <=> Adjacent(col, s, before, after)
  BY DEF RowsIn, VisibleIn, IsThere, KeyOf, Adjacent, Precedes
<1>. QED BY <1>1 DEF Undisturbed

\* A step of one request that changes no row.
LEMMA OwnStep ==
  ASSUME OrderInv, NEW q \in Request, NEW r \in Orders, To(q, r),
         InStep(r), r.clean => Undisturbed(r),
         UNCHANGED <<row, pass, disturbed>>,
         counts' \in [requests : Nat, rebalances : Nat, rows : Nat], counts'.rows = counts.rows,
         \/ r.op # "create" \/ req[q].op = "create"
         \/ counts.rows + Cardinality(Creating) < Cardinality(Row)
  PROVE  OrderInv'
<1>1. req' = [req EXCEPT ![q] = r] /\ req' \in [Request -> Orders]
  BY DEF To, OrderInv
<1>2. ASSUME NEW p \in Request
      PROVE  InStep(req'[p]) /\ (req'[p].clean => Undisturbed(req[p])')
  <2> DEFINE o == req'[p]
  <2>1. o = IF p = q THEN r ELSE req[p]
    BY <1>1 DEF OrderInv
  <2>2. InStep(o) /\ (o.clean => Undisturbed(o))
    BY <2>1 DEF OrderInv
  <2>3. o = req'[p] /\ UNCHANGED row
    OBVIOUS
  <2> HIDE DEF o
  <2>4. o.clean => Undisturbed(req[p])'
    BY <2>2, <2>3, SameRowsSamePromise
  <2>. QED BY <2>2, <2>3, <2>4
<1>3. /\ IsFiniteSet(Creating) /\ IsFiniteSet(Creating') /\ Cardinality(Creating) \in Nat
      /\ Cardinality(Creating') \in Nat
  BY OrderAssumption, FS_Subset, FS_CardinalityType DEF Creating
<1>4. counts.rows \in Nat /\ Cardinality(Row) \in Nat
  BY RowsAreNumbered DEF OrderInv
<1>5. counts'.rows + Cardinality(Creating') <= Cardinality(Row)
  <2>1. CASE r.op # "create" \/ req[q].op = "create"
    <3>1. Creating' \subseteq Creating
      BY <1>1, <2>1 DEF Creating
    <3>2. Cardinality(Creating') <= Cardinality(Creating)
      BY <1>3, <3>1, FS_Subset
    <3>. QED BY <1>3, <1>4, <3>2 DEF OrderInv
  <2>2. CASE counts.rows + Cardinality(Creating) < Cardinality(Row)
    <3>1. Creating' \subseteq Creating \cup {q}
      BY <1>1 DEF Creating
    <3>2. /\ IsFiniteSet(Creating \cup {q})
          /\ Cardinality(Creating \cup {q}) <= Cardinality(Creating) + 1
          /\ Cardinality(Creating \cup {q}) \in Nat
      <4> DEFINE S == Creating
      <4>1. IsFiniteSet(S) /\ Cardinality(S) \in Nat
        BY <1>3
      <4> HIDE DEF S
      <4>2. /\ IsFiniteSet(S \cup {q})
            /\ \/ Cardinality(S \cup {q}) = Cardinality(S)
               \/ Cardinality(S \cup {q}) = Cardinality(S) + 1
        BY <4>1, FS_AddElement
      <4>3. /\ IsFiniteSet(S \cup {q}) /\ Cardinality(S \cup {q}) \in Nat
            /\ Cardinality(S \cup {q}) <= Cardinality(S) + 1
        BY <4>1, <4>2
      <4>. QED BY <4>3 DEF S
    <3>3. Cardinality(Creating') <= Cardinality(Creating \cup {q})
      BY <3>1, <3>2, FS_Subset
    <3>. QED BY <1>3, <1>4, <2>2, <3>2, <3>3
  <2>. QED BY <2>1, <2>2
<1>6. PassOK' /\ AlwaysRoom'
  BY DEF OrderInv, PassOK, PlaceIn, Precedes, RowsIn, AlwaysRoom, VisibleIn
<1>. QED BY <1>1, <1>2, <1>5, <1>6 DEF OrderInv

\* A request that is over is in step, and has nothing to rely on.
LEMMA IdleIsInStep ==
  /\ Idle \in Orders /\ InStep(Idle) /\ Undisturbed(Idle) /\ Idle.op = "none"
BY DEF Idle, Orders, InStep, Undisturbed, RowState, Gone

\* A request begins.
LEMMA BeginsKeepOrder ==
  ASSUME OrderInv, NEW q \in Request, Begins(q)
  PROVE  OrderInv'
<1> USE DEF OrderInv
<1> DEFINE New(op, at, r, col, before, after, clean) ==
             [op |-> op, at |-> at, row |-> r, col |-> col, before |-> before, after |-> after,
              loaded |-> IF r = Nobody THEN Gone ELSE row[r],
              prev |-> NoKey, key |-> NoKey, clean |-> clean]
<1>1. ASSUME NEW op \in {"create", "place", "append", "edit", "remove"},
             NEW at \in {"last", "before", "save", "delete"},
             NEW r \in Row \cup {Nobody}, NEW col \in Column,
             NEW before \in Row \cup {Nobody}, NEW after \in Row \cup {Nobody},
             NEW clean \in BOOLEAN,
             Begin(q, op, at, r, col, before, after, clean),
             <<op, at>> \in {<<"create", "last">>, <<"place", "before">>, <<"append", "last">>,
                             <<"edit", "save">>, <<"remove", "delete">>},
             op # "create" => r \in Row /\ Exists(r),
             op = "create" => counts.rows + Cardinality(Creating) < Cardinality(Row),
             op = "edit" => col = row[r].col,
             clean /\ op = "place" => /\ Adjacent(col, r, before, after)
                                      /\ before # after /\ r \notin {before, after}
      PROVE  OrderInv'
  <2> DEFINE n == New(op, at, r, col, before, after, clean)
  <2>1. To(q, n) /\ UNCHANGED <<row, pass, disturbed>> /\ counts' = [counts EXCEPT !.requests = @ + 1]
    BY <1>1 DEF Begin
  <2>2. /\ n = [op |-> op, at |-> at, row |-> r, col |-> col, before |-> before, after |-> after,
                loaded |-> IF r = Nobody THEN Gone ELSE row[r],
                prev |-> NoKey, key |-> NoKey, clean |-> clean]
    OBVIOUS
  <2> HIDE DEF n, New
  <2>3. r \in Row => row[r] \in RowState /\ r # Nobody
    BY RowsAreNumbered DEF Nobody
  <2>4. n \in Orders
    BY <1>1, <2>2, <2>3 DEF Orders, RowState
  <2>5. op # "create" => r \in Row /\ n.loaded \in [col : Column, key : ValidKey] /\ n.loaded = row[r]
    BY <1>1, <2>2, <2>3 DEF Exists, RowState
  <2>6. InStep(n)
    BY <1>1, <2>2, <2>5 DEF InStep
  <2>7. clean => Undisturbed(n)
    <3>1. op = "edit" => row[r] = [col |-> col, key |-> n.loaded.key]
      BY <1>1, <2>5
    <3>. QED BY <1>1, <2>2, <3>1 DEF Undisturbed
  <2>8. counts' \in [requests : Nat, rebalances : Nat, rows : Nat] /\ counts'.rows = counts.rows
    BY <2>1
  <2>9. n.op = op /\ n.clean = clean
    BY <2>2
  <2>. QED BY <1>1, <2>1, <2>4, <2>6, <2>7, <2>8, <2>9, OwnStep
<1>2. \A r \in Row : Exists(r) => row[r].col \in Column
  BY DEF Exists, RowState
<1>3. CASE BeginCreate(q)
  <2>1. counts.rows + Cardinality(Creating) < Cardinality(Row)
    BY <1>3 DEF BeginCreate, Creating
  <2>2. PICK col \in Column : Begin(q, "create", "last", Nobody, col, Nobody, Nobody, TRUE)
    BY <1>3 DEF BeginCreate
  <2>. QED BY <1>1, <2>1, <2>2
<1>4. CASE BeginPlace(q)
  <2>1. PICK r \in {s \in Row : Exists(s)}, col \in Column, before, after \in Row \cup {Nobody} :
          /\ before # after /\ r \notin {before, after}
          /\ Begin(q, "place", "before", r, col, before, after, Adjacent(col, r, before, after))
    BY <1>4 DEF BeginPlace
  <2>2. PICK clean \in BOOLEAN : clean = Adjacent(col, r, before, after)
    BY DEF Adjacent
  <2>3. Begin(q, "place", "before", r, col, before, after, clean)
    BY <2>1, <2>2
  <2>4. /\ r \in Row /\ Exists(r) /\ r \in Row \cup {Nobody}
        /\ clean /\ "place" = "place" =>
             Adjacent(col, r, before, after) /\ before # after /\ r \notin {before, after}
    BY <2>1, <2>2
  <2>5. /\ "place" \in {"create", "place", "append", "edit", "remove"}
        /\ "before" \in {"last", "before", "save", "delete"}
        /\ <<"place", "before">> \in {<<"create", "last">>, <<"place", "before">>,
             <<"append", "last">>, <<"edit", "save">>, <<"remove", "delete">>}
        /\ "place" # "create" /\ "place" # "edit"
    OBVIOUS
  <2> HIDE DEF OrderInv
  <2>. QED BY <1>1, <2>1, <2>3, <2>4, <2>5
<1>5. CASE BeginAppend(q)
  <2>1. PICK r \in {s \in Row : Exists(s)}, col \in Column :
          Begin(q, "append", "last", r, col, Nobody, Nobody, TRUE)
    BY <1>5 DEF BeginAppend
  <2>. QED BY <1>1, <2>1
<1>6. CASE BeginEdit(q)
  <2>1. PICK r \in {s \in Row : Exists(s)} :
          Begin(q, "edit", "save", r, row[r].col, Nobody, Nobody, TRUE)
    BY <1>6 DEF BeginEdit
  <2>. QED BY <1>1, <1>2, <2>1
<1>7. CASE BeginRemove(q)
  <2>1. PICK r \in {s \in Row : Exists(s)} :
          Begin(q, "remove", "delete", r, row[r].col, Nobody, Nobody, TRUE)
    BY <1>7 DEF BeginRemove
  <2>. QED BY <1>1, <1>2, <2>1
<1>. QED BY <1>3, <1>4, <1>5, <1>6, <1>7 DEF Begins

\* A request that has its key, and one that has read the row before it.
GotKey(x, k, a) == [x EXCEPT !.key = k, !.at = a]
GotPrev(x, k) == [x EXCEPT !.prev = k, !.at = "after"]

\* A request that has its key is otherwise as it was.
LEMMA WithKey ==
  ASSUME NEW x \in Orders, NEW k \in ValidKey, NEW a \in {"insert", "save"}
  PROVE  LET y == GotKey(x, k, a) IN
         /\ y \in Orders
         /\ y.key = k /\ y.at = a /\ y.op = x.op /\ y.row = x.row /\ y.col = x.col
         /\ y.before = x.before /\ y.after = x.after /\ y.loaded = x.loaded
         /\ y.prev = x.prev /\ y.clean = x.clean
<1> DEFINE z == [x EXCEPT !.key = k]
           y == GotKey(x, k, a)
<1>1. z \in Orders
  BY DEF Orders
<1>2. y = [z EXCEPT !.at = a]
  BY DEF GotKey
<1> HIDE DEF z
<1>3. [z EXCEPT !.at = a] \in Orders
  BY <1>1 DEF Orders
<1>4. /\ y.key = k /\ y.at = a /\ y.op = x.op /\ y.row = x.row /\ y.col = x.col
      /\ y.before = x.before /\ y.after = x.after /\ y.loaded = x.loaded
      /\ y.prev = x.prev /\ y.clean = x.clean
  BY DEF Orders, GotKey
<1>. QED BY <1>2, <1>3, <1>4

\* A request that has read the row before it is otherwise as it was.
LEMMA WithPrev ==
  ASSUME NEW x \in Orders, NEW k \in ValidKey \cup {NoKey}
  PROVE  LET y == GotPrev(x, k) IN
         /\ y \in Orders
         /\ y.prev = k /\ y.at = "after" /\ y.op = x.op /\ y.row = x.row /\ y.col = x.col
         /\ y.before = x.before /\ y.after = x.after /\ y.loaded = x.loaded
         /\ y.key = x.key /\ y.clean = x.clean
<1> DEFINE z == [x EXCEPT !.prev = k]
           y == GotPrev(x, k)
<1>1. z \in Orders
  BY DEF Orders
<1>2. y = [z EXCEPT !.at = "after"]
  BY DEF GotPrev
<1> HIDE DEF z
<1>3. [z EXCEPT !.at = "after"] \in Orders
  BY <1>1 DEF Orders
<1>4. /\ y.prev = k /\ y.at = "after" /\ y.op = x.op /\ y.row = x.row /\ y.col = x.col
      /\ y.before = x.before /\ y.after = x.after /\ y.loaded = x.loaded
      /\ y.key = x.key /\ y.clean = x.clean
  BY DEF Orders, GotPrev
<1>. QED BY <1>2, <1>3, <1>4

\* The key of a neighbour that is there.
LEMMA NeighbourKey ==
  ASSUME row \in [Row -> RowState], NEW s \in Row \cup {Nobody}, NEW col \in Column,
         IsThere(s, col)
  PROVE  /\ s = Nobody => KeyOf(s) = NoKey
         /\ s # Nobody => KeyOf(s) = row[s].key /\ KeyOf(s) \in ValidKey
<1>1. s # Nobody => s \in RowsIn(col)
  BY DEF IsThere, RowsIn
<1>. QED BY <1>1, ColumnIsKeyed DEF KeyOf, Keyed

\* A request reads the end of its column, or a neighbour.
LEMMA ReadsKeepOrder ==
  ASSUME OrderInv, NEW q \in Request, ReadLast(q) \/ ReadBefore(q) \/ ReadAfter(q)
  PROVE  OrderInv'
<1> DEFINE x == req[q]
<1>0. /\ row \in [Row -> RowState] /\ x \in Orders /\ InStep(x) /\ (x.clean => Undisturbed(x))
      /\ counts \in [requests : Nat, rebalances : Nat, rows : Nat]
  BY DEF OrderInv
<1>1. x.before \in Row \cup {Nobody} /\ x.after \in Row \cup {Nobody} /\ x.clean \in BOOLEAN
  BY <1>0 DEF Orders
<1>2. ASSUME To(q, Idle), UNCHANGED <<row, pass, disturbed, counts>>
      PROVE  OrderInv'
  BY <1>0, <1>2, IdleIsInStep, OwnStep
<1>3. CASE ReadLast(q)
  <2> DEFINE k == KeyForAppend(x.col)
             a == IF x.op = "create" THEN "insert" ELSE "save"
  <2>1. x.at = "last" /\ To(q, GotKey(x, k, a)) /\ UNCHANGED <<row, pass, disturbed, counts>>
    BY <1>3 DEF ReadLast, GotKey
  <2>2. x.col \in Column /\ x.op \in {"create", "append"}
    BY <1>0, <2>1 DEF InStep
  <2>3. /\ k \in ValidKey /\ \A s \in RowsIn(x.col) : Less(row[s].key, k)
    BY <1>0, <2>2, AppendIsLast
  <2>4. a \in {"insert", "save"}
    OBVIOUS
  <2>6. a = "insert" <=> x.op = "create"
    OBVIOUS
  <2> HIDE DEF k, a, x
  <2>5. PICK y : y = GotKey(x, k, a)
    OBVIOUS
  <2>5a. /\ y \in Orders
         /\ y.key = k /\ y.at = a /\ y.op = x.op /\ y.row = x.row /\ y.col = x.col
         /\ y.before = x.before /\ y.after = x.after /\ y.loaded = x.loaded
         /\ y.prev = x.prev /\ y.clean = x.clean
    BY <1>0, <2>3, <2>4, <2>5, WithKey
  <2>7. To(q, y)
    BY <2>1, <2>5
  <2>8. InStep(y)
    BY <1>0, <2>1, <2>2, <2>3, <2>4, <2>5a, <2>6 DEF InStep
  <2>9. Undisturbed(y)
    BY <2>2, <2>3, <2>4, <2>5a DEF Undisturbed
  <2>. QED BY <1>0, <2>1, <2>5a, <2>7, <2>8, <2>9, OwnStep DEF x
<1>4. CASE ReadBefore(q)
  <2>1. x.at = "before" /\ UNCHANGED <<row, pass, disturbed, counts>>
    BY <1>4 DEF ReadBefore
  <2>2. x.col \in Column /\ x.op = "place"
    BY <1>0, <2>1 DEF InStep
  <2>3. CASE ~IsThere(x.before, x.col)
    <3>1. To(q, Idle)
      BY <1>4, <2>3 DEF ReadBefore
    <3>. QED BY <1>2, <2>1, <3>1
  <2>4. CASE IsThere(x.before, x.col)
    <3> DEFINE k == KeyOf(x.before)
    <3>1. To(q, GotPrev(x, k))
      BY <1>4, <2>4 DEF ReadBefore, GotPrev
    <3>2. k \in ValidKey \cup {NoKey}
      BY <1>0, <1>1, <2>2, <2>4, NeighbourKey
    <3> HIDE DEF k, x
    <3>3. PICK y : y = GotPrev(x, k)
      OBVIOUS
    <3>3a. /\ y \in Orders
           /\ y.prev = k /\ y.at = "after" /\ y.op = x.op /\ y.row = x.row /\ y.col = x.col
           /\ y.before = x.before /\ y.after = x.after /\ y.loaded = x.loaded
           /\ y.key = x.key /\ y.clean = x.clean
      BY <1>0, <3>2, <3>3, WithPrev
    <3>4. To(q, y)
      BY <3>1, <3>3
    <3>5. InStep(y)
      BY <1>0, <2>1, <2>2, <3>3a DEF InStep
    <3>6. y.clean => Undisturbed(y)
      BY <1>0, <2>2, <2>4, <3>3a DEF Undisturbed, k
    <3>. QED BY <1>0, <2>1, <3>3a, <3>4, <3>5, <3>6, OwnStep DEF x
  <2>. QED BY <2>3, <2>4
<1>5. CASE ReadAfter(q)
  <2> DEFINE next == KeyOf(x.after)
             k    == IntermediateKey(x.prev, next)
  <2>1. x.at = "after" /\ UNCHANGED <<row, pass, disturbed, counts>>
    BY <1>5 DEF ReadAfter
  <2>2. x.col \in Column /\ x.op = "place" /\ x.prev \in ValidKey \cup {NoKey}
    BY <1>0, <2>1 DEF InStep, Orders
  <2>3. CASE ~(IsThere(x.after, x.col) /\ HasRoom(x.prev, next))
    <3>1. To(q, Idle)
      BY <1>5, <2>3 DEF ReadAfter
    <3>. QED BY <1>2, <2>1, <3>1
  <2>4. CASE IsThere(x.after, x.col) /\ HasRoom(x.prev, next)
    <3>1. To(q, GotKey(x, k, "save"))
      BY <1>5, <2>4 DEF ReadAfter, GotKey
    <3>2. /\ x.after = Nobody => next = NoKey
          /\ x.after # Nobody => next = row[x.after].key /\ next \in ValidKey
      BY <1>0, <1>1, <2>2, <2>4, NeighbourKey
    <3>3. /\ x.prev = NoKey \/ IsValidKey(x.prev)
          /\ next = NoKey \/ IsValidKey(next)
          /\ HasRoom(x.prev, next)
      BY <2>2, <2>4, <3>2, ValidKeys
    <3> HIDE DEF next
    <3>4. /\ k \in ValidKey
          /\ x.prev # NoKey => Less(x.prev, k)
          /\ next # NoKey => Less(k, next)
      BY <3>3, AlwaysAKeyBetween, ValidKeys
    <3> HIDE DEF k, x
    <3>5. PICK y : y = GotKey(x, k, "save")
      OBVIOUS
    <3>5a. /\ y \in Orders
           /\ y.key = k /\ y.at = "save" /\ y.op = x.op /\ y.row = x.row /\ y.col = x.col
           /\ y.before = x.before /\ y.after = x.after /\ y.loaded = x.loaded
           /\ y.prev = x.prev /\ y.clean = x.clean
      BY <1>0, <3>4, <3>5, WithKey
    <3>6. To(q, y)
      BY <3>1, <3>5
    <3>7. InStep(y)
      BY <1>0, <2>1, <2>2, <3>4, <3>5a DEF InStep
    <3>8. ASSUME x.clean PROVE Undisturbed(y)
      <4>1. /\ Adjacent(x.col, x.row, x.before, x.after)
            /\ x.before # x.after /\ x.row \notin {x.before, x.after}
            /\ IsThere(x.before, x.col) /\ x.prev = KeyOf(x.before)
        BY <1>0, <2>1, <2>2, <3>8 DEF Undisturbed
      <4>2. x.before # Nobody => Less(row[x.before].key, k)
        BY <1>0, <1>1, <2>2, <3>4, <4>1, NeighbourKey, ValidKeys
      <4>3. x.after # Nobody => Less(k, row[x.after].key)
        BY <3>2, <3>4, ValidKeys
      <4>. QED BY <2>2, <2>4, <3>5a, <4>1, <4>2, <4>3 DEF Undisturbed
    <3>. QED BY <1>0, <2>1, <3>5a, <3>6, <3>7, <3>8, OwnStep DEF x
  <2>. QED BY <2>3, <2>4
<1>. QED BY <1>3, <1>4, <1>5

\* What is overtaken goes on, with nothing to rely on.
LEMMA OvertakenIsInStep ==
  ASSUME OrderInv, NEW p \in Request
  PROVE  /\ Overtaken(p) \in Orders /\ InStep(Overtaken(p))
         /\ Overtaken(p).clean => Overtaken(p) = Idle
         /\ Overtaken(p).op = req[p].op
<1>1. req[p] \in Orders /\ InStep(req[p])
  BY DEF OrderInv
<1>2. CASE req[p] = Idle
  <2>1. Overtaken(p) = Idle
    BY <1>2 DEF Overtaken
  <2>. QED BY <1>2, <2>1, IdleIsInStep
<1>3. CASE req[p] # Idle
  <2> DEFINE x == req[p]
             y == [x EXCEPT !.clean = FALSE]
  <2>1. Overtaken(p) = y
    BY <1>3 DEF Overtaken
  <2>2. y \in Orders
    BY <1>1 DEF Orders
  <2>3. /\ y.op = x.op /\ y.at = x.at /\ y.row = x.row /\ y.col = x.col /\ y.key = x.key
        /\ y.loaded = x.loaded /\ y.clean = FALSE
    BY <1>1 DEF Orders
  <2>4. x.at # "idle"
    BY <1>1, <1>3 DEF InStep
  <2> HIDE DEF y
  <2>5. InStep(y)
    BY <1>1, <2>3, <2>4 DEF InStep
  <2>. QED BY <2>1, <2>2, <2>3, <2>5
<1>. QED BY <1>2, <1>3

\* The requests after a commit: its own is over, the others are overtaken.
LEMMA RequestsOvertaken ==
  ASSUME OrderInv,
         req' \in {[p \in Request |-> Overtaken(p)]} \cup
                  {[p \in Request |-> IF p = q THEN Idle ELSE Overtaken(p)] : q \in Request}
  PROVE  /\ req' \in [Request -> Orders]
         /\ \A p \in Request : InStep(req'[p]) /\ (req'[p].clean => Undisturbed(req[p])')
         /\ Creating' \subseteq Creating
         /\ Cardinality(Creating') <= Cardinality(Creating)
<1>0. \A p \in Request : req'[p] = Idle \/ req'[p] = Overtaken(p)
  OBVIOUS
<1>1. \A p \in Request : req'[p] \in Orders /\ InStep(req'[p])
  BY <1>0, OvertakenIsInStep, IdleIsInStep
<1>2. req' \in [Request -> Orders]
  BY <1>1
<1>3. ASSUME NEW p \in Request, req'[p].clean PROVE Undisturbed(req[p])'
  <2>1. req'[p] = Idle
    BY <1>0, <1>3, OvertakenIsInStep
  <2>. QED BY <2>1 DEF Undisturbed, Idle
<1>4. Creating' \subseteq Creating
  BY <1>0, OvertakenIsInStep, IdleIsInStep DEF Creating
<1>5. IsFiniteSet(Creating)
  BY OrderAssumption, FS_Subset DEF Creating
<1>6. Cardinality(Creating') <= Cardinality(Creating)
  BY <1>4, <1>5, FS_Subset
<1>. QED BY <1>1, <1>2, <1>3, <1>4, <1>6

\* A commit that keeps the rows well typed and apart: every other request that is
\* under way is overtaken, and none of them relies on anything any more.
LEMMA CommitKeepsOrder ==
  ASSUME OrderInv, NEW q \in Request, Commit(q),
         row' \in [Row -> RowState], disturbed' \subseteq Row, AlwaysRoom',
         counts' \in [requests : Nat, rebalances : Nat, rows : Nat],
         counts'.rows = counts.rows \/ (counts'.rows = counts.rows + 1 /\ req[q].op = "create")
  PROVE  OrderInv'
<1>1. req' = [p \in Request |-> IF p = q THEN Idle ELSE Overtaken(p)]
  BY DEF Commit
<1>2. /\ req' \in [Request -> Orders]
      /\ \A p \in Request : InStep(req'[p]) /\ (req'[p].clean => Undisturbed(req[p])')
      /\ Creating' \subseteq Creating
      /\ Cardinality(Creating') <= Cardinality(Creating)
  BY <1>1, RequestsOvertaken
<1>3. /\ IsFiniteSet(Creating) /\ Cardinality(Creating) \in Nat
      /\ IsFiniteSet(Creating') /\ Cardinality(Creating') \in Nat
  BY OrderAssumption, FS_Subset, FS_CardinalityType DEF Creating
<1>4. counts.rows \in Nat /\ Cardinality(Row) \in Nat
      /\ counts.rows + Cardinality(Creating) <= Cardinality(Row)
  BY RowsAreNumbered DEF OrderInv
<1>5. counts'.rows + Cardinality(Creating') <= Cardinality(Row)
  <2>1. CASE counts'.rows = counts.rows
    BY <1>2, <1>3, <1>4, <2>1
  <2>2. CASE counts'.rows = counts.rows + 1 /\ req[q].op = "create"
    <3>1. q \in Creating /\ q \notin Creating'
      BY <1>1, <2>2, IdleIsInStep DEF Creating
    <3>2. Cardinality(Creating') < Cardinality(Creating)
      BY <1>2, <1>3, <3>1, FS_Subset
    <3>. QED BY <1>3, <1>4, <2>2, <3>2
  <2>. QED BY <2>1, <2>2
<1>6. PassOK'
  <2>1. CASE pass = NoPass
    <3>1. pass' = pass
      BY <2>1 DEF Commit
    <3>. QED BY <2>1, <3>1 DEF OrderInv, PassOK, NoPass
  <2>2. CASE pass # NoPass
    <3>1. pass' = [col |-> pass.col, place |-> pass.place, clean |-> FALSE]
      BY <2>2 DEF Commit, OrderInv, PassOK
    <3>2. pass.col # Elsewhere
      BY <2>2 DEF OrderInv, PassOK
    <3>. QED BY <3>1, <3>2 DEF OrderInv, PassOK
  <2>. QED BY <2>1, <2>2
<1>. QED BY <1>2, <1>5, <1>6 DEF OrderInv

\* One row changes, and gets room unless it is remembered as disturbed.
LEMMA RoomForOne ==
  ASSUME OrderInv, NEW r \in Row, NEW new \in RowState, row' = [row EXCEPT ![r] = new],
         disturbed \ {r} \subseteq disturbed',
         \/ r \in disturbed'
         \/ new = row[r] /\ disturbed' = disturbed
         \/ \A s \in VisibleIn(new.col) \ {r} : row[s].key # new.key
  PROVE  AlwaysRoom'
<1>0. row \in [Row -> RowState] /\ AlwaysRoom
  BY DEF OrderInv
<1>1. CASE new = row[r] /\ disturbed' = disturbed
  <2>1. row' = row
    BY <1>0, <1>1
  <2>. QED BY <1>0, <1>1, <2>1 DEF AlwaysRoom, VisibleIn, RowsIn
<1>2. CASE r \in disturbed' \/ \A s \in VisibleIn(new.col) \ {r} : row[s].key # new.key
  <2> SUFFICES ASSUME NEW col \in Column, NEW s \in Row, NEW t \in Row, s # t,
                      s \notin Hidden, t \notin Hidden, s \notin disturbed', t \notin disturbed',
                      row'[s].col = col, row'[t].col = col
               PROVE  row'[s].key # row'[t].key
    BY DEF AlwaysRoom, VisibleIn, RowsIn
  <2>1. CASE s # r /\ t # r
    <3>1. row'[s] = row[s] /\ row'[t] = row[t] /\ s \notin disturbed /\ t \notin disturbed
      BY <1>0, <2>1
    <3>. QED BY <1>0, <3>1 DEF AlwaysRoom, VisibleIn, RowsIn
  <2>2. CASE s = r
    <3>1. row'[s] = new /\ row'[t] = row[t] /\ t # r
      BY <1>0, <2>2
    <3>2. t \in VisibleIn(new.col) \ {r}
      BY <3>1 DEF VisibleIn, RowsIn
    <3>. QED BY <1>2, <2>2, <3>1, <3>2
  <2>3. CASE t = r
    <3>1. row'[t] = new /\ row'[s] = row[s] /\ s # r
      BY <1>0, <2>3
    <3>2. s \in VisibleIn(new.col) \ {r}
      BY <3>1 DEF VisibleIn, RowsIn
    <3>. QED BY <1>2, <2>3, <3>1, <3>2
  <2>. QED BY <2>1, <2>2, <2>3
<1>. QED BY <1>1, <1>2

\* What a save writes.
Saved(x) == [col |-> x.col, key |-> IF x.key = NoKey THEN x.loaded.key ELSE x.key]

\* A request that nothing overtook writes what is there already, or a key
\* that no other visible row of the column has.
LEMMA SavedHasRoom ==
  ASSUME OrderInv, NEW x \in Orders, InStep(x), x.at \in {"insert", "save"}
  PROVE  /\ Saved(x) \in [col : Column, key : ValidKey]
         /\ x.clean /\ Undisturbed(x) =>
              \/ x.key = NoKey /\ Saved(x) = row[x.row]
              \/ x.key # NoKey /\ \A s \in VisibleIn(x.col) \ {x.row} : row[s].key # Saved(x).key
<1>0. row \in [Row -> RowState]
  BY DEF OrderInv
<1>1. /\ x.col \in Column /\ x.op \in {"create", "place", "append", "edit"}
      /\ x.op # "edit" => x.key \in ValidKey /\ x.key # NoKey
      /\ x.op = "edit" => x.key = NoKey /\ x.loaded.key \in ValidKey
      /\ x.op = "create" => x.at = "insert"
      /\ x.op # "create" => x.at = "save"
  BY ValidKeys DEF InStep
<1>2. Saved(x) \in [col : Column, key : ValidKey]
  BY <1>1 DEF Saved
<1>3. ASSUME x.clean, Undisturbed(x), x.op = "edit" PROVE x.key = NoKey /\ Saved(x) = row[x.row]
  BY <1>1, <1>3 DEF Saved, Undisturbed
<1>4. ASSUME x.clean, Undisturbed(x), x.op # "edit", NEW s \in VisibleIn(x.col) \ {x.row}
      PROVE  row[s].key # Saved(x).key
  <2>1. Saved(x).key = x.key
    BY <1>1, <1>4 DEF Saved
  <2>2. s \in RowsIn(x.col) /\ row[s].key \in ValidKey
    BY <1>0, <1>1, <1>4, ColumnIsKeyed DEF VisibleIn, Keyed
  <2>3. CASE x.op \in {"create", "append"}
    <3>1. Less(row[s].key, x.key)
      BY <1>1, <1>4, <2>2, <2>3 DEF Undisturbed
    <3>. QED BY <1>1, <1>4, <2>1, <2>2, <3>1, KeysInOrder
  <2>4. CASE x.op = "place"
    <3>1. /\ Adjacent(x.col, x.row, x.before, x.after)
          /\ IsThere(x.before, x.col) /\ IsThere(x.after, x.col)
          /\ x.before # Nobody => Less(row[x.before].key, x.key)
          /\ x.after # Nobody => Less(x.key, row[x.after].key)
      BY <1>1, <1>4, <2>4 DEF Undisturbed
    <3>2. x.key \in ValidKey /\ s \in VisibleIn(x.col) /\ s # x.row
      BY <1>1, <1>4
    <3>. QED BY <1>0, <1>1, <2>1, <3>1, <3>2, BetweenIsFree
  <2>. QED BY <1>1, <1>4, <2>3, <2>4
<1>. QED BY <1>1, <1>2, <1>3, <1>4

\* A request inserts, saves or deletes its row.
LEMMA CommitsKeepOrder ==
  ASSUME OrderInv, NEW q \in Request, InsertRow(q) \/ Save(q) \/ DeleteRow(q)
  PROVE  OrderInv'
<1> DEFINE x == req[q]
<1>0. /\ row \in [Row -> RowState] /\ disturbed \subseteq Row /\ x \in Orders
      /\ InStep(x) /\ (x.clean => Undisturbed(x))
      /\ counts \in [requests : Nat, rebalances : Nat, rows : Nat]
  BY DEF OrderInv
<1>1. CASE InsertRow(q)
  <2> DEFINE r   == counts.rows + 1
             new == [col |-> x.col, key |-> x.key]
  <2>1. /\ x.at = "insert" /\ row' = [row EXCEPT ![r] = new]
        /\ counts' = [counts EXCEPT !.rows = r] /\ Remember(q, r) /\ Commit(q)
    BY <1>1 DEF InsertRow
  <2>2. x.op = "create" /\ x.key \in ValidKey
    BY <1>0, <2>1 DEF InStep
  <2>3. r \in Row
    <3>1. q \in Creating /\ IsFiniteSet(Creating)
      BY <2>2, OrderAssumption, FS_Subset DEF Creating
    <3>2. Cardinality(Creating) \in Nat /\ Cardinality(Creating) # 0
      BY <3>1, FS_CardinalityType, FS_EmptySet
    <3>3. counts.rows + Cardinality(Creating) <= Cardinality(Row) /\ counts.rows \in Nat
      BY DEF OrderInv
    <3>. QED BY <3>2, <3>3, RowsAreNumbered
  <2>4. new = Saved(x)
    BY <2>2, ValidKeys DEF Saved
  <2>5. /\ new \in [col : Column, key : ValidKey]
        /\ x.clean => \A s \in VisibleIn(x.col) \ {x.row} : row[s].key # new.key
    BY <1>0, <2>1, <2>2, <2>4, SavedHasRoom, ValidKeys
  <2>6. x.clean => \A s \in VisibleIn(new.col) \ {r} : row[s].key # new.key
    <3>1. ASSUME x.clean, NEW s \in VisibleIn(x.col) PROVE row[s].key # x.key
      <4>1. Less(row[s].key, x.key) /\ row[s].key \in ValidKey
        BY <1>0, <2>1, <2>2, <2>5, <3>1, ColumnIsKeyed DEF Undisturbed, VisibleIn, Keyed
      <4>. QED BY <2>2, <4>1, KeysInOrder
    <3>. QED BY <3>1
  <2>7. /\ disturbed' \subseteq Row /\ disturbed \ {r} \subseteq disturbed'
        /\ r \in disturbed' \/ x.clean
    BY <1>0, <2>1, <2>3 DEF Remember
  <2>8. row' \in [Row -> RowState] /\ new \in RowState
    BY <1>0, <2>1, <2>3, <2>5 DEF RowState
  <2>9. AlwaysRoom'
    BY <2>1, <2>3, <2>6, <2>7, <2>8, RoomForOne
  <2>10. counts' \in [requests : Nat, rebalances : Nat, rows : Nat] /\ counts'.rows = counts.rows + 1
    BY <1>0, <2>1
  <2>. QED BY <2>1, <2>2, <2>7, <2>8, <2>9, <2>10, CommitKeepsOrder
<1>2. CASE Save(q)
  <2> DEFINE new == Saved(x)
  <2>1. /\ x.at = "save" /\ row' = [row EXCEPT ![x.row] = new]
        /\ Remember(q, x.row) /\ Commit(q) /\ UNCHANGED counts
    BY <1>2 DEF Save, Saved
  <2>2. x.row \in Row /\ x.op # "create"
    BY <1>0, <2>1 DEF InStep
  <2>3. /\ new \in [col : Column, key : ValidKey] /\ new.col = x.col
        /\ x.clean => \/ x.key = NoKey /\ new = row[x.row]
                      \/ x.key # NoKey /\ \A s \in VisibleIn(x.col) \ {x.row} : row[s].key # new.key
    BY <1>0, <2>1, SavedHasRoom DEF Saved
  <2> HIDE DEF new
  <2>4. /\ disturbed' \subseteq Row /\ disturbed \ {x.row} \subseteq disturbed'
        /\ ~x.clean => x.row \in disturbed'
        /\ x.clean /\ x.key = NoKey => disturbed' = disturbed
    BY <1>0, <2>1, <2>2 DEF Remember
  <2>5. row' \in [Row -> RowState] /\ new \in RowState
    BY <1>0, <2>1, <2>2, <2>3 DEF RowState
  <2>6. AlwaysRoom'
    <3>1. \/ x.row \in disturbed'
          \/ new = row[x.row] /\ disturbed' = disturbed
          \/ \A s \in VisibleIn(new.col) \ {x.row} : row[s].key # new.key
      BY <2>3, <2>4
    <3>. QED BY <2>1, <2>2, <2>4, <2>5, <3>1, RoomForOne
  <2>. QED BY <1>0, <2>1, <2>4, <2>5, <2>6, CommitKeepsOrder
<1>3. CASE DeleteRow(q)
  <2>1. /\ x.at = "delete" /\ row' = [row EXCEPT ![x.row] = Gone]
        /\ disturbed' = disturbed \ {x.row} /\ Commit(q) /\ UNCHANGED counts
    BY <1>3 DEF DeleteRow
  <2>2. x.row \in Row
    BY <1>0, <2>1 DEF InStep
  <2>3. row' \in [Row -> RowState] /\ Gone \in RowState /\ disturbed' \subseteq Row
    BY <1>0, <2>1 DEF RowState
  <2>4. AlwaysRoom'
    <3> SUFFICES ASSUME NEW col \in Column, NEW s \in Row, NEW t \in Row, s # t,
                        s \notin Hidden, t \notin Hidden,
                        s \notin disturbed', t \notin disturbed',
                        row'[s].col = col, row'[t].col = col
                 PROVE  row'[s].key # row'[t].key
      BY DEF AlwaysRoom, VisibleIn, RowsIn
    <3>1. s # x.row /\ t # x.row
      BY <1>0, <2>1, <2>2, OrderAssumption DEF Gone
    <3>2. row'[s] = row[s] /\ row'[t] = row[t] /\ s \notin disturbed /\ t \notin disturbed
      BY <1>0, <2>1, <3>1
    <3>. QED BY <3>2 DEF OrderInv, AlwaysRoom, VisibleIn, RowsIn
  <2>. QED BY <1>0, <2>1, <2>3, <2>4, CommitKeepsOrder
<1>. QED BY <1>1, <1>2, <1>3

\* What the rebalance writes: a legal key for every row it read and finds,
\* different ones for different rows, in the order of the places it read.
LEMMA RewrittenKeys ==
  ASSUME OrderInv, RewriteKeys
  PROVE  /\ pass.col \in Column
         /\ row' \in [Row -> RowState]
         /\ \A r \in Row : /\ row'[r].col = row[r].col
                           /\ r \notin DOMAIN pass.place => row'[r] = row[r]
         /\ \A r, s \in DOMAIN pass.place :
              row[r] # Gone /\ row[s] # Gone /\ pass.place[r] < pass.place[s]
                => Less(row'[r].key, row'[s].key)
<1> DEFINE n    == Cardinality(DOMAIN pass.place)
           keys == Rebalance(n)
<1>0. /\ row \in [Row -> RowState] /\ PassOK /\ pass # NoPass
      /\ row' = [r \in Row |-> IF Exists(r) /\ r \in DOMAIN pass.place
                               THEN [row[r] EXCEPT !.key = keys[pass.place[r]]] ELSE row[r]]
  BY DEF OrderInv, RewriteKeys
<1>1. /\ pass.col \in Column /\ DOMAIN pass.place \subseteq Row
      /\ \A r \in DOMAIN pass.place : pass.place[r] \in 1 .. n
  BY <1>0 DEF PassOK
<1>2. n \in Nat
  BY <1>1, RowsAreFinite
<1> HIDE DEF n
<1>3. \A j \in 1 .. n : /\ keys[j] \in ValidKey
                        /\ \A i \in 1 .. j - 1 : Less(keys[i], keys[j])
  BY <1>2, RebalanceSpreads, ValidKeys
<1> HIDE DEF keys
<1>4. ASSUME NEW r \in Row
      PROVE  /\ row'[r] \in RowState /\ row'[r].col = row[r].col
             /\ r \notin DOMAIN pass.place => row'[r] = row[r]
             /\ r \in DOMAIN pass.place /\ row[r] # Gone => row'[r].key = keys[pass.place[r]]
  <2>1. CASE Exists(r) /\ r \in DOMAIN pass.place
    <3>1. row'[r] = [row[r] EXCEPT !.key = keys[pass.place[r]]]
      BY <1>0, <2>1
    <3>2. row[r] \in [col : Column, key : ValidKey] /\ keys[pass.place[r]] \in ValidKey
      BY <1>0, <1>1, <1>3, <2>1 DEF Exists, RowState
    <3>. QED BY <2>1, <3>1, <3>2 DEF RowState
  <2>2. CASE ~(Exists(r) /\ r \in DOMAIN pass.place)
    <3>1. row'[r] = row[r]
      BY <1>0, <2>2
    <3>. QED BY <1>0, <2>2, <3>1 DEF Exists
  <2>. QED BY <2>1, <2>2
<1>5. row' \in [Row -> RowState]
  BY <1>0, <1>4
<1>6. ASSUME NEW r \in DOMAIN pass.place, NEW s \in DOMAIN pass.place,
             row[r] # Gone, row[s] # Gone, pass.place[r] < pass.place[s]
      PROVE  Less(row'[r].key, row'[s].key)
  <2>1. pass.place[s] \in 1 .. n /\ pass.place[r] \in 1 .. pass.place[s] - 1
    BY <1>1, <1>2, <1>6
  <2>2. Less(keys[pass.place[r]], keys[pass.place[s]])
    BY <1>3, <2>1
  <2>. QED BY <1>1, <1>4, <1>6, <2>2
<1>. QED BY <1>1, <1>4, <1>5, <1>6

\* A rebalance that nothing overtook has read every row of its column.
LEMMA CleanPass ==
  ASSUME OrderInv, pass # NoPass, pass.clean
  PROVE  /\ Keyed(row, RowsIn(pass.col)) /\ pass.place = PlaceIn(RowsIn(pass.col))
         /\ DOMAIN pass.place = RowsIn(pass.col)
         /\ \A r \in RowsIn(pass.col) : pass.place[r] \in Nat /\ row[r] # Gone
<1>1. /\ pass.col \in Column /\ pass.place = PlaceIn(RowsIn(pass.col))
      /\ row \in [Row -> RowState]
  BY DEF OrderInv, PassOK
<1>2. Keyed(row, RowsIn(pass.col)) /\ \A r \in RowsIn(pass.col) : row[r] # Gone
  BY <1>1, ColumnIsKeyed, OrderAssumption DEF Gone
<1>3. PlaceIn(RowsIn(pass.col)) \in [RowsIn(pass.col) -> 1 .. Cardinality(RowsIn(pass.col))]
  BY <1>2, PlacesAreInOrder
<1>. QED BY <1>1, <1>2, <1>3

\* A rebalance writes its keys.
LEMMA RewriteKeepsOrder ==
  ASSUME OrderInv, RewriteKeys
  PROVE  OrderInv'
<1>1. /\ pass # NoPass /\ pass' = NoPass /\ counts' = counts
      /\ req' = [q \in Request |-> Overtaken(q)]
      /\ disturbed' = IF pass.clean THEN disturbed \ DOMAIN pass.place
                      ELSE disturbed \cup DOMAIN pass.place \cup RowsIn(pass.col)
  BY DEF RewriteKeys
<1>2. /\ pass.col \in Column /\ row' \in [Row -> RowState]
      /\ \A r \in Row : /\ row'[r].col = row[r].col
                        /\ r \notin DOMAIN pass.place => row'[r] = row[r]
      /\ \A r, s \in DOMAIN pass.place :
           row[r] # Gone /\ row[s] # Gone /\ pass.place[r] < pass.place[s]
             => Less(row'[r].key, row'[s].key)
  BY RewrittenKeys
<1>3. /\ req' \in [Request -> Orders]
      /\ \A p \in Request : InStep(req'[p]) /\ (req'[p].clean => Undisturbed(req[p])')
      /\ Cardinality(Creating') <= Cardinality(Creating)
  BY <1>1, RequestsOvertaken
<1>4. counts'.rows + Cardinality(Creating') <= Cardinality(Row)
  <2>1. /\ Cardinality(Creating) \in Nat /\ Cardinality(Creating') \in Nat
        /\ Cardinality(Row) \in Nat
    BY OrderAssumption, FS_Subset, FS_CardinalityType DEF Creating
  <2>. QED BY <1>1, <1>3, <2>1 DEF OrderInv
<1>5. disturbed' \subseteq Row
  <2>1. disturbed \subseteq Row /\ DOMAIN pass.place \subseteq Row
    BY DEF OrderInv, PassOK
  <2>. QED BY <1>1, <2>1 DEF RowsIn
<1>6. PassOK'
  <2>1. /\ NoPass.col = Elsewhere /\ NoPass.clean = TRUE /\ NoPass.place = <<>>
        /\ NoPass = [col |-> NoPass.col, place |-> NoPass.place, clean |-> NoPass.clean]
    BY DEF NoPass
  <2>2. DOMAIN <<>> = {} /\ <<>> \in [{} -> 1 .. Cardinality({})]
    OBVIOUS
  <2>. QED BY <1>1, <2>1, <2>2 DEF PassOK
<1>7. AlwaysRoom'
  <2> SUFFICES ASSUME NEW col \in Column, NEW s \in Row, NEW t \in Row, s # t,
                      s \notin Hidden, t \notin Hidden, s \notin disturbed', t \notin disturbed',
                      row'[s].col = col, row'[t].col = col
               PROVE  row'[s].key # row'[t].key
    BY DEF AlwaysRoom, VisibleIn, RowsIn
  <2>1. row[s].col = col /\ row[t].col = col
    BY <1>2
  <2>2. CASE pass.clean /\ col = pass.col
    <3>1. s \in RowsIn(pass.col) /\ t \in RowsIn(pass.col)
      BY <2>1, <2>2 DEF RowsIn
    <3>2. /\ pass.place = PlaceIn(RowsIn(pass.col)) /\ DOMAIN pass.place = RowsIn(pass.col)
          /\ pass.place[s] \in Nat /\ pass.place[t] \in Nat /\ row[s] # Gone /\ row[t] # Gone
          /\ Keyed(row, RowsIn(pass.col))
      BY <1>1, <2>2, <3>1, CleanPass
    <3>3. pass.place[s] # pass.place[t]
      BY <3>1, <3>2, PlacesAreInOrder
    <3>4. Less(row'[s].key, row'[t].key) \/ Less(row'[t].key, row'[s].key)
      BY <1>2, <3>1, <3>2, <3>3
    <3>5. row'[s].key \in ValidKey
      <4>1. row'[s] # Gone
        BY <2>1, <1>2, OrderAssumption DEF Gone
      <4>. QED BY <1>2, <4>1 DEF RowState
    <3>. QED BY <3>4, <3>5, KeysInOrder
  <2>3. CASE ~(pass.clean /\ col = pass.col)
    <3>1. s \notin DOMAIN pass.place /\ t \notin DOMAIN pass.place
      <4>1. CASE pass.clean
        BY <1>1, <2>1, <2>3, <4>1, CleanPass DEF RowsIn
      <4>2. CASE ~pass.clean
        BY <1>1, <4>2
      <4>. QED BY <4>1, <4>2
    <3>2. row'[s] = row[s] /\ row'[t] = row[t] /\ s \notin disturbed /\ t \notin disturbed
      BY <1>1, <1>2, <3>1
    <3>. QED BY <2>1, <3>2 DEF OrderInv, AlwaysRoom, VisibleIn, RowsIn
  <2>. QED BY <2>2, <2>3
<1>. QED BY <1>1, <1>2, <1>3, <1>4, <1>5, <1>6, <1>7 DEF OrderInv

\* A rebalance reads its column.
LEMMA ReadColumnKeepsOrder ==
  ASSUME OrderInv, ReadColumn
  PROVE  OrderInv'
<1>1. PICK col \in Column :
        /\ pass' = [col |-> col, place |-> PlaceIn(RowsIn(col)), clean |-> TRUE]
        /\ counts' = [counts EXCEPT !.rebalances = @ + 1]
        /\ UNCHANGED <<row, req, disturbed>>
  BY DEF ReadColumn
<1>2. Keyed(row, RowsIn(col)) /\ RowsIn(col) \subseteq Row
  BY ColumnIsKeyed DEF OrderInv, RowsIn
<1>3. PlaceIn(RowsIn(col)) \in [RowsIn(col) -> 1 .. Cardinality(RowsIn(col))]
  BY <1>2, PlacesAreInOrder
<1>4. RowsIn(col)' = RowsIn(col) /\ PlaceIn(RowsIn(col))' = PlaceIn(RowsIn(col))
  BY <1>1 DEF RowsIn, PlaceIn, Precedes
<1>5. PassOK'
  <2>1. pass'.col = col /\ pass'.clean = TRUE /\ pass'.place = PlaceIn(RowsIn(col))
    BY <1>1
  <2>2. PlaceIn(RowsIn(pass.col))' = PlaceIn(RowsIn(col))
    BY <1>1, <2>1 DEF RowsIn, PlaceIn, Precedes
  <2>. QED BY <1>1, <1>2, <1>3, <2>1, <2>2, OrderAssumption DEF PassOK
<1>6. \A p \in Request : InStep(req'[p]) /\ (req'[p].clean => Undisturbed(req[p])')
  <2>1. ASSUME NEW p \in Request PROVE InStep(req'[p]) /\ (req'[p].clean => Undisturbed(req[p])')
    <3>1. PICK o : o = req[p]
      OBVIOUS
    <3>2. req'[p] = o /\ UNCHANGED row
      BY <1>1, <3>1
    <3>3. InStep(o) /\ (o.clean => Undisturbed(o))
      BY <3>1 DEF OrderInv
    <3>4. o.clean => Undisturbed(req[p])'
      BY <3>2, <3>3, SameRowsSamePromise
    <3>. QED BY <3>2, <3>3, <3>4
  <2>. QED BY <2>1
<1>7. /\ counts' \in [requests : Nat, rebalances : Nat, rows : Nat] /\ counts'.rows = counts.rows
      /\ Creating' = Creating
  BY <1>1 DEF OrderInv, Creating
<1>8. AlwaysRoom'
  BY <1>1 DEF OrderInv, AlwaysRoom, VisibleIn, RowsIn
<1>. QED BY <1>1, <1>5, <1>6, <1>7, <1>8 DEF OrderInv

\* The first rows and no request.
LEMMA FirstOrder ==
  ASSUME OrderInit
  PROVE  OrderInv
<1>1. /\ row \in [Row -> {Gone} \cup [col : Column, key : FirstKeys]]
      /\ {r \in Row : row[r] # Gone} = FirstRows
      /\ \A r, s \in FirstRows : r < s /\ row[r].col = row[s].col => Less(row[r].key, row[s].key)
      /\ req = [q \in Request |-> Idle] /\ pass = NoPass /\ disturbed = {}
      /\ counts = [requests |-> 0, rebalances |-> 0, rows |-> Cardinality(FirstRows)]
  BY DEF OrderInit
<1>2. row \in [Row -> RowState]
  <2>1. FirstKeys \subseteq ValidKey
    BY OrderAssumption, ValidKeys
  <2>. QED BY <1>1, <2>1 DEF RowState
<1>3. \A q \in Request : InStep(req[q]) /\ Undisturbed(req[q]) /\ req[q] \in Orders
  BY <1>1, IdleIsInStep
<1>4. PassOK
  <2>1. /\ NoPass.col = Elsewhere /\ NoPass.clean = TRUE /\ NoPass.place = <<>>
        /\ NoPass = [col |-> NoPass.col, place |-> NoPass.place, clean |-> NoPass.clean]
    BY DEF NoPass
  <2>2. DOMAIN <<>> = {} /\ <<>> \in [{} -> 1 .. Cardinality({})]
    OBVIOUS
  <2>. QED BY <1>1, <2>1, <2>2 DEF PassOK
<1>5. /\ counts \in [requests : Nat, rebalances : Nat, rows : Nat]
      /\ counts.rows + Cardinality(Creating) <= Cardinality(Row)
  <2>1. FirstRows \subseteq Row
    BY OrderAssumption
  <2>2. /\ Cardinality(FirstRows) \in Nat /\ Cardinality(Row) \in Nat
        /\ Cardinality(FirstRows) <= Cardinality(Row)
    BY <2>1, RowsAreFinite, RowsAreNumbered, FewerRows
  <2>3. Creating = {}
    BY <1>1, IdleIsInStep DEF Creating
  <2>4. Cardinality(Creating) = 0
    BY <2>3, FS_EmptySet
  <2>. QED BY <1>1, <2>2, <2>4
<1>6. AlwaysRoom
  <2> SUFFICES ASSUME NEW col \in Column, NEW s \in RowsIn(col), NEW t \in RowsIn(col), s # t
               PROVE  row[s].key # row[t].key
    BY DEF AlwaysRoom, VisibleIn
  <2>1. /\ row[s].key \in ValidKey /\ row[t].key \in ValidKey
        /\ row[s].col = col /\ row[t].col = col /\ row[s] # Gone /\ row[t] # Gone
        /\ s \in Row /\ t \in Row
    BY <1>2, ColumnIsKeyed, OrderAssumption DEF Keyed, RowsIn, Gone
  <2>2. s \in FirstRows /\ t \in FirstRows /\ (s < t \/ t < s)
    BY <1>1, <2>1, RowsAreNumbered
  <2>3. Less(row[s].key, row[t].key) \/ Less(row[t].key, row[s].key)
    BY <1>1, <2>1, <2>2
  <2>. QED BY <2>1, <2>3, KeysInOrder
<1>. QED BY <1>1, <1>2, <1>3, <1>4, <1>5, <1>6 DEF OrderInv

\* Every step.
LEMMA OrderStep ==
  ASSUME OrderInv, [OrderNext]_orderVars
  PROVE  OrderInv'
<1>1. ASSUME NEW q \in Request, Begins(q) PROVE OrderInv'
  BY <1>1, BeginsKeepOrder
<1>2. ASSUME NEW q \in Request, Goes(q) PROVE OrderInv'
  BY <1>2, ReadsKeepOrder, CommitsKeepOrder DEF Goes
<1>3. CASE ReadColumn
  BY <1>3, ReadColumnKeepsOrder
<1>4. CASE RewriteKeys
  BY <1>4, RewriteKeepsOrder
<1>5. CASE UNCHANGED orderVars
  <2>1. UNCHANGED <<row, req, pass, disturbed, counts>>
    BY <1>5 DEF orderVars
  <2>2. \A p \in Request : InStep(req'[p]) /\ (req'[p].clean => Undisturbed(req[p])')
    <3>1. ASSUME NEW p \in Request
          PROVE InStep(req'[p]) /\ (req'[p].clean => Undisturbed(req[p])')
      <4>1. PICK o : o = req[p]
        OBVIOUS
      <4>2. req'[p] = o /\ UNCHANGED row
        BY <2>1, <4>1
      <4>3. InStep(o) /\ (o.clean => Undisturbed(o))
        BY <4>1 DEF OrderInv
      <4>4. o.clean => Undisturbed(req[p])'
        BY <4>2, <4>3, SameRowsSamePromise
      <4>. QED BY <4>2, <4>3, <4>4
    <3>. QED BY <3>1
  <2>3. PassOK' /\ AlwaysRoom' /\ Creating' = Creating
    BY <2>1 DEF OrderInv, PassOK, PlaceIn, Precedes, RowsIn, AlwaysRoom, VisibleIn, Creating
  <2>. QED BY <2>1, <2>2, <2>3 DEF OrderInv
<1>. QED BY <1>1, <1>2, <1>3, <1>4, <1>5 DEF OrderNext

\* The inductive invariant holds throughout.
LEMMA OrderInvariant == OrderSpec => []OrderInv
BY FirstOrder, OrderStep, PTL DEF OrderSpec

\* Every row that exists is in a column under a legal key, and so is every
\* key a request is about to write, whatever is created, moved, edited, removed
\* and rebalanced at once.
THEOREM OrderTypes == OrderSpec => []OrderTypeOK
<1>1. OrderInv => OrderTypeOK
  <2> SUFFICES ASSUME OrderInv PROVE OrderTypeOK
    OBVIOUS
  <2>1. \A r \in Row : Exists(r) => row[r].col \in Column /\ IsValidKey(row[r].key)
    BY ValidKeys DEF OrderInv, RowState, Exists
  <2>2. \A q \in Request :
          /\ req[q].at \in {"idle", "before", "after", "last", "insert", "save", "delete"}
          /\ req[q].key = NoKey \/ IsValidKey(req[q].key)
    BY ValidKeys DEF OrderInv, Orders
  <2>3. /\ pass.col \in Column \cup {Elsewhere} /\ DOMAIN pass.place \subseteq Row
        /\ disturbed \subseteq Row
    BY DEF OrderInv, PassOK
  <2>. QED BY <2>1, <2>2, <2>3 DEF OrderTypeOK
<1>. QED BY <1>1, OrderInvariant, PTL

\* There is room between any two visible rows of a column, after any number of
\* requests and rebalances, for rows that no overtaken request put there
\* (fractional-indexer.ts:17-24).
THEOREM RoomIsKept == OrderSpec => []AlwaysRoom
<1>1. OrderInv => AlwaysRoom
  BY DEF OrderInv
<1>. QED BY <1>1, OrderInvariant, PTL

\* Rows change, and a rebalance ends, at a commit only.
LEMMA WhatCommits ==
  ASSUME OrderInv, OrderNext
  PROVE  \/ UNCHANGED <<row>> /\ (pass # NoPass => pass' = pass)
         \/ \E q \in Request : (InsertRow(q) \/ Save(q) \/ DeleteRow(q)) /\ Commit(q)
         \/ RewriteKeys
<1>1. ASSUME NEW q \in Request, Begins(q) PROVE UNCHANGED <<row, pass>>
  BY <1>1 DEF Begins, BeginCreate, BeginPlace, BeginAppend, BeginEdit, BeginRemove, Begin
<1>2. ASSUME NEW q \in Request, ReadLast(q) \/ ReadBefore(q) \/ ReadAfter(q)
      PROVE  UNCHANGED <<row, pass>>
  BY <1>2 DEF ReadLast, ReadBefore, ReadAfter
<1>3. ASSUME NEW q \in Request, InsertRow(q) \/ Save(q) \/ DeleteRow(q) PROVE Commit(q)
  BY <1>3 DEF InsertRow, Save, DeleteRow
<1>4. ReadColumn => pass = NoPass /\ UNCHANGED row
  BY DEF ReadColumn
<1>. QED BY <1>1, <1>2, <1>3, <1>4 DEF OrderNext, Goes

\* A rebalance that nothing overtook leaves every column in its order
\* (position-rebalance.service.ts:20-21).
THEOREM RebalanceIsInOrder == OrderSpec => RebalanceKeepsOrder
<1> DEFINE InOrder == pass # NoPass /\ pass' = NoPass /\ pass.clean
                        => \A r, s \in Row :
                             Exists(r) /\ Exists(s) /\ row[r].col = row[s].col
                             => (Precedes(row', r, s) <=> Precedes(row, r, s))
<1>1. OrderInv /\ [OrderNext]_orderVars => [InOrder]_orderVars
  <2> SUFFICES ASSUME OrderInv, OrderNext, pass # NoPass, pass' = NoPass, pass.clean,
                      NEW r \in Row, NEW s \in Row, Exists(r), Exists(s), row[r].col = row[s].col
               PROVE  Precedes(row', r, s) <=> Precedes(row, r, s)
    OBVIOUS
  <2>1. RewriteKeys
    <3>1. ASSUME NEW q \in Request, Commit(q) PROVE FALSE
      <4>1. pass' = [pass EXCEPT !.clean = FALSE] /\ "clean" \in DOMAIN pass
        BY <3>1 DEF Commit, OrderInv, PassOK
      <4>2. pass'.clean = FALSE
        BY <4>1
      <4>. QED BY <4>2 DEF NoPass
    <3>. QED BY <3>1, WhatCommits
  <2>2. /\ row' \in [Row -> RowState]
        /\ \A t \in Row : /\ row'[t].col = row[t].col
                          /\ t \notin DOMAIN pass.place => row'[t] = row[t]
        /\ \A t, u \in DOMAIN pass.place :
             row[t] # Gone /\ row[u] # Gone /\ pass.place[t] < pass.place[u]
               => Less(row'[t].key, row'[u].key)
    BY <2>1, RewrittenKeys
  <2>3. /\ Keyed(row, RowsIn(pass.col)) /\ pass.place = PlaceIn(RowsIn(pass.col))
        /\ DOMAIN pass.place = RowsIn(pass.col)
        /\ \A t \in RowsIn(pass.col) : pass.place[t] \in Nat /\ row[t] # Gone
    BY CleanPass
  <2>4. CASE row[r].col # pass.col
    <3>1. row'[r] = row[r] /\ row'[s] = row[s]
      BY <2>2, <2>3, <2>4 DEF RowsIn
    <3>. QED BY <3>1 DEF Precedes
  <2>5. CASE row[r].col = pass.col
    <3>1. r \in RowsIn(pass.col) /\ s \in RowsIn(pass.col)
      BY <2>5 DEF RowsIn
    <3>2. Precedes(row, r, s) <=> pass.place[r] < pass.place[s]
      BY <2>3, <3>1, PlacesAreInOrder
    <3>3. /\ pass.place[r] \in Nat /\ pass.place[s] \in Nat
          /\ pass.place[r] = pass.place[s] => r = s
      BY <2>3, <3>1, PlacesAreInOrder
    <3>4. row'[r].key \in ValidKey /\ row'[s].key \in ValidKey
      <4>1. ASSUME NEW t \in RowsIn(pass.col) PROVE row'[t].key \in ValidKey
        <5>1. row'[t].col \in Column /\ t \in Row
          BY <2>1, <2>2, <4>1, RewrittenKeys DEF RowsIn
        <5>2. row'[t] # Gone
          BY <5>1, OrderAssumption DEF Gone
        <5>. QED BY <2>2, <5>1, <5>2 DEF RowState
      <4>. QED BY <3>1, <4>1
    <3>5. /\ pass.place[r] < pass.place[s] => Less(row'[r].key, row'[s].key)
          /\ pass.place[s] < pass.place[r] => Less(row'[s].key, row'[r].key)
      BY <2>2, <2>3, <3>1
    <3>6. r \in Nat /\ s \in Nat
      BY RowsAreNumbered
    <3>7. /\ ~(Less(row'[r].key, row'[s].key) /\ Less(row'[s].key, row'[r].key))
          /\ ~Less(row'[r].key, row'[r].key)
          /\ Less(row'[s].key, row'[r].key) => row'[s].key # row'[r].key
      BY <3>4, KeysInOrder
    <3>8. Precedes(row', r, s) <=> pass.place[r] < pass.place[s]
      <4>1. CASE pass.place[r] < pass.place[s]
        BY <3>5, <4>1 DEF Precedes
      <4>2. CASE pass.place[s] < pass.place[r]
        BY <3>3, <3>5, <3>7, <4>2 DEF Precedes
      <4>3. CASE r = s
        BY <3>3, <3>6, <3>7, <4>3 DEF Precedes
      <4>. QED BY <3>3, <4>1, <4>2, <4>3
    <3>. QED BY <3>2, <3>8
  <2>. QED BY <2>4, <2>5
<1>. QED BY <1>1, OrderInvariant, PTL DEF OrderSpec, RebalanceKeepsOrder

\* A request that nothing overtook puts its row where it was asked to: at the
\* end, or between the two neighbours it named (cards.service.ts:142-187).
THEOREM RequestsArePlaced == OrderSpec => PlacedAsAsked
<1> DEFINE AllPlaced == \A q \in Request :
                          /\ req[q].clean /\ req[q].op \in {"place", "append"}
                          /\ req'[q] = Idle /\ row' # row
                          => IsWhereAsked(q)
<1>1. OrderInv /\ [OrderNext]_orderVars => [AllPlaced]_orderVars
  <2> SUFFICES ASSUME OrderInv, OrderNext, NEW q \in Request,
                      req[q].clean, req[q].op \in {"place", "append"},
                      req'[q] = Idle, row' # row
               PROVE  IsWhereAsked(q)
    OBVIOUS
  <2> DEFINE x == req[q]
  <2>0. /\ x \in Orders /\ InStep(x) /\ Undisturbed(x) /\ row \in [Row -> RowState]
    BY DEF OrderInv
  <2>1. Save(q)
    <3>1. ASSUME NEW p \in Request, p # q, Commit(p) PROVE FALSE
      <4>1. req'[q] = Overtaken(q)
        BY <3>1 DEF Commit
      <4>. QED BY <4>1, OvertakenIsInStep, IdleIsInStep
    <3>2. ~RewriteKeys
      <4>1. ASSUME RewriteKeys PROVE FALSE
        <5>1. req'[q] = Overtaken(q)
          BY <4>1 DEF RewriteKeys
        <5>. QED BY <5>1, OvertakenIsInStep, IdleIsInStep
      <4>. QED BY <4>1
    <3>3. InsertRow(q) \/ Save(q) \/ DeleteRow(q)
      BY <3>1, <3>2, WhatCommits
    <3>. QED BY <2>0, <3>3 DEF InsertRow, DeleteRow, InStep
  <2> DEFINE new == Saved(x)
  <2>2. /\ x.at = "save" /\ row' = [row EXCEPT ![x.row] = new]
    BY <2>1 DEF Save, Saved
  <2>3. /\ x.col \in Column /\ x.row \in Row /\ x.key \in ValidKey /\ new.key = x.key
    BY <2>0, <2>2, ValidKeys DEF InStep, Saved
  <2> HIDE DEF new
  <2>4. /\ row'[x.row].key = x.key
        /\ \A s \in Row : s # x.row => row'[s] = row[s]
    BY <2>0, <2>2, <2>3
  <2>5. ASSUME NEW s \in Row, s # x.row
        PROVE  /\ Less(row[s].key, x.key) => Precedes(row', s, x.row)
               /\ row[s].key \in ValidKey /\ Less(x.key, row[s].key) => ~Precedes(row', s, x.row)
    <3>1. Precedes(row', s, x.row) <=>
            Less(row[s].key, x.key) \/ (row[s].key = x.key /\ s < x.row)
      BY <2>4, <2>5 DEF Precedes
    <3>. QED BY <2>3, <3>1, KeysInOrder
  <2>6. CASE x.op = "append"
    <3>1. \A s \in RowsIn(x.col) : Less(row[s].key, x.key)
      BY <2>0, <2>2, <2>6 DEF Undisturbed
    <3>2. \A s \in {t \in Row : row[t].col = x.col} \ {x.row} : Precedes(row', s, x.row)
      BY <2>5, <3>1 DEF RowsIn
    <3>. QED BY <2>6, <3>2 DEF IsWhereAsked
  <2>7. CASE x.op = "place"
    <3>1. /\ x.before # x.after /\ x.row \notin {x.before, x.after}
          /\ IsThere(x.before, x.col) /\ IsThere(x.after, x.col)
          /\ x.before # Nobody => Less(row[x.before].key, x.key)
          /\ x.after # Nobody => Less(x.key, row[x.after].key)
          /\ x.before \in Row \cup {Nobody} /\ x.after \in Row \cup {Nobody}
      BY <2>0, <2>2, <2>7 DEF Undisturbed, Orders
    <3>2. x.before # Nobody => /\ x.before \in Row /\ row[x.before].col = x.col
                               /\ x.before # x.row /\ Precedes(row', x.before, x.row)
      BY <2>5, <3>1 DEF IsThere
    <3>3. x.after # Nobody => ~Precedes(row', x.after, x.row)
      <4>1. x.after # Nobody => KeyOf(x.after) = row[x.after].key /\ KeyOf(x.after) \in ValidKey
        BY <2>0, <2>3, <3>1, NeighbourKey
      <4>. QED BY <2>5, <3>1, <4>1
    <3>. QED BY <2>7, <3>2, <3>3 DEF IsWhereAsked
  <2>. QED BY <2>6, <2>7
<1>. QED BY <1>1, OrderInvariant, PTL DEF OrderSpec, PlacedAsAsked
=============================================================================
