------------------------------ MODULE BoardOrder -------------------------------
(***************************************************************************)
(* The order of the rows of a column -- the cards of a list, or the lists  *)
(* of a board -- under concurrent requests and the nightly rebalance.      *)
(*                                                                         *)
(*   requests   src/backend/src/cards/cards.service.ts, and for lists      *)
(*              src/backend/src/lists/lists.service.ts, which is the same  *)
(*              scheme without neighbours                                  *)
(*   rebalance  src/backend/src/common/ordering/                           *)
(*              position-rebalance.service.ts                              *)
(*                                                                         *)
(* Every statement is a step, at READ COMMITTED.  A save writes the whole  *)
(* entity as the request loaded it, or inserts it again (TypeORM save).    *)
(* Row ids are numbered in the order of creation.                          *)
(***************************************************************************)
EXTENDS FractionalIndex

CONSTANTS
  Row, Column, Request,
  Elsewhere,      \* the column of a row that does not exist
  FirstRows,      \* the rows that exist at first
  FirstKeys,      \* their keys
  Hidden,         \* rows with a tombstone of the mobile sync: not listed
  MaxKeyLength,   \* MAX_KEY_LENGTH, 32 in the code
  Ops,            \* operations requested
  MaxRequests, MaxRebalances   \* bounds

ASSUME OrderAssumption ==
  /\ IsFiniteSet(Row) /\ Row = 1 .. Cardinality(Row)
  /\ IsFiniteSet(Request) /\ Elsewhere \notin Column
  /\ FirstRows \subseteq Row /\ FirstRows = 1 .. Cardinality(FirstRows)
  /\ \A key \in FirstKeys : IsValidKey(key)
  /\ Hidden \subseteq FirstRows
  /\ Ops \subseteq {"create", "place", "append", "edit", "remove"}

VARIABLES
  row,        \* row[r]: column and key, as committed
  req,        \* req[q]: a request under way
  pass,       \* the rebalance: the column it works on and the order it read
  disturbed,  \* rows whose last save overlapped another commit, or was asked
              \*   for between rows that were not neighbours (history)
  counts      \* requests, rebalances and row ids so far

orderVars == <<row, req, pass, disturbed, counts>>

Gone == [col |-> Elsewhere, key |-> NoKey]
Nobody == 0
Idle == [op |-> "none", at |-> "idle", row |-> Nobody, col |-> Elsewhere, before |-> Nobody,
         after |-> Nobody, loaded |-> Gone, prev |-> NoKey, key |-> NoKey, clean |-> TRUE]
NoPass == [col |-> Elsewhere, place |-> <<>>, clean |-> TRUE]

Exists(r) == row[r] # Gone
RowsIn(col) == {r \in Row : row[r].col = col}

\* findAll: rows a mobile client has deleted are left out.
VisibleIn(col) == RowsIn(col) \ Hidden

\* position_idx ASC, created_at ASC, id ASC; the place of each row in that order.
Precedes(rows, r, s) ==
  Less(rows[r].key, rows[s].key) \/ (rows[r].key = rows[s].key /\ r < s)
PlaceIn(ids) == [r \in ids |-> Cardinality({s \in ids : Precedes(row, s, r)}) + 1]

OrderTypeOK ==
  /\ \A r \in Row : Exists(r) => row[r].col \in Column /\ IsValidKey(row[r].key)
  /\ \A q \in Request :
       /\ req[q].at \in {"idle", "before", "after", "last", "insert", "save", "delete"}
       /\ req[q].key = NoKey \/ IsValidKey(req[q].key)
  /\ pass.col \in Column \cup {Elsewhere} /\ DOMAIN pass.place \subseteq Row
  /\ disturbed \subseteq Row

OrderInit ==
  /\ row \in {f \in [Row -> {Gone} \cup [col : Column, key : FirstKeys]] :
                /\ {r \in Row : f[r] # Gone} = FirstRows
                /\ \A r, s \in FirstRows : r < s /\ f[r].col = f[s].col => Less(f[r].key, f[s].key)}
  /\ req = [q \in Request |-> Idle]
  /\ pass = NoPass
  /\ disturbed = {}
  /\ counts = [requests |-> 0, rebalances |-> 0, rows |-> Cardinality(FirstRows)]

---------------------------------------------------------------------------
(* Requests                                                                *)

To(q, next) == req' = [req EXCEPT ![q] = next]

\* A commit by q: whatever else is under way is no longer clean.
Overtaken(p) == IF req[p] = Idle THEN Idle ELSE [req[p] EXCEPT !.clean = FALSE]

Commit(q) ==
  /\ req' = [p \in Request |-> IF p = q THEN Idle ELSE Overtaken(p)]
  /\ pass' = IF pass = NoPass THEN NoPass ELSE [pass EXCEPT !.clean = FALSE]

Begin(q, op, at, r, col, before, after, clean) ==
  /\ req[q] = Idle /\ op \in Ops
  /\ counts.requests < MaxRequests /\ counts' = [counts EXCEPT !.requests = @ + 1]
  /\ To(q, [op |-> op, at |-> at, row |-> r, col |-> col, before |-> before, after |-> after,
            loaded |-> IF r = Nobody THEN Gone ELSE row[r],
            prev |-> NoKey, key |-> NoKey, clean |-> clean])
  /\ UNCHANGED <<row, pass, disturbed>>

\* create: the list is looked up; a key of the client's own is not modelled.
BeginCreate(q) ==
  /\ counts.rows + Cardinality({p \in Request : req[p].op = "create"}) < Cardinality(Row)
  /\ \E col \in Column : Begin(q, "create", "last", Nobody, col, Nobody, Nobody, TRUE)

\* What the client sees next to each other in a column without r.
Adjacent(col, r, before, after) ==
  LET shown      == VisibleIn(col) \ {r}
      UpTo(s)    == before # Nobody /\ (s = before \/ Precedes(row, s, before))
      Onwards(s) == after # Nobody /\ (s = after \/ Precedes(row, after, s))
  IN /\ {before, after} \subseteq shown \cup {Nobody}
     /\ \A s \in shown : UpTo(s) <=> ~Onwards(s)

\* update with neighbours; the client may be behind and name any two.
BeginPlace(q) ==
  \E r \in {s \in Row : Exists(s)}, col \in Column, before, after \in Row \cup {Nobody} :
    /\ before # after /\ r \notin {before, after}
    /\ Begin(q, "place", "before", r, col, before, after, Adjacent(col, r, before, after))

\* update to another list, without neighbours.
BeginAppend(q) ==
  \E r \in {s \in Row : Exists(s)}, col \in Column :
    col # row[r].col /\ Begin(q, "append", "last", r, col, Nobody, Nobody, TRUE)

\* update of content only.
BeginEdit(q) ==
  \E r \in {s \in Row : Exists(s)} :
    Begin(q, "edit", "save", r, row[r].col, Nobody, Nobody, TRUE)

BeginRemove(q) ==
  \E r \in {s \in Row : Exists(s)} :
    Begin(q, "remove", "delete", r, row[r].col, Nobody, Nobody, TRUE)

\* Mutant: the lookup lost its DESC.
KeyForAppendAscending(col) ==
  LET first == CHOOSE r \in RowsIn(col) : \A s \in RowsIn(col) : ~Less(row[s].key, row[r].key)
  IN IntermediateKey(IF RowsIn(col) = {} THEN NoKey ELSE row[first].key, NoKey)

\* resolvePosition: after the last row of the column.
LastIn(col) == CHOOSE r \in RowsIn(col) : \A s \in RowsIn(col) : ~Less(row[r].key, row[s].key)

KeyForAppend(col) ==
  IntermediateKey(IF RowsIn(col) = {} THEN NoKey ELSE row[LastIn(col)].key, NoKey)

ReadLast(q) ==
  /\ req[q].at = "last"
  /\ To(q, [req[q] EXCEPT !.key = KeyForAppend(req[q].col),
                          !.at = IF req[q].op = "create" THEN "insert" ELSE "save"])
  /\ UNCHANGED <<row, pass, disturbed, counts>>

\* A neighbour must be in the target column by now.
IsThere(r, col) == r = Nobody \/ row[r].col = col
KeyOf(r) == IF r = Nobody THEN NoKey ELSE row[r].key

\* resolvePositionFromNeighbors, first query.
ReadBefore(q) ==
  /\ req[q].at = "before"
  /\ IF IsThere(req[q].before, req[q].col)
     THEN To(q, [req[q] EXCEPT !.prev = KeyOf(req[q].before), !.at = "after"])
     ELSE To(q, Idle)
  /\ UNCHANGED <<row, pass, disturbed, counts>>

\* Second query, and keyBetween, which throws when the keys are not in order.
ReadAfter(q) ==
  /\ req[q].at = "after"
  /\ LET next == KeyOf(req[q].after)
     IN IF IsThere(req[q].after, req[q].col) /\ HasRoom(req[q].prev, next)
        THEN To(q, [req[q] EXCEPT !.key = IntermediateKey(req[q].prev, next), !.at = "save"])
        ELSE To(q, Idle)
  /\ UNCHANGED <<row, pass, disturbed, counts>>

Remember(q, r) ==
  disturbed' = IF ~req[q].clean THEN disturbed \cup {r}
               ELSE IF req[q].key = NoKey THEN disturbed ELSE disturbed \ {r}

InsertRow(q) ==
  /\ req[q].at = "insert"
  /\ LET r == counts.rows + 1
     IN /\ row' = [row EXCEPT ![r] = [col |-> req[q].col, key |-> req[q].key]]
        /\ counts' = [counts EXCEPT !.rows = r]
        /\ Remember(q, r)
  /\ Commit(q)

Save(q) ==
  /\ req[q].at = "save"
  /\ row' = [row EXCEPT ![req[q].row] =
       [col |-> req[q].col, key |-> IF req[q].key = NoKey THEN req[q].loaded.key ELSE req[q].key]]
  /\ Remember(q, req[q].row)
  /\ Commit(q)
  /\ UNCHANGED counts

DeleteRow(q) ==
  /\ req[q].at = "delete"
  /\ row' = [row EXCEPT ![req[q].row] = Gone]
  /\ disturbed' = disturbed \ {req[q].row}
  /\ Commit(q)
  /\ UNCHANGED counts

---------------------------------------------------------------------------
(* The rebalance, one column of a pass at a time; the advisory lock lets   *)
(* one instance at it                                                      *)

Overlong(col) == \E r \in RowsIn(col) : Len(row[r].key) > MaxKeyLength

\* Mutant: no ORDER BY.
ReadColumnUnordered ==
  /\ pass = NoPass /\ counts.rebalances < MaxRebalances
  /\ \E col \in Column :
       /\ Overlong(col)
       /\ pass' = [col |-> col, clean |-> TRUE,
                   place |-> [r \in RowsIn(col) |-> Cardinality({s \in RowsIn(col) : s <= r})]]
  /\ counts' = [counts EXCEPT !.rebalances = @ + 1]
  /\ UNCHANGED <<row, req, disturbed>>

ReadColumn ==
  /\ pass = NoPass /\ counts.rebalances < MaxRebalances
  /\ \E col \in Column :
       /\ Overlong(col)
       /\ pass' = [col |-> col, place |-> PlaceIn(RowsIn(col)), clean |-> TRUE]
  /\ counts' = [counts EXCEPT !.rebalances = @ + 1]
  /\ UNCHANGED <<row, req, disturbed>>

\* UPDATE ... WHERE t.id = v.id, and commit.
RewriteKeys ==
  /\ pass # NoPass
  /\ LET keys == Rebalance(Cardinality(DOMAIN pass.place))
     IN row' = [r \in Row |->
          IF Exists(r) /\ r \in DOMAIN pass.place
          THEN [row[r] EXCEPT !.key = keys[pass.place[r]]] ELSE row[r]]
  /\ pass' = NoPass
  /\ req' = [q \in Request |-> Overtaken(q)]
  /\ disturbed' = IF pass.clean THEN disturbed \ DOMAIN pass.place
                   ELSE disturbed \cup DOMAIN pass.place \cup RowsIn(pass.col)
  /\ UNCHANGED counts

---------------------------------------------------------------------------
Begins(q) ==
  BeginCreate(q) \/ BeginPlace(q) \/ BeginAppend(q) \/ BeginEdit(q) \/ BeginRemove(q)
Goes(q) ==
  ReadLast(q) \/ ReadBefore(q) \/ ReadAfter(q) \/ InsertRow(q) \/ Save(q) \/ DeleteRow(q)

OrderNext == (\E q \in Request : Begins(q) \/ Goes(q)) \/ ReadColumn \/ RewriteKeys

OrderSpec == OrderInit /\ [][OrderNext]_orderVars

---------------------------------------------------------------------------
(* Properties                                                              *)

\* There is room between any two visible rows of a column
\* (fractional-indexer.ts:17-24), whatever was inserted, moved and rebalanced
\* before, unless a request that put one of them there was overtaken.
AlwaysRoom ==
  \A col \in Column : \A r, s \in VisibleIn(col) \ disturbed : r # s => row[r].key # row[s].key

\* The row of request q ends where q asked for it: last in its column, or
\* between the two neighbours q named.
IsWhereAsked(q) ==
  LET rest   == {s \in Row : row[s].col = req[q].col} \ {req[q].row}
      low    == {s \in rest : Precedes(row', s, req[q].row)}
      before == req[q].before
      after  == req[q].after
  IN IF req[q].op = "append" THEN low = rest
     ELSE (before = Nobody \/ before \in low) /\ (after = Nobody \/ after \notin low)

\* A request that nothing overtook puts its row where it was asked to.
PlacedAsAsked ==
  [][\A q \in Request :
       /\ req[q].clean /\ req[q].op \in {"place", "append"}
       /\ req'[q] = Idle /\ row' # row
       => IsWhereAsked(q)]_orderVars

\* A rebalance that nothing overtook leaves every column in its order.
RebalanceKeepsOrder ==
  [][pass # NoPass /\ pass' = NoPass /\ pass.clean
       => \A r, s \in Row : Exists(r) /\ Exists(s) /\ row[r].col = row[s].col
            => (Precedes(row', r, s) <=> Precedes(row, r, s))]_orderVars

\* "Ordering is preserved exactly" (position-rebalance.service.ts:20-21).
RebalancePreservesOrder ==
  [][pass # NoPass /\ pass' = NoPass
       => \A r, s \in Row : Exists(r) /\ Exists(s) /\ row[r].col = row[s].col
            => (Precedes(row', r, s) <=> Precedes(row, r, s))]_orderVars
=============================================================================
