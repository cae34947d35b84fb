------------------------------ MODULE BoardStore ------------------------------
(***************************************************************************)
(* One board view: the optimistic store of the web client, against the     *)
(* server rows, the frames of the realtime channel and the refetches that  *)
(* reload it.                                                              *)
(*                                                                         *)
(*   store     src/frontend/src/store/useBoardStore.ts                     *)
(*   frames    src/frontend/src/store/remoteMutations.ts                   *)
(*   requests  src/frontend/src/store/persistence.ts, api/boardLoader.ts   *)
(*   screens   src/frontend/src/components: AuthGate.tsx, Board.tsx        *)
(*                                                                         *)
(* The channel is used at the level of BoardFeed: frames in order, or a    *)
(* jump to a later one and the order to resync.  A request is handled by   *)
(* the server in one step; what two of them do to each other is in         *)
(* BoardOrder.  A key is a number; between two keys is their middle.       *)
(***************************************************************************)
EXTENDS Integers, Sequences, FiniteSets, SequencesExt

CONSTANTS
  List,         \* lists of the board
  Card,         \* cards of the server, those still to be created included
  Temp,         \* ids the client invents for cards it adds
  NoCard,
  Start,        \* Start[c]: the list of card c at first, Nowhere if uncreated
  Nowhere,
  PeerOps,      \* what other users do
  MaxMine, MaxPeers, MaxFaults,   \* bounds
  MaxUnsent     \* commits whose frame has no number yet; 1: numbered in order

ASSUME StoreAssumption ==
  /\ IsFiniteSet(Card)
  /\ Start \in [Card -> List \cup {Nowhere}] /\ Nowhere \notin List
  /\ Card \cap Temp = {} /\ NoCard \notin Card \cup Temp
  /\ PeerOps \subseteq {"move", "delete", "create", "deleteList"}

VARIABLES
  row,         \* server: row[c], the list and key of card c
  open,        \* server: the lists that exist
  unsent,      \* server: frames of committed mutations, without a number yet
  frames,      \* the frames of the board in their order
  lists,       \* store: the ids of each list, in order
  cards,       \* store: the known cards with their keys, 0 if undefined
  moveVersions,
  needsResync,
  lastSeq,     \* how many frames the view has worked through
  screen,      \* "board", "loading" or "error"
  fetch,       \* the lists' cards as far as a refetch has read them
  requests,    \* requests of this client under way
  strayed,     \* cards a known flaw may have misplaced (history)
  spent        \* how much of each bound a behaviour has used

rows == <<row, open>>
channel == <<unsent, frames>>
store == <<lists, cards, moveVersions, needsResync>>
storeVars == <<rows, channel, store, lastSeq, screen, fetch, requests, strayed, spent>>

Id == Card \cup Temp
Spacing == 16
Gone == [list |-> Nowhere, key |-> 0]
In(l) == {c \in Card : row[c].list = l}
Unread == <<NoCard>>

CallType == [op : {"move", "create"}, id : Id, from : List, to : List,
             index : Nat, key : Nat, version : Nat, before : Id \cup {NoCard},
             after : Id \cup {NoCard}, is : {"sent", "done", "failed"},
             card : Card \cup {NoCard}, minted : Nat,
             since : SUBSET {"mine", "frame", "reload"}]   \* (history)
FrameType == [type : {"card.moved", "card.deleted", "card.created", "card.updated",
                      "list.deleted"},
              card : Card \cup {NoCard}, list : List, key : Nat]

StoreTypeOK ==
  /\ row \in [Card -> [list : List \cup {Nowhere}, key : Nat]]
  /\ open \subseteq List
  /\ unsent \in Seq(FrameType) /\ frames \in Seq(FrameType)
  /\ DOMAIN lists \subseteq List /\ \A l \in DOMAIN lists : lists[l] \in Seq(Id)
  /\ DOMAIN cards \subseteq Id /\ \A c \in DOMAIN cards : cards[c] \in Nat
  /\ moveVersions \in [Id -> Nat]
  /\ needsResync \in BOOLEAN
  /\ lastSeq \in 0 .. Len(frames)
  /\ screen \in {"board", "loading", "error"}
  /\ DOMAIN fetch \subseteq List
  /\ requests \subseteq CallType
  /\ strayed \subseteq Id
  /\ spent \in [{"mine", "peers", "faults"} -> Nat]

\* The members of a finite set, in the order of their keys.
Sorted(S, key) ==
  CHOOSE f \in [1 .. Cardinality(S) -> S] :
    /\ ToSet(f) = S /\ IsInjective(f)
    /\ \A i, j \in DOMAIN f : i < j => key[f[i]] <= key[f[j]]

\* The cards of a list as the REST API returns them.
ByKey(l) == Sorted(In(l), [c \in In(l) |-> row[c].key])

StoreInit ==
  /\ row = [c \in Card |-> IF Start[c] = Nowhere THEN Gone
              ELSE [list |-> Start[c], key |-> Spacing * SelectInSeq(SetToSeq(Card), LAMBDA d : d = c)]]
  /\ open = List
  /\ unsent = <<>> /\ frames = <<>>
  /\ lists = [l \in List |-> ByKey(l)]
  /\ cards = [c \in {d \in Card : Start[d] # Nowhere} |-> row[c].key]
  /\ moveVersions = [c \in Id |-> 0]
  /\ needsResync = FALSE
  /\ lastSeq = 0
  /\ screen = "board"
  /\ fetch = <<>>
  /\ requests = {}
  /\ strayed = {}
  /\ spent = [kind \in {"mine", "peers", "faults"} |-> 0]

Use(kind, max) == spent[kind] < max /\ spent' = [spent EXCEPT ![kind] = @ + 1]

---------------------------------------------------------------------------
(* The server                                                              *)

\* keyForAppend and keyBetween; 0 stands for an open end.
AppendKey(l) == Spacing + IF In(l) = {} THEN 0 ELSE row[Last(ByKey(l))].key
KeyBetween(prev, next) == IF next = 0 THEN prev + Spacing ELSE (prev + next) \div 2

Frame(type, c, l, key) == [type |-> type, card |-> c, list |-> l, key |-> key]

\* A mutation commits; its frame gets its number later.
Commit(frame) ==
  /\ Len(unsent) < MaxUnsent
  /\ unsent' = Append(unsent, frame)
  /\ UNCHANGED frames

Emit ==
  \E i \in 1 .. Len(unsent) :
    /\ frames' = Append(frames, unsent[i])
    /\ unsent' = RemoveAt(unsent, i)
    /\ UNCHANGED <<rows, store, lastSeq, screen, fetch, requests, strayed, spent>>

\* An id no card has had yet.
Fresh(c) ==
  /\ Start[c] = Nowhere /\ row[c] = Gone
  /\ \A i \in 1 .. Len(frames) : frames[i].card # c
  /\ \A i \in 1 .. Len(unsent) : unsent[i].card # c

Place(c, l, key) == row' = [row EXCEPT ![c] = [list |-> l, key |-> key]]

Reply(k, is, c, key) ==
  requests' = (requests \ {k}) \cup {[k EXCEPT !.is = is, !.card = c, !.minted = key]}

Known(n, l) == n = NoCard \/ n \in In(l)
KeyOf(n) == IF n = NoCard THEN 0 ELSE row[n].key

\* A PATCH the server accepts: the neighbours are in the target list, in order.
Acceptable(k) ==
  /\ k.id \in Card /\ row[k.id] # Gone /\ k.to \in open
  /\ Known(k.before, k.to) /\ Known(k.after, k.to)
  /\ NoCard \notin {k.before, k.after} => k.before # k.after /\ KeyOf(k.before) < KeyOf(k.after)
  /\ k.id \notin {k.before, k.after}

\* CardsService.update; without neighbours a card goes to the end of another
\* list, or stays, which is broadcast as an update.
ServeMove(k) ==
  /\ k.is = "sent" /\ k.op = "move" /\ Acceptable(k)
  /\ LET alone == k.before = NoCard /\ k.after = NoCard
         stays == alone /\ row[k.id].list = k.to
         key   == IF stays THEN row[k.id].key
                  ELSE IF alone THEN AppendKey(k.to)
                  ELSE KeyBetween(KeyOf(k.before), KeyOf(k.after))
     IN /\ Place(k.id, k.to, key)
        /\ Reply(k, "done", k.id, key)
        /\ Commit(Frame(IF stays THEN "card.updated" ELSE "card.moved", k.id, k.to, key))
  /\ UNCHANGED <<open, store, lastSeq, screen, fetch, strayed, spent>>

RejectMove(k) ==
  /\ k.is = "sent" /\ k.op = "move" /\ ~Acceptable(k)
  /\ Reply(k, "failed", NoCard, 0)
  /\ UNCHANGED <<rows, channel, store, lastSeq, screen, fetch, strayed, spent>>

\* CardsService.create.
ServeCreate(k) ==
  /\ k.is = "sent" /\ k.op = "create" /\ k.to \in open
  /\ \E c \in Card :
       /\ Fresh(c)
       /\ Place(c, k.to, AppendKey(k.to))
       /\ Reply(k, "done", c, AppendKey(k.to))
       /\ Commit(Frame("card.created", c, k.to, AppendKey(k.to)))
  /\ UNCHANGED <<open, store, lastSeq, screen, fetch, strayed, spent>>

\* The request or its answer is lost.
FailCall(k) ==
  /\ k.is # "failed"
  /\ Use("faults", MaxFaults)
  /\ Reply(k, "failed", NoCard, 0)
  /\ UNCHANGED <<rows, channel, store, lastSeq, screen, fetch, strayed>>

\* Another user moves a card, after `prev` or to the front of a list.
PeerMove ==
  /\ "move" \in PeerOps /\ Use("peers", MaxPeers)
  /\ \E c \in {d \in Card : row[d] # Gone}, l \in open :
       \E prev \in {NoCard} \cup (In(l) \ {c}) :
         LET later == {d \in In(l) \ {c} : row[d].key > KeyOf(prev)}
             next  == IF later = {} THEN 0 ELSE Min({row[d].key : d \in later})
             key   == KeyBetween(KeyOf(prev), next)
         IN /\ Place(c, l, key)
            /\ Commit(Frame("card.moved", c, l, key))
  /\ UNCHANGED <<open, store, lastSeq, screen, fetch, requests, strayed>>

PeerDelete ==
  /\ "delete" \in PeerOps /\ Use("peers", MaxPeers)
  /\ \E c \in {d \in Card : row[d] # Gone} :
       /\ Commit(Frame("card.deleted", c, row[c].list, 0))
       /\ row' = [row EXCEPT ![c] = Gone]
  /\ UNCHANGED <<open, store, lastSeq, screen, fetch, requests, strayed>>

PeerCreate ==
  /\ "create" \in PeerOps /\ Use("peers", MaxPeers)
  /\ \E c \in Card, l \in open :
       /\ Fresh(c)
       /\ Place(c, l, AppendKey(l))
       /\ Commit(Frame("card.created", c, l, AppendKey(l)))
  /\ UNCHANGED <<open, store, lastSeq, screen, fetch, requests, strayed>>

\* A list goes with its cards.
PeerDeleteList ==
  /\ "deleteList" \in PeerOps /\ Use("peers", MaxPeers)
  /\ \E l \in open :
       /\ open' = open \ {l}
       /\ row' = [c \in Card |-> IF row[c].list = l THEN Gone ELSE row[c]]
       /\ Commit(Frame("list.deleted", NoCard, l, 0))
  /\ UNCHANGED <<store, lastSeq, screen, fetch, requests, strayed>>

---------------------------------------------------------------------------
(* The user                                                                *)

IndexOf(s, e) == SelectInSeq(s, LAMBDA d : d = e)
Splice(s, i, e) == InsertAt(s, IF i > Len(s) THEN Len(s) + 1 ELSE i, e)
Without(s, e) ==
  LET kept == {i \in DOMAIN s : s[i] # e}
      at   == Sorted(kept, [i \in kept |-> i])
  IN [n \in DOMAIN at |-> s[at[n]]]
Mark(ks, c, what) == {IF k.id = c THEN [k EXCEPT !.since = @ \cup {what}] ELSE k : k \in ks}
With(f, c, key) == [d \in DOMAIN f \cup {c} |-> IF d = c THEN key ELSE f[d]]
SetKey(c, key) ==
  cards' = IF c \in DOMAIN cards THEN [cards EXCEPT ![c] = key] ELSE cards

\* The lists with a card taken out of one and put into another, or the same.
Carry(c, from, to, i) ==
  LET taken == RemoveFirst(lists[from], c)
  IN [lists EXCEPT ![from] = taken,
                   ![to] = Splice(IF from = to THEN taken ELSE lists[to], i, c)]

\* A request as it is sent, with what a roll-back needs.
Sent(op, id, from, to, index, key, version, before, after) ==
  [op |-> op, id |-> id, from |-> from, to |-> to, index |-> index, key |-> key,
   version |-> version, before |-> before, after |-> after,
   is |-> "sent", card |-> NoCard, minted |-> 0, since |-> {}]

\* onDrop: beside a card of the list, by its closer edge, or at the end.
DropPlaces(from, to) == 1 .. Len(lists[to]) + (IF from = to THEN 0 ELSE 1)

\* moveCard up to the request: a card is dropped at place i of a list.
MoveCard(c, from, to, i) ==
  /\ screen = "board" /\ Use("mine", MaxMine)
  /\ c \in ToSet(lists[from]) /\ c \in DOMAIN cards
  /\ LET placed  == Carry(c, from, to, i)[to]
         at      == IndexOf(placed, c)
         version == moveVersions[c] + 1
     IN /\ ~(from = to /\ i = IndexOf(lists[from], c))
        /\ lists' = Carry(c, from, to, i)
        /\ moveVersions' = [moveVersions EXCEPT ![c] = version]
        /\ requests' = Mark(requests, c, "mine") \cup
             {Sent("move", c, from, to, IndexOf(lists[from], c), cards[c], version,
                   IF at > 1 THEN placed[at - 1] ELSE NoCard,
                   IF at < Len(placed) THEN placed[at + 1] ELSE NoCard)}
  /\ SetKey(c, 0)
  /\ UNCHANGED <<rows, channel, needsResync, lastSeq, screen, fetch, strayed>>

\* addCard up to the request.
AddCard(t, l) ==
  /\ screen = "board" /\ Use("mine", MaxMine)
  /\ t \notin DOMAIN cards /\ \A k \in requests : k.id # t
  /\ \A m \in DOMAIN lists : t \notin ToSet(lists[m])
  /\ lists' = [lists EXCEPT ![l] = Append(@, t)]
  /\ cards' = With(cards, t, 0)
  /\ requests' = requests \cup {Sent("create", t, l, l, 0, 0, 0, NoCard, NoCard)}
  /\ UNCHANGED <<rows, channel, moveVersions, needsResync, lastSeq, screen, fetch, strayed>>

---------------------------------------------------------------------------
(* Answers                                                                 *)

\* Mutant: no look at the version.
IsKnown(k) == k.id \in DOMAIN cards

IsLatest(k) == k.id \in DOMAIN cards /\ moveVersions[k.id] = k.version

\* The move was stored: the key is kept, unless a newer move took over.
MoveStored(k) ==
  /\ k.op = "move" /\ k.is = "done"
  /\ IF IsLatest(k) THEN SetKey(k.id, k.minted) ELSE UNCHANGED cards
  /\ UNCHANGED <<lists, strayed>>

\* The move failed: put back to where it came from, if it is the latest.
MoveFailed(k) ==
  /\ k.op = "move" /\ k.is = "failed"
  /\ \/ /\ IsLatest(k) /\ {k.from, k.to} \subseteq DOMAIN lists
        /\ lists' = IF k.id \notin ToSet(lists[k.to]) THEN lists
                    ELSE Carry(k.id, k.to, k.from, k.index)
        /\ IF k.key # 0 THEN SetKey(k.id, k.key) ELSE UNCHANGED cards
        /\ strayed' = IF "reload" \in k.since THEN strayed \cup {k.id} ELSE strayed
     \/ /\ ~(IsLatest(k) /\ {k.from, k.to} \subseteq DOMAIN lists)
        /\ strayed' = IF k.since \subseteq {"mine"} THEN strayed \cup {k.id} ELSE strayed
        /\ UNCHANGED <<lists, cards>>

\* The card was created: the temporary id is replaced, in that list only.
CardCreated(k) ==
  /\ k.op = "create" /\ k.is = "done"
  /\ lists' = IF k.to \in DOMAIN lists
              THEN [lists EXCEPT ![k.to] = [i \in DOMAIN @ |-> IF @[i] = k.id THEN k.card ELSE @[i]]]
              ELSE lists
  /\ cards' = With([c \in DOMAIN cards \ {k.id} |-> cards[c]], k.card, k.minted)
  /\ UNCHANGED strayed

CreateFailed(k) ==
  /\ k.op = "create" /\ k.is = "failed"
  /\ lists' = IF k.to \in DOMAIN lists THEN [lists EXCEPT ![k.to] = Without(@, k.id)] ELSE lists
  /\ cards' = [c \in DOMAIN cards \ {k.id} |-> cards[c]]
  /\ UNCHANGED strayed

Settle(k) ==
  /\ MoveStored(k) \/ MoveFailed(k) \/ CardCreated(k) \/ CreateFailed(k)
  /\ requests' = requests \ {k}
  /\ UNCHANGED <<rows, channel, moveVersions, needsResync, lastSeq, screen, fetch, spent>>

---------------------------------------------------------------------------
(* Frames: applyRemoteMutation with reconcileRemoteMutation                *)

\* insertionIndexForKey.
SlotFor(ids, key) ==
  SelectInSeq(Append(ids, NoCard), LAMBDA d :
    d = NoCard \/ (d \in DOMAIN cards /\ cards[d] # 0 /\ key < cards[d]))

\* Mutant: a frame does not count as a move.
StaleNot(f) == UNCHANGED moveVersions /\ requests' = Mark(requests, f.card, "frame")

\* A frame about a card makes the moves of it under way stale.
Stale(f) ==
  /\ moveVersions' = [moveVersions EXCEPT ![f.card] = @ + 1]
  /\ requests' = Mark(requests, f.card, "frame")

CardMoved(f) ==
  /\ f.type = "card.moved"
  /\ Stale(f)
  /\ IF f.card \in DOMAIN cards /\ f.list \in DOMAIN lists
     THEN /\ LET rest == [l \in DOMAIN lists |-> Without(lists[l], f.card)]
             IN lists' = [rest EXCEPT ![f.list] = Splice(@, SlotFor(@, f.key), f.card)]
          /\ cards' = [cards EXCEPT ![f.card] = f.key]
          /\ strayed' = strayed \ {f.card}
          /\ UNCHANGED needsResync
     ELSE /\ needsResync' = TRUE
          /\ UNCHANGED <<lists, cards, strayed>>

CardDeleted(f) ==
  /\ f.type = "card.deleted"
  /\ Stale(f)
  /\ IF f.card \in DOMAIN cards
     THEN /\ lists' = [l \in DOMAIN lists |-> Without(lists[l], f.card)]
          /\ cards' = [c \in DOMAIN cards \ {f.card} |-> cards[c]]
     ELSE UNCHANGED <<lists, cards>>
  /\ strayed' = strayed \ {f.card}
  /\ UNCHANGED needsResync

\* The cards shown in the list go with it.
ListDeleted(f) ==
  /\ f.type = "list.deleted"
  /\ IF f.list \in DOMAIN lists
     THEN LET dropped == ToSet(lists[f.list])
          IN /\ lists' = [l \in DOMAIN lists \ {f.list} |-> lists[l]]
             /\ cards' = [c \in DOMAIN cards \ dropped |-> cards[c]]
             /\ strayed' = strayed \cup {c \in dropped \cap Card : row[c] # Gone}
     ELSE UNCHANGED <<lists, cards, strayed>>
  /\ UNCHANGED <<moveVersions, needsResync, requests>>

ContentChanged(f) ==
  /\ f.type \in {"card.created", "card.updated"}
  /\ needsResync' = TRUE
  /\ UNCHANGED <<lists, cards, moveVersions, requests, strayed>>

ApplyFrame ==
  /\ screen = "board" /\ lastSeq < Len(frames)
  /\ lastSeq' = lastSeq + 1
  /\ LET f == frames[lastSeq + 1]
     IN CardMoved(f) \/ CardDeleted(f) \/ ListDeleted(f) \/ ContentChanged(f)
  /\ UNCHANGED <<rows, channel, screen, fetch, spent>>

\* Mutant: one too many.
JumpPast(n) ==
  /\ screen = "board" /\ lastSeq < n
  /\ Use("faults", MaxFaults)
  /\ lastSeq' = n + 1
  /\ needsResync' = TRUE
  /\ UNCHANGED <<rows, channel, lists, cards, moveVersions, screen, fetch, requests, strayed>>

\* The frames up to n cannot be had any more: markNeedsResync.
Jump(n) ==
  /\ screen = "board" /\ lastSeq < n
  /\ Use("faults", MaxFaults)
  /\ lastSeq' = n
  /\ needsResync' = TRUE
  /\ UNCHANGED <<rows, channel, lists, cards, moveVersions, screen, fetch, requests, strayed>>

---------------------------------------------------------------------------
(* Reloading the board                                                     *)

\* refetchBoard, by the effect of Board.tsx, or the retry button of AuthGate;
\* the board, and with it the socket, is gone until the end.
RefetchBoard ==
  /\ (screen = "board" /\ needsResync) \/ screen = "error"
  /\ screen' = "loading"
  /\ fetch' = [l \in open |-> Unread]
  /\ UNCHANGED <<rows, channel, store, lastSeq, requests, strayed, spent>>

\* fetchBoardSnapshot reads list by list.
ReadList(l) ==
  /\ screen = "loading" /\ fetch[l] = Unread /\ l \in open
  /\ fetch' = [fetch EXCEPT ![l] =
       [i \in 1 .. Cardinality(In(l)) |-> [card |-> ByKey(l)[i], key |-> row[ByKey(l)[i]].key]]]
  /\ UNCHANGED <<rows, channel, store, lastSeq, screen, requests, strayed, spent>>

\* composeBoardSnapshot: the lists as they were read, and a card once, though
\* it be in two of them.
SnapshotLists == [l \in DOMAIN fetch |-> [i \in DOMAIN fetch[l] |-> fetch[l][i].card]]

SnapshotCards ==
  LET read == UNION {ToSet(fetch[l]) : l \in DOMAIN fetch}
  IN [c \in {e.card : e \in read} |-> (CHOOSE e \in read : e.card = c).key]

HydrateBoard ==
  /\ screen = "loading" /\ \A l \in DOMAIN fetch : fetch[l] # Unread
  /\ lists' = SnapshotLists /\ cards' = SnapshotCards
  /\ moveVersions' = [c \in Id |-> 0]
  /\ needsResync' = FALSE
  /\ screen' = "board"
  /\ fetch' = <<>>
  /\ requests' = {[k EXCEPT !.since = @ \cup {"reload"}] : k \in requests}
  /\ strayed' = {}
  /\ UNCHANGED <<rows, channel, lastSeq, spent>>

FetchFails ==
  /\ screen = "loading"
  /\ \/ DOMAIN fetch \subseteq open /\ Use("faults", MaxFaults)
     \/ ~(DOMAIN fetch \subseteq open) /\ UNCHANGED spent
  /\ screen' = "error" /\ fetch' = <<>>
  /\ UNCHANGED <<rows, channel, store, lastSeq, requests, strayed>>

---------------------------------------------------------------------------
Serve(k) == ServeMove(k) \/ RejectMove(k) \/ ServeCreate(k)

StoreNext ==
  \/ Emit \/ PeerMove \/ PeerDelete \/ PeerCreate \/ PeerDeleteList
  \/ \E k \in requests : Serve(k) \/ FailCall(k) \/ Settle(k)
  \/ \E c \in Id, from, to \in DOMAIN lists :
       \E i \in DropPlaces(from, to) : MoveCard(c, from, to, i)
  \/ \E t \in Temp, l \in DOMAIN lists : AddCard(t, l)
  \/ ApplyFrame \/ \E n \in 1 .. Len(frames) : Jump(n)
  \/ RefetchBoard \/ (\E l \in DOMAIN fetch : ReadList(l)) \/ HydrateBoard \/ FetchFails

StoreSpec == StoreInit /\ [][StoreNext]_storeVars

---------------------------------------------------------------------------
(* Properties                                                              *)

Quiet == screen = "board" /\ ~needsResync /\ requests = {} /\ unsent = <<>> /\ lastSeq = Len(frames)

\* Where a column renders a card: BoardColumn leaves out ids without one.
ShownAt(l, c) == {i \in DOMAIN lists[l] : lists[l][i] = c /\ c \in DOMAIN cards}

\* A view at rest shows every card exactly once, in the list the server has
\* it in, after any race of drags, answers, frames and reloads; but for the
\* cards gone astray.
Agrees ==
  Quiet => \A l \in open, c \in Id \ strayed :
    /\ l \in DOMAIN lists
    /\ Cardinality(ShownAt(l, c)) = IF c \in In(l) THEN 1 ELSE 0

\* The lists of a view at rest are in the order of the keys
\* (remoteMutations.ts:32-37), when no request was lost and no card strayed.
\* It does not hold: two moves into a list that someone deletes are refused,
\* and each is rolled back to its old index, in the order of the refusals.
OrderAgrees ==
  Quiet /\ spent["faults"] = 0 /\ strayed = {} =>
    \A l \in open : \A i, j \in DOMAIN lists[l] :
      i < j => row[lists[l][i]].key <= row[lists[l][j]].key

\* A failed move that is not the latest of its card leaves the board alone
\* (useBoardStore.ts:16-21, 338-341), unless a reload reset the versions.
StaleMoveLeavesAlone ==
  [][\A k \in requests :
       /\ Settle(k) /\ k.op = "move" /\ k.is = "failed"
       /\ k.since # {} /\ "reload" \notin k.since
       => lists' = lists]_storeVars

\* The same, reloads or not.
OnlyLatestRollsBack ==
  [][\A k \in requests :
       /\ Settle(k) /\ k.op = "move" /\ k.is = "failed"
       /\ k.since \cap {"mine", "frame"} # {}
       => lists' = lists]_storeVars
=============================================================================
