---------------------------- MODULE BoardChannel -----------------------------
(***************************************************************************)
(* The realtime pipeline of one board, from a committed mutation to the    *)
(* listeners of a board view.                                              *)
(*                                                                         *)
(*   emit      src/backend/src/realtime/board-events.service.ts            *)
(*   Redis     src/backend/src/realtime/redis-pubsub.service.ts            *)
(*   gateway   src/backend/src/realtime/realtime.gateway.ts                *)
(*   client    src/frontend/src/realtime/boardSocketManager.ts             *)
(*                                                                         *)
(* A frame is its sequence number.  Every await of emit, handleJoin and    *)
(* handleSync is a point where others run; a handler of the client is one  *)
(* step.  Redis serves its subscribers, and a socket its receiver, in      *)
(* order; answers of different handlers overtake each other.               *)
(***************************************************************************)
EXTENDS Integers, Sequences, FiniteSetsExt

CONSTANTS
  Client,       \* board views, each with a socket of its own
  Store,        \* browsers, each with one localStorage
  StoreOf,      \* the browser a view runs in
  ReplayMax,    \* REPLAY_LOG_MAX_EVENTS (500 in the code)
  MaxEmits, MaxFrames, MaxFaults   \* bounds

ASSUME ChannelAssumption ==
  /\ StoreOf \in [Client -> Store]
  /\ ReplayMax \in Nat \ {0}

VARIABLES
  counter,   \* Redis: the sequence counter of the board
  log,       \* Redis: the replay log, a sorted set
  pub,       \* Redis: the frames published
  emit,      \* the calls of emit() under way
  feed,      \* feed[c]: published frames the gateway of c has yet to dispatch
  room,      \* the clients whose socket is in the board's room
  handling,  \* handling[c]: calls of handleJoin and handleSync under way
  inbox,     \* inbox[c]: messages on their way to c, in order
  link,      \* link[c]: is the socket of c connected?
  lastSeq,   \* lastSeq[s]: the number persisted in localStorage
  shown,     \* shown[c]: frames the listeners were given, or were covered by
             \*   a reload they were told of (history)
  overtaken, \* frames that reached the log after a later one, or never (history)
  misled,    \* misled[c]: numbers c holds from before a flush (history)
  refused,   \* clients that were answered with an error since they connected
  used       \* frames, and failures, drops and flushes, so far

redis == <<counter, log, pub>>
gateway == <<feed, room, handling>>
vars == <<counter, log, pub, emit, feed, room, handling, inbox, link, lastSeq,
          shown, overtaken, misled, refused, used>>

Handlers == [kind : {"joined", "result"}, pc : {"log", "head", "send"},
             since : Nat, frames : SUBSET Nat, head : Nat]
Messages == [kind : {"frame", "joined", "result"}, frames : SUBSET Nat, head : Nat]

TypeOK ==
  /\ counter \in Nat
  /\ log \subseteq 1 .. counter
  /\ pub \subseteq 1 .. counter
  /\ emit \subseteq [pc : {"numbered", "logged"}, seq : 1 .. counter]
  /\ feed \in [Client -> Seq(1 .. counter)]
  /\ room \subseteq {c \in Client : link[c] = "on"}
  /\ handling \in [Client -> SUBSET Handlers]
  /\ inbox \in [Client -> Seq(Messages)]
  /\ link \in [Client -> {"off", "on"}]
  /\ lastSeq \in [Store -> Nat]
  /\ shown \in [Client -> SUBSET (1 .. counter)]
  /\ overtaken \subseteq 1 .. counter
  /\ misled \in [Client -> Nat]
  /\ refused \subseteq Client
  /\ used \in [{"frames", "faults"} -> Nat]

Init ==
  /\ counter = 0 /\ log = {} /\ pub = {}
  /\ emit = {}
  /\ feed = [c \in Client |-> <<>>]
  /\ room = {}
  /\ handling = [c \in Client |-> {}]
  /\ inbox = [c \in Client |-> <<>>]
  /\ link = [c \in Client |-> "off"]
  /\ lastSeq = [s \in Store |-> 0]
  /\ shown = [c \in Client |-> {}]
  /\ overtaken = {}
  /\ misled = [c \in Client |-> 0]
  /\ refused = {}
  /\ used = [kind \in {"frames", "faults"} |-> 0]

Spend(kind, max) == used[kind] < max /\ used' = [used EXCEPT ![kind] = @ + 1]
Fault == Spend("faults", MaxFaults)
Send(c, message) == inbox' = [inbox EXCEPT ![c] = Append(@, message)]
Latest(frames, n) == {k \in frames : Cardinality({j \in frames : j > k}) < n}

---------------------------------------------------------------------------
(* emit(), called after the mutation was committed and not awaited         *)

\* Mutant: the number before the increment.
NumberBefore ==
  /\ Cardinality(emit) < MaxEmits /\ Spend("frames", MaxFrames)
  /\ counter' = counter + 1
  /\ emit' = emit \cup {[pc |-> "numbered", seq |-> counter]}
  /\ UNCHANGED <<log, pub, gateway, inbox, link, lastSeq, shown, overtaken, misled, refused>>

\* nextSequence: INCR.
Number ==
  /\ Cardinality(emit) < MaxEmits /\ Spend("frames", MaxFrames)
  /\ counter' = counter + 1
  /\ emit' = emit \cup {[pc |-> "numbered", seq |-> counter + 1]}
  /\ UNCHANGED <<log, pub, gateway, inbox, link, lastSeq, shown, overtaken, misled, refused>>

\* appendToReplayLog: ZADD, and all but the newest ReplayMax are trimmed.
AppendToLog(e) ==
  /\ e.pc = "numbered"
  /\ log' = Latest(log \cup {e.seq}, ReplayMax)
  /\ emit' = (emit \ {e}) \cup {[e EXCEPT !.pc = "logged"]}
  /\ overtaken' = overtaken \cup {f.seq : f \in {g \in emit : g.pc = "numbered" /\ g.seq < e.seq}}
  /\ UNCHANGED <<counter, pub, gateway, inbox, link, lastSeq, shown, misled, refused, used>>

\* Every instance of the gateway subscribes to the pattern of all boards.
FanOut(seq) == [c \in Client |-> Append(feed[c], seq)]

Publish(e) ==
  /\ e.pc = "logged"
  /\ pub' = pub \cup {e.seq}
  /\ feed' = FanOut(e.seq)
  /\ emit' = emit \ {e}
  /\ UNCHANGED <<counter, log, room, handling, inbox, link, lastSeq, shown, overtaken, misled,
                 refused, used>>

\* Redis fails the append or the publish; the error is logged and swallowed.
EmitFails(e) ==
  /\ Fault
  /\ emit' = emit \ {e}
  /\ overtaken' = IF e.pc = "numbered" THEN overtaken \cup {e.seq} ELSE overtaken
  /\ UNCHANGED <<redis, gateway, inbox, link, lastSeq, shown, misled, refused>>

\* The TTL of the replay log, set by the latest append, runs out; an emit()
\* takes less than that between its number and its append.
ExpireLog ==
  /\ log # {} /\ \A e \in emit : e.pc # "numbered"
  /\ log' = {}
  /\ UNCHANGED <<counter, pub, emit, gateway, inbox, link, lastSeq, shown, overtaken, misled,
                 refused, used>>

\* Redis loses its data; only while nothing is under way, to keep frames of
\* two numberings apart.
FlushRedis ==
  /\ counter > 0
  /\ emit = {}
  /\ \A c \in Client : feed[c] = <<>> /\ inbox[c] = <<>> /\ handling[c] = {}
  /\ Fault
  /\ counter' = 0 /\ log' = {} /\ pub' = {}
  /\ overtaken' = {}
  /\ shown' = [c \in Client |-> {}]
  /\ misled' = [c \in Client |-> lastSeq[StoreOf[c]]]
  /\ UNCHANGED <<emit, gateway, inbox, link, lastSeq, refused>>

---------------------------------------------------------------------------
(* The gateway                                                             *)

\* dispatch: the next frame from Redis.
Dispatched(c) == Head(feed[c])

\* broadcast: it goes to the sockets in the room.
Relay(c) ==
  /\ feed[c] # <<>>
  /\ feed' = [feed EXCEPT ![c] = Tail(@)]
  /\ LET seq == Dispatched(c)
     IN IF c \in room THEN Send(c, [kind |-> "frame", frames |-> {seq}, head |-> seq])
                      ELSE UNCHANGED inbox
  /\ UNCHANGED <<redis, emit, room, handling, link, lastSeq, shown, overtaken, misled, refused, used>>

\* handleJoin up to the socket being in the room.
Join(c) ==
  /\ link[c] = "on" /\ c \notin room /\ c \notin refused
  /\ room' = room \cup {c}
  /\ handling' = [handling EXCEPT ![c] = @ \cup
       {[kind |-> "joined", pc |-> "head", since |-> 0, frames |-> {}, head |-> 0]}]
  /\ UNCHANGED <<redis, emit, feed, inbox, link, lastSeq, shown, overtaken, misled, refused, used>>

Step(c, h, next) == handling' = [handling EXCEPT ![c] = (@ \ {h}) \cup {next}]

\* handleSync: getMissedEvents.
ReadLog(c, h) ==
  /\ h.pc = "log"
  /\ Step(c, h, [h EXCEPT !.pc = "head", !.frames = {n \in log : n > h.since}])
  /\ UNCHANGED <<redis, emit, feed, room, inbox, link, lastSeq, shown, overtaken, misled, refused, used>>

\* handleJoin and handleSync: currentSequence.
ReadHead(c, h) ==
  /\ h.pc = "head"
  /\ Step(c, h, [h EXCEPT !.pc = "send", !.head = counter])
  /\ UNCHANGED <<redis, emit, feed, room, inbox, link, lastSeq, shown, overtaken, misled, refused, used>>

Answer(c, h) ==
  /\ h.pc = "send"
  /\ handling' = [handling EXCEPT ![c] = @ \ {h}]
  /\ Send(c, [kind |-> h.kind, frames |-> h.frames, head |-> h.head])
  /\ UNCHANGED <<redis, emit, feed, room, link, lastSeq, shown, overtaken, misled, refused, used>>

\* The board look-up or Redis fails a handler; the client does not listen to
\* board:error and asks again on its next connection, or at the next gap.
Refuse(c) ==
  /\ link[c] = "on" /\ c \notin refused
  /\ Fault
  /\ refused' = refused \cup {c}
  /\ \/ c \notin room /\ UNCHANGED handling
     \/ \E h \in handling[c] : handling' = [handling EXCEPT ![c] = @ \ {h}]
  /\ UNCHANGED <<redis, emit, feed, room, inbox, link, lastSeq, shown, overtaken, misled>>

---------------------------------------------------------------------------
(* The client                                                              *)

Position(c) == lastSeq[StoreOf[c]]
SetLastSeq(c, n) == lastSeq' = [lastSeq EXCEPT ![StoreOf[c]] = n]

\* requestSync: board:sync with the number applied last.
RequestSync(c) ==
  handling' = [handling EXCEPT ![c] = @ \cup
    {[kind |-> "result", pc |-> "log", since |-> Position(c), frames |-> {}, head |-> 0]}]

\* The socket (re)connects, and its connect listener asks to join.
Connect(c) ==
  /\ link[c] = "off"
  /\ link' = [link EXCEPT ![c] = "on"]
  /\ UNCHANGED <<redis, emit, gateway, inbox, lastSeq, shown, overtaken, misled, refused, used>>

\* The connection breaks, or the view is left: what was on its way is gone.
Drop(c) ==
  /\ link[c] = "on"
  /\ Fault
  /\ link' = [link EXCEPT ![c] = "off"]
  /\ room' = room \ {c}
  /\ handling' = [handling EXCEPT ![c] = {}]
  /\ inbox' = [inbox EXCEPT ![c] = <<>>]
  /\ refused' = refused \ {c}
  /\ UNCHANGED <<redis, emit, feed, lastSeq, shown, overtaken, misled>>

\* applyInOrder for each frame, in their order: those behind are skipped.
ApplyInOrder(c, frames) ==
  LET fresh == {n \in frames : n > Position(c)}
  IN IF fresh = {} THEN UNCHANGED <<lastSeq, shown>>
     ELSE /\ SetLastSeq(c, Max(fresh))
          /\ shown' = [shown EXCEPT ![c] = @ \cup fresh]

\* setLastSeq(head) and onNeedsResync: the view loads the board again, which
\* covers whatever was numbered by now.
Realign(c, n) ==
  /\ SetLastSeq(c, n)
  /\ shown' = [shown EXCEPT ![c] = 1 .. counter]
  /\ misled' = [misled EXCEPT ![c] = 0]

\* Mutant: a client that is behind waits for the next frame.
HandleJoinedWaiting(c, head) ==
  \/ Position(c) > head /\ Realign(c, head) /\ UNCHANGED handling
  \/ head >= Position(c) /\ UNCHANGED <<lastSeq, shown, misled, handling>>

HandleJoined(c, head) ==
  \/ Position(c) > head /\ Realign(c, head) /\ UNCHANGED handling
  \/ head > Position(c) /\ RequestSync(c) /\ UNCHANGED <<lastSeq, shown, misled>>
  \/ head = Position(c) /\ UNCHANGED <<lastSeq, shown, misled, handling>>

\* Mutant: no look at whether the frames begin where the client stands.
HasGapNever(c, frames, head) == FALSE

HasGap(c, frames, head) ==
  IF frames = {} THEN head > Position(c) ELSE Min(frames) > Position(c) + 1

HandleResult(c, frames, head) ==
  /\ \/ HasGap(c, frames, head) /\ Realign(c, head)
     \/ ~HasGap(c, frames, head) /\ ApplyInOrder(c, frames) /\ UNCHANGED misled
  /\ UNCHANGED handling

\* Mutant: a frame ahead of its turn is applied all the same.
HandleIncomingAnyOrder(c, seq) ==
  ApplyInOrder(c, {seq}) /\ UNCHANGED <<misled, handling>>

HandleIncoming(c, seq) ==
  \/ seq > Position(c) + 1 /\ RequestSync(c) /\ UNCHANGED <<lastSeq, shown, misled>>
  \/ seq <= Position(c) + 1 /\ ApplyInOrder(c, {seq}) /\ UNCHANGED <<misled, handling>>

Receive(c) ==
  /\ inbox[c] # <<>>
  /\ LET message == Head(inbox[c])
     IN \/ message.kind = "frame"  /\ HandleIncoming(c, message.head)
        \/ message.kind = "joined" /\ HandleJoined(c, message.head)
        \/ message.kind = "result" /\ HandleResult(c, message.frames, message.head)
  /\ inbox' = [inbox EXCEPT ![c] = Tail(@)]
  /\ UNCHANGED <<redis, emit, feed, room, link, overtaken, refused, used>>

---------------------------------------------------------------------------
Handler(c) == \E h \in handling[c] : ReadLog(c, h) \/ ReadHead(c, h) \/ Answer(c, h)

Next ==
  \/ Number \/ \E e \in emit : AppendToLog(e) \/ Publish(e) \/ EmitFails(e)
  \/ ExpireLog \/ FlushRedis
  \/ \E c \in Client : Relay(c) \/ Join(c) \/ Handler(c) \/ Refuse(c)
  \/ \E c \in Client : Connect(c) \/ Drop(c) \/ Receive(c)

\* Redis answers, handlers run to their end, messages arrive and the socket
\* reconnects for ever (reconnectionAttempts: Infinity); mutations, faults and
\* the expiry of the log need not happen.
Fairness ==
  /\ WF_vars(\E e \in emit : AppendToLog(e) \/ Publish(e))
  /\ \A c \in Client :
       /\ WF_vars(Relay(c)) /\ WF_vars(Join(c)) /\ WF_vars(Handler(c))
       /\ WF_vars(Connect(c)) /\ WF_vars(Receive(c))

Spec == Init /\ [][Next]_vars
FairSpec == Spec /\ Fairness

---------------------------------------------------------------------------
(* Properties                                                              *)

\* The pipeline implements the feed, a frame being lost when its append to
\* the log failed or was overtaken (board-events.service.ts:38-42).
Feed == INSTANCE BoardFeed WITH
  head <- counter, lost <- overtaken, at <- [c \in Client |-> Position(c)],
  has <- shown, base <- misled

ImplementsFeed == Feed!Spec

\* A view has every frame up to its persisted lastSeq (boardSocketManager.ts:
\* 154-172, 239-255), whatever was dropped, delayed, expired or trimmed.
FramesCovered == Feed!Covered

\* The same without the excuse of an append that was overtaken: the events of
\* a sync result are contiguous (boardSocketManager.ts:170).
ResultsContiguous ==
  \A c \in Client : inbox[c] # <<>> /\ Head(inbox[c]).kind = "result" =>
    LET frames == Head(inbox[c]).frames
    IN frames # {} => frames = Min(frames) .. Max(frames)

\* Every published frame gets to every view that is not left without an
\* answer, through the socket, the log or a reload.
Reached(c) ==
  \A n \in pub : n \in shown[c] \/ n \in overtaken \/ n <= misled[c] \/ c \in refused

EveryFrameReaches == \A c \in Client : <>[]Reached(c)
=============================================================================
