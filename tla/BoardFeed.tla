------------------------------ MODULE BoardFeed ------------------------------
(***************************************************************************)
(* What the realtime pipeline promises a board view, whatever Redis, the   *)
(* gateway and the socket do: the frames of the board, numbered from 1,    *)
(* are handed over in their order, and one is passed over only if it was   *)
(* lost, or if the view is told to load the whole board again.             *)
(***************************************************************************)
EXTENDS Integers

CONSTANT Client

VARIABLES
  head,   \* frames numbered so far
  lost,   \* frames that may be missing for good
  at,     \* at[c]: the number up to which c has worked
  has,    \* has[c]: frames handed to c, or covered by a reload it was told of
  base    \* base[c]: numbers c holds from before the numbering started again

vars == <<head, lost, at, has, base>>

Init ==
  /\ head = 0
  /\ lost = {}
  /\ at = [c \in Client |-> 0]
  /\ has = [c \in Client |-> {}]
  /\ base = [c \in Client |-> 0]

NumberFrame ==
  /\ head' = head + 1
  /\ UNCHANGED <<lost, at, has, base>>

Lose(frames) ==
  /\ lost' = lost \cup frames
  /\ UNCHANGED <<head, at, has, base>>

\* Hand over frames up to n, past the ones that are lost only.
Give(c, frames, n) ==
  /\ n \in frames /\ frames \subseteq at[c] + 1 .. n
  /\ (at[c] + 1 .. n) \ frames \subseteq lost
  /\ at' = [at EXCEPT ![c] = n]
  /\ has' = [has EXCEPT ![c] = @ \cup frames]
  /\ UNCHANGED <<head, lost, base>>

\* Tell c to load the board again; it goes on from n.
Reload(c, n) ==
  /\ at' = [at EXCEPT ![c] = n]
  /\ has' = [has EXCEPT ![c] = 1 .. head]
  /\ base' = [base EXCEPT ![c] = 0]
  /\ UNCHANGED <<head, lost>>

\* The numbering starts again, unknown to the clients.
Restart ==
  /\ head' = 0
  /\ lost' = {}
  /\ has' = [c \in Client |-> {}]
  /\ base' = at
  /\ UNCHANGED at

Next ==
  \/ NumberFrame
  \/ \E frames \in SUBSET (1 .. head) : Lose(frames)
  \/ \E c \in Client, n \in 1 .. head : \E frames \in SUBSET (1 .. n) : Give(c, frames, n)
  \/ \E c \in Client, n \in 0 .. head : Reload(c, n)
  \/ Restart

Spec == Init /\ [][Next]_vars

\* Every frame up to where a client has worked was handed to it or covered by
\* a reload, unless it was lost or the client has not noticed a restart.
Covered ==
  \A c \in Client : \A n \in 1 .. at[c] :
    n <= head => n \in has[c] \/ n \in lost \/ n <= base[c]
=============================================================================
