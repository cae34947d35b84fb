---------------------------- MODULE MCSyncServer ----------------------------
(* Two handlers, two lists and two cards, one of which is not yet known to *)
(* the server.  Devices create it, edit, move and delete the other, and    *)
(* edit the lists, each with stamps of its own.                            *)
EXTENDS SyncServer

MCRecord(title, parent, titleClock, parentClock, deletedAt) ==
  [fields    |-> [f \in Field |-> IF f = "title" THEN title ELSE parent],
   clocks    |-> [f \in Field |-> IF f = "title" THEN titleClock ELSE parentClock],
   nodeId    |-> 1,
   deletedAt |-> deletedAt]

MCInitialRows ==
  [id \in Id |-> IF id = 4 THEN None ELSE MCRecord(1, 1, 1, 1, 0)]

Sends(id, record) == [id |-> id, given |-> Field, record |-> record]

\* A client from before the structural fields sends the title alone.
SendsTitle(id, clock) ==
  [id |-> id, given |-> {"title"}, record |-> MCRecord(2, NullRank, clock, 0, 0)]

CreatesFour(parent, clock) == Sends(4, MCRecord(clock - 1, parent, clock, clock, 0))
\* Edits the title, and names a list the organisation does not have.
EditsThree  == Sends(3, MCRecord(2, 0, 3, 3, 0))
MovesThree  == Sends(3, MCRecord(1, 2, 1, 2, 0))
BuriesThree == Sends(3, MCRecord(1, 1, 1, 1, 4))
EditsList(l, clock) == SendsTitle(l, clock)

MCPushes ==
  { {CreatesFour(1, 2), EditsThree},
    {MovesThree, CreatesFour(1, 3)},
    {BuriesThree},
    {SendsTitle(4, 5)},
    {EditsList(2, 2), EditsList(1, 2)} }
=============================================================================
