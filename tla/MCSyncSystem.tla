---------------------------- MODULE MCSyncSystem ----------------------------
(* Constant values of the SyncSystem runs.                                 *)
EXTENDS SyncSystem

\* A user changes one field at a time.
OneField == UNION {[{f} -> Value] : f \in Field}

\* Every edit writes the same new value: only the stamps tell edits apart.
SetToTwo == {[x \in {f} |-> 2] : f \in Field}

\* All wall clocks agree.
NoSkew == [d \in Device |-> 0]

\* Device 2 runs three steps of Date.now() ahead.
SecondAhead == [d \in Device |-> IF d = 2 THEN 3 * MicrosPerTick ELSE 0]

\* The list whose id ranks 2 is gone from the organisation.
ListTwoGone == {<<"listId", 2>>}
=============================================================================
