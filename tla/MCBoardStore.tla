----------------------------- MODULE MCBoardStore -----------------------------
EXTENDS BoardStore

CONSTANTS A, B, x, y, new

StartTwo == (x :> A) @@ (y :> A) @@ (new :> Nowhere)
=============================================================================
