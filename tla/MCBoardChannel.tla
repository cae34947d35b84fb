--------------------------- MODULE MCBoardChannel ---------------------------
EXTENDS BoardChannel

OneTabEach == [c \in Client |-> c]
=============================================================================
