---------------------------- MODULE MCBoardOrder -----------------------------
EXTENDS BoardOrder

\* Neighbouring digits, a key between them, and the end of the alphabet.
MCFirstKeys == {<<1>>, <<1, 2>>, <<2, 2>>}
=============================================================================
