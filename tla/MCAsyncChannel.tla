--------------------------- MODULE MCAsyncChannel ---------------------------
(* AsyncChannel on small sets of tasks.                                    *)
EXTENDS AsyncChannel, TLC
CONSTANTS s1, s2, r1, r2

TwoSenders == {s1, s2}
OneReceiver == {r1}
TwoReceivers == {r1, r2}
OneOfEach == {s1, r1}
=============================================================================
