----------------------------- MODULE MCServing ------------------------------
(* Two requests and the relay on a pool of two connections, one of them    *)
(* overflow: any two of the three leave none for the third.                *)
EXTENDS Serving

CONSTANTS r1, r2

MCRequests == {r1, r2}
=============================================================================
