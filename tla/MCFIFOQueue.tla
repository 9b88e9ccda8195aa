------------------------------ MODULE MCFIFOQueue ------------------------------
(* Three requests and a queue of three slots: the indices wrap, and the      *)
(* queue is filled and emptied at every position of head.                    *)
EXTENDS FIFOQueue
CONSTANTS r1, r2, r3
MCValues == {r1, r2, r3}
================================================================================
