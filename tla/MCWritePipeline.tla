--------------------------- MODULE MCWritePipeline ---------------------------
(***************************************************************************)
(* Two users, and three writes, one more than the pipeline holds, or four, *)
(* as many as it holds.                                                    *)
(***************************************************************************)
EXTENDS WritePipeline, TLC

CONSTANTS u1, u2, w1, w2, w3, w4

MCUsers    == {u1, u2}
MCWrites   == {w1, w2, w3}
FourWrites == {w1, w2, w3, w4}

\* Users and writes are interchangeable.
FourSymmetry == Permutations(MCUsers) \cup Permutations(FourWrites)
=============================================================================
