------------------------------ MODULE MCTables ------------------------------
(* Two sysops at their editors and a caller who may not vote.              *)
EXTENDS Tables
CONSTANTS u1, u2, u3, a, b, k1, k2
MCUsers == {u1, u2, u3}
MCSysops == {u1, u2}
MCRestricted == {u3}
MCNames == {a, b}
MCKeys == {k1, k2}
MCInUse == {a}
MCSymmetry == Permutations({u1, u2}) \cup Permutations({k1, k2})
=============================================================================
