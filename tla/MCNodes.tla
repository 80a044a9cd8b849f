------------------------------ MODULE MCNodes -------------------------------
(* Instances of Nodes for TLC.                                             *)
EXTENDS Nodes, TLC

\* Addresses are interchangeable: no action or safety property names one.
Symmetric == Permutations(Sessions)
=============================================================================
