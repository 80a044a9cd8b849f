------------------------------- MODULE MCCove -------------------------------
(* Instances of Cove for TLC: a downstream link that sends a bundle of two *)
(* objects, an offline reader's reply packet that holds one of them, and   *)
(* an upstream hub that also subscribes.                                   *)
EXTENDS Cove, TLC

CONSTANTS b1, b2, o1, o2, down, up

MCContent == b1 :> <<o1, o2>> @@ b2 :> <<o2>>
MCVia == b1 :> down @@ b2 :> NoLink
MCOffline == {b2}
MCWants == [l \in Links |-> Objects]
MCUpstream == {up}

\* The importers are interchangeable.
Symmetric == Permutations(Importers)
=============================================================================
