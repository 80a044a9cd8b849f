----------------------------- MODULE MCAccounts -----------------------------
(* Two sessions from one address: a caller, who may also come as the guest, *)
(* and the sysop, who may also call as the caller.                          *)
EXTENDS Accounts, TLC

CONSTANTS s1, s2, joe, guest, root, f1

MCIp == [s \in Sessions |-> "ip"]
MCCalls == (s1 :> {joe, guest}) @@ (s2 :> {root})
=============================================================================
