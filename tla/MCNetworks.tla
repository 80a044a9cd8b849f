----------------------------- MODULE MCNetworks -----------------------------
(* A caller and two sysops, two area names, one message area to begin      *)
(* with.                                                                   *)
EXTENDS Networks, TLC

CONSTANTS s1, s2, s3, joe, root, sue, general, ideas

MCWho == (s1 :> joe) @@ (s2 :> root) @@ (s3 :> sue)

(* What the address editor does not touch is left alone once it is used:   *)
(* short messages, drafts, areas left out of a scan, the hub.  The second   *)
(* sysop logs on for it alone, while there are no messages and the caller  *)
(* is away, and gets no mail.                                              *)
Second ==
  /\ sess[s3].pc \in {"off", "menu", "aka", "write"}
  /\ sess[s3].pc # "off" => msgs = <<>> /\ sess[s1].pc = "off"
  /\ akaIds > 0 \/ (\E s \in Sessions : sess[s].pc = "aka") =>
       sms = <<>> /\ ~hub /\ \A u \in Users : drafts[u] = <<>> /\ scan[u] = {}
  /\ \A s \in {s1, s2} : sess[s].to # sue
  /\ \A i \in DOMAIN sms : sms[i].to # sue
=============================================================================
