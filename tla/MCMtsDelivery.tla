---------------------------- MODULE MCMtsDelivery ---------------------------
(* Two callers, s1 a sysop, and a console that may disconnect them.        *)
EXTENDS MtsDelivery
CONSTANTS s1, s2, u1, u2, k1

\* Each caller is a user of their own.
MCUser == [s \in Sessions |-> IF s = s1 THEN u1 ELSE u2]

\* Who enters what: every command is entered by somebody.
MCMay == [t \in Sessions \cup Consoles |->
    IF t = s1 THEN {"say", "msg", "whisper", "announce", "quit"}
    ELSE IF t = s2 THEN {"afk", "relate", "watch", "move", "kick", "say", "quit"}
    ELSE {"disconnect"}]
=============================================================================
