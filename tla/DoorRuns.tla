------------------------------ MODULE DoorRuns ------------------------------
(***************************************************************************)
(* What a caller may rely on when a door is run, whatever runs it: a run   *)
(* is set up, played and over, in that order; while it is played its       *)
(* working directory is there; a score reaches the leaderboard only from a *)
(* run that may report one; a caller's entry only ever improves.  The      *)
(* module Doors implements it.                                             *)
(***************************************************************************)
EXTENDS Integers

CONSTANTS Nodes,         \* the nodes callers are on
          Keys,          \* the leaderboard's game keys
          Scores,        \* the scores a run may report
          Better(_, _, _) \* Better(k, a, b): score a beats score b in game k

VARIABLES phase,   \* phase[n]: "idle", "setup", "play", "over"
          mayReport, \* mayReport[n]: the run on n may report a score now
          intact,  \* intact[n]: the working directory of n's run is there
          best     \* best[k]: the callers' best score, 0 for none

vars == <<phase, mayReport, intact, best>>

Init == /\ phase = [n \in Nodes |-> "idle"]
        /\ mayReport = [n \in Nodes |-> FALSE]
        /\ intact \in [Nodes -> BOOLEAN]
        /\ best = [k \in Keys |-> 0]

Move(n, from, to) == phase[n] \in from /\ phase' = [phase EXCEPT ![n] = to]

Begin(n) == /\ Move(n, {"idle", "play"}, "setup")      \* a door may chain
            /\ mayReport' = [mayReport EXCEPT ![n] = FALSE]
            /\ UNCHANGED best

Refuse(n) == /\ Move(n, {"setup"}, "over")
             /\ mayReport' = [mayReport EXCEPT ![n] = FALSE]
             /\ UNCHANGED best

Play(n) == /\ Move(n, {"setup"}, "play")
           /\ intact'[n]
           /\ mayReport' \in {[mayReport EXCEPT ![n] = b] : b \in BOOLEAN}
           /\ UNCHANGED best

End(n) == /\ Move(n, {"play"}, "over")
          /\ mayReport' \in {[mayReport EXCEPT ![n] = b] : b \in BOOLEAN}
          /\ UNCHANGED best

Report(n) == /\ mayReport[n]
             /\ UNCHANGED phase
             /\ mayReport' \in {[mayReport EXCEPT ![n] = b] : b \in BOOLEAN}
             /\ \/ UNCHANGED best                        \* it has none, or a worse one
                \/ \E k \in Keys, s \in Scores :
                     /\ best[k] = 0 \/ Better(k, s, best[k])
                     /\ best' = [best EXCEPT ![k] = s]

Leave(n) == /\ Move(n, {"over"}, "idle")
            /\ mayReport' = [mayReport EXCEPT ![n] = FALSE]
            /\ UNCHANGED best

\* The whole program stops; what is on disk stays.
Crash == /\ phase' = [n \in Nodes |-> "idle"]
         /\ mayReport' = [n \in Nodes |-> FALSE]
         /\ UNCHANGED best

\* Directories are made before a run and swept after it.
Sweep == UNCHANGED <<phase, mayReport, best>>

\* Nothing ever takes away the directory of a run that is played.
Held == \A n \in Nodes : phase'[n] = "play" => intact'[n]

Next == /\ Held
        /\ \/ \E n \in Nodes : \/ Begin(n) \/ Refuse(n) \/ Play(n) \/ End(n)
                               \/ Report(n) \/ Leave(n)
           \/ Crash
           \/ Sweep

Spec == Init /\ [][Next]_vars
=============================================================================
