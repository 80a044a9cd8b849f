------------------------------ MODULE MCUpkeep ------------------------------
(* Parts of the board's upkeep that share no state: the scheduler, the     *)
(* time bank with the pack that resets it, the installer and the purge of  *)
(* files, the access conditions.  A behaviour follows one of them; the     *)
(* others stand.                                                           *)
EXTENDS Scheduler, Upkeep, Acs, TLC
VARIABLE part
CONSTANTS s1, s2, c1, c2, c3, p1, p2, p3

MCNames == {"pack", "scan", "news", "qwk"}
MCTyped == {<<[kind |-> "weekly", n |-> 2], "scheduled">>, <<[kind |-> "hourly", n |-> 0], "scheduled">>}
MCInitial ==
  1 :> [name |-> "pack", sched |-> [kind |-> "daily", n |-> 3], type |-> "scheduled",
        warn |-> 3, next |-> Unset, enabled |-> TRUE]
  @@ 2 :> [name |-> "scan", sched |-> [kind |-> "every", n |-> 1], type |-> "scheduled",
        warn |-> 1, next |-> Unset, enabled |-> TRUE]
  @@ 3 :> [name |-> "news", sched |-> [kind |-> "hourly", n |-> 0], type |-> "logon",
        warn |-> 0, next |-> Unset, enabled |-> TRUE]

MCColumns == <<c1, c2, c3>>
MCOldColumns == {c1}
MCSessions == {s1, s2}
MCAmounts == {-1, 1}
MCStored == 1 :> p1 @@ 2 :> p2 @@ 3 :> p3
MCRecent == {3}
MCUnsafe == {p3}

Term(o, k) == [op |-> o, n |-> k]
MCTerms == {Term("S", 2), Term("PC", 0), Term("A", 18), [op |-> "AR", n |-> 0, ns |-> {1, 2}],
            [op |-> "cmp", n |-> 1, what |-> "time", rel |-> ">="]}
MCCaller(lev, f, t, p, d) ==
  [level |-> lev, dsl |-> 1, birth |-> <<1990, 6, 15>>, today |-> <<2008, 6, 14>>, calls |-> 2, credits |-> 0, time |-> t, node |-> 1,
   id |-> 2, hour |-> 3, wday |-> 0, conf |-> 0, sex |-> 0, flags |-> f, ac |-> {}, confs |-> {},
   posts |-> p, uploads |-> 0, downloads |-> 0, ratio |-> [num |-> 1, den |-> 2],
   dlratio |-> [num |-> 0, den |-> 0], days |-> d, sub |-> 0]
MCCallers == {MCCaller(1, {1}, 0, 1, 9999), MCCaller(2, {}, 5, 0, 5), MCCaller(3, {1, 2}, 1, 0, 6)}

AcsStill == /\ expr = Leaf(Term("S", 2)) /\ caller = MCCaller(1, {1}, 0, 1, 9999)
            /\ answer = Unasked

Init ==
  /\ part \in {"scheduler", "bank", "files", "acs"}
  /\ SchedInit
  /\ part # "scheduler" => dst = FALSE /\ board = "down"
  /\ UpkeepInit
  /\ part # "files" => schema.version
  /\ IF part = "acs" THEN AcsInit ELSE AcsStill

Bank == CallersNext \/ MaintNext \/ Killed
Purge == InstallNext \/ PurgeNext \/ MaintNext \/ Killed

Next ==
  \/ part = "scheduler" /\ SchedNext /\ UNCHANGED <<part, upkeepvars, acsvars>>
  \/ part = "bank" /\ Bank /\ UNCHANGED <<part, schedvars, acsvars>>
  \/ part = "files" /\ Purge /\ UNCHANGED <<part, schedvars, acsvars>>
  \/ part = "acs" /\ Ask /\ UNCHANGED <<part, schedvars, upkeepvars>>

Spec == Init /\ [][Next]_<<part, schedvars, upkeepvars, acsvars>> /\ SchedFairness
=============================================================================
