------------------------------- MODULE Doors -------------------------------
(***************************************************************************)
(* Doors (doors.c, process.c and their tables in db.c): a caller enters a  *)
(* door, a launch directory is made for it step by step, the door is run   *)
(* and supervised (a native program, a DOSBox, a Buccaneer program, or a   *)
(* transfer protocol), its leaderboard result is taken in, the directory   *)
(* is removed or kept.  The janitor thread sweeps the launch directories   *)
(* of nodes nobody is on, while callers come, go and launch.  The program  *)
(* may crash at any moment and start again.                                *)
(***************************************************************************)
EXTENDS Integers, Sequences

CONSTANTS
  Nodes,          \* node numbers
  Door,           \* Door[d]: the doors and protocols, as configured
  MayEnter,       \* doors whose access condition the callers meet
  CleanupOnExit,  \* door_cleanup_on_exit
  KeepFailed,     \* door_keep_failed_runs
  RuntimeAbsolute,\* door_runtime_path is an absolute path
  StaleAge,       \* door_stale_age_sec
  MaxScore,       \* scores are 1..MaxScore
  ChainMax,       \* the depth at which a chain is refused (8 in doors.c)
  Switched,       \* bound: the doors whose leaderboard the sysop turns on and off
  Names           \* bound: the names of launch directories, used again and again

DoorIds == DOMAIN Door
Scores == 1 .. MaxScore
Keys == {Door[d].key : d \in DoorIds}

\* There is a door to run; the columns of a door's row are what db.c reads.
ASSUME ConfigAssumption ==
  /\ MaxScore \in Nat /\ ChainMax \in Nat /\ StaleAge \in Nat
  /\ DoorIds # {} /\ MayEnter \subseteq DoorIds
  /\ \A d \in DoorIds : /\ Door[d].runner \in {"native", "dosbox", "bucc", "protocol"}
                         /\ Door[d].lb \in BOOLEAN

VARIABLES
  sess,    \* sess[n]: the session thread of node n and the child it supervises
  hung,    \* hung[n]: the caller of node n has hung up
  rows,    \* the nodes whose row of table nodes says online
  fs,      \* the directories below dropfile_path and door_runtime_path
  old,     \* the launch directories older than door_stale_age_sec
  result,  \* result[l]: the score in l's MUTINEER_LB_RESULT.JSON, 0 for no file
  board,   \* board[k]: the callers' row of door_leaderboard for game k
  lb,      \* lb[d]: column lb_enable of doors
  jan      \* the janitor thread

vars == <<sess, hung, rows, fs, old, result, board, lb, jan>>

-----------------------------------------------------------------------------
(* Directories.  <<base>>, <<base, door>>, <<base, door, node>> and         *)
(* <<base, door, node, launch>>.                                            *)

\* Native doors write below dropfile_path, DOSBox doors below door_runtime_path.
BaseOf(d) == IF Door[d].runner = "dosbox" THEN "runtime" ELSE "drop"
HasTree(d) == Door[d].runner \in {"native", "dosbox"}

\* <base>/<door>/nodeNN/<launch id>.
LaunchDir(n) == <<BaseOf(sess[n].door), sess[n].door, n, sess[n].k>>
LaunchDirs == {<<BaseOf(d), d, n, k>> :
                 d \in {e \in DoorIds : HasTree(e)}, n \in Nodes, k \in Names}

Below(p) == {q \in fs : Len(q) = Len(p) + 1 /\ SubSeq(q, 1, Len(p)) = p}

\* mkdir: made, or there already; it needs the directory above.
ensure_dir(p) == SubSeq(p, 1, Len(p) - 1) \in fs

\* rmdir removes a directory only when it is empty.
rmdir(p) == IF Below(p) = {} THEN fs \ {p} ELSE fs

remove_tree_recursive(l) == /\ fs' = fs \ {l}
                            /\ old' = old \ {l}
                            /\ result' = [result EXCEPT ![l] = 0]

-----------------------------------------------------------------------------
(* Commands.  A command is a sequence of tokens: "word", "%D", "%f", "meta" *)
(* (a shell metacharacter) or "open" (a quote that is never closed).        *)

command_contains_shell_meta(cmd) == \E i \in DOMAIN cmd : cmd[i] = "meta"

\* The argument list for a door, or <<>> for a template that is refused.
bbs_argv_parse_door_template(cmd, dir) ==
  IF \/ command_contains_shell_meta(cmd)
     \/ \E i \in DOMAIN cmd : cmd[i] = "open"
  THEN <<>>
  ELSE [i \in DOMAIN cmd |-> IF cmd[i] = "%D" THEN dir ELSE cmd[i]]

\* The argument list for a transfer: the file goes where %f stands, or last.
bbs_argv_parse_template(cmd, file) ==
  IF \/ cmd = <<>>
     \/ command_contains_shell_meta(cmd)
     \/ \E i \in DOMAIN cmd : cmd[i] = "open"
  THEN <<>>
  ELSE [i \in DOMAIN cmd |-> IF cmd[i] = "%f" THEN file ELSE cmd[i]]
       \o (IF \E i \in DOMAIN cmd : cmd[i] = "%f" THEN <<>> ELSE <<file>>)

-----------------------------------------------------------------------------
(* Tables.                                                                  *)

Quiet == [pc |-> "menu", door |-> CHOOSE d \in DoorIds : TRUE, k |-> 0, stage |-> 0,
          child |-> "none", timed |-> FALSE, cancelled |-> FALSE, ok |-> FALSE,
          wrote |-> 0, lb |-> FALSE, depth |-> 0]

\* A manifest is "unreadable", "unsafe" (a missing game directory, a path that
\* leaves it), or sound, with cleanup_on_exit ("cleanup") or without ("keep").
dosbox_manifest_parse(m) == m # "unreadable"
dosbox_manifest_validate(m) == m # "unsafe"
Usable(m) == dosbox_manifest_parse(m) /\ dosbox_manifest_validate(m)

\* The list a caller picks from; the row of a door as it is now (only its
\* column lb_enable changes in this model).
db_doors_list == {d \in DoorIds : Door[d].runner # "protocol"}
db_door_get(d) == [Quiet EXCEPT !.pc = "dispatch", !.door = d, !.lb = lb[d]]

\* db_node_upsert by a session: the row says online (and what the caller does).
db_node_upsert(n) == rows' = rows \cup {n}

Better(k, a, b) ==
  LET d == CHOOSE e \in DoorIds : Door[e].key = k
  IN  IF Door[d].order = "asc" THEN a < b ELSE a > b

\* db_door_score_submit reads the door's row afresh, and replaces the
\* caller's entry only by a better one.
db_door_score_submit(d, score) ==
  IF lb[d] /\ Door[d].enabled
  THEN board' = [board EXCEPT ![Door[d].key] =
                    IF @ = 0 \/ Better(Door[d].key, score, @) THEN score ELSE @]
  ELSE UNCHANGED board

-----------------------------------------------------------------------------
(* Sessions.                                                                *)


\* The janitor between two passes.
Resting == [pc |-> "idle", base |-> "drop", door |-> Quiet.door, node |-> 0,
            seenD |-> {}, seenN |-> {}, seenL |-> {}]

Init ==
  /\ sess = [n \in Nodes |-> [Quiet EXCEPT !.pc = "off"]]
  /\ hung = [n \in Nodes |-> FALSE]
  /\ rows = {}
  /\ fs = {<<"drop">>, <<"runtime">>}
  /\ old = {}
  /\ result = [l \in LaunchDirs |-> 0]
  /\ board = [k \in Keys |-> 0]
  /\ lb = [d \in DoorIds |-> Door[d].lb]
  /\ jan = Resting

Disk == <<fs, old, result>>
Scoring == <<board, lb>>

Set(n, s) == sess' = [sess EXCEPT ![n] = s]
Goto(n, pc) == Set(n, [sess[n] EXCEPT !.pc = pc])

\* A launcher returns whether the door was run; the callers only tell it.
Returns(s) == [Quiet EXCEPT !.pc = "ret", !.depth = s.depth]

\* online_add gives the caller a free node.
Login(n) ==
  /\ sess[n].pc = "off"
  /\ Set(n, Quiet)
  /\ hung' = [hung EXCEPT ![n] = FALSE]
  /\ db_node_upsert(n)
  /\ UNCHANGED <<Disk, Scoring, jan>>

\* online_remove, when the caller leaves or the read at the menu fails.
Logout(n) ==
  /\ sess[n].pc = "menu"
  /\ Set(n, [Quiet EXCEPT !.pc = "off"])
  /\ hung' = [hung EXCEPT ![n] = FALSE]
  /\ rows' = rows \ {n}
  /\ UNCHANGED <<Disk, Scoring, jan>>

\* The caller hangs up.  Only the supervision loop looks at the socket, so it
\* is enough that this happens there.
Hangup(n) ==
  /\ sess[n].pc = "wait" /\ ~hung[n]
  /\ hung' = [hung EXCEPT ![n] = TRUE]
  /\ UNCHANGED <<sess, rows, Disk, Scoring, jan>>

\* The menu's "doors": the caller picks from the list, the access condition
\* is met, the door's row of this moment goes to door_launch.
Enter(n, d) ==
  /\ sess[n].pc = "menu" /\ ~hung[n]
  /\ d \in db_doors_list \cap MayEnter
  /\ Set(n, db_door_get(d))
  /\ db_node_upsert(n)
  /\ UNCHANGED <<hung, Disk, Scoring, jan>>

\* A file transfer: protocol_launch refuses a bad template before anything else.
Transfer(n, d) ==
  /\ sess[n].pc = "menu" /\ ~hung[n]
  /\ Door[d].runner = "protocol"
  /\ IF bbs_argv_parse_template(Door[d].command, "file") = <<>>
     THEN UNCHANGED <<sess, rows>>
     ELSE /\ Set(n, [Quiet EXCEPT !.pc = "fork", !.door = d])
          /\ db_node_upsert(n)
  /\ UNCHANGED <<hung, Disk, Scoring, jan>>

\* door_launch and the first checks of the three launchers.  A native launch
\* has a name of its own; a DOSBox launch is named by the second and the
\* process, so it may find the tree a launch of the same second left.
Dispatch(n) ==
  /\ sess[n].pc = "dispatch"
  /\ LET s == sess[n]
         d == Door[s.door]
         dir(k) == <<BaseOf(s.door), s.door, n, k>>
     IN  \/ /\ \/ ~d.enabled
               \/ d.runner = "native" /\ d.command = <<>>
               \/ d.runner # "native" /\ ~Usable(d.manifest)
            /\ Set(n, Returns(s))
            /\ UNCHANGED rows
         \/ /\ d.enabled
            /\ \/ d.runner = "native" /\ d.command # <<>>
               \/ d.runner = "dosbox" /\ Usable(d.manifest)
            /\ \E k \in Names :
                 /\ dir(k) \notin IF d.runner = "native" THEN fs ELSE old
                 /\ Set(n, [s EXCEPT !.pc = "mkdir", !.stage = 2, !.k = k])
            /\ UNCHANGED rows
         \/ /\ d.enabled /\ d.runner = "bucc" /\ Usable(d.manifest)
            /\ Goto(n, "bucc")
            /\ db_node_upsert(n)
  /\ UNCHANGED <<hung, Disk, Scoring, jan>>

\* One ensure_dir of the path to the launch directory (its base is there:
\* nothing removes it).  The native launcher
\* ignores a failure, dosbox_prepare_runtime does not; the latter makes the
\* rest of the tree and copies the game into it last.
Mkdir(n) ==
  /\ sess[n].pc = "mkdir"
  /\ LET s == sess[n]
         p == SubSeq(LaunchDir(n), 1, s.stage)
         native == Door[s.door].runner = "native"
     IN  /\ fs' = IF ensure_dir(p) THEN fs \cup {p} ELSE fs
         /\ \/ /\ ensure_dir(p) \/ native
               /\ Set(n, IF s.stage < 4 THEN [s EXCEPT !.stage = @ + 1]
                                        ELSE [s EXCEPT !.pc = "drop"])
            \/ /\ ~native
               /\ ~ensure_dir(p) \/ s.stage = 4       \* copy_dir_recursive fails
               /\ Set(n, Returns(s))
  /\ UNCHANGED <<hung, rows, old, result, Scoring, jan>>

\* Mutant: an earlier run's result file stays.
ResultStays(l) == UNCHANGED result

\* The dropfiles and MUTINEER_SESSION.JSON: an earlier run's result file is
\* unlinked; the launch is given up when the session file cannot be written.
write_mutineer_session_json(l) == result' = [result EXCEPT ![l] = 0]

\* A DOSBox launch that is given up cleans its tree: dosbox_cleanup_runtime
\* refuses a relative path.
dosbox_cleanup_runtime(l) ==
  IF RuntimeAbsolute THEN remove_tree_recursive(l) ELSE UNCHANGED Disk

WriteDropfiles(n) ==
  /\ sess[n].pc = "drop"
  /\ LET s == sess[n]  d == Door[s.door]  l == LaunchDir(n)
     IN  \/ /\ l \in fs                               \* all written
            /\ write_mutineer_session_json(l)
            /\ UNCHANGED <<fs, old>>
            /\ IF /\ d.runner = "native"
                  /\ bbs_argv_parse_door_template(d.command, l) = <<>>
               THEN Set(n, Returns(s)) /\ UNCHANGED rows
               ELSE Goto(n, "fork") /\ db_node_upsert(n)
         \/ /\ Set(n, Returns(s))                      \* not written
            /\ IF d.runner = "dosbox" /\ l \in fs
               THEN dosbox_cleanup_runtime(l) ELSE UNCHANGED Disk
            /\ UNCHANGED rows
  /\ UNCHANGED <<hung, Scoring, jan>>

Fork(n) ==
  /\ sess[n].pc = "fork"
  /\ Set(n, [sess[n] EXCEPT !.pc = "wait", !.child = "runs", !.wrote = 0])
  /\ UNCHANGED <<hung, rows, Disk, Scoring, jan>>

ForkFails(n) ==
  /\ sess[n].pc = "fork"
  /\ IF Door[sess[n].door].runner = "dosbox"
     THEN /\ Set(n, Returns(sess[n]))
          /\ db_node_upsert(n)
          /\ IF LaunchDir(n) \in fs THEN dosbox_cleanup_runtime(LaunchDir(n))
                                    ELSE UNCHANGED Disk
     ELSE /\ Set(n, [sess[n] EXCEPT !.pc = "tidy", !.ok = FALSE])
          /\ UNCHANGED <<rows, Disk>>
  /\ UNCHANGED <<hung, Scoring, jan>>

-----------------------------------------------------------------------------
(* The program that is run, and its supervision.                            *)

\* The program writes its result where the session file told it to.  A new
\* file in the launch directory makes a native launch young again.
ChildWrites(n, score) ==
  /\ sess[n].child = "runs" /\ sess[n].wrote = 0 /\ HasTree(sess[n].door) /\ sess[n].lb
  /\ LaunchDir(n) \in fs
  /\ result' = [result EXCEPT ![LaunchDir(n)] = score]
  /\ old' = IF Door[sess[n].door].runner = "native" /\ result[LaunchDir(n)] = 0
            THEN old \ {LaunchDir(n)} ELSE old
  /\ Set(n, [sess[n] EXCEPT !.wrote = score])
  /\ UNCHANGED <<hung, rows, fs, Scoring, jan>>

\* It ends of itself or of a SIGTERM: with code 0, or not.
ChildEnds(n) ==
  /\ sess[n].child = "runs"
  /\ \E e \in {"exit0", "bad"} : Set(n, [sess[n] EXCEPT !.child = e])
  /\ UNCHANGED <<hung, rows, Disk, Scoring, jan>>

Outcome(s) == s.child = "exit0" /\ ~s.timed
Over(s) == [s EXCEPT !.pc = "ingest", !.child = "none", !.ok = Outcome(s)]

\* waitpid of the supervision loop.
Wait(n) ==
  /\ sess[n].pc = "wait" /\ sess[n].child \in {"exit0", "bad"}
  /\ Set(n, Over(sess[n]))
  /\ UNCHANGED <<hung, rows, Disk, Scoring, jan>>


\* The time is up: SIGTERM.
TimeOut(n) ==
  /\ sess[n].pc = "wait" /\ Door[sess[n].door].timeout > 0
  /\ Set(n, [sess[n] EXCEPT !.pc = "grace", !.timed = TRUE])
  /\ UNCHANGED <<hung, rows, Disk, Scoring, jan>>

\* bbs_exec_argv_cancel looks at the caller's socket, the DOSBox loop does not.
Cancel(n) ==
  /\ sess[n].pc = "wait" /\ hung[n]
  /\ Door[sess[n].door].runner # "dosbox"
  /\ Set(n, [sess[n] EXCEPT !.pc = "grace", !.cancelled = TRUE])
  /\ UNCHANGED <<hung, rows, Disk, Scoring, jan>>

\* Mutant: a child that ignores SIGTERM is not killed.
ReapNoKill(n) ==
  /\ sess[n].pc = "grace"
  /\ Set(n, IF sess[n].child = "runs" THEN [sess[n] EXCEPT !.pc = "ingest", !.ok = FALSE]
                                      ELSE Over(sess[n]))
  /\ UNCHANGED <<hung, rows, Disk, Scoring, jan>>

\* After the grace period: reaped if it has ended, SIGKILL and reaped if not.
Reap(n) ==
  /\ sess[n].pc = "grace"
  /\ Set(n, Over(IF sess[n].child = "runs" THEN [sess[n] EXCEPT !.child = "bad"]
                                           ELSE sess[n]))
  /\ UNCHANGED <<hung, rows, Disk, Scoring, jan>>

\* ingest_leaderboard_result: only after success, from the run's directory.
Ingest(n) ==
  /\ sess[n].pc = "ingest"
  /\ LET s == sess[n]
         r == IF HasTree(s.door) /\ LaunchDir(n) \in fs THEN result[LaunchDir(n)] ELSE 0
     IN  IF s.ok /\ s.lb /\ r > 0
         THEN db_door_score_submit(s.door, r)
         ELSE UNCHANGED board
  /\ Set(n, [sess[n] EXCEPT !.pc = "tidy", !.timed = FALSE, !.wrote = 0])
  /\ UNCHANGED <<hung, rows, Disk, lb, jan>>

\* The launcher's end: the node is at the menu again, the directory goes or stays.
Tidy(n) ==
  /\ sess[n].pc = "tidy"
  /\ db_node_upsert(n)
  /\ LET s == sess[n]  d == Door[s.door]
     IN  CASE d.runner = "native" /\ s.ok /\ CleanupOnExit -> remove_tree_recursive(LaunchDir(n))
           [] /\ d.runner = "dosbox"
              /\ IF s.ok THEN d.manifest = "cleanup" \/ CleanupOnExit ELSE ~KeepFailed
                -> dosbox_cleanup_runtime(LaunchDir(n))
           [] OTHER -> UNCHANGED Disk
  /\ Set(n, Returns(sess[n]))
  /\ UNCHANGED <<hung, Scoring, jan>>

\* door_launch returns, to the door that chained to this one or to the menu.
Return(n) ==
  /\ sess[n].pc = "ret"
  /\ db_node_upsert(n)
  /\ Set(n, IF sess[n].depth > 0 THEN [sess[n] EXCEPT !.depth = @ - 1] ELSE Quiet)
  /\ UNCHANGED <<hung, Disk, Scoring, jan>>

-----------------------------------------------------------------------------
(* A Buccaneer door runs in the session's thread.                           *)

\* Its LEADERBOARD calls are refused: the board grants no capability beyond
\* the safe ones (BuccHost), so it ends or chains without a score.
BuccEnds(n) ==
  /\ sess[n].pc = "bucc"
  /\ Set(n, Returns(sess[n]))
  /\ UNCHANGED <<hung, rows, Disk, Scoring, jan>>

\* A chain starts the target as it is configured now; its access condition is
\* not looked at.  One chain too deep is refused.
BuccChain(n, d) ==
  /\ sess[n].pc = "bucc" /\ d \in db_doors_list
  /\ Set(n, IF sess[n].depth >= ChainMax
            THEN Returns(sess[n])
            ELSE [db_door_get(d) EXCEPT !.depth = sess[n].depth + 1])
  /\ UNCHANGED <<hung, rows, Disk, Scoring, jan>>

\* The sysop turns a door's leaderboard on or off.
Configure(d) ==
  /\ d \in Switched
  /\ lb' = [lb EXCEPT ![d] = ~@]
  /\ UNCHANGED <<sess, hung, rows, Disk, board, jan>>

-----------------------------------------------------------------------------
(* The janitor.                                                             *)

\* Time passes.  One visit of the janitor to a node's directory is shorter
\* than the stale age: what is made during the visit is not old before its end.
Age(l) ==
  /\ StaleAge > 0 /\ l \in fs \ old
  /\ ~(jan.pc = "launches" /\ SubSeq(l, 1, 3) = <<jan.base, jan.door, jan.node>>)
  /\ old' = old \cup {l}
  /\ UNCHANGED <<sess, hung, rows, fs, result, Scoring, jan>>

Jan(j) == jan' = j /\ UNCHANGED <<sess, hung, Scoring>>

JStart == /\ jan.pc = "idle"
          /\ Jan([Resting EXCEPT !.pc = "doors"])
          /\ UNCHANGED <<rows, Disk>>

\* readdir of the base, then of the door's directory.
JDoor(d) ==
  /\ jan.pc = "doors" /\ d \notin jan.seenD /\ <<jan.base, d>> \in fs
  /\ Jan([jan EXCEPT !.pc = "nodes", !.door = d, !.seenD = @ \cup {d}, !.seenN = {}])
  /\ UNCHANGED <<rows, Disk>>

\* Mutant: the janitor does not look whether somebody is on the node.
JNodeAny(n) ==
  /\ jan.pc = "nodes" /\ n \notin jan.seenN /\ <<jan.base, jan.door, n>> \in fs
  /\ Jan([jan EXCEPT !.pc = "launches", !.node = n, !.seenN = @ \cup {n}])
  /\ UNCHANGED <<rows, Disk>>

\* A node somebody is on is left alone: this is looked at once, before the
\* node's launches are.
JNode(n) ==
  /\ jan.pc = "nodes" /\ n \notin jan.seenN /\ <<jan.base, jan.door, n>> \in fs
  /\ Jan(IF sess[n].pc = "off"
         THEN [jan EXCEPT !.pc = "launches", !.node = n, !.seenN = @ \cup {n}]
         ELSE [jan EXCEPT !.seenN = @ \cup {n}])
  /\ UNCHANGED <<rows, Disk>>

JLaunch(k) ==
  /\ jan.pc = "launches" /\ k \notin jan.seenL
  /\ LET l == <<jan.base, jan.door, jan.node, k>>
     IN  /\ l \in fs
         /\ IF StaleAge > 0 /\ l \notin old THEN UNCHANGED Disk
                                            ELSE remove_tree_recursive(l)
  /\ Jan([jan EXCEPT !.seenL = @ \cup {k}])
  /\ UNCHANGED rows

\* No launch is left to look at: the node's directory goes if it is empty.
JNodeDone ==
  /\ jan.pc = "launches"
  /\ {q \in Below(<<jan.base, jan.door, jan.node>>) : q[4] \notin jan.seenL} = {}
  /\ fs' = rmdir(<<jan.base, jan.door, jan.node>>)
  /\ Jan([jan EXCEPT !.pc = "nodes", !.node = 0, !.seenL = {}])
  /\ UNCHANGED <<rows, old, result>>

\* No node is left: the door's directory goes if it is empty.
JDoorDone ==
  /\ jan.pc = "nodes"
  /\ {q \in Below(<<jan.base, jan.door>>) : q[3] \notin jan.seenN} = {}
  /\ fs' = rmdir(<<jan.base, jan.door>>)
  /\ Jan([jan EXCEPT !.pc = "doors", !.door = Quiet.door, !.seenN = {}])
  /\ UNCHANGED <<rows, old, result>>

\* No door is left: the other base, or the end of the scans, where both bases
\* are made sure of and the nodes' rows listed.
JBaseDone ==
  /\ jan.pc = "doors"
  /\ {q \in Below(<<jan.base>>) : q[2] \notin jan.seenD} = {}
  /\ IF jan.base = "drop"
     THEN Jan([jan EXCEPT !.base = "runtime", !.seenD = {}]) /\ UNCHANGED fs
     ELSE /\ Jan([Resting EXCEPT !.pc = "rows", !.seenN = rows])
          /\ fs' = fs \cup {<<"drop">>, <<"runtime">>}
  /\ UNCHANGED <<rows, old, result>>

\* A row that says online while nobody is on the node: looked at, then put right.
JRow(n) ==
  /\ jan.pc = "rows" /\ n \in jan.seenN
  /\ Jan(IF sess[n].pc = "off" THEN [jan EXCEPT !.pc = "row", !.node = n, !.seenN = @ \ {n}]
                               ELSE [jan EXCEPT !.seenN = @ \ {n}])
  /\ UNCHANGED <<rows, Disk>>

JReconcile ==
  /\ jan.pc = "row"
  /\ rows' = rows \ {jan.node}
  /\ Jan([jan EXCEPT !.pc = "rows", !.node = 0])
  /\ UNCHANGED Disk

JDone == /\ jan.pc = "rows" /\ jan.seenN = {}
         /\ Jan(Resting)
         /\ UNCHANGED <<rows, Disk>>

\* The program dies and is started again: the disk and the tables stay, and
\* the janitor scans at once.
Crash ==
  /\ sess' = [n \in Nodes |-> [Quiet EXCEPT !.pc = "off"]]
  /\ hung' = [n \in Nodes |-> FALSE]
  /\ jan' = [Resting EXCEPT !.pc = "doors"]
  /\ UNCHANGED <<rows, Disk, Scoring>>

-----------------------------------------------------------------------------
Supervise(n) == Wait(n) \/ TimeOut(n) \/ Cancel(n) \/ Reap(n)
Launcher(n) == \/ Dispatch(n) \/ Mkdir(n) \/ WriteDropfiles(n) \/ Fork(n)
               \/ ForkFails(n) \/ Ingest(n) \/ Tidy(n) \/ Return(n)

Janitor == \/ JStart
           \/ \E d \in DoorIds : JDoor(d)
           \/ \E n \in Nodes : JNode(n)
           \/ \E k \in Names : JLaunch(k)
           \/ JNodeDone \/ JDoorDone \/ JBaseDone
           \/ \E n \in Nodes : JRow(n)
           \/ JReconcile \/ JDone

Next == \/ \E n \in Nodes :
             \/ Login(n) \/ Logout(n) \/ Hangup(n)
             \/ \E d \in DoorIds : Enter(n, d) \/ Transfer(n, d) \/ BuccChain(n, d)
             \/ \E s \in Scores : ChildWrites(n, s)
             \/ ChildEnds(n) \/ BuccEnds(n)
             \/ Supervise(n) \/ Launcher(n)
        \/ \E d \in DoorIds : Configure(d)
        \/ \E l \in LaunchDirs : Age(l)
        \/ Janitor
        \/ Crash

\* The session's thread keeps going, the clock reaches every time limit, and
\* a Buccaneer program ends (its instruction limit); a native program need not.
Fairness == \A n \in Nodes : WF_vars(Supervise(n)) /\ WF_vars(Launcher(n)) /\ WF_vars(BuccEnds(n))

Spec == Init /\ [][Next]_vars /\ Fairness

-----------------------------------------------------------------------------
(* Properties.                                                              *)

\* A session: where its thread is, the run in hand and the child it supervises.
SessionStates ==
  [pc : {"off", "menu", "dispatch", "mkdir", "drop", "fork", "wait", "grace", "bucc",
         "ingest", "tidy", "ret"},
   door : DoorIds, k : Names \cup {0}, stage : 0 .. 4,
   child : {"none", "runs", "exit0", "bad"}, timed : BOOLEAN, cancelled : BOOLEAN,
   ok : BOOLEAN, wrote : 0 .. MaxScore, lb : BOOLEAN, depth : 0 .. ChainMax]

\* Sessions, directories, tables and the janitor stay in their types.
TypeOK ==
  /\ sess \in [Nodes -> SessionStates]
  /\ hung \in [Nodes -> BOOLEAN] /\ rows \subseteq Nodes
  /\ \A p \in fs : Len(p) \in 1 .. 4 /\ (Len(p) = 4 => p \in LaunchDirs)
  /\ old \subseteq LaunchDirs \cap fs
  /\ result \in [LaunchDirs -> 0 .. MaxScore]
  /\ board \in [Keys -> 0 .. MaxScore]

\* Nobody is left behind: a session that is not supervising has no child, and
\* one that supervises has one (fork, waitpid and SIGKILL of process.c and of
\* the DOSBox loop).
ChildReaped ==
  \A n \in Nodes : (sess[n].child # "none") <=> (sess[n].pc \in {"wait", "grace"})

\* Sessions and launch directories stay in their types and no child outlives
\* its supervision, whoever hangs up, times out or crashes.
DoorsInv == TypeOK /\ ChildReaped

\* The leaderboard changes only by what the run in hand reported itself: never
\* by a run that failed, and never by the result of an earlier launch in the
\* same directory; and what a successful run reported is not lost to a worse
\* entry (ingest_leaderboard_result, db_door_score_submit).
Reports(n) == sess[n].pc = "ingest" /\ sess[n].ok /\ sess[n].lb /\ sess[n].wrote > 0
ScoreEarned ==
  [][/\ \A k \in Keys : board'[k] # board[k] =>
          \E n \in Nodes : Reports(n) /\ sess[n].wrote = board'[k]
     /\ \A n \in Nodes :
          (Reports(n) /\ sess'[n].pc = "tidy" /\ lb[sess[n].door]) =>
            ~Better(Door[sess[n].door].key, sess[n].wrote, board'[Door[sess[n].door].key])
    ]_vars


\* tests/test_process_supervision.c: a run cancelled because the caller hung
\* up is a failure.
CancelledFails == \A n \in Nodes : sess[n].cancelled => ~sess[n].ok

-----------------------------------------------------------------------------
(* What the callers may rely on: DoorRuns.                                  *)

Phase(n) == CASE sess[n].pc \in {"off", "menu"} -> "idle"
              [] sess[n].pc \in {"dispatch", "mkdir", "drop", "fork"} -> "setup"
              [] sess[n].pc \in {"wait", "grace", "bucc"} -> "play"
              [] OTHER -> "over"

Runs == INSTANCE DoorRuns WITH
          phase <- [n \in Nodes |-> Phase(n)],
          mayReport <- [n \in Nodes |-> sess[n].lb /\ sess[n].pc = "ingest" /\ sess[n].ok],
          intact <- [n \in Nodes |-> HasTree(sess[n].door) => LaunchDir(n) \in fs],
          best <- board

\* Every behaviour of the launchers, the supervision, the leaderboard and the
\* janitor is one DoorRuns allows: in particular the janitor never takes the
\* directory of a door that is running.
ImplementsDoorRuns == Runs!Init /\ [][Runs!Next]_(Runs!vars)
=============================================================================
