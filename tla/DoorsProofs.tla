---------------------------- MODULE DoorsProofs ----------------------------
(***************************************************************************)
(* Proofs about Doors, for any nodes, doors, launch names and scores.      *)
(* First the records of the sessions and the directories are well formed   *)
(* (Sound): no child outlives its supervision.  Then, when launch          *)
(* directories have an age below which they are kept, the directory of a   *)
(* run at work is there and the janitor, if it is visiting its node, does  *)
(* not take it (Kept); and the result file in it is the one this run wrote *)
(* (Own).  From these: the leaderboard is earned, and Doors implements     *)
(* DoorRuns.                                                               *)
(***************************************************************************)
EXTENDS Doors, SequenceTheorems, TLAPS

Bases == {"drop", "runtime"}

\* The directories the launchers make.
Paths == {<<b>> : b \in Bases}
           \cup {<<b, d>> : b \in Bases, d \in DoorIds}
           \cup {<<b, d, n>> : b \in Bases, d \in DoorIds, n \in Nodes}
           \cup LaunchDirs

JanitorStates ==
  [pc : {"idle", "doors", "nodes", "launches", "rows", "row"}, base : Bases,
   door : DoorIds, node : Nodes \cup {0}, seenD : SUBSET DoorIds, seenN : SUBSET Nodes,
   seenL : SUBSET Names]

\* Where the session has a launch of its own in hand.
Launching == {"mkdir", "drop", "fork", "wait", "grace", "ingest", "tidy"}

\* Where it needs the directory of the launch.
Working == Launching \ {"tidy"}

\* A session's record: its child, its launch and its score belong together.
Well(s) ==
  /\ s \in SessionStates
  /\ (s.child # "none") <=> (s.pc \in {"wait", "grace"})
  /\ s.pc \in {"mkdir", "drop"} => HasTree(s.door)
  /\ s.pc = "bucc" => ~HasTree(s.door)
  /\ s.pc = "mkdir" => s.stage \in 2 .. 4
  /\ (s.pc \in Launching /\ HasTree(s.door)) => (s.k \in Names /\ Door[s.door].enabled)
  /\ s.wrote > 0 => (HasTree(s.door) /\ s.pc \in {"wait", "grace", "ingest"})

SoundSessions == sess \in [Nodes -> SessionStates] /\ \A n \in Nodes : Well(sess[n])
SoundDisk == /\ fs \subseteq Paths
             /\ old \subseteq LaunchDirs \cap fs
             /\ result \in [LaunchDirs -> 0 .. MaxScore]
SoundRest == /\ hung \in [Nodes -> BOOLEAN] /\ rows \subseteq Nodes
             /\ board \in [Keys -> 0 .. MaxScore]
             /\ lb \in [DoorIds -> BOOLEAN]
             /\ jan \in JanitorStates
Sound == SoundSessions /\ SoundDisk /\ SoundRest

\* The launch directory of a run that is set up or at work is there, and a
\* janitor that is visiting its node takes it for young.
Visits(n) == /\ jan.pc = "launches" /\ jan.base = BaseOf(sess[n].door)
             /\ jan.door = sess[n].door /\ jan.node = n
KeptAt(n) == HasTree(sess[n].door) =>
    /\ sess[n].pc \in {"fork", "wait", "grace", "ingest"} => LaunchDir(n) \in fs
    /\ (sess[n].pc \in Working /\ Visits(n)) => LaunchDir(n) \notin old
Kept == \A n \in Nodes : KeptAt(n)

\* The result file of a run is the one it wrote itself.
OwnAt(n) == HasTree(sess[n].door) =>
    /\ sess[n].pc = "fork" => result[LaunchDir(n)] = 0
    /\ sess[n].pc \in {"wait", "grace", "ingest"} => result[LaunchDir(n)] = sess[n].wrote
Own == \A n \in Nodes : OwnAt(n)

Held == Kept /\ Own

-----------------------------------------------------------------------------
(* Records and directories.                                                 *)

\* No score is one of the values of a score.
LEMMA ZeroScore == 0 \in 0 .. MaxScore
BY ConfigAssumption

\* The record of a session with nothing in hand.
LEMMA QuietFields ==
    /\ Quiet \in SessionStates /\ Quiet.pc = "menu" /\ Quiet.child = "none"
    /\ Quiet.wrote = 0 /\ ~Quiet.ok /\ ~Quiet.lb
<1>1. (CHOOSE d \in DoorIds : TRUE) \in DoorIds
    BY ConfigAssumption
<1> QED
    BY <1>1, ConfigAssumption DEF Quiet, SessionStates

\* The records that the launchers start from and return to are well formed.
LEMMA QuietWell == Well(Quiet) /\ Well([Quiet EXCEPT !.pc = "off"])
<1> DEFINE s == [Quiet EXCEPT !.pc = "off"]
<1>1. s \in SessionStates /\ s.pc = "off" /\ s.child = "none" /\ s.wrote = 0
    BY QuietFields DEF SessionStates
<1> QED
    BY <1>1, QuietFields DEF Well, Launching

LEMMA ReturnsWell ==
    ASSUME NEW s, Well(s)
    PROVE  Well(Returns(s)) /\ Returns(s).pc = "ret" /\ ~Returns(s).ok /\ ~Returns(s).lb
<1>1. s.depth \in 0 .. ChainMax
    BY DEF Well, SessionStates
<1> DEFINE r == Returns(s)
<1>2. r \in SessionStates /\ r.pc = "ret" /\ r.child = "none" /\ r.wrote = 0 /\ ~r.ok /\ ~r.lb
    BY <1>1, QuietFields DEF SessionStates, Returns
<1> QED
    BY <1>2 DEF Well, Launching

LEMMA GetWell ==
    ASSUME SoundRest, NEW d \in DoorIds, NEW e \in 0 .. ChainMax
    PROVE  LET s == [db_door_get(d) EXCEPT !.depth = e]
           IN  /\ Well(db_door_get(d)) /\ db_door_get(d).pc = "dispatch"
               /\ Well(s) /\ s.pc = "dispatch"
<1>1. lb[d] \in BOOLEAN
    BY DEF SoundRest
<1> DEFINE g == db_door_get(d)
           s == [g EXCEPT !.depth = e]
<1>2. g \in SessionStates /\ g.pc = "dispatch" /\ g.child = "none" /\ g.wrote = 0
    BY <1>1, QuietFields DEF SessionStates, db_door_get
<1>3. Well(g)
    BY <1>2 DEF Well, Launching
<1> HIDE DEF g
<1>4. s \in SessionStates /\ s.pc = "dispatch" /\ s.child = "none" /\ s.wrote = 0
    BY <1>2 DEF SessionStates
<1>5. Well(s)
    BY <1>4 DEF Well, Launching
<1> QED
    BY <1>2, <1>3, <1>4, <1>5 DEF g

\* A step that gives one session another well-formed record keeps them all.
LEMMA OneSession ==
    ASSUME SoundSessions, NEW n \in Nodes, NEW s, Well(s), Set(n, s)
    PROVE  SoundSessions'
<1>1. s \in SessionStates
    BY DEF Well
<1>2. sess' \in [Nodes -> SessionStates]
    BY <1>1 DEF SoundSessions, Set
<1>3. \A m \in Nodes : sess'[m] = IF m = n THEN s ELSE sess[m]
    BY DEF SoundSessions, Set
<1>4. \A m \in Nodes : Well(sess'[m])
    BY <1>3 DEF SoundSessions
<1> QED
    BY <1>2, <1>4 DEF SoundSessions, Well, HasTree

\* The launch directory of a session with a launch in hand is one.
LEMMA LaunchDirOf ==
    ASSUME Sound, NEW n \in Nodes, HasTree(sess[n].door), sess[n].pc \in Launching
    PROVE  LaunchDir(n) \in LaunchDirs
<1>1. sess[n].k \in Names /\ sess[n].door \in DoorIds
    BY DEF Sound, SoundSessions, Well, SessionStates
<1> QED
    BY <1>1 DEF LaunchDir, LaunchDirs

\* The first elements of a path of four.
LEMMA FirstOf4 ==
    ASSUME NEW a, NEW b, NEW c, NEW d
    PROVE  /\ SubSeq(<<a, b, c, d>>, 1, 2) = <<a, b>>
           /\ SubSeq(<<a, b, c, d>>, 1, 3) = <<a, b, c>>
           /\ SubSeq(<<a, b, c, d>>, 1, 4) = <<a, b, c, d>>
<1> DEFINE S == {a, b, c, d}
           p == <<a, b, c, d>>
           s2 == SubSeq(p, 1, 2)
           t2 == <<a, b>>
           s3 == SubSeq(p, 1, 3)
           t3 == <<a, b, c>>
<1>1. p \in Seq(S)
    OBVIOUS
<1>2. s2 \in Seq(S) /\ Len(s2) = 2 /\ s2[1] = a /\ s2[2] = b
    BY <1>1
<1>3. t2 \in Seq(S) /\ Len(t2) = 2 /\ t2[1] = a /\ t2[2] = b
    OBVIOUS
<1>4. s3 \in Seq(S) /\ Len(s3) = 3 /\ s3[1] = a /\ s3[2] = b /\ s3[3] = c
    BY <1>1
<1>5. t3 \in Seq(S) /\ Len(t3) = 3 /\ t3[1] = a /\ t3[2] = b /\ t3[3] = c
    OBVIOUS
<1>6. SubSeq(p, 1, 4) = p
    BY <1>1, SubSeqFull
<1> HIDE DEF s2, t2, s3, t3
<1>7. s2 = t2
    BY <1>2, <1>3, SeqEqual
<1>8. s3 = t3
    BY <1>4, <1>5, SeqEqual
<1> QED
    BY <1>6, <1>7, <1>8 DEF s2, t2, s3, t3

\* The paths that lead to it are directories the launchers make.
LEMMA Prefixes ==
    ASSUME Sound, NEW n \in Nodes, sess[n].pc = "mkdir"
    PROVE  SubSeq(LaunchDir(n), 1, sess[n].stage) \in Paths
<1>1. sess[n].k \in Names /\ sess[n].door \in DoorIds /\ sess[n].stage \in 2 .. 4
      /\ HasTree(sess[n].door) /\ BaseOf(sess[n].door) \in Bases
    BY DEF Sound, SoundSessions, Well, SessionStates, Launching, BaseOf, Bases
<1>2. LaunchDir(n) \in LaunchDirs
    BY <1>1, LaunchDirOf DEF Launching
<1> DEFINE b == BaseOf(sess[n].door)
           d == sess[n].door
           k == sess[n].k
           L == <<b, d, n, k>>
<1>3. SubSeq(L, 1, 2) = <<b, d>> /\ SubSeq(L, 1, 3) = <<b, d, n>> /\ SubSeq(L, 1, 4) = L
    BY FirstOf4
<1>0. LaunchDir(n) = L
    BY DEF LaunchDir
<1> HIDE DEF L
<1>4. CASE sess[n].stage = 2
  <2>1. SubSeq(LaunchDir(n), 1, sess[n].stage) = <<b, d>>
      BY <1>0, <1>3, <1>4
  <2>2. <<b, d>> \in {<<a, e>> : a \in Bases, e \in DoorIds}
      BY <1>1
  <2> QED
      BY <2>1, <2>2 DEF Paths
<1>5. CASE sess[n].stage = 3
  <2>1. SubSeq(LaunchDir(n), 1, sess[n].stage) = <<b, d, n>>
      BY <1>0, <1>3, <1>5
  <2>2. <<b, d, n>> \in {<<a, e, m>> : a \in Bases, e \in DoorIds, m \in Nodes}
      BY <1>1
  <2> QED
      BY <2>1, <2>2 DEF Paths
<1>6. CASE sess[n].stage = 4
  <2>1. SubSeq(LaunchDir(n), 1, sess[n].stage) = LaunchDir(n)
      BY <1>0, <1>3, <1>6
  <2>2. LaunchDirs \subseteq Paths
      BY DEF Paths
  <2> QED
      BY <1>2, <2>1, <2>2
<1> QED
    BY <1>1, <1>4, <1>5, <1>6

-----------------------------------------------------------------------------
(* Sound: sessions, directories and tables are well formed.                 *)

\* The initial state is well formed.
LEMMA SoundInit == Init => Sound
<1> SUFFICES ASSUME Init PROVE Sound
    OBVIOUS
<1>1. SoundSessions
  <2>1. [Quiet EXCEPT !.pc = "off"] \in SessionStates
      BY QuietWell DEF Well
  <2> DEFINE s == [Quiet EXCEPT !.pc = "off"]
  <2>2. Well(s) /\ s \in SessionStates /\ sess = [n \in Nodes |-> s]
      BY <2>1, QuietWell DEF Init
  <2> HIDE DEF s
  <2> QED
      BY <2>2 DEF SoundSessions
<1>2. SoundDisk
  <2>1. fs \subseteq {<<b>> : b \in Bases}
      BY DEF Init, Bases
  <2> QED
      BY <2>1, ConfigAssumption DEF Init, SoundDisk, Paths
<1>3. SoundRest
  <2>1. jan \in JanitorStates
      BY QuietFields DEF Init, Resting, JanitorStates, SessionStates, Bases
  <2> QED
      BY <2>1, ConfigAssumption DEF Init, SoundRest
<1> QED
    BY <1>1, <1>2, <1>3 DEF Sound

\* A launch directory that goes leaves the disk well formed.
LEMMA RemoveSound == ASSUME SoundDisk, NEW l, remove_tree_recursive(l) PROVE SoundDisk'
<1>1. fs' \subseteq Paths /\ old' \subseteq LaunchDirs \cap fs'
    BY DEF SoundDisk, remove_tree_recursive
<1>2. result' \in [LaunchDirs -> 0 .. MaxScore]
  <2>1. 0 \in 0 .. MaxScore
      BY ZeroScore
  <2>2. result' = [result EXCEPT ![l] = 0] /\ result \in [LaunchDirs -> 0 .. MaxScore]
      BY DEF SoundDisk, remove_tree_recursive
  <2> QED
      BY <2>1, <2>2
<1> QED
    BY <1>1, <1>2 DEF SoundDisk, Paths, LaunchDirs, HasTree, BaseOf

LEMMA CleanupSound == ASSUME SoundDisk, NEW l, dosbox_cleanup_runtime(l) PROVE SoundDisk'
<1>1. CASE RuntimeAbsolute
    BY <1>1, RemoveSound DEF dosbox_cleanup_runtime
<1>2. CASE ~RuntimeAbsolute
    BY <1>2 DEF dosbox_cleanup_runtime, SoundDisk, Disk, Paths, LaunchDirs
<1> QED
    BY <1>1, <1>2

\* Nothing of the disk changes, or of the tables but the nodes' rows.
LEMMA DiskSame == ASSUME SoundDisk, UNCHANGED Disk PROVE SoundDisk'
BY DEF SoundDisk, Disk, Paths, LaunchDirs, HasTree, BaseOf

LEMMA RestSame ==
    ASSUME SoundRest, UNCHANGED <<hung, Scoring, jan>>, NEW n \in Nodes,
           UNCHANGED rows \/ db_node_upsert(n)
    PROVE  SoundRest'
<1>1. rows' \subseteq Nodes
    BY DEF SoundRest, db_node_upsert
<1> QED
    BY <1>1 DEF SoundRest, Scoring, JanitorStates, Bases

\* The steps of a caller at the menu keep the state well formed.
LEMMA SoundMenu ==
    ASSUME Sound, NEW n \in Nodes,
           \/ Login(n) \/ Logout(n) \/ Hangup(n)
           \/ \E d \in DoorIds : Enter(n, d) \/ Transfer(n, d)
    PROVE  Sound'
<1> USE DEF Sound
<1>1. CASE Login(n)
  <2>1. SoundSessions'
      BY <1>1, QuietWell, OneSession DEF Login
  <2>2. SoundDisk'
      BY <1>1, DiskSame DEF Login, Disk
  <2>3. rows' \subseteq Nodes /\ hung' \in [Nodes -> BOOLEAN]
      BY <1>1 DEF Login, SoundRest, db_node_upsert
  <2>4. SoundRest'
      BY <1>1, <2>3 DEF Login, SoundRest, Scoring, JanitorStates, Bases
  <2> QED
      BY <2>1, <2>2, <2>4
<1>2. CASE Logout(n)
  <2>1. SoundSessions'
      BY <1>2, QuietWell, OneSession DEF Logout
  <2>2. SoundDisk'
      BY <1>2, DiskSame DEF Logout, Disk
  <2>3. rows' \subseteq Nodes /\ hung' \in [Nodes -> BOOLEAN]
      BY <1>2 DEF Logout, SoundRest
  <2>4. SoundRest'
      BY <1>2, <2>3 DEF Logout, SoundRest, Scoring, JanitorStates, Bases
  <2> QED
      BY <2>1, <2>2, <2>4
<1>3. CASE Hangup(n)
  <2>1. SoundSessions'
      BY <1>3 DEF Hangup, SoundSessions, Well, HasTree
  <2>2. SoundDisk'
      BY <1>3, DiskSame DEF Hangup, Disk
  <2>3. hung' \in [Nodes -> BOOLEAN]
      BY <1>3 DEF Hangup, SoundRest
  <2>4. SoundRest'
      BY <1>3, <2>3 DEF Hangup, SoundRest, Scoring, JanitorStates, Bases
  <2> QED
      BY <2>1, <2>2, <2>4
<1>4. ASSUME NEW d \in DoorIds, Enter(n, d) PROVE Sound'
  <2>0. 0 \in 0 .. ChainMax
      BY ConfigAssumption
  <2>1. SoundSessions'
      BY <1>4, <2>0, GetWell, OneSession DEF Enter
  <2>2. SoundDisk'
      BY <1>4, DiskSame DEF Enter, Disk
  <2>3. SoundRest'
      BY <1>4, RestSame DEF Enter
  <2> QED
      BY <2>1, <2>2, <2>3
<1>5. ASSUME NEW d \in DoorIds, Transfer(n, d) PROVE Sound'
  <2>1. SoundSessions'
    <3> DEFINE s == [Quiet EXCEPT !.pc = "fork", !.door = d]
    <3>1. /\ s \in SessionStates /\ s.pc = "fork" /\ s.child = "none" /\ s.wrote = 0
          /\ s.door = d /\ Door[d].runner = "protocol"
        BY <1>5, QuietFields DEF SessionStates, Transfer
    <3>2. Well(s)
        BY <3>1 DEF Well, HasTree
    <3>3. CASE UNCHANGED sess
        BY <3>3 DEF SoundSessions, Well, HasTree
    <3> QED
        BY <1>5, <3>2, <3>3, OneSession DEF Transfer
  <2>2. SoundDisk'
      BY <1>5, DiskSame DEF Transfer, Disk
  <2>3. SoundRest'
      BY <1>5, RestSame DEF Transfer
  <2> QED
      BY <2>1, <2>2, <2>3
<1> QED
    BY <1>1, <1>2, <1>3, <1>4, <1>5

\* So do the steps that supervise a program, and the program's own.
LEMMA SoundSupervision ==
    ASSUME Sound, NEW n \in Nodes,
           \/ ChildEnds(n) \/ Supervise(n) \/ BuccEnds(n)
           \/ \E d \in DoorIds : BuccChain(n, d)
           \/ \E x \in Scores : ChildWrites(n, x)
    PROVE  Sound'
<1> USE DEF Sound
<1> DEFINE s == sess[n]
<1>0. s \in SessionStates /\ Well(s)
    BY DEF SoundSessions
<1>a. ASSUME SoundSessions', UNCHANGED <<hung, rows, Disk, Scoring, jan>> PROVE Sound'
    BY <1>a, DiskSame, RestSame
<1>1. CASE ChildEnds(n)
  <2>1. PICK e \in {"exit0", "bad"} : Set(n, [s EXCEPT !.child = e])
      BY <1>1 DEF ChildEnds
  <2> DEFINE t == [s EXCEPT !.child = e]
  <2>2. t \in SessionStates /\ t.child = e /\ t.pc = s.pc /\ t.door = s.door /\ t.k = s.k
        /\ t.stage = s.stage /\ t.wrote = s.wrote /\ s.child = "runs"
      BY <1>0, <1>1 DEF SessionStates, ChildEnds
  <2>3. Well(t)
      BY <1>0, <2>2 DEF Well
  <2> QED
      BY <1>1, <1>a, <2>1, <2>3, OneSession DEF ChildEnds
<1>2. CASE Wait(n)
  <2> DEFINE t == Over(s)
  <2>1. t \in SessionStates /\ t.child = "none" /\ t.pc = "ingest" /\ t.door = s.door
        /\ t.k = s.k /\ t.wrote = s.wrote /\ s.pc = "wait"
      BY <1>0, <1>2 DEF SessionStates, Wait, Over, Outcome
  <2>2. Well(t)
      BY <1>0, <2>1 DEF Well, Launching
  <2> QED
      BY <1>2, <1>a, <2>2, OneSession DEF Wait
<1>3. CASE TimeOut(n)
  <2> DEFINE t == [s EXCEPT !.pc = "grace", !.timed = TRUE]
  <2>1. t \in SessionStates /\ t.child = s.child /\ t.pc = "grace" /\ t.door = s.door
        /\ t.k = s.k /\ t.wrote = s.wrote /\ s.pc = "wait"
      BY <1>0, <1>3 DEF SessionStates, TimeOut
  <2>2. Well(t)
      BY <1>0, <2>1 DEF Well, Launching
  <2> QED
      BY <1>3, <1>a, <2>2, OneSession DEF TimeOut
<1>4. CASE Cancel(n)
  <2> DEFINE t == [s EXCEPT !.pc = "grace", !.cancelled = TRUE]
  <2>1. t \in SessionStates /\ t.child = s.child /\ t.pc = "grace" /\ t.door = s.door
        /\ t.k = s.k /\ t.wrote = s.wrote /\ s.pc = "wait"
      BY <1>0, <1>4 DEF SessionStates, Cancel
  <2>2. Well(t)
      BY <1>0, <2>1 DEF Well, Launching
  <2> QED
      BY <1>4, <1>a, <2>2, OneSession DEF Cancel
<1>5. CASE Reap(n)
  <2> DEFINE u == IF s.child = "runs" THEN [s EXCEPT !.child = "bad"] ELSE s
             t == Over(u)
  <2>1. u \in SessionStates /\ u.door = s.door /\ u.k = s.k /\ u.wrote = s.wrote
        /\ s.pc = "grace"
      BY <1>0, <1>5 DEF SessionStates, Reap
  <2> HIDE DEF u
  <2>2. t \in SessionStates /\ t.child = "none" /\ t.pc = "ingest" /\ t.door = s.door
        /\ t.k = s.k /\ t.wrote = s.wrote
      BY <2>1 DEF SessionStates, Over, Outcome
  <2>3. Well(t)
      BY <1>0, <2>1, <2>2 DEF Well, Launching
  <2> QED
      BY <1>5, <1>a, <2>3, OneSession DEF Reap, u
<1>6. CASE BuccEnds(n)
    BY <1>0, <1>6, <1>a, ReturnsWell, OneSession DEF BuccEnds
<1>7. ASSUME NEW d \in DoorIds, BuccChain(n, d) PROVE Sound'
  <2>1. CASE s.depth >= ChainMax
      BY <1>0, <1>7, <2>1, <1>a, ReturnsWell, OneSession DEF BuccChain
  <2>2. CASE ~(s.depth >= ChainMax)
    <3>1. s.depth + 1 \in 0 .. ChainMax
        BY <1>0, <2>2, ConfigAssumption DEF SessionStates
    <3> QED
        BY <1>7, <2>2, <3>1, <1>a, GetWell, OneSession DEF BuccChain
  <2> QED
      BY <2>1, <2>2
<1>8. ASSUME NEW x \in Scores, ChildWrites(n, x) PROVE Sound'
  <2> DEFINE t == [s EXCEPT !.wrote = x]
  <2>1. x \in 1 .. MaxScore
      BY DEF Scores
  <2>2. t \in SessionStates /\ t.child = s.child /\ t.pc = s.pc /\ t.door = s.door
        /\ t.k = s.k /\ t.stage = s.stage /\ s.child = "runs" /\ HasTree(s.door)
      BY <1>0, <1>8, <2>1, ConfigAssumption DEF SessionStates, ChildWrites
  <2>3. Well(t)
      BY <1>0, <2>2 DEF Well
  <2>4. SoundSessions'
      BY <1>8, <2>3, OneSession DEF ChildWrites
  <2>5. result' \in [LaunchDirs -> 0 .. MaxScore]
    <3>1. x \in 0 .. MaxScore
        BY <2>1, ConfigAssumption
    <3> QED
        BY <1>8, <3>1 DEF ChildWrites, SoundDisk
  <2>6. old' \subseteq old /\ fs' = fs
      BY <1>8 DEF ChildWrites
  <2>7. SoundDisk'
      BY <2>5, <2>6 DEF SoundDisk, Paths, LaunchDirs, HasTree, BaseOf
  <2>8. SoundRest'
      BY <1>8, RestSame DEF ChildWrites
  <2> QED
      BY <2>4, <2>7, <2>8
<1> QED
    BY <1>1, <1>2, <1>3, <1>4, <1>5, <1>6, <1>7, <1>8 DEF Supervise

\* So do the steps of the three launchers.
LEMMA SoundLauncher ==
    ASSUME Sound, NEW n \in Nodes, Launcher(n)
    PROVE  Sound'
<1> USE DEF Sound
<1> DEFINE s == sess[n]
<1>0. s \in SessionStates /\ Well(s)
    BY DEF SoundSessions
<1>1. CASE Dispatch(n)
  <2> DEFINE d == Door[s.door]
  <2>0. s.pc = "dispatch"
      BY <1>1 DEF Dispatch
  <2>1. SoundSessions'
    <3>1. CASE Set(n, Returns(s))
        BY <1>0, <3>1, ReturnsWell, OneSession
    <3>2. ASSUME d.enabled, HasTree(s.door), NEW k \in Names,
                 Set(n, [s EXCEPT !.pc = "mkdir", !.stage = 2, !.k = k])
          PROVE  SoundSessions'
      <4> DEFINE t == [s EXCEPT !.pc = "mkdir", !.stage = 2, !.k = k]
      <4>1. t \in SessionStates /\ t.pc = "mkdir" /\ t.child = s.child /\ t.door = s.door
            /\ t.k = k /\ t.stage = 2 /\ t.wrote = s.wrote
        <5>1. 2 \in 0 .. 4 /\ k \in Names \cup {0}
            OBVIOUS
        <5> DEFINE u == [s EXCEPT !.pc = "mkdir", !.stage = 2]
        <5>2. u \in SessionStates /\ u.pc = "mkdir" /\ u.child = s.child /\ u.door = s.door
              /\ u.stage = 2 /\ u.wrote = s.wrote
            BY <1>0, <5>1 DEF SessionStates
        <5> HIDE DEF u
        <5>3. LET v == [u EXCEPT !.k = k]
              IN  v \in SessionStates /\ v.pc = u.pc /\ v.child = u.child /\ v.door = u.door
                  /\ v.k = k /\ v.stage = u.stage /\ v.wrote = u.wrote
            BY <5>1, <5>2 DEF SessionStates
        <5>4. t = [u EXCEPT !.k = k]
            BY DEF u
        <5> QED
            BY <5>2, <5>3, <5>4
      <4>2. Well(t)
          BY <1>0, <2>0, <3>2, <4>1 DEF Well
      <4> QED
          BY <3>2, <4>2, OneSession
    <3>3. ASSUME Goto(n, "bucc"), ~HasTree(s.door) PROVE SoundSessions'
      <4> DEFINE t == [s EXCEPT !.pc = "bucc"]
      <4>1. t \in SessionStates /\ t.pc = "bucc" /\ t.child = s.child /\ t.door = s.door
            /\ t.k = s.k /\ t.wrote = s.wrote
          BY <1>0 DEF SessionStates
      <4>2. Well(t)
          BY <1>0, <2>0, <3>3, <4>1 DEF Well, Launching
      <4> QED
          BY <3>3, <4>2, OneSession DEF Goto
    <3> QED
        BY <1>1, <3>1, <3>2, <3>3 DEF Dispatch, HasTree
  <2>2. SoundDisk'
      BY <1>1, DiskSame DEF Dispatch, Disk
  <2>3. SoundRest'
      BY <1>1, RestSame DEF Dispatch
  <2> QED
      BY <2>1, <2>2, <2>3
<1>2. CASE Mkdir(n)
  <2> DEFINE p == SubSeq(LaunchDir(n), 1, s.stage)
             t == IF s.stage < 4 THEN [s EXCEPT !.stage = @ + 1] ELSE [s EXCEPT !.pc = "drop"]
  <2>0. s.pc = "mkdir" /\ s.stage \in 2 .. 4 /\ s.child = "none" /\ s.wrote = 0
        /\ HasTree(s.door) /\ s.k \in Names /\ Door[s.door].enabled
      BY <1>0, <1>2 DEF Mkdir, Well, SessionStates, Launching
  <2>1. SoundSessions'
    <3>1. ASSUME s.stage < 4 PROVE Well(t)
      <4> DEFINE u == [s EXCEPT !.stage = @ + 1]
      <4>1. s.stage + 1 \in 3 .. 4
          BY <2>0, <3>1
      <4>2. u \in SessionStates /\ u.pc = "mkdir" /\ u.stage = s.stage + 1 /\ u.child = "none"
            /\ u.door = s.door /\ u.k = s.k /\ u.wrote = 0
          BY <1>0, <2>0, <4>1 DEF SessionStates
      <4> HIDE DEF u
      <4>3. Well(u)
          BY <2>0, <4>1, <4>2 DEF Well
      <4> QED
          BY <3>1, <4>3 DEF u
    <3>a. ASSUME ~(s.stage < 4) PROVE Well(t)
      <4> DEFINE u == [s EXCEPT !.pc = "drop"]
      <4>1. u \in SessionStates /\ u.pc = "drop" /\ u.child = "none"
            /\ u.door = s.door /\ u.k = s.k /\ u.wrote = 0
          BY <1>0, <2>0 DEF SessionStates
      <4> HIDE DEF u
      <4>2. Well(u)
          BY <2>0, <4>1 DEF Well
      <4> QED
          BY <3>a, <4>2 DEF u
    <3>2. Well(t)
        BY <3>1, <3>a
    <3>3. Set(n, t) \/ Set(n, Returns(s))
        BY <1>2 DEF Mkdir
    <3> QED
        BY <1>0, <3>2, <3>3, ReturnsWell, OneSession
  <2>2. SoundDisk'
    <3>1. p \in Paths
        BY <2>0, Prefixes
    <3>2. fs' \subseteq Paths /\ fs \subseteq fs' /\ UNCHANGED <<old, result>>
        BY <1>2, <3>1 DEF Mkdir, SoundDisk
    <3> QED
        BY <3>2 DEF SoundDisk, Paths, LaunchDirs, HasTree, BaseOf
  <2>3. SoundRest'
      BY <1>2, RestSame DEF Mkdir
  <2> QED
      BY <2>1, <2>2, <2>3
<1>3. CASE WriteDropfiles(n)
  <2>0. s.pc = "drop" /\ s.child = "none" /\ s.wrote = 0 /\ HasTree(s.door) /\ s.k \in Names
        /\ Door[s.door].enabled
      BY <1>0, <1>3 DEF WriteDropfiles, Well, SessionStates, Launching
  <2>1. SoundSessions'
    <3> DEFINE t == [s EXCEPT !.pc = "fork"]
    <3>1. t \in SessionStates /\ t.pc = "fork" /\ t.child = "none" /\ t.door = s.door
          /\ t.k = s.k /\ t.wrote = 0
        BY <1>0, <2>0 DEF SessionStates
    <3>2. Well(t)
        BY <2>0, <3>1 DEF Well, Launching
    <3>3. Set(n, t) \/ Set(n, Returns(s))
        BY <1>3 DEF WriteDropfiles, Goto
    <3> QED
        BY <1>0, <3>2, <3>3, ReturnsWell, OneSession
  <2>2. SoundDisk'
    <3>1. CASE write_mutineer_session_json(LaunchDir(n)) /\ UNCHANGED <<fs, old>>
      <4>1. 0 \in 0 .. MaxScore
          BY ZeroScore
      <4>2. result' = [result EXCEPT ![LaunchDir(n)] = 0] /\ UNCHANGED <<fs, old>>
          BY <3>1 DEF write_mutineer_session_json
      <4>3. result' \in [LaunchDirs -> 0 .. MaxScore]
          BY <4>1, <4>2 DEF SoundDisk
      <4> QED
          BY <4>2, <4>3 DEF SoundDisk, Paths, LaunchDirs, HasTree, BaseOf
    <3> QED
        BY <1>3, <3>1, CleanupSound, DiskSame DEF WriteDropfiles
  <2>3. SoundRest'
      BY <1>3, RestSame DEF WriteDropfiles
  <2> QED
      BY <2>1, <2>2, <2>3
<1>4. CASE Fork(n)
  <2> DEFINE t == [s EXCEPT !.pc = "wait", !.child = "runs", !.wrote = 0]
  <2>1. t \in SessionStates /\ t.pc = "wait" /\ t.child = "runs" /\ t.door = s.door
        /\ t.k = s.k /\ t.wrote = 0 /\ s.pc = "fork"
      BY <1>0, <1>4, ZeroScore DEF SessionStates, Fork
  <2>2. Well(t)
      BY <1>0, <2>1 DEF Well, Launching
  <2>3. SoundSessions'
      BY <1>4, <2>2, OneSession DEF Fork
  <2>4. SoundDisk'
      BY <1>4, DiskSame DEF Fork, Disk
  <2>5. SoundRest'
      BY <1>4, RestSame DEF Fork
  <2> QED
      BY <2>3, <2>4, <2>5
<1>5. CASE ForkFails(n)
  <2> DEFINE t == [s EXCEPT !.pc = "tidy", !.ok = FALSE]
  <2>1. t \in SessionStates /\ t.pc = "tidy" /\ t.child = s.child /\ t.door = s.door
        /\ t.k = s.k /\ t.wrote = s.wrote /\ s.pc = "fork"
      BY <1>0, <1>5 DEF SessionStates, ForkFails
  <2>2. Well(t)
      BY <1>0, <2>1 DEF Well, Launching
  <2>3. SoundSessions'
      BY <1>0, <1>5, <2>2, ReturnsWell, OneSession DEF ForkFails
  <2>4. SoundDisk'
      BY <1>5, DiskSame, CleanupSound DEF ForkFails, Disk
  <2>5. SoundRest'
      BY <1>5, RestSame DEF ForkFails
  <2> QED
      BY <2>3, <2>4, <2>5
<1>6. CASE Ingest(n)
  <2> DEFINE t == [s EXCEPT !.pc = "tidy", !.timed = FALSE, !.wrote = 0]
             r == IF HasTree(s.door) /\ LaunchDir(n) \in fs THEN result[LaunchDir(n)] ELSE 0
  <2>0. s.pc = "ingest"
      BY <1>6 DEF Ingest
  <2>1. t \in SessionStates /\ t.pc = "tidy" /\ t.child = s.child /\ t.door = s.door
        /\ t.k = s.k /\ t.wrote = 0
      BY <1>0, ZeroScore DEF SessionStates
  <2>2. Well(t)
      BY <1>0, <2>0, <2>1 DEF Well, Launching
  <2>3. SoundSessions'
      BY <1>6, <2>2, OneSession DEF Ingest
  <2>4. SoundDisk'
      BY <1>6, DiskSame DEF Ingest, Disk
  <2>5. r \in 0 .. MaxScore
    <3>1. HasTree(s.door) => LaunchDir(n) \in LaunchDirs
        BY <2>0, LaunchDirOf DEF Launching
    <3> QED
        BY <3>1, ZeroScore DEF SoundDisk
  <2>6. board' \in [Keys -> 0 .. MaxScore]
    <3>1. UNCHANGED board \/ db_door_score_submit(s.door, r)
        BY <1>6 DEF Ingest
    <3> HIDE DEF r
    <3>2. CASE db_door_score_submit(s.door, r) /\ lb[s.door] /\ Door[s.door].enabled
      <4> DEFINE key == Door[s.door].key
                 v == IF board[key] = 0 \/ Better(key, r, board[key]) THEN r ELSE board[key]
      <4>1. key \in Keys
          BY <1>0 DEF Keys, SessionStates
      <4>2. board' = [board EXCEPT ![key] = v]
          BY <3>2 DEF db_door_score_submit
      <4>3. v \in 0 .. MaxScore
          BY <2>5, <4>1 DEF SoundRest
      <4> QED
          BY <4>2, <4>3 DEF SoundRest
    <3> QED
        BY <3>1, <3>2 DEF db_door_score_submit, SoundRest
  <2>7. SoundRest'
      BY <1>6, <2>6 DEF Ingest, SoundRest, JanitorStates, Bases, Keys
  <2> QED
      BY <2>3, <2>4, <2>7
<1>7. CASE Tidy(n)
  <2>1. SoundSessions'
      BY <1>0, <1>7, ReturnsWell, OneSession DEF Tidy
  <2>2. SoundDisk'
      BY <1>7, DiskSame, RemoveSound, CleanupSound DEF Tidy
  <2>3. SoundRest'
      BY <1>7, RestSame DEF Tidy
  <2> QED
      BY <2>1, <2>2, <2>3
<1>8. CASE Return(n)
  <2>1. CASE s.depth > 0
    <3> DEFINE t == [s EXCEPT !.depth = @ - 1]
    <3>1. s.depth - 1 \in 0 .. ChainMax
        BY <1>0, <2>1, ConfigAssumption DEF SessionStates
    <3>2. t \in SessionStates /\ t.pc = s.pc /\ t.child = s.child /\ t.door = s.door
          /\ t.k = s.k /\ t.wrote = s.wrote /\ s.pc = "ret"
        BY <1>0, <1>8, <3>1 DEF SessionStates, Return
    <3>3. Well(t)
        BY <1>0, <3>2 DEF Well, Launching
    <3> QED
        BY <1>8, <2>1, <3>3, OneSession, DiskSame, RestSame DEF Return, Disk
  <2>2. CASE ~(s.depth > 0)
      BY <1>8, <2>2, QuietWell, OneSession, DiskSame, RestSame DEF Return, Disk
  <2> QED
      BY <2>1, <2>2
<1> QED
    BY <1>1, <1>2, <1>3, <1>4, <1>5, <1>6, <1>7, <1>8 DEF Launcher

\* An empty directory above the launches goes: the rest of the disk stays.
LEMMA RmdirSound ==
    ASSUME SoundDisk, NEW p, p \notin LaunchDirs, fs' = rmdir(p), UNCHANGED <<old, result>>
    PROVE  SoundDisk'
<1>1. fs' \subseteq fs /\ fs \ {p} \subseteq fs'
    BY DEF rmdir
<1>2. old' \subseteq LaunchDirs \cap fs'
    BY <1>1 DEF SoundDisk
<1> QED
    BY <1>1, <1>2 DEF SoundDisk, Paths, LaunchDirs, HasTree, BaseOf

\* A launch directory is a path of four.
LEMMA LaunchDirLen ==
    /\ \A a : <<a>> \notin LaunchDirs
    /\ \A a, b : <<a, b>> \notin LaunchDirs
    /\ \A a, b, c : <<a, b, c>> \notin LaunchDirs
<1>1. \A l \in LaunchDirs : Len(l) = 4
    BY DEF LaunchDirs
<1>2. \A a, b, c : Len(<<a>>) = 1 /\ Len(<<a, b>>) = 2 /\ Len(<<a, b, c>>) = 3
    OBVIOUS
<1> QED
    BY <1>1, <1>2

\* The janitor's steps keep the state well formed.
LEMMA SoundJanitor ==
    ASSUME Sound, Janitor
    PROVE  Sound'
<1> USE DEF Sound
<1>a. ASSUME UNCHANGED sess PROVE SoundSessions'
    BY <1>a DEF SoundSessions, Well, HasTree
<1>b. ASSUME UNCHANGED <<hung, Scoring>>, rows' \subseteq rows, jan' \in JanitorStates
      PROVE  SoundRest'
    BY <1>b DEF SoundRest, Scoring, JanitorStates, Bases
<1>c. Resting \in JanitorStates /\ Quiet.door \in DoorIds
    BY QuietFields DEF Resting, JanitorStates, SessionStates, Bases
<1>d. jan \in JanitorStates /\ rows \subseteq Nodes
    BY DEF SoundRest
<1>1. CASE JStart
  <2>1. jan' \in JanitorStates
      BY <1>1, <1>c DEF JStart, Jan, JanitorStates
  <2> QED
      BY <1>1, <2>1, <1>a, <1>b, DiskSame DEF JStart, Jan
<1>2. ASSUME NEW d \in DoorIds, JDoor(d) PROVE Sound'
  <2>1. jan' \in JanitorStates
      BY <1>2, <1>d DEF JDoor, Jan, JanitorStates
  <2> QED
      BY <1>2, <2>1, <1>a, <1>b, DiskSame DEF JDoor, Jan
<1>3. ASSUME NEW n \in Nodes, JNode(n) PROVE Sound'
  <2>1. jan' \in JanitorStates
      BY <1>3, <1>d DEF JNode, Jan, JanitorStates
  <2> QED
      BY <1>3, <2>1, <1>a, <1>b, DiskSame DEF JNode, Jan
<1>4. ASSUME NEW k \in Names, JLaunch(k) PROVE Sound'
  <2>1. jan' \in JanitorStates
      BY <1>4, <1>d DEF JLaunch, Jan, JanitorStates
  <2> QED
      BY <1>4, <2>1, <1>a, <1>b, DiskSame, RemoveSound DEF JLaunch, Jan
<1>5. CASE JNodeDone
  <2>1. jan' \in JanitorStates
      BY <1>5, <1>d DEF JNodeDone, Jan, JanitorStates
  <2>2. SoundDisk'
      BY <1>5, RmdirSound, LaunchDirLen DEF JNodeDone
  <2> QED
      BY <1>5, <2>1, <2>2, <1>a, <1>b DEF JNodeDone, Jan
<1>6. CASE JDoorDone
  <2>1. jan' \in JanitorStates
      BY <1>6, <1>c, <1>d DEF JDoorDone, Jan, JanitorStates
  <2>2. SoundDisk'
      BY <1>6, RmdirSound, LaunchDirLen DEF JDoorDone
  <2> QED
      BY <1>6, <2>1, <2>2, <1>a, <1>b DEF JDoorDone, Jan
<1>7. CASE JBaseDone
  <2>1. jan' \in JanitorStates
    <3>1. [jan EXCEPT !.base = "runtime", !.seenD = {}] \in JanitorStates
        BY <1>d DEF JanitorStates, Bases
    <3>2. [Resting EXCEPT !.pc = "rows", !.seenN = rows] \in JanitorStates
        BY <1>c, <1>d DEF JanitorStates
    <3> QED
        BY <1>7, <3>1, <3>2 DEF JBaseDone, Jan
  <2>2. SoundDisk'
    <3>1. fs' \subseteq fs \cup {<<b>> : b \in Bases} /\ fs \subseteq fs'
        BY <1>7 DEF JBaseDone, Bases
    <3>2. {<<b>> : b \in Bases} \subseteq Paths
        BY DEF Paths
    <3>3. fs' \subseteq Paths /\ UNCHANGED <<old, result>>
        BY <1>7, <3>1, <3>2 DEF JBaseDone, SoundDisk
    <3> QED
        BY <3>1, <3>3 DEF SoundDisk, Paths, LaunchDirs, HasTree, BaseOf
  <2> QED
      BY <1>7, <2>1, <2>2, <1>a, <1>b DEF JBaseDone, Jan
<1>8. ASSUME NEW n \in Nodes, JRow(n) PROVE Sound'
  <2>1. jan' \in JanitorStates
      BY <1>8, <1>d DEF JRow, Jan, JanitorStates
  <2> QED
      BY <1>8, <2>1, <1>a, <1>b, DiskSame DEF JRow, Jan
<1>9. CASE JReconcile
  <2>1. jan' \in JanitorStates
      BY <1>9, <1>d DEF JReconcile, Jan, JanitorStates
  <2> QED
      BY <1>9, <2>1, <1>a, <1>b, DiskSame DEF JReconcile, Jan
<1>10. CASE JDone
    BY <1>10, <1>a, <1>b, <1>c, DiskSame DEF JDone, Jan
<1> QED
    BY <1>1, <1>2, <1>3, <1>4, <1>5, <1>6, <1>7, <1>8, <1>9, <1>10 DEF Janitor

\* The program stops and starts again, the sysop edits, time passes.
LEMMA SoundWorld ==
    ASSUME Sound, \/ Crash
                  \/ \E d \in DoorIds : Configure(d)
                  \/ \E l \in LaunchDirs : Age(l)
    PROVE  Sound'
<1> USE DEF Sound
<1>1. CASE Crash
  <2> DEFINE s == [Quiet EXCEPT !.pc = "off"]
  <2>1. Well(s) /\ s \in SessionStates /\ sess' = [n \in Nodes |-> s]
      BY <1>1, QuietWell DEF Crash, Well
  <2> HIDE DEF s
  <2>2. SoundSessions'
      BY <2>1 DEF SoundSessions, Well, HasTree
  <2>3. jan' \in JanitorStates
      BY <1>1, QuietFields DEF Crash, Resting, JanitorStates, SessionStates, Bases
  <2>4. hung' \in [Nodes -> BOOLEAN]
      BY <1>1 DEF Crash
  <2>5. SoundRest'
      BY <1>1, <2>3, <2>4 DEF Crash, SoundRest, Scoring, JanitorStates, Bases
  <2>6. SoundDisk'
      BY <1>1, DiskSame DEF Crash
  <2> QED
      BY <2>2, <2>5, <2>6
<1>2. ASSUME NEW d \in DoorIds, Configure(d) PROVE Sound'
  <2>1. SoundSessions'
      BY <1>2 DEF Configure, SoundSessions, Well, HasTree
  <2>2. lb' \in [DoorIds -> BOOLEAN]
      BY <1>2 DEF Configure, SoundRest
  <2>3. SoundRest'
      BY <1>2, <2>2 DEF Configure, SoundRest, JanitorStates, Bases
  <2>4. SoundDisk'
      BY <1>2, DiskSame DEF Configure
  <2> QED
      BY <2>1, <2>3, <2>4
<1>3. ASSUME NEW l \in LaunchDirs, Age(l) PROVE Sound'
  <2>1. SoundSessions'
      BY <1>3 DEF Age, SoundSessions, Well, HasTree
  <2>2. SoundRest'
      BY <1>3 DEF Age, SoundRest, Scoring, JanitorStates, Bases
  <2>3. fs' = fs /\ result' = result /\ old' = old \cup {l} /\ l \in fs
      BY <1>3 DEF Age
  <2>4. SoundDisk'
      BY <2>3 DEF SoundDisk, Paths, LaunchDirs, HasTree, BaseOf
  <2> QED
      BY <2>1, <2>2, <2>4
<1> QED
    BY <1>1, <1>2, <1>3

\* Every step keeps the state well formed.
LEMMA SoundStep == Sound /\ [Next]_vars => Sound'
<1> SUFFICES ASSUME Sound, [Next]_vars PROVE Sound'
    OBVIOUS
<1>1. CASE Next
    BY <1>1, SoundMenu, SoundSupervision, SoundLauncher, SoundJanitor, SoundWorld DEF Next
<1>2. CASE UNCHANGED vars
  <2>1. SoundSessions'
      BY <1>2 DEF vars, Sound, SoundSessions, Well, HasTree
  <2>2. SoundDisk'
      BY <1>2, DiskSame DEF vars, Sound, Disk
  <2>3. SoundRest'
      BY <1>2 DEF vars, Sound, SoundRest, JanitorStates, Bases
  <2> QED
      BY <2>1, <2>2, <2>3 DEF Sound
<1> QED
    BY <1>1, <1>2

\* Well-formed states are typed, and their children are supervised.
LEMMA SoundInv == Sound => DoorsInv
<1> SUFFICES ASSUME Sound PROVE DoorsInv
    OBVIOUS
<1>1. \A p \in fs : Len(p) \in 1 .. 4 /\ (Len(p) = 4 => p \in LaunchDirs)
  <2>1. \A p \in Paths : Len(p) \in 1 .. 4 /\ (Len(p) = 4 => p \in LaunchDirs)
    <3>1. \A a, b, c : Len(<<a>>) = 1 /\ Len(<<a, b>>) = 2 /\ Len(<<a, b, c>>) = 3
        OBVIOUS
    <3>2. \A l \in LaunchDirs : Len(l) = 4
        BY DEF LaunchDirs
    <3> QED
        BY <3>1, <3>2 DEF Paths
  <2> QED
      BY <2>1 DEF Sound, SoundDisk
<1>2. TypeOK
    BY <1>1 DEF Sound, SoundSessions, SoundDisk, SoundRest, TypeOK
<1>3. ChildReaped
    BY DEF Sound, SoundSessions, Well, ChildReaped
<1> QED
    BY <1>2, <1>3 DEF DoorsInv

\* Sessions, directories and tables stay in their types, and whoever hangs up,
\* times out, fails or crashes, a program that was started is waited for: a
\* session has a child exactly while it supervises one (process.c, doors.c).
THEOREM DoorsCorrect == Spec => []DoorsInv
BY SoundInit, SoundStep, SoundInv, PTL DEF Spec

-----------------------------------------------------------------------------
(* Held: a run keeps its directory and its result file.                     *)

\* Two sessions have different launch directories.
LEMMA LaunchDirsDiffer ==
    ASSUME NEW n \in Nodes, NEW m \in Nodes, m # n
    PROVE  LaunchDir(m) # LaunchDir(n)
BY DEF LaunchDir

\* A step of one session leaves the others' directories and results alone.
LEMMA OthersHeld ==
    ASSUME Sound, Held, NEW n \in Nodes, NEW m \in Nodes, m # n,
           sess'[m] = sess[m], UNCHANGED jan,
           fs \ {LaunchDir(n)} \subseteq fs', old' \subseteq old,
           \A l \in LaunchDirs : l # LaunchDir(n) => result'[l] = result[l]
    PROVE  KeptAt(m)' /\ OwnAt(m)'
<1>1. LaunchDir(m)' = LaunchDir(m) /\ (Visits(m)' <=> Visits(m))
    BY DEF LaunchDir, Visits, BaseOf
<1>2. LaunchDir(m) # LaunchDir(n)
    BY LaunchDirsDiffer
<1>3. KeptAt(m) /\ OwnAt(m)
    BY DEF Held, Kept, Own
<1>4. KeptAt(m)'
    BY <1>1, <1>2, <1>3 DEF KeptAt, HasTree, Working, Launching
<1>5. ASSUME HasTree(sess[m].door), sess[m].pc \in Launching
      PROVE  result'[LaunchDir(m)] = result[LaunchDir(m)]
    BY <1>2, <1>5, LaunchDirOf
<1>6. OwnAt(m)'
    BY <1>1, <1>3, <1>5 DEF OwnAt, HasTree, Launching
<1> QED
    BY <1>4, <1>6

\* A session that is not at work, or whose run has no directory, holds nothing.
LEMMA NothingHeld ==
    ASSUME NEW n \in Nodes, sess'[n].pc \notin Working \/ ~HasTree(sess'[n].door)
    PROVE  KeptAt(n)' /\ OwnAt(n)'
BY DEF KeptAt, OwnAt, Working, Launching, HasTree

\* A session whose run stays at work on an unchanged disk holds what it held.
LEMMA StillHeld ==
    ASSUME Held, NEW n \in Nodes, UNCHANGED <<Disk, jan>>,
           sess[n].pc \in {"wait", "grace"}, sess'[n].pc \in {"wait", "grace", "ingest"},
           sess'[n].door = sess[n].door, sess'[n].k = sess[n].k, sess'[n].wrote = sess[n].wrote
    PROVE  KeptAt(n)' /\ OwnAt(n)'
<1>1. LaunchDir(n)' = LaunchDir(n) /\ (Visits(n)' <=> Visits(n))
    BY DEF LaunchDir, Visits, BaseOf
<1> QED
    BY <1>1 DEF Held, Kept, Own, KeptAt, OwnAt, HasTree, Working, Launching, Disk

\* What the steps of a session, its launchers and its program may touch.
SessionStep(n) == \/ Login(n) \/ Logout(n) \/ Hangup(n)
                  \/ \E d \in DoorIds : Enter(n, d) \/ Transfer(n, d) \/ BuccChain(n, d)
                  \/ \E x \in Scores : ChildWrites(n, x)
                  \/ ChildEnds(n) \/ BuccEnds(n) \/ Supervise(n) \/ Launcher(n)
Local(n) == /\ UNCHANGED jan
            /\ \A m \in Nodes \ {n} : sess'[m] = sess[m]
            /\ fs \ {LaunchDir(n)} \subseteq fs' /\ old' \subseteq old
            /\ \A l \in LaunchDirs : l # LaunchDir(n) => result'[l] = result[l]

\* The removal of its directory is such a step.
LEMMA RemoveLocal ==
    ASSUME SoundDisk, NEW n \in Nodes,
           \/ UNCHANGED Disk
           \/ remove_tree_recursive(LaunchDir(n))
           \/ dosbox_cleanup_runtime(LaunchDir(n))
    PROVE  /\ fs \ {LaunchDir(n)} \subseteq fs' /\ old' \subseteq old
           /\ \A l \in LaunchDirs : l # LaunchDir(n) => result'[l] = result[l]
<1>1. CASE remove_tree_recursive(LaunchDir(n))
    BY <1>1 DEF remove_tree_recursive, SoundDisk
<1>2. CASE UNCHANGED Disk
    BY <1>2 DEF Disk
<1> QED
    BY <1>1, <1>2 DEF dosbox_cleanup_runtime

LEMMA SessionLocal ==
    ASSUME Sound, NEW n \in Nodes, SessionStep(n)
    PROVE  Local(n)
<1>0. SoundDisk
    BY DEF Sound
<1>a. ASSUME UNCHANGED sess \/ \E s : Set(n, s)
      PROVE  \A m \in Nodes \ {n} : sess'[m] = sess[m]
    BY <1>a DEF Set, Sound, SoundSessions
<1>b. ASSUME UNCHANGED jan, UNCHANGED sess \/ \E s : Set(n, s), UNCHANGED Disk
      PROVE  Local(n)
    BY <1>0, <1>a, <1>b, RemoveLocal DEF Local
<1>1. CASE Login(n) \/ Logout(n) \/ Hangup(n) \/ ChildEnds(n) \/ BuccEnds(n)
    BY <1>1, <1>b DEF Login, Logout, Hangup, ChildEnds, BuccEnds, Disk
<1>2. ASSUME NEW d \in DoorIds, Enter(n, d) \/ Transfer(n, d) \/ BuccChain(n, d)
      PROVE  Local(n)
    BY <1>2, <1>b DEF Enter, Transfer, BuccChain, Disk
<1>3. ASSUME NEW x \in Scores, ChildWrites(n, x) PROVE Local(n)
    BY <1>0, <1>3, <1>a DEF ChildWrites, Local, SoundDisk
<1>4. CASE Supervise(n)
    BY <1>4, <1>b DEF Supervise, Wait, TimeOut, Cancel, Reap, Disk
<1>5. CASE Dispatch(n)
    BY <1>5, <1>b DEF Dispatch, Goto, Disk
<1>6. CASE Mkdir(n)
    BY <1>6, <1>a DEF Mkdir, Local
<1>7. CASE WriteDropfiles(n)
  <2>1. UNCHANGED jan /\ \E s : Set(n, s)
      BY <1>7 DEF WriteDropfiles, Goto
  <2>2. CASE write_mutineer_session_json(LaunchDir(n)) /\ UNCHANGED <<fs, old>>
      BY <1>0, <1>a, <2>1, <2>2 DEF write_mutineer_session_json, Local, SoundDisk
  <2>3. CASE UNCHANGED Disk \/ dosbox_cleanup_runtime(LaunchDir(n))
      BY <1>0, <1>a, <2>1, <2>3, RemoveLocal DEF Local
  <2> QED
      BY <1>7, <2>2, <2>3 DEF WriteDropfiles
<1>8. CASE Fork(n) \/ Ingest(n) \/ Return(n)
    BY <1>8, <1>b DEF Fork, Ingest, Return, Disk
<1>9. CASE ForkFails(n)
  <2>1. UNCHANGED jan /\ (\E s : Set(n, s))
        /\ (UNCHANGED Disk \/ dosbox_cleanup_runtime(LaunchDir(n)))
      BY <1>9 DEF ForkFails, Disk
  <2> QED
      BY <1>0, <1>a, <2>1, RemoveLocal DEF Local
<1>10. CASE Tidy(n)
  <2>1. UNCHANGED jan /\ (\E s : Set(n, s))
        /\ \/ UNCHANGED Disk \/ remove_tree_recursive(LaunchDir(n))
           \/ dosbox_cleanup_runtime(LaunchDir(n))
      BY <1>10 DEF Tidy
  <2> QED
      BY <1>0, <1>a, <2>1, RemoveLocal DEF Local
<1> QED
    BY <1>1, <1>2, <1>3, <1>4, <1>5, <1>6, <1>7, <1>8, <1>9, <1>10 DEF SessionStep, Launcher

\* A session keeps the directory and the result of its run while it works.
LEMMA HeldSession ==
    ASSUME Sound, Held, NEW n \in Nodes, SessionStep(n)
    PROVE  Held'
<1> DEFINE s == sess[n]
<1>0. s \in SessionStates /\ Well(s) /\ \A t : Set(n, t) => sess'[n] = t
    BY DEF Sound, SoundSessions, Set
<1>a. SUFFICES KeptAt(n)' /\ OwnAt(n)'
    BY SessionLocal, OthersHeld DEF Local, Held, Kept, Own
<1>b. KeptAt(n) /\ OwnAt(n)
    BY DEF Held, Kept, Own
<1>1. CASE Login(n) \/ Logout(n) \/ BuccEnds(n) \/ Tidy(n) \/ Return(n)
  <2>1. sess'[n].pc \in {"off", "menu", "ret"}
    <3>1. CASE Login(n)
        BY <1>0, <3>1, QuietFields DEF Login
    <3>2. CASE Logout(n)
        BY <1>0, <3>2, QuietFields DEF Logout, SessionStates
    <3>3. CASE BuccEnds(n) \/ Tidy(n)
        BY <1>0, <3>3, ReturnsWell DEF BuccEnds, Tidy
    <3>4. CASE Return(n)
        BY <1>0, <3>4, QuietFields DEF Return, SessionStates
    <3> QED
        BY <1>1, <3>1, <3>2, <3>3, <3>4
  <2> QED
      BY <2>1, NothingHeld DEF Working, Launching
<1>2. CASE Hangup(n)
  <2>1. s.pc = "wait" /\ sess' = sess /\ UNCHANGED <<Disk, jan>>
      BY <1>2 DEF Hangup
  <2> QED
      BY <2>1, StillHeld
<1>3. ASSUME NEW d \in DoorIds, Enter(n, d) \/ BuccChain(n, d) PROVE KeptAt(n)' /\ OwnAt(n)'
  <2>1. 0 \in 0 .. ChainMax
      BY ConfigAssumption
  <2>2. sess'[n].pc \in {"dispatch", "ret"}
    <3>1. CASE Enter(n, d)
        BY <1>0, <2>1, <3>1, GetWell DEF Enter, Sound
    <3>2. CASE BuccChain(n, d) /\ s.depth >= ChainMax
        BY <1>0, <3>2, ReturnsWell DEF BuccChain
    <3>3. CASE BuccChain(n, d) /\ ~(s.depth >= ChainMax)
      <4>1. s.depth + 1 \in 0 .. ChainMax
          BY <1>0, <3>3, ConfigAssumption DEF SessionStates
      <4> QED
          BY <1>0, <3>3, <4>1, GetWell DEF BuccChain, Sound
    <3> QED
        BY <1>3, <3>1, <3>2, <3>3
  <2> QED
      BY <2>2, NothingHeld DEF Working, Launching
<1>4. ASSUME NEW d \in DoorIds, Transfer(n, d) PROVE KeptAt(n)' /\ OwnAt(n)'
  <2>1. CASE UNCHANGED sess
    <3>1. s.pc = "menu"
        BY <1>4 DEF Transfer
    <3> QED
        BY <2>1, <3>1, NothingHeld DEF Working, Launching
  <2>2. CASE Set(n, [Quiet EXCEPT !.pc = "fork", !.door = d])
    <3>1. sess'[n].door = d /\ Door[d].runner = "protocol"
        BY <1>0, <1>4, <2>2, QuietFields DEF SessionStates, Transfer
    <3> QED
        BY <3>1, NothingHeld DEF HasTree
  <2> QED
      BY <1>4, <2>1, <2>2 DEF Transfer
<1>5. ASSUME NEW x \in Scores, ChildWrites(n, x) PROVE KeptAt(n)' /\ OwnAt(n)'
  <2>1. /\ sess'[n] = [s EXCEPT !.wrote = x] /\ s.pc \in {"wait", "grace"} /\ HasTree(s.door)
        /\ LaunchDir(n) \in fs /\ UNCHANGED <<fs, jan>> /\ old' \subseteq old
        /\ result' = [result EXCEPT ![LaunchDir(n)] = x]
      BY <1>0, <1>5 DEF ChildWrites, Well, SessionStates
  <2>2. sess'[n].door = s.door /\ sess'[n].k = s.k /\ sess'[n].pc = s.pc /\ sess'[n].wrote = x
      BY <1>0, <2>1 DEF SessionStates
  <2>3. LaunchDir(n)' = LaunchDir(n) /\ (Visits(n)' <=> Visits(n))
      BY <2>1, <2>2 DEF LaunchDir, Visits, BaseOf
  <2>4. LaunchDir(n) \in LaunchDirs
      BY <2>1, LaunchDirOf DEF Launching
  <2>5. result'[LaunchDir(n)] = x
      BY <2>1, <2>4 DEF Sound, SoundDisk
  <2>6. KeptAt(n)'
      BY <1>b, <2>1, <2>2, <2>3 DEF KeptAt, Working, Launching, HasTree
  <2>7. OwnAt(n)'
      BY <2>1, <2>2, <2>3, <2>5 DEF OwnAt
  <2> QED
      BY <2>6, <2>7
<1>6. CASE ChildEnds(n)
  <2>1. PICK e \in {"exit0", "bad"} : Set(n, [s EXCEPT !.child = e])
      BY <1>6 DEF ChildEnds
  <2>2. sess'[n].door = s.door /\ sess'[n].k = s.k /\ sess'[n].pc = s.pc
        /\ sess'[n].wrote = s.wrote
      BY <1>0, <2>1 DEF SessionStates
  <2>3. s.pc \in {"wait", "grace"} /\ UNCHANGED <<Disk, jan>>
      BY <1>0, <1>6 DEF ChildEnds, Well
  <2> QED
      BY <2>2, <2>3, StillHeld
<1>7. CASE Supervise(n)
  <2>1. s.pc \in {"wait", "grace"} /\ UNCHANGED <<Disk, jan>>
      BY <1>7 DEF Supervise, Wait, TimeOut, Cancel, Reap
  <2>2. sess'[n].door = s.door /\ sess'[n].k = s.k /\ sess'[n].pc \in {"grace", "ingest"}
        /\ sess'[n].wrote = s.wrote
    <3>1. CASE Wait(n)
        BY <1>0, <3>1 DEF Wait, Over, Outcome, SessionStates
    <3>2. CASE TimeOut(n)
        BY <1>0, <3>2 DEF TimeOut, SessionStates
    <3>3. CASE Cancel(n)
        BY <1>0, <3>3 DEF Cancel, SessionStates
    <3>4. CASE Reap(n)
      <4> DEFINE u == IF s.child = "runs" THEN [s EXCEPT !.child = "bad"] ELSE s
      <4>1. u \in SessionStates /\ u.door = s.door /\ u.k = s.k /\ u.wrote = s.wrote
          BY <1>0 DEF SessionStates
      <4>2. sess'[n] = Over(u)
          BY <1>0, <3>4 DEF Reap
      <4> HIDE DEF u
      <4> QED
          BY <4>1, <4>2 DEF Over, Outcome, SessionStates
    <3> QED
        BY <1>7, <3>1, <3>2, <3>3, <3>4 DEF Supervise
  <2> QED
      BY <2>1, <2>2, StillHeld
<1>8. CASE Dispatch(n)
  <2>1. UNCHANGED <<Disk, jan>> /\ s.pc = "dispatch"
      BY <1>8 DEF Dispatch
  <2>2. CASE Set(n, Returns(s)) \/ Goto(n, "bucc")
    <3>1. sess'[n].pc \in {"ret", "bucc"}
        BY <1>0, <2>2, ReturnsWell DEF Goto, SessionStates
    <3> QED
        BY <3>1, NothingHeld DEF Working, Launching
  <2>3. ASSUME NEW k \in Names, <<BaseOf(s.door), s.door, n, k>> \notin old,
               Set(n, [s EXCEPT !.pc = "mkdir", !.stage = 2, !.k = k])
        PROVE  KeptAt(n)' /\ OwnAt(n)'
    <3>1. sess'[n].pc = "mkdir" /\ sess'[n].door = s.door /\ sess'[n].k = k
        BY <1>0, <2>3 DEF SessionStates
    <3>2. LaunchDir(n)' \notin old'
        BY <2>1, <2>3, <3>1 DEF LaunchDir, Disk, BaseOf
    <3> QED
        BY <3>1, <3>2 DEF KeptAt, OwnAt
  <2>4. old \subseteq fs
      BY DEF Sound, SoundDisk
  <2> QED
      BY <1>8, <2>2, <2>3, <2>4 DEF Dispatch
<1>9. CASE Mkdir(n)
  <2>1. CASE Set(n, Returns(s))
      BY <1>0, <2>1, ReturnsWell, NothingHeld DEF Working, Launching
  <2>2. CASE Set(n, IF s.stage < 4 THEN [s EXCEPT !.stage = @ + 1] ELSE [s EXCEPT !.pc = "drop"])
    <3>1. sess'[n].pc \in {"mkdir", "drop"} /\ sess'[n].door = s.door /\ sess'[n].k = s.k
          /\ s.pc = "mkdir"
        BY <1>0, <1>9, <2>2 DEF SessionStates, Mkdir
    <3>2. LaunchDir(n)' = LaunchDir(n) /\ (Visits(n)' <=> Visits(n)) /\ UNCHANGED old
        BY <1>9, <3>1 DEF LaunchDir, Visits, BaseOf, Mkdir
    <3> QED
        BY <1>b, <3>1, <3>2 DEF KeptAt, OwnAt, Working, Launching, HasTree
  <2> QED
      BY <1>9, <2>1, <2>2 DEF Mkdir
<1>10. CASE WriteDropfiles(n)
  <2>1. CASE Set(n, Returns(s))
      BY <1>0, <2>1, ReturnsWell, NothingHeld DEF Working, Launching
  <2>2. CASE /\ LaunchDir(n) \in fs /\ write_mutineer_session_json(LaunchDir(n))
             /\ UNCHANGED <<fs, old>> /\ Goto(n, "fork")
    <3>1. sess'[n].pc = "fork" /\ sess'[n].door = s.door /\ sess'[n].k = s.k /\ s.pc = "drop"
          /\ UNCHANGED jan
        BY <1>0, <1>10, <2>2 DEF SessionStates, WriteDropfiles, Goto
    <3>2. LaunchDir(n)' = LaunchDir(n) /\ (Visits(n)' <=> Visits(n))
        BY <3>1 DEF LaunchDir, Visits, BaseOf
    <3>3. HasTree(s.door) => LaunchDir(n) \in LaunchDirs
        BY <3>1, LaunchDirOf DEF Launching
    <3>4. HasTree(s.door) => result'[LaunchDir(n)] = 0
        BY <2>2, <3>3 DEF write_mutineer_session_json, Sound, SoundDisk
    <3> QED
        BY <1>b, <2>2, <3>1, <3>2, <3>4 DEF KeptAt, OwnAt, Working, Launching, HasTree
  <2> QED
      BY <1>10, <2>1, <2>2 DEF WriteDropfiles
<1>11. CASE Fork(n)
  <2>1. /\ sess'[n].pc = "wait" /\ sess'[n].door = s.door /\ sess'[n].k = s.k
        /\ sess'[n].wrote = 0 /\ s.pc = "fork" /\ UNCHANGED <<Disk, jan>>
      BY <1>0, <1>11 DEF SessionStates, Fork
  <2>2. LaunchDir(n)' = LaunchDir(n) /\ (Visits(n)' <=> Visits(n))
      BY <2>1 DEF LaunchDir, Visits, BaseOf
  <2> QED
      BY <1>b, <2>1, <2>2 DEF KeptAt, OwnAt, Working, Launching, HasTree, Disk
<1>12. CASE ForkFails(n) \/ Ingest(n)
  <2>1. sess'[n].pc \in {"ret", "tidy"}
    <3>1. CASE ForkFails(n)
        BY <1>0, <3>1, ReturnsWell DEF ForkFails, SessionStates
    <3>2. CASE Ingest(n)
      <4>1. Set(n, [s EXCEPT !.pc = "tidy", !.timed = FALSE, !.wrote = 0])
          BY <3>2 DEF Ingest
      <4> QED
          BY <1>0, <4>1 DEF SessionStates
    <3> QED
        BY <1>12, <3>1, <3>2
  <2> QED
      BY <2>1, NothingHeld DEF Working, Launching
<1> QED
    BY <1>1, <1>2, <1>3, <1>4, <1>5, <1>6, <1>7, <1>8, <1>9, <1>10, <1>11, <1>12
       DEF SessionStep, Launcher

\* What a step that leaves the sessions alone may do to a launch.
LEMMA UntouchedHeld ==
    ASSUME Held, NEW m \in Nodes, UNCHANGED sess,
           ASSUME HasTree(sess[m].door), sess[m].pc \in Working
           PROVE  /\ LaunchDir(m) \in fs => LaunchDir(m) \in fs'
                  /\ result'[LaunchDir(m)] = result[LaunchDir(m)]
                  /\ Visits(m)' => LaunchDir(m) \notin old'
    PROVE  KeptAt(m)' /\ OwnAt(m)'
<1>1. LaunchDir(m)' = LaunchDir(m)
    BY DEF LaunchDir, BaseOf
<1> QED
    BY <1>1 DEF Held, Kept, Own, KeptAt, OwnAt, HasTree, Working, Launching

\* The janitor takes only launches that are old, and whoever is at work when it
\* comes to a node is not on it.
LEMMA HeldJanitor ==
    ASSUME Sound, Held, StaleAge > 0, Janitor
    PROVE  Held'
<1> SUFFICES ASSUME NEW m \in Nodes PROVE KeptAt(m)' /\ OwnAt(m)'
    BY DEF Held, Kept, Own
<1> DEFINE L == LaunchDir(m)
<1>0. KeptAt(m) /\ jan \in JanitorStates /\ L[1] = BaseOf(sess[m].door) /\ L[2] = sess[m].door
      /\ L[3] = m /\ Len(L) = 4
    BY DEF Held, Kept, Sound, SoundRest, LaunchDir
<1>a. ASSUME UNCHANGED <<sess, Disk>>, jan'.pc # "launches" PROVE KeptAt(m)' /\ OwnAt(m)'
  <2>1. ~Visits(m)'
      BY <1>a DEF Visits
  <2> QED
      BY <1>a, <2>1, UntouchedHeld DEF Disk
<1>b. ASSUME UNCHANGED <<sess, old, result>>, jan'.pc # "launches", NEW p, fs \ {p} \subseteq fs',
             Len(p) # 4
      PROVE  KeptAt(m)' /\ OwnAt(m)'
  <2>1. ~Visits(m)'
      BY <1>b DEF Visits
  <2>2. L # p
      BY <1>0, <1>b
  <2> QED
      BY <1>b, <2>1, <2>2, UntouchedHeld
<1>1. CASE JStart
    BY <1>1, <1>a DEF JStart, Jan, Resting
<1>2. ASSUME NEW d \in DoorIds, JDoor(d) PROVE KeptAt(m)' /\ OwnAt(m)'
    BY <1>0, <1>2, <1>a DEF JDoor, Jan, JanitorStates
<1>3. ASSUME NEW n \in Nodes, JNode(n) PROVE KeptAt(m)' /\ OwnAt(m)'
  <2>1. CASE sess[n].pc = "off"
    <3>1. jan'.node = n /\ UNCHANGED <<sess, Disk>>
        BY <1>0, <1>3, <2>1 DEF JNode, Jan, JanitorStates
    <3>2. Visits(m)' => sess[m].pc \notin Working
        BY <2>1, <3>1 DEF Visits, Working, Launching
    <3> QED
        BY <3>1, <3>2, UntouchedHeld DEF Disk
  <2>2. CASE sess[n].pc # "off"
      BY <1>0, <1>3, <2>2, <1>a DEF JNode, Jan, JanitorStates
  <2> QED
      BY <2>1, <2>2
<1>4. ASSUME NEW k \in Names, JLaunch(k) PROVE KeptAt(m)' /\ OwnAt(m)'
  <2> DEFINE l == <<jan.base, jan.door, jan.node, k>>
  <2>1. /\ UNCHANGED sess /\ jan.pc = "launches" /\ jan'.pc = jan.pc /\ jan'.base = jan.base
        /\ jan'.door = jan.door /\ jan'.node = jan.node
      BY <1>0, <1>4 DEF JLaunch, Jan, JanitorStates
  <2>2. Visits(m)' <=> Visits(m)
      BY <2>1 DEF Visits, BaseOf
  <2>3. CASE UNCHANGED Disk
      BY <1>0, <2>1, <2>2, <2>3, UntouchedHeld DEF KeptAt, Disk
  <2>4. CASE l \in old /\ remove_tree_recursive(l)
    <3>1. ASSUME HasTree(sess[m].door), sess[m].pc \in Working PROVE L # l
      <4>1. ASSUME L = l PROVE Visits(m)
          BY <2>1, <4>1 DEF LaunchDir, Visits
      <4> QED
          BY <1>0, <2>4, <3>1, <4>1 DEF KeptAt
    <3>2. ASSUME HasTree(sess[m].door), sess[m].pc \in Working
          PROVE  /\ L \in fs => L \in fs'
                 /\ result'[L] = result[L]
                 /\ Visits(m)' => L \notin old'
      <4>1. L \in LaunchDirs
          BY <3>2, LaunchDirOf DEF Working
      <4>2. result'[L] = result[L]
          BY <2>4, <3>1, <3>2, <4>1 DEF remove_tree_recursive, Sound, SoundDisk
      <4> QED
          BY <1>0, <2>2, <2>4, <3>1, <3>2, <4>2 DEF remove_tree_recursive, KeptAt
    <3> QED
        BY <2>1, <3>2, UntouchedHeld
  <2> QED
      BY <1>4, <2>3, <2>4 DEF JLaunch
<1>5. CASE JNodeDone
  <2>1. jan'.pc = "nodes" /\ UNCHANGED <<sess, old, result>>
        /\ fs \ {<<jan.base, jan.door, jan.node>>} \subseteq fs'
      BY <1>0, <1>5 DEF JNodeDone, Jan, JanitorStates, rmdir
  <2>2. Len(<<jan.base, jan.door, jan.node>>) # 4
      OBVIOUS
  <2> QED
      BY <2>1, <2>2, <1>b
<1>6. CASE JDoorDone
  <2>1. jan'.pc = "doors" /\ UNCHANGED <<sess, old, result>>
        /\ fs \ {<<jan.base, jan.door>>} \subseteq fs'
      BY <1>0, <1>6 DEF JDoorDone, Jan, JanitorStates, rmdir
  <2>2. Len(<<jan.base, jan.door>>) # 4
      OBVIOUS
  <2> QED
      BY <2>1, <2>2, <1>b
<1>7. CASE JBaseDone
  <2>1. UNCHANGED <<sess, old, result>> /\ fs \ {<<jan.base>>} \subseteq fs'
      BY <1>7 DEF JBaseDone, Jan
  <2>a. Len(<<jan.base>>) # 4
      OBVIOUS
  <2>2. jan'.pc # "launches"
    <3>1. [jan EXCEPT !.base = "runtime", !.seenD = {}].pc = jan.pc
        BY <1>0 DEF JanitorStates
    <3>2. [Resting EXCEPT !.pc = "rows", !.seenN = rows].pc = "rows"
        BY DEF Resting
    <3> QED
        BY <1>7, <3>1, <3>2 DEF JBaseDone, Jan
  <2> QED
      BY <2>1, <2>a, <2>2, <1>b
<1>8. ASSUME NEW n \in Nodes, JRow(n) PROVE KeptAt(m)' /\ OwnAt(m)'
    BY <1>0, <1>8, <1>a DEF JRow, Jan, JanitorStates
<1>9. CASE JReconcile
    BY <1>0, <1>9, <1>a DEF JReconcile, Jan, JanitorStates
<1>10. CASE JDone
    BY <1>10, <1>a DEF JDone, Jan, Resting
<1> QED
    BY <1>1, <1>2, <1>3, <1>4, <1>5, <1>6, <1>7, <1>8, <1>9, <1>10 DEF Janitor

LEMMA HeldWorld ==
    ASSUME Sound, Held, \/ Crash
                        \/ \E d \in DoorIds : Configure(d)
                        \/ \E l \in LaunchDirs : Age(l)
    PROVE  Held'
<1> SUFFICES ASSUME NEW m \in Nodes PROVE KeptAt(m)' /\ OwnAt(m)'
    BY DEF Held, Kept, Own
<1>0. KeptAt(m)
    BY DEF Held, Kept
<1>1. CASE Crash
  <2> DEFINE s == [Quiet EXCEPT !.pc = "off"]
  <2>1. sess'[m] = s
      BY <1>1 DEF Crash
  <2>2. s.pc = "off"
      BY QuietFields DEF SessionStates
  <2> QED
      BY <2>1, <2>2, NothingHeld DEF Working, Launching
<1>2. ASSUME NEW d \in DoorIds, Configure(d) PROVE KeptAt(m)' /\ OwnAt(m)'
    BY <1>0, <1>2, UntouchedHeld DEF Configure, Disk, KeptAt, Visits, BaseOf
<1>3. ASSUME NEW l \in LaunchDirs, Age(l) PROVE KeptAt(m)' /\ OwnAt(m)'
  <2>1. UNCHANGED <<sess, fs, result, jan>> /\ old' = old \cup {l}
        /\ ~(jan.pc = "launches" /\ SubSeq(l, 1, 3) = <<jan.base, jan.door, jan.node>>)
      BY <1>3 DEF Age
  <2>2. Visits(m)' <=> Visits(m)
      BY <2>1 DEF Visits, BaseOf
  <2>3. ASSUME Visits(m) PROVE LaunchDir(m) # l
    <3>1. SubSeq(LaunchDir(m), 1, 3) = <<BaseOf(sess[m].door), sess[m].door, m>>
        BY FirstOf4 DEF LaunchDir
    <3> QED
        BY <2>1, <2>3, <3>1 DEF Visits
  <2> QED
      BY <1>0, <2>1, <2>2, <2>3, UntouchedHeld DEF KeptAt
<1> QED
    BY <1>1, <1>2, <1>3

\* At the start nobody holds anything.
LEMMA HeldInit == Init => Held
<1> SUFFICES ASSUME Init, NEW m \in Nodes PROVE KeptAt(m) /\ OwnAt(m)
    BY DEF Held, Kept, Own
<1>1. sess[m].pc = "off"
    BY QuietFields DEF Init, SessionStates
<1> QED
    BY <1>1 DEF KeptAt, OwnAt, Working, Launching

\* Every step leaves the runs at work their directories and their results,
\* when young launch directories are spared at all.
LEMMA HeldStep == StaleAge > 0 /\ Sound /\ Held /\ [Next]_vars => Held'
<1> SUFFICES ASSUME StaleAge > 0, Sound, Held, [Next]_vars PROVE Held'
    OBVIOUS
<1>1. CASE UNCHANGED vars
  <2>1. ASSUME NEW m \in Nodes PROVE KeptAt(m)' /\ OwnAt(m)'
    <3>1. KeptAt(m) /\ OwnAt(m)
        BY DEF Held, Kept, Own
    <3> QED
        BY <1>1, <3>1 DEF vars, KeptAt, OwnAt, LaunchDir, Visits, BaseOf, HasTree
  <2> QED
      BY <2>1 DEF Held, Kept, Own
<1>2. CASE Next
    BY <1>2, HeldSession, HeldJanitor, HeldWorld DEF Next, SessionStep
<1> QED
    BY <1>1, <1>2

\* While a door runs its launch directory is there with its own result in it,
\* whatever the janitor does and however callers come and go.
THEOREM RunsHeld == ASSUME StaleAge > 0 PROVE Spec => [](Sound /\ Held)
BY SoundInit, SoundStep, HeldInit, HeldStep, PTL DEF Spec

-----------------------------------------------------------------------------
(* The leaderboard.                                                         *)

\* Only the end of a run touches the leaderboard, and it leaves "ingest".
LEMMA OnlyIngest ==
    ASSUME Sound, Next
    PROVE  \/ UNCHANGED board /\ \A n \in Nodes : sess[n].pc = "ingest" =>
                                                    sess'[n].pc \in {"ingest", "off"}
           \/ \E n \in Nodes : Ingest(n)
<1> DEFINE Same == /\ UNCHANGED board
                   /\ \A n \in Nodes : sess[n].pc = "ingest" => sess'[n].pc \in {"ingest", "off"}
<1>1. ASSUME NEW n \in Nodes, SessionStep(n), ~Ingest(n) PROVE Same
  <2>1. UNCHANGED board
      BY <1>1 DEF SessionStep, Login, Logout, Hangup, Enter, Transfer, BuccChain, ChildWrites,
                  ChildEnds, BuccEnds, Supervise, Wait, TimeOut, Cancel, Reap, Launcher,
                  Dispatch, Mkdir, WriteDropfiles, Fork, ForkFails, Tidy, Return, Scoring
  <2>2. sess[n].pc # "ingest"
    <3>1. sess[n].child = "runs" => sess[n].pc \in {"wait", "grace"}
        BY DEF Sound, SoundSessions, Well
    <3> QED
        BY <1>1, <3>1 DEF SessionStep, Login, Logout, Hangup, Enter, Transfer, BuccChain,
                  ChildWrites, ChildEnds, BuccEnds, Supervise, Wait, TimeOut, Cancel, Reap,
                  Launcher, Dispatch, Mkdir, WriteDropfiles, Fork, ForkFails, Tidy, Return
  <2>3. \A m \in Nodes \ {n} : sess'[m] = sess[m]
      BY <1>1, SessionLocal DEF Local
  <2> QED
      BY <2>1, <2>2, <2>3
<1>2. ASSUME Janitor PROVE Same
  <2>1. UNCHANGED <<sess, board>>
      BY <1>2 DEF Janitor, JStart, JDoor, JNode, JLaunch, JNodeDone, JDoorDone, JBaseDone, JRow,
                  JReconcile, JDone, Jan, Scoring
  <2> QED
      BY <2>1
<1>3. ASSUME Crash PROVE Same
  <2> DEFINE s == [Quiet EXCEPT !.pc = "off"]
  <2>1. s.pc = "off"
      BY QuietFields DEF SessionStates
  <2>2. UNCHANGED board /\ \A n \in Nodes : sess'[n] = s
      BY <1>3 DEF Crash, Scoring
  <2> QED
      BY <2>1, <2>2
<1>4. ASSUME NEW d \in DoorIds, Configure(d) PROVE Same
    BY <1>4 DEF Configure
<1>5. ASSUME NEW l \in LaunchDirs, Age(l) PROVE Same
    BY <1>5 DEF Age, Scoring
<1> QED
    BY <1>1, <1>2, <1>3, <1>4, <1>5 DEF Next, SessionStep

\* The end of a run enters the score the run wrote itself, if it may report,
\* and only if it is better than the entry there.
LEMMA IngestEnters ==
    ASSUME Sound, Held, NEW n \in Nodes, Ingest(n)
    PROVE  LET s == sess[n]  key == Door[s.door].key
           IN  /\ key \in Keys
               /\ sess' = [sess EXCEPT ![n] = [s EXCEPT !.pc = "tidy", !.timed = FALSE, !.wrote = 0]]
               /\ \/ UNCHANGED board
                  \/ /\ Reports(n) /\ s.wrote \in Scores
                     /\ board[key] = 0 \/ Better(key, s.wrote, board[key])
                     /\ board' = [board EXCEPT ![key] = s.wrote]
               /\ (Reports(n) /\ lb[s.door]) => ~Better(key, s.wrote, board'[key])
<1> DEFINE s == sess[n]
           key == Door[s.door].key
           r == IF HasTree(s.door) /\ LaunchDir(n) \in fs THEN result[LaunchDir(n)] ELSE 0
<1>0. s \in SessionStates /\ Well(s) /\ KeptAt(n) /\ OwnAt(n) /\ s.pc = "ingest"
    BY DEF Sound, SoundSessions, Held, Kept, Own, Ingest
<1>1. key \in Keys
    BY <1>0 DEF Keys, SessionStates
<1>2. r > 0 => r = s.wrote
    BY <1>0 DEF OwnAt
<1>3. s.wrote > 0 => r = s.wrote /\ Door[s.door].enabled
    BY <1>0 DEF OwnAt, KeptAt, Well, Launching
<1>4. IF s.ok /\ s.lb /\ r > 0 THEN db_door_score_submit(s.door, r) ELSE UNCHANGED board
    BY DEF Ingest
<1>5. s.wrote \in 0 .. MaxScore /\ board \in [Keys -> 0 .. MaxScore]
    BY <1>0 DEF SessionStates, Sound, SoundRest
<1>6. sess' = [sess EXCEPT ![n] = [s EXCEPT !.pc = "tidy", !.timed = FALSE, !.wrote = 0]]
    BY DEF Ingest, Set
<1> HIDE DEF r
<1>7. CASE s.ok /\ s.lb /\ s.wrote > 0 /\ lb[s.door]
  <2>1. board' = [board EXCEPT ![key] =
                    IF @ = 0 \/ Better(key, s.wrote, @) THEN s.wrote ELSE @]
      BY <1>3, <1>4, <1>7 DEF db_door_score_submit
  <2>2. ~Better(key, s.wrote, s.wrote)
      BY <1>5 DEF Better
  <2>3. ~Better(key, s.wrote, board'[key])
      BY <1>1, <1>5, <2>1, <2>2
  <2>4. Reports(n) /\ s.wrote \in Scores
      BY <1>0, <1>5, <1>7 DEF Reports, Scores
  <2>5. board' = board \/ /\ board[key] = 0 \/ Better(key, s.wrote, board[key])
                          /\ board' = [board EXCEPT ![key] = s.wrote]
      BY <1>1, <1>5, <2>1
  <2> QED
      BY <1>1, <1>6, <2>3, <2>4, <2>5
<1>8. CASE ~(s.ok /\ s.lb /\ s.wrote > 0 /\ lb[s.door])
  <2>1. UNCHANGED board
      BY <1>2, <1>4, <1>8 DEF db_door_score_submit
  <2>2. ~(Reports(n) /\ lb[s.door])
      BY <1>8 DEF Reports
  <2> QED
      BY <1>1, <1>6, <2>1, <2>2
<1> QED
    BY <1>7, <1>8

\* The leaderboard changes only by what a successful run wrote itself, and such
\* a score is not lost to a worse entry.
THEOREM ScoresEarned == ASSUME StaleAge > 0 PROVE Spec => ScoreEarned
<1> DEFINE Earned ==
      /\ \A k \in Keys : board'[k] # board[k] =>
           \E n \in Nodes : Reports(n) /\ sess[n].wrote = board'[k]
      /\ \A n \in Nodes :
           (Reports(n) /\ sess'[n].pc = "tidy" /\ lb[sess[n].door]) =>
             ~Better(Door[sess[n].door].key, sess[n].wrote, board'[Door[sess[n].door].key])
<1>1. Sound /\ Held /\ [Next]_vars => [Earned]_vars
  <2> SUFFICES ASSUME Sound, Held, Next PROVE Earned
      OBVIOUS
  <2>1. CASE UNCHANGED board /\ \A n \in Nodes : sess[n].pc = "ingest" =>
                                                   sess'[n].pc \in {"ingest", "off"}
      BY <2>1 DEF Reports
  <2>2. ASSUME NEW n \in Nodes, Ingest(n) PROVE Earned
    <3> DEFINE key == Door[sess[n].door].key
    <3>1. \A k \in Keys : board'[k] # board[k] => Reports(n) /\ sess[n].wrote = board'[k]
        BY <2>2, IngestEnters DEF Sound, SoundRest
    <3>2. (Reports(n) /\ lb[sess[n].door]) => ~Better(key, sess[n].wrote, board'[key])
        BY <2>2, IngestEnters
    <3>3. \A m \in Nodes \ {n} : sess'[m] = sess[m]
        BY <2>2, SessionLocal DEF Local, SessionStep, Launcher
    <3> QED
        BY <3>1, <3>2, <3>3 DEF Reports
  <2> QED
      BY <2>1, <2>2, OnlyIngest
<1> QED
    BY <1>1, RunsHeld, PTL DEF Spec, ScoreEarned

-----------------------------------------------------------------------------
(* Doors implements DoorRuns.                                               *)

AbsPhase == [n \in Nodes |-> Phase(n)]
AbsMay == [n \in Nodes |-> sess[n].lb /\ sess[n].pc = "ingest" /\ sess[n].ok]
PhaseOf(pc) == CASE pc \in {"off", "menu"} -> "idle"
                 [] pc \in {"dispatch", "mkdir", "drop", "fork"} -> "setup"
                 [] pc \in {"wait", "grace", "bucc"} -> "play"
                 [] OTHER -> "over"
MayOf(s) == s.lb /\ s.pc = "ingest" /\ s.ok

\* A step of one session is a step of its run.
LEMMA AbsStep ==
    ASSUME Sound, NEW n \in Nodes, NEW t, Set(n, t)
    PROVE  /\ AbsPhase[n] = PhaseOf(sess[n].pc) /\ AbsMay[n] = MayOf(sess[n])
           /\ AbsPhase' = [AbsPhase EXCEPT ![n] = PhaseOf(t.pc)]
           /\ AbsMay' = [AbsMay EXCEPT ![n] = MayOf(t)]
<1>1. sess \in [Nodes -> SessionStates] /\ sess' = [sess EXCEPT ![n] = t]
    BY DEF Sound, SoundSessions, Set
<1>2. \A m \in Nodes : sess'[m] = IF m = n THEN t ELSE sess[m]
    BY <1>1
<1>3. \A m \in Nodes : Phase(m) = PhaseOf(sess[m].pc) /\ Phase(m)' = PhaseOf(sess'[m].pc)
    BY DEF Phase, PhaseOf
<1> HIDE DEF Phase
<1>4. AbsPhase' = [AbsPhase EXCEPT ![n] = PhaseOf(t.pc)] /\ AbsPhase[n] = PhaseOf(sess[n].pc)
    BY <1>2, <1>3 DEF AbsPhase
<1>5. AbsMay' = [AbsMay EXCEPT ![n] = MayOf(t)] /\ AbsMay[n] = MayOf(sess[n])
    BY <1>2 DEF AbsMay, MayOf
<1> QED
    BY <1>4, <1>5

\* The sessions stay: only directories come and go.
LEMMA AbsSame ==
    ASSUME UNCHANGED <<sess, board>>
    PROVE  Runs!Sweep
<1>1. \A m \in Nodes : Phase(m)' = Phase(m)
    BY DEF Phase
<1> QED
    BY <1>1 DEF Runs!Sweep

\* The steps of a run, as steps of DoorRuns.
LEMMA AbsActions ==
    ASSUME NEW n \in Nodes, NEW p, NEW b \in BOOLEAN,
           AbsPhase' = [AbsPhase EXCEPT ![n] = p], AbsMay' = [AbsMay EXCEPT ![n] = b],
           UNCHANGED board
    PROVE  /\ (AbsPhase[n] \in {"idle", "play"} /\ p = "setup" /\ ~b) => Runs!Begin(n)
           /\ (AbsPhase[n] = "setup" /\ p = "over" /\ ~b) => Runs!Refuse(n)
           /\ (AbsPhase[n] = "setup" /\ p = "play" /\ (HasTree(sess[n].door) => LaunchDir(n) \in fs)')
                => Runs!Play(n)
           /\ (AbsPhase[n] = "play" /\ p = "over") => Runs!End(n)
           /\ (AbsPhase[n] = "over" /\ p = "idle" /\ ~b) => Runs!Leave(n)
           /\ (AbsPhase[n] = p /\ AbsMay[n] = b) => Runs!Sweep
<1> USE DEF Runs!Move, AbsPhase, AbsMay
<1>1. (AbsPhase[n] \in {"idle", "play"} /\ p = "setup" /\ ~b) => Runs!Begin(n)
    BY DEF Runs!Begin
<1>2. (AbsPhase[n] = "setup" /\ p = "over" /\ ~b) => Runs!Refuse(n)
    BY DEF Runs!Refuse
<1>3. (AbsPhase[n] = "setup" /\ p = "play" /\ (HasTree(sess[n].door) => LaunchDir(n) \in fs)')
        => Runs!Play(n)
    BY DEF Runs!Play
<1>4. (AbsPhase[n] = "play" /\ p = "over") => Runs!End(n)
    BY DEF Runs!End
<1>5. (AbsPhase[n] = "over" /\ p = "idle" /\ ~b) => Runs!Leave(n)
    BY DEF Runs!Leave
<1>6. (AbsPhase[n] = p /\ AbsMay[n] = b) => Runs!Sweep
    BY DEF Runs!Sweep
<1> QED
    BY <1>1, <1>2, <1>3, <1>4, <1>5, <1>6

\* A step of a session is a step of its run, or of no run at all.
RunStep == \/ \E n \in Nodes : \/ Runs!Begin(n) \/ Runs!Refuse(n) \/ Runs!Play(n)
                               \/ Runs!End(n) \/ Runs!Report(n) \/ Runs!Leave(n)
           \/ Runs!Crash \/ Runs!Sweep

LEMMA RunOfSession ==
    ASSUME Sound, Held, Sound', Held', NEW n \in Nodes, SessionStep(n)
    PROVE  RunStep
<1> DEFINE s == sess[n]
<1>0. s \in SessionStates /\ Well(s) /\ \A t : Set(n, t) => sess'[n] = t
    BY DEF Sound, SoundSessions, Set
<1>p. /\ \A pc \in {"off", "menu"} : PhaseOf(pc) = "idle"
      /\ \A pc \in {"dispatch", "mkdir", "drop", "fork"} : PhaseOf(pc) = "setup"
      /\ \A pc \in {"wait", "grace", "bucc"} : PhaseOf(pc) = "play"
      /\ \A pc \in {"ingest", "tidy", "ret"} : PhaseOf(pc) = "over"
    BY DEF PhaseOf
<1>m. \A t \in SessionStates : /\ MayOf(t) \in BOOLEAN /\ (t.pc # "ingest" => ~MayOf(t))
    BY DEF MayOf, SessionStates
<1>i. sess'[n].pc \in {"wait", "grace", "bucc"} =>
        (HasTree(sess[n].door) => LaunchDir(n) \in fs)'
  <2>1. KeptAt(n)' /\ Well(sess[n])'
      BY DEF Held, Kept, Sound, SoundSessions
  <2> QED
      BY <2>1 DEF KeptAt, Well
\* A session step, described by where it comes from and where it goes.
<1>a. ASSUME NEW t, Set(n, t), UNCHANGED board,
             \/ s.pc \in {"off", "menu", "bucc"} /\ t.pc \in {"dispatch", "fork"}
             \/ s.pc \in {"dispatch", "mkdir", "drop", "fork"} /\ t.pc \in {"ret", "tidy"}
             \/ s.pc \in {"dispatch", "fork"} /\ t.pc \in {"wait", "bucc"}
             \/ s.pc \in {"wait", "grace", "bucc"} /\ t.pc \in {"ingest", "ret"}
             \/ s.pc = "ret" /\ t.pc = "menu"
             \/ s.pc \in {"off", "menu"} /\ t.pc \in {"off", "menu"}
             \/ s.pc \in {"dispatch", "mkdir", "drop"} /\ t.pc \in {"mkdir", "drop", "fork"}
             \/ s.pc \in {"wait", "grace"} /\ t.pc \in {"wait", "grace"}
             \/ s.pc \in {"tidy", "ret"} /\ t.pc = "ret"
      PROVE  RunStep
  <2>1. sess'[n] = t /\ t \in SessionStates
      BY <1>0, <1>a DEF Sound, SoundSessions
  <2>2. /\ AbsPhase[n] = PhaseOf(s.pc) /\ AbsMay[n] = MayOf(s)
        /\ AbsPhase' = [AbsPhase EXCEPT ![n] = PhaseOf(t.pc)]
        /\ AbsMay' = [AbsMay EXCEPT ![n] = MayOf(t)]
      BY <1>a, AbsStep
  <2> DEFINE p == PhaseOf(t.pc)
             b == MayOf(t)
  <2>3. b \in BOOLEAN /\ (t.pc # "ingest" => ~b) /\ (s.pc # "ingest" => ~MayOf(s))
      BY <1>0, <1>m, <2>1
  <2> HIDE DEF p, b
  <2>4. /\ (AbsPhase[n] \in {"idle", "play"} /\ p = "setup" /\ ~b) => Runs!Begin(n)
        /\ (AbsPhase[n] = "setup" /\ p = "over" /\ ~b) => Runs!Refuse(n)
        /\ (AbsPhase[n] = "setup" /\ p = "play" /\ (HasTree(sess[n].door) => LaunchDir(n) \in fs)')
             => Runs!Play(n)
        /\ (AbsPhase[n] = "play" /\ p = "over") => Runs!End(n)
        /\ (AbsPhase[n] = "over" /\ p = "idle" /\ ~b) => Runs!Leave(n)
        /\ (AbsPhase[n] = p /\ AbsMay[n] = b) => Runs!Sweep
    <3>1. AbsPhase' = [AbsPhase EXCEPT ![n] = p] /\ AbsMay' = [AbsMay EXCEPT ![n] = b]
        BY <2>2 DEF p, b
    <3> QED
        BY <1>a, <2>3, <3>1, AbsActions
  <2>5. \/ Runs!Begin(n) \/ Runs!Refuse(n) \/ Runs!Play(n) \/ Runs!End(n) \/ Runs!Leave(n)
        \/ Runs!Sweep
    <3>1. CASE s.pc \in {"off", "menu", "bucc"} /\ t.pc \in {"dispatch", "fork"}
        BY <1>p, <2>2, <2>3, <2>4, <3>1 DEF p
    <3>2. CASE s.pc \in {"dispatch", "mkdir", "drop", "fork"} /\ t.pc \in {"ret", "tidy"}
        BY <1>p, <2>2, <2>3, <2>4, <3>2 DEF p
    <3>3. CASE s.pc \in {"dispatch", "fork"} /\ t.pc \in {"wait", "bucc"}
        BY <1>p, <1>i, <2>1, <2>2, <2>3, <2>4, <3>3 DEF p
    <3>4. CASE s.pc \in {"wait", "grace", "bucc"} /\ t.pc \in {"ingest", "ret"}
        BY <1>p, <2>2, <2>3, <2>4, <3>4 DEF p
    <3>5. CASE s.pc = "ret" /\ t.pc = "menu"
        BY <1>p, <2>2, <2>3, <2>4, <3>5 DEF p
    <3>6. ASSUME \/ s.pc \in {"off", "menu"} /\ t.pc \in {"off", "menu"}
                 \/ s.pc \in {"dispatch", "mkdir", "drop"} /\ t.pc \in {"mkdir", "drop", "fork"}
                 \/ s.pc \in {"wait", "grace"} /\ t.pc \in {"wait", "grace"}
                 \/ s.pc \in {"tidy", "ret"} /\ t.pc = "ret"
          PROVE  Runs!Sweep
      <4>1. PhaseOf(s.pc) = p
          BY <1>p, <3>6 DEF p
      <4>2. AbsMay[n] = b
        <5>1. ~MayOf(s) /\ ~b
            BY <2>3, <3>6
        <5>2. MayOf(s) \in BOOLEAN /\ b \in BOOLEAN /\ AbsMay[n] = MayOf(s)
            BY <1>0, <1>m, <2>2, <2>3
        <5> QED
            BY <5>1, <5>2, Zenon
      <4> QED
          BY <2>2, <2>4, <4>1, <4>2
    <3> QED
        BY <1>a, <3>1, <3>2, <3>3, <3>4, <3>5, <3>6
  <2> QED
      BY <2>5 DEF RunStep
<1>1. CASE Login(n)
    BY <1>1, <1>a, QuietFields DEF Login, Scoring
<1>2. CASE Logout(n)
  <2>1. [Quiet EXCEPT !.pc = "off"].pc = "off"
      BY QuietFields DEF SessionStates
  <2> QED
      BY <1>2, <2>1, <1>a DEF Logout, Scoring
<1>3. CASE Hangup(n)
    BY <1>3, AbsSame DEF Hangup, Scoring, RunStep
<1>4. ASSUME NEW d \in DoorIds, Enter(n, d) PROVE RunStep
  <2>1. 0 \in 0 .. ChainMax
      BY ConfigAssumption
  <2>2. db_door_get(d).pc = "dispatch"
      BY <2>1, GetWell DEF Sound
  <2> QED
      BY <1>4, <2>2, <1>a DEF Enter, Scoring
<1>5. ASSUME NEW d \in DoorIds, Transfer(n, d) PROVE RunStep
  <2>1. [Quiet EXCEPT !.pc = "fork", !.door = d].pc = "fork"
      BY QuietFields DEF SessionStates
  <2>2. CASE UNCHANGED sess
      BY <1>5, <2>2, AbsSame DEF Transfer, Scoring, RunStep
  <2> QED
      BY <1>5, <2>1, <2>2, <1>a DEF Transfer, Scoring
<1>6. ASSUME NEW d \in DoorIds, BuccChain(n, d) PROVE RunStep
  <2>1. CASE s.depth >= ChainMax
      BY <1>0, <1>6, <2>1, <1>a, ReturnsWell DEF BuccChain, Scoring
  <2>2. CASE ~(s.depth >= ChainMax)
    <3>1. s.depth + 1 \in 0 .. ChainMax
        BY <1>0, <2>2, ConfigAssumption DEF SessionStates
    <3>2. [db_door_get(d) EXCEPT !.depth = s.depth + 1].pc = "dispatch"
        BY <3>1, GetWell DEF Sound
    <3> QED
        BY <1>6, <2>2, <3>2, <1>a DEF BuccChain, Scoring
  <2> QED
      BY <2>1, <2>2
<1>7. ASSUME NEW x \in Scores, ChildWrites(n, x) PROVE RunStep
  <2>1. [s EXCEPT !.wrote = x].pc = s.pc /\ s.pc \in {"wait", "grace"}
      BY <1>0, <1>7 DEF SessionStates, ChildWrites, Well
  <2> QED
      BY <1>7, <2>1, <1>a DEF ChildWrites, Scoring
<1>8. CASE ChildEnds(n)
  <2>1. PICK e \in {"exit0", "bad"} : Set(n, [s EXCEPT !.child = e])
      BY <1>8 DEF ChildEnds
  <2>2. [s EXCEPT !.child = e].pc = s.pc /\ s.pc \in {"wait", "grace"}
      BY <1>0, <1>8 DEF SessionStates, ChildEnds, Well
  <2> QED
      BY <1>8, <2>1, <2>2, <1>a DEF ChildEnds, Scoring
<1>9. CASE BuccEnds(n)
    BY <1>0, <1>9, <1>a, ReturnsWell DEF BuccEnds, Scoring
<1>10. CASE Supervise(n)
  <2>1. \A u \in SessionStates : Over(u).pc = "ingest"
      BY DEF Over, SessionStates
  <2>2. CASE Wait(n)
      BY <1>0, <2>1, <2>2, <1>a DEF Wait, Scoring
  <2>3. CASE TimeOut(n)
    <3>1. [s EXCEPT !.pc = "grace", !.timed = TRUE].pc = "grace"
        BY <1>0 DEF SessionStates
    <3> QED
        BY <2>3, <3>1, <1>a DEF TimeOut, Scoring
  <2>4. CASE Cancel(n)
    <3>1. [s EXCEPT !.pc = "grace", !.cancelled = TRUE].pc = "grace"
        BY <1>0 DEF SessionStates
    <3> QED
        BY <2>4, <3>1, <1>a DEF Cancel, Scoring
  <2>5. CASE Reap(n)
    <3> DEFINE u == IF s.child = "runs" THEN [s EXCEPT !.child = "bad"] ELSE s
    <3>1. u \in SessionStates
        BY <1>0 DEF SessionStates
    <3>2. Set(n, Over(u)) /\ s.pc = "grace" /\ UNCHANGED board
        BY <2>5 DEF Reap, Scoring
    <3> HIDE DEF u
    <3> QED
        BY <2>1, <3>1, <3>2, <1>a
  <2> QED
      BY <1>10, <2>2, <2>3, <2>4, <2>5 DEF Supervise
<1>11. CASE Dispatch(n)
  <2>0. s.pc = "dispatch" /\ UNCHANGED board
      BY <1>11 DEF Dispatch, Scoring
  <2>1. CASE Set(n, Returns(s))
      BY <1>0, <2>0, <2>1, <1>a, ReturnsWell
  <2>2. ASSUME NEW k \in Names, Set(n, [s EXCEPT !.pc = "mkdir", !.stage = 2, !.k = k])
        PROVE  RunStep
    <3>1. [s EXCEPT !.pc = "mkdir", !.stage = 2, !.k = k].pc = "mkdir"
        BY <1>0 DEF SessionStates
    <3> QED
        BY <2>0, <2>2, <3>1, <1>a
  <2>3. CASE Goto(n, "bucc")
    <3>1. [s EXCEPT !.pc = "bucc"].pc = "bucc"
        BY <1>0 DEF SessionStates
    <3> QED
        BY <2>0, <2>3, <3>1, <1>a DEF Goto
  <2> QED
      BY <1>11, <2>1, <2>2, <2>3 DEF Dispatch
<1>12. CASE Mkdir(n)
  <2>0. s.pc = "mkdir" /\ UNCHANGED board
      BY <1>12 DEF Mkdir, Scoring
  <2> DEFINE t == IF s.stage < 4 THEN [s EXCEPT !.stage = @ + 1] ELSE [s EXCEPT !.pc = "drop"]
  <2>1. t.pc \in {"mkdir", "drop"}
      BY <1>0, <2>0 DEF SessionStates
  <2>2. Set(n, t) \/ Set(n, Returns(s))
      BY <1>12 DEF Mkdir
  <2> HIDE DEF t
  <2> QED
      BY <1>0, <2>0, <2>1, <2>2, <1>a, ReturnsWell
<1>13. CASE WriteDropfiles(n)
  <2>0. s.pc = "drop" /\ UNCHANGED board
      BY <1>13 DEF WriteDropfiles, Scoring
  <2>1. [s EXCEPT !.pc = "fork"].pc = "fork"
      BY <1>0 DEF SessionStates
  <2>2. Set(n, [s EXCEPT !.pc = "fork"]) \/ Set(n, Returns(s))
      BY <1>13 DEF WriteDropfiles, Goto
  <2> QED
      BY <1>0, <2>0, <2>1, <2>2, <1>a, ReturnsWell
<1>14. CASE Fork(n)
  <2>1. [s EXCEPT !.pc = "wait", !.child = "runs", !.wrote = 0].pc = "wait"
      BY <1>0 DEF SessionStates
  <2> QED
      BY <1>14, <2>1, <1>a DEF Fork, Scoring
<1>15. CASE ForkFails(n)
  <2>1. [s EXCEPT !.pc = "tidy", !.ok = FALSE].pc = "tidy"
      BY <1>0 DEF SessionStates
  <2> QED
      BY <1>0, <1>15, <2>1, <1>a, ReturnsWell DEF ForkFails, Scoring
<1>16. CASE Tidy(n)
    BY <1>0, <1>16, <1>a, ReturnsWell DEF Tidy, Scoring
<1>17. CASE Return(n)
  <2>1. [s EXCEPT !.depth = @ - 1].pc = s.pc
      BY <1>0 DEF SessionStates
  <2> QED
      BY <1>17, <2>1, <1>a, QuietFields DEF Return, Scoring
<1>18. CASE Ingest(n)
  <2> DEFINE t == [s EXCEPT !.pc = "tidy", !.timed = FALSE, !.wrote = 0]
             key == Door[s.door].key
  <2>1. t.pc = "tidy" /\ s.pc = "ingest" /\ Set(n, t) /\ t \in SessionStates
      BY <1>0, <1>18, ZeroScore DEF SessionStates, Ingest
  <2>2. /\ AbsPhase[n] = PhaseOf(s.pc) /\ AbsMay[n] = MayOf(s)
        /\ AbsPhase' = [AbsPhase EXCEPT ![n] = PhaseOf(t.pc)]
        /\ AbsMay' = [AbsMay EXCEPT ![n] = MayOf(t)]
      BY <2>1, AbsStep
  <2>3. ~MayOf(t) /\ PhaseOf(s.pc) = PhaseOf(t.pc)
      BY <1>m, <1>p, <2>1
  <2>4. \/ UNCHANGED board
        \/ /\ Reports(n) /\ s.wrote \in Scores /\ key \in Keys
           /\ board[key] = 0 \/ Better(key, s.wrote, board[key])
           /\ board' = [board EXCEPT ![key] = s.wrote]
      BY <1>18, IngestEnters
  <2>5. Reports(n) => MayOf(s)
      BY DEF Reports, MayOf
  <2> HIDE DEF t, key
  <2>6. AbsPhase' = AbsPhase
      BY <2>2, <2>3 DEF AbsPhase
  <2>7. CASE MayOf(s)
    <3>1. AbsMay[n] /\ AbsMay' \in {[AbsMay EXCEPT ![n] = b] : b \in BOOLEAN}
      <4>1. MayOf(t) \in BOOLEAN /\ MayOf(s) \in BOOLEAN /\ AbsMay[n] = MayOf(s)
            /\ AbsMay' = [AbsMay EXCEPT ![n] = MayOf(t)]
          BY <1>0, <1>m, <2>1, <2>2
      <4> QED
          BY <2>7, <4>1, Zenon
    <3>2. Runs!Report(n)
        BY <2>4, <2>6, <3>1 DEF Runs!Report, AbsPhase, AbsMay
    <3> QED
        BY <3>2 DEF RunStep
  <2>8. CASE ~MayOf(s)
    <3>1. AbsMay' = AbsMay
        BY <2>2, <2>3, <2>8 DEF AbsMay
    <3>2. Runs!Sweep
        BY <2>4, <2>5, <2>6, <2>8, <3>1 DEF Runs!Sweep, AbsPhase, AbsMay
    <3> QED
        BY <3>2 DEF RunStep
  <2> QED
      BY <2>7, <2>8
<1> QED
    BY <1>1, <1>2, <1>3, <1>4, <1>5, <1>6, <1>7, <1>8, <1>9, <1>10, <1>11, <1>12, <1>13, <1>14,
       <1>15, <1>16, <1>17, <1>18 DEF SessionStep, Launcher

\* Every step of Doors is one DoorRuns allows.
LEMMA RunsStep ==
    ASSUME Sound, Held, Sound', Held', [Next]_vars
    PROVE  [Runs!Next]_(Runs!vars)
<1>1. Runs!Held
  <2>1. ASSUME NEW m \in Nodes, Phase(m)' = "play"
        PROVE  (HasTree(sess[m].door) => LaunchDir(m) \in fs)'
    <3>1. sess'[m].pc \in {"wait", "grace", "bucc"}
        BY <2>1 DEF Phase
    <3>2. KeptAt(m)' /\ Well(sess[m])'
        BY DEF Held, Kept, Sound, SoundSessions
    <3> QED
        BY <3>1, <3>2 DEF KeptAt, Well
  <2> QED
      BY <2>1 DEF Runs!Held
<1>2. RunStep
  <2>1. CASE Janitor \/ UNCHANGED vars \/ (\E d \in DoorIds : Configure(d))
             \/ (\E l \in LaunchDirs : Age(l))
    <3>1. UNCHANGED <<sess, board>>
        BY <2>1 DEF Janitor, JStart, JDoor, JNode, JLaunch, JNodeDone, JDoorDone, JBaseDone, JRow,
                    JReconcile, JDone, Jan, Scoring, vars, Configure, Age
    <3> QED
        BY <3>1, AbsSame DEF RunStep
  <2>2. CASE Crash
    <3> DEFINE s == [Quiet EXCEPT !.pc = "off"]
    <3>1. s.pc = "off"
        BY QuietFields DEF SessionStates
    <3>2. UNCHANGED board /\ \A m \in Nodes : sess'[m] = s
        BY <2>2 DEF Crash, Scoring
    <3> HIDE DEF s
    <3>3. \A m \in Nodes : Phase(m)' = "idle" /\ ~(sess[m].lb /\ sess[m].pc = "ingest" /\ sess[m].ok)'
        BY <3>1, <3>2 DEF Phase
    <3>4. Runs!Crash
        BY <3>2, <3>3 DEF Runs!Crash
    <3> QED
        BY <3>4 DEF RunStep
  <2>3. ASSUME NEW n \in Nodes, SessionStep(n) PROVE RunStep
      BY <2>3, RunOfSession
  <2> QED
      BY <2>1, <2>2, <2>3 DEF Next, SessionStep
<1>3. Runs!Next
    BY <1>1, <1>2 DEF Runs!Next, RunStep
<1> QED
    BY <1>3

LEMMA RunsInit == Init => Runs!Init
<1> SUFFICES ASSUME Init PROVE Runs!Init
    OBVIOUS
<1>1. \A m \in Nodes : sess[m].pc = "off"
    BY QuietFields DEF Init, SessionStates
<1>2. \A m \in Nodes : Phase(m) = "idle" /\ ~(sess[m].lb /\ sess[m].pc = "ingest" /\ sess[m].ok)
    BY <1>1 DEF Phase
<1>3. board = [k \in Keys |-> 0]
    BY DEF Init
<1> QED
    BY <1>2, <1>3 DEF Runs!Init

\* Doors implements DoorRuns: runs go through their phases in order, a score
\* reaches the board only from a run that may report it, an entry only improves,
\* and nothing takes away the directory of a run that is played.
THEOREM RunsImplemented == ASSUME StaleAge > 0 PROVE Spec => ImplementsDoorRuns
<1>1. Sound /\ Held /\ Sound' /\ Held' /\ [Next]_vars => [Runs!Next]_(Runs!vars)
    BY RunsStep
<1> QED
    BY <1>1, RunsInit, RunsHeld, PTL DEF Spec, ImplementsDoorRuns
=============================================================================
