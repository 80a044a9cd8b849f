---------------------------- MODULE NodesProofs -----------------------------
(***************************************************************************)
(* Proofs about Nodes, for any number of slots, sessions, users, console   *)
(* clients and tools, and for any bound on restarts.  RegistryExact and    *)
(* AdmissionExact are inductive relative to TypeOK; SlotForAdmitted        *)
(* follows from the two by counting; RowNamesWorker is inductive relative  *)
(* to TypeOK.  Then proofs about Plugins, the other threads that the board *)
(* starts and stops with it.                                               *)
(***************************************************************************)
EXTENDS Nodes, Plugins, SequenceTheorems, FiniteSetTheorems, WellFoundedInduction, TLAPS

\* A console client with nothing in progress is in a console state.
LEMMA IdleType == Idle \in ConsoleState /\ Idle.op = "idle"
BY SlotsAssumption DEF Idle, ConsoleState

\* db_node_upsert leaves a table of rows.
LEMMA UpsertType ==
    ASSUME rows \in [Node -> Row \cup {NoRow}],
           NEW n, NEW u \in Users \cup {NoUser}, NEW st \in Status,
           db_node_upsert(n, u, st)
    PROVE  rows' \in [Node -> Row \cup {NoRow}]
<1>1. [user |-> u, status |-> st] \in Row
  BY DEF Row
<1> QED
  BY <1>1 DEF db_node_upsert

\* The end of the process keeps the tables and zeroes everything else.
LEMMA EndsType == TypeOK /\ ProcessEnds => TypeOK'
<1> SUFFICES ASSUME TypeOK, ProcessEnds PROVE TypeOK'
  OBVIOUS
<1>1. cons' \in [Consoles -> ConsoleState] /\ \A c \in Consoles : cons'[c].op = "idle"
  BY IdleType DEF ProcessEnds
<1>2. admitted' \in 0 .. MaxOnline /\ janHit' \in 0 .. MaxOnline /\ halts' \in Nat /\ releasing' \in Nat
  BY SlotsAssumption DEF ProcessEnds, TypeOK
<1>3. node' \in [Sessions -> 0 .. MaxOnline]
  BY SlotsAssumption DEF ProcessEnds
<1> QED
  BY <1>1, <1>2, <1>3 DEF ProcessEnds, TypeOK, tables

\* The state that main() starts from is well typed.
LEMMA TypeInit == Init => TypeOK
<1> SUFFICES ASSUME Init PROVE TypeOK
  OBVIOUS
<1>1. cons \in [Consoles -> ConsoleState] /\ \A c \in Consoles : cons[c].op = "idle"
  BY IdleType DEF Init
<1>2. admitted \in 0 .. MaxOnline /\ janHit \in 0 .. MaxOnline
  BY SlotsAssumption DEF Init
<1>3. node \in [Sessions -> 0 .. MaxOnline]
  BY SlotsAssumption DEF Init
<1> QED
  BY <1>1, <1>2, <1>3 DEF Init, TypeOK

\* Every step of the listener, a worker, a console client, the janitor or
\* main() keeps the types.
LEMMA TypeStep == TypeOK /\ [Next]_vars => TypeOK'
<1> SUFFICES ASSUME TypeOK, [Next]_vars PROVE TypeOK'
  OBVIOUS
<1>0. CASE UNCHANGED vars
  BY <1>0 DEF vars, TypeOK
<1>1. CASE ListenTop
  BY <1>1 DEF ListenTop, TypeOK, admitVars, threadVars, registry, tables, janitorVars
<1>2. CASE ListenNone
  BY <1>2 DEF ListenNone, TypeOK, admitVars, threadVars, registry, tables, janitorVars
<1>3. CASE SessionAdmit
  BY <1>3, SlotsAssumption DEF SessionAdmit, TypeOK, threadVars, registry, tables, janitorVars
<1>4. CASE \E s \in Sessions : Spawn(s)
  BY <1>4, SlotsAssumption DEF Spawn, TypeOK, Seated, admitVars, registry, tables, janitorVars
<1>5. CASE SpawnFail
  BY <1>5, SlotsAssumption DEF SpawnFail, TypeOK, threadVars, registry, tables, janitorVars
<1>6. CASE \E s \in Sessions : OnlineAdd(s)
  BY <1>6, SlotsAssumption DEF OnlineAdd, FreeSlots, TypeOK, Seated, Node, listenVars, admitVars, tables, janitorVars
<1>7. CASE \E s \in Sessions : OnlineAddFail(s)
  BY <1>7 DEF OnlineAddFail, TypeOK, Seated, listenVars, admitVars, registry, tables, janitorVars
<1>8. ASSUME NEW s \in Sessions, MarkLoggingIn(s) PROVE TypeOK'
  <2>1. rows' \in [Node -> Row \cup {NoRow}]
    BY <1>8, UpsertType DEF MarkLoggingIn, TypeOK, Status
  <2> QED
    BY <1>8, <2>1, SlotsAssumption DEF MarkLoggingIn, TypeOK, Seated, listenVars, admitVars, registry, janitorVars
<1>9. CASE \E s \in Sessions, u \in Users : Authenticate(s, u)
  BY <1>9 DEF Authenticate, TypeOK, Seated, listenVars, admitVars, registry, tables, janitorVars
<1>10. CASE \E s \in Sessions : AuthenticateFail(s)
  BY <1>10 DEF AuthenticateFail, TypeOK, Seated, listenVars, admitVars, registry, tables, janitorVars
<1>11. CASE \E s \in Sessions : AdmitUser(s)
  BY <1>11 DEF AdmitUser, TypeOK, Seated, listenVars, admitVars, registry, tables, janitorVars
<1>12. ASSUME NEW s \in Sessions, EnterMenu(s) PROVE TypeOK'
  <2>1. rows' \in [Node -> Row \cup {NoRow}]
    BY <1>12, UpsertType DEF EnterMenu, TypeOK, Status
  <2> QED
    BY <1>12, <2>1, SlotsAssumption DEF EnterMenu, TypeOK, Seated, listenVars, admitVars, registry, janitorVars
<1>38. CASE \E s \in Sessions : LogonDone(s)
  BY <1>38 DEF LogonDone, TypeOK, Seated, listenVars, admitVars, registry, tables, janitorVars
<1>13. CASE \E s \in Sessions : MenuTop(s)
  BY <1>13 DEF MenuTop, TypeOK, Seated, listenVars, admitVars, registry, tables, janitorVars
<1>14. ASSUME NEW s \in Sessions, MenuPost(s) PROVE TypeOK'
  <2>1. rows' \in [Node -> Row \cup {NoRow}]
    BY <1>14, UpsertType DEF MenuPost, TypeOK, Status
  <2> QED
    BY <1>14, <2>1, SlotsAssumption DEF MenuPost, TypeOK, Seated, listenVars, admitVars, registry, janitorVars
<1>15. CASE \E s \in Sessions : MenuRead(s)
  BY <1>15 DEF MenuRead, TypeOK, Seated, listenVars, admitVars, registry, tables, janitorVars
<1>39. ASSUME NEW s \in Sessions, Occupy(s) PROVE TypeOK'
  <2>1. rows' \in [Node -> Row \cup {NoRow}]
    BY <1>39, UpsertType DEF Occupy, TypeOK, Status
  <2> QED
    BY <1>39, <2>1, SlotsAssumption DEF Occupy, TypeOK, Seated, listenVars, admitVars, registry, janitorVars
<1>40. ASSUME NEW s \in Sessions, Dosbox(s) PROVE TypeOK'
  <2>1. rows' \in [Node -> Row \cup {NoRow}]
    BY <1>40, UpsertType DEF Dosbox, TypeOK, Status
  <2> QED
    BY <1>40, <2>1, SlotsAssumption DEF Dosbox, TypeOK, Seated, listenVars, admitVars, registry, janitorVars
<1>41. ASSUME NEW s \in Sessions, Return(s) PROVE TypeOK'
  <2>1. rows' \in [Node -> Row \cup {NoRow}]
    BY <1>41, UpsertType DEF Return, TypeOK, Status
  <2> QED
    BY <1>41, <2>1, SlotsAssumption DEF Return, TypeOK, Seated, listenVars, admitVars, registry, janitorVars
<1>16. CASE \E s \in Sessions : Logout(s)
  BY <1>16 DEF Logout, TypeOK, Seated, listenVars, admitVars, registry, tables, janitorVars
<1>17. CASE \E s \in Sessions, n \in Node : FKeyKick(s, n)
  BY <1>17 DEF FKeyKick, TypeOK, Seated, listenVars, admitVars, registry, tables, janitorVars
<1>18. CASE \E s \in Sessions : ChatEnter(s)
  BY <1>18 DEF ChatEnter, TypeOK, Seated, listenVars, admitVars, registry, tables, janitorVars
<1>19. ASSUME NEW s \in Sessions, ChatTop(s) PROVE TypeOK'
  <2>1. CASE alive[s] /\ ~stop
    <3>1. rows' \in [Node -> Row \cup {NoRow}]
      BY <1>19, <2>1, UpsertType DEF ChatTop, TypeOK, Status
    <3> QED
      BY <1>19, <2>1, <3>1 DEF ChatTop, TypeOK, Seated, listenVars, admitVars, registry, janitorVars
  <2>2. CASE ~(alive[s] /\ ~stop)
    BY <1>19, <2>2 DEF ChatTop, TypeOK, Seated, listenVars, admitVars, registry, janitorVars
  <2> QED
    BY <2>1, <2>2
<1>20. CASE \E s \in Sessions : ChatRead(s)
  BY <1>20 DEF ChatRead, TypeOK, Seated, listenVars, admitVars, registry, tables, janitorVars
<1>21. CASE \E s \in Sessions : OnlineRemove(s)
  BY <1>21 DEF OnlineRemove, TypeOK, Seated, listenVars, admitVars, tables, janitorVars
<1>22. CASE \E s \in Sessions : ClearRow(s)
  BY <1>22 DEF ClearRow, db_node_clear, TypeOK, Seated, listenVars, admitVars, registry, janitorVars
<1>23. CASE \E s \in Sessions : FreeSession(s)
  BY <1>23, SlotsAssumption DEF FreeSession, TypeOK, Seated, listenVars, registry, tables, janitorVars
<1>24. CASE SessionRelease
  BY <1>24, SlotsAssumption DEF SessionRelease, TypeOK, listenVars, threadVars, registry, tables, janitorVars
<1>25. CASE \E c \in Consoles, n \in Aimed : ConsoleKick(c, n)
  BY <1>25, ConfigAssumption, SlotsAssumption DEF ConsoleKick, Idle, ConsoleState, TypeOK, Node, listenVars, admitVars, registry, tables, janitorVars
<1>26. CASE \E c \in Consoles, n \in Aimed, b \in BOOLEAN : ConsoleLock(c, n, b)
  BY <1>26, ConfigAssumption, SlotsAssumption DEF ConsoleLock, Idle, ConsoleState, TypeOK, Node, listenVars, admitVars, threadVars, tables, janitorVars
<1>27. ASSUME NEW c \in Consoles, ConsoleLockSave(c) PROVE TypeOK'
  <2>1. cons[c].node \in Node /\ (cons[c].op = "lock") \in BOOLEAN
    BY <1>27 DEF ConsoleLockSave, TypeOK
  <2>2. locks' \in [Node -> BOOLEAN]
    BY <1>27, <2>1 DEF ConsoleLockSave, db_node_lock_set, TypeOK
  <2>3. [op |-> "row", node |-> cons[c].node] \in ConsoleState
    BY <2>1, SlotsAssumption DEF ConsoleState, Node
  <2> QED
    BY <1>27, <2>1, <2>2, <2>3, IdleType DEF ConsoleLockSave, TypeOK, listenVars, admitVars, threadVars, registry, janitorVars
<1>28. ASSUME NEW c \in Consoles, ConsoleRow(c) PROVE TypeOK'
  <2>1. rows' \in [Node -> Row \cup {NoRow}]
    BY <1>28, UpsertType DEF ConsoleRow, TypeOK, Status
  <2> QED
    BY <1>28, <2>1, IdleType DEF ConsoleRow, TypeOK, listenVars, admitVars, threadVars, registry, janitorVars
<1>29. CASE \E t \in Tools, n \in Aimed, b \in BOOLEAN : BbslibLock(t, n, b)
  BY <1>29, ConfigAssumption DEF BbslibLock, db_node_lock_set, TypeOK, listenVars, admitVars, threadVars, registry, janitorVars
<1>30. CASE JanitorList
  BY <1>30, SlotsAssumption DEF JanitorList, TypeOK, listenVars, admitVars, threadVars, registry, tables
<1>31. CASE JanitorLook
  BY <1>31, SlotsAssumption DEF JanitorLook, TypeOK, Node, listenVars, admitVars, threadVars, registry, tables
<1>32. CASE JanitorMark
  <2>1. rows' \in [Node -> Row \cup {NoRow}]
    BY <1>32, UpsertType DEF JanitorMark, TypeOK, Status
  <2> QED
    BY <1>32, <2>1, SlotsAssumption DEF JanitorMark, TypeOK, Seated, listenVars, admitVars, threadVars, registry
<1>42. CASE PassBegins
  BY <1>42, ConfigAssumption DEF PassBegins, TypeOK, admitVars, threadVars, registry, tables, janitorVars
<1>43. CASE CommandEnds
  BY <1>43 DEF CommandEnds, TypeOK, admitVars, threadVars, registry, tables, janitorVars
<1>33. CASE Signal
  BY <1>33 DEF Signal, TypeOK, admitVars, threadVars, registry, tables, janitorVars
<1>34. CASE Sweep
  BY <1>34 DEF Sweep, TypeOK, admitVars, registry, tables, janitorVars
<1>35. CASE Exit
  BY <1>35, EndsType DEF Exit
<1>36. CASE Crash
  BY <1>36, EndsType DEF Crash
<1>37. CASE Boot
  BY <1>37 DEF Boot, TypeOK, admitVars, threadVars, tables, janitorVars
<1> QED
  BY <1>0, <1>1, <1>2, <1>3, <1>4, <1>5, <1>6, <1>7, <1>8, <1>9, <1>10, <1>11, <1>12, <1>13, <1>14, <1>15, <1>16, <1>17, <1>18, <1>19, <1>20, <1>21, <1>22, <1>23, <1>24, <1>25, <1>26, <1>27, <1>28, <1>29, <1>30, <1>31, <1>32, <1>33, <1>34, <1>35, <1>36, <1>37, <1>38, <1>39, <1>40, <1>41, <1>42, <1>43 DEF Next, MainLoop, Listener, Worker, Console, ConsoleFinish, Janitor

\* Type correctness of the node life cycle, for every number of slots,
\* sessions, users and console clients.
THEOREM TypeCorrect == Spec => []TypeOK
BY TypeInit, TypeStep, PTL DEF Spec

-----------------------------------------------------------------------------
(* The registry.                                                           *)

\* A step that touches neither the slots nor the workers keeps the registry.
LEMMA RegistryUntouched ==
    RegistryExact /\ UNCHANGED <<pc, node, online>> => RegistryExact'
BY DEF RegistryExact, Holds

\* A worker that moves between online_add and cleanup keeps its slot.
LEMMA SeatKept ==
    ASSUME TypeOK, RegistryExact, NEW s \in Sessions, pc[s] \in Seated,
           NEW q \in Seated \cup {"leave"}, pc' = [pc EXCEPT ![s] = q],
           UNCHANGED <<node, online>>
    PROVE  RegistryExact'
BY DEF TypeOK, RegistryExact, Holds, Seated

\* The end of the process empties the registry and every worker with it.
LEMMA EndsRegistry == TypeOK /\ ProcessEnds => RegistryExact'
BY SessionsAssumption DEF ProcessEnds, RegistryExact, Holds, Seated

\* At the start the registry is empty and no worker exists.
LEMMA RegistryInit == Init => RegistryExact
BY SessionsAssumption DEF Init, RegistryExact, Holds, Seated

\* Only online_add, online_remove and the end of the process change slots; every
\* other step of a worker leaves it on the slot it has.
LEMMA RegistryStep == TypeOK /\ RegistryExact /\ [Next]_vars => RegistryExact'
<1> SUFFICES ASSUME TypeOK, RegistryExact, [Next]_vars PROVE RegistryExact'
  OBVIOUS
<1>0. CASE UNCHANGED vars
  BY <1>0, RegistryUntouched DEF vars
<1>1. CASE ListenTop
  BY <1>1, RegistryUntouched DEF ListenTop, admitVars, threadVars, registry, tables, janitorVars
<1>2. CASE ListenNone
  BY <1>2, RegistryUntouched DEF ListenNone, admitVars, threadVars, registry, tables, janitorVars
<1>3. CASE SessionAdmit
  BY <1>3, RegistryUntouched DEF SessionAdmit, threadVars, registry, tables, janitorVars
<1>4. ASSUME NEW s \in Sessions, Spawn(s) PROVE RegistryExact'
  BY <1>4 DEF Spawn, RegistryExact, Holds, Seated, TypeOK, registry
<1>5. CASE SpawnFail
  BY <1>5, RegistryUntouched DEF SpawnFail, threadVars, registry, tables, janitorVars
<1>6. ASSUME NEW s \in Sessions, OnlineAdd(s) PROVE RegistryExact'
  <2>1. PICK m \in FreeSlots : online' = [online EXCEPT ![m] = s] /\ node' = [node EXCEPT ![s] = m]
    BY <1>6 DEF OnlineAdd
  <2>2. m \in Node /\ m # 0 /\ online[m] = NoSession
    BY <2>1, SlotsAssumption DEF FreeSlots, Node
  <2>3. \A n \in Node : online[n] # s
    BY <1>6 DEF OnlineAdd, RegistryExact, Holds, Seated
  <2> QED
    BY <1>6, <2>1, <2>2, <2>3, SessionsAssumption DEF OnlineAdd, RegistryExact, Holds, Seated, TypeOK
<1>7. ASSUME NEW s \in Sessions, OnlineAddFail(s) PROVE RegistryExact'
  BY <1>7 DEF OnlineAddFail, RegistryExact, Holds, Seated, TypeOK, registry
<1>8. ASSUME NEW s \in Sessions, MarkLoggingIn(s) PROVE RegistryExact'
  BY <1>8, SeatKept DEF MarkLoggingIn, Seated, registry
<1>9. ASSUME NEW s \in Sessions, NEW u \in Users, Authenticate(s, u) PROVE RegistryExact'
  BY <1>9, SeatKept DEF Authenticate, Seated, registry
<1>10. ASSUME NEW s \in Sessions, AuthenticateFail(s) PROVE RegistryExact'
  BY <1>10, SeatKept DEF AuthenticateFail, Seated, registry
<1>11. ASSUME NEW s \in Sessions, AdmitUser(s) PROVE RegistryExact'
  BY <1>11, SeatKept DEF AdmitUser, Seated, registry
<1>12. ASSUME NEW s \in Sessions, EnterMenu(s) PROVE RegistryExact'
  BY <1>12, SeatKept DEF EnterMenu, Seated, registry
<1>38. ASSUME NEW s \in Sessions, LogonDone(s) PROVE RegistryExact'
  BY <1>38, SeatKept DEF LogonDone, Seated, registry
<1>13. ASSUME NEW s \in Sessions, MenuTop(s) PROVE RegistryExact'
  BY <1>13, SeatKept DEF MenuTop, Seated, registry
<1>14. ASSUME NEW s \in Sessions, MenuPost(s) PROVE RegistryExact'
  BY <1>14, SeatKept DEF MenuPost, Seated, registry
<1>15. ASSUME NEW s \in Sessions, MenuRead(s) PROVE RegistryExact'
  BY <1>15, SeatKept DEF MenuRead, Seated, registry
<1>39. ASSUME NEW s \in Sessions, Occupy(s) PROVE RegistryExact'
  BY <1>39, SeatKept DEF Occupy, Seated, registry
<1>40. ASSUME NEW s \in Sessions, Dosbox(s) PROVE RegistryExact'
  BY <1>40, SeatKept DEF Dosbox, Seated, registry
<1>41. ASSUME NEW s \in Sessions, Return(s) PROVE RegistryExact'
  BY <1>41, SeatKept DEF Return, Seated, registry
<1>16. ASSUME NEW s \in Sessions, Logout(s) PROVE RegistryExact'
  BY <1>16, SeatKept DEF Logout, Seated, registry
<1>17. ASSUME NEW s \in Sessions, NEW n \in Node, FKeyKick(s, n) PROVE RegistryExact'
  BY <1>17, SeatKept DEF FKeyKick, Seated, registry
<1>18. ASSUME NEW s \in Sessions, ChatEnter(s) PROVE RegistryExact'
  BY <1>18, SeatKept DEF ChatEnter, Seated, registry
<1>19. ASSUME NEW s \in Sessions, ChatTop(s) PROVE RegistryExact'
  BY <1>19, SeatKept DEF ChatTop, Seated, registry
<1>20. ASSUME NEW s \in Sessions, ChatRead(s) PROVE RegistryExact'
  BY <1>20, SeatKept DEF ChatRead, Seated, registry
<1>21. ASSUME NEW s \in Sessions, OnlineRemove(s) PROVE RegistryExact'
  BY <1>21, SessionsAssumption DEF OnlineRemove, RegistryExact, Holds, Seated, TypeOK
<1>22. ASSUME NEW s \in Sessions, ClearRow(s) PROVE RegistryExact'
  BY <1>22 DEF ClearRow, RegistryExact, Holds, Seated, TypeOK, registry
<1>23. ASSUME NEW s \in Sessions, FreeSession(s) PROVE RegistryExact'
  BY <1>23 DEF FreeSession, RegistryExact, Holds, Seated, TypeOK, registry
<1>24. CASE SessionRelease
  BY <1>24, RegistryUntouched DEF SessionRelease, listenVars, threadVars, registry, tables, janitorVars
<1>25. ASSUME NEW c \in Consoles, NEW n \in Aimed, ConsoleKick(c, n) PROVE RegistryExact'
  BY <1>25, RegistryUntouched DEF ConsoleKick, listenVars, admitVars, registry, tables, janitorVars
<1>26. ASSUME NEW c \in Consoles, NEW n \in Aimed, NEW b \in BOOLEAN, ConsoleLock(c, n, b) PROVE RegistryExact'
  BY <1>26, RegistryUntouched DEF ConsoleLock, listenVars, admitVars, threadVars, tables, janitorVars
<1>27. ASSUME NEW c \in Consoles, ConsoleLockSave(c) PROVE RegistryExact'
  BY <1>27, RegistryUntouched DEF ConsoleLockSave, listenVars, admitVars, threadVars, registry, janitorVars
<1>28. ASSUME NEW c \in Consoles, ConsoleRow(c) PROVE RegistryExact'
  BY <1>28, RegistryUntouched DEF ConsoleRow, listenVars, admitVars, threadVars, registry, janitorVars
<1>29. ASSUME NEW t \in Tools, NEW n \in Aimed, NEW b \in BOOLEAN, BbslibLock(t, n, b) PROVE RegistryExact'
  BY <1>29, RegistryUntouched DEF BbslibLock, listenVars, admitVars, threadVars, registry, janitorVars
<1>30. CASE JanitorList
  BY <1>30, RegistryUntouched DEF JanitorList, listenVars, admitVars, threadVars, registry, tables
<1>31. CASE JanitorLook
  BY <1>31, RegistryUntouched DEF JanitorLook, listenVars, admitVars, threadVars, registry, tables
<1>32. CASE JanitorMark
  BY <1>32, RegistryUntouched DEF JanitorMark, listenVars, admitVars, threadVars, registry
<1>42. CASE PassBegins
  BY <1>42, RegistryUntouched DEF PassBegins, admitVars, threadVars, registry, tables, janitorVars
<1>43. CASE CommandEnds
  BY <1>43, RegistryUntouched DEF CommandEnds, admitVars, threadVars, registry, tables, janitorVars
<1>33. CASE Signal
  BY <1>33, RegistryUntouched DEF Signal, admitVars, threadVars, registry, tables, janitorVars
<1>34. CASE Sweep
  BY <1>34, RegistryUntouched DEF Sweep, admitVars, registry, tables, janitorVars
<1>35. CASE Exit
  BY <1>35, EndsRegistry DEF Exit
<1>36. CASE Crash
  BY <1>36, EndsRegistry DEF Crash
<1>37. CASE Boot
  BY <1>37, RegistryUntouched DEF Boot, admitVars, threadVars, tables, janitorVars
<1> QED
  BY <1>0, <1>1, <1>2, <1>3, <1>4, <1>5, <1>6, <1>7, <1>8, <1>9, <1>10, <1>11, <1>12, <1>13, <1>14, <1>15, <1>16, <1>17, <1>18, <1>19, <1>20, <1>21, <1>22, <1>23, <1>24, <1>25, <1>26, <1>27, <1>28, <1>29, <1>30, <1>31, <1>32, <1>33, <1>34, <1>35, <1>36, <1>37, <1>38, <1>39, <1>40, <1>41, <1>42, <1>43 DEF Next, MainLoop, Listener, Worker, Console, ConsoleFinish, Janitor

\* The registry and the sessions agree at all times: no dangling pointer, no
\* slot shared, no session under another number (g_online, s->node_num).
THEOREM RegistryCorrect == Spec => []RegistryExact
BY TypeCorrect, RegistryInit, RegistryStep, PTL DEF Spec

-----------------------------------------------------------------------------
(* Admission.                                                              *)

\* There are finitely many workers, so they can be counted.
LEMMA BusyFinite == IsFiniteSet(Busy) /\ Cardinality(Busy) \in Nat
BY SessionsAssumption, FS_Subset, FS_CardinalityType DEF Busy

\* A step that starts and ends no worker and leaves the counters alone.
LEMMA CountUntouched ==
    AdmissionExact /\ UNCHANGED <<main, admitted, releasing, pc>> => AdmissionExact'
BY DEF AdmissionExact, Busy

\* A worker that moves without starting or ending changes no count.
LEMMA BusyKept ==
    ASSUME TypeOK, AdmissionExact, NEW s \in Sessions, pc[s] # "free",
           NEW q, q # "free", pc' = [pc EXCEPT ![s] = q],
           UNCHANGED <<main, admitted, releasing>>
    PROVE  AdmissionExact'
<1>1. Busy' = Busy
  BY DEF Busy, TypeOK
<1> QED
  BY <1>1 DEF AdmissionExact

\* The end of the process takes the counter and the workers to zero together.
LEMMA EndsAdmission == TypeOK /\ ProcessEnds => AdmissionExact'
<1> SUFFICES ASSUME TypeOK, ProcessEnds PROVE AdmissionExact'
  OBVIOUS
<1>1. Busy' = {}
  BY DEF ProcessEnds, Busy
<1> QED
  BY <1>1, FS_EmptySet DEF ProcessEnds, AdmissionExact

\* At the start nobody is admitted and no worker exists.
LEMMA AdmissionInit == Init => AdmissionExact
<1> SUFFICES ASSUME Init PROVE AdmissionExact
  OBVIOUS
<1>1. Busy = {}
  BY DEF Init, Busy
<1> QED
  BY <1>1, FS_EmptySet DEF Init, AdmissionExact

\* session_admit, Spawn, SpawnFail, FreeSession and session_release each move the
\* counter and the number of workers alike; no other step moves either.
LEMMA AdmissionStep == TypeOK /\ AdmissionExact /\ [Next]_vars => AdmissionExact'
<1> SUFFICES ASSUME TypeOK, AdmissionExact, [Next]_vars PROVE AdmissionExact'
  OBVIOUS
<1>0. CASE UNCHANGED vars
  BY <1>0, CountUntouched DEF vars
<1>1. CASE ListenTop
  BY <1>1, BusyFinite DEF ListenTop, AdmissionExact, Busy, TypeOK, admitVars, threadVars, registry, tables, janitorVars
<1>2. CASE ListenNone
  BY <1>2, BusyFinite DEF ListenNone, AdmissionExact, Busy, TypeOK, admitVars, threadVars, registry, tables, janitorVars
<1>3. CASE SessionAdmit
  BY <1>3, BusyFinite DEF SessionAdmit, AdmissionExact, Busy, TypeOK, threadVars, registry, tables, janitorVars
<1>4. ASSUME NEW s \in Sessions, Spawn(s) PROVE AdmissionExact'
  <2>1. pc' = [pc EXCEPT ![s] = "start"] /\ pc[s] = "free" /\ main = "spawn" /\ main' = "listen"
    BY <1>4 DEF Spawn
  <2>2. Busy' = Busy \cup {s} /\ s \notin Busy
    BY <2>1 DEF Busy, TypeOK
  <2>3. Cardinality(Busy') = Cardinality(Busy) + 1
    BY <2>2, BusyFinite, FS_AddElement
  <2> QED
    BY <1>4, <2>1, <2>3, BusyFinite DEF Spawn, AdmissionExact, TypeOK, admitVars
<1>5. CASE SpawnFail
  BY <1>5, BusyFinite DEF SpawnFail, AdmissionExact, Busy, TypeOK, threadVars, registry, tables, janitorVars
<1>6. ASSUME NEW s \in Sessions, OnlineAdd(s) PROVE AdmissionExact'
  BY <1>6, BusyKept DEF OnlineAdd, listenVars, admitVars
<1>7. ASSUME NEW s \in Sessions, OnlineAddFail(s) PROVE AdmissionExact'
  BY <1>7, BusyKept DEF OnlineAddFail, listenVars, admitVars
<1>8. ASSUME NEW s \in Sessions, MarkLoggingIn(s) PROVE AdmissionExact'
  BY <1>8, BusyKept DEF MarkLoggingIn, listenVars, admitVars
<1>9. ASSUME NEW s \in Sessions, NEW u \in Users, Authenticate(s, u) PROVE AdmissionExact'
  BY <1>9, BusyKept DEF Authenticate, listenVars, admitVars
<1>10. ASSUME NEW s \in Sessions, AuthenticateFail(s) PROVE AdmissionExact'
  BY <1>10, BusyKept DEF AuthenticateFail, listenVars, admitVars
<1>11. ASSUME NEW s \in Sessions, AdmitUser(s) PROVE AdmissionExact'
  BY <1>11, BusyKept DEF AdmitUser, listenVars, admitVars
<1>12. ASSUME NEW s \in Sessions, EnterMenu(s) PROVE AdmissionExact'
  BY <1>12, BusyKept DEF EnterMenu, listenVars, admitVars
<1>38. ASSUME NEW s \in Sessions, LogonDone(s) PROVE AdmissionExact'
  BY <1>38, BusyKept DEF LogonDone, listenVars, admitVars
<1>13. ASSUME NEW s \in Sessions, MenuTop(s) PROVE AdmissionExact'
  BY <1>13, BusyKept DEF MenuTop, listenVars, admitVars
<1>14. ASSUME NEW s \in Sessions, MenuPost(s) PROVE AdmissionExact'
  BY <1>14, BusyKept DEF MenuPost, listenVars, admitVars
<1>15. ASSUME NEW s \in Sessions, MenuRead(s) PROVE AdmissionExact'
  BY <1>15, BusyKept DEF MenuRead, listenVars, admitVars
<1>39. ASSUME NEW s \in Sessions, Occupy(s) PROVE AdmissionExact'
  BY <1>39, BusyKept DEF Occupy, listenVars, admitVars
<1>40. ASSUME NEW s \in Sessions, Dosbox(s) PROVE AdmissionExact'
  BY <1>40, BusyKept DEF Dosbox, listenVars, admitVars
<1>41. ASSUME NEW s \in Sessions, Return(s) PROVE AdmissionExact'
  BY <1>41, BusyKept DEF Return, listenVars, admitVars
<1>16. ASSUME NEW s \in Sessions, Logout(s) PROVE AdmissionExact'
  BY <1>16, BusyKept DEF Logout, listenVars, admitVars
<1>17. ASSUME NEW s \in Sessions, NEW n \in Node, FKeyKick(s, n) PROVE AdmissionExact'
  BY <1>17, BusyKept DEF FKeyKick, listenVars, admitVars
<1>18. ASSUME NEW s \in Sessions, ChatEnter(s) PROVE AdmissionExact'
  BY <1>18, BusyKept DEF ChatEnter, listenVars, admitVars
<1>19. ASSUME NEW s \in Sessions, ChatTop(s) PROVE AdmissionExact'
  BY <1>19, BusyKept DEF ChatTop, listenVars, admitVars
<1>20. ASSUME NEW s \in Sessions, ChatRead(s) PROVE AdmissionExact'
  BY <1>20, BusyKept DEF ChatRead, listenVars, admitVars
<1>21. ASSUME NEW s \in Sessions, OnlineRemove(s) PROVE AdmissionExact'
  BY <1>21, BusyKept DEF OnlineRemove, listenVars, admitVars
<1>22. ASSUME NEW s \in Sessions, ClearRow(s) PROVE AdmissionExact'
  BY <1>22, BusyKept DEF ClearRow, listenVars, admitVars
<1>23. ASSUME NEW s \in Sessions, FreeSession(s) PROVE AdmissionExact'
  <2>1. Busy' = Busy \ {s} /\ s \in Busy
    BY <1>23 DEF FreeSession, Busy, TypeOK
  <2>2. Cardinality(Busy') = Cardinality(Busy) - 1
    BY <2>1, BusyFinite, FS_RemoveElement
  <2> QED
    BY <1>23, <2>2, BusyFinite DEF FreeSession, AdmissionExact, TypeOK, listenVars
<1>24. CASE SessionRelease
  BY <1>24, BusyFinite DEF SessionRelease, AdmissionExact, Busy, TypeOK, listenVars, threadVars, registry, tables, janitorVars
<1>25. ASSUME NEW c \in Consoles, NEW n \in Aimed, ConsoleKick(c, n) PROVE AdmissionExact'
  BY <1>25, CountUntouched DEF ConsoleKick, listenVars, admitVars, registry, tables, janitorVars
<1>26. ASSUME NEW c \in Consoles, NEW n \in Aimed, NEW b \in BOOLEAN, ConsoleLock(c, n, b) PROVE AdmissionExact'
  BY <1>26, CountUntouched DEF ConsoleLock, listenVars, admitVars, threadVars, tables, janitorVars
<1>27. ASSUME NEW c \in Consoles, ConsoleLockSave(c) PROVE AdmissionExact'
  BY <1>27, CountUntouched DEF ConsoleLockSave, listenVars, admitVars, threadVars, registry, janitorVars
<1>28. ASSUME NEW c \in Consoles, ConsoleRow(c) PROVE AdmissionExact'
  BY <1>28, CountUntouched DEF ConsoleRow, listenVars, admitVars, threadVars, registry, janitorVars
<1>29. ASSUME NEW t \in Tools, NEW n \in Aimed, NEW b \in BOOLEAN, BbslibLock(t, n, b) PROVE AdmissionExact'
  BY <1>29, CountUntouched DEF BbslibLock, listenVars, admitVars, threadVars, registry, janitorVars
<1>30. CASE JanitorList
  BY <1>30, CountUntouched DEF JanitorList, listenVars, admitVars, threadVars, registry, tables
<1>31. CASE JanitorLook
  BY <1>31, CountUntouched DEF JanitorLook, listenVars, admitVars, threadVars, registry, tables
<1>32. CASE JanitorMark
  BY <1>32, CountUntouched DEF JanitorMark, listenVars, admitVars, threadVars, registry
<1>42. CASE PassBegins
  BY <1>42, CountUntouched DEF PassBegins, admitVars, threadVars, registry, tables, janitorVars
<1>43. CASE CommandEnds
  BY <1>43, CountUntouched DEF CommandEnds, admitVars, threadVars, registry, tables, janitorVars
<1>33. CASE Signal
  BY <1>33, CountUntouched DEF Signal, admitVars, threadVars, registry, tables, janitorVars
<1>34. CASE Sweep
  BY <1>34, BusyFinite DEF Sweep, AdmissionExact, Busy, TypeOK, admitVars, registry, tables, janitorVars
<1>35. CASE Exit
  BY <1>35, EndsAdmission DEF Exit
<1>36. CASE Crash
  BY <1>36, EndsAdmission DEF Crash
<1>37. CASE Boot
  BY <1>37, BusyFinite DEF Boot, AdmissionExact, Busy, TypeOK, admitVars, threadVars, tables, janitorVars
<1> QED
  BY <1>0, <1>1, <1>2, <1>3, <1>4, <1>5, <1>6, <1>7, <1>8, <1>9, <1>10, <1>11, <1>12, <1>13, <1>14, <1>15, <1>16, <1>17, <1>18, <1>19, <1>20, <1>21, <1>22, <1>23, <1>24, <1>25, <1>26, <1>27, <1>28, <1>29, <1>30, <1>31, <1>32, <1>33, <1>34, <1>35, <1>36, <1>37, <1>38, <1>39, <1>40, <1>41, <1>42, <1>43 DEF Next, MainLoop, Listener, Worker, Console, ConsoleFinish, Janitor

\* session_admit and session_release count exactly the workers that exist.
THEOREM AdmissionCorrect == Spec => []AdmissionExact
BY TypeCorrect, AdmissionInit, AdmissionStep, PTL DEF Spec

\* Every registered session is a worker other than one that has yet to
\* register, and no two slots hold the same: with all slots taken there would
\* be more workers than admission ever lets in.
LEMMA SlotLeft == TypeOK /\ RegistryExact /\ AdmissionExact => SlotForAdmitted
<1> SUFFICES ASSUME TypeOK, RegistryExact, AdmissionExact,
                    NEW s \in Sessions, pc[s] = "start",
                    \A n \in Node : ~locked[n],
                    FreeSlots = {}
             PROVE  FALSE
  BY DEF SlotForAdmitted
<1> DEFINE Others == Busy \ {s}
<1>1. \A n \in Node : online[n] \in Sessions
  BY DEF FreeSlots, TypeOK
<1>2. \A n \in Node : Holds(online[n]) /\ node[online[n]] = n
  BY <1>1 DEF RegistryExact
<1>3. online \in [Node -> Others]
  BY <1>1, <1>2 DEF TypeOK, Holds, Seated, Busy
<1>4. IsFiniteSet(Others) /\ Cardinality(Others) = Cardinality(Busy) - 1
  BY BusyFinite, FS_RemoveElement DEF Busy
<1>5. IsFiniteSet(Node) /\ Cardinality(Node) = MaxOnline
  BY FS_Interval, SlotsAssumption DEF Node
<1>6. Cardinality(Busy) <= MaxOnline
  BY BusyFinite, SlotsAssumption DEF AdmissionExact, TypeOK
<1>7. Cardinality(Others) < Cardinality(Node)
  BY <1>4, <1>5, <1>6, BusyFinite, SlotsAssumption
<1>8. \E x, y \in Node : x # y /\ online[x] = online[y]
  <2> HIDE DEF Others
  <2> QED
    BY <1>3, <1>4, <1>5, <1>7, FS_PigeonHole
<1> QED
  BY <1>2, <1>8

\* An admitted caller is turned away only because of a locked node.
THEOREM SlotForAdmittedHolds == Spec => []SlotForAdmitted
BY TypeCorrect, RegistryCorrect, AdmissionCorrect, SlotLeft, PTL

-----------------------------------------------------------------------------
(* The nodes table.                                                        *)

\* A step that changes neither the table nor a worker.
LEMMA RowsUntouched ==
    RowNamesWorker /\ UNCHANGED <<halts, rows, pc, node, user>> => RowNamesWorker'
BY DEF RowNamesWorker

\* A worker that moves without leaving the positions in which its row may
\* name its user, or that was never in them.
LEMMA WorkerKept ==
    ASSUME TypeOK, RowNamesWorker, NEW s \in Sessions, NEW q,
           pc[s] \in LoggedIn \cup {"leave", "clear"} => q \in LoggedIn \cup {"leave", "clear"},
           pc' = [pc EXCEPT ![s] = q], UNCHANGED <<halts, rows, node, user>>
    PROVE  RowNamesWorker'
BY DEF TypeOK, RowNamesWorker

\* A row written without a user names nobody.
LEMMA BlankRow ==
    ASSUME TypeOK, RowNamesWorker, NEW n, NEW st, db_node_upsert(n, NoUser, st),
           UNCHANGED <<halts, node, user>>,
           \A s \in Sessions : pc[s] \in LoggedIn \cup {"leave", "clear"} => pc'[s] = pc[s]
    PROVE  RowNamesWorker'
BY DEF TypeOK, RowNamesWorker, db_node_upsert

\* A worker writes its own user into its own row, in the menu loop.
LEMMA OwnRow ==
    ASSUME TypeOK, RowNamesWorker, NEW s \in Sessions, NEW st,
           NEW q \in LoggedIn, pc[s] \in LoggedIn \/ pc[s] = "enter",
           pc' = [pc EXCEPT ![s] = q],
           NEW u, db_node_upsert(node[s], u, st),
           user' = [user EXCEPT ![s] = u],
           pc[s] \in LoggedIn => u = user[s],
           UNCHANGED <<halts, node>>
    PROVE  RowNamesWorker'
BY DEF TypeOK, RowNamesWorker, db_node_upsert, LoggedIn

\* A logged-in worker that moves within the session, whether or not it writes
\* its own user into its own row.
LEMMA StaysPut ==
    ASSUME TypeOK, RowNamesWorker, NEW s \in Sessions, pc[s] \in LoggedIn,
           NEW q \in LoggedIn, pc' = [pc EXCEPT ![s] = q],
           NEW st, db_node_upsert(node[s], user[s], st) \/ UNCHANGED rows,
           UNCHANGED <<halts, node, user>>
    PROVE  RowNamesWorker'
<1>1. user' = [user EXCEPT ![s] = user[s]]
  BY DEF TypeOK
<1>2. CASE db_node_upsert(node[s], user[s], st)
  BY <1>1, <1>2, OwnRow
<1>3. CASE UNCHANGED rows
  BY <1>3, WorkerKept
<1> QED
  BY <1>2, <1>3

\* Every statement on the nodes table either names nobody, names the user of the
\* worker that writes it, or deletes the row.
LEMMA RowStep == TypeOK /\ RowNamesWorker /\ [Next]_vars => RowNamesWorker'
<1> SUFFICES ASSUME TypeOK, RowNamesWorker, [Next]_vars PROVE RowNamesWorker'
  OBVIOUS
<1>0. CASE UNCHANGED vars
  BY <1>0, RowsUntouched DEF vars
<1>1. CASE ListenTop
  BY <1>1, RowsUntouched DEF ListenTop, admitVars, threadVars, registry, tables, janitorVars
<1>2. CASE ListenNone
  BY <1>2, RowsUntouched DEF ListenNone, admitVars, threadVars, registry, tables, janitorVars
<1>3. CASE SessionAdmit
  BY <1>3, RowsUntouched DEF SessionAdmit, threadVars, registry, tables, janitorVars
<1>4. ASSUME NEW s \in Sessions, Spawn(s) PROVE RowNamesWorker'
  BY <1>4 DEF Spawn, RowNamesWorker, TypeOK, LoggedIn, listenVars, tables
<1>5. CASE SpawnFail
  BY <1>5, RowsUntouched DEF SpawnFail, threadVars, registry, tables, janitorVars
<1>6. ASSUME NEW s \in Sessions, OnlineAdd(s) PROVE RowNamesWorker'
  BY <1>6 DEF OnlineAdd, RowNamesWorker, TypeOK, LoggedIn, listenVars, tables
<1>7. ASSUME NEW s \in Sessions, OnlineAddFail(s) PROVE RowNamesWorker'
  BY <1>7, WorkerKept DEF OnlineAddFail, LoggedIn, listenVars, tables
<1>8. ASSUME NEW s \in Sessions, MarkLoggingIn(s) PROVE RowNamesWorker'
  BY <1>8, BlankRow DEF MarkLoggingIn, LoggedIn, listenVars, threadVars
<1>9. ASSUME NEW s \in Sessions, NEW u \in Users, Authenticate(s, u) PROVE RowNamesWorker'
  BY <1>9, WorkerKept DEF Authenticate, LoggedIn, listenVars, tables
<1>10. ASSUME NEW s \in Sessions, AuthenticateFail(s) PROVE RowNamesWorker'
  BY <1>10, WorkerKept DEF AuthenticateFail, LoggedIn, listenVars, tables
<1>11. ASSUME NEW s \in Sessions, AdmitUser(s) PROVE RowNamesWorker'
  BY <1>11, WorkerKept DEF AdmitUser, LoggedIn, listenVars, tables
<1>12. ASSUME NEW s \in Sessions, EnterMenu(s) PROVE RowNamesWorker'
  BY <1>12, OwnRow DEF EnterMenu, TypeOK, LoggedIn, listenVars
<1>38. ASSUME NEW s \in Sessions, LogonDone(s) PROVE RowNamesWorker'
  BY <1>38, WorkerKept DEF LogonDone, LoggedIn, listenVars, tables
<1>13. ASSUME NEW s \in Sessions, MenuTop(s) PROVE RowNamesWorker'
  BY <1>13, WorkerKept DEF MenuTop, LoggedIn, listenVars, tables
<1>14. ASSUME NEW s \in Sessions, MenuPost(s) PROVE RowNamesWorker'
  <2>1. user' = [user EXCEPT ![s] = user[s]]
    BY <1>14 DEF MenuPost, TypeOK
  <2>2. pc[s] = "post" /\ pc' = [pc EXCEPT ![s] = "read"] /\ UNCHANGED <<halts, node>>
    BY <1>14 DEF MenuPost, listenVars
  <2>3. db_node_upsert(node[s], user[s], "online")
    BY <1>14 DEF MenuPost
  <2> QED
    BY <2>1, <2>2, <2>3, OwnRow DEF LoggedIn
<1>15. ASSUME NEW s \in Sessions, MenuRead(s) PROVE RowNamesWorker'
  BY <1>15, WorkerKept DEF MenuRead, LoggedIn, listenVars, tables
<1>39. ASSUME NEW s \in Sessions, Occupy(s) PROVE RowNamesWorker'
  BY <1>39, StaysPut DEF Occupy, LoggedIn, listenVars
<1>40. ASSUME NEW s \in Sessions, Dosbox(s) PROVE RowNamesWorker'
  BY <1>40, StaysPut DEF Dosbox, LoggedIn, listenVars
<1>41. ASSUME NEW s \in Sessions, Return(s) PROVE RowNamesWorker'
  BY <1>41, StaysPut DEF Return, LoggedIn, listenVars
<1>16. ASSUME NEW s \in Sessions, Logout(s) PROVE RowNamesWorker'
  BY <1>16, WorkerKept DEF Logout, LoggedIn, listenVars, tables
<1>17. ASSUME NEW s \in Sessions, NEW n \in Node, FKeyKick(s, n) PROVE RowNamesWorker'
  BY <1>17, WorkerKept DEF FKeyKick, LoggedIn, listenVars, tables
<1>18. ASSUME NEW s \in Sessions, ChatEnter(s) PROVE RowNamesWorker'
  BY <1>18, WorkerKept DEF ChatEnter, LoggedIn, listenVars, tables
<1>19. ASSUME NEW s \in Sessions, ChatTop(s) PROVE RowNamesWorker'
  <2>1. CASE alive[s] /\ ~stop
    BY <1>19, <2>1, OwnRow DEF ChatTop, TypeOK, LoggedIn, listenVars
  <2>2. CASE ~(alive[s] /\ ~stop)
    BY <1>19, <2>2, WorkerKept DEF ChatTop, LoggedIn, listenVars
  <2> QED
    BY <2>1, <2>2
<1>20. ASSUME NEW s \in Sessions, ChatRead(s) PROVE RowNamesWorker'
  BY <1>20, WorkerKept DEF ChatRead, LoggedIn, listenVars, tables
<1>21. ASSUME NEW s \in Sessions, OnlineRemove(s) PROVE RowNamesWorker'
  BY <1>21, WorkerKept DEF OnlineRemove, LoggedIn, listenVars, tables
<1>22. ASSUME NEW s \in Sessions, ClearRow(s) PROVE RowNamesWorker'
  BY <1>22 DEF ClearRow, db_node_clear, RowNamesWorker, TypeOK, LoggedIn, listenVars
<1>23. ASSUME NEW s \in Sessions, FreeSession(s) PROVE RowNamesWorker'
  BY <1>23 DEF FreeSession, RowNamesWorker, TypeOK, LoggedIn, listenVars, tables
<1>24. CASE SessionRelease
  BY <1>24, RowsUntouched DEF SessionRelease, listenVars, threadVars, registry, tables, janitorVars
<1>25. ASSUME NEW c \in Consoles, NEW n \in Aimed, ConsoleKick(c, n) PROVE RowNamesWorker'
  BY <1>25, RowsUntouched DEF ConsoleKick, listenVars, admitVars, registry, tables, janitorVars
<1>26. ASSUME NEW c \in Consoles, NEW n \in Aimed, NEW b \in BOOLEAN, ConsoleLock(c, n, b) PROVE RowNamesWorker'
  BY <1>26, RowsUntouched DEF ConsoleLock, listenVars, admitVars, threadVars, tables, janitorVars
<1>27. ASSUME NEW c \in Consoles, ConsoleLockSave(c) PROVE RowNamesWorker'
  BY <1>27, RowsUntouched DEF ConsoleLockSave, listenVars, admitVars, threadVars, registry, janitorVars
<1>28. ASSUME NEW c \in Consoles, ConsoleRow(c) PROVE RowNamesWorker'
  BY <1>28, BlankRow DEF ConsoleRow, LoggedIn, listenVars, threadVars
<1>29. ASSUME NEW t \in Tools, NEW n \in Aimed, NEW b \in BOOLEAN, BbslibLock(t, n, b) PROVE RowNamesWorker'
  BY <1>29, RowsUntouched DEF BbslibLock, listenVars, admitVars, threadVars, registry, janitorVars
<1>30. CASE JanitorList
  BY <1>30, RowsUntouched DEF JanitorList, listenVars, admitVars, threadVars, registry, tables
<1>31. CASE JanitorLook
  BY <1>31, RowsUntouched DEF JanitorLook, listenVars, admitVars, threadVars, registry, tables
<1>32. CASE JanitorMark
  BY <1>32, BlankRow DEF JanitorMark, LoggedIn, listenVars, threadVars
<1>42. CASE PassBegins
  BY <1>42, RowsUntouched DEF PassBegins, admitVars, threadVars, registry, tables, janitorVars
<1>43. CASE CommandEnds
  BY <1>43, RowsUntouched DEF CommandEnds, admitVars, threadVars, registry, tables, janitorVars
<1>33. CASE Signal
  BY <1>33, RowsUntouched DEF Signal, admitVars, threadVars, registry, tables, janitorVars
<1>34. CASE Sweep
  BY <1>34, RowsUntouched DEF Sweep, admitVars, registry, tables, janitorVars
<1>35. CASE Exit
  BY <1>35 DEF Exit, ProcessEnds, RowNamesWorker, TypeOK
<1>36. CASE Crash
  BY <1>36 DEF Crash, ProcessEnds, RowNamesWorker, TypeOK
<1>37. CASE Boot
  BY <1>37, RowsUntouched DEF Boot, admitVars, threadVars, tables, janitorVars
<1> QED
  BY <1>0, <1>1, <1>2, <1>3, <1>4, <1>5, <1>6, <1>7, <1>8, <1>9, <1>10, <1>11, <1>12, <1>13, <1>14, <1>15, <1>16, <1>17, <1>18, <1>19, <1>20, <1>21, <1>22, <1>23, <1>24, <1>25, <1>26, <1>27, <1>28, <1>29, <1>30, <1>31, <1>32, <1>33, <1>34, <1>35, <1>36, <1>37, <1>38, <1>39, <1>40, <1>41, <1>42, <1>43 DEF Next, MainLoop, Listener, Worker, Console, ConsoleFinish, Janitor

\* Until the process first ends, a row of the nodes table names only a user
\* whose worker is on that node or about to clear the row.
THEOREM RowNamesWorkerHolds == Spec => []RowNamesWorker
<1>1. Init => RowNamesWorker
  BY DEF Init, RowNamesWorker
<1> QED
  BY <1>1, TypeCorrect, RowStep, PTL DEF Spec

(***************************************************************************)
(* Proofs about Plugins, for any libraries, callers and number of tasks.   *)
(* Five layers.  Formed: registers, threads and slots are well formed.     *)
(* Phased: which threads may be about while the board starts, runs and     *)
(* stops, and that a thread which is inside a plugin entered it through    *)
(* the registry; this is the order of the shutdown, and it is what keeps   *)
(* closed libraries empty.  Mapped: while nothing has been unloaded the    *)
(* registry, dlopen and init agree.  Counted: the instances.  Tasked: the  *)
(* numbers of tasks are used once.                                         *)
(***************************************************************************)

Ids == {Describe[f].id : f \in Lib}
Entries == [file : Lib, id : Ids, count : Nat, loaded : BOOLEAN]
ThreadStates == [pc : {"out", "sleep", "event", "callback", "menu", "create", "inside"},
                 i : Nat, n : Nat, file : Lib \cup {NoFile},
                 then : {"out", "sleep", "menu"}, late : BOOLEAN]
TaskStates == [id : 0 .. MaxTasks, file : Lib \cup {NoFile}, due : BOOLEAN, active : BOOLEAN]

Stages == {"cold", "scan", "up", "stopping", "event", "join", "unload", "tasks", "gone"}
LoaderStates == [pc : Stages, enabled : BOOLEAN, i : Nat, n : Nat]
WorkerStates == [pc : {"none", "wait", "pass", "call"}, i : Nat, mark : Nat, task : TaskStates]

LoaderFormed ==
  /\ loader \in LoaderStates
  /\ loader.pc = "scan" => loader.i >= 1
RegistryFormed ==
  /\ g_plugins \in Seq(Entries)
  /\ \A k \in DOMAIN g_plugins : g_plugins[k].id = Describe[g_plugins[k].file].id
  /\ \A j, k \in DOMAIN g_plugins : g_plugins[j].id = g_plugins[k].id => j = k
MapsFormed == mapped \in [Lib -> Int] /\ ready \in [Lib -> Int]
ThreadsFormed == at \in [Threads -> ThreadStates] /\ ticking \in BOOLEAN
TasksFormed ==
  /\ g_tasks \in [1 .. TaskMax -> TaskStates]
  /\ worker \in WorkerStates
  /\ running \in BOOLEAN /\ next \in 1 .. MaxTasks + 1
  /\ ran \in [1 .. MaxTasks -> Nat] /\ revoked \subseteq 1 .. MaxTasks
Formed == LoaderFormed /\ RegistryFormed /\ MapsFormed /\ ThreadsFormed /\ TasksFormed

\* Before anything is unloaded.
Whole == {"cold", "scan", "up", "stopping", "event", "join"}
Open(f) == \E k \in DOMAIN g_plugins : g_plugins[k].file = f

Phased ==
  /\ loader.pc \in {"cold", "scan"} => \A t \in Threads : at[t].pc = "out"
  /\ loader.pc \in Whole => \A k \in DOMAIN g_plugins : g_plugins[k].loaded
  /\ \A u \in UserThreads : (at[u].pc # "out" /\ ~at[u].late) => loader.pc \in {"up", "stopping"}
  /\ at["console"].pc # "out" => at["console"].late
  /\ at["ticker"].pc # "out" => loader.pc \in {"up", "stopping", "event", "join"}
  /\ at["main"].pc # "out" => loader.pc = "event"
  /\ \A t \in Threads \ UserThreads : at[t].pc \notin {"create", "inside"}
  /\ \A t \in Threads : Inside(t) => (Open(at[t].file) \/ g_plugins = << >>)
  /\ loader.pc \in {"cold", "tasks", "gone"} => g_plugins = << >>
  /\ loader.pc \in Whole => \A t \in Threads : Inside(t) => Open(at[t].file)

Mapped == loader.pc \in Whole =>
  \A f \in Lib : /\ Open(f) => mapped[f] = 1 /\ ready[f] = 1
                 /\ ~Open(f) => mapped[f] = 0 /\ ready[f] = 0

Instances(f) == {u \in UserThreads : at[u].pc = "inside" /\ at[u].file = f}
Counted == \A k \in LoadedAt : g_plugins[k].count = Cardinality(Instances(g_plugins[k].file))

Tasked ==
  /\ \A k \in 1 .. TaskMax : g_tasks[k].active =>
       /\ g_tasks[k].id \in 1 .. next - 1 /\ ran[g_tasks[k].id] = 0 /\ g_tasks[k].id \notin revoked
       /\ loader.pc \in Whole => Open(g_tasks[k].file)
  /\ worker.pc = "call" /\ loader.pc \in Whole => Open(worker.task.file)
  /\ \A id \in 1 .. MaxTasks : ran[id] <= 1 /\ (ran[id] > 0 => id < next)
  /\ \A id \in revoked : id < next
  /\ TasksOnce

Strong == Formed /\ Phased /\ Mapped /\ Counted /\ Tasked

-----------------------------------------------------------------------------
(* Formed.                                                                  *)

\* The definitions that speak of the constants alone.
LEMMA Rigid == Lib' = Lib /\ Ids' = Ids /\ Entries' = Entries /\ Threads' = Threads
               /\ ThreadStates' = ThreadStates /\ TaskStates' = TaskStates
               /\ LoaderStates' = LoaderStates /\ WorkerStates' = WorkerStates
BY DEF Lib, Ids, Entries, Threads, ThreadStates, TaskStates, NoFile, LoaderStates, Stages, WorkerStates

\* What a layer says of variables that do not change stays true.
LEMMA FormedKept ==
    /\ LoaderFormed /\ UNCHANGED loader => LoaderFormed'
    /\ RegistryFormed /\ UNCHANGED g_plugins => RegistryFormed'
    /\ MapsFormed /\ UNCHANGED <<mapped, ready>> => MapsFormed'
    /\ ThreadsFormed /\ UNCHANGED <<at, ticking>> => ThreadsFormed'
    /\ TasksFormed /\ UNCHANGED TaskVars => TasksFormed'
BY Rigid DEF LoaderFormed, RegistryFormed, MapsFormed, ThreadsFormed, TasksFormed, TaskVars

\* The number of plugins is one.
LEMMA CountNat == ASSUME RegistryFormed PROVE plugin_registry_count \in Nat /\ IsFiniteSet(LoadedAt)
<1>1. DOMAIN g_plugins = 1 .. Len(g_plugins) /\ Len(g_plugins) \in Nat
    BY LenProperties DEF RegistryFormed
<1>2. IsFiniteSet(1 .. Len(g_plugins))
    BY <1>1, FS_Interval
<1>3. LoadedAt \in SUBSET (1 .. Len(g_plugins))
    BY <1>1 DEF LoadedAt
<1>4. IsFiniteSet(LoadedAt)
    BY <1>2, <1>3, FS_Subset
<1> QED
    BY <1>4, FS_CardinalityType DEF plugin_registry_count

\* Records of threads.
LEMMA ThreadRecords ==
    ASSUME Formed, NEW t \in Threads
    PROVE  /\ at[t] \in ThreadStates /\ Away \in ThreadStates /\ Away.pc = "out" /\ ~Away.late
           /\ Away.file = NoFile
           /\ \A x \in {"out", "sleep", "menu"} :
                 LET d == Dispatching(t, x)
                 IN  d \in ThreadStates /\ d.pc = "event" /\ d.late = at[t].late
                     /\ d.file = at[t].file
<1>1. at[t] \in ThreadStates /\ plugin_registry_count \in Nat
    BY CountNat DEF Formed, ThreadsFormed
<1>2. Away \in ThreadStates /\ Away.pc = "out" /\ ~Away.late /\ Away.file = NoFile
    BY DEF Away, ThreadStates
<1>3. ASSUME NEW x \in {"out", "sleep", "menu"}
      PROVE  LET d == Dispatching(t, x)
             IN  d \in ThreadStates /\ d.pc = "event" /\ d.late = at[t].late
                 /\ d.file = at[t].file
    BY <1>1 DEF Dispatching, ThreadStates
<1> QED
    BY <1>1, <1>2, <1>3

\* One thread moves.
LEMMA OneThread ==
    ASSUME ThreadsFormed, NEW t \in Threads, NEW s \in ThreadStates, at' = [at EXCEPT ![t] = s],
           UNCHANGED ticking
    PROVE  ThreadsFormed' /\ at'[t] = s /\ \A x \in Threads \ {t} : at'[x] = at[x]
BY Rigid DEF ThreadsFormed

\* The initial state is well formed.
LEMMA FormedInit == PluginsInit => Formed
<1> SUFFICES ASSUME PluginsInit PROVE Formed
    OBVIOUS
<1> USE DEF PluginsInit
<1>1. LoaderFormed
    BY DEF LoaderFormed, LoaderStates, Stages
<1>2. RegistryFormed
    BY EmptySeq DEF RegistryFormed
<1>3. MapsFormed
    BY DEF MapsFormed
<1>4. ThreadsFormed
  <2>1. Away \in ThreadStates
      BY DEF Away, ThreadStates
  <2> QED
      BY <2>1 DEF ThreadsFormed
<1>5. TasksFormed
  <2>1. NoTask \in TaskStates
      BY PluginsAssumption DEF NoTask, TaskStates
  <2>2. worker \in WorkerStates
      BY <2>1 DEF NoWorker, WorkerStates
  <2>3. 1 \in 1 .. MaxTasks + 1
      BY PluginsAssumption
  <2> QED
      BY <2>1, <2>2, <2>3 DEF TasksFormed
<1> QED
    BY <1>1, <1>2, <1>3, <1>4, <1>5 DEF Formed

LEMMA FormedAgain == MainReturns => Formed'
<1>1. MainReturns => PluginsInit'
    BY Rigid DEF MainReturns, PluginsInit, Away, NoTask, NoWorker, NoFile
<1>2. PluginsInit' => Formed'
    BY FormedInit, PTL
<1> QED
    BY <1>1, <1>2

\* What each step of the loader makes of its record.
LEMMA LoaderRecords ==
    ASSUME LoaderFormed
    PROVE  /\ \A p \in Stages : [loader EXCEPT !.pc = p] \in LoaderStates
                               /\ [loader EXCEPT !.pc = p].pc = p
                               /\ [loader EXCEPT !.pc = p].i = loader.i
           /\ \A p \in Stages, e \in BOOLEAN :
                 LET r == [loader EXCEPT !.pc = p, !.enabled = e, !.i = 1]
                 IN  r \in LoaderStates /\ r.pc = p /\ r.i = 1
           /\ \A p \in Stages, c \in Nat :
                 LET r == [loader EXCEPT !.pc = p, !.i = 0, !.n = c]
                 IN  r \in LoaderStates /\ r.pc = p /\ r.i = 0 /\ r.n = c
           /\ LET r == [loader EXCEPT !.i = @ + 1]
              IN  r \in LoaderStates /\ r.pc = loader.pc /\ r.i = loader.i + 1
<1>0. loader \in LoaderStates
    BY DEF LoaderFormed
<1>1. ASSUME NEW p \in Stages
      PROVE  /\ [loader EXCEPT !.pc = p] \in LoaderStates /\ [loader EXCEPT !.pc = p].pc = p
             /\ [loader EXCEPT !.pc = p].i = loader.i
    BY <1>0 DEF LoaderStates
<1>2. ASSUME NEW p \in Stages, NEW e \in BOOLEAN
      PROVE  LET r == [loader EXCEPT !.pc = p, !.enabled = e, !.i = 1]
             IN  r \in LoaderStates /\ r.pc = p /\ r.i = 1
    BY <1>0 DEF LoaderStates
<1>3. ASSUME NEW p \in Stages, NEW c \in Nat
      PROVE  LET r == [loader EXCEPT !.pc = p, !.i = 0, !.n = c]
             IN  r \in LoaderStates /\ r.pc = p /\ r.i = 0 /\ r.n = c
    BY <1>0 DEF LoaderStates
<1>4. LET r == [loader EXCEPT !.i = @ + 1]
      IN  r \in LoaderStates /\ r.pc = loader.pc /\ r.i = loader.i + 1
    BY <1>0 DEF LoaderStates
<1> QED
    BY <1>1, <1>2, <1>3, <1>4

\* The ticker has been joined.
LEMMA JoinedRecord ==
    ASSUME LoaderFormed, JoinTicker
    PROVE  loader'.pc = "unload"
BY DEF JoinTicker, LoaderFormed, LoaderStates

\* A library is added to the registry.
LEMMA Added ==
    ASSUME Formed, NEW f \in Lib, \A k \in DOMAIN g_plugins : g_plugins[k].loaded,
           plugin_registry_find(Describe[f].id) = {}, g_plugins' = plugin_registry_add(f)
    PROVE  /\ RegistryFormed'
           /\ DOMAIN g_plugins' = DOMAIN g_plugins \cup {Len(g_plugins) + 1}
           /\ Len(g_plugins) + 1 \notin DOMAIN g_plugins
           /\ LET x == g_plugins'[Len(g_plugins) + 1]
              IN  x.file = f /\ x.id = Describe[f].id /\ x.count = 0 /\ x.loaded
           /\ \A k \in DOMAIN g_plugins : g_plugins'[k] = g_plugins[k] /\ g_plugins[k].file # f
<1> DEFINE e == [file |-> f, id |-> Describe[f].id, count |-> 0, loaded |-> TRUE]
<1>3. e \in Entries /\ e.file = f /\ e.id = Describe[f].id /\ e.count = 0 /\ e.loaded
    BY DEF Entries, Ids
<1>1. g_plugins' = Append(g_plugins, e) /\ g_plugins \in Seq(Entries)
    BY DEF plugin_registry_add, Formed, RegistryFormed
<1> HIDE DEF e
<1>2. /\ g_plugins' \in Seq(Entries)
      /\ DOMAIN g_plugins' = 1 .. Len(g_plugins) + 1 /\ DOMAIN g_plugins = 1 .. Len(g_plugins)
      /\ g_plugins'[Len(g_plugins) + 1] = e
      /\ \A k \in DOMAIN g_plugins : g_plugins'[k] = g_plugins[k]
      /\ Len(g_plugins) \in Nat
    BY <1>3, <1>1
<1>4. \A k \in DOMAIN g_plugins : g_plugins[k].id # e.id
    BY <1>3 DEF plugin_registry_find, LoadedAt
<1>5. \A k \in DOMAIN g_plugins' : k \in DOMAIN g_plugins \/ k = Len(g_plugins) + 1
    BY <1>2
<1>6. /\ \A k \in DOMAIN g_plugins' : g_plugins'[k].id = Describe[g_plugins'[k].file].id
      /\ \A j, k \in DOMAIN g_plugins' : g_plugins'[j].id = g_plugins'[k].id => j = k
    BY <1>2, <1>3, <1>4, <1>5 DEF Formed, RegistryFormed
<1>7. \A k \in DOMAIN g_plugins : g_plugins[k].file # f
    BY <1>3, <1>4 DEF Formed, RegistryFormed
<1>8. DOMAIN g_plugins' = DOMAIN g_plugins \cup {Len(g_plugins) + 1}
    BY <1>2
<1>9. Len(g_plugins) + 1 \notin DOMAIN g_plugins
    BY <1>2
<1>a. RegistryFormed'
    BY <1>2, <1>6, Rigid DEF RegistryFormed
<1> QED
    BY <1>2, <1>3, <1>7, <1>8, <1>9, <1>a

\* Entries that lose their mark or change their count are the same plugins.
LEMMA Marked ==
    ASSUME Formed, DOMAIN g_plugins' = DOMAIN g_plugins,
           g_plugins' = [k \in DOMAIN g_plugins |-> g_plugins'[k]],
           \A k \in DOMAIN g_plugins : /\ g_plugins'[k] \in Entries
                                       /\ g_plugins'[k].file = g_plugins[k].file
                                       /\ g_plugins'[k].id = g_plugins[k].id
    PROVE  RegistryFormed'
<1>1. g_plugins \in Seq(Entries) /\ Len(g_plugins) \in Nat /\ DOMAIN g_plugins = 1 .. Len(g_plugins)
    BY LenProperties DEF Formed, RegistryFormed
<1>2. g_plugins' \in [1 .. Len(g_plugins) -> Entries]
    BY <1>1
<1>3. g_plugins' \in Seq(Entries)
    BY <1>1, <1>2, SeqDef
<1> QED
    BY <1>3, Rigid DEF Formed, RegistryFormed

\* An entry that is there, with its library.
LEMMA EntryAt ==
    ASSUME Formed, NEW k \in DOMAIN g_plugins
    PROVE  /\ g_plugins[k] \in Entries /\ g_plugins[k].file \in Lib /\ g_plugins[k].count \in Nat
           /\ g_plugins[k].loaded \in BOOLEAN /\ g_plugins[k].id = Describe[g_plugins[k].file].id
<1>1. g_plugins[k] \in Entries
    BY DEF Formed, RegistryFormed
<1> QED
    BY <1>1 DEF Entries, Formed, RegistryFormed

\* An entry is marked as unloaded.
LEMMA Dropped ==
    ASSUME Formed, NEW k \in DOMAIN g_plugins, g_plugins' = [g_plugins EXCEPT ![k].loaded = FALSE]
    PROVE  /\ RegistryFormed' /\ DOMAIN g_plugins' = DOMAIN g_plugins
           /\ ~g_plugins'[k].loaded
           /\ \A j \in DOMAIN g_plugins : /\ g_plugins'[j].file = g_plugins[j].file
                                          /\ g_plugins'[j].id = g_plugins[j].id
                                          /\ g_plugins'[j].count = g_plugins[j].count
                                          /\ j # k => g_plugins'[j] = g_plugins[j]
<1>1. \A j \in DOMAIN g_plugins : g_plugins[j] \in Entries
    BY EntryAt
<1>2. DOMAIN g_plugins' = DOMAIN g_plugins /\ g_plugins' = [j \in DOMAIN g_plugins |-> g_plugins'[j]]
    BY DEF Formed, RegistryFormed
<1>3. g_plugins'[k] = [g_plugins[k] EXCEPT !.loaded = FALSE]
    OBVIOUS
<1>4. /\ g_plugins'[k] \in Entries /\ ~g_plugins'[k].loaded
      /\ g_plugins'[k].file = g_plugins[k].file /\ g_plugins'[k].id = g_plugins[k].id
      /\ g_plugins'[k].count = g_plugins[k].count
    BY <1>1, <1>3 DEF Entries
<1>5. \A j \in DOMAIN g_plugins : j # k => g_plugins'[j] = g_plugins[j]
    OBVIOUS
<1>6. \A j \in DOMAIN g_plugins : /\ g_plugins'[j] \in Entries
                                  /\ g_plugins'[j].file = g_plugins[j].file
                                  /\ g_plugins'[j].id = g_plugins[j].id
                                  /\ g_plugins'[j].count = g_plugins[j].count
    BY <1>1, <1>4, <1>5
<1>7. RegistryFormed'
    BY <1>2, <1>6, Marked
<1> QED
    BY <1>2, <1>4, <1>5, <1>6, <1>7

\* The library whose turn it is.
LEMMA Scanned ==
    ASSUME Formed, loader.pc = "scan", loader.i <= Len(Libraries)
    PROVE  Libraries[loader.i] \in Lib
<1>1. loader.i \in 1 .. Len(Libraries)
    BY PluginsAssumption DEF Formed, LoaderFormed, LoaderStates
<1>2. DOMAIN Libraries = 1 .. Len(Libraries)
    BY PluginsAssumption, LenProperties
<1> QED
    BY <1>1, <1>2 DEF Lib

\* The loader's steps keep the state well formed.
LEMMA FormedLoader == Formed /\ Phased /\ LoaderNext => Formed'
<1> SUFFICES ASSUME Formed, Phased, LoaderNext PROVE Formed'
    OBVIOUS
<1> USE DEF Formed
<1>r. /\ \A q \in Stages : [loader EXCEPT !.pc = q] \in LoaderStates
                          /\ [loader EXCEPT !.pc = q].pc = q
                          /\ [loader EXCEPT !.pc = q].i = loader.i
      /\ \A q \in Stages, c \in Nat :
            LET r == [loader EXCEPT !.pc = q, !.i = 0, !.n = c]
            IN  r \in LoaderStates /\ r.pc = q /\ r.i = 0 /\ r.n = c
      /\ LET r == [loader EXCEPT !.i = @ + 1]
         IN  r \in LoaderStates /\ r.pc = loader.pc /\ r.i = loader.i + 1
    BY LoaderRecords
<1>t. "ticker" \in Threads /\ "main" \in Threads
    BY DEF Threads
<1>p. Stages = {"cold", "scan", "up", "stopping", "event", "join", "unload", "tasks", "gone"}
    BY DEF Stages
<1>1. ASSUME NEW enabled \in BOOLEAN, NEW directory \in BOOLEAN, plugin_loader_init(enabled, directory)
      PROVE  Formed'
  <2> DEFINE q == IF enabled /\ directory THEN "scan" ELSE "up"
  <2>0. q \in Stages
      BY <1>p
  <2>a. loader' = [loader EXCEPT !.pc = q, !.enabled = enabled, !.i = 1]
      BY <1>1 DEF plugin_loader_init
  <2> HIDE DEF q
  <2>1. loader' \in LoaderStates /\ loader'.i = 1
      BY <2>0, <2>a, LoaderRecords
  <2>2. LoaderFormed'
    <3>1. loader'.i >= 1
        BY <2>1
    <3> QED
        BY <2>1, <3>1, Rigid DEF LoaderFormed
  <2> QED
      BY <1>1, <2>2, FormedKept DEF plugin_loader_init
<1>2. ASSUME NEW ok \in BOOLEAN, load_plugin(ok) PROVE Formed'
  <2> DEFINE f == Libraries[loader.i]
  <2>1. LoaderFormed'
    <3>1. loader' \in LoaderStates /\ loader'.i = loader.i + 1 /\ loader.i \in Nat
        BY <1>2, <1>r DEF load_plugin, LoaderFormed, LoaderStates
    <3>2. loader'.i >= 1
        BY <3>1
    <3> QED
        BY <3>1, <3>2, Rigid DEF LoaderFormed
  <2>2. f \in Lib
      BY <1>2, Scanned DEF load_plugin
  <2>3. \A k \in DOMAIN g_plugins : g_plugins[k].loaded
      BY <1>2 DEF load_plugin, Phased, Whole
  <2>4. CASE UNCHANGED <<g_plugins, mapped, ready>>
      BY <1>2, <2>1, <2>4, FormedKept DEF load_plugin
  <2>5. CASE /\ plugin_registry_find(Describe[f].id) = {}
             /\ g_plugins' = plugin_registry_add(f)
             /\ mapped' = [mapped EXCEPT ![f] = @ + 1] /\ ready' = [ready EXCEPT ![f] = @ + 1]
    <3>1. RegistryFormed'
        BY <2>2, <2>3, <2>5, Added
    <3>2. MapsFormed'
      <4> HIDE DEF f
      <4>1. mapped[f] + 1 \in Int /\ ready[f] + 1 \in Int
          BY <2>2 DEF MapsFormed
      <4> QED
          BY <2>2, <2>5, <4>1, Rigid DEF MapsFormed
    <3> QED
        BY <1>2, <2>1, <3>1, <3>2, FormedKept DEF load_plugin
  <2> QED
      BY <1>2, <2>4, <2>5 DEF load_plugin
<1>3. ASSUME NEW ok \in BOOLEAN, StartTicker(ok) PROVE Formed'
  <2>1. LoaderFormed'
      BY <1>3, <1>p, <1>r, Rigid DEF StartTicker, LoaderFormed
  <2>2. [Away EXCEPT !.pc = "sleep"] \in ThreadStates
      BY DEF Away, ThreadStates
  <2>3. ThreadsFormed'
      BY <1>3, <1>t, <2>2, Rigid DEF StartTicker, ThreadsFormed
  <2> QED
      BY <1>3, <2>1, <2>3, FormedKept DEF StartTicker
<1>4. CASE Halt
  <2>1. LoaderFormed'
      BY <1>4, <1>p, <1>r, Rigid DEF Halt, LoaderFormed
  <2> QED
      BY <1>4, <2>1, FormedKept DEF Halt
<1>5. CASE ShutdownEvent
  <2>1. LoaderFormed'
      BY <1>5, <1>p, <1>r, Rigid DEF ShutdownEvent, LoaderFormed
  <2>2. [Away EXCEPT !.pc = "event"] \in ThreadStates
      BY DEF Away, ThreadStates
  <2>3. Dispatching("main", "out") \in ThreadStates
      BY <1>t, ThreadRecords
  <2>4. ThreadsFormed'
      BY <1>5, <1>t, <2>2, <2>3, Rigid DEF ShutdownEvent, ThreadsFormed
  <2> QED
      BY <1>5, <2>1, <2>4, FormedKept DEF ShutdownEvent
<1>6. CASE StopTicker
  <2>1. LoaderFormed'
      BY <1>6, <1>p, <1>r, Rigid DEF StopTicker, LoaderFormed
  <2>2. ThreadsFormed'
    <3>1. Away \in ThreadStates
        BY <1>t, ThreadRecords
    <3> QED
        BY <1>6, <1>t, <3>1, Rigid DEF StopTicker, ThreadsFormed
  <2> QED
      BY <1>6, <2>1, <2>2, FormedKept DEF StopTicker
<1>7. CASE JoinTicker
  <2>0. plugin_registry_count \in Nat
      BY CountNat
  <2>1. LoaderFormed'
      BY <1>7, <1>p, <1>r, <2>0, Rigid DEF JoinTicker, LoaderFormed
  <2> QED
      BY <1>7, <2>1, FormedKept DEF JoinTicker
<1>8. CASE Unload
  <2>1. LoaderFormed'
      BY <1>8, <1>r, Rigid DEF Unload, LoaderFormed
  <2>2. CASE UNCHANGED <<g_plugins, mapped, ready>>
      BY <1>8, <2>1, <2>2, FormedKept DEF Unload
  <2>3. CASE plugin_registry_get(loader.i) # {}
    <3> DEFINE k == CHOOSE x \in plugin_registry_get(loader.i) : TRUE
    <3>1. k \in DOMAIN g_plugins
        BY <2>3 DEF plugin_registry_get, LoadedAt
    <3> HIDE DEF k
    <3>2. /\ ready' = [ready EXCEPT ![g_plugins[k].file] = @ - 1]
          /\ mapped' = [mapped EXCEPT ![g_plugins[k].file] = @ - 1]
          /\ g_plugins' = [g_plugins EXCEPT ![k].loaded = FALSE]
        BY <1>8, <2>3 DEF Unload, k
    <3>3. g_plugins[k].file \in Lib
        BY <3>1, EntryAt
    <3>4. MapsFormed'
      <4> DEFINE f == g_plugins[k].file
      <4>0. /\ ready' = [ready EXCEPT ![f] = @ - 1] /\ mapped' = [mapped EXCEPT ![f] = @ - 1]
            /\ f \in Lib
          BY <3>2, <3>3
      <4> HIDE DEF f
      <4>1. mapped[f] - 1 \in Int /\ ready[f] - 1 \in Int
          BY <4>0 DEF MapsFormed
      <4> QED
          BY <4>0, <4>1, Rigid DEF MapsFormed
    <3>5. RegistryFormed'
        BY <3>1, <3>2, Dropped
    <3> QED
        BY <1>8, <2>1, <3>4, <3>5, FormedKept DEF Unload
  <2> QED
      BY <1>8, <2>2, <2>3 DEF Unload
<1>9. CASE Unloaded
  <2>1. LoaderFormed'
      BY <1>9, <1>p, <1>r, Rigid DEF Unloaded, LoaderFormed
  <2>2. RegistryFormed'
    <3>1. g_plugins' = << >> /\ g_plugins' \in Seq(Entries)
        BY <1>9, EmptySeq DEF Unloaded
    <3>2. DOMAIN g_plugins' = {}
        BY <3>1
    <3> QED
        BY <3>1, <3>2, Rigid DEF RegistryFormed
  <2>3. TasksFormed'
      BY <1>9, Rigid DEF Unloaded, TasksFormed
  <2> QED
      BY <1>9, <2>1, <2>2, <2>3, FormedKept DEF Unloaded
<1>a. CASE plugin_sched_shutdown
  <2>1. LoaderFormed'
      BY <1>a, <1>p, <1>r, Rigid DEF plugin_sched_shutdown, LoaderFormed
  <2> QED
      BY <1>a, <2>1, FormedKept DEF plugin_sched_shutdown
<1>b. CASE MainReturns
    BY <1>b, FormedAgain
<1> QED
    BY <1>1, <1>2, <1>3, <1>4, <1>5, <1>6, <1>7, <1>8, <1>9, <1>a, <1>b DEF LoaderNext

\* How a thread moves: it starts or ends something, enters the code of a plugin
\* that the registry knows, has an instance counted, or leaves it.
Starts(t, s) == /\ t \in UserThreads \cup {"console"} /\ loader.pc \notin {"cold", "scan"}
                /\ ~s.late => t # "console" /\ loader.pc \in {"up", "stopping"}
Goes(t, s) == at[t].pc # "out" /\ (t = "ticker" \/ s.late = at[t].late)
Idles(t, s) == /\ at[t].pc # "inside" /\ s.pc \notin {"callback", "create", "inside"}
               /\ UNCHANGED g_plugins
Enters(t, s) == /\ at[t].pc # "inside" /\ s.pc \in {"callback", "create"}
                /\ s.pc = "create" => t \in UserThreads
                /\ \E k \in LoadedAt : s.file = g_plugins[k].file
                /\ UNCHANGED g_plugins
Counts(t, s) == /\ t \in UserThreads /\ at[t].pc = "create" /\ s.pc = "inside" /\ s.file = at[t].file
                /\ g_plugins' = plugin_registry_instance_inc(Describe[at[t].file].id)
Leaves(t, s) == /\ t \in UserThreads /\ at[t].pc = "inside" /\ s.pc = "menu"
                /\ g_plugins' = plugin_registry_instance_dec(Describe[at[t].file].id)
Moves(t, s) == /\ at' = [at EXCEPT ![t] = s]
               /\ s.pc = "out" \/ Starts(t, s) \/ Goes(t, s)
               /\ Idles(t, s) \/ Enters(t, s) \/ Counts(t, s) \/ Leaves(t, s)

\* Records that threads get.
LEMMA EditLate ==
    ASSUME NEW r \in ThreadStates, NEW b \in BOOLEAN
    PROVE  LET s == [r EXCEPT !.late = b] IN s \in ThreadStates /\ s.pc = r.pc /\ s.late = b
BY DEF ThreadStates

LEMMA EditNext ==
    ASSUME NEW r \in ThreadStates
    PROVE  LET s == [r EXCEPT !.i = r.i + 1]
           IN  s \in ThreadStates /\ s.pc = r.pc /\ s.late = r.late
BY DEF ThreadStates

LEMMA EditCallback ==
    ASSUME NEW r \in ThreadStates, NEW f \in Lib
    PROVE  LET s == [r EXCEPT !.pc = "callback", !.i = r.i + 1, !.file = f]
           IN  s \in ThreadStates /\ s.pc = "callback" /\ s.late = r.late /\ s.file = f
<1> DEFINE j == r.i + 1
<1>1. j \in Nat
    BY DEF ThreadStates
<1> HIDE DEF j
<1>2. LET s == [r EXCEPT !.pc = "callback", !.i = j, !.file = f]
      IN  s \in ThreadStates /\ s.pc = "callback" /\ s.late = r.late /\ s.file = f
    BY <1>1 DEF ThreadStates
<1> QED
    BY <1>2 DEF j

LEMMA EditCreate ==
    ASSUME NEW r \in ThreadStates, NEW f \in Lib
    PROVE  LET s == [r EXCEPT !.pc = "create", !.file = f]
           IN  s \in ThreadStates /\ s.pc = "create" /\ s.late = r.late /\ s.file = f
BY DEF ThreadStates

LEMMA EditOut ==
    ASSUME NEW r \in ThreadStates, NEW p \in {"event", "menu"}
    PROVE  LET s == [r EXCEPT !.pc = p, !.file = NoFile]
           IN  s \in ThreadStates /\ s.pc = p /\ s.late = r.late
BY DEF ThreadStates

LEMMA EditInside ==
    ASSUME NEW r \in ThreadStates
    PROVE  LET s == [r EXCEPT !.pc = "inside"]
           IN  s \in ThreadStates /\ s.pc = "inside" /\ s.late = r.late /\ s.file = r.file
BY DEF ThreadStates

\* The record of a thread that has nothing on hand.
LEMMA ThreadRests ==
    /\ Away \in ThreadStates /\ Away.pc = "out" /\ ~Away.late
    /\ [Away EXCEPT !.pc = "sleep"] \in ThreadStates /\ [Away EXCEPT !.pc = "sleep"].pc = "sleep"
    /\ [Away EXCEPT !.pc = "event"] \in ThreadStates /\ [Away EXCEPT !.pc = "event"].pc = "event"
    /\ \A b \in BOOLEAN : LET s == [Away EXCEPT !.pc = "menu", !.late = b]
                          IN  s \in ThreadStates /\ s.pc = "menu" /\ s.late = b
BY DEF Away, ThreadStates

\* Every step of CallbackNext is a move of one thread.
LEMMA CallbackMoves ==
    ASSUME Formed, CallbackNext
    PROVE  /\ \E t \in Threads, s \in ThreadStates : Moves(t, s)
           /\ UNCHANGED <<loader, mapped, ready, ticking, TaskVars>>
<1>a. \A t \in Threads : at[t] \in ThreadStates /\ at[t].late \in BOOLEAN
    BY DEF Formed, ThreadsFormed, ThreadStates
<1>t. "ticker" \in Threads /\ \A t \in UserThreads \cup {"console"} : t \in Threads /\ t # "ticker"
    BY PluginsAssumption DEF Threads
<1>0. UNCHANGED <<loader, mapped, ready, ticking, TaskVars>>
    BY DEF CallbackNext, OnEvent, Called, Tock, TickEnds, LoginEvent, EventEnds, LogoutEvent,
           LeavePlugin, RunPlugin, CreateInstance
<1>1. ASSUME NEW t \in Threads, OnEvent(t) PROVE \E s \in ThreadStates : Moves(t, s)
  <2> DEFINE entry == plugin_registry_get(at[t].i)
             f == g_plugins[CHOOSE k \in entry : TRUE].file
             s1 == [at[t] EXCEPT !.i = at[t].i + 1]
             s2 == [at[t] EXCEPT !.pc = "callback", !.i = at[t].i + 1, !.file = f]
  <2>1. at[t].pc = "event" /\ UNCHANGED g_plugins
      BY <1>1 DEF OnEvent
  <2>0. at' = [at EXCEPT ![t] = IF entry = {} THEN s1 ELSE s2]
      BY <1>1, Zenon DEF OnEvent
  <2>2. CASE entry = {}
    <3> HIDE DEF entry, s2
    <3>1. at' = [at EXCEPT ![t] = s1]
        BY <2>0, <2>2
    <3>2. s1 \in ThreadStates /\ s1.pc = at[t].pc /\ s1.late = at[t].late
        BY <1>a, EditNext, EditOut, EditInside
    <3> HIDE DEF s1
    <3>3. Moves(t, s1)
        BY <2>1, <3>1, <3>2 DEF Moves, Goes, Idles
    <3> QED
        BY <3>2, <3>3
  <2>3. CASE entry # {}
    <3>0. PICK k \in LoadedAt : k = CHOOSE x \in entry : TRUE
        BY <2>3 DEF plugin_registry_get
    <3>1. f = g_plugins[k].file /\ f \in Lib
        BY <3>0, EntryAt DEF LoadedAt
    <3> HIDE DEF f
    <3>3. s2 \in ThreadStates /\ s2.pc = "callback" /\ s2.late = at[t].late /\ s2.file = f
      <4>1. at[t] \in ThreadStates
          BY <1>a
      <4> QED
          BY <4>1, <3>1, EditCallback
    <3> HIDE DEF s2, entry, s1
    <3>2. at' = [at EXCEPT ![t] = s2]
        BY <2>0, <2>3
    <3>4. Enters(t, s2)
        BY <2>1, <3>1, <3>3 DEF Enters
    <3>5. Moves(t, s2)
        BY <2>1, <3>2, <3>3, <3>4 DEF Moves, Goes
    <3> QED
        BY <3>3, <3>5
  <2> QED
      BY <2>2, <2>3
<1>2. ASSUME NEW t \in Threads, Called(t) PROVE \E s \in ThreadStates : Moves(t, s)
  <2> DEFINE s == [at[t] EXCEPT !.pc = "event", !.file = NoFile]
  <2>1. at[t].pc = "callback" /\ UNCHANGED g_plugins /\ at' = [at EXCEPT ![t] = s]
      BY <1>2 DEF Called
  <2>2. s \in ThreadStates /\ s.pc = "event" /\ s.late = at[t].late
      BY <1>a, EditNext, EditOut, EditInside
  <2> HIDE DEF s
  <2>3. Moves(t, s)
      BY <2>1, <2>2 DEF Moves, Goes, Idles
  <2> QED
      BY <2>2, <2>3
<1>3. ASSUME Tock \/ TickEnds PROVE \E s \in ThreadStates : Moves("ticker", s)
  <2>1. at["ticker"].pc \in {"sleep", "event"} /\ UNCHANGED g_plugins
      BY <1>3 DEF Tock, TickEnds
  <2>2. PICK s \in {Away, [Away EXCEPT !.pc = "sleep"], Dispatching("ticker", "sleep")} :
             at' = [at EXCEPT !["ticker"] = s]
      BY <1>3 DEF Tock, TickEnds
  <2>3. s \in ThreadStates /\ s.pc \in {"out", "sleep", "event"}
      BY <1>t, <2>2, ThreadRests, ThreadRecords
  <2>4. Moves("ticker", s)
      BY <2>1, <2>2, <2>3 DEF Moves, Goes, Idles
  <2> QED
      BY <2>3, <2>4
<1>4. ASSUME NEW t \in UserThreads \cup {"console"}, LoginEvent(t) PROVE \E s \in ThreadStates : Moves(t, s)
  <2> DEFINE x == IF t = "console" THEN "out" ELSE "menu"
             d == Dispatching(t, x)
             s == [d EXCEPT !.late = Late(t)]
  <2>1. at[t].pc = "out" /\ UNCHANGED g_plugins /\ at' = [at EXCEPT ![t] = s]
        /\ loader.pc \notin {"cold", "scan"}
      BY <1>4 DEF LoginEvent, plugin_loader_enabled
  <2>2. x \in {"out", "sleep", "menu"}
      OBVIOUS
  <2> HIDE DEF x
  <2>3. d \in ThreadStates /\ d.pc = "event"
      BY <1>t, <2>2, ThreadRecords
  <2>4. PICK b \in BOOLEAN : b = Late(t)
      BY DEF Late
  <2> HIDE DEF d
  <2>5. s \in ThreadStates /\ s.pc = "event" /\ s.late = Late(t)
    <3>1. LET q == [d EXCEPT !.late = b] IN q \in ThreadStates /\ q.pc = "event" /\ q.late = b
        BY <2>3, EditLate
    <3> QED
        BY <2>4, <3>1
  <2> HIDE DEF s
  <2>6. ~s.late => t # "console" /\ loader.pc \in {"up", "stopping"}
      BY <2>5 DEF Late
  <2>7. Moves(t, s)
      BY <2>1, <2>5, <2>6 DEF Moves, Starts, Idles
  <2> QED
      BY <2>5, <2>7
<1>5. ASSUME NEW t \in UserThreads \cup {"console"}, EventEnds(t) PROVE \E s \in ThreadStates : Moves(t, s)
  <2>1. at[t].pc = "event" /\ UNCHANGED g_plugins
      BY <1>5 DEF EventEnds
  <2>2. PICK s \in {Away, [Away EXCEPT !.pc = "menu", !.late = at[t].late]} : at' = [at EXCEPT ![t] = s]
      BY <1>5 DEF EventEnds
  <2>3. s \in ThreadStates /\ (s.pc = "out" \/ (s.pc = "menu" /\ s.late = at[t].late))
    <3> DEFINE m == [Away EXCEPT !.pc = "menu", !.late = at[t].late]
    <3>1. at[t].late \in BOOLEAN
        BY <1>a, <1>t
    <3>2. m \in ThreadStates /\ m.pc = "menu" /\ m.late = at[t].late
        BY <3>1, ThreadRests, Zenon
    <3>3. s = Away \/ s = m
        BY <2>2
    <3> HIDE DEF m
    <3> QED
        BY <3>2, <3>3, ThreadRests
  <2>4. Moves(t, s)
      BY <2>1, <2>2, <2>3 DEF Moves, Goes, Idles
  <2> QED
      BY <2>3, <2>4
<1>6. ASSUME NEW u \in UserThreads, LogoutEvent(u) PROVE \E s \in ThreadStates : Moves(u, s)
  <2>1. at[u].pc = "menu" /\ UNCHANGED g_plugins
      BY <1>6 DEF LogoutEvent
  <2>2. PICK s \in {Away, Dispatching(u, "out")} : at' = [at EXCEPT ![u] = s]
      BY <1>6 DEF LogoutEvent
  <2>3. s \in ThreadStates /\ (s.pc = "out" \/ (s.pc = "event" /\ s.late = at[u].late))
    <3>1. u \in Threads
        BY <1>t
    <3>2. /\ Dispatching(u, "out") \in ThreadStates /\ Dispatching(u, "out").pc = "event"
          /\ Dispatching(u, "out").late = at[u].late
        BY <3>1, ThreadRecords, Zenon
    <3> QED
        BY <2>2, <3>2, ThreadRests
  <2>4. Moves(u, s)
      BY <2>1, <2>2, <2>3 DEF Moves, Goes, Idles
  <2> QED
      BY <2>3, <2>4
<1>7. ASSUME NEW u \in UserThreads, LeavePlugin(u) PROVE \E s \in ThreadStates : Moves(u, s)
  <2> DEFINE s == [at[u] EXCEPT !.pc = "menu", !.file = NoFile]
  <2>1. at[u].pc = "inside" /\ at' = [at EXCEPT ![u] = s]
        /\ g_plugins' = plugin_registry_instance_dec(Describe[at[u].file].id)
      BY <1>7 DEF LeavePlugin
  <2>2. s \in ThreadStates /\ s.pc = "menu" /\ s.late = at[u].late
      BY <1>a, <1>t, EditNext, EditOut, EditInside
  <2> HIDE DEF s
  <2>3. Moves(u, s)
      BY <2>1, <2>2 DEF Moves, Goes, Leaves
  <2> QED
      BY <2>2, <2>3
<1>8. ASSUME NEW u \in UserThreads, NEW id, RunPlugin(u, id) PROVE \E s \in ThreadStates : Moves(u, s)
  <2>1. at[u].pc = "menu" /\ UNCHANGED g_plugins
      BY <1>8 DEF RunPlugin
  <2>2. PICK k \in LoadedAt :
             at' = [at EXCEPT ![u] = [@ EXCEPT !.pc = "create", !.file = g_plugins[k].file]]
      BY <1>8 DEF RunPlugin, plugin_registry_find
  <2> DEFINE f == g_plugins[k].file
             s == [at[u] EXCEPT !.pc = "create", !.file = f]
  <2>3. f \in Lib
      BY EntryAt DEF LoadedAt
  <2>4. at' = [at EXCEPT ![u] = s]
      BY <2>2
  <2> HIDE DEF f
  <2>5. s \in ThreadStates /\ s.pc = "create" /\ s.late = at[u].late /\ s.file = f
    <3>1. at[u] \in ThreadStates
        BY <1>a, <1>t
    <3> QED
        BY <2>3, <3>1, EditCreate
  <2> HIDE DEF s
  <2>6. Enters(u, s)
      BY <2>1, <2>5 DEF Enters, f
  <2>7. Moves(u, s)
      BY <2>1, <2>4, <2>5, <2>6 DEF Moves, Goes
  <2> QED
      BY <2>5, <2>7
<1>9. ASSUME NEW u \in UserThreads, NEW ok \in BOOLEAN, CreateInstance(u, ok)
      PROVE  \E s \in ThreadStates : Moves(u, s)
  <2> DEFINE s1 == [at[u] EXCEPT !.pc = "inside"]
             s2 == [at[u] EXCEPT !.pc = "menu", !.file = NoFile]
  <2>1. s1 \in ThreadStates /\ s1.pc = "inside" /\ s1.late = at[u].late /\ s1.file = at[u].file
      BY <1>a, <1>t, EditNext, EditOut, EditInside
  <2>2. s2 \in ThreadStates /\ s2.pc = "menu" /\ s2.late = at[u].late
      BY <1>a, <1>t, EditNext, EditOut, EditInside
  <2>3. at[u].pc = "create"
      BY <1>9 DEF CreateInstance
  <2>4. CASE ok
    <3>1. /\ at' = [at EXCEPT ![u] = s1]
          /\ g_plugins' = plugin_registry_instance_inc(Describe[at[u].file].id)
        BY <1>9, <2>4 DEF CreateInstance
    <3> HIDE DEF s1
    <3>2. Moves(u, s1)
        BY <2>1, <2>3, <3>1 DEF Moves, Goes, Counts
    <3> QED
        BY <2>1, <3>2
  <2>5. CASE ~ok
    <3>1. at' = [at EXCEPT ![u] = s2] /\ UNCHANGED g_plugins
        BY <1>9, <2>5 DEF CreateInstance
    <3> HIDE DEF s2
    <3>2. Moves(u, s2)
        BY <2>2, <2>3, <3>1 DEF Moves, Goes, Idles
    <3> QED
        BY <2>2, <3>2
  <2> QED
      BY <2>4, <2>5
<1>q. \E t \in Threads, s \in ThreadStates : Moves(t, s)
    BY <1>t, <1>1, <1>2, <1>3, <1>4, <1>5, <1>6, <1>7, <1>8, <1>9 DEF CallbackNext
<1> QED
    BY <1>0, <1>q

\* A move leaves the registry's plugins alone and changes their counts only.
LEMMA SamePlugins ==
    ASSUME Formed, NEW t, NEW s, Moves(t, s)
    PROVE  /\ RegistryFormed' /\ DOMAIN g_plugins' = DOMAIN g_plugins
           /\ \A k \in DOMAIN g_plugins : /\ g_plugins'[k].file = g_plugins[k].file
                                          /\ g_plugins'[k].id = g_plugins[k].id
                                          /\ g_plugins'[k].loaded = g_plugins[k].loaded
<1>1. CASE UNCHANGED g_plugins
    BY <1>1, FormedKept DEF Formed
<1>2. CASE Counts(t, s) \/ Leaves(t, s)
  <2> DEFINE id == Describe[at[t].file].id
  <2>1. PICK S \in SUBSET DOMAIN g_plugins, d \in {1, -1} :
             /\ g_plugins' = [k \in DOMAIN g_plugins |->
                                IF k \in S THEN [g_plugins[k] EXCEPT !.count = @ + d] ELSE g_plugins[k]]
             /\ d = -1 => \A k \in S : g_plugins[k].count > 0
    <3>1. CASE Counts(t, s)
      <4> DEFINE S == plugin_registry_find(id)
      <4>1. S \in SUBSET DOMAIN g_plugins
          BY DEF plugin_registry_find, LoadedAt
      <4>2. g_plugins' = [k \in DOMAIN g_plugins |->
                            IF k \in S THEN [g_plugins[k] EXCEPT !.count = @ + 1] ELSE g_plugins[k]]
          BY <3>1 DEF Counts, plugin_registry_instance_inc
      <4>3. ~(1 = -1)
          OBVIOUS
      <4> HIDE DEF S
      <4> WITNESS S \in SUBSET DOMAIN g_plugins, 1 \in {1, -1}
      <4> QED
          BY <4>2, <4>3
    <3>2. CASE Leaves(t, s)
      <4> DEFINE S == {k \in plugin_registry_find(id) : g_plugins[k].count > 0}
      <4>1. S \in SUBSET DOMAIN g_plugins
          BY DEF plugin_registry_find, LoadedAt
      <4>2. g_plugins' = [k \in DOMAIN g_plugins |->
                            IF k \in S THEN [g_plugins[k] EXCEPT !.count = @ - 1] ELSE g_plugins[k]]
          BY <3>2 DEF Leaves, plugin_registry_instance_dec
      <4>3. \A k \in S : g_plugins[k].count > 0
          OBVIOUS
      <4> HIDE DEF S
      <4>4. \A k \in S : k \in DOMAIN g_plugins /\ g_plugins[k].count \in Nat /\ g_plugins[k] \in Entries
          BY <4>1, EntryAt
      <4>5. \A k \in S : [g_plugins[k] EXCEPT !.count = g_plugins[k].count - 1]
                         = [g_plugins[k] EXCEPT !.count = g_plugins[k].count + (-1)]
          BY <4>4
      <4>6. g_plugins' = [k \in DOMAIN g_plugins |->
                            IF k \in S THEN [g_plugins[k] EXCEPT !.count = @ + (-1)] ELSE g_plugins[k]]
          BY <4>2, <4>5
      <4> QED
          BY <4>1, <4>3, <4>6
    <3> QED
        BY <1>2, <3>1, <3>2
  <2>2. DOMAIN g_plugins' = DOMAIN g_plugins /\ g_plugins' = [k \in DOMAIN g_plugins |-> g_plugins'[k]]
      BY <2>1
  <2>3. ASSUME NEW k \in DOMAIN g_plugins
        PROVE  /\ g_plugins'[k] \in Entries /\ g_plugins'[k].file = g_plugins[k].file
               /\ g_plugins'[k].id = g_plugins[k].id /\ g_plugins'[k].loaded = g_plugins[k].loaded
    <3>1. g_plugins[k] \in Entries /\ g_plugins[k].count \in Nat
        BY EntryAt
    <3>2. CASE k \notin S
      <4>1. g_plugins'[k] = g_plugins[k]
          BY <2>1, <3>2
      <4> QED
          BY <3>1, <4>1
    <3>3. CASE k \in S
      <4> DEFINE c == g_plugins[k].count + d
      <4>1. c \in Nat
          BY <2>1, <3>1, <3>3
      <4>2. g_plugins'[k] = [g_plugins[k] EXCEPT !.count = c]
          BY <2>1, <3>3
      <4> HIDE DEF c
      <4> QED
          BY <3>1, <4>1, <4>2 DEF Entries
    <3> QED
        BY <3>2, <3>3
  <2>4. RegistryFormed'
      BY <2>2, <2>3, Marked
  <2> QED
      BY <2>2, <2>3, <2>4
<1> QED
    BY <1>1, <1>2 DEF Moves, Idles, Enters

\* The callbacks' steps keep the state well formed.
LEMMA FormedCallback == Formed /\ CallbackNext => Formed'
<1> SUFFICES ASSUME Formed, CallbackNext PROVE Formed'
    OBVIOUS
<1>1. PICK t \in Threads, s \in ThreadStates : Moves(t, s)
    BY CallbackMoves
<1>2. UNCHANGED <<loader, mapped, ready, ticking, TaskVars>>
    BY CallbackMoves
<1>3. ThreadsFormed'
    BY <1>1, <1>2, OneThread DEF Moves, Formed
<1>4. RegistryFormed'
    BY <1>1, SamePlugins
<1> QED
    BY <1>2, <1>3, <1>4, FormedKept DEF Formed

\* The records of tasks and of their thread.
LEMMA TaskRecords ==
    ASSUME TasksFormed
    PROVE  /\ NoTask \in TaskStates /\ NoWorker \in WorkerStates
           /\ [NoWorker EXCEPT !.pc = "wait"] \in WorkerStates /\ [NoWorker EXCEPT !.pc = "wait"].pc = "wait"
           /\ LET w == [NoWorker EXCEPT !.pc = "pass", !.mark = next]
              IN  w \in WorkerStates /\ w.pc = "pass"
           /\ \A k \in 1 .. TaskMax : g_tasks[k] \in TaskStates
<1>1. NoTask \in TaskStates
    BY PluginsAssumption DEF NoTask, TaskStates
<1>2. next \in Nat
    BY PluginsAssumption DEF TasksFormed
<1>3. NoWorker = [pc |-> "none", i |-> 1, mark |-> 0, task |-> NoTask]
    BY DEF NoWorker
<1>4. /\ NoWorker \in WorkerStates
      /\ [NoWorker EXCEPT !.pc = "wait"] \in WorkerStates /\ [NoWorker EXCEPT !.pc = "wait"].pc = "wait"
    BY <1>1, <1>3 DEF WorkerStates
<1>5. LET w == [NoWorker EXCEPT !.pc = "pass", !.mark = next] IN w \in WorkerStates /\ w.pc = "pass"
    BY <1>2, <1>4 DEF WorkerStates
<1> QED
    BY <1>1, <1>4, <1>5 DEF TasksFormed

\* The steps of tasks keep the state well formed.
LEMMA FormedTasks == Formed /\ Tasked /\ TaskNext => Formed'
<1> SUFFICES ASSUME Formed, Tasked, TaskNext PROVE Formed'
    OBVIOUS
<1>0. TasksFormed
    BY DEF Formed
<1>a. UNCHANGED <<loader, g_plugins, mapped, ready, at, ticking>>
    BY DEF TaskNext, host_sched, Cancel, Elapse, TaskStarts, TaskReturns, TaskPassEnds, WorkerWakes
<1>s. SUFFICES TasksFormed'
    BY <1>a, FormedKept DEF Formed
<1>n. next \in Nat /\ MaxTasks \in Nat /\ TaskMax \in Nat
    BY <1>0, PluginsAssumption DEF TasksFormed
<1>1. ASSUME NEW u \in UserThreads, NEW due \in BOOLEAN, host_sched(u, due) PROVE TasksFormed'
  <2> DEFINE free == {k \in 1..TaskMax : ~g_tasks[k].active}
             slot == CHOOSE k \in free : \A j \in free : k <= j
             new == [id |-> next, file |-> at[u].file, due |-> due, active |-> TRUE]
  <2>1. worker' \in WorkerStates /\ running' = TRUE
      BY <1>0, <1>1, TaskRecords DEF host_sched, plugin_sched_init, TasksFormed
  <2>2. UNCHANGED <<ran, revoked>> /\ next <= MaxTasks
      BY <1>1 DEF host_sched
  <2>3. CASE free = {}
    <3>1. UNCHANGED <<g_tasks, next>>
        BY <1>1, <2>3 DEF host_sched
    <3> QED
        BY <1>0, <2>1, <2>2, <3>1, Rigid DEF TasksFormed
  <2>4. CASE free # {}
    <3>1. g_tasks' = [g_tasks EXCEPT ![slot] = new] /\ next' = next + 1
        BY <1>1, <2>4 DEF host_sched
    <3>2. at[u].file \in Lib \cup {NoFile}
        BY DEF Formed, ThreadsFormed, ThreadStates, Threads
    <3>3. new \in TaskStates
        BY <1>n, <2>2, <3>2 DEF TaskStates
    <3>4. next' \in 1 .. MaxTasks + 1
        BY <1>0, <1>n, <2>2, <3>1 DEF TasksFormed
    <3> HIDE DEF slot, new
    <3>5. g_tasks' \in [1 .. TaskMax -> TaskStates]
        BY <1>0, <3>1, <3>3 DEF TasksFormed
    <3> QED
        BY <1>0, <2>1, <2>2, <3>4, <3>5, Rigid DEF TasksFormed
  <2> QED
      BY <2>3, <2>4
<1>2. ASSUME NEW u \in UserThreads, NEW id \in 1 .. MaxTasks, Cancel(u, id) PROVE TasksFormed'
  <2>1. \A k \in 1 .. TaskMax : [g_tasks[k] EXCEPT !.active = FALSE] \in TaskStates
    <3> SUFFICES ASSUME NEW k \in 1 .. TaskMax PROVE [g_tasks[k] EXCEPT !.active = FALSE] \in TaskStates
        OBVIOUS
    <3>1. g_tasks[k] \in TaskStates
        BY <1>0 DEF TasksFormed
    <3> QED
        BY <3>1 DEF TaskStates
  <2>2. g_tasks' \in [1 .. TaskMax -> TaskStates]
      BY <1>0, <1>2, <2>1 DEF Cancel, host_sched_cancel, TasksFormed
  <2>3. revoked' \subseteq 1 .. MaxTasks
      BY <1>0, <1>2 DEF Cancel, TasksFormed
  <2> QED
      BY <1>0, <1>2, <2>2, <2>3, Rigid DEF TasksFormed, Cancel
<1>3. ASSUME NEW k \in 1 .. TaskMax, Elapse(k) PROVE TasksFormed'
  <2>1. [g_tasks[k] EXCEPT !.due = TRUE] \in TaskStates
    <3>1. g_tasks[k] \in TaskStates
        BY <1>0 DEF TasksFormed
    <3> QED
        BY <3>1 DEF TaskStates
  <2>2. g_tasks' \in [1 .. TaskMax -> TaskStates]
      BY <1>0, <1>3, <2>1 DEF Elapse, TasksFormed
  <2> QED
      BY <1>0, <1>3, <2>2, Rigid DEF TasksFormed, Elapse
<1>4. ASSUME NEW k \in 1 .. TaskMax, TaskStarts(k) PROVE TasksFormed'
  <2>0. g_tasks[k] \in TaskStates /\ worker \in WorkerStates
      BY <1>0 DEF TasksFormed
  <2>1. [g_tasks[k] EXCEPT !.active = FALSE] \in TaskStates
      BY <2>0 DEF TaskStates
  <2>2. g_tasks' \in [1 .. TaskMax -> TaskStates]
      BY <1>0, <1>4, <2>1 DEF TaskStarts, TasksFormed
  <2>3. worker' \in WorkerStates
    <3>1. k + 1 \in Nat
        BY <1>n
    <3>2. worker' = [worker EXCEPT !.pc = "call", !.i = k + 1, !.task = g_tasks[k]]
        BY <1>4 DEF TaskStarts
    <3> QED
        BY <2>0, <3>1, <3>2 DEF WorkerStates
  <2>4. ran' \in [1 .. MaxTasks -> Nat]
    <3>1. g_tasks[k].active
        BY <1>4 DEF TaskStarts, Ripe
    <3>2. ran' = [ran EXCEPT ![g_tasks[k].id] = @ + 1]
        BY <1>4 DEF TaskStarts
    <3> DEFINE d == g_tasks[k].id
    <3>3. d \in 1 .. MaxTasks
      <4>1. d \in 1 .. next - 1
          BY <3>1 DEF Tasked
      <4>2. next \in 1 .. MaxTasks + 1
          BY <1>0 DEF TasksFormed
      <4> QED
          BY <1>n, <4>1, <4>2
    <3> HIDE DEF d
    <3>4. ran[d] + 1 \in Nat
        BY <1>0, <3>3 DEF TasksFormed
    <3> QED
        BY <1>0, <3>2, <3>3, <3>4 DEF TasksFormed, d
  <2>5. UNCHANGED <<running, next, revoked>>
      BY <1>4 DEF TaskStarts
  <2> QED
      BY <1>0, <2>2, <2>3, <2>4, <2>5, Rigid DEF TasksFormed
<1>5. CASE TaskReturns
  <2>1. worker' \in WorkerStates
      BY <1>0, <1>5, TaskRecords DEF TasksFormed, TaskReturns, WorkerStates
  <2> QED
      BY <1>0, <1>5, <2>1, Rigid DEF TasksFormed, TaskReturns
<1>6. CASE TaskPassEnds \/ WorkerWakes
  <2>1. worker' \in WorkerStates
      BY <1>0, <1>6, TaskRecords DEF TaskPassEnds, WorkerWakes
  <2> QED
      BY <1>0, <1>6, <2>1, Rigid DEF TasksFormed, TaskPassEnds, WorkerWakes
<1> QED
    BY <1>1, <1>2, <1>3, <1>4, <1>5, <1>6 DEF TaskNext

-----------------------------------------------------------------------------
(* Phased.                                                                  *)

LEMMA PhasedInit == PluginsInit => Phased
BY PluginsAssumption DEF PluginsInit, Phased, Inside, Open, Whole, Away, Threads

\* The loader's steps keep the order of the shutdown.
LEMMA PhasedLoader == Formed /\ Phased /\ LoaderNext => Phased'
<1> SUFFICES ASSUME Formed, Phased, LoaderNext PROVE Phased'
    OBVIOUS
<1>0. loader \in LoaderStates /\ LoaderFormed /\ at \in [Threads -> ThreadStates]
    BY DEF Formed, LoaderFormed, ThreadsFormed
<1>t. /\ Threads = UserThreads \cup {"console", "main", "ticker"} /\ Threads' = Threads
      /\ "main" \notin UserThreads /\ "ticker" \notin UserThreads /\ "console" \notin UserThreads
    BY PluginsAssumption, Rigid DEF Threads
<1>w. Whole' = Whole
    BY DEF Whole
<1>1. ASSUME NEW enabled \in BOOLEAN, NEW directory \in BOOLEAN, plugin_loader_init(enabled, directory)
      PROVE  Phased'
  <2> DEFINE q == IF enabled /\ directory THEN "scan" ELSE "up"
  <2>0. q \in {"scan", "up"}
      OBVIOUS
  <2>1. loader.pc = "cold" /\ UNCHANGED <<g_plugins, at>> /\ loader' = [loader EXCEPT !.pc = q, !.enabled = enabled, !.i = 1]
      BY <1>1 DEF plugin_loader_init
  <2> HIDE DEF q
  <2>2. loader'.pc \in {"scan", "up"}
    <3>1. q \in Stages
        BY <2>0 DEF Stages
    <3>2. loader'.pc = q
        BY <1>0, <2>1, <3>1, LoaderRecords
    <3> QED
        BY <2>0, <3>2
  <2> QED
      BY <1>t, <1>w, <2>1, <2>2 DEF Phased, Inside, Open, Whole
<1>2. ASSUME NEW ok \in BOOLEAN, load_plugin(ok) PROVE Phased'
  <2> DEFINE f == Libraries[loader.i]
  <2>1. loader.pc = "scan" /\ loader'.pc = "scan" /\ UNCHANGED at
      BY <1>0, <1>2, LoaderRecords DEF load_plugin
  <2>2. \A k \in DOMAIN g_plugins' : g_plugins'[k].loaded
    <3>1. \A k \in DOMAIN g_plugins : g_plugins[k].loaded
        BY <2>1 DEF Phased, Whole
    <3>2. CASE UNCHANGED g_plugins
        BY <3>1, <3>2
    <3>3. CASE plugin_registry_find(Describe[f].id) = {} /\ g_plugins' = plugin_registry_add(f)
      <4>1. f \in Lib
          BY <1>2, Scanned DEF load_plugin
      <4> QED
          BY <3>1, <3>3, <4>1, Added
    <3> QED
        BY <1>2, <3>2, <3>3 DEF load_plugin
  <2> QED
      BY <1>t, <1>w, <2>1, <2>2 DEF Phased, Inside, Open, Whole
<1>3. ASSUME NEW ok \in BOOLEAN, StartTicker(ok) PROVE Phased'
  <2>1. loader.pc = "scan" /\ loader'.pc = "up" /\ UNCHANGED g_plugins
      BY <1>0, <1>3, LoaderRecords DEF StartTicker, Stages
  <2>2. \A t \in Threads \ {"ticker"} : at'[t] = at[t]
      BY <1>0, <1>3 DEF StartTicker
  <2>3. at'["ticker"] \in {at["ticker"], [Away EXCEPT !.pc = "sleep"]}
      BY <1>0, <1>3, <1>t DEF StartTicker
  <2>4. at'["ticker"].pc \in {"out", "sleep"}
      BY <1>t, <2>1, <2>3, ThreadRests DEF Phased
  <2> QED
      BY <1>t, <1>w, <2>1, <2>2, <2>4 DEF Phased, Inside, Open, Whole
<1>4. CASE Halt
  <2>1. loader.pc = "up" /\ loader'.pc = "stopping" /\ UNCHANGED <<g_plugins, at>>
      BY <1>0, <1>4, LoaderRecords DEF Halt, Stages
  <2> QED
      BY <1>t, <1>w, <2>1 DEF Phased, Inside, Open, Whole
<1>5. CASE ShutdownEvent
  <2>1. loader.pc = "stopping" /\ loader'.pc = "event" /\ UNCHANGED g_plugins
      BY <1>0, <1>5, LoaderRecords DEF ShutdownEvent, Stages
  <2>a. \A u \in UserThreads : at[u].pc = "out"
      BY <1>5 DEF ShutdownEvent
  <2>2. \A t \in Threads \ {"main"} : at'[t] = at[t]
      BY <1>0, <1>5 DEF ShutdownEvent
  <2>3. at'["main"] \in {Dispatching("main", "out"), [Away EXCEPT !.pc = "event"]}
      BY <1>0, <1>5, <1>t DEF ShutdownEvent
  <2>4. at'["main"].pc = "event"
    <3>1. Dispatching("main", "out").pc = "event"
        BY <1>t, ThreadRecords
    <3> QED
        BY <2>3, <3>1, ThreadRests
  <2> QED
      BY <1>t, <1>w, <2>1, <2>2, <2>4, <2>a DEF Phased, Inside, Open, Whole
<1>6. CASE StopTicker
  <2>1. loader.pc = "event" /\ loader'.pc = "join" /\ UNCHANGED g_plugins
      BY <1>0, <1>6, LoaderRecords DEF StopTicker, Stages
  <2>2. \A t \in Threads \ {"main"} : at'[t] = at[t]
      BY <1>0, <1>6 DEF StopTicker
  <2>3. at'["main"].pc = "out"
      BY <1>0, <1>6, <1>t, ThreadRests DEF StopTicker
  <2> QED
      BY <1>t, <1>w, <2>1, <2>2, <2>3 DEF Phased, Inside, Open, Whole
<1>7. CASE JoinTicker
  <2>1. loader.pc = "join" /\ UNCHANGED <<g_plugins, at>> /\ at["ticker"].pc = "out"
      BY <1>7 DEF JoinTicker
  <2>2. loader'.pc = "unload"
      BY <1>7, JoinedRecord DEF Formed
  <2> QED
      BY <1>t, <1>w, <2>1, <2>2 DEF Phased, Inside, Open, Whole
<1>8. CASE Unload
  <2>1. loader.pc = "unload" /\ loader'.pc = "unload" /\ UNCHANGED at
      BY <1>0, <1>8, LoaderRecords DEF Unload
  <2>2. /\ DOMAIN g_plugins' = DOMAIN g_plugins
        /\ \A k \in DOMAIN g_plugins : g_plugins'[k].file = g_plugins[k].file
        /\ g_plugins = << >> => g_plugins' = << >>
    <3>1. CASE UNCHANGED g_plugins
        BY <3>1
    <3>2. CASE plugin_registry_get(loader.i) # {}
      <4> DEFINE k == CHOOSE x \in plugin_registry_get(loader.i) : TRUE
      <4>1. k \in DOMAIN g_plugins
          BY <3>2 DEF plugin_registry_get, LoadedAt
      <4> HIDE DEF k
      <4>2. g_plugins' = [g_plugins EXCEPT ![k].loaded = FALSE]
          BY <1>8, <3>2 DEF Unload, k
      <4>3. g_plugins # << >>
          BY <4>1
      <4> QED
          BY <4>1, <4>2, <4>3, Dropped
    <3> QED
        BY <1>8, <3>1, <3>2 DEF Unload
  <2> QED
      BY <1>t, <1>w, <2>1, <2>2 DEF Phased, Inside, Open, Whole
<1>9. CASE Unloaded
  <2>1. loader.pc = "unload" /\ loader'.pc = "tasks" /\ UNCHANGED at /\ g_plugins' = << >>
      BY <1>0, <1>9, LoaderRecords DEF Unloaded, Stages
  <2> QED
      BY <1>t, <1>w, <2>1 DEF Phased, Inside, Open, Whole
<1>a. CASE plugin_sched_shutdown
  <2>1. loader.pc = "tasks" /\ loader'.pc = "gone" /\ UNCHANGED <<at, g_plugins>>
      BY <1>0, <1>a, LoaderRecords DEF plugin_sched_shutdown, Stages
  <2> QED
      BY <1>t, <1>w, <2>1 DEF Phased, Inside, Open, Whole
<1>b. CASE MainReturns
  <2>1. PluginsInit'
      BY <1>b, Rigid DEF MainReturns, PluginsInit, Away, NoTask, NoWorker, NoFile
  <2>2. PluginsInit' => Phased'
      BY PhasedInit, PTL
  <2> QED
      BY <2>1, <2>2
<1> QED
    BY <1>1, <1>2, <1>3, <1>4, <1>5, <1>6, <1>7, <1>8, <1>9, <1>a, <1>b DEF LoaderNext

\* A thread's move keeps it: who enters a plugin found it in the registry, and
\* who starts late is marked as late.
LEMMA PhasedCallback == Formed /\ Phased /\ CallbackNext => Phased'
<1> SUFFICES ASSUME Formed, Phased, CallbackNext PROVE Phased'
    OBVIOUS
<1>1. PICK t \in Threads, s \in ThreadStates : Moves(t, s)
    BY CallbackMoves
<1>2. UNCHANGED loader
    BY CallbackMoves
<1>3. at'[t] = s /\ \A x \in Threads \ {t} : at'[x] = at[x]
    BY <1>1 DEF Moves, Formed, ThreadsFormed
<1>4. /\ DOMAIN g_plugins' = DOMAIN g_plugins
      /\ \A k \in DOMAIN g_plugins : /\ g_plugins'[k].file = g_plugins[k].file
                                     /\ g_plugins'[k].loaded = g_plugins[k].loaded
    BY <1>1, SamePlugins
<1>5. g_plugins = << >> <=> g_plugins' = << >>
  <2>1. g_plugins \in Seq(Entries) /\ g_plugins' \in Seq(Entries)
      BY <1>1, SamePlugins, Rigid DEF Formed, RegistryFormed
  <2>2. g_plugins = << >> <=> DOMAIN g_plugins = {}
      BY <2>1
  <2>3. g_plugins' = << >> <=> DOMAIN g_plugins' = {}
      BY <2>1
  <2> QED
      BY <1>4, <2>2, <2>3
<1>t. /\ Threads = UserThreads \cup {"console", "main", "ticker"} /\ Threads' = Threads
      /\ "main" \notin UserThreads /\ "ticker" \notin UserThreads /\ "console" \notin UserThreads
    BY PluginsAssumption, Rigid DEF Threads
<1>o. \A f : Open(f) <=> Open(f)'
    BY <1>4 DEF Open
<1>m. s.pc = "out" \/ Starts(t, s) \/ Goes(t, s)
    BY <1>1 DEF Moves
<1>i. s.pc \in {"callback", "create", "inside"} =>
         /\ Open(s.file) \/ g_plugins = << >>
         /\ loader.pc \in Whole => Open(s.file)
         /\ s.pc # "callback" => t \in UserThreads
  <2>1. CASE Enters(t, s)
      BY <2>1 DEF Enters, LoadedAt, Open
  <2>2. CASE Counts(t, s)
      BY <2>2 DEF Counts, Phased, Inside
  <2> QED
      BY <1>1, <2>1, <2>2 DEF Moves, Idles, Leaves
<1>6. (loader.pc \in {"cold", "scan"} => \A x \in Threads : at[x].pc = "out")'
    BY <1>2, <1>3, <1>m, <1>t DEF Phased, Starts, Goes
<1>7. (loader.pc \in Whole => \A k \in DOMAIN g_plugins : g_plugins[k].loaded)'
    BY <1>2, <1>4 DEF Phased, Whole
<1>8. (\A u \in UserThreads : (at[u].pc # "out" /\ ~at[u].late) => loader.pc \in {"up", "stopping"})'
    BY <1>2, <1>3, <1>m, <1>t DEF Phased, Starts, Goes
<1>9. (at["console"].pc # "out" => at["console"].late)'
    BY <1>2, <1>3, <1>m, <1>t DEF Phased, Starts, Goes
<1>a. (at["ticker"].pc # "out" => loader.pc \in {"up", "stopping", "event", "join"})'
    BY <1>2, <1>3, <1>m, <1>t DEF Phased, Starts, Goes
<1>b. (at["main"].pc # "out" => loader.pc = "event")'
    BY <1>2, <1>3, <1>m, <1>t DEF Phased, Starts, Goes
<1>c. (\A x \in Threads \ UserThreads : at[x].pc \notin {"create", "inside"})'
    BY <1>3, <1>i, <1>t DEF Phased
<1>d. (\A x \in Threads : Inside(x) => (Open(at[x].file) \/ g_plugins = << >>))'
    BY <1>3, <1>i, <1>o, <1>t, <1>5 DEF Phased, Inside
<1>e. (loader.pc \in {"cold", "tasks", "gone"} => g_plugins = << >>)'
    BY <1>2, <1>5 DEF Phased
<1>f. (loader.pc \in Whole => \A x \in Threads : Inside(x) => Open(at[x].file))'
    BY <1>2, <1>3, <1>i, <1>o, <1>t DEF Phased, Inside, Whole
<1> QED
    BY <1>6, <1>7, <1>8, <1>9, <1>a, <1>b, <1>c, <1>d, <1>e, <1>f DEF Phased

LEMMA PhasedTasks == Phased /\ UNCHANGED <<loader, g_plugins, at>> => Phased'
BY Rigid DEF Phased, Inside, Open, Whole

-----------------------------------------------------------------------------
(* Mapped.                                                                  *)

LEMMA MappedInit == PluginsInit => Mapped
BY DEF PluginsInit, Mapped, Open

LEMMA MappedKept ==
    ASSUME Mapped, loader'.pc \in Whole => loader.pc \in Whole,
           \A f : Open(f)' <=> Open(f), UNCHANGED <<mapped, ready>>
    PROVE  Mapped'
BY Rigid DEF Mapped, Whole

\* What a step of the loader does to the stage and the registry.
LEMMA Staged ==
    ASSUME Formed, Phased, LoaderNext
    PROVE  \/ /\ \E f \in Lib : /\ plugin_registry_find(Describe[f].id) = {}
                                /\ g_plugins' = plugin_registry_add(f)
                                /\ mapped' = [mapped EXCEPT ![f] = @ + 1]
                                /\ ready' = [ready EXCEPT ![f] = @ + 1]
              /\ loader.pc = "scan" /\ loader'.pc = "scan" /\ UNCHANGED <<at, TaskVars>>
           \/ /\ UNCHANGED <<g_plugins, mapped, ready, TaskVars>> /\ (loader'.pc \in Whole => loader.pc \in Whole)
              /\ \A u \in UserThreads : at'[u] = at[u]
           \/ /\ loader'.pc = "unload" /\ UNCHANGED <<at, TaskVars>>
              /\ \E k \in DOMAIN g_plugins : g_plugins' = [g_plugins EXCEPT ![k].loaded = FALSE]
           \/ /\ loader'.pc = "tasks" /\ g_plugins' = << >> /\ UNCHANGED <<g_tasks, worker, next, ran, revoked>>
           \/ MainReturns
<1>0. loader \in LoaderStates /\ LoaderFormed /\ at \in [Threads -> ThreadStates]
    BY DEF Formed, LoaderFormed, ThreadsFormed
<1>t. "main" \notin UserThreads /\ "ticker" \notin UserThreads /\ \A u \in UserThreads : u \in Threads
    BY PluginsAssumption DEF Threads
<1>1. ASSUME NEW enabled \in BOOLEAN, NEW directory \in BOOLEAN, plugin_loader_init(enabled, directory)
      PROVE  /\ UNCHANGED <<g_plugins, mapped, ready, TaskVars>> /\ (loader'.pc \in Whole => loader.pc \in Whole)
             /\ \A u \in UserThreads : at'[u] = at[u]
    BY <1>1 DEF plugin_loader_init, Whole
<1>2. ASSUME NEW ok \in BOOLEAN, load_plugin(ok)
      PROVE  \/ /\ \E f \in Lib : /\ plugin_registry_find(Describe[f].id) = {}
                                  /\ g_plugins' = plugin_registry_add(f)
                                  /\ mapped' = [mapped EXCEPT ![f] = @ + 1]
                                  /\ ready' = [ready EXCEPT ![f] = @ + 1]
                /\ loader.pc = "scan" /\ loader'.pc = "scan" /\ UNCHANGED <<at, TaskVars>>
             \/ /\ UNCHANGED <<g_plugins, mapped, ready, TaskVars>> /\ (loader'.pc \in Whole => loader.pc \in Whole)
                /\ \A u \in UserThreads : at'[u] = at[u]
  <2>1. loader.pc = "scan" /\ loader'.pc = "scan" /\ UNCHANGED <<at, TaskVars>>
      BY <1>0, <1>2, LoaderRecords DEF load_plugin
  <2> DEFINE f == Libraries[loader.i]
  <2>2. f \in Lib
      BY <1>2, Scanned DEF load_plugin
  <2>3. \/ UNCHANGED <<g_plugins, mapped, ready>>
        \/ /\ plugin_registry_find(Describe[f].id) = {}
           /\ g_plugins' = plugin_registry_add(f)
           /\ mapped' = [mapped EXCEPT ![f] = @ + 1]
           /\ ready' = [ready EXCEPT ![f] = @ + 1]
      BY <1>2 DEF load_plugin
  <2> HIDE DEF f
  <2> QED
      BY <2>1, <2>2, <2>3 DEF Whole
<1>3. ASSUME NEW ok \in BOOLEAN, StartTicker(ok) \/ Halt \/ ShutdownEvent \/ StopTicker
      PROVE  /\ UNCHANGED <<g_plugins, mapped, ready, TaskVars>> /\ (loader'.pc \in Whole => loader.pc \in Whole)
             /\ \A u \in UserThreads : at'[u] = at[u]
    BY <1>0, <1>3, <1>t DEF StartTicker, Halt, ShutdownEvent, StopTicker, Whole
<1>4. CASE JoinTicker
  <2>2. UNCHANGED <<g_plugins, mapped, ready, at, TaskVars>>
      BY <1>4 DEF JoinTicker
  <2>3. loader'.pc = "unload"
      BY <1>4, JoinedRecord DEF Formed
  <2> QED
      BY <2>2, <2>3 DEF Whole
<1>5. CASE plugin_sched_shutdown
  <2>1. loader'.pc = "gone" /\ UNCHANGED <<g_plugins, mapped, ready, at, TaskVars>>
      BY <1>0, <1>5, LoaderRecords DEF plugin_sched_shutdown, Stages
  <2> QED
      BY <2>1 DEF Whole
<1>6. CASE Unload
  <2>1. loader'.pc = "unload" /\ UNCHANGED <<at, TaskVars>>
      BY <1>0, <1>6, LoaderRecords DEF Unload
  <2>2. CASE UNCHANGED <<g_plugins, mapped, ready>>
      BY <2>1, <2>2 DEF Whole
  <2>3. CASE plugin_registry_get(loader.i) # {}
    <3> DEFINE k == CHOOSE x \in plugin_registry_get(loader.i) : TRUE
    <3>1. k \in DOMAIN g_plugins
        BY <2>3 DEF plugin_registry_get, LoadedAt
    <3> HIDE DEF k
    <3>2. g_plugins' = [g_plugins EXCEPT ![k].loaded = FALSE]
        BY <1>6, <2>3 DEF Unload, k
    <3> QED
        BY <2>1, <3>1, <3>2
  <2> QED
      BY <1>6, <2>2, <2>3 DEF Unload
<1>7. CASE Unloaded
  <2>1. loader'.pc = "tasks" /\ g_plugins' = << >> /\ UNCHANGED <<g_tasks, worker, next, ran, revoked>>
      BY <1>0, <1>7, LoaderRecords DEF Unloaded, Stages
  <2> QED
      BY <2>1
<1> QED
    BY <1>1, <1>2, <1>3, <1>4, <1>5, <1>6, <1>7 DEF LoaderNext

\* Init again.
LEMMA Again == MainReturns => PluginsInit'
BY Rigid DEF MainReturns, PluginsInit, Away, NoTask, NoWorker, NoFile

\* After a step of the loader.
LEMMA MappedLoader == Formed /\ Phased /\ Mapped /\ LoaderNext => Mapped'
<1> SUFFICES ASSUME Formed, Phased, Mapped, LoaderNext PROVE Mapped'
    OBVIOUS
<1>1. ASSUME NEW f \in Lib, plugin_registry_find(Describe[f].id) = {},
             g_plugins' = plugin_registry_add(f),
             mapped' = [mapped EXCEPT ![f] = @ + 1], ready' = [ready EXCEPT ![f] = @ + 1],
             loader.pc = "scan"
      PROVE  Mapped'
  <2>1. \A k \in DOMAIN g_plugins : g_plugins[k].loaded
      BY <1>1 DEF Phased, Whole
  <2>2. /\ DOMAIN g_plugins' = DOMAIN g_plugins \cup {Len(g_plugins) + 1}
        /\ Len(g_plugins) + 1 \notin DOMAIN g_plugins
        /\ g_plugins'[Len(g_plugins) + 1].file = f
        /\ \A k \in DOMAIN g_plugins : g_plugins'[k] = g_plugins[k] /\ g_plugins[k].file # f
      BY <1>1, <2>1, Added
  <2>3. ~Open(f) /\ Open(f)'
      BY <2>2 DEF Open
  <2>4. \A g \in Lib \ {f} : Open(g)' <=> Open(g)
      BY <2>2 DEF Open
  <2>5. \A g \in Lib : /\ Open(g) => mapped[g] = 1 /\ ready[g] = 1
                       /\ ~Open(g) => mapped[g] = 0 /\ ready[g] = 0
      BY <1>1 DEF Mapped, Whole
  <2>6. mapped \in [Lib -> Int] /\ ready \in [Lib -> Int]
      BY DEF Formed, MapsFormed
  <2>7. mapped'[f] = 1 /\ ready'[f] = 1
      BY <1>1, <2>3, <2>5, <2>6
  <2>8. \A g \in Lib \ {f} : mapped'[g] = mapped[g] /\ ready'[g] = ready[g]
      BY <1>1, <2>6
  <2>9. \A g \in Lib : /\ Open(g)' => mapped'[g] = 1 /\ ready'[g] = 1
                       /\ ~Open(g)' => mapped'[g] = 0 /\ ready'[g] = 0
      BY <2>3, <2>4, <2>5, <2>7, <2>8
  <2> QED
      BY <2>9, Rigid DEF Mapped
<1>2. CASE UNCHANGED <<g_plugins, mapped, ready>> /\ (loader'.pc \in Whole => loader.pc \in Whole)
  <2>1. \A f : Open(f)' <=> Open(f)
      BY <1>2 DEF Open
  <2> QED
      BY <1>2, <2>1, MappedKept
<1>3. CASE loader'.pc \in {"unload", "tasks"}
    BY <1>3 DEF Mapped, Whole
<1>4. CASE MainReturns
  <2>1. PluginsInit' => Mapped'
      BY MappedInit, PTL
  <2> QED
      BY <1>4, <2>1, Again
<1> QED
    BY <1>1, <1>2, <1>3, <1>4, Staged

\* A move of a thread opens and closes nothing.
LEMMA SameOpen ==
    ASSUME Formed, CallbackNext PROVE \A f : Open(f)' <=> Open(f)
<1>1. PICK t \in Threads, s \in ThreadStates : Moves(t, s)
    BY CallbackMoves
<1>2. /\ DOMAIN g_plugins' = DOMAIN g_plugins
      /\ \A k \in DOMAIN g_plugins : g_plugins'[k].file = g_plugins[k].file
    BY <1>1, SamePlugins
<1> QED
    BY <1>2 DEF Open

LEMMA MappedCallback == Formed /\ Mapped /\ CallbackNext => Mapped'
BY SameOpen, CallbackMoves, MappedKept

LEMMA MappedTasks == Mapped /\ UNCHANGED <<loader, g_plugins, mapped, ready>> => Mapped'
<1> SUFFICES ASSUME Mapped, UNCHANGED <<loader, g_plugins, mapped, ready>> PROVE Mapped'
    OBVIOUS
<1>1. \A f : Open(f)' <=> Open(f)
    BY DEF Open
<1> QED
    BY <1>1, MappedKept

-----------------------------------------------------------------------------
(* Counted.                                                                 *)

LEMMA CountedInit == PluginsInit => Counted
BY DEF PluginsInit, Counted, LoadedAt

\* Who is inside which plugin.
LEMMA InstancesKept ==
    ASSUME \A u \in UserThreads : /\ at'[u].pc = "inside" <=> at[u].pc = "inside"
                                  /\ at[u].pc = "inside" => at'[u].file = at[u].file
    PROVE  \A f : Instances(f)' = Instances(f)
<1> TAKE f
<1>1. \A u \in UserThreads : (at'[u].pc = "inside" /\ at'[u].file = f) <=> (at[u].pc = "inside" /\ at[u].file = f)
    OBVIOUS
<1> QED
    BY <1>1 DEF Instances

LEMMA InstancesFinite == \A f : IsFiniteSet(Instances(f))
<1> SUFFICES ASSUME NEW f PROVE IsFiniteSet(Instances(f))
    OBVIOUS
<1>1. Instances(f) \in SUBSET UserThreads
    BY DEF Instances
<1> QED
    BY <1>1, PluginsAssumption, FS_Subset

\* The loader: a plugin that is added has no instances yet, and one that is
\* unloaded is not counted any more.
LEMMA CountedLoader == Formed /\ Phased /\ Counted /\ LoaderNext => Counted'
<1> SUFFICES ASSUME Formed, Phased, Counted, LoaderNext PROVE Counted'
    OBVIOUS
<1>1. ASSUME NEW f \in Lib, plugin_registry_find(Describe[f].id) = {},
             g_plugins' = plugin_registry_add(f), UNCHANGED at, loader.pc = "scan"
      PROVE  Counted'
  <2>1. \A k \in DOMAIN g_plugins : g_plugins[k].loaded
      BY <1>1 DEF Phased, Whole
  <2> DEFINE m == Len(g_plugins) + 1
  <2>2. /\ DOMAIN g_plugins' = DOMAIN g_plugins \cup {m}
        /\ g_plugins'[m].file = f /\ g_plugins'[m].count = 0
        /\ \A k \in DOMAIN g_plugins : g_plugins'[k] = g_plugins[k]
      BY <1>1, <2>1, Added
  <2> HIDE DEF m
  <2>3. \A g : Instances(g)' = Instances(g)
      BY <1>1, InstancesKept
  <2>4. Instances(f) = {}
      BY <1>1 DEF Instances, Phased, Threads
  <2>5. Cardinality(Instances(f)') = 0
      BY <2>3, <2>4, FS_EmptySet
  <2>6. ASSUME NEW k \in LoadedAt' PROVE (g_plugins[k].count = Cardinality(Instances(g_plugins[k].file)))'
    <3>1. CASE k = m
        BY <2>2, <2>5, <3>1
    <3>2. CASE k \in DOMAIN g_plugins
      <4>1. k \in LoadedAt /\ g_plugins'[k] = g_plugins[k]
          BY <2>1, <2>2, <3>2 DEF LoadedAt
      <4> QED
          BY <4>1, <2>3 DEF Counted
    <3> QED
        BY <2>2, <3>1, <3>2 DEF LoadedAt
  <2> QED
      BY <2>6 DEF Counted
<1>2. CASE UNCHANGED g_plugins /\ \A u \in UserThreads : at'[u] = at[u]
  <2>1. \A g : Instances(g)' = Instances(g)
      BY <1>2, InstancesKept
  <2>2. LoadedAt' = LoadedAt
      BY <1>2 DEF LoadedAt
  <2> QED
      BY <1>2, <2>1, <2>2 DEF Counted
<1>3. ASSUME NEW k \in DOMAIN g_plugins, g_plugins' = [g_plugins EXCEPT ![k].loaded = FALSE], UNCHANGED at
      PROVE  Counted'
  <2>1. /\ DOMAIN g_plugins' = DOMAIN g_plugins /\ ~g_plugins'[k].loaded
        /\ \A j \in DOMAIN g_plugins : j # k => g_plugins'[j] = g_plugins[j]
      BY <1>3, Dropped
  <2>2. \A g : Instances(g)' = Instances(g)
      BY <1>3, InstancesKept
  <2>3. \A j \in LoadedAt' : j \in LoadedAt /\ g_plugins'[j] = g_plugins[j]
      BY <2>1 DEF LoadedAt
  <2> QED
      BY <2>2, <2>3 DEF Counted
<1>4. CASE g_plugins' = << >>
  <2>1. LoadedAt' = {}
      BY <1>4 DEF LoadedAt
  <2> QED
      BY <2>1 DEF Counted
<1>5. CASE MainReturns
    BY <1>4, <1>5 DEF MainReturns
<1> QED
    BY <1>1, <1>2, <1>3, <1>4, <1>5, Staged

\* An entry belongs to a file exactly when it has the file's id.
LEMMA IdOfFile ==
    ASSUME Formed, NEW f, Open(f) \/ g_plugins = << >>, NEW k \in DOMAIN g_plugins
    PROVE  g_plugins[k].id = Describe[f].id <=> g_plugins[k].file = f
<1>1. PICK j \in DOMAIN g_plugins : g_plugins[j].file = f
    BY DEF Open
<1>2. g_plugins[j].id = Describe[f].id
    BY <1>1 DEF Formed, RegistryFormed
<1>3. g_plugins[k].id = Describe[f].id => j = k
    BY <1>2 DEF Formed, RegistryFormed
<1>4. g_plugins[k].file = f => g_plugins[k].id = Describe[f].id
    BY DEF Formed, RegistryFormed
<1> QED
    BY <1>1, <1>3, <1>4

\* The count moves with the instance.
LEMMA CountedCallback == Formed /\ Phased /\ Counted /\ CallbackNext => Counted'
<1> SUFFICES ASSUME Formed, Phased, Counted, CallbackNext PROVE Counted'
    OBVIOUS
<1>1. PICK t \in Threads, s \in ThreadStates : Moves(t, s)
    BY CallbackMoves
<1>2. at'[t] = s /\ \A x \in Threads \ {t} : at'[x] = at[x]
    BY <1>1 DEF Moves, Formed, ThreadsFormed
<1>u. \A u \in UserThreads : u \in Threads
    BY DEF Threads
<1>3. /\ DOMAIN g_plugins' = DOMAIN g_plugins
      /\ \A k \in DOMAIN g_plugins : /\ g_plugins'[k].file = g_plugins[k].file
                                     /\ g_plugins'[k].id = g_plugins[k].id
                                     /\ g_plugins'[k].loaded = g_plugins[k].loaded
    BY <1>1, SamePlugins
<1>4. LoadedAt' = LoadedAt /\ \A k \in LoadedAt : k \in DOMAIN g_plugins
    BY <1>3 DEF LoadedAt
<1>f. PICK f : f = at[t].file
    OBVIOUS
<1> DEFINE id == Describe[f].id
<1>5. CASE Idles(t, s) \/ Enters(t, s)
  <2>1. \A g : Instances(g)' = Instances(g)
    <3>1. \A u \in UserThreads : /\ at'[u].pc = "inside" <=> at[u].pc = "inside"
                                 /\ at[u].pc = "inside" => at'[u].file = at[u].file
        BY <1>2, <1>5, <1>u DEF Idles, Enters
    <3> QED
        BY <3>1, InstancesKept
  <2>2. UNCHANGED g_plugins
      BY <1>5 DEF Idles, Enters
  <2> QED
      BY <1>4, <2>1, <2>2 DEF Counted
<1>6. CASE Counts(t, s)
  <2>1. t \in UserThreads /\ at[t].pc = "create" /\ s.pc = "inside" /\ s.file = f
        /\ g_plugins' = plugin_registry_instance_inc(id)
      BY <1>6, <1>f DEF Counts
  <2>2. Open(f) \/ g_plugins = << >>
      BY <1>f, <2>1 DEF Phased, Inside
  <2>3. Instances(f)' = Instances(f) \cup {t} /\ t \notin Instances(f)
      BY <1>2, <1>f, <1>u, <2>1 DEF Instances
  <2>4. \A g : g # f => Instances(g)' = Instances(g)
      BY <1>2, <1>f, <1>u, <2>1 DEF Instances
  <2>5. Cardinality(Instances(f)') = Cardinality(Instances(f)) + 1
      BY <2>3, InstancesFinite, FS_AddElement
  <2>6. ASSUME NEW k \in LoadedAt PROVE (g_plugins[k].count = Cardinality(Instances(g_plugins[k].file)))'
    <3>1. k \in DOMAIN g_plugins /\ g_plugins[k].count = Cardinality(Instances(g_plugins[k].file))
        BY <1>4 DEF Counted
    <3>2. g_plugins[k].id = id <=> g_plugins[k].file = f
        BY <2>2, <3>1, IdOfFile
    <3>3. g_plugins[k] \in Entries
        BY <3>1, EntryAt
    <3>4. CASE g_plugins[k].file = f
      <4>1. g_plugins'[k] = [g_plugins[k] EXCEPT !.count = @ + 1]
          BY <2>1, <3>1, <3>2, <3>4 DEF plugin_registry_instance_inc, plugin_registry_find
      <4>2. g_plugins'[k].count = g_plugins[k].count + 1
          BY <3>3, <4>1 DEF Entries
      <4>3. g_plugins'[k].file = f
          BY <1>3, <3>1, <3>4
      <4> QED
          BY <2>5, <3>1, <3>4, <4>2, <4>3
    <3>5. CASE g_plugins[k].file # f
      <4>1. g_plugins'[k] = g_plugins[k]
          BY <2>1, <3>1, <3>2, <3>5 DEF plugin_registry_instance_inc, plugin_registry_find
      <4> QED
          BY <2>4, <3>1, <3>5, <4>1
    <3> QED
        BY <3>4, <3>5
  <2> QED
      BY <1>4, <2>6 DEF Counted
<1>7. CASE Leaves(t, s)
  <2>1. t \in UserThreads /\ at[t].pc = "inside" /\ s.pc = "menu"
        /\ g_plugins' = plugin_registry_instance_dec(id)
      BY <1>7, <1>f DEF Leaves
  <2>2. Open(f) \/ g_plugins = << >>
      BY <1>f, <2>1 DEF Phased, Inside
  <2>3. Instances(f)' = Instances(f) \ {t} /\ t \in Instances(f)
      BY <1>2, <1>f, <1>u, <2>1 DEF Instances
  <2>4. \A g : g # f => Instances(g)' = Instances(g)
      BY <1>2, <1>f, <1>u, <2>1 DEF Instances
  <2>5. Cardinality(Instances(f)') = Cardinality(Instances(f)) - 1
      BY <2>3, InstancesFinite, FS_RemoveElement
  <2>a. Cardinality(Instances(f)) \in Nat /\ Cardinality(Instances(f)') \in Nat
    <3>1. Instances(f)' \in SUBSET Instances(f)
        BY <2>3
    <3>2. IsFiniteSet(Instances(f)) /\ IsFiniteSet(Instances(f)')
        BY <3>1, InstancesFinite, FS_Subset
    <3> QED
        BY <3>2, FS_CardinalityType
  <2>b. Cardinality(Instances(f)) > 0
      BY <2>5, <2>a
  <2>6. ASSUME NEW k \in LoadedAt PROVE (g_plugins[k].count = Cardinality(Instances(g_plugins[k].file)))'
    <3>1. k \in DOMAIN g_plugins /\ g_plugins[k].count = Cardinality(Instances(g_plugins[k].file))
        BY <1>4 DEF Counted
    <3>2. g_plugins[k].id = id <=> g_plugins[k].file = f
        BY <2>2, <3>1, IdOfFile
    <3>3. g_plugins[k] \in Entries
        BY <3>1, EntryAt
    <3>4. CASE g_plugins[k].file = f
      <4>0. g_plugins[k].count > 0
          BY <2>b, <3>1, <3>4
      <4>1. g_plugins'[k] = [g_plugins[k] EXCEPT !.count = @ - 1]
          BY <2>1, <3>1, <3>2, <3>4, <4>0 DEF plugin_registry_instance_dec, plugin_registry_find
      <4>2. g_plugins'[k].count = g_plugins[k].count - 1
          BY <3>3, <4>1 DEF Entries
      <4>3. g_plugins'[k].file = f
          BY <1>3, <3>1, <3>4
      <4> QED
          BY <2>5, <3>1, <3>4, <4>2, <4>3
    <3>5. CASE g_plugins[k].file # f
      <4>1. g_plugins'[k] = g_plugins[k]
          BY <2>1, <3>1, <3>2, <3>5 DEF plugin_registry_instance_dec, plugin_registry_find
      <4> QED
          BY <2>4, <3>1, <3>5, <4>1
    <3> QED
        BY <3>4, <3>5
  <2> QED
      BY <1>4, <2>6 DEF Counted
<1> QED
    BY <1>1, <1>5, <1>6, <1>7 DEF Moves

LEMMA CountedTasks == Counted /\ UNCHANGED <<g_plugins, at>> => Counted'
BY DEF Counted, LoadedAt, Instances

-----------------------------------------------------------------------------
(* Tasked.                                                                  *)

LEMMA TaskedInit == PluginsInit => Tasked
<1> SUFFICES ASSUME PluginsInit PROVE Tasked
    OBVIOUS
<1>1. \A k \in 1 .. TaskMax : g_tasks[k] = NoTask
    BY DEF PluginsInit
<1>2. ~NoTask.active /\ worker.pc = "none"
    BY DEF NoTask, NoWorker, PluginsInit
<1>3. \A id \in 1 .. MaxTasks : ran[id] = 0
    BY DEF PluginsInit
<1>4. revoked = {}
    BY DEF PluginsInit
<1> QED
    BY <1>1, <1>2, <1>3, <1>4 DEF Tasked, TasksOnce

\* Steps that leave the tasks alone, while nothing is closed.
LEMMA TaskedKept ==
    ASSUME Tasked, UNCHANGED <<g_tasks, worker, next, ran, revoked>>,
           loader'.pc \in Whole => (loader.pc \in Whole /\ \A f : Open(f) => Open(f)')
    PROVE  Tasked'
<1>w. Whole' = Whole
    BY DEF Whole
<1>1. TasksOnce'
    BY DEF Tasked, TasksOnce
<1>2. (\A k \in 1 .. TaskMax : g_tasks[k].active =>
         /\ g_tasks[k].id \in 1 .. next - 1 /\ ran[g_tasks[k].id] = 0 /\ g_tasks[k].id \notin revoked
         /\ loader.pc \in Whole => Open(g_tasks[k].file))'
    BY <1>w DEF Tasked
<1>3. (worker.pc = "call" /\ loader.pc \in Whole => Open(worker.task.file))'
    BY <1>w DEF Tasked
<1>4. (\A id \in 1 .. MaxTasks : ran[id] <= 1 /\ (ran[id] > 0 => id < next))' /\ (\A id \in revoked : id < next)'
    BY DEF Tasked
<1> QED
    BY <1>1, <1>2, <1>3, <1>4 DEF Tasked

LEMMA TaskedLoader == Formed /\ Phased /\ Tasked /\ LoaderNext => Tasked'
<1> SUFFICES ASSUME Formed, Phased, Tasked, LoaderNext PROVE Tasked'
    OBVIOUS
<1>1. ASSUME NEW f \in Lib, plugin_registry_find(Describe[f].id) = {},
             g_plugins' = plugin_registry_add(f), UNCHANGED TaskVars, loader.pc = "scan"
      PROVE  Tasked'
  <2>1. \A k \in DOMAIN g_plugins : g_plugins[k].loaded
      BY <1>1 DEF Phased, Whole
  <2>2. /\ DOMAIN g_plugins' = DOMAIN g_plugins \cup {Len(g_plugins) + 1}
        /\ \A k \in DOMAIN g_plugins : g_plugins'[k] = g_plugins[k]
      BY <1>1, <2>1, Added
  <2>3. \A g : Open(g) => Open(g)'
      BY <2>2 DEF Open
  <2>4. loader.pc \in Whole
      BY <1>1 DEF Whole
  <2> QED
      BY <1>1, <2>3, <2>4, TaskedKept DEF TaskVars
<1>2. CASE UNCHANGED <<g_plugins, TaskVars>> /\ (loader'.pc \in Whole => loader.pc \in Whole)
  <2>1. \A g : Open(g) => Open(g)'
      BY <1>2 DEF Open
  <2> QED
      BY <1>2, <2>1, TaskedKept DEF TaskVars
<1>3. CASE loader'.pc \in {"unload", "tasks"} /\ UNCHANGED <<g_tasks, worker, next, ran, revoked>>
    BY <1>3, TaskedKept DEF Whole
<1>4. CASE MainReturns
  <2>1. PluginsInit' => Tasked'
      BY TaskedInit, PTL
  <2> QED
      BY <1>4, <2>1, Again
<1> QED
    BY <1>1, <1>2, <1>3, <1>4, Staged DEF TaskVars

LEMMA TaskedCallback == Formed /\ Tasked /\ CallbackNext => Tasked'
BY SameOpen, CallbackMoves, TaskedKept DEF TaskVars

\* There is a first free slot.
LEMMA FirstSlot ==
    ASSUME NEW S \in SUBSET Nat, S # {}
    PROVE  LET k == CHOOSE x \in S : \A j \in S : x <= j IN k \in S
<1>1. PICK k \in S : \A j \in S : ~(<<j, k>> \in OpToRel(<, Nat))
    BY NatLessThanWellFounded, WFMin
<1>2. \A j \in S : ~(<<j, k>> \in {ss \in Nat \X Nat : ss[1] < ss[2]})
    BY <1>1 DEF OpToRel
<1>3. ASSUME NEW j \in S PROVE k <= j
  <2>1. j \in Nat /\ k \in Nat
      OBVIOUS
  <2>2. <<j, k>> \in Nat \X Nat /\ <<j, k>>[1] = j /\ <<j, k>>[2] = k
      BY <2>1
  <2>3. ~(j < k)
      BY <1>2, <2>2
  <2> QED
      BY <2>1, <2>3
<1> QED
    BY <1>3

\* The tasks' own steps: a number is given once, and a slot that is taken again
\* is not the one that was cancelled or run.
LEMMA TaskedTasks == Formed /\ Phased /\ Tasked /\ TaskNext => Tasked'
<1> SUFFICES ASSUME Formed, Phased, Tasked, TaskNext PROVE Tasked'
    OBVIOUS
<1>0. /\ g_tasks \in [1 .. TaskMax -> TaskStates] /\ ran \in [1 .. MaxTasks -> Nat]
      /\ revoked \subseteq 1 .. MaxTasks /\ worker \in WorkerStates
      /\ next \in 1 .. MaxTasks + 1 /\ MaxTasks \in Nat /\ next \in Nat
    BY PluginsAssumption DEF Formed, TasksFormed
<1>k. \A k \in 1 .. TaskMax : g_tasks[k] \in TaskStates
    BY <1>0
<1>u. UNCHANGED <<loader, g_plugins, at>>
    BY DEF TaskNext, host_sched, Cancel, Elapse, TaskStarts, TaskReturns, TaskPassEnds, WorkerWakes
<1>w. Whole' = Whole /\ \A f : Open(f)' <=> Open(f)
    BY <1>u DEF Whole, Open
<1>t. /\ \A k \in 1 .. TaskMax : g_tasks[k].active =>
           /\ g_tasks[k].id \in 1 .. next - 1 /\ ran[g_tasks[k].id] = 0 /\ g_tasks[k].id \notin revoked
           /\ loader.pc \in Whole => Open(g_tasks[k].file)
      /\ worker.pc = "call" /\ loader.pc \in Whole => Open(worker.task.file)
      /\ \A id \in 1 .. MaxTasks : ran[id] <= 1 /\ (ran[id] > 0 => id < next)
      /\ \A id \in revoked : id < next /\ ran[id] = 0
      /\ \A j, k \in 1 .. TaskMax :
           g_tasks[j].active /\ g_tasks[k].active /\ g_tasks[j].id = g_tasks[k].id => j = k
    BY DEF Tasked, TasksOnce
<1>n. ASSUME NEW k \in 1 .. TaskMax, g_tasks[k].active
      PROVE  g_tasks[k].id \in 1 .. MaxTasks /\ g_tasks[k].id < next
  <2>1. g_tasks[k].id \in 1 .. next - 1
      BY <1>n, <1>t
  <2> QED
      BY <1>0, <2>1
<1>s. ASSUME /\ \A k \in 1 .. TaskMax : g_tasks'[k].active =>
                  /\ g_tasks'[k].id \in 1 .. next' - 1 /\ ran'[g_tasks'[k].id] = 0
                  /\ g_tasks'[k].id \notin revoked'
                  /\ loader.pc \in Whole => Open(g_tasks'[k].file)
             /\ worker'.pc = "call" /\ loader.pc \in Whole => Open(worker'.task.file)
             /\ \A id \in 1 .. MaxTasks : ran'[id] <= 1 /\ (ran'[id] > 0 => id < next')
             /\ \A id \in revoked' : id < next' /\ ran'[id] = 0
             /\ \A j, k \in 1 .. TaskMax :
                  g_tasks'[j].active /\ g_tasks'[k].active /\ g_tasks'[j].id = g_tasks'[k].id => j = k
      PROVE  Tasked'
  <2>1. TasksOnce'
      BY <1>s DEF TasksOnce
  <2>2. (\A k \in 1 .. TaskMax : g_tasks[k].active =>
           /\ g_tasks[k].id \in 1 .. next - 1 /\ ran[g_tasks[k].id] = 0 /\ g_tasks[k].id \notin revoked
           /\ loader.pc \in Whole => Open(g_tasks[k].file))'
      BY <1>s, <1>u, <1>w
  <2>3. (worker.pc = "call" /\ loader.pc \in Whole => Open(worker.task.file))'
      BY <1>s, <1>u, <1>w
  <2> QED
      BY <1>s, <2>1, <2>2, <2>3 DEF Tasked
<1>1. ASSUME NEW u \in UserThreads, NEW due \in BOOLEAN, host_sched(u, due) PROVE Tasked'
  <2> DEFINE free == {k \in 1..TaskMax : ~g_tasks[k].active}
             slot == CHOOSE k \in free : \A j \in free : k <= j
             new == [id |-> next, file |-> at[u].file, due |-> due, active |-> TRUE]
  <2>1. UNCHANGED <<ran, revoked>> /\ next <= MaxTasks /\ at[u].pc = "inside"
      BY <1>1 DEF host_sched
  <2>2. worker'.pc = "call" => UNCHANGED worker
    <3>1. worker' \in {worker, [NoWorker EXCEPT !.pc = "wait"]}
        BY <1>1 DEF host_sched, plugin_sched_init
    <3>2. [NoWorker EXCEPT !.pc = "wait"].pc = "wait"
        BY TaskRecords DEF Formed
    <3> QED
        BY <3>1, <3>2
  <2>3. CASE free = {}
    <3>1. UNCHANGED <<g_tasks, next>>
        BY <1>1, <2>3 DEF host_sched
    <3> QED
        BY <1>s, <1>t, <2>1, <2>2, <3>1
  <2>4. CASE free # {}
    <3>1. g_tasks' = [g_tasks EXCEPT ![slot] = new] /\ next' = next + 1
        BY <1>1, <2>4 DEF host_sched
    <3>2. slot \in free
      <4>1. free \in SUBSET Nat
          BY PluginsAssumption
      <4> HIDE DEF free
      <4> QED
          BY <2>4, <4>1, FirstSlot
    <3>3. new.id = next /\ new.file = at[u].file
        OBVIOUS
    <3>4. loader.pc \in Whole => Open(at[u].file)
        BY <2>1 DEF Phased, Inside, Threads
    <3>5. slot \in 1 .. TaskMax
        BY <3>2
    <3> HIDE DEF slot, new, free
    <3>6. g_tasks'[slot] = new /\ \A k \in 1 .. TaskMax : k # slot => g_tasks'[k] = g_tasks[k]
        BY <1>0, <3>1, <3>5
    <3>7. next \in 1 .. MaxTasks /\ ran[next] = 0 /\ next \notin revoked
      <4>1. next \in 1 .. MaxTasks
          BY <1>0, <2>1
      <4>2. ran[next] \in Nat /\ ~(ran[next] > 0)
          BY <1>0, <1>t, <4>1
      <4>3. next \notin revoked
          BY <1>0, <1>t
      <4> QED
          BY <4>1, <4>2, <4>3
    <3>8. ASSUME NEW k \in 1 .. TaskMax, g_tasks'[k].active
          PROVE  /\ g_tasks'[k].id \in 1 .. next' - 1 /\ ran'[g_tasks'[k].id] = 0
                 /\ g_tasks'[k].id \notin revoked'
                 /\ loader.pc \in Whole => Open(g_tasks'[k].file)
      <4>1. CASE k = slot
        <5>1. next \in 1 .. next' - 1
            BY <1>0, <3>1
        <5> QED
            BY <2>1, <3>3, <3>4, <3>6, <3>7, <4>1, <5>1
      <4>2. CASE k # slot
        <5>1. g_tasks'[k] = g_tasks[k]
            BY <3>6, <4>2
        <5>2. g_tasks[k].id \in 1 .. next - 1 /\ ran[g_tasks[k].id] = 0 /\ g_tasks[k].id \notin revoked
              /\ (loader.pc \in Whole => Open(g_tasks[k].file))
            BY <1>t, <3>8, <5>1
        <5>3. g_tasks[k].id \in 1 .. next' - 1
            BY <1>0, <3>1, <5>2
        <5> QED
            BY <2>1, <5>1, <5>2, <5>3
      <4> QED
          BY <4>1, <4>2
    <3>9. \A k \in 1 .. TaskMax : k # slot /\ g_tasks'[k].active => g_tasks'[k].id # next
        BY <1>0, <1>n, <3>6
    <3>a. \A j, k \in 1 .. TaskMax :
             g_tasks'[j].active /\ g_tasks'[k].active /\ g_tasks'[j].id = g_tasks'[k].id => j = k
        BY <1>t, <3>3, <3>6, <3>9
    <3>b. \A id \in 1 .. MaxTasks : ran'[id] <= 1 /\ (ran'[id] > 0 => id < next')
        BY <1>0, <1>t, <2>1, <3>1
    <3>c. \A id \in revoked' : id < next' /\ ran'[id] = 0
        BY <1>0, <1>t, <2>1, <3>1
    <3>d. worker'.pc = "call" /\ loader.pc \in Whole => Open(worker'.task.file)
        BY <1>t, <2>2
    <3> QED
        BY <1>s, <3>8, <3>a, <3>b, <3>c, <3>d
  <2> QED
      BY <2>3, <2>4
<1>2. ASSUME NEW u \in UserThreads, NEW id \in 1 .. MaxTasks, Cancel(u, id) PROVE Tasked'
  <2>1. UNCHANGED <<worker, next, ran>> /\ id < next
      BY <1>2 DEF Cancel
  <2>2. \A k \in 1 .. TaskMax :
           g_tasks'[k] = IF g_tasks[k].active /\ g_tasks[k].id = id
                         THEN [g_tasks[k] EXCEPT !.active = FALSE] ELSE g_tasks[k]
      BY <1>2 DEF Cancel, host_sched_cancel
  <2>3. ASSUME NEW k \in 1 .. TaskMax, g_tasks'[k].active
        PROVE  g_tasks'[k] = g_tasks[k] /\ g_tasks[k].active /\ g_tasks[k].id # id
    <3>1. [g_tasks[k] EXCEPT !.active = FALSE].active = FALSE
        BY <1>k DEF TaskStates
    <3> QED
        BY <2>2, <2>3, <3>1
  <2>4. \/ revoked' = revoked
        \/ revoked' = revoked \cup {id} /\ \E k \in 1 .. TaskMax : g_tasks[k].active /\ g_tasks[k].id = id
      BY <1>2 DEF Cancel
  <2>5. \A x \in revoked' : x < next' /\ ran'[x] = 0
      BY <1>t, <2>1, <2>4
  <2>6. \A k \in 1 .. TaskMax : g_tasks'[k].active => g_tasks'[k].id \notin revoked'
      BY <1>t, <2>3, <2>4
  <2> QED
      BY <1>s, <1>t, <2>1, <2>3, <2>5, <2>6
<1>3. ASSUME NEW k \in 1 .. TaskMax, Elapse(k) PROVE Tasked'
  <2>1. UNCHANGED <<worker, next, ran, revoked>> /\ g_tasks' = [g_tasks EXCEPT ![k].due = TRUE]
      BY <1>3 DEF Elapse
  <2>2. \A j \in 1 .. TaskMax : /\ g_tasks'[j].active = g_tasks[j].active
                                /\ g_tasks'[j].id = g_tasks[j].id /\ g_tasks'[j].file = g_tasks[j].file
    <3>1. g_tasks'[k] = [g_tasks[k] EXCEPT !.due = TRUE] /\ \A j \in 1 .. TaskMax : j # k => g_tasks'[j] = g_tasks[j]
        BY <1>0, <2>1
    <3>2. /\ g_tasks'[k].active = g_tasks[k].active /\ g_tasks'[k].id = g_tasks[k].id
          /\ g_tasks'[k].file = g_tasks[k].file
        BY <1>k, <3>1 DEF TaskStates
    <3> QED
        BY <3>1, <3>2
  <2> QED
      BY <1>s, <1>t, <2>1, <2>2
<1>4. ASSUME NEW k \in 1 .. TaskMax, TaskStarts(k) PROVE Tasked'
  <2>1. /\ UNCHANGED <<next, revoked>> /\ g_tasks' = [g_tasks EXCEPT ![k].active = FALSE]
        /\ ran' = [ran EXCEPT ![g_tasks[k].id] = @ + 1]
        /\ worker' = [worker EXCEPT !.pc = "call", !.i = k + 1, !.task = g_tasks[k]]
      BY <1>4 DEF TaskStarts
  <2>2. g_tasks[k].active
      BY <1>4 DEF TaskStarts, Ripe
  <2> DEFINE d == g_tasks[k].id
  <2>3. d \in 1 .. MaxTasks /\ d < next /\ ran[d] = 0 /\ d \notin revoked
      BY <1>n, <1>t, <2>2
  <2>4. ran' = [ran EXCEPT ![d] = ran[d] + 1]
      BY <2>1
  <2>5. /\ \A j \in 1 .. TaskMax : j # k => g_tasks'[j] = g_tasks[j]
        /\ ~g_tasks'[k].active
    <3>1. g_tasks'[k] = [g_tasks[k] EXCEPT !.active = FALSE]
        BY <1>0, <2>1
    <3>2. ~g_tasks'[k].active
        BY <1>k, <3>1 DEF TaskStates
    <3> QED
        BY <1>0, <2>1, <3>2
  <2>6. worker'.task = g_tasks[k]
      BY <1>0, <2>1 DEF WorkerStates
  <2>7. \A j \in 1 .. TaskMax : g_tasks'[j].active => j # k /\ g_tasks[j].active /\ g_tasks[j].id # d
      BY <1>t, <2>2, <2>5
  <2> HIDE DEF d
  <2>8. ran'[d] = 1 /\ \A x \in 1 .. MaxTasks : x # d => ran'[x] = ran[x]
      BY <1>0, <2>3, <2>4
  <2>9. \A j \in 1 .. TaskMax : g_tasks'[j].active =>
           /\ g_tasks'[j].id \in 1 .. next' - 1 /\ ran'[g_tasks'[j].id] = 0
           /\ g_tasks'[j].id \notin revoked'
           /\ loader.pc \in Whole => Open(g_tasks'[j].file)
    <3> SUFFICES ASSUME NEW j \in 1 .. TaskMax, g_tasks'[j].active
                 PROVE  /\ g_tasks'[j].id \in 1 .. next' - 1 /\ ran'[g_tasks'[j].id] = 0
                        /\ g_tasks'[j].id \notin revoked'
                        /\ loader.pc \in Whole => Open(g_tasks'[j].file)
        OBVIOUS
    <3>1. g_tasks'[j] = g_tasks[j] /\ g_tasks[j].active /\ g_tasks[j].id # d
        BY <2>5, <2>7
    <3>2. g_tasks[j].id \in 1 .. MaxTasks
        BY <1>n, <3>1
    <3> QED
        BY <1>t, <2>1, <2>8, <3>1, <3>2
  <2>a. \A x \in 1 .. MaxTasks : ran'[x] <= 1 /\ (ran'[x] > 0 => x < next')
      BY <1>t, <2>1, <2>3, <2>8
  <2>b. \A x \in revoked' : x < next' /\ ran'[x] = 0
      BY <1>0, <1>t, <2>1, <2>3, <2>8
  <2>c. \A i, j \in 1 .. TaskMax :
           g_tasks'[i].active /\ g_tasks'[j].active /\ g_tasks'[i].id = g_tasks'[j].id => i = j
      BY <1>t, <2>5, <2>7
  <2>d. loader.pc \in Whole => Open(worker'.task.file)
      BY <1>t, <2>2, <2>6
  <2> QED
      BY <1>s, <2>9, <2>a, <2>b, <2>c, <2>d
<1>5. CASE TaskReturns \/ TaskPassEnds \/ WorkerWakes
  <2>1. UNCHANGED <<g_tasks, next, ran, revoked>>
      BY <1>5 DEF TaskReturns, TaskPassEnds, WorkerWakes
  <2>2. worker'.pc # "call"
    <3>1. CASE TaskReturns
        BY <1>0, <3>1 DEF TaskReturns, WorkerStates
    <3>2. CASE TaskPassEnds
        BY <3>2, TaskRecords DEF Formed, TaskPassEnds
    <3>3. CASE WorkerWakes
      <4>1. NoWorker.pc = "none"
          BY DEF NoWorker
      <4> QED
          BY <3>3, <4>1, TaskRecords DEF Formed, WorkerWakes
    <3> QED
        BY <1>5, <3>1, <3>2, <3>3
  <2> QED
      BY <1>s, <1>t, <2>1, <2>2
<1> QED
    BY <1>1, <1>2, <1>3, <1>4, <1>5 DEF TaskNext

-----------------------------------------------------------------------------
(* The theorem.                                                             *)

\* The initial state, and every step.
LEMMA StrongInit == PluginsInit => Strong
BY FormedInit, PhasedInit, MappedInit, CountedInit, TaskedInit DEF Strong

LEMMA StrongStep == Strong /\ [PluginsNext]_pluginvars => Strong'
<1> SUFFICES ASSUME Strong, [PluginsNext]_pluginvars PROVE Strong'
    OBVIOUS
<1>1. CASE LoaderNext
    BY <1>1, FormedLoader, PhasedLoader, MappedLoader, CountedLoader, TaskedLoader DEF Strong
<1>2. CASE CallbackNext
    BY <1>2, FormedCallback, PhasedCallback, MappedCallback, CountedCallback, TaskedCallback DEF Strong
<1>3. CASE TaskNext
  <2>1. UNCHANGED <<loader, g_plugins, mapped, ready, at, ticking>>
      BY <1>3 DEF TaskNext, host_sched, Cancel, Elapse, TaskStarts, TaskReturns, TaskPassEnds, WorkerWakes
  <2> QED
      BY <1>3, <2>1, FormedTasks, PhasedTasks, MappedTasks, CountedTasks, TaskedTasks DEF Strong
<1>4. CASE UNCHANGED pluginvars
  <2>1. UNCHANGED <<loader, g_plugins, mapped, ready, at, ticking, TaskVars>>
      BY <1>4 DEF pluginvars, TaskVars
  <2>2. Formed'
      BY <2>1, FormedKept DEF Strong, Formed
  <2>3. \A f : Open(f) => Open(f)'
      BY <2>1 DEF Open
  <2>4. Tasked'
      BY <2>1, <2>3, TaskedKept DEF Strong, TaskVars
  <2> QED
      BY <2>1, <2>2, <2>4, PhasedTasks, MappedTasks, CountedTasks DEF Strong
<1> QED
    BY <1>1, <1>2, <1>3, <1>4 DEF PluginsNext

\* A thread for which the shutdown waits is inside only while nothing is closed.
LEMMA StrongOpen == Strong => OpenCode
<1> SUFFICES ASSUME Strong PROVE OpenCode
    OBVIOUS
<1>1. ASSUME NEW f, Open(f), loader.pc \in Whole
      PROVE  /\ {k \in LoadedAt : g_plugins[k].file = f} # {}
             /\ mapped[f] = 1 /\ ready[f] = 1
  <2>1. PICK k \in DOMAIN g_plugins : g_plugins[k].file = f
      BY <1>1 DEF Open
  <2>2. k \in LoadedAt /\ f \in Lib
      BY <1>1, <2>1, EntryAt DEF Strong, Phased, LoadedAt
  <2> QED
      BY <1>1, <2>1, <2>2 DEF Strong, Mapped
<1>2. ASSUME NEW t \in Threads, Inside(t), ~at[t].late
      PROVE  loader.pc \in Whole /\ Open(at[t].file)
  <2>1. at[t].pc # "out"
      BY <1>2 DEF Inside
  <2>2. loader.pc \in Whole
      BY <1>2, <2>1 DEF Strong, Phased, Threads, Whole
  <2> QED
      BY <1>2, <2>2 DEF Strong, Phased
<1>3. ASSUME worker.pc = "call", loader.pc \in {"up", "stopping", "event", "join"}
      PROVE  loader.pc \in Whole /\ Open(worker.task.file)
    BY <1>3 DEF Strong, Tasked, Whole
<1> QED
    BY <1>1, <1>2, <1>3 DEF OpenCode

\* The registry is exact.
LEMMA StrongRegistered == Strong => Registered
<1> SUFFICES ASSUME Strong PROVE Registered
    OBVIOUS
<1>1. \A j, k \in LoadedAt : g_plugins[j].id = g_plugins[k].id => j = k
    BY DEF Strong, Formed, RegistryFormed, LoadedAt
<1>2. ASSUME NEW f \in Lib, loader.pc \in Whole
      PROVE  mapped[f] = Cardinality({k \in LoadedAt : g_plugins[k].file = f})
  <2>1. CASE Open(f)
    <3>1. PICK k \in DOMAIN g_plugins : g_plugins[k].file = f
        BY <2>1 DEF Open
    <3>2. k \in LoadedAt
        BY <1>2, <3>1 DEF Strong, Phased, LoadedAt
    <3>3. \A j \in LoadedAt : g_plugins[j].file = f => j = k
        BY <1>1, <3>1, <3>2 DEF Strong, Formed, RegistryFormed, LoadedAt
    <3>4. {j \in LoadedAt : g_plugins[j].file = f} = {k}
        BY <3>1, <3>2, <3>3
    <3>5. Cardinality({k}) = 1
        BY FS_Singleton
    <3> QED
        BY <1>2, <2>1, <3>4, <3>5 DEF Strong, Mapped
  <2>2. CASE ~Open(f)
    <3>1. {j \in LoadedAt : g_plugins[j].file = f} = {}
        BY <2>2 DEF Open, LoadedAt
    <3> QED
        BY <1>2, <2>2, <3>1, FS_EmptySet DEF Strong, Mapped
  <2> QED
      BY <2>1, <2>2
<1>3. \A k \in LoadedAt : g_plugins[k].count =
           Cardinality({u \in UserThreads : at[u].pc = "inside" /\ at[u].file = g_plugins[k].file})
    BY DEF Strong, Counted, Instances
<1> QED
    BY <1>1, <1>2, <1>3 DEF Registered, Whole

\* No thread that the shutdown waits for is in closed code, the registry says
\* exactly what is open and how many instances there are, and no task runs
\* twice or after its cancellation: for any directory, registry size, number of
\* callers and number of slots.
THEOREM PluginsCorrect == PluginsSpec => []PluginsInv
<1>1. Strong => PluginsInv
    BY StrongOpen, StrongRegistered DEF PluginsInv, Strong, Tasked
<1> QED
    BY <1>1, StrongInit, StrongStep, PTL DEF PluginsSpec

=============================================================================
