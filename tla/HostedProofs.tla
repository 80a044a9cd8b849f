---------------------------- MODULE HostedProofs ----------------------------
(***************************************************************************)
(* Proofs about what the board hosts: the teleconference's rooms (MtsRooms)*)
(* and, in the second part, Buccaneer's doors (BuccHost). The two share    *)
(* nothing.                                                                *)
(*                                                                         *)
(* Proofs about MtsRooms, for any callers, names, rooms and configured     *)
(* rooms.  RoomsKept: what each thread's record may say (Says), what it    *)
(* may say of the rooms (Fits: a room it is about to take or delete has an *)
(* id that was given out, and no open room has the id of one it ended),    *)
(* what it may say of the instance (Leaving, Present), that the rooms      *)
(* stand on their rows (Stands, Rows) and that nobody is about while the   *)
(* plugin is down.  Learned: what a thread in mts_join has found out.      *)
(***************************************************************************)
EXTENDS MtsRooms, BuccHost, FiniteSetTheorems, SequenceTheorems, WellFoundedInduction, TLAPS

(* What a thread's record may say, whatever else is the case.              *)
Joins == {"look", "bans", "roombans", "invited", "set"}
Afters == {"none", "enter", "default", "leave", "close", "flag"}
Wrote == [table : Tables, temporary : BOOLEAN]
Evicting == [pc : {"evict"}, u : {NoUser}, r : RoomIds, old : {0}, closed : {FALSE}, slot : Slots \ {1},
             i : Nat, what : {Free}, then : {"none"}]
Jobs == [pc : Places, u : Callers \cup {NoUser}, r : RoomIds, old : RoomIds, closed : BOOLEAN, slot : Slots,
         i : Nat, what : Room \cup Wrote \cup Evicting, then : Afters]

Says(t, j) ==
  /\ j \in Jobs
  /\ j.pc \in Joins \cup {"empty", "delete", "mutes", "remove", "invite", "uninvite", "transfer", "sanction", "flag"}
       => j.u \in Callers
  /\ j.pc \in {"rename", "save"} => j.what \in Room
  /\ j.pc = "save" => j.what.id \notin {0, Lobby}
  /\ j.pc \in {"sanction", "flag"} => j.what \in Wrote
  /\ j.pc = "evict" => j \in Evicting
  /\ j.then = "close" => j.what \in Evicting
  /\ j.pc \in {"evict", "shut", "sanction"} \/ j.then = "close" => t \in Callers
  /\ j.pc \in {"rename", "transfer", "shut"} => j.slot # 1
  /\ j.pc \in {"rename", "transfer"} => j.then = "none"
  /\ j.then = "leave" => j.pc \in {"remove", "empty", "delete", "mutes"}
  /\ j.pc = "remove" => j.then = "leave"

(* What it may say of the rooms s, of which n is the next id.              *)
Closed(r, s) == \A k \in Slots : s[k].active => s[k].id # r
Ends(j, s, n) == j.r < n /\ \A k \in Slots : s[k].active /\ s[k].id = j.r => k = j.slot

Fits(j, s, n) ==
  /\ j.pc \in {"rename", "transfer"} => s[j.slot].id # 0
  /\ j.pc \in {"bans", "roombans", "invited", "set"} => j.r # 0 /\ j.r < n
  /\ j.pc \in {"empty", "delete", "remove"} => j.old < n
  /\ j.pc = "delete" => Closed(j.old, s)
  /\ j.pc \in {"evict", "shut"} => Ends(j, s, n)
  /\ j.then = "close" => Ends(j.what, s, n)
  /\ j.pc = "erase" => j.r < n /\ Closed(j.r, s)

(* What it may say of the instance it works on, and of a sysop who is in   *)
(* no room yet.                                                            *)
Leaving(j, l, q) == j.then = "leave" => l[j.u] = "exiting" /\ (j.pc = "remove" <=> j.u \in ToSet(q))
Coming(u, j) ==
  j.u = u /\ (j.pc \in {"bans", "roombans", "set"} \/ (j.pc = "look" /\ (j.then = "enter" \/ j.r = Lobby)))
Present(u, l, r, j) == l[u] = "in" /\ r[u] = 0 => Coming(u, j)

(* The rooms, and their rows d, of which mts.db refused those of x.        *)
LobbyRow == [name |-> LobbyName, owner |-> NoUser, private |-> FALSE, permanent |-> TRUE]
Rows(d) ==
  /\ DOMAIN d \subseteq RoomIds \ {0} /\ \A k \in DOMAIN d : d[k] \in Row
  /\ DOMAIN d # {} => Lobby \in DOMAIN d /\ d[Lobby] = LobbyRow
Stands(s, n, d, x) ==
  /\ n >= 2 /\ s[1] = LobbyRoom /\ Lobby \in DOMAIN d
  /\ \A i \in Slots : /\ s[i].id = Lobby => i = 1
                      /\ s[i].id = 0 => s[i] = Free
                      /\ s[i].active => s[i].id < n /\ s[i].id \in DOMAIN d \cup x
  /\ \A i, k \in Slots : s[i].active /\ s[k].active /\ s[i].id = s[k].id => i = k

Listed(q, l) ==
  /\ q \in Seq(Callers) /\ IsInjective(q) /\ Len(q) <= MaxUsers
  /\ \A k \in DOMAIN q : l[q[k]] # "out"
  /\ \A u \in Callers : l[u] = "in" => u \in ToSet(q)

Plain(lk, m, v, x, d) ==
  /\ lk \in BOOLEAN /\ m \in [Callers -> BOOLEAN] /\ v \subseteq RoomIds \X Callers
  /\ x \subseteq Sanction /\ d \in [Callers -> RoomIds]

Down(b, q, l, r) == b = [t \in RoomThreads |-> Idle] /\ q = <<>>
                    /\ \A u \in Callers : l[u] = "out" /\ r[u] = 0

RoomsKept ==
  /\ Plain(locked, muted, invited, sanctions, default)
  /\ up \in BOOLEAN /\ slots \in [Slots -> Room] /\ nextId \in 1 .. MaxRoom + 1
  /\ life \in [Callers -> {"out", "in", "exiting"}] /\ room \in [Callers -> RoomIds]
  /\ Listed(sessions, life) /\ Rows(db)
  /\ up => Stands(slots, nextId, db, unsaved) /\ \A u \in Callers : room[u] < nextId
  /\ ~up => Down(job, sessions, life, room)
  /\ job = [t \in RoomThreads |-> job[t]]
  /\ \A t \in RoomThreads :
       Says(t, job[t]) /\ Fits(job[t], slots, nextId) /\ Leaving(job[t], life, sessions)
  /\ \A t, v \in RoomThreads : job[t].then = "leave" /\ job[v].then = "leave" /\ job[t].u = job[v].u => t = v
  /\ \A u \in Sysops : Present(u, life, room, job[u])

(* What a thread that is joining has found out.                            *)
Reasons(j, c) ==
  /\ c \subseteq AllGrounds
  /\ j.pc \in {"bans", "roombans"} => j.closed \/ "open" \in c
  /\ j.pc = "roombans" => "mts" \in c
  /\ j.pc = "invited" => {"mts", "room"} \subseteq c
  /\ j.pc = "set" => c = AllGrounds
Learned == \A t \in RoomThreads : Reasons(job[t], could[t])

(***************************************************************************)
(* The parts of the invariant, and what they imply.                        *)
(***************************************************************************)
LEMMA RoomBounds ==
  /\ Sysops \subseteq Callers /\ Callers \subseteq RoomThreads /\ NoUser \notin Callers
  /\ MaxRooms \in Nat \ {0} /\ PerUser \in Nat /\ MaxUsers \in Nat /\ MaxRoom \in Nat \ {0}
  /\ 1 \in Slots /\ Slots \subseteq Nat /\ Lobby \in RoomIds /\ 0 \in RoomIds /\ RoomIds \subseteq Nat
BY PeopleAssumption, LimitsAssumption DEF RoomThreads, Slots, RoomIds, Lobby

LEMMA FreeIs ==
  /\ Free \in Room /\ LobbyRoom \in Room /\ LobbyRow \in Row /\ Free.active = FALSE /\ Free.id = 0 /\ Free.owner = NoUser
  /\ LobbyRoom.id = Lobby /\ LobbyRoom.active = TRUE /\ LobbyRoom.name = LobbyName /\ LobbyRoom.owner = NoUser
  /\ LobbyRoom.private = FALSE /\ LobbyRoom.permanent = TRUE /\ LobbyName \in Titles
<1>1. Free \in Room /\ Free.active = FALSE /\ Free.id = 0 /\ Free.owner = NoUser
  BY RoomBounds DEF Free, Room, Titles
<1>2. LobbyName \in Titles
  BY NamesAssumption DEF Titles
<1>3. LobbyRoom \in Room /\ LobbyRow \in Row
  BY <1>2, RoomBounds DEF LobbyRoom, LobbyRow, Room, Row
<1>4. /\ LobbyRoom.id = Lobby /\ LobbyRoom.active = TRUE /\ LobbyRoom.name = LobbyName /\ LobbyRoom.owner = NoUser
      /\ LobbyRoom.private = FALSE /\ LobbyRoom.permanent = TRUE
  BY DEF LobbyRoom
<1> QED  BY <1>1, <1>2, <1>3, <1>4

LEMMA IdleIs == /\ Idle \in Jobs /\ Idle.pc = "idle" /\ Idle.then = "none" /\ Idle.u = NoUser /\ Idle.slot = 1
                /\ Idle.what = Free
BY RoomBounds, FreeIs DEF Idle, Jobs, Places, Afters

LEMMA Resting ==
  ASSUME NEW t, NEW s, NEW n, NEW l, NEW q
  PROVE  Says(t, Idle) /\ Fits(Idle, s, n) /\ Leaving(Idle, l, q)
BY IdleIs DEF Says, Fits, Leaving, Joins

LEMMA RoomsKeptNext ==
  RoomsKept' <=>
    /\ Plain(locked', muted', invited', sanctions', default')
    /\ up' \in BOOLEAN /\ slots' \in [Slots -> Room] /\ nextId' \in 1 .. MaxRoom + 1
    /\ life' \in [Callers -> {"out", "in", "exiting"}] /\ room' \in [Callers -> RoomIds]
    /\ Listed(sessions', life') /\ Rows(db')
    /\ up' => Stands(slots', nextId', db', unsaved') /\ \A u \in Callers : room'[u] < nextId'
    /\ ~up' => Down(job', sessions', life', room')
    /\ job' = [t \in RoomThreads |-> job'[t]]
    /\ \A t \in RoomThreads :
         Says(t, job'[t]) /\ Fits(job'[t], slots', nextId') /\ Leaving(job'[t], life', sessions')
    /\ \A t, v \in RoomThreads :
         job'[t].then = "leave" /\ job'[v].then = "leave" /\ job'[t].u = job'[v].u => t = v
    /\ \A u \in Sysops : Present(u, life', room', job'[u])
BY DEF RoomsKept

LEMMA RoomsBegin == RoomsInit => RoomsKept
<1> SUFFICES ASSUME RoomsInit PROVE RoomsKept
  OBVIOUS
<1> USE DEF RoomsInit
<1>1. Plain(locked, muted, invited, sanctions, default)
  BY RoomBounds DEF Plain
<1>2. slots \in [Slots -> Room] /\ nextId \in 1 .. MaxRoom + 1
  BY RoomBounds, FreeIs
<1>3. life \in [Callers -> {"out", "in", "exiting"}] /\ room \in [Callers -> RoomIds]
  BY RoomBounds
<1>4. Listed(sessions, life)
  BY RoomBounds DEF Listed, IsInjective
<1>5. Rows(db)
  BY DEF Rows
<1>6. Down(job, sessions, life, room)
  BY DEF Down
<1>7. \A t \in RoomThreads :
         Says(t, job[t]) /\ Fits(job[t], slots, nextId) /\ Leaving(job[t], life, sessions)
  BY Resting
<1>8. \A t, v \in RoomThreads : job[t].then = "leave" /\ job[v].then = "leave" /\ job[t].u = job[v].u => t = v
  BY IdleIs
<1>9. \A u \in Sysops : Present(u, life, room, job[u])
  BY RoomBounds DEF Present
<1>10. up \in BOOLEAN /\ ~up /\ job = [t \in RoomThreads |-> job[t]]
  OBVIOUS
<1> QED  BY <1>1, <1>2, <1>3, <1>4, <1>5, <1>6, <1>7, <1>8, <1>9, <1>10 DEF RoomsKept

LEMMA RoomsFollow == RoomsKept => RoomsInv
<1> SUFFICES ASSUME RoomsKept PROVE RoomsInv
  OBVIOUS
<1> USE DEF RoomsKept
<1>1. RoomsTypeOK
  <2>1. \A t \in RoomThreads : job[t] \in Jobs
    BY DEF Says
  <2>2. \A t \in RoomThreads : job[t].pc \in Places /\ job[t].u \in Callers \cup {NoUser} /\ job[t].slot \in Slots
    BY <2>1 DEF Jobs
  <2>3. ToSet(sessions) \subseteq Callers
    <3>1. sessions \in Seq(Callers)
      BY DEF Listed
    <3> QED  BY <3>1 DEF ToSet
  <2>4. IsInjective(sessions) /\ Len(sessions) <= MaxUsers
    BY DEF Listed
  <2>5. DOMAIN db \subseteq RoomIds \ {0} /\ \A k \in DOMAIN db : db[k] \in Row
    BY DEF Rows
  <2> QED  BY <2>2, <2>3, <2>4, <2>5 DEF RoomsTypeOK, Plain
<1>2. ASSUME up PROVE /\ slots[1] = LobbyRoom /\ mts_find_room(LobbyName) = {1}
                      /\ Lobby \in DOMAIN db /\ db[Lobby].name = LobbyName
  <2>1. slots[1] = LobbyRoom /\ Lobby \in DOMAIN db
    BY <1>2 DEF Stands
  <2>2. db[Lobby] = LobbyRow
    BY <2>1 DEF Rows
  <2>3. slots[1].active /\ slots[1].name = Norm[LobbyName]
    BY <2>1, FreeIs, NamesAssumption
  <2>4. \A i \in Slots : i # 1 => 1 \in 1 .. i - 1
    BY RoomBounds DEF Slots
  <2>5. mts_find_room(LobbyName) = {1}
    BY <2>3, <2>4, RoomBounds DEF mts_find_room
  <2> QED  BY <2>1, <2>2, <2>5 DEF LobbyRow
<1>3. LobbyStands
  BY <1>2 DEF LobbyStands
<1>4. Recoverable
  BY DEF Recoverable, Stands
<1> QED  BY <1>1, <1>3, <1>4 DEF RoomsInv

(***************************************************************************)
(* One thread moves.  Rooms only end, or begin with an id of their own, so *)
(* what the other threads hold stays true.                                 *)
(***************************************************************************)
Later(s, n, e, m) ==
  /\ n <= m
  /\ \A i \in Slots : /\ e[i].active => (s[i].active /\ e[i].id = s[i].id) \/ e[i].id >= n
                      /\ s[i].id # 0 => e[i].id # 0

LEMMA LaterSame == ASSUME NEW s, NEW n \in Nat PROVE Later(s, n, s, n)
BY DEF Later

LEMMA JobParts ==
  ASSUME NEW j \in Jobs
  PROVE  /\ j.pc \in Places /\ j.u \in Callers \cup {NoUser} /\ j.r \in RoomIds /\ j.old \in RoomIds
         /\ j.closed \in BOOLEAN /\ j.slot \in Slots /\ j.i \in Nat /\ j.then \in Afters
         /\ j.what \in Room \cup Wrote \cup Evicting
BY DEF Jobs

LEMMA EvictingIs ==
  ASSUME NEW j \in Evicting
  PROVE  /\ j \in Jobs /\ j.pc = "evict" /\ j.then = "none" /\ j.slot \in Slots \ {1} /\ j.r \in RoomIds
         /\ j.i \in Nat
BY RoomBounds, FreeIs DEF Evicting, Jobs, Places, Afters

LEMMA RoomParts ==
  ASSUME NEW s \in [Slots -> Room], NEW i \in Slots
  PROVE  /\ s[i].id \in RoomIds /\ s[i].active \in BOOLEAN /\ s[i].name \in Titles
         /\ s[i].owner \in Callers \cup {NoUser} /\ s[i].private \in BOOLEAN /\ s[i].permanent \in BOOLEAN
         /\ s[i] \in Room /\ s[i].id \in Nat
BY RoomBounds DEF Room

LEMMA ClosedStays ==
  ASSUME NEW s \in [Slots -> Room], NEW e \in [Slots -> Room], NEW n \in Nat, NEW m \in Nat,
         Later(s, n, e, m), NEW r \in RoomIds, r < n
  PROVE  /\ Closed(r, s) => Closed(r, e)
         /\ \A k \in Slots : e[k].active /\ e[k].id = r => s[k].active /\ s[k].id = r
<1>1. ASSUME NEW k \in Slots, e[k].active, e[k].id = r PROVE s[k].active /\ s[k].id = r
  <2>1. r \in Nat /\ e[k].id \in Nat
    BY RoomBounds, RoomParts
  <2> QED  BY <1>1, <2>1 DEF Later
<1> QED  BY <1>1 DEF Closed

LEMMA LaterFits ==
  ASSUME NEW t, NEW j, Says(t, j),
         NEW s \in [Slots -> Room], NEW e \in [Slots -> Room], NEW n \in Nat, NEW m \in Nat,
         Fits(j, s, n), Later(s, n, e, m)
  PROVE  Fits(j, e, m)
<1>1. j.slot \in Slots /\ j.r \in RoomIds /\ j.old \in RoomIds /\ j.r \in Nat /\ j.old \in Nat
  BY JobParts, RoomBounds DEF Says
<1>2. n <= m
  BY DEF Later
<1>3. j.pc \in {"rename", "transfer"} => e[j.slot].id # 0
  BY <1>1 DEF Fits, Later
<1>4. j.pc \in {"bans", "roombans", "invited", "set"} => j.r # 0 /\ j.r < m
  BY <1>1, <1>2 DEF Fits
<1>5. j.pc \in {"empty", "delete", "remove"} => j.old < m
  BY <1>1, <1>2 DEF Fits
<1>6. j.pc = "delete" => Closed(j.old, e)
  <2> SUFFICES ASSUME j.pc = "delete" PROVE Closed(j.old, e)
    OBVIOUS
  <2>1. j.old < n /\ Closed(j.old, s)
    BY DEF Fits
  <2> QED  BY <1>1, <2>1, ClosedStays
<1>7. j.pc \in {"evict", "shut"} => Ends(j, e, m)
  <2> SUFFICES ASSUME j.pc \in {"evict", "shut"} PROVE Ends(j, e, m)
    OBVIOUS
  <2>1. Ends(j, s, n)
    BY DEF Fits
  <2>2. \A k \in Slots : e[k].active /\ e[k].id = j.r => s[k].active /\ s[k].id = j.r
    BY <1>1, <2>1, ClosedStays DEF Ends
  <2> QED  BY <1>1, <1>2, <2>1, <2>2 DEF Ends
<1>8. j.then = "close" => Ends(j.what, e, m)
  <2> SUFFICES ASSUME j.then = "close" PROVE Ends(j.what, e, m)
    OBVIOUS
  <2> DEFINE w == j.what
  <2>1. w \in Evicting /\ Ends(w, s, n)
    BY DEF Fits, Says
  <2> HIDE DEF w
  <2>2. w.r \in RoomIds /\ w.r \in Nat
    BY <2>1, EvictingIs, RoomBounds
  <2>3. \A k \in Slots : e[k].active /\ e[k].id = w.r => s[k].active /\ s[k].id = w.r
    BY <2>1, <2>2, ClosedStays DEF Ends
  <2>4. Ends(w, e, m)
    BY <1>2, <2>1, <2>2, <2>3 DEF Ends
  <2> QED  BY <2>4 DEF w
<1>9. j.pc = "erase" => j.r < m /\ Closed(j.r, e)
  <2> SUFFICES ASSUME j.pc = "erase" PROVE j.r < m /\ Closed(j.r, e)
    OBVIOUS
  <2>1. j.r < n /\ Closed(j.r, s)
    BY DEF Fits
  <2> QED  BY <1>1, <1>2, <2>1, ClosedStays
<1> QED  BY <1>3, <1>4, <1>5, <1>6, <1>7, <1>8, <1>9 DEF Fits

LEMMA Shifts ==
  ASSUME RoomsKept, up, up',
         slots' \in [Slots -> Room], nextId' \in 1 .. MaxRoom + 1, Later(slots, nextId, slots', nextId'),
         Stands(slots', nextId', db', unsaved'), Rows(db'),
         life' \in [Callers -> {"out", "in", "exiting"}], room' \in [Callers -> RoomIds],
         Listed(sessions', life'), \A u \in Callers : room'[u] < nextId',
         Plain(locked', muted', invited', sanctions', default'),
         NEW t \in RoomThreads, NEW j, job' = [job EXCEPT ![t] = j],
         Says(t, j), Fits(j, slots', nextId'), Leaving(j, life', sessions'),
         \A v \in RoomThreads \ {t} :
           /\ Leaving(job[v], life', sessions')
           /\ j.then = "leave" /\ job[v].then = "leave" => job[v].u # j.u,
         \A u \in Sysops : Present(u, life', room', IF u = t THEN j ELSE job[u])
  PROVE  RoomsKept'
<1>1. job' = [v \in RoomThreads |-> job'[v]]
      /\ \A v \in RoomThreads : job'[v] = IF v = t THEN j ELSE job[v]
  BY DEF RoomsKept
<1>2. nextId \in Nat /\ nextId' \in Nat /\ slots \in [Slots -> Room]
  BY RoomBounds DEF RoomsKept
<1>3. ASSUME NEW v \in RoomThreads
      PROVE  Says(v, job'[v]) /\ Fits(job'[v], slots', nextId') /\ Leaving(job'[v], life', sessions')
  <2>1. CASE v = t
    BY <1>1, <2>1
  <2>2. CASE v # t
    <3>1. Says(v, job[v]) /\ Fits(job[v], slots, nextId)
      BY DEF RoomsKept
    <3>2. Fits(job[v], slots', nextId')
      BY <1>2, <3>1, LaterFits
    <3> QED  BY <1>1, <2>2, <3>1, <3>2
  <2> QED  BY <2>1, <2>2
<1>4. ASSUME NEW v \in RoomThreads, NEW w \in RoomThreads,
             job'[v].then = "leave", job'[w].then = "leave", job'[v].u = job'[w].u
      PROVE  v = w
  <2>1. CASE v = t
    BY <1>1, <1>4, <2>1
  <2>2. CASE w = t
    BY <1>1, <1>4, <2>2
  <2>3. CASE v # t /\ w # t
    BY <1>1, <1>4, <2>3 DEF RoomsKept
  <2> QED  BY <2>1, <2>2, <2>3
<1>5. ASSUME NEW u \in Sysops PROVE Present(u, life', room', job'[u])
  <2>1. u \in RoomThreads
    BY RoomBounds
  <2> QED  BY <1>1, <2>1
<1> QED  BY <1>1, <1>3, <1>4, <1>5, RoomsKeptNext

LEMMA Works ==
  ASSUME RoomsKept, up, up', sessions' = sessions, life' = life, room' = room,
         slots' \in [Slots -> Room], nextId' \in 1 .. MaxRoom + 1, Later(slots, nextId, slots', nextId'),
         Stands(slots', nextId', db', unsaved'), Rows(db'),
         Plain(locked', muted', invited', sanctions', default'),
         NEW t \in RoomThreads, NEW j, job' = [job EXCEPT ![t] = j], Says(t, j), Fits(j, slots', nextId'),
         j.then = "leave" => /\ job[t].then = "leave" /\ j.u = job[t].u
                             /\ j.pc = "remove" <=> job[t].pc = "remove",
         t \in Sysops /\ life[t] = "in" /\ room[t] = 0 => Coming(t, j)
  PROVE  RoomsKept'
<1>1. \A u \in Callers : room'[u] < nextId'
  <2> TAKE u \in Callers
  <2>1. room[u] < nextId /\ room[u] \in Nat /\ nextId <= nextId' /\ nextId \in Nat /\ nextId' \in Nat
    BY RoomBounds DEF RoomsKept, Later
  <2> QED  BY <2>1
<1>2. Leaving(j, life', sessions')
  BY DEF RoomsKept, Leaving
<1>3. \A v \in RoomThreads \ {t} :
           /\ Leaving(job[v], life', sessions')
           /\ j.then = "leave" /\ job[v].then = "leave" => job[v].u # j.u
  BY DEF RoomsKept
<1>4. ASSUME NEW u \in Sysops PROVE Present(u, life', room', IF u = t THEN j ELSE job[u])
  BY RoomBounds DEF RoomsKept, Present
<1>5. /\ life' \in [Callers -> {"out", "in", "exiting"}] /\ room' \in [Callers -> RoomIds]
      /\ Listed(sessions', life')
  BY DEF RoomsKept
<1> QED  BY <1>1, <1>2, <1>3, <1>4, <1>5, Shifts

LEMMA Walks ==
  ASSUME RoomsKept, up, up' = up, sessions' = sessions, life' = life, room' = room,
         slots' = slots, nextId' = nextId, db' = db, unsaved' = unsaved,
         Plain(locked', muted', invited', sanctions', default'),
         NEW t \in RoomThreads, NEW j, job' = [job EXCEPT ![t] = j], Says(t, j), Fits(j, slots, nextId),
         j.then = "leave" => /\ job[t].then = "leave" /\ j.u = job[t].u
                             /\ j.pc = "remove" <=> job[t].pc = "remove",
         t \in Sysops /\ life[t] = "in" /\ room[t] = 0 => Coming(t, j)
  PROVE  RoomsKept'
<1>1. slots \in [Slots -> Room] /\ nextId \in 1 .. MaxRoom + 1 /\ nextId \in Nat
      /\ Stands(slots, nextId, db, unsaved) /\ Rows(db)
  BY RoomBounds DEF RoomsKept
<1>2. Later(slots, nextId, slots', nextId')
  BY <1>1, LaterSame
<1> QED  BY <1>1, <1>2, Works

LEMMA Waits ==
  ASSUME RoomsKept, up, up', sessions' = sessions, life' = life, job' = job,
         room' \in [Callers -> RoomIds], \A u \in Callers : room'[u] < nextId' /\ (room'[u] = 0 => room[u] = 0),
         slots' \in [Slots -> Room], nextId' \in 1 .. MaxRoom + 1, Later(slots, nextId, slots', nextId'),
         Stands(slots', nextId', db', unsaved'), Rows(db'),
         Plain(locked', muted', invited', sanctions', default'),
         NEW t \in RoomThreads
  PROVE  RoomsKept'
<1> DEFINE j == job[t]
<1>1. job' = [job EXCEPT ![t] = j] /\ Says(t, j) /\ Fits(j, slots, nextId)
  BY DEF RoomsKept
<1>2. Fits(j, slots', nextId')
  <2>1. nextId \in Nat /\ nextId' \in Nat /\ slots \in [Slots -> Room]
    BY RoomBounds DEF RoomsKept
  <2> HIDE DEF j
  <2> QED  BY <1>1, <2>1, LaterFits
<1>3. Leaving(j, life', sessions')
  BY DEF RoomsKept
<1>4. \A v \in RoomThreads \ {t} :
           /\ Leaving(job[v], life', sessions')
           /\ j.then = "leave" /\ job[v].then = "leave" => job[v].u # j.u
  BY DEF RoomsKept
<1>5. ASSUME NEW u \in Sysops PROVE Present(u, life', room', IF u = t THEN j ELSE job[u])
  BY RoomBounds DEF RoomsKept, Present
<1>6. life' \in [Callers -> {"out", "in", "exiting"}] /\ Listed(sessions', life')
  BY DEF RoomsKept
<1> HIDE DEF j
<1> QED  BY <1>1, <1>2, <1>3, <1>4, <1>5, <1>6, Shifts

(* The records a handler starts from.                                      *)
LEMMA JoiningIs ==
  ASSUME NEW u \in Callers, NEW r \in RoomIds, NEW a \in Afters
  PROVE  LET j == Joining(u, r, a) IN
         /\ j \in Jobs /\ j.pc = "look" /\ j.u = u /\ j.r = r /\ j.then = a /\ j.slot = 1 /\ j.what = Free
<1>1. /\ Joining(u, r, a).pc = "look" /\ Joining(u, r, a).u = u /\ Joining(u, r, a).r = r
      /\ Joining(u, r, a).then = a /\ Joining(u, r, a).slot = 1 /\ Joining(u, r, a).what = Free
  BY DEF Joining, Idle
<1>2. Joining(u, r, a) \in Jobs
  BY IdleIs DEF Joining, Jobs, Places
<1> QED  BY <1>1, <1>2

LEMMA JoiningSays ==
  ASSUME NEW u \in Callers, NEW r \in RoomIds, NEW a \in {"none", "enter", "default"},
         NEW t, NEW s, NEW n, NEW l, NEW q
  PROVE  LET j == Joining(u, r, a) IN Says(t, j) /\ Fits(j, s, n) /\ j.then # "leave"
<1> DEFINE j == Joining(u, r, a)
<1>1. j \in Jobs /\ j.pc = "look" /\ j.u = u /\ j.r = r /\ j.then = a
  BY JoiningIs DEF Afters
<1> HIDE DEF j
<1>2. Says(t, j) /\ Fits(j, s, n) /\ j.then # "leave"
  BY <1>1 DEF Says, Fits, Joins
<1> QED  BY <1>2 DEF j

Fresh(j, pc, u, i) ==
  /\ j.pc = pc /\ j.u = u /\ j.slot = i /\ j.then = "none" /\ j.what = Free /\ j.r = 0
  /\ j.old = 0 /\ j.closed = FALSE /\ j.i = 1

LEMMA HoldingIs ==
  ASSUME NEW pc \in Places, NEW u \in Callers \cup {NoUser}, NEW i \in Slots
  PROVE  Holding(pc, u, i) \in Jobs /\ Fresh(Holding(pc, u, i), pc, u, i)
<1>1. Fresh(Holding(pc, u, i), pc, u, i)
  BY DEF Holding, Idle, Fresh
<1>2. Holding(pc, u, i) \in Jobs
  BY IdleIs DEF Holding, Jobs
<1> QED  BY <1>1, <1>2

(* What a handler does when mts_join or mts_leave returns.                 *)
Returning(t, j, ok) ==
  CASE j.then = "enter" /\ ~ok -> Joining(j.u, Lobby, "none")
    [] j.then = "default" /\ ok -> [j EXCEPT !.pc = "prefer"]
    [] j.then = "close" -> [j.what EXCEPT !.i = @ + 1]
    [] OTHER -> Idle

LEMMA ReturningSays ==
  ASSUME NEW t, NEW j, NEW ok \in BOOLEAN, NEW s, NEW n, Says(t, j), Fits(j, s, n), j.u \in Callers
  PROVE  LET k == Returning(t, j, ok) IN Says(t, k) /\ Fits(k, s, n) /\ k.then # "leave"
<1> DEFINE k == Returning(t, j, ok)
<1>a. SUFFICES Says(t, k) /\ Fits(k, s, n) /\ k.then # "leave"
  OBVIOUS
<1>0. j \in Jobs /\ (j.then = "leave" => j.pc # "prefer")
  BY DEF Says
<1>1. CASE j.then = "enter" /\ ~ok
  <2>1. k = Joining(j.u, Lobby, "none")
    BY <1>1 DEF Returning
  <2> HIDE DEF k
  <2> QED  BY <2>1, JoiningSays, RoomBounds
<1>2. CASE j.then = "default" /\ ok
  <2>1. k = [j EXCEPT !.pc = "prefer"]
    BY <1>2 DEF Returning
  <2> HIDE DEF k
  <2>2. k \in Jobs /\ k.pc = "prefer" /\ k.then = "default"
    BY <1>0, <1>2, <2>1 DEF Jobs, Places
  <2> QED  BY <2>2 DEF Says, Fits, Joins
<1>3. CASE j.then = "close"
  <2>1. k = [j.what EXCEPT !.i = @ + 1]
    BY <1>3 DEF Returning
  <2> HIDE DEF k
  <2>2. j.what \in Evicting /\ t \in Callers /\ Ends(j.what, s, n)
    BY <1>3 DEF Says, Fits
  <2> DEFINE w == j.what
  <2>3. w.i \in Nat /\ w.i + 1 \in Nat
    BY <2>2, EvictingIs
  <2>4. k = [w EXCEPT !.i = w.i + 1]
    BY <2>1
  <2> HIDE DEF w
  <2>5. w \in Evicting /\ Ends(w, s, n)
    BY <2>2 DEF w
  <2>6. k \in Evicting /\ k.r = w.r /\ k.slot = w.slot
    BY <2>3, <2>4, <2>5 DEF Evicting
  <2>7. Ends(k, s, n)
    BY <2>5, <2>6 DEF Ends
  <2>8. k \in Jobs /\ k.pc = "evict" /\ k.then = "none"
    BY <2>6, EvictingIs
  <2> QED  BY <2>2, <2>6, <2>7, <2>8 DEF Says, Fits, Joins
<1>4. CASE ~(j.then = "enter" /\ ~ok) /\ ~(j.then = "default" /\ ok) /\ j.then # "close"
  <2>1. k = Idle
    BY <1>4 DEF Returning
  <2> HIDE DEF k
  <2> QED  BY <2>1, Resting, IdleIs
<1> QED  BY <1>1, <1>2, <1>3, <1>4

LEMMA ContinueKept ==
  ASSUME RoomsKept, up, up' = up, sessions' = sessions, room' = room,
         slots' = slots, nextId' = nextId, db' = db, unsaved' = unsaved,
         Plain(locked', muted', invited', sanctions', default'),
         NEW t \in RoomThreads, NEW ok \in BOOLEAN, Continue(t, ok), job[t].pc \in Joins \cup {"mutes"},
         t \in Sysops /\ life[t] = "in" /\ room[t] = 0 => ~ok /\ job[t].then = "enter" /\ job[t].u = t
  PROVE  RoomsKept'
<1> DEFINE j == job[t]
           k == Returning(t, j, ok)
<1>1. Says(t, j) /\ Fits(j, slots, nextId) /\ j.u \in Callers /\ Leaving(j, life, sessions)
  BY DEF RoomsKept, Says
<1>2. job' = [job EXCEPT ![t] = k]
  BY DEF Continue, Returning
<1>3. life' = IF j.then = "leave" THEN [life EXCEPT ![j.u] = "out"] ELSE life
  BY DEF Continue
<1>4. t \in Sysops /\ life[t] = "in" /\ room[t] = 0 => k = Joining(t, Lobby, "none")
  BY DEF Returning
<1>5. j.pc \in Joins \cup {"mutes"}
  OBVIOUS
<1>6. t \in Callers => Joining(t, Lobby, "none").pc = "look" /\ Joining(t, Lobby, "none").u = t
                       /\ Joining(t, Lobby, "none").r = Lobby
  <2>1. Lobby \in RoomIds /\ "none" \in Afters
    BY RoomBounds DEF Afters
  <2> QED  BY <2>1, JoiningIs
<1>j. j = job[t]
  OBVIOUS
<1> HIDE DEF j
<1>7. Says(t, k) /\ Fits(k, slots, nextId) /\ k.then # "leave"
  BY <1>1, ReturningSays
<1> HIDE DEF k
<1>8. t \in Sysops /\ life[t] = "in" /\ room[t] = 0 => Coming(t, k)
  BY <1>4, <1>6, RoomBounds DEF Coming
<1>9. CASE j.then # "leave"
  BY <1>2, <1>3, <1>7, <1>8, <1>9, Walks
<1>10. CASE j.then = "leave"
  <2>1. life' = [life EXCEPT ![j.u] = "out"] /\ life[j.u] = "exiting" /\ j.u \notin ToSet(sessions)
    BY <1>1, <1>3, <1>5, <1>10 DEF Leaving, Joins
  <2>2. \A u \in Callers : life'[u] = IF u = j.u THEN "out" ELSE life[u]
    BY <2>1 DEF RoomsKept
  <2>3. life' \in [Callers -> {"out", "in", "exiting"}] /\ room' \in [Callers -> RoomIds]
    BY <2>1 DEF RoomsKept
  <2>4. Listed(sessions', life')
    <3>1. sessions \in Seq(Callers) /\ Listed(sessions, life)
      BY DEF RoomsKept, Listed
    <3>2. ASSUME NEW i \in DOMAIN sessions PROVE life'[sessions[i]] # "out"
      <4>1. sessions[i] \in Callers /\ sessions[i] \in ToSet(sessions)
        BY <3>1 DEF ToSet
      <4>2. sessions[i] # j.u /\ life[sessions[i]] # "out"
        BY <2>1, <3>1, <4>1 DEF Listed
      <4> QED  BY <2>2, <4>1, <4>2
    <3>3. \A u \in Callers : life'[u] = "in" => u \in ToSet(sessions)
      BY <2>2, <3>1 DEF Listed
    <3> QED  BY <3>1, <3>2, <3>3 DEF Listed
  <2>5. ASSUME NEW v \in RoomThreads \ {t} PROVE Leaving(job[v], life', sessions')
    <3>1. Leaving(job[v], life, sessions) /\ (job[v].then = "leave" => job[v].u # j.u) /\ Says(v, job[v])
      BY <1>j, <1>10 DEF RoomsKept
    <3>2. job[v].then = "leave" => job[v].u \in Callers
      BY <3>1 DEF Says
    <3> QED  BY <2>2, <3>1, <3>2 DEF Leaving
  <2>6. ASSUME NEW u \in Sysops PROVE Present(u, life', room', IF u = t THEN k ELSE job[u])
    <3>1. Present(u, life, room, job[u]) /\ u \in Callers
      BY RoomBounds DEF RoomsKept
    <3> QED  BY <1>8, <2>2, <3>1 DEF Present
  <2>7. slots \in [Slots -> Room] /\ nextId \in 1 .. MaxRoom + 1 /\ nextId \in Nat
        /\ Stands(slots, nextId, db, unsaved) /\ Rows(db) /\ \A u \in Callers : room[u] < nextId
    BY RoomBounds DEF RoomsKept
  <2>8. Later(slots, nextId, slots', nextId')
    BY <2>7, LaterSame
  <2>9. Leaving(k, life', sessions')
    BY <1>7 DEF Leaving
  <2> QED  BY <1>2, <1>7, <2>3, <2>4, <2>5, <2>6, <2>7, <2>8, <2>9, Shifts
<1> QED  BY <1>9, <1>10

LEMMA Running ==
  ASSUME RoomsKept, NEW t \in RoomThreads, job[t] # Idle
  PROVE  up
BY DEF RoomsKept, Down

LEMMA SameTables ==
  ASSUME RoomsKept, locked' = locked, muted' = muted, invited' = invited, sanctions' = sanctions,
         default' = default
  PROVE  Plain(locked', muted', invited', sanctions', default')
BY DEF RoomsKept

(***************************************************************************)
(* mts_join and mts_leave                                                  *)
(***************************************************************************)
LEMMA Onward ==
  ASSUME NEW t, NEW j, NEW s, NEW n, Says(t, j), Fits(j, s, n), j.pc \in Joins \cup {"empty", "delete", "remove"},
         NEW k \in Jobs, k.u = j.u, k.r = j.r, k.what = j.what, k.then = j.then,
         k.pc \in {"bans", "roombans", "invited", "set", "empty", "delete", "mutes"},
         k.pc \in {"bans", "roombans", "invited", "set"} => j.pc \in Joins /\ k.r # 0 /\ k.r < n,
         k.pc \in {"empty", "delete"} => k.old < n,
         k.pc = "delete" => Closed(k.old, s)
  PROVE  Says(t, k) /\ Fits(k, s, n)
<1>1. k.u \in Callers
  BY DEF Says
<1>2. k.then = "close" => k.what \in Evicting /\ t \in Callers /\ Ends(k.what, s, n)
  BY DEF Says, Fits
<1>3. k.then = "leave" => k.pc \in {"empty", "delete", "mutes"}
  BY DEF Says, Joins
<1>4. Says(t, k)
  BY <1>1, <1>2, <1>3 DEF Says
<1>5. Fits(k, s, n)
  BY <1>2 DEF Fits
<1> QED  BY <1>4, <1>5

LEMMA OpenHasId ==
  ASSUME NEW s \in [Slots -> Room], NEW n \in Nat, NEW d, NEW x, Stands(s, n, d, x), NEW i \in Slots, s[i].active
  PROVE  s[i].id # 0 /\ s[i].id < n /\ s[i].id \in DOMAIN d \cup x
BY FreeIs DEF Stands

LEMMA LobbyOpen ==
  ASSUME NEW s, NEW n, NEW d, NEW x, Stands(s, n, d, x)
  PROVE  s[1].active /\ s[1].id = Lobby /\ s[1].permanent /\ ~s[1].private /\ 1 \in Slots
BY FreeIs, RoomBounds DEF Stands

LEMMA UpIs ==
  ASSUME RoomsKept, up
  PROVE  /\ slots \in [Slots -> Room] /\ nextId \in 1 .. MaxRoom + 1 /\ nextId \in Nat
         /\ Stands(slots, nextId, db, unsaved) /\ Rows(db) /\ \A u \in Callers : room[u] < nextId
BY RoomBounds DEF RoomsKept

LEMMA JobIs ==
  ASSUME RoomsKept, NEW t \in RoomThreads
  PROVE  /\ Says(t, job[t]) /\ Fits(job[t], slots, nextId) /\ Leaving(job[t], life, sessions)
         /\ job[t] \in Jobs
BY DEF RoomsKept, Says

LEMMA LookKept == ASSUME RoomsKept, NEW t \in RoomThreads, Look(t) PROVE RoomsKept'
<1> DEFINE j == job[t]
           found == {i \in Slots : slots[i].active /\ slots[i].id = j.r}
<1>1. j.pc = "look" /\ up
  BY Running, IdleIs DEF Look
<1>2. /\ up' = up /\ sessions' = sessions /\ room' = room /\ slots' = slots /\ nextId' = nextId /\ db' = db
      /\ unsaved' = unsaved /\ Plain(locked', muted', invited', sanctions', default')
  BY SameTables DEF Look, Rest, memory, tables
<1>3. CASE found = {}
  <2>1. Continue(t, FALSE)
    BY <1>3 DEF Look
  <2>2. t \in Sysops /\ life[t] = "in" /\ room[t] = 0 => job[t].then = "enter" /\ job[t].u = t
    <3> SUFFICES ASSUME t \in Sysops, life[t] = "in", room[t] = 0 PROVE job[t].then = "enter" /\ job[t].u = t
      OBVIOUS
    <3>1. Coming(t, j)
      BY DEF RoomsKept, Present
    <3>2. j.u = t /\ (j.then = "enter" \/ j.r = Lobby)
      BY <1>1, <3>1 DEF Coming
    <3>3. j.r # Lobby
      BY <1>1, <1>3, UpIs, LobbyOpen
    <3> QED  BY <3>2, <3>3
  <2>3. job[t].pc \in Joins \cup {"mutes"}
    BY <1>1 DEF Joins
  <2> QED  BY <1>1, <1>2, <2>1, <2>2, <2>3, ContinueKept
<1>4. CASE found # {}
  <2>1. PICK i \in Slots :
          /\ slots[i].active /\ slots[i].id = j.r
          /\ Start(t, [j EXCEPT !.pc = "bans", !.closed = slots[i].private /\ slots[i].owner # j.u])
          /\ UNCHANGED life
    BY <1>4 DEF Look
  <2> DEFINE c == slots[i].private /\ slots[i].owner # j.u
             k == [j EXCEPT !.pc = "bans", !.closed = c]
  <2>2. job' = [job EXCEPT ![t] = k] /\ life' = life
    BY <2>1 DEF Start
  <2>3. c \in BOOLEAN
    BY <1>1, UpIs, RoomParts
  <2> HIDE DEF c
  <2>4. k \in Jobs /\ k.u = j.u /\ k.r = j.r /\ k.what = j.what /\ k.then = j.then /\ k.pc = "bans"
    BY <2>3, JobIs DEF Jobs, Places
  <2> HIDE DEF k
  <2>5. j.r # 0 /\ j.r < nextId
    BY <1>1, <2>1, UpIs, OpenHasId
  <2>6. Says(t, k) /\ Fits(k, slots, nextId)
    BY <1>1, <2>4, <2>5, JobIs, Onward DEF Joins
  <2>7. k.then # "leave"
    BY <2>4, <2>6 DEF Says
  <2>8. t \in Sysops /\ life[t] = "in" /\ room[t] = 0 => Coming(t, k)
    BY <2>4 DEF RoomsKept, Present, Coming
  <2> QED  BY <1>1, <1>2, <2>2, <2>6, <2>7, <2>8, Walks
<1> QED  BY <1>3, <1>4

LEMMA BansMove ==
  ASSUME RoomsKept, NEW t \in RoomThreads, job[t].pc \in {"bans", "roombans"}, up,
         NEW p \in {"roombans", "invited", "set"}, job[t].u \in Sysops => p # "invited",
         Start(t, [job[t] EXCEPT !.pc = p]), life' = life,
         up' = up, sessions' = sessions, room' = room, slots' = slots, nextId' = nextId, db' = db,
         unsaved' = unsaved, Plain(locked', muted', invited', sanctions', default')
  PROVE  RoomsKept'
<1> DEFINE j == job[t]
           k == [j EXCEPT !.pc = p]
<1>1. job' = [job EXCEPT ![t] = k]
  BY DEF Start
<1>2. k \in Jobs /\ k.u = j.u /\ k.r = j.r /\ k.what = j.what /\ k.then = j.then /\ k.pc = p
  BY JobIs DEF Jobs, Places
<1> HIDE DEF k
<1>3. Says(t, k) /\ Fits(k, slots, nextId)
  <2>1. j.r # 0 /\ j.r < nextId
    BY JobIs DEF Fits
  <2> QED  BY <1>2, <2>1, JobIs, Onward DEF Joins
<1>4. k.then # "leave"
  BY <1>2, <1>3 DEF Says
<1>5. t \in Sysops /\ life[t] = "in" /\ room[t] = 0 => Coming(t, k)
  BY <1>2 DEF RoomsKept, Present, Coming
<1> QED  BY <1>1, <1>3, <1>4, <1>5, Walks

LEMMA BansRefuse ==
  ASSUME RoomsKept, NEW t \in RoomThreads, job[t].pc \in {"bans", "roombans"}, up, ~mts_is_sysop(job[t].u),
         Continue(t, FALSE),
         up' = up, sessions' = sessions, room' = room, slots' = slots, nextId' = nextId, db' = db,
         unsaved' = unsaved, Plain(locked', muted', invited', sanctions', default')
  PROVE  RoomsKept'
<1>1. ~(t \in Sysops /\ life[t] = "in" /\ room[t] = 0)
  BY DEF RoomsKept, Present, Coming, mts_is_sysop
<1>2. job[t].pc \in Joins \cup {"mutes"}
  BY DEF Joins
<1> QED  BY <1>1, <1>2, ContinueKept

LEMMA CheckBansKept ==
  ASSUME RoomsKept, NEW t \in RoomThreads, CheckBans(t) \/ CheckRoomBans(t) PROVE RoomsKept'
<1> DEFINE j == job[t]
<1>1. j.pc \in {"bans", "roombans"} /\ up
  BY Running, IdleIs DEF CheckBans, CheckRoomBans
<1>2. /\ up' = up /\ sessions' = sessions /\ room' = room /\ slots' = slots /\ nextId' = nextId /\ db' = db
      /\ unsaved' = unsaved /\ Plain(locked', muted', invited', sanctions', default')
  BY SameTables DEF CheckBans, CheckRoomBans, Rest, memory, tables
<1>3. CASE Continue(t, FALSE) /\ ~mts_is_sysop(j.u)
  BY <1>1, <1>2, <1>3, BansRefuse
<1>4. CASE Start(t, [j EXCEPT !.pc = "roombans"]) /\ life' = life
  BY <1>1, <1>2, <1>4, BansMove
<1>5. CASE Start(t, Cleared(j)) /\ life' = life
  <2> DEFINE p == IF j.closed /\ ~mts_is_sysop(j.u) THEN "invited" ELSE "set"
  <2>1. Start(t, [j EXCEPT !.pc = p])
    BY <1>5 DEF Cleared
  <2>2. p \in {"roombans", "invited", "set"} /\ (j.u \in Sysops => p # "invited")
    BY DEF mts_is_sysop
  <2> HIDE DEF p
  <2> QED  BY <1>1, <1>2, <1>5, <2>1, <2>2, BansMove
<1> QED  BY <1>3, <1>4, <1>5 DEF CheckBans, CheckRoomBans, Unbanned

LEMMA CheckInvitedKept == ASSUME RoomsKept, NEW t \in RoomThreads, CheckInvited(t) PROVE RoomsKept'
<1> DEFINE j == job[t]
<1>1. j.pc = "invited" /\ up
  BY Running, IdleIs DEF CheckInvited
<1>2. /\ up' = up /\ sessions' = sessions /\ room' = room /\ slots' = slots /\ nextId' = nextId /\ db' = db
      /\ unsaved' = unsaved /\ Plain(locked', muted', invited', sanctions', default')
  BY SameTables DEF CheckInvited, Rest, memory, tables
<1>3. ~(t \in Sysops /\ life[t] = "in" /\ room[t] = 0)
  BY <1>1 DEF RoomsKept, Present, Coming
<1>4. CASE Continue(t, FALSE)
  <2>1. job[t].pc \in Joins \cup {"mutes"}
    BY <1>1 DEF Joins
  <2> QED  BY <1>1, <1>2, <1>3, <1>4, <2>1, ContinueKept
<1>5. CASE Start(t, [j EXCEPT !.pc = "set"]) /\ UNCHANGED life
  <2> DEFINE k == [j EXCEPT !.pc = "set"]
  <2>1. job' = [job EXCEPT ![t] = k] /\ life' = life
    BY <1>5 DEF Start
  <2>3. k \in Jobs /\ k.u = j.u /\ k.r = j.r /\ k.what = j.what /\ k.then = j.then /\ k.pc = "set"
    BY JobIs DEF Jobs, Places
  <2> HIDE DEF k
  <2>4. Says(t, k) /\ Fits(k, slots, nextId)
    <3>1. j.r # 0 /\ j.r < nextId
      BY <1>1, JobIs DEF Fits
    <3> QED  BY <1>1, <2>3, <3>1, JobIs, Onward DEF Joins
  <2>5. k.then # "leave"
    BY <2>3, <2>4 DEF Says
  <2> QED  BY <1>1, <1>2, <1>3, <2>1, <2>4, <2>5, Walks
<1> QED  BY <1>4, <1>5 DEF CheckInvited

LEMMA SetRoomKept == ASSUME RoomsKept, NEW t \in RoomThreads, SetRoom(t) PROVE RoomsKept'
<1> DEFINE j == job[t]
           p == IF room[j.u] \notin {0, j.r} THEN "empty" ELSE "mutes"
           k == [j EXCEPT !.old = room[j.u], !.pc = p]
<1>1. j.pc = "set" /\ up /\ j.u \in Callers /\ j.r # 0 /\ j.r < nextId /\ j.r \in RoomIds
  BY Running, IdleIs, JobIs, JobParts DEF SetRoom, Says, Joins, Fits
<1>2. /\ up' = up /\ sessions' = sessions /\ life' = life /\ slots' = slots /\ nextId' = nextId /\ db' = db
      /\ unsaved' = unsaved /\ Plain(locked', muted', invited', sanctions', default')
  BY SameTables DEF SetRoom, Rest, memory, tables
<1>3. job' = [job EXCEPT ![t] = k] /\ room' = [room EXCEPT ![j.u] = j.r]
  BY DEF SetRoom, Start
<1>4. room[j.u] \in RoomIds /\ room[j.u] < nextId
  BY <1>1, UpIs DEF RoomsKept
<1>5. p \in {"empty", "mutes"}
  OBVIOUS
<1> HIDE DEF p
<1>6. k \in Jobs /\ k.u = j.u /\ k.r = j.r /\ k.what = j.what /\ k.then = j.then /\ k.pc = p /\ k.old < nextId
  BY <1>4, <1>5, JobIs DEF Jobs, Places
<1>7. j.then # "leave"
  BY <1>1, JobIs DEF Says
<1>8. t \in Sysops /\ life[t] = "in" /\ room[t] = 0 => j.u = t
  BY DEF RoomsKept, Present, Coming
<1> HIDE DEF k
<1>9. Says(t, k) /\ Fits(k, slots, nextId)
  BY <1>1, <1>5, <1>6, JobIs, Onward DEF Joins
<1>10. \A u \in Callers : room'[u] = IF u = j.u THEN j.r ELSE room[u]
  BY <1>3 DEF RoomsKept
<1>11. room' \in [Callers -> RoomIds] /\ \A u \in Callers : room'[u] < nextId'
  BY <1>1, <1>2, <1>3, <1>10, UpIs DEF RoomsKept
<1>j. j = job[t]
  OBVIOUS
<1> HIDE DEF j
<1>12. ASSUME NEW u \in Sysops PROVE Present(u, life', room', IF u = t THEN k ELSE job[u])
  <2>1. Present(u, life, room, job[u]) /\ u \in Callers
    BY RoomBounds DEF RoomsKept
  <2> QED  BY <1>1, <1>2, <1>8, <1>10, <2>1 DEF Present
<1>13. \A v \in RoomThreads \ {t} : Leaving(job[v], life', sessions')
  BY <1>2 DEF RoomsKept
<1>14. k.then # "leave" /\ Leaving(k, life', sessions')
  BY <1>6, <1>7 DEF Leaving
<1>15. Later(slots, nextId, slots', nextId')
  BY <1>1, <1>2, UpIs, LaterSame
<1>16. life' \in [Callers -> {"out", "in", "exiting"}] /\ Listed(sessions', life')
  BY <1>2 DEF RoomsKept
<1>17. /\ slots' \in [Slots -> Room] /\ nextId' \in 1 .. MaxRoom + 1
       /\ Stands(slots', nextId', db', unsaved') /\ Rows(db') /\ up'
  BY <1>1, <1>2, UpIs
<1> QED
  BY <1>1, <1>2, <1>3, <1>9, <1>11, <1>12, <1>13, <1>14, <1>15, <1>16, <1>17, Shifts

(* Rooms that end keep their slots and their ids.                          *)
Ended(s, E) == [i \in Slots |-> IF i \in E THEN [s[i] EXCEPT !.active = FALSE] ELSE s[i]]

LEMMA EndedIs ==
  ASSUME NEW s \in [Slots -> Room], NEW n \in Nat, NEW d, NEW x, Stands(s, n, d, x),
         NEW E \in SUBSET (Slots \ {1})
  PROVE  LET e == Ended(s, E) IN
         /\ e \in [Slots -> Room] /\ Stands(e, n, d, x) /\ Later(s, n, e, n)
         /\ \A i \in Slots : e[i].id = s[i].id /\ (e[i].active <=> s[i].active /\ i \notin E)
<1> DEFINE e == Ended(s, E)
<1>1. ASSUME NEW i \in Slots
      PROVE  /\ e[i] \in Room /\ e[i].id = s[i].id /\ (e[i].active <=> s[i].active /\ i \notin E)
             /\ (i \notin E => e[i] = s[i]) /\ (s[i] = Free => e[i] = Free)
  <2>1. e[i] = IF i \in E THEN [s[i] EXCEPT !.active = FALSE] ELSE s[i]
    BY DEF Ended
  <2>2. CASE i \in E
    <3> DEFINE r == s[i]
               q == [r EXCEPT !.active = FALSE]
    <3>1. e[i] = q /\ r \in Room
      BY <2>1, <2>2
    <3> HIDE DEF r
    <3>2. q \in Room /\ q.id = r.id /\ ~q.active
      BY <3>1 DEF Room
    <3>3. r = Free => q = Free
      <4>1. r.active = FALSE => q = r
        BY <3>1 DEF Room
      <4> QED  BY <4>1, FreeIs
    <3> HIDE DEF q, e
    <3> QED  BY <2>2, <3>1, <3>2, <3>3 DEF r
  <2>3. CASE i \notin E
    BY <2>1, <2>3
  <2> QED  BY <2>2, <2>3
<1>2. e = [i \in Slots |-> e[i]]
  BY DEF Ended
<1> HIDE DEF e
<1>3. e \in [Slots -> Room]
  BY <1>1, <1>2
<1>4. Later(s, n, e, n)
  BY <1>1 DEF Later
<1>5. Stands(e, n, d, x)
  <2>1. e[1] = LobbyRoom
    BY <1>1, RoomBounds DEF Stands
  <2>2. \A i \in Slots : /\ e[i].id = Lobby => i = 1
                         /\ e[i].id = 0 => e[i] = Free
                         /\ e[i].active => e[i].id < n /\ e[i].id \in DOMAIN d \cup x
    BY <1>1 DEF Stands
  <2>3. \A i, k \in Slots : e[i].active /\ e[k].active /\ e[i].id = e[k].id => i = k
    BY <1>1 DEF Stands
  <2> QED  BY <2>1, <2>2, <2>3 DEF Stands
<1> QED  BY <1>1, <1>3, <1>4, <1>5 DEF e

LEMMA EmptyRoomKept == ASSUME RoomsKept, NEW t \in RoomThreads, EmptyRoom(t) PROVE RoomsKept'
<1> DEFINE j == job[t]
           E == Vacant(j.old)
           p == IF E # {} THEN "delete" ELSE "mutes"
           k == [j EXCEPT !.pc = p]
<1>1. j.pc = "empty" /\ up /\ j.old < nextId /\ j.old \in RoomIds
  BY Running, IdleIs, JobIs, JobParts DEF EmptyRoom, Fits
<1>2. /\ up' = up /\ sessions' = sessions /\ life' = life /\ room' = room /\ nextId' = nextId /\ db' = db
      /\ unsaved' = unsaved /\ Plain(locked', muted', invited', sanctions', default')
  BY SameTables DEF EmptyRoom, Rest, callers, tables
<1>3. job' = [job EXCEPT ![t] = k] /\ slots' = Ended(slots, E)
  BY DEF EmptyRoom, Start, Ended
<1>4. E \in SUBSET (Slots \ {1})
  BY <1>1, UpIs, FreeIs DEF Vacant, Stands
<1>5. /\ slots' \in [Slots -> Room] /\ Stands(slots', nextId, db, unsaved) /\ Later(slots, nextId, slots', nextId)
      /\ \A i \in Slots : slots'[i].id = slots[i].id /\ (slots'[i].active <=> slots[i].active /\ i \notin E)
  BY <1>1, <1>3, <1>4, UpIs, EndedIs
<1>6. E # {} => Closed(j.old, slots')
  BY <1>1, <1>5, UpIs DEF Vacant, Closed, Stands
<1>7. p \in {"delete", "mutes"} /\ (p = "delete" => E # {})
  OBVIOUS
<1> HIDE DEF p, E
<1>8. /\ k \in Jobs /\ k.u = j.u /\ k.r = j.r /\ k.what = j.what /\ k.then = j.then /\ k.pc = p /\ k.old = j.old
  BY <1>7, JobIs DEF Jobs, Places
<1>9. Fits(j, slots', nextId)
  BY <1>1, <1>5, JobIs, UpIs, LaterFits
<1> HIDE DEF k
<1>10. Says(t, k) /\ Fits(k, slots', nextId')
  BY <1>1, <1>2, <1>6, <1>7, <1>8, <1>9, JobIs, Onward DEF Joins
<1>11. t \in Sysops /\ life[t] = "in" /\ room[t] = 0 => Coming(t, k)
  BY <1>1 DEF RoomsKept, Present, Coming
<1>12. k.then = "leave" => /\ job[t].then = "leave" /\ k.u = job[t].u
                           /\ k.pc = "remove" <=> job[t].pc = "remove"
  BY <1>1, <1>7, <1>8
<1>13. nextId' \in 1 .. MaxRoom + 1 /\ Rows(db') /\ up'
  BY <1>1, <1>2, UpIs
<1> QED  BY <1>1, <1>2, <1>3, <1>5, <1>10, <1>11, <1>12, <1>13, Works

LEMMA DeletedIs ==
  ASSUME NEW d, Rows(d), NEW r
  PROVE  LET e == mts_store_delete_room(d, r) IN
         /\ Rows(e) /\ (Lobby \in DOMAIN d => Lobby \in DOMAIN e)
         /\ \A x \in DOMAIN d : x # r => x \in DOMAIN e
<1>1. CASE r = Lobby
  BY <1>1 DEF mts_store_delete_room
<1>2. CASE r # Lobby
  <2> DEFINE e == [x \in DOMAIN d \ {r} |-> d[x]]
  <2>1. mts_store_delete_room(d, r) = e
    BY <1>2 DEF mts_store_delete_room
  <2>2. DOMAIN e = DOMAIN d \ {r} /\ \A x \in DOMAIN e : e[x] = d[x]
    OBVIOUS
  <2> HIDE DEF e
  <2>3. Rows(e)
    BY <1>2, <2>2 DEF Rows
  <2> QED  BY <1>2, <2>1, <2>2, <2>3
<1> QED  BY <1>1, <1>2

LEMMA StandsWithout ==
  ASSUME NEW s, NEW n, NEW d, NEW e, NEW x, NEW r, Stands(s, n, d, x), Closed(r, s),
         Lobby \in DOMAIN e, \A y \in DOMAIN d : y # r => y \in DOMAIN e
  PROVE  Stands(s, n, e, x)
BY DEF Stands, Closed

LEMMA DeleteRoomKept == ASSUME RoomsKept, NEW t \in RoomThreads, DeleteRoom(t) PROVE RoomsKept'
<1> DEFINE j == job[t]
           k == [j EXCEPT !.pc = "mutes"]
<1>1. j.pc = "delete" /\ up /\ Closed(j.old, slots)
  BY Running, IdleIs, JobIs DEF DeleteRoom, Fits
<1>2. /\ up' = up /\ sessions' = sessions /\ life' = life /\ room' = room /\ nextId' = nextId /\ slots' = slots
      /\ unsaved' = unsaved /\ Plain(locked', muted', invited', sanctions', default')
  BY SameTables DEF DeleteRoom, Rest, callers, memory
<1>3. job' = [job EXCEPT ![t] = k] /\ db' = mts_store_delete_room(db, j.old)
  BY DEF DeleteRoom, Start
<1>4. Rows(db') /\ Stands(slots', nextId', db', unsaved')
  <2> DEFINE e == mts_store_delete_room(db, j.old)
  <2>1. Rows(db) /\ Stands(slots, nextId, db, unsaved) /\ Lobby \in DOMAIN db
    BY <1>1, UpIs DEF Stands
  <2>2. Rows(e) /\ Lobby \in DOMAIN e /\ \A x \in DOMAIN db : x # j.old => x \in DOMAIN e
    BY <2>1, DeletedIs
  <2> HIDE DEF e
  <2>3. Stands(slots, nextId, e, unsaved)
    BY <1>1, <2>1, <2>2, StandsWithout
  <2> QED  BY <1>2, <1>3, <2>2, <2>3 DEF e
<1>5. /\ k \in Jobs /\ k.u = j.u /\ k.r = j.r /\ k.what = j.what /\ k.then = j.then /\ k.pc = "mutes"
  BY JobIs DEF Jobs, Places
<1> HIDE DEF k
<1>6. Says(t, k) /\ Fits(k, slots', nextId')
  BY <1>1, <1>2, <1>5, JobIs, Onward
<1>7. t \in Sysops /\ life[t] = "in" /\ room[t] = 0 => Coming(t, k)
  BY <1>1 DEF RoomsKept, Present, Coming
<1>8. Later(slots, nextId, slots', nextId') /\ slots' \in [Slots -> Room] /\ nextId' \in 1 .. MaxRoom + 1 /\ up'
  BY <1>1, <1>2, UpIs, LaterSame
<1>9. k.then = "leave" => /\ job[t].then = "leave" /\ k.u = job[t].u
                          /\ k.pc = "remove" <=> job[t].pc = "remove"
  BY <1>1, <1>5
<1> QED  BY <1>1, <1>2, <1>3, <1>4, <1>6, <1>7, <1>8, <1>9, Works

LEMMA ReturnsKept == ASSUME RoomsKept, NEW t \in RoomThreads, Returns(t) PROVE RoomsKept'
<1> DEFINE j == job[t]
<1>1. j.pc = "mutes" /\ up
  BY Running, IdleIs DEF Returns
<1>2. /\ up' = up /\ sessions' = sessions /\ room' = room /\ nextId' = nextId /\ slots' = slots
      /\ unsaved' = unsaved /\ db' = db /\ locked' = locked /\ invited' = invited /\ sanctions' = sanctions
      /\ default' = default
  BY DEF Returns, Rest, tables, memory
<1>3. muted' \in [Callers -> BOOLEAN]
  BY DEF Returns, RoomsKept, Plain, mts_store_is_sanctioned
<1>4. Plain(locked', muted', invited', sanctions', default')
  BY <1>2, <1>3 DEF RoomsKept, Plain
<1>5. ~(t \in Sysops /\ life[t] = "in" /\ room[t] = 0)
  BY <1>1 DEF RoomsKept, Present, Coming
<1>6. Continue(t, TRUE)
  BY DEF Returns
<1> QED  BY <1>1, <1>2, <1>4, <1>5, <1>6, ContinueKept

(***************************************************************************)
(* Coming and going                                                        *)
(***************************************************************************)
LEMMA AppendedIs ==
  ASSUME NEW q \in Seq(Callers), IsInjective(q), NEW u \in Callers, u \notin ToSet(q)
  PROVE  LET e == Append(q, u) IN
         /\ e \in Seq(Callers) /\ IsInjective(e) /\ Len(e) = Len(q) + 1
         /\ ToSet(e) = ToSet(q) \cup {u}
<1> DEFINE e == Append(q, u)
<1>1. /\ e \in Seq(Callers) /\ Len(e) = Len(q) + 1 /\ Len(q) \in Nat
      /\ \A i \in 1 .. Len(q) : e[i] = q[i]
      /\ e[Len(q) + 1] = u
  OBVIOUS
<1>2. DOMAIN e = 1 .. Len(q) + 1 /\ DOMAIN q = 1 .. Len(q)
  OBVIOUS
<1> HIDE DEF e
<1>3. \A i \in DOMAIN e : (i \in DOMAIN q /\ e[i] = q[i]) \/ (i = Len(q) + 1 /\ e[i] = u)
  BY <1>1, <1>2
<1>4. \A i \in DOMAIN q : i \in DOMAIN e /\ e[i] = q[i] /\ q[i] # u
  BY <1>1, <1>2 DEF ToSet
<1>5. IsInjective(e)
  BY <1>1, <1>3, <1>4 DEF IsInjective
<1>6. ToSet(e) = ToSet(q) \cup {u}
  <2>1. Len(q) + 1 \in DOMAIN e
    BY <1>1, <1>2
  <2> QED  BY <1>1, <1>3, <1>4, <2>1 DEF ToSet
<1> QED  BY <1>1, <1>5, <1>6 DEF e

LEMMA EnterKept == ASSUME RoomsKept, NEW u \in Callers, Enter(u) PROVE RoomsKept'
<1> DEFINE r == mts_store_load_preferences(u)
           k == Joining(u, r, "enter")
<1>1. up /\ life[u] = "out" /\ job[u] = Idle /\ Len(sessions) < MaxUsers
  BY DEF Enter
<1>2. /\ up' = up /\ nextId' = nextId /\ slots' = slots /\ unsaved' = unsaved /\ db' = db /\ locked' = locked
      /\ invited' = invited /\ sanctions' = sanctions /\ default' = default
  BY DEF Enter, Rest, tables, memory
<1>3. /\ sessions' = Append(sessions, u) /\ life' = [life EXCEPT ![u] = "in"]
      /\ room' = [room EXCEPT ![u] = 0] /\ job' = [job EXCEPT ![u] = k]
      /\ muted' = [muted EXCEPT ![u] = FALSE]
  BY DEF Enter, Start
<1>4. r \in RoomIds
  BY RoomBounds DEF RoomsKept, Plain, mts_store_load_preferences
<1> HIDE DEF r
<1>5. k \in Jobs /\ k.pc = "look" /\ k.u = u /\ k.then = "enter" /\ Says(u, k) /\ Fits(k, slots', nextId')
  BY <1>4, JoiningIs, JoiningSays DEF Afters
<1> HIDE DEF k
<1>6. sessions \in Seq(Callers) /\ IsInjective(sessions) /\ u \notin ToSet(sessions) /\ Len(sessions) \in Nat
  <2>1. u \notin ToSet(sessions)
    BY <1>1 DEF RoomsKept, Listed, ToSet
  <2> QED  BY <2>1 DEF RoomsKept, Listed
<1>7. /\ sessions' \in Seq(Callers) /\ IsInjective(sessions') /\ Len(sessions') = Len(sessions) + 1
      /\ ToSet(sessions') = ToSet(sessions) \cup {u}
  BY <1>3, <1>6, AppendedIs
<1>8. /\ \A v \in Callers : life'[v] = IF v = u THEN "in" ELSE life[v]
      /\ \A v \in Callers : room'[v] = IF v = u THEN 0 ELSE room[v]
  BY <1>3 DEF RoomsKept
<1>9. life' \in [Callers -> {"out", "in", "exiting"}] /\ room' \in [Callers -> RoomIds]
  BY <1>3, RoomBounds DEF RoomsKept
<1>10. Listed(sessions', life')
  <2>1. Len(sessions') <= MaxUsers
    BY <1>1, <1>6, <1>7, RoomBounds
  <2>2. ASSUME NEW i \in DOMAIN sessions' PROVE life'[sessions'[i]] # "out"
    <3>1. sessions'[i] \in ToSet(sessions')
      BY DEF ToSet
    <3>2. CASE sessions'[i] = u
      BY <1>8, <3>2
    <3>3. CASE sessions'[i] \in ToSet(sessions)
      BY <1>6, <1>8, <3>3 DEF RoomsKept, Listed, ToSet
    <3> QED  BY <1>7, <3>1, <3>2, <3>3
  <2>3. \A v \in Callers : life'[v] = "in" => v \in ToSet(sessions')
    BY <1>7, <1>8 DEF RoomsKept, Listed
  <2> QED  BY <1>7, <2>1, <2>2, <2>3 DEF Listed
<1>11. \A v \in Callers : room'[v] < nextId'
  BY <1>1, <1>2, <1>8, UpIs DEF Stands
<1>12. Plain(locked', muted', invited', sanctions', default')
  BY <1>2, <1>3 DEF RoomsKept, Plain
<1>13. ASSUME NEW v \in RoomThreads \ {u} PROVE Leaving(job[v], life', sessions')
  <2>1. Leaving(job[v], life, sessions) /\ Says(v, job[v])
    BY JobIs
  <2>2. job[v].then = "leave" => job[v].u \in Callers /\ job[v].u # u
    BY <1>1, <2>1 DEF Says, Leaving
  <2> QED  BY <1>7, <1>8, <2>1, <2>2 DEF Leaving
<1>14. ASSUME NEW v \in Sysops PROVE Present(v, life', room', IF v = u THEN k ELSE job[v])
  <2>1. Present(v, life, room, job[v]) /\ v \in Callers
    BY RoomBounds DEF RoomsKept
  <2> QED  BY <1>5, <1>8, <2>1 DEF Present, Coming
<1>15. Leaving(k, life', sessions') /\ k.then # "leave"
  BY <1>5 DEF Leaving
<1>16. /\ Later(slots, nextId, slots', nextId') /\ slots' \in [Slots -> Room] /\ nextId' \in 1 .. MaxRoom + 1 /\ up'
       /\ Stands(slots', nextId', db', unsaved') /\ Rows(db')
  BY <1>1, <1>2, UpIs, LaterSame
<1>17. u \in RoomThreads
  BY RoomBounds
<1>18. \A v \in RoomThreads \ {u} :
         /\ Leaving(job[v], life', sessions')
         /\ k.then = "leave" /\ job[v].then = "leave" => job[v].u # k.u
  BY <1>13, <1>15
<1> QED
  BY <1>1, <1>3, <1>5, <1>9, <1>10, <1>11, <1>12, <1>14, <1>15, <1>16, <1>17, <1>18, Shifts

LEMMA CleanupKept ==
  ASSUME RoomsKept, up, NEW t \in RoomThreads, NEW u \in Callers, cleanup_instance(t, u), job[t] = Idle,
         t = u \/ t \notin Callers
  PROVE  RoomsKept'
<1> DEFINE k == [Idle EXCEPT !.pc = "remove", !.u = u, !.old = room[u], !.then = "leave"]
<1>1. life[u] = "in" /\ life' = [life EXCEPT ![u] = "exiting"] /\ job' = [job EXCEPT ![t] = k]
  BY DEF cleanup_instance, Start
<1>2. /\ up' = up /\ nextId' = nextId /\ slots' = slots /\ unsaved' = unsaved /\ db' = db
      /\ sessions' = sessions /\ room' = room /\ Plain(locked', muted', invited', sanctions', default')
  BY SameTables DEF cleanup_instance, Rest, tables, memory
<1>3. room[u] \in RoomIds /\ room[u] < nextId /\ u \in ToSet(sessions)
  BY <1>1, UpIs DEF RoomsKept, Listed
<1>4. k \in Jobs /\ k.pc = "remove" /\ k.u = u /\ k.old < nextId /\ k.then = "leave"
  <2>1. Idle \in Jobs
    BY IdleIs
  <2> QED  BY <1>3, <2>1 DEF Jobs, Places, Afters
<1> HIDE DEF k
<1>5. Says(t, k) /\ Fits(k, slots', nextId')
  BY <1>2, <1>4 DEF Says, Fits, Joins
<1>6. \A v \in Callers : life'[v] = IF v = u THEN "exiting" ELSE life[v]
  BY <1>1 DEF RoomsKept
<1>7. life' \in [Callers -> {"out", "in", "exiting"}] /\ room' \in [Callers -> RoomIds]
  BY <1>1, <1>2 DEF RoomsKept
<1>8. Listed(sessions', life')
  <2>1. Listed(sessions, life)
    BY DEF RoomsKept
  <2>2. ASSUME NEW i \in DOMAIN sessions PROVE life'[sessions[i]] # "out"
    <3>1. sessions[i] \in Callers /\ life[sessions[i]] # "out"
      BY <2>1 DEF Listed
    <3> QED  BY <1>6, <3>1
  <2> QED  BY <1>2, <1>6, <2>1, <2>2 DEF Listed
<1>9. Leaving(k, life', sessions')
  BY <1>2, <1>3, <1>4, <1>6 DEF Leaving
<1>10. ASSUME NEW v \in RoomThreads \ {t}
       PROVE  Leaving(job[v], life', sessions') /\ (job[v].then = "leave" => job[v].u # k.u)
  <2>1. Leaving(job[v], life, sessions) /\ Says(v, job[v])
    BY JobIs
  <2>2. job[v].then = "leave" => job[v].u \in Callers /\ job[v].u # u
    BY <1>1, <2>1 DEF Says, Leaving
  <2> QED  BY <1>2, <1>4, <1>6, <2>1, <2>2 DEF Leaving
<1>11. ASSUME NEW v \in Sysops PROVE Present(v, life', room', IF v = t THEN k ELSE job[v])
  <2>1. Present(v, life, room, job[v]) /\ v \in Callers
    BY RoomBounds DEF RoomsKept
  <2> QED  BY <1>2, <1>6, <2>1 DEF Present
<1>12. /\ Later(slots, nextId, slots', nextId') /\ slots' \in [Slots -> Room] /\ nextId' \in 1 .. MaxRoom + 1 /\ up'
       /\ Stands(slots', nextId', db', unsaved') /\ Rows(db') /\ \A v \in Callers : room'[v] < nextId'
  BY <1>2, UpIs, LaterSame
<1>13. \A v \in RoomThreads \ {t} :
         /\ Leaving(job[v], life', sessions')
         /\ k.then = "leave" /\ job[v].then = "leave" => job[v].u # k.u
  BY <1>10
<1> QED
  BY <1>1, <1>2, <1>5, <1>7, <1>8, <1>9, <1>11, <1>12, <1>13, Shifts

LEMMA UnlistedIs ==
  ASSUME NEW u, u \in ToSet(sessions), sessions \in Seq(Callers), IsInjective(sessions)
  PROVE  LET e == Unlisted(u) IN
         /\ e \in Seq(Callers) /\ IsInjective(e) /\ Len(e) = Len(sessions) - 1
         /\ ToSet(e) = ToSet(sessions) \ {u}
<1> DEFINE q == sessions
           n == Len(q)
           k == CHOOSE x \in 1 .. n : q[x] = u
           f == [q EXCEPT ![k] = q[n]]
           e == SubSeq(f, 1, n - 1)
<1>1. n \in Nat /\ DOMAIN q = 1 .. n /\ n >= 1
  BY DEF ToSet
<1>2. k \in 1 .. n /\ q[k] = u
  BY <1>1 DEF ToSet
<1> HIDE DEF k
<1>3. f \in Seq(Callers) /\ Len(f) = n /\ \A i \in 1 .. n : f[i] = IF i = k THEN q[n] ELSE q[i]
  BY <1>1, <1>2
<1> HIDE DEF f
<1>4. e \in Seq(Callers) /\ Len(e) = n - 1 /\ DOMAIN e = 1 .. n - 1 /\ \A i \in 1 .. n - 1 : e[i] = f[i]
  BY <1>1, <1>3
<1> HIDE DEF e
<1>5. \A i \in 1 .. n - 1 : e[i] = IF i = k THEN q[n] ELSE q[i]
  BY <1>1, <1>3, <1>4
<1>6. \A i, m \in 1 .. n : q[i] = q[m] => i = m
  BY <1>1 DEF IsInjective
<1> HIDE DEF q, n
<1>7. IsInjective(e)
  <2> SUFFICES ASSUME NEW i \in 1 .. n - 1, NEW m \in 1 .. n - 1, e[i] = e[m] PROVE i = m
    BY <1>4 DEF IsInjective
  <2>1. i \in 1 .. n /\ m \in 1 .. n /\ n \in 1 .. n /\ i # n /\ m # n
    BY <1>1
  <2>2. CASE i = k /\ m # k
    BY <1>5, <1>6, <2>1, <2>2
  <2>3. CASE m = k /\ i # k
    BY <1>5, <1>6, <2>1, <2>3
  <2>4. CASE i # k /\ m # k
    BY <1>5, <1>6, <2>1, <2>4
  <2> QED  BY <2>2, <2>3, <2>4
<1>8. ASSUME NEW x PROVE x \in ToSet(e) <=> x \in ToSet(q) /\ x # u
  <2>1. ASSUME x \in ToSet(e) PROVE x \in ToSet(q) /\ x # u
    <3>1. PICK i \in 1 .. n - 1 : x = e[i]
      BY <1>4, <2>1 DEF ToSet
    <3>2. i \in 1 .. n /\ n \in 1 .. n /\ i # n
      BY <1>1
    <3>3. CASE i = k
      BY <1>1, <1>2, <1>5, <1>6, <3>1, <3>2, <3>3 DEF ToSet
    <3>4. CASE i # k
      BY <1>1, <1>2, <1>5, <1>6, <3>1, <3>2, <3>4 DEF ToSet
    <3> QED  BY <3>3, <3>4
  <2>2. ASSUME x \in ToSet(q), x # u PROVE x \in ToSet(e)
    <3>1. PICK i \in 1 .. n : x = q[i]
      BY <1>1, <2>2 DEF ToSet
    <3>2. i # k
      BY <1>2, <2>2, <3>1
    <3>3. CASE i = n
      <4>1. k \in 1 .. n - 1 /\ e[k] = x
        BY <1>1, <1>2, <1>5, <3>1, <3>2, <3>3
      <4> QED  BY <1>4, <4>1 DEF ToSet
    <3>4. CASE i # n
      <4>1. i \in 1 .. n - 1 /\ e[i] = x
        BY <1>1, <1>5, <3>1, <3>2, <3>4
      <4> QED  BY <1>4, <4>1 DEF ToSet
    <3> QED  BY <3>3, <3>4
  <2> QED  BY <2>1, <2>2
<1>9. ToSet(e) = ToSet(q) \ {u}
  BY <1>8
<1>10. Unlisted(u) = e
  BY DEF Unlisted, e, f, k, n, q
<1> QED  BY <1>4, <1>7, <1>9, <1>10 DEF q, n

LEMMA DelistKept == ASSUME RoomsKept, NEW t \in RoomThreads, Delist(t) PROVE RoomsKept'
<1> DEFINE j == job[t]
           k == [j EXCEPT !.pc = "empty"]
<1>1. /\ j.pc = "remove" /\ up /\ j.then = "leave" /\ j.u \in Callers /\ j.old < nextId
      /\ j.u \in ToSet(sessions) /\ life[j.u] = "exiting"
  BY Running, IdleIs, JobIs DEF Delist, Says, Fits, Leaving
<1>2. /\ up' = up /\ nextId' = nextId /\ slots' = slots /\ unsaved' = unsaved /\ db' = db
      /\ life' = life /\ room' = room /\ Plain(locked', muted', invited', sanctions', default')
  BY SameTables DEF Delist, Rest, tables, memory
<1>3. job' = [job EXCEPT ![t] = k] /\ sessions' = Unlisted(j.u)
  BY DEF Delist, Start
<1>4. /\ k \in Jobs /\ k.u = j.u /\ k.r = j.r /\ k.what = j.what /\ k.then = j.then /\ k.pc = "empty" /\ k.old = j.old
  BY JobIs DEF Jobs, Places
<1> HIDE DEF k
<1>5. Says(t, k) /\ Fits(k, slots', nextId')
  BY <1>1, <1>2, <1>4, JobIs, Onward
<1>6. Listed(sessions, life)
  BY DEF RoomsKept
<1>7. /\ sessions' \in Seq(Callers) /\ IsInjective(sessions') /\ Len(sessions') = Len(sessions) - 1
      /\ ToSet(sessions') = ToSet(sessions) \ {j.u}
  BY <1>1, <1>3, <1>6, UnlistedIs DEF Listed
<1>j. j = job[t]
  OBVIOUS
<1> HIDE DEF j
<1>8. Listed(sessions', life')
  <2>1. Len(sessions') <= MaxUsers
    <3>1. Len(sessions) \in Nat /\ Len(sessions) <= MaxUsers
      BY <1>6 DEF Listed
    <3> QED  BY <1>7, <3>1, RoomBounds
  <2>2. ASSUME NEW i \in DOMAIN sessions' PROVE life'[sessions'[i]] # "out"
    <3>1. sessions'[i] \in ToSet(sessions)
      BY <1>7 DEF ToSet
    <3> QED  BY <1>2, <1>6, <3>1 DEF Listed, ToSet
  <2>3. \A v \in Callers : life'[v] = "in" => v \in ToSet(sessions')
    BY <1>1, <1>2, <1>6, <1>7 DEF Listed
  <2> QED  BY <1>7, <2>1, <2>2, <2>3 DEF Listed
<1>9. Leaving(k, life', sessions')
  BY <1>1, <1>2, <1>4, <1>7 DEF Leaving
<1>10. ASSUME NEW v \in RoomThreads \ {t}
       PROVE  /\ Leaving(job[v], life', sessions')
              /\ k.then = "leave" /\ job[v].then = "leave" => job[v].u # k.u
  <2>1. Leaving(job[v], life, sessions)
    BY JobIs
  <2>2. job[v].then = "leave" => job[v].u # j.u
    BY <1>j, <1>1 DEF RoomsKept
  <2> QED  BY <1>2, <1>4, <1>7, <2>1, <2>2 DEF Leaving
<1>11. ASSUME NEW v \in Sysops PROVE Present(v, life', room', IF v = t THEN k ELSE job[v])
  <2>1. Present(v, life, room, job[v])
    BY DEF RoomsKept
  <2> QED  BY <1>j, <1>1, <1>2, <2>1 DEF Present, Coming
<1>12. /\ Later(slots, nextId, slots', nextId') /\ slots' \in [Slots -> Room] /\ nextId' \in 1 .. MaxRoom + 1 /\ up'
       /\ Stands(slots', nextId', db', unsaved') /\ Rows(db') /\ \A v \in Callers : room'[v] < nextId'
  BY <1>1, <1>2, UpIs, LaterSame
<1>13. life' \in [Callers -> {"out", "in", "exiting"}] /\ room' \in [Callers -> RoomIds]
  BY <1>2 DEF RoomsKept
<1> QED  BY <1>2, <1>3, <1>5, <1>8, <1>9, <1>10, <1>11, <1>12, <1>13, Shifts

(***************************************************************************)
(* Commands that only begin                                                *)
(***************************************************************************)
LEMMA Settled ==
  ASSUME RoomsKept, NEW t \in RoomThreads, job[t].pc \notin {"look", "bans", "roombans", "set"}
  PROVE  ~(t \in Sysops /\ life[t] = "in" /\ room[t] = 0)
BY DEF RoomsKept, Present, Coming

LEMMA HandlesIs ==
  ASSUME RoomsKept, NEW t \in Callers, NEW c, Handles(t, c)
  PROVE  /\ up /\ t \in RoomThreads /\ job[t] = Idle /\ life[t] = "in"
         /\ ~(t \in Sysops /\ life[t] = "in" /\ room[t] = 0)
<1>1. up /\ t \in RoomThreads /\ job[t] = Idle /\ life[t] = "in"
  BY RoomBounds DEF Handles
<1> QED  BY <1>1, Settled, IdleIs

LEMMA StartKept ==
  ASSUME RoomsKept, NEW t \in Callers, NEW c, Handles(t, c), NEW k, Start(t, k),
         Rest(<<memory, callers, tables, unsaved>>),
         Says(t, k), Fits(k, slots, nextId), k.then # "leave"
  PROVE  RoomsKept'
<1>1. /\ up' = up /\ sessions' = sessions /\ life' = life /\ room' = room /\ slots' = slots /\ nextId' = nextId
      /\ db' = db /\ unsaved' = unsaved /\ Plain(locked', muted', invited', sanctions', default')
  BY SameTables DEF Rest, callers, tables, memory
<1>2. job' = [job EXCEPT ![t] = k]
  BY DEF Start
<1> QED  BY <1>1, <1>2, HandlesIs, Walks

LEMMA JoinsKept ==
  ASSUME RoomsKept, NEW t \in Callers, NEW c, Handles(t, c), NEW u \in Callers, NEW r \in RoomIds,
         Start(t, Joining(u, r, "none")), Rest(<<memory, callers, tables, unsaved>>)
  PROVE  RoomsKept'
<1> DEFINE k == Joining(u, r, "none")
<1>1. Says(t, k) /\ Fits(k, slots, nextId) /\ k.then # "leave"
  BY JoiningSays
<1>2. Start(t, k)
  OBVIOUS
<1> HIDE DEF k
<1> QED  BY <1>1, <1>2, StartKept

LEMMA FindIs ==
  ASSUME RoomsKept, NEW n, NEW i \in mts_find_room(n)
  PROVE  i \in Slots /\ slots[i].active /\ slots[i].id \in RoomIds
BY RoomParts DEF RoomsKept, mts_find_room

LEMMA CurrentIs ==
  ASSUME RoomsKept, NEW u, NEW i \in current_room(u)
  PROVE  i \in Slots /\ slots[i].active /\ slots[i].id \in RoomIds
BY RoomParts DEF RoomsKept, current_room

LEMMA JoinKept == ASSUME RoomsKept, NEW t \in Callers, NEW n, Join(t, n) PROVE RoomsKept'
BY FindIs, JoinsKept DEF Join

LEMMA LeaveKept == ASSUME RoomsKept, NEW t \in Callers, Leave(t) PROVE RoomsKept'
BY RoomBounds, JoinsKept DEF Leave

LEMMA KickKept == ASSUME RoomsKept, NEW t \in Callers, NEW u \in Callers, Kick(t, u) PROVE RoomsKept'
BY RoomBounds, JoinsKept DEF Kick

LEMMA DefaultRoomKept == ASSUME RoomsKept, NEW t \in Callers, NEW n, DefaultRoom(t, n) PROVE RoomsKept'
<1>1. PICK i \in mts_find_room(n) : Start(t, [Joining(t, slots[i].id, "default") EXCEPT !.slot = i])
  BY DEF DefaultRoom
<1>2. i \in Slots /\ slots[i].id \in RoomIds
  BY FindIs
<1> DEFINE j == Joining(t, slots[i].id, "default")
           k == [j EXCEPT !.slot = i]
<1>3. j \in Jobs /\ j.pc = "look" /\ j.u = t /\ j.then = "default"
  BY <1>2, JoiningIs DEF Afters
<1>4. Start(t, k)
  BY <1>1
<1> HIDE DEF j
<1>5. k \in Jobs /\ k.pc = "look" /\ k.u = t /\ k.then = "default"
  BY <1>2, <1>3 DEF Jobs
<1> HIDE DEF k
<1>6. Says(t, k) /\ Fits(k, slots, nextId) /\ k.then # "leave"
  BY <1>5 DEF Says, Fits, Joins
<1> QED  BY <1>4, <1>6, StartKept DEF DefaultRoom

LEMMA HeldKept ==
  ASSUME RoomsKept, NEW t \in Callers, NEW c, Handles(t, c), NEW i \in Slots, slots[i].active, slots[i].id # Lobby,
         NEW k \in Jobs, k.pc \in {"invite", "uninvite", "transfer", "rename"}, k.slot = i, k.then = "none",
         k.pc # "rename" => k.u \in Callers, k.pc = "rename" => k.what \in Room,
         Start(t, k), Rest(<<memory, callers, tables, unsaved>>)
  PROVE  RoomsKept'
<1>1. up
  BY HandlesIs
<1>2. slots[i].id # 0 /\ i # 1
  BY <1>1, UpIs, OpenHasId, LobbyOpen
<1>3. Says(t, k) /\ Fits(k, slots, nextId) /\ k.then # "leave"
  BY <1>2 DEF Says, Fits, Joins
<1> QED  BY <1>3, StartKept

LEMMA AdministerKept ==
  ASSUME RoomsKept, NEW t \in Callers, NEW u \in Callers, NEW c \in {"invite", "uninvite", "transfer"},
         Administer(t, c, u)
  PROVE  RoomsKept'
<1>1. PICK i \in current_room(t) : slots[i].id # Lobby /\ Start(t, Holding(c, u, i))
  BY DEF Administer
<1> DEFINE k == Holding(c, u, i)
<1>2. i \in Slots /\ slots[i].active
  BY CurrentIs
<1>3. c \in Places
  BY DEF Places
<1>4. k \in Jobs /\ Fresh(k, c, u, i)
  BY <1>2, <1>3, HoldingIs
<1>5. Start(t, k)
  BY <1>1
<1> HIDE DEF k
<1>6. k.pc = c /\ k.u = u /\ k.slot = i /\ k.then = "none"
  BY <1>4 DEF Fresh
<1> QED  BY <1>1, <1>2, <1>4, <1>5, <1>6, HeldKept DEF Administer

LEMMA RenameKept == ASSUME RoomsKept, NEW t \in Callers, NEW n \in Names, Rename(t, n) PROVE RoomsKept'
<1> DEFINE w == [Free EXCEPT !.name = Norm[n]]
<1>1. PICK i \in current_room(t) : slots[i].id # Lobby /\ Start(t, [Holding("rename", t, i) EXCEPT !.what = w])
  BY DEF Rename
<1>2. i \in Slots /\ slots[i].active
  BY CurrentIs
<1>3. w \in Room
  <2>1. Free \in Room /\ Norm[n] \in Titles
    BY FreeIs DEF Titles
  <2> QED  BY <2>1 DEF Room
<1> HIDE DEF w
<1> DEFINE j == Holding("rename", t, i)
           k == [j EXCEPT !.what = w]
<1>4. j \in Jobs /\ Fresh(j, "rename", t, i)
  <2>1. "rename" \in Places
    BY DEF Places
  <2> QED  BY <1>2, <2>1, HoldingIs
<1>5. Start(t, k)
  BY <1>1
<1> HIDE DEF j
<1>6. k \in Jobs /\ k.pc = "rename" /\ k.slot = i /\ k.then = "none" /\ k.what = w
  BY <1>3, <1>4 DEF Jobs, Fresh
<1> HIDE DEF k
<1> QED  BY <1>1, <1>2, <1>3, <1>5, <1>6, HeldKept DEF Rename

LEMMA ModerateKept ==
  ASSUME RoomsKept, NEW t \in Callers, NEW u \in Callers, NEW what \in Wrote, NEW global \in BOOLEAN,
         NEW add \in BOOLEAN, NEW named \in BOOLEAN, Moderate(t, u, what, global, add, named)
  PROVE  RoomsKept'
<1> DEFINE j == Holding("sanction", u, 1)
           k == [j EXCEPT !.what = what, !.r = IF global THEN 0 ELSE 1, !.closed = add,
                          !.then = IF named THEN "flag" ELSE "none"]
<1>1. Start(t, k) /\ Handles(t, what.table) /\ Rest(<<memory, callers, tables, unsaved>>)
  BY DEF Moderate
<1>2. j \in Jobs /\ Fresh(j, "sanction", u, 1)
  <2>1. "sanction" \in Places
    BY DEF Places
  <2> QED  BY <2>1, RoomBounds, HoldingIs
<1> HIDE DEF j
<1>3. k \in Jobs /\ k.pc = "sanction" /\ k.u = u /\ k.what = what /\ k.then \in {"flag", "none"}
  <2> DEFINE r == IF global THEN 0 ELSE 1
             a == IF named THEN "flag" ELSE "none"
  <2>1. r \in RoomIds /\ a \in Afters /\ a \in {"flag", "none"}
    BY RoomBounds DEF Lobby, Afters
  <2>2. k = [j EXCEPT !.what = what, !.r = r, !.closed = add, !.then = a]
    OBVIOUS
  <2> HIDE DEF r, a, k
  <2>3. k \in Jobs /\ k.pc = "sanction" /\ k.u = u /\ k.what = what /\ k.then = a
    BY <1>2, <2>1, <2>2 DEF Jobs, Fresh
  <2> QED  BY <2>1, <2>3
<1> HIDE DEF k
<1>4. Says(t, k) /\ Fits(k, slots, nextId) /\ k.then # "leave"
  BY <1>3 DEF Says, Fits, Joins
<1> QED  BY <1>1, <1>4, StartKept

LEMMA CloseKept == ASSUME RoomsKept, NEW t \in Callers, NEW n, Close(t, n) PROVE RoomsKept'
<1>1. PICK i \in mts_find_room(n) :
        slots[i].id # Lobby /\ Start(t, [Holding("evict", NoUser, i) EXCEPT !.r = slots[i].id])
  BY DEF Close
<1>2. i \in Slots /\ slots[i].active /\ slots[i].id \in RoomIds /\ up
  BY FindIs, HandlesIs DEF Close
<1>3. i # 1 /\ slots[i].id < nextId
  BY <1>1, <1>2, UpIs, OpenHasId, LobbyOpen
<1> DEFINE j == Holding("evict", NoUser, i)
           k == [j EXCEPT !.r = slots[i].id]
<1>4. j \in Jobs /\ Fresh(j, "evict", NoUser, i)
  <2>1. "evict" \in Places
    BY DEF Places
  <2> QED  BY <1>2, <2>1, HoldingIs
<1>5. Start(t, k)
  BY <1>1
<1> HIDE DEF j
<1>6. k \in Evicting /\ k.r = slots[i].id /\ k.slot = i
  BY <1>2, <1>3, <1>4 DEF Jobs, Evicting, Fresh
<1> HIDE DEF k
<1>7. k \in Jobs /\ k.pc = "evict" /\ k.then = "none"
  BY <1>6, EvictingIs
<1>8. Ends(k, slots, nextId)
  BY <1>2, <1>3, <1>6, UpIs DEF Ends, Stands
<1>9. Says(t, k) /\ Fits(k, slots, nextId) /\ k.then # "leave"
  BY <1>6, <1>7, <1>8 DEF Says, Fits, Joins
<1> QED  BY <1>5, <1>9, StartKept DEF Close

(***************************************************************************)
(* What handlers do with mts.db and MTS.rooms                              *)
(***************************************************************************)
LEMMA LeastOf ==
  ASSUME NEW S \in SUBSET Nat, S # {}
  PROVE  \E i \in S : \A j \in S : i <= j
<1>1. \E i \in S : \A j \in S : ~(<<j, i>> \in OpToRel(<, Nat))
  BY NatLessThanWellFounded, WFMin
<1>2. \A i, j \in S : ~(<<j, i>> \in OpToRel(<, Nat)) => i <= j
  BY DEF OpToRel
<1> QED  BY <1>1, <1>2

LEMMA SavedIs ==
  ASSUME NEW d, Rows(d), NEW x \in Room, x.id # 0, x.id = Lobby => x = LobbyRoom, Lobby \in DOMAIN d
  PROVE  LET e == mts_store_save_room(d, x) IN
         /\ Rows(e) /\ DOMAIN d \subseteq DOMAIN e /\ x.id \in DOMAIN e \cup Refused(d, x)
<1> DEFINE e == mts_store_save_room(d, x)
           row == [name |-> x.name, owner |-> x.owner, private |-> x.private, permanent |-> x.permanent]
           f == [k \in DOMAIN d \cup {x.id} |-> IF k = x.id THEN row ELSE d[k]]
<1>1. x.id \in DOMAIN e \cup Refused(d, x)
  BY DEF Refused
<1>2. CASE e = d
  BY <1>1, <1>2
<1>3. CASE e = f
  <2>1. DOMAIN f = DOMAIN d \cup {x.id} /\ \A k \in DOMAIN f : f[k] = IF k = x.id THEN row ELSE d[k]
    OBVIOUS
  <2>2. row \in Row /\ x.id \in RoomIds \ {0}
    BY DEF Room, Row
  <2>3. x.id = Lobby => row = LobbyRow
    <3> SUFFICES ASSUME x = LobbyRoom PROVE row = LobbyRow
      OBVIOUS
    <3>1. x.name = LobbyName /\ x.owner = NoUser /\ x.private = FALSE /\ x.permanent = TRUE
      BY FreeIs
    <3> QED  BY <3>1 DEF LobbyRow
  <2> HIDE DEF row, f, e
  <2>4. DOMAIN f \subseteq RoomIds \ {0} /\ \A k \in DOMAIN f : f[k] \in Row
    BY <2>1, <2>2 DEF Rows
  <2>5. Lobby \in DOMAIN f /\ f[Lobby] = LobbyRow
    BY <2>1, <2>3 DEF Rows
  <2>6. Rows(f)
    BY <2>4, <2>5 DEF Rows
  <2> QED  BY <1>1, <1>3, <2>1, <2>6 DEF e
<1>4. e = d \/ e = f
  BY DEF mts_store_save_room
<1> QED  BY <1>2, <1>3, <1>4

LEMMA StandsMore ==
  ASSUME NEW s, NEW n, NEW d, NEW e, NEW x, NEW y, Stands(s, n, d, x), DOMAIN d \subseteq DOMAIN e, x \subseteq y
  PROVE  Stands(s, n, e, y)
<1>1. n >= 2 /\ s[1] = LobbyRoom /\ Lobby \in DOMAIN e
  BY DEF Stands
<1>2. \A i \in Slots : /\ s[i].id = Lobby => i = 1
                       /\ s[i].id = 0 => s[i] = Free
                       /\ s[i].active => s[i].id < n /\ s[i].id \in DOMAIN e \cup y
  BY DEF Stands
<1>3. \A i, k \in Slots : s[i].active /\ s[k].active /\ s[i].id = s[k].id => i = k
  BY DEF Stands
<1> QED  BY <1>1, <1>2, <1>3 DEF Stands

LEMMA EditedIs ==
  ASSUME NEW s \in [Slots -> Room], NEW n \in Nat, NEW d, NEW x, Stands(s, n, d, x), NEW e \in [Slots -> Room],
         \A i \in Slots : /\ e[i].id = s[i].id /\ e[i].active = s[i].active
                          /\ s[i].id \in {0, Lobby} => e[i] = s[i]
  PROVE  Stands(e, n, d, x) /\ Later(s, n, e, n)
<1>1. Later(s, n, e, n)
  BY DEF Later
<1>2. e[1] = LobbyRoom
  BY RoomBounds, FreeIs DEF Stands
<1>3. \A i \in Slots : /\ e[i].id = Lobby => i = 1
                       /\ e[i].id = 0 => e[i] = Free
                       /\ e[i].active => e[i].id < n /\ e[i].id \in DOMAIN d \cup x
  BY DEF Stands
<1>4. \A i, k \in Slots : e[i].active /\ e[k].active /\ e[i].id = e[k].id => i = k
  BY DEF Stands
<1> QED  BY <1>1, <1>2, <1>3, <1>4 DEF Stands

LEMMA PreferKept == ASSUME RoomsKept, NEW t \in RoomThreads, Prefer(t) PROVE RoomsKept'
<1> DEFINE j == job[t]
<1>1. j.pc = "prefer" /\ up /\ j.slot \in Slots
  BY Running, IdleIs, JobIs, JobParts DEF Prefer
<1>2. /\ up' = up /\ sessions' = sessions /\ life' = life /\ room' = room /\ slots' = slots /\ nextId' = nextId
      /\ db' = db /\ unsaved' = unsaved /\ locked' = locked /\ invited' = invited /\ sanctions' = sanctions
      /\ muted' = muted
  BY DEF Prefer, Rest, callers, memory
<1>3. job' = [job EXCEPT ![t] = Idle] /\ default' = [default EXCEPT ![t] = slots[j.slot].id]
  BY DEF Prefer, Start, mts_store_save_preferences
<1>4. slots[j.slot].id \in RoomIds
  BY <1>1, UpIs, RoomParts
<1>5. Plain(locked', muted', invited', sanctions', default')
  BY <1>2, <1>3, <1>4 DEF RoomsKept, Plain
<1>6. ~(t \in Sysops /\ life[t] = "in" /\ room[t] = 0)
  BY <1>1, Settled
<1> QED  BY <1>1, <1>2, <1>3, <1>5, <1>6, Resting, IdleIs, Walks

LEMMA CreateKept == ASSUME RoomsKept, NEW t \in Callers, NEW n \in Names, Create(t, n) PROVE RoomsKept'
<1> DEFINE free == {i \in Slots : ~slots[i].active}
           f == CHOOSE i \in free : \A k \in free : i <= k
           made == [id |-> nextId, active |-> TRUE, name |-> n, owner |-> t, private |-> FALSE, permanent |-> FALSE]
<1>1. up /\ t \in RoomThreads
  BY HandlesIs DEF Create
<1>2. /\ up' = up /\ sessions' = sessions /\ life' = life /\ job' = job /\ locked' = locked /\ invited' = invited
      /\ sanctions' = sanctions /\ muted' = muted /\ default' = default
  BY DEF Create, Rest
<1>3. /\ slots' = [slots EXCEPT ![f] = made] /\ nextId' = nextId + 1 /\ db' = mts_store_save_room(db, made)
      /\ unsaved' = unsaved \cup Refused(db, made) /\ room' = [room EXCEPT ![t] = nextId]
      /\ free # {} /\ nextId <= MaxRoom
  BY DEF Create
<1>4. f \in free
  <2>1. free \in SUBSET Nat
    BY RoomBounds
  <2>2. \E i \in free : \A k \in free : i <= k
    <3> HIDE DEF free
    <3> QED  BY <1>3, <2>1, LeastOf
  <2> HIDE DEF free
  <2> QED  BY <2>2
<1>5. f \in Slots /\ ~slots[f].active
  BY <1>4
<1>6. nextId \in RoomIds /\ nextId >= 2 /\ nextId \in Nat
  BY <1>1, <1>3, UpIs, RoomBounds DEF RoomIds, Stands
<1>7. made \in Room /\ made.id = nextId /\ made.active
  BY <1>6 DEF Room, Titles
<1> HIDE DEF f, made
<1>8. f # 1
  BY <1>1, <1>5, UpIs, LobbyOpen
<1>9. Rows(db') /\ DOMAIN db \subseteq DOMAIN db' /\ nextId \in DOMAIN db' \cup unsaved'
  <2>1. Rows(db) /\ Lobby \in DOMAIN db /\ made.id # 0 /\ made.id # Lobby
    BY <1>1, <1>6, <1>7, UpIs DEF Stands, Lobby
  <2> DEFINE e == mts_store_save_room(db, made)
  <2>2. Rows(e) /\ DOMAIN db \subseteq DOMAIN e /\ made.id \in DOMAIN e \cup Refused(db, made)
    BY <1>7, <2>1, SavedIs
  <2> HIDE DEF e
  <2>3. db' = e
    BY <1>3 DEF e
  <2> QED  BY <1>3, <1>7, <2>2, <2>3
<1>10. slots' \in [Slots -> Room] /\ \A i \in Slots : slots'[i] = IF i = f THEN made ELSE slots[i]
  BY <1>1, <1>3, <1>7, UpIs
<1>11. Stands(slots', nextId', db', unsaved')
  <2>1. Stands(slots, nextId, db', unsaved')
    BY <1>1, <1>3, <1>9, UpIs, StandsMore
  <2>2. slots'[1] = LobbyRoom /\ nextId' >= 2 /\ Lobby \in DOMAIN db'
    BY <1>3, <1>6, <1>8, <1>10, <2>1, RoomBounds DEF Stands
  <2>3. ASSUME NEW i \in Slots
        PROVE  /\ slots'[i].id = Lobby => i = 1
               /\ slots'[i].id = 0 => slots'[i] = Free
               /\ slots'[i].active => slots'[i].id < nextId' /\ slots'[i].id \in DOMAIN db' \cup unsaved'
    <3>1. CASE i = f
      BY <1>3, <1>6, <1>7, <1>9, <1>10, <3>1 DEF Lobby
    <3>2. CASE i # f
      <4>1. slots'[i] = slots[i] /\ slots[i].id \in Nat /\ nextId' = nextId + 1
        BY <1>1, <1>3, <1>10, <3>2, UpIs, RoomParts
      <4> QED  BY <1>6, <2>1, <4>1 DEF Stands
    <3> QED  BY <3>1, <3>2
  <2>4. ASSUME NEW i \in Slots, NEW k \in Slots, slots'[i].active, slots'[k].active, slots'[i].id = slots'[k].id
        PROVE  i = k
    <3>1. \A m \in Slots : m # f /\ slots'[m].active => slots'[m] = slots[m] /\ slots[m].id < nextId /\ slots[m].id \in Nat
      BY <1>1, <1>10, <2>1, UpIs, RoomParts DEF Stands
    <3>2. slots'[f].id = nextId
      BY <1>5, <1>7, <1>10
    <3>3. CASE i = f \/ k = f
      BY <1>6, <2>4, <3>1, <3>2, <3>3
    <3>4. CASE i # f /\ k # f
      BY <2>1, <2>4, <3>1, <3>4 DEF Stands
    <3> QED  BY <3>3, <3>4
  <2> QED  BY <2>2, <2>3, <2>4 DEF Stands
<1>12. Later(slots, nextId, slots', nextId')
  BY <1>3, <1>6, <1>7, <1>10 DEF Later
<1>13. nextId' \in 1 .. MaxRoom + 1 /\ up'
  BY <1>1, <1>2, <1>3, <1>6, RoomBounds
<1>14. room' \in [Callers -> RoomIds] /\ \A u \in Callers : room'[u] = IF u = t THEN nextId ELSE room[u]
  BY <1>3, <1>6 DEF RoomsKept
<1>15. ASSUME NEW u \in Callers PROVE room'[u] < nextId' /\ (room'[u] = 0 => room[u] = 0)
  <2>1. room[u] < nextId /\ room[u] \in Nat
    BY <1>1, UpIs, RoomBounds DEF RoomsKept
  <2> QED  BY <1>3, <1>6, <1>14, <2>1
<1>16. Plain(locked', muted', invited', sanctions', default')
  BY <1>2, SameTables
<1> QED  BY <1>1, <1>2, <1>9, <1>10, <1>11, <1>12, <1>13, <1>14, <1>15, <1>16, Waits

LEMMA VisibilityKept == ASSUME RoomsKept, NEW t \in Callers, NEW p \in BOOLEAN, Visibility(t, p) PROVE RoomsKept'
<1> DEFINE of == {i \in Slots : slots[i].id = room[t] /\ room_admin(t, i) /\ slots[i].id # Lobby}
           changed == [i \in Slots |-> IF i \in of THEN [slots[i] EXCEPT !.private = p] ELSE slots[i]]
<1>1. up /\ t \in RoomThreads /\ life[t] = "in" /\ ~(t \in Sysops /\ life[t] = "in" /\ room[t] = 0)
  BY HandlesIs DEF Visibility
<1>2. /\ up' = up /\ sessions' = sessions /\ life' = life /\ job' = job /\ locked' = locked /\ invited' = invited
      /\ sanctions' = sanctions /\ muted' = muted /\ default' = default /\ unsaved' = unsaved /\ nextId' = nextId
      /\ room' = room
  BY DEF Visibility, Rest, callers
<1>3. slots' = changed
  BY DEF Visibility
<1>4. PICK i \in of : db' = mts_store_save_room(db, changed[i])
  BY DEF Visibility
<1>5. \A k \in of : slots[k].id \notin {0, Lobby}
  <2> SUFFICES ASSUME NEW k \in Slots, slots[k].id = 0, slots[k].id = room[t], room_admin(t, k) PROVE FALSE
    OBVIOUS
  <2>1. slots[k].owner = NoUser
    <3>1. slots[k] = Free
      BY <1>1, UpIs DEF Stands
    <3> HIDE DEF of, changed
    <3> QED  BY <3>1, FreeIs
  <2>2. t \in Sysops
    BY <2>1, RoomBounds DEF room_admin, mts_is_sysop
  <2> QED  BY <1>1, <2>2
<1>6. ASSUME NEW k \in Slots
      PROVE  /\ changed[k] \in Room /\ changed[k].id = slots[k].id /\ changed[k].active = slots[k].active
             /\ k \notin of => changed[k] = slots[k]
  <2> DEFINE r == slots[k]
  <2>1. r \in Room /\ changed[k] = IF k \in of THEN [r EXCEPT !.private = p] ELSE r
    BY <1>1, UpIs, RoomParts
  <2> HIDE DEF r, changed, of
  <2>2. changed[k] \in Room /\ changed[k].id = r.id /\ changed[k].active = r.active
        /\ (k \notin of => changed[k] = r)
    BY <2>1 DEF Room
  <2> QED  BY <2>2 DEF r
<1>7. changed \in [Slots -> Room]
  BY <1>6
<1>8. i \in Slots
  BY <1>4
<1> HIDE DEF changed
<1>9. Stands(changed, nextId, db, unsaved) /\ Later(slots, nextId, changed, nextId)
  <2>1. \A k \in Slots : /\ changed[k].id = slots[k].id /\ changed[k].active = slots[k].active
                         /\ slots[k].id \in {0, Lobby} => changed[k] = slots[k]
    BY <1>5, <1>6
  <2> QED  BY <1>1, <1>7, <2>1, UpIs, EditedIs
<1> DEFINE x == changed[i]
           e == mts_store_save_room(db, x)
<1>10. x \in Room /\ x.id # 0 /\ x.id # Lobby
  BY <1>4, <1>5, <1>6, <1>8
<1>11. db' = e
  BY <1>4
<1> HIDE DEF x
<1>12. Rows(e) /\ DOMAIN db \subseteq DOMAIN e
  BY <1>1, <1>10, UpIs, SavedIs DEF Stands
<1> HIDE DEF e
<1>13. Stands(changed, nextId, e, unsaved)
  BY <1>9, <1>12, StandsMore
<1>14. Plain(locked', muted', invited', sanctions', default')
  BY <1>2, SameTables
<1>15. room' \in [Callers -> RoomIds] /\ \A u \in Callers : room'[u] < nextId' /\ (room'[u] = 0 => room[u] = 0)
  BY <1>1, <1>2, UpIs DEF RoomsKept
<1>16. nextId' \in 1 .. MaxRoom + 1 /\ up'
  BY <1>1, <1>2, UpIs
<1> QED  BY <1>1, <1>2, <1>3, <1>7, <1>9, <1>11, <1>12, <1>13, <1>14, <1>15, <1>16, Waits

LEMMA StoppedKept == ASSUME RoomsKept, Stopped PROVE RoomsKept'
<1>1. /\ up' = FALSE /\ locked' = FALSE /\ sessions' = <<>> /\ life' = [u \in Callers |-> "out"]
      /\ room' = [u \in Callers |-> 0] /\ muted' = [u \in Callers |-> FALSE] /\ job' = [t \in RoomThreads |-> Idle]
      /\ slots' = slots /\ nextId' = nextId /\ db' = db /\ unsaved' = unsaved
      /\ invited' = invited /\ sanctions' = sanctions /\ default' = default
  BY DEF Stopped, Rest, tables
<1>2. Plain(locked', muted', invited', sanctions', default')
  BY <1>1 DEF RoomsKept, Plain
<1>3. /\ slots' \in [Slots -> Room] /\ nextId' \in 1 .. MaxRoom + 1 /\ Rows(db') /\ up' \in BOOLEAN /\ ~up'
      /\ life' \in [Callers -> {"out", "in", "exiting"}] /\ room' \in [Callers -> RoomIds]
  BY <1>1, RoomBounds DEF RoomsKept
<1>4. Listed(sessions', life')
  BY <1>1, RoomBounds DEF Listed, IsInjective
<1>5. Down(job', sessions', life', room')
  BY <1>1 DEF Down
<1>6. \A t \in RoomThreads : job'[t] = Idle
  BY <1>1
<1>7. \A t \in RoomThreads :
         Says(t, job'[t]) /\ Fits(job'[t], slots', nextId') /\ Leaving(job'[t], life', sessions')
  BY <1>6, Resting
<1>8. \A t, v \in RoomThreads :
         job'[t].then = "leave" /\ job'[v].then = "leave" /\ job'[t].u = job'[v].u => t = v
  BY <1>6, IdleIs
<1>9. \A u \in Sysops : Present(u, life', room', job'[u])
  BY <1>1, RoomBounds DEF Present
<1>10. job' = [t \in RoomThreads |-> job'[t]]
  BY <1>1
<1> QED  BY <1>2, <1>3, <1>4, <1>5, <1>7, <1>8, <1>9, <1>10, RoomsKeptNext

LEMMA StillKept ==
  ASSUME RoomsKept, up, up' = up, sessions' = sessions, life' = life, room' = room, job' = job, slots' = slots,
         nextId' = nextId, unsaved' = unsaved, Rows(db'), DOMAIN db \subseteq DOMAIN db',
         Plain(locked', muted', invited', sanctions', default'), NEW t \in RoomThreads
  PROVE  RoomsKept'
<1>1. Stands(slots', nextId', db', unsaved')
  BY UpIs, StandsMore
<1>2. Later(slots, nextId, slots', nextId') /\ slots' \in [Slots -> Room] /\ nextId' \in 1 .. MaxRoom + 1 /\ up'
  BY UpIs, LaterSame
<1>3. room' \in [Callers -> RoomIds] /\ \A u \in Callers : room'[u] < nextId' /\ (room'[u] = 0 => room[u] = 0)
  BY UpIs DEF RoomsKept
<1> QED  BY <1>1, <1>2, <1>3, Waits

LEMMA TopicKept == ASSUME RoomsKept, NEW t \in Callers, Topic(t) PROVE RoomsKept'
<1>1. up /\ t \in RoomThreads
  BY HandlesIs DEF Topic
<1>2. CASE Stopped
  BY <1>2, StoppedKept
<1>3. CASE \E i \in current_room(t) :
             /\ db' = mts_store_save_room(db, slots[i])
             /\ Rest(<<memory, callers, job, invited, sanctions, default, unsaved>>)
  <2>1. PICK i \in current_room(t) : db' = mts_store_save_room(db, slots[i])
    BY <1>3
  <2>2. i \in Slots /\ slots[i].active
    BY CurrentIs
  <2> DEFINE x == slots[i]
             e == mts_store_save_room(db, x)
  <2>3. x \in Room /\ x.id # 0 /\ (x.id = Lobby => x = LobbyRoom)
    <3>1. x \in Room /\ x.id # 0
      BY <1>1, <2>2, UpIs, OpenHasId, RoomParts
    <3>2. slots[i].id = Lobby => i = 1
      BY <1>1, <2>2, UpIs DEF Stands
    <3>3. slots[1] = LobbyRoom
      BY <1>1, UpIs DEF Stands
    <3> QED  BY <3>1, <3>2, <3>3
  <2>4. db' = e
    BY <2>1
  <2> HIDE DEF x
  <2>5. Rows(e) /\ DOMAIN db \subseteq DOMAIN e
    BY <1>1, <2>3, UpIs, SavedIs DEF Stands
  <2> HIDE DEF e
  <2>6. /\ up' = up /\ sessions' = sessions /\ life' = life /\ room' = room /\ job' = job /\ slots' = slots
        /\ nextId' = nextId /\ unsaved' = unsaved /\ Plain(locked', muted', invited', sanctions', default')
    BY <1>3, SameTables DEF Rest, memory, callers
  <2> QED  BY <1>1, <2>4, <2>5, <2>6, StillKept
<1> QED  BY <1>2, <1>3 DEF Topic

LEMMA ChatlockKept == ASSUME RoomsKept, NEW t \in Callers, Chatlock(t) PROVE RoomsKept'
<1>1. up /\ t \in RoomThreads
  BY HandlesIs DEF Chatlock
<1>2. /\ up' = up /\ sessions' = sessions /\ life' = life /\ room' = room /\ job' = job /\ slots' = slots
      /\ nextId' = nextId /\ unsaved' = unsaved /\ db' = db
      /\ locked' = ~locked /\ muted' = muted /\ invited' = invited /\ sanctions' = sanctions /\ default' = default
  BY DEF Chatlock, Rest, callers, tables
<1>3. Plain(locked', muted', invited', sanctions', default')
  BY <1>2 DEF RoomsKept, Plain
<1>4. Rows(db') /\ DOMAIN db \subseteq DOMAIN db'
  BY <1>1, <1>2, UpIs
<1> QED  BY <1>1, <1>2, <1>3, <1>4, StillKept

LEMMA BindKept ==
  ASSUME RoomsKept, NEW t \in RoomThreads, job[t].pc \in {"rename", "transfer"}, NEW x \in Room, Bind(t, x),
         x.id = slots[job[t].slot].id, x.active = slots[job[t].slot].active
  PROVE  RoomsKept'
<1> DEFINE j == job[t]
           k == [j EXCEPT !.pc = "save", !.what = x]
<1>1. up /\ j.slot \in Slots /\ j.slot # 1 /\ slots[j.slot].id # 0
  BY Running, IdleIs, JobIs, JobParts DEF Says, Fits
<1>2. /\ up' = up /\ sessions' = sessions /\ life' = life /\ room' = room /\ nextId' = nextId /\ db' = db
      /\ unsaved' = unsaved /\ Plain(locked', muted', invited', sanctions', default')
  BY SameTables DEF Bind, Rest, callers, tables
<1>3. job' = [job EXCEPT ![t] = k] /\ slots' = [slots EXCEPT ![j.slot] = x]
  BY DEF Bind, Start
<1>4. slots[j.slot].id # Lobby
  BY <1>1, UpIs DEF Stands
<1>5. slots' \in [Slots -> Room] /\ \A i \in Slots : slots'[i] = IF i = j.slot THEN x ELSE slots[i]
  BY <1>1, <1>3, UpIs
<1>6. Stands(slots', nextId, db, unsaved) /\ Later(slots, nextId, slots', nextId)
  <2>1. \A i \in Slots : /\ slots'[i].id = slots[i].id /\ slots'[i].active = slots[i].active
                         /\ slots[i].id \in {0, Lobby} => slots'[i] = slots[i]
    BY <1>1, <1>4, <1>5
  <2> QED  BY <1>1, <1>5, <2>1, UpIs, EditedIs
<1>7. k \in Jobs /\ k.pc = "save" /\ k.what = x /\ k.then = j.then
  BY JobIs DEF Jobs, Places
<1>8. j.then = "none"
  BY JobIs DEF Says
<1> HIDE DEF k
<1>9. Says(t, k) /\ Fits(k, slots', nextId') /\ k.then = "none"
  BY <1>1, <1>4, <1>7, <1>8 DEF Says, Fits, Joins
<1>10. ~(t \in Sysops /\ life[t] = "in" /\ room[t] = 0)
  BY Settled
<1>11. nextId' \in 1 .. MaxRoom + 1 /\ Rows(db') /\ up'
  BY <1>1, <1>2, UpIs
<1> QED  BY <1>1, <1>2, <1>3, <1>5, <1>6, <1>9, <1>10, <1>11, Works

LEMMA RenamedKept == ASSUME RoomsKept, NEW t \in RoomThreads, Renamed(t) PROVE RoomsKept'
<1> DEFINE r == slots[job[t].slot]
           x == [r EXCEPT !.name = job[t].what.name]
<1>1. job[t].pc = "rename" /\ Bind(t, x)
  BY DEF Renamed
<1>2. r \in Room
  <2>1. up /\ job[t].slot \in Slots
    BY <1>1, Running, IdleIs, JobIs, JobParts
  <2> QED  BY <2>1, UpIs, RoomParts
<1>3. job[t].what.name \in Titles
  <2>1. job[t].what \in Room
    BY <1>1, JobIs DEF Says
  <2> QED  BY <2>1 DEF Room
<1>r. r = slots[job[t].slot]
  OBVIOUS
<1> HIDE DEF r
<1>4. x \in Room /\ x.id = r.id /\ x.active = r.active
  BY <1>2, <1>3 DEF Room
<1> HIDE DEF x
<1> QED  BY <1>1, <1>4, <1>r, BindKept

LEMMA TransferKept == ASSUME RoomsKept, NEW t \in RoomThreads, Transfer(t) PROVE RoomsKept'
<1> DEFINE r == slots[job[t].slot]
           x == [r EXCEPT !.owner = job[t].u]
<1>1. job[t].pc = "transfer" /\ Bind(t, x)
  BY DEF Transfer
<1>2. r \in Room
  <2>1. up /\ job[t].slot \in Slots
    BY <1>1, Running, IdleIs, JobIs, JobParts
  <2> QED  BY <2>1, UpIs, RoomParts
<1>3. job[t].u \in Callers
  BY <1>1, JobIs DEF Says
<1>r. r = slots[job[t].slot]
  OBVIOUS
<1> HIDE DEF r
<1>4. x \in Room /\ x.id = r.id /\ x.active = r.active
  BY <1>2, <1>3 DEF Room
<1> HIDE DEF x
<1> QED  BY <1>1, <1>4, <1>r, BindKept

(* The last step of a handler, which may write rows that it does not       *)
(* remove.                                                                 *)
LEMMA LastKept ==
  ASSUME RoomsKept, NEW t \in RoomThreads, job[t].pc \notin {"look", "bans", "roombans", "set", "idle"},
         up' = up, sessions' = sessions, life' = life, room' = room, slots' = slots, nextId' = nextId,
         unsaved' = unsaved, Rows(db'), Stands(slots, nextId, db', unsaved),
         Plain(locked', muted', invited', sanctions', default'),
         NEW k, job' = [job EXCEPT ![t] = k], Says(t, k), Fits(k, slots, nextId), k.then # "leave"
  PROVE  RoomsKept'
<1>1. up
  BY Running, IdleIs
<1>2. Later(slots, nextId, slots', nextId') /\ slots' \in [Slots -> Room] /\ nextId' \in 1 .. MaxRoom + 1 /\ up'
  BY <1>1, UpIs, LaterSame
<1>3. ~(t \in Sysops /\ life[t] = "in" /\ room[t] = 0)
  BY Settled
<1> QED  BY <1>1, <1>2, <1>3, Works

LEMMA SaveRoomKept == ASSUME RoomsKept, NEW t \in RoomThreads, SaveRoom(t) PROVE RoomsKept'
<1> DEFINE x == job[t].what
           e == mts_store_save_room(db, x)
<1>1. job[t].pc = "save" /\ up /\ x \in Room /\ x.id \notin {0, Lobby}
  BY Running, IdleIs, JobIs DEF SaveRoom, Says
<1>2. /\ up' = up /\ sessions' = sessions /\ life' = life /\ room' = room /\ slots' = slots /\ nextId' = nextId
      /\ unsaved' = unsaved /\ Plain(locked', muted', invited', sanctions', default')
  BY SameTables DEF SaveRoom, Rest, memory, callers
<1>3. db' = e /\ job' = [job EXCEPT ![t] = Idle]
  BY DEF SaveRoom, Start
<1> HIDE DEF x
<1>4. Rows(e) /\ DOMAIN db \subseteq DOMAIN e
  BY <1>1, UpIs, SavedIs DEF Stands
<1> HIDE DEF e
<1>5. Stands(slots, nextId, e, unsaved)
  BY <1>1, <1>4, UpIs, StandsMore
<1> QED  BY <1>1, <1>2, <1>3, <1>4, <1>5, Resting, IdleIs, LastKept

LEMMA InvitationKept == ASSUME RoomsKept, NEW t \in RoomThreads, mts_store_invitation(t) PROVE RoomsKept'
<1> DEFINE j == job[t]
           pair == <<slots[j.slot].id, j.u>>
<1>1. j.pc \in {"invite", "uninvite"} /\ up /\ j.slot \in Slots /\ j.u \in Callers
  BY Running, IdleIs, JobIs, JobParts DEF mts_store_invitation, Says
<1>2. /\ up' = up /\ sessions' = sessions /\ life' = life /\ room' = room /\ slots' = slots /\ nextId' = nextId
      /\ unsaved' = unsaved /\ db' = db /\ locked' = locked /\ muted' = muted /\ sanctions' = sanctions
      /\ default' = default
  BY DEF mts_store_invitation, Rest, memory, callers
<1>3. job' = [job EXCEPT ![t] = Idle] /\ (invited' = invited \cup {pair} \/ invited' = invited \ {pair})
  BY DEF mts_store_invitation, Start
<1>4. pair \in RoomIds \X Callers
  BY <1>1, UpIs, RoomParts
<1>5. Plain(locked', muted', invited', sanctions', default')
  BY <1>2, <1>3, <1>4 DEF RoomsKept, Plain
<1>6. Rows(db') /\ Stands(slots, nextId, db', unsaved)
  BY <1>1, <1>2, UpIs
<1> QED  BY <1>1, <1>2, <1>3, <1>5, <1>6, Resting, IdleIs, LastKept

LEMMA WriteSanctionKept == ASSUME RoomsKept, NEW t \in RoomThreads, WriteSanction(t) PROVE RoomsKept'
<1> DEFINE j == job[t]
           r == IF j.r = 0 THEN 0 ELSE room[t]
           rows == {x \in sanctions : ~(x.table = j.what.table /\ x.room = r /\ x.user = j.u)}
           row == [table |-> j.what.table, room |-> r, user |-> j.u, temporary |-> j.what.temporary]
           k == IF j.then = "flag" THEN [j EXCEPT !.pc = "flag", !.then = "none"] ELSE Idle
<1>1. j.pc = "sanction" /\ up /\ j.u \in Callers /\ j.what \in Wrote
  BY Running, IdleIs, JobIs DEF WriteSanction, Says
<1>2. /\ up' = up /\ sessions' = sessions /\ life' = life /\ room' = room /\ slots' = slots /\ nextId' = nextId
      /\ unsaved' = unsaved /\ db' = db /\ locked' = locked /\ muted' = muted /\ invited' = invited
      /\ default' = default
  BY DEF WriteSanction, Rest, memory, callers
<1>3. job' = [job EXCEPT ![t] = k]
  BY DEF WriteSanction, Start
<1>4. sanctions' = IF j.closed THEN rows \cup {row} ELSE rows
  BY DEF WriteSanction, mts_store_sanction
<1>5. sanctions' \subseteq Sanction
  <2>1. r \in RoomIds
    BY <1>1, JobIs, RoomBounds DEF RoomsKept, Says
  <2> HIDE DEF r
  <2>2. row \in Sanction
    BY <1>1, <2>1 DEF Sanction, Wrote
  <2>3. rows \subseteq Sanction
    BY DEF RoomsKept, Plain
  <2> HIDE DEF row, rows
  <2> QED  BY <1>4, <2>2, <2>3
<1>6. Plain(locked', muted', invited', sanctions', default')
  BY <1>2, <1>5 DEF RoomsKept, Plain
<1>7. Rows(db') /\ Stands(slots, nextId, db', unsaved)
  BY <1>1, <1>2, UpIs
<1>8. Says(t, k) /\ Fits(k, slots, nextId) /\ k.then # "leave"
  <2>1. CASE j.then = "flag"
    <3> DEFINE f == [j EXCEPT !.pc = "flag", !.then = "none"]
    <3>1. k = f
      BY <2>1
    <3>2. f \in Jobs /\ f.pc = "flag" /\ f.then = "none" /\ f.u = j.u /\ f.what = j.what
      BY JobIs DEF Jobs, Places, Afters
    <3> HIDE DEF f, k
    <3>3. Says(t, f) /\ Fits(f, slots, nextId)
      BY <1>1, <3>2 DEF Says, Fits, Joins
    <3> QED  BY <3>1, <3>2, <3>3
  <2>2. CASE j.then # "flag"
    <3>1. k = Idle
      BY <2>2
    <3> HIDE DEF k
    <3> QED  BY <3>1, Resting, IdleIs
  <2> QED  BY <2>1, <2>2
<1> HIDE DEF k, j
<1>9. job[t].pc \notin {"look", "bans", "roombans", "set", "idle"}
  BY <1>1 DEF j
<1> QED  BY <1>2, <1>3, <1>6, <1>7, <1>8, <1>9, LastKept

LEMMA FlagKept == ASSUME RoomsKept, NEW t \in RoomThreads, Flag(t) PROVE RoomsKept'
<1> DEFINE j == job[t]
           k == IF j.closed /\ j.what.table = "bans" THEN Joining(j.u, Lobby, "none") ELSE Idle
<1>1. j.pc = "flag" /\ up /\ j.u \in Callers
  BY Running, IdleIs, JobIs DEF Flag, Says
<1>2. /\ up' = up /\ sessions' = sessions /\ life' = life /\ room' = room /\ slots' = slots /\ nextId' = nextId
      /\ unsaved' = unsaved /\ db' = db /\ locked' = locked /\ sanctions' = sanctions /\ invited' = invited
      /\ default' = default
  BY DEF Flag, Rest, memory, tables
<1>3. job' = [job EXCEPT ![t] = k] /\ muted' \in [Callers -> BOOLEAN]
  BY DEF Flag, Start, RoomsKept, Plain, mts_store_is_sanctioned
<1>4. Plain(locked', muted', invited', sanctions', default')
  BY <1>2, <1>3 DEF RoomsKept, Plain
<1>5. Rows(db') /\ Stands(slots, nextId, db', unsaved)
  BY <1>1, <1>2, UpIs
<1>6. k = Idle \/ k = Joining(j.u, Lobby, "none")
  OBVIOUS
<1>7. Says(t, k) /\ Fits(k, slots, nextId) /\ k.then # "leave"
  <2> HIDE DEF k
  <2>1. CASE k = Idle
    BY <2>1, Resting, IdleIs
  <2>2. CASE k = Joining(j.u, Lobby, "none")
    BY <1>1, <2>2, JoiningSays, RoomBounds
  <2> QED  BY <1>6, <2>1, <2>2
<1> HIDE DEF k
<1> QED  BY <1>1, <1>2, <1>3, <1>4, <1>5, <1>7, LastKept

LEMMA EvictKept == ASSUME RoomsKept, NEW t \in RoomThreads, Evict(t) PROVE RoomsKept'
<1> DEFINE j == job[t]
           here == {k \in DOMAIN sessions : k >= j.i /\ room[sessions[k]] = j.r}
           f == CHOOSE x \in here : \A y \in here : x <= y
           w == [j EXCEPT !.i = f]
           q == Joining(sessions[f], Lobby, "close")
           go == IF here = {} THEN [j EXCEPT !.pc = "shut"] ELSE [q EXCEPT !.what = w]
<1>1. /\ j.pc = "evict" /\ up /\ j \in Evicting /\ t \in Callers /\ Ends(j, slots, nextId) /\ Says(t, j)
  BY Running, IdleIs, JobIs DEF Evict, Says, Fits
<1>2. /\ up' = up /\ sessions' = sessions /\ life' = life /\ room' = room /\ slots' = slots /\ nextId' = nextId
      /\ unsaved' = unsaved /\ db' = db /\ Plain(locked', muted', invited', sanctions', default')
  BY SameTables DEF Evict, Rest, memory, callers, tables
<1>3. job' = [job EXCEPT ![t] = go]
  BY DEF Evict, Start
<1>4. Rows(db') /\ Stands(slots, nextId, db', unsaved)
  BY <1>1, <1>2, UpIs
<1>5. job[t].pc \notin {"look", "bans", "roombans", "set", "idle"}
  BY <1>1
<1>6. Says(t, go) /\ Fits(go, slots, nextId) /\ go.then # "leave"
  <2>1. CASE here = {}
    <3> DEFINE k == [j EXCEPT !.pc = "shut"]
    <3>1. go = k
      BY <2>1
    <3> HIDE DEF go, j
    <3>2. /\ k \in Jobs /\ k.pc = "shut" /\ k.then = "none" /\ k.r = j.r /\ k.slot = j.slot /\ k.slot # 1
      BY <1>1, EvictingIs DEF Jobs, Places
    <3> HIDE DEF k
    <3>3. Ends(k, slots, nextId)
      BY <1>1, <3>2 DEF Ends
    <3>4. Says(t, k) /\ Fits(k, slots, nextId)
      BY <1>1, <3>2, <3>3 DEF Says, Fits, Joins
    <3> QED  BY <3>1, <3>2, <3>4
  <2>2. CASE here # {}
    <3>1. sessions \in Seq(Callers)
      BY DEF RoomsKept, Listed
    <3>2. f \in here
      <4>1. here \in SUBSET Nat
        BY <3>1
      <4>2. \E x \in here : \A y \in here : x <= y
        <5> HIDE DEF here
        <5> QED  BY <2>2, <4>1, LeastOf
      <4> HIDE DEF here
      <4> QED  BY <4>2
    <3>3. f \in Nat /\ sessions[f] \in Callers
      BY <3>1, <3>2
    <3> DEFINE k == [q EXCEPT !.what = w]
    <3>4. go = k
      BY <2>2
    <3> HIDE DEF f, go, j
    <3>5. w \in Evicting /\ w.r = j.r /\ w.slot = j.slot
      BY <1>1, <3>3 DEF Evicting
    <3>6. Ends(w, slots, nextId)
      BY <1>1, <3>5 DEF Ends
    <3>7. q \in Jobs /\ q.pc = "look" /\ q.u = sessions[f] /\ q.then = "close"
      BY <3>3, JoiningIs, RoomBounds DEF Afters
    <3> HIDE DEF w, q
    <3>8. k \in Jobs /\ k.pc = "look" /\ k.u = sessions[f] /\ k.then = "close" /\ k.what = w
      BY <3>5, <3>7 DEF Jobs
    <3> HIDE DEF k
    <3>9. Says(t, k) /\ Fits(k, slots, nextId)
      BY <1>1, <3>3, <3>5, <3>6, <3>8 DEF Says, Fits, Joins
    <3> QED  BY <3>4, <3>8, <3>9
  <2> QED  BY <2>1, <2>2
<1> HIDE DEF go
<1> QED  BY <1>2, <1>3, <1>4, <1>5, <1>6, LastKept

LEMMA ShutKept == ASSUME RoomsKept, NEW t \in RoomThreads, Shut(t) PROVE RoomsKept'
<1> DEFINE j == job[t]
           k == [j EXCEPT !.pc = "erase"]
           E == {j.slot}
<1>1. /\ j.pc = "shut" /\ up /\ j.slot # 1 /\ j.slot \in Slots /\ Ends(j, slots, nextId)
      /\ j.then # "leave" /\ Says(t, j) /\ Fits(j, slots, nextId)
  BY Running, IdleIs, JobIs, JobParts DEF Shut, Says, Fits
<1>2. /\ up' = up /\ sessions' = sessions /\ life' = life /\ room' = room /\ nextId' = nextId /\ db' = db
      /\ unsaved' = unsaved /\ Plain(locked', muted', invited', sanctions', default')
  BY SameTables DEF Shut, Rest, callers, tables
<1>3. job' = [job EXCEPT ![t] = k] /\ slots' = [slots EXCEPT ![j.slot].active = FALSE]
  BY DEF Shut, Start
<1>4. slots' = Ended(slots, E)
  <2>1. slots = [i \in Slots |-> slots[i]]
    BY <1>1, UpIs
  <2> HIDE DEF j
  <2> QED  BY <1>3, <2>1 DEF Ended
<1>5. E \in SUBSET (Slots \ {1})
  BY <1>1
<1>6. /\ slots' \in [Slots -> Room] /\ Stands(slots', nextId, db, unsaved) /\ Later(slots, nextId, slots', nextId)
      /\ \A i \in Slots : slots'[i].id = slots[i].id /\ (slots'[i].active <=> slots[i].active /\ i \notin E)
  BY <1>1, <1>4, <1>5, UpIs, EndedIs
<1>7. j.r < nextId /\ Closed(j.r, slots')
  BY <1>1, <1>6 DEF Ends, Closed
<1>8. Fits(j, slots', nextId)
  BY <1>1, <1>6, UpIs, LaterFits
<1>9. k \in Jobs /\ k.pc = "erase" /\ k.then = j.then /\ k.r = j.r /\ k.what = j.what
  BY JobIs DEF Jobs, Places
<1>10. ~(t \in Sysops /\ life[t] = "in" /\ room[t] = 0)
  BY <1>1, Settled
<1>11. nextId' \in 1 .. MaxRoom + 1 /\ Rows(db') /\ up'
  BY <1>1, <1>2, UpIs
<1> HIDE DEF k
<1>12. Says(t, k) /\ Fits(k, slots', nextId') /\ k.then # "leave"
  BY <1>1, <1>2, <1>7, <1>8, <1>9 DEF Says, Fits, Joins
<1> QED  BY <1>1, <1>2, <1>3, <1>6, <1>10, <1>11, <1>12, Works

LEMMA EraseKept == ASSUME RoomsKept, NEW t \in RoomThreads, Erase(t) PROVE RoomsKept'
<1> DEFINE r == job[t].r
           e == mts_store_delete_room(db, r)
<1>1. job[t].pc = "erase" /\ up /\ Closed(r, slots)
  BY Running, IdleIs, JobIs DEF Erase, Fits
<1>2. /\ up' = up /\ sessions' = sessions /\ life' = life /\ room' = room /\ slots' = slots /\ nextId' = nextId
      /\ unsaved' = unsaved /\ Plain(locked', muted', invited', sanctions', default')
  BY SameTables DEF Erase, Rest, callers, memory
<1>3. job' = [job EXCEPT ![t] = Idle] /\ db' = e
  BY DEF Erase, Start
<1> HIDE DEF r
<1>4. Rows(db) /\ Stands(slots, nextId, db, unsaved) /\ Lobby \in DOMAIN db
  BY <1>1, UpIs DEF Stands
<1>5. Rows(e) /\ Lobby \in DOMAIN e /\ \A x \in DOMAIN db : x # r => x \in DOMAIN e
  BY <1>4, DeletedIs
<1> HIDE DEF e
<1>6. Stands(slots, nextId, e, unsaved)
  BY <1>1, <1>4, <1>5, StandsWithout
<1> QED  BY <1>1, <1>2, <1>3, <1>5, <1>6, Resting, IdleIs, LastKept

LEMMA ExpireKept == ASSUME RoomsKept, Expire PROVE RoomsKept'
<1>1. /\ up' = up /\ sessions' = sessions /\ life' = life /\ room' = room /\ slots' = slots /\ nextId' = nextId
      /\ unsaved' = unsaved /\ db' = db /\ job' = job /\ locked' = locked /\ muted' = muted
      /\ invited' = invited /\ default' = default /\ sanctions' \subseteq sanctions
  BY DEF Expire, Rest, memory, callers
<1>2. Plain(locked', muted', invited', sanctions', default')
  BY <1>1 DEF RoomsKept, Plain
<1> QED  BY <1>1, <1>2, RoomsKeptNext DEF RoomsKept

(***************************************************************************)
(* mts_state_init.  What a fold over the configured rooms is: a function   *)
(* of the sets of their numbers that takes the last of each, which exists  *)
(* because it exists for the sets of at most m, whatever m is.             *)
(***************************************************************************)
LEMMA MaxIs ==
  ASSUME NEW S \in SUBSET Nat, NEW n \in Nat, \A x \in S : x <= n, S # {}
  PROVE  \E x \in S : \A y \in S : y <= x
<1> DEFINE B == {m \in Nat : \A x \in S : x <= m}
<1>1. PICK b \in B : \A m \in B : b <= m
  <2>1. B \in SUBSET Nat /\ B # {}
    OBVIOUS
  <2> HIDE DEF B
  <2> QED  BY <2>1, LeastOf
<1>2. b \in S
  <2> SUFFICES ASSUME b \notin S PROVE FALSE
    OBVIOUS
  <2>1. \A x \in S : x <= b - 1 /\ x \in Nat
    BY <1>1
  <2>2. b \in Nat /\ b - 1 \in Nat
    <3>1. b \in Nat
      BY <1>1
    <3>2. PICK x \in S : TRUE
      OBVIOUS
    <3>3. x <= b - 1 /\ x \in Nat
      BY <2>1
    <3> HIDE DEF B
    <3> QED  BY <3>1, <3>3
  <2>3. b - 1 \in B
    BY <2>1, <2>2
  <2> HIDE DEF B
  <2>4. b <= b - 1
    BY <1>1, <2>3
  <2> QED  BY <2>2, <2>4
<1> QED  BY <1>1, <1>2

Turn(base, seq, g, s) == IF s = {} THEN base ELSE Configure(g[s \ {Max(s)}], seq[Max(s)])
Turns(base, seq, g, m) ==
  \A s \in SUBSET (DOMAIN seq) : Cardinality(s) <= m => g[s] = Turn(base, seq, g, s)
Configured(base, seq) == FoldLeft(Configure, base, seq)

LEMMA LastOf ==
  ASSUME NEW n \in Nat, NEW s \in SUBSET (1 .. n), s # {}
  PROVE  /\ Max(s) \in s /\ IsFiniteSet(s) /\ Cardinality(s) \in Nat /\ Cardinality(s) >= 1
         /\ Cardinality(s \ {Max(s)}) = Cardinality(s) - 1
<1>1. \E x \in s : \A y \in s : x >= y
  <2>1. s \in SUBSET Nat /\ \A x \in s : x <= n
    OBVIOUS
  <2>2. \E x \in s : \A y \in s : y <= x
    BY <2>1, MaxIs
  <2> QED  BY <2>1, <2>2
<1>2. Max(s) \in s
  BY <1>1 DEF Max
<1>3. IsFiniteSet(s)
  <2>1. IsFiniteSet(1 .. n)
    BY FS_Interval
  <2> QED  BY <2>1, FS_Subset
<1>4. Cardinality(s) \in Nat /\ Cardinality(s) # 0
  BY <1>3, FS_CardinalityType, FS_EmptySet
<1>5. Cardinality(s \ {Max(s)}) = Cardinality(s) - 1
  BY <1>2, <1>3, FS_RemoveElement
<1> QED  BY <1>2, <1>3, <1>4, <1>5

LEMMA TurnsExist ==
  ASSUME NEW base, NEW seq, NEW n \in Nat, DOMAIN seq = 1 .. n, NEW m \in Nat
  PROVE  \E g : g = [s \in SUBSET (DOMAIN seq) |-> g[s]] /\ Turns(base, seq, g, m)
<1> DEFINE All == SUBSET (DOMAIN seq)
           Total(g) == g = [s \in All |-> g[s]]
           Bad == {k \in Nat : ~ \E g : Total(g) /\ Turns(base, seq, g, k)}
<1>0. \A s \in All : Cardinality(s) \in Nat /\ (Cardinality(s) <= 0 => s = {})
  <2> TAKE s \in All
  <2>1. s \in SUBSET (1 .. n)
    OBVIOUS
  <2>2. CASE s = {}
    BY <2>2, FS_EmptySet
  <2>3. CASE s # {}
    <3>1. Cardinality(s) \in Nat /\ Cardinality(s) >= 1
      BY <2>1, <2>3, LastOf
    <3> QED  BY <3>1
  <2> QED  BY <2>2, <2>3
<1>1. SUFFICES Bad = {}
  <2> HIDE DEF Total
  <2> QED  BY DEF Total
<1>2. SUFFICES ASSUME Bad # {} PROVE FALSE
  OBVIOUS
<1>3. PICK k \in Bad : \A i \in Bad : k <= i
  <2>1. Bad \in SUBSET Nat
    OBVIOUS
  <2> HIDE DEF Bad
  <2> QED  BY <1>2, <2>1, LeastOf
<1>4. k # 0
  <2> DEFINE g == [s \in All |-> base]
  <2>1. \A s \in All : Cardinality(s) <= 0 => g[s] = Turn(base, seq, g, s)
    BY <1>0 DEF Turn
  <2>2. Total(g) /\ Turns(base, seq, g, 0)
    BY <2>1 DEF Turns
  <2> HIDE DEF g, Total
  <2> QED  BY <2>2
<1>5. k \in Nat /\ k - 1 \in Nat /\ k - 1 \notin Bad
  <2>1. k \in Nat
    OBVIOUS
  <2> HIDE DEF Bad
  <2> QED  BY <1>3, <1>4, <2>1
<1>6. PICK g : Total(g) /\ Turns(base, seq, g, k - 1)
  <2> HIDE DEF Total
  <2> QED  BY <1>5
<1> DEFINE h == [s \in All |-> IF Cardinality(s) <= k - 1 THEN g[s] ELSE Turn(base, seq, g, s)]
<1>7. ASSUME NEW s \in All, Cardinality(s) <= k PROVE h[s] = Turn(base, seq, h, s)
  <2>1. Turn(base, seq, h, s) = Turn(base, seq, g, s)
    <3>1. CASE s = {}
      BY <3>1 DEF Turn
    <3>2. CASE s # {}
      <4>1. s \in SUBSET (1 .. n)
        OBVIOUS
      <4>2. Cardinality(s \ {Max(s)}) = Cardinality(s) - 1 /\ Cardinality(s) \in Nat /\ s \ {Max(s)} \in All
        BY <3>2, <4>1, LastOf
      <4>3. Cardinality(s \ {Max(s)}) <= k - 1
        BY <1>5, <1>7, <4>2
      <4>4. h[s \ {Max(s)}] = g[s \ {Max(s)}]
        BY <4>2, <4>3
      <4> HIDE DEF h
      <4> QED  BY <3>2, <4>4 DEF Turn
    <3> QED  BY <3>1, <3>2
  <2>2. h[s] = Turn(base, seq, g, s)
    <3>1. CASE Cardinality(s) <= k - 1
      BY <1>6, <3>1 DEF Turns
    <3>2. CASE ~(Cardinality(s) <= k - 1)
      BY <3>2
    <3> QED  BY <3>1, <3>2
  <2> QED  BY <2>1, <2>2
<1>8. Total(h) /\ Turns(base, seq, h, k)
  BY <1>7 DEF Turns
<1> HIDE DEF h, Total
<1> QED  BY <1>8

Folds(base, seq, n, g) ==
  Configured(base, seq) = g[1 .. n] /\ \A s \in SUBSET (1 .. n) : g[s] = Turn(base, seq, g, s)

LEMMA ConfiguredIs ==
  ASSUME NEW base, NEW seq, NEW n \in Nat, DOMAIN seq = 1 .. n
  PROVE  \E g : Folds(base, seq, n, g)
<1> DEFINE Entire(g) == g = [s \in SUBSET (1 .. n) |-> Turn(base, seq, g, s)]
           it == CHOOSE g : Entire(g)
<1>1. Configured(base, seq) = it[1 .. n]
  BY DEF Configured, FoldLeft, MapThenFoldSet, Turn
<1>2. \E g : Entire(g)
  <2>1. PICK g : g = [s \in SUBSET (DOMAIN seq) |-> g[s]] /\ Turns(base, seq, g, n)
    BY TurnsExist
  <2>2. \A s \in SUBSET (1 .. n) : g[s] = Turn(base, seq, g, s)
    <3> TAKE s \in SUBSET (1 .. n)
    <3>1. Cardinality(s) <= n
      <4>1. IsFiniteSet(1 .. n) /\ Cardinality(1 .. n) = IF 1 > n THEN 0 ELSE n - 1 + 1
        BY FS_Interval
      <4>2. Cardinality(s) <= Cardinality(1 .. n)
        BY <4>1, FS_Subset
      <4>3. Cardinality(1 .. n) = n
        BY <4>1
      <4> QED  BY <4>2, <4>3
    <3> QED  BY <2>1, <3>1 DEF Turns
  <2>3. Entire(g)
    BY <2>1, <2>2
  <2> HIDE DEF Entire
  <2> QED  BY <2>3
<1>3. Entire(it)
  <2> HIDE DEF Entire
  <2> QED  BY <1>2
<1>4. \A s \in SUBSET (1 .. n) : it[s] = Turn(base, seq, it, s)
  <2> HIDE DEF it
  <2> QED  BY <1>3
<1> HIDE DEF it
<1>5. Folds(base, seq, n, it)
  BY <1>1, <1>4 DEF Folds
<1> QED  BY <1>5

(* The rooms while mts_state_init is at work: their ids have no bound yet.  *)
Wide == [id : Nat, active : BOOLEAN, name : Titles, owner : Callers \cup {NoUser},
         private : BOOLEAN, permanent : BOOLEAN]
Kept(d, n) ==
  /\ DOMAIN d \subseteq Nat \ {0} /\ \A k \in DOMAIN d : d[k] \in Row /\ (k \in RoomIds \/ k < n)
  /\ Lobby \in DOMAIN d /\ d[Lobby] = LobbyRow
Half(st) ==
  /\ DOMAIN st = {"ok", "slots", "next", "db", "refused"}
  /\ st.ok \in BOOLEAN /\ st.next \in Nat /\ st.slots \in [Slots -> Wide]
  /\ \A i \in Slots : st.slots[i].id < st.next
  /\ Stands(st.slots, st.next, st.db, st.refused) /\ Kept(st.db, st.next)

LEMMA WideParts ==
  ASSUME NEW s \in [Slots -> Wide], NEW i \in Slots
  PROVE  /\ s[i].id \in Nat /\ s[i].active \in BOOLEAN /\ s[i].name \in Titles
         /\ s[i].owner \in Callers \cup {NoUser} /\ s[i].private \in BOOLEAN /\ s[i].permanent \in BOOLEAN
         /\ s[i] \in Wide
BY DEF Wide

LEMMA RoomIsWide == Room \subseteq Wide
BY RoomBounds DEF Room, Wide

LEMMA KeptSaved ==
  ASSUME NEW d, NEW n \in Nat, NEW m \in Nat, n <= m, Kept(d, n), NEW x \in Wide, x.id \notin {0, Lobby}, x.id < m
  PROVE  LET e == mts_store_save_room(d, x) IN
         /\ Kept(e, m) /\ DOMAIN d \subseteq DOMAIN e /\ x.id \in DOMAIN e \cup Refused(d, x)
<1> DEFINE e == mts_store_save_room(d, x)
           row == [name |-> x.name, owner |-> x.owner, private |-> x.private, permanent |-> x.permanent]
           f == [k \in DOMAIN d \cup {x.id} |-> IF k = x.id THEN row ELSE d[k]]
<1>1. x.id \in DOMAIN e \cup Refused(d, x)
  BY DEF Refused
<1>2. CASE e = d
  <2>1. Kept(d, m)
    BY DEF Kept
  <2> QED  BY <1>1, <1>2, <2>1
<1>3. CASE e = f
  <2>1. DOMAIN f = DOMAIN d \cup {x.id} /\ \A k \in DOMAIN f : f[k] = IF k = x.id THEN row ELSE d[k]
    OBVIOUS
  <2>2. row \in Row /\ x.id \in Nat \ {0}
    BY DEF Wide, Row
  <2> HIDE DEF row, f, e
  <2>3. Kept(f, m)
    BY <2>1, <2>2 DEF Kept
  <2> QED  BY <1>1, <1>3, <2>1, <2>3 DEF e
<1>4. e = d \/ e = f
  BY DEF mts_store_save_room
<1> QED  BY <1>2, <1>3, <1>4

LEMMA ConfigureKept ==
  ASSUME NEW st, Half(st), NEW c \in [name : Names, private : BOOLEAN]
  PROVE  Half(Configure(st, c))
<1> DEFINE nm == Norm[c.name]
           same == {i \in Slots : st.slots[i].active /\ st.slots[i].name = nm}
           free == {i \in Slots : ~st.slots[i].active}
           from == IF same # {} THEN same ELSE free
           i == CHOOSE x \in from : \A y \in from : x <= y
           id == IF same # {} THEN st.slots[i].id ELSE st.next
           new == [id |-> id, active |-> TRUE, name |-> nm, owner |-> NoUser, private |-> c.private, permanent |-> TRUE]
           n == IF same # {} THEN st.next ELSE st.next + 1
           s == [st.slots EXCEPT ![i] = new]
           d == mts_store_save_room(st.db, new)
           x == st.refused \cup Refused(st.db, new)
           fin == [ok |-> TRUE, slots |-> s, next |-> n, db |-> d, refused |-> x]
<1>1. CASE nm = LobbyName \/ ~st.ok
  <2>1. Configure(st, c) = st
    BY <1>1 DEF Configure
  <2> QED  BY <2>1
<1>2. CASE ~(nm = LobbyName \/ ~st.ok) /\ from = {}
  <2>1. Configure(st, c) = [st EXCEPT !.ok = FALSE]
    BY <1>2 DEF Configure
  <2>2. LET g == [st EXCEPT !.ok = FALSE] IN
        /\ DOMAIN g = DOMAIN st /\ g.ok = FALSE /\ g.slots = st.slots /\ g.next = st.next /\ g.db = st.db
        /\ g.refused = st.refused
    BY DEF Half
  <2> DEFINE g == [st EXCEPT !.ok = FALSE]
  <2>3. /\ DOMAIN g = DOMAIN st /\ g.ok = FALSE /\ g.slots = st.slots /\ g.next = st.next /\ g.db = st.db
        /\ g.refused = st.refused
    BY <2>2
  <2> HIDE DEF g
  <2>4. Half(g)
    BY <2>3 DEF Half
  <2> QED  BY <2>1, <2>4 DEF g
<1>3. CASE ~(nm = LobbyName \/ ~st.ok) /\ from # {}
  <2>1. Configure(st, c) = fin
    BY <1>3 DEF Configure
  <2>2. /\ st.next \in Nat /\ st.next >= 2 /\ st.slots \in [Slots -> Wide] /\ st.slots[1] = LobbyRoom
        /\ \A k \in Slots : st.slots[k].id < st.next
    BY DEF Half, Stands
  <2>3. from \in SUBSET Nat /\ from \subseteq Slots /\ 1 \notin from
    BY <1>3, <2>2, RoomBounds, FreeIs
  <2>4. i \in from
    <3> HIDE DEF from
    <3>1. \E a \in from : \A y \in from : a <= y
      BY <1>3, <2>3, LeastOf
    <3> QED  BY <3>1
  <2>5. i \in Slots /\ i # 1 /\ (same # {} => i \in same) /\ (same = {} => i \in free)
    <3> HIDE DEF i, same, free
    <3> QED  BY <2>3, <2>4
  <2>6. nm \in Titles
    BY DEF Titles
  <2>7. id \in Nat /\ id \notin {0, Lobby} /\ id < n /\ n \in Nat /\ st.next <= n
    <3>1. CASE same # {}
      <4>1. st.slots[i].active /\ i \in Slots /\ i # 1 /\ id = st.slots[i].id /\ n = st.next
        BY <2>5, <3>1
      <4> HIDE DEF i, same, free, id, n
      <4>2. id \notin {0, Lobby}
        BY <4>1, FreeIs DEF Half, Stands
      <4> QED  BY <2>2, <4>1, <4>2, WideParts
    <3>2. CASE same = {}
      <4>1. id = st.next /\ n = st.next + 1
        BY <3>2
      <4> HIDE DEF id, n
      <4> QED  BY <2>2, <4>1 DEF Lobby
    <3> QED  BY <3>1, <3>2
  <2>8. \A k \in Slots \ {i} : st.slots[k].active => st.slots[k].id # id
    <3>1. CASE same # {}
      <4>1. st.slots[i].active /\ i \in Slots /\ id = st.slots[i].id
        BY <2>5, <3>1
      <4> HIDE DEF i, same, free, id, n
      <4> QED  BY <4>1 DEF Half, Stands
    <3>2. CASE same = {}
      <4>1. id = st.next
        BY <3>2
      <4> HIDE DEF i, id, n
      <4> QED  BY <2>2, <4>1, WideParts
    <3> QED  BY <3>1, <3>2
  <2> HIDE DEF id
  <2>9. new \in Wide /\ new.id = id /\ new.active
    BY <2>6, <2>7, RoomBounds DEF Wide
  <2> HIDE DEF i, same, free, from, nm, new, n
  <2>10. Kept(st.db, st.next)
    BY DEF Half
  <2>11. Kept(d, n) /\ DOMAIN st.db \subseteq DOMAIN d /\ new.id \in DOMAIN d \cup x
    BY <2>2, <2>7, <2>9, <2>10, KeptSaved
  <2> HIDE DEF d, x
  <2>12. s \in [Slots -> Wide] /\ \A k \in Slots : s[k] = IF k = i THEN new ELSE st.slots[k]
    BY <2>2, <2>5, <2>9
  <2> HIDE DEF s
  <2>13. st.refused \subseteq x
    BY DEF x
  <2>14. \A k \in Slots : s[k].id < n
    BY <2>2, <2>7, <2>9, <2>12, WideParts
  <2>15. Stands(s, n, d, x)
    <3>1. n >= 2 /\ s[1] = LobbyRoom /\ Lobby \in DOMAIN d
      BY <2>2, <2>5, <2>7, <2>11, <2>12, RoomBounds DEF Kept
    <3>2. ASSUME NEW k \in Slots
          PROVE  /\ s[k].id = Lobby => k = 1
                 /\ s[k].id = 0 => s[k] = Free
                 /\ s[k].active => s[k].id < n /\ s[k].id \in DOMAIN d \cup x
      <4>1. CASE k = i
        BY <2>7, <2>9, <2>11, <2>12, <4>1
      <4>2. CASE k # i
        <5>1. s[k] = st.slots[k]
          BY <2>12, <4>2
        <5>2. /\ st.slots[k].id = Lobby => k = 1
              /\ st.slots[k].id = 0 => st.slots[k] = Free
              /\ st.slots[k].active => st.slots[k].id \in DOMAIN st.db \cup st.refused
          BY DEF Half, Stands
        <5> QED  BY <2>11, <2>13, <2>14, <5>1, <5>2
      <4> QED  BY <4>1, <4>2
    <3>3. ASSUME NEW k \in Slots, NEW l \in Slots, s[k].active, s[l].active, s[k].id = s[l].id PROVE k = l
      <4>1. CASE k # i /\ l # i
        <5>1. s[k] = st.slots[k] /\ s[l] = st.slots[l]
          BY <2>12, <4>1
        <5> QED  BY <3>3, <5>1 DEF Half, Stands
      <4>2. CASE k = i \/ l = i
        BY <2>8, <2>9, <2>12, <3>3, <4>2
      <4> QED  BY <4>1, <4>2
    <3> QED  BY <3>1, <3>2, <3>3 DEF Stands
  <2>16. /\ DOMAIN fin = {"ok", "slots", "next", "db", "refused"} /\ fin.ok = TRUE /\ fin.slots = s /\ fin.next = n
         /\ fin.db = d /\ fin.refused = x
    OBVIOUS
  <2> HIDE DEF fin
  <2>17. Half(fin)
    BY <2>7, <2>11, <2>12, <2>14, <2>15, <2>16 DEF Half
  <2> QED  BY <2>1, <2>17
<1> QED  BY <1>1, <1>2, <1>3

LEMMA ConfiguredKept ==
  ASSUME NEW base, Half(base), NEW seq, NEW n \in Nat, DOMAIN seq = 1 .. n,
         \A k \in 1 .. n : seq[k] \in [name : Names, private : BOOLEAN]
  PROVE  Half(Configured(base, seq))
<1>1. n \in Nat /\ DOMAIN seq = 1 .. n /\ \A k \in 1 .. n : seq[k] \in [name : Names, private : BOOLEAN]
  OBVIOUS
<1>2. PICK g : Configured(base, seq) = g[1 .. n] /\ \A s \in SUBSET (1 .. n) : g[s] = Turn(base, seq, g, s)
  <2>1. PICK g : Folds(base, seq, n, g)
    BY <1>1, ConfiguredIs
  <2> QED  BY <2>1 DEF Folds
<1> DEFINE Bad == {s \in SUBSET (1 .. n) : ~Half(g[s])}
           Sized == {Cardinality(s) : s \in Bad}
<1>3. \A s \in SUBSET (1 .. n) : Cardinality(s) \in Nat
  <2> TAKE s \in SUBSET (1 .. n)
  <2>1. CASE s = {}
    BY <2>1, FS_EmptySet
  <2>2. CASE s # {}
    BY <1>1, <2>2, LastOf
  <2> QED  BY <2>1, <2>2
<1>4. SUFFICES ASSUME Bad # {} PROVE FALSE
  <2>1. 1 .. n \in SUBSET (1 .. n)
    OBVIOUS
  <2>2. CASE Bad = {}
    BY <1>2, <2>1, <2>2
  <2> QED  BY <2>2
<1>5. PICK s \in Bad : \A r \in Bad : Cardinality(s) <= Cardinality(r)
  <2>1. Sized \in SUBSET Nat /\ Sized # {}
    BY <1>3, <1>4
  <2>2. PICK m \in Sized : \A k \in Sized : m <= k
    <3> HIDE DEF Sized
    <3> QED  BY <2>1, LeastOf
  <2>3. PICK s \in Bad : m = Cardinality(s)
    OBVIOUS
  <2>4. \A r \in Bad : m <= Cardinality(r)
    BY <2>2
  <2> HIDE DEF Bad
  <2> QED  BY <2>3, <2>4
<1>6. s \in SUBSET (1 .. n) /\ ~Half(g[s]) /\ g[s] = Turn(base, seq, g, s)
  BY <1>2
<1>7. CASE s = {}
  BY <1>6, <1>7 DEF Turn
<1>8. CASE s # {}
  <2>1. /\ Max(s) \in s /\ Cardinality(s) \in Nat /\ Cardinality(s \ {Max(s)}) = Cardinality(s) - 1
    BY <1>1, <1>6, <1>8, LastOf
  <2> DEFINE r == s \ {Max(s)}
             c == seq[Max(s)]
  <2>2. r \in SUBSET (1 .. n) /\ c \in [name : Names, private : BOOLEAN]
    BY <1>1, <1>6, <2>1
  <2>3. r \notin Bad
    BY <1>5, <2>1
  <2>4. g[s] = Configure(g[r], c)
    BY <1>6, <1>8 DEF Turn
  <2>5. Half(g[r])
    BY <2>2, <2>3
  <2> HIDE DEF r, c
  <2>6. Half(Configure(g[r], c))
    BY <2>2, <2>5, ConfigureKept
  <2> QED  BY <1>6, <2>4, <2>6
<1> QED  BY <1>7, <1>8

LEMMA RankIs ==
  ASSUME NEW D \in SUBSET Nat, NEW n \in Nat, \A x \in D : x <= n
  PROVE  \A k \in D : Cardinality({x \in D : x < k}) \in Nat /\ IsFiniteSet({x \in D : x < k})
<1> TAKE k \in D
<1> DEFINE S == {x \in D : x < k}
<1>1. S \in SUBSET Nat /\ \A x \in S : x <= n
  OBVIOUS
<1> HIDE DEF S
<1>2. IsFiniteSet(S)
  BY <1>1, FS_BoundedSetOfNaturals
<1>3. Cardinality(S) \in Nat
  BY <1>2, FS_CardinalityType
<1> QED  BY <1>2, <1>3 DEF S

LEMMA ReadIs ==
  ASSUME NEW d, Rows(d)
  PROVE  LET s == mts_store_load_rooms(d) IN
         /\ s \in [Slots -> Room]
         /\ \A i \in Slots : s[i] = Free \/ (s[i].active /\ s[i].id \in DOMAIN d /\ (s[i].id = Lobby => i = 1))
         /\ \A i, k \in Slots : s[i].active /\ s[k].active /\ s[i].id = s[k].id => i = k
         /\ DOMAIN d # {} => s[1] = LobbyRoom
<1> DEFINE rank(k) == Cardinality({x \in DOMAIN d : x < k})
           nth(i) == {k \in DOMAIN d : rank(k) = i - 1}
           load(k) == [id |-> k, active |-> TRUE, name |-> d[k].name, owner |-> d[k].owner,
                       private |-> d[k].private, permanent |-> d[k].permanent]
           pick(i) == CHOOSE k \in nth(i) : TRUE
           s == [i \in Slots |-> IF nth(i) = {} THEN Free ELSE load(pick(i))]
<1>1. mts_store_load_rooms(d) = s
  BY DEF mts_store_load_rooms
<1>2. DOMAIN d \subseteq Nat /\ DOMAIN d \subseteq RoomIds \ {0} /\ \A k \in DOMAIN d : d[k] \in Row
  BY RoomBounds DEF Rows
<1>3. \A i \in Slots : s[i] = IF nth(i) = {} THEN Free ELSE load(pick(i))
  <2> HIDE DEF nth, load, pick
  <2> QED  OBVIOUS
<1> HIDE DEF s
<1>4. \A i \in Slots : nth(i) # {} => pick(i) \in DOMAIN d /\ rank(pick(i)) = i - 1
  <2> TAKE i \in Slots
  <2> SUFFICES ASSUME nth(i) # {} PROVE pick(i) \in DOMAIN d /\ rank(pick(i)) = i - 1
    OBVIOUS
  <2>1. pick(i) \in nth(i)
    <3> HIDE DEF nth
    <3> QED  OBVIOUS
  <2> HIDE DEF pick, rank
  <2> QED  BY <2>1
<1> HIDE DEF pick
<1>5. \A k \in DOMAIN d : /\ load(k) \in Room /\ load(k).id = k /\ load(k).active
                          /\ load(k).name = d[k].name /\ load(k).owner = d[k].owner
                          /\ load(k).private = d[k].private /\ load(k).permanent = d[k].permanent
  BY <1>2 DEF Room, Row
<1>6. DOMAIN d # {} => nth(1) # {} /\ pick(1) = Lobby
  <2> SUFFICES ASSUME DOMAIN d # {} PROVE nth(1) # {} /\ pick(1) = Lobby
    OBVIOUS
  <2>1. Lobby \in DOMAIN d /\ Lobby = 1 /\ \A x \in DOMAIN d : x >= 1
    BY <1>2 DEF Rows, Lobby
  <2>2. {x \in DOMAIN d : x < Lobby} = {}
    BY <1>2, <2>1
  <2>3. rank(Lobby) = 0
    BY <2>2, FS_EmptySet
  <2> HIDE DEF rank
  <2>4. nth(1) # {}
    BY <2>1, <2>3
  <2>5. pick(1) \in DOMAIN d /\ rank(pick(1)) = 0
    BY <1>4, <2>4, RoomBounds
  <2>6. pick(1) = Lobby
    <3> SUFFICES ASSUME pick(1) # Lobby PROVE FALSE
      OBVIOUS
    <3> DEFINE k == pick(1)
               S == {x \in DOMAIN d : x < k}
    <3>1. k \in DOMAIN d /\ k # Lobby /\ k \in Nat
      BY <1>2, <2>5
    <3>2. Lobby \in S
      BY <2>1, <3>1
    <3>3. IsFiniteSet(S) /\ Cardinality(S) = 0
      <4>1. DOMAIN d \in SUBSET Nat /\ MaxRoom \in Nat /\ \A x \in DOMAIN d : x <= MaxRoom
        BY <1>2, RoomBounds DEF RoomIds
      <4>2. IsFiniteSet(S)
        BY <3>1, <4>1, RankIs
      <4> QED  BY <2>5, <4>2 DEF rank
    <3> HIDE DEF S
    <3> QED  BY <3>2, <3>3, FS_EmptySet
  <2> QED  BY <2>4, <2>6
<1> HIDE DEF rank, nth, load
<1>7. \A i \in Slots : s[i] \in Room /\ (s[i] = Free \/ (s[i].active /\ s[i].id \in DOMAIN d /\ nth(i) # {} /\ s[i].id = pick(i)))
  BY <1>3, <1>4, <1>5, FreeIs
<1>8. s \in [Slots -> Room]
  <2>1. s = [i \in Slots |-> s[i]]
    BY DEF s
  <2> QED  BY <1>7, <2>1
<1>9. ASSUME NEW i \in Slots, NEW k \in Slots, s[i].active, s[k].active, s[i].id = s[k].id PROVE i = k
  <2>1. nth(i) # {} /\ nth(k) # {} /\ pick(i) = pick(k)
    BY <1>7, <1>9, FreeIs
  <2>2. rank(pick(i)) = i - 1 /\ rank(pick(i)) = k - 1
    BY <1>4, <2>1
  <2>3. i \in Nat /\ k \in Nat
    BY RoomBounds
  <2> QED  BY <2>2, <2>3
<1>10. DOMAIN d # {} => s[1] = LobbyRoom
  <2> SUFFICES ASSUME DOMAIN d # {} PROVE s[1] = LobbyRoom
    OBVIOUS
  <2>1. s[1] = load(Lobby) /\ d[Lobby] = LobbyRow
    BY <1>3, <1>6, RoomBounds DEF Rows
  <2>2. d[Lobby].name = LobbyName /\ d[Lobby].owner = NoUser /\ d[Lobby].private = FALSE /\ d[Lobby].permanent = TRUE
    BY <2>1 DEF LobbyRow
  <2> QED  BY <2>1, <2>2 DEF load, LobbyRoom
<1>11. \A i \in Slots : s[i].active /\ s[i].id = Lobby => i = 1
  <2> SUFFICES ASSUME NEW i \in Slots, s[i].active, s[i].id = Lobby PROVE i = 1
    OBVIOUS
  <2>1. s[i].id \in DOMAIN d
    BY <1>7, FreeIs
  <2>2. s[1] = LobbyRoom
    BY <1>10, <2>1
  <2> QED  BY <1>9, <2>2, FreeIs, RoomBounds
<1> QED  BY <1>1, <1>7, <1>8, <1>9, <1>10, <1>11

LEMMA LoadedKept == ASSUME Rows(db), NEW config PROVE Half(Loaded(config))
<1> DEFINE load == mts_store_load_rooms(db)
           rooms == IF load[1].active THEN load ELSE [load EXCEPT ![1] = LobbyRoom]
           gone == {i \in Slots : /\ rooms[i].active /\ rooms[i].id # Lobby /\ rooms[i].permanent
                                  /\ \A k \in DOMAIN config : Norm[config[k].name] # rooms[i].name}
           s == [i \in Slots |-> IF i \in gone THEN [rooms[i] EXCEPT !.active = FALSE] ELSE rooms[i]]
           ids == {load[i].id : i \in Slots}
           last == CHOOSE x \in ids : \A i \in Slots : load[i].id <= x
           n == IF DOMAIN db = {} THEN 2 ELSE 1 + last
           d == IF load[1].active THEN db ELSE mts_store_save_room(db, LobbyRoom)
           e == [k \in DOMAIN d \ {rooms[i].id : i \in gone} |-> d[k]]
           fin == [ok |-> TRUE, slots |-> s, next |-> n, db |-> e, refused |-> {}]
<1>1. Loaded(config) = fin
  BY DEF Loaded
<1>2. /\ load \in [Slots -> Room]
      /\ \A i \in Slots : load[i] = Free \/ (load[i].active /\ load[i].id \in DOMAIN db /\ (load[i].id = Lobby => i = 1))
      /\ \A i, k \in Slots : load[i].active /\ load[k].active /\ load[i].id = load[k].id => i = k
      /\ DOMAIN db # {} => load[1] = LobbyRoom
  BY ReadIs
<1> HIDE DEF load
<1>3. DOMAIN db = {} => \A i \in Slots : load[i] = Free
  BY <1>2
<1>4. /\ rooms \in [Slots -> Room] /\ rooms[1] = LobbyRoom
      /\ \A i \in Slots : rooms[i] = IF i = 1 THEN LobbyRoom ELSE load[i]
  <2>1. CASE DOMAIN db = {}
    <3>1. rooms = [load EXCEPT ![1] = LobbyRoom]
      BY <1>3, <2>1, FreeIs, RoomBounds
    <3> HIDE DEF rooms
    <3> QED  BY <1>2, <3>1, FreeIs, RoomBounds
  <2>2. CASE DOMAIN db # {}
    <3>1. rooms = load
      BY <1>2, <2>2, FreeIs
    <3> HIDE DEF rooms
    <3> QED  BY <1>2, <2>2, <3>1
  <2> QED  BY <2>1, <2>2
<1>5. Lobby \in DOMAIN d /\ d[Lobby] = LobbyRow /\ DOMAIN db \subseteq DOMAIN d /\ DOMAIN d \subseteq RoomIds \ {0}
      /\ \A k \in DOMAIN d : d[k] \in Row
  <2>1. CASE DOMAIN db = {}
    <3>1. d = mts_store_save_room(db, LobbyRoom)
      BY <1>3, <2>1, FreeIs, RoomBounds
    <3>2. ~(\E k \in DOMAIN db \ {LobbyRoom.id} : db[k].name = LobbyRoom.name)
      BY <2>1
    <3> DEFINE row == [name |-> LobbyRoom.name, owner |-> LobbyRoom.owner, private |-> LobbyRoom.private,
                       permanent |-> LobbyRoom.permanent]
    <3>3. d = [k \in DOMAIN db \cup {LobbyRoom.id} |-> IF k = LobbyRoom.id THEN row ELSE db[k]]
      BY <3>1, <3>2 DEF mts_store_save_room
    <3>4. row = LobbyRow
      BY FreeIs DEF LobbyRow
    <3> HIDE DEF d, row
    <3>5. DOMAIN d = {Lobby} /\ d[Lobby] = LobbyRow
      BY <2>1, <3>3, <3>4, FreeIs
    <3> QED  BY <2>1, <3>5, FreeIs, RoomBounds DEF Lobby
  <2>2. CASE DOMAIN db # {}
    <3>1. d = db
      BY <1>2, <2>2, FreeIs
    <3> HIDE DEF d
    <3> QED  BY <2>2, <3>1 DEF Rows
  <2> QED  BY <2>1, <2>2
<1> HIDE DEF d
<1>6. \A i \in Slots : rooms[i] = Free \/ (rooms[i].active /\ rooms[i].id \in DOMAIN d /\ (rooms[i].id = Lobby => i = 1))
  BY <1>2, <1>4, <1>5, FreeIs
<1>7. \A i, k \in Slots : rooms[i].active /\ rooms[k].active /\ rooms[i].id = rooms[k].id => i = k
  <2> SUFFICES ASSUME NEW i \in Slots, NEW k \in Slots, rooms[i].active, rooms[k].active, rooms[i].id = rooms[k].id
               PROVE  i = k
    OBVIOUS
  <2>1. CASE i = 1 \/ k = 1
    <3> HIDE DEF rooms
    <3> QED  BY <1>4, <1>6, <2>1, FreeIs
  <2>2. CASE i # 1 /\ k # 1
    <3> HIDE DEF rooms
    <3> QED  BY <1>2, <1>4, <2>2
  <2> QED  BY <2>1, <2>2
<1>8. n \in Nat /\ n >= 2 /\ \A i \in Slots : rooms[i].id < n
  <2>1. CASE DOMAIN db = {}
    <3>1. n = 2
      BY <2>1
    <3> HIDE DEF n, rooms
    <3>2. \A i \in Slots : rooms[i].id = 0 \/ rooms[i].id = 1
      BY <1>3, <1>4, <2>1, FreeIs DEF Lobby
    <3> QED  BY <3>1, <3>2
  <2>2. CASE DOMAIN db # {}
    <3>1. ids \in SUBSET Nat /\ ids # {} /\ \A x \in ids : x <= MaxRoom
      <4>1. \A i \in Slots : load[i].id \in Nat /\ load[i].id <= MaxRoom
        BY <1>2, RoomParts, RoomBounds DEF RoomIds
      <4>2. 1 \in Slots
        BY RoomBounds
      <4> HIDE DEF rooms, n, last, s, gone, e, fin
      <4> QED  BY <4>1, <4>2
    <3>2. MaxRoom \in Nat
      BY RoomBounds
    <3>3. \E x \in ids : \A y \in ids : y <= x
      <4> HIDE DEF ids
      <4> QED  BY <3>1, <3>2, MaxIs
    <3>4. \E x \in ids : \A i \in Slots : load[i].id <= x
      BY <3>3
    <3>5. last \in ids /\ \A i \in Slots : load[i].id <= last
      <4> HIDE DEF ids
      <4> QED  BY <3>4
    <3>6. n = 1 + last
      BY <2>2
    <3>7. last \in Nat
      <4> HIDE DEF ids, last
      <4> QED  BY <3>1, <3>5
    <3>8. \A i \in Slots : rooms[i] = load[i]
      <4> HIDE DEF rooms
      <4> QED  BY <1>2, <1>4, <2>2
    <3>9. load[1].id = 1
      BY <1>2, <2>2, FreeIs DEF Lobby
    <3>10. \A i \in Slots : load[i].id \in Nat
      BY <1>2, RoomParts
    <3> HIDE DEF n, last, ids, rooms
    <3>11. n \in Nat /\ n >= 2
      BY <3>5, <3>6, <3>7, <3>9, RoomBounds
    <3>12. \A i \in Slots : rooms[i].id < n
      BY <3>5, <3>6, <3>7, <3>8, <3>10
    <3> QED  BY <3>11, <3>12
  <2> QED  BY <2>1, <2>2
<1>9. 1 \notin gone /\ gone \subseteq Slots /\ \A i \in gone : rooms[i].active /\ rooms[i].id # Lobby
  <2> HIDE DEF rooms
  <2> QED  BY <1>4, FreeIs
<1> HIDE DEF gone, n, rooms
<1>10. \A i \in Slots : /\ s[i].id = rooms[i].id /\ s[i] \in Room /\ (i \notin gone => s[i] = rooms[i])
                        /\ (i \in gone => s[i].active = FALSE)
  <2> TAKE i \in Slots
  <2>1. rooms[i] \in Room
    BY <1>4
  <2> QED  BY <2>1 DEF Room
<1>11. s \in [Slots -> Wide] /\ s \in [Slots -> Room]
  <2>1. s = [i \in Slots |-> s[i]]
    OBVIOUS
  <2> HIDE DEF s
  <2> QED  BY <1>10, <2>1, RoomIsWide
<1> HIDE DEF s
<1>12. /\ DOMAIN e = DOMAIN d \ {rooms[i].id : i \in gone} /\ \A k \in DOMAIN e : e[k] = d[k]
  OBVIOUS
<1> HIDE DEF e
<1>13. Lobby \in DOMAIN e /\ Kept(e, n)
  <2>1. Lobby \in DOMAIN e
    BY <1>5, <1>9, <1>12
  <2> QED  BY <1>5, <1>12, <2>1, RoomBounds DEF Kept
<1>14. Stands(s, n, e, {})
  <2>1. s[1] = LobbyRoom
    BY <1>4, <1>9, <1>10, RoomBounds
  <2>2. ASSUME NEW i \in Slots
        PROVE  /\ s[i].id = Lobby => i = 1
               /\ s[i].id = 0 => s[i] = Free
               /\ s[i].active => s[i].id < n /\ s[i].id \in DOMAIN e \cup {}
    <3>1. s[i].id = Lobby => i = 1
      BY <1>6, <1>10, FreeIs DEF Lobby
    <3>2. s[i].id = 0 => s[i] = Free
      BY <1>5, <1>6, <1>9, <1>10, FreeIs
    <3>3. s[i].active => i \notin gone /\ s[i].id < n
      BY <1>8, <1>10
    <3>4. s[i].active => s[i].id \in DOMAIN e
      <4> SUFFICES ASSUME s[i].active PROVE s[i].id \in DOMAIN e
        OBVIOUS
      <4>1. i \notin gone /\ s[i] = rooms[i] /\ rooms[i].active
        BY <1>10, <3>3
      <4>2. rooms[i].id \in DOMAIN d
        BY <1>6, <4>1, FreeIs
      <4>3. \A k \in gone : rooms[k].id # rooms[i].id
        BY <1>7, <1>9, <4>1
      <4> QED  BY <1>12, <4>1, <4>2, <4>3
    <3> QED  BY <3>1, <3>2, <3>3, <3>4
  <2>3. ASSUME NEW i \in Slots, NEW k \in Slots, s[i].active, s[k].active, s[i].id = s[k].id PROVE i = k
    <3>1. i \notin gone /\ k \notin gone /\ rooms[i].active /\ rooms[k].active /\ rooms[i].id = rooms[k].id
      BY <1>10, <2>3
    <3> QED  BY <1>7, <3>1
  <2> QED  BY <1>8, <1>13, <2>1, <2>2, <2>3 DEF Stands
<1>15. /\ DOMAIN fin = {"ok", "slots", "next", "db", "refused"} /\ fin.ok = TRUE /\ fin.slots = s /\ fin.next = n
       /\ fin.db = e /\ fin.refused = {}
  OBVIOUS
<1> HIDE DEF fin
<1>16. \A i \in Slots : fin.slots[i].id < fin.next
  BY <1>8, <1>10, <1>15
<1>17. Half(fin)
  BY <1>8, <1>11, <1>13, <1>14, <1>15, <1>16 DEF Half
<1> QED  BY <1>1, <1>17

LEMMA InitStateKept == ASSUME RoomsKept, NEW config \in Configs, mts_state_init(config) PROVE RoomsKept'
<1> DEFINE st == Configured(Loaded(config), config)
           n == Len(config)
<1>1. /\ ~up /\ st.next <= MaxRoom + 1 /\ up' = st.ok /\ locked' = FALSE /\ slots' = st.slots /\ nextId' = st.next
      /\ db' = st.db /\ unsaved' = st.refused /\ sessions' = sessions /\ life' = life /\ room' = room /\ muted' = muted
      /\ job' = job /\ invited' = invited /\ sanctions' = sanctions /\ default' = default
  BY DEF mts_state_init, Configured, Rest, callers
<1>2. Half(st)
  <2>1. config \in Seq([name : Names, private : BOOLEAN])
    BY ConfigsAssumption
  <2>2. n \in Nat /\ DOMAIN config = 1 .. n /\ \A k \in 1 .. n : config[k] \in [name : Names, private : BOOLEAN]
    <3> DEFINE S == [name : Names, private : BOOLEAN]
    <3>1. config \in Seq(S)
      BY <2>1
    <3> HIDE DEF S
    <3>2. n \in Nat /\ DOMAIN config = 1 .. n /\ \A k \in 1 .. n : config[k] \in S
      BY <3>1
    <3> QED  BY <3>2 DEF S
  <2>3. Half(Loaded(config))
    BY LoadedKept DEF RoomsKept
  <2> HIDE DEF n
  <2> QED  BY <2>2, <2>3, ConfiguredKept
<1> HIDE DEF st
<1>3. /\ st.ok \in BOOLEAN /\ st.next \in Nat /\ st.slots \in [Slots -> Wide] /\ st.next >= 2
      /\ \A i \in Slots : st.slots[i].id < st.next
      /\ Stands(st.slots, st.next, st.db, st.refused) /\ Kept(st.db, st.next)
  BY <1>2 DEF Half, Stands
<1>4. slots' \in [Slots -> Room] /\ nextId' \in 1 .. MaxRoom + 1
  <2>1. \A i \in Slots : st.slots[i] \in Room
    <3> TAKE i \in Slots
    <3>1. st.slots[i] \in Wide /\ st.slots[i].id \in RoomIds
      BY <1>1, <1>3, WideParts, RoomBounds DEF RoomIds
    <3> QED  BY <3>1 DEF Wide, Room
  <2> QED  BY <1>1, <1>3, <2>1, RoomBounds
<1>5. Rows(db')
  BY <1>1, <1>3, RoomBounds DEF Kept, Rows, RoomIds
<1>6. Down(job, sessions, life, room)
  BY <1>1 DEF RoomsKept
<1>7. Stands(slots', nextId', db', unsaved') /\ \A u \in Callers : room'[u] < nextId'
  BY <1>1, <1>3, <1>6 DEF Down
<1>8. Plain(locked', muted', invited', sanctions', default')
  BY <1>1 DEF Plain, RoomsKept
<1>9. Listed(sessions', life') /\ up' \in BOOLEAN /\ life' \in [Callers -> {"out", "in", "exiting"}]
      /\ room' \in [Callers -> RoomIds] /\ job' = [t \in RoomThreads |-> job'[t]]
  BY <1>1, <1>3 DEF RoomsKept
<1>10. \A t \in RoomThreads :
         Says(t, job'[t]) /\ Fits(job'[t], slots', nextId') /\ Leaving(job'[t], life', sessions')
  BY <1>1, <1>6, Resting DEF Down
<1>11. \A t, v \in RoomThreads : job'[t].then = "leave" /\ job'[v].then = "leave" /\ job'[t].u = job'[v].u => t = v
  BY <1>1, <1>6, IdleIs DEF Down
<1>12. \A u \in Sysops : Present(u, life', room', job'[u])
  BY <1>1, <1>6, RoomBounds DEF Down, Present
<1>13. ~up' => Down(job', sessions', life', room')
  BY <1>1, <1>6
<1> QED  BY <1>4, <1>5, <1>7, <1>8, <1>9, <1>10, <1>11, <1>12, <1>13, RoomsKeptNext

(***************************************************************************)
(* Every step                                                              *)
(***************************************************************************)
LEMMA CommandKept == ASSUME RoomsKept, NEW t \in Callers, Command(t) PROVE RoomsKept'
<1>1. CASE Quit(t)
  <2>1. up /\ t \in RoomThreads /\ job[t] = Idle /\ cleanup_instance(t, t)
    BY <1>1, HandlesIs DEF Quit
  <2> QED  BY <2>1, CleanupKept
<1>2. CASE Leave(t) \/ Topic(t) \/ Chatlock(t)
  BY <1>2, LeaveKept, TopicKept, ChatlockKept
<1>3. CASE \E n \in Names : Join(t, n) \/ DefaultRoom(t, n) \/ Create(t, n) \/ Rename(t, n) \/ Close(t, n)
  BY <1>3, JoinKept, DefaultRoomKept, CreateKept, RenameKept, CloseKept
<1>4. CASE \E p \in BOOLEAN : Visibility(t, p)
  BY <1>4, VisibilityKept
<1>5. CASE \E u \in Callers : Kick(t, u) \/ \E c \in {"invite", "uninvite", "transfer"} : Administer(t, c, u)
  BY <1>5, KickKept, AdministerKept
<1>6. CASE Sanctioning(t)
  <2>1. PICK u \in Callers, x \in Offered :
          Moderate(t, u, [table |-> x.table, temporary |-> x.temporary], x.global, x.add, x.named)
    BY <1>6 DEF Sanctioning
  <2> DEFINE w == [table |-> x.table, temporary |-> x.temporary]
  <2>2. x \in [table : {"bans", "mutes"}, temporary : BOOLEAN, global : BOOLEAN, add : BOOLEAN, named : BOOLEAN]
    BY ConfigsAssumption
  <2>3. w \in Wrote /\ x.global \in BOOLEAN /\ x.add \in BOOLEAN /\ x.named \in BOOLEAN
    BY <2>2 DEF Wrote, Tables
  <2>4. Moderate(t, u, w, x.global, x.add, x.named)
    BY <2>1
  <2> HIDE DEF w
  <2> QED  BY <2>3, <2>4, ModerateKept
<1> QED  BY <1>1, <1>2, <1>3, <1>4, <1>5, <1>6 DEF Command

LEMMA WorkKept == ASSUME RoomsKept, NEW t \in RoomThreads, Work(t) PROVE RoomsKept'
<1>1. CASE Look(t) \/ CheckBans(t) \/ CheckRoomBans(t) \/ CheckInvited(t) \/ SetRoom(t) \/ EmptyRoom(t) \/ DeleteRoom(t) \/ Returns(t)
  BY <1>1, LookKept, CheckBansKept, CheckInvitedKept, SetRoomKept, EmptyRoomKept, DeleteRoomKept, ReturnsKept
<1>2. CASE Delist(t) \/ Prefer(t) \/ Renamed(t) \/ Transfer(t) \/ SaveRoom(t) \/ mts_store_invitation(t)
  BY <1>2, DelistKept, PreferKept, RenamedKept, TransferKept, SaveRoomKept, InvitationKept
<1>3. CASE WriteSanction(t) \/ Flag(t) \/ Evict(t) \/ Shut(t) \/ Erase(t)
  BY <1>3, WriteSanctionKept, FlagKept, EvictKept, ShutKept, EraseKept
<1> QED  BY <1>1, <1>2, <1>3 DEF Work

LEMMA RoomsStep == RoomsKept /\ [RoomsNext]_roomvars => RoomsKept'
<1> SUFFICES ASSUME RoomsKept, [RoomsNext]_roomvars PROVE RoomsKept'
  OBVIOUS
<1>1. CASE \E t \in Callers : Command(t) \/ Enter(t)
  BY <1>1, CommandKept, EnterKept
<1>2. CASE \E t \in RoomThreads : Work(t)
  BY <1>2, WorkKept
<1>3. CASE \E c \in Consoles, u \in Callers : ForcedDisconnect(c, u)
  <2>1. PICK c \in Consoles, u \in Callers : ForcedDisconnect(c, u)
    BY <1>3
  <2>2. up /\ c \in RoomThreads /\ job[c] = Idle /\ cleanup_instance(c, u) /\ c \notin Callers
    BY <2>1, PeopleAssumption DEF ForcedDisconnect, RoomThreads
  <2> QED  BY <2>2, CleanupKept
<1>4. CASE Expire
  BY <1>4, ExpireKept
<1>5. CASE PluginStops
  BY <1>5, StoppedKept DEF PluginStops
<1>6. CASE \E config \in Configs : mts_state_init(config)
  BY <1>6, InitStateKept
<1>7. CASE UNCHANGED roomvars
  <2>1. /\ UNCHANGED <<up, slots, nextId, locked, sessions, life, room, muted, job, db, invited, sanctions, default>>
        /\ unsaved' = unsaved
    BY <1>7 DEF roomvars, memory, callers, tables
  <2> QED  BY <2>1, RoomsKeptNext DEF RoomsKept
<1> QED  BY <1>1, <1>2, <1>3, <1>4, <1>5, <1>6, <1>7 DEF RoomsNext

LEMMA RoomsAlways == RoomsSpec => []RoomsKept
<1>1. RoomsInit => RoomsKept
  BY RoomsBegin
<1>2. RoomsKept /\ [RoomsNext]_roomvars => RoomsKept'
  BY RoomsStep
<1> QED  BY <1>1, <1>2, PTL DEF RoomsSpec

(* The Lobby stands, every open room has an id and a row of its own, and   *)
(* every variable has its type, across stops and restarts: `RoomsInv' of   *)
(* chat.c's rooms and mts.db.                                              *)
THEOREM RoomsCorrect == RoomsSpec => []RoomsInv
<1>1. RoomsKept => RoomsInv
  BY RoomsFollow
<1> QED  BY <1>1, RoomsAlways, PTL

(***************************************************************************)
(* How a room ends                                                         *)
(***************************************************************************)
Same(i) == slots[i].active => slots'[i].active /\ slots'[i].id = slots[i].id
Empties(i) == \/ ~Occupied(slots[i].id)
              \/ \E t \in Callers : Shuts(t) /\ (job[t].r = slots[i].id \/ ~Open(job[t].r))

LEMMA CommandsEnd ==
  ASSUME RoomsKept, NEW t \in Callers, Command(t), up', NEW i \in Slots
  PROVE  Same(i)
<1>1. CASE slots' = slots
  BY <1>1 DEF Same
<1>2. CASE Quit(t) \/ Leave(t) \/ Topic(t) \/ Chatlock(t)
  <2>1. slots' = slots
    BY <1>2 DEF Quit, Leave, Topic, Chatlock, cleanup_instance, Stopped, Rest, memory
  <2> QED  BY <1>1, <2>1
<1>3. CASE \E m \in Names : Join(t, m) \/ DefaultRoom(t, m) \/ Rename(t, m) \/ Close(t, m)
  <2>1. slots' = slots
    BY <1>3 DEF Join, DefaultRoom, Rename, Close, Rest, memory
  <2> QED  BY <1>1, <2>1
<1>4. CASE (\E u \in Callers : Kick(t, u) \/ \E c \in {"invite", "uninvite", "transfer"} : Administer(t, c, u)) \/ Sanctioning(t)
  <2>1. slots' = slots
    BY <1>4 DEF Kick, Administer, Sanctioning, Moderate, Rest, memory
  <2> QED  BY <1>1, <2>1
<1>5. CASE \E m \in Names : Create(t, m)
  <2> DEFINE free == {k \in Slots : ~slots[k].active}
             f == CHOOSE k \in free : \A l \in free : k <= l
             made(m) == [id |-> nextId, active |-> TRUE, name |-> m, owner |-> t, private |-> FALSE, permanent |-> FALSE]
  <2>1. PICK m \in Names : free # {} /\ slots' = [slots EXCEPT ![f] = made(m)]
    BY <1>5 DEF Create
  <2>2. f \in free
    <3>1. free \in SUBSET Nat
      BY RoomBounds
    <3> HIDE DEF free
    <3>2. \E k \in free : \A l \in free : k <= l
      BY <2>1, <3>1, LeastOf
    <3> QED  BY <3>2
  <2>3. slots[i].active => i # f
    <3> HIDE DEF f
    <3> QED  BY <2>2
  <2>4. slots \in [Slots -> Room]
    BY DEF RoomsKept
  <2> HIDE DEF f, made
  <2> QED  BY <2>1, <2>3, <2>4 DEF Same
<1>6. CASE \E p \in BOOLEAN : Visibility(t, p)
  <2> DEFINE of == {k \in Slots : slots[k].id = room[t] /\ room_admin(t, k) /\ slots[k].id # Lobby}
  <2>1. PICK p \in BOOLEAN : slots' = [k \in Slots |-> IF k \in of THEN [slots[k] EXCEPT !.private = p] ELSE slots[k]]
    BY <1>6 DEF Visibility
  <2>2. slots[i] \in Room
    BY DEF RoomsKept
  <2>3. slots'[i] = slots[i] \/ slots'[i] = [slots[i] EXCEPT !.private = p]
    <3> HIDE DEF of
    <3> QED  BY <2>1
  <2> QED  BY <2>2, <2>3 DEF Same, Room
<1> QED  BY <1>2, <1>3, <1>4, <1>5, <1>6 DEF Command

LEMMA WorksEnd ==
  ASSUME RoomsKept, NEW t \in RoomThreads, Work(t), NEW i \in Slots
  PROVE  Same(i) \/ Empties(i)
<1>1. CASE slots' = slots
  BY <1>1 DEF Same
<1>2. slots \in [Slots -> Room] /\ slots[i] \in Room /\ job[t] \in Jobs /\ job[t].slot \in Slots
  BY JobIs, JobParts DEF RoomsKept
<1>3. CASE Look(t) \/ CheckBans(t) \/ CheckRoomBans(t) \/ CheckInvited(t) \/ SetRoom(t) \/ DeleteRoom(t) \/ Returns(t)
  <2>1. slots' = slots
    BY <1>3 DEF Look, CheckBans, CheckRoomBans, CheckInvited, SetRoom, DeleteRoom, Returns, Rest, memory
  <2> QED  BY <1>1, <2>1
<1>4. CASE Delist(t) \/ Prefer(t) \/ SaveRoom(t) \/ mts_store_invitation(t)
  <2>1. slots' = slots
    BY <1>4 DEF Delist, Prefer, SaveRoom, mts_store_invitation, Rest, memory
  <2> QED  BY <1>1, <2>1
<1>5. CASE WriteSanction(t) \/ Flag(t) \/ Evict(t) \/ Erase(t)
  <2>1. slots' = slots
    BY <1>5 DEF WriteSanction, Flag, Evict, Erase, Rest, memory
  <2> QED  BY <1>1, <2>1
<1>6. CASE Renamed(t) \/ Transfer(t)
  <2> DEFINE j == job[t]
  <2>1. PICK e : slots' = [slots EXCEPT ![j.slot] = e] /\ e.active = slots[j.slot].active /\ e.id = slots[j.slot].id
    <3>1. slots[j.slot] \in Room
      BY <1>2
    <3>2. CASE Renamed(t)
      <4>1. slots' = [slots EXCEPT ![j.slot] = [slots[j.slot] EXCEPT !.name = j.what.name]]
        BY <3>2 DEF Renamed, Bind
      <4>2. [slots[j.slot] EXCEPT !.name = j.what.name].active = slots[j.slot].active
            /\ [slots[j.slot] EXCEPT !.name = j.what.name].id = slots[j.slot].id
        BY <3>1 DEF Room
      <4> QED  BY <4>1, <4>2
    <3>3. CASE Transfer(t)
      <4>1. slots' = [slots EXCEPT ![j.slot] = [slots[j.slot] EXCEPT !.owner = j.u]]
        BY <3>3 DEF Transfer, Bind
      <4>2. [slots[j.slot] EXCEPT !.owner = j.u].active = slots[j.slot].active
            /\ [slots[j.slot] EXCEPT !.owner = j.u].id = slots[j.slot].id
        BY <3>1 DEF Room
      <4> QED  BY <4>1, <4>2
    <3> QED  BY <1>6, <3>2, <3>3
  <2> QED  BY <1>2, <2>1 DEF Same
<1>7. CASE EmptyRoom(t)
  <2> DEFINE v == Vacant(job[t].old)
  <2>1. slots' = [k \in Slots |-> IF k \in v THEN [slots[k] EXCEPT !.active = FALSE] ELSE slots[k]]
    BY <1>7 DEF EmptyRoom
  <2>2. CASE i \in v
    BY <2>2 DEF Vacant, Empties
  <2>3. CASE i \notin v
    <3> HIDE DEF v
    <3>1. slots'[i] = slots[i]
      BY <2>1, <2>3
    <3> QED  BY <3>1 DEF Same
  <2> QED  BY <2>2, <2>3
<1>8. CASE Shut(t)
  <2>1. job[t].pc = "shut" /\ slots' = [slots EXCEPT ![job[t].slot].active = FALSE]
    BY <1>8 DEF Shut
  <2>2. t \in Callers
    BY <2>1, JobIs DEF Says
  <2>3. CASE i = job[t].slot
    <3>1. job'[t].pc = "erase"
      <4>1. job' = [job EXCEPT ![t] = [job[t] EXCEPT !.pc = "erase"]]
        BY <1>8 DEF Shut, Start
      <4> QED  BY <1>2, <4>1 DEF Jobs, RoomsKept
    <3>2. Ends(job[t], slots, nextId)
      BY <2>1, JobIs DEF Fits
    <3>3. job[t].r = slots[i].id \/ ~Open(job[t].r)
      BY <2>3, <3>2 DEF Ends, Open
    <3> QED  BY <2>1, <2>2, <3>1, <3>3 DEF Empties, Shuts
  <2>4. CASE i # job[t].slot
    BY <1>2, <2>1, <2>4 DEF Same
  <2> QED  BY <2>3, <2>4
<1> QED  BY <1>3, <1>4, <1>5, <1>6, <1>7, <1>8 DEF Work

(* A room ends only when nobody is in it, or when a sysop closes it, or    *)
(* closes one that has ended before and had its slot: `EndsEmpty' of       *)
(* mts_join, mts_leave and /close (chat.c:728-748).                        *)
THEOREM RoomsEndEmpty == RoomsSpec => EndsEmpty
<1>1. ASSUME RoomsKept, [RoomsNext]_roomvars
      PROVE  [up /\ up' => \A i \in Slots : Ending(i) =>
                \/ ~Occupied(slots[i].id)
                \/ \E t \in Callers : Shuts(t) /\ (job[t].r = slots[i].id \/ ~Open(job[t].r))]_roomvars
  <2> SUFFICES ASSUME up, up', NEW i \in Slots PROVE Same(i) \/ Empties(i)
    BY DEF Same, Empties, Ending
  <2>1. CASE slots' = slots
    BY <2>1 DEF Same
  <2>2. CASE \E t \in Callers : Command(t) \/ Enter(t)
    <3>1. PICK t \in Callers : Command(t) \/ Enter(t)
      BY <2>2
    <3>2. CASE Command(t)
      BY <1>1, <3>2, CommandsEnd
    <3>3. CASE Enter(t)
      BY <2>1, <3>3 DEF Enter, Rest, memory
    <3> QED  BY <3>1, <3>2, <3>3
  <2>3. CASE \E t \in RoomThreads : Work(t)
    BY <1>1, <2>3, WorksEnd
  <2>4. CASE \E c \in Consoles, u \in Callers : ForcedDisconnect(c, u)
    <3>1. slots' = slots
      BY <2>4 DEF ForcedDisconnect, cleanup_instance, Rest, memory
    <3> QED  BY <2>1, <3>1
  <2>5. CASE Expire
    BY <2>1, <2>5 DEF Expire, Rest, memory
  <2>6. CASE PluginStops
    BY <2>6 DEF PluginStops, Stopped
  <2>7. CASE \E config \in Configs : mts_state_init(config)
    BY <2>7 DEF mts_state_init
  <2>8. CASE UNCHANGED roomvars
    BY <2>1, <2>8 DEF roomvars, memory
  <2> QED  BY <1>1, <2>2, <2>3, <2>4, <2>5, <2>6, <2>7, <2>8 DEF RoomsNext
<1> QED  BY <1>1, RoomsAlways, PTL DEF RoomsSpec, EndsEmpty

(***************************************************************************)
(* Who comes into a room                                                   *)
(***************************************************************************)
Finding == {"bans", "roombans", "invited", "set"}
Asks == /\ \A t \in RoomThreads : could'[t] = IF job'[t].pc \notin Joins THEN {}
                                              ELSE (IF job'[t].pc = "look" THEN {} ELSE could[t])
                                                   \cup Grounds(job[t].u, job[t].r)'
Finds(t, k) == job' = [job EXCEPT ![t] = k]

LEMMA GroundsAre ==
  ASSUME NEW u, NEW r
  PROVE  /\ Grounds(u, r)' \subseteq AllGrounds
         /\ Unbanned(u, 0)' => "mts" \in Grounds(u, r)'
         /\ Unbanned(u, r)' => "room" \in Grounds(u, r)'
         /\ OpenTo(u, r)' => "open" \in Grounds(u, r)'
BY DEF Grounds, AllGrounds

LEMMA RestAsks == ASSUME NEW v, Rest(v) PROVE Asks
BY DEF Rest, Asks, InJoin, Joins

LEMMA StaysKnown ==
  ASSUME Learned, Asks, NEW t \in RoomThreads, job'[t] = job[t] \/ job'[t].pc \notin Finding
  PROVE  Reasons(job'[t], could'[t])
<1>1. Reasons(job[t], could[t])
  BY DEF Learned
<1>2. Grounds(job[t].u, job[t].r)' \subseteq AllGrounds
  BY GroundsAre
<1>3. could[t] \subseteq AllGrounds
  BY <1>1 DEF Reasons
<1> DEFINE g == Grounds(job[t].u, job[t].r)'
<1> HIDE DEF g
<1>4. could'[t] = IF job'[t].pc \notin Joins THEN {} ELSE (IF job'[t].pc = "look" THEN {} ELSE could[t]) \cup g
  BY DEF Asks, g
<1>5. could'[t] \subseteq AllGrounds
  BY <1>2, <1>3, <1>4 DEF g
<1>6. CASE job'[t].pc \notin Finding
  BY <1>5, <1>6 DEF Reasons, Finding
<1>7. CASE job'[t] = job[t] /\ job[t].pc \in Finding
  <2>1. could[t] \subseteq could'[t]
    BY <1>4, <1>7 DEF Finding, Joins
  <2> QED  BY <1>1, <1>5, <1>7, <2>1 DEF Reasons
<1> QED  BY <1>6, <1>7

LEMMA MovesKnown ==
  ASSUME RoomsKept, Learned, Asks, NEW t \in RoomThreads, NEW k, Finds(t, k),
         k.pc \in Finding => Reasons(k, could'[t])
  PROVE  Learned'
<1>1. \A v \in RoomThreads : job'[v] = IF v = t THEN k ELSE job[v]
  BY DEF Finds, RoomsKept
<1>2. ASSUME NEW v \in RoomThreads PROVE Reasons(job'[v], could'[v])
  <2>1. CASE v = t /\ k.pc \in Finding
    BY <1>1, <2>1
  <2>2. CASE v # t \/ k.pc \notin Finding
    <3>1. job'[v] = job[v] \/ job'[v].pc \notin Finding
      BY <1>1, <2>2
    <3> QED  BY <3>1, StaysKnown
  <2> QED  BY <2>1, <2>2
<1> QED  BY <1>2 DEF Learned

LEMMA StillKnown == ASSUME Learned, Asks, job' = job PROVE Learned'
<1>1. ASSUME NEW v \in RoomThreads PROVE Reasons(job'[v], could'[v])
  BY StaysKnown
<1> QED  BY <1>1 DEF Learned

LEMMA ReturnsQuietly ==
  ASSUME NEW t, NEW j, NEW ok \in BOOLEAN, Says(t, j), j.u \in Callers
  PROVE  Returning(t, j, ok).pc \notin Finding
<1> DEFINE k == Returning(t, j, ok)
<1>1. SUFFICES k.pc \notin Finding
  OBVIOUS
<1>2. j \in Jobs /\ Lobby \in RoomIds /\ "none" \in Afters
  BY RoomBounds DEF Says, Afters
<1>3. CASE k = Joining(j.u, Lobby, "none")
  <2>1. Joining(j.u, Lobby, "none").pc = "look"
    BY <1>2, JoiningIs
  <2> QED  BY <1>3, <2>1 DEF Finding
<1>4. CASE k = [j EXCEPT !.pc = "prefer"]
  BY <1>2, <1>4 DEF Jobs, Finding
<1>5. CASE j.then = "close" /\ k = [j.what EXCEPT !.i = @ + 1]
  <2> DEFINE w == j.what
  <2>1. w \in Evicting
    BY <1>5 DEF Says
  <2>2. k = [w EXCEPT !.i = w.i + 1]
    BY <1>5
  <2> HIDE DEF w, k
  <2> QED  BY <2>1, <2>2 DEF Evicting, Finding
<1>6. CASE k = Idle
  BY <1>6, IdleIs DEF Finding
<1>7. \/ k = Joining(j.u, Lobby, "none") \/ k = [j EXCEPT !.pc = "prefer"]
      \/ (j.then = "close" /\ k = [j.what EXCEPT !.i = @ + 1]) \/ k = Idle
  BY DEF Returning
<1> QED  BY <1>3, <1>4, <1>5, <1>6, <1>7

LEMMA ContinueKnown ==
  ASSUME RoomsKept, Learned, Asks, NEW t \in RoomThreads, NEW ok \in BOOLEAN, Continue(t, ok), job[t].u \in Callers
  PROVE  Learned'
<1> DEFINE k == Returning(t, job[t], ok)
<1>1. Finds(t, k)
  BY DEF Continue, Returning, Finds
<1>2. k.pc \notin Finding
  BY JobIs, ReturnsQuietly
<1> HIDE DEF k
<1> QED  BY <1>1, <1>2, MovesKnown

LEMMA LookKnown == ASSUME RoomsKept, Learned, NEW t \in RoomThreads, Look(t) PROVE Learned'
<1> DEFINE j == job[t]
           found == {i \in Slots : slots[i].active /\ slots[i].id = j.r}
<1>1. Asks /\ slots' = slots /\ j.pc = "look" /\ j.u \in Callers /\ j \in Jobs
  BY RestAsks, JobIs DEF Look, Rest, memory, Says, Joins
<1>2. CASE found = {}
  <2>1. Continue(t, FALSE)
    BY <1>2 DEF Look
  <2> QED  BY <1>1, <2>1, ContinueKnown
<1>3. CASE found # {}
  <2>1. PICK i \in found : Start(t, [j EXCEPT !.pc = "bans", !.closed = slots[i].private /\ slots[i].owner # j.u])
    BY <1>3 DEF Look
  <2> DEFINE k == [j EXCEPT !.pc = "bans", !.closed = slots[i].private /\ slots[i].owner # j.u]
  <2>2. k.pc = "bans" /\ k.u = j.u /\ k.r = j.r /\ k.closed = (slots[i].private /\ slots[i].owner # j.u)
    BY <1>1 DEF Jobs
  <2>3. i \in Slots /\ slots[i].active /\ slots[i].id = j.r
    OBVIOUS
  <2>4. Finds(t, k)
    BY <2>1 DEF Finds, Start
  <2> HIDE DEF k
  <2>5. job'[t] = k
    BY <2>4 DEF Finds, RoomsKept
  <2> DEFINE g == Grounds(job[t].u, job[t].r)'
  <2>6. g \subseteq AllGrounds /\ (~k.closed => "open" \in g)
    <3>1. ~k.closed => OpenTo(job[t].u, job[t].r)'
      BY <1>1, <2>2, <2>3, <2>5 DEF OpenTo
    <3> QED  BY <3>1, GroundsAre
  <2>7. could'[t] = could[t] \cup g
    BY <1>1, <2>2, <2>5 DEF Asks, Joins
  <2>8. could[t] \subseteq AllGrounds
    BY DEF Learned, Reasons
  <2> HIDE DEF g
  <2>9. Reasons(k, could'[t])
    BY <2>2, <2>6, <2>7, <2>8 DEF Reasons
  <2> QED  BY <1>1, <2>4, <2>9, MovesKnown
<1> QED  BY <1>2, <1>3

LEMMA CheckBansKnown == ASSUME RoomsKept, Learned, NEW t \in RoomThreads, CheckBans(t) PROVE Learned'
<1> DEFINE j == job[t]
           k == [j EXCEPT !.pc = "roombans"]
           g == Grounds(job[t].u, job[t].r)'
<1>1. Asks /\ sanctions' = sanctions /\ j.pc = "bans" /\ j.u \in Callers /\ j \in Jobs
  BY RestAsks, JobIs DEF CheckBans, Rest, tables, Says, Joins
<1>2. CASE Continue(t, FALSE)
  BY <1>1, <1>2, ContinueKnown
<1>3. CASE Unbanned(j.u, 0) /\ Start(t, k)
  <2>1. k.pc = "roombans" /\ k.u = j.u /\ k.r = j.r /\ k.closed = j.closed
    BY <1>1 DEF Jobs
  <2>2. Finds(t, k)
    BY <1>3 DEF Finds, Start
  <2> HIDE DEF k
  <2>3. job'[t] = k
    BY <2>2 DEF Finds, RoomsKept
  <2>4. Unbanned(job[t].u, 0)'
    BY <1>1, <1>3, <2>1, <2>3 DEF Unbanned, mts_is_sysop, mts_store_is_sanctioned
  <2>5. g \subseteq AllGrounds /\ "mts" \in g
    BY <2>4, GroundsAre
  <2>6. could'[t] = could[t] \cup g
    BY <1>1, <2>1, <2>3 DEF Asks, Joins
  <2>7. Reasons(j, could[t])
    BY DEF Learned
  <2> HIDE DEF g
  <2>8. Reasons(k, could'[t])
    BY <1>1, <2>1, <2>5, <2>6, <2>7 DEF Reasons
  <2> QED  BY <1>1, <2>2, <2>8, MovesKnown
<1> QED  BY <1>2, <1>3 DEF CheckBans

LEMMA CheckRoomBansKnown == ASSUME RoomsKept, Learned, NEW t \in RoomThreads, CheckRoomBans(t) PROVE Learned'
<1> DEFINE j == job[t]
<1>1. Asks /\ sanctions' = sanctions /\ j.pc = "roombans" /\ j.u \in Callers /\ j \in Jobs
  BY RestAsks, JobIs DEF CheckRoomBans, Rest, tables, Says, Joins
<1>2. CASE Continue(t, FALSE)
  BY <1>1, <1>2, ContinueKnown
<1>3. CASE Unbanned(j.u, j.r) /\ Start(t, Cleared(j))
  <2> DEFINE to == IF j.closed /\ ~mts_is_sysop(j.u) THEN "invited" ELSE "set"
             k == [j EXCEPT !.pc = to]
             g == Grounds(job[t].u, job[t].r)'
  <2>1. Start(t, k)
    BY <1>3 DEF Cleared
  <2>2. k.pc = to /\ k.u = j.u /\ k.r = j.r /\ to \in {"invited", "set"}
    BY <1>1 DEF Jobs
  <2>3. to = "set" => ~j.closed \/ mts_is_sysop(j.u)
    OBVIOUS
  <2>4. Finds(t, k)
    BY <2>1 DEF Finds, Start
  <2> HIDE DEF k, to
  <2>5. job'[t] = k
    BY <2>4 DEF Finds, RoomsKept
  <2>6. Unbanned(job[t].u, job[t].r)' /\ (mts_is_sysop(j.u) => OpenTo(job[t].u, job[t].r)')
    BY <1>1, <1>3, <2>2, <2>5 DEF Unbanned, OpenTo, mts_is_sysop, mts_store_is_sanctioned
  <2>7. g \subseteq AllGrounds /\ "room" \in g /\ (mts_is_sysop(j.u) => "open" \in g)
    BY <2>6, GroundsAre
  <2>8. could'[t] = could[t] \cup g
    BY <1>1, <2>2, <2>5 DEF Asks, Joins
  <2>9. Reasons(j, could[t])
    BY DEF Learned
  <2> HIDE DEF g
  <2>10. could'[t] \subseteq AllGrounds /\ {"mts", "room"} \subseteq could'[t] /\ (to = "set" => "open" \in could'[t])
    BY <1>1, <2>3, <2>7, <2>8, <2>9 DEF Reasons
  <2>11. Reasons(k, could'[t])
    BY <2>2, <2>10 DEF Reasons, AllGrounds
  <2> QED  BY <1>1, <2>4, <2>11, MovesKnown
<1> QED  BY <1>2, <1>3 DEF CheckRoomBans

LEMMA CheckInvitedKnown == ASSUME RoomsKept, Learned, NEW t \in RoomThreads, CheckInvited(t) PROVE Learned'
<1> DEFINE j == job[t]
<1>1. Asks /\ invited' = invited /\ j.pc = "invited" /\ j.u \in Callers /\ j \in Jobs
  BY RestAsks, JobIs DEF CheckInvited, Rest, tables, Says, Joins
<1>2. CASE ~mts_store_is_invited(j.r, j.u)
  <2>1. Continue(t, FALSE)
    BY <1>2 DEF CheckInvited
  <2> QED  BY <1>1, <2>1, ContinueKnown
<1>3. CASE mts_store_is_invited(j.r, j.u)
  <2> DEFINE k == [j EXCEPT !.pc = "set"]
             g == Grounds(job[t].u, job[t].r)'
  <2>1. Start(t, k)
    BY <1>3 DEF CheckInvited
  <2>2. k.pc = "set" /\ k.u = j.u /\ k.r = j.r
    BY <1>1 DEF Jobs
  <2>3. Finds(t, k)
    BY <2>1 DEF Finds, Start
  <2> HIDE DEF k
  <2>4. job'[t] = k
    BY <2>3 DEF Finds, RoomsKept
  <2>5. OpenTo(job[t].u, job[t].r)'
    BY <1>1, <1>3, <2>2, <2>4 DEF OpenTo, mts_store_is_invited
  <2>6. g \subseteq AllGrounds /\ "open" \in g
    BY <2>5, GroundsAre
  <2>7. could'[t] = could[t] \cup g
    BY <1>1, <2>2, <2>4 DEF Asks, Joins
  <2>8. could[t] \subseteq AllGrounds /\ {"mts", "room"} \subseteq could[t]
    BY <1>1 DEF Learned, Reasons
  <2> HIDE DEF g
  <2>9. Reasons(k, could'[t])
    BY <2>2, <2>6, <2>7, <2>8 DEF Reasons, AllGrounds
  <2> QED  BY <1>1, <2>3, <2>9, MovesKnown
<1> QED  BY <1>2, <1>3

LEMMA QuietKnown ==
  ASSUME RoomsKept, Learned, NEW v, Rest(v), NEW t \in RoomThreads, NEW k, Start(t, k), k.pc \notin Finding
  PROVE  Learned'
<1>1. Asks /\ Finds(t, k)
  BY RestAsks DEF Finds, Start
<1> QED  BY <1>1, MovesKnown

LEMMA JoiningQuietly ==
  ASSUME NEW u, NEW r, NEW a PROVE Joining(u, r, a).pc \notin Finding /\ DOMAIN Joining(u, r, a) = DOMAIN Idle
BY DEF Joining, Idle, Finding

LEMMA HoldingQuietly ==
  ASSUME NEW pc, NEW u, NEW i PROVE Holding(pc, u, i).pc = pc /\ DOMAIN Holding(pc, u, i) = DOMAIN Idle
BY DEF Holding, Idle

LEMMA IdleHas == DOMAIN Idle = {"pc", "u", "r", "old", "closed", "slot", "i", "what", "then"} /\ Idle.pc \notin Finding
BY DEF Idle, Finding

LEMMA CommandKnown == ASSUME RoomsKept, Learned, NEW t \in Callers, Command(t) PROVE Learned'
<1>0. t \in RoomThreads
  BY RoomBounds
<1>1. CASE Quit(t)
  <2> DEFINE k == [Idle EXCEPT !.pc = "remove", !.u = t, !.old = room[t], !.then = "leave"]
  <2>1. Start(t, k) /\ Rest(<<memory, sessions, room, muted, tables, unsaved>>)
    BY <1>1 DEF Quit, cleanup_instance
  <2>2. k.pc \notin Finding
    BY DEF Idle, Finding
  <2> HIDE DEF k
  <2> QED  BY <1>0, <2>1, <2>2, QuietKnown
<1>2. CASE Leave(t)
  BY <1>0, <1>2, QuietKnown, JoiningQuietly DEF Leave
<1>3. CASE Topic(t)
  <2>1. CASE Stopped
    <3>1. Asks /\ job' = [v \in RoomThreads |-> Idle]
      BY <2>1, RestAsks DEF Stopped
    <3>2. ASSUME NEW v \in RoomThreads PROVE Reasons(job'[v], could'[v])
      BY <3>1, IdleHas, StaysKnown
    <3> QED  BY <3>2 DEF Learned
  <2>2. CASE ~Stopped
    <3>1. PICK i \in current_room(t) : Rest(<<memory, callers, job, invited, sanctions, default, unsaved>>)
      BY <1>3, <2>2 DEF Topic
    <3>2. Asks /\ job' = job
      BY <3>1, RestAsks DEF Rest
    <3> QED  BY <3>2, StillKnown
  <2> QED  BY <2>1, <2>2
<1>4. CASE Chatlock(t)
  <2>1. Rest(<<up, slots, nextId, callers, job, tables, unsaved>>)
    BY <1>4 DEF Chatlock
  <2>2. Asks /\ job' = job
    BY <2>1, RestAsks DEF Rest
  <2> QED  BY <2>2, StillKnown
<1>5. CASE \E n \in Names : Join(t, n)
  BY <1>0, <1>5, QuietKnown, JoiningQuietly DEF Join
<1>6. CASE \E n \in Names : DefaultRoom(t, n)
  <2>1. PICK i : Start(t, [Joining(t, slots[i].id, "default") EXCEPT !.slot = i])
                  /\ Rest(<<memory, callers, tables, unsaved>>)
    BY <1>6 DEF DefaultRoom
  <2>2. [Joining(t, slots[i].id, "default") EXCEPT !.slot = i].pc \notin Finding
    BY JoiningQuietly, IdleHas
  <2> QED  BY <1>0, <2>1, <2>2, QuietKnown
<1>7. CASE \E n \in Names : Create(t, n)
  <2>1. Rest(<<up, locked, sessions, life, muted, job, invited, sanctions, default>>)
    BY <1>7 DEF Create
  <2>2. Asks /\ job' = job
    BY <2>1, RestAsks DEF Rest
  <2> QED  BY <2>2, StillKnown
<1>8. CASE \E n \in Names : Rename(t, n)
  <2>1. PICK i, n : Start(t, [Holding("rename", t, i) EXCEPT !.what = [Free EXCEPT !.name = Norm[n]]])
                     /\ Rest(<<memory, callers, tables, unsaved>>)
    BY <1>8 DEF Rename
  <2>2. [Holding("rename", t, i) EXCEPT !.what = [Free EXCEPT !.name = Norm[n]]].pc \notin Finding
    BY HoldingQuietly, IdleHas DEF Finding
  <2> QED  BY <1>0, <2>1, <2>2, QuietKnown
<1>9. CASE \E n \in Names : Close(t, n)
  <2>1. PICK i : Start(t, [Holding("evict", NoUser, i) EXCEPT !.r = slots[i].id]) /\ Rest(<<memory, callers, tables, unsaved>>)
    BY <1>9 DEF Close
  <2>2. [Holding("evict", NoUser, i) EXCEPT !.r = slots[i].id].pc \notin Finding
    BY HoldingQuietly, IdleHas DEF Finding
  <2> QED  BY <1>0, <2>1, <2>2, QuietKnown
<1>10. CASE \E p \in BOOLEAN : Visibility(t, p)
  <2>1. Rest(<<up, nextId, locked, callers, job, invited, sanctions, default, unsaved>>)
    BY <1>10 DEF Visibility
  <2>2. Asks /\ job' = job
    BY <2>1, RestAsks DEF Rest
  <2> QED  BY <2>2, StillKnown
<1>11. CASE \E u \in Callers : Kick(t, u)
  BY <1>0, <1>11, QuietKnown, JoiningQuietly DEF Kick
<1>12. CASE \E u \in Callers, c \in {"invite", "uninvite", "transfer"} : Administer(t, c, u)
  <2>0. PICK u \in Callers, c \in {"invite", "uninvite", "transfer"} : Administer(t, c, u)
    BY <1>12
  <2>1. PICK i : Start(t, Holding(c, u, i)) /\ Rest(<<memory, callers, tables, unsaved>>)
    BY <2>0 DEF Administer
  <2>2. Holding(c, u, i).pc \notin Finding
    BY HoldingQuietly DEF Finding
  <2> QED  BY <1>0, <2>1, <2>2, QuietKnown
<1>13. CASE Sanctioning(t)
  <2>1. PICK u, w, r, add, a : Start(t, [Holding("sanction", u, 1) EXCEPT !.what = w, !.r = r, !.closed = add, !.then = a])
                                /\ Rest(<<memory, callers, tables, unsaved>>)
    BY <1>13 DEF Sanctioning, Moderate
  <2>2. [Holding("sanction", u, 1) EXCEPT !.what = w, !.r = r, !.closed = add, !.then = a].pc \notin Finding
    BY HoldingQuietly, IdleHas DEF Finding
  <2> QED  BY <1>0, <2>1, <2>2, QuietKnown
<1> QED  BY <1>1, <1>2, <1>3, <1>4, <1>5, <1>6, <1>7, <1>8, <1>9, <1>10, <1>11, <1>12, <1>13 DEF Command

LEMMA WorkKnown == ASSUME RoomsKept, Learned, NEW t \in RoomThreads, Work(t) PROVE Learned'
<1> DEFINE j == job[t]
<1>0. j \in Jobs /\ \A pc \in Places \ Finding : [j EXCEPT !.pc = pc].pc \notin Finding
  <2>1. j \in Jobs
    BY JobIs
  <2> QED  BY <2>1 DEF Jobs
<1>1. CASE Look(t) \/ CheckBans(t) \/ CheckRoomBans(t) \/ CheckInvited(t)
  BY <1>1, LookKnown, CheckBansKnown, CheckRoomBansKnown, CheckInvitedKnown
<1>2. CASE SetRoom(t)
  <2> DEFINE old == room[j.u]
             pc == IF room[j.u] \notin {0, j.r} THEN "empty" ELSE "mutes"
  <2>1. Start(t, [j EXCEPT !.old = old, !.pc = pc]) /\ Rest(<<memory, sessions, life, muted, tables, unsaved, commands>>)
    BY <1>2 DEF SetRoom
  <2>2. pc \in {"empty", "mutes"}
    OBVIOUS
  <2> HIDE DEF old, pc
  <2>3. [j EXCEPT !.old = old, !.pc = pc].pc \notin Finding
    BY <1>0, <2>2 DEF Jobs, Finding
  <2> QED  BY <2>1, <2>3, QuietKnown
<1>3. CASE EmptyRoom(t)
  <2>1. PICK pc \in {"delete", "mutes"} : Start(t, [j EXCEPT !.pc = pc])
                                           /\ Rest(<<up, nextId, locked, callers, tables, unsaved, commands>>)
    BY <1>3 DEF EmptyRoom
  <2>2. [j EXCEPT !.pc = pc].pc \notin Finding
    BY <1>0 DEF Places, Finding
  <2> QED  BY <2>1, <2>2, QuietKnown
<1>4. CASE DeleteRoom(t)
  <2>1. [j EXCEPT !.pc = "mutes"].pc \notin Finding
    BY <1>0 DEF Places, Finding
  <2> QED  BY <1>4, <2>1, QuietKnown DEF DeleteRoom
<1>5. CASE Returns(t)
  <2>1. Asks /\ Continue(t, TRUE) /\ j.pc = "mutes"
    BY <1>5, RestAsks DEF Returns
  <2>2. j.u \in Callers
    BY <2>1, JobIs DEF Says
  <2> QED  BY <2>1, <2>2, ContinueKnown
<1>6. CASE Delist(t)
  <2>1. [j EXCEPT !.pc = "empty"].pc \notin Finding
    BY <1>0 DEF Places, Finding
  <2> QED  BY <1>6, <2>1, QuietKnown DEF Delist
<1>7. CASE Prefer(t) \/ SaveRoom(t) \/ mts_store_invitation(t) \/ Erase(t)
  <2>1. PICK v : Rest(v) /\ Start(t, Idle)
    BY <1>7 DEF Prefer, SaveRoom, mts_store_invitation, Erase
  <2> QED  BY <2>1, IdleHas, QuietKnown
<1>8. CASE Renamed(t) \/ Transfer(t)
  <2>1. PICK w : Start(t, [j EXCEPT !.pc = "save", !.what = w]) /\ Rest(<<up, nextId, locked, callers, tables, unsaved, commands>>)
    BY <1>8 DEF Renamed, Transfer, Bind
  <2>2. [j EXCEPT !.pc = "save", !.what = w].pc \notin Finding
    BY <1>0 DEF Jobs, Finding
  <2> QED  BY <2>1, <2>2, QuietKnown
<1>9. CASE WriteSanction(t)
  <2>1. PICK k : Start(t, k) /\ k \in {[j EXCEPT !.pc = "flag", !.then = "none"], Idle}
                  /\ Rest(<<memory, callers, db, invited, default, unsaved, commands>>)
    BY <1>9 DEF WriteSanction
  <2>2. [j EXCEPT !.pc = "flag", !.then = "none"].pc \notin Finding
    BY <1>0 DEF Jobs, Finding
  <2> QED  BY <2>1, <2>2, IdleHas, QuietKnown
<1>10. CASE Flag(t)
  <2>1. PICK k : Start(t, k) /\ k \in {Joining(j.u, Lobby, "none"), Idle}
                  /\ Rest(<<memory, sessions, life, room, tables, unsaved, commands>>)
    BY <1>10 DEF Flag
  <2> QED  BY <2>1, JoiningQuietly, IdleHas, QuietKnown
<1>11. CASE Evict(t)
  <2>1. PICK u, w, k : Start(t, k) /\ k \in {[j EXCEPT !.pc = "shut"], [Joining(u, Lobby, "close") EXCEPT !.what = w]}
                        /\ Rest(<<memory, callers, tables, unsaved, commands>>)
    BY <1>11 DEF Evict
  <2>2. [j EXCEPT !.pc = "shut"].pc \notin Finding
    BY <1>0 DEF Places, Finding
  <2>3. [Joining(u, Lobby, "close") EXCEPT !.what = w].pc \notin Finding
    BY JoiningQuietly, IdleHas
  <2> QED  BY <2>1, <2>2, <2>3, QuietKnown
<1>12. CASE Shut(t)
  <2>1. [j EXCEPT !.pc = "erase"].pc \notin Finding
    BY <1>0 DEF Places, Finding
  <2> QED  BY <1>12, <2>1, QuietKnown DEF Shut
<1> QED  BY <1>1, <1>2, <1>3, <1>4, <1>5, <1>6, <1>7, <1>8, <1>9, <1>10, <1>11, <1>12 DEF Work

LEMMA KnownStep == RoomsKept /\ Learned /\ [RoomsNext]_roomvars => Learned'
<1> SUFFICES ASSUME RoomsKept, Learned, [RoomsNext]_roomvars PROVE Learned'
  OBVIOUS
<1>1. CASE \E t \in Callers : Command(t) \/ Enter(t)
  <2>1. PICK t \in Callers : Command(t) \/ Enter(t)
    BY <1>1
  <2>2. CASE Enter(t)
    BY <2>2, RoomBounds, JoiningQuietly, QuietKnown DEF Enter
  <2> QED  BY <2>1, <2>2, CommandKnown
<1>2. CASE \E t \in RoomThreads : Work(t)
  BY <1>2, WorkKnown
<1>3. CASE \E c \in Consoles, u \in Callers : ForcedDisconnect(c, u)
  <2>1. PICK c \in Consoles, u \in Callers : ForcedDisconnect(c, u)
    BY <1>3
  <2> DEFINE k == [Idle EXCEPT !.pc = "remove", !.u = u, !.old = room[u], !.then = "leave"]
  <2>2. Start(c, k) /\ Rest(<<memory, sessions, room, muted, tables, unsaved>>) /\ c \in RoomThreads
    BY <2>1 DEF ForcedDisconnect, cleanup_instance, RoomThreads
  <2>3. k.pc \notin Finding
    BY DEF Idle, Finding
  <2> HIDE DEF k
  <2> QED  BY <2>2, <2>3, QuietKnown
<1>4. CASE Expire \/ \E config \in Configs : mts_state_init(config)
  <2>1. Asks /\ job' = job
    BY <1>4, RestAsks DEF Expire, mts_state_init, Rest
  <2> QED  BY <2>1, StillKnown
<1>5. CASE PluginStops
  <2>1. Asks /\ job' = [v \in RoomThreads |-> Idle]
    BY <1>5, RestAsks DEF PluginStops, Stopped
  <2>2. ASSUME NEW v \in RoomThreads PROVE Reasons(job'[v], could'[v])
    BY <2>1, IdleHas, StaysKnown
  <2> QED  BY <2>2 DEF Learned
<1>6. CASE UNCHANGED roomvars
  BY <1>6 DEF roomvars, Learned
<1> QED  BY <1>1, <1>2, <1>3, <1>4, <1>5, <1>6 DEF RoomsNext

LEMMA KnownBegins == RoomsInit => Learned
BY IdleIs DEF RoomsInit, Learned, Reasons

(* Nobody comes into a room unless, since that mts_join began, there was a *)
(* moment at which MTS did not ban them, one at which the room did not and *)
(* one at which it was open to them, or they made it: `Admitted' of        *)
(* mts_join and handle_create.                                             *)
THEOREM RoomsAdmit == RoomsSpec => Admitted
<1>1. RoomsInit => RoomsKept /\ Learned
  BY RoomsBegin, KnownBegins
<1>2. RoomsKept /\ Learned /\ [RoomsNext]_roomvars => (RoomsKept /\ Learned)'
  BY RoomsStep, KnownStep
<1>3. ASSUME RoomsKept, Learned, [RoomsNext]_roomvars
      PROVE  [\A u \in Callers : room'[u] \notin {0, room[u]} =>
                \/ room'[u] = nextId /\ nextId' = nextId + 1
                \/ \E t \in RoomThreads : job[t].pc = "set" /\ job[t].u = u /\ could[t] = AllGrounds]_roomvars
  <2> SUFFICES ASSUME NEW u \in Callers, room'[u] \notin {0, room[u]}
               PROVE  \/ room'[u] = nextId /\ nextId' = nextId + 1
                      \/ \E t \in RoomThreads : job[t].pc = "set" /\ job[t].u = u /\ could[t] = AllGrounds
    OBVIOUS
  <2>0. room \in [Callers -> RoomIds]
    BY <1>3 DEF RoomsKept
  <2>1. CASE \E t \in Callers : Command(t) \/ Enter(t)
    <3>1. PICK t \in Callers : Command(t) \/ Enter(t)
      BY <2>1
    <3>2. CASE Enter(t)
      BY <2>0, <3>2 DEF Enter
    <3>3. CASE \E n \in Names : Create(t, n)
      <4>1. room' = [room EXCEPT ![t] = nextId] /\ nextId' = nextId + 1
        BY <3>3 DEF Create
      <4> QED  BY <2>0, <4>1
    <3>4. CASE Quit(t) \/ Leave(t) \/ Topic(t) \/ Chatlock(t)
      BY <3>4 DEF Quit, Leave, Topic, Chatlock, cleanup_instance, Stopped, Rest, callers
    <3>5. CASE \E n \in Names : Join(t, n) \/ DefaultRoom(t, n) \/ Rename(t, n) \/ Close(t, n)
      BY <3>5 DEF Join, DefaultRoom, Rename, Close, Rest, callers
    <3>6. CASE \E p \in BOOLEAN : Visibility(t, p)
      BY <3>6 DEF Visibility, Rest, callers
    <3>7. CASE (\E v \in Callers : Kick(t, v) \/ \E c \in {"invite", "uninvite", "transfer"} : Administer(t, c, v)) \/ Sanctioning(t)
      BY <3>7 DEF Kick, Administer, Sanctioning, Moderate, Rest, callers
    <3> QED  BY <3>1, <3>2, <3>3, <3>4, <3>5, <3>6, <3>7 DEF Command
  <2>2. CASE \E t \in RoomThreads : Work(t)
    <3>1. PICK t \in RoomThreads : Work(t)
      BY <2>2
    <3>2. CASE SetRoom(t)
      <4>1. job[t].pc = "set" /\ room' = [room EXCEPT ![job[t].u] = job[t].r]
        BY <3>2 DEF SetRoom
      <4>2. job[t].u = u
        BY <2>0, <4>1
      <4>3. could[t] = AllGrounds
        BY <1>3, <4>1 DEF Learned, Reasons
      <4> QED  BY <4>1, <4>2, <4>3
    <3>3. CASE Look(t) \/ CheckBans(t) \/ CheckRoomBans(t) \/ CheckInvited(t) \/ EmptyRoom(t) \/ DeleteRoom(t) \/ Returns(t)
      BY <3>3 DEF Look, CheckBans, CheckRoomBans, CheckInvited, EmptyRoom, DeleteRoom, Returns, Rest, callers
    <3>4. CASE Delist(t) \/ Prefer(t) \/ Renamed(t) \/ Transfer(t) \/ SaveRoom(t) \/ mts_store_invitation(t)
      BY <3>4 DEF Delist, Prefer, Renamed, Transfer, Bind, SaveRoom, mts_store_invitation, Rest, callers
    <3>5. CASE WriteSanction(t) \/ Flag(t) \/ Evict(t) \/ Shut(t) \/ Erase(t)
      BY <3>5 DEF WriteSanction, Flag, Evict, Shut, Erase, Rest, callers
    <3> QED  BY <3>1, <3>2, <3>3, <3>4, <3>5 DEF Work
  <2>3. CASE \E c \in Consoles, v \in Callers : ForcedDisconnect(c, v)
    BY <2>3 DEF ForcedDisconnect, cleanup_instance, Rest, callers
  <2>4. CASE Expire \/ \E config \in Configs : mts_state_init(config)
    BY <2>4 DEF Expire, mts_state_init, Rest, callers
  <2>5. CASE PluginStops
    BY <2>5 DEF PluginStops, Stopped
  <2>6. CASE UNCHANGED roomvars
    BY <2>6 DEF roomvars, callers
  <2> QED  BY <1>3, <2>1, <2>2, <2>3, <2>4, <2>5, <2>6 DEF RoomsNext
<1> QED  BY <1>1, <1>2, <1>3, PTL DEF RoomsSpec, Admitted

(***************************************************************************)
(* Proofs about BuccHost, for any doors, modules, sessions, grants, values *)
(* and maps.  The module file first: the pool is defined step by step, and *)
(* holds the module's own strings at their places and every name; the      *)
(* sections follow each other; so what is loaded is what was saved.  Then  *)
(* HostKept: a running door's host context allows what its runner was      *)
(* given, a runner's program came from a file of its own door, from all of *)
(* it if nobody was writing, and records are numbered once.  Until it is   *)
(* read, an undisturbed file is complete and as it was opened.  Each step  *)
(* is one of five kinds: it looks, tells a caller something, writes to the *)
(* scope of the run's door, turns a runner, or writes a module file.       *)
(***************************************************************************)

Texts(d) == {bucc_module_save_file(m) : m \in Modules[d]}
\* What a launcher makes of the first n bytes of a module's file.
Cut(m, n) == bucc_module_load_memory(First(bucc_module_save_file(m), n))
Progs == {NoModule, Torn} \cup {Cut(m, n) : m \in UNION {Modules[d] : d \in DoorIds}, n \in Nat}
Loads(d, p, calm) ==
  /\ p # NoModule
  /\ p = Torn => \E m, n \in Modules[d] : m # n
  /\ p # Torn => \E m \in Modules[d], n \in Nat : n <= bucc_module_save_file(m).len /\ p = Cut(m, n)
  /\ calm => \E m \in Modules[d] : p = Cut(m, bucc_module_save_file(m).len)

Runner == [pc : {None, "opened", "reading", "loaded", "running", "over"}, door : DoorIds,
           prog : Progs, allowed : SUBSET Known, host : SUBSET Known, map : [Maps -> Values \cup {None}],
           result : Results \cup {None, "security", "capability"}, size : Nat,
           first : {NoModule} \cup UNION {Texts(d) : d \in DoorIds}, calm : BOOLEAN]
Runs(r) ==
  /\ r \in Runner
  /\ r.pc = "reading" => r.first \in Texts(r.door)
  /\ r.pc \in {"loaded", "running"} => Loads(r.door, r.prog, r.calm)
  /\ r.pc = "running" => r.host = r.allowed
Runners == run = [s \in Sessions |-> run[s]] /\ \A s \in Sessions : Runs(run[s])

\* A file that nobody wrote since it was opened.
Calmly(r) ==
  r.pc \in {"opened", "reading"} /\ r.calm =>
    /\ Complete(file[r.door]) /\ r.size = file[r.door].size
    /\ r.pc = "reading" => r.first = file[r.door].text
Undisturbed == \A s \in Sessions : Calmly(run[s])

Files ==
  /\ file = [d \in DoorIds |-> file[d]]
  /\ \A d \in DoorIds : file[d] \in [text : Texts(d), size : Nat] /\ file[d].size <= file[d].text.len

Record == [id : Nat, scope : DoorIds, value : Values]
Keeps == [kv : [DoorIds -> Values \cup {None}], data : SUBSET Record, next : Nat \ {0},
          text : [DoorIds -> Values \cup {None}]]
Numbered ==
  /\ \A r \in store.data : r.id \in 1 .. store.next - 1
  /\ \A r, q \in store.data : r.id = q.id => r = q
Stored == store \in Keeps /\ Numbered

Answered == read \in [by : Sessions \cup {None}, got : SUBSET (DoorIds \cup {"board"})] /\ ReadsOwn

HostKept == Runners /\ Undisturbed /\ Files /\ Stored /\ Answered

-----------------------------------------------------------------------------
(* The module file.                                                         *)

\* A function on 0 .. n that is defined step by step is there.
Follows(g, n, S, base, step) ==
  g \in [0 .. n -> S] /\ \A k \in 0 .. n : g[k] = IF k = 0 THEN base ELSE step[k][g[k - 1]]

LEMMA StepByStep ==
    ASSUME NEW n \in Nat, NEW S, NEW base \in S, NEW step \in [1 .. n -> [S -> S]]
    PROVE  \E g : Follows(g, n, S, base, step)
<1> DEFINE Grows(g, m) == g \in [0 .. m -> S] /\ \A k \in 0 .. m : g[k] = IF k = 0 THEN base ELSE step[k][g[k - 1]]
           Bad == {m \in 0 .. n : ~ \E g : Grows(g, m)}
<1>1. SUFFICES ASSUME Bad # {} PROVE FALSE
  <2>1. n \notin Bad
    BY <1>1
  <2>2. \E g : Grows(g, n)
    BY <2>1
  <2> QED  BY <2>2 DEF Follows
<1>2. PICK m \in Bad : \A j \in Bad : m <= j
  <2>1. Bad \in SUBSET Nat
    OBVIOUS
  <2> HIDE DEF Bad
  <2> QED  BY <1>1, <2>1, LeastOf
<1>3. CASE m = 0
  <2>1. Grows([k \in 0 .. 0 |-> base], 0)
    OBVIOUS
  <2> QED  BY <1>2, <1>3, <2>1
<1>4. CASE m # 0
  <2>0. m \in 0 .. n
    OBVIOUS
  <2>1. m - 1 \in 0 .. n /\ m - 1 \notin Bad /\ m \in 1 .. n
    <3> HIDE DEF Bad
    <3> QED  BY <1>2, <1>4, <2>0
  <2>2. PICK g : Grows(g, m - 1)
    BY <2>1
  <2> DEFINE h == [k \in 0 .. m |-> IF k = m THEN step[m][g[m - 1]] ELSE g[k]]
  <2>3. step[m][g[m - 1]] \in S
    BY <2>1, <2>2
  <2>4. h \in [0 .. m -> S]
    BY <2>1, <2>2, <2>3
  <2>5. ASSUME NEW k \in 0 .. m PROVE h[k] = IF k = 0 THEN base ELSE step[k][h[k - 1]]
    <3>1. CASE k = m
      BY <2>1, <3>1
    <3>2. CASE k # m
      BY <2>1, <2>2, <3>2
    <3> QED  BY <3>1, <3>2
  <2> HIDE DEF h
  <2>6. Grows(h, m)
    BY <2>4, <2>5
  <2> QED  BY <1>2, <2>6
<1> QED  BY <1>3, <1>4

LEMMA SumIsNat == ASSUME NEW seq \in Seq(Nat) PROVE SumOf(seq) \in Nat
<1> DEFINE n == Len(seq)
           Whole(f) == f = [k \in 0 .. n |-> IF k = 0 THEN 0 ELSE f[k - 1] + seq[k]]
           it == CHOOSE f : Whole(f)
           step == [k \in 1 .. n |-> [a \in Nat |-> a + seq[k]]]
<1>1. SumOf(seq) = it[n] /\ n \in Nat /\ \A k \in 1 .. n : seq[k] \in Nat
  BY DEF SumOf
<1>2. \E f : Whole(f)
  <2>1. step \in [1 .. n -> [Nat -> Nat]]
    BY <1>1
  <2>2. \A k \in 1 .. n, a \in Nat : step[k][a] = a + seq[k]
    OBVIOUS
  <2> HIDE DEF step, n
  <2>0. \E g : Follows(g, n, Nat, 0, step)
    <3>1. n \in Nat /\ 0 \in Nat
      BY <1>1
    <3> HIDE DEF it, Whole
    <3> QED  BY <2>1, <3>1, StepByStep
  <2>3. PICK g \in [0 .. n -> Nat] : \A k \in 0 .. n : g[k] = IF k = 0 THEN 0 ELSE step[k][g[k - 1]]
    BY <2>0 DEF Follows
  <2>4. ASSUME NEW k \in 0 .. n PROVE g[k] = IF k = 0 THEN 0 ELSE g[k - 1] + seq[k]
    <3>1. CASE k # 0
      <4>1. k - 1 \in 0 .. n /\ k \in 1 .. n
        BY <1>1, <3>1
      <4> QED  BY <2>2, <2>3, <3>1, <4>1
    <3> QED  BY <2>3, <3>1
  <2>5. Whole(g)
    BY <2>3, <2>4
  <2> QED  BY <2>5
<1>3. Whole(it)
  BY <1>2
<1> HIDE DEF it, n
<1>4. \A k \in 0 .. n : it[k] = IF k = 0 THEN 0 ELSE it[k - 1] + seq[k]
  BY <1>3
<1> DEFINE Bad == {k \in 0 .. n : it[k] \notin Nat}
<1>5. SUFFICES ASSUME Bad # {} PROVE FALSE
  BY <1>1, <1>5
<1>6. PICK k \in Bad : \A j \in Bad : k <= j
  <2>1. Bad \in SUBSET Nat
    BY <1>1
  <2> HIDE DEF Bad
  <2> QED  BY <1>5, <2>1, LeastOf
<1>7. k \in 0 .. n /\ it[k] \notin Nat
  OBVIOUS
<1>8. CASE k # 0
  <2>1. k - 1 \in 0 .. n /\ k \in 1 .. n /\ k - 1 \notin Bad
    <3> HIDE DEF Bad
    <3> QED  BY <1>1, <1>6, <1>7, <1>8
  <2>2. it[k - 1] \in Nat
    BY <2>1
  <2>3. it[k] = it[k - 1] + seq[k] /\ seq[k] \in Nat
    BY <1>1, <1>4, <1>7, <1>8, <2>1
  <2> QED  BY <1>7, <2>2, <2>3
<1> QED  BY <1>4, <1>7, <1>8

-----------------------------------------------------------------------------
LEMMA ListOf == ASSUME NEW n \in Nat, NEW S, NEW f \in [1 .. n -> S] PROVE f \in Seq(S) /\ Len(f) = n
<1>1. f \in Seq(S)
  OBVIOUS
<1>2. DOMAIN f = 1 .. n /\ DOMAIN f = 1 .. Len(f) /\ Len(f) \in Nat
  BY <1>1, LenProperties
<1> QED  BY <1>1, <1>2

LEMMA WordsAre ==
    ASSUME NEW mod, Emitted(mod)
    PROVE  LET L == Len(mod.strings)
               P == Len(mod.procs)
               I == Len(mod.imports)
           IN  /\ Words(mod) \in Seq(STRING) /\ Len(Words(mod)) = L + P + 2 * I
               /\ L \in Nat /\ P \in Nat /\ I \in Nat
               /\ \A i \in 1 .. L : Words(mod)[i] = mod.strings[i]
               /\ \A i \in 1 .. P : Words(mod)[L + i] = mod.procs[i].name
               /\ \A i \in 1 .. I : Words(mod)[L + P + (2 * i - 1)] = mod.imports[i].ns
               /\ \A i \in 1 .. I : Words(mod)[L + P + 2 * i] = mod.imports[i].fn
<1> DEFINE L == Len(mod.strings)
           P == Len(mod.procs)
           I == Len(mod.imports)
           names == [i \in 1 .. P |-> mod.procs[i].name]
           calls == [i \in 1 .. 2 * I |->
                      IF i % 2 = 1 THEN mod.imports[(i + 1) \div 2].ns ELSE mod.imports[i \div 2].fn]
<1>1. /\ L \in Nat /\ P \in Nat /\ I \in Nat /\ mod.strings \in Seq(STRING)
      /\ \A i \in 1 .. P : mod.procs[i] \in Procs
      /\ \A i \in 1 .. I : mod.imports[i] \in Imports
  BY DEF Emitted
<1>2. names \in Seq(STRING) /\ Len(names) = P
  BY <1>1 DEF Procs
<1>3. ASSUME NEW i \in 1 .. 2 * I
      PROVE  /\ i % 2 = 1 => (i + 1) \div 2 \in 1 .. I
             /\ i % 2 # 1 => i \div 2 \in 1 .. I
  BY <1>1
<1>4. calls \in Seq(STRING) /\ Len(calls) = 2 * I
  <2>1. \A i \in 1 .. 2 * I : calls[i] \in STRING
    BY <1>1, <1>3 DEF Imports
  <2>2. calls \in [1 .. 2 * I -> STRING] /\ 2 * I \in Nat
    <3>1. 2 * I \in Nat
      BY <1>1
    <3> HIDE DEF I
    <3> QED  BY <2>1, <3>1
  <2> HIDE DEF calls, I
  <2> QED  BY <2>2, ListOf
<1>5. ASSUME NEW i \in 1 .. I
      PROVE  /\ 2 * i - 1 \in 1 .. 2 * I /\ 2 * i \in 1 .. 2 * I
             /\ (2 * i - 1) % 2 = 1 /\ ((2 * i - 1) + 1) \div 2 = i
             /\ (2 * i) % 2 = 0 /\ (2 * i) \div 2 = i
  BY <1>1
<1>6. ASSUME NEW i \in 1 .. I PROVE calls[2 * i - 1] = mod.imports[i].ns /\ calls[2 * i] = mod.imports[i].fn
  BY <1>5
<1>7. /\ \A i \in 1 .. P : names[i] = mod.procs[i].name
      /\ Words(mod) = mod.strings \o names \o calls
  BY DEF Words
<1> HIDE DEF names, calls, L, P, I
<1>8. /\ mod.strings \o names \in Seq(STRING) /\ Len(mod.strings \o names) = L + P
      /\ \A i \in 1 .. L : (mod.strings \o names)[i] = mod.strings[i]
      /\ \A i \in 1 .. P : (mod.strings \o names)[L + i] = names[i]
  BY <1>1, <1>2 DEF L
<1>9. /\ Words(mod) \in Seq(STRING) /\ Len(Words(mod)) = L + P + 2 * I
      /\ \A i \in 1 .. L + P : Words(mod)[i] = (mod.strings \o names)[i]
      /\ \A i \in 1 .. 2 * I : Words(mod)[L + P + i] = calls[i]
  <2> DEFINE front == mod.strings \o names
             M == L + P
             n == 2 * I
  <2>1. /\ front \in Seq(STRING) /\ Len(front) = M /\ calls \in Seq(STRING) /\ Len(calls) = n
        /\ M \in Nat /\ n \in Nat /\ Words(mod) = front \o calls
    BY <1>1, <1>4, <1>7, <1>8
  <2> HIDE DEF front, M, n
  <2>2. /\ Words(mod) \in Seq(STRING) /\ Len(Words(mod)) = M + n
        /\ \A i \in 1 .. M + n : Words(mod)[i] = IF i <= M THEN front[i] ELSE calls[i - M]
    <3>1. /\ front \o calls \in Seq(STRING) /\ Len(front \o calls) = Len(front) + Len(calls)
          /\ \A i \in 1 .. Len(front) + Len(calls) :
               (front \o calls)[i] = IF i <= Len(front) THEN front[i] ELSE calls[i - Len(front)]
      BY <2>1, ConcatProperties
    <3> QED  BY <2>1, <3>1
  <2>3. /\ \A i \in 1 .. M : Words(mod)[i] = front[i]
        /\ \A i \in 1 .. n : Words(mod)[M + i] = calls[i]
    BY <2>1, <2>2
  <2> QED  BY <2>2, <2>3 DEF front, M, n
<1>10. /\ \A i \in 1 .. L : Words(mod)[i] = mod.strings[i]
       /\ \A i \in 1 .. P : Words(mod)[L + i] = mod.procs[i].name
  <2>1. ASSUME NEW i \in 1 .. L PROVE Words(mod)[i] = mod.strings[i]
    <3>1. i \in 1 .. L + P
      BY <1>1
    <3> QED  BY <1>8, <1>9, <3>1
  <2>2. ASSUME NEW i \in 1 .. P PROVE Words(mod)[L + i] = mod.procs[i].name
    <3>1. L + i \in 1 .. L + P
      BY <1>1
    <3> QED  BY <1>7, <1>8, <1>9, <3>1
  <2> QED  BY <2>1, <2>2
<1>11. /\ \A i \in 1 .. I : Words(mod)[L + P + (2 * i - 1)] = mod.imports[i].ns
       /\ \A i \in 1 .. I : Words(mod)[L + P + 2 * i] = mod.imports[i].fn
  BY <1>1, <1>5, <1>6, <1>9
<1> QED  BY <1>1, <1>9, <1>10, <1>11 DEF L, P, I

\* The pool after the first k words.
Pooled(p, mod, k) ==
  /\ p \in Seq(STRING)
  /\ \A i \in 1 .. k : \E j \in DOMAIN p : p[j] = Words(mod)[i]
  /\ k <= Len(mod.strings) => Len(p) = k
  /\ \A i \in 1 .. Len(mod.strings) : i <= k => i \in DOMAIN p /\ p[i] = mod.strings[i]

LEMMA PoolGrows ==
    ASSUME NEW mod, Emitted(mod), NEW k \in 1 .. Len(Words(mod)), NEW p, Pooled(p, mod, k - 1)
    PROVE  Pooled(add_string_to_pool(p, Words(mod)[k]), mod, k)
<1> DEFINE w == Words(mod)[k]
           L == Len(mod.strings)
           q == add_string_to_pool(p, w)
<1>1. /\ L \in Nat /\ Words(mod) \in Seq(STRING) /\ w \in STRING /\ k \in Nat
      /\ \A i \in 1 .. L : Words(mod)[i] = mod.strings[i]
      /\ \A i, j \in 1 .. L : mod.strings[i] = mod.strings[j] => i = j
  <2>1. Words(mod) \in Seq(STRING) /\ Len(Words(mod)) \in Nat /\ L \in Nat /\ \A i \in 1 .. L : Words(mod)[i] = mod.strings[i]
    BY WordsAre, LenProperties
  <2>2. DOMAIN mod.strings = 1 .. L /\ \A i, j \in DOMAIN mod.strings : mod.strings[i] = mod.strings[j] => i = j
    BY LenProperties DEF Emitted
  <2>3. w \in STRING /\ k \in Nat
    BY <2>1, ElementOfSeq
  <2> QED  BY <2>1, <2>2, <2>3
<1>2. /\ p \in Seq(STRING) /\ Len(p) \in Nat /\ DOMAIN p = 1 .. Len(p)
      /\ \A i \in 1 .. k - 1 : \E j \in DOMAIN p : p[j] = Words(mod)[i]
      /\ k - 1 <= L => Len(p) = k - 1
      /\ \A i \in 1 .. L : i <= k - 1 => i \in DOMAIN p /\ p[i] = mod.strings[i]
  BY DEF Pooled
<1> HIDE DEF w, L
<1>3. CASE \E i \in DOMAIN p : p[i] = w
  <2>1. q = p
    BY <1>3 DEF add_string_to_pool
  <2>2. ~(k <= L)
    <3>1. SUFFICES ASSUME k <= L PROVE FALSE
      OBVIOUS
    <3>2. PICK i \in 1 .. k - 1 : p[i] = w
      BY <1>1, <1>2, <1>3, <3>1
    <3>3. i \in 1 .. L /\ k \in 1 .. L /\ i <= k - 1
      BY <1>1, <3>1, <3>2
    <3>4. p[i] = mod.strings[i] /\ w = mod.strings[k]
      BY <1>1, <1>2, <3>3 DEF w
    <3>5. mod.strings[i] = mod.strings[k]
      BY <3>2, <3>4
    <3>6. i = k
      BY <1>1, <3>3, <3>5
    <3> QED  BY <1>1, <3>3, <3>6
  <2>3. \A i \in 1 .. k : \E j \in DOMAIN q : q[j] = Words(mod)[i]
    BY <1>1, <1>2, <1>3, <2>1 DEF w
  <2>4. \A i \in 1 .. L : i <= k => i \in DOMAIN q /\ q[i] = mod.strings[i]
    BY <1>1, <1>2, <2>1, <2>2
  <2> HIDE DEF q
  <2>5. Pooled(q, mod, k)
    BY <1>2, <2>1, <2>2, <2>3, <2>4 DEF Pooled, L
  <2> QED  BY <2>5 DEF q, w
<1>4. CASE ~\E i \in DOMAIN p : p[i] = w
  <2>1. q = Append(p, w)
    BY <1>4 DEF add_string_to_pool
  <2>2. /\ q \in Seq(STRING) /\ Len(q) = Len(p) + 1 /\ q[Len(p) + 1] = w
        /\ DOMAIN q = 1 .. Len(p) + 1
        /\ \A i \in DOMAIN p : i \in DOMAIN q /\ q[i] = p[i]
    BY <1>1, <1>2, <2>1
  <2>3. ASSUME NEW i \in 1 .. k PROVE \E j \in DOMAIN q : q[j] = Words(mod)[i]
    <3>1. CASE i = k
      BY <1>2, <2>2, <3>1 DEF w
    <3>2. CASE i # k
      BY <1>1, <1>2, <2>2, <3>2
    <3> QED  BY <3>1, <3>2
  <2>4. ASSUME NEW i \in 1 .. L, i <= k PROVE i \in DOMAIN q /\ q[i] = mod.strings[i]
    <3>1. CASE i = k
      <4>1. Len(p) = k - 1
        BY <1>1, <1>2, <3>1
      <4> QED  BY <1>1, <2>2, <3>1, <4>1 DEF w
    <3>2. CASE i # k
      <4>1. i <= k - 1
        BY <1>1, <2>4, <3>2
      <4>2. i \in DOMAIN p /\ p[i] = mod.strings[i]
        BY <1>2, <4>1
      <4> QED  BY <2>2, <4>2
    <3> QED  BY <3>1, <3>2
  <2>5. k <= L => Len(q) = k
    BY <1>1, <1>2, <2>2
  <2> HIDE DEF q
  <2>6. Pooled(q, mod, k)
    BY <2>2, <2>3, <2>4, <2>5 DEF Pooled, L
  <2> QED  BY <2>6 DEF q, w
<1> QED  BY <1>3, <1>4

LEMMA PoolIs == ASSUME NEW mod, Emitted(mod) PROVE Pooled(Pool(mod), mod, Len(Words(mod)))
<1> DEFINE w == Words(mod)
           n == Len(w)
           Whole(f) == f = [k \in 0 .. n |-> IF k = 0 THEN <<>> ELSE add_string_to_pool(f[k - 1], w[k])]
           it == CHOOSE f : Whole(f)
           step == [k \in 1 .. n |-> [p \in Seq(STRING) |-> add_string_to_pool(p, w[k])]]
<1>1. Pool(mod) = it[n]
  BY DEF Pool
<1>2. w \in Seq(STRING) /\ n \in Nat /\ \A k \in 1 .. n : w[k] \in STRING
  BY WordsAre, LenProperties, ElementOfSeq
<1>3. \E f : Whole(f)
  <2>1. \A k \in 1 .. n, p \in Seq(STRING) : add_string_to_pool(p, w[k]) \in Seq(STRING)
    <3>1. ASSUME NEW x \in STRING, NEW p \in Seq(STRING) PROVE add_string_to_pool(p, x) \in Seq(STRING)
      <4>1. add_string_to_pool(p, x) = p \/ add_string_to_pool(p, x) = Append(p, x)
        BY DEF add_string_to_pool
      <4>2. Append(p, x) \in Seq(STRING)
        BY AppendProperties
      <4> QED  BY <4>1, <4>2
    <3> HIDE DEF w, n
    <3> QED  BY <1>2, <3>1
  <2>2. step \in [1 .. n -> [Seq(STRING) -> Seq(STRING)]]
    BY <2>1
  <2>3. \A k \in 1 .. n, p \in Seq(STRING) : step[k][p] = add_string_to_pool(p, w[k])
    OBVIOUS
  <2> HIDE DEF step, w, n
  <2>4. \E g : Follows(g, n, Seq(STRING), <<>>, step)
    <3>1. n \in Nat /\ <<>> \in Seq(STRING)
      BY <1>2
    <3> HIDE DEF it, Whole
    <3> QED  BY <2>2, <3>1, StepByStep
  <2>5. PICK g \in [0 .. n -> Seq(STRING)] : \A k \in 0 .. n : g[k] = IF k = 0 THEN <<>> ELSE step[k][g[k - 1]]
    BY <2>4 DEF Follows
  <2>6. ASSUME NEW k \in 0 .. n PROVE g[k] = IF k = 0 THEN <<>> ELSE add_string_to_pool(g[k - 1], w[k])
    <3>1. CASE k # 0
      <4>1. k - 1 \in 0 .. n /\ k \in 1 .. n
        BY <1>2, <3>1
      <4> QED  BY <2>3, <2>5, <3>1, <4>1
    <3> QED  BY <2>5, <3>1
  <2>7. Whole(g)
    BY <2>5, <2>6
  <2> QED  BY <2>7
<1>4. Whole(it)
  BY <1>3
<1> HIDE DEF it, n, w
<1>5. \A k \in 0 .. n : it[k] = IF k = 0 THEN <<>> ELSE add_string_to_pool(it[k - 1], w[k])
  BY <1>4
<1> DEFINE Bad == {k \in 0 .. n : ~Pooled(it[k], mod, k)}
<1>6. CASE Bad = {}
  <2>1. n \in 0 .. n
    BY <1>2
  <2>2. Pooled(it[n], mod, n)
    BY <1>6, <2>1
  <2> QED  BY <1>1, <2>2 DEF n, w
<1>7. CASE Bad # {}
  <2>1. PICK k \in Bad : \A j \in Bad : k <= j
    <3>1. Bad \in SUBSET Nat
      BY <1>2
    <3> HIDE DEF Bad
    <3> QED  BY <1>7, <3>1, LeastOf
  <2>2. k \in 0 .. n /\ ~Pooled(it[k], mod, k)
    OBVIOUS
  <2>3. CASE k = 0
    <3>1. it[0] = <<>>
      BY <1>2, <1>5
    <3>2. Len(mod.strings) \in Nat
      BY LenProperties DEF Emitted
    <3>3. Pooled(<<>>, mod, 0)
      BY <3>2 DEF Pooled
    <3> QED  BY <2>2, <2>3, <3>1, <3>3
  <2>4. CASE k # 0
    <3>1. k - 1 \in 0 .. n /\ k \in 1 .. n /\ k - 1 \notin Bad
      <4> HIDE DEF Bad
      <4> QED  BY <1>2, <2>1, <2>2, <2>4
    <3>2. Pooled(it[k - 1], mod, k - 1)
      BY <3>1
    <3>3. k \in 1 .. Len(Words(mod))
      BY <3>1 DEF n, w
    <3>4. Pooled(add_string_to_pool(it[k - 1], Words(mod)[k]), mod, k)
      BY <3>2, <3>3, PoolGrows
    <3>5. it[k] = add_string_to_pool(it[k - 1], w[k])
      BY <1>5, <2>2, <2>4
    <3> QED  BY <2>2, <3>4, <3>5 DEF w
  <2> QED  BY <2>3, <2>4
<1> QED  BY <1>6, <1>7

\* Where every name of a module is.
LEMMA Placed ==
    ASSUME NEW mod, Emitted(mod)
    PROVE  /\ Pool(mod) \in Seq(STRING)
           /\ \A i \in DOMAIN mod.strings : i \in DOMAIN Pool(mod) /\ Pool(mod)[i] = mod.strings[i]
           /\ \A i \in DOMAIN mod.procs : \E j \in DOMAIN Pool(mod) : Pool(mod)[j] = mod.procs[i].name
           /\ \A i \in DOMAIN mod.imports : /\ \E j \in DOMAIN Pool(mod) : Pool(mod)[j] = mod.imports[i].ns
                                            /\ \E j \in DOMAIN Pool(mod) : Pool(mod)[j] = mod.imports[i].fn
<1> DEFINE L == Len(mod.strings)
           P == Len(mod.procs)
           I == Len(mod.imports)
           pool == Pool(mod)
           w == Words(mod)
<1>1. /\ L \in Nat /\ P \in Nat /\ I \in Nat /\ Len(w) = L + P + 2 * I
      /\ DOMAIN mod.strings = 1 .. L /\ DOMAIN mod.procs = 1 .. P /\ DOMAIN mod.imports = 1 .. I
  BY WordsAre, LenProperties DEF Emitted
<1>2. /\ \A i \in 1 .. P : w[L + i] = mod.procs[i].name
      /\ \A i \in 1 .. I : w[L + P + (2 * i - 1)] = mod.imports[i].ns /\ w[L + P + 2 * i] = mod.imports[i].fn
  BY WordsAre
<1>3. /\ pool \in Seq(STRING)
      /\ \A i \in 1 .. Len(w) : \E j \in DOMAIN pool : pool[j] = w[i]
      /\ \A i \in 1 .. L : i <= Len(w) => i \in DOMAIN pool /\ pool[i] = mod.strings[i]
  BY PoolIs DEF Pooled
<1> HIDE DEF L, P, I, pool, w
<1>4. ASSUME NEW i \in 1 .. L PROVE i \in DOMAIN pool /\ pool[i] = mod.strings[i]
  <2>1. i <= Len(w)
    BY <1>1
  <2> QED  BY <1>3, <2>1
<1>5. ASSUME NEW i \in 1 .. P PROVE \E j \in DOMAIN pool : pool[j] = mod.procs[i].name
  <2>1. L + i \in 1 .. Len(w)
    BY <1>1
  <2> QED  BY <1>2, <1>3, <2>1
<1>6. ASSUME NEW i \in 1 .. I
      PROVE  /\ \E j \in DOMAIN pool : pool[j] = mod.imports[i].ns
             /\ \E j \in DOMAIN pool : pool[j] = mod.imports[i].fn
  <2>1. L + P + (2 * i - 1) \in 1 .. Len(w) /\ L + P + 2 * i \in 1 .. Len(w)
    BY <1>1
  <2>2. w[L + P + (2 * i - 1)] = mod.imports[i].ns /\ w[L + P + 2 * i] = mod.imports[i].fn
    BY <1>2
  <2>3. \A k \in 1 .. Len(w) : \A x : w[k] = x => \E j \in DOMAIN pool : pool[j] = x
    BY <1>3
  <2> QED  BY <2>1, <2>2, <2>3
<1> QED  BY <1>1, <1>3, <1>4, <1>5, <1>6 DEF pool

\* The five sections follow each other, none of the first four is empty.
LEMMA OffsetsGrow ==
    ASSUME NEW mod, Emitted(mod)
    PROVE  \E a, b, c, d \in Nat : /\ Offsets(mod) = <<60, a, b, c, d>>
                                   /\ 60 < a /\ a < b /\ b < c /\ c < d
<1> DEFINE s1 == [i \in DOMAIN Pool(mod) |-> 2 + Width(Pool(mod)[i])]
           s2 == [i \in DOMAIN mod.consts |-> ConstWidth(mod.consts[i])]
<1>1. SumOf(s1) \in Nat
  <2>1. DOMAIN Pool(mod) = 1 .. Len(Pool(mod)) /\ Len(Pool(mod)) \in Nat
    BY Placed, LenProperties
  <2>2. s1 \in [1 .. Len(Pool(mod)) -> Nat]
    BY <2>1 DEF Width
  <2> HIDE DEF s1
  <2>3. s1 \in Seq(Nat)
    BY <2>1, <2>2, ListOf
  <2> QED  BY <2>3, SumIsNat
<1>2. SumOf(s2) \in Nat
  <2>1. DOMAIN mod.consts = 1 .. Len(mod.consts) /\ Len(mod.consts) \in Nat
    BY LenProperties DEF Emitted
  <2>2. s2 \in [1 .. Len(mod.consts) -> Nat]
    BY <2>1 DEF ConstWidth
  <2> HIDE DEF s2
  <2>3. s2 \in Seq(Nat)
    BY <2>1, <2>2, ListOf
  <2> QED  BY <2>3, SumIsNat
<1>3. Sizes(mod) = <<4 + SumOf(s1), 4 + SumOf(s2), 4 + 24 * Len(mod.procs), 4 + 12 * Len(mod.imports)>>
  BY DEF Sizes
<1>4. Len(mod.procs) \in Nat /\ Len(mod.imports) \in Nat
  BY LenProperties DEF Emitted
<1> HIDE DEF s1, s2
<1> DEFINE z1 == 4 + SumOf(s1)
           z2 == 4 + SumOf(s2)
           z3 == 4 + 24 * Len(mod.procs)
           z4 == 4 + 12 * Len(mod.imports)
           a == 60 + z1
           b == a + z2
           c == b + z3
           d == c + z4
<1>5. Offsets(mod) = <<60, a, b, c, d>>
  BY <1>3 DEF Offsets, HeaderSize
<1>6. a \in Nat /\ b \in Nat /\ c \in Nat /\ d \in Nat /\ 60 < a /\ a < b /\ b < c /\ c < d
  <2>1. z1 \in Nat \ {0} /\ z2 \in Nat \ {0}
    BY <1>1, <1>2
  <2>2. z3 \in Nat \ {0} /\ z4 \in Nat \ {0}
    BY <1>4
  <2> HIDE DEF z1, z2, z3, z4
  <2> QED  BY <2>1, <2>2
<1> HIDE DEF a, b, c, d
<1> QED  BY <1>5, <1>6

\* What the loader finds at the five offsets of a file that was saved.
LEMMA SavedSections ==
    ASSUME NEW mod, Emitted(mod)
    PROVE  LET f == bucc_module_save_file(mod)
           IN  /\ f.magic = "BUCC" /\ f.major = 1 /\ f.len \in Nat /\ f.len > 60
               /\ \A i \in 1 .. 5 : f.off[i] \in Nat /\ f.off[i] > 0
               /\ \A i \in 1 .. 4 : f.off[i] < f.off[5] /\ f.off[i + 1] <= f.off[5]
               /\ f.len = f.off[5] + Len(mod.code)
               /\ f.at[f.off[1]] = Pool(mod)
               /\ f.at[f.off[2]] = [i \in DOMAIN mod.consts |-> ConstWritten(mod.consts[i])]
               /\ f.at[f.off[3]] = [i \in DOMAIN mod.procs |->
                                     [mod.procs[i] EXCEPT !.name = Position(Pool(mod), @)]]
               /\ f.at[f.off[4]] = [i \in DOMAIN mod.imports |->
                                     [mod.imports[i] EXCEPT !.ns = Position(Pool(mod), @),
                                                            !.fn = Position(Pool(mod), @)]]
               /\ f.at[f.off[5]] = mod.code
<1> DEFINE f == bucc_module_save_file(mod)
           off == Offsets(mod)
           c == [i \in DOMAIN mod.consts |-> ConstWritten(mod.consts[i])]
           p == [i \in DOMAIN mod.procs |-> [mod.procs[i] EXCEPT !.name = Position(Pool(mod), @)]]
           m == [i \in DOMAIN mod.imports |-> [mod.imports[i] EXCEPT !.ns = Position(Pool(mod), @),
                                                                   !.fn = Position(Pool(mod), @)]]
           section == <<Pool(mod), c, p, m, mod.code>>
           at == [o \in {off[i] : i \in 1 .. 5} |-> section[CHOOSE i \in 1 .. 5 : off[i] = o]]
<1>1. f = [magic |-> "BUCC", major |-> 1, off |-> off, len |-> off[5] + Len(mod.code), at |-> at]
  BY DEF bucc_module_save_file
<1>2. PICK a, b, d, e \in Nat : off = <<60, a, b, d, e>> /\ 60 < a /\ a < b /\ b < d /\ d < e
  BY OffsetsGrow
<1>3. Len(mod.code) \in Nat
  BY LenProperties DEF Emitted
<1> HIDE DEF off
<1>4. /\ \A i \in 1 .. 5 : off[i] \in Nat /\ off[i] > 0
      /\ \A i \in 1 .. 4 : off[i] < off[5] /\ off[i + 1] <= off[5]
      /\ off[5] > 60
      /\ \A i, j \in 1 .. 5 : off[i] = off[j] => i = j
  <2>1. /\ off[1] = 60 /\ off[2] = a /\ off[3] = b /\ off[4] = d /\ off[5] = e
    BY <1>2
  <2>2. \A i \in 1 .. 5 : i = 1 \/ i = 2 \/ i = 3 \/ i = 4 \/ i = 5
    OBVIOUS
  <2> QED  BY <1>2, <2>1, <2>2
<1>5. ASSUME NEW i \in 1 .. 5 PROVE at[off[i]] = section[i]
  <2>1. (CHOOSE j \in 1 .. 5 : off[j] = off[i]) = i
    BY <1>4
  <2> HIDE DEF section
  <2> QED  BY <2>1
<1>6. section[1] = Pool(mod) /\ section[2] = c /\ section[3] = p /\ section[4] = m /\ section[5] = mod.code
  <2> HIDE DEF c, p, m
  <2> QED  OBVIOUS
<1> HIDE DEF section, at, c, p, m
<1>7. /\ at[off[1]] = Pool(mod) /\ at[off[2]] = c /\ at[off[3]] = p /\ at[off[4]] = m
      /\ at[off[5]] = mod.code
  BY <1>5, <1>6
<1> HIDE DEF f
<1>8. /\ f.magic = "BUCC" /\ f.major = 1 /\ f.off = off /\ f.at = at /\ f.len = off[5] + Len(mod.code)
  BY <1>1
<1>9. f.len \in Nat /\ f.len > 60
  <2>1. off[5] \in Nat /\ off[5] > 60
    BY <1>4
  <2> QED  BY <1>3, <1>8, <2>1
<1> QED  BY <1>4, <1>7, <1>8, <1>9 DEF f, c, p, m

LEMMA TextLen == ASSUME NEW d \in DoorIds, NEW t \in Texts(d) PROVE t.len \in Nat
<1>1. PICK m \in Modules[d] : t = bucc_module_save_file(m)
  BY DEF Texts
<1> QED  BY <1>1, SavedSections, HostAssumption

LEMMA Found ==
    ASSUME NEW pool, NEW w, \E j \in DOMAIN pool : pool[j] = w
    PROVE  Position(pool, w) \in DOMAIN pool /\ pool[Position(pool, w)] = w
BY DEF Position

\* What the loader makes of a file's sections.
Part(f, i) ==
  IF (0 < f.off[i] /\ f.off[i] < f.len) /\ (i = 5 \/ f.off[i + 1] <= f.len) THEN f.at[f.off[i]] ELSE <<>>
Word(f, i) == IF i \in DOMAIN Part(f, 1) THEN Part(f, 1)[i] ELSE ""

LEMMA LoadedIs ==
    ASSUME NEW f, f.magic = "BUCC", f.major = 1, f.len \in Nat, f.len >= 60
    PROVE  bucc_module_load_memory(f) =
             [strings |-> Part(f, 1), consts  |-> Part(f, 2),
              procs   |-> [i \in DOMAIN Part(f, 3) |-> [Part(f, 3)[i] EXCEPT !.name = Word(f, @)]],
              imports |-> [i \in DOMAIN Part(f, 4) |->
                            [Part(f, 4)[i] EXCEPT !.ns = Word(f, @), !.fn = Word(f, @)]],
              code    |-> SubSeq(Part(f, 5), 1, f.len - f.off[5])]
<1>1. ~(f.len < HeaderSize \/ f.magic # "BUCC" \/ f.major # 1)
  BY DEF HeaderSize
<1> QED  BY <1>1 DEF bucc_module_load_memory, Part, Word

\* The beginning of a file differs from it in its length.
LEMMA FirstIs ==
    ASSUME NEW mod, NEW n
    PROVE  LET t == bucc_module_save_file(mod)
               f == First(t, n)
           IN  f.magic = t.magic /\ f.major = t.major /\ f.off = t.off /\ f.at = t.at /\ f.len = n
<1>1. PICK o, l, a : bucc_module_save_file(mod) = [magic |-> "BUCC", major |-> 1, off |-> o, len |-> l, at |-> a]
  BY DEF bucc_module_save_file
<1>2. PICK t : t = bucc_module_save_file(mod)
  OBVIOUS
<1>3. First(t, n).magic = t.magic /\ First(t, n).major = t.major /\ First(t, n).off = t.off
      /\ First(t, n).at = t.at /\ First(t, n).len = n
  BY <1>1, <1>2 DEF First
<1> QED  BY <1>2, <1>3

\* A file that reaches to its code has all tables, and as much of the code as
\* it reaches over.
Reaches(f, mod, n) ==
  /\ Part(f, 1) = Pool(mod)
  /\ Part(f, 2) = [i \in DOMAIN mod.consts |-> ConstWritten(mod.consts[i])]
  /\ Part(f, 3) = [i \in DOMAIN mod.procs |->
                    [mod.procs[i] EXCEPT !.name = Position(Pool(mod), @)]]
  /\ Part(f, 4) = [i \in DOMAIN mod.imports |->
                    [mod.imports[i] EXCEPT !.ns = Position(Pool(mod), @),
                                           !.fn = Position(Pool(mod), @)]]
  /\ SubSeq(Part(f, 5), 1, f.len - f.off[5]) = SubSeq(mod.code, 1, n - f.off[5])
  /\ n - f.off[5] \in 0 .. Len(mod.code)

LEMMA PartsAre ==
    ASSUME NEW mod, Emitted(mod), NEW n \in Nat, NEW f, f = First(bucc_module_save_file(mod), n),
           n <= bucc_module_save_file(mod).len, f.off[5] <= n
    PROVE  Reaches(f, mod, n)
<1>0. PICK t : t = bucc_module_save_file(mod)
  OBVIOUS
<1>1. /\ \A i \in 1 .. 5 : f.off[i] \in Nat /\ f.off[i] > 0
      /\ \A i \in 1 .. 4 : f.off[i] < f.off[5] /\ f.off[i + 1] <= f.off[5]
      /\ t.len = f.off[5] + Len(mod.code) /\ f.at[f.off[5]] = mod.code /\ f.len = n /\ n <= t.len
      /\ f.at = t.at /\ f.off = t.off
  <2>1. f.off = t.off /\ f.at = t.at /\ f.len = n
    BY <1>0, FirstIs
  <2>2. /\ \A i \in 1 .. 5 : t.off[i] \in Nat /\ t.off[i] > 0
        /\ \A i \in 1 .. 4 : t.off[i] < t.off[5] /\ t.off[i + 1] <= t.off[5]
        /\ t.len = t.off[5] + Len(mod.code) /\ t.at[t.off[5]] = mod.code
    BY <1>0, SavedSections
  <2> QED  BY <1>0, <2>1, <2>2
<1>2. \A i \in 1 .. 4 : Part(f, i) = f.at[f.off[i]]
  <2> TAKE i \in 1 .. 4
  <2>0. f.off[i] \in Nat /\ f.off[i + 1] \in Nat /\ f.off[5] \in Nat
    BY <1>1
  <2>1. f.off[i] > 0 /\ f.off[i] < f.off[5] /\ f.off[i + 1] <= f.off[5]
    BY <1>1
  <2>2. 0 < f.off[i] /\ f.off[i] < f.len /\ f.off[i + 1] <= f.len
    <3>1. f.off[5] <= f.len /\ f.len \in Nat
      BY <1>1
    <3> QED  BY <2>0, <2>1, <3>1
  <2> QED  BY <2>2 DEF Part
<1>3. Part(f, 1) = f.at[f.off[1]] /\ Part(f, 2) = f.at[f.off[2]] /\ Part(f, 3) = f.at[f.off[3]]
      /\ Part(f, 4) = f.at[f.off[4]]
  BY <1>2
<1>4. /\ SubSeq(Part(f, 5), 1, f.len - f.off[5]) = SubSeq(mod.code, 1, n - f.off[5])
      /\ n - f.off[5] \in 0 .. Len(mod.code)
  <2>1. Len(mod.code) \in Nat
    BY LenProperties DEF Emitted
  <2>2. f.off[5] \in Nat /\ f.off[5] > 0
    BY <1>1
  <2>3. n - f.off[5] \in 0 .. Len(mod.code)
    BY <1>1, <2>1, <2>2
  <2>4. CASE n = f.off[5]
    <3>1. n - f.off[5] = 0
      BY <2>2, <2>4
    <3>2. SubSeq(Part(f, 5), 1, 0) = <<>> /\ SubSeq(mod.code, 1, 0) = <<>>
      BY SubSeqEmpty
    <3> QED  BY <1>1, <2>3, <3>1, <3>2
  <2>5. CASE n # f.off[5]
    <3>1. 0 < f.off[5] /\ f.off[5] < f.len
      BY <1>1, <2>2, <2>5
    <3>2. Part(f, 5) = mod.code
      BY <1>1, <3>1 DEF Part
    <3> QED  BY <1>1, <2>3, <3>2
  <2> QED  BY <2>4, <2>5
<1>5. /\ t.at[t.off[1]] = Pool(mod)
      /\ t.at[t.off[2]] = [i \in DOMAIN mod.consts |-> ConstWritten(mod.consts[i])]
      /\ t.at[t.off[3]] = [i \in DOMAIN mod.procs |->
                            [mod.procs[i] EXCEPT !.name = Position(Pool(mod), @)]]
      /\ t.at[t.off[4]] = [i \in DOMAIN mod.imports |->
                            [mod.imports[i] EXCEPT !.ns = Position(Pool(mod), @),
                                                   !.fn = Position(Pool(mod), @)]]
  BY <1>0, SavedSections
<1> QED  BY <1>1, <1>3, <1>4, <1>5 DEF Reaches

LEMMA ProcsBack ==
    ASSUME NEW mod, Emitted(mod), NEW f, Part(f, 1) = Pool(mod),
           Part(f, 3) = [i \in DOMAIN mod.procs |-> [mod.procs[i] EXCEPT !.name = Position(Pool(mod), @)]]
    PROVE  [i \in DOMAIN Part(f, 3) |-> [Part(f, 3)[i] EXCEPT !.name = Word(f, @)]] = mod.procs
<1> DEFINE part == Part(f, 3)
<1>0. part = [i \in DOMAIN mod.procs |-> [mod.procs[i] EXCEPT !.name = Position(Pool(mod), @)]]
  OBVIOUS
<1> HIDE DEF part
<1>1. /\ mod.procs = [i \in DOMAIN mod.procs |-> mod.procs[i]]
      /\ \A i \in DOMAIN mod.procs : mod.procs[i] \in Procs
  <2>1. mod.procs \in [1 .. Len(mod.procs) -> Procs]
    BY LenProperties DEF Emitted
  <2> QED  BY <2>1
<1>2. ASSUME NEW i \in DOMAIN mod.procs PROVE [part[i] EXCEPT !.name = Word(f, @)] = mod.procs[i]
  <2> DEFINE at == Position(Pool(mod), mod.procs[i].name)
  <2>1. at \in DOMAIN Pool(mod) /\ Pool(mod)[at] = mod.procs[i].name
    BY Placed, Found
  <2>2. Word(f, at) = mod.procs[i].name
    BY <2>1 DEF Word
  <2>3. part[i] = [mod.procs[i] EXCEPT !.name = at]
    BY <1>0
  <2> HIDE DEF at
  <2> QED  BY <1>1, <2>2, <2>3 DEF Procs
<1>3. DOMAIN part = DOMAIN mod.procs
  BY <1>0
<1>4. [i \in DOMAIN part |-> [part[i] EXCEPT !.name = Word(f, @)]] = mod.procs
  BY <1>1, <1>2, <1>3
<1> QED  BY <1>4 DEF part

LEMMA ImportsBack ==
    ASSUME NEW mod, Emitted(mod), NEW f, Part(f, 1) = Pool(mod),
           Part(f, 4) = [i \in DOMAIN mod.imports |-> [mod.imports[i] EXCEPT !.ns = Position(Pool(mod), @),
                                                                             !.fn = Position(Pool(mod), @)]]
    PROVE  [i \in DOMAIN Part(f, 4) |-> [Part(f, 4)[i] EXCEPT !.ns = Word(f, @), !.fn = Word(f, @)]] = mod.imports
<1> DEFINE part == Part(f, 4)
<1>0. part = [i \in DOMAIN mod.imports |-> [mod.imports[i] EXCEPT !.ns = Position(Pool(mod), @),
                                                                  !.fn = Position(Pool(mod), @)]]
  OBVIOUS
<1> HIDE DEF part
<1>1. /\ mod.imports = [i \in DOMAIN mod.imports |-> mod.imports[i]]
      /\ \A i \in DOMAIN mod.imports : mod.imports[i] \in Imports
  <2>1. mod.imports \in [1 .. Len(mod.imports) -> Imports]
    BY LenProperties DEF Emitted
  <2> QED  BY <2>1
<1>2. ASSUME NEW i \in DOMAIN mod.imports
      PROVE  [part[i] EXCEPT !.ns = Word(f, @), !.fn = Word(f, @)] = mod.imports[i]
  <2> DEFINE ns == Position(Pool(mod), mod.imports[i].ns)
             fn == Position(Pool(mod), mod.imports[i].fn)
  <2>1. /\ ns \in DOMAIN Pool(mod) /\ Pool(mod)[ns] = mod.imports[i].ns
        /\ fn \in DOMAIN Pool(mod) /\ Pool(mod)[fn] = mod.imports[i].fn
    <3>1. \E j \in DOMAIN Pool(mod) : Pool(mod)[j] = mod.imports[i].ns
      BY Placed
    <3>2. \E j \in DOMAIN Pool(mod) : Pool(mod)[j] = mod.imports[i].fn
      BY Placed
    <3> QED  BY <3>1, <3>2, Found
  <2>2. Word(f, ns) = mod.imports[i].ns /\ Word(f, fn) = mod.imports[i].fn
    BY <2>1 DEF Word
  <2>3. part[i] = [mod.imports[i] EXCEPT !.ns = ns, !.fn = fn]
    BY <1>0, <1>1 DEF Imports
  <2> HIDE DEF ns, fn
  <2>4. /\ mod.imports[i] \in [ns : STRING, fn : STRING, id : Nat]
    BY <1>1 DEF Imports
  <2>5. part[i].ns = ns /\ part[i].fn = fn
    BY <2>3, <2>4
  <2>6. [part[i] EXCEPT !.ns = Word(f, @), !.fn = Word(f, @)]
          = [part[i] EXCEPT !.ns = mod.imports[i].ns, !.fn = mod.imports[i].fn]
    BY <2>2, <2>3, <2>4, <2>5
  <2> QED  BY <2>3, <2>4, <2>6
<1>3. DOMAIN part = DOMAIN mod.imports
  BY <1>0
<1>4. [i \in DOMAIN part |-> [part[i] EXCEPT !.ns = Word(f, @), !.fn = Word(f, @)]] = mod.imports
  BY <1>1, <1>2, <1>3
<1> QED  BY <1>4 DEF part

\* A module comes back from its file as it went in: all of it from the whole
\* file, none of its code or all but the end of it from a part.
LEMMA CutIs ==
    ASSUME NEW mod, Emitted(mod), NEW n \in Nat, n <= bucc_module_save_file(mod).len, Cut(mod, n) # NoModule
    PROVE  LET g == Cut(mod, n)
           IN  /\ g # Torn
               /\ g.code = <<>> \/ SameBeginning(g, mod)
               /\ n = bucc_module_save_file(mod).len => SameProgram(g, mod)
<1>1. PICK t : t = bucc_module_save_file(mod)
  OBVIOUS
<1>2. PICK f : f = First(t, n)
  OBVIOUS
<1>3. PICK g : g = Cut(mod, n)
  OBVIOUS
<1>4. /\ t.magic = "BUCC" /\ t.major = 1 /\ t.len \in Nat /\ t.off[5] \in Nat /\ t.off[5] > 0
      /\ t.len = t.off[5] + Len(mod.code)
  <2>1. /\ t.magic = "BUCC" /\ t.major = 1 /\ t.len \in Nat
        /\ \A i \in 1 .. 5 : t.off[i] \in Nat /\ t.off[i] > 0
        /\ t.len = t.off[5] + Len(mod.code)
    BY <1>1, SavedSections
  <2> QED  BY <2>1
<1>5. f.magic = "BUCC" /\ f.major = 1 /\ f.off = t.off /\ f.len = n
  BY <1>1, <1>2, <1>4, FirstIs
<1>6. n >= 60
  <2>1. g = bucc_module_load_memory(f) /\ g # NoModule
    BY <1>1, <1>2, <1>3 DEF Cut
  <2>2. ~(f.len < HeaderSize)
    BY <2>1 DEF bucc_module_load_memory
  <2> QED  BY <1>5, <2>2 DEF HeaderSize
<1>7. g = [strings |-> Part(f, 1), consts  |-> Part(f, 2),
           procs   |-> [i \in DOMAIN Part(f, 3) |-> [Part(f, 3)[i] EXCEPT !.name = Word(f, @)]],
           imports |-> [i \in DOMAIN Part(f, 4) |->
                         [Part(f, 4)[i] EXCEPT !.ns = Word(f, @), !.fn = Word(f, @)]],
           code    |-> SubSeq(Part(f, 5), 1, f.len - f.off[5])]
  BY <1>1, <1>2, <1>3, <1>5, <1>6, LoadedIs DEF Cut
<1>8. g # NoModule /\ g # Torn
  <2>1. /\ DOMAIN g = {"strings", "consts", "procs", "imports", "code"}
        /\ DOMAIN NoModule = {"refused"} /\ DOMAIN Torn = {"torn"}
    BY <1>7 DEF NoModule, Torn
  <2> QED  BY <2>1
<1>9. CASE n < t.off[5]
  <2>1. SubSeq(Part(f, 5), 1, n - t.off[5]) = <<>>
    BY <1>4, <1>9, SubSeqEmpty
  <2>2. g.code = <<>>
    BY <1>5, <1>7, <2>1
  <2>3. n # t.len
    <3>1. Len(mod.code) \in Nat
      BY LenProperties DEF Emitted
    <3> QED  BY <1>4, <1>9, <3>1
  <2> QED  BY <1>1, <1>3, <1>8, <2>2, <2>3
<1>10. CASE t.off[5] <= n
  <2>1. /\ Part(f, 1) = Pool(mod)
        /\ Part(f, 2) = [i \in DOMAIN mod.consts |-> ConstWritten(mod.consts[i])]
        /\ Part(f, 3) = [i \in DOMAIN mod.procs |->
                          [mod.procs[i] EXCEPT !.name = Position(Pool(mod), @)]]
        /\ Part(f, 4) = [i \in DOMAIN mod.imports |->
                          [mod.imports[i] EXCEPT !.ns = Position(Pool(mod), @),
                                                 !.fn = Position(Pool(mod), @)]]
        /\ SubSeq(Part(f, 5), 1, f.len - f.off[5]) = SubSeq(mod.code, 1, n - f.off[5])
        /\ n - f.off[5] \in 0 .. Len(mod.code)
    <3>1. f = First(bucc_module_save_file(mod), n) /\ f.off[5] <= n
      BY <1>1, <1>2, <1>5, <1>10
    <3>2. n <= bucc_module_save_file(mod).len
      OBVIOUS
    <3>3. Reaches(f, mod, n)
      BY <3>1, <3>2, PartsAre
    <3> QED  BY <3>3 DEF Reaches
  <2>2. [i \in DOMAIN Part(f, 3) |-> [Part(f, 3)[i] EXCEPT !.name = Word(f, @)]] = mod.procs
    BY <2>1, ProcsBack
  <2>3. [i \in DOMAIN Part(f, 4) |-> [Part(f, 4)[i] EXCEPT !.ns = Word(f, @), !.fn = Word(f, @)]] = mod.imports
    BY <2>1, ImportsBack
  <2>4. g = [strings |-> Pool(mod), consts |-> Part(f, 2), procs |-> mod.procs, imports |-> mod.imports,
             code |-> SubSeq(mod.code, 1, n - f.off[5])]
    BY <1>7, <2>1, <2>2, <2>3
  <2>5. \A i \in DOMAIN mod.strings : i \in DOMAIN Pool(mod) /\ Pool(mod)[i] = mod.strings[i]
    BY Placed
  <2>6. SameParts(g, mod)
    BY <2>1, <2>4, <2>5 DEF SameParts
  <2>7. mod.code \in Seq(0 .. 255) /\ Len(mod.code) \in Nat
    BY LenProperties DEF Emitted
  <2> DEFINE k == n - f.off[5]
  <2>8. k \in Nat /\ k <= Len(mod.code) /\ g.code = SubSeq(mod.code, 1, k)
    <3>1. g.code = SubSeq(mod.code, 1, k)
      BY <2>4
    <3>2. k \in 0 .. Len(mod.code)
      BY <2>1
    <3> HIDE DEF k
    <3> QED  BY <2>7, <3>1, <3>2
  <2>9. \A i \in 1 .. k : mod.code[i] \in 0 .. 255
    <3>1. \A i \in 1 .. Len(mod.code) : mod.code[i] \in 0 .. 255
      BY <2>7, ElementOfSeq
    <3> HIDE DEF k
    <3> QED  BY <2>7, <2>8, <3>1
  <2>10. Len(g.code) = k
    <3> HIDE DEF k
    <3>1. Len(SubSeq(mod.code, 1, k)) = IF 1 <= k THEN k - 1 + 1 ELSE 0
      BY <2>8, <2>9, SubSeqProperties
    <3> QED  BY <2>8, <3>1
  <2>11. SameBeginning(g, mod)
    BY <2>6, <2>8, <2>10 DEF SameBeginning
  <2>12. ASSUME n = t.len PROVE SameProgram(g, mod)
    <3>1. k = Len(mod.code)
      BY <1>4, <1>5, <2>7, <2>12
    <3>2. SubSeq(mod.code, 1, Len(mod.code)) = mod.code
      BY <2>7, SubSeqFull
    <3> HIDE DEF k
    <3> QED  BY <1>8, <2>6, <2>8, <3>1, <3>2 DEF SameProgram
  <2> QED  BY <1>1, <1>3, <1>8, <2>11, <2>12
<1> QED  BY <1>4, <1>9, <1>10

-----------------------------------------------------------------------------
(* The table and its checks.                                                *)

LEMMA Caps ==
    ASSUME NEW e \in Entries
    PROVE  /\ e.name \in {"KV.GET", "KV.EXISTS"} => e.cap = "kv.read"
           /\ e.name \in {"KV.SET", "KV.DELETE"} => e.cap = "kv.write"
           /\ e.name \in {"DATA.GET", "DATA.COUNT", "DATA.FIND", "MSG.READ", "MSG.LIST", "FILE.LIST", "FILE.INFO"}
                => e.cap = "data.read"
           /\ e.name \in {"DATA.INSERT", "DATA.UPDATE", "DATA.DELETE"} => e.cap = "data.write"
           /\ e.name \in {"TEXT.READALL", "TEXT.READLINES", "TEXT.EXISTS"} => e.cap = "text.read"
           /\ e.name \in {"TEXT.WRITEALL", "TEXT.APPEND"} => e.cap = "text.write"
           /\ e.name = "BBS.ONLINE" => e.cap = "bbs.query"
BY DEF Entries, Fun, None

LEMMA Enlisted ==
    ASSUME NEW f \in DOMAIN host_functions
    PROVE  host_functions[f] \in Entries /\ host_functions[f].name = f
BY DEF host_functions

\* A call that passes the checks is made by a run that has the capability.
LEMMA Passed ==
    ASSUME NEW s, NEW f, NEW argc, Ready(s, f, argc)
    PROVE  /\ run[s].pc = "running" /\ f \in DOMAIN host_functions
           /\ capability_from_string(host_functions[f].cap) # {}
                => capability_from_string(host_functions[f].cap) \cap run[s].host # {}
<1>1. run[s].pc = "running" /\ bucc_host_dispatch(s, f, argc) = "ok"
  BY DEF Ready
<1>2. find_host_function(f)
  BY <1>1 DEF bucc_host_dispatch
<1>3. ~(/\ capability_from_string(host_functions[f].cap) # {}
        /\ capability_from_string(host_functions[f].cap) \cap run[s].host = {})
  BY <1>1 DEF bucc_host_dispatch
<1> QED
  BY <1>1, <1>2, <1>3 DEF find_host_function

Grown(s, f) ==
  /\ f \in {"KV.GET", "KV.EXISTS"} => "kv.read" \in run[s].allowed
  /\ f \in {"KV.SET", "KV.DELETE"} => "kv.write" \in run[s].allowed
  /\ f \in {"DATA.GET", "DATA.COUNT", "DATA.FIND", "MSG.READ", "MSG.LIST", "FILE.LIST", "FILE.INFO"}
       => "data.read" \in run[s].allowed
  /\ f \in {"DATA.INSERT", "DATA.UPDATE", "DATA.DELETE"} => "data.write" \in run[s].allowed
  /\ f \in {"TEXT.READALL", "TEXT.READLINES", "TEXT.EXISTS"} => "text.read" \in run[s].allowed
  /\ f \in {"TEXT.WRITEALL", "TEXT.APPEND"} => "text.write" \in run[s].allowed
  /\ f = "BBS.ONLINE" => "bbs.query" \in run[s].allowed

LEMMA Permitted ==
    ASSUME Runners, NEW s \in Sessions, NEW f, NEW argc, Ready(s, f, argc)
    PROVE  run[s].pc = "running" /\ Grown(s, f)
<1> DEFINE e == host_functions[f]
           cap == capability_from_string(e.cap)
<1>1. /\ run[s].pc = "running" /\ f \in DOMAIN host_functions
      /\ cap # {} => cap \cap run[s].host # {}
  BY Passed
<1>2. run[s].host = run[s].allowed
  BY <1>1 DEF Runners, Runs
<1>3. e \in Entries /\ e.name = f
  BY <1>1, Enlisted
<1>4. \A c \in Known : e.cap = c => c \in run[s].allowed
  BY <1>1, <1>2 DEF capability_from_string
<1>5. \A c \in {"kv.read", "kv.write", "data.read", "data.write", "text.read", "text.write", "bbs.query"} :
        e.cap = c => c \in run[s].allowed
  BY <1>4 DEF Known
<1> HIDE DEF e
<1> QED
  BY <1>1, <1>3, <1>5, Caps DEF Grown

-----------------------------------------------------------------------------
(* What a host call can do.                                                 *)

Looked == run' = run /\ store' = store /\ file' = file /\ read' = Quiet
Told(s, got) ==
  /\ run' = run /\ store' = store /\ file' = file
  /\ read' = [by |-> s, got |-> got]
  /\ \/ got = {run[s].door} /\ run[s].allowed \cap {"kv.read", "data.read", "text.read"} # {}
     \/ got = {"board"} /\ run[s].allowed \cap {"data.read", "bbs.query"} # {}
Noted(s, d) ==
  /\ run' = run /\ file' = file /\ read' = Quiet /\ run[s].pc = "running" /\ d = run[s].door
  /\ \/ "kv.write" \in run[s].allowed /\ \E v \in Values \cup {None} : store' = [store EXCEPT !.kv[d] = v]
     \/ "text.write" \in run[s].allowed /\ \E v \in Values : store' = [store EXCEPT !.text[d] = v]
     \/ /\ "data.write" \in run[s].allowed
        /\ \/ \E v \in Values : store' = db_bucc_data_insert(d, v)
           \/ \E id \in Nat, v \in Values : store' = db_bucc_data_update(d, id, v)
           \/ \E id \in Nat : store' = db_bucc_data_delete(d, id)
Turned(s) ==
  /\ store' = store /\ file' = file /\ read' = Quiet
  /\ \E r : run' = [run EXCEPT ![s] = r] /\ Runs(r) /\ Calmly(r)

LEMMA LooksLook == ASSUME NEW s, NEW fs, Looks(s, fs) PROVE Looked
BY DEF Looks, Answer, Looked

LEMMA ReadsTell ==
    ASSUME Runners, NEW s \in Sessions, NEW f, NEW argc, NEW got, Reads(s, f, argc, got),
           \/ f \in {"KV.GET", "KV.EXISTS", "DATA.GET", "DATA.FIND", "DATA.COUNT",
                     "TEXT.READALL", "TEXT.READLINES", "TEXT.EXISTS"} /\ got \in {{}, {run[s].door}}
           \/ f \in {"BBS.ONLINE", "MSG.READ", "MSG.LIST", "FILE.LIST", "FILE.INFO"} /\ got = {"board"}
    PROVE  Looked \/ Told(s, got)
<1>1. Ready(s, f, argc) /\ Answer(s, got) /\ run' = run /\ store' = store
  BY DEF Reads
<1>2. Grown(s, f)
  BY <1>1, Permitted
<1>3. file' = file /\ (got = {} => read' = Quiet) /\ (got # {} => read' = [by |-> s, got |-> got])
  BY <1>1 DEF Answer
<1>4. CASE got = {}
  BY <1>1, <1>3, <1>4 DEF Looked
<1>5. CASE got # {}
  <2>1. \/ got = {run[s].door} /\ run[s].allowed \cap {"kv.read", "data.read", "text.read"} # {}
        \/ got = {"board"} /\ run[s].allowed \cap {"data.read", "bbs.query"} # {}
    BY <1>2, <1>5 DEF Grown
  <2> QED  BY <1>1, <1>3, <1>5, <2>1 DEF Told
<1> QED  BY <1>4, <1>5

LEMMA StoresWrite ==
    ASSUME Runners, NEW s \in Sessions, NEW f, NEW argc, NEW st, Stores(s, f, argc, st)
    PROVE  /\ run' = run /\ file' = file /\ read' = Quiet /\ run[s].pc = "running" /\ store' = st
           /\ Grown(s, f)
<1>1. Ready(s, f, argc) /\ Answer(s, {}) /\ run' = run /\ store' = st
  BY DEF Stores
<1>2. Grown(s, f) /\ run[s].pc = "running"
  BY <1>1, Permitted
<1> QED  BY <1>1, <1>2 DEF Answer

\* The board's calls, and those that return nothing of what the doors keep.
LEMMA BoardCalls ==
    ASSUME Runners, NEW s \in Sessions,
           \/ CallRefused(s) \/ TermCall(s) \/ UserCall(s) \/ SysCall(s) \/ SysSleep(s) \/ NodeCall(s)
           \/ BbsSendMsg(s) \/ BbsOnline(s) \/ BbsNode(s) \/ UsersFind(s) \/ UsersGet(s)
           \/ DataTx(s) \/ AppGet(s) \/ SharedGet(s) \/ SessionGet(s)
           \/ MsgRead(s) \/ MsgList(s) \/ MsgPost(s) \/ FileList(s) \/ FileInfo(s) \/ Leaderboard(s)
    PROVE  Looked \/ \E got : Told(s, got)
<1>1. CASE CallRefused(s)
  BY <1>1 DEF CallRefused, Answer, Looked
<1>2. CASE \/ TermCall(s) \/ UserCall(s) \/ SysCall(s) \/ SysSleep(s) \/ NodeCall(s)
           \/ BbsSendMsg(s) \/ BbsNode(s) \/ UsersFind(s) \/ UsersGet(s)
           \/ DataTx(s) \/ AppGet(s) \/ SharedGet(s) \/ SessionGet(s) \/ MsgPost(s) \/ Leaderboard(s)
  BY <1>2, LooksLook DEF TermCall, UserCall, SysCall, SysSleep, NodeCall, BbsSendMsg, BbsNode, UsersFind,
     UsersGet, DataTx, AppGet, SharedGet, SessionGet, MsgPost, Leaderboard
<1>3. CASE BbsOnline(s)
  <2>1. Reads(s, "BBS.ONLINE", 0, {"board"})
    BY <1>3 DEF BbsOnline, bucc_bbs_online_cb
  <2> QED  BY <2>1, ReadsTell
<1>4. CASE MsgRead(s)
  <2>1. Reads(s, "MSG.READ", 2, {"board"})
    BY <1>4 DEF MsgRead, bucc_msg_read_cb
  <2> QED  BY <2>1, ReadsTell
<1>5. CASE MsgList(s)
  <2>1. Reads(s, "MSG.LIST", 1, {"board"})
    BY <1>5 DEF MsgList, bucc_msg_list_cb
  <2> QED  BY <2>1, ReadsTell
<1>6. CASE FileList(s)
  <2>1. Reads(s, "FILE.LIST", 1, {"board"})
    BY <1>6 DEF FileList, bucc_file_list_cb
  <2> QED  BY <2>1, ReadsTell
<1>7. CASE FileInfo(s)
  <2>1. Reads(s, "FILE.INFO", 2, {"board"})
    BY <1>7 DEF FileInfo, bucc_file_info_cb
  <2> QED  BY <2>1, ReadsTell
<1> QED  BY <1>1, <1>2, <1>3, <1>4, <1>5, <1>6, <1>7

\* The calls that read what doors keep: the scope is the caller's door.
LEMMA ReadCalls ==
    ASSUME Runners, NEW s \in Sessions,
           \/ KvGet(s) \/ KvExists(s) \/ DataFind(s) \/ DataCount(s)
           \/ \E id \in 1 .. MaxId : DataGet(s, id)
           \/ \E p \in Paths : TextReadAll(s, p) \/ TextReadLines(s, p) \/ TextExists(s, p)
    PROVE  Looked \/ \E got : Told(s, got)
<1> DEFINE own == {{}, {run[s].door}}
<1>1. CASE KvGet(s)
  <2>1. bucc_kv_get_cb(s) \in own /\ Reads(s, "KV.GET", 1, bucc_kv_get_cb(s))
    BY <1>1 DEF KvGet, bucc_kv_get_cb, db_bucc_kv_get, bucc_live_scope
  <2> QED  BY <2>1, ReadsTell
<1>2. CASE KvExists(s)
  <2>1. bucc_kv_exists_cb(s) \in own /\ Reads(s, "KV.EXISTS", 1, bucc_kv_exists_cb(s))
    BY <1>2 DEF KvExists, bucc_kv_exists_cb, bucc_live_scope
  <2> QED  BY <2>1, ReadsTell
<1>3. CASE DataFind(s)
  <2>1. bucc_data_find_cb(s) \in own /\ Reads(s, "DATA.FIND", 2, bucc_data_find_cb(s))
    BY <1>3 DEF DataFind, bucc_data_find_cb, db_bucc_data_find, bucc_live_scope
  <2> QED  BY <2>1, ReadsTell
<1>4. CASE DataCount(s)
  <2>1. bucc_data_count_cb(s) \in own /\ Reads(s, "DATA.COUNT", 2, bucc_data_count_cb(s))
    BY <1>4 DEF DataCount, bucc_data_count_cb, bucc_live_scope
  <2> QED  BY <2>1, ReadsTell
<1>5. ASSUME NEW id \in 1 .. MaxId, DataGet(s, id) PROVE Looked \/ \E got : Told(s, got)
  <2>1. bucc_data_get_cb(s, id) \in own /\ Reads(s, "DATA.GET", 2, bucc_data_get_cb(s, id))
    BY <1>5 DEF DataGet, bucc_data_get_cb, db_bucc_data_get, RecordAt, bucc_live_scope
  <2> QED  BY <2>1, ReadsTell
<1>6. ASSUME NEW p \in Paths, TextReadAll(s, p) \/ TextReadLines(s, p) \/ TextExists(s, p)
      PROVE  Looked \/ \E got : Told(s, got)
  <2>1. /\ bucc_text_read_all_cb(s, p) \in own
        /\ \/ Reads(s, "TEXT.READALL", 1, bucc_text_read_all_cb(s, p))
           \/ Reads(s, "TEXT.READLINES", 1, bucc_text_read_all_cb(s, p))
           \/ Reads(s, "TEXT.EXISTS", 1, bucc_text_read_all_cb(s, p))
    BY <1>6 DEF TextReadAll, TextReadLines, TextExists, bucc_text_read_lines_cb, bucc_text_read_all_cb,
       bucc_live_scope
  <2> QED  BY <2>1, ReadsTell
<1> QED  BY <1>1, <1>2, <1>3, <1>4, <1>5, <1>6

\* The calls that change what doors keep.
LEMMA WriteCalls ==
    ASSUME Runners, NEW s \in Sessions,
           \/ KvDelete(s)
           \/ \E v \in Values : \/ KvSet(s, v) \/ DataInsert(s, v)
                                \/ \E id \in 1 .. MaxId : DataUpdate(s, id, v)
                                \/ \E p \in Paths : TextWriteAll(s, p, v) \/ TextAppend(s, p, v)
           \/ \E id \in 1 .. MaxId : DataDelete(s, id)
    PROVE  Looked \/ Noted(s, run[s].door)
<1>1. CASE KvDelete(s)
  <2>1. Stores(s, "KV.DELETE", 1, [store EXCEPT !.kv[run[s].door] = None])
    BY <1>1 DEF KvDelete, bucc_kv_delete_cb, db_bucc_kv_delete, bucc_live_scope
  <2> QED  BY <2>1, StoresWrite DEF Noted, Grown
<1>2. ASSUME NEW v \in Values, KvSet(s, v) PROVE Noted(s, run[s].door)
  <2>1. Stores(s, "KV.SET", 2, [store EXCEPT !.kv[run[s].door] = v])
    BY <1>2 DEF KvSet, bucc_kv_set_cb, db_bucc_kv_set, bucc_live_scope
  <2> QED  BY <2>1, StoresWrite DEF Noted, Grown
<1>3. ASSUME NEW v \in Values, DataInsert(s, v) PROVE Noted(s, run[s].door)
  <2>1. Stores(s, "DATA.INSERT", 2, db_bucc_data_insert(run[s].door, v))
    BY <1>3 DEF DataInsert, bucc_data_insert_cb, bucc_live_scope
  <2> QED  BY <2>1, StoresWrite DEF Noted, Grown
<1>4. ASSUME NEW v \in Values, NEW id \in 1 .. MaxId, DataUpdate(s, id, v) PROVE Noted(s, run[s].door)
  <2>1. Stores(s, "DATA.UPDATE", 3, db_bucc_data_update(run[s].door, id, v)) /\ id \in Nat
    BY <1>4, HostAssumption DEF DataUpdate, bucc_data_update_cb, bucc_live_scope
  <2> QED  BY <2>1, StoresWrite DEF Noted, Grown
<1>5. ASSUME NEW id \in 1 .. MaxId, DataDelete(s, id) PROVE Noted(s, run[s].door)
  <2>1. Stores(s, "DATA.DELETE", 2, db_bucc_data_delete(run[s].door, id)) /\ id \in Nat
    BY <1>5, HostAssumption DEF DataDelete, bucc_data_delete_cb, bucc_live_scope
  <2> QED  BY <2>1, StoresWrite DEF Noted, Grown
<1>6. ASSUME NEW v \in Values, NEW p \in Paths, TextWriteAll(s, p, v) \/ TextAppend(s, p, v)
      PROVE  Looked \/ Noted(s, run[s].door)
  <2> DEFINE st == IF bucc_text_resolve(p) THEN [store EXCEPT !.text[run[s].door] = v] ELSE store
  <2>1. Stores(s, "TEXT.WRITEALL", 2, st) \/ Stores(s, "TEXT.APPEND", 2, st)
    BY <1>6 DEF TextWriteAll, TextAppend, bucc_text_write_all_cb, bucc_text_append_cb, bucc_live_scope
  <2> HIDE DEF st
  <2>2. /\ run' = run /\ file' = file /\ read' = Quiet /\ run[s].pc = "running" /\ store' = st
        /\ "text.write" \in run[s].allowed
    BY <2>1, StoresWrite DEF Grown
  <2> QED  BY <2>2 DEF Noted, Looked, st
<1> QED  BY <1>1, <1>2, <1>3, <1>4, <1>5, <1>6

-----------------------------------------------------------------------------
(* The steps that change a runner.                                          *)

LEMMA Unread == ASSUME NEW r, r.pc \notin {"opened", "reading"} PROVE Calmly(r)
BY DEF Calmly

LEMMA FreshRuns ==
  Runs(NoRunner) /\ NoRunner \in Runner /\ NoRunner.prog = NoModule /\ NoRunner.pc = None /\ Calmly(NoRunner)
<1> DEFINE door == CHOOSE d \in DoorIds : TRUE
           r == NewRunner(door, NoModule)
<1>1. door \in DoorIds
  BY HostAssumption
<1> HIDE DEF door
<1>2. r \in Runner /\ r.prog = NoModule
  BY <1>1 DEF NewRunner, Runner, Progs, Known, CAP_SAFE
<1>3. NoRunner = [r EXCEPT !.pc = None, !.host = {}, !.allowed = {}]
  BY DEF NoRunner, door
<1> HIDE DEF r
<1>4. NoRunner \in Runner /\ NoRunner.prog = NoModule /\ NoRunner.pc = None
  BY <1>2, <1>3 DEF Runner
<1> QED  BY <1>4, Unread DEF Runs, None

LEMMA OverRuns ==
    ASSUME Runners, NEW s \in Sessions, NEW r \in Results \cup {"security", "capability"}
    PROVE  Runs(Over(s, r)) /\ Calmly(Over(s, r))
<1>1. NoRunner \in Runner /\ run[s].door \in DoorIds
  BY FreshRuns DEF Runners, Runs, Runner
<1>2. /\ Over(s, r) \in Runner
      /\ Over(s, r).pc = "over"
  BY <1>1 DEF Over, Runner
<1> QED  BY <1>2, Unread DEF Runs

LEMMA NewRuns ==
    ASSUME NEW d \in DoorIds, NEW mod \in Progs, NEW calm \in BOOLEAN, Loads(d, mod, calm)
    PROVE  LET r == [NewRunner(d, mod) EXCEPT !.calm = calm] IN Runs(r) /\ Calmly(r)
<1> DEFINE n == NewRunner(d, mod)
           r == [n EXCEPT !.calm = calm]
<1>1. n \in Runner /\ n.pc = "loaded" /\ n.door = d /\ n.prog = mod
  BY DEF NewRunner, Runner, Known, CAP_SAFE
<1> HIDE DEF n
<1>2. r \in Runner /\ r.pc = "loaded" /\ r.door = d /\ r.prog = mod /\ r.calm = calm
  BY <1>1 DEF Runner
<1> HIDE DEF r
<1>3. Runs(r) /\ Calmly(r)
  BY <1>2, Unread DEF Runs
<1> QED  BY <1>3 DEF r, n

LEMMA PutRuns ==
    ASSUME Runners, NEW s \in Sessions, NEW n, NEW v \in Values
    PROVE  Runs(Put(s, n, v)) /\ (run[s].pc = "running" => Calmly(Put(s, n, v)))
<1>1. Runs(run[s])
  BY DEF Runners
<1>2. [m \in Maps |-> IF m = n THEN v ELSE run[s].map[m]] \in [Maps -> Values \cup {None}]
  BY <1>1 DEF Runs, Runner
<1>3. /\ Put(s, n, v) \in Runner /\ Put(s, n, v).pc = run[s].pc /\ Put(s, n, v).door = run[s].door
      /\ Put(s, n, v).prog = run[s].prog /\ Put(s, n, v).host = run[s].host
      /\ Put(s, n, v).allowed = run[s].allowed /\ Put(s, n, v).calm = run[s].calm
      /\ Put(s, n, v).first = run[s].first
  BY <1>1, <1>2 DEF Put, Runs, Runner
<1>4. Runs(Put(s, n, v))
  BY <1>1, <1>3 DEF Runs
<1> QED  BY <1>3, <1>4, Unread

LEMMA MapCalls ==
    ASSUME Runners, NEW s \in Sessions, NEW v \in Values,
           \/ AppSet(s, v) \/ SharedSet(s, v) \/ SessionSet(s, v)
           \/ \E old : SharedCas(s, old, v)
    PROVE  Turned(s)
<1>1. ASSUME NEW f, NEW n, SetsMap(s, f, n, v) PROVE Turned(s)
  BY <1>1, PutRuns DEF SetsMap, Ready, Answer, Change, Turned
<1>2. ASSUME NEW old, SharedCas(s, old, v) PROVE Turned(s)
  <2>1. Runs(run[s]) /\ Runs(Put(s, "shared", v)) /\ Calmly(run[s]) /\ Calmly(Put(s, "shared", v))
    BY <1>2, PutRuns, Unread DEF Runners, SharedCas, Ready
  <2> QED  BY <1>2, <2>1 DEF SharedCas, Answer, Change, Turned
<1> QED  BY <1>1, <1>2 DEF AppSet, SharedSet, SessionSet

LEMMA LaunchTurns == ASSUME Runners, Files, NEW s \in Sessions, NEW d \in DoorIds, Launch(s, d) PROVE Looked \/ Turned(s)
<1> DEFINE r == [NoRunner EXCEPT !.pc = "opened", !.door = d, !.size = file[d].size, !.calm = Complete(file[d])]
<1>1. file[d].size \in Nat /\ Complete(file[d]) \in BOOLEAN
  BY DEF Files, Complete
<1>2. /\ r \in Runner /\ r.pc = "opened" /\ r.door = d /\ r.size = file[d].size
      /\ r.calm = Complete(file[d])
  BY <1>1, FreshRuns DEF Runner
<1>3. run' = run \/ run' = [run EXCEPT ![s] = r]
  BY DEF Launch
<1> HIDE DEF r
<1>4. Runs(r) /\ Calmly(r)
  BY <1>2 DEF Runs, Calmly
<1> QED  BY <1>3, <1>4 DEF Launch, Looked, Turned

LEMMA ReadTurns == ASSUME Runners, Undisturbed, Files, NEW s \in Sessions, LaunchReads(s) PROVE Turned(s)
<1> DEFINE d == run[s].door
           r == [run[s] EXCEPT !.pc = "reading", !.first = file[d].text]
<1>1. Runs(run[s]) /\ Calmly(run[s]) /\ run[s].pc = "opened" /\ d \in DoorIds
  BY DEF Runners, Runs, Runner, Undisturbed, LaunchReads
<1>2. file[d].text \in Texts(d)
  BY <1>1 DEF Files
<1>3. /\ r \in Runner /\ r.pc = "reading" /\ r.door = d /\ r.first = file[d].text /\ r.size = run[s].size
      /\ r.calm = run[s].calm
  BY <1>1, <1>2 DEF Runs, Runner
<1>4. Change(s, NoRunner) \/ Change(s, r)
  BY DEF LaunchReads
<1> HIDE DEF r
<1>5. Runs(r) /\ Calmly(r)
  BY <1>1, <1>2, <1>3 DEF Runs, Calmly
<1> QED  BY <1>4, <1>5, FreshRuns DEF LaunchReads, Change, Turned

LEMMA LoadTurns == ASSUME Runners, Undisturbed, Files, NEW s \in Sessions, LaunchLoads(s) PROVE Turned(s)
<1> DEFINE d == run[s].door
           size == run[s].size
           calm == run[s].calm
           first == IF run[s].pc = "opened" THEN file[d].text ELSE run[s].first
           mod == bucc_module_load_file(first, file[d], size)
<1>1. Runs(run[s]) /\ Calmly(run[s]) /\ run[s].pc \in {"opened", "reading"} /\ d \in DoorIds
      /\ size \in Nat /\ calm \in BOOLEAN
  BY DEF Runners, Runs, Runner, Undisturbed, LaunchLoads
<1>2. /\ first \in Texts(d) /\ file[d].text \in Texts(d) /\ file[d].size \in Nat
      /\ file[d].size <= file[d].text.len
  BY <1>1 DEF Files, Runs
<1>3. calm => first = file[d].text /\ size = file[d].text.len /\ file[d].size = size
  BY <1>1 DEF Calmly, Complete
<1>4. /\ Change(s, IF mod = NoModule THEN NoRunner ELSE [NewRunner(d, mod) EXCEPT !.calm = calm])
      /\ read' = Quiet /\ file' = file /\ store' = store
  BY DEF LaunchLoads
<1>5. \/ mod = NoModule
      \/ mod = bucc_module_load_memory(First(first, size)) /\ first = file[d].text /\ size <= file[d].size
      \/ mod = Torn /\ first # file[d].text
  BY <1>1, <1>2 DEF bucc_module_load_file
<1> HIDE DEF mod, first
<1>6. PICK m \in Modules[d] : first = bucc_module_save_file(m)
  BY <1>2 DEF Texts
<1>7. PICK n \in Modules[d] : file[d].text = bucc_module_save_file(n)
  BY <1>2 DEF Texts
<1>8. ASSUME mod # NoModule PROVE mod \in Progs /\ Loads(d, mod, calm)
  <2>1. CASE mod = Torn
    <3>1. first # file[d].text
      <4>1. ASSUME first = file[d].text PROVE FALSE
        <5>1. mod = Cut(m, size) /\ size <= file[d].text.len
          <6>1. mod = bucc_module_load_memory(First(first, size)) /\ size <= file[d].size
            BY <1>5, <1>8, <4>1
          <6>2. file[d].text.len \in Nat
            BY <1>1, <1>2, TextLen
          <6> QED  BY <1>1, <1>2, <1>6, <6>1, <6>2 DEF Cut
        <5>2. Emitted(m) /\ size <= bucc_module_save_file(m).len
          BY <1>1, <1>6, <4>1, <5>1, HostAssumption
        <5> QED  BY <1>1, <1>8, <2>1, <5>1, <5>2, CutIs
      <4> QED  BY <4>1
    <3>2. ~calm /\ m # n
      BY <1>3, <1>6, <1>7, <3>1
    <3> QED  BY <1>8, <2>1, <3>2 DEF Progs, Loads
  <2>2. CASE mod # Torn
    <3>1. mod = bucc_module_load_memory(First(first, size)) /\ first = file[d].text /\ size <= file[d].size
      BY <1>5, <1>8, <2>2
    <3>2. mod = Cut(m, size) /\ size <= bucc_module_save_file(m).len
      <4>1. size <= file[d].text.len
        <5>1. file[d].text.len \in Nat
          <6>1. Emitted(n)
            BY <1>1, HostAssumption
          <6> QED  BY <1>7, <6>1, SavedSections
        <5> QED  BY <1>1, <1>2, <3>1, <5>1
      <4> QED  BY <1>6, <3>1, <4>1 DEF Cut
    <3>3. mod \in Progs
      <4>1. m \in UNION {Modules[e] : e \in DoorIds}
        BY <1>1
      <4> QED  BY <1>1, <3>2, <4>1 DEF Progs
    <3>4. calm => mod = Cut(m, bucc_module_save_file(m).len)
      BY <1>3, <1>6, <3>1, <3>2
    <3> QED  BY <1>1, <1>8, <2>2, <3>2, <3>3, <3>4 DEF Loads
  <2> QED  BY <2>1, <2>2
<1>9. CASE mod = NoModule
  BY <1>4, <1>9, FreshRuns DEF Change, Turned
<1>10. CASE mod # NoModule
  <2>1. Runs([NewRunner(d, mod) EXCEPT !.calm = calm]) /\ Calmly([NewRunner(d, mod) EXCEPT !.calm = calm])
    BY <1>1, <1>8, <1>10, NewRuns
  <2> QED  BY <1>4, <1>10, <2>1 DEF Change, Turned
<1> QED  BY <1>9, <1>10

LEMMA GrantTurns ==
    ASSUME Runners, NEW s \in Sessions, NEW cs, NEW allow \in BOOLEAN, bucc_door_set_capability(s, cs, allow)
    PROVE  Turned(s)
<1> DEFINE bits == UNION {capability_from_string(c) : c \in cs}
           new == IF allow THEN run[s].allowed \cup bits ELSE run[s].allowed \ bits
           r == [run[s] EXCEPT !.allowed = new]
<1>1. Runs(run[s]) /\ run[s].pc = "loaded"
  BY DEF Runners, bucc_door_set_capability
<1>2. new \in SUBSET Known
  BY <1>1 DEF Runs, Runner, capability_from_string
<1>3. Change(s, r) /\ read' = Quiet /\ file' = file /\ store' = store
  BY DEF bucc_door_set_capability
<1> HIDE DEF new
<1>4. r \in Runner /\ r.pc = "loaded" /\ r.door = run[s].door /\ r.prog = run[s].prog /\ r.calm = run[s].calm
  BY <1>1, <1>2 DEF Runs, Runner
<1>5. Runs(r) /\ Calmly(r)
  BY <1>1, <1>4, Unread DEF Runs
<1> HIDE DEF r
<1> QED  BY <1>3, <1>5 DEF Change, Turned

LEMMA RunTurns == ASSUME Runners, NEW s \in Sessions, Run(s) PROVE Turned(s)
<1> DEFINE r == [run[s] EXCEPT !.pc = "running", !.host = run[s].allowed]
<1>1. Runs(run[s]) /\ run[s].pc = "loaded"
  BY DEF Runners, Run
<1>2. /\ r \in Runner /\ r.pc = "running" /\ r.host = r.allowed /\ r.door = run[s].door
      /\ r.prog = run[s].prog /\ r.calm = run[s].calm
  BY <1>1 DEF Runs, Runner
<1>3. Runs(r) /\ Calmly(r)
  BY <1>1, <1>2, Unread DEF Runs
<1>4. /\ Runs(Over(s, "security")) /\ Calmly(Over(s, "security"))
      /\ Runs(Over(s, "capability")) /\ Calmly(Over(s, "capability"))
  BY OverRuns
<1>5. /\ \/ Change(s, Over(s, "security")) \/ Change(s, Over(s, "capability")) \/ Change(s, r)
      /\ read' = Quiet /\ file' = file /\ store' = store
  BY DEF Run
<1> HIDE DEF r
<1> QED  BY <1>3, <1>4, <1>5 DEF Change, Turned

LEMMA StopTurns == ASSUME Runners, NEW s \in Sessions, NEW result, Stop(s, result) PROVE Turned(s)
<1>1. Runs(Over(s, result)) /\ Calmly(Over(s, result))
  BY OverRuns DEF Stop
<1> QED  BY <1>1 DEF Stop, Change, Turned

LEMMA FreeTurns == ASSUME Runners, NEW s \in Sessions, bucc_door_runner_free(s) PROVE Turned(s)
BY FreshRuns DEF bucc_door_runner_free, Change, Turned

-----------------------------------------------------------------------------
(* Steps.                                                                   *)

Writes ==
  \/ \E d \in DoorIds : \E m : SaveOpens(d, m)
  \/ \E d \in DoorIds, n \in Nat : SaveWrites(d, n)

LEMMA Steps ==
    ASSUME Runners, Undisturbed, Files, Next
    PROVE  \/ Looked \/ Writes
           \/ \E s \in Sessions : Turned(s) \/ Noted(s, run[s].door) \/ \E got : Told(s, got)
<1>1. ASSUME NEW s \in Sessions, Calls(s)
      PROVE  Looked \/ Turned(s) \/ Noted(s, run[s].door) \/ \E got : Told(s, got)
  <2>1. CASE \/ CallRefused(s) \/ TermCall(s) \/ UserCall(s) \/ SysCall(s) \/ SysSleep(s) \/ NodeCall(s)
             \/ BbsSendMsg(s) \/ BbsOnline(s) \/ BbsNode(s) \/ UsersFind(s) \/ UsersGet(s)
             \/ DataTx(s) \/ AppGet(s) \/ SharedGet(s) \/ SessionGet(s)
             \/ MsgRead(s) \/ MsgList(s) \/ MsgPost(s) \/ FileList(s) \/ FileInfo(s) \/ Leaderboard(s)
    BY <2>1, BoardCalls
  <2>2. CASE \/ KvGet(s) \/ KvExists(s) \/ DataFind(s) \/ DataCount(s)
             \/ \E id \in 1 .. MaxId : DataGet(s, id)
             \/ \E p \in Paths : TextReadAll(s, p) \/ TextReadLines(s, p) \/ TextExists(s, p)
    BY <2>2, ReadCalls
  <2>3. CASE \/ KvDelete(s)
             \/ \E v \in Values : \/ KvSet(s, v) \/ DataInsert(s, v)
                                  \/ \E id \in 1 .. MaxId : DataUpdate(s, id, v)
                                  \/ \E p \in Paths : TextWriteAll(s, p, v) \/ TextAppend(s, p, v)
             \/ \E id \in 1 .. MaxId : DataDelete(s, id)
    BY <2>3, WriteCalls
  <2>4. CASE \E v \in Values : \/ AppSet(s, v) \/ SharedSet(s, v) \/ SessionSet(s, v)
                               \/ \E old : SharedCas(s, old, v)
    BY <2>4, MapCalls
  <2>5. CASE DoorExit(s) \/ DoorChain(s)
    BY <2>5, StopTurns DEF DoorExit, DoorChain
  <2> QED  BY <1>1, <2>1, <2>2, <2>3, <2>4, <2>5 DEF Calls
<1>2. ASSUME NEW d \in DoorIds,
             \/ \E m \in Modules[d] : SaveOpens(d, m)
             \/ \E n \in Cuts \cup {file[d].text.len} : SaveWrites(d, n)
      PROVE  Writes
  <2>1. file[d].text.len \in Nat /\ Cuts \subseteq Nat
    BY TextLen, HostAssumption DEF Files
  <2> QED  BY <1>2, <2>1 DEF Writes
<1>3. ASSUME NEW s \in Sessions, (\E d \in DoorIds : Launch(s, d)) \/ LaunchReads(s) \/ LaunchLoads(s)
      PROVE  Looked \/ Turned(s)
  BY <1>3, LaunchTurns, ReadTurns, LoadTurns
<1>4. ASSUME NEW s \in Sessions,
             \/ \E cs \in Grants, allow \in BOOLEAN : bucc_door_set_capability(s, cs, allow)
             \/ Run(s) \/ bucc_door_runner_free(s) \/ \E r \in Results : Stop(s, r)
      PROVE  Turned(s)
  BY <1>4, GrantTurns, RunTurns, FreeTurns, StopTurns
<1> QED  BY <1>1, <1>2, <1>3, <1>4 DEF Next

-----------------------------------------------------------------------------
(* The invariant.                                                           *)

LEMMA Begins == Init => HostKept
<1> SUFFICES ASSUME Init PROVE HostKept
  OBVIOUS
<1>1. Runners
  BY FreshRuns DEF Init, Runners
<1>2. Files
  <2>1. PICK m \in {f \in [DoorIds -> UNION {Modules[d] : d \in DoorIds}] : \A d \in DoorIds : f[d] \in Modules[d]} :
             file = [d \in DoorIds |-> Saved(m[d])]
    BY DEF Init
  <2>2. ASSUME NEW d \in DoorIds
        PROVE  file[d] = [text |-> bucc_module_save_file(m[d]), size |-> bucc_module_save_file(m[d]).len]
               /\ bucc_module_save_file(m[d]) \in Texts(d)
    BY <2>1 DEF Saved, Texts
  <2>3. ASSUME NEW d \in DoorIds PROVE bucc_module_save_file(m[d]).len \in Nat
    BY <2>2, TextLen
  <2> QED  BY <2>1, <2>2, <2>3 DEF Files
<1>5. Undisturbed
  BY FreshRuns DEF Init, Undisturbed
<1>3. Stored
  BY DEF Init, Stored, Keeps, Numbered
<1>4. Answered
  BY DEF Init, Answered, ReadsOwn, Quiet
<1> QED  BY <1>1, <1>2, <1>3, <1>4, <1>5 DEF HostKept

LEMMA QuietAnswers == read' = Quiet => Answered'
BY DEF Answered, ReadsOwn, Quiet

\* What a run writes stays in its types and is numbered.
LEMMA WroteStored ==
    ASSUME Stored, NEW s, NEW d \in DoorIds, Noted(s, d)
    PROVE  Stored'
<1>0. store \in Keeps /\ Numbered
  BY DEF Stored
<1>1. ASSUME NEW v \in Values \cup {None}, store' = [store EXCEPT !.kv[d] = v] PROVE Stored'
  BY <1>0, <1>1 DEF Stored, Keeps, Numbered
<1>2. ASSUME NEW v \in Values, store' = [store EXCEPT !.text[d] = v] PROVE Stored'
  BY <1>0, <1>2 DEF Stored, Keeps, Numbered
<1>3. ASSUME NEW v \in Values, store' = db_bucc_data_insert(d, v) PROVE Stored'
  <2> DEFINE new == [id |-> store.next, scope |-> d, value |-> v]
  <2>1. /\ store'.kv = store.kv /\ store'.text = store.text /\ store'.next = store.next + 1
        /\ store'.data = store.data \cup {new}
        /\ store' = [kv |-> store.kv, data |-> store.data \cup {new}, next |-> store.next + 1,
                     text |-> store.text]
    BY <1>0, <1>3 DEF db_bucc_data_insert, Keeps
  <2>2. new.id = store.next /\ store.next \in Nat \ {0} /\ \A r \in store.data : r.id \in Nat
    BY <1>0 DEF Keeps, Record
  <2>3. new \in Record /\ store.next + 1 \in Nat \ {0}
    BY <2>2 DEF Record
  <2> HIDE DEF new
  <2>4. store' \in Keeps
    BY <1>0, <2>1, <2>3 DEF Keeps
  <2>5. Numbered'
    BY <1>0, <2>1, <2>2 DEF Numbered
  <2> QED  BY <2>4, <2>5 DEF Stored
<1>4. ASSUME NEW id \in Nat, NEW v \in Values, store' = db_bucc_data_update(d, id, v) PROVE Stored'
  <2> DEFINE At == RecordAt(d, id)
             new == {[r EXCEPT !.value = v] : r \in At}
  <2>1. /\ store'.kv = store.kv /\ store'.text = store.text /\ store'.next = store.next
        /\ store'.data = (store.data \ At) \cup new
        /\ store' = [kv |-> store.kv, data |-> (store.data \ At) \cup new, next |-> store.next,
                     text |-> store.text]
    BY <1>0, <1>4 DEF db_bucc_data_update, Keeps
  <2>2. At \subseteq store.data /\ store.data \subseteq Record
    BY <1>0 DEF RecordAt, Keeps
  <2>3. \A q \in new : q \in Record /\ \E r \in At : q.id = r.id /\ q = [r EXCEPT !.value = v]
    BY <2>2 DEF Record
  <2>4. store' \in Keeps
    BY <1>0, <2>1, <2>2, <2>3 DEF Keeps
  <2>5. ASSUME NEW r \in store'.data, NEW q \in store'.data, r.id = q.id PROVE r = q
    BY <1>0, <2>1, <2>2, <2>3, <2>5 DEF Numbered
  <2>6. \A r \in store'.data : r.id \in 1 .. store'.next - 1
    BY <1>0, <2>1, <2>2, <2>3 DEF Numbered
  <2> QED  BY <2>4, <2>5, <2>6 DEF Stored, Numbered
<1>5. ASSUME NEW id \in Nat, store' = db_bucc_data_delete(d, id) PROVE Stored'
  BY <1>0, <1>5 DEF db_bucc_data_delete, Stored, Keeps, Numbered
<1> QED  BY <1>1, <1>2, <1>3, <1>4, <1>5 DEF Noted

\* A file that is opened or written; who is reading it is not undisturbed.
LEMMA OpensFiles ==
    ASSUME Runners, Undisturbed, Files, NEW d \in DoorIds, NEW m, SaveOpens(d, m)
    PROVE  Runners' /\ Undisturbed' /\ Files'
<1> DEFINE text == bucc_module_save_file(m)
<1>1. text \in Texts(d) /\ text.len \in Nat
  BY TextLen DEF SaveOpens, Texts
<1>2. file' = [file EXCEPT ![d] = [text |-> text, size |-> 0]]
  BY DEF SaveOpens
<1>3. run' = [s \in Sessions |->
               IF run[s].pc \in {"opened", "reading"} /\ run[s].door = d
               THEN [run[s] EXCEPT !.calm = FALSE] ELSE run[s]]
  BY DEF SaveOpens
<1> HIDE DEF text
<1>4. Files'
  BY <1>1, <1>2 DEF Files
<1>5. ASSUME NEW s \in Sessions PROVE Runs(run'[s]) /\ Calmly(run[s])'
  <2>0. Runs(run[s]) /\ Calmly(run[s])
    BY DEF Runners, Undisturbed
  <2>1. CASE run[s].pc \in {"opened", "reading"} /\ run[s].door = d
    <3>1. run'[s] = [run[s] EXCEPT !.calm = FALSE]
      BY <1>3, <2>1
    <3>2. /\ run'[s] \in Runner /\ run'[s].pc = run[s].pc /\ run'[s].door = run[s].door
          /\ run'[s].first = run[s].first /\ run'[s].calm = FALSE
      BY <2>0, <3>1 DEF Runs, Runner
    <3>3. Runs(run'[s])
      BY <2>0, <2>1, <3>2 DEF Runs
    <3>4. Calmly(run[s])'
      BY <3>2 DEF Calmly
    <3> QED  BY <3>3, <3>4
  <2>2. CASE ~(run[s].pc \in {"opened", "reading"} /\ run[s].door = d)
    <3>1. run'[s] = run[s] /\ run[s].door \in DoorIds
      BY <1>3, <2>0, <2>2 DEF Runs, Runner
    <3>2. run[s].door # d => file'[run[s].door] = file[run[s].door]
      BY <1>2, <3>1 DEF Files
    <3>3. Calmly(run[s])'
      BY <2>0, <2>2, <3>1, <3>2 DEF Calmly
    <3> QED  BY <2>0, <3>1, <3>3
  <2> QED  BY <2>1, <2>2
<1>6. Runners' /\ Undisturbed'
  BY <1>3, <1>5 DEF Runners, Undisturbed
<1> QED  BY <1>4, <1>6

LEMMA WritesFiles ==
    ASSUME Runners, Undisturbed, Files, NEW d \in DoorIds, NEW n \in Nat, SaveWrites(d, n)
    PROVE  Runners' /\ Undisturbed' /\ Files'
<1>1. /\ file' = [file EXCEPT ![d].size = n] /\ run' = run
      /\ file[d].size < n /\ n <= file[d].text.len
  BY DEF SaveWrites
<1>2. file[d] \in [text : Texts(d), size : Nat]
  BY DEF Files
<1>3. file' = [e \in DoorIds |-> file'[e]] /\ file'[d] = [file[d] EXCEPT !.size = n]
      /\ \A e \in DoorIds \ {d} : file'[e] = file[e]
  BY <1>1 DEF Files
<1>4. file'[d] \in [text : Texts(d), size : Nat] /\ file'[d].size <= file'[d].text.len
  BY <1>1, <1>2, <1>3
<1>5. Files'
  BY <1>3, <1>4 DEF Files
<1>6. ~Complete(file[d])
  <2>1. file[d].text.len \in Nat
    BY <1>2, TextLen
  <2> QED  BY <1>1, <1>2, <2>1 DEF Complete
<1>7. ASSUME NEW s \in Sessions PROVE Calmly(run[s])'
  <2>1. run[s].door \in DoorIds /\ Calmly(run[s])
    BY DEF Runners, Runs, Runner, Undisturbed
  <2> QED  BY <1>1, <1>3, <1>6, <2>1 DEF Calmly
<1> QED  BY <1>1, <1>5, <1>7 DEF Runners, Undisturbed

LEMMA Goes == HostKept /\ [Next]_vars => HostKept'
<1> SUFFICES ASSUME HostKept, [Next]_vars PROVE HostKept'
  OBVIOUS
<1>0. Runners /\ Undisturbed /\ Files /\ Stored /\ Answered
  BY DEF HostKept
<1>1. CASE UNCHANGED vars
  BY <1>0, <1>1 DEF HostKept, Runners, Undisturbed, Calmly, Files, Stored, Numbered, Answered, ReadsOwn, vars
<1>2. CASE Looked
  BY <1>0, <1>2, QuietAnswers DEF HostKept, Looked, Runners, Undisturbed, Calmly, Files, Stored, Numbered
<1>3. CASE Writes
  <2>1. Runners' /\ Undisturbed' /\ Files'
    BY <1>0, <1>3, OpensFiles, WritesFiles DEF Writes
  <2>2. store' = store /\ read' = Quiet
    BY <1>3 DEF Writes, SaveOpens, SaveWrites
  <2> QED  BY <1>0, <2>1, <2>2, QuietAnswers DEF HostKept, Stored, Numbered
<1>4. ASSUME NEW s \in Sessions, Turned(s) PROVE HostKept'
  <2>1. PICK r : run' = [run EXCEPT ![s] = r] /\ Runs(r) /\ Calmly(r)
    BY <1>4 DEF Turned
  <2>2. Runners'
    BY <1>0, <2>1 DEF Runners
  <2>3. Undisturbed'
    <3>1. file' = file
      BY <1>4 DEF Turned
    <3>2. ASSUME NEW t \in Sessions PROVE Calmly(run[t])'
      <4>1. Calmly(run'[t])
        BY <1>0, <2>1 DEF Runners, Undisturbed
      <4> QED  BY <3>1, <4>1 DEF Calmly
    <3> QED  BY <3>2 DEF Undisturbed
  <2> QED  BY <1>0, <1>4, <2>2, <2>3, QuietAnswers DEF HostKept, Turned, Files, Stored, Numbered
<1>5. ASSUME NEW s \in Sessions, Noted(s, run[s].door) PROVE HostKept'
  <2>1. run[s].door \in DoorIds
    BY <1>0 DEF Runners, Runs, Runner
  <2>2. Stored'
    BY <1>0, <1>5, <2>1, WroteStored
  <2> QED  BY <1>0, <1>5, <2>2, QuietAnswers DEF HostKept, Noted, Runners, Undisturbed, Calmly, Files
<1>6. ASSUME NEW s \in Sessions, NEW got, Told(s, got) PROVE HostKept'
  <2>1. run[s].door \in DoorIds /\ run' = run /\ read'.by = s /\ read'.got = got /\ read' = [by |-> s, got |-> got]
    BY <1>0, <1>6 DEF Runners, Runs, Runner, Told
  <2>2. Answered'
    BY <1>6, <2>1 DEF Answered, ReadsOwn, Told
  <2> QED  BY <1>0, <1>6, <2>2 DEF HostKept, Told, Runners, Undisturbed, Calmly, Files, Stored, Numbered
<1> QED  BY <1>0, <1>1, <1>2, <1>3, <1>4, <1>5, <1>6, Steps

LEMMA HostKeeps == Spec => []HostKept
BY Begins, Goes, PTL DEF Spec

-----------------------------------------------------------------------------
(* What doors keep is changed only by their own runs.                       *)

Confined ==
  \A d \in DoorIds :
    /\ store'.kv[d] # store.kv[d] => By(d, "kv.write")
    /\ Records(store', d) # Records(store, d) => By(d, "data.write")
    /\ store'.text[d] # store.text[d] => By(d, "text.write")

LEMMA WroteConfined ==
    ASSUME Stored, NEW s \in Sessions, NEW e \in DoorIds, Noted(s, e)
    PROVE  Confined
<1>0. store \in Keeps /\ run[s].pc = "running" /\ run[s].door = e
  BY DEF Stored, Noted
<1> SUFFICES ASSUME NEW d \in DoorIds
             PROVE  /\ store'.kv[d] # store.kv[d] => By(d, "kv.write")
                    /\ Records(store', d) # Records(store, d) => By(d, "data.write")
                    /\ store'.text[d] # store.text[d] => By(d, "text.write")
  BY DEF Confined
<1>1. ASSUME NEW v, store' = [store EXCEPT !.kv[e] = v]
      PROVE  (d # e => store'.kv[d] = store.kv[d]) /\ store'.data = store.data /\ store'.text = store.text
  BY <1>0, <1>1 DEF Keeps
<1>2. ASSUME NEW v, store' = [store EXCEPT !.text[e] = v]
      PROVE  (d # e => store'.text[d] = store.text[d]) /\ store'.data = store.data /\ store'.kv = store.kv
  BY <1>0, <1>2 DEF Keeps
<1>3. ASSUME NEW id \in Nat, NEW v,
             \/ store' = db_bucc_data_insert(e, v) \/ store' = db_bucc_data_update(e, id, v)
             \/ store' = db_bucc_data_delete(e, id)
      PROVE  (d # e => Records(store', d) = Records(store, d)) /\ store'.text = store.text /\ store'.kv = store.kv
  <2>1. store'.text = store.text /\ store'.kv = store.kv
    BY <1>0, <1>3 DEF Keeps, db_bucc_data_insert, db_bucc_data_update, db_bucc_data_delete
  <2>2. ASSUME d # e PROVE Records(store', d) = Records(store, d)
    <3>1. store.data \subseteq Record
      BY <1>0 DEF Keeps
    <3>2. CASE store' = db_bucc_data_insert(e, v)
      <4>1. store'.data = store.data \cup {[id |-> store.next, scope |-> e, value |-> v]}
        BY <1>0, <3>2 DEF Keeps, db_bucc_data_insert
      <4> QED  BY <2>2, <4>1 DEF Records
    <3>3. CASE store' = db_bucc_data_update(e, id, v)
      <4>1. store'.data = (store.data \ RecordAt(e, id)) \cup {[r EXCEPT !.value = v] : r \in RecordAt(e, id)}
        BY <1>0, <3>3 DEF Keeps, db_bucc_data_update
      <4>2. \A r \in RecordAt(e, id) : r.scope = e /\ [r EXCEPT !.value = v].scope = e
        BY <3>1 DEF RecordAt, Record
      <4> QED  BY <2>2, <4>1, <4>2 DEF Records
    <3>4. CASE store' = db_bucc_data_delete(e, id)
      <4>1. store'.data = store.data \ RecordAt(e, id)
        BY <1>0, <3>4 DEF Keeps, db_bucc_data_delete
      <4> QED  BY <2>2, <4>1 DEF Records, RecordAt
    <3> QED  BY <1>3, <3>2, <3>3, <3>4
  <2> QED  BY <2>1, <2>2
<1>4. \A cap : cap \in run[s].allowed => By(e, cap)
  BY <1>0 DEF By
<1> QED  BY <1>1, <1>2, <1>3, <1>4 DEF Noted, Records

LEMMA StepsConfined == HostKept /\ [Next]_vars => [Confined]_vars
<1> SUFFICES ASSUME HostKept, Next, ~UNCHANGED vars PROVE Confined
  OBVIOUS
<1>1. ASSUME store' = store PROVE Confined
  BY <1>1 DEF Confined
<1>2. ASSUME NEW s \in Sessions, Noted(s, run[s].door) PROVE Confined
  <2>1. run[s].door \in DoorIds /\ Stored
    BY DEF HostKept, Runners, Runs, Runner
  <2> QED  BY <1>2, <2>1, WroteConfined
<1>3. Runners /\ Undisturbed /\ Files
  BY DEF HostKept
<1> QED  BY <1>1, <1>2, <1>3, Steps DEF Looked, Writes, SaveOpens, SaveWrites, Turned, Told

\* StoresConfined: what a door keeps is changed only by a run of that very door,
\* and only with the capability its runner was given before the run
\* (bucc_host_dispatch, bucc_door_run, the scope of db_bucc_kv_* and db_bucc_data_*).
THEOREM StoresAreConfined == Spec => StoresConfined
<1>1. StoresConfined <=> [][Confined]_vars
  BY DEF StoresConfined, Confined
<1> QED  BY <1>1, HostKeeps, StepsConfined, PTL DEF Spec

LEMMA HostKeptHolds == HostKept => HostInv
<1> SUFFICES ASSUME HostKept PROVE HostInv
  OBVIOUS
<1>1. TypeOK
  <2>1. ASSUME NEW s \in Sessions
        PROVE  /\ run[s].pc \in {None, "opened", "reading", "loaded", "running", "over"} /\ run[s].door \in DoorIds
               /\ run[s].allowed \subseteq Known /\ run[s].host \subseteq Known
               /\ run[s].map \in [Maps -> Values \cup {None}]
               /\ run[s].result \in Results \cup {None, "security", "capability"}
    BY DEF HostKept, Runners, Runs, Runner
  <2>2. /\ \A d \in DoorIds : store.kv[d] \in Values \cup {None} /\ store.text[d] \in Values \cup {None}
        /\ \A r \in store.data : r.id \in 1 .. store.next - 1 /\ r.scope \in DoorIds
        /\ \A r, q \in store.data : r.id = q.id => r = q
    BY DEF HostKept, Stored, Keeps, Record, Numbered
  <2> QED  BY <2>1, <2>2 DEF TypeOK, HostKept, Answered
<1>2. LoadedWhole
  <2> SUFFICES ASSUME NEW s \in Sessions, run[s].pc \in {"loaded", "running"}
               PROVE  /\ run[s].calm => \E m \in Modules[run[s].door] : SameProgram(run[s].prog, m)
                      /\ run[s].prog = Torn => \E m, n \in Modules[run[s].door] : m # n
                      /\ run[s].prog # Torn =>
                           \/ run[s].prog.code = <<>>
                           \/ \E m \in Modules[run[s].door] : SameBeginning(run[s].prog, m)
    BY DEF LoadedWhole
  <2>1. run[s].door \in DoorIds /\ Loads(run[s].door, run[s].prog, run[s].calm)
    BY DEF HostKept, Runners, Runs, Runner
  <2>2. ASSUME NEW m \in Modules[run[s].door] PROVE Emitted(m)
    BY <2>1, HostAssumption
  <2>3. ASSUME run[s].calm PROVE \E m \in Modules[run[s].door] : SameProgram(run[s].prog, m)
    <3>1. PICK m \in Modules[run[s].door] : run[s].prog = Cut(m, bucc_module_save_file(m).len)
      BY <2>1, <2>3 DEF Loads
    <3> DEFINE n == bucc_module_save_file(m).len
    <3>2. Emitted(m) /\ n \in Nat
      BY <2>2, SavedSections
    <3>3. n <= bucc_module_save_file(m).len /\ Cut(m, n) # NoModule
      BY <2>1, <3>1, <3>2 DEF Loads
    <3>4. n = bucc_module_save_file(m).len => SameProgram(Cut(m, n), m)
      <4> HIDE DEF n
      <4> QED  BY <3>2, <3>3, CutIs
    <3> QED  BY <3>1, <3>4
  <2>4. ASSUME run[s].prog # Torn
        PROVE  \/ run[s].prog.code = <<>>
               \/ \E m \in Modules[run[s].door] : SameBeginning(run[s].prog, m)
    <3>1. PICK m \in Modules[run[s].door], n \in Nat : n <= bucc_module_save_file(m).len /\ run[s].prog = Cut(m, n)
      BY <2>1, <2>4 DEF Loads
    <3> QED  BY <2>1, <2>2, <3>1, CutIs DEF Loads
  <2> QED  BY <2>1, <2>3, <2>4 DEF Loads
<1>3. ReadsOwn
  BY DEF HostKept, Answered
<1> QED  BY <1>1, <1>2, <1>3 DEF HostInv

\* HostInv: a door whose file nobody was writing from its opening to its end
\* runs the program that was written for it, whole, whatever is written later;
\* one that was launched meanwhile runs nothing, or the beginning of a program
\* with whole tables, or, if its program was changed, anything; and no call
\* returns what another door keeps, or the board's own, to a run that was not
\* given the capability (bucc_module_save_file, bucc_module_load_file,
\* bucc_door_run, bucc_host_dispatch).
THEOREM HostCorrect == Spec => []HostInv
BY HostKeeps, HostKeptHolds, PTL
=============================================================================
