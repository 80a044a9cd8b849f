------------------------------ MODULE MtsRooms ------------------------------
(***************************************************************************)
(* Rooms of the Mutineer Teleconference System (plugins/chat): who may     *)
(* enter them, how they begin and end, moderation, and what a restart      *)
(* finds of them in mts.db.  Each caller's thread runs one handler at a    *)
(* time and console threads clean up the callers they disconnect.  A       *)
(* handler holds MTS.mu only for parts of its work, so a thread's `job' is *)
(* the place its handler has reached: one action per critical section or   *)
(* statement of mts.db between which other threads can run.                *)
(*                                                                         *)
(* What callers say is MtsDelivery's subject; here mts_publish is nothing. *)
(* A caller is their user id and has one instance at a time.  An instance  *)
(* is not freed while another thread works on it: that hazard, too, is     *)
(* MtsDelivery's.                                                          *)
(***************************************************************************)
EXTENDS Naturals, FiniteSets, Sequences, SequencesExt

CONSTANTS
    Callers,     \* user ids
    Sysops,      \* the callers with the sysop flag
    Consoles,    \* threads that dispatch BBS_EVT_FORCED_DISCONNECT
    NoUser,      \* user id 0, owner of the configured rooms
    Names,       \* room names a caller types
    Norm,        \* normalize(): the name without what is not a letter or digit
    Configs,     \* the [room] sections mts.conf may have, each a sequence
    MaxRooms,    \* cfg.max_rooms
    PerUser,     \* cfg.max_rooms_per_user
    MaxUsers,    \* cfg.max_users
    May,         \* bound: the commands that each thread enters
    Lost,        \* bound: the callers whom a console may disconnect
    Offered,     \* bound: the sanctions that moderators write or lift
    MaxRoom,     \* bound: room ids
    MaxCommands  \* bound: commands and stops

RoomThreads == Callers \cup Consoles
Lobby == 1
LobbyName == "lobby"
RoomIds == 0 .. MaxRoom
Slots == 1 .. MaxRooms

ASSUME PeopleAssumption ==
    Sysops \subseteq Callers /\ Consoles \cap Callers = {} /\ NoUser \notin RoomThreads
ASSUME NamesAssumption == LobbyName \in Names /\ Norm \in [Names -> STRING] /\ Norm[LobbyName] = LobbyName
ASSUME LimitsAssumption == MaxRooms \in Nat \ {0} /\ PerUser \in Nat /\ MaxUsers \in Nat /\ MaxRoom \in Nat \ {0}
ASSUME ConfigsAssumption ==
    /\ \A c \in Configs : c \in Seq([name : Names, private : BOOLEAN])
    /\ Offered \subseteq [table : {"bans", "mutes"}, temporary : BOOLEAN, global : BOOLEAN, add : BOOLEAN, named : BOOLEAN]

VARIABLES
    up,        \* MTS.initialized
    slots,     \* MTS.rooms
    nextId,    \* MTS.next_room_id
    locked,    \* MTS.chat_locked
    sessions,  \* MTS.sessions, in order
    life,      \* s->lifecycle
    room,      \* s->room_id
    muted,     \* s->muted
    job,       \* where each thread is
    db,        \* table mts_rooms
    invited,   \* table mts_invitations
    sanctions, \* tables mts_room_bans, mts_room_mutes, mts_global_bans, mts_global_mutes
    default,   \* mts_preferences.default_room_id
    could,     \* history: what the mts_join under way could have relied on
    unsaved,   \* history: rooms whose row mts.db refused
    commands   \* commands and stops so far

memory == <<up, slots, nextId, locked>>
callers == <<sessions, life, room, muted>>
tables == <<db, invited, sanctions, default>>
roomvars == <<memory, callers, job, tables, could, unsaved, commands>>

\* What a room is called: what /create was given, or that normalized.
Titles == {""} \cup Names \cup {Norm[n] : n \in Names}
Row == [name : Titles, owner : Callers \cup {NoUser}, private : BOOLEAN, permanent : BOOLEAN]
Room == [id : RoomIds, active : BOOLEAN, name : Titles, owner : Callers \cup {NoUser},
         private : BOOLEAN, permanent : BOOLEAN]
Free == [id |-> 0, active |-> FALSE, name |-> "", owner |-> NoUser, private |-> FALSE, permanent |-> FALSE]

\* Rows of the sanction tables: the global ones have room 0.
Tables == {"bans", "mutes"}
Sanction == [table : Tables, room : RoomIds, user : Callers, temporary : BOOLEAN]

\* A thread's handler: the instance u and the room r it works on, the room
\* `old' it may leave empty, whether the snapshot of mts_join says private,
\* the slot it holds a pointer to, its index in MTS.sessions, what it binds
\* to a statement, and what it does once mts_join or mts_leave returns.
Idle == [pc |-> "idle", u |-> NoUser, r |-> 0, old |-> 0, closed |-> FALSE, slot |-> 1, i |-> 1,
         what |-> Free, then |-> "none"]
Places == {"idle", "look", "bans", "roombans", "invited", "set", "empty", "delete", "mutes", "prefer", "remove",
           "evict", "shut", "erase", "rename", "invite", "uninvite", "transfer", "save", "sanction", "flag", "kick"}

RoomsTypeOK ==
    /\ up \in BOOLEAN /\ locked \in BOOLEAN
    /\ slots \in [Slots -> Room]
    /\ nextId \in 1 .. MaxRoom + 1
    /\ IsInjective(sessions) /\ Len(sessions) <= MaxUsers /\ ToSet(sessions) \subseteq Callers
    /\ life \in [Callers -> {"out", "in", "exiting"}]
    /\ room \in [Callers -> RoomIds]
    /\ muted \in [Callers -> BOOLEAN]
    /\ \A t \in RoomThreads : job[t].pc \in Places /\ job[t].u \in Callers \cup {NoUser} /\ job[t].slot \in Slots
    /\ DOMAIN db \subseteq RoomIds \ {0} /\ \A k \in DOMAIN db : db[k] \in Row
    /\ invited \subseteq RoomIds \X Callers
    /\ sanctions \subseteq Sanction
    /\ default \in [Callers -> RoomIds]

\* mts_store_open on a new mts.db: empty tables, and no plugin state yet.
RoomsInit ==
    /\ up = FALSE /\ locked = FALSE /\ nextId = 2
    /\ slots = [i \in Slots |-> Free]
    /\ sessions = <<>>
    /\ life = [u \in Callers |-> "out"]
    /\ room = [u \in Callers |-> 0]
    /\ muted = [u \in Callers |-> FALSE]
    /\ job = [t \in RoomThreads |-> Idle]
    /\ db = <<>> /\ invited = {} /\ sanctions = {}
    /\ default = [u \in Callers |-> 0]
    /\ could = [t \in RoomThreads |-> {}] /\ unsaved = {} /\ commands = 0

-----------------------------------------------------------------------------
\* mts.db.  normalized_name is UNIQUE: a row whose name another one has is
\* refused.
mts_store_save_room(d, x) ==
    IF \E k \in DOMAIN d \ {x.id} : d[k].name = x.name THEN d
    ELSE [k \in DOMAIN d \cup {x.id} |->
            IF k = x.id THEN [name |-> x.name, owner |-> x.owner, private |-> x.private, permanent |-> x.permanent]
            ELSE d[k]]
Refused(d, x) == IF x.id \in DOMAIN mts_store_save_room(d, x) THEN {} ELSE {x.id}

mts_store_delete_room(d, k) ==
    IF k = Lobby THEN d ELSE [x \in DOMAIN d \ {k} |-> d[x]]

mts_store_is_sanctioned(table, r, u) ==
    \E x \in sanctions : x.table = table /\ x.room = r /\ x.user = u

mts_store_sanction(what, r, u, add) ==
    LET rows == {x \in sanctions : ~(x.table = what.table /\ x.room = r /\ x.user = u)}
    IN  sanctions' = IF add THEN rows \cup {[table |-> what.table, room |-> r, user |-> u, temporary |-> what.temporary]}
                     ELSE rows

mts_store_is_invited(r, u) == <<r, u>> \in invited

\* Of the preferences, the room that a caller enters first; the others are
\* about what is shown.
mts_store_load_preferences(u) == IF default[u] # 0 THEN default[u] ELSE Lobby
mts_store_save_preferences(u, r) == default' = [default EXCEPT ![u] = r]

\* The first active room of that name and the one a caller is in.
mts_find_room(n) == {i \in Slots : /\ slots[i].active /\ slots[i].name = Norm[n]
                                   /\ \A k \in 1 .. i - 1 : ~(slots[k].active /\ slots[k].name = Norm[n])}
current_room(u) == {i \in Slots : slots[i].active /\ slots[i].id = room[u]}

\* A target is the name of somebody in MTS, or a number that may be anybody's.
mts_find_user(u) == u \in ToSet(sessions)
target_id(u, named) == named => mts_find_user(u)

mts_is_sysop(u) == u \in Sysops
room_admin(u, i) == mts_is_sysop(u) \/ slots[i].owner = u
Owns(u) == \E i \in current_room(u) : slots[i].owner = u

Occupied(r) == \E k \in DOMAIN sessions : room[sessions[k]] = r

\* What a thread in mts_join could have relied on since it began: that the
\* caller was not banned from MTS, nor from the room, and that the room was
\* open to them.  Every action ends with Rest, which keeps this history and
\* leaves v alone.
Unbanned(u, r) == mts_is_sysop(u) \/ ~mts_store_is_sanctioned("bans", r, u)
OpenTo(u, r) ==
    \/ mts_is_sysop(u) \/ mts_store_is_invited(r, u)
    \/ \E i \in Slots : slots[i].active /\ slots[i].id = r /\ (~slots[i].private \/ slots[i].owner = u)
AllGrounds == {"mts", "room", "open"}
Grounds(u, r) ==
    {g \in AllGrounds : (g = "mts" => Unbanned(u, 0)) /\ (g = "room" => Unbanned(u, r)) /\ (g = "open" => OpenTo(u, r))}
InJoin(t) == job[t].pc \in {"look", "bans", "roombans", "invited", "set"}

Rest(v) ==
    /\ UNCHANGED v
    /\ could' = [t \in RoomThreads |-> IF ~InJoin(t)' THEN {}
                                ELSE (IF job'[t].pc = "look" THEN {} ELSE could[t])
                                     \cup Grounds(job[t].u, job[t].r)']

-----------------------------------------------------------------------------
\* The beginning of a handler.
Handles(t, c) ==
    /\ up /\ life[t] = "in" /\ job[t] = Idle /\ c \in May[t]
    /\ commands < MaxCommands /\ commands' = commands + 1

Start(t, j) == job' = [job EXCEPT ![t] = j]
Joining(u, r, then) == [Idle EXCEPT !.pc = "look", !.u = u, !.r = r, !.then = then]
Holding(pc, u, i) == [Idle EXCEPT !.pc = pc, !.u = u, !.slot = i]

\* What follows mts_join or mts_leave in the handler that called it.
Continue(t, ok) ==
    LET j == job[t] IN
    /\ job' = [job EXCEPT ![t] =
            CASE j.then = "enter" /\ ~ok -> Joining(j.u, Lobby, "none")
              [] j.then = "default" /\ ok -> [j EXCEPT !.pc = "prefer"]
              [] j.then = "close" -> [j.what EXCEPT !.i = @ + 1]
              [] OTHER -> Idle]
    /\ life' = IF j.then = "leave" THEN [life EXCEPT ![j.u] = "out"] ELSE life

\* mts_join, first critical section: a copy of the room.
Look(t) ==
    LET j == job[t]
        found == {i \in Slots : slots[i].active /\ slots[i].id = j.r}
    IN
    /\ j.pc = "look"
    /\ IF found = {} THEN Continue(t, FALSE)
       ELSE /\ \E i \in found :
                 Start(t, [j EXCEPT !.pc = "bans", !.closed = slots[i].private /\ slots[i].owner # j.u])
            /\ UNCHANGED life
    /\ Rest(<<memory, sessions, room, muted, tables, unsaved, commands>>)

\* Two statements: the bans of the whole of MTS, then those of the room.
CheckBans(t) ==
    LET j == job[t] IN
    /\ j.pc = "bans"
    /\ IF Unbanned(j.u, 0) THEN Start(t, [j EXCEPT !.pc = "roombans"]) /\ UNCHANGED life
       ELSE Continue(t, FALSE)
    /\ Rest(<<memory, sessions, room, muted, tables, unsaved, commands>>)

Cleared(j) == [j EXCEPT !.pc = IF j.closed /\ ~mts_is_sysop(j.u) THEN "invited" ELSE "set"]

\* A mutant: only the bans of the whole of MTS are looked up.
PassRoomBans(t) ==
    /\ job[t].pc = "roombans"
    /\ Start(t, Cleared(job[t]))
    /\ Rest(<<memory, callers, tables, unsaved, commands>>)

CheckRoomBans(t) ==
    LET j == job[t] IN
    /\ j.pc = "roombans"
    /\ IF Unbanned(j.u, j.r) THEN Start(t, Cleared(j)) /\ UNCHANGED life ELSE Continue(t, FALSE)
    /\ Rest(<<memory, sessions, room, muted, tables, unsaved, commands>>)

CheckInvited(t) ==
    LET j == job[t] IN
    /\ j.pc = "invited"
    /\ IF mts_store_is_invited(j.r, j.u) THEN Start(t, [j EXCEPT !.pc = "set"]) /\ UNCHANGED life
       ELSE Continue(t, FALSE)
    /\ Rest(<<memory, sessions, room, muted, tables, unsaved, commands>>)

\* The second critical section: whatever has become of the room, the caller
\* is in it.
SetRoom(t) ==
    LET j == job[t] IN
    /\ j.pc = "set"
    /\ room' = [room EXCEPT ![j.u] = j.r]
    /\ Start(t, [j EXCEPT !.old = room[j.u], !.pc = IF room[j.u] \notin {0, j.r} THEN "empty" ELSE "mutes"])
    /\ Rest(<<memory, sessions, life, muted, tables, unsaved, commands>>)

\* The third, of mts_join and of mts_leave: a temporary room that nobody is
\* in ends.
\* (A mutant: whoever is in it.)
Vacated(r) == {i \in Slots : slots[i].active /\ slots[i].id = r /\ ~slots[i].permanent}
Vacant(r) == {i \in Slots : slots[i].active /\ slots[i].id = r /\ ~slots[i].permanent /\ ~Occupied(r)}

\* A mutant: the room's row goes and the room stays.
EmptyRow(t) ==
    LET j == job[t] IN
    /\ j.pc = "empty"
    /\ Start(t, [j EXCEPT !.pc = IF Vacant(j.old) # {} THEN "delete" ELSE "mutes"])
    /\ Rest(<<memory, callers, tables, unsaved, commands>>)

EmptyRoom(t) ==
    LET j == job[t] IN
    /\ j.pc = "empty"
    /\ slots' = [i \in Slots |-> IF i \in Vacant(j.old) THEN [slots[i] EXCEPT !.active = FALSE] ELSE slots[i]]
    /\ Start(t, [j EXCEPT !.pc = IF Vacant(j.old) # {} THEN "delete" ELSE "mutes"])
    /\ Rest(<<up, nextId, locked, callers, tables, unsaved, commands>>)

DeleteRoom(t) ==
    LET j == job[t] IN
    /\ j.pc = "delete"
    /\ db' = mts_store_delete_room(db, j.old)
    /\ Start(t, [j EXCEPT !.pc = "mutes"])
    /\ Rest(<<memory, callers, invited, sanctions, default, unsaved, commands>>)

\* The end of mts_join, which reads the mutes, and of mts_leave.
Returns(t) ==
    LET j == job[t] IN
    /\ j.pc = "mutes"
    /\ muted' = IF j.then = "leave" THEN muted
                ELSE [muted EXCEPT ![j.u] = \/ mts_store_is_sanctioned("mutes", 0, j.u)
                                            \/ mts_store_is_sanctioned("mutes", j.r, j.u)]
    /\ Continue(t, TRUE)
    /\ Rest(<<memory, sessions, room, tables, unsaved, commands>>)

-----------------------------------------------------------------------------
\* Coming and going.
Enter(u) ==
    /\ up /\ life[u] = "out" /\ job[u] = Idle /\ {t \in RoomThreads : job[t].u = u} = {}
    /\ "enter" \in May[u]
    /\ mts_is_sysop(u) \/ ~(mts_store_is_sanctioned("bans", 0, u) \/ locked)
    /\ Len(sessions) < MaxUsers
    /\ sessions' = Append(sessions, u)
    /\ life' = [life EXCEPT ![u] = "in"]
    /\ room' = [room EXCEPT ![u] = 0]
    /\ muted' = [muted EXCEPT ![u] = FALSE]
    /\ Start(u, Joining(u, mts_store_load_preferences(u), "enter"))
    /\ Rest(<<memory, tables, unsaved, commands>>)

\* cleanup_instance by thread t: the caller's own, or a console's.
cleanup_instance(t, u) ==
    /\ life[u] = "in"
    /\ life' = [life EXCEPT ![u] = "exiting"]
    /\ Start(t, [Idle EXCEPT !.pc = "remove", !.u = u, !.old = room[u], !.then = "leave"])
    /\ Rest(<<memory, sessions, room, muted, tables, unsaved>>)

Quit(u) == Handles(u, "quit") /\ cleanup_instance(u, u)

ForcedDisconnect(c, u) ==
    /\ up /\ job[c] = Idle /\ u \in ToSet(sessions) \cap Lost
    /\ UNCHANGED commands
    /\ cleanup_instance(c, u)

\* mts_leave takes the session out of the array: the last one gets its place.
Unlisted(u) ==
    LET n == Len(sessions)
        k == CHOOSE x \in 1 .. n : sessions[x] = u
    IN  SubSeq([sessions EXCEPT ![k] = sessions[n]], 1, n - 1)

Delist(t) ==
    LET j == job[t] IN
    /\ j.pc = "remove"
    /\ sessions' = Unlisted(j.u)
    /\ Start(t, [j EXCEPT !.pc = "empty"])
    /\ Rest(<<memory, life, room, muted, tables, unsaved, commands>>)

-----------------------------------------------------------------------------
\* Moving about.
Join(t, n) ==
    /\ Handles(t, "join")
    /\ \E i \in mts_find_room(n) : Start(t, Joining(t, slots[i].id, "none"))
    /\ Rest(<<memory, callers, tables, unsaved>>)

Leave(t) ==
    /\ Handles(t, "leave") /\ room[t] # Lobby
    /\ Start(t, Joining(t, Lobby, "none"))
    /\ Rest(<<memory, callers, tables, unsaved>>)

\* /settings default-room joins the room, then reads its id from the slot.
DefaultRoom(t, n) ==
    /\ Handles(t, "default")
    /\ \E i \in mts_find_room(n) : Start(t, [Joining(t, slots[i].id, "default") EXCEPT !.slot = i])
    /\ Rest(<<memory, callers, tables, unsaved>>)

Prefer(t) ==
    LET j == job[t] IN
    /\ j.pc = "prefer"
    /\ mts_store_save_preferences(t, slots[j.slot].id)
    /\ Start(t, Idle)
    /\ Rest(<<memory, callers, db, invited, sanctions, unsaved, commands>>)

\* /create does all its work under MTS.mu, moves the caller without mts_join,
\* and leaves the old room as it is.
Create(t, n) ==
    LET free == {i \in Slots : ~slots[i].active}
        mine == {i \in Slots : slots[i].active /\ slots[i].owner = t}
        made == [id |-> nextId, active |-> TRUE, name |-> n, owner |-> t, private |-> FALSE, permanent |-> FALSE]
    IN
    /\ Handles(t, "create")
    /\ free # {} /\ Cardinality(mine) < PerUser /\ nextId <= MaxRoom
    /\ slots' = [slots EXCEPT ![CHOOSE i \in free : \A k \in free : i <= k] = made]
    /\ nextId' = nextId + 1
    /\ db' = mts_store_save_room(db, made)
    /\ unsaved' = unsaved \cup Refused(db, made)
    /\ room' = [room EXCEPT ![t] = nextId]
    /\ Rest(<<up, locked, sessions, life, muted, job, invited, sanctions, default>>)

-----------------------------------------------------------------------------
\* Administration of the room a caller is in.  /public and /private do not
\* ask whether the room is active.
Visibility(t, p) ==
    LET of == {i \in Slots : slots[i].id = room[t] /\ room_admin(t, i) /\ slots[i].id # Lobby}
        changed == [i \in Slots |-> IF i \in of THEN [slots[i] EXCEPT !.private = p] ELSE slots[i]]
    IN
    /\ Handles(t, "private") /\ of # {}
    /\ slots' = changed
    /\ \E i \in of : db' = mts_store_save_room(db, changed[i])
    /\ Rest(<<up, nextId, locked, callers, job, invited, sanctions, default, unsaved>>)

\* /topic.  A sysop in a room that has ended writes through a null pointer,
\* which ends the process.
Stopped ==
    /\ up' = FALSE /\ locked' = FALSE
    /\ sessions' = <<>>
    /\ life' = [u \in Callers |-> "out"] /\ room' = [u \in Callers |-> 0] /\ muted' = [u \in Callers |-> FALSE]
    /\ job' = [t \in RoomThreads |-> Idle]
    /\ Rest(<<slots, nextId, tables, unsaved>>)

Topic(t) ==
    /\ Handles(t, "topic")
    /\ \/ \E i \in current_room(t) :
            /\ room_admin(t, i)
            /\ db' = mts_store_save_room(db, slots[i])
            /\ Rest(<<memory, callers, job, invited, sanctions, default, unsaved>>)
       \/ current_room(t) = {} /\ mts_is_sysop(t) /\ Stopped

\* /rename, /invite, /uninvite and /transfer find the room without MTS.mu and
\* use the pointer later.
Administer(t, c, u) ==
    /\ Handles(t, c)
    /\ \E i \in current_room(t) : slots[i].id # Lobby /\ room_admin(t, i) /\ Start(t, Holding(c, u, i))
    /\ Rest(<<memory, callers, tables, unsaved>>)

Rename(t, n) ==
    /\ Handles(t, "rename")
    /\ \E i \in current_room(t) :
         /\ slots[i].id # Lobby /\ room_admin(t, i) /\ mts_find_room(n) = {}
         /\ Start(t, [Holding("rename", t, i) EXCEPT !.what = [Free EXCEPT !.name = Norm[n]]])
    /\ Rest(<<memory, callers, tables, unsaved>>)

\* The assignment, and the values bound for mts_store_save_room.
Bind(t, changed) ==
    /\ slots' = [slots EXCEPT ![job[t].slot] = changed]
    /\ Start(t, [job[t] EXCEPT !.pc = "save", !.what = changed])
    /\ Rest(<<up, nextId, locked, callers, tables, unsaved, commands>>)

Renamed(t) == job[t].pc = "rename" /\ Bind(t, [slots[job[t].slot] EXCEPT !.name = job[t].what.name])

Transfer(t) == job[t].pc = "transfer" /\ Bind(t, [slots[job[t].slot] EXCEPT !.owner = job[t].u])

SaveRoom(t) ==
    /\ job[t].pc = "save"
    /\ db' = mts_store_save_room(db, job[t].what)
    /\ Start(t, Idle)
    /\ Rest(<<memory, callers, invited, sanctions, default, unsaved, commands>>)

mts_store_invitation(t) ==
    LET j == job[t]
        pair == <<slots[j.slot].id, j.u>>
    IN
    /\ j.pc \in {"invite", "uninvite"}
    /\ invited' = IF j.pc = "invite" THEN invited \cup {pair} ELSE invited \ {pair}
    /\ Start(t, Idle)
    /\ Rest(<<memory, callers, db, sanctions, default, unsaved, commands>>)

-----------------------------------------------------------------------------
\* Moderation.  The authority is looked at first; the sanction is written for
\* the room the moderator is in by then.  `what' is the sanction; its target
\* is named, and then an instance, or given by number.
Moderate(t, u, what, global, add, named) ==
    /\ Handles(t, what.table)
    /\ target_id(u, named)
    /\ IF global THEN mts_is_sysop(t) ELSE mts_is_sysop(t) \/ Owns(t)
    /\ Start(t, [Holding("sanction", u, 1) EXCEPT !.what = what, !.r = IF global THEN 0 ELSE 1, !.closed = add,
                                                  !.then = IF named THEN "flag" ELSE "none"])
    /\ Rest(<<memory, callers, tables, unsaved>>)

WriteSanction(t) ==
    LET j == job[t] IN
    /\ j.pc = "sanction"
    /\ mts_store_sanction(j.what, IF j.r = 0 THEN 0 ELSE room[t], j.u, j.closed)
    /\ Start(t, IF j.then = "flag" THEN [j EXCEPT !.pc = "flag", !.then = "none"] ELSE Idle)
    /\ Rest(<<memory, callers, db, invited, default, unsaved, commands>>)

\* The instance's mute is read again, and a banned caller goes to the Lobby
\* if mts_join lets them.
Flag(t) ==
    LET j == job[t] IN
    /\ j.pc = "flag"
    /\ muted' = [muted EXCEPT ![j.u] = \/ mts_store_is_sanctioned("mutes", 0, j.u)
                                       \/ mts_store_is_sanctioned("mutes", room[j.u], j.u)]
    /\ Start(t, IF j.closed /\ j.what.table = "bans" THEN Joining(j.u, Lobby, "none") ELSE Idle)
    /\ Rest(<<memory, sessions, life, room, tables, unsaved, commands>>)

Kick(t, u) ==
    /\ Handles(t, "kick") /\ mts_find_user(u)
    /\ mts_is_sysop(t) \/ Owns(t)
    /\ Start(t, Joining(u, Lobby, "none"))
    /\ Rest(<<memory, callers, tables, unsaved>>)

Chatlock(t) ==
    /\ Handles(t, "chatlock") /\ mts_is_sysop(t)
    /\ locked' = ~locked
    /\ Rest(<<up, slots, nextId, callers, job, tables, unsaved>>)

\* /close walks over MTS.sessions without MTS.mu, sends each occupant to the
\* Lobby, and ends the room in the slot it found first.
Close(t, n) ==
    /\ Handles(t, "close") /\ mts_is_sysop(t)
    /\ \E i \in mts_find_room(n) :
         slots[i].id # Lobby /\ Start(t, [Holding("evict", NoUser, i) EXCEPT !.r = slots[i].id])
    /\ Rest(<<memory, callers, tables, unsaved>>)

Evict(t) ==
    LET j == job[t]
        here == {k \in DOMAIN sessions : k >= j.i /\ room[sessions[k]] = j.r}
        k == CHOOSE x \in here : \A y \in here : x <= y
    IN
    /\ j.pc = "evict"
    /\ Start(t, IF here = {} THEN [j EXCEPT !.pc = "shut"]
                ELSE [Joining(sessions[k], Lobby, "close") EXCEPT !.what = [j EXCEPT !.i = k]])
    /\ Rest(<<memory, callers, tables, unsaved, commands>>)

Shut(t) ==
    LET j == job[t] IN
    /\ j.pc = "shut"
    /\ slots' = [slots EXCEPT ![j.slot].active = FALSE]
    /\ Start(t, [j EXCEPT !.pc = "erase"])
    /\ Rest(<<up, nextId, locked, callers, tables, unsaved, commands>>)

Erase(t) ==
    LET j == job[t] IN
    /\ j.pc = "erase"
    /\ db' = mts_store_delete_room(db, j.r)
    /\ Start(t, Idle)
    /\ Rest(<<memory, callers, invited, sanctions, default, unsaved, commands>>)

\* The time of a sanction runs out; whether mts_store_cleanup has been by
\* makes no difference to a reader.
Expire ==
    /\ \E x \in sanctions : x.temporary /\ sanctions' = sanctions \ {x}
    /\ Rest(<<memory, callers, job, db, invited, default, unsaved, commands>>)

-----------------------------------------------------------------------------
\* The process ends at any point, or the plugin is shut down.
PluginStops ==
    /\ up /\ commands < MaxCommands /\ commands' = commands + 1
    /\ Stopped

\* mts_state_init.  Rooms come back in the order of their ids, as many as
\* there are slots: slot i has the row with i - 1 rows before it.
mts_store_load_rooms(d) ==
    LET nth(i) == {k \in DOMAIN d : Cardinality({x \in DOMAIN d : x < k}) = i - 1}
        read(k) == [id |-> k, active |-> TRUE, name |-> d[k].name, owner |-> d[k].owner,
                    private |-> d[k].private, permanent |-> d[k].permanent]
    IN  [i \in Slots |-> IF nth(i) = {} THEN Free ELSE read(CHOOSE k \in nth(i) : TRUE)]

LobbyRoom == [id |-> Lobby, active |-> TRUE, name |-> LobbyName, owner |-> NoUser,
              private |-> FALSE, permanent |-> TRUE]

\* The configured rooms, each found by name or made in the first free slot.
Configure(st, c) ==
    LET same == {i \in Slots : st.slots[i].active /\ st.slots[i].name = Norm[c.name]}
        free == {i \in Slots : ~st.slots[i].active}
        from == IF same # {} THEN same ELSE free
        i == CHOOSE x \in from : \A y \in from : x <= y
        new == [id |-> IF same # {} THEN st.slots[i].id ELSE st.next, active |-> TRUE, name |-> Norm[c.name],
                owner |-> NoUser, private |-> c.private, permanent |-> TRUE]
    IN  IF Norm[c.name] = LobbyName \/ ~st.ok THEN st
        ELSE IF from = {} THEN [st EXCEPT !.ok = FALSE]
        ELSE [ok |-> TRUE, slots |-> [st.slots EXCEPT ![i] = new],
              next |-> IF same # {} THEN st.next ELSE st.next + 1,
              db |-> mts_store_save_room(st.db, new), refused |-> st.refused \cup Refused(st.db, new)]

Loaded(config) ==
    LET read == mts_store_load_rooms(db)
        rooms == IF read[1].active THEN read ELSE [read EXCEPT ![1] = LobbyRoom]
        gone == {i \in Slots : /\ rooms[i].active /\ rooms[i].id # Lobby /\ rooms[i].permanent
                               /\ \A k \in DOMAIN config : Norm[config[k].name] # rooms[i].name}
    IN  [ok |-> TRUE,
         slots |-> [i \in Slots |-> IF i \in gone THEN [rooms[i] EXCEPT !.active = FALSE] ELSE rooms[i]],
         next |-> IF DOMAIN db = {} THEN 2 ELSE 1 + CHOOSE x \in {read[i].id : i \in Slots} :
                                                      \A i \in Slots : read[i].id <= x,
         db |-> LET d == IF read[1].active THEN db ELSE mts_store_save_room(db, LobbyRoom)
                IN  [k \in DOMAIN d \ {rooms[i].id : i \in gone} |-> d[k]],
         refused |-> {}]

mts_state_init(config) ==
    LET st == FoldLeft(Configure, Loaded(config), config) IN
    /\ ~up /\ st.next <= MaxRoom + 1
    /\ up' = st.ok /\ locked' = FALSE
    /\ slots' = st.slots /\ nextId' = st.next /\ db' = st.db /\ unsaved' = st.refused
    /\ Rest(<<callers, job, invited, sanctions, default, commands>>)

-----------------------------------------------------------------------------
Sanctioning(t) ==
    \E u \in Callers, x \in Offered :
        Moderate(t, u, [table |-> x.table, temporary |-> x.temporary], x.global, x.add, x.named)

Command(t) ==
    \/ Quit(t) \/ Leave(t) \/ Topic(t) \/ Chatlock(t)
    \/ \E n \in Names : Join(t, n) \/ DefaultRoom(t, n) \/ Create(t, n) \/ Rename(t, n) \/ Close(t, n)
    \/ \E p \in BOOLEAN : Visibility(t, p)
    \/ \E u \in Callers : Kick(t, u) \/ \E c \in {"invite", "uninvite", "transfer"} : Administer(t, c, u)
    \/ Sanctioning(t)

Work(t) ==
    \/ Look(t) \/ CheckBans(t) \/ CheckRoomBans(t) \/ CheckInvited(t) \/ SetRoom(t) \/ EmptyRoom(t) \/ DeleteRoom(t) \/ Returns(t)
    \/ Delist(t) \/ Prefer(t) \/ Renamed(t) \/ Transfer(t) \/ SaveRoom(t) \/ mts_store_invitation(t)
    \/ WriteSanction(t) \/ Flag(t) \/ Evict(t) \/ Shut(t) \/ Erase(t)

RoomsNext ==
    \/ \E t \in Callers : Command(t) \/ Enter(t)
    \/ \E t \in RoomThreads : Work(t)
    \/ \E c \in Consoles, u \in Callers : ForcedDisconnect(c, u)
    \/ Expire
    \/ PluginStops \/ \E config \in Configs : mts_state_init(config)

RoomsSpec == RoomsInit /\ [][RoomsNext]_roomvars

-----------------------------------------------------------------------------
\* Lobby is there for whoever is sent there: whatever rooms callers make,
\* rename, give away or close, and whatever a restart finds, room 1 is in the
\* first slot, public and permanent, has its row, and is the one that the
\* name `lobby' finds (handle_create lets a caller use that name again).
LobbyStands ==
    up => /\ slots[1] = LobbyRoom /\ mts_find_room(LobbyName) = {1}
          /\ Lobby \in DOMAIN db /\ db[Lobby].name = LobbyName

\* mts_join looks at the room, at the bans of MTS, at those of the room and at
\* the invitations at different moments, and so does a moderator who sends
\* somebody away.  Still nobody comes into a room unless, since that mts_join
\* began, there was a moment at which MTS did not ban them, one at which the
\* room did not, and one at which the room was open to them; only the maker of
\* a room comes in without mts_join.  It need not be one moment: a ban of MTS
\* written after the first SELECT and a ban of the room lifted before the
\* second let somebody in who was banned all the time.
Admitted ==
    [][\A u \in Callers : room'[u] \notin {0, room[u]} =>
            \/ room'[u] = nextId /\ nextId' = nextId + 1
            \/ \E t \in RoomThreads : job[t].pc = "set" /\ job[t].u = u /\ could[t] = AllGrounds]_roomvars

\* An id means one room: no two rooms have the same one, no room or caller
\* has one that next_room_id is still to give out, and a room that is open
\* will be there after a restart, unless mts.db refused it for its name.
Recoverable ==
    up => LET open == {i \in Slots : slots[i].active} IN
          /\ \A i, k \in open : slots[i].id = slots[k].id => i = k
          /\ \A i \in open : slots[i].id < nextId /\ slots[i].id \in DOMAIN db \cup unsaved
          /\ \A u \in Callers : room[u] < nextId

\* What holds of the rooms in every state, across stops and restarts: the
\* Lobby stands, and every open room has an id and a row of its own.
RoomsInv == RoomsTypeOK /\ LobbyStands /\ Recoverable

\* A room ends only when nobody in MTS is in it, or when a sysop closes it; or
\* when the room a sysop is closing has itself ended before, and left its slot
\* to this one.  The last is no promise: ClosesNamed.
Ending(i) == slots[i].active /\ ~(slots'[i].active /\ slots'[i].id = slots[i].id)
Open(r) == \E i \in Slots : slots[i].active /\ slots[i].id = r
Shuts(t) == job[t].pc = "shut" /\ job'[t].pc = "erase"
EndsEmpty ==
    [][up /\ up' => \A i \in Slots : Ending(i) =>
            \/ ~Occupied(slots[i].id)
            \/ \E t \in Callers : Shuts(t) /\ (job[t].r = slots[i].id \/ ~Open(job[t].r))]_roomvars

\* FEATURELIST.md: `close a room and move occupants to Lobby'.  /close ends
\* no room but the one whose occupants it has moved.
ClosesNamed ==
    [][\A t \in Callers : Shuts(t) => \A i \in Slots : Ending(i) => slots[i].id = job[t].r]_roomvars

\* FEATURELIST.md: `Temporary rooms disappear when empty.'  With no handler
\* under way, every temporary room has somebody in it.
TemporaryGone ==
    up /\ (\A t \in RoomThreads : job[t] = Idle) =>
        \A i \in Slots : slots[i].active /\ ~slots[i].permanent => Occupied(slots[i].id)
=============================================================================
