---------------------------- MODULE MtsDelivery -----------------------------
(***************************************************************************)
(* Presence and delivery in the Mutineer Teleconference System             *)
(* (plugins/chat).  Every caller in MTS is an instance mts_session_t that  *)
(* is run by the caller's own thread; console threads clean up instances   *)
(* of callers they disconnect.  Threads meet at three kinds of mutex:      *)
(* publish_mu, held for the whole of mts_publish; MTS.mu, for the list of  *)
(* sessions and the rooms; and one inbox_mu per instance.                  *)
(*                                                                         *)
(* A handler is a few assignments and a few calls that take these mutexes  *)
(* one after the other.  A thread's `script' is what its handler has still *)
(* to do; every action is one critical section, and takes the first entry  *)
(* of a script or starts a handler.                                        *)
(*                                                                         *)
(* Which rooms exist and who may enter them is left to the command: a      *)
(* move to a room may fail and then changes nothing.                       *)
(***************************************************************************)
EXTENDS Naturals, Sequences, FiniteSets

CONSTANTS
    Sessions,    \* instances, each created once
    Consoles,    \* threads that dispatch BBS_EVT_FORCED_DISCONNECT
    Users,       \* user ids
    User,        \* the user of each instance
    Sysops,      \* instances with the sysop flag
    Quiet,       \* instances with preferences `joins' and `actions' off
    Rooms,       \* room ids
    Lobby,       \* room id 1
    Closed,      \* the rooms that are private
    NoUser,      \* user id 0
    NoRoom,      \* room id 0
    NoThread,    \* publish_mu is free
    Capacity,    \* MTS_INBOX
    Batch,       \* events that flush() takes at a time
    MaxUsers,    \* cfg.max_users
    MaxReplied,  \* entries of afk_replied
    May,         \* bound: the commands that each thread enters
    MaxCommands  \* bound: commands entered

ASSUME PeopleAssumption ==
    User \in [Sessions -> Users] /\ NoUser \notin Users /\ Sysops \subseteq Sessions
ASSUME RoomsAssumption ==
    Lobby \in Rooms /\ NoRoom \notin Rooms /\ Closed \subseteq Rooms
ASSUME ThreadsAssumption ==
    Consoles \cap Sessions = {} /\ NoThread \notin Sessions \cup Consoles
ASSUME LimitsAssumption ==
    /\ Capacity \in Nat \ {0} /\ Batch \in Nat \ {0}
    /\ MaxUsers \in Nat /\ MaxReplied \in Nat /\ MaxCommands \in Nat
ASSUME MayAssumption == May \in [Sessions \cup Consoles -> SUBSET STRING]

Threads == Sessions \cup Consoles

VARIABLES
    pc,       \* where the thread of an instance is
    life,     \* s->lifecycle
    sessions, \* MTS.sessions[0 .. session_count - 1]
    room,     \* s->room_id
    watch,    \* s->watch_room
    watchall, \* s->watch_all
    afk,      \* s->afk
    replied,  \* s->afk_replied
    inbox,    \* s->inbox, oldest event first
    skipped,  \* s->skipped
    next,     \* MTS.next_sequence
    rel,      \* tables mts_blocks and mts_ignores: 0, or when the row was made
    mu,       \* the thread that holds MTS.publish_mu
    pub,      \* the mts_publish each thread is in
    script,   \* what each thread has still to do
    last,     \* history: sequence of the last event shown to the caller
    owed,     \* history: events put in the inbox and not yet shown or counted
    commands  \* commands entered so far

callers == <<pc, life, sessions, room, watch, watchall, afk>>
mail == <<inbox, skipped, last, owed>>
publishing == <<mu, pub>>
vars == <<callers, replied, mail, next, rel, publishing, script, commands>>

\* An event.  "room" is a public, directed or moderation event, "action" one
\* of /me, "presence" one that says who came and went, "private" MTS_PRIVATE, "auto"
\* MTS_AFK_RESPONSE, "all" an announcement, "notice" MTS_SYSTEM.
Kinds == {"room", "action", "presence", "private", "auto", "all", "notice"}
Event == [seq : Nat, kind : Kinds, by : Users \cup {NoUser}]

\* MTS_PRIVATE and MTS_AFK_RESPONSE go to a user and are never overwritten
\* by an event of their own kind.
Personal == {"private", "auto"}

\* An entry of a script: a call of mts_publish, or a critical section.
Ops == {"publish", "here", "clear", "join", "epoch", "announced", "silent", "remove", "exited", "destroy"}
Call == [op : Ops, of : Sessions, kind : Kinds, room : Rooms \cup {NoRoom}, to : Users \cup {NoUser}]
Publish(s, k, r, u) == [op |-> "publish", of |-> s, kind |-> k, room |-> r, to |-> u]
Step(o, s, r) == [op |-> o, of |-> s, kind |-> "notice", room |-> r, to |-> NoUser]
Speak(s, k) == [Step("here", s, NoRoom) EXCEPT !.kind = k]
Clear(s) == Step("clear", s, NoRoom)

\* A thread that is not in mts_publish.
Outside == [from |-> NoThread, event |-> [seq |-> 0, kind |-> "notice", by |-> NoUser],
            todo |-> {}, failed |-> FALSE, auto |-> {}]

Tables == {"blocks", "ignores"}

TypeOK ==
    /\ pc \in [Sessions -> {"none", "run", "exit", "gone"}]
    /\ life \in [Sessions -> {"created", "entered", "exiting", "exited", "destroyed"}]
    /\ sessions \subseteq Sessions /\ Cardinality(sessions) <= MaxUsers
    /\ room \in [Sessions -> Rooms \cup {NoRoom}]
    /\ watch \in [Sessions -> Rooms \cup {NoRoom}]
    /\ watchall \in [Sessions -> BOOLEAN]
    /\ afk \in [Sessions -> BOOLEAN]
    /\ replied \in [Sessions -> SUBSET Users]
    /\ inbox \in [Sessions -> Seq(Event)] /\ \A s \in Sessions : Len(inbox[s]) <= Capacity
    /\ skipped \in [Sessions -> Nat]
    /\ next \in Nat \ {0}
    /\ rel \in [Tables -> [Users \X Users -> Nat]]
    /\ mu \in Threads \cup {NoThread}
    /\ pub \in [Threads -> [from : Sessions \cup {NoThread}, event : Event, todo : SUBSET Sessions,
                            failed : BOOLEAN, auto : SUBSET Sessions]]
    /\ script \in [Threads -> Seq(Call)]
    /\ last \in [Sessions -> Nat]
    /\ owed \in [Sessions -> Nat]
    /\ commands \in 0 .. MaxCommands

Init ==
    /\ pc = [s \in Sessions |-> "none"]
    /\ life = [s \in Sessions |-> "created"]
    /\ sessions = {}
    /\ room = [s \in Sessions |-> NoRoom]
    /\ watch = [s \in Sessions |-> NoRoom]
    /\ watchall = [s \in Sessions |-> FALSE]
    /\ afk = [s \in Sessions |-> FALSE]
    /\ replied = [s \in Sessions |-> {}]
    /\ inbox = [s \in Sessions |-> <<>>]
    /\ skipped = [s \in Sessions |-> 0]
    /\ next = 1
    /\ rel = [t \in Tables |-> [p \in Users \X Users |-> 0]]
    /\ mu = NoThread
    /\ pub = [t \in Threads |-> Outside]
    /\ script = [t \in Threads |-> <<>>]
    /\ last = [s \in Sessions |-> 0]
    /\ owed = [s \in Sessions |-> 0]
    /\ commands = 0

-----------------------------------------------------------------------------
(* Scripts.                                                                *)

\* A thread is between two handlers.
Idle(t) == script[t] = <<>> /\ pub[t] = Outside

\* The next thing a thread does, outside mts_publish, is op.
Due(t, op) == script[t] # <<>> /\ pub[t] = Outside /\ Head(script[t]).op = op

\* It is done.
Done(t) == script' = [script EXCEPT ![t] = Tail(@)]

\* Bounds on what is entered.
Counted(t, name) ==
    /\ name \in May[t]
    /\ commands < MaxCommands
    /\ commands' = commands + 1

\* on_exit and destroy.
Farewell(s) == <<Step("announced", s, NoRoom), Step("destroy", s, NoRoom)>>

-----------------------------------------------------------------------------
(* Inboxes.                                                                *)

\* enqueue() of an event that may be overwritten: a full inbox loses its
\* oldest event.
Put(box, e) == Append(IF Len(box) = Capacity THEN Tail(box) ELSE box, e)

\* Does an event of this kind fit; only personal ones are turned away.
Fits(s, kind) == kind \notin Personal \/ Len(inbox[s]) < Capacity

\* Instance s gets event e; the memory of one that is gone is nobody's.
Enqueue(s, e) ==
    IF pc[s] = "gone" THEN UNCHANGED mail
    ELSE /\ inbox' = [inbox EXCEPT ![s] = Put(@, e)]
         /\ skipped' = [skipped EXCEPT ![s] = IF Len(inbox[s]) = Capacity THEN @ + 1 ELSE @]
         /\ owed' = [owed EXCEPT ![s] = @ + 1]
         /\ UNCHANGED last

-----------------------------------------------------------------------------
(* mts_publish.                                                            *)

\* Does instance s get an event of this kind, room and target.
Gets(s, kind, r, u) ==
    \/ kind = "all"
    \/ kind \in Personal /\ User[s] = u
    \/ kind \notin Personal /\ r \in {room[s], watch[s]}
    \/ kind \notin Personal /\ watchall[s] /\ s \in Sysops /\ r \notin Closed

\* The sender's room is read before the call waits for publish_mu.
Here(t) ==
    /\ Due(t, "here")
    /\ LET c == Head(script[t])
       IN script' = [script EXCEPT ![t] = <<Publish(c.of, c.kind, room[c.of], NoUser)>> \o Tail(@)]
    /\ UNCHANGED <<callers, replied, mail, next, rel, publishing, commands>>

\* Under MTS.mu the event gets its number and its recipients.
Numbered(t) ==
    /\ LET c == Head(script[t])
       IN pub' = [pub EXCEPT ![t] =
              [from |-> c.of, event |-> [seq |-> next, kind |-> c.kind, by |-> User[c.of]],
               todo |-> {s \in sessions : Gets(s, c.kind, c.room, c.to)},
               failed |-> FALSE, auto |-> {}]]
    /\ next' = next + 1
    /\ Done(t)
    /\ UNCHANGED <<callers, replied, mail, rel, commands>>

\* Mutant: mts_publish without publish_mu.
CollectUnlocked(t) ==
    /\ Due(t, "publish")
    /\ mu' = t
    /\ Numbered(t)

\* publish_mu is held from before the event is numbered until all recipients
\* have it.
Collect(t) ==
    /\ Due(t, "publish")
    /\ mu = NoThread
    /\ mu' = t
    /\ Numbered(t)

\* Mutant: private messages are left to the check in /msg.
FilteredRoomOnly(p, s) ==
    LET pair == <<User[s], p.event.by>>
    IN \/ p.event.kind \in {"presence", "action"} /\ s \in Quiet
       \/ s # p.from /\ p.event.kind \notin Personal /\ rel["blocks"][pair] # 0
       \/ s # p.from /\ p.event.kind \notin Personal /\ rel["ignores"][pair] # 0

\* The recipient does not want the event: preferences, block, ignore.
Filtered(p, s) ==
    LET pair == <<User[s], p.event.by>>
    IN \/ p.event.kind \in {"presence", "action"} /\ s \in Quiet
       \/ s # p.from /\ rel["blocks"][pair] # 0
       \/ s # p.from /\ p.event.kind \notin Personal /\ rel["ignores"][pair] # 0

\* The event goes to one of the recipients that were collected.
Deliver(t, s) ==
    LET p == pub[t]
        wanted == ~Filtered(p, s)
        answer == /\ wanted
                  /\ p.event.kind = "private" /\ afk[s]
                  /\ p.event.by \notin replied[s]
                  /\ Cardinality(replied[s]) < MaxReplied
    IN /\ s \in p.todo
       /\ replied' = [replied EXCEPT ![s] = IF answer THEN @ \cup {p.event.by} ELSE @]
       /\ pub' = [pub EXCEPT ![t] =
              [p EXCEPT !.todo = @ \ {s},
                        !.auto = IF answer THEN @ \cup {s} ELSE @,
                        !.failed = @ \/ (wanted /\ ~Fits(s, p.event.kind))]]
       /\ IF wanted /\ Fits(s, p.event.kind) THEN Enqueue(s, p.event) ELSE UNCHANGED mail
       /\ UNCHANGED <<callers, next, rel, mu, script, commands>>

\* Mutant: mts_publish returns without releasing publish_mu.
FinishKeepsLock(t) ==
    LET p == pub[t]
    IN /\ p # Outside /\ p.todo = {}
       /\ pub' = [pub EXCEPT ![t] = Outside]
       /\ UNCHANGED <<callers, replied, mail, next, rel, mu, script, commands>>

\* All recipients are served: the sender is told of a refusal, publish_mu is
\* released, and absent recipients answer.
Finish(t) ==
    LET p == pub[t]
    IN /\ p # Outside /\ p.todo = {}
       /\ IF p.failed
          THEN Enqueue(p.from, [p.event EXCEPT !.kind = "notice", !.by = NoUser])
          ELSE UNCHANGED mail
       /\ mu' = NoThread
       /\ pub' = [pub EXCEPT ![t] = Outside]
       /\ \E answers \in [1 .. Cardinality(p.auto) -> p.auto] :
              /\ \A s \in p.auto : \E i \in DOMAIN answers : answers[i] = s
              /\ script' = [script EXCEPT ![t] =
                     [i \in DOMAIN answers |-> Publish(answers[i], "auto", NoRoom, p.event.by)] \o @]
       /\ UNCHANGED <<callers, replied, next, rel, commands>>

\* flush(): the caller's thread takes a batch and the count of lost events.
Drain(s) ==
    LET n == IF Len(inbox[s]) < Batch THEN Len(inbox[s]) ELSE Batch
    IN /\ pc[s] = "run" /\ Idle(s)
       /\ n + skipped[s] > 0
       /\ inbox' = [inbox EXCEPT ![s] = SubSeq(@, n + 1, Len(@))]
       /\ last' = [last EXCEPT ![s] = IF n = 0 THEN @ ELSE inbox[s][n].seq]
       /\ owed' = [owed EXCEPT ![s] = @ - (n + skipped[s])]
       /\ skipped' = [skipped EXCEPT ![s] = 0]
       /\ UNCHANGED <<callers, replied, next, rel, publishing, script, commands>>

-----------------------------------------------------------------------------
(* Coming and going.                                                       *)

\* on_enter: the instance is registered and moves to its first room; whether
\* the room lets it in is found out by the join.
Enter(s) ==
    /\ pc[s] = "none" /\ Idle(s)
    /\ Cardinality(sessions) < MaxUsers
    /\ pc' = [pc EXCEPT ![s] = "run"]
    /\ life' = [life EXCEPT ![s] = "entered"]
    /\ sessions' = sessions \cup {s}
    /\ \E r \in Rooms : script' = [script EXCEPT ![s] = <<Step("join", s, r)>>]
    /\ UNCHANGED <<room, watch, watchall, afk, replied, mail, next, rel, publishing, commands>>

\* on_enter fails (restricted, banned, locked, full); on_exit and destroy are
\* called all the same.
EnterRefused(s) ==
    /\ pc[s] = "none" /\ Idle(s)
    /\ pc' = [pc EXCEPT ![s] = "exit"]
    /\ script' = [script EXCEPT ![s] = Farewell(s)]
    /\ UNCHANGED <<life, sessions, room, watch, watchall, afk, replied, mail, next, rel, publishing, commands>>

\* /quit, or readline reports a lost line; then on_exit and destroy.
Exit(s) ==
    /\ pc[s] = "run" /\ Idle(s) /\ Counted(s, "quit")
    /\ pc' = [pc EXCEPT ![s] = "exit"]
    /\ script' = [script EXCEPT ![s] = Farewell(s)]
    /\ UNCHANGED <<life, sessions, room, watch, watchall, afk, replied, mail, next, rel, publishing>>

\* BBS_EVT_FORCED_DISCONNECT from a console: the instance is looked up under
\* MTS.mu and cleaned up after it.
ForcedDisconnect(c, s) ==
    /\ Idle(c) /\ Counted(c, "disconnect")
    /\ s \in sessions
    /\ script' = [script EXCEPT ![c] = <<Step("silent", s, NoRoom)>>]
    /\ UNCHANGED <<callers, replied, mail, next, rel, publishing>>

\* mts_join.  A room that is closed to the caller, or is no more, changes
\* nothing and is the end of the handler.
Join(t) ==
    /\ Due(t, "join")
    /\ LET c == Head(script[t])
       IN \/ /\ room' = [room EXCEPT ![c.of] = c.room]
             /\ script' = [script EXCEPT ![t] =
                               <<Publish(c.of, "presence", c.room, NoUser)>> \o Tail(@)]
          \/ /\ script' = [script EXCEPT ![t] = <<>>]
             /\ UNCHANGED room
    /\ UNCHANGED <<pc, life, sessions, watch, watchall, afk, replied, mail, next, rel, publishing, commands>>

\* cleanup_instance: the first to come marks the instance, the others return.
\* One that comes to an instance that has been freed finds it as it was left.
Cleanup(t) ==
    /\ \E op \in {"announced", "silent"} : Due(t, op)
    /\ LET c == Head(script[t])
           s == c.of
           left == IF c.op = "announced" THEN <<Speak(s, "presence")>>
                   ELSE <<>>
       IN \/ /\ life[s] \in {"exiting", "exited", "destroyed"}
             /\ script' = [script EXCEPT ![t] = Tail(@)]
             /\ UNCHANGED <<life, watch, watchall>>
          \/ /\ life[s] = "entered"
             /\ life' = [life EXCEPT ![s] = "exiting"]
             /\ watch' = [watch EXCEPT ![s] = NoRoom]
             /\ watchall' = [watchall EXCEPT ![s] = FALSE]
             /\ script' = [script EXCEPT ![t] =
                    left \o <<Step("remove", s, NoRoom), Step("exited", s, NoRoom)>> \o Tail(@)]
          \/ /\ life[s] = "created"
             /\ life' = [life EXCEPT ![s] = "exited"]
             /\ script' = [script EXCEPT ![t] = Tail(@)]
             /\ UNCHANGED <<watch, watchall>>
    /\ UNCHANGED <<pc, sessions, room, afk, replied, mail, next, rel, publishing, commands>>

\* mts_leave takes the instance off the list.
Remove(t) ==
    /\ Due(t, "remove")
    /\ sessions' = sessions \ {Head(script[t]).of}
    /\ Done(t)
    /\ UNCHANGED <<pc, life, room, watch, watchall, afk, replied, mail, next, rel, publishing, commands>>

\* The end of cleanup_instance; what it writes to an instance that has been
\* freed is nobody's.
Exited(t) ==
    /\ Due(t, "exited")
    /\ LET s == Head(script[t]).of
       IN life' = [life EXCEPT ![s] = IF pc[s] = "gone" THEN @ ELSE "exited"]
    /\ Done(t)
    /\ UNCHANGED <<pc, sessions, room, watch, watchall, afk, replied, mail, next, rel, publishing, commands>>

\* destroy frees the instance; what its inbox still held is lost with it, and
\* what is left in its memory is nobody's.  on_exit has been in
\* cleanup_instance, so the call of it here returns at once, also while a
\* console is still inside and has the instance on the list.
Destroy(t) ==
    /\ Due(t, "destroy")
    /\ pc' = [pc EXCEPT ![t] = "gone"]
    /\ life' = [life EXCEPT ![t] = "destroyed"]
    /\ inbox' = [inbox EXCEPT ![t] = <<>>]
    /\ skipped' = [skipped EXCEPT ![t] = 0]
    /\ owed' = [owed EXCEPT ![t] = 0]
    /\ last' = [last EXCEPT ![t] = 0]
    /\ room' = [room EXCEPT ![t] = NoRoom]
    /\ afk' = [afk EXCEPT ![t] = FALSE]
    /\ replied' = [replied EXCEPT ![t] = {}]
    /\ Done(t)
    /\ UNCHANGED <<sessions, watch, watchall, next, rel, publishing, commands>>

-----------------------------------------------------------------------------
(* Commands.  Refusals for rate, mute, lock and authority change nothing.  *)

\* The thread of s reads a command.
Reads(s, name) ==
    /\ pc[s] = "run" /\ Idle(s)
    /\ Counted(s, name)

\* clear_afk: a caller who was away is back.
ClearAfk(t) ==
    /\ Due(t, "clear")
    /\ LET s == Head(script[t]).of
       IN /\ afk' = [afk EXCEPT ![s] = FALSE]
          /\ replied' = [replied EXCEPT ![s] = IF afk[s] THEN {} ELSE @]
          /\ script' = [script EXCEPT ![t] =
                 (IF afk[s] THEN <<Publish(s, "presence", room[s], NoUser)>> ELSE <<>>) \o Tail(@)]
    /\ UNCHANGED <<pc, life, sessions, room, watch, watchall, mail, next, rel, publishing, commands>>

\* The users who are in MTS, whom a command may name.
Present == {User[s] : s \in sessions}

\* A line of text, a directed line or an action in the caller's room.
Say(s) ==
    /\ Reads(s, "say")
    /\ \E k \in {"room", "action"} : script' = [script EXCEPT ![s] = <<Clear(s), Speak(s, k)>>]
    /\ UNCHANGED <<callers, replied, mail, next, rel, publishing>>

\* /msg: refused when the user has blocked the caller.
Msg(s, u) ==
    /\ Reads(s, "msg")
    /\ u \in Present /\ rel["blocks"][<<u, User[s]>>] = 0
    /\ script' = [script EXCEPT ![s] = <<Clear(s), Publish(s, "private", NoRoom, u)>>]
    /\ UNCHANGED <<callers, replied, mail, next, rel, publishing>>

\* Private messages that look for no block: the notes of /chat, /accept,
\* /decline and /invite, focused chat, and /reply.
Whisper(s, u) ==
    /\ Reads(s, "whisper")
    /\ u \in Present
    /\ LET note == Publish(s, "private", NoRoom, u)
       IN \/ script' = [script EXCEPT ![s] = <<note>>]
          \/ script' = [script EXCEPT ![s] = <<Clear(s), note>>]
          \/ script' = [script EXCEPT ![s] = <<note, Clear(s)>>]
    /\ UNCHANGED <<callers, replied, mail, next, rel, publishing>>

\* /announce.
Announce(s) ==
    /\ Reads(s, "announce")
    /\ s \in Sysops
    /\ script' = [script EXCEPT ![s] = <<Publish(s, "all", NoRoom, NoUser)>>]
    /\ UNCHANGED <<callers, replied, mail, next, rel, publishing>>

\* /afk flips the flag, and forgets whom it has answered afterwards.
Afk(s) ==
    /\ Reads(s, "afk")
    /\ afk' = [afk EXCEPT ![s] = ~@]
    /\ script' = [script EXCEPT ![s] = <<Step("epoch", s, NoRoom)>>]
    /\ UNCHANGED <<pc, life, sessions, room, watch, watchall, replied, mail, next, rel, publishing>>

Epoch(t) ==
    /\ Due(t, "epoch")
    /\ replied' = [replied EXCEPT ![Head(script[t]).of] = {}]
    /\ Done(t)
    /\ UNCHANGED <<callers, mail, next, rel, publishing, commands>>

\* /ignore, /unignore, /block and /unblock; a row that is there stays as it is.
Relate(s, u) ==
    /\ Reads(s, "relate")
    /\ u \in Present
    /\ \E t \in Tables : \E when \in {0, next} :
           rel' = [rel EXCEPT ![t][<<User[s], u>>] = IF when # 0 /\ @ # 0 THEN @ ELSE when]
    /\ UNCHANGED <<callers, replied, mail, next, publishing, script>>

\* /watch and /unwatch.
Watch(s) ==
    /\ Reads(s, "watch")
    /\ \/ /\ s \in Sysops
          /\ watchall' = [watchall EXCEPT ![s] = TRUE]
          /\ watch' = [watch EXCEPT ![s] = NoRoom]
       \/ /\ \E r \in Rooms \ Closed : watch' = [watch EXCEPT ![s] = r]
          /\ UNCHANGED watchall
       \/ /\ watchall' = [watchall EXCEPT ![s] = FALSE]
          /\ watch' = [watch EXCEPT ![s] = NoRoom]
    /\ UNCHANGED <<pc, life, sessions, room, afk, replied, mail, next, rel, publishing, script>>

\* /join tells the new room first and the old one when it is done; /leave
\* tells the old room and goes to the Lobby.
Move(s) ==
    /\ Reads(s, "move")
    /\ \/ \E r \in Rooms :
              script' = [script EXCEPT ![s] = <<Step("join", s, r), Publish(s, "presence", room[s], NoUser)>>]
       \/ /\ room[s] # Lobby
          /\ script' = [script EXCEPT ![s] = <<Publish(s, "presence", room[s], NoUser), Step("join", s, Lobby)>>]
    /\ UNCHANGED <<callers, replied, mail, next, rel, publishing>>

\* /kick and /ban by a moderator, in the name of the user it is about.
Kick(s, u) ==
    /\ Reads(s, "kick")
    /\ u \in sessions
    /\ script' = [script EXCEPT ![s] =
           <<Speak(u, "room"), Step("join", u, Lobby)>>]
    /\ UNCHANGED <<callers, replied, mail, next, rel, publishing>>

-----------------------------------------------------------------------------
Command(s) ==
    \/ Say(s) \/ Announce(s) \/ Afk(s) \/ Watch(s) \/ Move(s)
    \/ \E u \in Users : Msg(s, u) \/ Whisper(s, u) \/ Relate(s, u)
    \/ \E u \in Sessions : Kick(s, u)

\* A thread goes on with its handler.
Proceed(t) ==
    \/ Here(t) \/ Collect(t) \/ Finish(t) \/ Join(t) \/ ClearAfk(t) \/ Epoch(t)
    \/ Cleanup(t) \/ Remove(t) \/ Exited(t) \/ Destroy(t)
    \/ \E s \in Sessions : Deliver(t, s)

Next ==
    \/ \E t \in Threads : Proceed(t)
    \/ \E s \in Sessions : Enter(s) \/ EnterRefused(s) \/ Exit(s) \/ Drain(s) \/ Command(s)
    \/ \E c \in Consoles, s \in Sessions : ForcedDisconnect(c, s)

\* A thread inside a handler runs on; when a caller types is the caller's
\* affair.
Fairness == \A t \in Threads : WF_vars(Proceed(t))

Spec == Init /\ [][Next]_vars /\ Fairness

-----------------------------------------------------------------------------
(* Properties.                                                             *)

\* Thread t is inside cleanup_instance(s), past the test of s->lifecycle.
CleansUp(t, s) == \E i \in 1 .. Len(script[t]) : script[t][i].op = "exited" /\ script[t][i].of = s

\* A caller sees events in the order of their numbers, across batches: numbers
\* are given out under MTS.mu but put in the inboxes later, and only publish_mu
\* keeps two senders from overtaking each other.  The number of a refused
\* message is used twice, for the notice to its sender.
InboxOrdered ==
    \A s \in Sessions : \A i \in 1 .. Len(inbox[s]) :
        /\ inbox[s][i].seq >= last[s]
        /\ \A j \in 1 .. i - 1 :
               \/ inbox[s][j].seq < inbox[s][i].seq
               \/ inbox[s][j].seq = inbox[s][i].seq /\ inbox[s][i].kind = "notice"

\* Every event that enqueue() accepted for a caller is waiting, has been shown,
\* or is in the number the skipped-message notice will report.
Accounted == \A s \in Sessions : pc[s] # "gone" => owed[s] = Len(inbox[s]) + skipped[s]

\* MTS.sessions lists an instance once it is entered, until the clean-up that
\* a quit, a lost line and a disconnecting console all may try is through.
\* One of them alone carries it out, and what is on the list though no longer
\* entered, or even freed by its own thread, is in the hands of that one.
PresenceExact ==
    \A s \in Sessions :
        /\ life[s] = "entered" => s \in sessions
        /\ s \in sessions => life[s] = "entered" \/ \E t \in Threads : CleansUp(t, s)
        /\ \A t1, t2 \in Threads : CleansUp(t1, s) /\ CleansUp(t2, s) => t1 = t2

\* What is on the list is there to be written to ("dependable concurrent
\* cleanup", plugins/chat/MTS_IMPLEMENTATION_PLAN.md:11).  The code does not
\* keep this: while a console is between marking an instance and taking it
\* off the list, the caller's own on_exit and destroy return at once and free
\* it, and the next event of the room is put in its inbox.
ListedAlive == \A s \in sessions : pc[s] # "gone"

\* What holds of inboxes and of the list of sessions in every state: events
\* wait in order, each is accounted for, and the list is exact.
InboxInv == TypeOK /\ InboxOrdered /\ Accounted /\ PresenceExact

\* Nothing numbered after a block was made reaches the user who made it from
\* the blocked one, whichever command sent it.
BlockHonoured ==
    \A s \in Sessions : \A i \in 1 .. Len(inbox[s]) :
        LET made == rel["blocks"][<<User[s], inbox[s][i].by>>]
        IN /\ inbox[s][i].by # NoUser /\ inbox[s][i].by # User[s] /\ made # 0
           => inbox[s][i].seq < made

\* An instance whose clean-up has begun is off the list in the end, however
\* many senders hold publish_mu before it.
Departs == \A s \in Sessions : life[s] = "exiting" ~> s \notin sessions

\* A personal message in an inbox is taken out by its owner's flush(), never
\* by another event (docs/mts.md, "Privacy and moderation").
PrivateKept ==
    [][\A s \in Sessions : \A i \in 1 .. Len(inbox[s]) :
          inbox[s][i].kind \in Personal /\ pc'[s] = "run" =>
              \/ last'[s] >= inbox[s][i].seq
              \/ \E j \in 1 .. Len(inbox'[s]) : inbox'[s][j] = inbox[s][i]]_vars
=============================================================================
