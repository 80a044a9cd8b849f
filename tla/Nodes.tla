------------------------------- MODULE Nodes --------------------------------
(***************************************************************************)
(* The node life cycle of the mutineer daemon: the listener admits a       *)
(* caller, a detached worker thread registers in the online registry,      *)
(* logs a user in, runs the menu loop and cleans up, while remote console  *)
(* clients kick and lock nodes, the door janitor reconciles the `nodes'    *)
(* table, and main() stops the process or the process dies.                *)
(*                                                                         *)
(* Every action is one critical section, one SQL statement or one          *)
(* thread-local stretch of code between two of them, so the interleavings  *)
(* of the model are the interleavings of the locks and of the database.    *)
(*                                                                         *)
(* A Session is the address calloc() returned: it is reused after free(),  *)
(* even by a thread that starts before the one that freed it has called    *)
(* session_release().                                                      *)
(***************************************************************************)
EXTENDS Integers, FiniteSets

CONSTANTS
    Sessions,        \* addresses of Session objects
    Users,           \* accounts
    Consoles,        \* authenticated remote console clients
    Aimed,           \* bound: the node numbers that console and tools name
    Tools,           \* other processes that use bbslib on the same database
    JanitorRuns,     \* cfg.door_janitor_interval_sec > 0
    MaxOnline,       \* MAX_ONLINE: slots of g_online
    AllowMultiLogin, \* cfg.allow_multi_login
    IdleLimit,       \* cfg.idle_timeout_sec > 0
    MaxCommands,     \* bound: commands that one pass of the scheduler runs
    MaxHalts,        \* bound: how often the process may end
    NoSession,       \* NULL in g_online
    NoUser,          \* user id 0, NULL in nodes.user_id
    NoRow            \* no row in table nodes for this node number

Node == 1 .. MaxOnline

ASSUME SlotsAssumption == MaxOnline \in Nat \ {0}
ASSUME SessionsAssumption == IsFiniteSet(Sessions) /\ NoSession \notin Sessions
ASSUME UsersAssumption == NoUser \notin Users
ASSUME ConfigAssumption ==
    /\ Aimed \subseteq Node /\ MaxHalts \in Nat /\ MaxCommands \in Nat
    /\ {AllowMultiLogin, JanitorRuns, IdleLimit} \subseteq BOOLEAN

\* "online" and "chat" are written with a user id; "idle" stands for every
\* status written without one ("logging_in", "kicked", "locked", "idle",
\* "offline"), which no reader of the table tells apart.
Status == {"online", "chat", "idle"}

Row == [user : Users \cup {NoUser}, status : Status]

VARIABLES
    main,      \* where main() and net_run_listener() are
    stop,      \* g_stop
    halts,     \* how often the process has ended (bounded by MaxHalts)
    sched,     \* commands that the scheduler's pass has still to run to their end
    admitted,  \* g_admitted_sessions
    releasing, \* workers that freed their Session, not yet in session_release
    pc,        \* where the worker that owns a Session is
    node,      \* s->node_num
    alive,     \* s->alive
    shut,      \* sessions whose socket online_shutdown_and_wait has shut down
    user,      \* s->user.id
    login,     \* current_user of session_thread_main
    online,    \* g_online
    locked,    \* g_node_locked
    rows,      \* table nodes
    locks,     \* table of persistent node locks
    cons,      \* what each console client has in progress
    janTodo,   \* door janitor: listed rows it has still to look at
    janHit     \* door janitor: the node it is about to mark offline, or 0

listenVars  == <<main, stop, halts, sched>>
admitVars   == <<admitted, releasing>>
threadVars  == <<pc, node, alive, shut, user, login>>
registry    == <<online, locked>>
tables      == <<rows, locks>>
janitorVars == <<janTodo, janHit>>

vars == <<main, stop, halts, sched, admitted, releasing, pc, node, alive, shut, user, login,
          online, locked, rows, locks, cons, janTodo, janHit>>

-----------------------------------------------------------------------------
(* Worker positions.                                                       *)

\* Between online_add() and the cleanup label: the user may be told apart
\* from the registry only by its slot.
Seated == {"added", "auth", "check", "enter", "logon", "menu", "post", "read", "away", "program",
           "chat", "chatread"}

\* A session whose user is set, up to the end of the menu loop.
LoggedIn == {"logon", "menu", "post", "read", "away", "program", "chat", "chatread"}

\* A worker owns the Session object.
Busy == {s \in Sessions : pc[s] # "free"}

\* The positions in which a session that got a slot still holds it.
Holds(s) == pc[s] \in Seated \cup {"leave"} /\ node[s] # 0

Idle == [op |-> "idle", node |-> 0]

ConsoleState ==
    [op : {"idle", "lock", "unlock", "row"}, node : 0 .. MaxOnline]

Init ==
    /\ main = "listen"
    /\ stop = FALSE
    /\ halts = 0
    /\ sched = 0
    /\ admitted = 0
    /\ releasing = 0
    /\ pc = [s \in Sessions |-> "free"]
    /\ node = [s \in Sessions |-> 0]
    /\ alive = [s \in Sessions |-> FALSE]
    /\ shut = {}
    /\ user = [s \in Sessions |-> NoUser]
    /\ login = [s \in Sessions |-> NoUser]
    /\ online = [n \in Node |-> NoSession]
    /\ locked = [n \in Node |-> FALSE]
    /\ rows = [n \in Node |-> NoRow]
    /\ locks = [n \in Node |-> FALSE]
    /\ cons = [c \in Consoles |-> Idle]
    /\ janTodo = {}
    /\ janHit = 0

-----------------------------------------------------------------------------
(* Database statements.                                                    *)

\* db_node_upsert: INSERT ... ON CONFLICT(node_num) DO UPDATE; a user id that
\* is not positive is stored as NULL.
db_node_upsert(n, u, st) == rows' = [rows EXCEPT ![n] = [user |-> u, status |-> st]]

\* db_node_clear: DELETE FROM nodes WHERE node_num = ?; number 0 has no row.
db_node_clear(n) == rows' = [m \in Node |-> IF m = n THEN NoRow ELSE rows[m]]

\* db_node_user_online: some row carries the user id, whatever its status.
db_node_user_online(u) == \E n \in Node : rows[n] # NoRow /\ rows[n].user = u

\* db_node_lock_set: INSERT OR REPLACE / DELETE in the lock table.
db_node_lock_set(n, b) == locks' = [locks EXCEPT ![n] = b]

-----------------------------------------------------------------------------
(* The listener: net_run_listener, called from main().                     *)

\* Top of the accept loop: leave it when g_stop is set, otherwise wait for a
\* connection.
ListenTop ==
    /\ main = "listen"
    /\ main' = IF stop THEN "sweep" ELSE "accept"
    /\ UNCHANGED <<stop, halts, sched, admitVars, threadVars, registry, tables, cons, janitorVars>>

\* select() timed out or was interrupted, accept() failed, or session_admit()
\* refused the caller because every node is taken.
ListenNone ==
    /\ main = "accept"
    /\ main' = "listen"
    /\ UNCHANGED <<stop, halts, sched, admitVars, threadVars, registry, tables, cons, janitorVars>>

\* Mutant: the limit is off by one.
SessionAdmitOneMore ==
    /\ main = "accept"
    /\ admitted <= MaxOnline
    /\ admitted' = admitted + 1
    /\ main' = "spawn"
    /\ UNCHANGED <<stop, halts, sched, releasing, threadVars, registry, tables, cons, janitorVars>>

\* session_admit() for a connection that was accepted.
SessionAdmit ==
    /\ main = "accept"
    /\ admitted < MaxOnline
    /\ admitted' = admitted + 1
    /\ main' = "spawn"
    /\ UNCHANGED <<stop, halts, sched, releasing, threadVars, registry, tables, cons, janitorVars>>

\* calloc, db_open and pthread_create succeed; the worker is detached.
Spawn(s) ==
    /\ main = "spawn"
    /\ pc[s] = "free"
    /\ pc' = [pc EXCEPT ![s] = "start"]
    /\ alive' = [alive EXCEPT ![s] = TRUE]
    /\ node' = [node EXCEPT ![s] = 0]
    /\ user' = [user EXCEPT ![s] = NoUser]
    /\ login' = [login EXCEPT ![s] = NoUser]
    /\ main' = "listen"
    /\ UNCHANGED <<stop, halts, sched, admitVars, shut, registry, tables, cons, janitorVars>>

\* Mutant: the failure path forgets session_release().
SpawnFailLeaks ==
    /\ main = "spawn"
    /\ main' = "listen"
    /\ UNCHANGED <<stop, halts, sched, admitVars, threadVars, registry, tables, cons, janitorVars>>

\* One of the three failed: session_release(), close, next iteration.
SpawnFail ==
    /\ main = "spawn"
    /\ admitted' = IF admitted > 0 THEN admitted - 1 ELSE admitted
    /\ main' = "listen"
    /\ UNCHANGED <<stop, halts, sched, releasing, threadVars, registry, tables, cons, janitorVars>>

-----------------------------------------------------------------------------
(* The worker: session_thread_main.                                        *)

FreeSlots == {n \in Node : online[n] = NoSession /\ ~locked[n]}

\* online_add takes the lowest slot that is neither taken nor locked.
OnlineAdd(s) ==
    /\ pc[s] = "start"
    /\ \E n \in FreeSlots :
           /\ \A k \in FreeSlots : n <= k
           /\ online' = [online EXCEPT ![n] = s]
           /\ node' = [node EXCEPT ![s] = n]
    /\ pc' = [pc EXCEPT ![s] = "added"]
    /\ UNCHANGED <<listenVars, admitVars, alive, shut, user, login, locked, tables, cons, janitorVars>>

\* online_add found no slot: "All nodes are busy or locked", goto cleanup.
OnlineAddFail(s) ==
    /\ pc[s] = "start"
    /\ FreeSlots = {}
    /\ pc' = [pc EXCEPT ![s] = "leave"]
    /\ UNCHANGED <<listenVars, admitVars, node, alive, shut, user, login, registry, tables, cons, janitorVars>>

\* The row of the node shows that somebody is logging in.
MarkLoggingIn(s) ==
    /\ pc[s] = "added"
    /\ db_node_upsert(node[s], NoUser, "idle")
    /\ pc' = [pc EXCEPT ![s] = "auth"]
    /\ UNCHANGED <<listenVars, admitVars, node, alive, shut, user, login, registry, locks, cons, janitorVars>>

\* Telnet negotiation, ANSI detection and authenticate() succeed for a user.
\* Neither looks at s->alive or g_stop.
Authenticate(s, u) ==
    /\ pc[s] = "auth"
    /\ login' = [login EXCEPT ![s] = u]
    /\ pc' = [pc EXCEPT ![s] = "check"]
    /\ UNCHANGED <<listenVars, admitVars, node, alive, shut, user, registry, tables, cons, janitorVars>>

\* detect_ansi or authenticate fail, time out or lose the connection.
AuthenticateFail(s) ==
    /\ pc[s] = "auth"
    /\ pc' = [pc EXCEPT ![s] = "leave"]
    /\ UNCHANGED <<listenVars, admitVars, node, alive, shut, user, login, registry, tables, cons, janitorVars>>

\* Multi-login check, then the daily call limit (which may refuse anyone).
AdmitUser(s) ==
    /\ pc[s] = "check"
    /\ \/ /\ AllowMultiLogin \/ ~db_node_user_online(login[s])
          /\ pc' = [pc EXCEPT ![s] = "enter"]
       \/ pc' = [pc EXCEPT ![s] = "leave"]
    /\ UNCHANGED <<listenVars, admitVars, node, alive, shut, user, login, registry, tables, cons, janitorVars>>

\* s->user is set and the row names the user; the call log is opened.
EnterMenu(s) ==
    /\ pc[s] = "enter"
    /\ user' = [user EXCEPT ![s] = login[s]]
    /\ db_node_upsert(node[s], login[s], "online")
    /\ pc' = [pc EXCEPT ![s] = "logon"]
    /\ UNCHANGED <<listenVars, admitVars, node, alive, shut, login, registry, locks, cons, janitorVars>>

\* The commands of the logon events have ended (they have no time limit, and
\* nobody tells them that the caller is gone) and the plugins' login event has
\* run; the menu is loaded, and a failure to load it clears s->alive.
LogonDone(s) ==
    /\ pc[s] = "logon"
    /\ \E loaded \in BOOLEAN : alive' = [alive EXCEPT ![s] = @ /\ loaded]
    /\ pc' = [pc EXCEPT ![s] = "menu"]
    /\ UNCHANGED <<listenVars, admitVars, node, shut, user, login, registry, tables, cons, janitorVars>>

\* Top of the menu loop: s->alive, g_stop, and the time limit (which may end
\* any session).
MenuTop(s) ==
    /\ pc[s] = "menu"
    /\ \/ /\ alive[s] /\ ~stop
          /\ pc' = [pc EXCEPT ![s] = "post"]
       \/ pc' = [pc EXCEPT ![s] = "leave"]
    /\ UNCHANGED <<listenVars, admitVars, node, alive, shut, user, login, registry, tables, cons, janitorVars>>

\* Each iteration rewrites the row before it renders the menu.
MenuPost(s) ==
    /\ pc[s] = "post"
    /\ db_node_upsert(node[s], user[s], "online")
    /\ pc' = [pc EXCEPT ![s] = "read"]
    /\ UNCHANGED <<listenVars, admitVars, node, alive, shut, user, login, registry, locks, cons, janitorVars>>

\* session_readline returned and a command that leaves this state alone ran;
\* or the caller was idle too long, hung up or lost the socket.
MenuRead(s) ==
    /\ pc[s] = "read"
    /\ \E next \in {"menu", "leave"} : pc' = [pc EXCEPT ![s] = next]
    /\ UNCHANGED <<listenVars, admitVars, node, alive, shut, user, login, registry, tables, cons, janitorVars>>

\* A command begins that looks at the caller's connection, not at s->alive or
\* g_stop: the full-screen editor, a native door, a transfer program. Doors
\* and transfers show themselves in the row.
Occupy(s) ==
    /\ pc[s] = "read"
    /\ pc' = [pc EXCEPT ![s] = "away"]
    /\ db_node_upsert(node[s], user[s], "online") \/ UNCHANGED rows
    /\ UNCHANGED <<listenVars, admitVars, node, alive, shut, user, login, registry, locks, cons, janitorVars>>

\* A DOSBox door begins: its supervision loop looks at neither.
Dosbox(s) ==
    /\ pc[s] = "read"
    /\ pc' = [pc EXCEPT ![s] = "program"]
    /\ db_node_upsert(node[s], user[s], "online")
    /\ UNCHANGED <<listenVars, admitVars, node, alive, shut, user, login, registry, locks, cons, janitorVars>>

\* The text is saved or given up, the program has ended, its time is up, or
\* (not for DOSBox) the connection is gone.
Return(s) ==
    /\ pc[s] \in {"away", "program"}
    /\ pc' = [pc EXCEPT ![s] = "menu"]
    /\ \/ db_node_upsert(node[s], user[s], "online")
       \/ pc[s] = "away" /\ UNCHANGED rows
    /\ UNCHANGED <<listenVars, admitVars, node, alive, shut, user, login, registry, locks, cons, janitorVars>>

\* The logout command of bbs_handle_action.
Logout(s) ==
    /\ pc[s] = "read"
    /\ alive' = [alive EXCEPT ![s] = FALSE]
    /\ pc' = [pc EXCEPT ![s] = "menu"]
    /\ UNCHANGED <<listenVars, admitVars, node, shut, user, login, registry, tables, cons, janitorVars>>

\* F3 and F8 in a sysop's session: online_mark_node_dead on another node.
\* The row of the node is left alone.
FKeyKick(s, n) ==
    /\ pc[s] = "read"
    /\ online[n] \notin {NoSession, s}
    /\ alive' = [alive EXCEPT ![online[n]] = FALSE]
    /\ pc' = [pc EXCEPT ![s] = "menu"]
    /\ UNCHANGED <<listenVars, admitVars, node, shut, user, login, registry, tables, cons, janitorVars>>

\* The chat commands run a loop of their own that tests s->alive and g_stop
\* and shows status "chat" in the row.
ChatEnter(s) ==
    /\ pc[s] = "read"
    /\ pc' = [pc EXCEPT ![s] = "chat"]
    /\ UNCHANGED <<listenVars, admitVars, node, alive, shut, user, login, registry, tables, cons, janitorVars>>


ChatTop(s) ==
    /\ pc[s] = "chat"
    /\ IF alive[s] /\ ~stop
       THEN /\ db_node_upsert(node[s], user[s], "chat")
            /\ pc' = [pc EXCEPT ![s] = "chatread"]
       ELSE /\ pc' = [pc EXCEPT ![s] = "menu"]
            /\ UNCHANGED rows
    /\ UNCHANGED <<listenVars, admitVars, node, alive, shut, user, login, registry, locks, cons, janitorVars>>

\* A line was posted, or /quit, an empty line, a timeout or a lost peer ends
\* the chat. All of them go back through the tests of a loop.
ChatRead(s) ==
    /\ pc[s] = "chatread"
    /\ \E next \in {"chat", "menu"} : pc' = [pc EXCEPT ![s] = next]
    /\ UNCHANGED <<listenVars, admitVars, node, alive, shut, user, login, registry, tables, cons, janitorVars>>

\* Mutant: a kicked session expects the one who kicked it to free its slot.
OnlineRemoveIfAlive(s) ==
    /\ pc[s] = "leave"
    /\ online' = [n \in Node |-> IF online[n] = s /\ alive[s] THEN NoSession ELSE online[n]]
    /\ pc' = [pc EXCEPT ![s] = "clear"]
    /\ UNCHANGED <<listenVars, admitVars, node, alive, shut, user, login, locked, tables, cons, janitorVars>>

\* cleanup: the plugins' logout event, the call log, then online_remove, which
\* looks for the pointer in every slot.
OnlineRemove(s) ==
    /\ pc[s] = "leave"
    /\ online' = [n \in Node |-> IF online[n] = s THEN NoSession ELSE online[n]]
    /\ pc' = [pc EXCEPT ![s] = "clear"]
    /\ UNCHANGED <<listenVars, admitVars, node, alive, shut, user, login, locked, tables, cons, janitorVars>>

\* Mutant: the row is left to the janitor.
ClearRowSkipped(s) ==
    /\ pc[s] = "clear"
    /\ pc' = [pc EXCEPT ![s] = "close"]
    /\ UNCHANGED <<listenVars, admitVars, node, alive, shut, user, login, registry, tables, cons, janitorVars>>

\* cleanup: the row of the node number is deleted, whoever holds the slot now.
ClearRow(s) ==
    /\ pc[s] = "clear"
    /\ db_node_clear(node[s])
    /\ pc' = [pc EXCEPT ![s] = "close"]
    /\ UNCHANGED <<listenVars, admitVars, node, alive, shut, user, login, registry, locks, cons, janitorVars>>

\* cleanup: close the database and the socket, free(s). The fields of a freed
\* Session are garbage, here the values calloc() will give them.
FreeSession(s) ==
    /\ pc[s] = "close"
    /\ pc' = [pc EXCEPT ![s] = "free"]
    /\ alive' = [alive EXCEPT ![s] = FALSE]
    /\ node' = [node EXCEPT ![s] = 0]
    /\ user' = [user EXCEPT ![s] = NoUser]
    /\ login' = [login EXCEPT ![s] = NoUser]
    /\ shut' = shut \ {s}
    /\ releasing' = releasing + 1
    /\ UNCHANGED <<listenVars, admitted, registry, tables, cons, janitorVars>>

\* admitted_session_main: session_release() after the worker has returned.
SessionRelease ==
    /\ releasing > 0
    /\ releasing' = releasing - 1
    /\ admitted' = IF admitted > 0 THEN admitted - 1 ELSE admitted
    /\ UNCHANGED <<listenVars, threadVars, registry, tables, cons, janitorVars>>

Worker(s) ==
    \/ OnlineAdd(s) \/ OnlineAddFail(s) \/ MarkLoggingIn(s)
    \/ (\E u \in Users : Authenticate(s, u)) \/ AuthenticateFail(s)
    \/ AdmitUser(s) \/ EnterMenu(s) \/ LogonDone(s)
    \/ MenuTop(s) \/ MenuPost(s) \/ MenuRead(s) \/ Logout(s)
    \/ Occupy(s) \/ Dosbox(s) \/ Return(s)
    \/ (\E n \in Node : FKeyKick(s, n))
    \/ ChatEnter(s) \/ ChatTop(s) \/ ChatRead(s)
    \/ OnlineRemove(s) \/ ClearRow(s) \/ FreeSession(s)

-----------------------------------------------------------------------------
(* The remote console: handle_command in a thread per client.              *)

\* node.kick: online_mark_node_dead under the registry's mutex, then the row.
ConsoleKick(c, n) ==
    /\ main # "down"
    /\ cons[c] = Idle
    /\ online[n] # NoSession
    /\ alive' = [alive EXCEPT ![online[n]] = FALSE]
    /\ cons' = [cons EXCEPT ![c] = [op |-> "row", node |-> n]]
    /\ UNCHANGED <<listenVars, admitVars, pc, node, shut, user, login, registry, tables, janitorVars>>

\* Mutant: node number 0, the fallback of a missing argument, is accepted.
ConsoleLockAny(c, n, b) ==
    /\ main # "down"
    /\ cons[c] = Idle
    /\ locked' = [locked EXCEPT ![n] = b]
    /\ cons' = [cons EXCEPT ![c] = [op |-> IF b THEN "lock" ELSE "unlock", node |-> n - 1]]
    /\ UNCHANGED <<listenVars, admitVars, threadVars, online, tables, janitorVars>>

\* node.lock and node.unlock: first the flag in memory ...
ConsoleLock(c, n, b) ==
    /\ main # "down"
    /\ cons[c] = Idle
    /\ locked' = [locked EXCEPT ![n] = b]
    /\ cons' = [cons EXCEPT ![c] = [op |-> IF b THEN "lock" ELSE "unlock", node |-> n]]
    /\ UNCHANGED <<listenVars, admitVars, threadVars, online, tables, janitorVars>>

\* ... then the persistent lock (an error is reported and ends the command), then
\* the row.
ConsoleLockSave(c) ==
    /\ cons[c].op \in {"lock", "unlock"}
    /\ \/ /\ db_node_lock_set(cons[c].node, cons[c].op = "lock")
          /\ cons' = [cons EXCEPT ![c] = [op |-> "row", node |-> cons[c].node]]
       \/ /\ cons' = [cons EXCEPT ![c] = Idle]
          /\ UNCHANGED locks
    /\ UNCHANGED <<listenVars, admitVars, threadVars, registry, rows, janitorVars>>

\* The last step of node.kick ("kicked"), node.lock ("locked") and node.unlock
\* ("idle"): the row of the node, without the registry's mutex and whether or
\* not a session is on it.
ConsoleRow(c) ==
    /\ cons[c].op = "row"
    /\ db_node_upsert(cons[c].node, NoUser, "idle")
    /\ cons' = [cons EXCEPT ![c] = Idle]
    /\ UNCHANGED <<listenVars, admitVars, threadVars, registry, locks, janitorVars>>

\* bbslib_node_lock_set in another process: only the persistent lock.
BbslibLock(t, n, b) ==
    /\ locks[n] # b
    /\ db_node_lock_set(n, b)
    /\ UNCHANGED <<listenVars, admitVars, threadVars, registry, rows, cons, janitorVars>>

ConsoleFinish(c) == ConsoleLockSave(c) \/ ConsoleRow(c)

Console(c) ==
    \/ \E n \in Aimed : ConsoleKick(c, n)
    \/ \E n \in Aimed, b \in BOOLEAN : ConsoleLock(c, n, b)
    \/ ConsoleFinish(c)

-----------------------------------------------------------------------------
(* The door janitor: the node part of door_janitor_run_once.               *)

\* db_node_list, then the loop over the copy.
JanitorList ==
    /\ JanitorRuns /\ main # "down"
    /\ janTodo = {} /\ janHit = 0
    /\ janTodo' = {n \in Node : rows[n] # NoRow /\ rows[n].status = "online"}
    /\ janTodo' # {}
    /\ UNCHANGED <<listenVars, admitVars, threadVars, registry, tables, cons, janHit>>

\* Mutant: the janitor looks one slot too far.
JanitorLookNext ==
    /\ janHit = 0
    /\ \E n \in janTodo :
           /\ \A k \in janTodo : n <= k
           /\ janTodo' = janTodo \ {n}
           /\ janHit' = IF n < MaxOnline /\ online[n + 1] = NoSession THEN n ELSE 0
    /\ UNCHANGED <<listenVars, admitVars, threadVars, registry, tables, cons>>

\* online_get_node of the next listed node.
JanitorLook ==
    /\ janHit = 0
    /\ \E n \in janTodo :
           /\ \A k \in janTodo : n <= k
           /\ janTodo' = janTodo \ {n}
           /\ janHit' = IF online[n] = NoSession THEN n ELSE 0
    /\ UNCHANGED <<listenVars, admitVars, threadVars, registry, tables, cons>>

\* The row is marked offline, on the strength of the look before.
JanitorMark ==
    /\ janHit # 0
    /\ db_node_upsert(janHit, NoUser, "idle")
    /\ janHit' = 0
    /\ UNCHANGED <<listenVars, admitVars, threadVars, registry, locks, cons, janTodo>>

Janitor == JanitorList \/ JanitorLook \/ JanitorMark

-----------------------------------------------------------------------------
(* The scheduler's thread: sched_thread. Its pass is modelled in Scheduler; *)
(* here only that it runs commands, and main() waits for it.               *)

\* A pass begins, after a look at g_stop, that finds events due.
PassBegins ==
    /\ main # "down" /\ ~stop
    /\ sched = 0
    /\ sched' \in 1 .. MaxCommands
    /\ UNCHANGED <<main, stop, halts, admitVars, threadVars, registry, tables, cons, janitorVars>>

\* The command of an event has ended (run_event gives it no time limit); the
\* pass goes on to the next without a look at g_stop.
CommandEnds ==
    /\ sched > 0
    /\ sched' = sched - 1
    /\ UNCHANGED <<main, stop, halts, admitVars, threadVars, registry, tables, cons, janitorVars>>

-----------------------------------------------------------------------------
(* Stopping, dying and starting.                                           *)

\* SIGINT or SIGTERM.
Signal ==
    /\ main # "down" /\ ~stop
    /\ stop' = TRUE
    /\ UNCHANGED <<main, halts, sched, admitVars, threadVars, registry, tables, cons, janitorVars>>


\* One round of online_shutdown_and_wait: every session in the registry is told
\* and its socket shut down; it returns when it saw no session.
Sweep ==
    /\ main = "sweep"
    /\ alive' = [s \in Sessions |-> alive[s] /\ \A n \in Node : online[n] # s]
    /\ shut' = shut \cup {s \in Sessions : \E n \in Node : online[n] = s}
    /\ main' = IF \A n \in Node : online[n] = NoSession THEN "finish" ELSE "sweep"
    /\ UNCHANGED <<stop, halts, sched, admitVars, pc, node, user, login, registry, tables, cons, janitorVars>>

\* The process is gone, and with it every thread and all memory.
ProcessEnds ==
    /\ main' = "down"
    /\ stop' = FALSE
    /\ halts' = halts + 1
    /\ sched' = 0
    /\ admitted' = 0
    /\ releasing' = 0
    /\ pc' = [s \in Sessions |-> "free"]
    /\ node' = [s \in Sessions |-> 0]
    /\ alive' = [s \in Sessions |-> FALSE]
    /\ shut' = {}
    /\ user' = [s \in Sessions |-> NoUser]
    /\ login' = [s \in Sessions |-> NoUser]
    /\ online' = [n \in Node |-> NoSession]
    /\ locked' = [n \in Node |-> FALSE]
    /\ cons' = [c \in Consoles |-> Idle]
    /\ janTodo' = {}
    /\ janHit' = 0
    /\ UNCHANGED tables

\* main() joins the janitor and the scheduler (which end their passes first),
\* stops the other services and returns.
Exit ==
    /\ main = "finish"
    /\ janTodo = {} /\ janHit = 0
    /\ sched = 0
    /\ ProcessEnds

\* Power loss, a fatal signal.
Crash ==
    /\ main # "down"
    /\ halts < MaxHalts
    /\ ProcessEnds

\* main() restores the persistent locks; the nodes table is left as it is.
Boot ==
    /\ main = "down"
    /\ halts <= MaxHalts
    /\ locked' = locks
    /\ main' = "listen"
    /\ UNCHANGED <<stop, halts, sched, admitVars, threadVars, online, tables, cons, janitorVars>>

Listener == ListenTop \/ ListenNone \/ SessionAdmit \/ (\E s \in Sessions : Spawn(s)) \/ SpawnFail

MainLoop == Listener \/ Sweep \/ Exit

Next ==
    \/ MainLoop
    \/ \E s \in Sessions : Worker(s)
    \/ SessionRelease
    \/ \E c \in Consoles : Console(c)
    \/ \E t \in Tools, n \in Aimed, b \in BOOLEAN : BbslibLock(t, n, b)
    \/ Janitor
    \/ PassBegins \/ CommandEnds
    \/ Signal \/ Crash \/ Boot

Spec == Init /\ [][Next]_vars

\* What a session may wait for without an end that the code would bring about:
\* a logon event's command or DOSBox; an editor, a door or a transfer while the
\* socket is open; a prompt without a limit, while the socket is open.
Waits(s) ==
    \/ pc[s] \in {"logon", "program"}
    \/ pc[s] = "away" /\ s \notin shut
    \/ pc[s] \in {"auth", "read"} /\ ~IdleLimit /\ s \notin shut

\* Threads are scheduled; a prompt with a limit returns (the caller ends the
\* line, falls silent or hangs up), and so does a read from a socket that was
\* shut down; a console command in progress runs to its end; the janitor runs
\* every door_janitor_interval_sec. Signals, crashes, restarts, new callers,
\* new console commands and the end of a command, an editor or a door are not
\* owed to anybody.
Fairness ==
    /\ WF_vars(MainLoop)
    /\ \A s \in Sessions : WF_vars(~Waits(s) /\ Worker(s))
    /\ WF_vars(SessionRelease)
    /\ \A c \in Consoles : WF_vars(ConsoleFinish(c))
    /\ WF_vars(Janitor)

FairSpec == Spec /\ Fairness

-----------------------------------------------------------------------------
(* Safety.                                                                 *)

TypeOK ==
    /\ main \in {"down", "listen", "accept", "spawn", "sweep", "finish"}
    /\ stop \in BOOLEAN
    /\ halts \in Nat
    /\ sched \in Nat
    /\ admitted \in 0 .. MaxOnline
    /\ releasing \in Nat
    /\ pc \in [Sessions -> Seated \cup {"free", "start", "leave", "clear", "close"}]
    /\ node \in [Sessions -> 0 .. MaxOnline]
    /\ alive \in [Sessions -> BOOLEAN]
    /\ shut \in SUBSET Sessions
    /\ user \in [Sessions -> Users \cup {NoUser}]
    /\ login \in [Sessions -> Users \cup {NoUser}]
    /\ online \in [Node -> Sessions \cup {NoSession}]
    /\ locked \in [Node -> BOOLEAN]
    /\ rows \in [Node -> Row \cup {NoRow}]
    /\ locks \in [Node -> BOOLEAN]
    /\ cons \in [Consoles -> ConsoleState]
    /\ \A c \in Consoles : cons[c].op # "idle" => cons[c].node \in Node
    /\ janTodo \in SUBSET Node
    /\ janHit \in 0 .. MaxOnline

\* The registry never holds a pointer to a Session that was freed, is in two
\* slots or believes it sits elsewhere, and a session between online_add and
\* online_remove, and no other, is found under its own node number.
RegistryExact ==
    /\ \A n \in Node, s \in Sessions : online[n] = s <=> Holds(s) /\ node[s] = n
    /\ \A s \in Sessions : pc[s] \in Seated => node[s] # 0
    /\ \A s \in Sessions : pc[s] \in {"free", "start"} => node[s] = 0

\* g_admitted_sessions counts the workers that exist, those that have freed
\* their Session and not yet reported it, and the one the listener is
\* starting: no failure path leaks or returns a place twice.
AdmissionExact ==
    admitted = Cardinality(Busy) + releasing + (IF main = "spawn" THEN 1 ELSE 0)

\* A caller that was admitted is told "All nodes are busy or locked" only when
\* a node is locked: admission leaves a slot for every worker it lets in.
SlotForAdmitted ==
    \A s \in Sessions :
        pc[s] = "start" /\ (\A n \in Node : ~locked[n]) => FreeSlots # {}

\* While the process that started on an empty table runs, a row never names a
\* user other than one whose worker is on that node or has yet to clear it,
\* whatever console, janitor and cleanup of earlier callers write to it.
RowNamesWorker ==
    halts = 0 =>
        \A n \in Node :
            rows[n] # NoRow /\ rows[n].user # NoUser =>
                \E s \in Sessions :
                    /\ node[s] = n
                    /\ user[s] = rows[n].user
                    /\ pc[s] \in LoggedIn \cup {"leave", "clear"}

-----------------------------------------------------------------------------
(* Liveness, under FairSpec.                                               *)



\* A row that claims "online" for a node without a session is put right,
\* unless the process ends first.
OnlineRowReconciled ==
    \A n \in Node :
        (main # "down" /\ rows[n] # NoRow /\ rows[n].status = "online" /\ online[n] = NoSession)
            ~> (main = "down" \/ online[n] # NoSession
                  \/ rows[n] = NoRow \/ rows[n].status # "online")

-----------------------------------------------------------------------------
(* What the documentation says and the code does not do.                   *)

\* docs/sysop-guide.md: allow_multi_login=0 blocks duplicate sessions.
SingleLogin ==
    ~AllowMultiLogin =>
        \A s, t \in Sessions :
            s # t /\ pc[s] \in LoggedIn /\ pc[t] \in LoggedIn => user[s] # user[t]

\* bbs_session.h: online_shutdown_and_wait waits until every detached worker
\* has completed.
WorkersDone == main = "finish" => Busy = {}

\* docs/doors-and-scripting.md: current-player state cannot be held open by an
\* orphaned row of the nodes table.
OrphanReconciled ==
    \A n \in Node :
        (main # "down" /\ rows[n] # NoRow /\ rows[n].user # NoUser /\ online[n] = NoSession)
            ~> (main = "down" \/ online[n] # NoSession
                  \/ rows[n] = NoRow \/ rows[n].user = NoUser)
=============================================================================
