------------------------------- MODULE Plugins -------------------------------
(* Plugins in the running board: the loader (src/src/plugin_loader.c), the *)
(* registry (src/src/plugin_registry.c), the task scheduler of the host    *)
(* interface (src/src/plugin_host_api.c) and the menu action that runs a   *)
(* plugin for a caller (src/src/session.c).                                *)
(*                                                                         *)
(* Plugin code is entered by callers' threads, by the ticker, by the main  *)
(* thread and by the task thread.  The registry's mutex covers single      *)
(* look-ups only: what keeps a thread out of a library that is closed is   *)
(* the order in which the board stops.  It does not keep out a caller who  *)
(* logs in after the board has counted its callers, nor a console client's *)
(* thread, which nobody waits for.                                         *)
EXTENDS Integers, Sequences, FiniteSets

CONSTANTS
  Libraries,    \* the files of the plugin directory, in the order of readdir
  Describe,     \* file -> [good, id, interactive]: what bbs_plugin_query answers
  Denylist,     \* ids
  Allowlist,    \* ids; {} when there is none
  RegistryMax,  \* entries of the registry (64)
  UserThreads,  \* callers' threads
  TaskMax,      \* slots for tasks (64)
  MaxTasks      \* bound on tasks

\* The directory is a list of files; the callers are finitely many and none of
\* the board's own threads.
ASSUME PluginsAssumption ==
  /\ RegistryMax \in Nat \ {0} /\ TaskMax \in Nat \ {0} /\ MaxTasks \in Nat
  /\ Libraries \in Seq({Libraries[i] : i \in DOMAIN Libraries})
  /\ \A f \in DOMAIN Libraries : Describe[Libraries[f]].good \in BOOLEAN
  /\ IsFiniteSet(UserThreads) /\ UserThreads \cap {"console", "main", "ticker"} = {}

VARIABLES
  loader,    \* [pc, enabled, i, n]
  g_plugins, \* the registry: <<[file, id, count, loaded], ...>>
  mapped,    \* file -> how often it is open (dlopen, dlclose)
  ready,     \* file -> init() calls not yet answered by shutdown()
  at,        \* thread -> [pc, i, n, file, then, late]
  ticking,   \* g_plugin_tick_running
  g_tasks,   \* slot -> [id, file, due, active]
  worker,    \* the task thread: [pc, i, mark, task]
  running,   \* g_task_running
  next,      \* g_task_next_id
  ran,       \* history: how often each task has run
  revoked    \* history: tasks for which cancel answered BBS_OK

pluginvars == <<loader, g_plugins, mapped, ready, at, ticking, g_tasks, worker, running,
                next, ran, revoked>>

Lib == {Libraries[i] : i \in DOMAIN Libraries}
Threads == UserThreads \cup {"console", "main", "ticker"}
NoFile == ""
Away == [pc |-> "out", i |-> 0, n |-> 0, file |-> NoFile, then |-> "out", late |-> FALSE]
NoTask == [id |-> 0, file |-> NoFile, due |-> FALSE, active |-> FALSE]
NoWorker == [pc |-> "none", i |-> 1, mark |-> 0, task |-> NoTask]
TaskVars == <<g_tasks, worker, running, next, ran, revoked>>

(***************************************************************************)
(* The registry.  Entries keep their place when they are unloaded; an      *)
(* index counts the loaded ones.                                           *)
(***************************************************************************)
LoadedAt == {k \in DOMAIN g_plugins : g_plugins[k].loaded}
plugin_registry_count == Cardinality(LoadedAt)
plugin_registry_get(i) ==
  {k \in LoadedAt : Cardinality({j \in LoadedAt : j < k}) = i}
plugin_registry_find(id) == {k \in LoadedAt : g_plugins[k].id = id}
plugin_registry_add(f) ==
  Append(g_plugins, [file |-> f, id |-> Describe[f].id, count |-> 0, loaded |-> TRUE])
plugin_registry_instance_inc(id) ==
  [k \in DOMAIN g_plugins |-> IF k \in plugin_registry_find(id)
                              THEN [g_plugins[k] EXCEPT !.count = @ + 1] ELSE g_plugins[k]]
plugin_registry_instance_dec(id) ==
  [k \in DOMAIN g_plugins |-> IF k \in plugin_registry_find(id) /\ g_plugins[k].count > 0
                              THEN [g_plugins[k] EXCEPT !.count = @ - 1] ELSE g_plugins[k]]

(***************************************************************************)
(* Start: the main thread alone.                                           *)
(***************************************************************************)
plugin_allowed(id) == id \notin Denylist /\ (Allowlist = {} \/ id \in Allowlist)

\* There may be no directory to scan; then there is no ticker either.
plugin_loader_init(enabled, directory) ==
  /\ loader.pc = "cold"
  /\ loader' = [loader EXCEPT !.pc = IF enabled /\ directory THEN "scan" ELSE "up",
                              !.enabled = enabled, !.i = 1]
  /\ UNCHANGED <<g_plugins, mapped, ready, at, ticking, TaskVars>>

\* A library that is not a plugin, that is not allowed, whose id is taken or
\* whose init fails is closed again; one that the full registry refuses is
\* shut down first.
load_plugin(starts) ==
  /\ loader.pc = "scan" /\ loader.i <= Len(Libraries)
  /\ LET f == Libraries[loader.i]
         d == Describe[f]
     IN  IF /\ d.good /\ plugin_allowed(d.id) /\ plugin_registry_find(d.id) = {} /\ starts
            /\ Len(g_plugins) < RegistryMax
         THEN /\ g_plugins' = plugin_registry_add(f)
              /\ mapped' = [mapped EXCEPT ![f] = @ + 1]
              /\ ready' = [ready EXCEPT ![f] = @ + 1]
         ELSE UNCHANGED <<g_plugins, mapped, ready>>
  /\ loader' = [loader EXCEPT !.i = @ + 1]
  /\ UNCHANGED <<at, ticking, TaskVars>>

\* The ticker, unless pthread_create fails.
StartTicker(ok) ==
  /\ loader.pc = "scan" /\ loader.i > Len(Libraries)
  /\ loader' = [loader EXCEPT !.pc = "up"]
  /\ ticking' = ok
  /\ at' = IF ok THEN [at EXCEPT !["ticker"] = [Away EXCEPT !.pc = "sleep"]] ELSE at
  /\ UNCHANGED <<g_plugins, mapped, ready, TaskVars>>

(***************************************************************************)
(* Events.  The number of plugins is taken once; each is looked up by its  *)
(* index when its turn comes and called without the mutex.                 *)
(***************************************************************************)
plugin_loader_enabled == loader.pc \notin {"cold", "scan", "gone"} /\ loader.enabled

Dispatching(t, then) ==
  [at[t] EXCEPT !.pc = "event", !.i = 0, !.n = plugin_registry_count, !.then = then]

\* A callback is entered, or the index finds nothing.
OnEvent(t) ==
  /\ at[t].pc = "event" /\ at[t].i < at[t].n
  /\ LET entry == plugin_registry_get(at[t].i)
     IN  at' = [at EXCEPT ![t] = IF entry = {} THEN [@ EXCEPT !.i = at[t].i + 1]
                                 ELSE [@ EXCEPT !.pc = "callback", !.i = at[t].i + 1,
                                         !.file = g_plugins[CHOOSE k \in entry : TRUE].file]]
  /\ UNCHANGED <<loader, g_plugins, mapped, ready, ticking, TaskVars>>

Called(t) ==
  /\ at[t].pc = "callback"
  /\ at' = [at EXCEPT ![t] = [@ EXCEPT !.pc = "event", !.file = NoFile]]
  /\ UNCHANGED <<loader, g_plugins, mapped, ready, ticking, TaskVars>>

\* The ticker sleeps a second and looks at the flag before and after.
Tock ==
  /\ at["ticker"].pc = "sleep"
  /\ at' = [at EXCEPT !["ticker"] = IF ticking THEN Dispatching("ticker", "sleep") ELSE Away]
  /\ UNCHANGED <<loader, g_plugins, mapped, ready, ticking, TaskVars>>

TickEnds ==
  /\ at["ticker"].pc = "event" /\ at["ticker"].i >= at["ticker"].n
  /\ at' = [at EXCEPT !["ticker"] = IF ticking THEN [Away EXCEPT !.pc = "sleep"] ELSE Away]
  /\ UNCHANGED <<loader, g_plugins, mapped, ready, ticking, TaskVars>>

(***************************************************************************)
(* Callers.  Their events are those of log-in and log-out; a console       *)
(* client's is that of a kick.                                             *)
(***************************************************************************)

\* The board has looked for callers for the last time, or does not wait.
Late(t) == t = "console" \/ loader.pc \notin {"up", "stopping"}

LoginEvent(t) ==
  /\ at[t].pc = "out" /\ plugin_loader_enabled
  /\ at' = [at EXCEPT ![t] = [Dispatching(t, IF t = "console" THEN "out" ELSE "menu")
                              EXCEPT !.late = Late(t)]]
  /\ UNCHANGED <<loader, g_plugins, mapped, ready, ticking, TaskVars>>

LogoutEvent(u) ==
  /\ at[u].pc = "menu"
  /\ at' = [at EXCEPT ![u] = IF plugin_loader_enabled THEN Dispatching(u, "out") ELSE Away]
  /\ UNCHANGED <<loader, g_plugins, mapped, ready, ticking, TaskVars>>

EventEnds(t) ==
  /\ at[t].pc = "event" /\ at[t].i >= at[t].n
  /\ at' = [at EXCEPT ![t] = IF at[t].then = "out" THEN Away
                             ELSE [Away EXCEPT !.pc = "menu", !.late = at[t].late]]
  /\ UNCHANGED <<loader, g_plugins, mapped, ready, ticking, TaskVars>>

\* plugin:<id>: the entry is found and create_instance is called.
RunPlugin(u, id) ==
  /\ at[u].pc = "menu" /\ plugin_loader_enabled
  /\ \E k \in plugin_registry_find(id) :
       /\ Describe[g_plugins[k].file].interactive
       /\ at' = [at EXCEPT ![u] = [@ EXCEPT !.pc = "create", !.file = g_plugins[k].file]]
  /\ UNCHANGED <<loader, g_plugins, mapped, ready, ticking, TaskVars>>

\* The instance is counted only once it is there.
CreateInstance(u, ok) ==
  /\ at[u].pc = "create"
  /\ g_plugins' = IF ok THEN plugin_registry_instance_inc(Describe[at[u].file].id)
                  ELSE g_plugins
  /\ at' = [at EXCEPT ![u] = IF ok THEN [@ EXCEPT !.pc = "inside"]
                             ELSE [@ EXCEPT !.pc = "menu", !.file = NoFile]]
  /\ UNCHANGED <<loader, mapped, ready, ticking, TaskVars>>

\* on_enter, run, on_exit and destroy are over.
LeavePlugin(u) ==
  /\ at[u].pc = "inside"
  /\ g_plugins' = plugin_registry_instance_dec(Describe[at[u].file].id)
  /\ at' = [at EXCEPT ![u] = [@ EXCEPT !.pc = "menu", !.file = NoFile]]
  /\ UNCHANGED <<loader, mapped, ready, ticking, TaskVars>>

(***************************************************************************)
(* Tasks.  The thread starts with the first one.  It holds the mutex       *)
(* except while a task runs and while it waits.                            *)
(***************************************************************************)
plugin_sched_init == IF running THEN worker ELSE [NoWorker EXCEPT !.pc = "wait"]

\* enqueue and after_ms: a free slot, now or later.  Bound: a caller for whom
\* the shutdown does not wait makes no tasks.
host_sched(u, due) ==
  LET free == {k \in 1..TaskMax : ~g_tasks[k].active}
      slot == CHOOSE k \in free : \A j \in free : k <= j
  IN  /\ at[u].pc = "inside" /\ ~at[u].late /\ next <= MaxTasks
      /\ worker' = plugin_sched_init /\ running' = TRUE
      /\ IF free = {} THEN UNCHANGED <<g_tasks, next>>
         ELSE /\ g_tasks' = [g_tasks EXCEPT ![slot] =
                   [id |-> next, file |-> at[u].file, due |-> due, active |-> TRUE]]
              /\ next' = next + 1
      /\ UNCHANGED <<loader, g_plugins, mapped, ready, at, ticking, ran, revoked>>

host_sched_cancel(id) ==
  [k \in 1..TaskMax |-> IF g_tasks[k].active /\ g_tasks[k].id = id
                        THEN [g_tasks[k] EXCEPT !.active = FALSE] ELSE g_tasks[k]]

\* BBS_OK when the task was still waiting.
Cancel(u, id) ==
  /\ at[u].pc = "inside" /\ id < next
  /\ g_tasks' = host_sched_cancel(id)
  /\ revoked' = IF {k \in 1..TaskMax : g_tasks[k].active /\ g_tasks[k].id = id} # {}
                THEN revoked \cup {id} ELSE revoked
  /\ UNCHANGED <<loader, g_plugins, mapped, ready, at, ticking, worker, running, next, ran>>

Elapse(k) ==
  /\ g_tasks[k].active /\ ~g_tasks[k].due
  /\ g_tasks' = [g_tasks EXCEPT ![k].due = TRUE]
  /\ UNCHANGED <<loader, g_plugins, mapped, ready, at, ticking, worker, running, next, ran, revoked>>

\* A pass looks at the slots in order.  A task made since the pass read the
\* clock counts as due only within the same millisecond.
Ripe(i) == {k \in i..TaskMax : g_tasks[k].active /\ g_tasks[k].due}
Passed(S) == {k \in S : g_tasks[k].id < worker.mark} = {}

TaskStarts(k) ==
  /\ worker.pc = "pass" /\ k \in Ripe(worker.i) /\ Passed({j \in Ripe(worker.i) : j < k})
  /\ worker' = [worker EXCEPT !.pc = "call", !.i = k + 1, !.task = g_tasks[k]]
  /\ g_tasks' = [g_tasks EXCEPT ![k].active = FALSE]
  /\ ran' = [ran EXCEPT ![g_tasks[k].id] = @ + 1]
  /\ UNCHANGED <<loader, g_plugins, mapped, ready, at, ticking, running, next, revoked>>

TaskReturns ==
  /\ worker.pc = "call"
  /\ worker' = [worker EXCEPT !.pc = "pass", !.task = NoTask]
  /\ UNCHANGED <<loader, g_plugins, mapped, ready, at, ticking, g_tasks, running, next, ran, revoked>>

TaskPassEnds ==
  /\ worker.pc = "pass" /\ Passed(Ripe(worker.i))
  /\ worker' = [NoWorker EXCEPT !.pc = "wait"]
  /\ UNCHANGED <<loader, g_plugins, mapped, ready, at, ticking, g_tasks, running, next, ran, revoked>>

\* The loop's condition: another pass, or the thread ends.
WorkerWakes ==
  /\ worker.pc = "wait"
  /\ worker' = IF running THEN [NoWorker EXCEPT !.pc = "pass", !.mark = next] ELSE NoWorker
  /\ UNCHANGED <<loader, g_plugins, mapped, ready, at, ticking, g_tasks, running, next, ran, revoked>>

(***************************************************************************)
(* Stop: main.c calls plugin_loader_shutdown after                         *)
(* online_shutdown_and_wait, when no caller is left.                       *)
(***************************************************************************)
Halt ==
  /\ loader.pc = "up"
  /\ loader' = [loader EXCEPT !.pc = "stopping"]
  /\ UNCHANGED <<g_plugins, mapped, ready, at, ticking, TaskVars>>

ShutdownEvent ==
  /\ loader.pc = "stopping" /\ {u \in UserThreads : at[u].pc # "out"} = {}
  /\ loader' = [loader EXCEPT !.pc = "event"]
  /\ at' = [at EXCEPT !["main"] = IF loader.enabled THEN Dispatching("main", "out")
                                  ELSE [Away EXCEPT !.pc = "event"]]
  /\ UNCHANGED <<g_plugins, mapped, ready, ticking, TaskVars>>

StopTicker ==
  /\ loader.pc = "event" /\ at["main"].pc = "event" /\ at["main"].i >= at["main"].n
  /\ ticking' = FALSE
  /\ at' = [at EXCEPT !["main"] = Away]
  /\ loader' = [loader EXCEPT !.pc = "join"]
  /\ UNCHANGED <<g_plugins, mapped, ready, TaskVars>>

\* Mutant: the ticker is told to stop and not waited for.
Unjoined ==
  /\ loader.pc = "join"
  /\ loader' = [loader EXCEPT !.pc = "unload", !.i = 0, !.n = plugin_registry_count]
  /\ UNCHANGED <<g_plugins, mapped, ready, at, ticking, TaskVars>>

JoinTicker ==
  /\ loader.pc = "join" /\ at["ticker"].pc = "out"
  /\ loader' = [loader EXCEPT !.pc = "unload", !.i = 0, !.n = plugin_registry_count]
  /\ UNCHANGED <<g_plugins, mapped, ready, at, ticking, TaskVars>>

\* The index counts the loaded entries, and each step unloads one: every
\* other plugin is passed over.
Unload ==
  /\ loader.pc = "unload" /\ loader.i < loader.n
  /\ loader' = [loader EXCEPT !.i = @ + 1]
  /\ IF plugin_registry_get(loader.i) = {} THEN UNCHANGED <<g_plugins, mapped, ready>>
     ELSE LET k == CHOOSE x \in plugin_registry_get(loader.i) : TRUE
              f == g_plugins[k].file
          IN  /\ ready' = [ready EXCEPT ![f] = @ - 1]
              /\ mapped' = [mapped EXCEPT ![f] = @ - 1]
              /\ g_plugins' = [g_plugins EXCEPT ![k].loaded = FALSE]
  /\ UNCHANGED <<at, ticking, TaskVars>>

\* plugin_registry_shutdown, and only then the task thread is told to stop.
Unloaded ==
  /\ loader.pc = "unload" /\ loader.i >= loader.n
  /\ g_plugins' = << >>
  /\ running' = FALSE
  /\ loader' = [loader EXCEPT !.pc = "tasks"]
  /\ UNCHANGED <<mapped, ready, at, ticking, g_tasks, worker, next, ran, revoked>>

plugin_sched_shutdown ==
  /\ loader.pc = "tasks" /\ worker.pc = "none"
  /\ loader' = [loader EXCEPT !.pc = "gone"]
  /\ UNCHANGED <<g_plugins, mapped, ready, at, ticking, TaskVars>>

PluginsInit ==
  /\ loader = [pc |-> "cold", enabled |-> FALSE, i |-> 0, n |-> 0]
  /\ g_plugins = << >>
  /\ mapped = [f \in Lib |-> 0] /\ ready = [f \in Lib |-> 0]
  /\ at = [t \in Threads |-> Away]
  /\ ticking = FALSE
  /\ g_tasks = [k \in 1..TaskMax |-> NoTask]
  /\ worker = NoWorker /\ running = FALSE
  /\ next = 1 /\ ran = [i \in 1..MaxTasks |-> 0] /\ revoked = {}

\* main returns, and every thread that is left ends with the process.  The
\* board may be started again.
MainReturns ==
  /\ loader.pc = "gone"
  /\ loader' = [pc |-> "cold", enabled |-> FALSE, i |-> 0, n |-> 0]
  /\ g_plugins' = << >>
  /\ mapped' = [f \in Lib |-> 0] /\ ready' = [f \in Lib |-> 0]
  /\ at' = [t \in Threads |-> Away]
  /\ ticking' = FALSE
  /\ g_tasks' = [k \in 1..TaskMax |-> NoTask]
  /\ worker' = NoWorker /\ running' = FALSE
  /\ next' = 1 /\ ran' = [i \in 1..MaxTasks |-> 0] /\ revoked' = {}

LoaderNext ==
  \/ \E enabled, directory \in BOOLEAN : plugin_loader_init(enabled, directory)
  \/ \E ok \in BOOLEAN : load_plugin(ok) \/ StartTicker(ok)
  \/ Halt \/ ShutdownEvent \/ StopTicker \/ JoinTicker \/ Unload \/ Unloaded
  \/ plugin_sched_shutdown \/ MainReturns

CallbackNext ==
  \/ \E t \in Threads : OnEvent(t) \/ Called(t)
  \/ Tock \/ TickEnds
  \/ \E t \in UserThreads \cup {"console"} : LoginEvent(t) \/ EventEnds(t)
  \/ \E u \in UserThreads :
       \/ LogoutEvent(u) \/ LeavePlugin(u)
       \/ \E id \in {Describe[f].id : f \in Lib} : RunPlugin(u, id)
       \/ \E ok \in BOOLEAN : CreateInstance(u, ok)

TaskNext ==
  \/ \E u \in UserThreads : \/ \E due \in BOOLEAN : host_sched(u, due)
                            \/ \E id \in 1..MaxTasks : Cancel(u, id)
  \/ \E k \in 1..TaskMax : Elapse(k) \/ TaskStarts(k)
  \/ TaskReturns \/ TaskPassEnds \/ WorkerWakes

PluginsNext == LoaderNext \/ CallbackNext \/ TaskNext

PluginsSpec == PluginsInit /\ [][PluginsNext]_pluginvars

(***************************************************************************)
(* Properties.                                                             *)
(***************************************************************************)

\* Threads in the code of a plugin, by entry.
Inside(t) == at[t].pc \in {"callback", "create", "inside"}

\* No thread that the shutdown waits for is in the code of a library that has
\* been closed or shut down: neither a caller, nor the ticker, nor the event of
\* the shutdown; and the task thread not before the plugins are unloaded.
\* (Late callers, console clients and, after that, the task thread can be.)
OpenCode ==
  /\ \A t \in Threads : Inside(t) /\ ~at[t].late =>
       /\ {k \in LoadedAt : g_plugins[k].file = at[t].file} # {}
       /\ mapped[at[t].file] = 1 /\ ready[at[t].file] = 1
  /\ (worker.pc = "call" /\ loader.pc \in {"up", "stopping", "event", "join"}) =>
       mapped[worker.task.file] = 1

\* The registry says what is open: a library once, an id once, and as many
\* instances as callers are between the two calls that count them.
Registered ==
  /\ \A j, k \in LoadedAt : g_plugins[j].id = g_plugins[k].id => j = k
  /\ loader.pc \in {"scan", "up", "stopping", "event", "join"} =>
       \A f \in Lib : mapped[f] = Cardinality({k \in LoadedAt : g_plugins[k].file = f})
  /\ \A k \in LoadedAt :
       g_plugins[k].count = Cardinality({u \in UserThreads : at[u].pc = "inside" /\ at[u].file = g_plugins[k].file})

\* A task runs once, and never after its cancellation was granted, however
\* slots are used again while the thread is in a task.
TasksOnce ==
  /\ \A id \in 1..MaxTasks : ran[id] <= 1
  /\ \A id \in revoked : ran[id] = 0
  /\ \A j, k \in 1..TaskMax : g_tasks[j].active /\ g_tasks[k].active /\ g_tasks[j].id = g_tasks[k].id
                              => j = k

\* What holds of plugins in every state: no thread in closed code, an exact
\* registry, tasks that run once.
PluginsInv == OpenCode /\ Registered /\ TasksOnce
=============================================================================
