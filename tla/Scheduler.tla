----------------------------- MODULE Scheduler -----------------------------
(* The event scheduler (src/src/scheduler.c), the rows of the events table *)
(* it works from (src/src/db.c) and the sysop's event editor               *)
(* (src/src/session.c).                                                    *)
(*                                                                         *)
(* The scheduler is one thread.  A pass reads the clock once, copies at    *)
(* most ListMax rows and walks the copy; the command of an event that is   *)
(* due runs inside the pass, without a time limit.  The editor changes the *)
(* table meanwhile, the clock goes on, and the process may die at any      *)
(* moment: what survives is the table.                                     *)
(*                                                                         *)
(* Time is counted in ticks of the scheduler.  next_run is stored as local *)
(* time and read back with tm_isdst = 0, which moves it by an hour while   *)
(* daylight saving is in force.                                            *)
EXTENDS Integers, Sequences, FiniteSets, Bags

CONSTANTS
  Names,        \* names of events (UNIQUE in the table)
  Typed,        \* what the sysop may type for a new event: <<schedule, type>>
  Initial,      \* rows of the table at the start: id -> row
  MaxId,        \* bound: ids handed out by AUTOINCREMENT
  ListMax,      \* rows a pass copies (32)
  WarnSlots,    \* warnings remembered (64)
  Hour, Day, Week, Month,   \* lengths in ticks
  MaxClock,     \* bound on the clock
  MaxEdits,     \* bound on the sysop's edits
  MaxCrashes    \* bound on crashes

Unset == -1                     \* next_run NULL or empty
\* What is typed: the kind, and the offset in its period or the distance of
\* "every:".  Nobody types a negative time of the day.
Schedules == [kind : STRING, n : Nat]
EventRows == [name : Names, sched : Schedules, type : STRING, warn : Int,
              next : Nat \cup {Unset}, enabled : BOOLEAN]

ASSUME SchedulerAssumption ==
  /\ Cardinality(DOMAIN Initial) \in 0..MaxId
  /\ Initial \in [1..Cardinality(DOMAIN Initial) -> EventRows]
  /\ Typed \subseteq Schedules \X STRING
  /\ MaxId \in Nat /\ ListMax \in Nat \ {0} /\ WarnSlots \in Nat \ {0}
  /\ {Hour, Day, Week, Month} \subseteq Nat \ {0}
  /\ MaxClock \in Nat /\ MaxEdits \in Nat /\ MaxCrashes \in Nat

VARIABLES
  events,    \* the table: id -> [name, sched, type, warn, next, enabled]
  lastId,    \* AUTOINCREMENT: the largest id ever given
  clock,
  dst,       \* daylight saving is in force
  board,     \* "up", "stopping" (scheduler_stop waits), "down"
  th,        \* the scheduler thread: [pc, now, rest]
  warned,    \* SchedCtx.warned_ids and warned_next
  edits,
  crashes,
  runs,      \* history: a bag of <<event, time slot it ran for>>
  notices    \* history: a bag of <<event, time slot it was announced for>>,
             \* since the process started

schedvars == <<events, lastId, clock, dst, board, th, warned, edits, crashes,
          runs, notices>>

\* How often a key is in one of the bags.
Times(k, bag) == IF BagIn(k, bag) THEN bag[k] ELSE 0

Ids == 1..MaxId
Idle == [pc |-> "none", now |-> 0, rest |-> << >>]
NoWarning == [id |-> 0, next |-> Unset]

\* The first occurrence of offset n in a period, today's one included
\* unless strict.
Occurrence(n, period, strict, now) ==
  LET target == (now - (now % period)) + n
  IN  IF target < now \/ (strict /\ target = now) THEN target + period ELSE target

\* parse_schedule: daily@ includes the present second, weekly: and monthly:
\* do not, every: counts from now, and anything else is hourly.
parse_schedule(sched, now) ==
  CASE sched.kind = "daily" -> Occurrence(sched.n, Day, FALSE, now)
    [] sched.kind = "weekly" -> Occurrence(sched.n, Week, TRUE, now)
    [] sched.kind = "monthly" -> Occurrence(sched.n, Month, TRUE, now)
    [] sched.kind = "every" -> now + sched.n
    [] OTHER -> now + Hour

\* The first ListMax rows, in rowid order, each with its id.
Rank(id) == Cardinality({j \in DOMAIN events : j <= id})
Listed == {id \in DOMAIN events : Rank(id) <= ListMax}
db_events_list ==
  [i \in 1..Cardinality(Listed) |->
     LET id == CHOOSE j \in Listed : Rank(j) = i
     IN  [id |-> id, sched |-> events[id].sched, type |-> events[id].type,
          warn |-> events[id].warn, next |-> events[id].next, enabled |-> events[id].enabled]]

\* An UPDATE of the row with this id, if there is one still.
UpdateRow(id, row) == IF id \in DOMAIN events THEN [events EXCEPT ![id] = row] ELSE events

db_event_update_next(id, next) ==
  UpdateRow(id, [events[id] EXCEPT !.next = next])

db_event_mark_ran(id) ==
  UpdateRow(id, [events[id] EXCEPT !.next = Unset])

db_event_toggle(id, enabled) ==
  UpdateRow(id, [events[id] EXCEPT !.enabled = enabled])

\* Mutant: the time is worked out afresh in every pass.
AlwaysLater(e, now) == parse_schedule(e.sched, now)

\* The time a row is due: parsed from next_run, or computed for an empty one.
NextTs(e, now) ==
  IF e.next = Unset THEN parse_schedule(e.sched, now)
  ELSE e.next + (IF dst THEN Hour ELSE 0)

\* The time slot that stands for: next_run as it was meant.
Slot(e, now) == IF e.next = Unset THEN parse_schedule(e.sched, now) ELSE e.next

warning_already_sent(e) ==
  \E i \in 1..WarnSlots : warned[i] = [id |-> e.id, next |-> e.next]

\* The first slot that is free or this event's; slot 1 when there is none.
\* The key is the copy's next_run, empty for a row scheduled in this pass.
warning_mark_sent(e) ==
  LET fit == {i \in 1..WarnSlots : warned[i].id \in {0, e.id}}
      slot == IF fit = {} THEN 1 ELSE CHOOSE i \in fit : \A j \in fit : i <= j
  IN  [warned EXCEPT ![slot] = [id |-> e.id, next |-> e.next]]

Warns(e, now) ==
  /\ e.warn > 0
  /\ NextTs(e, now) > now
  /\ NextTs(e, now) - now <= e.warn
  /\ ~warning_already_sent(e)

Scheduled(e) == e.enabled /\ e.type = "scheduled"

(***************************************************************************)
(* The thread.                                                             *)
(***************************************************************************)

\* A pass begins: the clock and the rows are copied.
Pass ==
  /\ th.pc = "head" /\ board = "up"
  /\ th' = [pc |-> "each", now |-> clock, rest |-> db_events_list]
  /\ UNCHANGED <<events, lastId, clock, dst, board, warned, edits, crashes,
                 runs, notices>>

\* The loop condition fails: the thread ends.
ThreadEnds ==
  /\ th.pc \in {"head", "sleep"} /\ board = "stopping"
  /\ th' = [Idle EXCEPT !.now = th.now]
  /\ UNCHANGED <<events, lastId, clock, dst, board, warned, edits, crashes,
                 runs, notices>>

Skip ==
  /\ th.pc = "each" /\ th.rest # << >> /\ ~Scheduled(Head(th.rest))
  /\ th' = [th EXCEPT !.rest = Tail(@)]
  /\ UNCHANGED <<events, lastId, clock, dst, board, warned, edits, crashes,
                 runs, notices>>

\* The row is given its next_run if it has none, callers are warned, and a
\* row that is due starts its command.
Consider ==
  /\ th.pc = "each" /\ th.rest # << >> /\ Scheduled(Head(th.rest))
  /\ LET e == Head(th.rest)
         key == <<e.id, Slot(e, th.now)>>
         due == NextTs(e, th.now) <= th.now
     IN  /\ events' = IF e.next = Unset
                      THEN db_event_update_next(e.id, NextTs(e, th.now)) ELSE events
         /\ IF Warns(e, th.now)
            THEN /\ warned' = warning_mark_sent(e)
                 /\ notices' = notices (+) SetToBag({key})
            ELSE UNCHANGED <<warned, notices>>
         /\ th' = IF due THEN [th EXCEPT !.pc = "child"]
                  ELSE [th EXCEPT !.rest = Tail(@)]
         /\ runs' = IF due THEN runs (+) SetToBag({key}) ELSE runs
  /\ UNCHANGED <<lastId, clock, dst, board, edits, crashes>>

\* Mutant: the run is recorded without clearing next_run.
KeepNext ==
  /\ th.pc = "child"
  /\ th' = [th EXCEPT !.pc = "each", !.rest = Tail(@)]
  /\ UNCHANGED <<events, lastId, clock, dst, board, warned, edits, crashes,
                 runs, notices>>

\* run_event: the command has ended (or was rejected, or failed) and the row
\* is marked.  Nothing bounds the time before.
Ran ==
  /\ th.pc = "child"
  /\ events' = db_event_mark_ran(Head(th.rest).id)
  /\ th' = [th EXCEPT !.pc = "each", !.rest = Tail(@)]
  /\ UNCHANGED <<lastId, clock, dst, board, warned, edits, crashes, runs, notices>>

PassEnds ==
  /\ th.pc = "each" /\ th.rest = << >>
  /\ th' = [th EXCEPT !.pc = "sleep"]
  /\ UNCHANGED <<events, lastId, clock, dst, board, warned, edits, crashes,
                 runs, notices>>

\* The sleep lasts at least a second, so the next pass reads a later clock.
Wake ==
  /\ th.pc = "sleep" /\ board = "up" /\ clock > th.now
  /\ th' = [th EXCEPT !.pc = "head"]
  /\ UNCHANGED <<events, lastId, clock, dst, board, warned, edits, crashes,
                 runs, notices>>

Tick ==
  /\ clock < MaxClock
  /\ clock' = clock + 1
  /\ UNCHANGED <<events, lastId, dst, board, th, warned, edits, crashes, runs,
                 notices>>

(***************************************************************************)
(* The process.                                                            *)
(***************************************************************************)

\* A board that is started again reads a later clock than the pass it died
\* in: a start takes longer than a tick.
scheduler_start ==
  /\ board = "down" /\ clock > th.now
  /\ board' = "up"
  /\ th' = [Idle EXCEPT !.pc = "head"]
  /\ warned' = [i \in 1..WarnSlots |-> NoWarning]
  /\ notices' = EmptyBag
  /\ UNCHANGED <<events, lastId, clock, dst, edits, crashes, runs>>

scheduler_stop ==
  /\ board = "up"
  /\ board' = "stopping"
  /\ UNCHANGED <<events, lastId, clock, dst, th, warned, edits, crashes, runs, notices>>

\* pthread_join returns, the context is freed.
Joined ==
  /\ board = "stopping" /\ th.pc = "none"
  /\ board' = "down"
  /\ UNCHANGED <<events, lastId, clock, dst, th, warned, edits, crashes, runs,
                 notices>>

Crash ==
  /\ board # "down" /\ crashes < MaxCrashes
  /\ board' = "down"
  /\ th' = [Idle EXCEPT !.now = th.now]
  /\ crashes' = crashes + 1
  /\ UNCHANGED <<events, lastId, clock, dst, warned, edits, runs, notices>>

(***************************************************************************)
(* The event editor.  Every round lists the table again, yet another sysop *)
(* may change it before the answer: the screen may be stale.               *)
(***************************************************************************)
\* A new row, enabled, without next_run and without a warning.
db_event_add(name, sched, type) ==
  [id \in DOMAIN events \cup {lastId + 1} |->
     IF id \in DOMAIN events THEN events[id]
     ELSE [name |-> name, sched |-> sched, type |-> type, warn |-> 0, next |-> Unset,
           enabled |-> TRUE]]

db_event_delete(id) == [i \in DOMAIN events \ {id} |-> events[i]]

\* A name that exists is refused.
EditorAdd(name, sched, type) ==
  /\ board = "up" /\ edits < MaxEdits /\ lastId < MaxId
  /\ \A id \in DOMAIN events : events[id].name # name
  /\ events' = db_event_add(name, sched, type)
  /\ lastId' = lastId + 1
  /\ edits' = edits + 1
  /\ UNCHANGED <<clock, dst, board, th, warned, crashes, runs, notices>>

EditorDelete(id) ==
  /\ board = "up" /\ edits < MaxEdits /\ id \in DOMAIN events
  /\ events' = db_event_delete(id)
  /\ edits' = edits + 1
  /\ UNCHANGED <<lastId, clock, dst, board, th, warned, crashes, runs, notices>>

\* The flag is the opposite of the one on screen; an id that is not on
\* screen counts as disabled and is enabled.
EditorToggle(id, shown) ==
  /\ board = "up" /\ edits < MaxEdits /\ id \in DOMAIN events
  /\ id \notin Listed => ~shown
  /\ events' = db_event_toggle(id, ~shown)
  /\ edits' = edits + 1
  /\ UNCHANGED <<lastId, clock, dst, board, th, warned, crashes, runs, notices>>

SchedInit ==
  /\ events = Initial
  /\ lastId = Cardinality(DOMAIN Initial)
  /\ clock = 0
  /\ dst \in BOOLEAN
  /\ board \in {"up", "down"}
  /\ th = [Idle EXCEPT !.pc = IF board = "up" THEN "head" ELSE "none"]
  /\ warned = [i \in 1..WarnSlots |-> NoWarning]
  /\ edits = 0 /\ crashes = 0
  /\ runs = EmptyBag
  /\ notices = EmptyBag

SchedNext ==
  \/ Pass \/ ThreadEnds \/ Skip \/ Consider \/ Ran \/ PassEnds \/ Wake \/ Tick
  \/ scheduler_start \/ scheduler_stop \/ Joined \/ Crash
  \/ \E n \in Names, t \in Typed : EditorAdd(n, t[1], t[2])
  \/ \E id \in Ids : EditorDelete(id) \/ \E shown \in BOOLEAN : EditorToggle(id, shown)

\* Time passes and the thread is scheduled.  Nothing makes a command end, so
\* Ran has no fairness.
SchedFairness ==
  /\ WF_schedvars(Tick)
  /\ WF_schedvars(Pass) /\ WF_schedvars(Skip) /\ WF_schedvars(Consider)
  /\ WF_schedvars(PassEnds) /\ WF_schedvars(Wake)

SchedSpec == SchedInit /\ [][SchedNext]_schedvars

(***************************************************************************)
(* Properties.                                                             *)
(***************************************************************************)

\* Types of the table, the thread and what the process remembers.
SchedTypeOK ==
  /\ DOMAIN events \subseteq 1..lastId /\ lastId <= MaxId
  /\ events \in [DOMAIN events -> EventRows]
  /\ clock \in 0..MaxClock /\ dst \in BOOLEAN
  /\ board \in {"up", "stopping", "down"}
  /\ th.pc \in {"none", "head", "each", "child", "sleep"}
  /\ th.now \in 0..clock
  /\ \A i \in 1..WarnSlots : warned[i].id \in 0..lastId

\* An event runs once for one time of its schedule, whatever is added,
\* disabled or deleted during the pass and however late the pass is; only a
\* crash between the command and db_event_mark_ran runs it again.
RunsOnce ==
  \A k \in BagToSet(runs) : Times(k, runs) <= 1 + crashes

\* Callers hear of one run at most twice while the process lives: once
\* keyed by the empty next_run of the pass that schedules it and once by the
\* stored one.  This holds while no more events were warned about than there
\* are slots to remember them.
WarnedTwice ==
  \/ Cardinality({k[1] : k \in BagToSet(notices)}) > WarnSlots
  \/ \A k \in BagToSet(notices) : Times(k, notices) <= 2

\* What an event does to the board and its callers: it runs once for one
\* time of its schedule and is announced at most twice for it.
EventsInv == SchedTypeOK /\ RunsOnce /\ WarnedTwice

Due(id) ==
  /\ clock < MaxClock /\ board = "up"
  /\ id \in DOMAIN events /\ events[id].next # Unset
  /\ events[id].enabled /\ events[id].type = "scheduled"
  /\ events[id].next + (IF dst THEN Hour ELSE 0) <= clock
  /\ id \in Listed

Settled(id) ==
  \/ board # "up"
  \/ id \notin DOMAIN events
  \/ events[id].next = Unset
  \/ ~events[id].enabled
  \/ id \notin Listed

\* An event that is due among the rows a pass copies is run and marked
\* (unless it is disabled, deleted or pushed out of the list, or the board
\* stops), provided no command keeps the thread for ever.
DueRuns ==
  []<>(th.pc # "child") => \A id \in Ids : Due(id) ~> Settled(id)
=============================================================================
