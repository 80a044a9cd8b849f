------------------------------- MODULE Upkeep -------------------------------
(* Installing or upgrading the schema (src/src/db.c, db_init_schema), and, *)
(* on the running board, session time and the time bank, the call log and  *)
(* the sysop's maintenance command (src/src/session.c).                    *)
(*                                                                         *)
(* Every session has its own database connection.  A statement is atomic   *)
(* and may be refused (busy, full disk); what a transaction wrote is seen, *)
(* and survives a crash, only once it is committed.  The callers here are  *)
(* sessions of one account: the time bank is per account.                  *)
EXTENDS Integers, Sequences, FiniteSets

CONSTANTS
  Columns,      \* the columns that db_apply_core_migrations adds, in order
  OldColumns,   \* those that an installed database has already
  Sessions,     \* sessions of one account (allow_multi_login)
  Limit,        \* minutes a call may last
  Amounts,      \* minutes typed at the time bank, negative ones too
  Stored,       \* the files table at the start: id -> path
  Recent,       \* ids that are too young to be purged
  Unsafe,       \* paths that file_area_resolve refuses
  PurgeMax,     \* rows one purge lists (512)
  MaxClock2,    \* bound on the clock, in minutes
  MaxCalls,     \* bound on calls
  MaxBanked,    \* bound on minutes deposited
  MaxLeft,      \* bound on time_left_min, either way
  MaxFaults     \* bound on refused statements and crashes

ASSUME UpkeepAssumption ==
  /\ Columns \in Seq({Columns[i] : i \in DOMAIN Columns})
  /\ OldColumns \subseteq {Columns[i] : i \in DOMAIN Columns}
  /\ Limit \in 0..MaxLeft /\ Amounts \subseteq Int /\ PurgeMax \in Nat \ {0}
  /\ {MaxClock2, MaxCalls, MaxBanked, MaxLeft, MaxFaults} \subseteq Nat

VARIABLES
  schema,     \* committed: [cols, version]
  inst,       \* the installer: [pc, work, i]
  sess,       \* the sessions
  bank,       \* meta 'tb_<user>'
  given,      \* history: minutes handed to the bank
  calls,      \* call_history: <<[open, mins], ...>>
  rows,       \* the files table, committed: id -> path
  disk,       \* paths of the files that exist
  mt,         \* the maintenance command: [pc, list, work]
  minute,
  faults

upkeepvars == <<schema, inst, sess, bank, given, calls, rows, disk, mt, minute, faults>>

AllColumns == {Columns[i] : i \in DOMAIN Columns}
NoInstall == [pc |-> "idle", work |-> [cols |-> {}, version |-> FALSE], i |-> 0]
Out == [pc |-> "out", left |-> 0, start |-> 0, call |-> 0, kind |-> "none", m |-> 0, read |-> 0]
NoMaint == [pc |-> "none", list |-> << >>, work |-> << >>]

Fault == faults < MaxFaults /\ faults' = faults + 1

(***************************************************************************)
(* db_init_schema: one transaction around the schema file, the migrations  *)
(* and the PLANK schema.                                                   *)
(***************************************************************************)
Board == <<sess, bank, given, calls, rows, disk, mt, minute>>

\* Also on a database that is up to date: nothing looks at the version.
BeginInstall ==
  /\ inst.pc = "idle" /\ mt.pc # "purge"
  /\ inst' = [pc |-> "schema", work |-> schema, i |-> 1]
  /\ UNCHANGED <<schema, faults, Board>>

\* CREATE TABLE IF NOT EXISTS: a new database gets every column, an old
\* table keeps the ones it has.
ApplySchema ==
  /\ inst.pc = "schema"
  /\ inst' = [inst EXCEPT !.pc = "columns",
                          !.work.cols = IF @ = {} THEN AllColumns ELSE @]
  /\ UNCHANGED <<schema, faults, Board>>

\* The columns one by one, then the tables and the version.
db_add_column_if_missing(cols, c) == cols \cup {c}

AddColumn ==
  /\ inst.pc = "columns" /\ inst.i <= Len(Columns)
  /\ inst' = [inst EXCEPT !.work.cols = db_add_column_if_missing(@, Columns[inst.i]), !.i = @ + 1]
  /\ UNCHANGED <<schema, faults, Board>>

SetVersion ==
  /\ inst.pc = "columns" /\ inst.i > Len(Columns)
  /\ inst' = [inst EXCEPT !.work.version = TRUE, !.pc = "plank"]
  /\ UNCHANGED <<schema, faults, Board>>

ApplyPlank ==
  /\ inst.pc = "plank"
  /\ inst' = [inst EXCEPT !.pc = "commit"]
  /\ UNCHANGED <<schema, faults, Board>>

CommitInstall ==
  /\ inst.pc = "commit"
  /\ schema' = inst.work
  /\ inst' = NoInstall
  /\ UNCHANGED <<faults, Board>>

\* A statement fails or the PLANK file cannot be read: ROLLBACK.  A COMMIT
\* that fails is not rolled back by the code but by closing the connection;
\* a crash ends the same way.
RollbackInstall ==
  /\ inst.pc # "idle" /\ Fault
  /\ inst' = NoInstall
  /\ UNCHANGED <<schema, Board>>

Up == schema.version /\ inst.pc = "idle"

(***************************************************************************)
(* Sessions: the call log, the time limit and the time bank.               *)
(***************************************************************************)
Install == <<schema, inst>>
Files == <<rows, disk, mt>>

db_call_log_start == Append(calls, [open |-> TRUE, mins |-> 0])

db_call_log_end(call, mins) ==
  IF call > 0 THEN [calls EXCEPT ![call] = [open |-> FALSE, mins |-> mins]] ELSE calls

\* The limit is the account's; without a row in the log the call has number 0.
Login(s, logged) ==
  /\ Up /\ sess[s].pc = "out" /\ Len(calls) < MaxCalls
  /\ sess' = [sess EXCEPT ![s] = [Out EXCEPT !.pc = "menu", !.left = Limit, !.start = minute,
                                             !.call = IF logged THEN Len(calls) + 1 ELSE 0]]
  /\ IF logged THEN calls' = db_call_log_start /\ UNCHANGED faults
     ELSE UNCHANGED calls /\ Fault
  /\ UNCHANGED <<Install, bank, given, Files, minute>>

\* A turn of the menu loop.  Whole minutes since the start of the call are
\* taken from time_left_min every time; part says that a part of a minute
\* has passed as well, which the conversion to int rounds up.  Zero is no
\* limit.
Turn(s, part) ==
  LET remaining == sess[s].left - (minute - sess[s].start)
  IN  /\ sess[s].pc = "menu" /\ sess[s].left > 0
      /\ sess' = [sess EXCEPT ![s] = IF remaining <= 0 THEN [@ EXCEPT !.pc = "bye"]
                                     ELSE [@ EXCEPT !.left = remaining - part]]
      /\ UNCHANGED <<Install, bank, given, calls, Files, minute, faults>>

db_timebank_get == bank

\* The minutes leave the session, then db_timebank_add reads the balance.
Deposit(s, m) ==
  /\ sess[s].pc = "menu" /\ m > 0 /\ sess[s].left > m /\ given + m <= MaxBanked
  /\ sess' = [sess EXCEPT ![s] = [@ EXCEPT !.pc = "bank", !.kind = "deposit", !.m = m,
                                           !.left = sess[s].left - m, !.read = db_timebank_get]]
  /\ given' = given + m
  /\ UNCHANGED <<Install, bank, calls, Files, minute, faults>>

\* The amount is not looked at: a negative one puts minutes into the bank.
Withdraw(s, m) ==
  /\ sess[s].pc = "menu" /\ m # 0
  /\ m < 0 => given - m <= MaxBanked
  /\ sess[s].left + m \in -MaxLeft..MaxLeft
  /\ sess' = [sess EXCEPT ![s] = [@ EXCEPT !.pc = "bank", !.kind = "withdraw",
                                           !.m = m, !.read = db_timebank_get]]
  /\ given' = IF m < 0 THEN given - m ELSE given
  /\ UNCHANGED <<Install, bank, calls, Files, minute, faults>>

\* The new balance from the one that was read, never below zero.
db_timebank_add(r) ==
  LET sum == r.read + (IF r.kind = "deposit" THEN r.m ELSE 0 - r.m)
  IN  IF sum < 0 THEN 0 ELSE sum

\* The balance is written over whatever it is now; only then does a
\* withdrawal reach the session.
WriteBank(s, ok) ==
  /\ sess[s].pc = "bank"
  /\ IF ok THEN bank' = db_timebank_add(sess[s]) /\ UNCHANGED faults
     ELSE UNCHANGED bank /\ Fault
  /\ sess' = [sess EXCEPT ![s] =
                [@ EXCEPT !.pc = "menu", !.kind = "none", !.m = 0, !.read = 0,
                          !.left = IF ok /\ sess[s].kind = "withdraw"
                                   THEN sess[s].left + sess[s].m ELSE sess[s].left]]
  /\ UNCHANGED <<Install, given, calls, Files, minute>>

HangUp(s) ==
  /\ sess[s].pc = "menu"
  /\ sess' = [sess EXCEPT ![s].pc = "bye"]
  /\ UNCHANGED <<Install, bank, given, calls, Files, minute, faults>>

\* cleanup: the row of this call is closed, if there is one.
Cleanup(s, ok) ==
  /\ sess[s].pc = "bye"
  /\ IF ok THEN calls' = db_call_log_end(sess[s].call, minute - sess[s].start) /\ UNCHANGED faults
     ELSE UNCHANGED calls /\ Fault
  /\ sess' = [sess EXCEPT ![s] = Out]
  /\ UNCHANGED <<Install, bank, given, Files, minute>>

Minute ==
  /\ Up /\ minute < MaxClock2
  /\ minute' = minute + 1
  /\ UNCHANGED <<Install, sess, bank, given, calls, Files, faults>>

(***************************************************************************)
(* The maintenance command.  Its purge of messages names a column that the *)
(* table does not have and is rolled back every time.                      *)
(***************************************************************************)
Callers2 == <<Install, sess, given, calls, minute>>

MaintStart ==
  /\ Up /\ mt.pc = "none"
  /\ mt' = [NoMaint EXCEPT !.pc = "files"]
  /\ UNCHANGED <<Callers2, bank, rows, disk, faults>>

SkipFiles ==
  /\ mt.pc = "files"
  /\ mt' = [mt EXCEPT !.pc = "pack"]
  /\ UNCHANGED <<Callers2, bank, rows, disk, faults>>

\* The oldest rows by id, at most PurgeMax of them.
db_file_list_older ==
  LET old == DOMAIN rows \ Recent
      Place(i) == Cardinality({j \in old : j <= i})
  IN  [k \in {Place(i) : i \in old} \cap 1..PurgeMax |-> CHOOSE i \in old : Place(i) = k]

file_area_resolve(id) == rows[id] \notin Unsafe

\* Every path is resolved before anything is touched; one that is unsafe
\* ends the purge.
PurgeList ==
  LET list == db_file_list_older
  IN  /\ mt.pc = "files"
      /\ mt' = IF {i \in DOMAIN list : ~file_area_resolve(list[i])} # {}
               THEN [mt EXCEPT !.pc = "pack"]
               ELSE [mt EXCEPT !.pc = "begin", !.list = list]
      /\ UNCHANGED <<Callers2, bank, rows, disk, faults>>

PurgeBegin(ok) ==
  /\ mt.pc = "begin" /\ inst.pc = "idle"
  /\ mt' = IF ok THEN [mt EXCEPT !.pc = "purge", !.work = rows]
           ELSE [mt EXCEPT !.pc = "pack", !.list = << >>]
  /\ IF ok THEN UNCHANGED faults ELSE Fault
  /\ UNCHANGED <<Callers2, bank, rows, disk>>

db_file_delete(f, i) == [j \in DOMAIN f \ {i} |-> f[j]]

\* The file is unlinked at once, its row is deleted in the transaction.
PurgeFile ==
  /\ mt.pc = "purge" /\ mt.list # << >>
  /\ disk' = disk \ {rows[Head(mt.list)]}
  /\ mt' = [mt EXCEPT !.list = Tail(@), !.work = db_file_delete(@, Head(mt.list))]
  /\ UNCHANGED <<Callers2, bank, rows, faults>>

PurgeEnds == [mt EXCEPT !.pc = "pack", !.list = << >>, !.work = << >>]

PurgeCommit ==
  /\ mt.pc = "purge" /\ mt.list = << >>
  /\ rows' = mt.work
  /\ mt' = PurgeEnds
  /\ UNCHANGED <<Callers2, bank, disk, faults>>

\* Mutant: a file that cannot be removed is passed over.
PassOver(gone) ==
  /\ mt.pc = "purge" /\ mt.list # << >> /\ Fault
  /\ mt' = [mt EXCEPT !.list = Tail(@), !.work = db_file_delete(@, Head(mt.list))]
  /\ UNCHANGED <<Callers2, bank, rows, disk>>

\* unlink fails, or the file is gone and its row cannot be deleted: ROLLBACK
\* brings the rows back, not the files.
PurgeFails(gone) ==
  /\ mt.pc = "purge" /\ mt.list # << >> /\ Fault
  /\ disk' = IF gone THEN disk \ {rows[Head(mt.list)]} ELSE disk
  /\ mt' = PurgeEnds
  /\ UNCHANGED <<Callers2, bank, rows>>

CommitFails ==
  /\ mt.pc = "purge" /\ mt.list = << >> /\ Fault
  /\ mt' = PurgeEnds
  /\ UNCHANGED <<Callers2, bank, rows, disk>>

\* Pack users: the whole account loses its balance, sessions in the middle
\* of db_timebank_add included.
PackUsers(yes) ==
  /\ mt.pc = "pack"
  /\ mt' = NoMaint
  /\ bank' = IF yes THEN 0 ELSE bank
  /\ UNCHANGED <<Callers2, rows, disk, faults>>

\* The process dies: calls stay open, the purge's transaction is gone.
Killed ==
  /\ Up /\ Fault
  /\ sess' = [s \in Sessions |-> Out]
  /\ mt' = NoMaint
  /\ UNCHANGED <<Install, bank, given, calls, rows, disk, minute>>

UpkeepInit ==
  /\ schema \in {[cols |-> {}, version |-> FALSE], [cols |-> OldColumns, version |-> FALSE],
                 [cols |-> AllColumns, version |-> TRUE]}
  /\ inst = NoInstall
  /\ sess = [s \in Sessions |-> Out]
  /\ bank = 0 /\ given = 0
  /\ calls = << >>
  /\ rows = Stored
  /\ disk = {Stored[i] : i \in DOMAIN Stored}
  /\ mt = NoMaint
  /\ minute = 0 /\ faults = 0

InstallNext ==
  \/ BeginInstall \/ ApplySchema \/ AddColumn \/ SetVersion \/ ApplyPlank
  \/ CommitInstall \/ RollbackInstall

CallersNext ==
  \/ \E s \in Sessions :
       \/ \E ok \in BOOLEAN : Login(s, ok) \/ WriteBank(s, ok) \/ Cleanup(s, ok)
       \/ \E pt \in 0..1 : Turn(s, pt)
       \/ \E m \in Amounts : Deposit(s, m) \/ Withdraw(s, m)
       \/ HangUp(s)
  \/ Minute

PurgeNext ==
  \/ PurgeList \/ PurgeFile \/ PurgeCommit \/ CommitFails
  \/ \E b \in BOOLEAN : PurgeBegin(b) \/ PurgeFails(b)

MaintNext == MaintStart \/ SkipFiles \/ \E b \in BOOLEAN : PackUsers(b)

UpkeepNext == InstallNext \/ CallersNext \/ PurgeNext \/ MaintNext \/ Killed

UpkeepSpec == UpkeepInit /\ [][UpkeepNext]_upkeepvars

UpkeepTypeOK ==
  /\ schema.cols \subseteq AllColumns
  /\ \A s \in Sessions : /\ sess[s].pc \in {"out", "menu", "bank", "bye"}
                         /\ sess[s].left \in -MaxLeft..MaxLeft /\ sess[s].call \in 0..Len(calls)
  /\ bank \in 0..MaxBanked /\ given \in 0..MaxBanked
  /\ \A i \in DOMAIN calls : calls[i].open \in BOOLEAN /\ calls[i].mins \in 0..MaxClock2
  /\ DOMAIN rows \subseteq DOMAIN Stored
  /\ mt.pc \in {"none", "files", "begin", "purge", "pack"}

\* The database is as it was or fully upgraded, never in between, whichever
\* statement fails and whenever the installer dies; a database that says it
\* has the version has all of the columns.
SchemaWhole ==
  /\ schema.cols \in {{}, OldColumns, AllColumns}
  /\ schema.version => schema.cols = AllColumns

\* Nobody finds minutes in the bank that no session has put there, however
\* the reads and writes of two sessions of the account and a pack of the
\* users interleave.
BankFunded == bank <= given

\* A file on disk has its row: a purge never forgets a file that it could
\* not remove.  (The other way round it leaves rows without files when it is
\* rolled back.)
NoStray == disk \subseteq {rows[i] : i \in DOMAIN rows}

\* The upkeep of the data: the schema is whole, the bank is funded and no
\* file is forgotten, whichever statements fail and whenever the process dies.
UpkeepInv == UpkeepTypeOK /\ SchemaWhole /\ BankFunded /\ NoStray
=============================================================================
