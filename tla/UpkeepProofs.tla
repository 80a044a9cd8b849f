---------------------------- MODULE UpkeepProofs ----------------------------
(***************************************************************************)
(* Proofs about what the sysop looks after, Upkeep, Scheduler and Tables,  *)
(* which share no state, for any columns, files, events, sessions and      *)
(* lengths of time.                                                        *)
(*                                                                         *)
(* Upkeep.  Installing: the columns that the installer has been through    *)
(* are in what it will commit.  Funded: a session that is about to write   *)
(* the bank's balance has read one that was funded, and what it adds has   *)
(* been counted.  Purging: the rows that a purge would leave are those of  *)
(* the table, and every file on disk still has one of them.                *)
(*                                                                         *)
(* Scheduler.  Nobody but the scheduler writes the time of a row, so what  *)
(* a pass copied of it stays true while the editor changes the table.      *)
(* Fresh: what has run is past, and a time that is stored or about to be   *)
(* looked at has run only as often as the process died.  Announced: no     *)
(* later time than that has been announced.  Heard: as long as the slots   *)
(* are enough, they are taken in order, one for each event.                *)
(*                                                                         *)
(* Tables.  Sound: what every statement of an editor leaves behind.        *)
(* Holds: the row or the file that a session will write, read before it    *)
(* waited, still has its form.  Tallied: the shares that a session is      *)
(* about to show fit the ballots, of which there are only ever more.       *)
(***************************************************************************)
EXTENDS Scheduler, Upkeep, Tables, FiniteSetTheorems, SequenceTheorems, WellFoundedInduction, TLAPS

-----------------------------------------------------------------------------
(* The inductive invariant of Upkeep.                                      *)

SchemaRows == [cols : SUBSET AllColumns, version : BOOLEAN]
InstRows == [pc : {"idle", "schema", "columns", "plank", "commit"}, work : SchemaRows, i : Nat]
Ready(r) ==
  /\ r.work.version => r.work.cols = AllColumns
  /\ r.pc = "schema" => r.i = 1
  /\ r.pc = "columns" =>
       r.i >= 1 /\ \A j \in DOMAIN Columns : j < r.i => Columns[j] \in r.work.cols
  /\ r.pc \in {"plank", "commit"} => r.work.cols = AllColumns
Installing == /\ schema \in SchemaRows /\ SchemaWhole
              /\ inst \in InstRows /\ Ready(inst)

Minutes == -MaxLeft..MaxLeft
CallRows == [open : BOOLEAN, mins : 0..MaxClock2]
SessRows == [pc : {"out", "menu", "bank", "bye"}, left : Minutes, start : 0..MaxClock2,
             call : Nat, kind : {"none", "deposit", "withdraw"}, m : Int, read : Nat]

\* A balance about to be written: read when it was funded, and whatever is
\* put in has been counted.
Owing(r, g) ==
  r.pc = "bank" =>
    /\ r.read <= g
    /\ r.kind = "deposit" => r.read + r.m <= g
    /\ r.kind # "deposit" => r.read - r.m <= g \/ r.m > 0
    /\ r.kind = "withdraw" => r.left + r.m \in Minutes
Calling ==
  /\ sess \in [Sessions -> SessRows] /\ minute \in 0..MaxClock2
  /\ calls \in Seq(CallRows)
  /\ \A s \in Sessions : sess[s].call <= Len(calls) /\ sess[s].start <= minute
Funded ==
  /\ given \in 0..MaxBanked /\ bank \in 0..given
  /\ \A s \in Sessions : Owing(sess[s], given)

\* What the purge would leave of the table, with a row for every file.
Leaves(w) ==
  /\ DOMAIN w \subseteq DOMAIN rows /\ \A i \in DOMAIN w : w[i] = rows[i]
  /\ \A x \in disk : \E i \in DOMAIN w : x = w[i]
Purging ==
  /\ DOMAIN rows \subseteq DOMAIN Stored /\ Leaves(rows)
  /\ DOMAIN mt = {"pc", "list", "work"} /\ mt.pc \in {"none", "files", "begin", "purge", "pack"}
  /\ mt.pc = "purge" => Leaves(mt.work)

Kept == Installing /\ Calling /\ Funded /\ Purging

-----------------------------------------------------------------------------
(* What a step that does not write a variable leaves true.                 *)

LEMMA UpkeepUnchanged ==
  /\ Installing /\ UNCHANGED Install => Installing'
  /\ Calling /\ UNCHANGED <<sess, minute, calls>> => Calling'
  /\ Funded /\ UNCHANGED <<sess, bank, given>> => Funded'
  /\ Purging /\ UNCHANGED Files => Purging'
BY DEF Installing, Install, SchemaRows, AllColumns, SchemaWhole, Calling, SessRows, CallRows,
       Minutes, Funded, Owing, Purging, Leaves, Files

\* The bounds.
LEMMA UpkeepBounds ==
  /\ MaxLeft \in Nat /\ MaxBanked \in Nat /\ MaxClock2 \in Nat /\ MaxCalls \in Nat /\ MaxFaults \in Nat
  /\ Limit \in 0..MaxLeft /\ Amounts \subseteq Int
BY UpkeepAssumption

\* The columns that are all there.
LEMMA AllOfThem == ASSUME NEW C \in SUBSET AllColumns, \A j \in DOMAIN Columns : Columns[j] \in C
                   PROVE  C = AllColumns
BY DEF AllColumns

-----------------------------------------------------------------------------
(* The installer.                                                          *)

\* The start of a transaction and its end.
LEMMA Resting == NoInstall \in InstRows /\ Ready(NoInstall)
<1>1. [cols |-> {}, version |-> FALSE] \in SchemaRows
  BY DEF SchemaRows
<1> QED
  BY <1>1 DEF NoInstall, InstRows, Ready

LEMMA InstallStep == ASSUME Kept, InstallNext PROVE Kept'
<1> USE DEF Kept
<1>0. SchemaRows' = SchemaRows /\ AllColumns' = AllColumns /\ InstRows' = InstRows /\ NoInstall' = NoInstall
  BY DEF SchemaRows, AllColumns, InstRows, NoInstall
<1>1. UNCHANGED Board
  BY DEF InstallNext, BeginInstall, ApplySchema, AddColumn, SetVersion, ApplyPlank,
         CommitInstall, RollbackInstall
<1>2. Calling' /\ Funded' /\ Purging'
  BY <1>1, UpkeepUnchanged DEF Board, Files
<1>3. SUFFICES /\ schema' \in SchemaRows /\ SchemaWhole'
               /\ inst' \in InstRows /\ Ready(inst')
  BY <1>0, <1>2 DEF Installing, Ready
<1>4. /\ schema \in SchemaRows /\ SchemaWhole /\ inst \in InstRows /\ Ready(inst)
      /\ schema = [cols |-> schema.cols, version |-> schema.version]
  BY DEF Installing, SchemaRows
<1>5. UNCHANGED schema => schema' \in SchemaRows /\ SchemaWhole'
  BY <1>4, <1>0 DEF SchemaWhole
<1>6. CASE BeginInstall
  <2>1. /\ inst'.pc = "schema" /\ inst'.work = schema
        /\ inst' \in [pc : {"schema"}, work : {schema}, i : {1}] /\ UNCHANGED schema
    BY <1>6 DEF BeginInstall
  <2>2. inst' \in InstRows
    BY <2>1, <1>4 DEF InstRows
  <2> QED  BY <1>4, <1>5, <2>1, <2>2 DEF Ready, SchemaWhole
<1>7. CASE ApplySchema
  <2> DEFINE c == IF inst.work.cols = {} THEN AllColumns ELSE inst.work.cols
             w == [cols |-> c, version |-> inst.work.version]
  <2>1. w \in SchemaRows
    BY <1>4 DEF SchemaRows, InstRows
  <2>2. inst'.work = w
    BY <1>4, <1>7 DEF ApplySchema, InstRows, SchemaRows
  <2>3. inst'.pc = "columns" /\ inst'.i = 1 /\ UNCHANGED schema
    BY <1>4, <1>7 DEF ApplySchema, InstRows, Ready
  <2>4. inst' \in InstRows
    BY <1>4, <1>7, <2>1, <2>2, <2>3 DEF ApplySchema, InstRows
  <2>5. inst.work.cols = {} \/ c = inst.work.cols
    OBVIOUS
  <2>6. \A j \in DOMAIN Columns : ~(j < 1)
    BY LenProperties, UpkeepAssumption
  <2>7. w.version => w.cols = AllColumns
    BY <1>4, <2>5 DEF Ready
  <2> QED  BY <1>5, <2>2, <2>3, <2>4, <2>6, <2>7 DEF Ready
<1>8. CASE AddColumn
  <2> DEFINE c == inst.work.cols \cup {Columns[inst.i]}
             w == [cols |-> c, version |-> inst.work.version]
  <2>0. inst.i \in Nat /\ inst.i <= Len(Columns)
    BY <1>4, <1>8 DEF AddColumn, InstRows
  <2>8. DOMAIN Columns = 1..Len(Columns) /\ Len(Columns) \in Nat
    BY LenProperties, UpkeepAssumption
  <2>9. Columns[inst.i] \in AllColumns /\ inst.i >= 1
    BY <1>4, <1>8, <2>0, <2>8 DEF AllColumns, AddColumn, Ready
  <2>1. w \in SchemaRows
    BY <1>4, <2>9 DEF SchemaRows, InstRows
  <2>2. inst'.work = w
    BY <1>4, <1>8 DEF AddColumn, InstRows, SchemaRows, db_add_column_if_missing
  <2>3. inst'.pc = "columns" /\ inst'.i = inst.i + 1 /\ inst.pc = "columns" /\ UNCHANGED schema
    BY <1>4, <1>8 DEF AddColumn, InstRows
  <2>4. inst' \in InstRows
    <3>1. [inst.work EXCEPT !.cols = c] = w /\ inst \in InstRows
      BY <1>4 DEF InstRows, SchemaRows
    <3>2. inst' = [inst EXCEPT !.work = [inst.work EXCEPT !.cols = c], !.i = inst.i + 1]
      BY <1>8 DEF AddColumn, db_add_column_if_missing
    <3>3. inst.i + 1 \in Nat
      BY <2>0
    <3> DEFINE k == inst.i + 1
    <3> HIDE DEF w, c, k
    <3> QED  BY <2>1, <3>1, <3>2, <3>3 DEF InstRows
  <2>5. w.version => w.cols = AllColumns
    BY <1>4, <2>9 DEF Ready
  <2>6. \A j \in DOMAIN Columns : j < inst.i + 1 => Columns[j] \in c
    BY <1>4, <2>0, <2>3, <2>8 DEF Ready
  <2> QED  BY <1>5, <2>0, <2>2, <2>3, <2>4, <2>5, <2>6, <2>9 DEF Ready
<1>9. CASE SetVersion
  <2> DEFINE w == [cols |-> inst.work.cols, version |-> TRUE]
  <2>1. w \in SchemaRows
    BY <1>4 DEF SchemaRows, InstRows
  <2>2. inst'.work = w
    BY <1>4, <1>9 DEF SetVersion, InstRows, SchemaRows
  <2>3. inst'.pc = "plank" /\ inst.pc = "columns" /\ UNCHANGED schema
    BY <1>4, <1>9 DEF SetVersion, InstRows
  <2>4. inst' \in InstRows
    BY <1>4, <1>9, <2>1, <2>2, <2>3 DEF SetVersion, InstRows
  <2>5. DOMAIN Columns = 1..Len(Columns) /\ Len(Columns) \in Nat /\ inst.i > Len(Columns) /\ inst.i \in Nat
    BY <1>4, <1>9, LenProperties, UpkeepAssumption DEF SetVersion, InstRows
  <2>6. \A j \in DOMAIN Columns : Columns[j] \in inst.work.cols
    BY <1>4, <2>3, <2>5 DEF Ready
  <2>7. inst.work.cols = AllColumns
    BY <1>4, <2>6, AllOfThem DEF InstRows, SchemaRows
  <2> QED  BY <1>5, <2>2, <2>3, <2>4, <2>7 DEF Ready
<1>10. CASE ApplyPlank
  <2>1. inst' \in InstRows /\ inst'.pc = "commit" /\ inst'.work = inst.work /\ UNCHANGED schema
    BY <1>4, <1>10 DEF ApplyPlank, InstRows
  <2> QED  BY <1>4, <1>5, <1>10, <2>1 DEF Ready, ApplyPlank
<1>11. CASE CommitInstall
  <2>1. schema' \in SchemaRows /\ schema'.cols = AllColumns
    BY <1>4, <1>11 DEF CommitInstall, InstRows, Ready
  <2> QED  BY <1>0, <1>11, <2>1, Resting DEF CommitInstall, SchemaWhole
<1>12. CASE RollbackInstall
  BY <1>5, <1>12, Resting DEF RollbackInstall
<1> QED
  BY <1>6, <1>7, <1>8, <1>9, <1>10, <1>11, <1>12 DEF InstallNext

-----------------------------------------------------------------------------
(* The sessions and the bank.                                              *)

\* A session's record is replaced; the log only grows, and so does what has
\* been handed to the bank.
LEMMA Replaces ==
  ASSUME Calling, Funded, NEW s \in Sessions, NEW r \in SessRows,
         sess' = [sess EXCEPT ![s] = r], minute' = minute,
         calls' \in Seq(CallRows), Len(calls') >= Len(calls),
         r.call <= Len(calls'), r.start <= minute,
         given' \in given..MaxBanked, bank' \in 0..given', Owing(r, given')
  PROVE  Calling' /\ Funded'
<1>1. sess \in [Sessions -> SessRows] /\ given \in Nat /\ Len(calls) \in Nat /\ Len(calls') \in Nat
  BY LenProperties, UpkeepBounds DEF Calling, Funded
<1>2. sess' \in [Sessions -> SessRows] /\ SessRows' = SessRows /\ CallRows' = CallRows
  BY <1>1 DEF SessRows, CallRows, Minutes
<1>3. Calling'
  <2>1. \A q \in Sessions : sess'[q].call <= Len(calls') /\ sess'[q].start <= minute'
    <3> SUFFICES ASSUME NEW q \in Sessions
                 PROVE  sess'[q].call <= Len(calls') /\ sess'[q].start <= minute'
      OBVIOUS
    <3>1. CASE q = s
      BY <1>1, <3>1
    <3>2. CASE q # s
      <4>1. sess'[q] = sess[q] /\ sess[q] \in SessRows
        BY <1>1, <3>2
      <4>2. sess[q].call \in Int /\ sess[q].call <= Len(calls) /\ sess[q].start <= minute
        BY <4>1 DEF Calling, SessRows
      <4> QED  BY <1>1, <4>1, <4>2
    <3> QED  BY <3>1, <3>2
  <2> QED  BY <1>2, <2>1 DEF Calling
<1>4. \A q \in Sessions : Owing(sess'[q], given')
  <2> SUFFICES ASSUME NEW q \in Sessions PROVE Owing(sess'[q], given')
    OBVIOUS
  <2>1. CASE q = s
    BY <1>1, <2>1
  <2>2. CASE q # s
    <3>1. sess'[q] = sess[q] /\ Owing(sess[q], given) /\ sess[q] \in SessRows
      BY <1>1, <2>2 DEF Funded
    <3>2. given' \in Int /\ given <= given' /\ sess[q].read \in Int /\ sess[q].m \in Int
      BY <1>1, <3>1, UpkeepBounds DEF SessRows
    <3>3. Owing(sess[q], given')
      BY <1>1, <3>1, <3>2 DEF Owing
    <3> QED  BY <3>1, <3>3
  <2> QED  BY <2>1, <2>2
<1> QED
  BY <1>1, <1>3, <1>4, UpkeepBounds DEF Funded

LEMMA OutFields == /\ Out \in SessRows /\ Out.pc = "out" /\ Out.call = 0 /\ Out.start = 0
BY UpkeepBounds DEF Out, SessRows, Minutes

\* The bank and the log as they were.
LEMMA StillThere ==
  ASSUME Calling, Funded
  PROVE  /\ given \in given..MaxBanked /\ bank \in 0..given /\ given \in Nat /\ bank \in Nat
         /\ calls \in Seq(CallRows) /\ Len(calls) \in Nat /\ Len(calls) >= Len(calls)
         /\ minute \in 0..MaxClock2 /\ sess \in [Sessions -> SessRows]
         /\ \A s \in Sessions : /\ sess[s] \in SessRows /\ sess[s].call <= Len(calls)
                                /\ sess[s].start <= minute /\ Owing(sess[s], given)
BY LenProperties, UpkeepBounds DEF Calling, Funded

LEMMA LoginStep == ASSUME Kept, NEW s \in Sessions, NEW b \in BOOLEAN, Login(s, b)
                   PROVE  Calling' /\ Funded'
<1> DEFINE n == IF b THEN Len(calls) + 1 ELSE 0
           r == [Out EXCEPT !.pc = "menu", !.left = Limit, !.start = minute, !.call = n]
<1>0. Calling /\ Funded
  BY DEF Kept
<1>1. n \in Nat /\ Limit \in Minutes
  BY <1>0, StillThere, UpkeepBounds DEF Minutes
<1>2. r \in SessRows /\ r.pc = "menu" /\ r.call = n /\ r.start = minute
  BY <1>0, <1>1, OutFields, StillThere DEF SessRows
<1>3. sess' = [sess EXCEPT ![s] = r] /\ UNCHANGED <<bank, given, minute>>
  BY DEF Login
<1>4. calls' \in Seq(CallRows) /\ Len(calls') >= Len(calls) /\ n <= Len(calls')
  <2>1. CASE b
    <3>1. [open |-> TRUE, mins |-> 0] \in CallRows
      BY UpkeepBounds DEF CallRows
    <3>2. calls' = Append(calls, [open |-> TRUE, mins |-> 0]) /\ n = Len(calls) + 1
      BY <2>1 DEF Login, db_call_log_start
    <3>3. calls \in Seq(CallRows) /\ Len(calls) \in Nat
      BY <1>0, StillThere
    <3>4. calls' \in Seq(CallRows) /\ Len(calls') = Len(calls) + 1
      BY <3>1, <3>2, <3>3, AppendProperties
    <3> QED  BY <3>2, <3>3, <3>4
  <2>2. CASE ~b
    BY <1>0, <2>2, StillThere DEF Login
  <2> QED  BY <2>1, <2>2
<1>5. Owing(r, given')
  BY <1>2 DEF Owing
<1>6. minute <= minute
  BY <1>0, StillThere
<1> HIDE DEF r, n
<1> QED
  BY <1>0, <1>2, <1>3, <1>4, <1>5, <1>6, StillThere, Replaces

LEMMA TurnStep == ASSUME Kept, NEW s \in Sessions, NEW k \in 0..1, Turn(s, k)
                  PROVE  Calling' /\ Funded'
<1> DEFINE remaining == sess[s].left - (minute - sess[s].start)
           r == IF remaining <= 0 THEN [sess[s] EXCEPT !.pc = "bye"]
                ELSE [sess[s] EXCEPT !.left = remaining - k]
<1>0. Calling /\ Funded
  BY DEF Kept
<1>1. /\ sess[s].left \in Minutes /\ sess[s].start \in 0..minute /\ sess[s].pc = "menu"
      /\ sess[s] \in SessRows /\ minute \in Nat
  BY <1>0, StillThere, UpkeepBounds DEF SessRows, Turn
<1>2. remaining > 0 => remaining - k \in Minutes
  <2>1. MaxLeft \in Nat /\ sess[s].left \in Int /\ sess[s].left <= MaxLeft
    BY <1>1, UpkeepBounds DEF Minutes
  <2>2. minute - sess[s].start \in Nat
    BY <1>1
  <2>3. PICK d \in Nat : d = minute - sess[s].start
    BY <2>2
  <2> QED  BY <2>1, <2>3 DEF Minutes
<1>3. r \in SessRows /\ r.pc # "bank" /\ r.call = sess[s].call /\ r.start = sess[s].start
  BY <1>1, <1>2 DEF SessRows, Minutes
<1>4. sess' = [sess EXCEPT ![s] = r] /\ UNCHANGED <<bank, given, minute, calls>>
  BY DEF Turn
<1>5. Owing(r, given')
  BY <1>3 DEF Owing
<1> HIDE DEF r
<1> QED
  BY <1>0, <1>3, <1>4, <1>5, StillThere, Replaces

LEMMA DepositStep == ASSUME Kept, NEW s \in Sessions, NEW m \in Amounts, Deposit(s, m)
                     PROVE  Calling' /\ Funded'
<1> DEFINE r == [sess[s] EXCEPT !.pc = "bank", !.kind = "deposit", !.m = m,
                                !.left = sess[s].left - m, !.read = bank]
<1>0. Calling /\ Funded
  BY DEF Kept
<1>1. sess[s] \in SessRows /\ sess[s].left \in Int /\ m \in Int /\ m > 0 /\ sess[s].left > m
  BY <1>0, StillThere, UpkeepBounds DEF SessRows, Minutes, Deposit
<1>2. sess[s].left - m \in Minutes
  <2>1. MaxLeft \in Nat /\ sess[s].left <= MaxLeft
    BY <1>1, UpkeepBounds DEF SessRows, Minutes
  <2> QED  BY <1>1, <2>1 DEF Minutes
<1>3. /\ r \in SessRows /\ r.kind = "deposit" /\ r.m = m /\ r.read = bank
      /\ r.call = sess[s].call /\ r.start = sess[s].start
  BY <1>0, <1>1, <1>2, StillThere DEF SessRows
<1>4. sess' = [sess EXCEPT ![s] = r] /\ UNCHANGED <<bank, minute, calls>> /\ given' = given + m
      /\ given + m <= MaxBanked
  BY DEF Deposit, db_timebank_get
<1>5. given' \in given..MaxBanked /\ bank \in 0..given' /\ bank <= given' /\ bank + m <= given'
  <2>1. given \in Nat /\ bank \in Nat /\ bank <= given /\ MaxBanked \in Nat
    BY <1>0, StillThere, UpkeepBounds
  <2> QED  BY <1>1, <1>4, <2>1
<1>6. Owing(r, given')
  BY <1>3, <1>5 DEF Owing
<1> HIDE DEF r
<1> QED
  BY <1>0, <1>3, <1>4, <1>5, <1>6, StillThere, Replaces

LEMMA WithdrawStep == ASSUME Kept, NEW s \in Sessions, NEW m \in Amounts, Withdraw(s, m)
                      PROVE  Calling' /\ Funded'
<1> DEFINE r == [sess[s] EXCEPT !.pc = "bank", !.kind = "withdraw", !.m = m, !.read = bank]
<1>0. Calling /\ Funded
  BY DEF Kept
<1>1. sess[s] \in SessRows /\ m \in Int /\ sess[s].left + m \in Minutes
  BY <1>0, StillThere, UpkeepBounds DEF Minutes, Withdraw
<1>3. /\ r \in SessRows /\ r.kind = "withdraw" /\ r.m = m /\ r.read = bank
      /\ r.left = sess[s].left /\ r.call = sess[s].call /\ r.start = sess[s].start
  BY <1>0, <1>1, StillThere DEF SessRows
<1>4. sess' = [sess EXCEPT ![s] = r] /\ UNCHANGED <<bank, minute, calls>> /\ m # 0
      /\ given' = (IF m < 0 THEN given - m ELSE given) /\ (m < 0 => given - m <= MaxBanked)
  BY DEF Withdraw, db_timebank_get
<1>5. given' \in given..MaxBanked /\ bank \in 0..given' /\ bank <= given'
      /\ (bank - m <= given' \/ m > 0)
  <2>1. given \in Nat /\ given <= MaxBanked /\ bank \in Nat /\ bank <= given /\ MaxBanked \in Nat
    BY <1>0, StillThere, UpkeepBounds
  <2> QED  BY <1>1, <1>4, <2>1
<1>6. Owing(r, given')
  BY <1>1, <1>3, <1>5 DEF Owing
<1> HIDE DEF r
<1> QED
  BY <1>0, <1>3, <1>4, <1>5, <1>6, StillThere, Replaces

LEMMA WriteBankStep == ASSUME Kept, NEW s \in Sessions, NEW b \in BOOLEAN, WriteBank(s, b)
                       PROVE  Calling' /\ Funded'
<1> DEFINE left == IF b /\ sess[s].kind = "withdraw" THEN sess[s].left + sess[s].m ELSE sess[s].left
           r == [sess[s] EXCEPT !.pc = "menu", !.kind = "none", !.m = 0, !.read = 0, !.left = left]
<1>0. Calling /\ Funded
  BY DEF Kept
<1>1. sess[s] \in SessRows /\ sess[s].pc = "bank" /\ Owing(sess[s], given)
  BY <1>0, StillThere DEF WriteBank
<1>2. left \in Minutes
  BY <1>1 DEF Owing, SessRows
<1> HIDE DEF left
<1>3. r \in SessRows /\ r.pc = "menu" /\ r.call = sess[s].call /\ r.start = sess[s].start
  <2>1. sess[s] \in SessRows
    BY <1>1
  <2>2. "menu" \in {"out", "menu", "bank", "bye"} /\ "none" \in {"none", "deposit", "withdraw"}
        /\ 0 \in Int /\ 0 \in Nat
    OBVIOUS
  <2>3. r \in SessRows
    BY <1>2, <2>1, <2>2 DEF SessRows
  <2> QED  BY <2>1, <2>3 DEF SessRows
<1>4. sess' = [sess EXCEPT ![s] = r] /\ UNCHANGED <<given, minute, calls>>
  BY DEF WriteBank, left
<1>5. bank' \in 0..given'
  <2>1. CASE b
    <3>1. bank' = db_timebank_add(sess[s])
      BY <2>1 DEF WriteBank
    <3>2. sess[s].read \in Nat /\ sess[s].m \in Int /\ given \in Nat
      BY <1>0, <1>1, StillThere DEF SessRows
    <3>3. CASE sess[s].kind = "deposit"
      BY <1>1, <1>4, <3>1, <3>2, <3>3 DEF Owing, db_timebank_add
    <3>4. CASE sess[s].kind # "deposit"
      <4>1. sess[s].read + (0 - sess[s].m) <= given
        BY <1>1, <3>2, <3>4 DEF Owing
      <4> QED  BY <1>4, <3>1, <3>2, <3>4, <4>1 DEF db_timebank_add
    <3> QED  BY <3>3, <3>4
  <2>2. CASE ~b
    BY <1>0, <1>4, <2>2, StillThere DEF WriteBank
  <2> QED  BY <2>1, <2>2
<1>6. Owing(r, given')
  BY <1>3 DEF Owing
<1> HIDE DEF r
<1> QED
  BY <1>0, <1>1, <1>3, <1>4, <1>5, <1>6, StillThere, Replaces

LEMMA HangUpStep == ASSUME Kept, NEW s \in Sessions, HangUp(s)
                    PROVE  Calling' /\ Funded'
<1> DEFINE r == [sess[s] EXCEPT !.pc = "bye"]
<1>0. Calling /\ Funded
  BY DEF Kept
<1>1. r \in SessRows /\ r.pc = "bye" /\ r.call = sess[s].call /\ r.start = sess[s].start
  BY <1>0, StillThere DEF SessRows
<1>2. sess' = [sess EXCEPT ![s] = r] /\ UNCHANGED <<bank, given, minute, calls>>
  BY DEF HangUp
<1>3. Owing(r, given')
  BY <1>1 DEF Owing
<1> HIDE DEF r
<1> QED
  BY <1>0, <1>1, <1>2, <1>3, StillThere, Replaces

LEMMA CleanupStep == ASSUME Kept, NEW s \in Sessions, NEW b \in BOOLEAN, Cleanup(s, b)
                     PROVE  Calling' /\ Funded'
<1>0. Calling /\ Funded
  BY DEF Kept
<1>1. sess' = [sess EXCEPT ![s] = Out] /\ UNCHANGED <<bank, given, minute>>
  BY DEF Cleanup
<1>2. calls' \in Seq(CallRows) /\ Len(calls') = Len(calls)
  <2>1. CASE UNCHANGED calls
    BY <1>0, <2>1, StillThere
  <2>2. CASE b /\ sess[s].call > 0
    <3> DEFINE e == [open |-> FALSE, mins |-> minute - sess[s].start]
               c == sess[s].call
    <3>1. e \in CallRows
      BY <1>0, StillThere, UpkeepBounds DEF CallRows, SessRows
    <3>2. calls' = [calls EXCEPT ![c] = e]
      BY <2>2 DEF Cleanup, db_call_log_end
    <3>3. c \in 1..Len(calls)
      BY <1>0, <2>2, StillThere DEF SessRows
    <3> HIDE DEF e, c
    <3> QED  BY <1>0, <3>1, <3>2, <3>3, StillThere, ExceptSeq
  <2> QED  BY <2>1, <2>2 DEF Cleanup, db_call_log_end
<1>3. Owing(Out, given') /\ Out.call <= Len(calls') /\ Out.start <= minute
  BY <1>0, <1>2, OutFields, StillThere DEF Owing
<1> QED
  BY <1>0, <1>1, <1>2, <1>3, OutFields, StillThere, Replaces

LEMMA MinuteStep == ASSUME Kept, Minute PROVE Calling' /\ Funded'
<1>0. Calling /\ Funded
  BY DEF Kept
<1>1. UNCHANGED <<sess, bank, given, calls>> /\ minute' \in 0..MaxClock2 /\ minute <= minute' /\ minute \in Nat
      /\ minute' \in Nat
  BY <1>0, StillThere, UpkeepBounds DEF Minute
<1>2. Funded'
  BY <1>0, <1>1, UpkeepUnchanged
<1>3. \A s \in Sessions : sess[s].start <= minute'
  BY <1>0, <1>1, StillThere DEF SessRows
<1>4. SessRows' = SessRows /\ CallRows' = CallRows
  BY DEF SessRows, CallRows, Minutes
<1> QED
  BY <1>0, <1>1, <1>2, <1>3, <1>4 DEF Calling

LEMMA CallersStep == ASSUME Kept, CallersNext PROVE Kept'
<1>1. UNCHANGED <<Install, Files>>
  BY DEF CallersNext, Login, WriteBank, Cleanup, Turn, Deposit, Withdraw, HangUp, Minute
<1>2. Installing' /\ Purging'
  BY <1>1, UpkeepUnchanged DEF Kept
<1>3. Calling' /\ Funded'
  BY LoginStep, WriteBankStep, CleanupStep, TurnStep, DepositStep, WithdrawStep, HangUpStep,
     MinuteStep DEF CallersNext
<1> QED
  BY <1>2, <1>3 DEF Kept

\* The process dies, or a pack empties the bank.
LEMMA KilledStep == ASSUME Kept, Killed PROVE Kept'
<1>0. Calling /\ Funded /\ Installing /\ Purging
  BY DEF Kept
<1>1. UNCHANGED <<Install, bank, given, calls, rows, disk, minute>> /\ mt' = NoMaint
      /\ sess' = [s \in Sessions |-> Out]
  BY DEF Killed
<1>2. SessRows' = SessRows /\ CallRows' = CallRows
  BY DEF SessRows, CallRows, Minutes
<1>3. sess' \in [Sessions -> SessRows] /\ \A s \in Sessions : sess'[s] = Out
  BY <1>1, OutFields
<1>4. Calling'
  BY <1>0, <1>1, <1>2, <1>3, OutFields, StillThere DEF Calling
<1>5. Funded'
  BY <1>0, <1>1, <1>3, OutFields DEF Funded, Owing
<1>6. Purging'
  BY <1>0, <1>1 DEF Purging, NoMaint, Leaves
<1> QED
  BY <1>0, <1>1, <1>4, <1>5, <1>6, UpkeepUnchanged DEF Kept

LEMMA PackStep == ASSUME Kept, NEW b \in BOOLEAN, PackUsers(b) PROVE Kept'
<1>0. Calling /\ Funded /\ Installing /\ Purging
  BY DEF Kept
<1>1. UNCHANGED <<Install, sess, given, calls, minute, rows, disk>> /\ mt' = NoMaint /\ bank' \in {0, bank}
  BY DEF PackUsers, Callers2
<1>2. Funded'
  BY <1>0, <1>1, StillThere DEF Funded
<1>3. Purging'
  BY <1>0, <1>1 DEF Purging, NoMaint, Leaves
<1> QED
  BY <1>0, <1>1, <1>2, <1>3, UpkeepUnchanged DEF Kept

-----------------------------------------------------------------------------
(* The purge.                                                              *)

LEMMA PurgeStep ==
  ASSUME Kept, PurgeNext \/ MaintStart \/ SkipFiles
  PROVE  Kept'
<1>0. Calling /\ Funded /\ Installing /\ Purging
  BY DEF Kept
<1>1. UNCHANGED <<Callers2, bank>>
  BY DEF PurgeNext, PurgeList, PurgeFile, PurgeCommit, CommitFails, PurgeBegin, PurgeFails,
         MaintStart, SkipFiles
<1>2. Calling' /\ Funded' /\ Installing'
  BY <1>0, <1>1, UpkeepUnchanged DEF Callers2, Install
<1> SUFFICES Purging'
  BY <1>2 DEF Kept
<1>3. DOMAIN mt = {"pc", "list", "work"} /\ mt.pc \in {"none", "files", "begin", "purge", "pack"}
  BY <1>0 DEF Purging
<1>m. ASSUME rows' = rows, disk' \subseteq disk, DOMAIN mt' = {"pc", "list", "work"},
             mt'.pc \in {"none", "files", "begin", "pack"}
      PROVE  Purging'
  BY <1>0, <1>m DEF Purging, Leaves
<1>9. CASE MaintStart \/ SkipFiles
  <2>1. rows' = rows /\ disk' \subseteq disk /\ DOMAIN mt' = {"pc", "list", "work"} /\ mt'.pc \in {"files", "pack"}
    BY <1>3, <1>9 DEF MaintStart, SkipFiles, NoMaint
  <2> QED  BY <1>m, <2>1
<1>10. CASE PurgeList
  <2>1. rows' = rows /\ disk' \subseteq disk
    BY <1>10 DEF PurgeList
  <2>2. PICK l : mt' = [mt EXCEPT !.pc = "pack"] \/ mt' = [mt EXCEPT !.pc = "begin", !.list = l]
    BY <1>10 DEF PurgeList
  <2>3. DOMAIN mt' = {"pc", "list", "work"} /\ mt'.pc \in {"begin", "pack"}
    BY <1>3, <2>2
  <2> QED  BY <1>m, <2>1, <2>3
<1>4. ASSUME NEW b \in BOOLEAN, PurgeBegin(b) PROVE Purging'
  <2>1. rows' = rows /\ disk' = disk
    BY <1>4 DEF PurgeBegin
  <2>2. CASE b
    <3>1. DOMAIN mt' = {"pc", "list", "work"} /\ mt'.pc = "purge" /\ mt'.work = rows
      BY <1>3, <1>4, <2>2 DEF PurgeBegin
    <3> QED  BY <1>0, <2>1, <3>1 DEF Purging, Leaves
  <2>3. CASE ~b
    <3>1. DOMAIN mt' = {"pc", "list", "work"} /\ mt'.pc = "pack"
      BY <1>3, <1>4, <2>3 DEF PurgeBegin
    <3> QED  BY <1>m, <2>1, <3>1
  <2> QED  BY <2>2, <2>3
<1>5. CASE PurgeFile
  <2> DEFINE h == Head(mt.list)
             w == db_file_delete(mt.work, h)
  <2>1. mt.pc = "purge" /\ disk' = disk \ {rows[h]} /\ rows' = rows
    BY <1>5 DEF PurgeFile
  <2>2. Leaves(mt.work) /\ Leaves(rows) /\ DOMAIN rows \subseteq DOMAIN Stored
    BY <1>0, <2>1 DEF Purging
  <2>3. DOMAIN mt' = {"pc", "list", "work"} /\ mt'.pc = "purge" /\ mt'.work = w
    BY <1>3, <1>5 DEF PurgeFile
  <2> HIDE DEF h
  <2>4. DOMAIN w = DOMAIN mt.work \ {h} /\ \A i \in DOMAIN w : w[i] = mt.work[i]
    BY DEF db_file_delete
  <2> HIDE DEF w
  <2>5. ASSUME NEW x \in disk' PROVE \E i \in DOMAIN w : x = w[i]
    <3>1. PICK i \in DOMAIN mt.work : x = mt.work[i]
      BY <2>1, <2>2, <2>5 DEF Leaves
    <3>2. i # h
      BY <2>1, <2>2, <2>5, <3>1 DEF Leaves
    <3> QED  BY <2>4, <3>1, <3>2
  <2>6. DOMAIN w \subseteq DOMAIN rows /\ \A i \in DOMAIN w : w[i] = rows[i]
    BY <2>2, <2>4 DEF Leaves
  <2>7. Leaves(mt.work)'
    BY <2>1, <2>3, <2>5, <2>6 DEF Leaves
  <2>8. Leaves(rows)'
    BY <2>1, <2>2 DEF Leaves
  <2> QED  BY <2>1, <2>2, <2>3, <2>7, <2>8 DEF Purging
<1>6. CASE PurgeCommit
  <2>1. mt.pc = "purge" /\ rows' = mt.work /\ disk' = disk
    BY <1>6 DEF PurgeCommit
  <2>2. DOMAIN mt' = {"pc", "list", "work"} /\ mt'.pc = "pack"
    BY <1>3, <1>6 DEF PurgeCommit, PurgeEnds
  <2>3. DOMAIN rows' \subseteq DOMAIN Stored /\ Leaves(mt.work)
    BY <1>0, <2>1 DEF Purging, Leaves
  <2>4. Leaves(rows)'
    BY <2>1, <2>3 DEF Leaves
  <2> QED  BY <2>2, <2>3, <2>4 DEF Purging
<1>7. CASE CommitFails
  <2>1. rows' = rows /\ disk' \subseteq disk /\ mt' = PurgeEnds
    BY <1>7 DEF CommitFails
  <2>2. DOMAIN mt' = {"pc", "list", "work"} /\ mt'.pc = "pack"
    BY <1>3, <2>1 DEF PurgeEnds
  <2> QED  BY <1>m, <2>1, <2>2
<1>8. ASSUME NEW b \in BOOLEAN, PurgeFails(b) PROVE Purging'
  <2>1. rows' = rows /\ mt' = PurgeEnds /\ disk' \subseteq disk
    BY <1>8 DEF PurgeFails
  <2>2. DOMAIN mt' = {"pc", "list", "work"} /\ mt'.pc = "pack"
    BY <1>3, <2>1 DEF PurgeEnds
  <2> QED  BY <1>m, <2>1, <2>2
<1> QED
  BY <1>4, <1>5, <1>6, <1>7, <1>8, <1>9, <1>10 DEF PurgeNext

LEMMA StartKept == UpkeepInit => Kept
<1> SUFFICES ASSUME UpkeepInit PROVE Kept
  OBVIOUS
<1>1. Installing
  <2>1. \A v \in {{}, OldColumns, AllColumns} : v \in SUBSET AllColumns
    BY UpkeepAssumption DEF AllColumns
  <2>2. schema \in SchemaRows
    <3>1. PICK v \in {{}, OldColumns, AllColumns}, w \in BOOLEAN : schema = [cols |-> v, version |-> w]
      BY DEF UpkeepInit
    <3> QED  BY <2>1, <3>1 DEF SchemaRows
  <2>3. SchemaWhole
    BY DEF UpkeepInit, SchemaWhole
  <2>4. inst = NoInstall
    BY DEF UpkeepInit
  <2> QED  BY <2>2, <2>3, <2>4, Resting DEF Installing
<1>2. Calling
  BY OutFields, UpkeepBounds, EmptySeq DEF UpkeepInit, Calling
<1>3. Funded
  BY OutFields, UpkeepBounds DEF UpkeepInit, Funded, Owing
<1>4. Purging
  BY DEF UpkeepInit, Purging, Leaves, NoMaint
<1> QED
  BY <1>1, <1>2, <1>3, <1>4 DEF Kept

LEMMA StepKept == Kept /\ [UpkeepNext]_upkeepvars => Kept'
<1>1. CASE UNCHANGED upkeepvars
  BY <1>1, UpkeepUnchanged DEF Kept, upkeepvars, Install, Files
<1>2. CASE UpkeepNext
  BY <1>2, InstallStep, CallersStep, PurgeStep, PackStep, KilledStep DEF UpkeepNext, MaintNext
<1> QED
  BY <1>1, <1>2

LEMMA KeptUpkeep == Kept => UpkeepInv
<1> SUFFICES ASSUME Kept PROVE UpkeepInv
  OBVIOUS
<1>1. SchemaWhole /\ schema.cols \subseteq AllColumns
  BY DEF Kept, Installing, SchemaRows
<1>2. BankFunded /\ bank \in 0..MaxBanked /\ given \in 0..MaxBanked
  BY UpkeepBounds DEF Kept, Funded, BankFunded
<1>3. NoStray
  BY DEF Kept, Purging, Leaves, NoStray
<1>4. \A s \in Sessions : /\ sess[s].pc \in {"out", "menu", "bank", "bye"}
                          /\ sess[s].left \in -MaxLeft..MaxLeft /\ sess[s].call \in 0..Len(calls)
  BY LenProperties DEF Kept, Calling, SessRows, Minutes
<1>5. \A i \in DOMAIN calls : calls[i].open \in BOOLEAN /\ calls[i].mins \in 0..MaxClock2
  <2>1. calls \in Seq(CallRows) /\ DOMAIN calls = 1..Len(calls)
    BY LenProperties DEF Kept, Calling
  <2>2. \A i \in DOMAIN calls : calls[i] \in CallRows
    BY <2>1, ElementOfSeq
  <2> QED  BY <2>2 DEF CallRows
<1>6. DOMAIN rows \subseteq DOMAIN Stored /\ mt.pc \in {"none", "files", "begin", "purge", "pack"}
  BY DEF Kept, Purging
<1> QED
  BY <1>1, <1>2, <1>3, <1>4, <1>5, <1>6 DEF UpkeepInv, UpkeepTypeOK

\* Whichever statement is refused and whenever the process dies, the schema is
\* as it was or whole (db_init_schema), the time bank holds only minutes that
\* sessions have put there (db_timebank_add), and a purge forgets no file.
THEOREM UpkeepCorrect == UpkeepSpec => []UpkeepInv
<1>1. UpkeepInit => Kept
  BY StartKept
<1>2. Kept /\ [UpkeepNext]_upkeepvars => Kept'
  BY StepKept
<1>3. Kept => UpkeepInv
  BY KeptUpkeep
<1> QED
  BY <1>1, <1>2, <1>3, PTL DEF UpkeepSpec

-----------------------------------------------------------------------------
(* The inductive invariant of Scheduler.                                   *)

Copies == [id : 1..MaxId, sched : Schedules, type : STRING, warn : Int,
           next : Nat \cup {Unset}, enabled : BOOLEAN]
Stages == {"none", "head", "each", "child", "sleep"}
Tally(b) == DOMAIN b \subseteq Ids \X Nat /\ \A k \in DOMAIN b : b[k] \in Nat
Clocked ==
  /\ clock \in 0..MaxClock /\ dst \in BOOLEAN /\ board \in {"up", "stopping", "down"}
  /\ crashes \in Nat /\ lastId \in 0..MaxId
Listing == DOMAIN events \subseteq 1..lastId /\ events \in [DOMAIN events -> EventRows]

\* A pass has a copy of each row it has still to look at, and what it copied
\* is what the row has, if there is one still: nobody else writes next_run.
Agrees(e) == e.id <= lastId /\ (e.id \in DOMAIN events => events[e.id].next = e.next)
InPass == th.pc \in {"each", "child"}
Rest == {i \in DOMAIN th.rest : th.pc = "child" => i > 1}
Passing ==
  /\ th \in [pc : Stages, now : 0..clock, rest : Seq(Copies)]
  /\ board = "down" => th.pc = "none"
  /\ ~InPass => th.rest = << >>
  /\ th.pc = "child" => th.rest # << >>
  /\ \A i, j \in DOMAIN th.rest : th.rest[i].id = th.rest[j].id => i = j
  /\ \A i \in DOMAIN th.rest : th.rest[i].id <= lastId
  /\ \A i \in Rest : Agrees(th.rest[i])
Typing == Clocked /\ Listing /\ Passing

\* A time that a later pass can no longer compute.
Done(x) ==
  /\ x <= th.now \/ x < clock
  /\ th.pc = "head" => x < clock
  /\ InPass => x <= th.now
Runs(id) == th.pc = "child" /\ th.rest[1].id = id

\* What has run is past; a time that is stored has run only as often as the
\* process died, unless its command is running now.
FreshRow(id) == (events[id].next # Unset /\ ~Runs(id)) =>
                  Times(<<id, events[id].next>>, runs) <= crashes
FreshCopy(e) == IF e.next = Unset THEN \A k \in DOMAIN runs : k[1] = e.id => k[2] < th.now
                ELSE Times(<<e.id, e.next>>, runs) <= crashes
Fresh ==
  /\ Tally(runs) /\ RunsOnce
  /\ \A k \in DOMAIN runs : Done(k[2])
  /\ \A id \in DOMAIN events : FreshRow(id)
  /\ \A i \in Rest : FreshCopy(th.rest[i])

\* Of an event no later time has been announced than the stored one; when
\* none is stored, only past ones.
ToldRow(id) == \A k \in DOMAIN notices : k[1] = id =>
                  IF events[id].next = Unset THEN Done(k[2]) ELSE k[2] <= events[id].next
ToldCopy(e) == \A k \in DOMAIN notices : k[1] = e.id =>
                  IF e.next = Unset THEN k[2] < th.now ELSE k[2] <= e.next
Announced ==
  /\ Tally(notices) /\ \A k \in DOMAIN notices : k[1] <= lastId
  /\ \A id \in DOMAIN events : ToldRow(id)
  /\ \A i \in Rest : ToldCopy(th.rest[i])
  /\ \A k \in DOMAIN notices : Runs(k[1]) => k[2] <= th.now

\* The slots are taken one after the other, each by an event of its own.
WarnRows == [id : 0..lastId, next : Nat \cup {Unset}]
Told == {k[1] : k \in DOMAIN notices}
Slotted ==
  /\ \A i, j \in 1..WarnSlots : warned[i].id = warned[j].id /\ warned[i].id # 0 => i = j
  /\ \A i, j \in 1..WarnSlots : j < i /\ warned[i].id # 0 => warned[j].id # 0
  /\ \A i \in 1..WarnSlots : warned[i].id # 0 => warned[i].id \in Told
  /\ \A id \in Told : \E i \in 1..WarnSlots : warned[i].id = id
Sent(id, s) == \E i \in 1..WarnSlots : warned[i] = [id |-> id, next |-> s]
Twice(id, s) == s # Unset => (Times(<<id, s>>, notices) <= 1 \/ Sent(id, s))
Heard ==
  /\ warned \in [1..WarnSlots -> WarnRows]
  /\ \/ Cardinality(Told) > WarnSlots
     \/ /\ Slotted
        /\ \A k \in DOMAIN notices : Times(k, notices) <= 2
        /\ \A id \in DOMAIN events : Twice(id, events[id].next)
        /\ \A i \in Rest : Twice(th.rest[i].id, th.rest[i].next)

Orderly == Typing /\ Fresh /\ Announced /\ Heard

-----------------------------------------------------------------------------
(* Data: the bags, the times that a schedule gives, the copy of the rows.  *)

(* The bounds are natural numbers.                                         *)
LEMMA Bounds ==
  /\ MaxId \in Nat /\ ListMax \in Nat /\ WarnSlots \in Nat \ {0} /\ MaxClock \in Nat
  /\ {Hour, Day, Week, Month} \subseteq Nat \ {0}
  BY SchedulerAssumption

(* c is the bag b with one more k.                                         *)
OneMoreIn(k, b, c) ==
  /\ Tally(c) /\ DOMAIN c = DOMAIN b \cup {k}
  /\ Times(k, b) \in Nat /\ Times(k, c) = Times(k, b) + 1
  /\ \A j : j # k => Times(j, c) = Times(j, b)

LEMMA OneMore ==
  ASSUME NEW b, Tally(b), NEW k \in Ids \X Nat, NEW c, c = b (+) SetToBag({k})
  PROVE  OneMoreIn(k, b, c)
  <1>1. /\ DOMAIN c = DOMAIN b \cup {k}
        /\ \A j \in DOMAIN c : c[j] = (IF j \in DOMAIN b THEN b[j] ELSE 0)
                                       + (IF j = k THEN 1 ELSE 0)
    BY DEF (+), SetToBag
  <1>2. \A j : Times(j, b) = IF j \in DOMAIN b THEN b[j] ELSE 0
    BY DEF Times, BagIn, BagToSet
  <1>3. \A j : Times(j, c) = IF j \in DOMAIN c THEN c[j] ELSE 0
    BY DEF Times, BagIn, BagToSet
  <1>4. \A j \in DOMAIN b : b[j] \in Nat
    BY DEF Tally
  <1>5. Tally(c)
    <2>1. DOMAIN c \subseteq Ids \X Nat
      BY <1>1 DEF Tally
    <2>2. ASSUME NEW j \in DOMAIN c  PROVE  c[j] \in Nat
      <3>1. CASE j \in DOMAIN b
        <4>1. b[j] \in Nat
          BY <1>4, <3>1
        <4>2. c[j] = b[j] + (IF j = k THEN 1 ELSE 0)
          BY <1>1, <3>1
        <4> QED  BY <4>1, <4>2
      <3>2. CASE j \notin DOMAIN b
        BY <1>1, <3>2
      <3> QED  BY <3>1, <3>2
    <2> QED  BY <2>1, <2>2 DEF Tally
  <1>6. Times(k, b) \in Nat /\ Times(k, c) = Times(k, b) + 1
    BY <1>1, <1>2, <1>3, <1>4
  <1>7. ASSUME NEW j, j # k  PROVE  Times(j, c) = Times(j, b)
    <2>1. CASE j \in DOMAIN b
      <3>1. c[j] = b[j] + 0 /\ b[j] \in Nat
        BY <1>1, <1>4, <1>7, <2>1
      <3> QED  BY <1>1, <1>2, <1>3, <2>1, <3>1
    <2>2. CASE j \notin DOMAIN b
      BY <1>1, <1>2, <1>3, <1>7, <2>2
    <2> QED  BY <2>1, <2>2
  <1> QED  BY <1>1, <1>5, <1>6, <1>7 DEF OneMoreIn

LEMMA NoneYet == Tally(EmptyBag) /\ DOMAIN EmptyBag = {}
  BY DEF Tally, EmptyBag, SetToBag

(* How often anything is in a bag.                                         *)
LEMMA TimesNat ==
  ASSUME NEW b, Tally(b)
  PROVE  /\ \A j : Times(j, b) \in Nat /\ (j \notin DOMAIN b => Times(j, b) = 0)
         /\ BagToSet(b) = DOMAIN b
  BY DEF Tally, Times, BagIn, BagToSet

(* A schedule gives no time that is past.                                  *)
LEMMA NotPast ==
  ASSUME NEW s \in Schedules, NEW now \in Nat
  PROVE  parse_schedule(s, now) \in Nat /\ parse_schedule(s, now) >= now
  <1>1. s.n \in Nat
    BY DEF Schedules
  <1>2. ASSUME NEW p \in Nat \ {0}, NEW strict \in BOOLEAN
        PROVE  Occurrence(s.n, p, strict, now) \in Nat /\ Occurrence(s.n, p, strict, now) >= now
    <2>1. now % p \in 0..(p - 1)
      BY <1>2
    <2>2. (now - (now % p)) + s.n \in Nat /\ (now - (now % p)) + s.n + p > now
      BY <1>1, <1>2, <2>1
    <2> QED  BY <1>2, <2>2 DEF Occurrence
  <1>3. {Hour, Day, Week, Month} \subseteq Nat \ {0}
    BY Bounds
  <1>4. CASE s.kind = "daily"
    BY <1>2, <1>3, <1>4 DEF parse_schedule
  <1>5. CASE s.kind = "weekly"
    BY <1>2, <1>3, <1>5 DEF parse_schedule
  <1>6. CASE s.kind = "monthly"
    BY <1>2, <1>3, <1>6 DEF parse_schedule
  <1>7. CASE s.kind = "every"
    BY <1>1, <1>7 DEF parse_schedule
  <1>8. CASE s.kind \notin {"daily", "weekly", "monthly", "every"}
    <2>1. parse_schedule(s, now) = now + Hour
      BY <1>8 DEF parse_schedule
    <2> QED  BY <1>3, <2>1
  <1> QED  BY <1>4, <1>5, <1>6, <1>7, <1>8

(* The first rows have the places 1, 2, ... one after the other.           *)
LEMMA Places ==
  ASSUME Listing, lastId \in Nat
  PROVE  /\ Cardinality(Listed) \in Nat
         /\ \A i \in 1..Cardinality(Listed) : \E j \in Listed : Rank(j) = i
  <1> DEFINE D == DOMAIN events
             Upto(j) == {k \in D : k <= j}
             f == [j \in Listed |-> Rank(j)]
  <1>1. D \subseteq 1..lastId /\ IsFiniteSet(D) /\ D \subseteq Int
    <2>1. D \subseteq 1..lastId /\ IsFiniteSet(1..lastId)
      BY FS_Interval DEF Listing
    <2> QED  BY <2>1, FS_Subset
  <1>2. \A j : IsFiniteSet(Upto(j)) /\ Rank(j) = Cardinality(Upto(j)) /\ Rank(j) \in Nat
    <2>1. \A j : Upto(j) \in SUBSET D
      OBVIOUS
    <2>2. \A j : IsFiniteSet(Upto(j))
      BY <1>1, <2>1, FS_Subset
    <2>3. \A j : Rank(j) = Cardinality(Upto(j))
      BY DEF Rank
    <2> QED  BY <2>2, <2>3, FS_CardinalityType
  <1>3. Listed \subseteq D /\ IsFiniteSet(Listed) /\ Cardinality(Listed) \in Nat
    <2>1. Listed \in SUBSET D
      BY DEF Listed
    <2> QED  BY <1>1, <2>1, FS_Subset, FS_CardinalityType
  <1>4. ASSUME NEW j \in D, NEW k \in D, k < j  PROVE  Rank(k) < Rank(j)
    <2>1. Upto(k) \in SUBSET Upto(j) /\ Upto(k) # Upto(j)
      BY <1>1, <1>4
    <2>2. Cardinality(Upto(k)) <= Cardinality(Upto(j)) /\ Cardinality(Upto(k)) # Cardinality(Upto(j))
      BY <1>2, <2>1, FS_Subset
    <2> QED  BY <1>2, <2>2
  <1>5. ASSUME NEW j \in Listed  PROVE  Rank(j) \in 1..Cardinality(Listed)
    <2>1. j \in D /\ Rank(j) <= ListMax
      BY DEF Listed
    <2>b. Rank(j) \in Nat /\ \A k \in D : Rank(k) \in Nat
      BY <1>2
    <2>c. ListMax \in Int
      BY Bounds
    <2>a. ListMax \in Int /\ Rank(j) \in Nat /\ \A k \in D : Rank(k) \in Nat
      BY <2>b, <2>c
    <2>2. Upto(j) \in SUBSET Listed
      <3> SUFFICES ASSUME NEW k \in D, k <= j  PROVE  k \in Listed
        OBVIOUS
      <3>1. k = j \/ k < j
        BY <1>1, <2>1
      <3>2. Rank(k) <= Rank(j)
        BY <1>4, <2>1, <2>a, <3>1
      <3>3. Rank(k) <= ListMax
        BY <2>1, <2>a, <3>2
      <3> QED  BY <3>3 DEF Listed
    <2>3. Rank(j) <= Cardinality(Listed)
      BY <1>2, <1>3, <2>2, FS_Subset
    <2>4. Upto(j) # {}
      BY <1>1, <2>1
    <2>5. Rank(j) # 0
      <3>1. IsFiniteSet(Upto(j)) /\ Rank(j) = Cardinality(Upto(j))
        BY <1>2
      <3> QED  BY <2>4, <3>1, FS_EmptySet
    <2> HIDE DEF Upto
    <2> QED  BY <1>3, <2>a, <2>3, <2>5
  <1> HIDE DEF D, Upto
  <1>6. f \in Injection(Listed, 1..Cardinality(Listed))
    <2>1. f \in [Listed -> 1..Cardinality(Listed)]
      BY <1>5
    <2>2. \A j, k \in Listed : Rank(j) = Rank(k) => j = k
      BY <1>1, <1>2, <1>3, <1>4
    <2> QED  BY <2>1, <2>2 DEF Injection, IsInjective
  <1>7. IsFiniteSet(1..Cardinality(Listed)) /\ Cardinality(1..Cardinality(Listed)) = Cardinality(Listed)
    BY <1>3, FS_Interval
  <1>8. f \in Surjection(Listed, 1..Cardinality(Listed))
    BY <1>6, <1>7, FS_Injection
  <1> QED  BY <1>3, <1>8 DEF Surjection

(* A pass copies rows, each once.                                          *)
LEMMA Copied ==
  ASSUME Listing, lastId \in 0..MaxId
  PROVE  /\ db_events_list \in Seq(Copies)
         /\ \A i \in DOMAIN db_events_list :
              /\ db_events_list[i].id \in DOMAIN events
              /\ db_events_list[i].next = events[db_events_list[i].id].next
         /\ \A i, j \in DOMAIN db_events_list :
              db_events_list[i].id = db_events_list[j].id => i = j
  <1> DEFINE n == Cardinality(Listed)
             nth(i) == CHOOSE j \in Listed : Rank(j) = i
             row(j) == [id |-> j, sched |-> events[j].sched, type |-> events[j].type,
                        warn |-> events[j].warn, next |-> events[j].next, enabled |-> events[j].enabled]
  <1>1. n \in Nat /\ \A i \in 1..n : \E j \in Listed : Rank(j) = i
    BY Places, SchedulerAssumption
  <1>2. \A i \in 1..n : nth(i) \in Listed /\ Rank(nth(i)) = i
    BY <1>1
  <1>3. db_events_list = [i \in 1..n |-> row(nth(i))]
    BY DEF db_events_list
  <1> HIDE DEF n, nth
  <1>4. \A j \in Listed : j \in DOMAIN events /\ j \in 1..MaxId
    BY SchedulerAssumption DEF Listed, Listing
  <1>5. \A j \in Listed : row(j) \in Copies
    <2>1. \A j \in Listed : events[j] \in EventRows
      BY <1>4 DEF Listing
    <2> QED  BY <1>4, <2>1 DEF EventRows, Copies
  <1>6. db_events_list \in Seq(Copies)
    <2>1. \A i \in 1..n : row(nth(i)) \in Copies
      BY <1>2, <1>5
    <2>2. db_events_list \in [1..n -> Copies]
      BY <1>3, <2>1
    <2> QED  BY <1>1, <2>2, SeqDef
  <1>7. \A i \in 1..n : db_events_list[i].id = nth(i) /\ db_events_list[i].next = events[nth(i)].next
    BY <1>3
  <1>8. DOMAIN db_events_list = 1..n
    BY <1>3
  <1> QED  BY <1>2, <1>4, <1>6, <1>7, <1>8

-----------------------------------------------------------------------------
(* What a pass has still to look at.                                       *)

(* The first copy and the others.                                          *)
LEMMA FirstCopy ==
  ASSUME Typing, th.rest # << >>
  PROVE  /\ Head(th.rest) = th.rest[1] /\ th.rest[1] \in Copies
         /\ 1 \in DOMAIN th.rest
         /\ Tail(th.rest) \in Seq(Copies)
         /\ \A i \in DOMAIN Tail(th.rest) :
              /\ i + 1 \in DOMAIN th.rest /\ i + 1 > 1 /\ Tail(th.rest)[i] = th.rest[i + 1]
              /\ Tail(th.rest)[i].id # th.rest[1].id
         /\ \A i, j \in DOMAIN Tail(th.rest) :
              Tail(th.rest)[i].id = Tail(th.rest)[j].id => i = j
  <1>1. th.rest \in Seq(Copies)
    BY DEF Typing, Passing
  <1>2. Len(th.rest) \in Nat \ {0} /\ DOMAIN th.rest = 1..Len(th.rest)
    BY <1>1, EmptySeq, LenProperties
  <1>3. 1 \in DOMAIN th.rest /\ th.rest[1] \in Copies
    BY <1>1, <1>2, ElementOfSeq
  <1>4. Head(th.rest) = th.rest[1]
    BY <1>1
  <1>5. /\ Tail(th.rest) \in Seq(Copies) /\ Len(Tail(th.rest)) = Len(th.rest) - 1
        /\ \A i \in 1..Len(Tail(th.rest)) : Tail(th.rest)[i] = th.rest[i + 1]
    BY <1>1, HeadTailProperties
  <1>6. DOMAIN Tail(th.rest) = 1..(Len(th.rest) - 1)
    BY <1>5, LenProperties
  <1>7. \A i, j \in DOMAIN th.rest : th.rest[i].id = th.rest[j].id => i = j
    BY DEF Typing, Passing
  <1>8. \A i \in DOMAIN Tail(th.rest) :
          i \in Nat /\ i + 1 \in DOMAIN th.rest /\ i + 1 > 1 /\ Tail(th.rest)[i] = th.rest[i + 1]
    BY <1>2, <1>5, <1>6
  <1>9. \A i \in DOMAIN Tail(th.rest) : Tail(th.rest)[i].id # th.rest[1].id
    <2> SUFFICES ASSUME NEW i \in DOMAIN Tail(th.rest), th.rest[i + 1].id = th.rest[1].id
                 PROVE  FALSE
      BY <1>8
    <2>1. i + 1 = 1
      BY <1>3, <1>7, <1>8
    <2> QED  BY <1>8, <2>1
  <1>10. \A i, j \in DOMAIN Tail(th.rest) :
           Tail(th.rest)[i].id = Tail(th.rest)[j].id => i = j
    <2> SUFFICES ASSUME NEW i \in DOMAIN Tail(th.rest), NEW j \in DOMAIN Tail(th.rest),
                        th.rest[i + 1].id = th.rest[j + 1].id
                 PROVE  i = j
      BY <1>8
    <2>1. i + 1 = j + 1
      BY <1>7, <1>8
    <2> QED  BY <1>8, <2>1
  <1> QED  BY <1>3, <1>4, <1>5, <1>8, <1>9, <1>10

(* The events that were announced are finitely many.                       *)
LEMMA ToldFinite == ASSUME Tally(notices) PROVE IsFiniteSet(Told) /\ Cardinality(Told) \in Nat /\ Told \subseteq Ids
  <1>1. Told \in SUBSET Ids
    BY DEF Told, Tally
  <1>2. IsFiniteSet(Ids)
    BY Bounds, FS_Interval DEF Ids
  <1> QED  BY <1>1, <1>2, FS_Subset, FS_CardinalityType

(* Each part of the invariant about the copies still to look at.           *)
Faithful(e) == Agrees(e) /\ FreshCopy(e) /\ ToldCopy(e)
                /\ (Cardinality(Told) <= WarnSlots => Twice(e.id, e.next))

LEMMA FaithfulRest == ASSUME Orderly PROVE \A i \in Rest : Faithful(th.rest[i])
  <1> SUFFICES ASSUME NEW i \in Rest  PROVE  Faithful(th.rest[i])
    OBVIOUS
  <1>1. Agrees(th.rest[i])
    BY DEF Orderly, Typing, Passing
  <1>2. FreshCopy(th.rest[i])
    BY DEF Orderly, Fresh
  <1>3. ToldCopy(th.rest[i])
    BY DEF Orderly, Announced
  <1>4. Cardinality(Told) <= WarnSlots => Twice(th.rest[i].id, th.rest[i].next)
    <2>1. Cardinality(Told) \in Nat
      BY ToldFinite DEF Orderly, Announced
    <2> QED  BY <2>1, Bounds DEF Orderly, Heard
  <1> QED  BY <1>1, <1>2, <1>3, <1>4 DEF Faithful

-----------------------------------------------------------------------------
(* The steps that write neither the table nor a history: the clock goes    *)
(* on, the thread moves.  A copy that is looked at later is one that was   *)
(* looked at later before, or is faithful.                                 *)
LEMMA Quiet ==
  ASSUME Orderly, UNCHANGED <<events, lastId, warned, runs, notices, crashes>>,
         (Clocked /\ Passing)',
         \A x \in Nat : Done(x) => Done(x)',
         \A id : Runs(id)' <=> Runs(id), th'.now = th.now \/ th'.pc # "child",
         \A i \in Rest' : \/ th'.now = th.now /\ \E j \in Rest : th'.rest[i] = th.rest[j]
                          \/ Faithful(th.rest[i])'
  PROVE  Orderly'
  <1> USE DEF Orderly
  <1>1. Listing'
    BY DEF Typing, Listing
  <1>2. \A e : th'.now = th.now => (Faithful(e)' <=> Faithful(e))
    BY DEF Faithful, Agrees, FreshCopy, ToldCopy, Twice, Sent, Told
  <1>3. \A i \in Rest' : Faithful(th.rest[i])'
    <2> SUFFICES ASSUME NEW i \in Rest'  PROVE  Faithful(th.rest[i])'
      OBVIOUS
    <2>1. CASE Faithful(th.rest[i])'
      BY <2>1
    <2>2. CASE th'.now = th.now /\ \E j \in Rest : th'.rest[i] = th.rest[j]
      <3>1. PICK j \in Rest : th'.rest[i] = th.rest[j]
        BY <2>2
      <3>2. PICK e : e = th.rest[j]
        OBVIOUS
      <3>3. Faithful(e)
        BY <3>2, FaithfulRest
      <3>4. Faithful(e)'
        BY <2>2, <3>3, <1>2
      <3>5. th'.rest[i] = e
        BY <3>1, <3>2
      <3> QED  BY <3>4, <3>5 DEF Faithful, Agrees, FreshCopy, ToldCopy, Twice, Sent
    <2> QED  BY <2>1, <2>2
  <1>4. \A k \in DOMAIN runs : k[2] \in Nat
    BY DEF Fresh, Tally
  <1>5. Fresh'
    <2>1. (Tally(runs) /\ RunsOnce)'
      BY DEF Fresh, RunsOnce, Tally
    <2>2. (\A k \in DOMAIN runs : Done(k[2]))'
      BY <1>4 DEF Fresh
    <2>3. (\A id \in DOMAIN events : FreshRow(id))'
      BY DEF Fresh, FreshRow
    <2>4. (\A i \in Rest : FreshCopy(th.rest[i]))'
      BY <1>3 DEF Faithful
    <2> QED  BY <2>1, <2>2, <2>3, <2>4 DEF Fresh
  <1>6. \A k \in DOMAIN notices : k[2] \in Nat
    BY DEF Announced, Tally
  <1>7. Announced'
    <2>1. (Tally(notices) /\ \A k \in DOMAIN notices : k[1] <= lastId)'
      BY DEF Announced, Tally
    <2>2. (\A id \in DOMAIN events : ToldRow(id))'
      BY <1>6 DEF Announced, ToldRow
    <2>3. (\A i \in Rest : ToldCopy(th.rest[i]))'
      BY <1>3 DEF Faithful
    <2>4. (\A k \in DOMAIN notices : Runs(k[1]) => k[2] <= th.now)'
      BY DEF Announced, Runs
    <2> QED  BY <2>1, <2>2, <2>3, <2>4 DEF Announced
  <1>8. Heard'
    <2>1. (warned \in [1..WarnSlots -> WarnRows])'
      BY DEF Heard, WarnRows
    <2>2. CASE Cardinality(Told) > WarnSlots
      BY <2>1, <2>2 DEF Heard, Told
    <2>3. CASE ~(Cardinality(Told) > WarnSlots)
      <3>1. /\ Slotted
            /\ \A k \in DOMAIN notices : Times(k, notices) <= 2
            /\ \A id \in DOMAIN events : Twice(id, events[id].next)
        BY <2>3 DEF Heard
      <3>2. Slotted'
        BY <3>1 DEF Slotted, Told
      <3>3. (\A id \in DOMAIN events : Twice(id, events[id].next))'
        BY <3>1 DEF Twice, Sent
      <3>4. Cardinality(Told) <= WarnSlots
        BY <2>3, ToldFinite, Bounds DEF Announced
      <3>5. (\A i \in Rest : Twice(th.rest[i].id, th.rest[i].next))'
        BY <1>3, <3>4 DEF Faithful, Told
      <3> QED  BY <2>1, <3>1, <3>2, <3>3, <3>5 DEF Heard
    <2> QED  BY <2>2, <2>3
  <1> QED  BY <1>1, <1>5, <1>7, <1>8 DEF Typing

(* The thread's record.                                                    *)
ThRows == [pc : Stages, now : 0..clock, rest : Seq(Copies)]

(* An idle thread, or one that is between two passes, has no copies.       *)
LEMMA NoRest ==
  ASSUME Clocked', th' \in [pc : Stages \ {"each", "child"}, now : 0..clock', rest : {<< >>}],
         board' = "down" => th'.pc = "none"
  PROVE  Passing' /\ Rest' = {} /\ \A id : ~Runs(id)'
  <1>1. << >> \in Seq(Copies) /\ Len(<< >>) = 0
    BY EmptySeq
  <1>2. DOMAIN << >> = {}
    BY <1>1, LenProperties
  <1>3. th'.rest = << >> /\ th'.pc \in Stages \ {"each", "child"} /\ th' \in ThRows'
    BY <1>1 DEF ThRows
  <1> QED  BY <1>2, <1>3 DEF Passing, ThRows, Rest, Runs, InPass, Stages

(* Pass: the copies agree with the table, and what ran or was announced is *)
(* past.                                                                   *)
LEMMA PassKept == ASSUME Orderly, Pass PROVE Orderly'
  <1> DEFINE list == db_events_list
  <1>1. Clocked' /\ Listing /\ lastId \in 0..MaxId /\ clock \in Nat
    BY DEF Pass, Orderly, Typing, Clocked
  <1>2. /\ list \in Seq(Copies)
        /\ \A i \in DOMAIN list : list[i].id \in DOMAIN events /\ list[i].next = events[list[i].id].next
        /\ \A i, j \in DOMAIN list : list[i].id = list[j].id => i = j
    BY <1>1, Copied
  <1> HIDE DEF list
  <1>3. th'.pc = "each" /\ th'.now = clock /\ th'.rest = list /\ th.pc = "head" /\ board = "up"
        /\ UNCHANGED <<events, lastId, clock, board, warned, runs, notices, crashes>>
    BY DEF Pass, list
  <1>4. th' \in ThRows'
    BY <1>1, <1>2 DEF Pass, ThRows, Stages, list
  <1>5. \A i \in DOMAIN list : list[i].id <= lastId
    BY <1>1, <1>2 DEF Listing
  <1>6. Passing'
    BY <1>2, <1>3, <1>4, <1>5 DEF Passing, ThRows, Rest, Agrees, InPass
  <1>7. \A x \in Nat : Done(x) => x < clock
    BY <1>3 DEF Done
  <1>8. \A x \in Nat : Done(x) => Done(x)'
    BY <1>1, <1>3, <1>7 DEF Done, InPass
  <1>9. \A id : Runs(id)' <=> Runs(id)
    BY <1>3 DEF Runs
  <1>10. \A i \in Rest' : Faithful(th.rest[i])'
    <2> SUFFICES ASSUME NEW i \in DOMAIN list  PROVE  Faithful(th.rest[i])'
      BY <1>3 DEF Rest
    <2>1. PICK e : e = list[i]
      OBVIOUS
    <2>2. e.id \in DOMAIN events /\ e.next = events[e.id].next /\ e.id <= lastId /\ ~Runs(e.id)
      BY <1>2, <1>3, <1>5, <2>1 DEF Runs
    <2>3. FreshCopy(e)'
      <3>1. CASE e.next = Unset
        <4>1. \A k \in DOMAIN runs : k[2] < clock
          BY <1>7 DEF Orderly, Fresh, Tally
        <4> QED  BY <1>3, <3>1, <4>1 DEF FreshCopy
      <3>2. CASE e.next # Unset
        <4>1. FreshRow(e.id)
          BY <2>2 DEF Orderly, Fresh
        <4> QED  BY <1>3, <2>2, <3>2, <4>1 DEF FreshCopy, FreshRow
      <3> QED  BY <3>1, <3>2
    <2>4. ToldCopy(e)'
      <3>1. ToldRow(e.id)
        BY <2>2 DEF Orderly, Announced
      <3>2. \A k \in DOMAIN notices : k[2] \in Nat
        BY DEF Orderly, Announced, Tally
      <3> QED  BY <1>3, <1>7, <2>2, <3>1, <3>2 DEF ToldCopy, ToldRow
    <2>5. Cardinality(Told) <= WarnSlots => Twice(e.id, e.next)
      <3>1. Cardinality(Told) \in Nat
        BY ToldFinite DEF Orderly, Announced
      <3> QED  BY <2>2, <3>1, Bounds DEF Orderly, Heard
    <2>6. (Cardinality(Told) <= WarnSlots => Twice(e.id, e.next))'
      BY <1>3, <2>5 DEF Told, Twice, Sent
    <2>7. Agrees(e)'
      BY <1>3, <2>2 DEF Agrees
    <2>8. th'.rest[i] = e
      BY <1>3, <2>1
    <2> QED  BY <2>3, <2>4, <2>6, <2>7, <2>8 DEF Faithful, Agrees, FreshCopy, ToldCopy, Twice, Sent
  <1> QED  BY <1>1, <1>3, <1>6, <1>8, <1>9, <1>10, Quiet

(* The thread ends, falls asleep or wakes up: no copies are left.          *)
LEMMA RestingKept == ASSUME Orderly, ThreadEnds \/ PassEnds \/ Wake PROVE Orderly'
  <1>1. Clocked' /\ th \in ThRows /\ (~InPass => th.rest = << >>)
        /\ UNCHANGED <<events, lastId, clock, warned, runs, notices, crashes>> /\ board' = board
    BY DEF ThreadEnds, PassEnds, Wake, Orderly, Typing, Clocked, Passing, ThRows
  <1>2. board # "down"
    BY DEF ThreadEnds, PassEnds, Wake, Orderly, Typing, Passing
  <1>3. th' \in [pc : Stages \ {"each", "child"}, now : 0..clock', rest : {<< >>}] /\ th'.now = th.now
    BY <1>1 DEF ThreadEnds, PassEnds, Wake, ThRows, Stages, Idle, InPass
  <1>4. Passing' /\ Rest' = {} /\ \A id : ~Runs(id)'
    BY <1>1, <1>2, <1>3, NoRest
  <1>5. \A id : ~Runs(id)
    BY DEF ThreadEnds, PassEnds, Wake, Runs
  <1>6. \A x \in Nat : Done(x) => Done(x)'
    <2>1. th.now \in Int /\ clock \in Int
      BY <1>1 DEF ThRows, Orderly, Typing, Clocked
    <2>2. th'.pc = "head" => th.now < clock
      BY <1>1, <2>1 DEF ThreadEnds, PassEnds, Wake, Idle, ThRows
    <2>3. th'.pc \notin {"each", "child"}
      BY <1>3
    <2>4. clock' = clock /\ th'.now = th.now
      BY <1>1, <1>3
    <2> QED  BY <2>1, <2>2, <2>3, <2>4 DEF Done, InPass
  <1>7. \A id : Runs(id)' <=> Runs(id)
    BY <1>4, <1>5
  <1>8. th'.now = th.now
    BY <1>3
  <1> QED  BY <1>1, <1>4, <1>6, <1>7, <1>8, Quiet

(* The clock goes on, scheduler_stop, pthread_join.                        *)
LEMMA WaitingKept == ASSUME Orderly, Tick \/ scheduler_stop \/ Joined PROVE Orderly'
  <1>1. UNCHANGED <<events, lastId, warned, runs, notices, crashes, dst>> /\ th' = th
    BY DEF Tick, scheduler_stop, Joined
  <1>2. Clocked /\ th \in ThRows /\ Passing
    BY DEF Orderly, Typing, Passing, ThRows
  <1>3. Clocked' /\ clock \in Nat /\ (clock' = clock \/ clock' = clock + 1)
    BY <1>1, <1>2, Bounds DEF Tick, scheduler_stop, Joined, Clocked
  <1>4. th' \in ThRows'
    BY <1>1, <1>2, <1>3 DEF ThRows
  <1>5. board' = "down" => th.pc = "none"
    BY <1>2 DEF Tick, scheduler_stop, Joined, Passing
  <1>6. Passing'
    BY <1>1, <1>2, <1>4, <1>5 DEF Passing, ThRows, Rest, Agrees, InPass
  <1>7. \A x \in Nat : Done(x) => Done(x)'
    BY <1>1, <1>3 DEF Done, InPass
  <1>8. \A id : Runs(id)' <=> Runs(id)
    BY <1>1 DEF Runs
  <1>9. Rest' = Rest /\ th'.now = th.now /\ th'.rest = th.rest
    BY <1>1 DEF Rest
  <1> QED  BY <1>1, <1>3, <1>6, <1>7, <1>8, <1>9, Quiet

(* A row that is not scheduled is passed over.                             *)
LEMMA SkipKept == ASSUME Orderly, Skip PROVE Orderly'
  <1>1. /\ UNCHANGED <<events, lastId, clock, board, dst, warned, runs, notices, crashes>>
        /\ th' = [th EXCEPT !.rest = Tail(@)] /\ th.pc = "each" /\ th.rest # << >>
    BY DEF Skip
  <1>2. Clocked' /\ th \in ThRows /\ Typing /\ Passing
    BY <1>1 DEF Orderly, Typing, Clocked, Passing, ThRows
  <1>3. /\ Tail(th.rest) \in Seq(Copies)
        /\ \A i \in DOMAIN Tail(th.rest) : i + 1 \in DOMAIN th.rest /\ Tail(th.rest)[i] = th.rest[i + 1]
        /\ \A i, j \in DOMAIN Tail(th.rest) : Tail(th.rest)[i].id = Tail(th.rest)[j].id => i = j
    BY <1>1, <1>2, FirstCopy
  <1>4. th'.pc = "each" /\ th'.now = th.now /\ th'.rest = Tail(th.rest) /\ th' \in ThRows'
    BY <1>1, <1>2, <1>3 DEF ThRows
  <1>5. \A i \in DOMAIN th'.rest : i + 1 \in Rest /\ th'.rest[i] = th.rest[i + 1]
    BY <1>1, <1>3, <1>4 DEF Rest
  <1>6. Passing'
    <2>1. \A i \in DOMAIN th'.rest : th'.rest[i].id <= lastId /\ Agrees(th'.rest[i])
      BY <1>2, <1>5 DEF Passing, Rest
    <2>2. (\A i \in DOMAIN th.rest : th.rest[i].id <= lastId /\ Agrees(th.rest[i]))'
      BY <1>1, <2>1 DEF Agrees
    <2> QED  BY <1>1, <1>2, <1>3, <1>4, <2>2 DEF Passing, ThRows, Rest, InPass
  <1>7. \A x \in Nat : Done(x) => Done(x)'
    BY <1>1, <1>4 DEF Done, InPass
  <1>8. \A id : Runs(id)' <=> Runs(id)
    BY <1>1, <1>4 DEF Runs
  <1>9. \A i \in Rest' : th'.now = th.now /\ \E j \in Rest : th'.rest[i] = th.rest[j]
    BY <1>4, <1>5 DEF Rest
  <1> QED  BY <1>1, <1>2, <1>4, <1>6, <1>7, <1>8, <1>9, Quiet

-----------------------------------------------------------------------------
(* The editor.  It gives a row no time, and an id is never given twice.    *)
LEMMA Edited ==
  ASSUME Orderly, UNCHANGED <<clock, dst, board, th, warned, crashes, runs, notices>>,
         lastId' \in lastId..MaxId, Listing',
         \A id \in DOMAIN events' :
           \/ id \in DOMAIN events /\ events'[id].next = events[id].next
           \/ id > lastId /\ events'[id].next = Unset
  PROVE  Orderly'
  <1> USE DEF Orderly
  <1>1. Clocked' /\ lastId \in Nat /\ lastId' \in Nat /\ lastId <= lastId'
    BY Bounds DEF Typing, Clocked
  <1>2. \A id : (Runs(id)' <=> Runs(id)) /\ \A x : Done(x)' <=> Done(x)
    BY DEF Runs, Done, InPass
  <1>3. Rest' = Rest /\ th'.rest = th.rest /\ th' = th
    BY DEF Rest
  <1>4. Passing'
    <2>1. \A i \in DOMAIN th.rest : th.rest[i].id <= lastId /\ th.rest[i].id \in Nat
      <3>1. th.rest \in Seq(Copies) /\ \A i \in DOMAIN th.rest : th.rest[i].id <= lastId
        BY DEF Typing, Passing
      <3>2. \A i \in DOMAIN th.rest : th.rest[i] \in Copies
        BY <3>1, LenProperties, ElementOfSeq
      <3>3. \A c \in Copies : c.id \in Nat
        BY Bounds DEF Copies
      <3> QED  BY <3>1, <3>2, <3>3
    <2>2. \A i \in DOMAIN th.rest : th.rest[i].id <= lastId'
      BY <1>1, <2>1
    <2>3. (\A i \in Rest : Agrees(th.rest[i]))'
      <3> SUFFICES ASSUME NEW i \in Rest  PROVE  Agrees(th.rest[i])'
        BY <1>3
      <3>1. Agrees(th.rest[i]) /\ i \in DOMAIN th.rest
        BY DEF Typing, Passing, Rest
      <3>2. ~(th.rest[i].id > lastId)
        BY <1>1, <2>1, <3>1
      <3> QED  BY <2>2, <3>1, <3>2 DEF Agrees
    <2> QED  BY <1>3, <2>2, <2>3 DEF Typing, Passing, InPass
  <1>5. Fresh'
    <2>1. \A id \in DOMAIN events' : FreshRow(id)'
      BY <1>2 DEF Fresh, FreshRow
    <2>2. \A i \in Rest' : FreshCopy(th.rest[i])'
      BY <1>3 DEF Fresh, FreshCopy
    <2> QED  BY <1>2, <2>1, <2>2 DEF Fresh, RunsOnce, Tally
  <1>6. Announced'
    <2>1. \A k \in DOMAIN notices : k[1] <= lastId /\ k[1] \in Nat
      BY DEF Announced, Tally, Ids
    <2>2. \A k \in DOMAIN notices : k[1] <= lastId' /\ ~(k[1] > lastId)
      BY <1>1, <2>1
    <2>3. \A id \in DOMAIN events' : ToldRow(id)'
      BY <1>2, <2>2 DEF Announced, ToldRow
    <2>4. \A i \in Rest' : ToldCopy(th.rest[i])'
      BY <1>3 DEF Announced, ToldCopy
    <2> QED  BY <1>2, <2>2, <2>3, <2>4 DEF Announced, Tally
  <1>7. Heard'
    <2>1. warned' \in [1..WarnSlots -> WarnRows']
      <3>1. 0..lastId \subseteq 0..lastId'
        BY <1>1
      <3> QED  BY <3>1 DEF Heard, WarnRows
    <2>2. CASE Cardinality(Told) > WarnSlots
      BY <2>1, <2>2 DEF Heard, Told
    <2>3. CASE /\ Slotted
               /\ \A k \in DOMAIN notices : Times(k, notices) <= 2
               /\ \A id \in DOMAIN events : Twice(id, events[id].next)
               /\ \A i \in Rest : Twice(th.rest[i].id, th.rest[i].next)
      <3>1. Slotted'
        BY <2>3 DEF Slotted, Told
      <3>2. \A id \in DOMAIN events' : Twice(id, events[id].next)'
        BY <2>3 DEF Twice, Sent
      <3>3. \A i \in Rest' : Twice(th.rest[i].id, th.rest[i].next)'
        BY <1>3, <2>3 DEF Twice, Sent
      <3> QED  BY <2>1, <2>3, <3>1, <3>2, <3>3 DEF Heard
    <2> QED  BY <2>2, <2>3 DEF Heard
  <1> QED  BY <1>1, <1>4, <1>5, <1>6, <1>7 DEF Typing

LEMMA EditorKept ==
  ASSUME Orderly,
         \/ \E n \in Names, t \in Typed : EditorAdd(n, t[1], t[2])
         \/ \E id \in Ids : EditorDelete(id) \/ \E shown \in BOOLEAN : EditorToggle(id, shown)
  PROVE  Orderly'
  <1>1. Listing /\ lastId \in 0..MaxId /\ MaxId \in Nat
    BY Bounds DEF Orderly, Typing, Clocked
  <1>2. ASSUME NEW n \in Names, NEW t \in Typed, EditorAdd(n, t[1], t[2])
        PROVE  Orderly'
    <2> DEFINE new == [name |-> n, sched |-> t[1], type |-> t[2], warn |-> 0, next |-> Unset,
                       enabled |-> TRUE]
    <2>1. new \in EventRows
      BY SchedulerAssumption DEF EventRows
    <2>2. /\ lastId' = lastId + 1 /\ lastId < MaxId
          /\ events' = [id \in DOMAIN events \cup {lastId + 1} |->
                          IF id \in DOMAIN events THEN events[id] ELSE new]
          /\ UNCHANGED <<clock, dst, board, th, warned, crashes, runs, notices>>
      BY <1>2 DEF EditorAdd, db_event_add
    <2>3. DOMAIN events \subseteq 1..lastId /\ \A id \in DOMAIN events : events[id] \in EventRows
      BY <1>1 DEF Listing
    <2>4. new.next = Unset
      OBVIOUS
    <2> HIDE DEF new
    <2>5. /\ DOMAIN events' = DOMAIN events \cup {lastId + 1}
          /\ events' \in [DOMAIN events' -> EventRows]
      BY <2>1, <2>2, <2>3
    <2>6. lastId' \in lastId..MaxId /\ 1..lastId \cup {lastId + 1} \subseteq 1..lastId'
      BY <1>1, <2>2
    <2>7. Listing'
      BY <2>3, <2>5, <2>6 DEF Listing
    <2>8. \A id \in DOMAIN events' :
            \/ id \in DOMAIN events /\ events'[id].next = events[id].next
            \/ id > lastId /\ events'[id].next = Unset
      BY <1>1, <2>2, <2>4, <2>5
    <2> QED  BY <2>2, <2>6, <2>7, <2>8, Edited
  <1>3. ASSUME NEW id \in Ids, EditorDelete(id)  PROVE  Orderly'
    <2>1. /\ events' = [i \in DOMAIN events \ {id} |-> events[i]]
          /\ UNCHANGED <<lastId, clock, dst, board, th, warned, crashes, runs, notices>>
      BY <1>3 DEF EditorDelete, db_event_delete
    <2>2. Listing' /\ lastId' \in lastId..MaxId
      BY <1>1, <2>1 DEF Listing
    <2> QED  BY <2>1, <2>2, Edited
  <1>4. ASSUME NEW id \in Ids, NEW shown \in BOOLEAN, EditorToggle(id, shown)  PROVE  Orderly'
    <2>1. /\ events' = [events EXCEPT ![id] = [events[id] EXCEPT !.enabled = ~shown]]
          /\ id \in DOMAIN events
          /\ UNCHANGED <<lastId, clock, dst, board, th, warned, crashes, runs, notices>>
      BY <1>4 DEF EditorToggle, db_event_toggle, UpdateRow
    <2>2. events[id] \in EventRows
      BY <1>1, <2>1 DEF Listing
    <2>3. PICK row : row = [events[id] EXCEPT !.enabled = ~shown]
      OBVIOUS
    <2>4. row \in EventRows /\ row.next = events[id].next
      BY <2>2, <2>3 DEF EventRows
    <2>5. events' = [events EXCEPT ![id] = row]
      BY <2>1, <2>3
    <2>6. Listing' /\ lastId' \in lastId..MaxId
      BY <1>1, <2>1, <2>4, <2>5 DEF Listing
    <2>7. \A i \in DOMAIN events' : i \in DOMAIN events /\ events'[i].next = events[i].next
      BY <2>4, <2>5
    <2> QED  BY <2>1, <2>6, <2>7, Edited
  <1> QED  BY <1>2, <1>3, <1>4

-----------------------------------------------------------------------------
(* The process starts and dies.                                            *)

(* A new process has announced nothing, and its clock is past every time   *)
(* that has run.                                                           *)
LEMMA StartedKept == ASSUME Orderly, scheduler_start PROVE Orderly'
  <1> USE DEF Orderly
  <1>1. /\ UNCHANGED <<events, lastId, clock, dst, crashes, runs>>
        /\ board = "down" /\ board' = "up" /\ clock > th.now
        /\ warned' = [i \in 1..WarnSlots |-> NoWarning] /\ notices' = EmptyBag
        /\ th' = [pc |-> "head", now |-> 0, rest |-> << >>]
    BY DEF scheduler_start, Idle
  <1>2. Clocked' /\ Listing' /\ th.pc = "none" /\ clock \in Nat /\ th.now \in Nat /\ lastId \in Nat
    BY <1>1 DEF Typing, Clocked, Listing, Passing
  <1>3. Passing' /\ Rest' = {} /\ \A id : ~Runs(id)'
    <2>1. th' \in [pc : Stages \ {"each", "child"}, now : 0..clock', rest : {<< >>}]
      BY <1>1, <1>2 DEF Stages
    <2> QED  BY <1>1, <1>2, <2>1, NoRest
  <1>4. Fresh'
    <2>1. \A k \in DOMAIN runs : Done(k[2])'
      <3> SUFFICES ASSUME NEW k \in DOMAIN runs  PROVE  Done(k[2])'
        OBVIOUS
      <3>1. k[2] \in Nat /\ Done(k[2])
        BY DEF Fresh, Tally
      <3>2. k[2] < clock
        BY <1>1, <1>2, <3>1 DEF Done
      <3> QED  BY <1>1, <3>2 DEF Done, InPass
    <2>2. \A id \in DOMAIN events : FreshRow(id)'
      BY <1>1, <1>2, <1>3 DEF Fresh, FreshRow, Runs
    <2> QED  BY <1>1, <1>3, <2>1, <2>2 DEF Fresh, RunsOnce, Tally
  <1>5. DOMAIN notices' = {} /\ Tally(notices')
    BY <1>1, NoneYet
  <1>6. Announced'
    BY <1>3, <1>5 DEF Announced, ToldRow, Tally
  <1>7. Heard'
    <2>1. NoWarning \in WarnRows' /\ NoWarning.id = 0
      BY <1>1, <1>2 DEF NoWarning, WarnRows
    <2>2. warned' \in [1..WarnSlots -> WarnRows'] /\ \A i \in 1..WarnSlots : warned'[i].id = 0
      BY <1>1, <2>1
    <2>3. Told' = {}
      BY <1>5 DEF Told
    <2>4. Slotted'
      BY <2>2, <2>3 DEF Slotted
    <2>5. \A j : Times(j, notices') = 0
      BY <1>5, TimesNat
    <2>6. \A id, s : Twice(id, s)'
      BY <2>5 DEF Twice
    <2> QED  BY <1>3, <1>5, <2>2, <2>4, <2>6 DEF Heard
  <1> QED  BY <1>2, <1>3, <1>4, <1>6, <1>7 DEF Typing

(* What is running when the process dies has run once more than the table  *)
(* knows.                                                                  *)
LEMMA CrashKept == ASSUME Orderly, Crash PROVE Orderly'
  <1> USE DEF Orderly
  <1>1. /\ UNCHANGED <<events, lastId, clock, dst, warned, runs, notices>>
        /\ board' = "down" /\ crashes' = crashes + 1
        /\ th' = [pc |-> "none", now |-> th.now, rest |-> << >>]
    BY DEF Crash, Idle
  <1>2. Clocked' /\ Listing' /\ crashes \in Nat /\ clock \in Nat /\ th.now \in 0..clock
    BY <1>1 DEF Typing, Clocked, Listing, Passing
  <1>3. Passing' /\ Rest' = {} /\ \A id : ~Runs(id)'
    <2>1. th' \in [pc : Stages \ {"each", "child"}, now : 0..clock', rest : {<< >>}]
      BY <1>1, <1>2 DEF Stages
    <2> QED  BY <1>1, <1>2, <2>1, NoRest
  <1>4. \A x \in Nat : Done(x) => Done(x)'
    BY <1>1 DEF Done, InPass
  <1>5. Fresh'
    <2>1. Tally(runs) /\ BagToSet(runs) = DOMAIN runs
          /\ \A j : Times(j, runs) \in Nat /\ (j \notin DOMAIN runs => Times(j, runs) = 0)
      BY TimesNat DEF Fresh
    <2>2. \A j : Times(j, runs) <= crashes + 1
      BY <1>2, <2>1 DEF Fresh, RunsOnce
    <2>3. RunsOnce'
      BY <1>1, <1>2, <2>1, <2>2 DEF RunsOnce
    <2>4. \A k \in DOMAIN runs : Done(k[2])'
      BY <1>4, <2>1 DEF Fresh, Tally
    <2>5. \A id \in DOMAIN events : FreshRow(id)'
      BY <1>1, <2>2 DEF FreshRow
    <2> QED  BY <1>1, <1>3, <2>1, <2>3, <2>4, <2>5 DEF Fresh, Tally
  <1>6. Announced'
    <2>1. \A k \in DOMAIN notices : k[2] \in Nat
      BY DEF Announced, Tally
    <2>2. \A id \in DOMAIN events : ToldRow(id)'
      BY <1>1, <1>4, <2>1 DEF Announced, ToldRow
    <2> QED  BY <1>1, <1>3, <2>2 DEF Announced, Tally
  <1>7. Heard'
    <2>1. warned' \in [1..WarnSlots -> WarnRows'] /\ Told' = Told
      BY <1>1 DEF Heard, WarnRows, Told
    <2>2. Slotted => Slotted'
      BY <1>1 DEF Slotted, Told
    <2>3. \A id, s : Twice(id, s) => Twice(id, s)'
      BY <1>1 DEF Twice, Sent
    <2> QED  BY <1>1, <1>3, <2>1, <2>2, <2>3 DEF Heard
  <1> QED  BY <1>2, <1>3, <1>5, <1>6, <1>7 DEF Typing

-----------------------------------------------------------------------------
(* The two steps that write the table for the first copy.                  *)

(* The row of one event is written, if it is there still.                  *)
RowWritten(id, next) ==
  /\ DOMAIN events' = DOMAIN events
  /\ \A j \in DOMAIN events : events'[j].next = IF j = id THEN next ELSE events[j].next

LEMMA Written ==
  ASSUME Listing, NEW id, NEW next \in Nat \cup {Unset},
         events' = IF id \in DOMAIN events
                   THEN [events EXCEPT ![id] = [events[id] EXCEPT !.next = next]] ELSE events,
         lastId' = lastId
  PROVE  Listing' /\ RowWritten(id, next)
  <1>1. CASE id \in DOMAIN events
    <2>1. events[id] \in EventRows
      BY <1>1 DEF Listing
    <2>2. PICK row : row = [events[id] EXCEPT !.next = next]
      OBVIOUS
    <2>3. row \in EventRows /\ row.next = next
      BY <2>1, <2>2 DEF EventRows
    <2>4. events' = [events EXCEPT ![id] = row]
      BY <1>1, <2>2
    <2> QED  BY <1>1, <2>3, <2>4 DEF Listing, RowWritten
  <1>2. CASE id \notin DOMAIN events
    BY <1>2 DEF Listing, RowWritten
  <1> QED  BY <1>1, <1>2

(* The thread goes on to the next copy: the others agree still.            *)
LEMMA MovedOn ==
  ASSUME Orderly, th.pc \in {"each", "child"}, th.rest # << >>,
         th' = [th EXCEPT !.pc = "each", !.rest = Tail(@)],
         UNCHANGED <<lastId, clock, board, dst, crashes>>,
         NEW next, RowWritten(th.rest[1].id, next)
  PROVE  /\ Clocked' /\ Passing' /\ \A id : ~Runs(id)'
         /\ th'.pc = "each" /\ th'.now = th.now
         /\ \A i \in Rest' : /\ i + 1 \in Rest /\ th'.rest[i] = th.rest[i + 1]
                             /\ th'.rest[i].id # th.rest[1].id /\ th'.rest[i].id <= lastId
  <1>1. Clocked' /\ th \in ThRows /\ Typing /\ Passing
    BY DEF Orderly, Typing, Clocked, Passing, ThRows
  <1>2. /\ Tail(th.rest) \in Seq(Copies)
        /\ \A i \in DOMAIN Tail(th.rest) :
             /\ i + 1 \in DOMAIN th.rest /\ i + 1 > 1 /\ Tail(th.rest)[i] = th.rest[i + 1]
             /\ Tail(th.rest)[i].id # th.rest[1].id
        /\ \A i, j \in DOMAIN Tail(th.rest) : Tail(th.rest)[i].id = Tail(th.rest)[j].id => i = j
    BY <1>1, FirstCopy
  <1>3. th'.pc = "each" /\ th'.now = th.now /\ th'.rest = Tail(th.rest) /\ th' \in ThRows'
    BY <1>1, <1>2 DEF ThRows, Stages
  <1>4. \A i \in DOMAIN th'.rest : /\ i + 1 \in Rest /\ th'.rest[i] = th.rest[i + 1]
                                   /\ th'.rest[i].id # th.rest[1].id /\ th'.rest[i].id <= lastId
    <2>1. \A i \in DOMAIN th.rest : th.rest[i].id <= lastId
      BY <1>1 DEF Passing
    <2> QED  BY <1>2, <1>3, <2>1 DEF Rest
  <1>5. \A i \in DOMAIN th'.rest : Agrees(th.rest[i])'
    <2> SUFFICES ASSUME NEW i \in DOMAIN th'.rest  PROVE  Agrees(th.rest[i])'
      OBVIOUS
    <2>1. Agrees(th.rest[i + 1])
      BY <1>1, <1>4 DEF Passing
    <2> QED  BY <1>4, <2>1 DEF Agrees, RowWritten
  <1>6. Passing'
    BY <1>1, <1>2, <1>3, <1>4, <1>5 DEF Passing, ThRows, Rest, InPass
  <1>7. Rest' \subseteq DOMAIN th'.rest
    BY DEF Rest
  <1> QED  BY <1>1, <1>3, <1>4, <1>6, <1>7 DEF Runs

(* db_event_mark_ran: the time that ran is forgotten; the thread has it    *)
(* behind it.                                                              *)
LEMMA RanKept == ASSUME Orderly, Ran PROVE Orderly'
  <1> USE DEF Orderly
  <1>1. /\ UNCHANGED <<lastId, clock, dst, board, warned, crashes, runs, notices>>
        /\ th.pc = "child" /\ th' = [th EXCEPT !.pc = "each", !.rest = Tail(@)]
        /\ th.rest # << >> /\ Listing
    BY DEF Ran, Typing, Passing
  <1>2. Head(th.rest) = th.rest[1]
    BY <1>1, FirstCopy
  <1>3. PICK id : id = th.rest[1].id
    OBVIOUS
  <1>4. Listing' /\ RowWritten(id, Unset)
    <2>1. events' = IF id \in DOMAIN events
                    THEN [events EXCEPT ![id] = [events[id] EXCEPT !.next = Unset]] ELSE events
      BY <1>2, <1>3 DEF Ran, db_event_mark_ran, UpdateRow
    <2> QED  BY <1>1, <2>1, Written
  <1>5. /\ Clocked' /\ Passing' /\ \A j : ~Runs(j)'
        /\ th'.pc = "each" /\ th'.now = th.now
        /\ \A i \in Rest' : i + 1 \in Rest /\ th'.rest[i] = th.rest[i + 1] /\ th'.rest[i].id # id
    BY <1>1, <1>3, <1>4, MovedOn
  <1>6. (\A j : Runs(j) <=> j = id) /\ \A x \in Nat : Done(x) => Done(x)'
    BY <1>1, <1>3, <1>5 DEF Runs, Done, InPass
  <1>7. Fresh'
    <2>1. \A k \in DOMAIN runs : Done(k[2])'
      BY <1>6 DEF Fresh, Tally
    <2>2. \A j \in DOMAIN events' : FreshRow(j)'
      BY <1>1, <1>4, <1>6 DEF Fresh, FreshRow, RowWritten
    <2>3. \A i \in Rest' : FreshCopy(th.rest[i])'
      BY <1>1, <1>5 DEF Fresh, FreshCopy
    <2> QED  BY <1>1, <2>1, <2>2, <2>3 DEF Fresh, RunsOnce, Tally
  <1>8. Announced'
    <2>1. \A k \in DOMAIN notices : k[2] \in Nat
      BY DEF Announced, Tally
    <2>2. \A k \in DOMAIN notices : k[1] = id => Done(k[2])'
      BY <1>5, <1>6 DEF Announced, Done, InPass
    <2>3. \A j \in DOMAIN events' : ToldRow(j)'
      BY <1>1, <1>4, <1>6, <2>1, <2>2 DEF Announced, ToldRow, RowWritten
    <2>4. \A i \in Rest' : ToldCopy(th.rest[i])'
      BY <1>1, <1>5 DEF Announced, ToldCopy
    <2> QED  BY <1>1, <1>5, <2>3, <2>4 DEF Announced, Tally
  <1>9. Heard'
    <2>1. warned' \in [1..WarnSlots -> WarnRows'] /\ Told' = Told
      BY <1>1 DEF Heard, WarnRows, Told
    <2>2. Slotted => Slotted'
      BY <1>1 DEF Slotted, Told
    <2>3. \A j, s : Twice(j, s) => Twice(j, s)'
      BY <1>1 DEF Twice, Sent
    <2>4. ASSUME \A j \in DOMAIN events : Twice(j, events[j].next)
          PROVE  \A j \in DOMAIN events' : Twice(j, events[j].next)'
      BY <1>1, <1>4, <2>4 DEF Twice, Sent, RowWritten
    <2>5. ASSUME \A i \in Rest : Twice(th.rest[i].id, th.rest[i].next)
          PROVE  \A i \in Rest' : Twice(th.rest[i].id, th.rest[i].next)'
      <3> SUFFICES ASSUME NEW i \in Rest'  PROVE  Twice(th.rest[i].id, th.rest[i].next)'
        OBVIOUS
      <3>1. PICK c : c = th.rest[i + 1]
        OBVIOUS
      <3>2. Twice(c.id, c.next) /\ th'.rest[i] = c
        BY <1>5, <2>5, <3>1
      <3>3. Twice(c.id, c.next)'
        BY <2>3, <3>2
      <3> QED  BY <3>2, <3>3 DEF Twice, Sent
    <2>6. CASE Cardinality(Told) > WarnSlots
      BY <2>1, <2>6 DEF Heard
    <2>7. CASE /\ Slotted
               /\ \A k \in DOMAIN notices : Times(k, notices) <= 2
               /\ \A j \in DOMAIN events : Twice(j, events[j].next)
               /\ \A i \in Rest : Twice(th.rest[i].id, th.rest[i].next)
      BY <1>1, <2>1, <2>2, <2>4, <2>5, <2>7 DEF Heard
    <2> QED  BY <2>6, <2>7 DEF Heard
  <1> QED  BY <1>4, <1>5, <1>7, <1>8, <1>9 DEF Typing

-----------------------------------------------------------------------------
(* A pass considers the first copy.                                        *)

(* A slot is found for a warning as long as there are no more events than  *)
(* slots: the event's own, or the first free one.                          *)
LEMMA FreeSlot ==
  ASSUME Slotted, warned \in [1..WarnSlots -> WarnRows], Tally(notices), NEW id \in Ids,
         Cardinality(Told \cup {id}) <= WarnSlots
  PROVE  \E p \in 1..WarnSlots :
           /\ warned[p].id \in {0, id} /\ \A j \in 1..WarnSlots : warned[j].id \in {0, id} => p <= j
  <1> DEFINE fit == {i \in 1..WarnSlots : warned[i].id \in {0, id}}
  <1>1. WarnSlots \in Nat \ {0} /\ id # 0 /\ 0 \notin Told
    BY Bounds, ToldFinite DEF Ids
  <1>2. fit # {}
    <2>1. CASE id \in Told
      BY <2>1 DEF Slotted
    <2>2. CASE id \notin Told
      <3> SUFFICES ASSUME \A i \in 1..WarnSlots : warned[i].id # 0  PROVE  FALSE
        OBVIOUS
      <3> DEFINE f == [i \in 1..WarnSlots |-> warned[i].id]
      <3>1. f \in Injection(1..WarnSlots, Told)
        <4>1. f \in [1..WarnSlots -> Told]
          BY DEF Slotted
        <4>2. \A i, j \in 1..WarnSlots : warned[i].id = warned[j].id => i = j
          BY DEF Slotted
        <4> QED  BY <4>1, <4>2 DEF Injection, IsInjective
      <3>2. IsFiniteSet(Told) /\ Cardinality(Told) \in Nat
        BY ToldFinite
      <3>3. Cardinality(1..WarnSlots) = WarnSlots
        BY <1>1, FS_Interval
      <3>4. Cardinality(1..WarnSlots) <= Cardinality(Told)
        BY <3>1, <3>2, FS_Injection
      <3>5. Cardinality(Told \cup {id}) = Cardinality(Told) + 1
        BY <2>2, <3>2, FS_AddElement
      <3> QED  BY <1>1, <3>2, <3>3, <3>4, <3>5
    <2> QED  BY <2>1, <2>2
  <1>3. \E p \in fit : \A j \in fit : ~(<<j, p>> \in OpToRel(<, Nat))
    <2>1. fit \subseteq Nat
      BY <1>1
    <2> QED  BY <1>2, <2>1, NatLessThanWellFounded, WFMin
  <1>4. \A j, p \in fit : ~(<<j, p>> \in OpToRel(<, Nat)) => p <= j
    BY <1>1 DEF OpToRel
  <1> QED  BY <1>3, <1>4

(* The event has that slot then, and the slots are still taken in order.   *)
LEMMA Marked ==
  ASSUME Slotted, warned \in [1..WarnSlots -> WarnRows], Tally(notices),
         NEW e \in Copies, e.id <= lastId, lastId \in 0..MaxId, lastId' = lastId,
         Told' = Told \cup {e.id}, Cardinality(Told') <= WarnSlots,
         warned' = warning_mark_sent(e)
  PROVE  /\ Slotted' /\ Sent(e.id, e.next)'
         /\ \A j, s : j \notin {0, e.id} /\ Sent(j, s) => Sent(j, s)'
  <1> DEFINE new == [id |-> e.id, next |-> e.next]
             fit == {i \in 1..WarnSlots : warned[i].id \in {0, e.id}}
             first == CHOOSE i \in fit : \A j \in fit : i <= j
  <1>1. WarnSlots \in Nat \ {0} /\ e.id \in Ids /\ e.id # 0 /\ 0 \notin Told
    BY Bounds, ToldFinite DEF Ids, Copies
  <1>2. \E i \in fit : \A j \in fit : i <= j
    BY <1>1, FreeSlot
  <1>3. first \in fit /\ \A j \in fit : first <= j
    BY <1>2
  <1>4. fit # {}
    BY <1>2
  <1>5. warned' = [warned EXCEPT ![first] = new]
    BY <1>4 DEF warning_mark_sent
  <1>6. new.id = e.id /\ new.next = e.next
    OBVIOUS
  <1> HIDE DEF first, new
  <1>7. PICK p \in 1..WarnSlots :
          /\ warned[p].id \in {0, e.id}
          /\ \A j \in 1..WarnSlots : warned[j].id \in {0, e.id} => p <= j
          /\ warned' = [warned EXCEPT ![p] = new]
    BY <1>3, <1>5
  <1>8. /\ warned'[p] = new
        /\ \A i \in 1..WarnSlots : i # p => warned'[i] = warned[i]
    BY <1>7
  <1>9. \A i \in 1..WarnSlots : warned[i].id = e.id => i = p
    <2> SUFFICES ASSUME NEW i \in 1..WarnSlots, warned[i].id = e.id, i # p  PROVE  FALSE
      OBVIOUS
    <2>1. p < i
      BY <1>1, <1>7
    <2>2. warned[p].id # 0
      BY <1>1, <2>1 DEF Slotted
    <2>3. warned[p].id = e.id
      BY <1>7, <2>2
    <2> QED  BY <1>1, <2>3 DEF Slotted
  <1>10. \A i \in 1..WarnSlots : warned'[i].id = IF i = p THEN e.id ELSE warned[i].id
    BY <1>6, <1>8
  <1>11. Slotted'
    <2>1. \A i, j \in 1..WarnSlots : warned'[i].id = warned'[j].id /\ warned'[i].id # 0 => i = j
      BY <1>9, <1>10 DEF Slotted
    <2>2. \A i, j \in 1..WarnSlots : j < i /\ warned'[i].id # 0 => warned'[j].id # 0
      <3> SUFFICES ASSUME NEW i \in 1..WarnSlots, NEW j \in 1..WarnSlots, j < i,
                          warned'[i].id # 0, j # p
                   PROVE  warned[j].id # 0
        BY <1>1, <1>10
      <3>1. CASE i = p
        BY <1>1, <1>7, <3>1
      <3>2. CASE i # p
        BY <1>10, <3>2 DEF Slotted
      <3> QED  BY <3>1, <3>2
    <2>3. \A i \in 1..WarnSlots : warned'[i].id # 0 => warned'[i].id \in Told'
      BY <1>10 DEF Slotted
    <2>4. \A id \in Told' : \E i \in 1..WarnSlots : warned'[i].id = id
      <3> SUFFICES ASSUME NEW id \in Told, id # e.id
                   PROVE  \E i \in 1..WarnSlots : warned'[i].id = id
        BY <1>10
      <3>1. PICK i \in 1..WarnSlots : warned[i].id = id
        BY DEF Slotted
      <3>2. i # p
        BY <1>1, <1>7, <3>1
      <3> QED  BY <1>10, <3>1, <3>2
    <2> QED  BY <2>1, <2>2, <2>3, <2>4 DEF Slotted
  <1>12. Sent(e.id, e.next)'
    BY <1>6, <1>8 DEF Sent, new
  <1>13. \A j, s : j \notin {0, e.id} /\ Sent(j, s) => Sent(j, s)'
    <2> SUFFICES ASSUME NEW j, NEW s, j \notin {0, e.id}, Sent(j, s)
                 PROVE  \E i \in 1..WarnSlots : warned'[i] = [id |-> j, next |-> s]
      BY DEF Sent
    <2>1. PICK i \in 1..WarnSlots : warned[i] = [id |-> j, next |-> s]
      BY DEF Sent
    <2>2. warned[i].id = j
      BY <2>1
    <2>3. i # p
      BY <1>7, <2>2
    <2> QED  BY <1>8, <2>1, <2>3
  <1> QED  BY <1>11, <1>12, <1>13

(* A time that the first copy gets, or has, was announced at most once or  *)
(* is remembered.                                                          *)
LEMMA FirstTwice ==
  ASSUME Tally(notices), NEW e \in Copies, NEW s \in Nat, ~(Cardinality(Told) > WarnSlots),
         e.next # Unset => s = e.next,
         e.next = Unset => <<e.id, s>> \notin DOMAIN notices,
         Cardinality(Told) <= WarnSlots => Twice(e.id, e.next)
  PROVE  Twice(e.id, s)
  <1>1. CASE e.next = Unset
    <2>1. Times(<<e.id, s>>, notices) = 0
      BY <1>1, TimesNat
    <2> QED  BY <2>1 DEF Twice
  <1>2. CASE e.next # Unset
    <2>1. Cardinality(Told) <= WarnSlots
      BY ToldFinite, Bounds
    <2> QED  BY <1>2, <2>1
  <1> QED  BY <1>1, <1>2

(* What callers heard and what is remembered, after one more warning.      *)
LEMMA WarnedHeard ==
  ASSUME Orderly, NEW e \in Copies, NEW s \in Nat, NEW key \in Ids \X Nat, key = <<e.id, s>>,
         e.id <= lastId, e.id \in Ids, lastId' = lastId, e.next # Unset => s = e.next,
         e.next = Unset => key \notin DOMAIN notices,
         Cardinality(Told) <= WarnSlots => Twice(e.id, e.next),
         ~warning_already_sent(e), warned' = warning_mark_sent(e),
         notices' = notices (+) SetToBag({key}), RowWritten(e.id, s),
         \A i \in Rest' : /\ i + 1 \in Rest /\ th'.rest[i] = th.rest[i + 1]
                          /\ th'.rest[i].id # e.id
  PROVE  Heard'
  <1> USE DEF Orderly
  <1>1. /\ Tally(notices) /\ Tally(notices') /\ DOMAIN notices' = DOMAIN notices \cup {key}
        /\ \A j : j # key => Times(j, notices') = Times(j, notices)
        /\ Times(key, notices') = Times(key, notices) + 1 /\ Times(key, notices) \in Nat
        /\ key \notin DOMAIN notices => Times(key, notices) = 0
    <2>1. Tally(notices)
      BY DEF Announced
    <2>2. OneMoreIn(key, notices, notices')
      BY <2>1, OneMore
    <2>3. key \notin DOMAIN notices => Times(key, notices) = 0
      BY <2>1, TimesNat
    <2> QED  BY <2>1, <2>2, <2>3 DEF OneMoreIn
  <1>2. Told' = Told \cup {e.id}
    BY <1>1 DEF Told
  <1>3. IsFiniteSet(Told) /\ Cardinality(Told) \in Nat /\ Cardinality(Told') \in Nat
        /\ Cardinality(Told) <= Cardinality(Told') /\ WarnSlots \in Nat
    <2>1. IsFiniteSet(Told) /\ Cardinality(Told) \in Nat
      BY <1>1, ToldFinite
    <2>2. Cardinality(Told') = IF e.id \in Told THEN Cardinality(Told) ELSE Cardinality(Told) + 1
      BY <1>2, <2>1, FS_AddElement
    <2> QED  BY <2>1, <2>2, Bounds
  <1>4. warned' \in [1..WarnSlots -> WarnRows']
    <2>1. [id |-> e.id, next |-> e.next] \in WarnRows'
      BY DEF Ids, Copies, WarnRows, Typing, Clocked
    <2>2. warned \in [1..WarnSlots -> WarnRows']
      BY DEF Heard, WarnRows
    <2>3. PICK p : warned' = [warned EXCEPT ![p] = [id |-> e.id, next |-> e.next]]
      BY DEF warning_mark_sent
    <2> QED  BY <2>1, <2>2, <2>3
  <1>5. CASE Cardinality(Told') > WarnSlots
    BY <1>4, <1>5 DEF Heard
  <1>6. CASE ~(Cardinality(Told') > WarnSlots)
    <2>1. Cardinality(Told') <= WarnSlots /\ Cardinality(Told) <= WarnSlots
      BY <1>3, <1>6
    <2>2. /\ Slotted
          /\ \A k \in DOMAIN notices : Times(k, notices) <= 2
          /\ \A id \in DOMAIN events : Twice(id, events[id].next)
          /\ \A i \in Rest : Twice(th.rest[i].id, th.rest[i].next)
      BY <1>3, <2>1 DEF Heard
    <2>3. /\ Slotted' /\ Sent(e.id, e.next)'
          /\ \A j, t : j \notin {0, e.id} /\ Sent(j, t) => Sent(j, t)'
      <3>1. warned \in [1..WarnSlots -> WarnRows] /\ lastId \in 0..MaxId
        BY DEF Heard, Typing, Clocked
      <3> QED  BY <1>1, <1>2, <2>1, <2>2, <3>1, Marked
    <2>4. Times(key, notices) <= 1
      <3>1. CASE e.next = Unset
        BY <1>1, <3>1
      <3>2. CASE e.next # Unset
        <4>1. ~Sent(e.id, e.next)
          BY DEF Sent, warning_already_sent
        <4> QED  BY <2>1, <3>2, <4>1 DEF Twice
      <3> QED  BY <3>1, <3>2
    <2>5. \A k \in DOMAIN notices' : Times(k, notices') <= 2
      <3>1. Times(key, notices') <= 2
        BY <1>1, <2>4
      <3>2. \A k \in DOMAIN notices' : k # key => Times(k, notices') = Times(k, notices)
        BY <1>1
      <3> QED  BY <1>1, <2>2, <3>1, <3>2
    <2>6. \A j, t : j \notin {0, e.id} /\ Twice(j, t) => Twice(j, t)'
      <3> SUFFICES ASSUME NEW j, NEW t, j \notin {0, e.id}, Twice(j, t)  PROVE  Twice(j, t)'
        OBVIOUS
      <3>1. Times(<<j, t>>, notices') = Times(<<j, t>>, notices)
        BY <1>1
      <3> QED  BY <2>3, <3>1 DEF Twice
    <2>7. Twice(e.id, s)'
      <3>1. CASE e.next = Unset
        <4>1. Times(<<e.id, s>>, notices') = 1
          BY <1>1, <3>1
        <4> QED  BY <4>1 DEF Twice
      <3>2. CASE e.next # Unset
        BY <2>3, <3>2 DEF Twice
      <3> QED  BY <3>1, <3>2
    <2>8. \A j \in DOMAIN events' : Twice(j, events[j].next)'
      <3> SUFFICES ASSUME NEW j \in DOMAIN events'  PROVE  Twice(j, events[j].next)'
        OBVIOUS
      <3>1. PICK t : t = events'[j].next
        OBVIOUS
      <3>2. j \in DOMAIN events /\ j # 0
        BY DEF RowWritten, Typing, Listing
      <3>3. Twice(j, t)'
        BY <2>2, <2>6, <2>7, <3>1, <3>2 DEF RowWritten
      <3> QED  BY <3>1, <3>3 DEF Twice, Sent
    <2>9. \A i \in Rest' : Twice(th.rest[i].id, th.rest[i].next)'
      <3> SUFFICES ASSUME NEW i \in Rest'  PROVE  Twice(th.rest[i].id, th.rest[i].next)'
        OBVIOUS
      <3>1. PICK c : c = th.rest[i + 1]
        OBVIOUS
      <3>2. Twice(c.id, c.next) /\ c.id # e.id /\ th'.rest[i] = c
        BY <2>2, <3>1
      <3>3. c.id # 0
        <4>1. i + 1 \in DOMAIN th.rest
          BY DEF Rest
        <4>2. c \in Copies
          BY <3>1, <4>1, LenProperties, ElementOfSeq DEF Typing, Passing
        <4> QED  BY <4>2 DEF Copies
      <3>4. Twice(c.id, c.next)'
        BY <2>6, <3>2, <3>3
      <3> QED  BY <3>2, <3>4 DEF Twice, Sent
    <2> QED  BY <1>4, <2>3, <2>5, <2>8, <2>9 DEF Heard
  <1> QED  BY <1>5, <1>6

(* The time the first copy stands for: the row has it after the step; it   *)
(* has not run but for crashes, and nothing later was announced.           *)
LEMMA FirstTime ==
  ASSUME Orderly, Consider
  PROVE  \E e \in Copies, s \in Nat :
           /\ e = Head(th.rest) /\ e = th.rest[1] /\ s = Slot(e, th.now)
           /\ e.id <= lastId /\ e.id \in Ids
           /\ NextTs(e, th.now) \in Nat /\ s <= NextTs(e, th.now)
           /\ e.next # Unset => s = e.next
           /\ e.next = Unset => s >= th.now
           /\ Listing' /\ RowWritten(e.id, s)
           /\ Times(<<e.id, s>>, runs) <= crashes
           /\ \A k \in DOMAIN notices : k[1] = e.id => k[2] <= s
           /\ e.next = Unset => <<e.id, s>> \notin DOMAIN notices
           /\ Cardinality(Told) <= WarnSlots => Twice(e.id, e.next)
  <1> USE DEF Orderly
  <1>1. th.pc = "each" /\ th.rest # << >> /\ lastId' = lastId
    BY DEF Consider
  <1>2. PICK e \in Copies : e = Head(th.rest) /\ e = th.rest[1] /\ 1 \in Rest
    BY <1>1, FirstCopy DEF Rest
  <1>3. th.now \in Nat /\ crashes \in Nat /\ Hour \in Nat
    BY Bounds DEF Typing, Clocked, Passing
  <1>4. e.id \in Ids /\ e.sched \in Schedules /\ e.next \in Nat \cup {Unset}
    BY <1>2 DEF Copies, Ids
  <1>5. Agrees(e) /\ FreshCopy(e) /\ ToldCopy(e)
        /\ (Cardinality(Told) <= WarnSlots => Twice(e.id, e.next))
    <2>1. Faithful(th.rest[1])
      BY <1>2, FaithfulRest
    <2> QED  BY <1>2, <2>1 DEF Faithful
  <1>6. PICK s : s = Slot(e, th.now)
    OBVIOUS
  <1>7. PICK n : n = NextTs(e, th.now)
    OBVIOUS
  <1>8. CASE e.next = Unset
    <2>1. s = n /\ n \in Nat /\ n >= th.now
      BY <1>3, <1>4, <1>6, <1>7, <1>8, NotPast DEF Slot, NextTs
    <2>2. events' = IF e.id \in DOMAIN events
                    THEN [events EXCEPT ![e.id] = [events[e.id] EXCEPT !.next = s]] ELSE events
      BY <1>2, <1>7, <1>8, <2>1 DEF Consider, db_event_update_next, UpdateRow
    <2>3. Listing' /\ RowWritten(e.id, s)
      BY <1>1, <2>1, <2>2, Written DEF Typing
    <2>4. \A k \in DOMAIN runs : k[1] = e.id => k[2] < th.now
      BY <1>5, <1>8 DEF FreshCopy
    <2>5. <<e.id, s>> \notin DOMAIN runs
      BY <1>3, <2>1, <2>4
    <2>6. Times(<<e.id, s>>, runs) = 0
      BY <2>5, TimesNat DEF Fresh
    <2>7. \A k \in DOMAIN notices : k[2] \in Nat /\ (k[1] = e.id => k[2] < th.now)
      BY <1>5, <1>8 DEF ToldCopy, Announced, Tally
    <2>8. \A k \in DOMAIN notices : k[1] = e.id => k[2] <= s
      BY <1>3, <2>1, <2>7
    <2>9. <<e.id, s>> \notin DOMAIN notices
      BY <1>3, <2>1, <2>7
    <2> QED  BY <1>2, <1>3, <1>4, <1>5, <1>6, <1>7, <1>8, <2>1, <2>3, <2>6, <2>8, <2>9 DEF Agrees
  <1>9. CASE e.next # Unset
    <2>1. s = e.next /\ s \in Nat /\ n \in Nat /\ s <= n
      BY <1>3, <1>4, <1>6, <1>7, <1>9 DEF Slot, NextTs
    <2>2. events' = events
      BY <1>2, <1>9 DEF Consider
    <2>3. Listing' /\ RowWritten(e.id, s)
      BY <1>1, <1>5, <2>1, <2>2 DEF Typing, Listing, RowWritten, Agrees
    <2>4. Times(<<e.id, s>>, runs) <= crashes
      BY <1>5, <1>9, <2>1 DEF FreshCopy
    <2>5. \A k \in DOMAIN notices : k[1] = e.id => k[2] <= s
      BY <1>5, <1>9, <2>1 DEF ToldCopy
    <2> QED  BY <1>2, <1>4, <1>5, <1>6, <1>7, <1>9, <2>1, <2>3, <2>4, <2>5 DEF Agrees
  <1> QED  BY <1>8, <1>9

(* A row that is due: its command starts and its time has run.             *)
LEMMA DueKept ==
  ASSUME Orderly, Consider, NextTs(Head(th.rest), th.now) <= th.now
  PROVE  Orderly'
  <1> USE DEF Orderly
  <1>1. PICK e \in Copies, s \in Nat :
          /\ e = Head(th.rest) /\ e = th.rest[1] /\ s = Slot(e, th.now)
          /\ e.id <= lastId /\ e.id \in Ids
          /\ NextTs(e, th.now) \in Nat /\ s <= NextTs(e, th.now)
          /\ e.next # Unset => s = e.next
          /\ Listing' /\ RowWritten(e.id, s)
          /\ Times(<<e.id, s>>, runs) <= crashes
          /\ \A k \in DOMAIN notices : k[1] = e.id => k[2] <= s
          /\ e.next = Unset => <<e.id, s>> \notin DOMAIN notices
          /\ Cardinality(Told) <= WarnSlots => Twice(e.id, e.next)
    BY FirstTime
  <1>2. Clocked /\ th \in ThRows /\ th.now \in Nat /\ crashes \in Nat /\ th.rest # << >> /\ th.pc = "each"
    BY DEF Typing, Passing, ThRows, Clocked, Consider
  <1>3. NextTs(e, th.now) <= th.now /\ s <= th.now
    BY <1>1, <1>2
  <1>4. /\ UNCHANGED <<lastId, clock, dst, board, crashes, warned, notices>>
        /\ th' = [th EXCEPT !.pc = "child"]
        /\ runs' = runs (+) SetToBag({<<e.id, s>>})
    <2>1. ~Warns(e, th.now)
      BY <1>1, <1>2, <1>3 DEF Warns
    <2> QED  BY <1>1, <1>3, <2>1 DEF Consider
  <1>5. Clocked' /\ th'.pc = "child" /\ th'.now = th.now /\ th'.rest = th.rest /\ th' \in ThRows'
    BY <1>2, <1>4 DEF ThRows, Stages, Clocked
  <1>6. Rest' = {i \in DOMAIN th.rest : i > 1} /\ Rest = DOMAIN th.rest
    BY <1>2, <1>5 DEF Rest
  <1>7. \A i \in Rest' : th.rest[i].id # e.id /\ i \in Rest
    <2>1. 1 \in DOMAIN th.rest /\ \A i \in DOMAIN th.rest : th.rest[i].id = th.rest[1].id => i = 1
      BY <1>2, FirstCopy DEF Typing, Passing
    <2> QED  BY <1>1, <1>6, <2>1
  <1>8. \A j : Runs(j)' <=> j = e.id
    BY <1>1, <1>5 DEF Runs
  <1>9. \A j : ~Runs(j)
    BY <1>2 DEF Runs
  <1>10. Passing'
    <2>1. (\A i \in Rest : Agrees(th.rest[i]))'
      <3> SUFFICES ASSUME NEW i \in Rest'  PROVE  Agrees(th.rest[i])'
        OBVIOUS
      <3>1. Agrees(th.rest[i])
        BY <1>7 DEF Typing, Passing
      <3> QED  BY <1>1, <1>4, <1>5, <1>7, <3>1 DEF Agrees, RowWritten
    <2>2. board' # "down"
      BY <1>2, <1>4 DEF Typing, Passing
    <2> QED  BY <1>2, <1>4, <1>5, <2>1, <2>2 DEF Typing, Passing, ThRows, InPass
  <1>11. Fresh'
    <2>1. /\ Tally(runs') /\ DOMAIN runs' = DOMAIN runs \cup {<<e.id, s>>}
          /\ Times(<<e.id, s>>, runs) \in Nat
          /\ Times(<<e.id, s>>, runs') = Times(<<e.id, s>>, runs) + 1
          /\ \A j : j # <<e.id, s>> => Times(j, runs') = Times(j, runs)
      <3>1. PICK k \in Ids \X Nat : k = <<e.id, s>>
        BY <1>1
      <3>2. Tally(runs)
        BY DEF Fresh
      <3>3. runs' = runs (+) SetToBag({k})
        BY <1>4, <3>1
      <3>4. OneMoreIn(k, runs, runs')
        BY <3>2, <3>3, OneMore
      <3> QED  BY <3>1, <3>4 DEF OneMoreIn
    <2>2. RunsOnce'
      <3>1. BagToSet(runs) = DOMAIN runs /\ BagToSet(runs') = DOMAIN runs'
        BY DEF BagToSet
      <3>2. \A k \in DOMAIN runs' : Times(k, runs') <= 1 + crashes
        <4>1. \A k \in DOMAIN runs : Times(k, runs) <= 1 + crashes
          BY <3>1 DEF Fresh, RunsOnce
        <4>3. \A k \in DOMAIN runs' : k # <<e.id, s>> => Times(k, runs') <= 1 + crashes
          BY <2>1, <4>1
        <4>4. Times(<<e.id, s>>, runs') <= 1 + crashes
          BY <1>1, <1>2, <2>1
        <4> QED  BY <4>3, <4>4
      <3> QED  BY <1>4, <3>1, <3>2 DEF RunsOnce
    <2>3. \A k \in DOMAIN runs' : Done(k[2])'
      <3>1. \A k \in DOMAIN runs : k[2] <= th.now
        BY <1>2 DEF Fresh, Done, InPass
      <3>2. \A k \in DOMAIN runs' : k[2] <= th.now
        BY <1>3, <2>1, <3>1
      <3> QED  BY <1>5, <3>2 DEF Done, InPass
    <2>4. \A j \in DOMAIN events' : FreshRow(j)'
      <3> SUFFICES ASSUME NEW j \in DOMAIN events', j # e.id  PROVE  FreshRow(j)'
        BY <1>8 DEF FreshRow
      <3>1. FreshRow(j) /\ events'[j].next = events[j].next
        BY <1>1 DEF Fresh, RowWritten
      <3>2. \A t : Times(<<j, t>>, runs') = Times(<<j, t>>, runs)
        BY <2>1
      <3> QED  BY <1>4, <1>9, <3>1, <3>2 DEF FreshRow
    <2>5. \A i \in Rest' : FreshCopy(th.rest[i])'
      <3> SUFFICES ASSUME NEW i \in Rest'  PROVE  FreshCopy(th.rest[i])'
        OBVIOUS
      <3>1. PICK c : c = th.rest[i]
        OBVIOUS
      <3>2. FreshCopy(c) /\ c.id # e.id
        BY <1>7, <3>1 DEF Fresh
      <3>3. Times(<<c.id, c.next>>, runs') = Times(<<c.id, c.next>>, runs)
        BY <2>1, <3>2
      <3>4. \A k \in DOMAIN runs' : k[1] = c.id => k \in DOMAIN runs
        BY <2>1, <3>2
      <3>5. FreshCopy(c)'
        BY <1>4, <1>5, <3>2, <3>3, <3>4 DEF FreshCopy
      <3> QED  BY <1>5, <3>1, <3>5 DEF FreshCopy
    <2> QED  BY <2>1, <2>2, <2>3, <2>4, <2>5 DEF Fresh
  <1>12. \A x \in Nat : Done(x) => Done(x)'
    BY <1>2, <1>4, <1>5 DEF Done, InPass
  <1>13. Announced'
    <2>1. \A k \in DOMAIN notices : k[2] \in Nat
      BY DEF Announced, Tally
    <2>2. \A j \in DOMAIN events' : ToldRow(j)'
      <3>1. \A j \in DOMAIN events' : j # e.id => ToldRow(j)'
        BY <1>1, <1>4, <1>12, <2>1 DEF Announced, ToldRow, RowWritten
      <3>2. e.id \in DOMAIN events' => ToldRow(e.id)'
        <4>1. s # Unset
          BY DEF Unset
        <4> QED  BY <1>1, <1>4, <4>1 DEF ToldRow, RowWritten
      <3> QED  BY <3>1, <3>2
    <2>3. \A i \in Rest' : ToldCopy(th.rest[i])'
      BY <1>4, <1>5, <1>7 DEF Announced, ToldCopy
    <2>4. \A k \in DOMAIN notices : k[1] = e.id => k[2] <= th.now
      BY <1>1, <1>2, <1>3, <2>1
    <2> QED  BY <1>4, <1>5, <1>8, <2>2, <2>3, <2>4 DEF Announced, Tally
  <1>14. Heard'
    <2>1. warned' \in [1..WarnSlots -> WarnRows'] /\ Told' = Told
      BY <1>4 DEF Heard, WarnRows, Told
    <2>2. CASE Cardinality(Told) > WarnSlots
      BY <2>1, <2>2 DEF Heard
    <2>3. CASE ~(Cardinality(Told) > WarnSlots)
      <3>1. /\ Slotted
            /\ \A k \in DOMAIN notices : Times(k, notices) <= 2
            /\ \A id \in DOMAIN events : Twice(id, events[id].next)
            /\ \A i \in Rest : Twice(th.rest[i].id, th.rest[i].next)
        BY <2>3 DEF Heard
      <3>2. Slotted'
        BY <1>4, <3>1 DEF Slotted, Told
      <3>3. \A j, t : Twice(j, t) => Twice(j, t)'
        BY <1>4 DEF Twice, Sent
      <3>4. Twice(e.id, s)
        <4>1. CASE e.next = Unset
          <5>1. Times(<<e.id, s>>, notices) = 0
            BY <1>1, <4>1, TimesNat DEF Announced
          <5> QED  BY <5>1 DEF Twice
        <4>2. CASE e.next # Unset
          <5>1. Cardinality(Told) <= WarnSlots
            BY <2>3, ToldFinite, Bounds DEF Announced
          <5> QED  BY <1>1, <4>2, <5>1
        <4> QED  BY <4>1, <4>2
      <3>5. \A j \in DOMAIN events' : Twice(j, events[j].next)'
        <4>1. \A j \in DOMAIN events' : Twice(j, events'[j].next)
          BY <1>1, <3>1, <3>4 DEF RowWritten
        <4> QED  BY <1>4, <4>1 DEF Twice, Sent
      <3>6. \A i \in Rest' : Twice(th.rest[i].id, th.rest[i].next)'
        BY <1>4, <1>5, <1>7, <3>1 DEF Twice, Sent
      <3> QED  BY <1>4, <2>1, <3>1, <3>2, <3>5, <3>6 DEF Heard
    <2> QED  BY <2>2, <2>3
  <1> QED  BY <1>1, <1>5, <1>10, <1>11, <1>13, <1>14 DEF Typing

(* A row that is not due yet: it has its time now, and callers may have    *)
(* been warned of it.                                                      *)
LEMMA NotDueKept ==
  ASSUME Orderly, Consider, ~(NextTs(Head(th.rest), th.now) <= th.now)
  PROVE  Orderly'
  <1> USE DEF Orderly
  <1>1. PICK e \in Copies, s \in Nat :
          /\ e = Head(th.rest) /\ e = th.rest[1] /\ s = Slot(e, th.now)
          /\ e.id <= lastId /\ e.id \in Ids
          /\ e.next # Unset => s = e.next
          /\ Listing' /\ RowWritten(e.id, s)
          /\ Times(<<e.id, s>>, runs) <= crashes
          /\ \A k \in DOMAIN notices : k[1] = e.id => k[2] <= s
          /\ e.next = Unset => <<e.id, s>> \notin DOMAIN notices
          /\ Cardinality(Told) <= WarnSlots => Twice(e.id, e.next)
    BY FirstTime
  <1>2. PICK key \in Ids \X Nat : key = <<e.id, s>>
    BY <1>1
  <1>3. /\ UNCHANGED <<lastId, clock, dst, board, crashes>> /\ runs' = runs
        /\ th.pc = "each" /\ th.rest # << >> /\ th \in ThRows
        /\ th' = [th EXCEPT !.rest = Tail(@)]
    BY <1>1 DEF Consider, Typing, Passing, ThRows
  <1>4. \/ warned' = warned /\ notices' = notices
        \/ /\ ~warning_already_sent(e)
           /\ warned' = warning_mark_sent(e) /\ notices' = notices (+) SetToBag({key})
    BY <1>1, <1>2 DEF Consider, Warns
  <1>5. /\ Clocked' /\ Passing' /\ \A j : ~Runs(j)'
        /\ th'.pc = "each" /\ th'.now = th.now
        /\ \A i \in Rest' : /\ i + 1 \in Rest /\ th'.rest[i] = th.rest[i + 1]
                            /\ th'.rest[i].id # e.id /\ th'.rest[i].id <= lastId
    <2>1. th' = [th EXCEPT !.pc = "each", !.rest = Tail(@)]
      BY <1>3 DEF ThRows
    <2> QED  BY <1>1, <1>3, <2>1, MovedOn
  <1>6. \A j : ~Runs(j)
    BY <1>3 DEF Runs
  <1>7. \A x : Done(x) => Done(x)'
    BY <1>3, <1>5 DEF Done, InPass
  <1>8. Fresh'
    <2>1. \A k \in DOMAIN runs : Done(k[2])'
      BY <1>7 DEF Fresh
    <2>2. \A j \in DOMAIN events' : FreshRow(j)'
      <3>1. \A j \in DOMAIN events' : events'[j].next # Unset =>
              Times(<<j, events'[j].next>>, runs) <= crashes
        BY <1>1, <1>6 DEF Fresh, FreshRow, RowWritten
      <3> QED  BY <1>3, <3>1 DEF FreshRow
    <2>3. \A i \in Rest' : FreshCopy(th.rest[i])'
      BY <1>3, <1>5 DEF Fresh, FreshCopy
    <2> QED  BY <1>3, <2>1, <2>2, <2>3 DEF Fresh, RunsOnce, Tally
  <1>9. /\ Tally(notices) /\ Tally(notices')
        /\ \A k \in DOMAIN notices' : k \in DOMAIN notices \/ k = key
        /\ \A j : j # key => Times(j, notices') = Times(j, notices)
    <2>1. Tally(notices)
      BY DEF Announced
    <2>2. CASE notices' = notices
      BY <2>1, <2>2
    <2>3. CASE notices' = notices (+) SetToBag({key})
      <3>1. OneMoreIn(key, notices, notices')
        BY <2>1, <2>3, OneMore
      <3> QED  BY <2>1, <3>1 DEF OneMoreIn
    <2> QED  BY <1>4, <2>2, <2>3
  <1>10. Announced'
    <2>1. \A k \in DOMAIN notices' : k[1] <= lastId
      BY <1>1, <1>2, <1>9 DEF Announced
    <2>2. \A j \in DOMAIN events' : ToldRow(j)'
      <3>1. ASSUME NEW j \in DOMAIN events', j # e.id  PROVE  ToldRow(j)'
        <4>1. ToldRow(j) /\ events'[j].next = events[j].next
          BY <1>1, <3>1 DEF Announced, RowWritten
        <4>2. \A k \in DOMAIN notices' : k[1] = j => k \in DOMAIN notices
          BY <1>2, <1>9, <3>1
        <4> QED  BY <1>7, <4>1, <4>2 DEF ToldRow
      <3>2. ASSUME e.id \in DOMAIN events'  PROVE  ToldRow(e.id)'
        <4>1. s # Unset /\ events'[e.id].next = s
          BY <1>1, <3>2 DEF Unset, RowWritten
        <4>2. \A k \in DOMAIN notices' : k[1] = e.id => k[2] <= s
          BY <1>1, <1>2, <1>9
        <4> QED  BY <4>1, <4>2 DEF ToldRow
      <3> QED  BY <3>1, <3>2
    <2>3. \A i \in Rest' : ToldCopy(th.rest[i])'
      <3> SUFFICES ASSUME NEW i \in Rest'  PROVE  ToldCopy(th.rest[i])'
        OBVIOUS
      <3>1. PICK c : c = th.rest[i + 1]
        OBVIOUS
      <3>2. ToldCopy(c) /\ c.id # e.id /\ th'.rest[i] = c
        BY <1>5, <3>1 DEF Announced
      <3>3. \A k \in DOMAIN notices' : k[1] = c.id => k \in DOMAIN notices
        BY <1>2, <1>9, <3>2
      <3>4. ToldCopy(c)'
        BY <1>5, <3>2, <3>3 DEF ToldCopy
      <3> QED  BY <3>2, <3>4 DEF ToldCopy
    <2> QED  BY <1>3, <1>5, <1>9, <2>1, <2>2, <2>3 DEF Announced
  <1>11. Heard'
    <2>1. CASE warned' = warned /\ notices' = notices
      <3>1. warned' \in [1..WarnSlots -> WarnRows'] /\ Told' = Told
        BY <1>3, <2>1 DEF Heard, WarnRows, Told
      <3>2. CASE Cardinality(Told) > WarnSlots
        BY <3>1, <3>2 DEF Heard
      <3>3. CASE ~(Cardinality(Told) > WarnSlots)
        <4>1. /\ Slotted
              /\ \A k \in DOMAIN notices : Times(k, notices) <= 2
              /\ \A id \in DOMAIN events : Twice(id, events[id].next)
              /\ \A i \in Rest : Twice(th.rest[i].id, th.rest[i].next)
          BY <3>3 DEF Heard
        <4>2. Slotted'
          BY <2>1, <4>1 DEF Slotted, Told
        <4>3. Twice(e.id, s)
          BY <1>1, <1>9, <3>3, FirstTwice
        <4>4. \A j \in DOMAIN events' : Twice(j, events[j].next)'
          <5>1. \A j \in DOMAIN events' : Twice(j, events'[j].next)
            BY <1>1, <4>1, <4>3 DEF RowWritten
          <5> QED  BY <2>1, <5>1 DEF Twice, Sent
        <4>5. \A i \in Rest' : Twice(th.rest[i].id, th.rest[i].next)'
          BY <1>5, <2>1, <4>1 DEF Twice, Sent
        <4> QED  BY <2>1, <3>1, <4>1, <4>2, <4>4, <4>5 DEF Heard
      <3> QED  BY <3>2, <3>3
    <2>2. CASE /\ ~warning_already_sent(e)
               /\ warned' = warning_mark_sent(e) /\ notices' = notices (+) SetToBag({key})
      BY <1>1, <1>2, <1>3, <1>5, <2>2, WarnedHeard
    <2> QED  BY <1>4, <2>1, <2>2
  <1> QED  BY <1>1, <1>5, <1>8, <1>10, <1>11 DEF Typing

-----------------------------------------------------------------------------
(* The scheduler's invariant holds at the start, is kept and is enough.    *)

LEMMA OrderlyInit == SchedInit => Orderly
  <1> SUFFICES ASSUME SchedInit  PROVE  Orderly
    OBVIOUS
  <1> USE DEF SchedInit
  <1>1. DOMAIN runs = {} /\ DOMAIN notices = {} /\ Tally(runs) /\ Tally(notices)
    BY NoneYet
  <1>2. Clocked
    BY SchedulerAssumption, Bounds DEF Clocked
  <1>3. Listing
    BY SchedulerAssumption DEF Listing
  <1>4. th = [pc |-> IF board = "up" THEN "head" ELSE "none", now |-> 0, rest |-> << >>]
    BY DEF Idle
  <1>5. << >> \in Seq(Copies) /\ DOMAIN << >> = {}
    BY EmptySeq, LenProperties
  <1>6. Passing /\ Rest = {} /\ ~InPass /\ th.pc # "child"
    <2>1. th.pc \in {"head", "none"} /\ th.now = 0 /\ th.rest = << >>
      BY <1>4
    <2>2. th \in ThRows
      <3>1. 0 \in 0..clock
        OBVIOUS
      <3>2. PICK p : p = IF board = "up" THEN "head" ELSE "none"
        OBVIOUS
      <3>3. p \in Stages
        BY <3>2 DEF Stages
      <3>4. th = [pc |-> p, now |-> 0, rest |-> << >>]
        BY <1>4, <3>2
      <3> HIDE DEF SchedInit
      <3> QED  BY <1>5, <3>1, <3>3, <3>4 DEF ThRows
    <2>3. board = "down" => th.pc = "none"
      BY <1>4
    <2> QED  BY <1>5, <2>1, <2>2, <2>3 DEF Passing, Rest, InPass, ThRows
  <1>7. \A k : Times(k, runs) = 0 /\ Times(k, notices) = 0
    BY <1>1, TimesNat
  <1>8. Fresh
    <2>1. RunsOnce
      BY <1>1 DEF RunsOnce, BagToSet
    <2> QED  BY <1>1, <1>6, <1>7, <2>1 DEF Fresh, FreshRow
  <1>9. Announced
    BY <1>1, <1>6 DEF Announced, ToldRow
  <1>10. Heard
    <2>1. warned \in [1..WarnSlots -> WarnRows] /\ \A i \in 1..WarnSlots : warned[i].id = 0
      BY <1>2 DEF NoWarning, WarnRows, Clocked
    <2>2. Told = {}
      BY <1>1 DEF Told
    <2>3. Slotted
      BY <2>1, <2>2 DEF Slotted
    <2> QED  BY <1>1, <1>6, <1>7, <2>1, <2>3 DEF Heard, Twice
  <1> QED  BY <1>2, <1>3, <1>6, <1>8, <1>9, <1>10 DEF Orderly, Typing

LEMMA OrderlyNext == Orderly /\ [SchedNext]_schedvars => Orderly'
  <1> SUFFICES ASSUME Orderly, [SchedNext]_schedvars  PROVE  Orderly'
    OBVIOUS
  <1>1. CASE UNCHANGED schedvars
    <2>1. /\ UNCHANGED <<events, lastId, clock, dst, board>>
          /\ UNCHANGED <<th, warned, runs, notices, crashes>>
      BY <1>1 DEF schedvars
    <2>2. Clocked' /\ Listing' /\ lastId' \in lastId..MaxId
      BY <2>1, Bounds DEF Orderly, Typing, Clocked, Listing
    <2>3. \A id \in DOMAIN events' : id \in DOMAIN events /\ events'[id].next = events[id].next
      BY <2>1
    <2> QED  BY <2>1, <2>2, <2>3, Edited
  <1>2. CASE Pass
    BY <1>2, PassKept
  <1>3. CASE ThreadEnds \/ PassEnds \/ Wake
    BY <1>3, RestingKept
  <1>4. CASE Tick \/ scheduler_stop \/ Joined
    BY <1>4, WaitingKept
  <1>5. CASE Skip
    BY <1>5, SkipKept
  <1>6. CASE Consider
    BY <1>6, DueKept, NotDueKept
  <1>7. CASE Ran
    BY <1>7, RanKept
  <1>8. CASE scheduler_start
    BY <1>8, StartedKept
  <1>9. CASE Crash
    BY <1>9, CrashKept
  <1>10. CASE \/ \E n \in Names, t \in Typed : EditorAdd(n, t[1], t[2])
              \/ \E id \in Ids : EditorDelete(id) \/ \E shown \in BOOLEAN : EditorToggle(id, shown)
    BY <1>10, EditorKept
  <1> QED  BY <1>1, <1>2, <1>3, <1>4, <1>5, <1>6, <1>7, <1>8, <1>9, <1>10 DEF SchedNext

LEMMA OrderlyEnough == Orderly => EventsInv
  <1> SUFFICES ASSUME Orderly  PROVE  EventsInv
    OBVIOUS
  <1>1. SchedTypeOK
    <2>1. \A i \in 1..WarnSlots : warned[i].id \in 0..lastId
      BY DEF Orderly, Heard, WarnRows
    <2>2. Clocked /\ Listing /\ th \in ThRows
      BY DEF Orderly, Typing, Passing, ThRows
    <2>3. lastId <= MaxId
      BY <2>2, Bounds DEF Clocked
    <2> QED  BY <2>1, <2>2, <2>3 DEF SchedTypeOK, Clocked, Listing, ThRows, Stages
  <1>2. RunsOnce
    BY DEF Orderly, Fresh
  <1>3. WarnedTwice
    <2>1. BagToSet(notices) = DOMAIN notices
      BY DEF BagToSet
    <2> QED  BY <2>1 DEF Orderly, Heard, WarnedTwice, Told
  <1> QED  BY <1>1, <1>2, <1>3 DEF EventsInv

(* However late a pass is and whatever the editor does to the table        *)
(* meanwhile, an event runs once for one time of its schedule (run_event,  *)
(* db_event_mark_ran), once more for every crash, and its callers hear of  *)
(* it at most twice (warning_mark_sent) while the slots are enough.        *)
THEOREM EventsCorrect == SchedSpec => []EventsInv
  <1>1. Orderly => EventsInv
    BY OrderlyEnough
  <1> QED  BY OrderlyInit, OrderlyNext, <1>1, PTL DEF SchedSpec

-----------------------------------------------------------------------------
(* Tables.  Some(S, T): the tables with keys in S and rows in T.           *)

Some(S, T) == UNION {[X -> T] : X \in SUBSET S}
Menu == BoundedSeq(Keys, MaxItems)
TabRows ==
  [votes : SUBSET (1..MaxVotes), choices : Some(1..MaxChoices, 1..MaxVotes),
   ballots : Some((1..MaxVotes) \X Users, 1..MaxChoices),
   confs : Some(1..MaxRows, Row), members : SUBSET (Users \X (1..MaxRows)),
   protos : Some(1..MaxRows, Row), areas : Some(RowNames, AreaRow),
   subs : SUBSET RowNames, posts : [bulletins : 0..MaxRows, oneliners : 0..MaxRows],
   menus : Some(RowNames, Menu),
   last : [votes : 0..MaxVotes, choices : 0..MaxChoices, confs : 0..MaxRows, protos : 0..MaxRows]]
OneEach(t) == \A i, j \in DOMAIN t : t[i].key = t[j].key => i = j
Anchored(d) ==
  /\ \A c \in DOMAIN d.choices : d.choices[c] \in d.votes
  /\ \A b \in DOMAIN d.ballots : b[1] \in d.votes /\ d.ballots[b] \in DOMAIN d.choices
  /\ \A m \in d.members : m[2] \in DOMAIN d.confs
Sound(d) == d \in TabRows /\ OneEach(d.confs) /\ OneEach(d.protos) /\ Anchored(d)

LEMMA TabBounds ==
  /\ MaxVotes \in Nat /\ MaxChoices \in Nat /\ MaxRows \in Nat /\ MaxItems \in Nat
  /\ MaxWork \in Nat /\ MaxVotes >= 1 /\ MaxChoices >= 2 /\ MaxItems >= 1
BY TablesAssumption DEF TablesAssumption

LEMMA Least ==
  ASSUME NEW S \in SUBSET Nat, S # {}
  PROVE  \E i \in S : \A j \in S : i <= j
<1>1. \E i \in S : \A j \in S : ~(<<j, i>> \in OpToRel(<, Nat))
  BY NatLessThanWellFounded, WFMin
<1>2. \A i, j \in S : ~(<<j, i>> \in OpToRel(<, Nat)) => i <= j
  BY DEF OpToRel
<1> QED  BY <1>1, <1>2

LEMMA SomeIs ==
  ASSUME NEW S, NEW T, NEW f
  PROVE  f \in Some(S, T) <=> /\ f = [i \in DOMAIN f |-> f[i]] /\ DOMAIN f \subseteq S
                              /\ \A i \in DOMAIN f : f[i] \in T
<1>1. ASSUME f \in Some(S, T)
      PROVE  /\ f = [i \in DOMAIN f |-> f[i]] /\ DOMAIN f \subseteq S
             /\ \A i \in DOMAIN f : f[i] \in T
  <2>1. PICK X \in SUBSET S : f \in [X -> T]
    BY <1>1 DEF Some
  <2> QED  BY <2>1
<1>2. ASSUME f = [i \in DOMAIN f |-> f[i]], DOMAIN f \subseteq S, \A i \in DOMAIN f : f[i] \in T
      PROVE  f \in Some(S, T)
  <2>1. f \in [DOMAIN f -> T]
    BY <1>2
  <2> QED  BY <1>2, <2>1 DEF Some
<1> QED  BY <1>1, <1>2

LEMMA PutIs ==
  ASSUME NEW f, NEW k, NEW v
  PROVE  /\ DOMAIN Put(f, k, v) = DOMAIN f \cup {k}
         /\ Put(f, k, v)[k] = v
         /\ \A i \in DOMAIN f : i # k => Put(f, k, v)[i] = f[i]
         /\ Put(f, k, v) = [i \in DOMAIN Put(f, k, v) |-> Put(f, k, v)[i]]
BY DEF Put

LEMMA PutSome ==
  ASSUME NEW S, NEW T, NEW f \in Some(S, T), NEW k \in S, NEW v \in T
  PROVE  Put(f, k, v) \in Some(S, T)
<1> DEFINE g == Put(f, k, v)
<1>1. /\ DOMAIN g = DOMAIN f \cup {k} /\ g[k] = v
      /\ \A i \in DOMAIN f : i # k => g[i] = f[i]
      /\ g = [i \in DOMAIN g |-> g[i]]
  BY DEF Put
<1> HIDE DEF g
<1>2. DOMAIN f \subseteq S /\ \A i \in DOMAIN f : f[i] \in T
  BY SomeIs
<1>3. \A i \in DOMAIN g : g[i] \in T
  BY <1>1, <1>2
<1>4. g \in Some(S, T)
  BY <1>1, <1>2, <1>3, SomeIs
<1> QED  BY <1>4 DEF g

LEMMA LessSome ==
  ASSUME NEW S, NEW T, NEW f \in Some(S, T), NEW X, X \subseteq DOMAIN f
  PROVE  [i \in X |-> f[i]] \in Some(S, T)
<1>1. DOMAIN f \subseteq S /\ \A i \in DOMAIN f : f[i] \in T
  BY SomeIs
<1>2. [i \in X |-> f[i]] \in [X -> T] /\ X \in SUBSET S
  BY <1>1
<1> QED  BY <1>2 DEF Some

LEMMA DropSome ==
  ASSUME NEW S, NEW T, NEW f \in Some(S, T), NEW k
  PROVE  /\ Drop(f, k) \in Some(S, T) /\ DOMAIN Drop(f, k) = DOMAIN f \ {k}
         /\ \A i \in DOMAIN f \ {k} : Drop(f, k)[i] = f[i]
<1>1. DOMAIN f \ {k} \subseteq DOMAIN f
  OBVIOUS
<1>2. Drop(f, k) \in Some(S, T)
  BY <1>1, LessSome DEF Drop
<1> QED  BY <1>2 DEF Drop

LEMMA SomeFits ==
  ASSUME NEW d \in TabRows
  PROVE  /\ d.votes \in SUBSET (1..MaxVotes) /\ d.choices \in Some(1..MaxChoices, 1..MaxVotes)
         /\ d.ballots \in Some((1..MaxVotes) \X Users, 1..MaxChoices)
         /\ d.confs \in Some(1..MaxRows, Row) /\ d.members \in SUBSET (Users \X (1..MaxRows))
         /\ d.protos \in Some(1..MaxRows, Row) /\ d.areas \in Some(RowNames, AreaRow)
         /\ d.menus \in Some(RowNames, Menu)
         /\ d.last.votes \in 0..MaxVotes /\ d.last.choices \in 0..MaxChoices
         /\ d.last.confs \in 0..MaxRows /\ d.last.protos \in 0..MaxRows
         /\ d.posts.bulletins \in 0..MaxRows /\ d.posts.oneliners \in 0..MaxRows
BY DEF TabRows

(* Votes *)

LEMMA CastSound ==
  ASSUME NEW d, Sound(d), NEW v, NEW c, NEW u \in Users
  PROVE  Sound(db_vote_cast(d, v, c, u))
<1>1. CASE ~(v \in d.votes /\ c \in DOMAIN d.choices)
  BY <1>1 DEF db_vote_cast
<1>2. CASE v \in d.votes /\ c \in DOMAIN d.choices
  <2> DEFINE t == Put(d.ballots, <<v, u>>, c)
             e == [d EXCEPT !.ballots = t]
  <2>0. d \in TabRows
    BY DEF Sound
  <2>1. v \in 1..MaxVotes /\ c \in 1..MaxChoices /\ d.ballots \in Some((1..MaxVotes) \X Users, 1..MaxChoices)
    <3>1. d.choices \in Some(1..MaxChoices, 1..MaxVotes) /\ d.votes \in SUBSET (1..MaxVotes)
      BY <2>0, SomeFits
    <3>2. DOMAIN d.choices \subseteq 1..MaxChoices
      BY <3>1, SomeIs
    <3> QED  BY <1>2, <2>0, <3>1, <3>2, SomeFits
  <2>2. t \in Some((1..MaxVotes) \X Users, 1..MaxChoices)
    <3>1. <<v, u>> \in (1..MaxVotes) \X Users
      BY <2>1
    <3> QED  BY <2>1, <3>1, PutSome
  <2>3. DOMAIN t = DOMAIN d.ballots \cup {<<v, u>>} /\ t[<<v, u>>] = c
        /\ \A b \in DOMAIN d.ballots : b # <<v, u>> => t[b] = d.ballots[b]
    BY DEF Put
  <2> HIDE DEF t
  <2>4. e \in TabRows /\ e.ballots = t /\ e.confs = d.confs /\ e.protos = d.protos
        /\ e.members = d.members /\ e.choices = d.choices /\ e.votes = d.votes
    BY <2>0, <2>2 DEF TabRows
  <2>5. db_vote_cast(d, v, c, u) = e
    BY <1>2 DEF db_vote_cast, t
  <2> HIDE DEF e
  <2>6. \A b \in DOMAIN e.ballots : b[1] \in e.votes /\ e.ballots[b] \in DOMAIN e.choices
    BY <1>2, <2>3, <2>4 DEF Sound, Anchored
  <2>7. Anchored(e) /\ OneEach(e.confs) /\ OneEach(e.protos)
    BY <2>4, <2>6 DEF Sound, Anchored
  <2> QED  BY <2>4, <2>5, <2>7 DEF Sound
<1> QED  BY <1>1, <1>2

LEMMA ChoiceAddSound ==
  ASSUME NEW d, Sound(d), NEW v, d.last.choices < MaxChoices
  PROVE  LET e == db_vote_choice_add(d, v) IN Sound(e) /\ e.ballots = d.ballots
<1>1. CASE v \notin d.votes
  BY <1>1 DEF db_vote_choice_add
<1>2. CASE v \in d.votes
  <2> DEFINE id == d.last.choices + 1
             t == Put(d.choices, id, v)
             e == [d EXCEPT !.choices = t, !.last.choices = id]
  <2>0. d \in TabRows
    BY DEF Sound
  <2>1. /\ id \in 1..MaxChoices /\ id \in 0..MaxChoices /\ v \in 1..MaxVotes
        /\ d.choices \in Some(1..MaxChoices, 1..MaxVotes)
    <3>1. d.last.choices \in 0..MaxChoices /\ d.choices \in Some(1..MaxChoices, 1..MaxVotes)
          /\ d.votes \in SUBSET (1..MaxVotes)
      BY <2>0, SomeFits
    <3> QED  BY <1>2, <3>1, TabBounds
  <2>2. t \in Some(1..MaxChoices, 1..MaxVotes)
    BY <2>1, PutSome
  <2>3. DOMAIN t = DOMAIN d.choices \cup {id} /\ t[id] = v
        /\ \A c \in DOMAIN d.choices : c # id => t[c] = d.choices[c]
    BY DEF Put
  <2>5. db_vote_choice_add(d, v) = e
    BY <1>2 DEF db_vote_choice_add
  <2> HIDE DEF t, id
  <2>4. e \in TabRows /\ e.ballots = d.ballots /\ e.confs = d.confs /\ e.protos = d.protos
        /\ e.members = d.members /\ e.choices = t /\ e.votes = d.votes
    BY <2>0, <2>1, <2>2 DEF TabRows
  <2> HIDE DEF e
  <2>6. /\ \A c \in DOMAIN e.choices : e.choices[c] \in e.votes
        /\ \A b \in DOMAIN e.ballots : b[1] \in e.votes /\ e.ballots[b] \in DOMAIN e.choices
    BY <1>2, <2>3, <2>4 DEF Sound, Anchored
  <2>7. Anchored(e) /\ OneEach(e.confs) /\ OneEach(e.protos)
    BY <2>4, <2>6 DEF Sound, Anchored
  <2> QED  BY <2>4, <2>5, <2>7 DEF Sound
<1> QED  BY <1>1, <1>2

LEMMA VoteAddSound ==
  ASSUME NEW d, Sound(d), d.last.votes < MaxVotes
  PROVE  LET e == db_vote_add(d) IN Sound(e) /\ e.ballots = d.ballots
<1> DEFINE id == d.last.votes + 1
           s == d.votes \cup {id}
           e == [d EXCEPT !.votes = s, !.last.votes = id]
<1>0. d \in TabRows
  BY DEF Sound
<1>1. id \in 0..MaxVotes /\ s \in SUBSET (1..MaxVotes)
  <2>1. d.last.votes \in 0..MaxVotes /\ d.votes \in SUBSET (1..MaxVotes)
    BY <1>0, SomeFits
  <2> QED  BY <2>1, TabBounds
<1>2. d.votes \subseteq s
  OBVIOUS
<1>3. db_vote_add(d) = e
  BY DEF db_vote_add
<1> HIDE DEF s, id
<1>4. e \in TabRows /\ e.ballots = d.ballots /\ e.confs = d.confs /\ e.protos = d.protos
      /\ e.members = d.members /\ e.choices = d.choices /\ e.votes = s
  BY <1>0, <1>1 DEF TabRows
<1> HIDE DEF e
<1>5. Anchored(e) /\ OneEach(e.confs) /\ OneEach(e.protos)
  BY <1>2, <1>4 DEF Sound, Anchored
<1> QED  BY <1>3, <1>4, <1>5 DEF Sound

LEMMA VoteDeleteSound ==
  ASSUME NEW d, Sound(d), NEW v, NEW n \in 1..2
  PROVE  LET e == db_vote_delete(d, v, n) IN Sound(e) /\ e.ballots = d.ballots
<1> DEFINE mine == db_vote_choices(d, v)
           used == \E b \in DOMAIN d.ballots :
                     IF n = 1 THEN d.ballots[b] \in mine ELSE b[1] = v
           t == [c \in DOMAIN d.choices \ mine |-> d.choices[c]]
           s == d.votes \ {v}
<1>0. d \in TabRows
  BY DEF Sound
<1>1. d.choices \in Some(1..MaxChoices, 1..MaxVotes) /\ d.votes \in SUBSET (1..MaxVotes)
  BY <1>0, SomeFits
<1>2. CASE ~used /\ n = 1
  <2> DEFINE e == [d EXCEPT !.choices = t]
  <2>1. db_vote_delete(d, v, n) = e
    BY <1>2 DEF db_vote_delete
  <2>2. t \in Some(1..MaxChoices, 1..MaxVotes)
    <3>1. DOMAIN d.choices \ mine \subseteq DOMAIN d.choices
      OBVIOUS
    <3> HIDE DEF mine
    <3> QED  BY <1>1, <3>1, LessSome
  <2>3. DOMAIN t = DOMAIN d.choices \ mine /\ \A c \in DOMAIN t : t[c] = d.choices[c]
    OBVIOUS
  <2>4. \A b \in DOMAIN d.ballots : d.ballots[b] \notin mine
    BY <1>2
  <2> HIDE DEF t, mine, used
  <2>5. e \in TabRows /\ e.ballots = d.ballots /\ e.confs = d.confs /\ e.protos = d.protos
        /\ e.members = d.members /\ e.choices = t /\ e.votes = d.votes
    BY <1>0, <2>2 DEF TabRows
  <2> HIDE DEF e
  <2>6. Anchored(e) /\ OneEach(e.confs) /\ OneEach(e.protos)
    BY <2>3, <2>4, <2>5 DEF Sound, Anchored
  <2> QED  BY <2>1, <2>5, <2>6 DEF Sound
<1>3. CASE ~used /\ n = 2 /\ mine = {}
  <2> DEFINE e == [d EXCEPT !.votes = s]
  <2>1. db_vote_delete(d, v, n) = e
    BY <1>3 DEF db_vote_delete
  <2>2. s \in SUBSET (1..MaxVotes)
    BY <1>1
  <2>3. /\ \A c \in DOMAIN d.choices : d.choices[c] # v
        /\ \A b \in DOMAIN d.ballots : b[1] # v
    BY <1>3 DEF db_vote_choices
  <2>4. \A x \in d.votes : x # v => x \in s
    OBVIOUS
  <2> HIDE DEF s, mine, used
  <2>5. e \in TabRows /\ e.ballots = d.ballots /\ e.confs = d.confs /\ e.protos = d.protos
        /\ e.members = d.members /\ e.choices = d.choices /\ e.votes = s
    BY <1>0, <2>2 DEF TabRows
  <2> HIDE DEF e
  <2>6. Anchored(e) /\ OneEach(e.confs) /\ OneEach(e.protos)
    BY <2>3, <2>4, <2>5 DEF Sound, Anchored
  <2> QED  BY <2>1, <2>5, <2>6 DEF Sound
<1>4. CASE ~(~used /\ n = 1) /\ ~(~used /\ n = 2 /\ mine = {})
  <2>1. db_vote_delete(d, v, n) = d
    BY <1>4 DEF db_vote_delete
  <2> QED  BY <2>1
<1> QED  BY <1>2, <1>3, <1>4

(* Conferences and protocols.  A key is looked for before it is stored.    *)

Unlike(f, id, r) == \A i \in DOMAIN f : i # id => f[i].key # r.key

LEMMA RowMore ==
  ASSUME NEW S, NEW f \in Some(S, Row), OneEach(f), NEW id \in S, NEW r \in Row,
         Unlike(f, id, r)
  PROVE  Put(f, id, r) \in Some(S, Row) /\ OneEach(Put(f, id, r))
<1> DEFINE t == Put(f, id, r)
<1>1. t \in Some(S, Row)
  BY PutSome
<1>2. DOMAIN t = DOMAIN f \cup {id} /\ t[id] = r /\ \A i \in DOMAIN f : i # id => t[i] = f[i]
  BY DEF Put
<1> HIDE DEF t
<1>3. OneEach(t)
  BY <1>2 DEF OneEach, Unlike
<1>4. t \in Some(S, Row) /\ OneEach(t)
  BY <1>1, <1>3
<1> QED  BY <1>4 DEF t

LEMMA RowLess ==
  ASSUME NEW S, NEW f \in Some(S, Row), OneEach(f), NEW id
  PROVE  LET t == Drop(f, id) IN t \in Some(S, Row) /\ OneEach(t) /\ DOMAIN t = DOMAIN f \ {id}
<1> DEFINE t == Drop(f, id)
<1>0. t \in Some(S, Row)
  BY DropSome
<1>1. t \in Some(S, Row) /\ DOMAIN t = DOMAIN f \ {id} /\ \A i \in DOMAIN t : t[i] = f[i]
  BY <1>0 DEF Drop
<1> HIDE DEF t
<1>2. OneEach(t)
  BY <1>1 DEF OneEach
<1>3. t \in Some(S, Row) /\ OneEach(t) /\ DOMAIN t = DOMAIN f \ {id}
  BY <1>1, <1>2
<1> QED  BY <1>3 DEF t

LEMMA RowEdited ==
  ASSUME NEW S, NEW f \in Some(S, Row), OneEach(f), NEW id \in DOMAIN f, NEW r \in Row,
         Unlike(f, id, r)
  PROVE  LET t == [f EXCEPT ![id] = r]
         IN  t \in Some(S, Row) /\ OneEach(t) /\ DOMAIN t = DOMAIN f
<1> DEFINE t == [f EXCEPT ![id] = r]
<1>0. f = [i \in DOMAIN f |-> f[i]] /\ DOMAIN f \subseteq S /\ \A i \in DOMAIN f : f[i] \in Row
  BY SomeIs
<1>1. DOMAIN t = DOMAIN f /\ t[id] = r /\ t = [i \in DOMAIN t |-> t[i]]
      /\ \A i \in DOMAIN f : i # id => t[i] = f[i]
  BY <1>0
<1> HIDE DEF t
<1>2. \A i \in DOMAIN t : t[i] \in Row
  BY <1>0, <1>1
<1>3. t \in Some(S, Row)
  BY <1>0, <1>1, <1>2, SomeIs
<1>4. OneEach(t)
  BY <1>1 DEF OneEach, Unlike
<1>5. t \in Some(S, Row) /\ OneEach(t) /\ DOMAIN t = DOMAIN f
  BY <1>1, <1>3, <1>4
<1> QED  BY <1>5 DEF t

(* A database with other conferences, protocols or memberships is sound    *)
(* when they are, and the memberships still name conferences.              *)
LEMMA Changed ==
  ASSUME NEW d, Sound(d), NEW e \in TabRows, e.votes = d.votes, e.choices = d.choices,
         e.ballots = d.ballots, OneEach(e.confs), OneEach(e.protos),
         \A x \in e.members : x[2] \in DOMAIN e.confs
  PROVE  Sound(e)
BY DEF Sound, Anchored

LEMMA ConfAddSound ==
  ASSUME NEW d, Sound(d), NEW k \in RowNames, d.last.confs < MaxRows
  PROVE  LET e == db_conference_add(d, k) IN Sound(e) /\ e.ballots = d.ballots
<1> DEFINE id == d.last.confs + 1
           r == [key |-> k, on |-> FALSE]
           t == Put(d.confs, id, r)
<1>0. d \in TabRows
  BY DEF Sound
<1>1. CASE \E i \in DOMAIN d.confs : d.confs[i].key = k
  BY <1>1 DEF db_conference_add
<1>2. CASE ~\E i \in DOMAIN d.confs : d.confs[i].key = k
  <2>1. id \in 1..MaxRows /\ id \in 0..MaxRows /\ d.confs \in Some(1..MaxRows, Row)
        /\ r \in Row /\ OneEach(d.confs)
    <3>1. d.last.confs \in 0..MaxRows /\ d.confs \in Some(1..MaxRows, Row)
      BY <1>0, SomeFits
    <3>2. r \in Row
      BY DEF Row
    <3> QED  BY <3>1, <3>2, TabBounds DEF Sound
  <2>2. Unlike(d.confs, id, r)
    BY <1>2 DEF Unlike
  <2> HIDE DEF r, id
  <2>3. t \in Some(1..MaxRows, Row) /\ OneEach(t) /\ DOMAIN t = DOMAIN d.confs \cup {id}
    <3>1. t \in Some(1..MaxRows, Row) /\ OneEach(t)
      BY <2>1, <2>2, RowMore
    <3>2. DOMAIN t = DOMAIN d.confs \cup {id}
      BY DEF Put
    <3> QED  BY <3>1, <3>2
  <2> HIDE DEF t
  <2>4. \A x \in d.members : x[2] \in DOMAIN t
    BY <2>3 DEF Sound, Anchored
  <2> DEFINE e == [d EXCEPT !.confs = t, !.last.confs = id]
  <2>5. e \in TabRows /\ e.ballots = d.ballots /\ e.confs = t /\ e.protos = d.protos
        /\ e.members = d.members /\ e.choices = d.choices /\ e.votes = d.votes
    BY <1>0, <2>1, <2>3 DEF TabRows
  <2>6. db_conference_add(d, k) = e
    BY <1>2 DEF db_conference_add, t, id, r
  <2> HIDE DEF e
  <2>7. Sound(e)
    BY <2>3, <2>4, <2>5, Changed DEF Sound
  <2> QED  BY <2>5, <2>6, <2>7
<1> QED  BY <1>1, <1>2

LEMMA ConfUpdateSound ==
  ASSUME NEW d, Sound(d), NEW i, NEW on \in BOOLEAN
  PROVE  LET e == db_conference_update(d, i, on) IN Sound(e) /\ e.ballots = d.ballots
<1> DEFINE r == [d.confs[i] EXCEPT !.on = on]
           t == [d.confs EXCEPT ![i] = r]
<1>0. d \in TabRows /\ OneEach(d.confs)
  BY DEF Sound
<1>1. CASE i \notin DOMAIN d.confs
  BY <1>1 DEF db_conference_update
<1>2. CASE i \in DOMAIN d.confs
  <2>0. d.confs \in Some(1..MaxRows, Row) /\ d.last.confs \in 0..MaxRows
    BY <1>0, SomeFits
  <2>1. d.confs[i] \in Row
    BY <1>2, <2>0, SomeIs
  <2>2. r \in Row /\ r.key = d.confs[i].key
    BY <2>1 DEF Row
  <2> HIDE DEF r
  <2>3. Unlike(d.confs, i, r)
    BY <1>0, <1>2, <2>2 DEF OneEach, Unlike
  <2>4. t \in Some(1..MaxRows, Row) /\ OneEach(t) /\ DOMAIN t = DOMAIN d.confs
    BY <1>0, <1>2, <2>0, <2>2, <2>3, RowEdited
  <2> HIDE DEF t
  <2>5. \A x \in d.members : x[2] \in DOMAIN t
    BY <2>4 DEF Sound, Anchored
  <2> DEFINE e == [d EXCEPT !.confs = t]
  <2>6. e \in TabRows /\ e.ballots = d.ballots /\ e.confs = t /\ e.protos = d.protos
        /\ e.members = d.members /\ e.choices = d.choices /\ e.votes = d.votes
    BY <1>0, <2>4 DEF TabRows
  <2>7. db_conference_update(d, i, on) = e
    BY <1>0, <1>2 DEF db_conference_update, t, r, TabRows
  <2> HIDE DEF e
  <2>8. Sound(e)
    BY <2>4, <2>5, <2>6, Changed DEF Sound
  <2> QED  BY <2>6, <2>7, <2>8
<1> QED  BY <1>1, <1>2

LEMMA ConfDeleteSound ==
  ASSUME NEW d, Sound(d), NEW i
  PROVE  LET e == db_conference_delete(d, i) IN Sound(e) /\ e.ballots = d.ballots
<1> DEFINE t == Drop(d.confs, i)
           m == {x \in d.members : x[2] # i}
<1>0. d \in TabRows /\ OneEach(d.confs)
  BY DEF Sound
<1>1. CASE \E x \in d.members : x[2] = i
  BY <1>1 DEF db_conference_delete
<1>2. CASE ~\E x \in d.members : x[2] = i
  <2>0. d.confs \in Some(1..MaxRows, Row) /\ d.last.confs \in 0..MaxRows
    BY <1>0, SomeFits
  <2>1. t \in Some(1..MaxRows, Row) /\ OneEach(t) /\ DOMAIN t = DOMAIN d.confs \ {i}
    BY <1>0, <2>0, RowLess
  <2>2. db_conference_delete(d, i) = [d EXCEPT !.confs = t, !.members = m]
    BY <1>2 DEF db_conference_delete
  <2> HIDE DEF t
  <2>3. m \in SUBSET d.members /\ \A x \in m : x[2] \in DOMAIN t
    BY <2>1 DEF Sound, Anchored
  <2> HIDE DEF m
  <2> DEFINE e == [d EXCEPT !.confs = t, !.members = m]
  <2>4. d.members \in SUBSET (Users \X (1..MaxRows))
    BY <1>0, SomeFits
  <2>5. e \in TabRows /\ e.ballots = d.ballots /\ e.confs = t /\ e.protos = d.protos
        /\ e.members = m /\ e.choices = d.choices /\ e.votes = d.votes
    BY <1>0, <2>1, <2>3, <2>4 DEF TabRows
  <2> HIDE DEF e
  <2>6. Sound(e)
    BY <2>1, <2>3, <2>5, Changed DEF Sound
  <2> QED  BY <2>2, <2>5, <2>6 DEF e
<1> QED  BY <1>1, <1>2

LEMMA MembersSound ==
  ASSUME NEW d, Sound(d), NEW u \in Users, NEW i
  PROVE  /\ LET e == db_conf_join(d, u, i) IN Sound(e) /\ e.ballots = d.ballots
         /\ LET e == db_conf_leave(d, u, i) IN Sound(e) /\ e.ballots = d.ballots
<1>0. d \in TabRows
  BY DEF Sound
<1>1. ASSUME NEW m \in SUBSET (Users \X (1..MaxRows)), \A x \in m : x[2] \in DOMAIN d.confs
      PROVE  LET e == [d EXCEPT !.members = m] IN Sound(e) /\ e.ballots = d.ballots
  <2> DEFINE e == [d EXCEPT !.members = m]
  <2>2. e \in TabRows /\ e.ballots = d.ballots /\ e.confs = d.confs /\ e.protos = d.protos
        /\ e.members = m /\ e.choices = d.choices /\ e.votes = d.votes
    BY <1>0 DEF TabRows
  <2> HIDE DEF e
  <2>3. Anchored(e) /\ OneEach(e.confs) /\ OneEach(e.protos)
    BY <1>1, <2>2 DEF Sound, Anchored
  <2>4. Sound(e) /\ e.ballots = d.ballots
    BY <2>2, <2>3 DEF Sound
  <2> QED  BY <2>4 DEF e
<1>2. /\ d.members \in SUBSET (Users \X (1..MaxRows)) /\ DOMAIN d.confs \subseteq 1..MaxRows
      /\ \A x \in d.members : x[2] \in DOMAIN d.confs
  <2>1. d.members \in SUBSET (Users \X (1..MaxRows)) /\ d.confs \in Some(1..MaxRows, Row)
    BY <1>0, SomeFits
  <2>2. DOMAIN d.confs \subseteq 1..MaxRows
    BY <2>1, SomeIs
  <2> QED  BY <2>1, <2>2 DEF Sound, Anchored
<1>3. LET e == db_conf_join(d, u, i) IN Sound(e) /\ e.ballots = d.ballots
  <2>1. CASE i \notin DOMAIN d.confs
    BY <2>1 DEF db_conf_join
  <2>2. CASE i \in DOMAIN d.confs
    <3> DEFINE m == d.members \cup {<<u, i>>}
    <3>1. m \in SUBSET (Users \X (1..MaxRows)) /\ \A x \in m : x[2] \in DOMAIN d.confs
      BY <1>2, <2>2
    <3>2. db_conf_join(d, u, i) = [d EXCEPT !.members = m]
      BY <2>2 DEF db_conf_join
    <3> HIDE DEF m
    <3> QED  BY <1>1, <3>1, <3>2
  <2> QED  BY <2>1, <2>2
<1>4. LET e == db_conf_leave(d, u, i) IN Sound(e) /\ e.ballots = d.ballots
  <2> DEFINE m == d.members \ {<<u, i>>}
  <2>1. m \in SUBSET (Users \X (1..MaxRows)) /\ \A x \in m : x[2] \in DOMAIN d.confs
    BY <1>2
  <2>2. db_conf_leave(d, u, i) = [d EXCEPT !.members = m]
    BY DEF db_conf_leave
  <2> HIDE DEF m
  <2> QED  BY <1>1, <2>1, <2>2
<1> QED  BY <1>3, <1>4

LEMMA ProtoAddSound ==
  ASSUME NEW d, Sound(d), NEW k \in RowNames, d.last.protos < MaxRows
  PROVE  LET e == db_protocol_add(d, k) IN Sound(e) /\ e.ballots = d.ballots
<1> DEFINE id == d.last.protos + 1
           r == [key |-> k, on |-> TRUE]
           t == Put(d.protos, id, r)
<1>0. d \in TabRows
  BY DEF Sound
<1>1. CASE NameTaken(d, k, 0)
  BY <1>1 DEF db_protocol_add
<1>2. CASE ~NameTaken(d, k, 0)
  <2>1. id \in 1..MaxRows /\ id \in 0..MaxRows /\ d.protos \in Some(1..MaxRows, Row)
        /\ r \in Row /\ OneEach(d.protos) /\ DOMAIN d.protos \subseteq 1..MaxRows
    <3>1. d.last.protos \in 0..MaxRows /\ d.protos \in Some(1..MaxRows, Row)
      BY <1>0, SomeFits
    <3>2. r \in Row
      BY DEF Row
    <3>3. DOMAIN d.protos \subseteq 1..MaxRows
      BY <3>1, SomeIs
    <3> QED  BY <3>1, <3>2, <3>3, TabBounds DEF Sound
  <2>2. Unlike(d.protos, id, r)
    BY <1>2, <2>1 DEF NameTaken, Unlike
  <2>6. db_protocol_add(d, k) = [d EXCEPT !.protos = t, !.last.protos = id]
    BY <1>2 DEF db_protocol_add
  <2> HIDE DEF r, id
  <2>3. t \in Some(1..MaxRows, Row) /\ OneEach(t) /\ DOMAIN t = DOMAIN d.protos \cup {id}
    <3>1. t \in Some(1..MaxRows, Row) /\ OneEach(t)
      BY <2>1, <2>2, RowMore
    <3>2. DOMAIN t = DOMAIN d.protos \cup {id}
      BY DEF Put
    <3> QED  BY <3>1, <3>2
  <2> DEFINE e == [d EXCEPT !.protos = t, !.last.protos = id]
  <2> HIDE DEF t
  <2>4. e \in TabRows /\ e.ballots = d.ballots /\ e.confs = d.confs /\ e.protos = t
        /\ e.members = d.members /\ e.choices = d.choices /\ e.votes = d.votes
    BY <1>0, <2>1, <2>3 DEF TabRows
  <2> HIDE DEF e
  <2>5. Sound(e)
    BY <2>3, <2>4, Changed DEF Sound, Anchored
  <2> QED  BY <2>4, <2>5, <2>6 DEF e
<1> QED  BY <1>1, <1>2

LEMMA ProtoUpdateSound ==
  ASSUME NEW d, Sound(d), NEW i, NEW r \in Row
  PROVE  LET e == db_protocol_update(d, i, r) IN Sound(e) /\ e.ballots = d.ballots
<1> DEFINE t == [d.protos EXCEPT ![i] = r]
<1>0. d \in TabRows /\ OneEach(d.protos)
  BY DEF Sound
<1>1. CASE i \notin DOMAIN d.protos \/ NameTaken(d, r.key, i)
  BY <1>1 DEF db_protocol_update
<1>2. CASE ~(i \notin DOMAIN d.protos \/ NameTaken(d, r.key, i))
  <2>0. d.protos \in Some(1..MaxRows, Row)
    BY <1>0, SomeFits
  <2>3. i \in DOMAIN d.protos /\ Unlike(d.protos, i, r)
    BY <1>2 DEF NameTaken, Unlike
  <2>4. t \in Some(1..MaxRows, Row) /\ OneEach(t) /\ DOMAIN t = DOMAIN d.protos
    BY <1>0, <2>0, <2>3, RowEdited
  <2>7. db_protocol_update(d, i, r) = [d EXCEPT !.protos = t]
    BY <1>0, <1>2 DEF db_protocol_update, TabRows
  <2> DEFINE e == [d EXCEPT !.protos = t]
  <2> HIDE DEF t
  <2>6. e \in TabRows /\ e.ballots = d.ballots /\ e.confs = d.confs /\ e.protos = t
        /\ e.members = d.members /\ e.choices = d.choices /\ e.votes = d.votes
    BY <1>0, <2>4 DEF TabRows
  <2> HIDE DEF e
  <2>8. Sound(e)
    BY <2>4, <2>6, Changed DEF Sound, Anchored
  <2> QED  BY <2>6, <2>7, <2>8 DEF e
<1> QED  BY <1>1, <1>2

LEMMA ProtoDeleteSound ==
  ASSUME NEW d, Sound(d), NEW i
  PROVE  LET e == db_protocol_delete(d, i) IN Sound(e) /\ e.ballots = d.ballots
<1> DEFINE t == Drop(d.protos, i)
           e == [d EXCEPT !.protos = t]
<1>0. d \in TabRows /\ OneEach(d.protos)
  BY DEF Sound
<1>1. d.protos \in Some(1..MaxRows, Row)
  BY <1>0, SomeFits
<1>2. t \in Some(1..MaxRows, Row) /\ OneEach(t)
  BY <1>0, <1>1, RowLess
<1>3. db_protocol_delete(d, i) = e
  BY DEF db_protocol_delete
<1> HIDE DEF t
<1>4. e \in TabRows /\ e.ballots = d.ballots /\ e.confs = d.confs /\ e.protos = t
      /\ e.members = d.members /\ e.choices = d.choices /\ e.votes = d.votes
  BY <1>0, <1>2 DEF TabRows
<1> HIDE DEF e
<1>5. Sound(e)
  BY <1>2, <1>4, Changed DEF Sound, Anchored
<1> QED  BY <1>3, <1>4, <1>5

(* Areas, subscription types, posts and menu files                         *)

LEMMA Elsewhere ==
  ASSUME NEW d, Sound(d), NEW e \in TabRows, e.votes = d.votes, e.choices = d.choices,
         e.ballots = d.ballots, e.confs = d.confs, e.protos = d.protos, e.members = d.members
  PROVE  Sound(e)
BY DEF Sound, Anchored

LEMMA AreasSound ==
  ASSUME NEW d, Sound(d), NEW n \in RowNames, NEW p \in BOOLEAN, NEW a \in BOOLEAN,
         NEW gone \in BOOLEAN
  PROVE  LET e == db_file_area_manage(d, n, p, a, gone) IN Sound(e) /\ e.ballots = d.ballots
<1>0. d \in TabRows /\ d.areas \in Some(RowNames, AreaRow)
  BY SomeFits DEF Sound
<1>1. ASSUME NEW t \in Some(RowNames, AreaRow)
      PROVE  LET e == [d EXCEPT !.areas = t] IN Sound(e) /\ e.ballots = d.ballots
  <2> DEFINE e == [d EXCEPT !.areas = t]
  <2>1. e \in TabRows /\ e.ballots = d.ballots /\ e.confs = d.confs /\ e.protos = d.protos
        /\ e.members = d.members /\ e.choices = d.choices /\ e.votes = d.votes
    BY <1>0 DEF TabRows
  <2> HIDE DEF e
  <2>2. Sound(e)
    BY <2>1, Elsewhere
  <2> QED  BY <2>1, <2>2 DEF e
<1>2. CASE gone /\ n \in InUse
  BY <1>2 DEF db_file_area_manage
<1>3. CASE gone /\ n \notin InUse
  <2> DEFINE t == Drop(d.areas, n)
  <2>1. t \in Some(RowNames, AreaRow)
    BY <1>0, DropSome
  <2>2. db_file_area_manage(d, n, p, a, gone) = [d EXCEPT !.areas = t]
    BY <1>3 DEF db_file_area_manage
  <2> HIDE DEF t
  <2> QED  BY <1>1, <2>1, <2>2
<1>4. CASE ~gone
  <2> DEFINE r == [path |-> p, acs |-> a]
             t == Put(d.areas, n, r)
  <2>1. r \in AreaRow
    BY DEF AreaRow
  <2>2. db_file_area_manage(d, n, p, a, gone) = [d EXCEPT !.areas = t]
    BY <1>4 DEF db_file_area_manage
  <2> HIDE DEF r
  <2>3. t \in Some(RowNames, AreaRow)
    BY <1>0, <2>1, PutSome
  <2> HIDE DEF t
  <2> QED  BY <1>1, <2>2, <2>3
<1> QED  BY <1>2, <1>3, <1>4

LEMMA PostsSound ==
  ASSUME NEW d, Sound(d)
  PROVE  /\ \A n \in RowNames : LET e == db_subscription_type_add(d, n)
                                IN  Sound(e) /\ e.ballots = d.ballots
         /\ d.posts.bulletins < MaxRows =>
              LET e == db_bulletin_add(d) IN Sound(e) /\ e.ballots = d.ballots
         /\ d.posts.oneliners < MaxRows =>
              LET e == db_oneliner_add(d) IN Sound(e) /\ e.ballots = d.ballots
<1>0. d \in TabRows /\ d.posts.bulletins \in 0..MaxRows /\ d.posts.oneliners \in 0..MaxRows
  BY SomeFits DEF Sound
<1>1. ASSUME NEW n \in RowNames
      PROVE  LET e == db_subscription_type_add(d, n) IN Sound(e) /\ e.ballots = d.ballots
  <2> DEFINE e == [d EXCEPT !.subs = d.subs \cup {n}]
  <2>1. e \in TabRows /\ e.ballots = d.ballots /\ e.confs = d.confs /\ e.protos = d.protos
        /\ e.members = d.members /\ e.choices = d.choices /\ e.votes = d.votes
    BY <1>0 DEF TabRows
  <2>2. db_subscription_type_add(d, n) = e
    BY <1>0 DEF db_subscription_type_add, TabRows
  <2> HIDE DEF e
  <2> QED  BY <2>1, <2>2, Elsewhere
<1>2. ASSUME d.posts.bulletins < MaxRows
      PROVE  LET e == db_bulletin_add(d) IN Sound(e) /\ e.ballots = d.ballots
  <2> DEFINE m == d.posts.bulletins + 1
             e == [d EXCEPT !.posts.bulletins = m]
  <2>0. m \in 0..MaxRows
    BY <1>0, <1>2, TabBounds
  <2>2. db_bulletin_add(d) = e
    BY <1>0 DEF db_bulletin_add, TabRows
  <2> HIDE DEF m
  <2>1. e \in TabRows /\ e.ballots = d.ballots /\ e.confs = d.confs /\ e.protos = d.protos
        /\ e.members = d.members /\ e.choices = d.choices /\ e.votes = d.votes
    BY <1>0, <2>0 DEF TabRows
  <2> HIDE DEF e
  <2> QED  BY <2>1, <2>2, Elsewhere
<1>3. ASSUME d.posts.oneliners < MaxRows
      PROVE  LET e == db_oneliner_add(d) IN Sound(e) /\ e.ballots = d.ballots
  <2> DEFINE m == d.posts.oneliners + 1
             e == [d EXCEPT !.posts.oneliners = m]
  <2>0. m \in 0..MaxRows
    BY <1>0, <1>3, TabBounds
  <2>2. db_oneliner_add(d) = e
    BY <1>0 DEF db_oneliner_add, TabRows
  <2> HIDE DEF m
  <2>1. e \in TabRows /\ e.ballots = d.ballots /\ e.confs = d.confs /\ e.protos = d.protos
        /\ e.members = d.members /\ e.choices = d.choices /\ e.votes = d.votes
    BY <1>0, <2>0 DEF TabRows
  <2> HIDE DEF e
  <2> QED  BY <2>1, <2>2, Elsewhere
<1> QED  BY <1>1, <1>2, <1>3

LEMMA MenusSound ==
  ASSUME NEW d, Sound(d), NEW f \in RowNames
  PROVE  /\ \A s \in Menu : LET e == menu_save(d, f, s) IN Sound(e) /\ e.ballots = d.ballots
         /\ LET e == menu_open(d, f) IN Sound(e) /\ e.ballots = d.ballots
         /\ LET e == menu_delete_file(d, f) IN Sound(e) /\ e.ballots = d.ballots
<1>0. d \in TabRows /\ d.menus \in Some(RowNames, Menu)
  BY SomeFits DEF Sound
<1>1. ASSUME NEW t \in Some(RowNames, Menu)
      PROVE  LET e == [d EXCEPT !.menus = t] IN Sound(e) /\ e.ballots = d.ballots
  <2> DEFINE e == [d EXCEPT !.menus = t]
  <2>1. e \in TabRows /\ e.ballots = d.ballots /\ e.confs = d.confs /\ e.protos = d.protos
        /\ e.members = d.members /\ e.choices = d.choices /\ e.votes = d.votes
    BY <1>0 DEF TabRows
  <2> HIDE DEF e
  <2>2. Sound(e)
    BY <2>1, Elsewhere
  <2> QED  BY <2>1, <2>2 DEF e
<1>2. ASSUME NEW s \in Menu
      PROVE  LET e == menu_save(d, f, s) IN Sound(e) /\ e.ballots = d.ballots
  <2> DEFINE t == Put(d.menus, f, s)
  <2>1. t \in Some(RowNames, Menu)
    BY <1>0, PutSome
  <2>2. menu_save(d, f, s) = [d EXCEPT !.menus = t]
    BY DEF menu_save
  <2> HIDE DEF t
  <2> QED  BY <1>1, <2>1, <2>2
<1>3. <<>> \in Menu
  <2>1. <<>> \in [1..0 -> Keys] /\ 0 \in 0..MaxItems
    BY TabBounds
  <2> QED  BY <2>1 DEF Menu, BoundedSeq, SeqOf
<1>4. LET e == menu_open(d, f) IN Sound(e) /\ e.ballots = d.ballots
  <2>1. menu_open(d, f) = menu_save(d, f, <<>>)
    BY DEF menu_open, menu_save
  <2> QED  BY <1>2, <1>3, <2>1
<1>5. LET e == menu_delete_file(d, f) IN Sound(e) /\ e.ballots = d.ballots
  <2> DEFINE t == Drop(d.menus, f)
  <2>1. t \in Some(RowNames, Menu)
    BY <1>0, DropSome
  <2>2. menu_delete_file(d, f) = [d EXCEPT !.menus = t]
    BY DEF menu_delete_file
  <2> HIDE DEF t
  <2> QED  BY <1>1, <2>1, <2>2
<1> QED  BY <1>2, <1>4, <1>5

(* The items of a menu being edited.                                       *)

LEMMA MenuIs == ASSUME NEW s PROVE s \in Menu <=> s \in Seq(Keys) /\ Len(s) <= MaxItems
<1>1. ASSUME s \in Menu PROVE s \in Seq(Keys) /\ Len(s) <= MaxItems
  <2>1. PICK n \in 0..MaxItems : s \in [1..n -> Keys]
    BY <1>1 DEF Menu, BoundedSeq, SeqOf
  <2>2. n \in Nat
    OBVIOUS
  <2>3. s \in Seq(Keys) /\ Len(s) = n
    BY <2>1, <2>2
  <2> QED  BY <2>1, <2>3, TabBounds
<1>2. ASSUME s \in Seq(Keys), Len(s) <= MaxItems PROVE s \in Menu
  <2>1. s \in [1..Len(s) -> Keys] /\ Len(s) \in 0..MaxItems
    BY <1>2, TabBounds
  <2> QED  BY <2>1 DEF Menu, BoundedSeq, SeqOf
<1> QED  BY <1>1, <1>2

LEMMA ItemAdded ==
  ASSUME NEW s \in Menu, NEW k \in Keys, Len(s) < MaxItems
  PROVE  Append(s, k) \in Menu
<1>1. s \in Seq(Keys)
  BY MenuIs
<1>2. Append(s, k) \in Seq(Keys) /\ Len(Append(s, k)) = Len(s) + 1
  BY <1>1
<1>3. Len(Append(s, k)) <= MaxItems
  <2>1. Len(s) \in Nat
    BY <1>1
  <2> QED  BY <1>2, <2>1, TabBounds
<1> QED  BY <1>2, <1>3, MenuIs

LEMMA ItemDeleted ==
  ASSUME NEW s \in Menu, NEW k, Contains(s, k)
  PROVE  RemoveFirst(s, k) \in Menu
<1> DEFINE i == SelectInSeq(s, LAMBDA v : v = k)
           b == SubSeq(s, 1, i - 1)
           c == SubSeq(s, i + 1, Len(s))
<1>1. s \in Seq(Keys) /\ Len(s) <= MaxItems
  BY MenuIs
<1>2. i \in 1..Len(s)
  <2> DEFINE I == {j \in 1..Len(s) : s[j] = k}
  <2>1. I \in SUBSET Nat /\ I # {} /\ I \subseteq 1..Len(s)
    BY DEF Contains
  <2>2. i = IF I # {} THEN Min(I) ELSE 0
    BY DEF SelectInSeq
  <2> HIDE DEF I, i
  <2>3. \E x \in I : \A y \in I : x <= y
    BY <2>1, Least
  <2>4. Min(I) \in I
    BY <2>3 DEF Min
  <2> QED  BY <2>1, <2>2, <2>4
<1>3. RemoveFirst(s, k) = b \o c
  BY DEF RemoveFirst, RemoveAt, Contains
<1> HIDE DEF i
<1>4. b \in Seq(Keys) /\ Len(b) = i - 1
  <2>1. \A j \in 1..(i - 1) : s[j] \in Keys
    BY <1>1, <1>2
  <2> QED  BY <1>1, <1>2, <2>1, SubSeqProperties
<1>5. c \in Seq(Keys) /\ Len(c) = Len(s) - i
  <2>0. Len(s) \in Nat
    BY <1>1
  <2>1. CASE i + 1 <= Len(s)
    <3>1. \A j \in (i + 1)..Len(s) : s[j] \in Keys
      BY <1>1, <1>2
    <3> QED  BY <1>1, <1>2, <2>0, <2>1, <3>1, SubSeqProperties
  <2>2. CASE i = Len(s)
    <3>1. c = <<>>
      BY <1>1, <1>2, <2>0, <2>2, SubSeqProperties
    <3> QED  BY <2>0, <2>2, <3>1
  <2> QED  BY <1>2, <2>0, <2>1, <2>2
<1> HIDE DEF b, c
<1>6. b \o c \in Seq(Keys) /\ Len(b \o c) = Len(s) - 1
  <2>1. b \o c \in Seq(Keys) /\ Len(b \o c) = Len(b) + Len(c)
    BY <1>4, <1>5
  <2> QED  BY <1>1, <1>2, <1>4, <1>5, <2>1
<1>7. Len(b \o c) <= MaxItems
  <2>1. Len(s) \in Nat
    BY <1>1
  <2> QED  BY <1>1, <1>6, <2>1, TabBounds
<1> QED  BY <1>3, <1>6, <1>7, MenuIs

(* What a sum over a set is: any function of its subsets that takes one    *)
(* element at a time.                                                      *)
SumOver(f, S) == MapThenSumSet(LAMBDA c : f[c], S)

Additive(f, S, h) ==
  h[{}] = 0 /\ \A s \in SUBSET S, x \in S : x \in s => h[s] = f[x] + h[s \ {x}]

LEMMA SumIs ==
  ASSUME NEW S, IsFiniteSet(S), NEW f, NEW h \in [SUBSET S -> Nat], Additive(f, S, h)
  PROVE  SumOver(f, S) = h[S]
<1> DEFINE Step(g, s) == IF s = {} THEN 0
                         ELSE LET x == CHOOSE x \in s : TRUE IN f[x] + g[s \ {x}]
           Folds(g) == g = [s \in SUBSET S |-> Step(g, s)]
           it == CHOOSE g : Folds(g)
<1> USE DEF Additive
<1>1. SumOver(f, S) = it[S]
  BY DEF SumOver, MapThenSumSet, MapThenFoldSet
<1>2. Folds(h)
  <2>1. \A s \in SUBSET S : h[s] = Step(h, s)
    OBVIOUS
  <2> HIDE DEF Step
  <2> QED  BY <2>1
<1>3. Folds(it)
  <2> HIDE DEF Folds
  <2> QED  BY <1>2
<1>4. \A s \in SUBSET S : it[s] = Step(it, s)
  <2> HIDE DEF Step, it
  <2> QED  BY <1>3
<1> HIDE DEF it
<1> DEFINE Bad == {n \in Nat : \E s \in SUBSET S : Cardinality(s) = n /\ it[s] # h[s]}
<1>5. Bad = {}
  <2> SUFFICES ASSUME Bad # {} PROVE FALSE
    OBVIOUS
  <2>1. Bad \in SUBSET Nat
    OBVIOUS
  <2>2. PICK n \in Bad : \A m \in Bad : n <= m
    <3> HIDE DEF Bad
    <3> QED  BY <2>1, Least
  <2>3. PICK s \in SUBSET S : Cardinality(s) = n /\ it[s] # h[s]
    BY <2>2
  <2>4. IsFiniteSet(s) /\ n \in Nat
    BY <2>3, FS_Subset
  <2>5. s # {}
    <3> SUFFICES ASSUME s = {} PROVE FALSE
      OBVIOUS
    <3>1. it[s] = 0
      BY <1>4
    <3> QED  BY <2>3, <3>1
  <2> DEFINE x == CHOOSE x \in s : TRUE
  <2>6. x \in s
    BY <2>5
  <2>7. it[s] = f[x] + it[s \ {x}]
    BY <1>4, <2>5
  <2> HIDE DEF x
  <2>8. h[s] = f[x] + h[s \ {x}]
    BY <2>6
  <2>9. Cardinality(s \ {x}) = n - 1 /\ Cardinality(s \ {x}) \in Nat
    BY <2>3, <2>4, <2>6, FS_RemoveElement, FS_CardinalityType, FS_Subset
  <2>10. n - 1 \notin Bad
    <3> HIDE DEF Bad
    <3> QED  BY <2>2, <2>4
  <2>11. it[s \ {x}] = h[s \ {x}]
    BY <2>9, <2>10
  <2> QED  BY <2>3, <2>7, <2>8, <2>11
<1>6. it[S] = h[S]
  <2>1. Cardinality(S) \in Nat
    BY FS_CardinalityType
  <2> QED  BY <1>5, <2>1
<1> QED  BY <1>1, <1>6

(* The results of a vote.  The counts of any choices add up to no more     *)
(* ballots than were cast.                                                 *)

Share(cnt) == SumOver(cnt, DOMAIN cnt)
Cast(d, v) == {b \in DOMAIN d.ballots : b[1] = v}

LEMMA CountsFit ==
  ASSUME NEW d, IsFiniteSet(DOMAIN d.ballots), NEW v, NEW I, IsFiniteSet(I)
  PROVE  LET r == db_vote_results(d, v)
             cnt == [c \in I |-> IF c \in DOMAIN r THEN r[c] ELSE 0]
         IN  Share(cnt) \in Nat /\ Share(cnt) <= Cardinality(Cast(d, v))
<1> DEFINE r == db_vote_results(d, v)
           cnt == [c \in I |-> IF c \in DOMAIN r THEN r[c] ELSE 0]
           For(s) == {b \in Cast(d, v) : d.ballots[b] \in s}
           h == [s \in SUBSET I |-> Cardinality(For(s))]
<1>1. IsFiniteSet(Cast(d, v)) /\ Cardinality(Cast(d, v)) \in Nat
  <2>1. Cast(d, v) \subseteq DOMAIN d.ballots
    BY DEF Cast
  <2>2. IsFiniteSet(Cast(d, v))
    BY <2>1, FS_Subset
  <2> QED  BY <2>2, FS_CardinalityType
<1>2. \A s \in SUBSET I : /\ IsFiniteSet(For(s)) /\ Cardinality(For(s)) \in Nat
                          /\ Cardinality(For(s)) <= Cardinality(Cast(d, v))
  <2> SUFFICES ASSUME NEW s \in SUBSET I
               PROVE  /\ IsFiniteSet(For(s)) /\ Cardinality(For(s)) \in Nat
                      /\ Cardinality(For(s)) <= Cardinality(Cast(d, v))
    OBVIOUS
  <2>1. For(s) \subseteq Cast(d, v)
    OBVIOUS
  <2> HIDE DEF For
  <2> QED  BY <1>1, <2>1, FS_Subset, FS_CardinalityType
<1>3. \A x \in I : cnt[x] = Cardinality(For({x}))
  <2> SUFFICES ASSUME NEW x \in I PROVE cnt[x] = Cardinality(For({x}))
    OBVIOUS
  <2>1. DOMAIN r = {d.ballots[b] : b \in Cast(d, v)}
    BY DEF db_vote_results, Cast
  <2>2. CASE x \in DOMAIN r
    <3>1. r[x] = Cardinality({b \in DOMAIN d.ballots : b[1] = v /\ d.ballots[b] = x})
      BY <2>2 DEF db_vote_results
    <3>2. {b \in DOMAIN d.ballots : b[1] = v /\ d.ballots[b] = x} = For({x})
      BY DEF Cast
    <3>3. cnt[x] = r[x]
      BY <2>2
    <3> QED  BY <3>1, <3>2, <3>3
  <2>3. CASE x \notin DOMAIN r
    <3>1. For({x}) = {}
      BY <2>1, <2>3
    <3>2. cnt[x] = 0
      BY <2>3
    <3> QED  BY <3>1, <3>2, FS_EmptySet
  <2> QED  BY <2>2, <2>3
<1>4. \A s \in SUBSET I, x \in I : x \in s => h[s] = cnt[x] + h[s \ {x}]
  <2> SUFFICES ASSUME NEW s \in SUBSET I, NEW x \in I, x \in s
               PROVE  h[s] = cnt[x] + h[s \ {x}]
    OBVIOUS
  <2>1. For(s) = For({x}) \cup For(s \ {x}) /\ For({x}) \cap For(s \ {x}) = {}
    OBVIOUS
  <2>2. {x} \in SUBSET I /\ s \ {x} \in SUBSET I
    OBVIOUS
  <2>3. h[s] = Cardinality(For(s)) /\ h[s \ {x}] = Cardinality(For(s \ {x}))
    BY <2>2
  <2>4. cnt[x] = Cardinality(For({x}))
    BY <1>3
  <2> HIDE DEF For, h, cnt
  <2>5. IsFiniteSet(For({x})) /\ IsFiniteSet(For(s \ {x}))
        /\ Cardinality(For({x})) \in Nat /\ Cardinality(For(s \ {x})) \in Nat
    BY <1>2, <2>2
  <2>6. Cardinality(For(s)) = Cardinality(For({x})) + Cardinality(For(s \ {x}))
                              - Cardinality(For({x}) \cap For(s \ {x}))
    BY <2>1, <2>5, FS_Union
  <2>7. Cardinality(For({x}) \cap For(s \ {x})) = 0
    BY <2>1, FS_EmptySet
  <2> QED  BY <2>3, <2>4, <2>5, <2>6, <2>7
<1>5. h \in [SUBSET I -> Nat] /\ h[{}] = 0
  <2>1. For({}) = {}
    OBVIOUS
  <2> HIDE DEF For
  <2>2. h[{}] = 0
    BY <2>1, FS_EmptySet
  <2> QED  BY <1>2, <2>2
<1>6. DOMAIN cnt = I /\ h[I] = Cardinality(For(I))
  OBVIOUS
<1> HIDE DEF cnt, h, For, r
<1>7. Additive(cnt, I, h)
  BY <1>4, <1>5 DEF Additive
<1>8. SumOver(cnt, I) = h[I]
  BY <1>7, <1>4, <1>5, SumIs
<1>9. Share(cnt) = h[I]
  BY <1>6, <1>8 DEF Share
<1>10. Share(cnt) \in Nat /\ Share(cnt) <= Cardinality(Cast(d, v))
  BY <1>2, <1>6, <1>9
<1> QED  BY <1>10 DEF cnt, r

(* What a session holds while it waits is still a row, a menu file or the  *)
(* items of one, and the shares it is about to show fit the ballots, of    *)
(* which there are only ever more.                                         *)
Holds(r) ==
  /\ r.op = "editconf" => r.row \in Row
  /\ r.op = "editmenu" => r \in [op : {"editmenu"}, file : RowNames, items : Menu]
  /\ r.op = "opened" => r \in [op : {"opened"}, file : RowNames, items : Menu, edit : BOOLEAN]
  /\ r.op = "counts" => r.ids \subseteq 1..MaxChoices
Tallied(r, d) ==
  /\ r.op = "total" => Share(r.cnt) \in Nat /\ Share(r.cnt) <= Cardinality(Cast(d, r.vote))
  /\ r.op = "shown" => Share(r.cnt) <= r.total
Grows(d, e) == IsFiniteSet(DOMAIN e.ballots) /\ DOMAIN d.ballots \subseteq DOMAIN e.ballots
TablesKept ==
  /\ Sound(db) /\ IsFiniteSet(DOMAIN db.ballots)
  /\ at = [u \in Users |-> at[u]] /\ \A u \in Users : Holds(at[u]) /\ Tallied(at[u], db)
  /\ work \in 0..MaxWork

LEMMA TablesKeptNext ==
  TablesKept' <=> /\ Sound(db') /\ IsFiniteSet(DOMAIN db'.ballots)
                  /\ at' = [u \in Users |-> at'[u]]
                  /\ \A u \in Users : Holds(at'[u]) /\ Tallied(at'[u], db')
                  /\ work' \in 0..MaxWork
BY DEF TablesKept

LEMMA StillTallied ==
  ASSUME NEW d, NEW e, Grows(d, e), NEW r, Tallied(r, d)
  PROVE  Tallied(r, e)
<1>1. Cast(d, r.vote) \subseteq Cast(e, r.vote) /\ Cast(e, r.vote) \subseteq DOMAIN e.ballots
  BY DEF Grows, Cast
<1>2. IsFiniteSet(Cast(e, r.vote))
  BY <1>1, FS_Subset DEF Grows
<1>3. /\ Cardinality(Cast(d, r.vote)) <= Cardinality(Cast(e, r.vote))
      /\ Cardinality(Cast(d, r.vote)) \in Nat /\ Cardinality(Cast(e, r.vote)) \in Nat
  BY <1>1, <1>2, FS_Subset, FS_CardinalityType
<1> QED  BY <1>3 DEF Tallied

LEMMA Moved ==
  ASSUME TablesKept, NEW u \in Users, NEW r, at' = [at EXCEPT ![u] = r],
         Holds(r), Tallied(r, db'), Sound(db'), Grows(db, db'), work' \in 0..MaxWork
  PROVE  TablesKept'
<1>1. at' = [v \in Users |-> at'[v]] /\ at'[u] = r /\ \A v \in Users : v # u => at'[v] = at[v]
  BY DEF TablesKept
<1>2. \A v \in Users : Tallied(at[v], db')
  BY StillTallied DEF TablesKept
<1>3. \A v \in Users : Holds(at'[v]) /\ Tallied(at'[v], db')
  <2> SUFFICES ASSUME NEW v \in Users PROVE Holds(at'[v]) /\ Tallied(at'[v], db')
    OBVIOUS
  <2>1. CASE v = u
    BY <1>1, <2>1
  <2>2. CASE v # u
    BY <1>1, <1>2, <2>2 DEF TablesKept
  <2> QED  BY <2>1, <2>2
<1> QED  BY <1>1, <1>3, TablesKeptNext DEF Grows

Special == {"editconf", "editmenu", "opened", "counts", "total", "shown"}

LEMMA Plainly == ASSUME NEW r, r.op \notin Special, NEW d PROVE Holds(r) /\ Tallied(r, d)
BY DEF Holds, Tallied, Special

LEMMA Same == ASSUME TablesKept PROVE Grows(db, db) /\ Sound(db) /\ work \in 0..MaxWork
BY DEF TablesKept, Grows

LEMMA Grown ==
  ASSUME TablesKept, NEW e, e.ballots = db.ballots
  PROVE  Grows(db, e)
BY DEF TablesKept, Grows

(* The steps that only move a session.                                     *)
LEMMA GotoPlain ==
  ASSUME TablesKept, NEW u \in Users, NEW r, r.op \notin Special, Goto(u, r),
         Sound(db'), Grows(db, db')
  PROVE  TablesKept'
BY Moved, Plainly, Same DEF Goto

LEMMA StartPlain ==
  ASSUME TablesKept, NEW u \in Users, NEW r, r.op \notin Special, Start(u, r)
  PROVE  TablesKept'
<1>1. work' \in 0..MaxWork
  BY TabBounds DEF TablesKept, Start
<1>2. Grows(db, db') /\ Sound(db')
  BY Same DEF Start
<1> QED  BY <1>1, <1>2, Moved, Plainly DEF Start

-----------------------------------------------------------------------------
(* The steps of a session.                                                 *)

LEMMA AbandonKept == ASSUME TablesKept, NEW u \in Users, Abandon(u) PROVE TablesKept'
<1>1. Goto(u, AtMenu) /\ db' = db
  BY DEF Abandon
<1>2. AtMenu.op \notin Special
  BY DEF AtMenu, Special
<1>3. Grows(db, db') /\ Sound(db')
  BY <1>1, Same
<1> QED  BY <1>1, <1>2, <1>3, GotoPlain

LEMMA RoomIs ==
  /\ Room("votes") => db.last.votes < MaxVotes
  /\ Room("choices") => db.last.choices < MaxChoices
  /\ Room("confs") => db.last.confs < MaxRows
  /\ Room("protos") => db.last.protos < MaxRows
BY DEF Room, Bound

LEMMA WriteKept ==
  ASSUME TablesKept, NEW u \in Users, NEW op, op \notin Special, NEW e,
         Sound(e), e.ballots = db.ballots, Write(u, op, e)
  PROVE  TablesKept'
<1> DEFINE r == [op |-> op]
<1>1. Goto(u, r) /\ db' = e
  BY DEF Write
<1>2. r.op \notin Special
  OBVIOUS
<1>3. Grows(db, db') /\ Sound(db')
  BY <1>1, Grown
<1> HIDE DEF r
<1> QED  BY <1>1, <1>2, <1>3, GotoPlain

LEMMA EditorOpens ==
  ASSUME TablesKept, NEW u \in Users, NEW op, op \notin Special, Start(u, [op |-> op])
  PROVE  TablesKept'
<1> DEFINE r == [op |-> op]
<1>1. r.op \notin Special /\ Start(u, r)
  OBVIOUS
<1> HIDE DEF r
<1> QED  BY <1>1, StartPlain

LEMMA VoteReadKept ==
  ASSUME TablesKept, NEW u \in Users, Vote(u) \/ VoteResults(u) \/ ReadChoices(u)
  PROVE  TablesKept'
<1>1. CASE Vote(u)
  <2>1. "vote" \notin Special
    BY DEF Special
  <2> QED  BY <1>1, <2>1, EditorOpens DEF Vote
<1>2. CASE VoteResults(u)
  <2> DEFINE r == [op |-> "results", list |-> db_vote_list(db, 16)]
  <2>1. r.op \notin Special /\ Start(u, r)
    BY <1>2 DEF Special, VoteResults
  <2> HIDE DEF r
  <2> QED  BY <2>1, StartPlain
<1>3. CASE ReadChoices(u)
  <2> DEFINE s == db_vote_choices(db, at[u].vote)
             r == [op |-> "counts", vote |-> at[u].vote, ids |-> s]
  <2>1. db' = db /\ at' = [at EXCEPT ![u] = r] /\ work' = work
    BY <1>3 DEF ReadChoices, Goto
  <2>2. s \subseteq 1..MaxChoices
    <3>1. db.choices \in Some(1..MaxChoices, 1..MaxVotes)
      BY SomeFits DEF TablesKept, Sound
    <3>2. DOMAIN db.choices \subseteq 1..MaxChoices
      BY <3>1, SomeIs
    <3> QED  BY <3>2 DEF db_vote_choices
  <2> HIDE DEF s
  <2>3. Holds(r) /\ Tallied(r, db')
    BY <2>2 DEF Holds, Tallied
  <2> HIDE DEF r
  <2>4. Grows(db, db') /\ Sound(db') /\ work' \in 0..MaxWork
    BY <2>1, Same
  <2> QED  BY <2>1, <2>3, <2>4, Moved
<1> QED  BY <1>1, <1>2, <1>3

LEMMA ReadCountsKept == ASSUME TablesKept, NEW u \in Users, ReadCounts(u) PROVE TablesKept'
<1> DEFINE v == at[u].vote
           I == at[u].ids
           q == db_vote_results(db, v)
           cnt == [c \in I |-> IF c \in DOMAIN q THEN q[c] ELSE 0]
           r == [op |-> "total", vote |-> v, cnt |-> cnt]
<1>1. db' = db /\ at' = [at EXCEPT ![u] = r] /\ work' = work /\ at[u].op = "counts"
  BY DEF ReadCounts, Goto, Waiting
<1>2. IsFiniteSet(I)
  <2>1. I \subseteq 1..MaxChoices
    BY <1>1 DEF TablesKept, Holds
  <2>2. IsFiniteSet(1..MaxChoices)
    BY TabBounds, FS_Interval
  <2> QED  BY <2>1, <2>2, FS_Subset
<1>3. IsFiniteSet(DOMAIN db.ballots)
  BY DEF TablesKept
<1> HIDE DEF v, I
<1>4. Share(cnt) \in Nat /\ Share(cnt) <= Cardinality(Cast(db, v))
  BY <1>2, <1>3, CountsFit
<1> HIDE DEF cnt
<1>5. Holds(r) /\ Tallied(r, db')
  BY <1>1, <1>4 DEF Holds, Tallied
<1> HIDE DEF r
<1>6. Grows(db, db') /\ Sound(db') /\ work' \in 0..MaxWork
  BY <1>1, Same
<1> QED  BY <1>1, <1>5, <1>6, Moved

LEMMA ReadTotalKept == ASSUME TablesKept, NEW u \in Users, ReadTotal(u) PROVE TablesKept'
<1> DEFINE n == db_vote_total(db, at[u].vote)
           cnt == at[u].cnt
           r == [op |-> "shown", cnt |-> cnt, total |-> n]
<1>1. db' = db /\ at' = [at EXCEPT ![u] = r] /\ work' = work /\ at[u].op = "total"
  BY DEF ReadTotal, Goto, Waiting
<1>2. n = Cardinality(Cast(db, at[u].vote))
  BY DEF db_vote_total, Cast
<1>3. Share(cnt) <= n
  BY <1>1, <1>2 DEF TablesKept, Tallied
<1> HIDE DEF n, cnt
<1>4. Holds(r) /\ Tallied(r, db')
  BY <1>3 DEF Holds, Tallied
<1> HIDE DEF r
<1>5. Grows(db, db') /\ Sound(db') /\ work' \in 0..MaxWork
  BY <1>1, Same
<1> QED  BY <1>1, <1>4, <1>5, Moved

LEMMA PickVoteKept ==
  ASSUME TablesKept, NEW u \in Users, NEW v, PickVote(u, v) \/ PickResults(u, v)
  PROVE  TablesKept'
<1> DEFINE p == [op |-> "pick", vote |-> v]
           q == [op |-> "choices", vote |-> v]
<1>1. (Goto(u, p) \/ Goto(u, q)) /\ db' = db
  BY DEF PickVote, PickResults
<1>2. p.op \notin Special /\ q.op \notin Special
  BY DEF Special
<1>3. Grows(db, db') /\ Sound(db')
  BY <1>1, Same
<1> HIDE DEF p, q
<1> QED  BY <1>1, <1>2, <1>3, GotoPlain

LEMMA CastGrows ==
  ASSUME NEW d, Sound(d), IsFiniteSet(DOMAIN d.ballots), NEW v, NEW c, NEW u \in Users
  PROVE  Grows(d, db_vote_cast(d, v, c, u))
<1>1. CASE ~(v \in d.votes /\ c \in DOMAIN d.choices)
  BY <1>1 DEF db_vote_cast, Grows
<1>2. CASE v \in d.votes /\ c \in DOMAIN d.choices
  <2> DEFINE t == Put(d.ballots, <<v, u>>, c)
             e == [d EXCEPT !.ballots = t]
  <2>1. e.ballots = t
    BY DEF Sound, TabRows
  <2>2. DOMAIN t = DOMAIN d.ballots \cup {<<v, u>>}
    BY DEF Put
  <2>3. db_vote_cast(d, v, c, u) = e
    BY <1>2 DEF db_vote_cast
  <2> HIDE DEF t, e
  <2>4. IsFiniteSet(DOMAIN t)
    BY <2>2, FS_AddElement
  <2> QED  BY <2>1, <2>2, <2>3, <2>4 DEF Grows
<1> QED  BY <1>1, <1>2

LEMMA PickChoiceKept ==
  ASSUME TablesKept, NEW u \in Users, NEW c, PickChoice(u, c)
  PROVE  TablesKept'
<1> DEFINE v == at[u].vote
<1>1. Goto(u, AtMenu) /\ db' = db_vote_cast(db, v, c, u)
  BY DEF PickChoice
<1>2. AtMenu.op \notin Special
  BY DEF AtMenu, Special
<1> HIDE DEF v
<1>3. Sound(db') /\ Grows(db, db')
  BY <1>1, CastSound, CastGrows DEF TablesKept
<1> QED  BY <1>1, <1>2, <1>3, GotoPlain

LEMMA AddVoteKept == ASSUME TablesKept, NEW u \in Users, AddVote(u) PROVE TablesKept'
<1> DEFINE r == [op |-> "newvote", mine |-> db.last.votes + 1]
<1>1. Goto(u, r) /\ db' = db_vote_add(db) /\ db.last.votes < MaxVotes
  BY RoomIs DEF AddVote
<1>2. r.op \notin Special
  BY DEF Special
<1>3. Sound(db') /\ Grows(db, db')
  BY <1>1, VoteAddSound, Grown DEF TablesKept
<1> HIDE DEF r
<1> QED  BY <1>1, <1>2, <1>3, GotoPlain

LEMMA NewVoteKept == ASSUME TablesKept, NEW u \in Users, NewVote(u) PROVE TablesKept'
<1> DEFINE list == db_vote_list(db, VoteMax)
           p == [op |-> "voteeditor"]
           q == [op |-> "typing", mine |-> at[u].mine, vote |-> Min(list)]
<1>1. (Goto(u, p) \/ Goto(u, q)) /\ db' = db
  BY DEF NewVote
<1>2. p.op \notin Special /\ q.op \notin Special
  BY DEF Special
<1>3. Grows(db, db') /\ Sound(db')
  BY <1>1, Same
<1> HIDE DEF p, q
<1> QED  BY <1>1, <1>2, <1>3, GotoPlain

LEMMA TypeChoiceKept == ASSUME TablesKept, NEW u \in Users, TypeChoice(u) PROVE TablesKept'
<1> DEFINE v == at[u].vote
           r == at[u]
<1>1. db' = db_vote_choice_add(db, v) /\ at' = at /\ work' = work /\ at[u].op = "typing"
      /\ db.last.choices < MaxChoices
  BY RoomIs DEF TypeChoice, Waiting
<1>2. at' = [at EXCEPT ![u] = r]
  BY <1>1 DEF TablesKept
<1>3. r.op \notin Special
  BY <1>1 DEF Special
<1> HIDE DEF v, r
<1>4. Sound(db') /\ Grows(db, db')
  BY <1>1, ChoiceAddSound, Grown DEF TablesKept
<1> QED  BY <1>1, <1>2, <1>3, <1>4, Moved, Plainly, Same

LEMMA AddChoiceKept ==
  ASSUME TablesKept, NEW u \in Users, NEW v, AddChoice(u, v)
  PROVE  TablesKept'
<1> DEFINE e == db_vote_choice_add(db, v)
<1>1. Write(u, "voteeditor", e) /\ db.last.choices < MaxChoices
  BY RoomIs DEF AddChoice
<1>2. Sound(e) /\ e.ballots = db.ballots /\ "voteeditor" \notin Special
  BY <1>1, ChoiceAddSound DEF TablesKept, Special
<1> HIDE DEF e
<1> QED  BY <1>1, <1>2, WriteKept

LEMMA DeleteVoteKept ==
  ASSUME TablesKept, NEW u \in Users, NEW v, DeleteVote(u, v)
  PROVE  TablesKept'
<1> DEFINE r == [op |-> "delvote", vote |-> v]
<1>1. Goto(u, r) /\ db' = db_vote_delete(db, v, 1)
  BY DEF DeleteVote
<1>2. r.op \notin Special
  BY DEF Special
<1>3. 1 \in 1..2
  OBVIOUS
<1>4. Sound(db') /\ Grows(db, db')
  BY <1>1, <1>3, VoteDeleteSound, Grown DEF TablesKept
<1> HIDE DEF r
<1> QED  BY <1>1, <1>2, <1>4, GotoPlain

LEMMA DeleteVoteRowKept ==
  ASSUME TablesKept, NEW u \in Users, DeleteVoteRow(u)
  PROVE  TablesKept'
<1> DEFINE r == [op |-> "voteeditor"]
           v == at[u].vote
<1>1. Goto(u, r) /\ db' = db_vote_delete(db, v, 2)
  BY DEF DeleteVoteRow
<1>2. r.op \notin Special
  BY DEF Special
<1>3. 2 \in 1..2
  OBVIOUS
<1> HIDE DEF v, r
<1>4. Sound(db') /\ Grows(db, db')
  BY <1>1, <1>3, VoteDeleteSound, Grown DEF TablesKept
<1> QED  BY <1>1, <1>2, <1>4, GotoPlain

LEMMA VoteNextKept == ASSUME TablesKept, NEW u \in Users, VoteNext(u) PROVE TablesKept'
<1>1. CASE Editor(u, "voteeditor")
  <2>1. "voteeditor" \notin Special
    BY DEF Special
  <2> QED  BY <1>1, <2>1, EditorOpens DEF Editor
<1>2. CASE \E v \in 1..MaxVotes : PickVote(u, v) \/ PickResults(u, v) \/ AddChoice(u, v) \/ DeleteVote(u, v)
  BY <1>2, PickVoteKept, AddChoiceKept, DeleteVoteKept
<1>3. CASE \E c \in 1..MaxChoices : PickChoice(u, c)
  BY <1>3, PickChoiceKept
<1> QED  BY <1>1, <1>2, <1>3, VoteReadKept, ReadCountsKept, ReadTotalKept, AddVoteKept, NewVoteKept,
            TypeChoiceKept, DeleteVoteRowKept DEF VoteNext

LEMMA Editing ==
  /\ "confeditor" \notin Special /\ "join" \notin Special /\ "leave" \notin Special
  /\ "protocoleditor" \notin Special /\ "fileadmin" \notin Special
  /\ "subscriptioneditor" \notin Special /\ "bulletins" \notin Special
  /\ "oneliners" \notin Special /\ "menueditor" \notin Special /\ AtMenu.op \notin Special
BY DEF Special, AtMenu

LEMMA EditConfKept ==
  ASSUME TablesKept, NEW u \in Users, NEW i, EditConf(u, i)
  PROVE  TablesKept'
<1> DEFINE row == db.confs[i]
           r == [op |-> "editconf", id |-> i, row |-> row]
<1>1. db' = db /\ at' = [at EXCEPT ![u] = r] /\ work' = work /\ i \in DOMAIN db.confs
  BY DEF EditConf, Goto, db_conference_list, db_conference_get
<1>2. row \in Row
  <2>1. db.confs \in Some(1..MaxRows, Row)
    BY SomeFits DEF TablesKept, Sound
  <2> QED  BY <1>1, <2>1, SomeIs
<1> HIDE DEF row
<1>3. Holds(r) /\ Tallied(r, db')
  BY <1>2 DEF Holds, Tallied
<1> HIDE DEF r
<1>4. Grows(db, db') /\ Sound(db') /\ work' \in 0..MaxWork
  BY <1>1, Same
<1> QED  BY <1>1, <1>3, <1>4, Moved

LEMMA SaveConfKept == ASSUME TablesKept, NEW u \in Users, SaveConf(u) PROVE TablesKept'
<1> DEFINE r == [op |-> "confeditor"]
           i == at[u].id
<1>1. at[u].row \in Row
  BY DEF SaveConf, Waiting, TablesKept, Holds
<1>2. at[u].row.on \in BOOLEAN
  BY <1>1 DEF Row
<1>3. Goto(u, r) /\ \E on \in BOOLEAN : db' = db_conference_update(db, i, on)
  BY <1>2 DEF SaveConf
<1>4. r.op \notin Special
  BY Editing
<1> HIDE DEF r, i
<1>5. Sound(db') /\ Grows(db, db')
  BY <1>3, ConfUpdateSound, Grown DEF TablesKept
<1> QED  BY <1>3, <1>4, <1>5, GotoPlain

LEMMA PickConfKept ==
  ASSUME TablesKept, NEW u \in Users, NEW i, PickConf(u, i)
  PROVE  TablesKept'
<1>1. Goto(u, AtMenu) /\ (db' = db_conf_join(db, u, i) \/ db' = db_conf_leave(db, u, i))
  BY DEF PickConf
<1>2. Sound(db') /\ Grows(db, db')
  BY <1>1, MembersSound, Grown DEF TablesKept
<1> QED  BY <1>1, <1>2, GotoPlain, Editing

LEMMA ConfNextKept == ASSUME TablesKept, NEW u \in Users, ConfNext(u) PROVE TablesKept'
<1>1. CASE Editor(u, "confeditor")
  BY <1>1, Editing, EditorOpens DEF Editor
<1>2. CASE JoinConf(u) \/ LeaveConf(u)
  BY <1>2, Editing, EditorOpens DEF JoinConf, LeaveConf
<1>3. ASSUME NEW k \in RowNames, AddConf(u, k) PROVE TablesKept'
  <2> DEFINE e == db_conference_add(db, k)
  <2>1. Write(u, "confeditor", e) /\ db.last.confs < MaxRows
    BY <1>3, RoomIs DEF AddConf
  <2>2. Sound(e) /\ e.ballots = db.ballots
    BY <2>1, ConfAddSound DEF TablesKept
  <2> HIDE DEF e
  <2> QED  BY <2>1, <2>2, WriteKept, Editing
<1>4. ASSUME NEW i, DeleteConf(u, i) PROVE TablesKept'
  <2> DEFINE e == db_conference_delete(db, i)
  <2>1. Write(u, "confeditor", e)
    BY <1>4 DEF DeleteConf
  <2>2. Sound(e) /\ e.ballots = db.ballots
    BY ConfDeleteSound DEF TablesKept
  <2> HIDE DEF e
  <2> QED  BY <2>1, <2>2, WriteKept, Editing
<1> QED  BY <1>1, <1>2, <1>3, <1>4, EditConfKept, SaveConfKept, PickConfKept DEF ConfNext

LEMMA EditProtoKept ==
  ASSUME TablesKept, NEW u \in Users, NEW i, EditProto(u, i)
  PROVE  TablesKept'
<1> DEFINE r == [op |-> "editproto", id |-> i, row |-> db_protocol_get(db, i)]
<1>1. Goto(u, r) /\ db' = db
  BY DEF EditProto
<1>2. r.op \notin Special
  BY DEF Special
<1> HIDE DEF r
<1>3. Grows(db, db') /\ Sound(db')
  BY <1>1, Same
<1> QED  BY <1>1, <1>2, <1>3, GotoPlain

LEMMA SaveProtoKept == ASSUME TablesKept, NEW u \in Users, SaveProto(u) PROVE TablesKept'
<1> DEFINE r == [op |-> "protocoleditor"]
           i == at[u].id
<1>1. Goto(u, r) /\ \E row \in Row : db' = db_protocol_update(db, i, row)
  <2>1. PICK k \in RowNames, act \in BOOLEAN : db' = db_protocol_update(db, i, [key |-> k, on |-> act])
    BY DEF SaveProto
  <2>2. [key |-> k, on |-> act] \in Row
    BY DEF Row
  <2> QED  BY <2>1, <2>2 DEF SaveProto
<1>2. r.op \notin Special
  BY Editing
<1> HIDE DEF r, i
<1>3. Sound(db') /\ Grows(db, db')
  BY <1>1, ProtoUpdateSound, Grown DEF TablesKept
<1> QED  BY <1>1, <1>2, <1>3, GotoPlain

LEMMA FileAdminKept == ASSUME TablesKept, NEW u \in Users, FileAdmin(u) PROVE TablesKept'
<1>1. Goto(u, AtMenu) /\ \E n \in RowNames, p, a, gone \in BOOLEAN :
                           db' = db_file_area_manage(db, n, p, a, gone)
  BY DEF FileAdmin
<1>2. Sound(db') /\ Grows(db, db')
  BY <1>1, AreasSound, Grown DEF TablesKept
<1> QED  BY <1>1, <1>2, GotoPlain, Editing

LEMMA PostKept ==
  ASSUME TablesKept, NEW u \in Users, PostBulletin(u) \/ PostOneliner(u)
  PROVE  TablesKept'
<1>1. /\ Goto(u, AtMenu)
      /\ \/ db.posts.bulletins < MaxRows /\ db' = db_bulletin_add(db)
         \/ db.posts.oneliners < MaxRows /\ db' = db_oneliner_add(db)
  BY DEF PostBulletin, PostOneliner
<1>2. Sound(db') /\ db'.ballots = db.ballots
  BY <1>1, PostsSound DEF TablesKept
<1>3. Grows(db, db')
  BY <1>2, Grown
<1> QED  BY <1>1, <1>2, <1>3, GotoPlain, Editing

LEMMA OtherNextKept == ASSUME TablesKept, NEW u \in Users, OtherNext(u) PROVE TablesKept'
<1>1. CASE \/ Editor(u, "protocoleditor") \/ Editor(u, "fileadmin")
           \/ Editor(u, "subscriptioneditor") \/ Editor(u, "bulletins")
           \/ Start(u, [op |-> "oneliners"])
  BY <1>1, Editing, EditorOpens DEF Editor
<1>2. ASSUME NEW k \in RowNames, AddProto(u, k) PROVE TablesKept'
  <2> DEFINE e == db_protocol_add(db, k)
  <2>1. Write(u, "protocoleditor", e) /\ db.last.protos < MaxRows
    BY <1>2, RoomIs DEF AddProto
  <2>2. Sound(e) /\ e.ballots = db.ballots
    BY <2>1, ProtoAddSound DEF TablesKept
  <2> HIDE DEF e
  <2> QED  BY <2>1, <2>2, WriteKept, Editing
<1>3. ASSUME NEW i, DeleteProto(u, i) PROVE TablesKept'
  <2> DEFINE e == db_protocol_delete(db, i)
  <2>1. Write(u, "protocoleditor", e)
    BY <1>3 DEF DeleteProto
  <2>2. Sound(e) /\ e.ballots = db.ballots
    BY ProtoDeleteSound DEF TablesKept
  <2> HIDE DEF e
  <2> QED  BY <2>1, <2>2, WriteKept, Editing
<1>4. ASSUME NEW n \in RowNames, AddSub(u, n) PROVE TablesKept'
  <2> DEFINE e == db_subscription_type_add(db, n)
  <2>1. Write(u, "subscriptioneditor", e)
    BY <1>4 DEF AddSub
  <2>2. Sound(e) /\ e.ballots = db.ballots
    BY PostsSound DEF TablesKept
  <2> HIDE DEF e
  <2> QED  BY <2>1, <2>2, WriteKept, Editing
<1> QED  BY <1>1, <1>2, <1>3, <1>4, EditProtoKept, SaveProtoKept, FileAdminKept, PostKept
         DEF OtherNext

LEMMA MenuOpenedKept ==
  ASSUME TablesKept, NEW u \in Users,
         \/ SaveMenu(u)
         \/ \E f \in RowNames : NewMenu(u, f)
  PROVE  TablesKept'
<1>1. PICK f \in RowNames, s \in Menu, b \in BOOLEAN :
        /\ Goto(u, [op |-> "opened", file |-> f, items |-> s, edit |-> b])
        /\ db' = menu_open(db, f)
  <2>1. CASE SaveMenu(u)
    <3>1. at[u] \in [op : {"editmenu"}, file : RowNames, items : Menu]
      BY <2>1 DEF SaveMenu, Waiting, TablesKept, Holds
    <3>2. at[u].file \in RowNames /\ at[u].items \in Menu
      BY <3>1
    <3> QED  BY <2>1, <3>2 DEF SaveMenu
  <2>2. ASSUME NEW f \in RowNames, NewMenu(u, f)
        PROVE  \E s \in Menu : /\ Goto(u, [op |-> "opened", file |-> f, items |-> s, edit |-> FALSE])
                               /\ db' = menu_open(db, f)
    <3>1. PICK k \in Keys : /\ Goto(u, [op |-> "opened", file |-> f, items |-> <<k>>, edit |-> FALSE])
                            /\ db' = menu_open(db, f)
      BY <2>2 DEF NewMenu
    <3>2. <<k>> \in Seq(Keys) /\ Len(<<k>>) = 1
      OBVIOUS
    <3>3. <<k>> \in Menu
      BY <3>2, MenuIs, TabBounds
    <3> QED  BY <3>1, <3>3
  <2> QED  BY <2>1, <2>2
<1> DEFINE r == [op |-> "opened", file |-> f, items |-> s, edit |-> b]
<1>2. at' = [at EXCEPT ![u] = r] /\ work' = work
  BY <1>1 DEF Goto
<1>3. Holds(r) /\ Tallied(r, db')
  BY DEF Holds, Tallied
<1> HIDE DEF r
<1>4. Sound(db') /\ db'.ballots = db.ballots
  BY <1>1, MenusSound DEF TablesKept
<1>5. Grows(db, db') /\ work' \in 0..MaxWork
  BY <1>2, <1>4, Grown, Same
<1> QED  BY <1>2, <1>3, <1>4, <1>5, Moved

LEMMA EditMenuKept ==
  ASSUME TablesKept, NEW u \in Users, NEW f \in RowNames, EditMenu(u, f)
  PROVE  TablesKept'
<1> DEFINE s == db.menus[f]
           r == [op |-> "editmenu", file |-> f, items |-> s]
<1>1. db' = db /\ at' = [at EXCEPT ![u] = r] /\ work' = work /\ f \in DOMAIN db.menus
  BY DEF EditMenu, Goto, menu_load
<1>2. s \in Menu
  <2>1. db.menus \in Some(RowNames, Menu)
    BY SomeFits DEF TablesKept, Sound
  <2> QED  BY <1>1, <2>1, SomeIs
<1> HIDE DEF s
<1>3. Holds(r) /\ Tallied(r, db')
  BY <1>2 DEF Holds, Tallied
<1> HIDE DEF r
<1>4. Grows(db, db') /\ Sound(db') /\ work' \in 0..MaxWork
  BY <1>1, Same
<1> QED  BY <1>1, <1>3, <1>4, Moved

LEMMA DeleteMenuKept ==
  ASSUME TablesKept, NEW u \in Users, NEW f \in RowNames, DeleteMenu(u, f)
  PROVE  TablesKept'
<1>1. Goto(u, AtMenu) /\ db' = menu_delete_file(db, f)
  BY DEF DeleteMenu
<1>2. Sound(db') /\ Grows(db, db')
  BY <1>1, MenusSound, Grown DEF TablesKept
<1> QED  BY <1>1, <1>2, GotoPlain, Editing

LEMMA ItemsKept ==
  ASSUME TablesKept, NEW u \in Users, NEW k \in Keys, AddItem(u, k) \/ DeleteItem(u, k)
  PROVE  TablesKept'
<1>1. at[u] \in [op : {"editmenu"}, file : RowNames, items : Menu]
  BY DEF AddItem, DeleteItem, Waiting, TablesKept, Holds
<1>2. at[u].items \in Menu
  BY <1>1
<1>3. PICK s \in Menu : at' = [at EXCEPT ![u].items = s] /\ db' = db /\ work' = work
  <2>1. CASE AddItem(u, k)
    <3>1. Append(at[u].items, k) \in Menu
      BY <1>2, <2>1, ItemAdded DEF AddItem
    <3> QED  BY <2>1, <3>1 DEF AddItem
  <2>2. CASE DeleteItem(u, k)
    <3>1. RemoveFirst(at[u].items, k) \in Menu
      BY <1>2, <2>2, ItemDeleted DEF DeleteItem
    <3> QED  BY <2>2, <3>1 DEF DeleteItem
  <2> QED  BY <2>1, <2>2
<1> DEFINE r == [at[u] EXCEPT !.items = s]
<1>4. at' = [at EXCEPT ![u] = r]
  BY <1>3 DEF TablesKept
<1>5. r \in [op : {"editmenu"}, file : RowNames, items : Menu]
  BY <1>1
<1> HIDE DEF r
<1>6. Holds(r) /\ Tallied(r, db')
  BY <1>5 DEF Holds, Tallied
<1>7. Grows(db, db') /\ Sound(db') /\ work' \in 0..MaxWork
  BY <1>3, Same
<1> QED  BY <1>4, <1>6, <1>7, Moved

LEMMA WriteMenuKept == ASSUME TablesKept, NEW u \in Users, WriteMenu(u) PROVE TablesKept'
<1>1. at[u] \in [op : {"opened"}, file : RowNames, items : Menu, edit : BOOLEAN]
  BY DEF WriteMenu, Waiting, TablesKept, Holds
<1> DEFINE f == at[u].file
           s == at[u].items
           p == [op |-> "editmenu", file |-> f, items |-> s]
<1>2. f \in RowNames /\ s \in Menu
  BY <1>1
<1>3. db' = db \/ db' = menu_save(db, f, s)
  BY DEF WriteMenu
<1>4. Goto(u, p) \/ Goto(u, AtMenu)
  BY DEF WriteMenu
<1> HIDE DEF f, s
<1>5. Sound(db') /\ Grows(db, db')
  BY <1>2, <1>3, MenusSound, Grown, Same DEF TablesKept
<1>6. Holds(p) /\ Tallied(p, db')
  BY <1>2 DEF Holds, Tallied
<1> HIDE DEF p
<1>7. CASE Goto(u, AtMenu)
  BY <1>5, <1>7, GotoPlain, Editing
<1>8. CASE Goto(u, p)
  <2>1. at' = [at EXCEPT ![u] = p] /\ work' \in 0..MaxWork
    BY <1>8, Same DEF Goto
  <2> QED  BY <1>5, <1>6, <2>1, Moved
<1> QED  BY <1>4, <1>7, <1>8

LEMMA MenuEditorKept == ASSUME TablesKept, NEW u \in Users, MenuEditor(u) PROVE TablesKept'
<1> DEFINE r == [op |-> "menueditor", files |-> DOMAIN db.menus]
<1>1. r.op \notin Special /\ Start(u, r)
  BY Editing DEF MenuEditor
<1> HIDE DEF r
<1> QED  BY <1>1, StartPlain

LEMMA MenuNextKept == ASSUME TablesKept, NEW u \in Users, MenuNext(u) PROVE TablesKept'
BY MenuEditorKept, MenuOpenedKept, EditMenuKept, DeleteMenuKept, ItemsKept, WriteMenuKept DEF MenuNext

LEMMA TablesStep == TablesKept /\ [Next]_vars => TablesKept'
<1> SUFFICES ASSUME TablesKept, [Next]_vars PROVE TablesKept'
  OBVIOUS
<1>1. CASE UNCHANGED vars
  <2>1. db' = db /\ at' = at /\ work' = work
    BY <1>1 DEF vars
  <2> QED  BY <2>1, TablesKeptNext DEF TablesKept
<1>2. CASE Next
  BY <1>2, AbandonKept, VoteNextKept, ConfNextKept, OtherNextKept, MenuNextKept DEF Next
<1> QED  BY <1>1, <1>2

LEMMA TablesStart == Init => TablesKept
<1> SUFFICES ASSUME Init PROVE TablesKept
  OBVIOUS
<1> DEFINE none == <<>>
           ch == [c \in 1..2 |-> 1]
           ar == [n \in InUse |-> [path |-> TRUE, acs |-> FALSE]]
<1>1. \A S, T : none \in Some(S, T) /\ DOMAIN none = {}
  <2> SUFFICES ASSUME NEW S, NEW T PROVE none \in Some(S, T) /\ DOMAIN none = {}
    OBVIOUS
  <2>1. DOMAIN none = {} /\ none = [i \in DOMAIN none |-> none[i]]
    OBVIOUS
  <2> QED  BY <2>1, SomeIs
<1>2. ch \in Some(1..MaxChoices, 1..MaxVotes)
  <2>1. ch \in [1..2 -> 1..MaxVotes] /\ 1..2 \in SUBSET (1..MaxChoices)
    BY TabBounds
  <2> QED  BY <2>1 DEF Some
<1>3. ar \in Some(RowNames, AreaRow)
  <2>1. ar \in [InUse -> AreaRow] /\ InUse \in SUBSET RowNames
    BY TablesAssumption DEF AreaRow, TablesAssumption
  <2> QED  BY <2>1 DEF Some
<1>4. /\ db.votes = {1} /\ db.choices = ch /\ db.ballots = none /\ db.confs = none
      /\ db.members = {} /\ db.protos = none
  BY DEF Init
<1>5. db = [votes |-> {1}, choices |-> ch, ballots |-> none, confs |-> none, members |-> {},
            protos |-> none, areas |-> ar, subs |-> {},
            posts |-> [bulletins |-> 0, oneliners |-> 0], menus |-> none,
            last |-> [votes |-> 1, choices |-> 2, confs |-> 0, protos |-> 0]]
  BY DEF Init
<1>6. DOMAIN ch = 1..2 /\ \A c \in DOMAIN ch : ch[c] = 1
  OBVIOUS
<1> HIDE DEF none, ch, ar
<1>7. db \in TabRows
  <2>1. /\ 1 \in 0..MaxVotes /\ 2 \in 0..MaxChoices /\ 0 \in 0..MaxRows /\ {1} \in SUBSET (1..MaxVotes)
    BY TabBounds
  <2> QED  BY <1>1, <1>2, <1>3, <1>5, <2>1 DEF TabRows
<1>8. OneEach(db.confs) /\ OneEach(db.protos) /\ Anchored(db)
  BY <1>1, <1>4, <1>6 DEF OneEach, Anchored
<1>9. IsFiniteSet(DOMAIN db.ballots)
  BY <1>1, <1>4, FS_EmptySet
<1>10. at = [u \in Users |-> at[u]] /\ work \in 0..MaxWork
  BY TabBounds DEF Init
<1>11. \A u \in Users : Holds(at[u]) /\ Tallied(at[u], db)
  BY Plainly, Editing DEF Init
<1> QED  BY <1>7, <1>8, <1>9, <1>10, <1>11 DEF TablesKept, Sound

LEMMA TablesEnough == TablesKept => TablesInv /\ ShareBounded
<1> SUFFICES ASSUME TablesKept PROVE TablesInv /\ ShareBounded
  OBVIOUS
<1>0. db \in TabRows /\ Anchored(db) /\ OneEach(db.confs) /\ OneEach(db.protos)
  BY DEF TablesKept, Sound
<1>1. TypeOK
  <2>1. /\ db.votes \in SUBSET (1..MaxVotes) /\ db.choices \in Some(1..MaxChoices, 1..MaxVotes)
        /\ db.confs \in Some(1..MaxRows, Row) /\ db.protos \in Some(1..MaxRows, Row)
        /\ db.areas \in Some(RowNames, AreaRow) /\ db.menus \in Some(RowNames, Menu)
    BY <1>0, SomeFits
  <2>2. DOMAIN db.choices \subseteq 1..MaxChoices
    BY <2>1, SomeIs
  <2>3. /\ \A i \in DOMAIN db.confs : db.confs[i] \in Row
        /\ \A i \in DOMAIN db.protos : db.protos[i] \in Row
    BY <2>1, SomeIs
  <2>4. /\ \A n \in DOMAIN db.areas : n \in RowNames /\ db.areas[n] \in AreaRow
        /\ \A f \in DOMAIN db.menus : f \in RowNames /\ db.menus[f] \in Menu
    BY <2>1, SomeIs
  <2> QED  BY <1>0, <2>1, <2>2, <2>3, <2>4 DEF TypeOK, OneEach, Menu, TablesKept
<1>2. RowsAnchored
  BY <1>0 DEF RowsAnchored, Anchored
<1>3. ShareBounded
  BY DEF TablesKept, Tallied, ShareBounded, Share, SumOver
<1> QED  BY <1>1, <1>2, <1>3 DEF TablesInv

(* Between any two statements of the editors, whoever else is editing, a   *)
(* row has its form, a key of a conference or a protocol is one row's, and *)
(* every ballot, choice and membership names rows that are there.          *)
THEOREM TablesCorrect == Spec => []TablesInv
<1>1. Init => TablesKept
  BY TablesStart
<1>2. TablesKept /\ [Next]_vars => TablesKept'
  BY TablesStep
<1>3. TablesKept => TablesInv
  BY TablesEnough
<1> QED  BY <1>1, <1>2, <1>3, PTL DEF Spec

(* The results screen reads choices, counts and total in three queries     *)
(* while others vote, and never shows more than the whole.                 *)
THEOREM SharesCorrect == Spec => []ShareBounded
<1>1. Init => TablesKept
  BY TablesStart
<1>2. TablesKept /\ [Next]_vars => TablesKept'
  BY TablesStep
<1>3. TablesKept => ShareBounded
  BY TablesEnough
<1> QED  BY <1>1, <1>2, <1>3, PTL DEF Spec
=============================================================================
