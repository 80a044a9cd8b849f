------------------------------ MODULE Accounts ------------------------------
(***************************************************************************)
(* The user row and the copies of it that caller sessions keep: logging    *)
(* in, registering and recovering a password (session.c, authenticate, and *)
(* the two throttle tables of auth.c and session.c), the account actions   *)
(* of bbs_handle_action (password, security question, colour scheme,       *)
(* subscription, the sysop's user editor), and the file commands, which    *)
(* charge the copies (file_cmds.c), with file validation and file packing. *)
(*                                                                         *)
(* A session thread reads the row once, when the caller logs in, and works *)
(* on its own copy from then on.  Every wait for the caller or for a       *)
(* transfer is a state of the session, so that the steps of other sessions *)
(* come between what a handler read and what it writes.                    *)
(***************************************************************************)
EXTENDS Integers, FiniteSets, Sequences

CONSTANTS
  Sessions,      \* caller sessions (one thread each)
  Users,         \* handles
  Sysop,         \* the account with the A flag (acs_allows(s, "+A"))
  Guest,         \* cfg.guest_handle
  Ip,            \* the address a session calls from
  Calls,         \* the handles a session's caller may give
  Names,         \* file names in the one file area
  MaxPw,         \* passwords and answers are 1 .. MaxPw; 0 is "none"
  MaxCredits,    \* bound on credits
  DefaultCredits, Price, Cost,   \* cfg.default_credits, a plan, a file
  DlOneDay,      \* security level: downloads a day (0: no limit)
  RatioDen,      \* downloads allowed per upload (0: no ratio)
  CheckDupes,    \* area.check_dupes
  Slots,         \* MAX_LOGIN_ATTEMPTS, MAX_ATTEMPTS
  MaxLogin,      \* cfg.login_max_attempts
  MaxRecovery,   \* 3, in recovery_throttled
  MaxFiles,      \* bound on uploads
  MaxWork        \* bound on calls and commands

ASSUME AccountsAssumption ==
  /\ Sysop \in Users /\ Guest \in Users /\ Sysop # Guest
  /\ MaxPw \in Nat \ {0} /\ MaxCredits \in Nat
  /\ DefaultCredits \in 0..MaxCredits /\ Price \in Nat /\ Cost \in Nat
  /\ DlOneDay \in Nat /\ RatioDen \in Nat /\ CheckDupes \in BOOLEAN
  /\ Slots \in Nat \ {0} /\ MaxLogin \in Nat \ {0} /\ MaxRecovery \in Nat \ {0}
  /\ MaxFiles \in Nat /\ MaxWork \in Nat
  /\ IsFiniteSet(Sessions) /\ Sessions # {}

VARIABLES
  users,      \* table users: handle -> row, or NoRow
  logins,     \* g_attempts
  recov,      \* g_recovery_attempts
  sess,       \* the session threads
  files,      \* table files: id -> row, or NoRow
  disk,       \* the area's directory: name -> number of the upload, 0: none
  uploads,    \* number of uploads so far (the content of an upload)
  approved,   \* history: the contents a sysop has approved
  work        \* number of calls and commands so far

vars == <<users, logins, recov, sess, files, disk, uploads, approved, work>>

NoRow == [none |-> TRUE]
FileIds == 1..MaxFiles
Pws == 0..MaxPw

(* The columns of a user row the properties tell apart: flags stands for   *)
(* what only the user editor changes, q for the question being set.        *)
Row == [pw : Pws, q : BOOLEAN, ans : Pws, flags : BOOLEAN, level : 1..2,
        credits : 0..MaxCredits, fp : 0..MaxFiles, dl : Nat, ul : 0..MaxFiles]

NewRow(pw, credits) ==
  [pw |-> pw, q |-> FALSE, ans |-> 0, flags |-> FALSE, level |-> 1,
   credits |-> credits, fp |-> 0, dl |-> 0, ul |-> 0]

FileRow == [name : Names, notval : BOOLEAN]

Entry == [ip : {Ip[s] : s \in Sessions}, handle : Users, n : Nat, old : BOOLEAN]

Pcs == {"idle", "pw", "ask", "answer", "reset", "expired", "reg", "menu", "edit", "sub",
        "dl", "up", "staged", "describe", "validate"}

Idle == [pc |-> "idle", who |-> Sysop, usr |-> NoRow, cred |-> 0, fps |-> 0,
         buf |-> NoRow, tgt |-> Sysop, name |-> "", id |-> 0, list |-> <<>>]

Init ==
  /\ users = [u \in Users |-> CASE u = Sysop -> [NewRow(1, 0) EXCEPT !.q = TRUE, !.ans = 1]
                                [] OTHER -> NoRow]
  /\ logins = [i \in 1..Slots |-> NoRow]
  /\ recov = [i \in 1..Slots |-> NoRow]
  /\ sess = [s \in Sessions |-> Idle]
  /\ files = [f \in FileIds |-> NoRow]
  /\ disk = [n \in Names |-> 0]
  /\ uploads = 0
  /\ approved = {}
  /\ work = 0

-----------------------------------------------------------------------------
(* The throttle tables.  An entry whose attempts are 0 is a free slot; the *)
(* window of an entry has passed when it is old.                           *)

Matches(e, ip, h) == e # NoRow /\ (e.ip = ip \/ e.handle = h)

Forget(t) == [i \in 1..Slots |-> IF t[i] # NoRow /\ t[i].old THEN NoRow ELSE t[i]]

Throttled(t, ip, h, max) ==
  \E i \in 1..Slots : Matches(t[i], ip, h) /\ ~t[i].old /\ t[i].n >= max

(* The entries before the first that refuses are reset when they are old.  *)
Scanned(t, ip, h, max) ==
  LET stop == {i \in 1..Slots : Matches(t[i], ip, h) /\ ~t[i].old /\ t[i].n >= max}
      k    == IF stop = {} THEN Slots ELSE CHOOSE i \in stop : \A j \in stop : i <= j
  IN [i \in 1..Slots |-> IF i <= k THEN Forget(t)[i] ELSE t[i]]

(* A failure is added to the first matching entry in its window; matching  *)
(* entries before it whose window has passed are freed, and the last slot  *)
(* freed, else the first free one, takes the failure when none matches.    *)
Recorded(t, ip, h) ==
  LET live == {i \in 1..Slots : Matches(t[i], ip, h) /\ ~t[i].old}
      hit  == IF live = {} THEN 0 ELSE CHOOSE i \in live : \A j \in live : i <= j
      past == {i \in 1..Slots : Matches(t[i], ip, h) /\ t[i].old /\ (hit = 0 \/ i < hit)}
      free == {i \in 1..Slots : t[i] = NoRow}
      slot == IF past # {} THEN CHOOSE i \in past : \A j \in past : j <= i
              ELSE IF free # {} THEN CHOOSE i \in free : \A j \in free : i <= j
              ELSE 0
      t1   == [i \in 1..Slots |-> IF i \in past THEN NoRow ELSE t[i]]
  IN IF hit # 0 THEN [t1 EXCEPT ![hit].n = @ + 1]
     ELSE IF slot = 0 THEN t1
     ELSE [t1 EXCEPT ![slot] = [ip |-> ip, handle |-> h, n |-> 1, old |-> FALSE]]

recovery_throttled(s, u) == Throttled(recov, Ip[s], u, MaxRecovery)
recovery_record(t, s, u) == Recorded(t, Ip[s], u)

(* Time passes: the window of an entry ends.                               *)
WindowPasses(i) ==
  /\ \/ /\ logins[i] # NoRow /\ ~logins[i].old
        /\ logins' = [logins EXCEPT ![i].old = TRUE] /\ UNCHANGED recov
     \/ /\ recov[i] # NoRow /\ ~recov[i].old
        /\ recov' = [recov EXCEPT ![i].old = TRUE] /\ UNCHANGED logins
  /\ UNCHANGED <<users, sess, files, disk, uploads, approved, work>>

-----------------------------------------------------------------------------
(* authenticate: each prompt is a state of the session.                    *)

Put(s, r) == sess' = [sess EXCEPT ![s] = r]
Goes(s, pc) == sess' = [sess EXCEPT ![s].pc = pc]

(* s->user = current_user and the runtime counters taken from it.          *)
Entered(s, u, copy) ==
  [Idle EXCEPT !.pc = "menu", !.who = u, !.usr = copy,
               !.cred = copy.credits, !.fps = copy.fp]

Area == <<files, disk, uploads, approved>>
Files == <<Area, work>>

db_user_fetch(u) == users[u]

Hello(s, u) ==
  /\ sess[s].pc = "idle" /\ u \in Calls[s] /\ work < MaxWork
  /\ work' = work + 1
  /\ logins' = Scanned(logins, Ip[s], u, MaxLogin)
  /\ IF Throttled(logins, Ip[s], u, MaxLogin) THEN UNCHANGED <<users, sess>>
     ELSE IF u = Guest
     THEN LET row == IF users[u] = NoRow THEN NewRow(0, 0) ELSE users[u]
          IN users' = [users EXCEPT ![u] = row] /\ Put(s, Entered(s, u, row))
     ELSE /\ UNCHANGED users
          /\ Put(s, [Idle EXCEPT !.pc = IF users[u] = NoRow THEN "reg" ELSE "pw",
                                 !.who = u, !.usr = db_user_fetch(u)])
  /\ UNCHANGED <<recov, Area>>

db_user_get_security_question(u) == users[u] # NoRow /\ users[u].q /\ users[u].ans # 0

Password(s, p) ==
  LET u == sess[s].who
  IN /\ sess[s].pc = "pw"
     /\ IF p = sess[s].usr.pw
        THEN /\ UNCHANGED logins
             /\ \/ Put(s, Entered(s, u, sess[s].usr))
                \/ Goes(s, "expired")
        ELSE /\ logins' = Recorded(logins, Ip[s], u)
             /\ IF db_user_get_security_question(u)
                THEN Put(s, [sess[s] EXCEPT !.pc = "ask", !.buf = users[u]])
                ELSE Put(s, Idle)
     /\ UNCHANGED <<users, recov, Files>>

(* The throttle is looked at when the caller asks for the question.  A     *)
(* mutant: it is not looked at.                                            *)
RecoverAlways(s) ==
  /\ sess[s].pc = "ask"
  /\ Goes(s, "answer")
  /\ UNCHANGED <<users, logins, recov, Files>>

Recover(s) ==
  LET u == sess[s].who
  IN /\ sess[s].pc = "ask"
     /\ recov' = Scanned(recov, Ip[s], u, MaxRecovery)
     /\ IF recovery_throttled(s, u) THEN Put(s, Idle) ELSE Goes(s, "answer")
     /\ UNCHANGED <<users, logins, Files>>

(* The answer is compared with the hash read before the question was put;  *)
(* 0 is no answer, or a line that is lost, which counts as a failure too.  *)
Answer(s, a) ==
  /\ sess[s].pc = "answer"
  /\ IF a = sess[s].buf.ans THEN Goes(s, "reset") /\ UNCHANGED recov
     ELSE recov' = recovery_record(recov, s, sess[s].who) /\ Put(s, Idle)
  /\ UNCHANGED <<users, logins, Files>>

db_user_set_pw_with_timestamp(u, p) ==
  users' = IF users[u] = NoRow THEN users ELSE [users EXCEPT ![u].pw = p]

(* The new password is accepted (p # 0), or it is too short or not         *)
(* repeated, the line is lost or the row cannot be written.                *)
Reset(s, p) ==
  LET u == sess[s].who
  IN /\ sess[s].pc = "reset"
     /\ Put(s, Idle)
     /\ IF p # 0 THEN db_user_set_pw_with_timestamp(u, p) /\ UNCHANGED recov
        ELSE recov' = recovery_record(recov, s, u) /\ UNCHANGED users
     /\ UNCHANGED <<logins, Files>>

(* The forced change writes the row; the session keeps the copy it read.   *)
Expired(s, p) ==
  /\ sess[s].pc = "expired"
  /\ IF p # 0
     THEN db_user_set_pw_with_timestamp(sess[s].who, p) /\ Put(s, Entered(s, sess[s].who, sess[s].usr))
     ELSE UNCHANGED users /\ Put(s, Idle)
  /\ UNCHANGED <<logins, recov, Files>>

(* handle is UNIQUE: registering a handle that exists by now fails.        *)
Register(s, p) ==
  LET u == sess[s].who
  IN /\ sess[s].pc = "reg"
     /\ IF p # 0 /\ users[u] = NoRow
        THEN LET row == NewRow(p, DefaultCredits)
             IN users' = [users EXCEPT ![u] = row] /\ Put(s, Entered(s, u, row))
        ELSE UNCHANGED users /\ Put(s, Idle)
     /\ UNCHANGED <<logins, recov, Files>>

(* The connection drops, or the caller logs off: the copies are lost.  A   *)
(* batch upload does not look at the connection until it has ended, and    *)
(* the prompts of the recovery count a lost line as a failure.             *)
HangUp(s) ==
  /\ sess[s].pc \notin {"idle", "answer", "reset", "staged", "describe"}
  /\ Put(s, Idle)
  /\ UNCHANGED <<users, logins, recov, Files>>

-----------------------------------------------------------------------------
(* The account actions of bbs_handle_action.                               *)

AtMenu(s) == sess[s].pc = "menu" /\ work < MaxWork /\ work' = work + 1
IsSysop(s) == sess[s].who = Sysop
Accounting == <<logins, recov, Area>>

(* db_user_update writes every column of the given record but pw_hash, the *)
(* question and the preferences that have statements of their own.         *)
db_user_update(u, r) ==
  users' = IF users[u] = NoRow THEN users
           ELSE [users EXCEPT ![u] = [r EXCEPT !.pw = users[u].pw, !.q = users[u].q]]

ChangePassword(s, cur, new) ==
  /\ AtMenu(s) /\ cur = sess[s].usr.pw /\ new # 0
  /\ db_user_set_pw_with_timestamp(sess[s].who, new)
  /\ sess' = [sess EXCEPT ![s].usr.pw = new]
  /\ UNCHANGED Accounting

ResetPassword(s, u, new) ==
  /\ AtMenu(s) /\ IsSysop(s) /\ users[u] # NoRow /\ new # 0
  /\ db_user_set_pw_with_timestamp(u, new)
  /\ UNCHANGED <<sess, Accounting>>

db_user_set_security_question(u, a) ==
  users' = [users EXCEPT ![u].q = TRUE, ![u].ans = a]

SetSecurityQ(s, a) ==
  /\ AtMenu(s) /\ a # 0 /\ users[sess[s].who] # NoRow
  /\ db_user_set_security_question(sess[s].who, a)
  /\ UNCHANGED <<sess, Accounting>>

PickScheme(s) ==
  /\ AtMenu(s)
  /\ db_user_update(sess[s].who, sess[s].usr)
  /\ UNCHANGED <<sess, Accounting>>

EditOpen(s, u) ==
  /\ AtMenu(s) /\ IsSysop(s) /\ users[u] # NoRow
  /\ Put(s, [sess[s] EXCEPT !.pc = "edit", !.tgt = u, !.buf = db_user_fetch(u)])
  /\ UNCHANGED <<users, Accounting>>

EditField(s, flags, credits) ==
  /\ sess[s].pc = "edit"
  /\ sess' = [sess EXCEPT ![s].buf.flags = flags, ![s].buf.credits = credits]
  /\ UNCHANGED <<users, Accounting, work>>

EditWrite(s) ==
  /\ sess[s].pc = "edit"
  /\ db_user_update(sess[s].tgt, sess[s].buf)
  /\ Put(s, [sess[s] EXCEPT !.pc = "menu", !.buf = NoRow, !.tgt = Sysop])
  /\ UNCHANGED <<Accounting, work>>

SubscribeSelect(s) ==
  /\ AtMenu(s) /\ sess[s].cred >= Price
  /\ Goes(s, "sub")
  /\ UNCHANGED <<users, Accounting>>

(* The credits are written first; the subscription may then fail (the plan *)
(* is gone, the database is busy) and the price is not given back.         *)
db_user_update_time_credit(row, credits, fp) ==
  [row EXCEPT !.credits = credits, !.fp = fp]

db_user_subscribe(row) == [row EXCEPT !.level = 2]

SubscribeConfirm(s, ok) ==
  LET me   == sess[s]
      left == me.cred - Price
      row  == db_user_update_time_credit(users[me.who], left, me.fps)
  IN /\ me.pc = "sub" /\ users[me.who] # NoRow
     /\ users' = [users EXCEPT ![me.who] = IF ok THEN db_user_subscribe(row) ELSE row]
     /\ Put(s, [me EXCEPT !.pc = "menu", !.cred = left, !.usr.credits = left,
                          !.usr.level = IF ok THEN 2 ELSE @])
     /\ UNCHANGED <<Accounting, work>>

SubscribeDecline(s) ==
  /\ sess[s].pc = "sub" /\ Goes(s, "menu") /\ UNCHANGED <<users, Accounting, work>>

-----------------------------------------------------------------------------
(* The file commands.  A transfer runs for as long as it takes: the record *)
(* it was allowed for was read before it began.                            *)

Tables == <<users, logins, recov>>

file_visible_to_user(s, f) == ~f.notval \/ IsSysop(s)

file_download_allowed(s, f) ==
  LET me == sess[s].usr
  IN /\ file_visible_to_user(s, f)
     /\ DlOneDay = 0 \/ me.dl < DlOneDay
     /\ sess[s].cred >= Cost
     /\ RatioDen = 0 \/ me.ul >= me.dl \div RatioDen

db_file_get(i) == files[i]

DownloadStart(s, i) ==
  /\ AtMenu(s) /\ db_file_get(i) # NoRow /\ file_download_allowed(s, db_file_get(i))
  /\ Put(s, [sess[s] EXCEPT !.pc = "dl", !.id = i, !.name = files[i].name])
  /\ UNCHANGED <<Tables, Area>>



file_record_download_success(r) ==
  [r EXCEPT !.cred = @ - Cost, !.usr.credits = @ - Cost, !.usr.dl = @ + 1]

DownloadEnd(s, ok) ==
  LET back == [sess[s] EXCEPT !.pc = "menu", !.id = 0, !.name = ""]
  IN /\ sess[s].pc = "dl"
     /\ Put(s, IF ok THEN file_record_download_success(back) ELSE back)
     /\ UNCHANGED <<Tables, Area, work>>

db_file_exists_name(n) == \E i \in FileIds : files[i] # NoRow /\ files[i].name = n

UploadStart(s, n) ==
  /\ AtMenu(s) /\ uploads < MaxFiles
  /\ CheckDupes => ~db_file_exists_name(n)
  /\ Put(s, [sess[s] EXCEPT !.pc = "up", !.name = n])
  /\ UNCHANGED <<Tables, Area>>

Credited(r) == [r EXCEPT !.pc = "menu", !.name = "", !.usr.ul = @ + 1,
                         !.usr.fp = @ + 1, !.fps = @ + 1]

(* ids come from AUTOINCREMENT and are never used again: here, the number  *)
(* of the upload.                                                          *)
db_file_add_ex(i, n) ==
  files' = [files EXCEPT ![i] = [name |-> n, notval |-> TRUE]]

(* The protocol writes into the area itself, over what has that name; the  *)
(* row is added afterwards, which a busy database may refuse.              *)
UploadEnd(s, outcome) ==
  LET n == sess[s].name IN
  /\ sess[s].pc = "up" /\ uploads < MaxFiles
  /\ CASE outcome = "failed" ->
            /\ Put(s, [sess[s] EXCEPT !.pc = "menu", !.name = ""])
            /\ UNCHANGED <<disk, uploads, files>>
       [] outcome = "norow" ->
            /\ uploads' = uploads + 1 /\ disk' = [disk EXCEPT ![n] = uploads + 1]
            /\ Put(s, [sess[s] EXCEPT !.pc = "menu", !.name = ""])
            /\ UNCHANGED files
       [] outcome = "ok" ->
            /\ uploads' = uploads + 1 /\ disk' = [disk EXCEPT ![n] = uploads + 1]
            /\ db_file_add_ex(uploads + 1, n)
            /\ Put(s, Credited(sess[s]))
  /\ UNCHANGED <<Tables, approved, work>>

(* Batch upload: into a staging directory, then one file at a time into    *)
(* the area unless the name is taken there, described, and recorded.       *)
BatchReceive(s, n) ==
  /\ AtMenu(s) /\ uploads < MaxFiles
  /\ Put(s, [sess[s] EXCEPT !.pc = "staged", !.name = n])
  /\ UNCHANGED <<Tables, Area>>

BatchMove(s) ==
  LET n == sess[s].name IN
  /\ sess[s].pc = "staged" /\ uploads < MaxFiles
  /\ IF disk[n] # 0
     THEN Put(s, [sess[s] EXCEPT !.pc = "menu", !.name = ""]) /\ UNCHANGED <<disk, uploads>>
     ELSE /\ uploads' = uploads + 1 /\ disk' = [disk EXCEPT ![n] = uploads + 1]
          /\ Put(s, [sess[s] EXCEPT !.pc = "describe", !.id = uploads + 1])
  /\ UNCHANGED <<Tables, files, approved, work>>

BatchAdd(s) ==
  /\ sess[s].pc = "describe"
  /\ db_file_add_ex(sess[s].id, sess[s].name)
  /\ Put(s, [Credited(sess[s]) EXCEPT !.id = 0])
  /\ UNCHANGED <<Tables, disk, uploads, approved, work>>

-----------------------------------------------------------------------------
(* The sysop's side of the file areas.                                     *)

db_file_list == {i \in FileIds : files[i] # NoRow}

ValidateOpen(s) ==
  LET pending == {i \in db_file_list : files[i].notval}
  IN /\ AtMenu(s) /\ IsSysop(s) /\ pending # {}
     /\ Put(s, [sess[s] EXCEPT !.pc = "validate",
                  !.list = CHOOSE q \in [1..Cardinality(pending) -> pending] :
                             \A i, j \in 1..Cardinality(pending) : i < j => q[i] < q[j]])
     /\ UNCHANGED <<Tables, Area>>

Listed(s) == [sess[s] EXCEPT !.list = Tail(@), !.pc = IF Len(sess[s].list) = 1 THEN "menu" ELSE @]

(* db_file_update writes the flags of the record that was listed; it finds *)
(* no row when the file was deleted since.                                 *)
db_file_update(i, notval) ==
  files' = IF files[i] = NoRow THEN files ELSE [files EXCEPT ![i].notval = notval]

db_file_delete(ids) == files' = [i \in FileIds |-> IF i \in ids THEN NoRow ELSE files[i]]

ValidateOne(s, verdict) ==
  LET i == Head(sess[s].list)
  IN /\ sess[s].pc = "validate"
     /\ Put(s, Listed(s))
     /\ CASE verdict = "approve" ->
               /\ db_file_update(i, FALSE)
               /\ approved' = IF files[i] = NoRow THEN approved
                              ELSE approved \cup {disk[files[i].name]}
          [] verdict = "reject" ->
               db_file_delete({i}) /\ UNCHANGED approved
          [] verdict = "skip" -> UNCHANGED <<files, approved>>
     /\ UNCHANGED <<Tables, disk, uploads, work>>

(* An operator removes a file outside the program; cmd_file_pack deletes   *)
(* the rows whose file is missing.                                         *)
Unlinked(n) ==
  /\ disk[n] # 0 /\ disk' = [disk EXCEPT ![n] = 0]
  /\ UNCHANGED <<Tables, sess, files, uploads, approved, work>>

cmd_file_pack(s) ==
  /\ AtMenu(s) /\ IsSysop(s)
  /\ db_file_delete({i \in db_file_list : disk[files[i].name] = 0})
  /\ UNCHANGED <<Tables, sess, disk, uploads, approved>>

Next ==
  \/ \E i \in 1..Slots : WindowPasses(i)
  \/ \E n \in Names : Unlinked(n)
  \/ \E s \in Sessions :
       \/ \E u \in Users : Hello(s, u) \/ EditOpen(s, u)
       \/ \E p \in Pws : \/ Password(s, p) \/ Answer(s, p) \/ Reset(s, p)
                         \/ Expired(s, p) \/ Register(s, p) \/ SetSecurityQ(s, p)
       \/ Recover(s)
       \/ \E p, q \in Pws : ChangePassword(s, p, q)
       \/ \E u \in Users, p \in Pws : ResetPassword(s, u, p)
       \/ HangUp(s) \/ PickScheme(s)
       \/ \E f \in BOOLEAN, c \in 0..MaxCredits : EditField(s, f, c)
       \/ EditWrite(s) \/ SubscribeSelect(s) \/ SubscribeDecline(s)
       \/ \E ok \in BOOLEAN : SubscribeConfirm(s, ok) \/ DownloadEnd(s, ok)
       \/ \E i \in FileIds : DownloadStart(s, i)
       \/ \E n \in Names : UploadStart(s, n) \/ BatchReceive(s, n)
       \/ \E o \in {"ok", "norow", "failed"} : UploadEnd(s, o)
       \/ BatchMove(s) \/ BatchAdd(s)
       \/ ValidateOpen(s)
       \/ \E v \in {"approve", "reject", "skip"} : ValidateOne(s, v)
       \/ cmd_file_pack(s)

Spec == Init /\ [][Next]_vars

-----------------------------------------------------------------------------
(* Rows, copies and counters keep their ranges; in particular no purchase  *)
(* or download leaves a caller's credits below zero, although the price is *)
(* compared with the copy before a prompt or a transfer and taken after it *)
(* (session.c:2227, file_cmds.c:107).                                      *)
TypeOK ==
  /\ users \in [Users -> Row \cup {NoRow}]
  /\ logins \in [1..Slots -> Entry \cup {NoRow}]
  /\ recov \in [1..Slots -> Entry \cup {NoRow}]
  /\ files \in [FileIds -> FileRow \cup {NoRow}]
  /\ disk \in [Names -> 0..MaxFiles]
  /\ uploads \in 0..MaxFiles /\ work \in 0..MaxWork
  /\ approved \subseteq 0..MaxFiles
  /\ \A s \in Sessions :
       LET r == sess[s] IN
       /\ r.pc \in Pcs /\ r.who \in Users /\ r.tgt \in Users
       /\ r.usr \in Row \cup {NoRow} /\ r.buf \in Row \cup {NoRow}
       /\ r.cred \in 0..MaxCredits /\ r.fps \in 0..MaxFiles
       /\ r.id \in 0..MaxFiles /\ r.name \in Names \cup {""}
       /\ Len(r.list) <= MaxFiles /\ \A i \in 1..Len(r.list) : r.list[i] \in FileIds

LoggedIn(s) == sess[s].pc \notin {"idle", "pw", "ask", "answer", "reset", "expired", "reg"}

(* A session keeps its credits and file points twice, as runtime counters  *)
(* that guard purchases and downloads (s->credits, s->file_points) and in  *)
(* its copy of the row, which is what the whole-row write of the colour    *)
(* scheme action stores: the two never drift apart, whatever sequence of   *)
(* purchases, downloads and uploads the caller makes.                      *)
CopiesAgree ==
  \A s \in Sessions : LoggedIn(s) =>
    sess[s].cred = sess[s].usr.credits /\ sess[s].fps = sess[s].usr.fp

(* The log-in throttle is checked when the handle is given and counts a    *)
(* failure only after the password prompt; that of the recovery is checked *)
(* before the question is put and counts after the answer, or after the    *)
(* new password.  Callers in between have passed a check that is out of    *)
(* date by then.  An entry counts at most one failure more per other       *)
(* session than its limit allows, in both tables.                          *)
ThrottleBound ==
  \A i \in 1..Slots :
    /\ logins[i] # NoRow => logins[i].n <= MaxLogin + Cardinality(Sessions) - 1
    /\ recov[i] # NoRow => recov[i].n <= MaxRecovery + Cardinality(Sessions) - 1

(* What holds of accounts and callers in every state: the ranges, copies   *)
(* that agree and throttles that stop, whatever the sessions and the sysop *)
(* interleave.                                                             *)
AccountsInv == TypeOK /\ CopiesAgree /\ ThrottleBound

(* "New uploads need validation" (file_cmds.c): what a caller other than   *)
(* the sysop has downloaded is a content that was approved.                *)
DownloadsApproved ==
  [][\A s \in Sessions :
       (sess[s].pc = "dl" /\ ~IsSysop(s) /\ sess'[s].pc = "menu"
          /\ sess'[s].usr.dl > sess[s].usr.dl /\ disk[sess[s].name] # 0)
         => disk[sess[s].name] \in approved]_vars
=============================================================================
