------------------------------ MODULE Messages ------------------------------
(***************************************************************************)
(* Message areas, messages, drafts, short messages and QWK packets: the    *)
(* commands of msg_cmds.c, qwk.c and the message parts of session.c and    *)
(* maint.c, over the message tables of db.c.  Every session has its own    *)
(* database connection; each SQL statement is one step of the database,    *)
(* and every wait for the caller is a state of the session.                *)
(*                                                                         *)
(* Subjects, bodies, area passwords and the AC_RPOST and AC_REMAIL         *)
(* restrictions are left out.  A message is never removed: message packing *)
(* names a column the table does not have.                                 *)
(***************************************************************************)
EXTENDS Integers, FiniteSets, Sequences

CONSTANTS
  Sessions, Users,
  Who,           \* the account of a session's caller
  Sysops,        \* the accounts with the A flag
  Flagged,       \* the accounts whose deleted flag is set
  AreaNames,
  InboxMax,      \* INBOX_MAX_MSGS
  PerArea,       \* messages of one area in one packet
  MaxMsgs, MaxAreas, MaxSms, MaxTime, MaxWork    \* bounds

ASSUME MessagesAssumption ==
  /\ Who \in [Sessions -> Users] /\ Sysops \subseteq Users /\ Flagged \subseteq Users
  /\ \A s, t \in Sessions : Who[s] = Who[t] => s = t
  /\ InboxMax \in Nat /\ PerArea \in Nat \ {0}
  /\ {MaxMsgs, MaxSms, MaxWork} \subseteq Nat /\ {MaxAreas, MaxTime} \subseteq Nat \ {0}

VARIABLES
  accounts,   \* ids in table users
  areas,      \* table message_areas: name -> [id, acs]; id 0: no row
  areaIds,    \* number of area ids given out
  msgs,       \* table messages, the id is the position
  drafts,     \* table drafts: account -> its drafts in id order
  sms,        \* table short_messages
  smw,        \* users.smw
  scan,       \* table user_scan_areas: the areas an account leaves out
  last_qwk,   \* users.last_qwk; 0: none
  got,        \* history: messages in the packets an account has downloaded
  twice,      \* history: those in two of its packets
  seen,       \* history: messages shown to an account on the screen
  opened,     \* history: the areas an account has had read access to
  echo,       \* tables fido_echolinks, fido_echomail_queue, qwk_area_links
  sess, now, work

msgvars == <<accounts, areas, areaIds, msgs, drafts, sms, smw, scan, last_qwk, got,
             twice, seen, opened, echo, sess, now, work>>

AreaRow == [id : 0..MaxAreas, acs : BOOLEAN]
MsgRow == [area : 1..MaxAreas, from : Users, reply : 0..MaxMsgs, root : 0..MaxMsgs,
           at : 0..MaxTime, edits : Nat]
Sms == [from : Users, to : Users, read : BOOLEAN, gone : BOOLEAN]
(* The one echolink: its area (0: none), its high-water mark and its       *)
(* queue; hub is the areas linked to a QWK hub.                            *)
Echo == [link : 0..MaxAreas, hw : 0..MaxMsgs, pending : SUBSET (1..MaxMsgs),
         exported : SUBSET (1..MaxMsgs), hub : SUBSET (1..MaxAreas)]
SessRow == [pc : {"off", "menu", "post", "email", "reply", "edit", "smw", "fsedit", "qwk", "net",
                  "aka", "write"},
            area : 0..MaxAreas, qwk : 0..MaxTime, tgt : 0..MaxMsgs, to : Users,
            orig : 0..MaxAreas, pack : SUBSET (1..MaxMsgs)]

Off(s) == [pc |-> "off", area |-> 0, qwk |-> 0, tgt |-> 0, to |-> Who[s], orig |-> 0,
           pack |-> {}]

Ids == {areas[n].id : n \in AreaNames} \ {0}
Named(a) == CHOOSE n \in AreaNames : areas[n].id = a
Msgs == 1..Len(msgs)
Allows(u, n) == areas[n].acs => u \in Sysops
Readable(u, as) == {a \in 1..MaxAreas : \E n \in AreaNames : as[n].id = a /\ (as[n].acs => u \in Sysops)}

MsgInit ==
  /\ accounts = Users
  /\ areas = [n \in AreaNames |-> IF n = (CHOOSE x \in AreaNames : TRUE)
                                  THEN [id |-> 1, acs |-> FALSE] ELSE [id |-> 0, acs |-> FALSE]]
  /\ areaIds = 1
  /\ msgs = <<>> /\ sms = <<>>
  /\ drafts = [u \in Users |-> <<>>]
  /\ smw = [u \in Users |-> 0] /\ last_qwk = [u \in Users |-> 0]
  /\ scan = [u \in Users |-> {}]
  /\ got = [u \in Users |-> {}] /\ twice = [u \in Users |-> {}] /\ seen = [u \in Users |-> {}]
  /\ opened = [u \in Users |-> {1}]
  /\ echo = [link |-> 0, hw |-> 0, pending |-> {}, exported |-> {}, hub |-> {}]
  /\ sess = [s \in Sessions |-> Off(s)]
  /\ now = 1 /\ work = 0

At(s, pc) == sess[s].pc = pc
Goes(s, pc) == sess' = [sess EXCEPT ![s].pc = pc]
(* A command given at the menu; work bounds how many there are.            *)
Command(s) == At(s, "menu") /\ work < MaxWork /\ work' = work + 1

-----------------------------------------------------------------------------
(* Access to areas.  acs_read and acs_post are empty, as the area editor   *)
(* leaves them, so both commands fall back on acs.                         *)

msg_area_can(s, a) == a \in Ids /\ Allows(Who[s], Named(a))
msg_can_read(s, m) == m \in Msgs /\ msg_area_can(s, msgs[m].area)

db_messages_list(a) == {m \in Msgs : msgs[m].area = a}
db_messages_since(a, t) ==
  LET new == {m \in Msgs : msgs[m].area = a /\ msgs[m].at > t}
  IN {m \in new : Cardinality({k \in new : k < m}) < PerArea}
db_message_reply_tree(a, r) == {m \in Msgs : msgs[m].area = a /\ (msgs[m].root = r \/ m = r)}
db_count_messages_to_user_inbox(u) == 0     \* no message ever has a recipient

Unread == <<accounts, areas, areaIds, msgs, drafts, sms, smw, last_qwk, got, twice, opened,
            echo, now>>
Show(s, ms) == seen' = [seen EXCEPT ![Who[s]] = @ \cup ms] /\ UNCHANGED <<Unread, scan>>

(* Log-in: the session takes last_qwk with the row, tells the number of    *)
(* short messages and sets it to 0.                                        *)
Login(s) ==
  /\ At(s, "off") /\ Who[s] \in accounts /\ work < MaxWork /\ work' = work + 1
  /\ sess' = [sess EXCEPT ![s] = [Off(s) EXCEPT !.pc = "menu", !.qwk = last_qwk[Who[s]]]]
  /\ smw' = [smw EXCEPT ![Who[s]] = 0]
  /\ UNCHANGED <<accounts, areas, areaIds, msgs, drafts, sms, scan, last_qwk, got, twice, seen,
                 opened, echo, now>>

Logoff(s) ==
  /\ sess[s].pc # "off" /\ sess[s].pc \notin {"post", "email", "reply", "aka", "write"}
  /\ sess' = [sess EXCEPT ![s] = Off(s)]
  /\ UNCHANGED <<Unread, scan, seen, work>>

cmd_msg_area_change(s, a) ==
  /\ Command(s) /\ msg_area_can(s, a)
  /\ sess' = [sess EXCEPT ![s].area = a]
  /\ UNCHANGED <<Unread, scan, seen>>

cmd_msg_read(s, m) == Command(s) /\ msg_can_read(s, m) /\ Show(s, {m}) /\ UNCHANGED sess

(* The commands that show the current area.                                *)
cmd_msg_continuous_read(s) ==
  /\ Command(s) /\ sess[s].area > 0 /\ msg_area_can(s, sess[s].area)
  /\ Show(s, db_messages_list(sess[s].area)) /\ UNCHANGED sess

(* The commands that go through every area the caller may read.            *)
cmd_msg_search(s) ==
  /\ Command(s)
  /\ Show(s, UNION {db_messages_list(a) : a \in {b \in Ids : msg_area_can(s, b)}})
  /\ UNCHANGED sess

db_user_scan_area_get(u, a) == a \notin scan[u]
db_user_scan_area_set(u, a, on) == scan' = [scan EXCEPT ![u] = IF on THEN @ \ {a} ELSE @ \cup {a}]

cmd_msg_new_scan(s) ==
  /\ Command(s)
  /\ Show(s, UNION {db_messages_list(a) : a \in {b \in Ids : /\ msg_area_can(s, b)
                                                          /\ db_user_scan_area_get(Who[s], b)}})
  /\ UNCHANGED sess

cmd_msg_thread_view(s, m) ==
  /\ Command(s) /\ msg_can_read(s, m)
  /\ Show(s, db_message_reply_tree(msgs[m].area, IF msgs[m].root > 0 THEN msgs[m].root ELSE m))
  /\ UNCHANGED sess

(* The answers to a message, and the message it answers.                   *)
cmd_msg_jump_reply(s, m) ==
  /\ Command(s) /\ msg_can_read(s, m)
  /\ Show(s, {k \in db_messages_list(msgs[m].area) : msgs[k].reply = m \/ msgs[m].reply = k})
  /\ UNCHANGED sess

cmd_msg_your_messages(s) ==
  /\ Command(s)
  /\ Show(s, {m \in Msgs : msg_area_can(s, msgs[m].area) /\ msgs[m].from = Who[s]})
  /\ UNCHANGED sess

(* The answers to the caller's messages; then any number may be read.      *)
cmd_msg_your_scan(s, m) ==
  /\ Command(s)
  /\ Show(s, {k \in Msgs : /\ msg_area_can(s, msgs[k].area)
                          /\ msgs[k].reply > 0 /\ msgs[msgs[k].reply].from = Who[s]}
             \cup {k \in {m} : msg_can_read(s, k)})
  /\ UNCHANGED sess

(* A page of the current area; then any number may be read.                *)
cmd_msg_list(s, m) ==
  /\ Command(s) /\ sess[s].area > 0 /\ msg_area_can(s, sess[s].area)
  /\ Show(s, db_messages_list(sess[s].area) \cup {k \in {m} : msg_can_read(s, k)})
  /\ UNCHANGED sess

(* The mailbox query names a column that is not there: nothing is listed,  *)
(* and the command returns before it clears smw.                           *)
cmd_msg_read_private(s) == Command(s) /\ Show(s, {}) /\ UNCHANGED sess

cmd_msg_toggle_scan_areas(s, a) ==
  /\ Command(s) /\ msg_area_can(s, a)
  /\ db_user_scan_area_set(Who[s], a, ~db_user_scan_area_get(Who[s], a))
  /\ UNCHANGED <<Unread, seen, sess>>

-----------------------------------------------------------------------------
(* Posting.                                                                *)

(* The foreign keys of table messages.                                     *)
Postable(a, u, r) == a \in Ids /\ u \in accounts /\ (r = 0 \/ r \in Msgs)

RootOf(r) == IF r = 0 THEN 0 ELSE IF msgs[r].root > 0 THEN msgs[r].root ELSE r

(* Mutant: a reply starts its thread at the message it answers.            *)
PostUnrooted(a, u, r) ==
  msgs' = Append(msgs, [area |-> a, from |-> u, reply |-> r, root |-> r, at |-> now, edits |-> 0])

db_message_post(a, u, r) ==
  msgs' = Append(msgs, [area |-> a, from |-> u, reply |-> r, root |-> RootOf(r), at |-> now,
                        edits |-> 0])

db_fido_echolink_get_by_area(a) == echo.link = a
db_fido_echo_queue_add == [echo EXCEPT !.pending = @ \cup {Len(msgs) + 1}]
maybe_queue_echomail(a) ==
  echo' = IF db_fido_echolink_get_by_area(a) THEN db_fido_echo_queue_add ELSE echo

(* The draft for the area goes (there is one at most), then the new one is *)
(* added.                                                                  *)
Undrafted(q, a) ==
  IF \A i \in DOMAIN q : q[i].area # a THEN q
  ELSE LET i == CHOOSE i \in DOMAIN q : q[i].area = a
       IN  SubSeq(q, 1, i - 1) \o SubSeq(q, i + 1, Len(q))
db_draft_save(u, a, to) ==
  drafts' = [drafts EXCEPT ![u] = Append(Undrafted(@, a), [area |-> a, to |-> to])]

(* db_draft_get gives the newest draft only; it is offered when it belongs *)
(* to what is being written, and deleted as soon as it is taken up.        *)
Offered(u, a, to) ==
  /\ drafts[u] # <<>>
  /\ LET d == drafts[u][Len(drafts[u])] IN d.area = a /\ (a = 0 => d.to = to)
db_draft_delete(u) == [drafts EXCEPT ![u] = SubSeq(@, 1, Len(@) - 1)]

Resume(u, a, to) ==
  \/ Offered(u, a, to) /\ drafts' = db_draft_delete(u)
  \/ UNCHANGED drafts

PostRest == <<accounts, areas, areaIds, sms, smw, scan, last_qwk, got, twice, seen, opened, now>>

PostOpen(s) ==
  /\ Command(s) /\ sess[s].area > 0 /\ msg_area_can(s, sess[s].area)
  /\ Resume(Who[s], sess[s].area, Who[s])
  /\ Goes(s, "post") /\ UNCHANGED <<PostRest, msgs, echo>>

ReplyOpen(s, m) ==
  /\ Command(s) /\ msg_can_read(s, m)
  /\ sess' = [sess EXCEPT ![s].pc = "reply", ![s].tgt = m, ![s].orig = msgs[m].area]
  /\ UNCHANGED <<PostRest, msgs, drafts, echo>>

EmailOpen(s, t) ==
  /\ Command(s) /\ t \in accounts /\ db_count_messages_to_user_inbox(t) < InboxMax
  /\ Resume(Who[s], 0, t)
  /\ sess' = [sess EXCEPT ![s].pc = "email", ![s].to = t]
  /\ UNCHANGED <<PostRest, msgs, echo>>

(* The area and the message answered are the ones read before composing.   *)
PostSend(s) ==
  LET a == IF At(s, "reply") THEN sess[s].orig ELSE sess[s].area
      r == IF At(s, "reply") THEN sess[s].tgt ELSE 0
  IN /\ sess[s].pc \in {"post", "reply"}
     /\ IF Postable(a, Who[s], r) /\ Len(msgs) < MaxMsgs
        THEN db_message_post(a, Who[s], r) /\ maybe_queue_echomail(a)
        ELSE UNCHANGED <<msgs, echo>>
     /\ sess' = [sess EXCEPT ![s].pc = "menu", ![s].tgt = 0, ![s].orig = 0]
     /\ UNCHANGED <<PostRest, drafts, work>>

(* The caller cancels, or sends a letter: its area is 0, which is no row   *)
(* of message_areas, so the insert fails and nothing after it is done.     *)
ComposeEnd(s) ==
  /\ sess[s].pc \in {"post", "reply"} \/ (At(s, "email") /\ ~Postable(0, Who[s], 0))
  /\ sess' = [sess EXCEPT ![s].pc = "menu", ![s].tgt = 0, ![s].orig = 0, ![s].to = Who[s]]
  /\ UNCHANGED <<PostRest, msgs, drafts, echo, work>>

ComposeLost(s) ==
  /\ sess[s].pc \in {"post", "reply", "email"}
  /\ CASE At(s, "post")  -> db_draft_save(Who[s], sess[s].area, Who[s])
       [] At(s, "reply") -> db_draft_save(Who[s], sess[s].orig, Who[s])
       [] OTHER          -> db_draft_save(Who[s], 0, sess[s].to)
  /\ sess' = [sess EXCEPT ![s] = Off(s)]
  /\ UNCHANGED <<PostRest, msgs, echo, work>>

(* The full-screen editor's post checks no access and queues no echomail.  *)
FseditOpen(s) ==
  /\ Command(s) /\ Goes(s, "fsedit") /\ UNCHANGED <<PostRest, msgs, drafts, echo>>

FseditPost(s) ==
  /\ At(s, "fsedit") /\ Goes(s, "menu")
  /\ IF sess[s].area > 0 /\ Postable(sess[s].area, Who[s], 0) /\ Len(msgs) < MaxMsgs
     THEN db_message_post(sess[s].area, Who[s], 0) ELSE UNCHANGED msgs
  /\ UNCHANGED <<PostRest, drafts, echo, work>>

EditOpen(s, m) ==
  /\ Command(s) /\ msg_can_read(s, m) /\ (msgs[m].from = Who[s] \/ Who[s] \in Sysops)
  /\ sess' = [sess EXCEPT ![s].pc = "edit", ![s].tgt = m]
  /\ UNCHANGED <<PostRest, msgs, drafts, echo>>

db_message_update_body(m) == msgs' = [msgs EXCEPT ![m].edits = 1]

EditSave(s) ==
  /\ At(s, "edit") /\ db_message_update_body(sess[s].tgt)
  /\ sess' = [sess EXCEPT ![s].pc = "menu", ![s].tgt = 0]
  /\ UNCHANGED <<PostRest, drafts, echo, work>>

-----------------------------------------------------------------------------
(* Short messages.                                                         *)

SmwRest == <<accounts, areas, areaIds, msgs, drafts, scan, last_qwk, got, twice, seen, opened,
             echo, now>>

db_smw_mark_read(u) == [i \in DOMAIN sms |-> IF sms[i].to = u /\ ~sms[i].gone
                                             THEN [sms[i] EXCEPT !.read = TRUE] ELSE sms[i]]
db_user_clear_smw(u) == [smw EXCEPT ![u] = 0]

SmwOpen(s) ==
  /\ Command(s) /\ Goes(s, "smw") /\ sms' = db_smw_mark_read(Who[s])
  /\ UNCHANGED <<SmwRest, smw>>

db_smw_send(u, t) ==
  /\ sms' = Append(sms, [from |-> u, to |-> t, read |-> FALSE, gone |-> FALSE])
  /\ smw' = [smw EXCEPT ![t] = @ + 1, ![u] = 0]

SmwSend(s, t) ==
  /\ At(s, "smw") /\ Goes(s, "menu") /\ t \in accounts
  /\ IF Who[s] \in accounts /\ Len(sms) < MaxSms THEN db_smw_send(Who[s], t)
     ELSE smw' = db_user_clear_smw(Who[s]) /\ UNCHANGED sms
  /\ UNCHANGED <<SmwRest, work>>

(* Any number may be given: nothing asks whose message it is.              *)
db_smw_delete(i) == sms' = [sms EXCEPT ![i].gone = TRUE]

SmwDelete(s, i) ==
  /\ At(s, "smw") /\ Goes(s, "menu") /\ i \in DOMAIN sms
  /\ db_smw_delete(i) /\ smw' = db_user_clear_smw(Who[s])
  /\ UNCHANGED <<SmwRest, work>>

-----------------------------------------------------------------------------
(* QWK packets.                                                            *)

QwkRest == <<accounts, areas, areaIds, msgs, drafts, sms, smw, scan, seen, opened, echo, now>>

(* acs_read is empty and admits everybody: acs is not looked at.           *)
qwk_generate_packet(t) == UNION {db_messages_since(a, t) : a \in Ids}

QwkOpen(s) ==
  /\ Command(s)
  /\ sess' = [sess EXCEPT ![s].pc = "qwk", ![s].pack = qwk_generate_packet(sess[s].qwk)]
  /\ UNCHANGED <<QwkRest, last_qwk, got, twice>>

(* Mutant: the row keeps the old date, only the session knows the new one. *)
StampSession(u, t) == UNCHANGED last_qwk

db_user_set_last_qwk(u, t) == last_qwk' = IF u \in accounts THEN [last_qwk EXCEPT ![u] = t] ELSE last_qwk

(* The transfer ends: the date stamped is the time it ended.               *)
QwkDone(s) ==
  LET u == Who[s] IN
  /\ At(s, "qwk")
  /\ got' = [got EXCEPT ![u] = @ \cup sess[s].pack]
  /\ twice' = [twice EXCEPT ![u] = @ \cup (got[u] \cap sess[s].pack)]
  /\ db_user_set_last_qwk(u, now)
  /\ sess' = [sess EXCEPT ![s].pc = "menu", ![s].pack = {}, ![s].qwk = now]
  /\ UNCHANGED <<QwkRest, work>>

QwkFailed(s) ==
  /\ At(s, "qwk") /\ sess' = [sess EXCEPT ![s].pc = "menu", ![s].pack = {}]
  /\ UNCHANGED <<QwkRest, last_qwk, got, twice, work>>

(* A reply packet: every row has to_user 0 and reply_to 0, which the       *)
(* foreign keys refuse, so nothing is imported.                            *)
db_message_post_ex(a, u, to, r) == a \in Ids /\ u \in accounts /\ to \in accounts /\ r \in Msgs
qwk_import_rep(s, a) ==
  /\ Command(s) /\ a \in Ids /\ ~db_message_post_ex(a, Who[s], 0, 0)
  /\ UNCHANGED <<QwkRest, last_qwk, got, twice, sess>>

-----------------------------------------------------------------------------
(* The sysop: areas, packing.  Rows that are referred to stay.             *)

AdminRest == <<msgs, drafts, sms, smw, scan, last_qwk, got, twice, seen, echo, sess, now>>
Opened == opened' = [u \in Users |-> opened[u] \cup Readable(u, areas')]

AreaAdd(s, n, acs) ==
  /\ Command(s) /\ Who[s] \in Sysops
  /\ IF areas[n].id > 0 THEN areas' = [areas EXCEPT ![n].acs = acs] /\ UNCHANGED areaIds
     ELSE /\ areaIds < MaxAreas /\ areaIds' = areaIds + 1
          /\ areas' = [areas EXCEPT ![n] = [id |-> areaIds + 1, acs |-> acs]]
  /\ Opened /\ UNCHANGED <<AdminRest, accounts>>

AreaDelete(s, n) ==
  /\ Command(s) /\ Who[s] \in Sysops /\ areas[n].id > 0
  /\ areas' = IF db_messages_list(areas[n].id) = {} /\ areas[n].id \notin echo.hub \cup {echo.link}
              THEN [areas EXCEPT ![n] = [id |-> 0, acs |-> FALSE]] ELSE areas
  /\ UNCHANGED <<AdminRest, accounts, areaIds, opened>>

(* One statement for all flagged accounts: one that is referred to keeps   *)
(* them all.                                                               *)
cmd_user_pack(s) ==
  /\ Command(s) /\ Who[s] \in Sysops
  /\ accounts' = IF \E u \in Flagged : \/ \E m \in Msgs : msgs[m].from = u
                                       \/ \E i \in DOMAIN sms : u \in {sms[i].from, sms[i].to}
                                                                /\ ~sms[i].gone
                 THEN accounts ELSE accounts \ Flagged
  /\ UNCHANGED <<AdminRest, areas, areaIds, opened>>

cmd_message_pack(s) ==
  /\ Command(s) /\ Who[s] \in Sysops
  /\ UNCHANGED <<AdminRest, accounts, areas, areaIds, opened>>

Tick == now < MaxTime /\ now' = now + 1
        /\ UNCHANGED <<accounts, areas, areaIds, msgs, drafts, sms, smw, scan, last_qwk, got,
                       twice, seen, opened, echo, sess, work>>

MsgStep(s) ==
  \/ Login(s) \/ Logoff(s) \/ PostOpen(s) \/ PostSend(s) \/ ComposeEnd(s) \/ ComposeLost(s)
  \/ FseditOpen(s) \/ FseditPost(s) \/ EditSave(s) \/ SmwOpen(s) \/ QwkOpen(s) \/ QwkDone(s)
  \/ QwkFailed(s) \/ cmd_msg_continuous_read(s) \/ cmd_msg_search(s) \/ cmd_msg_new_scan(s)
  \/ cmd_msg_read_private(s) \/ cmd_msg_your_messages(s) \/ cmd_user_pack(s) \/ cmd_message_pack(s)
  \/ \E a \in 1..MaxAreas : \/ cmd_msg_area_change(s, a) \/ cmd_msg_toggle_scan_areas(s, a)
                            \/ qwk_import_rep(s, a)
  \/ \E m \in 1..MaxMsgs : \/ cmd_msg_read(s, m) \/ cmd_msg_thread_view(s, m)
                           \/ cmd_msg_jump_reply(s, m) \/ cmd_msg_your_scan(s, m)
                           \/ cmd_msg_list(s, m)
                           \/ ReplyOpen(s, m) \/ EditOpen(s, m)
  \/ \E t \in Users : EmailOpen(s, t) \/ SmwSend(s, t)
  \/ \E i \in 1..MaxSms : SmwDelete(s, i)
  \/ \E n \in AreaNames : AreaDelete(s, n) \/ \E acs \in BOOLEAN : AreaAdd(s, n, acs)
=============================================================================
