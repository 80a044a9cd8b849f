------------------------------ MODULE Networks ------------------------------
(***************************************************************************)
(* Mail that leaves the board, on top of Messages: the FidoNet addresses,  *)
(* the echolink and its queue, netmail and the exporter that writes packet *)
(* files (fido_netmail.c, mutineer-netmail-export), the QWK hubs, and the  *)
(* editors for them (session.c, fidoeditor and qwkneteditor).  The         *)
(* exporter is a process of its own: it may be killed between any two of   *)
(* its steps, and each of its writes to the database may fail.             *)
(***************************************************************************)
EXTENDS Messages

CONSTANTS MaxAkas, MaxNet, MaxCrashes      \* bounds

ASSUME NetworksAssumption == {MaxAkas, MaxNet, MaxCrashes} \subseteq Nat

VARIABLES
  akas,       \* table fido_akas: id -> "none", "aka" or "primary"
  akaIds,     \* number of ids given out
  by,         \* history: the session that made an address primary
  form,       \* what a sysop at the address editor has read
  netmail,    \* table fido_netmail, the id is the position
  packets,    \* table mail_packets: the files recorded
  out,        \* the outbound directory: files <<kind, id, time>>
  ex,         \* the exporter
  hub,        \* table qwk_hubs: is there a hub
  crashes

akavars == <<akas, akaIds, by, form>>
netvars == <<akavars, netmail, packets, out, ex, hub, crashes>>
vars == <<msgvars, netvars>>

Kinds == {"net", "echo"}
Files == Kinds \X (1..(MaxMsgs + MaxNet)) \X (0..MaxTime)
Resting == [pc |-> "idle", kind |-> "net", todo |-> {}, id |-> 0, at |-> 0]
(* The address written (0: a new one), its primary flag, and whether the   *)
(* other flags have been cleared.                                          *)
Form == [id : 0..MaxAkas, primary : BOOLEAN, cleared : BOOLEAN]
Blank == [id |-> 0, primary |-> FALSE, cleared |-> FALSE]
Nobody == "nobody"

Init ==
  /\ MsgInit
  /\ akas = [i \in 1..MaxAkas |-> "none"] /\ akaIds = 0
  /\ by = [i \in 1..MaxAkas |-> Nobody] /\ form = [s \in Sessions |-> Blank]
  /\ netmail = <<>> /\ packets = {} /\ out = {}
  /\ ex = Resting /\ hub = FALSE /\ crashes = 0

-----------------------------------------------------------------------------
(* The editors.  A sysop's command changes nothing of Messages but echo.   *)

Editor(s) ==
  /\ Command(s) /\ Who[s] \in Sysops
  /\ UNCHANGED <<accounts, areas, areaIds, msgs, drafts, sms, smw, scan, last_qwk, got, twice,
                 seen, opened, sess, now>>

(* A sysop at a prompt of the address editor.                              *)
Asks(s) == Command(s) /\ Who[s] \in Sysops /\ Goes(s, "aka")
AskRest == <<Unread, scan, seen>>

db_fido_aka_list == {i \in 1..MaxAkas : akas[i] # "none"}
db_fido_aka_get_primary == {i \in 1..MaxAkas : akas[i] = "primary"}

(* An address an echolink uses stays: the link uses the first one.         *)
db_fido_aka_delete(i) ==
  IF echo.link > 0 /\ \A j \in db_fido_aka_list : i <= j THEN akas
  ELSE [akas EXCEPT ![i] = "none"]

(* The list is read and shown; a new address becomes the primary one when  *)
(* the list was empty, whatever it is when the prompts are answered.       *)
AkaAdd(s) ==
  /\ Asks(s) /\ form' = [form EXCEPT ![s] = [Blank EXCEPT !.primary = db_fido_aka_list = {}]]
  /\ UNCHANGED <<AskRest, akas, akaIds, by, netmail, packets, out, ex, hub, crashes>>

(* The row is read before the prompts, its flag with it, and all of it is  *)
(* written back after them.                                                *)
AkaEdit(s, i) ==
  /\ Asks(s) /\ i \in db_fido_aka_list
  /\ form' = [form EXCEPT ![s] = [Blank EXCEPT !.id = i, !.primary = akas[i] = "primary"]]
  /\ UNCHANGED <<AskRest, akas, akaIds, by, netmail, packets, out, ex, hub, crashes>>

AkaPrimary(s, i) ==
  /\ Asks(s) /\ i \in db_fido_aka_list
  /\ form' = [form EXCEPT ![s] = [Blank EXCEPT !.id = i, !.primary = TRUE]]
  /\ UNCHANGED <<AskRest, akas, akaIds, by, netmail, packets, out, ex, hub, crashes>>

(* No address is given, or none that can be read.                          *)
AkaCancel(s) ==
  /\ At(s, "aka") /\ form[s].id = 0 /\ Goes(s, "menu") /\ form' = [form EXCEPT ![s] = Blank]
  /\ UNCHANGED <<AskRest, work, akas, akaIds, by, netmail, packets, out, ex, hub, crashes>>

(* The first statement of db_fido_aka_add and db_fido_aka_update: for an   *)
(* address that is to be primary all flags are cleared.                    *)
AkaClear(s) ==
  /\ At(s, "aka") /\ form[s].primary /\ Goes(s, "write")
  /\ akas' = [i \in 1..MaxAkas |-> IF akas[i] = "primary" THEN "aka" ELSE akas[i]]
  /\ by' = [i \in 1..MaxAkas |-> Nobody] /\ form' = [form EXCEPT ![s].cleared = TRUE]
  /\ UNCHANGED <<AskRest, work, akaIds, netmail, packets, out, ex, hub, crashes>>

(* It may be refused; nobody asks.                                         *)
AkaUnclear(s) ==
  /\ At(s, "aka") /\ form[s].primary /\ Goes(s, "write")
  /\ crashes < MaxCrashes /\ crashes' = crashes + 1
  /\ UNCHANGED <<AskRest, work, akavars, netmail, packets, out, ex, hub>>

(* The second statement.  A row that is gone stays gone; it may be refused,*)
(* as an address that is already there is by the UNIQUE constraint.        *)
Flag(p) == IF p THEN "primary" ELSE "aka"
Written(i, s) ==
  /\ akas' = [akas EXCEPT ![i] = Flag(form[s].primary)]
  /\ by' = [by EXCEPT ![i] = IF form[s].cleared THEN s ELSE Nobody]

db_fido_aka_add(s) ==
  form[s].id = 0 /\ akaIds < MaxAkas /\ akaIds' = akaIds + 1 /\ Written(akaIds + 1, s)

db_fido_aka_update(s) ==
  form[s].id \in db_fido_aka_list /\ Written(form[s].id, s) /\ UNCHANGED akaIds

AkaWrite(s) ==
  /\ At(s, "write") \/ (At(s, "aka") /\ ~form[s].primary)
  /\ Goes(s, "menu") /\ form' = [form EXCEPT ![s] = Blank]
  /\ db_fido_aka_add(s) \/ db_fido_aka_update(s) \/ UNCHANGED <<akas, akaIds, by>>
  /\ UNCHANGED <<AskRest, work, netmail, packets, out, ex, hub, crashes>>

AkaDelete(s, i) ==
  /\ Editor(s) /\ i \in db_fido_aka_list /\ akas' = db_fido_aka_delete(i)
  /\ UNCHANGED <<echo, akaIds, by, form, netmail, packets, out, ex, hub, crashes>>

db_fido_echolink_add(a) ==
  IF a \in Ids /\ echo.link = 0 /\ db_fido_aka_list # {} THEN [echo EXCEPT !.link = a] ELSE echo
(* The queue goes first, then the link.                                    *)
db_fido_echolink_delete == [echo EXCEPT !.link = 0, !.hw = 0, !.pending = {}, !.exported = {}]

EcholinkAdd(s, a) == Editor(s) /\ echo' = db_fido_echolink_add(a) /\ UNCHANGED netvars
EcholinkDelete(s) == Editor(s) /\ echo' = db_fido_echolink_delete /\ UNCHANGED netvars

db_fido_netmail_delete(i) == [netmail EXCEPT ![i] = "gone"]

NetmailDelete(s, i) ==
  /\ Editor(s) /\ i \in DOMAIN netmail /\ netmail' = db_fido_netmail_delete(i)
  /\ UNCHANGED <<echo, akavars, packets, out, ex, hub, crashes>>

(* The hub's links go first, then its packets, then the hub.               *)
db_qwk_hub_delete == [echo EXCEPT !.hub = {}]
db_qwk_area_link_add(a) ==
  IF hub /\ a \in Ids \ echo.hub THEN [echo EXCEPT !.hub = @ \cup {a}] ELSE echo
db_qwk_area_link_delete(a) == [echo EXCEPT !.hub = @ \ {a}]

HubAdd(s) ==
  /\ Editor(s) /\ hub' = TRUE
  /\ UNCHANGED <<echo, akavars, netmail, packets, out, ex, crashes>>

HubDelete(s) ==
  /\ Editor(s) /\ hub' = FALSE /\ echo' = db_qwk_hub_delete
  /\ UNCHANGED <<akavars, netmail, packets, out, ex, crashes>>

HubLink(s, a) == Editor(s) /\ echo' = db_qwk_area_link_add(a) /\ UNCHANGED netvars
HubUnlink(s, a) == Editor(s) /\ echo' = db_qwk_area_link_delete(a) /\ UNCHANGED netvars

-----------------------------------------------------------------------------
(* A caller writes netmail; the primary address is read before composing.  *)

NetmailOpen(s) ==
  /\ Command(s) /\ db_fido_aka_get_primary # {} /\ Goes(s, "net")
  /\ UNCHANGED <<Unread, scan, seen, netvars>>

db_fido_netmail_add == netmail' = IF Len(netmail) < MaxNet THEN Append(netmail, "pending") ELSE netmail

NetmailSend(s) ==
  /\ At(s, "net") /\ Goes(s, "menu") /\ db_fido_netmail_add
  /\ UNCHANGED <<Unread, scan, seen, work, akavars, packets, out, ex, hub, crashes>>

-----------------------------------------------------------------------------
(* The exporter.  It takes the list of what is pending once, then writes   *)
(* the file of each, records it (netmail only) and marks it.               *)

db_fido_netmail_list == {i \in DOMAIN netmail : netmail[i] = "pending"}
db_fido_echo_queue_pending == echo.pending

ExportStart(k) ==
  /\ ex.pc = "idle"
  /\ LET todo == IF k = "net" THEN db_fido_netmail_list ELSE db_fido_echo_queue_pending
     IN todo # {} /\ ex' = [Resting EXCEPT !.pc = "next", !.kind = k, !.todo = todo]
  /\ UNCHANGED <<msgvars, akavars, netmail, packets, out, hub, crashes>>

File == <<ex.kind, ex.id, ex.at>>

WriteFile(i) ==
  /\ ex.pc = "next" /\ i \in ex.todo
  /\ out' = out \cup {<<ex.kind, i, now>>}
  /\ ex' = [ex EXCEPT !.pc = IF ex.kind = "net" THEN "record" ELSE "mark", !.id = i, !.at = now,
                      !.todo = @ \ {i}]
  /\ UNCHANGED <<msgvars, akavars, netmail, packets, hub, crashes>>

db_mail_packet_add ==
  /\ ex.pc = "record" /\ packets' = packets \cup {File} /\ ex' = [ex EXCEPT !.pc = "mark"]
  /\ UNCHANGED <<msgvars, akavars, netmail, out, hub, crashes>>

(* The rows a deletion took away are not there to be marked.               *)
db_fido_netmail_mark_sent(i) ==
  netmail' = [netmail EXCEPT ![i] = IF @ = "pending" THEN "sent" ELSE @]
db_fido_echo_queue_mark_exported(i) ==
  echo' = IF i \in echo.pending
          THEN [echo EXCEPT !.pending = @ \ {i}, !.exported = @ \cup {i}] ELSE echo

NetMarked ==
  /\ ex.pc = "mark" /\ ex.kind = "net" /\ db_fido_netmail_mark_sent(ex.id)
  /\ ex' = [ex EXCEPT !.pc = "next", !.id = 0]
  /\ UNCHANGED <<msgvars, akavars, packets, out, hub, crashes>>

EchoRest == <<accounts, areas, areaIds, msgs, drafts, sms, smw, scan, last_qwk, got, twice, seen,
              opened, sess, now, work>>

EchoMarked ==
  /\ ex.pc = "mark" /\ ex.kind = "echo" /\ db_fido_echo_queue_mark_exported(ex.id)
  /\ ex' = [ex EXCEPT !.pc = "water"]
  /\ UNCHANGED <<EchoRest, akavars, netmail, packets, out, hub, crashes>>

db_fido_echolink_update_highwater ==
  /\ ex.pc = "water"
  /\ echo' = [echo EXCEPT !.hw = IF echo.link > 0 /\ ex.id > @ THEN ex.id ELSE @]
  /\ ex' = [ex EXCEPT !.pc = "next", !.id = 0]
  /\ UNCHANGED <<EchoRest, akavars, netmail, packets, out, hub, crashes>>

(* Mutant: a failed write leaves the row marked and removes the file.      *)
MarkedAnyway ==
  /\ ex.pc \in {"record", "mark"} /\ crashes < MaxCrashes /\ crashes' = crashes + 1
  /\ out' = out \ {File} /\ ex' = [ex EXCEPT !.pc = "next", !.id = 0]
  /\ IF ex.kind = "net" THEN db_fido_netmail_mark_sent(ex.id) /\ UNCHANGED echo
     ELSE db_fido_echo_queue_mark_exported(ex.id) /\ UNCHANGED netmail
  /\ UNCHANGED <<EchoRest, akavars, packets, hub>>

(* A write to the database fails: the file is removed, the row stays.      *)
WriteFails ==
  /\ ex.pc \in {"record", "mark"} /\ crashes < MaxCrashes /\ crashes' = crashes + 1
  /\ out' = out \ {File} /\ ex' = [ex EXCEPT !.pc = "next", !.id = 0]
  /\ UNCHANGED <<msgvars, akavars, netmail, packets, hub>>

ExportEnd ==
  /\ ex.pc = "next" /\ ex.todo = {} /\ ex' = Resting
  /\ UNCHANGED <<msgvars, akavars, netmail, packets, out, hub, crashes>>

Killed ==
  /\ ex.pc # "idle" /\ crashes < MaxCrashes /\ crashes' = crashes + 1 /\ ex' = Resting
  /\ UNCHANGED <<msgvars, akavars, netmail, packets, out, hub>>

-----------------------------------------------------------------------------
SysopStep(s) ==
  \/ AkaAdd(s) \/ AkaCancel(s) \/ AkaClear(s) \/ AkaUnclear(s) \/ AkaWrite(s)
  \/ EcholinkDelete(s) \/ HubAdd(s) \/ HubDelete(s)
  \/ \E i \in 1..MaxAkas : AkaEdit(s, i) \/ AkaPrimary(s, i) \/ AkaDelete(s, i)
  \/ \E i \in 1..MaxNet : NetmailDelete(s, i)
  \/ \E a \in 1..MaxAreas : EcholinkAdd(s, a) \/ HubLink(s, a) \/ HubUnlink(s, a)

Export ==
  \/ \E k \in Kinds : ExportStart(k)
  \/ \E i \in 1..(MaxMsgs + MaxNet) : WriteFile(i)
  \/ db_mail_packet_add \/ NetMarked \/ EchoMarked \/ db_fido_echolink_update_highwater
  \/ WriteFails \/ ExportEnd \/ Killed

Next ==
  \/ \E s \in Sessions : MsgStep(s) /\ UNCHANGED netvars
  \/ Tick /\ UNCHANGED netvars
  \/ \E s \in Sessions : SysopStep(s) \/ NetmailOpen(s) \/ NetmailSend(s)
  \/ Export

Spec == Init /\ [][Next]_vars

-----------------------------------------------------------------------------
(* Every variable has its type.                                            *)
TypeOK ==
  /\ accounts \subseteq Users /\ areas \in [AreaNames -> AreaRow] /\ areaIds \in 0..MaxAreas
  /\ Len(msgs) <= MaxMsgs /\ \A m \in Msgs : msgs[m] \in MsgRow
  /\ \A u \in Users : \A i \in DOMAIN drafts[u] : drafts[u][i] \in [area : 0..MaxAreas, to : Users]
  /\ \A i \in DOMAIN sms : sms[i] \in Sms
  /\ smw \in [Users -> 0..MaxSms] /\ last_qwk \in [Users -> 0..MaxTime]
  /\ echo \in Echo /\ sess \in [Sessions -> SessRow]
  /\ akas \in [1..MaxAkas -> {"none", "aka", "primary"}] /\ akaIds \in 0..MaxAkas
  /\ by \in [1..MaxAkas -> Sessions \cup {Nobody}] /\ form \in [Sessions -> Form]
  /\ \A i \in DOMAIN netmail : netmail[i] \in {"pending", "sent", "gone"}
  /\ packets \subseteq Files /\ out \subseteq Files
  /\ ex.pc \in {"idle", "next", "record", "mark", "water"} /\ hub \in BOOLEAN

(* A thread stays whole (db_message_post, db_message_reply_tree): whatever *)
(* answers a message lies in its area and in the thread of its root, even  *)
(* though area and message answered are read before the reply is composed  *)
(* and areas are deleted and made anew meanwhile, so that the thread view  *)
(* of the root shows every answer.                                         *)
ThreadWhole ==
  \A m \in Msgs : msgs[m].reply > 0 =>
    LET r == msgs[m].root IN
    /\ r \in 1..(m - 1) /\ msgs[r].root = 0 /\ msgs[r].area \in Ids
    /\ {m, msgs[m].reply} \subseteq db_message_reply_tree(msgs[m].area, r)

(* A message is in at most one of the packets an account has downloaded    *)
(* (db_messages_since, db_user_set_last_qwk), whatever is posted between   *)
(* building a packet and stamping the date, and across log-ins.            *)
QwkOnce == \A u \in Users : twice[u] = {}

(* Nothing is shown on the screen to an account from an area it never had  *)
(* access to (msg_area_can): neither a number typed at a prompt, nor a     *)
(* thread, nor a current area that was chosen before the area was closed   *)
(* or replaced.  What a QWK packet holds is PacketAllowed, below.          *)
SeenAllowed == \A u \in Users : \A m \in seen[u] : msgs[m].area \in opened[u]

(* No mail is lost on its way out (fido_netmail_export_pending,            *)
(* fido_echomail_export_pending): what is marked sent or exported is in a  *)
(* file of the outbound directory, wherever the exporter was killed or     *)
(* refused, and the echo queue holds messages of the linked area only.     *)
Exported ==
  /\ \A i \in DOMAIN netmail : netmail[i] = "sent" => \E f \in out : f[1] = "net" /\ f[2] = i
  /\ \A m \in echo.exported : \E f \in out : f[1] = "echo" /\ f[2] = m
  /\ \A m \in echo.pending \cup echo.exported : m \in Msgs /\ msgs[m].area = echo.link
  /\ echo.pending \cap echo.exported = {}

(* Every sysop leaves one primary address at most (db_fido_aka_add,        *)
(* db_fido_aka_update), whatever the list and the row read before the      *)
(* prompts have become, unless a statement of his that clears the flags    *)
(* was refused.  What the two statements of two sysops make of each other  *)
(* is OnePrimary.                                                          *)
PrimaryEach == \A i, j \in db_fido_aka_get_primary : by[i] = by[j] /\ by[i] # Nobody => i = j

(* A caller has one draft at most for each area (db_draft_save).           *)
OneDraft ==
  \A u \in Users : \A i, j \in DOMAIN drafts[u] : drafts[u][i].area = drafts[u][j].area => i = j

(* What holds of messages and networks in every state: nothing is shown on *)
(* the screen from an area that was never open to the caller, no mail is   *)
(* lost on its way out, every sysop leaves one primary address at most and *)
(* an area has one draft.                                                  *)
NetworksInv == TypeOK /\ SeenAllowed /\ Exported /\ PrimaryEach /\ OneDraft

(* Counterexamples.  Two sysops at the address editor: both clear the      *)
(* flags, then both write a primary address.                               *)
OnePrimary == Cardinality(db_fido_aka_get_primary) <= 1

(* A QWK packet holds messages of areas its account never had access to:   *)
(* qwk.c:223 tests acs_read, which is empty, and not acs.                  *)
PacketAllowed == \A u \in Users : \A m \in got[u] : msgs[m].area \in opened[u]

(* qwk.c: "Stamp last_qwk so next packet only includes new content": a     *)
(* message older than the stamp has been in one of the account's packets.  *)
QwkComplete == \A u \in Users : \A m \in Msgs : msgs[m].at < last_qwk[u] => m \in got[u]
=============================================================================
