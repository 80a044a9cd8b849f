--------------------------- MODULE NetworksProofs ---------------------------
(***************************************************************************)
(* Proofs about Networks and, through it, Messages: for every set of       *)
(* sessions, accounts and area names and every bound, threads stay whole,  *)
(* no message is in two of an account's packets, nothing is shown on the   *)
(* screen from an area that was never open, no mail is lost on its way     *)
(* out, and a sysop leaves one primary address at most.                    *)
(*                                                                         *)
(* None of this is inductive as it stands: a session keeps the number of a *)
(* message, an area, a date or a packet while it waits for its caller, and *)
(* the exporter keeps a list while the editors work.  Strong says what     *)
(* these copies are still worth when they are used.                        *)
(***************************************************************************)
EXTENDS Networks, SequenceTheorems, FiniteSetTheorems, TLAPS

-----------------------------------------------------------------------------
(* The inductive invariant, by the tables it is about.                     *)

(* The tables of accounts, areas and messages.                             *)
Board ==
  /\ accounts \subseteq Users
  /\ areas \in [AreaNames -> AreaRow] /\ areaIds \in 0..MaxAreas
  /\ msgs \in Seq(MsgRow) /\ Len(msgs) <= MaxMsgs
  /\ now \in 0..MaxTime /\ \A m \in Msgs : msgs[m].at <= now

(* A message starts a thread, or answers an earlier one of its area: the   *)
(* root of the thread, or one with the same root.                          *)
Roots(m) == msgs[m].reply = 0 /\ msgs[m].root = 0
Answers(m) ==
  LET r == msgs[m].root
      p == msgs[m].reply
  IN /\ r \in 1..(m - 1) /\ p \in 1..(m - 1)
     /\ msgs[r].root = 0 /\ msgs[r].area = msgs[m].area /\ msgs[p].area = msgs[m].area
     /\ p = r \/ msgs[p].root = r
Threads ==
  \A m \in Msgs : (Roots(m) \/ Answers(m)) /\ msgs[m].area \in Ids

(* What has been shown, and what might be.                                 *)
Reading ==
  /\ opened \in [Users -> SUBSET (1..MaxAreas)] /\ seen \in [Users -> SUBSET (1..MaxMsgs)]
  /\ \A u \in Users : Readable(u, areas) \subseteq opened[u]
  /\ \A u \in Users : \A m \in seen[u] : m \in Msgs /\ msgs[m].area \in opened[u]

(* What a session's copies are worth: the message answered is in the area  *)
(* that was read with it, what has been downloaded is not newer than the   *)
(* date the session knows, and the packet that waits is.                   *)
RowOK(s, r) ==
  /\ r \in SessRow
  /\ r.pc = "reply" => r.tgt \in Msgs /\ r.orig = msgs[r.tgt].area
  /\ r.pc = "edit" => r.tgt \in Msgs
  /\ r.pc # "off" => r.qwk <= now /\ \A m \in got[Who[s]] : msgs[m].at <= r.qwk
  /\ r.pc = "qwk" => \A m \in r.pack : m \in Msgs /\ msgs[m].at > r.qwk
Callers == sess \in [Sessions -> SessRow] /\ \A s \in Sessions : RowOK(s, sess[s])

(* The packets downloaded; the row of an account that is there knows the   *)
(* date of the last one.                                                   *)
Packed ==
  /\ got \in [Users -> SUBSET (1..MaxMsgs)] /\ last_qwk \in [Users -> 0..MaxTime]
  /\ twice \in [Users -> SUBSET (1..MaxMsgs)]
  /\ \A u \in Users : /\ twice[u] = {} /\ last_qwk[u] <= now
                      /\ \A m \in got[u] : m \in Msgs
                      /\ u \in accounts => \A m \in got[u] : msgs[m].at <= last_qwk[u]

(* Short messages: no more are announced than there are.                   *)
Notes ==
  /\ sms \in Seq(Sms) /\ Len(sms) <= MaxSms
  /\ smw \in [Users -> 0..MaxSms] /\ \A u \in Users : smw[u] <= Len(sms)

(* The drafts, one for each area.                                          *)
DraftRow == [area : 0..MaxAreas, to : Users]
Drafted == drafts \in [Users -> Seq(DraftRow)] /\ OneDraft

(* The echo queue.                                                         *)
Queue ==
  /\ echo \in Echo
  /\ \A m \in echo.pending \cup echo.exported : m \in Msgs /\ msgs[m].area = echo.link
  /\ echo.pending \cap echo.exported = {}

(* The addresses and the hub: a session that has cleared the flags has no  *)
(* primary address of its own.                                             *)
NoneBy(s) == s # Nobody => \A i \in 1..MaxAkas : by[i] = s => akas[i] # "primary"
Addresses ==
  /\ akas \in [1..MaxAkas -> {"none", "aka", "primary"}] /\ akaIds \in 0..MaxAkas
  /\ by \in [1..MaxAkas -> Sessions \cup {Nobody}] /\ form \in [Sessions -> Form]
  /\ PrimaryEach /\ \A s \in Sessions : form[s].cleared => NoneBy(s)
  /\ hub \in BOOLEAN

(* What is marked is in a file, and what the exporter is about to do, or   *)
(* to take back, is not marked.                                            *)
NetState == {"pending", "sent", "gone"}
ExRow == [pc : {"idle", "next", "record", "mark", "water"}, kind : Kinds,
          todo : SUBSET (1..(MaxMsgs + MaxNet)), id : 0..(MaxMsgs + MaxNet), at : 0..MaxTime]
Busy == IF ex.pc \in {"record", "mark"} THEN ex.todo \cup {ex.id} ELSE ex.todo
Outbound ==
  /\ netmail \in Seq(NetState) /\ Len(netmail) <= MaxNet
  /\ packets \subseteq Files /\ out \subseteq Files /\ ex \in ExRow
  /\ \A i \in DOMAIN netmail : netmail[i] = "sent" => \E f \in out : f[1] = "net" /\ f[2] = i
  /\ \A m \in echo.exported : \E f \in out : f[1] = "echo" /\ f[2] = m
  /\ ex.kind = "net" => ex.pc # "water" /\ \A i \in Busy : i \in DOMAIN netmail /\ netmail[i] # "sent"
  /\ ex.kind = "echo" => /\ ex.pc # "record" /\ ex.todo \subseteq 1..MaxMsgs /\ ex.id <= MaxMsgs
                         /\ Busy \cap echo.exported = {}
  /\ ex.pc \in {"record", "mark"} => ex.id \notin ex.todo /\ ex.id > 0 /\ File \in out
  /\ ex.pc = "water" => ex.id \notin ex.todo

Strong == /\ Board /\ Threads /\ Reading /\ Callers /\ Packed /\ Notes /\ Drafted
          /\ Queue /\ Addresses /\ Outbound

-----------------------------------------------------------------------------
(* What a step that does not write a table leaves true of it.              *)

(* Messages are never removed, nor do they move or change their date.      *)
Longer ==
  /\ Len(msgs) <= Len(msgs')
  /\ \A m \in Msgs : msgs'[m].area = msgs[m].area /\ msgs'[m].at = msgs[m].at

(* The table of messages as a function.                                    *)
LEMMA MsgsTyped ==
  ASSUME Board
  PROVE  /\ Len(msgs) \in Nat /\ DOMAIN msgs = Msgs
         /\ \A m \in Msgs : msgs[m] \in MsgRow /\ m \in 1..MaxMsgs
  <1>1. msgs \in Seq(MsgRow) /\ Len(msgs) <= MaxMsgs
    BY DEF Board
  <1>2. Len(msgs) \in Nat /\ DOMAIN msgs = Msgs
    BY <1>1, LenProperties DEF Msgs
  <1>3. \A m \in Msgs : msgs[m] \in MsgRow
    BY <1>1, ElementOfSeq DEF Msgs
  <1> QED  BY <1>1, <1>2, <1>3, MessagesAssumption DEF Msgs

(* A step that leaves the messages alone is such a step.                   *)
LEMMA LongerSame == ASSUME Board, UNCHANGED msgs PROVE Longer
  BY MsgsTyped DEF Longer, Msgs

LEMMA BoardKept ==
  ASSUME Board, UNCHANGED <<accounts, areas, areaIds, msgs, now>>
  PROVE  Board'
  BY DEF Board, Msgs

LEMMA ThreadsKept ==
  ASSUME Threads, UNCHANGED <<areas, msgs>>
  PROVE  Threads'
  BY DEF Threads, Roots, Answers, Msgs, Ids

LEMMA ReadingKept ==
  ASSUME Board, Reading, Longer, UNCHANGED <<areas, seen, opened>>
  PROVE  Reading'
  BY MsgsTyped DEF Reading, Longer, Msgs

LEMMA RowKept ==
  ASSUME Board, Packed, Longer, now' \in Nat, now <= now', NEW s \in Sessions, NEW r,
         RowOK(s, r), UNCHANGED got
  PROVE  RowOK(s, r)'
  <1>1. \A m \in Msgs : m \in Msgs' /\ msgs'[m].area = msgs[m].area /\ msgs'[m].at = msgs[m].at
    BY MsgsTyped DEF Longer, Msgs
  <1>2. r \in SessRow /\ r.qwk \in Nat /\ now \in Nat
    BY MessagesAssumption DEF RowOK, SessRow, Board
  <1>3. \A m \in got[Who[s]] : m \in Msgs
    BY MessagesAssumption DEF Packed
  <1> QED  BY <1>1, <1>2, <1>3 DEF RowOK

LEMMA CallersKept ==
  ASSUME Board, Packed, Callers, Longer, now' \in Nat, now <= now', UNCHANGED <<got, sess>>
  PROVE  Callers'
  <1>1. ASSUME NEW s \in Sessions PROVE RowOK(s, sess[s])'
    <2>1. PICK r : r = sess[s]
      OBVIOUS
    <2>2. RowOK(s, r)'
      BY <2>1, RowKept DEF Callers
    <2> QED  BY <2>1, <2>2
  <1> QED  BY <1>1 DEF Callers

LEMMA PackedKept ==
  ASSUME Board, Packed, Longer, now' \in Nat, now <= now', accounts' \subseteq accounts,
         UNCHANGED <<got, last_qwk, twice>>
  PROVE  Packed'
  <1>1. \A m \in Msgs : m \in Msgs' /\ msgs'[m].at = msgs[m].at
    BY MsgsTyped DEF Longer, Msgs
  <1>2. now \in Nat /\ \A u \in Users : last_qwk[u] \in Nat
    BY MessagesAssumption DEF Packed, Board
  <1> QED  BY <1>1, <1>2 DEF Packed

LEMMA NotesKept == ASSUME Notes, UNCHANGED <<sms, smw>> PROVE Notes'
  BY DEF Notes

LEMMA DraftedKept == ASSUME Drafted, UNCHANGED drafts PROVE Drafted'
  BY DEF Drafted, OneDraft

LEMMA QueueKept == ASSUME Board, Queue, Longer, UNCHANGED echo PROVE Queue'
  BY MsgsTyped DEF Queue, Longer, Msgs

LEMMA AddressesKept == ASSUME Addresses, UNCHANGED <<akavars, hub>> PROVE Addresses'
  BY DEF Addresses, PrimaryEach, db_fido_aka_get_primary, NoneBy, akavars

LEMMA OutboundKept ==
  ASSUME Outbound, UNCHANGED <<netmail, packets, out, ex>>, echo'.exported \subseteq echo.exported
  PROVE  Outbound'
  BY DEF Outbound, Busy, File

-----------------------------------------------------------------------------
(* Steps of a session that write its row, its drafts and short messages.   *)

(* The tables of a session's step that writes no others.                   *)
Others == <<accounts, areas, areaIds, msgs, last_qwk, got, twice, seen, opened, echo, now, netvars>>

(* One row of the sessions is written.                                     *)
LEMMA RowWritten ==
  ASSUME Board, Packed, Callers, Longer, now' \in Nat, now <= now', UNCHANGED got,
         NEW s \in Sessions, NEW r, RowOK(s, r)', sess' = [sess EXCEPT ![s] = r]
  PROVE  Callers'
  <1>1. r \in SessRow
    BY DEF RowOK
  <1>2. sess' \in [Sessions -> SessRow] /\ sess'[s] = r
    BY <1>1 DEF Callers
  <1>3. ASSUME NEW t \in Sessions PROVE RowOK(t, sess[t])'
    <2>1. CASE t = s
      <3>1. r = sess'[t] /\ RowOK(t, r)'
        BY <2>1, <1>2
      <3> QED  BY <3>1
    <2>2. CASE t # s
      <3>1. PICK q : q = sess[t]
        OBVIOUS
      <3>2. RowOK(t, q)'
        BY <3>1, RowKept DEF Callers
      <3>3. sess'[t] = q
        BY <3>1, <2>2 DEF Callers
      <3> QED  BY <3>2, <3>3
    <2> QED  BY <2>1, <2>2
  <1>4. \A t \in Sessions : RowOK(t, sess[t])'
    BY <1>3
  <1> QED  BY <1>2, <1>4 DEF Callers

LEMMA DeskStep ==
  ASSUME Strong, NEW s \in Sessions, NEW r, RowOK(s, r), sess' = [sess EXCEPT ![s] = r],
         Drafted', Notes', UNCHANGED Others
  PROVE  Strong'
  <1>1. Longer /\ now' \in Nat /\ now <= now'
    BY LongerSame, MessagesAssumption DEF Strong, Others, Board
  <1>2. Board' /\ Threads' /\ Reading' /\ Packed' /\ Queue'
    BY <1>1, BoardKept, ThreadsKept, ReadingKept, PackedKept, QueueKept DEF Strong, Others
  <1>3. Addresses' /\ Outbound'
    BY AddressesKept, OutboundKept DEF Strong, Others, netvars
  <1>4. RowOK(s, r)'
    BY <1>1, RowKept DEF Strong, Others
  <1>5. Callers'
    BY <1>1, <1>4, RowWritten DEF Strong, Others
  <1> QED  BY <1>2, <1>3, <1>5 DEF Strong

(* The same when the row, too, is left alone.                              *)
LEMMA DeskIdle ==
  ASSUME Strong, UNCHANGED <<Others, sess, drafts, sms, smw>>
  PROVE  Strong'
  <1>1. Longer /\ now' \in Nat /\ now <= now'
    BY LongerSame, MessagesAssumption DEF Strong, Others, Board
  <1>2. Board' /\ Threads' /\ Reading' /\ Packed' /\ Queue' /\ Callers'
    BY <1>1, BoardKept, ThreadsKept, ReadingKept, PackedKept, QueueKept, CallersKept
    DEF Strong, Others
  <1>3. Addresses' /\ Outbound'
    BY AddressesKept, OutboundKept DEF Strong, Others, netvars
  <1>4. Drafted' /\ Notes'
    BY DraftedKept, NotesKept DEF Strong
  <1> QED  BY <1>2, <1>3, <1>4 DEF Strong

(* A session that is on, with nothing but its date at stake.               *)
LEMMA RowFree ==
  ASSUME NEW s, NEW r, RowOK(s, r), r.pc # "off", NEW q \in SessRow, q.qwk = r.qwk,
         q.pc \notin {"reply", "edit", "qwk"}
  PROVE  RowOK(s, q)
  BY DEF RowOK

LEMMA RowOff == ASSUME NEW s \in Sessions PROVE RowOK(s, Off(s)) /\ Off(s) \in SessRow
  BY MessagesAssumption DEF RowOK, Off, SessRow

LEMMA StepFree ==
  ASSUME Strong, NEW s \in Sessions, sess[s].pc # "off", NEW r \in SessRow, r.qwk = sess[s].qwk,
         r.pc \notin {"reply", "edit", "qwk"}, sess' = [sess EXCEPT ![s] = r],
         Drafted', Notes', UNCHANGED Others
  PROVE  Strong'
  <1>1. RowOK(s, sess[s])
    BY DEF Strong, Callers
  <1>2. RowOK(s, r)
    BY <1>1, RowFree
  <1> QED  BY <1>2, DeskStep

(* Access as the step sees it is access the history knows.                 *)
LEMMA CanRead ==
  ASSUME Strong, NEW s \in Sessions, NEW a, msg_area_can(s, a)
  PROVE  a \in 1..MaxAreas /\ a \in opened[Who[s]] /\ a \in Ids
  <1>1. PICK n \in AreaNames : areas[n].id = a /\ a # 0
    BY DEF msg_area_can, Ids
  <1>2. Named(a) \in AreaNames /\ areas[Named(a)].id = a
    BY <1>1 DEF Named
  <1>3. a \in 1..MaxAreas
    BY <1>1, MessagesAssumption DEF Strong, Board, AreaRow
  <1>4. a \in Readable(Who[s], areas)
    BY <1>2, <1>3 DEF msg_area_can, Allows, Readable
  <1>5. Who[s] \in Users
    BY MessagesAssumption
  <1> QED  BY <1>3, <1>4, <1>5 DEF Strong, Reading, msg_area_can

LEMMA LogoffStrong == ASSUME Strong, NEW s \in Sessions, Logoff(s), UNCHANGED netvars PROVE Strong'
  <1>1. RowOK(s, Off(s)) /\ sess' = [sess EXCEPT ![s] = Off(s)] /\ UNCHANGED Others
    BY RowOff DEF Logoff, Unread, Others
  <1>2. Drafted' /\ Notes'
    BY DraftedKept, NotesKept DEF Strong, Logoff, Unread
  <1> QED  BY <1>1, <1>2, DeskStep

LEMMA AreaChangeStrong ==
  ASSUME Strong, NEW s \in Sessions, NEW a, cmd_msg_area_change(s, a), UNCHANGED netvars
  PROVE  Strong'
  <1> DEFINE r == [sess[s] EXCEPT !.area = a]
  <1>1. a \in 1..MaxAreas
    BY CanRead DEF cmd_msg_area_change
  <1>2. sess \in [Sessions -> SessRow] /\ sess[s].pc = "menu"
    BY DEF Strong, Callers, cmd_msg_area_change, Command, At
  <1>3. r \in SessRow /\ r.qwk = sess[s].qwk /\ r.pc = "menu"
    BY <1>1, <1>2, MessagesAssumption DEF SessRow
  <1>4. sess' = [sess EXCEPT ![s] = r]
    BY <1>2 DEF cmd_msg_area_change
  <1>5. UNCHANGED Others /\ Drafted' /\ Notes'
    BY DraftedKept, NotesKept DEF Strong, cmd_msg_area_change, Unread, Others
  <1> HIDE DEF r
  <1> QED  BY <1>2, <1>3, <1>4, <1>5, StepFree

LEMMA ReplyOpenStrong ==
  ASSUME Strong, NEW s \in Sessions, NEW m, ReplyOpen(s, m), UNCHANGED netvars
  PROVE  Strong'
  <1> DEFINE r == [sess[s] EXCEPT !.pc = "reply", !.tgt = m, !.orig = msgs[m].area]
  <1>1. m \in Msgs /\ msgs[m].area \in 0..MaxAreas /\ m \in 0..MaxMsgs
    BY CanRead, MsgsTyped, MessagesAssumption DEF ReplyOpen, msg_can_read, Strong
  <1>2. sess \in [Sessions -> SessRow] /\ sess[s].pc = "menu" /\ RowOK(s, sess[s])
    BY DEF Strong, Callers, ReplyOpen, Command, At
  <1>3. r \in SessRow /\ r.qwk = sess[s].qwk /\ r.pc = "reply" /\ r.tgt = m /\ r.orig = msgs[m].area
    <2>1. sess[s] \in SessRow
      BY <1>2
    <2>2. r \in SessRow
      BY <1>1, <2>1 DEF SessRow
    <2> QED  BY <2>1, <2>2 DEF SessRow
  <1>4. sess' = [sess EXCEPT ![s] = r]
    BY <1>2 DEF ReplyOpen
  <1>5. UNCHANGED Others /\ Drafted' /\ Notes'
    BY DraftedKept, NotesKept DEF Strong, ReplyOpen, PostRest, Others
  <1> HIDE DEF r
  <1>6. RowOK(s, r)
    BY <1>1, <1>2, <1>3 DEF RowOK
  <1> QED  BY <1>4, <1>5, <1>6, DeskStep

-----------------------------------------------------------------------------
(* Drafts.                                                                 *)

(* No two drafts of a list are for one area.                               *)
Apart(q) == \A i, j \in 1..Len(q) : q[i].area = q[j].area => i = j

LEMMA DraftedLists ==
  Drafted <=> drafts \in [Users -> Seq(DraftRow)] /\ \A u \in Users : Apart(drafts[u])
  <1>1. ASSUME NEW u \in Users, drafts \in [Users -> Seq(DraftRow)]
        PROVE  DOMAIN drafts[u] = 1..Len(drafts[u])
    BY <1>1, LenProperties
  <1> QED  BY <1>1 DEF Drafted, OneDraft, Apart

(* Two parts of a list, the draft at i left out between them.              *)
Parts(q, i, x, y) ==
  /\ Len(x) = i - 1 /\ \A k \in 1..(i - 1) : x[k] = q[k]
  /\ Len(y) = Len(q) - i /\ \A k \in 1..(Len(q) - i) : y[k] = q[i + k]

LEMMA Glued ==
  ASSUME NEW q \in Seq(DraftRow), Apart(q), NEW i \in 1..Len(q),
         NEW x \in Seq(DraftRow), NEW y \in Seq(DraftRow), Parts(q, i, x, y)
  PROVE  /\ x \o y \in Seq(DraftRow) /\ Apart(x \o y)
         /\ \A k \in 1..Len(x \o y) : (x \o y)[k].area # q[i].area
  <1>1. PICK n \in Nat : n = Len(q) /\ i \in 1..n /\ Len(x) = i - 1 /\ Len(y) = n - i
    BY LenProperties DEF Parts
  <1>2. PICK z : z = x \o y
    OBVIOUS
  <1>3. /\ z \in Seq(DraftRow) /\ Len(z) = Len(x) + Len(y)
        /\ \A k \in 1..(Len(x) + Len(y)) : z[k] = IF k <= Len(x) THEN x[k] ELSE y[k - Len(x)]
    BY <1>2, ConcatProperties
  <1>4. Len(z) = n - 1
    BY <1>1, <1>3
  <1>5. ASSUME NEW k \in 1..(n - 1)
        PROVE  (k < i /\ z[k] = q[k]) \/ (k >= i /\ z[k] = q[k + 1])
    <2>1. CASE k <= i - 1
      <3>1. k \in 1..(Len(x) + Len(y)) /\ k <= Len(x) /\ k \in 1..(i - 1)
        BY <2>1, <1>1
      <3>2. z[k] = x[k] /\ x[k] = q[k]
        BY <3>1, <1>3 DEF Parts
      <3>3. k < i
        BY <2>1, <1>1
      <3> QED  BY <3>2, <3>3
    <2>2. CASE ~(k <= i - 1)
      <3>1. k - (i - 1) \in 1..(n - i) /\ i + (k - (i - 1)) = k + 1
        BY <2>2, <1>1
      <3>4. k \in 1..(Len(x) + Len(y)) /\ ~(k <= Len(x)) /\ k - Len(x) = k - (i - 1)
        BY <2>2, <1>1
      <3>2. z[k] = y[k - (i - 1)]
        BY <3>4, <1>3
      <3>3. y[k - (i - 1)] = q[i + (k - (i - 1))]
        BY <3>1, <1>1 DEF Parts
      <3> QED  BY <2>2, <1>1, <3>1, <3>2, <3>3
    <2> QED  BY <2>1, <2>2, <1>1
  <1>6. \A k, l \in 1..n : q[k].area = q[l].area => k = l
    BY <1>1 DEF Apart
  <1>7. \A k, l \in 1..(n - 1) : z[k].area = z[l].area => k = l
    <2>1. SUFFICES ASSUME NEW k \in 1..(n - 1), NEW l \in 1..(n - 1), z[k].area = z[l].area
                   PROVE  k = l
      OBVIOUS
    <2>2. \A d \in 1..(n - 1) : d \in 1..n /\ d + 1 \in 1..n
      BY <1>1
    <2> QED  BY <1>1, <1>5, <1>6, <2>1, <2>2
  <1>8. \A k \in 1..(n - 1) : z[k].area # q[i].area
    <2>1. SUFFICES ASSUME NEW k \in 1..(n - 1) PROVE z[k].area # q[i].area
      OBVIOUS
    <2>2. k \in 1..n /\ k + 1 \in 1..n /\ i \in 1..n
      BY <1>1
    <2>3. CASE k < i /\ z[k] = q[k]
      BY <1>6, <2>2, <2>3
    <2>4. CASE k >= i /\ z[k] = q[k + 1]
      BY <1>6, <2>2, <2>4
    <2> QED  BY <1>5, <2>3, <2>4
  <1> QED  BY <1>2, <1>3, <1>4, <1>7, <1>8 DEF Apart

(* What comes before i, followed by what comes after it.                   *)
LEMMA CutOne ==
  ASSUME NEW q \in Seq(DraftRow), Apart(q), NEW i \in 1..Len(q)
  PROVE  LET z == SubSeq(q, 1, i - 1) \o SubSeq(q, i + 1, Len(q))
         IN  z \in Seq(DraftRow) /\ Apart(z) /\ \A k \in 1..Len(z) : z[k].area # q[i].area
  <1>0. Len(q) \in Nat /\ \A k \in 1..Len(q) : q[k] \in DraftRow
    BY LenProperties, ElementOfSeq
  <1>1. PICK x : x = SubSeq(q, 1, i - 1)
    OBVIOUS
  <1>2. PICK y : y = SubSeq(q, i + 1, Len(q))
    OBVIOUS
  <1>3. x \in Seq(DraftRow) /\ Len(x) = i - 1 /\ \A k \in 1..(i - 1) : x[k] = q[k]
    BY <1>0, <1>1, SubSeqProperties
  <1>4. /\ y \in Seq(DraftRow) /\ Len(y) = Len(q) - i
        /\ \A k \in 1..(Len(q) - i) : y[k] = q[i + k]
    BY <1>0, <1>2, SubSeqProperties
  <1>5. /\ x \o y \in Seq(DraftRow) /\ Apart(x \o y)
        /\ \A k \in 1..Len(x \o y) : (x \o y)[k].area # q[i].area
    <2>1. Parts(q, i, x, y)
      BY <1>3, <1>4 DEF Parts
    <2> QED  BY <1>3, <1>4, <2>1, Glued
  <1> QED  BY <1>1, <1>2, <1>5

(* db_draft_save leaves one draft for the area.                            *)
LEMMA SavedApart ==
  ASSUME NEW q \in Seq(DraftRow), Apart(q), NEW a \in 0..MaxAreas, NEW t \in Users
  PROVE  LET z == Append(Undrafted(q, a), [area |-> a, to |-> t])
         IN  z \in Seq(DraftRow) /\ Apart(z)
  <1> DEFINE w == Undrafted(q, a)
             d == [area |-> a, to |-> t]
             z == Append(w, d)
  <1>0. DOMAIN q = 1..Len(q) /\ Len(q) \in Nat
    BY LenProperties
  <1>1. w \in Seq(DraftRow) /\ Apart(w) /\ \A k \in 1..Len(w) : w[k].area # a
    <2>1. CASE \A i \in DOMAIN q : q[i].area # a
      BY <2>1, <1>0 DEF Undrafted
    <2>2. CASE ~ \A i \in DOMAIN q : q[i].area # a
      <3> DEFINE i == CHOOSE i \in DOMAIN q : q[i].area = a
      <3>1. i \in 1..Len(q) /\ q[i].area = a
        BY <2>2, <1>0
      <3>2. w = SubSeq(q, 1, i - 1) \o SubSeq(q, i + 1, Len(q))
        BY <2>2 DEF Undrafted
      <3>3. LET v == SubSeq(q, 1, i - 1) \o SubSeq(q, i + 1, Len(q))
            IN  v \in Seq(DraftRow) /\ Apart(v) /\ \A k \in 1..Len(v) : v[k].area # q[i].area
        BY <3>1, CutOne
      <3> HIDE DEF i, w
      <3> QED  BY <3>1, <3>2, <3>3
    <2> QED  BY <2>1, <2>2
  <1>2. d \in DraftRow /\ d.area = a
    BY DEF DraftRow
  <1> HIDE DEF w, d
  <1>3. /\ z \in Seq(DraftRow) /\ Len(z) = Len(w) + 1 /\ Len(w) \in Nat
        /\ \A k \in 1..Len(w) : z[k] = w[k]
        /\ z[Len(w) + 1] = d
    BY <1>1, <1>2, AppendProperties, LenProperties
  <1> HIDE DEF z
  <1>4. Apart(z)
    BY <1>1, <1>2, <1>3 DEF Apart
  <1>5. z = Append(Undrafted(q, a), [area |-> a, to |-> t])
    BY DEF z, w, d
  <1> QED  BY <1>3, <1>4, <1>5

LEMMA SaveDrafted ==
  ASSUME Drafted, NEW u \in Users, NEW a \in 0..MaxAreas, NEW t \in Users, db_draft_save(u, a, t)
  PROVE  Drafted'
  <1>1. PICK z : /\ z = Append(Undrafted(drafts[u], a), [area |-> a, to |-> t])
                 /\ z \in Seq(DraftRow) /\ Apart(z)
    BY SavedApart, DraftedLists
  <1>2. drafts' = [drafts EXCEPT ![u] = z]
    BY <1>1 DEF db_draft_save
  <1>3. drafts' \in [Users -> Seq(DraftRow)] /\ \A v \in Users : Apart(drafts'[v])
    BY <1>1, <1>2, DraftedLists
  <1>4. OneDraft'
    <2>1. ASSUME NEW v \in Users PROVE DOMAIN drafts'[v] = 1..Len(drafts'[v])
      BY <1>3, LenProperties
    <2> QED  BY <1>3, <2>1 DEF OneDraft, Apart
  <1> QED  BY <1>3, <1>4 DEF Drafted

LEMMA ResumeDrafted ==
  ASSUME Drafted, NEW u \in Users, NEW a, NEW t, Resume(u, a, t)
  PROVE  Drafted'
  <1>1. CASE UNCHANGED drafts
    BY <1>1, DraftedKept
  <1>2. CASE Offered(u, a, t) /\ drafts' = db_draft_delete(u)
    <2>1. PICK q \in Seq(DraftRow) : q = drafts[u] /\ q # <<>> /\ Apart(q)
      BY <1>2, DraftedLists DEF Offered
    <2>2. Len(q) \in Nat /\ Len(q) > 0
      BY <2>1, LenProperties, EmptySeq
    <2>3. PICK z : z = SubSeq(q, 1, Len(q) - 1)
      OBVIOUS
    <2>4. z \in Seq(DraftRow) /\ Len(z) = Len(q) - 1 /\ \A k \in 1..(Len(q) - 1) : z[k] = q[k]
      <3>1. 1 \in 1..(Len(q) + 1) /\ Len(q) - 1 \in (1 - 1)..Len(q)
        BY <2>2
      <3>2. /\ z \in Seq(DraftRow) /\ Len(z) = (Len(q) - 1) - 1 + 1
            /\ \A k \in 1..((Len(q) - 1) - 1 + 1) : z[k] = q[1 + k - 1]
        BY <3>1, <2>1, <2>2, <2>3, SubSeqProperties, ElementOfSeq
      <3> QED  BY <3>2, <2>2
    <2>5. Apart(z)
      <3> SUFFICES ASSUME NEW i \in 1..Len(z), NEW j \in 1..Len(z), z[i].area = z[j].area
                   PROVE  i = j
        BY DEF Apart
      <3>1. i \in 1..(Len(q) - 1) /\ j \in 1..(Len(q) - 1)
        BY <2>4
      <3>2. i \in 1..Len(q) /\ j \in 1..Len(q)
        BY <2>2, <3>1
      <3>3. z[i] = q[i] /\ z[j] = q[j]
        BY <2>4, <3>1
      <3> QED  BY <2>1, <3>2, <3>3 DEF Apart
    <2>6. drafts' = [drafts EXCEPT ![u] = z]
      BY <1>2, <2>1, <2>3 DEF db_draft_delete
    <2>7. drafts' \in [Users -> Seq(DraftRow)] /\ \A v \in Users : Apart(drafts'[v])
      BY <2>4, <2>5, <2>6, DraftedLists
    <2>8. ASSUME NEW v \in Users PROVE DOMAIN drafts'[v] = 1..Len(drafts'[v])
      BY <2>7, LenProperties
    <2> QED  BY <2>7, <2>8 DEF Drafted, OneDraft, Apart
  <1> QED  BY <1>1, <1>2 DEF Resume

-----------------------------------------------------------------------------
(* The remaining steps of this kind.                                       *)

LEMMA PostOpenStrong ==
  ASSUME Strong, NEW s \in Sessions, PostOpen(s), UNCHANGED netvars PROVE Strong'
  <1> DEFINE r == [sess[s] EXCEPT !.pc = "post"]
  <1>1. sess \in [Sessions -> SessRow] /\ sess[s].pc = "menu"
    BY DEF Strong, Callers, PostOpen, Command, At
  <1>2. r \in SessRow /\ r.qwk = sess[s].qwk /\ r.pc = "post"
    BY <1>1 DEF SessRow
  <1>3. sess' = [sess EXCEPT ![s] = r]
    BY <1>1 DEF PostOpen, Goes
  <1>4. UNCHANGED Others /\ Notes'
    BY NotesKept DEF Strong, PostOpen, PostRest, Others
  <1>5. Drafted'
    BY ResumeDrafted, MessagesAssumption DEF Strong, PostOpen
  <1> HIDE DEF r
  <1> QED  BY <1>1, <1>2, <1>3, <1>4, <1>5, StepFree

LEMMA EmailOpenStrong ==
  ASSUME Strong, NEW s \in Sessions, NEW t \in Users, EmailOpen(s, t), UNCHANGED netvars
  PROVE  Strong'
  <1> DEFINE r == [sess[s] EXCEPT !.pc = "email", !.to = t]
  <1>1. sess \in [Sessions -> SessRow] /\ sess[s].pc = "menu"
    BY DEF Strong, Callers, EmailOpen, Command, At
  <1>2. r \in SessRow /\ r.qwk = sess[s].qwk /\ r.pc = "email"
    BY <1>1 DEF SessRow
  <1>3. sess' = [sess EXCEPT ![s] = r]
    BY <1>1 DEF EmailOpen
  <1>4. UNCHANGED Others /\ Notes'
    BY NotesKept DEF Strong, EmailOpen, PostRest, Others
  <1>5. Drafted'
    BY ResumeDrafted, MessagesAssumption DEF Strong, EmailOpen
  <1> HIDE DEF r
  <1> QED  BY <1>1, <1>2, <1>3, <1>4, <1>5, StepFree

LEMMA ComposeEndStrong ==
  ASSUME Strong, NEW s \in Sessions, ComposeEnd(s), UNCHANGED netvars PROVE Strong'
  <1> DEFINE r == [sess[s] EXCEPT !.pc = "menu", !.tgt = 0, !.orig = 0, !.to = Who[s]]
  <1>1. sess \in [Sessions -> SessRow] /\ sess[s].pc # "off"
    BY DEF Strong, Callers, ComposeEnd, At
  <1>0. 0 \in 0..MaxMsgs /\ 0 \in 0..MaxAreas /\ Who[s] \in Users
    BY MessagesAssumption
  <1>2. r \in SessRow /\ r.qwk = sess[s].qwk /\ r.pc = "menu"
    BY <1>0, <1>1 DEF SessRow
  <1>3. sess' = [sess EXCEPT ![s] = r]
    BY <1>1 DEF ComposeEnd
  <1>4. UNCHANGED Others /\ Notes' /\ Drafted'
    BY NotesKept, DraftedKept DEF Strong, ComposeEnd, PostRest, Others
  <1> HIDE DEF r
  <1> QED  BY <1>1, <1>2, <1>3, <1>4, StepFree

LEMMA ComposeLostStrong ==
  ASSUME Strong, NEW s \in Sessions, ComposeLost(s), UNCHANGED netvars PROVE Strong'
  <1>1. RowOK(s, Off(s)) /\ sess' = [sess EXCEPT ![s] = Off(s)] /\ UNCHANGED Others
    BY RowOff DEF ComposeLost, PostRest, Others
  <1>2. Notes'
    BY NotesKept DEF Strong, ComposeLost, PostRest
  <1>3. /\ sess[s].area \in 0..MaxAreas /\ sess[s].orig \in 0..MaxAreas /\ sess[s].to \in Users
        /\ 0 \in 0..MaxAreas /\ Who[s] \in Users
    <2>1. sess[s] \in SessRow
      BY DEF Strong, Callers
    <2> QED  BY <2>1, MessagesAssumption DEF SessRow
  <1>4. Drafted'
    <2>1. CASE At(s, "post")
      BY <2>1, <1>3, SaveDrafted DEF ComposeLost, Strong
    <2>2. CASE At(s, "reply")
      BY <2>2, <1>3, SaveDrafted DEF ComposeLost, Strong, At
    <2>3. CASE ~At(s, "post") /\ ~At(s, "reply")
      BY <2>3, <1>3, SaveDrafted DEF ComposeLost, Strong
    <2> QED  BY <2>1, <2>2, <2>3
  <1> QED  BY <1>1, <1>2, <1>4, DeskStep

LEMMA FseditOpenStrong ==
  ASSUME Strong, NEW s \in Sessions, FseditOpen(s), UNCHANGED netvars PROVE Strong'
  <1> DEFINE r == [sess[s] EXCEPT !.pc = "fsedit"]
  <1>1. sess \in [Sessions -> SessRow] /\ sess[s].pc = "menu"
    BY DEF Strong, Callers, FseditOpen, Command, At
  <1>2. r \in SessRow /\ r.qwk = sess[s].qwk /\ r.pc = "fsedit"
    BY <1>1 DEF SessRow
  <1>3. sess' = [sess EXCEPT ![s] = r]
    BY <1>1 DEF FseditOpen, Goes
  <1>4. UNCHANGED Others /\ Notes' /\ Drafted'
    BY NotesKept, DraftedKept DEF Strong, FseditOpen, PostRest, Others
  <1> HIDE DEF r
  <1> QED  BY <1>1, <1>2, <1>3, <1>4, StepFree

LEMMA EditOpenStrong ==
  ASSUME Strong, NEW s \in Sessions, NEW m, EditOpen(s, m), UNCHANGED netvars PROVE Strong'
  <1> DEFINE r == [sess[s] EXCEPT !.pc = "edit", !.tgt = m]
  <1>1. m \in Msgs /\ m \in 0..MaxMsgs
    BY MsgsTyped, MessagesAssumption DEF EditOpen, msg_can_read, Strong
  <1>2. sess \in [Sessions -> SessRow] /\ sess[s].pc = "menu" /\ RowOK(s, sess[s])
    BY DEF Strong, Callers, EditOpen, Command, At
  <1>3. r \in SessRow /\ r.qwk = sess[s].qwk /\ r.pc = "edit" /\ r.tgt = m
    BY <1>1, <1>2 DEF SessRow
  <1>4. sess' = [sess EXCEPT ![s] = r]
    BY <1>2 DEF EditOpen
  <1>5. UNCHANGED Others /\ Drafted' /\ Notes'
    BY DraftedKept, NotesKept DEF Strong, EditOpen, PostRest, Others
  <1> HIDE DEF r
  <1>6. RowOK(s, r)
    BY <1>1, <1>2, <1>3 DEF RowOK
  <1> QED  BY <1>4, <1>5, <1>6, DeskStep

LEMMA ToggleStrong ==
  ASSUME Strong, NEW s \in Sessions, NEW a, cmd_msg_toggle_scan_areas(s, a), UNCHANGED netvars
  PROVE  Strong'
  BY DeskIdle DEF cmd_msg_toggle_scan_areas, Unread, Others

LEMMA ImportStrong ==
  ASSUME Strong, NEW s \in Sessions, NEW a, qwk_import_rep(s, a), UNCHANGED netvars
  PROVE  Strong'
  BY DeskIdle DEF qwk_import_rep, QwkRest, Others

LEMMA MessagePackStrong ==
  ASSUME Strong, NEW s \in Sessions, cmd_message_pack(s), UNCHANGED netvars PROVE Strong'
  BY DeskIdle DEF cmd_message_pack, AdminRest, Others

LEMMA NetmailOpenStrong ==
  ASSUME Strong, NEW s \in Sessions, NetmailOpen(s) PROVE Strong'
  <1> DEFINE r == [sess[s] EXCEPT !.pc = "net"]
  <1>1. sess \in [Sessions -> SessRow] /\ sess[s].pc = "menu"
    BY DEF Strong, Callers, NetmailOpen, Command, At
  <1>2. r \in SessRow /\ r.qwk = sess[s].qwk /\ r.pc = "net"
    BY <1>1 DEF SessRow
  <1>3. sess' = [sess EXCEPT ![s] = r]
    BY <1>1 DEF NetmailOpen, Goes
  <1>4. UNCHANGED Others /\ Notes' /\ Drafted'
    BY NotesKept, DraftedKept DEF Strong, NetmailOpen, Unread, Others
  <1> HIDE DEF r
  <1> QED  BY <1>1, <1>2, <1>3, <1>4, StepFree

-----------------------------------------------------------------------------
(* Short messages.                                                         *)

(* What is announced goes with what is there.                              *)
LEMMA NotesMade ==
  ASSUME Notes, sms' \in Seq(Sms), Len(sms') \in Len(sms)..MaxSms,
         \A u \in Users : smw'[u] \in 0..Len(sms'), smw' \in [Users -> Nat]
  PROVE  Notes'
  <1>1. Len(sms) \in Nat /\ Len(sms') \in Nat
    BY LenProperties DEF Notes
  <1> QED  BY <1>1, MessagesAssumption DEF Notes

LEMMA NotesCleared ==
  ASSUME Notes, NEW u \in Users, smw' = [smw EXCEPT ![u] = 0], sms' \in Seq(Sms),
         Len(sms') = Len(sms)
  PROVE  Notes'
  <1>1. Len(sms) \in Nat /\ Len(sms) <= MaxSms /\ smw \in [Users -> 0..MaxSms]
    BY LenProperties DEF Notes
  <1>2. \A v \in Users : smw'[v] \in 0..Len(sms')
    BY <1>1 DEF Notes
  <1>3. smw' \in [Users -> Nat] /\ Len(sms') \in Len(sms)..MaxSms
    BY <1>1, MessagesAssumption
  <1> QED  BY <1>2, <1>3, NotesMade

LEMMA LoginStrong ==
  ASSUME Strong, NEW s \in Sessions, Login(s), UNCHANGED netvars PROVE Strong'
  <1> DEFINE u == Who[s]
             r == [Off(s) EXCEPT !.pc = "menu", !.qwk = last_qwk[u]]
  <1>1. u \in Users /\ u \in accounts
    BY MessagesAssumption DEF Login
  <1>2. /\ last_qwk[u] \in 0..MaxTime /\ last_qwk[u] <= now
        /\ \A m \in got[u] : msgs[m].at <= last_qwk[u]
    BY <1>1 DEF Strong, Packed
  <1>3. r \in SessRow /\ r.qwk = last_qwk[u] /\ r.pc = "menu"
    BY RowOff, <1>2 DEF SessRow
  <1>4. sess' = [sess EXCEPT ![s] = r] /\ UNCHANGED Others
    BY DEF Login, Others
  <1> HIDE DEF r
  <1>5. RowOK(s, r)
    BY <1>2, <1>3 DEF RowOK
  <1>6. Drafted' /\ UNCHANGED sms
    BY DraftedKept DEF Login, Strong
  <1>7. Notes'
    BY <1>1, <1>6, NotesCleared DEF Login, Strong, Notes
  <1> QED  BY <1>4, <1>5, <1>6, <1>7, DeskStep

LEMMA SmwOpenStrong ==
  ASSUME Strong, NEW s \in Sessions, SmwOpen(s), UNCHANGED netvars PROVE Strong'
  <1> DEFINE r == [sess[s] EXCEPT !.pc = "smw"]
             z == db_smw_mark_read(Who[s])
  <1>1. sess \in [Sessions -> SessRow] /\ sess[s].pc = "menu"
    BY DEF Strong, Callers, SmwOpen, Command, At
  <1>2. r \in SessRow /\ r.qwk = sess[s].qwk /\ r.pc = "smw"
    BY <1>1 DEF SessRow
  <1>3. sess' = [sess EXCEPT ![s] = r]
    BY <1>1 DEF SmwOpen, Goes
  <1>4. UNCHANGED Others /\ Drafted' /\ UNCHANGED smw /\ sms' = z
    BY DraftedKept DEF Strong, SmwOpen, SmwRest, Others
  <1>5. sms \in Seq(Sms) /\ DOMAIN sms = 1..Len(sms) /\ Len(sms) \in Nat
    BY LenProperties DEF Strong, Notes
  <1>6. z \in Seq(Sms) /\ Len(z) = Len(sms)
    <2> DEFINE e(i) == IF sms[i].to = Who[s] /\ ~sms[i].gone
                       THEN [sms[i] EXCEPT !.read = TRUE] ELSE sms[i]
    <2>1. \A i \in 1..Len(sms) : e(i) \in Sms
      <3>1. ASSUME NEW q \in Sms PROVE [q EXCEPT !.read = TRUE] \in Sms
        BY DEF Sms
      <3>2. \A i \in 1..Len(sms) : sms[i] \in Sms
        BY <1>5, ElementOfSeq
      <3> QED  BY <3>1, <3>2
    <2>2. z = [i \in 1..Len(sms) |-> e(i)]
      BY <1>5 DEF db_smw_mark_read
    <2> HIDE DEF z, e
    <2>3. z \in [1..Len(sms) -> Sms]
      BY <2>1, <2>2
    <2>4. z \in Seq(Sms)
      BY <2>3, <1>5, SeqDef
    <2>5. DOMAIN z = 1..Len(sms) /\ DOMAIN z = 1..Len(z) /\ Len(z) \in Nat
      BY <2>3, <2>4, LenProperties
    <2> QED  BY <2>4, <2>5, <1>5
  <1> HIDE DEF r, z
  <1>7. Notes'
    <2>1. Len(sms) <= MaxSms /\ smw \in [Users -> 0..MaxSms] /\ \A u \in Users : smw[u] <= Len(sms)
      BY DEF Strong, Notes
    <2> QED  BY <1>4, <1>5, <1>6, <2>1, MessagesAssumption DEF Notes
  <1> QED  BY <1>1, <1>2, <1>3, <1>4, <1>7, StepFree

LEMMA SmwSendStrong ==
  ASSUME Strong, NEW s \in Sessions, NEW t \in Users, SmwSend(s, t), UNCHANGED netvars
  PROVE  Strong'
  <1> DEFINE r == [sess[s] EXCEPT !.pc = "menu"]
             u == Who[s]
             d == [from |-> u, to |-> t, read |-> FALSE, gone |-> FALSE]
  <1>1. sess \in [Sessions -> SessRow] /\ sess[s].pc = "smw" /\ u \in Users
    BY MessagesAssumption DEF Strong, Callers, SmwSend, At
  <1>2. r \in SessRow /\ r.qwk = sess[s].qwk /\ r.pc = "menu"
    BY <1>1 DEF SessRow
  <1>3. sess' = [sess EXCEPT ![s] = r]
    BY <1>1 DEF SmwSend, Goes
  <1>4. UNCHANGED Others /\ Drafted'
    BY DraftedKept DEF Strong, SmwSend, SmwRest, Others
  <1>5. sms \in Seq(Sms) /\ Len(sms) \in Nat /\ smw \in [Users -> 0..MaxSms] /\ Notes
    BY LenProperties DEF Strong, Notes
  <1>6. Notes'
    <2>1. CASE UNCHANGED sms /\ smw' = db_user_clear_smw(u)
      BY <1>1, <1>5, <2>1, NotesCleared DEF db_user_clear_smw
    <2>2. CASE Len(sms) < MaxSms /\ db_smw_send(u, t)
      <3>1. d \in Sms
        BY <1>1 DEF Sms
      <3>2. sms' = Append(sms, d) /\ smw' = [smw EXCEPT ![t] = @ + 1, ![u] = 0]
        BY <2>2 DEF db_smw_send
      <3> HIDE DEF d
      <3>3. sms' \in Seq(Sms) /\ Len(sms') = Len(sms) + 1
        BY <1>5, <3>1, <3>2, AppendProperties
      <3>4. \A v \in Users : smw[v] \in 0..Len(sms)
        BY <1>5 DEF Notes
      <3>5. \A v \in Users : smw'[v] \in 0..(Len(sms) + 1)
        BY <1>1, <1>5, <3>2, <3>4
      <3>6. smw' \in [Users -> Nat]
        BY <1>1, <1>5, <3>2
      <3> QED  BY <1>5, <2>2, <3>3, <3>5, <3>6, NotesMade, MessagesAssumption
    <2> QED  BY <2>1, <2>2 DEF SmwSend
  <1> HIDE DEF r
  <1> QED  BY <1>1, <1>2, <1>3, <1>4, <1>6, StepFree

LEMMA SmwDeleteStrong ==
  ASSUME Strong, NEW s \in Sessions, NEW i, SmwDelete(s, i), UNCHANGED netvars
  PROVE  Strong'
  <1> DEFINE r == [sess[s] EXCEPT !.pc = "menu"]
             d == [sms[i] EXCEPT !.gone = TRUE]
  <1>1. sess \in [Sessions -> SessRow] /\ sess[s].pc = "smw" /\ Who[s] \in Users
    BY MessagesAssumption DEF Strong, Callers, SmwDelete, At
  <1>2. r \in SessRow /\ r.qwk = sess[s].qwk /\ r.pc = "menu"
    BY <1>1 DEF SessRow
  <1>3. sess' = [sess EXCEPT ![s] = r]
    BY <1>1 DEF SmwDelete, Goes
  <1>4. UNCHANGED Others /\ Drafted'
    BY DraftedKept DEF Strong, SmwDelete, SmwRest, Others
  <1>5. sms \in Seq(Sms) /\ Notes /\ i \in 1..Len(sms)
    BY LenProperties DEF Strong, Notes, SmwDelete
  <1>6. d \in Sms
    <2>1. ASSUME NEW q \in Sms PROVE [q EXCEPT !.gone = TRUE] \in Sms
      BY DEF Sms
    <2> QED  BY <1>5, <2>1, ElementOfSeq
  <1>7. sms' = [sms EXCEPT ![i] = d] /\ smw' = [smw EXCEPT ![Who[s]] = 0]
    BY DEF SmwDelete, db_smw_delete, db_user_clear_smw
  <1> HIDE DEF r, d
  <1>8. sms' \in Seq(Sms) /\ Len(sms') = Len(sms)
    BY <1>5, <1>6, <1>7, ExceptSeq
  <1>9. Notes'
    BY <1>1, <1>5, <1>7, <1>8, NotesCleared
  <1> QED  BY <1>1, <1>2, <1>3, <1>4, <1>9, StepFree

-----------------------------------------------------------------------------
(* QWK packets.                                                            *)

(* A packet holds messages newer than the date it was made for.            *)
LEMMA PacketNew ==
  ASSUME Board, NEW t \in Nat
  PROVE  /\ qwk_generate_packet(t) \in SUBSET (1..MaxMsgs)
         /\ \A m \in qwk_generate_packet(t) : m \in Msgs /\ msgs[m].at > t
  <1>1. \A a : \A m \in db_messages_since(a, t) : m \in Msgs /\ msgs[m].at > t
    BY DEF db_messages_since
  <1>2. \A m \in qwk_generate_packet(t) : \E a \in Ids : m \in db_messages_since(a, t)
    BY DEF qwk_generate_packet
  <1> QED  BY <1>1, <1>2, MsgsTyped

LEMMA QwkOpenStrong ==
  ASSUME Strong, NEW s \in Sessions, QwkOpen(s), UNCHANGED netvars PROVE Strong'
  <1> DEFINE k == qwk_generate_packet(sess[s].qwk)
             r == [sess[s] EXCEPT !.pc = "qwk", !.pack = k]
  <1>1. sess \in [Sessions -> SessRow] /\ sess[s].pc = "menu" /\ RowOK(s, sess[s])
    BY DEF Strong, Callers, QwkOpen, Command, At
  <1>2. sess[s].qwk \in Nat
    BY <1>1, MessagesAssumption DEF SessRow
  <1>3. k \in SUBSET (1..MaxMsgs) /\ \A m \in k : m \in Msgs /\ msgs[m].at > sess[s].qwk
    BY <1>2, PacketNew DEF Strong
  <1>4. sess' = [sess EXCEPT ![s] = r]
    BY <1>1 DEF QwkOpen
  <1> HIDE DEF k
  <1>5. r \in SessRow /\ r.qwk = sess[s].qwk /\ r.pc = "qwk" /\ r.pack = k
    BY <1>1, <1>3 DEF SessRow
  <1>6. UNCHANGED Others /\ Drafted' /\ Notes'
    BY DraftedKept, NotesKept DEF Strong, QwkOpen, QwkRest, Others
  <1> HIDE DEF r
  <1>7. RowOK(s, r)
    BY <1>1, <1>3, <1>5 DEF RowOK
  <1> QED  BY <1>4, <1>6, <1>7, DeskStep

LEMMA QwkFailedStrong ==
  ASSUME Strong, NEW s \in Sessions, QwkFailed(s), UNCHANGED netvars PROVE Strong'
  <1> DEFINE r == [sess[s] EXCEPT !.pc = "menu", !.pack = {}]
  <1>1. sess \in [Sessions -> SessRow] /\ sess[s].pc = "qwk"
    BY DEF Strong, Callers, QwkFailed, At
  <1>2. r \in SessRow /\ r.qwk = sess[s].qwk /\ r.pc = "menu"
    BY <1>1 DEF SessRow
  <1>3. sess' = [sess EXCEPT ![s] = r]
    BY <1>1 DEF QwkFailed
  <1>4. UNCHANGED Others /\ Drafted' /\ Notes'
    BY DraftedKept, NotesKept DEF Strong, QwkFailed, QwkRest, Others
  <1> HIDE DEF r
  <1> QED  BY <1>1, <1>2, <1>3, <1>4, StepFree

(* What the packet holds is newer than all that was downloaded before, and *)
(* not newer than now, which becomes the date of session and row.          *)
LEMMA QwkDoneStrong ==
  ASSUME Strong, NEW s \in Sessions, QwkDone(s), UNCHANGED netvars PROVE Strong'
  <1> DEFINE u == Who[s]
             k == sess[s].pack
             r == [sess[s] EXCEPT !.pc = "menu", !.pack = {}, !.qwk = now]
  <1>1. /\ sess \in [Sessions -> SessRow] /\ sess[s].pc = "qwk" /\ RowOK(s, sess[s])
        /\ u \in Users
    BY MessagesAssumption DEF Strong, Callers, QwkDone, At
  <1>2. Longer /\ now' = now /\ now \in 0..MaxTime /\ now' \in Nat /\ now <= now'
    BY LongerSame, MessagesAssumption DEF Strong, Board, QwkDone, QwkRest
  <1>3. \A m \in k : m \in Msgs /\ msgs[m].at > sess[s].qwk /\ msgs[m].at <= now
    BY <1>1 DEF RowOK, Strong, Board
  <1>4. \A m \in got[u] : m \in Msgs /\ msgs[m].at <= sess[s].qwk /\ msgs[m].at <= now
    BY <1>1 DEF RowOK, Strong, Board, Packed
  <1>5. got[u] \cap k = {}
    <2>1. \A m \in Msgs : msgs[m].at \in Nat
      BY MsgsTyped, MessagesAssumption DEF MsgRow, Strong
    <2>2. sess[s].qwk \in Nat
      BY <1>1, MessagesAssumption DEF SessRow
    <2> QED  BY <1>3, <1>4, <2>1, <2>2
  <1>6. got' = [got EXCEPT ![u] = @ \cup k] /\ k \in SUBSET (1..MaxMsgs)
    BY <1>1 DEF QwkDone, SessRow
  <1>7. twice' = [twice EXCEPT ![u] = @ \cup {}]
    BY <1>5 DEF QwkDone
  <1>8. last_qwk' = IF u \in accounts THEN [last_qwk EXCEPT ![u] = now] ELSE last_qwk
    BY DEF QwkDone, db_user_set_last_qwk
  <1>9. UNCHANGED QwkRest
    BY DEF QwkDone
  <1>10. sess' = [sess EXCEPT ![s] = r]
    BY <1>1 DEF QwkDone
  <1>11. r \in SessRow /\ r.pc = "menu" /\ r.qwk = now
    BY <1>1, <1>2 DEF SessRow
  <1> HIDE DEF u, k, r
  <1>12. Packed'
    <2>1. /\ got \in [Users -> SUBSET (1..MaxMsgs)] /\ last_qwk \in [Users -> 0..MaxTime]
          /\ twice \in [Users -> SUBSET (1..MaxMsgs)]
      BY DEF Strong, Packed
    <2>2. /\ got' \in [Users -> SUBSET (1..MaxMsgs)] /\ last_qwk' \in [Users -> 0..MaxTime]
          /\ twice' \in [Users -> SUBSET (1..MaxMsgs)]
      BY <1>1, <1>2, <1>6, <1>7, <1>8, <2>1
    <2>3. ASSUME NEW v \in Users
          PROVE  /\ twice'[v] = {} /\ last_qwk'[v] <= now'
                 /\ \A m \in got'[v] : m \in Msgs'
                 /\ v \in accounts' => \A m \in got'[v] : msgs'[m].at <= last_qwk'[v]
      <3>1. UNCHANGED <<accounts, msgs, Msgs>>
        BY <1>9 DEF QwkRest, Msgs
      <3>2. /\ twice[v] = {} /\ last_qwk[v] <= now /\ \A m \in got[v] : m \in Msgs
            /\ v \in accounts => \A m \in got[v] : msgs[m].at <= last_qwk[v]
        BY DEF Strong, Packed
      <3>3. CASE v # u
        BY <1>1, <1>2, <1>6, <1>7, <1>8, <2>1, <3>1, <3>2, <3>3
      <3>4. CASE v = u
        <4>1. got'[v] = got[v] \cup k /\ twice'[v] = {} /\ (v \in accounts => last_qwk'[v] = now)
          BY <1>1, <1>6, <1>7, <1>8, <2>1, <3>2, <3>4
        <4>2. last_qwk'[v] <= now
          BY <1>1, <1>2, <1>8, <2>1, <3>2, <3>4
        <4>3. \A m \in got[v] : msgs[m].at <= now
          BY <1>4, <3>4
        <4> QED  BY <1>2, <1>3, <3>1, <3>2, <4>1, <4>2, <4>3
      <3> QED  BY <3>3, <3>4
    <2> QED  BY <2>2, <2>3 DEF Packed
  <1>13. Callers'
    <2>1. sess' \in [Sessions -> SessRow]
      BY <1>1, <1>10, <1>11
    <2>2. UNCHANGED <<msgs, Msgs, now>>
      BY <1>9 DEF QwkRest, Msgs
    <2>3. ASSUME NEW t \in Sessions PROVE RowOK(t, sess[t])'
      <3>1. CASE t = s
        <4>1. sess'[t] = r
          BY <1>1, <1>10, <1>11, <3>1
        <4>2. got'[Who[t]] = got[u] \cup k
          BY <1>1, <1>6, <3>1 DEF u, Strong, Packed
        <4>3. \A m \in got'[Who[t]] : msgs'[m].at <= now
          BY <1>3, <1>4, <2>2, <4>2
        <4> QED  BY <1>2, <1>11, <2>2, <4>1, <4>3 DEF RowOK
      <3>2. CASE t # s
        <4>1. RowOK(t, sess[t]) /\ sess'[t] = sess[t]
          BY <1>1, <1>10, <3>2 DEF Strong, Callers
        <4>2. Who[t] # u /\ Who[t] \in Users
          BY <3>2, MessagesAssumption DEF u
        <4>3. got'[Who[t]] = got[Who[t]]
          BY <1>6, <4>2 DEF Strong, Packed
        <4> QED  BY <2>2, <4>1, <4>3 DEF RowOK
      <3> QED  BY <3>1, <3>2
    <2> QED  BY <2>1, <2>3 DEF Callers
  <1>14. Board' /\ Threads' /\ Reading' /\ Queue'
    BY <1>2, <1>9, BoardKept, ThreadsKept, ReadingKept, QueueKept DEF Strong, QwkRest
  <1>15. Drafted' /\ Notes' /\ Addresses' /\ Outbound'
    BY <1>9, DraftedKept, NotesKept, AddressesKept, OutboundKept DEF Strong, QwkRest, netvars
  <1> QED  BY <1>12, <1>13, <1>14, <1>15 DEF Strong

-----------------------------------------------------------------------------
(* Reading.                                                                *)

(* The one step all reading commands are: messages of areas the caller may *)
(* read are shown.                                                         *)
LEMMA ShowStrong ==
  ASSUME Strong, NEW s \in Sessions, NEW ms, UNCHANGED <<sess, netvars>>, Show(s, ms),
         \A m \in ms : msg_can_read(s, m)
  PROVE  Strong'
  <1>1. Longer /\ now' \in Nat /\ now <= now'
    BY LongerSame, MessagesAssumption DEF Strong, Show, Unread, Board
  <1>2. Board' /\ Threads' /\ Packed' /\ Queue' /\ Callers' /\ Drafted' /\ Notes'
    BY <1>1, BoardKept, ThreadsKept, PackedKept, QueueKept, CallersKept, DraftedKept, NotesKept
    DEF Strong, Show, Unread
  <1>3. Addresses' /\ Outbound'
    BY AddressesKept, OutboundKept DEF Strong, Show, Unread, netvars
  <1>4. \A m \in ms : m \in Msgs /\ m \in 1..MaxMsgs /\ msgs[m].area \in opened[Who[s]]
    BY CanRead, MsgsTyped DEF msg_can_read, Strong
  <1>5. Reading'
    <2>1. UNCHANGED <<areas, msgs, opened, Msgs>> /\ seen' = [seen EXCEPT ![Who[s]] = @ \cup ms]
      BY DEF Show, Unread, Msgs
    <2>2. seen \in [Users -> SUBSET (1..MaxMsgs)] /\ Who[s] \in Users
      BY MessagesAssumption DEF Strong, Reading
    <2>3. seen' \in [Users -> SUBSET (1..MaxMsgs)]
      BY <1>4, <2>1, <2>2
    <2>4. ASSUME NEW u \in Users, NEW m \in seen'[u]
          PROVE  m \in Msgs /\ msgs[m].area \in opened[u]
      <3>1. CASE m \in seen[u]
        BY <3>1 DEF Strong, Reading
      <3>2. CASE m \notin seen[u]
        <4>1. u = Who[s] /\ m \in ms
          BY <2>1, <2>2, <2>4, <3>2
        <4> QED  BY <1>4, <4>1
      <3> QED  BY <3>1, <3>2
    <2> QED  BY <2>1, <2>3, <2>4 DEF Strong, Reading
  <1> QED  BY <1>2, <1>3, <1>5 DEF Strong

LEMMA ReadingStrong ==
  ASSUME Strong, NEW s \in Sessions, NEW m, UNCHANGED netvars,
         \/ cmd_msg_read(s, m) \/ cmd_msg_continuous_read(s) \/ cmd_msg_search(s)
         \/ cmd_msg_new_scan(s) \/ cmd_msg_thread_view(s, m) \/ cmd_msg_jump_reply(s, m)
         \/ cmd_msg_your_messages(s) \/ cmd_msg_your_scan(s, m) \/ cmd_msg_list(s, m)
         \/ cmd_msg_read_private(s)
  PROVE  Strong'
  <1>1. CASE cmd_msg_read(s, m)
    BY <1>1, ShowStrong DEF cmd_msg_read
  <1>2. ASSUME NEW a, msg_area_can(s, a)
        PROVE  \A k \in db_messages_list(a) : msg_can_read(s, k)
    BY <1>2 DEF db_messages_list, msg_can_read
  <1>3. CASE cmd_msg_continuous_read(s)
    BY <1>2, <1>3, ShowStrong DEF cmd_msg_continuous_read
  <1>4. CASE cmd_msg_search(s)
    <2> DEFINE ms == UNION {db_messages_list(a) : a \in {b \in Ids : msg_area_can(s, b)}}
    <2>1. \A k \in ms : msg_can_read(s, k)
      BY <1>2
    <2>2. Show(s, ms) /\ UNCHANGED sess
      BY <1>4 DEF cmd_msg_search
    <2> HIDE DEF ms
    <2> QED  BY <2>1, <2>2, ShowStrong
  <1>5. CASE cmd_msg_new_scan(s)
    <2> DEFINE ms == UNION {db_messages_list(a) : a \in {b \in Ids :
                               msg_area_can(s, b) /\ db_user_scan_area_get(Who[s], b)}}
    <2>1. \A k \in ms : msg_can_read(s, k)
      BY <1>2
    <2>2. Show(s, ms) /\ UNCHANGED sess
      BY <1>5 DEF cmd_msg_new_scan
    <2> HIDE DEF ms
    <2> QED  BY <2>1, <2>2, ShowStrong
  <1>6. CASE cmd_msg_thread_view(s, m)
    <2> DEFINE ms == db_message_reply_tree(msgs[m].area,
                                           IF msgs[m].root > 0 THEN msgs[m].root ELSE m)
    <2>1. \A k \in ms : msg_can_read(s, k)
      BY <1>6 DEF cmd_msg_thread_view, msg_can_read, db_message_reply_tree
    <2>2. Show(s, ms) /\ UNCHANGED sess
      BY <1>6 DEF cmd_msg_thread_view
    <2> HIDE DEF ms
    <2> QED  BY <2>1, <2>2, ShowStrong
  <1>7. CASE cmd_msg_jump_reply(s, m)
    <2> DEFINE ms == {k \in db_messages_list(msgs[m].area) : msgs[k].reply = m \/ msgs[m].reply = k}
    <2>1. \A k \in ms : msg_can_read(s, k)
      BY <1>2, <1>7 DEF cmd_msg_jump_reply, msg_can_read
    <2>2. Show(s, ms) /\ UNCHANGED sess
      BY <1>7 DEF cmd_msg_jump_reply
    <2> HIDE DEF ms
    <2> QED  BY <2>1, <2>2, ShowStrong
  <1>8. CASE cmd_msg_your_messages(s)
    <2> DEFINE ms == {k \in Msgs : msg_area_can(s, msgs[k].area) /\ msgs[k].from = Who[s]}
    <2>1. \A k \in ms : msg_can_read(s, k)
      BY DEF msg_can_read
    <2>2. Show(s, ms) /\ UNCHANGED sess
      BY <1>8 DEF cmd_msg_your_messages
    <2> HIDE DEF ms
    <2> QED  BY <2>1, <2>2, ShowStrong
  <1>9. CASE cmd_msg_your_scan(s, m)
    <2> DEFINE ms == {k \in Msgs : /\ msg_area_can(s, msgs[k].area)
                                  /\ msgs[k].reply > 0 /\ msgs[msgs[k].reply].from = Who[s]}
                     \cup {k \in {m} : msg_can_read(s, k)}
    <2>1. \A k \in ms : msg_can_read(s, k)
      BY DEF msg_can_read
    <2>2. Show(s, ms) /\ UNCHANGED sess
      BY <1>9 DEF cmd_msg_your_scan
    <2> HIDE DEF ms
    <2> QED  BY <2>1, <2>2, ShowStrong
  <1>10. CASE cmd_msg_list(s, m)
    <2> DEFINE ms == db_messages_list(sess[s].area) \cup {k \in {m} : msg_can_read(s, k)}
    <2>1. \A k \in ms : msg_can_read(s, k)
      BY <1>2, <1>10 DEF cmd_msg_list
    <2>2. Show(s, ms) /\ UNCHANGED sess
      BY <1>10 DEF cmd_msg_list
    <2> HIDE DEF ms
    <2> QED  BY <2>1, <2>2, ShowStrong
  <1>11. CASE cmd_msg_read_private(s)
    BY <1>11, ShowStrong DEF cmd_msg_read_private
  <1> QED  BY <1>1, <1>3, <1>4, <1>5, <1>6, <1>7, <1>8, <1>9, <1>10, <1>11

-----------------------------------------------------------------------------
(* Posting.                                                                *)

(* The row of a new message.                                               *)
NewRow(a, u, p) ==
  [area |-> a, from |-> u, reply |-> p, root |-> RootOf(p), at |-> now, edits |-> 0]

LEMMA NewRowTyped ==
  ASSUME Board, Threads, NEW a, NEW u, NEW p, Postable(a, u, p)
  PROVE  /\ NewRow(a, u, p) \in MsgRow /\ NewRow(a, u, p).area = a /\ a \in Ids
         /\ NewRow(a, u, p).reply = p /\ NewRow(a, u, p).root = RootOf(p)
         /\ NewRow(a, u, p).at = now
  <1>1. a \in Ids /\ a \in 1..MaxAreas /\ u \in Users
    BY MessagesAssumption DEF Postable, Board, Ids, AreaRow
  <1>2. p \in 0..MaxMsgs
    BY MsgsTyped, MessagesAssumption DEF Postable
  <1>3. RootOf(p) \in 0..MaxMsgs
    BY <1>2, MsgsTyped, MessagesAssumption DEF RootOf, MsgRow, Postable
  <1>4. now \in 0..MaxTime
    BY DEF Board
  <1> QED  BY <1>1, <1>2, <1>3, <1>4 DEF NewRow, MsgRow

(* One message more; it starts a thread or joins that of an earlier one of *)
(* its area.                                                               *)
LEMMA PostedBoard ==
  ASSUME Board, Threads, NEW a, NEW u, NEW p, Postable(a, u, p), Len(msgs) < MaxMsgs,
         db_message_post(a, u, p), p # 0 => msgs[p].area = a,
         UNCHANGED <<accounts, areas, areaIds, now>>
  PROVE  /\ Board' /\ Threads' /\ Longer /\ Len(msgs') = Len(msgs) + 1
         /\ msgs'[Len(msgs) + 1].area = a
  <1> DEFINE d == NewRow(a, u, p)
  <1>1. msgs' = Append(msgs, d)
    BY DEF db_message_post, NewRow
  <1>2. /\ d \in MsgRow /\ d.area = a /\ a \in Ids /\ d.reply = p /\ d.root = RootOf(p)
        /\ d.at = now
    BY NewRowTyped
  <1>0. PICK n : n = Len(msgs)
    OBVIOUS
  <1>3. n \in Nat /\ msgs \in Seq(MsgRow) /\ \A m \in Msgs : msgs[m] \in MsgRow
    BY <1>0, MsgsTyped DEF Board
  <1> HIDE DEF d
  <1>4. /\ msgs' \in Seq(MsgRow) /\ Len(msgs') = n + 1 /\ msgs'[n + 1] = d
        /\ \A m \in 1..n : msgs'[m] = msgs[m]
    BY <1>0, <1>1, <1>2, <1>3, AppendProperties
  <1>5. Msgs = 1..n /\ Msgs' = 1..(n + 1) /\ Ids' = Ids
    BY <1>0, <1>4 DEF Msgs, Ids
  <1>6. Board'
    <2>1. \A m \in Msgs' : msgs'[m].at <= now
      BY <1>2, <1>3, <1>4, <1>5, MessagesAssumption DEF Board
    <2> QED  BY <1>0, <1>3, <1>4, <2>1, MessagesAssumption DEF Board
  <1>7. Longer
    BY <1>0, <1>3, <1>4, <1>5 DEF Longer
  <1>8. Threads'
    <2>1. ASSUME NEW m \in 1..n
          PROVE  (Roots(m) \/ Answers(m))' /\ msgs'[m].area \in Ids'
      <3>1. (Roots(m) \/ Answers(m)) /\ msgs[m].area \in Ids
        BY <1>5 DEF Threads
      <3>2. \A k \in 1..(m - 1) : msgs'[k] = msgs[k]
        BY <1>3, <1>4
      <3>3. msgs'[m] = msgs[m]
        BY <1>4
      <3>4. CASE Roots(m)
        BY <3>3, <3>4, <3>1, <1>5 DEF Roots
      <3>5. CASE Answers(m)
        BY <3>1, <3>2, <3>3, <3>5, <1>5 DEF Answers
      <3> QED  BY <3>1, <3>4, <3>5
    <2>2. CASE p = 0
      <3>1. Roots(n + 1)' /\ msgs'[n + 1].area \in Ids'
        BY <1>2, <1>4, <1>5, <2>2 DEF Roots, RootOf
      <3> QED  BY <2>1, <3>1, <1>3, <1>5 DEF Threads
    <2>3. CASE p # 0
      <3>1. p \in 1..n /\ msgs[p].area = a /\ msgs'[p] = msgs[p] /\ p \in 1..((n + 1) - 1)
        BY <2>3, <1>3, <1>4, <1>5 DEF Postable
      <3>2. PICK r : r = RootOf(p)
        OBVIOUS
      <3>3. CASE Roots(p)
        <4>1. r = p /\ msgs[p].root = 0
          BY <2>3, <3>2, <3>3 DEF RootOf, Roots
        <4>2. Answers(n + 1)'
          BY <1>2, <1>4, <3>1, <3>2, <4>1 DEF Answers
        <4> QED  BY <2>1, <4>2, <1>2, <1>3, <1>4, <1>5 DEF Threads
      <3>4. CASE Answers(p)
        <4>1. r = msgs[p].root /\ r \in 1..(p - 1)
          BY <2>3, <3>2, <3>4 DEF RootOf, Answers
        <4>2. r \in 1..n /\ msgs'[r] = msgs[r] /\ r \in 1..((n + 1) - 1)
          BY <4>1, <3>1, <1>3, <1>4
        <4>3. msgs[r].root = 0 /\ msgs[r].area = a /\ msgs[p].root = r
          BY <3>1, <3>4, <4>1 DEF Answers
        <4>4. Answers(n + 1)'
          BY <1>2, <1>4, <3>1, <3>2, <4>2, <4>3 DEF Answers
        <4> QED  BY <2>1, <4>4, <1>2, <1>3, <1>4, <1>5 DEF Threads
      <3> QED  BY <3>1, <3>3, <3>4, <1>5 DEF Threads
    <2> QED  BY <2>2, <2>3
  <1> QED  BY <1>0, <1>2, <1>4, <1>6, <1>7, <1>8

(* Tables a posting leaves alone.                                          *)
Elsewhere == <<accounts, areas, areaIds, drafts, sms, smw, last_qwk, got, twice, seen, opened,
               now, netvars>>

LEMMA PostedStrong ==
  ASSUME Strong, NEW s \in Sessions, NEW r, RowOK(s, r), sess' = [sess EXCEPT ![s] = r],
         UNCHANGED Elsewhere, NEW a, NEW u, NEW p, Postable(a, u, p), Len(msgs) < MaxMsgs,
         db_message_post(a, u, p), p # 0 => msgs[p].area = a,
         UNCHANGED echo \/ maybe_queue_echomail(a)
  PROVE  Strong'
  <1>1. /\ Board' /\ Threads' /\ Longer /\ Len(msgs') = Len(msgs) + 1
        /\ msgs'[Len(msgs) + 1].area = a
    BY PostedBoard DEF Strong, Elsewhere
  <1>2. now' \in Nat /\ now <= now' /\ now' = now
    BY MessagesAssumption DEF Strong, Elsewhere, Board
  <1>3. Reading' /\ Packed'
    BY <1>1, <1>2, ReadingKept, PackedKept DEF Strong, Elsewhere
  <1>4. RowOK(s, r)'
    BY <1>1, <1>2, RowKept DEF Strong, Elsewhere
  <1>5. Callers'
    BY <1>1, <1>2, <1>4, RowWritten DEF Strong, Elsewhere
  <1>6. Drafted' /\ Notes' /\ Addresses'
    BY DraftedKept, NotesKept, AddressesKept DEF Strong, Elsewhere, netvars
  <1>7. Queue' /\ echo'.exported = echo.exported
    <2>1. CASE UNCHANGED echo
      BY <1>1, <2>1, QueueKept DEF Strong
    <2>2. CASE maybe_queue_echomail(a) /\ ~UNCHANGED echo
      <3> DEFINE n == Len(msgs) + 1
                 e == [echo EXCEPT !.pending = @ \cup {n}]
      <3>1. echo' = e /\ echo.link = a
        BY <2>2 DEF maybe_queue_echomail, db_fido_echolink_get_by_area, db_fido_echo_queue_add
      <3>2. n \in 1..MaxMsgs /\ n \notin Msgs /\ n \in Msgs'
        BY <1>1, MsgsTyped, MessagesAssumption DEF Strong, Msgs
      <3>3. \A m \in Msgs : m \in Msgs' /\ msgs'[m].area = msgs[m].area
        BY <1>1, MsgsTyped DEF Longer, Msgs, Strong
      <3>4. msgs'[n].area = a
        BY <1>1
      <3> HIDE DEF n
      <3>5. e \in Echo /\ e.exported = echo.exported /\ e.link = a /\ e.pending = echo.pending \cup {n}
        BY <3>1, <3>2 DEF Echo, Strong, Queue
      <3>6. /\ \A m \in echo.pending \cup echo.exported : m \in Msgs /\ msgs[m].area = a
            /\ echo.pending \cap echo.exported = {}
        BY <3>1 DEF Strong, Queue
      <3> HIDE DEF e
      <3> QED  BY <3>1, <3>2, <3>3, <3>4, <3>5, <3>6 DEF Queue
    <2> QED  BY <2>1, <2>2
  <1>8. Outbound'
    BY <1>7, OutboundKept DEF Strong, Elsewhere, netvars
  <1> QED  BY <1>1, <1>3, <1>5, <1>6, <1>7, <1>8 DEF Strong

(* The menu row a session has after composing.                             *)
LEMMA SentRow ==
  ASSUME Strong, NEW s \in Sessions, sess[s].pc # "off"
  PROVE  RowOK(s, [sess[s] EXCEPT !.pc = "menu", !.tgt = 0, !.orig = 0])
  <1> DEFINE r == [sess[s] EXCEPT !.pc = "menu", !.tgt = 0, !.orig = 0]
  <1>1. sess[s] \in SessRow /\ RowOK(s, sess[s])
    BY DEF Strong, Callers
  <1>2. 0 \in 0..MaxMsgs /\ 0 \in 0..MaxAreas
    BY MessagesAssumption
  <1>3. r \in SessRow /\ r.qwk = sess[s].qwk /\ r.pc = "menu"
    BY <1>1, <1>2 DEF SessRow
  <1> HIDE DEF r
  <1>4. RowOK(s, r)
    BY <1>1, <1>3, RowFree
  <1> QED  BY <1>4 DEF r

LEMMA PostSendStrong ==
  ASSUME Strong, NEW s \in Sessions, PostSend(s), UNCHANGED netvars PROVE Strong'
  <1> DEFINE r == [sess[s] EXCEPT !.pc = "menu", !.tgt = 0, !.orig = 0]
             a == IF At(s, "reply") THEN sess[s].orig ELSE sess[s].area
             p == IF At(s, "reply") THEN sess[s].tgt ELSE 0
  <1>1. sess \in [Sessions -> SessRow] /\ sess[s].pc \in {"post", "reply"} /\ RowOK(s, sess[s])
    BY DEF Strong, Callers, PostSend
  <1>2. RowOK(s, r)
    BY <1>1, SentRow
  <1>3. sess' = [sess EXCEPT ![s] = r]
    BY <1>1 DEF PostSend
  <1>4. UNCHANGED Elsewhere
    BY DEF PostSend, PostRest, Elsewhere
  <1>5. p # 0 => msgs[p].area = a
    BY <1>1 DEF RowOK, At
  <1>6. \/ Postable(a, Who[s], p) /\ Len(msgs) < MaxMsgs /\ db_message_post(a, Who[s], p)
           /\ maybe_queue_echomail(a)
        \/ UNCHANGED <<msgs, echo>>
    BY DEF PostSend
  <1> HIDE DEF r, a, p
  <1>7. CASE UNCHANGED <<msgs, echo>>
    <2>1. UNCHANGED Others /\ Drafted' /\ Notes'
      BY <1>4, <1>7, DraftedKept, NotesKept DEF Elsewhere, Others, Strong
    <2> QED  BY <1>2, <1>3, <2>1, DeskStep
  <1>8. CASE Postable(a, Who[s], p) /\ Len(msgs) < MaxMsgs /\ db_message_post(a, Who[s], p)
             /\ maybe_queue_echomail(a)
    BY <1>2, <1>3, <1>4, <1>5, <1>8, PostedStrong
  <1> QED  BY <1>6, <1>7, <1>8

LEMMA FseditPostStrong ==
  ASSUME Strong, NEW s \in Sessions, FseditPost(s), UNCHANGED netvars PROVE Strong'
  <1> DEFINE r == [sess[s] EXCEPT !.pc = "menu"]
             a == sess[s].area
             p == 0
  <1>1. sess \in [Sessions -> SessRow] /\ sess[s].pc = "fsedit" /\ RowOK(s, sess[s])
    BY DEF Strong, Callers, FseditPost, At
  <1>2. r \in SessRow /\ r.qwk = sess[s].qwk /\ r.pc = "menu"
    BY <1>1 DEF SessRow
  <1>3. sess' = [sess EXCEPT ![s] = r]
    BY <1>1 DEF FseditPost, Goes
  <1>4. UNCHANGED Elsewhere /\ UNCHANGED echo
    BY DEF FseditPost, PostRest, Elsewhere
  <1>5. \/ Postable(a, Who[s], p) /\ Len(msgs) < MaxMsgs /\ db_message_post(a, Who[s], p)
        \/ UNCHANGED msgs
    BY DEF FseditPost
  <1>6. p # 0 => msgs[p].area = a
    OBVIOUS
  <1> HIDE DEF r, a, p
  <1>7. RowOK(s, r)
    BY <1>1, <1>2, RowFree
  <1>8. CASE UNCHANGED msgs
    <2>1. UNCHANGED Others /\ Drafted' /\ Notes'
      BY <1>4, <1>8, DraftedKept, NotesKept DEF Elsewhere, Others, Strong
    <2> QED  BY <1>3, <1>7, <2>1, DeskStep
  <1>9. CASE Postable(a, Who[s], p) /\ Len(msgs) < MaxMsgs /\ db_message_post(a, Who[s], p)
    BY <1>3, <1>4, <1>6, <1>7, <1>9, PostedStrong
  <1> QED  BY <1>5, <1>8, <1>9

(* A new body changes neither place nor date of a message.                 *)
LEMMA EditSaveStrong ==
  ASSUME Strong, NEW s \in Sessions, EditSave(s), UNCHANGED netvars PROVE Strong'
  <1> DEFINE r == [sess[s] EXCEPT !.pc = "menu", !.tgt = 0]
             k == sess[s].tgt
             d == [msgs[k] EXCEPT !.edits = 1]
  <1>1. /\ sess \in [Sessions -> SessRow] /\ sess[s].pc = "edit" /\ RowOK(s, sess[s])
        /\ k \in Msgs
    BY DEF Strong, Callers, EditSave, At, RowOK
  <1>2. r \in SessRow /\ r.qwk = sess[s].qwk /\ r.pc = "menu"
    <2>1. 0 \in 0..MaxMsgs
      BY MessagesAssumption
    <2> QED  BY <1>1, <2>1 DEF SessRow
  <1>3. sess' = [sess EXCEPT ![s] = r]
    BY <1>1 DEF EditSave
  <1>4. UNCHANGED Elsewhere /\ UNCHANGED echo
    BY DEF EditSave, PostRest, Elsewhere
  <1>5. msgs' = [msgs EXCEPT ![k] = d]
    BY DEF EditSave, db_message_update_body
  <1>6. /\ d \in MsgRow /\ d.area = msgs[k].area /\ d.at = msgs[k].at /\ d.reply = msgs[k].reply
        /\ d.root = msgs[k].root
    BY <1>1, MsgsTyped DEF MsgRow, Strong
  <1>7. k \in 1..Len(msgs) /\ msgs \in Seq(MsgRow)
    BY <1>1 DEF Msgs, Strong, Board
  <1> HIDE DEF r, k, d
  <1>8. RowOK(s, r)
    BY <1>1, <1>2, RowFree
  <1>9. msgs' \in Seq(MsgRow) /\ Len(msgs') = Len(msgs) /\ Msgs' = Msgs
    BY <1>5, <1>6, <1>7, ExceptSeq DEF Msgs
  <1>10. \A m \in Msgs : /\ msgs'[m].area = msgs[m].area /\ msgs'[m].at = msgs[m].at
                         /\ msgs'[m].reply = msgs[m].reply /\ msgs'[m].root = msgs[m].root
    BY <1>5, <1>6, MsgsTyped DEF Strong
  <1>11. Longer /\ now' \in Nat /\ now <= now' /\ now' = now
    BY <1>4, <1>9, <1>10, MsgsTyped, MessagesAssumption DEF Longer, Elsewhere, Strong, Board
  <1>12. Board'
    BY <1>4, <1>9, <1>10 DEF Strong, Board, Elsewhere
  <1>13. Threads'
    <2>1. SUFFICES ASSUME NEW m \in Msgs
                   PROVE  (Roots(m) \/ Answers(m))' /\ msgs'[m].area \in Ids'
      BY <1>9 DEF Threads
    <2>2. (Roots(m) \/ Answers(m)) /\ msgs[m].area \in Ids /\ Ids' = Ids
      BY <1>4 DEF Strong, Threads, Elsewhere, Ids
    <2>3. CASE Roots(m)
      BY <1>10, <2>2, <2>3 DEF Roots
    <2>4. CASE Answers(m)
      <3>1. \A j \in 1..(m - 1) : j \in Msgs
        BY MsgsTyped DEF Msgs, Strong
      <3> QED  BY <1>10, <2>2, <2>4, <3>1 DEF Answers
    <2> QED  BY <2>2, <2>3, <2>4
  <1>14. Reading' /\ Packed' /\ Queue'
    BY <1>4, <1>11, ReadingKept, PackedKept, QueueKept DEF Strong, Elsewhere
  <1>15. PICK q : q = r
    OBVIOUS
  <1>16. Callers'
    <2>1. RowOK(s, q) /\ sess' = [sess EXCEPT ![s] = q]
      BY <1>3, <1>8, <1>15
    <2>2. RowOK(s, q)'
      BY <1>4, <1>11, <2>1, RowKept DEF Strong, Elsewhere
    <2> QED  BY <1>4, <1>11, <2>1, <2>2, RowWritten DEF Strong, Elsewhere
  <1>17. Drafted' /\ Notes' /\ Addresses' /\ Outbound'
    BY <1>4, DraftedKept, NotesKept, AddressesKept, OutboundKept DEF Strong, Elsewhere, netvars
  <1> QED  BY <1>12, <1>13, <1>14, <1>16, <1>17 DEF Strong

-----------------------------------------------------------------------------
(* The sysop's work on areas and accounts, and time.                       *)

(* All but accounts and areas is left alone.                               *)
LEMMA AdminStrong ==
  ASSUME Strong, UNCHANGED <<AdminRest, netvars>>, accounts' \subseteq accounts,
         areas' \in [AreaNames -> AreaRow], areaIds' \in 0..MaxAreas,
         \A m \in Msgs : msgs[m].area \in Ids',
         opened' \in [Users -> SUBSET (1..MaxAreas)],
         \A u \in Users : opened[u] \subseteq opened'[u] /\ Readable(u, areas') \subseteq opened'[u]
  PROVE  Strong'
  <1>1. Longer /\ now' \in Nat /\ now <= now' /\ now' = now /\ Msgs' = Msgs /\ UNCHANGED msgs
    BY LongerSame, MessagesAssumption DEF Strong, AdminRest, Board, Msgs
  <1>2. Board'
    BY <1>1 DEF Strong, Board, AdminRest
  <1>3. Threads'
    <2>1. \A m \in Msgs : (Roots(m) \/ Answers(m))'
      BY <1>1 DEF Strong, Threads, Roots, Answers
    <2> QED  BY <1>1, <2>1 DEF Threads
  <1>4. Reading'
    <2>1. seen' = seen /\ seen \in [Users -> SUBSET (1..MaxMsgs)]
      BY DEF AdminRest, Strong, Reading
    <2>2. \A u \in Users : \A m \in seen[u] : m \in Msgs /\ msgs[m].area \in opened'[u]
      BY DEF Strong, Reading
    <2> QED  BY <1>1, <2>1, <2>2 DEF Reading
  <1>5. Packed' /\ Callers' /\ Queue'
    BY <1>1, PackedKept, CallersKept, QueueKept DEF Strong, AdminRest
  <1>6. Drafted' /\ Notes' /\ Addresses' /\ Outbound'
    BY DraftedKept, NotesKept, AddressesKept, OutboundKept DEF Strong, AdminRest, netvars
  <1> QED  BY <1>2, <1>3, <1>4, <1>5, <1>6 DEF Strong

LEMMA OpenedGrows ==
  ASSUME Strong, Opened
  PROVE  /\ opened' \in [Users -> SUBSET (1..MaxAreas)]
         /\ \A u \in Users : opened[u] \subseteq opened'[u] /\ Readable(u, areas') \subseteq opened'[u]
  <1>1. \A u : Readable(u, areas') \subseteq 1..MaxAreas
    BY DEF Readable
  <1> QED  BY <1>1 DEF Opened, Strong, Reading

LEMMA AreaAddStrong ==
  ASSUME Strong, NEW s \in Sessions, NEW n \in AreaNames, NEW acs \in BOOLEAN, AreaAdd(s, n, acs),
         UNCHANGED netvars
  PROVE  Strong'
  <1>1. areas \in [AreaNames -> AreaRow] /\ areaIds \in 0..MaxAreas
    BY DEF Strong, Board
  <1>2. /\ areas' \in [AreaNames -> AreaRow] /\ areaIds' \in 0..MaxAreas
        /\ \A x \in AreaNames : areas[x].id = 0 \/ areas'[x].id = areas[x].id
    <2>1. CASE areas[n].id > 0
      <3> DEFINE d == [areas[n] EXCEPT !.acs = acs]
      <3>1. ASSUME NEW q \in AreaRow
            PROVE  [q EXCEPT !.acs = acs] \in AreaRow /\ [q EXCEPT !.acs = acs].id = q.id
        BY DEF AreaRow
      <3>2. d \in AreaRow /\ d.id = areas[n].id
        BY <1>1, <3>1
      <3>3. areas' = [areas EXCEPT ![n] = d] /\ UNCHANGED areaIds
        BY <2>1 DEF AreaAdd
      <3> HIDE DEF d
      <3> QED  BY <1>1, <3>2, <3>3
    <2>2. CASE ~(areas[n].id > 0)
      <3> DEFINE d == [id |-> areaIds + 1, acs |-> acs]
      <3>1. areaIds < MaxAreas /\ areaIds' = areaIds + 1 /\ areas' = [areas EXCEPT ![n] = d]
        BY <2>2 DEF AreaAdd
      <3>2. areaIds + 1 \in 0..MaxAreas
        BY <1>1, <3>1, MessagesAssumption
      <3>3. d \in AreaRow
        BY <3>2 DEF AreaRow
      <3>4. areas[n].id = 0
        BY <1>1, <2>2, MessagesAssumption DEF AreaRow
      <3> HIDE DEF d
      <3> QED  BY <1>1, <3>1, <3>2, <3>3, <3>4
    <2> QED  BY <2>1, <2>2
  <1>3. \A m \in Msgs : msgs[m].area \in Ids'
    <2>1. \A a \in Ids : a \in Ids'
      BY <1>1, <1>2 DEF Ids
    <2> QED  BY <2>1 DEF Strong, Threads
  <1>4. UNCHANGED <<AdminRest, netvars>> /\ accounts' \subseteq accounts /\ Opened
    BY DEF AreaAdd
  <1> QED  BY <1>2, <1>3, <1>4, OpenedGrows, AdminStrong

(* An area with messages stays, so no message loses its area.              *)
LEMMA AreaDeleteStrong ==
  ASSUME Strong, NEW s \in Sessions, NEW n \in AreaNames, AreaDelete(s, n), UNCHANGED netvars
  PROVE  Strong'
  <1> DEFINE d == [id |-> 0, acs |-> FALSE]
  <1>1. areas \in [AreaNames -> AreaRow] /\ areaIds \in 0..MaxAreas
    BY DEF Strong, Board
  <1>2. d \in AreaRow /\ d.id = 0
    BY MessagesAssumption DEF AreaRow
  <1>3. \/ areas' = [areas EXCEPT ![n] = d] /\ db_messages_list(areas[n].id) = {}
        \/ areas' = areas
    BY DEF AreaDelete
  <1> HIDE DEF d
  <1>4. areas' \in [AreaNames -> AreaRow] /\ areaIds' \in 0..MaxAreas
    BY <1>1, <1>2, <1>3 DEF AreaDelete
  <1>5. \A m \in Msgs : msgs[m].area \in Ids'
    <2>1. SUFFICES ASSUME NEW m \in Msgs PROVE msgs[m].area \in Ids'
      OBVIOUS
    <2>2. PICK x \in AreaNames : areas[x].id = msgs[m].area /\ msgs[m].area # 0
      BY DEF Strong, Threads, Ids
    <2>3. areas'[x].id = areas[x].id
      BY <1>1, <1>3, <2>2 DEF db_messages_list
    <2> QED  BY <2>2, <2>3 DEF Ids
  <1>6. UNCHANGED <<AdminRest, netvars, opened, accounts>>
    BY DEF AreaDelete
  <1>7. \A u \in Users : opened[u] \subseteq opened'[u] /\ Readable(u, areas') \subseteq opened'[u]
    <2>1. SUFFICES ASSUME NEW u \in Users, NEW a \in Readable(u, areas') PROVE a \in opened[u]
      BY <1>6
    <2>2. PICK x \in AreaNames : /\ areas'[x].id = a /\ (areas'[x].acs => u \in Sysops)
                                 /\ a \in 1..MaxAreas
      BY <2>1 DEF Readable
    <2>3. a # 0
      BY <2>2
    <2>4. areas'[x] = areas[x]
      BY <1>1, <1>2, <1>3, <2>2, <2>3
    <2>5. a \in Readable(u, areas)
      BY <2>2, <2>4 DEF Readable
    <2> QED  BY <2>5 DEF Strong, Reading
  <1>8. opened' \in [Users -> SUBSET (1..MaxAreas)]
    BY <1>6 DEF Strong, Reading
  <1> QED  BY <1>4, <1>5, <1>6, <1>7, <1>8, AdminStrong

LEMMA UserPackStrong ==
  ASSUME Strong, NEW s \in Sessions, cmd_user_pack(s), UNCHANGED netvars PROVE Strong'
  <1>1. accounts' \subseteq accounts /\ UNCHANGED <<AdminRest, netvars, areas, areaIds, opened>>
    BY DEF cmd_user_pack
  <1>2. Ids' = Ids /\ Board /\ Threads /\ Reading
    BY <1>1 DEF Ids, Strong
  <1>3. \A m \in Msgs : msgs[m].area \in Ids'
    BY <1>2 DEF Threads
  <1>4. /\ opened' \in [Users -> SUBSET (1..MaxAreas)]
        /\ \A u \in Users : opened[u] \subseteq opened'[u] /\ Readable(u, areas') \subseteq opened'[u]
    BY <1>1, <1>2 DEF Reading
  <1>5. areas' \in [AreaNames -> AreaRow] /\ areaIds' \in 0..MaxAreas
    BY <1>1, <1>2 DEF Board
  <1> QED  BY <1>1, <1>3, <1>4, <1>5, AdminStrong

LEMMA TickStrong == ASSUME Strong, Tick, UNCHANGED netvars PROVE Strong'
  <1>1. now \in 0..MaxTime /\ now' = now + 1 /\ now < MaxTime
    BY DEF Tick, Strong, Board
  <1>2. Longer /\ now' \in Nat /\ now <= now' /\ now' \in 0..MaxTime
    BY <1>1, LongerSame, MessagesAssumption DEF Strong, Tick
  <1>3. Board'
    <2>1. \A m \in Msgs : msgs[m].at \in Nat /\ msgs[m].at <= now
      BY MsgsTyped, MessagesAssumption DEF Strong, Board, MsgRow
    <2>2. \A m \in Msgs : msgs[m].at <= now'
      BY <1>1, <2>1, MessagesAssumption
    <2> QED  BY <1>2, <2>2 DEF Strong, Board, Tick, Msgs
  <1>4. Threads' /\ Reading' /\ Packed' /\ Callers' /\ Queue'
    BY <1>2, ThreadsKept, ReadingKept, PackedKept, CallersKept, QueueKept DEF Strong, Tick
  <1>5. Drafted' /\ Notes' /\ Addresses' /\ Outbound'
    BY DraftedKept, NotesKept, AddressesKept, OutboundKept DEF Strong, Tick, netvars
  <1> QED  BY <1>3, <1>4, <1>5 DEF Strong

-----------------------------------------------------------------------------
(* The editors.                                                            *)

(* What neither an editor nor the exporter writes.                         *)
BoardFrame == <<accounts, areas, areaIds, msgs, drafts, sms, smw, last_qwk, got, twice, seen,
                opened, sess, now>>

LEMMA NetStrong ==
  ASSUME Strong, UNCHANGED BoardFrame, Queue', Addresses', Outbound'
  PROVE  Strong'
  <1>1. Longer /\ now' \in Nat /\ now <= now'
    BY LongerSame, MessagesAssumption DEF Strong, BoardFrame, Board
  <1>2. Board' /\ Threads' /\ Reading' /\ Packed' /\ Callers'
    BY <1>1, BoardKept, ThreadsKept, ReadingKept, PackedKept, CallersKept DEF Strong, BoardFrame
  <1>3. Drafted' /\ Notes'
    BY DraftedKept, NotesKept DEF Strong, BoardFrame
  <1> QED  BY <1>2, <1>3 DEF Strong

LEMMA QueueSame ==
  ASSUME Strong, UNCHANGED BoardFrame, UNCHANGED echo
  PROVE  Queue'
  BY LongerSame, QueueKept DEF Strong, BoardFrame

LEMMA AkaDeleteStrong ==
  ASSUME Strong, NEW s \in Sessions, NEW i \in 1..MaxAkas, AkaDelete(s, i)
  PROVE  Strong'
  <1>1. UNCHANGED BoardFrame /\ UNCHANGED <<echo, netmail, packets, out, ex, hub>>
    BY DEF AkaDelete, Editor, BoardFrame
  <1>2. Queue' /\ Outbound'
    BY <1>1, QueueSame, OutboundKept DEF Strong
  <1>3. Addresses'
    <2>1. UNCHANGED <<akaIds, by, form, hub>> /\ (akas' = akas \/ akas' = [akas EXCEPT ![i] = "none"])
      BY DEF AkaDelete, db_fido_aka_delete
    <2>2. /\ akas' \in [1..MaxAkas -> {"none", "aka", "primary"}]
          /\ \A j \in 1..MaxAkas : akas'[j] = "primary" => akas[j] = "primary"
      BY <2>1 DEF Strong, Addresses
    <2>3. \A t \in Sessions : form[t].cleared => NoneBy(t)'
      BY <2>1, <2>2 DEF Strong, Addresses, NoneBy
    <2>4. PrimaryEach'
      BY <2>1, <2>2 DEF Strong, Addresses, PrimaryEach, db_fido_aka_get_primary
    <2> QED  BY <2>1, <2>2, <2>3, <2>4 DEF Strong, Addresses
  <1> QED  BY <1>1, <1>2, <1>3, NetStrong

(* A sysop at the address editor: only the row of his session moves.       *)
AkaStep(s) ==
  \/ AkaAdd(s) \/ AkaCancel(s) \/ AkaClear(s) \/ AkaUnclear(s) \/ AkaWrite(s)
  \/ \E i \in 1..MaxAkas : AkaEdit(s, i) \/ AkaPrimary(s, i)

LEMMA AkaFrame ==
  ASSUME NEW s \in Sessions, AkaStep(s)
  PROVE  /\ UNCHANGED AskRest /\ UNCHANGED <<netmail, packets, out, ex, hub>>
         /\ sess[s].pc # "off" /\ \E p \in {"menu", "aka", "write"} : Goes(s, p)
  <1>1. CASE AkaAdd(s) \/ \E i \in 1..MaxAkas : AkaEdit(s, i) \/ AkaPrimary(s, i)
    BY <1>1 DEF AkaAdd, AkaEdit, AkaPrimary, Asks, Command, At
  <1>2. CASE AkaCancel(s) \/ AkaClear(s) \/ AkaUnclear(s) \/ AkaWrite(s)
    BY <1>2 DEF AkaCancel, AkaClear, AkaUnclear, AkaWrite, At, akavars
  <1> QED  BY <1>1, <1>2 DEF AkaStep

LEMMA AkaForms ==
  ASSUME Strong, NEW s \in Sessions, AkaStep(s)
  PROVE  Addresses'
  <1>1. /\ akas \in [1..MaxAkas -> {"none", "aka", "primary"}] /\ akaIds \in 0..MaxAkas
        /\ by \in [1..MaxAkas -> Sessions \cup {Nobody}] /\ form \in [Sessions -> Form]
        /\ PrimaryEach /\ \A t \in Sessions : form[t].cleared => NoneBy(t)
    BY DEF Strong, Addresses
  <1>2. hub' \in BOOLEAN
    BY AkaFrame DEF Strong, Addresses
  <1>3. Blank \in Form /\ ~Blank.cleared
    BY NetworksAssumption DEF Blank, Form
  <1>4. ASSUME NEW f \in Form, ~f.cleared, form' = [form EXCEPT ![s] = f], UNCHANGED <<akas, akaIds, by>>
        PROVE  Addresses'
    <2>1. form' \in [Sessions -> Form] /\ \A t \in Sessions : form'[t].cleared => form[t].cleared
      BY <1>1, <1>4
    <2>2. PrimaryEach' /\ \A t \in Sessions : NoneBy(t) => NoneBy(t)'
      BY <1>1, <1>4 DEF PrimaryEach, db_fido_aka_get_primary, NoneBy
    <2> QED  BY <1>1, <1>2, <1>4, <2>1, <2>2 DEF Addresses
  <1>5. CASE AkaAdd(s) \/ AkaCancel(s) \/ \E i \in 1..MaxAkas : AkaEdit(s, i) \/ AkaPrimary(s, i)
    <2>1. ASSUME NEW i \in 0..MaxAkas, NEW p \in BOOLEAN
          PROVE  \E f \in Form : ~f.cleared /\ f = [Blank EXCEPT !.id = i, !.primary = p]
      BY DEF Blank, Form
    <2>2. CASE AkaAdd(s)
      <3>1. PICK p \in BOOLEAN : form' = [form EXCEPT ![s] = [Blank EXCEPT !.primary = p]]
        BY <2>2 DEF AkaAdd
      <3>2. UNCHANGED <<akas, akaIds, by>>
        BY <2>2 DEF AkaAdd
      <3>3. PICK f \in Form : ~f.cleared /\ f = [Blank EXCEPT !.primary = p]
        BY <1>3 DEF Blank, Form
      <3> QED  BY <1>4, <3>1, <3>2, <3>3
    <2>3. CASE AkaCancel(s)
      BY <1>3, <1>4, <2>3 DEF AkaCancel
    <2>4. ASSUME NEW i \in 1..MaxAkas, AkaEdit(s, i) \/ AkaPrimary(s, i) PROVE Addresses'
      <3>1. PICK p \in BOOLEAN : form' = [form EXCEPT ![s] = [Blank EXCEPT !.id = i, !.primary = p]]
        BY <2>4 DEF AkaEdit, AkaPrimary
      <3>2. UNCHANGED <<akas, akaIds, by>>
        BY <2>4 DEF AkaEdit, AkaPrimary
      <3>3. i \in 0..MaxAkas
        BY NetworksAssumption
      <3>4. PICK f \in Form : ~f.cleared /\ f = [Blank EXCEPT !.id = i, !.primary = p]
        BY <2>1, <3>3
      <3> QED  BY <1>4, <3>1, <3>2, <3>4
    <2> QED  BY <1>5, <2>2, <2>3, <2>4
  <1>6. CASE AkaClear(s)
    <2>1. /\ akas' = [i \in 1..MaxAkas |-> IF akas[i] = "primary" THEN "aka" ELSE akas[i]]
          /\ by' = [i \in 1..MaxAkas |-> Nobody] /\ form' = [form EXCEPT ![s].cleared = TRUE]
          /\ UNCHANGED akaIds
      BY <1>6 DEF AkaClear
    <2>2. akas' \in [1..MaxAkas -> {"none", "aka", "primary"}] /\ \A i \in 1..MaxAkas : akas'[i] # "primary"
      BY <1>1, <2>1
    <2>3. by' \in [1..MaxAkas -> Sessions \cup {Nobody}]
      BY <2>1
    <2>4. form' \in [Sessions -> Form]
      BY <1>1, <2>1 DEF Form
    <2>5. PrimaryEach' /\ \A t \in Sessions : NoneBy(t)'
      BY <2>2 DEF PrimaryEach, db_fido_aka_get_primary, NoneBy
    <2> QED  BY <1>1, <1>2, <2>1, <2>2, <2>3, <2>4, <2>5 DEF Addresses
  <1>7. CASE AkaUnclear(s)
    <2>1. UNCHANGED <<akavars, hub>>
      BY <1>7, AkaFrame DEF AkaUnclear
    <2> QED  BY <2>1, AddressesKept DEF Strong
  <1>8. CASE AkaWrite(s)
    <2>1. form' = [form EXCEPT ![s] = Blank]
      BY <1>8 DEF AkaWrite
    <2>2. form' \in [Sessions -> Form] /\ \A t \in Sessions : form'[t].cleared => t # s /\ form[t].cleared
      BY <1>1, <1>3, <2>1
    <2>3. ASSUME NEW i \in 1..MaxAkas, akaIds' \in 0..MaxAkas, Written(i, s) PROVE Addresses'
      <3> DEFINE v == Flag(form[s].primary)
                 w == IF form[s].cleared THEN s ELSE Nobody
      <3>1. akas' = [akas EXCEPT ![i] = v] /\ by' = [by EXCEPT ![i] = w]
        BY <2>3 DEF Written
      <3>2. v \in {"none", "aka", "primary"} /\ w \in {s, Nobody} /\ w \in Sessions \cup {Nobody}
        BY DEF Flag
      <3>3. w # Nobody => \A j \in 1..MaxAkas : by[j] = w => akas[j] # "primary"
        BY <1>1 DEF NoneBy
      <3> HIDE DEF v, w
      <3>4. akas' \in [1..MaxAkas -> {"none", "aka", "primary"}] /\ by' \in [1..MaxAkas -> Sessions \cup {Nobody}]
        BY <1>1, <3>1, <3>2
      <3>5. ASSUME NEW j \in 1..MaxAkas, NEW k \in 1..MaxAkas, akas'[j] = "primary", akas'[k] = "primary",
                   by'[j] = by'[k], by'[j] # Nobody
            PROVE  j = k
        <4>1. CASE j # i /\ k # i
          BY <1>1, <3>1, <3>5, <4>1 DEF PrimaryEach, db_fido_aka_get_primary
        <4>2. CASE j = i /\ k # i
          BY <1>1, <3>1, <3>3, <3>5, <4>2
        <4>3. CASE j # i /\ k = i
          BY <1>1, <3>1, <3>3, <3>5, <4>3
        <4> QED  BY <4>1, <4>2, <4>3
      <3>6. ASSUME NEW t \in Sessions, form'[t].cleared, t # Nobody, NEW j \in 1..MaxAkas, by'[j] = t
            PROVE  akas'[j] # "primary"
        <4>1. t # s /\ NoneBy(t)
          BY <1>1, <2>2, <3>6
        <4>2. j # i
          BY <1>1, <3>1, <3>2, <3>6, <4>1
        <4> QED  BY <1>1, <3>1, <3>6, <4>1, <4>2 DEF NoneBy
      <3>7. \A t \in Sessions : form'[t].cleared => NoneBy(t)'
        BY <3>6 DEF NoneBy
      <3>8. PrimaryEach'
        BY <3>5 DEF PrimaryEach, db_fido_aka_get_primary
      <3> QED  BY <1>2, <2>2, <2>3, <3>4, <3>7, <3>8 DEF Addresses
    <2>4. CASE db_fido_aka_add(s)
      <3>1. akaIds' \in 0..MaxAkas /\ akaIds + 1 \in 1..MaxAkas /\ Written(akaIds + 1, s)
        BY <1>1, <2>4, NetworksAssumption DEF db_fido_aka_add
      <3> QED  BY <2>3, <3>1
    <2>5. CASE db_fido_aka_update(s)
      <3>1. akaIds' \in 0..MaxAkas /\ form[s].id \in 1..MaxAkas /\ Written(form[s].id, s)
        BY <1>1, <2>5 DEF db_fido_aka_update, db_fido_aka_list
      <3> QED  BY <2>3, <3>1
    <2>6. CASE UNCHANGED <<akas, akaIds, by>>
      BY <1>3, <1>4, <2>1, <2>6
    <2> QED  BY <1>8, <2>4, <2>5, <2>6 DEF AkaWrite
  <1> QED  BY <1>5, <1>6, <1>7, <1>8 DEF AkaStep

(* The echo queue of no link is empty: an area's number is not 0.          *)
LEMMA NoLinkNoQueue ==
  ASSUME Strong, echo.link = 0
  PROVE  echo.pending = {} /\ echo.exported = {}
  <1>1. \A m \in Msgs : msgs[m].area # 0
    BY MsgsTyped, MessagesAssumption DEF Strong, MsgRow
  <1> QED  BY <1>1 DEF Strong, Queue, Echo

(* The values an editor gives the record of the links.                     *)
LEMMA EchoRecords ==
  ASSUME NEW e \in Echo
  PROVE  /\ \A a \in 0..MaxAreas :
              /\ [e EXCEPT !.link = a] \in Echo /\ [e EXCEPT !.link = a].link = a
              /\ [e EXCEPT !.link = a].pending = e.pending
              /\ [e EXCEPT !.link = a].exported = e.exported
         /\ \A h \in SUBSET (1..MaxAreas) :
              /\ [e EXCEPT !.hub = h] \in Echo /\ [e EXCEPT !.hub = h].link = e.link
              /\ [e EXCEPT !.hub = h].pending = e.pending
              /\ [e EXCEPT !.hub = h].exported = e.exported
         /\ \A w \in 0..MaxMsgs :
              /\ [e EXCEPT !.hw = w] \in Echo /\ [e EXCEPT !.hw = w].link = e.link
              /\ [e EXCEPT !.hw = w].pending = e.pending
              /\ [e EXCEPT !.hw = w].exported = e.exported
  <1>1. \A a \in 0..MaxAreas :
              /\ [e EXCEPT !.link = a] \in Echo /\ [e EXCEPT !.link = a].link = a
              /\ [e EXCEPT !.link = a].pending = e.pending
              /\ [e EXCEPT !.link = a].exported = e.exported
    BY DEF Echo
  <1>2. \A h \in SUBSET (1..MaxAreas) :
              /\ [e EXCEPT !.hub = h] \in Echo /\ [e EXCEPT !.hub = h].link = e.link
              /\ [e EXCEPT !.hub = h].pending = e.pending
              /\ [e EXCEPT !.hub = h].exported = e.exported
    BY DEF Echo
  <1>3. \A w \in 0..MaxMsgs :
              /\ [e EXCEPT !.hw = w] \in Echo /\ [e EXCEPT !.hw = w].link = e.link
              /\ [e EXCEPT !.hw = w].pending = e.pending
              /\ [e EXCEPT !.hw = w].exported = e.exported
    BY DEF Echo
  <1> QED  BY <1>1, <1>2, <1>3

LEMMA LinksStrong ==
  ASSUME Strong, NEW s \in Sessions, NEW a \in 1..MaxAreas,
         EcholinkAdd(s, a) \/ EcholinkDelete(s)
  PROVE  Strong'
  <1>1. UNCHANGED BoardFrame /\ UNCHANGED netvars
    BY DEF EcholinkAdd, EcholinkDelete, Editor, BoardFrame
  <1>2. /\ echo \in Echo /\ Msgs' = Msgs /\ msgs' = msgs
        /\ \A m \in echo.pending \cup echo.exported : m \in Msgs /\ msgs[m].area = echo.link
        /\ echo.pending \cap echo.exported = {}
    BY <1>1 DEF Strong, Queue, BoardFrame, Msgs
  <1>3. Queue' /\ echo'.exported \subseteq echo.exported
    <2>1. CASE UNCHANGED echo
      BY <1>2, <2>1 DEF Queue
    <2>2. CASE EcholinkAdd(s, a) /\ ~UNCHANGED echo
      <3>1. echo' = [echo EXCEPT !.link = a] /\ echo.link = 0
        BY <2>2 DEF EcholinkAdd, db_fido_echolink_add
      <3>2. echo.pending = {} /\ echo.exported = {}
        BY <3>1, NoLinkNoQueue
      <3>3. a \in 0..MaxAreas
        OBVIOUS
      <3>4. echo' \in Echo /\ echo'.pending = {} /\ echo'.exported = {}
        BY <1>2, <3>1, <3>2, <3>3, EchoRecords
      <3> QED  BY <1>2, <3>2, <3>4 DEF Queue
    <2>3. CASE EcholinkDelete(s)
      <3>1. echo' = [echo EXCEPT !.link = 0, !.hw = 0, !.pending = {}, !.exported = {}]
        BY <2>3 DEF EcholinkDelete, db_fido_echolink_delete
      <3>2. 0 \in 0..MaxAreas /\ 0 \in 0..MaxMsgs
        BY MessagesAssumption
      <3>3. echo' \in Echo /\ echo'.pending = {} /\ echo'.exported = {}
        BY <1>2, <3>1, <3>2 DEF Echo
      <3> QED  BY <1>2, <3>3 DEF Queue
    <2> QED  BY <2>1, <2>2, <2>3
  <1>4. Addresses' /\ Outbound'
    BY <1>1, <1>3, AddressesKept, OutboundKept DEF Strong, netvars
  <1> QED  BY <1>1, <1>3, <1>4, NetStrong

LEMMA HubsStrong ==
  ASSUME Strong, NEW s \in Sessions, NEW a \in 1..MaxAreas,
         HubAdd(s) \/ HubDelete(s) \/ HubLink(s, a) \/ HubUnlink(s, a)
  PROVE  Strong'
  <1>1. UNCHANGED BoardFrame /\ UNCHANGED <<akavars, netmail, packets, out, ex>>
    BY DEF HubAdd, HubDelete, HubLink, HubUnlink, Editor, BoardFrame, netvars
  <1>2. /\ echo \in Echo /\ Msgs' = Msgs /\ msgs' = msgs
        /\ \A m \in echo.pending \cup echo.exported : m \in Msgs /\ msgs[m].area = echo.link
        /\ echo.pending \cap echo.exported = {}
    BY <1>1 DEF Strong, Queue, BoardFrame, Msgs
  <1>3. hub \in BOOLEAN /\ hub' \in BOOLEAN
    BY DEF HubAdd, HubDelete, HubLink, HubUnlink, Editor, netvars, Strong, Addresses
  <1>4. echo' = echo \/ \E h \in SUBSET (1..MaxAreas) : echo' = [echo EXCEPT !.hub = h]
    <2>1. /\ {} \in SUBSET (1..MaxAreas) /\ echo.hub \cup {a} \in SUBSET (1..MaxAreas)
          /\ echo.hub \ {a} \in SUBSET (1..MaxAreas)
      BY <1>2 DEF Echo
    <2>2. CASE HubAdd(s)
      BY <2>2 DEF HubAdd
    <2>3. CASE HubDelete(s)
      BY <2>1, <2>3 DEF HubDelete, db_qwk_hub_delete
    <2>4. CASE HubLink(s, a)
      BY <2>1, <2>4 DEF HubLink, db_qwk_area_link_add
    <2>5. CASE HubUnlink(s, a)
      BY <2>1, <2>5 DEF HubUnlink, db_qwk_area_link_delete
    <2> QED  BY <2>2, <2>3, <2>4, <2>5
  <1>5. echo' \in Echo /\ echo'.link = echo.link /\ echo'.pending = echo.pending
        /\ echo'.exported = echo.exported
    <2>1. CASE echo' = echo
      BY <1>2, <2>1
    <2>2. ASSUME NEW h \in SUBSET (1..MaxAreas), echo' = [echo EXCEPT !.hub = h]
          PROVE  /\ echo' \in Echo /\ echo'.link = echo.link /\ echo'.pending = echo.pending
                 /\ echo'.exported = echo.exported
      BY <1>2, <2>2, EchoRecords
    <2> QED  BY <1>4, <2>1, <2>2
  <1>6. Queue'
    BY <1>2, <1>5 DEF Queue
  <1>7. Addresses'
    BY <1>1, <1>3 DEF Strong, Addresses, PrimaryEach, db_fido_aka_get_primary, NoneBy, akavars
  <1>8. Outbound'
    BY <1>1, <1>5, OutboundKept DEF Strong
  <1> QED  BY <1>1, <1>6, <1>7, <1>8, NetStrong

-----------------------------------------------------------------------------
(* Netmail.                                                                *)

(* Rows of netmail that are pending or gone bind nobody.                   *)
LEMMA NetmailWritten ==
  ASSUME Outbound, UNCHANGED <<packets, out, ex>>, echo'.exported \subseteq echo.exported,
         netmail' \in Seq(NetState), Len(netmail') <= MaxNet,
         DOMAIN netmail \subseteq DOMAIN netmail',
         \A i \in DOMAIN netmail' :
            netmail'[i] # "sent" \/ (i \in DOMAIN netmail /\ netmail[i] = "sent"),
         \A i \in DOMAIN netmail : netmail[i] # "sent" => netmail'[i] # "sent"
  PROVE  Outbound'
  <1>1. Busy' = Busy /\ File' = File
    BY DEF Busy, File
  <1> QED  BY <1>1 DEF Outbound

LEMMA NetmailDeleteStrong ==
  ASSUME Strong, NEW s \in Sessions, NEW i, NetmailDelete(s, i) PROVE Strong'
  <1>1. UNCHANGED BoardFrame /\ UNCHANGED <<echo, akavars, packets, out, ex, hub>>
    BY DEF NetmailDelete, Editor, BoardFrame
  <1>2. netmail' = [netmail EXCEPT ![i] = "gone"] /\ i \in DOMAIN netmail
    BY DEF NetmailDelete, db_fido_netmail_delete
  <1>3. netmail \in Seq(NetState) /\ Len(netmail) <= MaxNet /\ "gone" \in NetState
    BY DEF Strong, Outbound, NetState
  <1>4. i \in 1..Len(netmail)
    BY <1>2, <1>3, LenProperties
  <1>5. /\ netmail' \in Seq(NetState) /\ Len(netmail') = Len(netmail)
        /\ DOMAIN netmail' = DOMAIN netmail
    BY <1>2, <1>3, <1>4, ExceptSeq
  <1>6. \A j \in DOMAIN netmail : netmail'[j] = IF j = i THEN "gone" ELSE netmail[j]
    BY <1>2
  <1>7. Outbound'
    BY <1>1, <1>3, <1>5, <1>6, NetmailWritten DEF Strong
  <1>8. Queue' /\ Addresses'
    BY <1>1, QueueSame, AddressesKept DEF Strong
  <1> QED  BY <1>1, <1>7, <1>8, NetStrong

(* A session comes back from, or goes to, a prompt of an editor.           *)
LEMMA AskStrong ==
  ASSUME Strong, NEW s \in Sessions, UNCHANGED AskRest, Addresses', Outbound',
         sess[s].pc # "off", NEW p \in {"menu", "aka", "write"}, Goes(s, p)
  PROVE  Strong'
  <1> DEFINE r == [sess[s] EXCEPT !.pc = p]
  <1>1. sess \in [Sessions -> SessRow] /\ RowOK(s, sess[s])
    BY DEF Strong, Callers
  <1>2. r \in SessRow /\ r.qwk = sess[s].qwk /\ r.pc = p
    BY <1>1 DEF SessRow
  <1>3. sess' = [sess EXCEPT ![s] = r]
    BY <1>1 DEF Goes
  <1>4. UNCHANGED Unread /\ UNCHANGED <<scan, seen>>
    BY DEF AskRest
  <1>5. Longer /\ now' \in Nat /\ now <= now' /\ now' = now
    BY <1>4, LongerSame, MessagesAssumption DEF Strong, Unread, Board
  <1> HIDE DEF r
  <1>6. Callers'
    <2>1. PICK q : q = r
      OBVIOUS
    <2>2. RowOK(s, q) /\ sess' = [sess EXCEPT ![s] = q]
      BY <1>1, <1>2, <1>3, <2>1, RowFree
    <2>3. RowOK(s, q)'
      BY <1>4, <1>5, <2>2, RowKept DEF Strong, Unread
    <2> QED  BY <1>4, <1>5, <2>2, <2>3, RowWritten DEF Strong, Unread
  <1>7. Board' /\ Threads' /\ Reading' /\ Packed' /\ Queue'
    BY <1>4, <1>5, BoardKept, ThreadsKept, ReadingKept, PackedKept, QueueKept
    DEF Strong, Unread
  <1>8. Drafted' /\ Notes'
    BY <1>4, DraftedKept, NotesKept DEF Strong, Unread
  <1> QED  BY <1>6, <1>7, <1>8 DEF Strong

LEMMA AkasStrong == ASSUME Strong, NEW s \in Sessions, AkaStep(s) PROVE Strong'
  <1>1. /\ UNCHANGED AskRest /\ UNCHANGED <<netmail, packets, out, ex, hub>>
        /\ sess[s].pc # "off" /\ \E p \in {"menu", "aka", "write"} : Goes(s, p)
    BY AkaFrame
  <1>2. Outbound'
    BY <1>1, OutboundKept DEF Strong, AskRest, Unread
  <1> QED  BY <1>1, <1>2, AkaForms, AskStrong

LEMMA NetmailSendStrong ==
  ASSUME Strong, NEW s \in Sessions, NetmailSend(s) PROVE Strong'
  <1>1. sess[s].pc # "off" /\ Goes(s, "menu") /\ UNCHANGED AskRest
    BY DEF NetmailSend, At, AskRest, Unread
  <1>2. UNCHANGED Unread /\ UNCHANGED <<scan, seen, akavars, packets, out, ex, hub>>
    BY DEF NetmailSend
  <1>3. Addresses'
    BY <1>2, AddressesKept DEF Strong
  <1>4. Outbound'
    <2>1. echo'.exported = echo.exported
      BY <1>2 DEF Unread
    <2>2. CASE UNCHANGED netmail
      BY <1>2, <2>1, <2>2, OutboundKept DEF Strong
    <2>3. CASE Len(netmail) < MaxNet /\ netmail' = Append(netmail, "pending")
      <3>1. PICK n \in Nat : n = Len(netmail) /\ DOMAIN netmail = 1..n
        BY LenProperties DEF Strong, Outbound
      <3>2. netmail \in Seq(NetState) /\ "pending" \in NetState
        BY DEF Strong, Outbound, NetState
      <3>3. /\ netmail' \in Seq(NetState) /\ Len(netmail') = n + 1 /\ netmail'[n + 1] = "pending"
            /\ \A i \in 1..n : netmail'[i] = netmail[i]
        BY <2>3, <3>1, <3>2, AppendProperties
      <3>4. DOMAIN netmail' = 1..(n + 1)
        BY <3>3, LenProperties
      <3>5. Len(netmail') <= MaxNet /\ DOMAIN netmail \subseteq DOMAIN netmail'
        BY <2>3, <3>1, <3>3, <3>4, NetworksAssumption
      <3>6. \A i \in DOMAIN netmail' : i \in 1..n \/ i = n + 1
        BY <3>1, <3>4
      <3>7. \A i \in DOMAIN netmail' :
              netmail'[i] # "sent" \/ (i \in DOMAIN netmail /\ netmail[i] = "sent")
        BY <3>1, <3>3, <3>6
      <3> QED  BY <1>2, <2>1, <3>1, <3>3, <3>5, <3>7, NetmailWritten DEF Strong
    <2> QED  BY <2>2, <2>3 DEF NetmailSend, db_fido_netmail_add
  <1> QED  BY <1>1, <1>3, <1>4, AskStrong

-----------------------------------------------------------------------------
(* The exporter.                                                           *)

(* What a step of the exporter has to keep: the files of what is marked,   *)
(* and its own row.                                                        *)
RowDone(x, busy) ==
  /\ x \in ExRow
  /\ x.kind = "net" => x.pc # "water" /\ \A i \in busy : i \in DOMAIN netmail /\ netmail[i] # "sent"
  /\ x.kind = "echo" => /\ x.pc # "record" /\ x.todo \subseteq 1..MaxMsgs /\ x.id <= MaxMsgs
                        /\ busy \cap echo.exported = {}
  /\ x.pc \in {"record", "mark"} => x.id \notin x.todo /\ x.id > 0 /\ <<x.kind, x.id, x.at>> \in out
  /\ x.pc = "water" => x.id \notin x.todo

Filed ==
  /\ netmail \in Seq(NetState) /\ Len(netmail) <= MaxNet
  /\ packets \subseteq Files /\ out \subseteq Files
  /\ \A i \in DOMAIN netmail : netmail[i] = "sent" => \E f \in out : f[1] = "net" /\ f[2] = i
  /\ \A m \in echo.exported : \E f \in out : f[1] = "echo" /\ f[2] = m

LEMMA OutboundParts == Outbound <=> Filed /\ RowDone(ex, Busy)
  BY DEF Outbound, Filed, RowDone, File

LEMMA OutboundPartsNext ==
  ASSUME Filed', NEW x, ex' = x, NEW busy, Busy' = busy, RowDone(x, busy)'
  PROVE  Outbound'
  BY DEF Outbound, Filed, RowDone, File

(* A row of the exporter, field by field.                                  *)
LEMMA ExRecord ==
  ASSUME NEW x \in ExRow
  PROVE  /\ x.pc \in {"idle", "next", "record", "mark", "water"} /\ x.kind \in Kinds
         /\ x.todo \subseteq 1..(MaxMsgs + MaxNet) /\ x.id \in 0..(MaxMsgs + MaxNet)
         /\ x.at \in 0..MaxTime
  BY DEF ExRow

(* Rows with no file under way.                                            *)
LEMMA NextRow ==
  ASSUME NEW x \in ExRow
  PROVE  LET y == [x EXCEPT !.pc = "next", !.id = 0]
         IN  y \in ExRow /\ y.pc = "next" /\ y.id = 0 /\ y.kind = x.kind /\ y.todo = x.todo
  <1>1. 0 \in 0..(MaxMsgs + MaxNet)
    BY MessagesAssumption, NetworksAssumption
  <1> QED  BY <1>1 DEF ExRow

LEMMA RestRow == Resting \in ExRow /\ Resting.pc = "idle" /\ Resting.todo = {} /\ Resting.kind = "net"
  <1>1. 0 \in 0..(MaxMsgs + MaxNet) /\ 0 \in 0..MaxTime
    BY MessagesAssumption, NetworksAssumption
  <1>2. {} \in SUBSET (1..(MaxMsgs + MaxNet)) /\ "net" \in Kinds /\ "idle" \in {"idle", "next"}
    BY DEF Kinds
  <1> QED  BY <1>1, <1>2 DEF Resting, ExRow

(* The exporter's steps leave the board alone but for the queue.           *)
LEMMA ExStrong ==
  ASSUME Strong, UNCHANGED BoardFrame, UNCHANGED <<akavars, hub>>, Queue',
         Filed', NEW x, ex' = x, NEW busy, Busy' = busy, RowDone(x, busy)'
  PROVE  Strong'
  <1>1. Outbound'
    BY OutboundPartsNext
  <1>2. Addresses'
    BY AddressesKept DEF Strong
  <1> QED  BY <1>1, <1>2, NetStrong

LEMMA FrameOfMsgvars ==
  ASSUME UNCHANGED msgvars PROVE UNCHANGED BoardFrame /\ UNCHANGED echo
  BY DEF msgvars, BoardFrame

LEMMA ExportStartStrong ==
  ASSUME Strong, NEW k \in Kinds, ExportStart(k) PROVE Strong'
  <1> DEFINE todo == IF k = "net" THEN db_fido_netmail_list ELSE db_fido_echo_queue_pending
             x == [Resting EXCEPT !.pc = "next", !.kind = k, !.todo = todo]
  <1>1. /\ UNCHANGED BoardFrame /\ UNCHANGED echo
        /\ UNCHANGED <<akavars, netmail, packets, out, hub>>
    BY FrameOfMsgvars DEF ExportStart
  <1>2. ex' = x
    BY DEF ExportStart
  <1>3. Queue' /\ Filed /\ Queue
    BY <1>1, QueueSame, OutboundParts DEF Strong
  <1>4. PICK n \in Nat : n = Len(netmail) /\ DOMAIN netmail = 1..n /\ n <= MaxNet
    BY <1>3, LenProperties DEF Filed
  <1>5. /\ todo \subseteq 1..(MaxMsgs + MaxNet)
        /\ k = "net" => \A i \in todo : i \in DOMAIN netmail /\ netmail[i] # "sent"
        /\ k = "echo" => todo \subseteq 1..MaxMsgs /\ todo \cap echo.exported = {}
    <2>1. CASE k = "net"
      <3>1. todo \subseteq DOMAIN netmail /\ \A i \in todo : netmail[i] = "pending"
        BY <2>1 DEF db_fido_netmail_list
      <3> QED  BY <2>1, <3>1, <1>4, MessagesAssumption, NetworksAssumption
    <2>2. CASE k = "echo"
      <3>1. todo = echo.pending /\ echo.pending \subseteq 1..MaxMsgs
        BY <2>2, <1>3 DEF db_fido_echo_queue_pending, Queue, Echo
      <3> QED  BY <2>2, <3>1, <1>3, MessagesAssumption, NetworksAssumption DEF Queue
    <2> QED  BY <2>1, <2>2 DEF Kinds
  <1>6. PICK d : d = todo
    OBVIOUS
  <1>7. PICK y : y = x
    OBVIOUS
  <1>8. y \in ExRow /\ y.pc = "next" /\ y.kind = k /\ y.todo = d /\ y.id = 0
    <2>1. 0 \in 0..(MaxMsgs + MaxNet) /\ 0 \in 0..MaxTime
      BY MessagesAssumption, NetworksAssumption
    <2>2. y = [pc |-> "next", kind |-> k, todo |-> d, id |-> 0, at |-> 0]
      BY <1>6, <1>7 DEF Resting
    <2>3. d \subseteq 1..(MaxMsgs + MaxNet)
      BY <1>5, <1>6
    <2> QED  BY <2>1, <2>2, <2>3 DEF ExRow
  <1> HIDE DEF todo, x
  <1>9. ex' = y /\ Busy' = d
    BY <1>2, <1>7, <1>8 DEF Busy
  <1>10. Filed'
    BY <1>1, <1>3 DEF Filed
  <1>11. RowDone(y, d)'
    BY <1>1, <1>5, <1>6, <1>8, MessagesAssumption DEF RowDone
  <1> QED  BY <1>1, <1>3, <1>9, <1>10, <1>11, ExStrong

LEMMA ExportRestStrong ==
  ASSUME Strong, ExportEnd \/ Killed PROVE Strong'
  <1>1. /\ UNCHANGED BoardFrame /\ UNCHANGED echo
        /\ UNCHANGED <<akavars, netmail, packets, out, hub>> /\ ex' = Resting
    BY FrameOfMsgvars DEF ExportEnd, Killed
  <1>2. Queue' /\ Filed
    BY <1>1, QueueSame, OutboundParts DEF Strong
  <1>3. Filed'
    BY <1>1, <1>2 DEF Filed
  <1>4. Busy' = {}
    BY <1>1, RestRow DEF Busy
  <1>5. RowDone(Resting, {})'
    BY RestRow DEF RowDone
  <1> QED  BY <1>1, <1>2, <1>3, <1>4, <1>5, ExStrong

(* The file is there before anything is recorded.                          *)
LEMMA WriteFileStrong ==
  ASSUME Strong, NEW i, WriteFile(i) PROVE Strong'
  <1>1. /\ UNCHANGED BoardFrame /\ UNCHANGED echo
        /\ UNCHANGED <<akavars, netmail, packets, hub>>
        /\ ex.pc = "next" /\ i \in ex.todo
    BY FrameOfMsgvars DEF WriteFile
  <1>2. Queue' /\ Filed /\ RowDone(ex, Busy) /\ ex \in ExRow
    BY <1>1, QueueSame, OutboundParts DEF Strong, Outbound
  <1>3. PICK p : p = IF ex.kind = "net" THEN "record" ELSE "mark"
    OBVIOUS
  <1>4. PICK t : t = now
    OBVIOUS
  <1>5. PICK y : y = [ex EXCEPT !.pc = p, !.id = i, !.at = t, !.todo = @ \ {i}]
    OBVIOUS
  <1>6. ex' = y /\ out' = out \cup {<<ex.kind, i, t>>}
    BY <1>3, <1>4, <1>5 DEF WriteFile
  <1>7. PICK k \in Kinds : k = ex.kind
    BY <1>2, ExRecord
  <1>8. PICK d : d = ex.todo
    OBVIOUS
  <1>9. i \in 1..(MaxMsgs + MaxNet) /\ t \in 0..MaxTime /\ d \subseteq 1..(MaxMsgs + MaxNet)
    BY <1>1, <1>2, <1>4, <1>8, ExRecord DEF Strong, Board
  <1>10. /\ y \in ExRow /\ y.pc = p /\ y.id = i /\ y.at = t /\ y.todo = d \ {i} /\ y.kind = k
         /\ p \in {"record", "mark"}
    <2>1. p \in {"record", "mark"}
      BY <1>3
    <2>2. i \in 0..(MaxMsgs + MaxNet) /\ d \ {i} \in SUBSET (1..(MaxMsgs + MaxNet))
      BY <1>9
    <2> QED  BY <1>2, <1>5, <1>7, <1>8, <1>9, <2>1, <2>2 DEF ExRow
  <1>11. Busy = d /\ Busy' = d
    <2>1. Busy = d
      BY <1>1, <1>8 DEF Busy
    <2>2. Busy' = (d \ {i}) \cup {i}
      BY <1>6, <1>10 DEF Busy
    <2> QED  BY <1>1, <1>8, <2>1, <2>2
  <1>12. Filed'
    <2>1. <<k, i, t>> \in Files
      BY <1>9 DEF Files
    <2>2. out' = out \cup {<<k, i, t>>}
      BY <1>6, <1>7
    <2> QED  BY <1>1, <1>2, <2>1, <2>2 DEF Filed
  <1>13. RowDone(y, d)'
    <2>1. <<y.kind, y.id, y.at>> \in out'
      BY <1>6, <1>7, <1>10
    <2>2. k = "net" => \A j \in d : j \in DOMAIN netmail /\ netmail[j] # "sent"
      BY <1>2, <1>7, <1>11 DEF RowDone
    <2>3. k = "echo" => /\ d \subseteq 1..MaxMsgs /\ d \cap echo.exported = {}
                        /\ p = "mark" /\ i <= MaxMsgs /\ i \in 1..MaxMsgs
      <3>1. k = "echo" => d \subseteq 1..MaxMsgs /\ d \cap echo.exported = {}
        BY <1>2, <1>7, <1>8, <1>11 DEF RowDone
      <3>2. k = "echo" => p = "mark"
        BY <1>3, <1>7
      <3> QED  BY <1>1, <1>8, <3>1, <3>2, MessagesAssumption
    <2>4. i > 0 /\ i \notin d \ {i}
      BY <1>9
    <2>5. p # "water"
      BY <1>10
    <2> QED  BY <1>1, <1>10, <2>1, <2>2, <2>3, <2>4, <2>5 DEF RowDone
  <1> QED  BY <1>1, <1>2, <1>6, <1>11, <1>12, <1>13, ExStrong

LEMMA PacketStrong == ASSUME Strong, db_mail_packet_add PROVE Strong'
  <1>1. /\ UNCHANGED BoardFrame /\ UNCHANGED echo
        /\ UNCHANGED <<akavars, netmail, out, hub>>
        /\ ex.pc = "record" /\ packets' = packets \cup {File}
    BY FrameOfMsgvars DEF db_mail_packet_add
  <1>2. Queue' /\ Filed /\ RowDone(ex, Busy) /\ ex \in ExRow
    BY <1>1, QueueSame, OutboundParts DEF Strong, Outbound
  <1>3. PICK y : y = [ex EXCEPT !.pc = "mark"]
    OBVIOUS
  <1>4. ex' = y
    BY <1>3 DEF db_mail_packet_add
  <1>5. /\ y \in ExRow /\ y.pc = "mark" /\ y.id = ex.id /\ y.at = ex.at /\ y.todo = ex.todo
        /\ y.kind = ex.kind
    BY <1>2, <1>3 DEF ExRow
  <1>6. PICK d : d = ex.todo \cup {ex.id}
    OBVIOUS
  <1>7. Busy = d /\ Busy' = d
    BY <1>1, <1>4, <1>5, <1>6 DEF Busy
  <1>8. File \in out
    BY <1>1, <1>2 DEF RowDone, File
  <1>9. Filed'
    BY <1>1, <1>2, <1>8 DEF Filed
  <1>10. RowDone(y, d)'
    BY <1>1, <1>2, <1>5, <1>7 DEF RowDone
  <1> QED  BY <1>1, <1>2, <1>4, <1>7, <1>9, <1>10, ExStrong

(* The row is marked while its file is there.                              *)
LEMMA NetMarkedStrong == ASSUME Strong, NetMarked PROVE Strong'
  <1>1. /\ UNCHANGED BoardFrame /\ UNCHANGED echo
        /\ UNCHANGED <<akavars, packets, out, hub>>
        /\ ex.pc = "mark" /\ ex.kind = "net"
    BY FrameOfMsgvars DEF NetMarked
  <1>2. Queue' /\ Filed /\ RowDone(ex, Busy) /\ ex \in ExRow
    BY <1>1, QueueSame, OutboundParts DEF Strong, Outbound
  <1>3. PICK y : y = [ex EXCEPT !.pc = "next", !.id = 0]
    OBVIOUS
  <1>4. PICK d : d = ex.todo
    OBVIOUS
  <1>5. ex' = y /\ y \in ExRow /\ y.pc = "next" /\ y.id = 0 /\ y.kind = "net" /\ y.todo = d
    BY <1>1, <1>2, <1>3, <1>4, NextRow DEF NetMarked
  <1>6. Busy = d \cup {ex.id} /\ Busy' = d
    BY <1>1, <1>4, <1>5 DEF Busy
  <1>7. PICK i : i = ex.id
    OBVIOUS
  <1>8. /\ i \in DOMAIN netmail /\ netmail[i] # "sent" /\ i \notin d
        /\ \E f \in out : f[1] = "net" /\ f[2] = i
    <2>1. i \in DOMAIN netmail /\ netmail[i] # "sent" /\ i \notin d /\ <<ex.kind, i, ex.at>> \in out
      BY <1>1, <1>2, <1>4, <1>6, <1>7 DEF RowDone
    <2>2. <<ex.kind, i, ex.at>>[1] = "net" /\ <<ex.kind, i, ex.at>>[2] = i
      BY <1>1
    <2> QED  BY <2>1, <2>2
  <1>9. PICK v \in {"sent", netmail[i]} : netmail' = [netmail EXCEPT ![i] = v]
    <2>1. netmail' = [netmail EXCEPT ![i] = IF netmail[i] = "pending" THEN "sent" ELSE netmail[i]]
      BY <1>7 DEF NetMarked, db_fido_netmail_mark_sent
    <2> QED  BY <2>1
  <1>10. netmail \in Seq(NetState) /\ i \in 1..Len(netmail) /\ v \in NetState
    <2>1. netmail \in Seq(NetState) /\ i \in 1..Len(netmail)
      BY <1>2, <1>8, LenProperties DEF Filed
    <2>2. netmail[i] \in NetState /\ "sent" \in NetState
      BY <2>1, ElementOfSeq DEF NetState
    <2> QED  BY <1>9, <2>1, <2>2
  <1>11. /\ netmail' \in Seq(NetState) /\ Len(netmail') = Len(netmail)
         /\ DOMAIN netmail' = DOMAIN netmail
         /\ \A j \in DOMAIN netmail : j # i => netmail'[j] = netmail[j]
    BY <1>9, <1>10, ExceptSeq
  <1>12. Filed'
    <2>1. ASSUME NEW j \in DOMAIN netmail', netmail'[j] = "sent"
          PROVE  \E f \in out : f[1] = "net" /\ f[2] = j
      <3>1. CASE j = i
        BY <1>8, <3>1
      <3>2. CASE j # i
        BY <1>2, <1>11, <2>1, <3>2 DEF Filed
      <3> QED  BY <3>1, <3>2
    <2> QED  BY <1>1, <1>2, <1>11, <2>1 DEF Filed
  <1>13. RowDone(y, d)'
    <2>1. \A j \in d : j \in DOMAIN netmail' /\ netmail'[j] # "sent"
      BY <1>1, <1>2, <1>6, <1>8, <1>11 DEF RowDone
    <2> QED  BY <1>5, <2>1 DEF RowDone
  <1> QED  BY <1>1, <1>2, <1>5, <1>6, <1>12, <1>13, ExStrong

LEMMA EchoMarkedStrong == ASSUME Strong, EchoMarked PROVE Strong'
  <1>1. /\ UNCHANGED BoardFrame /\ UNCHANGED <<akavars, netmail, packets, out, hub>>
        /\ ex.pc = "mark" /\ ex.kind = "echo"
    BY DEF EchoMarked, EchoRest, BoardFrame
  <1>2. Queue /\ Filed /\ RowDone(ex, Busy) /\ ex \in ExRow
    BY OutboundParts DEF Strong, Outbound
  <1>3. PICK y : y = [ex EXCEPT !.pc = "water"]
    OBVIOUS
  <1>4. PICK d : d = ex.todo
    OBVIOUS
  <1>5. PICK i : i = ex.id
    OBVIOUS
  <1>6. /\ ex' = y /\ y \in ExRow /\ y.pc = "water" /\ y.id = i /\ y.kind = "echo" /\ y.todo = d
    BY <1>1, <1>2, <1>3, <1>4, <1>5 DEF EchoMarked, ExRow
  <1>7. Busy = d \cup {i} /\ Busy' = d
    BY <1>1, <1>4, <1>5, <1>6 DEF Busy
  <1>8. /\ d \subseteq 1..MaxMsgs /\ i <= MaxMsgs /\ (d \cup {i}) \cap echo.exported = {}
        /\ i \notin d /\ i > 0 /\ \E f \in out : f[1] = "echo" /\ f[2] = i
    <2>1. /\ d \subseteq 1..MaxMsgs /\ i <= MaxMsgs /\ (d \cup {i}) \cap echo.exported = {}
          /\ i \notin d /\ i > 0 /\ <<ex.kind, i, ex.at>> \in out
      BY <1>1, <1>2, <1>4, <1>5, <1>7 DEF RowDone
    <2>2. <<ex.kind, i, ex.at>>[1] = "echo" /\ <<ex.kind, i, ex.at>>[2] = i
      BY <1>1
    <2> QED  BY <2>1, <2>2
  <1>9. i \in 1..MaxMsgs
    BY <1>2, <1>5, <1>8, ExRecord, MessagesAssumption, NetworksAssumption
  <1>10. /\ echo' \in Echo /\ echo'.link = echo.link
         /\ echo'.pending \cup echo'.exported = echo.pending \cup echo.exported
         /\ echo'.pending \cap echo'.exported = {}
         /\ echo'.exported \subseteq echo.exported \cup {i}
    <2>1. CASE UNCHANGED echo
      BY <1>2, <2>1 DEF Queue
    <2>2. CASE i \in echo.pending /\ echo' = [echo EXCEPT !.pending = @ \ {i}, !.exported = @ \cup {i}]
      <3>1. PICK e \in Echo : e = echo
        BY <1>2 DEF Queue
      <3>2. /\ echo' \in Echo /\ echo'.link = e.link /\ echo'.pending = e.pending \ {i}
            /\ echo'.exported = e.exported \cup {i}
        BY <1>9, <2>2, <3>1 DEF Echo
      <3>3. e.pending \cap e.exported = {}
        BY <1>2, <3>1 DEF Queue
      <3> QED  BY <2>2, <3>1, <3>2, <3>3
    <2> QED  BY <1>5, <2>1, <2>2 DEF EchoMarked, db_fido_echo_queue_mark_exported
  <1>11. Queue'
    <2>1. Msgs' = Msgs /\ msgs' = msgs
      BY <1>1 DEF BoardFrame, Msgs
    <2> QED  BY <1>2, <1>10, <2>1 DEF Queue
  <1>12. Filed'
    <2>1. \A m \in echo'.exported : \E f \in out : f[1] = "echo" /\ f[2] = m
      BY <1>2, <1>8, <1>10 DEF Filed
    <2> QED  BY <1>1, <1>2, <2>1 DEF Filed
  <1>13. RowDone(y, d)'
    BY <1>6, <1>8, <1>10 DEF RowDone
  <1> QED  BY <1>1, <1>6, <1>7, <1>11, <1>12, <1>13, ExStrong

LEMMA WaterStrong == ASSUME Strong, db_fido_echolink_update_highwater PROVE Strong'
  <1>1. /\ UNCHANGED BoardFrame /\ UNCHANGED <<akavars, netmail, packets, out, hub>>
        /\ ex.pc = "water"
    BY DEF db_fido_echolink_update_highwater, EchoRest, BoardFrame
  <1>2. Queue /\ Filed /\ RowDone(ex, Busy) /\ ex \in ExRow
    BY OutboundParts DEF Strong, Outbound
  <1>3. ex.kind = "echo"
    BY <1>1, <1>2, ExRecord DEF RowDone, Kinds
  <1>4. PICK y : y = [ex EXCEPT !.pc = "next", !.id = 0]
    OBVIOUS
  <1>5. PICK d : d = ex.todo
    OBVIOUS
  <1>6. ex' = y /\ y \in ExRow /\ y.pc = "next" /\ y.id = 0 /\ y.kind = "echo" /\ y.todo = d
    BY <1>2, <1>3, <1>4, <1>5, NextRow DEF db_fido_echolink_update_highwater
  <1>7. Busy = d /\ Busy' = d
    BY <1>1, <1>5, <1>6 DEF Busy
  <1>8. d \subseteq 1..MaxMsgs /\ d \cap echo.exported = {} /\ ex.id <= MaxMsgs
    BY <1>2, <1>3, <1>5, <1>7 DEF RowDone
  <1>9. PICK w \in 0..MaxMsgs : echo' = [echo EXCEPT !.hw = w]
    <2>1. ex.id \in 0..MaxMsgs
      BY <1>2, <1>8, ExRecord, MessagesAssumption, NetworksAssumption
    <2>2. echo.hw \in 0..MaxMsgs
      BY <1>2 DEF Queue, Echo
    <2>3. echo' = [echo EXCEPT !.hw = IF echo.link > 0 /\ ex.id > echo.hw THEN ex.id ELSE echo.hw]
      BY DEF db_fido_echolink_update_highwater
    <2> QED  BY <2>1, <2>2, <2>3
  <1>10. /\ echo' \in Echo /\ echo'.link = echo.link /\ echo'.pending = echo.pending
         /\ echo'.exported = echo.exported
    BY <1>2, <1>9, EchoRecords DEF Queue
  <1>11. Queue'
    <2>1. Msgs' = Msgs /\ msgs' = msgs
      BY <1>1 DEF BoardFrame, Msgs
    <2> QED  BY <1>2, <1>10, <2>1 DEF Queue
  <1>12. Filed'
    BY <1>1, <1>2, <1>10 DEF Filed
  <1>13. RowDone(y, d)'
    BY <1>6, <1>8, <1>10, MessagesAssumption DEF RowDone
  <1> QED  BY <1>1, <1>6, <1>7, <1>11, <1>12, <1>13, ExStrong

(* The file taken back belongs to a row that is not marked.                *)
LEMMA WriteFailsStrong == ASSUME Strong, WriteFails PROVE Strong'
  <1>1. /\ UNCHANGED BoardFrame /\ UNCHANGED echo
        /\ UNCHANGED <<akavars, netmail, packets, hub>>
        /\ ex.pc \in {"record", "mark"} /\ out' = out \ {File}
    BY FrameOfMsgvars DEF WriteFails
  <1>2. Queue' /\ Filed /\ RowDone(ex, Busy) /\ ex \in ExRow
    BY <1>1, QueueSame, OutboundParts DEF Strong, Outbound
  <1>3. PICK y : y = [ex EXCEPT !.pc = "next", !.id = 0]
    OBVIOUS
  <1>4. PICK d : d = ex.todo
    OBVIOUS
  <1>5. ex' = y /\ y \in ExRow /\ y.pc = "next" /\ y.id = 0 /\ y.kind = ex.kind /\ y.todo = d
    BY <1>2, <1>3, <1>4, NextRow DEF WriteFails
  <1>6. Busy = d \cup {ex.id} /\ Busy' = d
    BY <1>1, <1>4, <1>5 DEF Busy
  <1>7. ex.kind \in Kinds /\ File[1] = ex.kind /\ File[2] = ex.id
    BY <1>2, ExRecord DEF File
  <1>8. ex.kind = "net" => netmail[ex.id] # "sent"
    BY <1>2, <1>6 DEF RowDone
  <1>9. ex.kind = "echo" => ex.id \notin echo.exported
    BY <1>2, <1>6 DEF RowDone
  <1>10. Filed'
    <2>1. ASSUME NEW j \in DOMAIN netmail, netmail[j] = "sent"
          PROVE  \E f \in out' : f[1] = "net" /\ f[2] = j
      <3>1. PICK f \in out : f[1] = "net" /\ f[2] = j
        BY <1>2, <2>1 DEF Filed
      <3>2. f # File
        BY <1>7, <1>8, <2>1, <3>1
      <3> QED  BY <1>1, <3>1, <3>2
    <2>2. ASSUME NEW m \in echo.exported
          PROVE  \E f \in out' : f[1] = "echo" /\ f[2] = m
      <3>1. PICK f \in out : f[1] = "echo" /\ f[2] = m
        BY <1>2, <2>2 DEF Filed
      <3>2. f # File
        BY <1>7, <1>9, <2>2, <3>1
      <3> QED  BY <1>1, <3>1, <3>2
    <2> QED  BY <1>1, <1>2, <2>1, <2>2 DEF Filed
  <1>11. RowDone(y, d)'
    <2>1. y.kind = "net" => \A j \in d : j \in DOMAIN netmail /\ netmail[j] # "sent"
      BY <1>2, <1>5, <1>6 DEF RowDone
    <2>2. y.kind = "echo" => d \subseteq 1..MaxMsgs /\ d \cap echo.exported = {} /\ y.id <= MaxMsgs
      BY <1>2, <1>4, <1>5, <1>6, MessagesAssumption DEF RowDone
    <2> QED  BY <1>1, <1>5, <2>1, <2>2 DEF RowDone
  <1> QED  BY <1>1, <1>2, <1>5, <1>6, <1>10, <1>11, ExStrong

-----------------------------------------------------------------------------
(* Every step.                                                             *)

LEMMA MsgStepStrong ==
  ASSUME Strong, NEW s \in Sessions, MsgStep(s), UNCHANGED netvars PROVE Strong'
  <1>1. CASE Login(s) \/ Logoff(s) \/ PostOpen(s) \/ PostSend(s) \/ ComposeEnd(s) \/ ComposeLost(s)
    BY <1>1, LoginStrong, LogoffStrong, PostOpenStrong, PostSendStrong, ComposeEndStrong,
       ComposeLostStrong
  <1>2. CASE \/ FseditOpen(s) \/ FseditPost(s) \/ EditSave(s) \/ SmwOpen(s) \/ QwkOpen(s)
             \/ QwkDone(s) \/ QwkFailed(s) \/ cmd_user_pack(s) \/ cmd_message_pack(s)
    BY <1>2, FseditOpenStrong, FseditPostStrong, EditSaveStrong, SmwOpenStrong, QwkOpenStrong,
       QwkDoneStrong, QwkFailedStrong, UserPackStrong, MessagePackStrong
  <1>3. CASE \/ cmd_msg_continuous_read(s) \/ cmd_msg_search(s) \/ cmd_msg_new_scan(s)
             \/ cmd_msg_read_private(s) \/ cmd_msg_your_messages(s)
    BY <1>3, ReadingStrong
  <1>4. CASE \E a \in 1..MaxAreas : \/ cmd_msg_area_change(s, a) \/ cmd_msg_toggle_scan_areas(s, a)
                                    \/ qwk_import_rep(s, a)
    BY <1>4, AreaChangeStrong, ToggleStrong, ImportStrong
  <1>5. CASE \E m \in 1..MaxMsgs : \/ cmd_msg_read(s, m) \/ cmd_msg_thread_view(s, m)
                                   \/ cmd_msg_jump_reply(s, m) \/ cmd_msg_your_scan(s, m)
                                   \/ cmd_msg_list(s, m)
                                   \/ ReplyOpen(s, m) \/ EditOpen(s, m)
    BY <1>5, ReadingStrong, ReplyOpenStrong, EditOpenStrong
  <1>6. CASE \E t \in Users : EmailOpen(s, t) \/ SmwSend(s, t)
    BY <1>6, EmailOpenStrong, SmwSendStrong
  <1>7. CASE \E i \in 1..MaxSms : SmwDelete(s, i)
    BY <1>7, SmwDeleteStrong
  <1>8. CASE \E n \in AreaNames : AreaDelete(s, n) \/ \E acs \in BOOLEAN : AreaAdd(s, n, acs)
    BY <1>8, AreaDeleteStrong, AreaAddStrong
  <1> QED  BY <1>1, <1>2, <1>3, <1>4, <1>5, <1>6, <1>7, <1>8 DEF MsgStep

LEMMA SysopStrong == ASSUME Strong, NEW s \in Sessions, SysopStep(s) PROVE Strong'
  <1>1. 1 \in 1..MaxAreas
    BY MessagesAssumption
  <1>2. CASE AkaStep(s)
    BY <1>2, AkasStrong
  <1>3. CASE EcholinkDelete(s) \/ HubAdd(s) \/ HubDelete(s)
    BY <1>1, <1>3, LinksStrong, HubsStrong
  <1>4. CASE \E i \in 1..MaxAkas : AkaDelete(s, i)
    BY <1>4, AkaDeleteStrong
  <1>5. CASE \E i \in 1..MaxNet : NetmailDelete(s, i)
    BY <1>5, NetmailDeleteStrong
  <1>6. CASE \E a \in 1..MaxAreas : EcholinkAdd(s, a) \/ HubLink(s, a) \/ HubUnlink(s, a)
    BY <1>6, LinksStrong, HubsStrong
  <1> QED  BY <1>2, <1>3, <1>4, <1>5, <1>6 DEF SysopStep, AkaStep

LEMMA ExportStrong == ASSUME Strong, Export PROVE Strong'
  BY ExportStartStrong, WriteFileStrong, PacketStrong, NetMarkedStrong, EchoMarkedStrong,
     WaterStrong, WriteFailsStrong, ExportRestStrong DEF Export

LEMMA StutterStrong == ASSUME Strong, UNCHANGED vars PROVE Strong'
  <1>1. UNCHANGED <<Others, sess, drafts, sms, smw>>
    BY DEF vars, msgvars, Others
  <1> QED  BY <1>1, DeskIdle

LEMMA StepStrong == Strong /\ [Next]_vars => Strong'
  <1> SUFFICES ASSUME Strong, [Next]_vars PROVE Strong'
    OBVIOUS
  <1>1. CASE \E s \in Sessions : MsgStep(s) /\ UNCHANGED netvars
    BY <1>1, MsgStepStrong
  <1>2. CASE Tick /\ UNCHANGED netvars
    BY <1>2, TickStrong
  <1>3. CASE \E s \in Sessions : SysopStep(s) \/ NetmailOpen(s) \/ NetmailSend(s)
    BY <1>3, SysopStrong, NetmailOpenStrong, NetmailSendStrong
  <1>4. CASE Export
    BY <1>4, ExportStrong
  <1>5. CASE UNCHANGED vars
    BY <1>5, StutterStrong
  <1> QED  BY <1>1, <1>2, <1>3, <1>4, <1>5 DEF Next

-----------------------------------------------------------------------------
(* The first state.                                                        *)

LEMMA InitStrong == Init => Strong
  <1> SUFFICES ASSUME Init PROVE Strong
    OBVIOUS
  <1>1. 1 \in 1..MaxAreas /\ 0 \in 0..MaxAreas /\ 1 \in 0..MaxTime /\ 0 \in 0..MaxTime
        /\ 0 \in 0..MaxMsgs /\ 0 \in 0..MaxSms /\ 0 \in 0..MaxAkas /\ MaxNet \in Nat
        /\ MaxMsgs \in Nat /\ MaxSms \in Nat /\ 1 \in 0..MaxAreas
    BY MessagesAssumption, NetworksAssumption
  <1>2. Len(msgs) = 0 /\ Msgs = {} /\ Len(sms) = 0 /\ DOMAIN netmail = {} /\ Len(netmail) = 0
    BY DEF Init, MsgInit, Msgs
  <1>3. areas \in [AreaNames -> AreaRow] /\ \A n \in AreaNames : areas[n].id \in {0, 1}
    <2> DEFINE y == [id |-> 1, acs |-> FALSE]
               z == [id |-> 0, acs |-> FALSE]
               c == CHOOSE x \in AreaNames : TRUE
    <2>1. y \in AreaRow /\ z \in AreaRow /\ y.id \in {0, 1} /\ z.id \in {0, 1}
      BY <1>1 DEF AreaRow
    <2>2. areas = [n \in AreaNames |-> IF n = c THEN y ELSE z]
      BY DEF Init, MsgInit
    <2> HIDE DEF y, z, c
    <2> QED  BY <2>1, <2>2
  <1>4. Board
    <2>1. msgs \in Seq(MsgRow)
      BY EmptySeq DEF Init, MsgInit
    <2> QED  BY <1>1, <1>2, <1>3, <2>1 DEF Board, Init, MsgInit
  <1>5. Threads
    BY <1>2 DEF Threads
  <1>6. Reading
    <2>1. \A u \in Users : Readable(u, areas) \subseteq {1}
      BY <1>3 DEF Readable
    <2>2. opened = [u \in Users |-> {1}] /\ seen = [u \in Users |-> {}]
      BY DEF Init, MsgInit
    <2> QED  BY <1>1, <2>1, <2>2 DEF Reading
  <1>7. Callers
    <2>1. sess = [s \in Sessions |-> Off(s)]
      BY DEF Init, MsgInit
    <2>2. \A s \in Sessions : RowOK(s, Off(s)) /\ Off(s) \in SessRow
      BY RowOff
    <2> QED  BY <2>1, <2>2 DEF Callers
  <1>8. Packed
    BY <1>1, <1>4 DEF Packed, Init, MsgInit, Board
  <1>9. Notes
    <2>1. sms \in Seq(Sms)
      BY EmptySeq DEF Init, MsgInit
    <2>2. smw = [u \in Users |-> 0]
      BY DEF Init, MsgInit
    <2> QED  BY <1>1, <1>2, <2>1, <2>2 DEF Notes
  <1>10. Drafted
    <2>1. drafts = [u \in Users |-> <<>>] /\ <<>> \in Seq(DraftRow) /\ Len(<<>>) = 0
      BY EmptySeq DEF Init, MsgInit
    <2>2. \A u \in Users : Apart(drafts[u])
      BY <2>1 DEF Apart
    <2>3. drafts \in [Users -> Seq(DraftRow)]
      BY <2>1
    <2> QED  BY <2>2, <2>3, DraftedLists
  <1>11. Queue /\ echo.exported = {}
    <2>1. echo = [link |-> 0, hw |-> 0, pending |-> {}, exported |-> {}, hub |-> {}]
      BY DEF Init, MsgInit
    <2>2. echo \in Echo /\ echo.pending = {} /\ echo.exported = {}
      BY <1>1, <2>1 DEF Echo
    <2> QED  BY <2>2 DEF Queue
  <1>12. Addresses
    <2>1. Blank \in Form /\ ~Blank.cleared
      BY <1>1 DEF Blank, Form
    <2>2. /\ akas = [i \in 1..MaxAkas |-> "none"] /\ akaIds = 0 /\ hub = FALSE
          /\ by = [i \in 1..MaxAkas |-> Nobody] /\ form = [s \in Sessions |-> Blank]
      BY DEF Init
    <2>3. \A s \in Sessions : ~form[s].cleared
      BY <2>1, <2>2
    <2>4. \A i \in 1..MaxAkas : akas[i] # "primary"
      BY <2>2
    <2>5. /\ akas \in [1..MaxAkas -> {"none", "aka", "primary"}]
          /\ by \in [1..MaxAkas -> Sessions \cup {Nobody}] /\ form \in [Sessions -> Form]
      BY <2>1, <2>2
    <2>6. PrimaryEach
      BY <2>4 DEF PrimaryEach, db_fido_aka_get_primary
    <2> QED  BY <1>1, <2>2, <2>3, <2>5, <2>6 DEF Addresses
  <1>13. Outbound
    <2>1. netmail \in Seq(NetState) /\ packets = {} /\ out = {} /\ ex = Resting
      BY EmptySeq DEF Init
    <2>2. Filed
      BY <1>1, <1>2, <1>11, <2>1 DEF Filed
    <2>3. Busy = {} /\ RowDone(ex, Busy)
      BY <2>1, RestRow DEF Busy, RowDone
    <2> QED  BY <2>2, <2>3, OutboundParts
  <1> QED  BY <1>4, <1>5, <1>6, <1>7, <1>8, <1>9, <1>10, <1>11, <1>12, <1>13 DEF Strong

LEMMA AlwaysStrong == Spec => []Strong
  <1>1. Init => Strong
    BY InitStrong
  <1>2. Strong /\ [Next]_vars => Strong'
    BY StepStrong
  <1> QED  BY <1>1, <1>2, PTL DEF Spec

-----------------------------------------------------------------------------
(* What follows.                                                           *)

(* Nothing is shown on the screen to an account from an area that was      *)
(* never open to it (msg_area_can), what is marked sent or exported is in  *)
(* a file of the outbound directory wherever the exporter was killed or    *)
(* refused, every sysop leaves one primary address at most unless a        *)
(* statement of his that clears the flags was refused, and an area has one *)
(* draft.                                                                  *)
THEOREM NetworksCorrect == Spec => []NetworksInv
  <1>1. Strong => NetworksInv
    <2> SUFFICES ASSUME Strong PROVE NetworksInv
      OBVIOUS
    <2>1. TypeOK
      <3>1. \A i \in DOMAIN sms : sms[i] \in Sms
        BY LenProperties, ElementOfSeq DEF Strong, Notes
      <3>2. \A i \in DOMAIN netmail : netmail[i] \in {"pending", "sent", "gone"}
        BY LenProperties, ElementOfSeq DEF Strong, Outbound, NetState
      <3>3. \A u \in Users : \A i \in DOMAIN drafts[u] :
              drafts[u][i] \in [area : 0..MaxAreas, to : Users]
        <4>1. ASSUME NEW u \in Users PROVE \A i \in DOMAIN drafts[u] : drafts[u][i] \in DraftRow
          BY LenProperties, ElementOfSeq DEF Strong, Drafted
        <4> QED  BY <4>1 DEF DraftRow
      <3>4. Len(msgs) <= MaxMsgs /\ \A m \in Msgs : msgs[m] \in MsgRow
        BY MsgsTyped DEF Strong, Board
      <3>5. ex.pc \in {"idle", "next", "record", "mark", "water"} /\ packets \subseteq Files
            /\ out \subseteq Files
        BY ExRecord DEF Strong, Outbound
      <3>6. accounts \subseteq Users /\ areas \in [AreaNames -> AreaRow] /\ areaIds \in 0..MaxAreas
        BY DEF Strong, Board
      <3>7. smw \in [Users -> 0..MaxSms] /\ last_qwk \in [Users -> 0..MaxTime]
        BY DEF Strong, Notes, Packed
      <3>8. echo \in Echo /\ sess \in [Sessions -> SessRow]
        BY DEF Strong, Queue, Callers
      <3>9. /\ akas \in [1..MaxAkas -> {"none", "aka", "primary"}] /\ hub \in BOOLEAN
            /\ akaIds \in 0..MaxAkas
            /\ by \in [1..MaxAkas -> Sessions \cup {Nobody}] /\ form \in [Sessions -> Form]
        BY DEF Strong, Addresses
      <3> QED  BY <3>1, <3>2, <3>3, <3>4, <3>5, <3>6, <3>7, <3>8, <3>9 DEF TypeOK
    <2>2. SeenAllowed
      BY DEF Strong, Reading, SeenAllowed
    <2>3. Exported
      BY DEF Strong, Queue, Outbound, Exported
    <2>4. PrimaryEach
      BY DEF Strong, Addresses
    <2>5. OneDraft
      BY DEF Strong, Drafted
    <2> QED  BY <2>1, <2>2, <2>3, <2>4, <2>5 DEF NetworksInv
  <1> QED  BY <1>1, AlwaysStrong, PTL

(* Whatever answers a message is in its area and in the thread of its root *)
(* (db_message_post), though area and message answered were read before    *)
(* the reply was composed.                                                 *)
THEOREM ThreadsWhole == Spec => []ThreadWhole
  <1>1. Strong => ThreadWhole
    <2> SUFFICES ASSUME Strong, NEW m \in Msgs, msgs[m].reply > 0
                 PROVE  LET r == msgs[m].root IN
                        /\ r \in 1..(m - 1) /\ msgs[r].root = 0 /\ msgs[r].area \in Ids
                        /\ {m, msgs[m].reply} \subseteq db_message_reply_tree(msgs[m].area, r)
      BY DEF ThreadWhole
    <2>1. Answers(m) /\ msgs[m].area \in Ids
      BY DEF Strong, Threads, Roots
    <2>2. \A k \in 1..(m - 1) : k \in Msgs
      BY MsgsTyped DEF Strong, Msgs
    <2>3. PICK r : r = msgs[m].root
      OBVIOUS
    <2>4. PICK p : p = msgs[m].reply
      OBVIOUS
    <2>5. /\ r \in 1..(m - 1) /\ p \in Msgs /\ msgs[r].root = 0 /\ msgs[r].area = msgs[m].area
          /\ msgs[p].area = msgs[m].area /\ (p = r \/ msgs[p].root = r)
      BY <2>1, <2>2, <2>3, <2>4 DEF Answers
    <2>6. {m, p} \subseteq db_message_reply_tree(msgs[m].area, r)
      BY <2>3, <2>5 DEF db_message_reply_tree
    <2> QED  BY <2>1, <2>3, <2>4, <2>5, <2>6
  <1> QED  BY <1>1, AlwaysStrong, PTL

(* No message is in two of the packets an account has downloaded, whatever *)
(* is posted between building a packet and stamping the date               *)
(* (qwk_generate_packet, db_user_set_last_qwk), and across log-ins.        *)
THEOREM QwkOnceOnly == Spec => []QwkOnce
  <1>1. Strong => QwkOnce
    BY DEF Strong, Packed, QwkOnce
  <1> QED  BY <1>1, AlwaysStrong, PTL
=============================================================================
