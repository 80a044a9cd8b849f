------------------------------- MODULE Tables -------------------------------
(***************************************************************************)
(* The tables a caller uses and a sysop edits from the menu: votes,        *)
(* conferences, protocols, file areas, subscription types, bulletins,      *)
(* one-liners, and the menu files.  Every editor of session.c has the same *)
(* shape: it reads rows, waits for the keyboard, and writes what was typed *)
(* over rows another session may have changed meanwhile.                   *)
(*                                                                         *)
(* Each SQL statement is one step of the database and each wait is a state *)
(* of the session.  Foreign keys are enforced.  Titles, labels and bodies  *)
(* are left out: a row keeps its key and the columns other rows or the     *)
(* editors look at.                                                        *)
(***************************************************************************)
EXTENDS Integers, FiniteSets, FiniteSetsExt, Sequences, SequencesExt, TLC

CONSTANTS
  Users,        \* the callers, one session each
  Sysops,       \* the callers with the A flag
  Restricted,   \* the callers with AC_RVOTING
  RowNames,     \* keys of conferences, protocols, file areas and menu files
  Keys,         \* menu keys
  InUse,        \* the file areas that have files
  VoteMax,      \* rows db_vote_list returns to the vote editor
  MaxVotes, MaxChoices, MaxRows, MaxItems, MaxWork    \* bounds

ASSUME TablesAssumption ==
  /\ Sysops \subseteq Users /\ Restricted \subseteq Users /\ InUse \subseteq RowNames
  /\ VoteMax \in Nat \ {0}
  /\ {MaxVotes, MaxChoices, MaxRows, MaxItems, MaxWork} \subseteq Nat
  /\ MaxVotes >= 1 /\ MaxChoices >= 2 /\ MaxItems >= 1

VARIABLES
  db,           \* the tables and the menu files
  at,           \* what each session is waiting for
  work          \* commands started

vars == <<db, at, work>>

(***************************************************************************)
(* db.votes: ids; db.choices: id -> vote; db.ballots: <<vote, user>> ->    *)
(* choice; db.confs: id -> row; db.members: <<user, conference>>;          *)
(* db.protos: id -> row; db.areas: name -> row; db.subs: names;            *)
(* db.posts: rows of bulletins and oneliners; db.menus: file -> items;     *)
(* db.last: the last id of each AUTOINCREMENT table.                       *)
(***************************************************************************)
Row == [key : RowNames, on : BOOLEAN]
AreaRow == [path : BOOLEAN, acs : BOOLEAN]
AtMenu == [op |-> "menu"]

Put(f, k, v) == [i \in DOMAIN f \cup {k} |-> IF i = k THEN v ELSE f[i]]
Drop(f, k) == [i \in DOMAIN f \ {k} |-> f[i]]
Newest(S, n) == {i \in S : Cardinality({j \in S : j > i}) < n}
Tables == {"votes", "choices", "confs", "protos"}
Bound(t) == CASE t = "votes" -> MaxVotes [] t = "choices" -> MaxChoices [] OTHER -> MaxRows
Room(t) == db.last[t] < Bound(t)

----------------------------------------------------------------------------
(* Votes.  A result d is the database after the statement.                 *)

db_vote_list(d, max) == Newest(d.votes, max)
db_vote_choices(d, v) == {c \in DOMAIN d.choices : d.choices[c] = v}
db_vote_results(d, v) ==
  [c \in {d.ballots[b] : b \in {b \in DOMAIN d.ballots : b[1] = v}} |->
     Cardinality({b \in DOMAIN d.ballots : b[1] = v /\ d.ballots[b] = c})]
db_vote_total(d, v) == Cardinality({b \in DOMAIN d.ballots : b[1] = v})

(* The row must name an existing vote and an existing choice, which need   *)
(* not be one of that vote; a second ballot replaces the first.            *)
CastUnchecked(d, v, c, u) ==
  IF v \in d.votes THEN [d EXCEPT !.ballots = Put(@, <<v, u>>, c)] ELSE d

db_vote_cast(d, v, c, u) ==
  IF v \in d.votes /\ c \in DOMAIN d.choices
  THEN [d EXCEPT !.ballots = Put(@, <<v, u>>, c)] ELSE d

db_vote_add(d) ==
  LET id == d.last.votes + 1
  IN  [d EXCEPT !.votes = @ \cup {id}, !.last.votes = id]

db_vote_choice_add(d, v) ==
  LET id == d.last.choices + 1
  IN  IF v \in d.votes
      THEN [d EXCEPT !.choices = Put(@, id, v), !.last.choices = id] ELSE d

DeleteBallots(d, v, step) ==
  LET cast == {b \in DOMAIN d.ballots : b[1] = v}
  IN  IF step = 1 THEN [d EXCEPT !.ballots = [b \in DOMAIN @ \ cast |-> @[b]]] ELSE d

(* Its two statements, each refused while a ballot, or a choice, refers to *)
(* a row it would delete; neither is in a transaction.                     *)
db_vote_delete(d, v, step) ==
  LET mine == db_vote_choices(d, v)
      used == \E b \in DOMAIN d.ballots :
                IF step = 1 THEN d.ballots[b] \in mine ELSE b[1] = v
  IN  CASE used -> d
        [] ~used /\ step = 1 ->
             [d EXCEPT !.choices = [c \in DOMAIN @ \ mine |-> @[c]]]
        [] ~used /\ step = 2 ->
             IF mine = {} THEN [d EXCEPT !.votes = @ \ {v}] ELSE d

(* Conferences and memberships *)

db_conference_list(d) == DOMAIN d.confs
db_conference_get(d, i) == d.confs[i]

db_conference_add(d, k) ==
  LET id == d.last.confs + 1
  IN  IF \E i \in DOMAIN d.confs : d.confs[i].key = k THEN d
      ELSE [d EXCEPT !.confs = Put(@, id, [key |-> k, on |-> FALSE]), !.last.confs = id]

db_conference_update(d, i, on) ==
  IF i \in DOMAIN d.confs THEN [d EXCEPT !.confs[i].on = on] ELSE d

(* The conference goes first, so a conference with members stays.          *)
db_conference_delete(d, i) ==
  IF \E m \in d.members : m[2] = i THEN d
  ELSE [d EXCEPT !.confs = Drop(@, i), !.members = {m \in @ : m[2] # i}]

db_conf_join(d, u, i) ==
  IF i \in DOMAIN d.confs THEN [d EXCEPT !.members = @ \cup {<<u, i>>}] ELSE d
db_conf_leave(d, u, i) == [d EXCEPT !.members = @ \ {<<u, i>>}]
db_conf_list_user(d, u) == {i \in DOMAIN d.confs : <<u, i>> \in d.members}

(* Protocols *)

NameTaken(d, k, but) == \E i \in DOMAIN d.protos \ {but} : d.protos[i].key = k

db_protocol_add(d, k) ==
  LET id == d.last.protos + 1
  IN  IF NameTaken(d, k, 0) THEN d
      ELSE [d EXCEPT !.protos = Put(@, id, [key |-> k, on |-> TRUE]), !.last.protos = id]

db_protocol_update(d, i, row) ==
  IF i \notin DOMAIN d.protos \/ NameTaken(d, row.key, i) THEN d
  ELSE [d EXCEPT !.protos[i] = row]
db_protocols_list(d) == DOMAIN d.protos
db_protocol_get(d, i) == d.protos[i]
db_protocol_delete(d, i) == [d EXCEPT !.protos = Drop(@, i)]

(* File areas: an insert over an existing name replaces path and ACS.      *)
db_file_area_manage(d, n, path, acs, del) ==
  CASE del /\ n \in InUse -> d
    [] del /\ n \notin InUse -> [d EXCEPT !.areas = Drop(@, n)]
    [] ~del -> [d EXCEPT !.areas = Put(@, n, [path |-> path, acs |-> acs])]

db_subscription_type_add(d, n) == [d EXCEPT !.subs = @ \cup {n}]
db_bulletin_add(d) == [d EXCEPT !.posts.bulletins = @ + 1]
db_oneliner_add(d) == [d EXCEPT !.posts.oneliners = @ + 1]

(* Menu files: menu_save truncates the file and writes it at fclose.       *)
menu_load(d, f) == d.menus[f]
menu_open(d, f) == [d EXCEPT !.menus = Put(@, f, <<>>)]
menu_save(d, f, items) == [d EXCEPT !.menus = Put(@, f, items)]
menu_delete_file(d, f) == [d EXCEPT !.menus = Drop(@, f)]

----------------------------------------------------------------------------
Init ==
  /\ db = [votes |-> {1}, choices |-> [c \in 1..2 |-> 1], ballots |-> <<>>,
           confs |-> <<>>, members |-> {}, protos |-> <<>>,
           areas |-> [n \in InUse |-> [path |-> TRUE, acs |-> FALSE]], subs |-> {},
           posts |-> [bulletins |-> 0, oneliners |-> 0], menus |-> <<>>,
           last |-> [votes |-> 1, choices |-> 2, confs |-> 0, protos |-> 0]]
  /\ at = [u \in Users |-> AtMenu] /\ work = 0

(***************************************************************************)
(* A session at its menu starts a command; a prompt that times out or is   *)
(* left blank brings it back.                                              *)
(***************************************************************************)
Goto(u, rec) == at' = [at EXCEPT ![u] = rec] /\ UNCHANGED work

Start(u, rec) ==
  /\ at[u].op \in {"menu", "shown"} /\ work < MaxWork
  /\ at' = [at EXCEPT ![u] = rec] /\ work' = work + 1 /\ UNCHANGED db

Waiting(u, op) == at[u].op = op
Busy == {"menu", "shown", "choices", "counts", "total", "newvote", "delvote", "opened"}

Abandon(u) == at[u].op \notin Busy /\ Goto(u, AtMenu) /\ UNCHANGED db

(* "vote": the number typed is checked against nothing but the tables.     *)
Vote(u) ==
  /\ u \notin Restricted /\ db_vote_list(db, 16) # {}
  /\ Start(u, [op |-> "vote"])

PickVote(u, v) == Waiting(u, "vote") /\ Goto(u, [op |-> "pick", vote |-> v]) /\ UNCHANGED db

PickChoice(u, c) ==
  /\ Waiting(u, "pick") /\ Goto(u, AtMenu)
  /\ db' = db_vote_cast(db, at[u].vote, c, u)

(* "voteresults": choices, counts and total are three queries.             *)
VoteResults(u) ==
  /\ db_vote_list(db, 16) # {}
  /\ Start(u, [op |-> "results", list |-> db_vote_list(db, 16)])

PickResults(u, v) ==
  /\ Waiting(u, "results") /\ v \in at[u].list
  /\ Goto(u, [op |-> "choices", vote |-> v]) /\ UNCHANGED db

ReadChoices(u) ==
  /\ Waiting(u, "choices") /\ UNCHANGED db
  /\ Goto(u, [op |-> "counts", vote |-> at[u].vote, ids |-> db_vote_choices(db, at[u].vote)])

ReadCounts(u) ==
  /\ Waiting(u, "counts") /\ UNCHANGED db
  /\ LET r == db_vote_results(db, at[u].vote)
     IN  Goto(u, [op |-> "total", vote |-> at[u].vote,
                  cnt |-> [c \in at[u].ids |-> IF c \in DOMAIN r THEN r[c] ELSE 0]])

(* The counts and the total of the vote are on the screen.                 *)
ReadTotal(u) ==
  /\ Waiting(u, "total") /\ UNCHANGED db
  /\ Goto(u, [op |-> "shown", cnt |-> at[u].cnt, total |-> db_vote_total(db, at[u].vote)])

----------------------------------------------------------------------------
(* The sysop's editors.  An editor is left by Abandon.                     *)

Editor(u, op) == u \in Sysops /\ Start(u, [op |-> op])
Write(u, op, d) == Waiting(u, op) /\ Goto(u, [op |-> op]) /\ db' = d

(* "voteeditor": after db_vote_add the list is read again and its last row *)
(* is taken for the new vote.                                              *)
AddVote(u) ==
  /\ Waiting(u, "voteeditor") /\ Room("votes") /\ db' = db_vote_add(db)
  /\ Goto(u, [op |-> "newvote", mine |-> db.last.votes + 1])

NewVote(u) ==
  /\ Waiting(u, "newvote") /\ UNCHANGED db
  /\ LET list == db_vote_list(db, VoteMax)
     IN  Goto(u, IF list = {} THEN [op |-> "voteeditor"]
                 ELSE [op |-> "typing", mine |-> at[u].mine, vote |-> Min(list)])

TypeChoice(u) ==
  /\ Waiting(u, "typing") /\ Room("choices")
  /\ db' = db_vote_choice_add(db, at[u].vote) /\ UNCHANGED <<at, work>>

AddChoice(u, v) == Room("choices") /\ Write(u, "voteeditor", db_vote_choice_add(db, v))

DeleteVote(u, v) ==
  /\ Waiting(u, "voteeditor") /\ db' = db_vote_delete(db, v, 1)
  /\ Goto(u, [op |-> "delvote", vote |-> v])

DeleteVoteRow(u) ==
  /\ Waiting(u, "delvote") /\ db' = db_vote_delete(db, at[u].vote, 2)
  /\ Goto(u, [op |-> "voteeditor"])

(* "confeditor"; an edit writes the columns it read before its prompts.    *)
AddConf(u, k) == Room("confs") /\ Write(u, "confeditor", db_conference_add(db, k))
EditConf(u, i) ==
  /\ Waiting(u, "confeditor") /\ i \in db_conference_list(db) /\ UNCHANGED db
  /\ Goto(u, [op |-> "editconf", id |-> i, row |-> db_conference_get(db, i)])
SaveConf(u) ==
  /\ Waiting(u, "editconf") /\ Goto(u, [op |-> "confeditor"])
  /\ \E on \in {at[u].row.on, TRUE} : db' = db_conference_update(db, at[u].id, on)
DeleteConf(u, i) == Write(u, "confeditor", db_conference_delete(db, i))

(* "joinconf" and "leaveconf": the conference's ACS is not looked at.      *)
JoinConf(u) == db_conference_list(db) # {} /\ Start(u, [op |-> "join"])
LeaveConf(u) == db_conf_list_user(db, u) # {} /\ Start(u, [op |-> "leave"])
PickConf(u, i) ==
  /\ at[u].op \in {"join", "leave"} /\ Goto(u, AtMenu)
  /\ db' = IF at[u].op = "join" THEN db_conf_join(db, u, i) ELSE db_conf_leave(db, u, i)

(* "protocoleditor" *)
AddProto(u, k) == Room("protos") /\ Write(u, "protocoleditor", db_protocol_add(db, k))
EditProto(u, i) ==
  /\ Waiting(u, "protocoleditor") /\ i \in db_protocols_list(db) /\ UNCHANGED db
  /\ Goto(u, [op |-> "editproto", id |-> i, row |-> db_protocol_get(db, i)])
SaveProto(u) ==
  /\ Waiting(u, "editproto") /\ Goto(u, [op |-> "protocoleditor"])
  /\ \E k \in RowNames, act \in BOOLEAN :
       db' = db_protocol_update(db, at[u].id, [key |-> k, on |-> act])
DeleteProto(u, i) == Write(u, "protocoleditor", db_protocol_delete(db, i))

(* "fileadmin": adding sets path and ACS, setting the ACS blanks the path. *)
FileAdmin(u) ==
  /\ Waiting(u, "fileadmin") /\ Goto(u, AtMenu)
  /\ \E n \in RowNames :
       \/ db' = db_file_area_manage(db, n, TRUE, FALSE, FALSE)
       \/ db' = db_file_area_manage(db, n, FALSE, FALSE, TRUE)
       \/ db' = db_file_area_manage(db, n, FALSE, TRUE, FALSE)

AddSub(u, n) == Write(u, "subscriptioneditor", db_subscription_type_add(db, n))
PostBulletin(u) ==
  /\ Waiting(u, "bulletins") /\ db.posts.bulletins < MaxRows
  /\ Goto(u, AtMenu) /\ db' = db_bulletin_add(db)
PostOneliner(u) ==
  /\ Waiting(u, "oneliners") /\ db.posts.oneliners < MaxRows
  /\ Goto(u, AtMenu) /\ db' = db_oneliner_add(db)

(* "menueditor": the list of files is read once; an edit works on a copy.  *)
MenuEditor(u) == u \in Sysops /\ Start(u, [op |-> "menueditor", files |-> DOMAIN db.menus])
NewMenu(u, f) ==
  /\ Waiting(u, "menueditor") /\ f \notin DOMAIN db.menus /\ db' = menu_open(db, f)
  /\ \E k \in Keys : Goto(u, [op |-> "opened", file |-> f, items |-> <<k>>, edit |-> FALSE])
EditMenu(u, f) ==
  /\ Waiting(u, "menueditor") /\ f \in at[u].files \cap DOMAIN db.menus /\ UNCHANGED db
  /\ Goto(u, [op |-> "editmenu", file |-> f, items |-> menu_load(db, f)])
DeleteMenu(u, f) ==
  /\ Waiting(u, "menueditor") /\ f \in at[u].files
  /\ Goto(u, AtMenu) /\ db' = menu_delete_file(db, f)
AddItem(u, k) ==
  /\ Waiting(u, "editmenu") /\ Len(at[u].items) < MaxItems /\ UNCHANGED <<db, work>>
  /\ at' = [at EXCEPT ![u].items = Append(@, k)]
DeleteItem(u, k) ==
  /\ Waiting(u, "editmenu") /\ Contains(at[u].items, k) /\ UNCHANGED <<db, work>>
  /\ at' = [at EXCEPT ![u].items = RemoveFirst(@, k)]
SaveMenu(u) ==
  /\ Waiting(u, "editmenu") /\ db' = menu_open(db, at[u].file)
  /\ Goto(u, [op |-> "opened", file |-> at[u].file, items |-> at[u].items, edit |-> TRUE])
WriteMenu(u) ==
  /\ Waiting(u, "opened")
  /\ db' = IF at[u].file \in DOMAIN db.menus THEN menu_save(db, at[u].file, at[u].items)
           ELSE db
  /\ Goto(u, IF at[u].edit THEN [op |-> "editmenu", file |-> at[u].file, items |-> at[u].items]
             ELSE AtMenu)

----------------------------------------------------------------------------
VoteNext(u) ==
  \/ Vote(u) \/ VoteResults(u) \/ ReadChoices(u) \/ ReadCounts(u) \/ ReadTotal(u)
  \/ Editor(u, "voteeditor") \/ AddVote(u) \/ NewVote(u) \/ TypeChoice(u) \/ DeleteVoteRow(u)
  \/ \E v \in 1..MaxVotes : PickVote(u, v) \/ PickResults(u, v) \/ AddChoice(u, v)
                            \/ DeleteVote(u, v)
  \/ \E c \in 1..MaxChoices : PickChoice(u, c)

ConfNext(u) ==
  \/ Editor(u, "confeditor") \/ SaveConf(u) \/ JoinConf(u) \/ LeaveConf(u)
  \/ \E k \in RowNames : AddConf(u, k)
  \/ \E i \in 1..MaxRows : EditConf(u, i) \/ DeleteConf(u, i) \/ PickConf(u, i)

OtherNext(u) ==
  \/ Editor(u, "protocoleditor") \/ SaveProto(u)
  \/ \E k \in RowNames : AddProto(u, k)
  \/ \E i \in 1..MaxRows : EditProto(u, i) \/ DeleteProto(u, i)
  \/ Editor(u, "fileadmin") \/ FileAdmin(u)
  \/ Editor(u, "subscriptioneditor") \/ \E n \in RowNames : AddSub(u, n)
  \/ Editor(u, "bulletins") \/ PostBulletin(u)
  \/ Start(u, [op |-> "oneliners"]) \/ PostOneliner(u)

MenuNext(u) ==
  \/ MenuEditor(u) \/ SaveMenu(u) \/ WriteMenu(u)
  \/ \E f \in RowNames : NewMenu(u, f) \/ EditMenu(u, f) \/ DeleteMenu(u, f)
  \/ \E k \in Keys : AddItem(u, k) \/ DeleteItem(u, k)

Next == \E u \in Users : Abandon(u) \/ VoteNext(u) \/ ConfNext(u) \/ OtherNext(u) \/ MenuNext(u)

Spec == Init /\ [][Next]_vars

----------------------------------------------------------------------------
(* Every row of every table has the form its columns give it, and every    *)
(* key is unique among the conferences and the protocols, however the      *)
(* editors of several sysops interleave.                                   *)
TypeOK ==
  /\ db.votes \subseteq 1..MaxVotes
  /\ DOMAIN db.choices \subseteq 1..MaxChoices
  /\ \A i \in DOMAIN db.confs : db.confs[i] \in Row
  /\ \A i \in DOMAIN db.protos : db.protos[i] \in Row
  /\ \A n \in DOMAIN db.areas : n \in RowNames /\ db.areas[n] \in AreaRow
  /\ \A f \in DOMAIN db.menus : f \in RowNames /\ db.menus[f] \in BoundedSeq(Keys, MaxItems)
  /\ \A i, j \in DOMAIN db.confs : db.confs[i].key = db.confs[j].key => i = j
  /\ \A i, j \in DOMAIN db.protos : db.protos[i].key = db.protos[j].key => i = j
  /\ work \in 0..MaxWork

(* A ballot, a choice and a membership always name existing rows, although *)
(* votes and conferences are deleted in several statements outside a       *)
(* transaction while other callers wait at a prompt for one of them.       *)
RowsAnchored ==
  /\ \A c \in DOMAIN db.choices : db.choices[c] \in db.votes
  /\ \A b \in DOMAIN db.ballots : b[1] \in db.votes /\ db.ballots[b] \in DOMAIN db.choices
  /\ \A m \in db.members : m[2] \in DOMAIN db.confs

(* What holds of the sysop's tables in every state, between any two        *)
(* statements of the editors: rows have their form and name rows that are  *)
(* there.                                                                  *)
TablesInv == TypeOK /\ RowsAnchored

(* The results screen never shows a share above 100 %: its choices, its    *)
(* counts and its total are three queries, and callers vote between them.  *)
ShareBounded ==
  \A u \in Users : at[u].op = "shown" =>
    MapThenSumSet(LAMBDA c : at[u].cnt[c], DOMAIN at[u].cnt) <= at[u].total

(* The choices typed for a new vote go to that vote.                       *)
NewVoteChoices == \A u \in Users : at[u].op = "typing" => at[u].vote = at[u].mine
=============================================================================
