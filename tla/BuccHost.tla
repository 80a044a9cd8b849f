----------------------------- MODULE BuccHost -----------------------------
(***************************************************************************)
(* The host side of Buccaneer doors (host.c, bbs.c, the callbacks of       *)
(* doors.c and their tables in db.c): a session loads a door's package,    *)
(* the embedding grants capabilities, the door is run if its manifest's    *)
(* demands are met, and its host calls are dispatched against what was     *)
(* granted.  Doors keep values, records and text files, each in its own    *)
(* scope, and several sessions may run doors at once.  Module files may be *)
(* written again while doors are loaded and run.                           *)
(***************************************************************************)
EXTENDS BuccModule, FiniteSets

CONSTANTS
  Sessions,   \* the callers' session threads
  Doors,      \* Doors[d]: [manifest, level]: the manifest and the callers' level
  Modules,    \* Modules[d]: the modules the compiler may write for door d
  Grants,     \* sets of capabilities the embedding grants together (none, when it is the BBS)
  Maps,       \* which maps of the host context doors use: "app", "shared", "session"
  Values,     \* what a door stores
  Cuts,       \* lengths a file may have between two writes
  MaxId       \* bound: ids of DATA records

None == "none"
DoorIds == DOMAIN Doors

ASSUME HostAssumption ==
  /\ DoorIds # {} /\ MaxId \in Nat /\ None \notin Values /\ Cuts \subseteq Nat
  /\ \A d \in DoorIds : \A m \in Modules[d] : Emitted(m)
  /\ Maps \subseteq {"app", "shared", "session"}

VARIABLES
  run,    \* run[s]: the runner of session s and its host context
  file,   \* file[d]: the door's module file, as far as it is written
  store,  \* what the doors keep: values, records, text files
  read    \* the last host call's answer: [by, got], whose keep it was: doors', the board's

vars == <<run, file, store, read>>

-----------------------------------------------------------------------------
(* Capabilities and the table of host functions.                            *)

CAP_SAFE == {"term.output", "term.input", "term.query", "user.read"}
Known == CAP_SAFE \cup {"data.read", "data.write", "kv.read", "kv.write", "text.read",
          "text.write", "bbs.message", "bbs.query", "shared.read", "shared.write",
          "session.read", "session.write", "door.chain", "leaderboard.write"}

\* The capability's bit, as a set: a name nobody knows has none.
capability_from_string(c) == {c} \cap Known

Fun(names, cap, min, max) == [name : names, cap : {cap}, min : {min}, max : {max}]

\* The entries of the table, of all functions that have the same checks together.
Entries == UNION {
  Fun({"TERM.PRINT", "TERM.PRINTLN", "TERM.CLS", "TERM.COLOR", "TERM.GOTOXY"}, "term.output", 0, 2),
  Fun({"TERM.GETKEY", "TERM.INPUT", "TERM.INPUT_PASSWORD", "TERM.PAUSE"}, "term.input", 0, 2),
  Fun({"TERM.WIDTH", "TERM.HEIGHT", "TERM.SUPPORTS_ANSI"}, "term.query", 0, 0),
  Fun({"USER.NAME", "USER.ALIAS", "USER.ID", "USER.SECURITY", "USER.TIMELEFT", "USER.TIME_LEFT",
       "USER.TIME_REMAINING", "USER.FLAGS"}, "user.read", 0, 0),
  Fun({"DATA.INSERT", "DATA.DELETE", "MSG.POST"}, "data.write", 2, 2),
  Fun({"DATA.UPDATE"}, "data.write", 3, 3),
  Fun({"DATA.GET", "DATA.COUNT", "MSG.READ", "FILE.INFO"}, "data.read", 2, 2),
  Fun({"DATA.FIND"}, "data.read", 2, 5),
  Fun({"DATA.BEGIN", "DATA.COMMIT", "DATA.ROLLBACK"}, "data.write", 0, 0),
  Fun({"KV.GET"}, "kv.read", 1, 2), Fun({"KV.EXISTS"}, "kv.read", 1, 1),
  Fun({"KV.SET"}, "kv.write", 2, 2), Fun({"KV.DELETE"}, "kv.write", 1, 1),
  Fun({"APP.GET"}, None, 1, 2), Fun({"APP.SET"}, None, 2, 2),
  Fun({"SHARED.GET"}, "shared.read", 1, 2),
  Fun({"SHARED.SET"}, "shared.write", 2, 2), Fun({"SHARED.CAS"}, "shared.write", 3, 3),
  Fun({"TEXT.READALL", "TEXT.READLINES", "TEXT.EXISTS"}, "text.read", 1, 1),
  Fun({"TEXT.WRITEALL", "TEXT.APPEND"}, "text.write", 2, 2),
  Fun({"BBS.SENDMSG"}, "bbs.message", 2, 2), Fun({"BBS.ONLINE", "BBS.NODE"}, "bbs.query", 0, 0),
  Fun({"LEADERBOARD.ENABLED"}, "leaderboard.write", 0, 0),
  Fun({"LEADERBOARD.SUBMIT"}, "leaderboard.write", 1, 2),
  Fun({"USERS.FIND"}, "user.read", 1, 2), Fun({"USERS.GET"}, "user.read", 1, 1),
  Fun({"MSG.LIST", "FILE.LIST"}, "data.read", 1, 3),
  Fun({"SYS.NOW", "SYS.TODAY"}, None, 0, 0), Fun({"SYS.SLEEP"}, None, 1, 1),
  Fun({"SESSION.GET"}, "session.read", 1, 2), Fun({"SESSION.SET"}, "session.write", 2, 2),
  Fun({"SESSION.NODE", "SESSION.ELAPSED_MS"}, "session.read", 0, 0),
  Fun({"DOOR.EXIT"}, None, 0, 1), Fun({"DOOR.CHAIN"}, "door.chain", 1, 2) }
host_functions == [f \in {e.name : e \in Entries} |-> CHOOSE e \in Entries : e.name = f]

find_host_function(f) == f \in DOMAIN host_functions

\* The checks every call passes, in their order.
bucc_host_dispatch(s, f, argc) ==
  LET h == host_functions[f]
  IN  CASE ~find_host_function(f) -> "unknown"
        [] capability_from_string(h.cap) # {} /\ capability_from_string(h.cap) \cap run[s].host = {} -> "denied"
        [] argc < h.min \/ argc > h.max -> "arguments"
        [] OTHER -> "ok"

-----------------------------------------------------------------------------
(* Runners.                                                                 *)

\* bucc_door_runner_new: a fresh host context allows everything until the
\* door is run; the runner itself allows the safe capabilities.  Before: size
\* and first are what the loader knows of the file it reads.  calm is history:
\* the file was complete when it was opened, and nobody wrote it until it was read.
NewRunner(d, mod) ==
  [pc |-> "loaded", door |-> d, prog |-> mod, allowed |-> CAP_SAFE, host |-> Known,
   map |-> [n \in Maps |-> None], result |-> None, size |-> 0, first |-> NoModule, calm |-> FALSE]
Quiet == [by |-> None, got |-> {}]
Saved(mod) == LET text == bucc_module_save_file(mod) IN [text |-> text, size |-> text.len]
NoRunner == [NewRunner(CHOOSE d \in DoorIds : TRUE, NoModule) EXCEPT !.pc = None, !.host = {}, !.allowed = {}]

Init ==
  /\ run = [s \in Sessions |-> NoRunner]
  /\ file \in {[d \in DoorIds |-> Saved(m[d])] :
                 m \in {f \in [DoorIds -> UNION {Modules[d] : d \in DoorIds}] :
                          \A d \in DoorIds : f[d] \in Modules[d]}}
  /\ store = [kv |-> [d \in DoorIds |-> None], data |-> {}, next |-> 1,
              text |-> [d \in DoorIds |-> None]]
  /\ read = Quiet

Change(s, r) == run' = [run EXCEPT ![s] = r]

\* The manifest is read and checked, then the module file is opened; an empty
\* one is refused.
bucc_door_load(d) ==
  bucc_manifest_validate(bucc_manifest_load(Doors[d].manifest), TRUE) /\ file[d].size > 0

\* door_launch_bucc, up to the run: the loader opens the file and asks for its
\* size ...
Launch(s, d) ==
  /\ run[s].pc = None
  /\ run' = IF bucc_door_load(d)
            THEN [run EXCEPT ![s] = [NoRunner EXCEPT !.pc = "opened", !.door = d, !.size = file[d].size,
                                                     !.calm = Complete(file[d])]]
            ELSE run
  /\ read' = Quiet /\ UNCHANGED <<file, store>>

\* ... reads a part of that many bytes, if it does not get them all at once; an
\* empty file ends it ...
LaunchReads(s) ==
  /\ run[s].pc = "opened"
  /\ LET f == file[run[s].door]
     IN  Change(s, IF f.size = 0 THEN NoRunner ELSE [run[s] EXCEPT !.pc = "reading", !.first = f.text])
  /\ read' = Quiet /\ UNCHANGED <<file, store>>

\* ... and the rest of them, or all: a runner with the door's module, the
\* caller's callbacks and the door's scope, or none.
LaunchLoads(s) ==
  /\ run[s].pc \in {"opened", "reading"}
  /\ LET d     == run[s].door
         first == IF run[s].pc = "opened" THEN file[d].text ELSE run[s].first
         mod   == bucc_module_load_file(first, file[d], run[s].size)
     IN  Change(s, IF mod = NoModule THEN NoRunner ELSE [NewRunner(d, mod) EXCEPT !.calm = run[s].calm])
  /\ read' = Quiet /\ UNCHANGED <<file, store>>

\* One call for each capability of the set.
bucc_door_set_capability(s, cs, allow) ==
  /\ run[s].pc = "loaded" /\ cs \in Grants
  /\ LET bits == UNION {capability_from_string(c) : c \in cs}
     IN  Change(s, [run[s] EXCEPT !.allowed = IF allow THEN @ \cup bits ELSE @ \ bits])
  /\ read' = Quiet /\ UNCHANGED <<file, store>>

\* The manifest's demands: the caller's level and every required capability,
\* one nobody knows included.
MeetsSecurity(s) == Doors[run[s].door].level >= Doors[run[s].door].manifest.security
MeetsCapabilities(s) ==
  \A c \in Doors[run[s].door].manifest.caps :
     c[2] => capability_from_string(c[1]) \cap run[s].allowed # {}

\* The runner has its result; its module and maps are of no more use.
Over(s, result) == [NoRunner EXCEPT !.pc = "over", !.door = run[s].door, !.result = result]

\* Mutant: the host context keeps what a fresh one allows.
RunUnbound(s) ==
  /\ run[s].pc = "loaded"
  /\ Change(s, CASE ~MeetsSecurity(s) -> Over(s, "security")
                 [] MeetsSecurity(s) /\ ~MeetsCapabilities(s) ->
                      Over(s, "capability")
                 [] OTHER -> [run[s] EXCEPT !.pc = "running"])
  /\ read' = Quiet /\ UNCHANGED <<file, store>>

\* bucc_door_run, up to the virtual machine.
Run(s) ==
  /\ run[s].pc = "loaded"
  /\ Change(s, CASE ~MeetsSecurity(s) -> Over(s, "security")
                 [] MeetsSecurity(s) /\ ~MeetsCapabilities(s) ->
                      Over(s, "capability")
                 [] OTHER -> [run[s] EXCEPT !.pc = "running", !.host = run[s].allowed])
  /\ read' = Quiet /\ UNCHANGED <<file, store>>

Results == {"ok", "chain", "error"}

\* The virtual machine stops: the program ended or chained by its CHAIN
\* statement, a limit was met, or it failed.
Stop(s, result) ==
  /\ run[s].pc = "running" /\ result \in Results
  /\ Change(s, Over(s, result))
  /\ read' = Quiet /\ UNCHANGED <<file, store>>

\* The launcher frees the runner and all its maps with it.
bucc_door_runner_free(s) ==
  /\ run[s].pc = "over"
  /\ Change(s, NoRunner)
  /\ read' = Quiet /\ UNCHANGED <<file, store>>

-----------------------------------------------------------------------------
(* Host calls.                                                              *)

Ready(s, f, argc) == run[s].pc = "running" /\ bucc_host_dispatch(s, f, argc) = "ok"

Answer(s, got) == /\ read' = IF got = {} THEN Quiet ELSE [by |-> s, got |-> got]
                  /\ UNCHANGED file

\* A call that reads: it answers, and leaves runner and stores alone.
Reads(s, f, argc, got) == Ready(s, f, argc) /\ Answer(s, got) /\ UNCHANGED <<run, store>>
\* A call that makes the store st.
Stores(s, f, argc, st) == Ready(s, f, argc) /\ store' = st /\ Answer(s, {}) /\ UNCHANGED run
\* One of several calls that return nothing of the board's or of a door's.
Looks(s, fs) ==
  /\ {f \in fs : Ready(s, f, host_functions[f].min)} # {}
  /\ Answer(s, {}) /\ UNCHANGED <<run, store>>

\* A call that is refused returns an error value and changes nothing.
CallRefused(s) ==
  /\ run[s].pc = "running"
  /\ {f \in DOMAIN host_functions \cup {"NO.SUCH"} : bucc_host_dispatch(s, f, 2) # "ok"} # {}
  /\ Answer(s, {}) /\ UNCHANGED <<run, store>>

\* The terminal's callbacks write to and read from the caller's own
\* connection; a read that fails answers an empty string and the door runs on.
bucc_term_callbacks == {"TERM.PRINT", "TERM.PRINTLN", "TERM.CLS", "TERM.COLOR", "TERM.GOTOXY",
                        "TERM.GETKEY", "TERM.INPUT", "TERM.INPUT_PASSWORD", "TERM.PAUSE",
                        "TERM.WIDTH", "TERM.HEIGHT", "TERM.SUPPORTS_ANSI"}
\* The user's callbacks read the session's copy of the account.
bucc_user_callbacks == {"USER.NAME", "USER.ALIAS", "USER.ID", "USER.SECURITY", "USER.TIMELEFT",
                        "USER.TIME_LEFT", "USER.TIME_REMAINING", "USER.FLAGS"}
TermCall(s)  == Looks(s, bucc_term_callbacks)
UserCall(s)  == Looks(s, bucc_user_callbacks)
SysCall(s)   == Looks(s, {"SYS.NOW", "SYS.TODAY"})
SysSleep(s)  == Looks(s, {"SYS.SLEEP"})
NodeCall(s)  == Looks(s, {"SESSION.NODE", "SESSION.ELAPSED_MS"})

\* BBS.SENDMSG writes to the caller whatever node is named.
BbsSendMsg(s) == Looks(s, {"BBS.SENDMSG"})
bucc_bbs_online_cb == {"board"}
BbsOnline(s) == Reads(s, "BBS.ONLINE", 0, bucc_bbs_online_cb)
BbsNode(s)   == Looks(s, {"BBS.NODE"})

\* USERS.FIND (unless it was called too often within a minute) and USERS.GET
\* only ever find the caller.
bucc_users_find_cb == {"USERS.FIND"}
UsersFind(s) == Looks(s, bucc_users_find_cb)
UsersGet(s) == Looks(s, {"USERS.GET"})

\* The scope of a run: its door.
bucc_live_scope(s) == run[s].door

\* KV: one key for each door in this model.
db_bucc_kv_set(d, v) == [store EXCEPT !.kv[d] = v]
db_bucc_kv_delete(d) == [store EXCEPT !.kv[d] = None]
db_bucc_kv_exists(d) == store.kv[d] # None
db_bucc_kv_get(d)    == IF db_bucc_kv_exists(d) THEN {d} ELSE {}

bucc_kv_get_cb(s)    == db_bucc_kv_get(bucc_live_scope(s))
bucc_kv_set_cb(s, v) == db_bucc_kv_set(bucc_live_scope(s), v)
bucc_kv_delete_cb(s) == db_bucc_kv_delete(bucc_live_scope(s))
bucc_kv_exists_cb(s) == IF db_bucc_kv_exists(bucc_live_scope(s)) THEN {bucc_live_scope(s)} ELSE {}
KvGet(s)    == Reads(s, "KV.GET", 1, bucc_kv_get_cb(s))
KvExists(s) == Reads(s, "KV.EXISTS", 1, bucc_kv_exists_cb(s))
KvSet(s, v) == Stores(s, "KV.SET", 2, bucc_kv_set_cb(s, v))
KvDelete(s) == Stores(s, "KV.DELETE", 1, bucc_kv_delete_cb(s))

\* DATA: ids are handed out over all doors together and never again, so a
\* door can name the record of another.
db_bucc_data_insert(d, v) ==
  [store EXCEPT !.data = @ \cup {[id |-> store.next, scope |-> d, value |-> v]}, !.next = @ + 1]

\* Mutant: the record is found by its id alone.
FindAny(d, id) == {r \in store.data : r.id = id}
RecordAt(d, id) == {r \in store.data : r.scope = d /\ r.id = id}

db_bucc_data_update(d, id, v) ==
  [store EXCEPT !.data = (@ \ RecordAt(d, id)) \cup {[r EXCEPT !.value = v] : r \in RecordAt(d, id)}]
db_bucc_data_delete(d, id) == [store EXCEPT !.data = @ \ RecordAt(d, id)]
db_bucc_data_get(d, id) == {r.scope : r \in RecordAt(d, id)}
db_bucc_data_find(d) == {r.scope : r \in {q \in store.data : q.scope = d}}
db_bucc_data_count(d) == Cardinality({q \in store.data : q.scope = d})

bucc_data_insert_cb(s, v)     == db_bucc_data_insert(bucc_live_scope(s), v)
bucc_data_update_cb(s, id, v) == db_bucc_data_update(bucc_live_scope(s), id, v)
bucc_data_delete_cb(s, id)    == db_bucc_data_delete(bucc_live_scope(s), id)
bucc_data_get_cb(s, id)       == db_bucc_data_get(bucc_live_scope(s), id)
bucc_data_find_cb(s)          == db_bucc_data_find(bucc_live_scope(s))
bucc_data_count_cb(s)         == IF db_bucc_data_count(bucc_live_scope(s)) > 0 THEN {bucc_live_scope(s)} ELSE {}

DataInsert(s, v) == store.next <= MaxId /\ Stores(s, "DATA.INSERT", 2, bucc_data_insert_cb(s, v))
DataUpdate(s, id, v) == Stores(s, "DATA.UPDATE", 3, bucc_data_update_cb(s, id, v))
DataDelete(s, id) == Stores(s, "DATA.DELETE", 2, bucc_data_delete_cb(s, id))
DataGet(s, id) == Reads(s, "DATA.GET", 2, bucc_data_get_cb(s, id))
DataFind(s)    == Reads(s, "DATA.FIND", 2, bucc_data_find_cb(s))
DataCount(s)   == Reads(s, "DATA.COUNT", 2, bucc_data_count_cb(s))

\* BEGIN, COMMIT and ROLLBACK answer TRUE and do nothing.
DataTx(s) == Looks(s, {"DATA.BEGIN", "DATA.COMMIT", "DATA.ROLLBACK"})

\* APP, SHARED and SESSION are maps of the host context: of this run alone.
\* The contents of those in Maps are followed.
Put(s, n, v) == [run[s] EXCEPT !.map = [m \in Maps |-> IF m = n THEN v ELSE @[m]]]
SetsMap(s, f, n, v) == Ready(s, f, 2) /\ Change(s, Put(s, n, v)) /\ Answer(s, {}) /\ UNCHANGED store

AppGet(s)        == Looks(s, {"APP.GET"})
AppSet(s, v)     == SetsMap(s, "APP.SET", "app", v)
SharedGet(s)     == Looks(s, {"SHARED.GET"})
SharedSet(s, v)  == SetsMap(s, "SHARED.SET", "shared", v)
SharedCas(s, expected, v) ==
  /\ Ready(s, "SHARED.CAS", 3)
  /\ Change(s, IF \A n \in Maps \cap {"shared"} : run[s].map[n] = expected THEN Put(s, "shared", v) ELSE run[s])
  /\ Answer(s, {}) /\ UNCHANGED store
SessionGet(s)    == Looks(s, {"SESSION.GET"})
SessionSet(s, v) == SetsMap(s, "SESSION.SET", "session", v)

\* TEXT: a relative path that stays below the door's own directory.
Paths == {"inside", "outside"}
bucc_text_resolve(path) == path = "inside"
bucc_text_exists_cb(s, path) == bucc_text_resolve(path) /\ store.text[bucc_live_scope(s)] # None
bucc_text_write_all_cb(s, path, v) ==
  IF bucc_text_resolve(path) THEN [store EXCEPT !.text[bucc_live_scope(s)] = v] ELSE store
bucc_text_append_cb(s, path, v) ==
  IF bucc_text_resolve(path) THEN [store EXCEPT !.text[bucc_live_scope(s)] = v] ELSE store
bucc_text_read_all_cb(s, path) == IF bucc_text_exists_cb(s, path) THEN {bucc_live_scope(s)} ELSE {}
bucc_text_read_lines_cb(s, path) == bucc_text_read_all_cb(s, path)

TextWriteAll(s, path, v) == Stores(s, "TEXT.WRITEALL", 2, bucc_text_write_all_cb(s, path, v))
TextAppend(s, path, v)   == Stores(s, "TEXT.APPEND", 2, bucc_text_append_cb(s, path, v))
TextReadAll(s, path)     == Reads(s, "TEXT.READALL", 1, bucc_text_read_all_cb(s, path))
TextReadLines(s, path)   == Reads(s, "TEXT.READLINES", 1, bucc_text_read_lines_cb(s, path))
TextExists(s, path)      == Reads(s, "TEXT.EXISTS", 1, bucc_text_read_all_cb(s, path))

\* MSG and FILE reach the board's own areas.  MSG.READ and FILE.INFO take
\* what has the id, whatever its area; nobody asks for the area's access.
bucc_msg_read_cb  == {"board"}
bucc_msg_list_cb  == {"board"}
bucc_file_list_cb == {"board"}
bucc_file_info_cb == {"board"}
MsgRead(s)  == Reads(s, "MSG.READ", 2, bucc_msg_read_cb)
MsgList(s)  == Reads(s, "MSG.LIST", 1, bucc_msg_list_cb)
MsgPost(s)  == Looks(s, {"MSG.POST"})
FileList(s) == Reads(s, "FILE.LIST", 1, bucc_file_list_cb)
FileInfo(s) == Reads(s, "FILE.INFO", 2, bucc_file_info_cb)
Leaderboard(s) == Looks(s, {"LEADERBOARD.ENABLED", "LEADERBOARD.SUBMIT"})

DoorExit(s)  == Ready(s, "DOOR.EXIT", 0) /\ Stop(s, "ok")
DoorChain(s) == Ready(s, "DOOR.CHAIN", 1) /\ Stop(s, "chain")

-----------------------------------------------------------------------------
(* The compiler writes a module file: opened, which empties it, then        *)
(* written bit by bit (bound: one door's at a time).  A compiler that is    *)
(* killed, or finds no space, leaves it as it is, until it is opened again. *)

SaveOpens(d, m) ==
  /\ m \in Modules[d] /\ \A e \in DoorIds \ {d} : Complete(file[e])
  /\ file' = [file EXCEPT ![d] = [text |-> bucc_module_save_file(m), size |-> 0]]
  /\ run' = [s \in Sessions |->
              IF run[s].pc \in {"opened", "reading"} /\ run[s].door = d
              THEN [run[s] EXCEPT !.calm = FALSE] ELSE run[s]]
  /\ read' = Quiet /\ UNCHANGED store
SaveWrites(d, n) ==
  /\ file[d].size < n /\ n <= file[d].text.len /\ n \in Cuts \cup {file[d].text.len}
  /\ file' = [file EXCEPT ![d].size = n]
  /\ read' = Quiet /\ UNCHANGED <<run, store>>

-----------------------------------------------------------------------------
Calls(s) ==
  \/ CallRefused(s) \/ TermCall(s) \/ UserCall(s) \/ SysCall(s) \/ SysSleep(s) \/ NodeCall(s)
  \/ BbsSendMsg(s) \/ BbsOnline(s) \/ BbsNode(s) \/ UsersFind(s) \/ UsersGet(s)
  \/ KvGet(s) \/ KvExists(s) \/ KvDelete(s) \/ DataFind(s) \/ DataCount(s) \/ DataTx(s)
  \/ AppGet(s) \/ SharedGet(s) \/ SessionGet(s)
  \/ MsgRead(s) \/ MsgList(s) \/ MsgPost(s) \/ FileList(s) \/ FileInfo(s) \/ Leaderboard(s)
  \/ DoorExit(s) \/ DoorChain(s)
  \/ \E v \in Values : \/ KvSet(s, v) \/ DataInsert(s, v)
                       \/ AppSet(s, v) \/ SharedSet(s, v) \/ SessionSet(s, v)
                       \/ \E old \in Values \cup {None} : SharedCas(s, old, v)
                       \/ \E id \in 1 .. MaxId : DataUpdate(s, id, v)
                       \/ \E p \in Paths : TextWriteAll(s, p, v) \/ TextAppend(s, p, v)
  \/ \E id \in 1 .. MaxId : DataGet(s, id) \/ DataDelete(s, id)
  \/ \E p \in Paths : TextReadAll(s, p) \/ TextReadLines(s, p) \/ TextExists(s, p)

Next ==
  \/ \E s \in Sessions :
       \/ \E d \in DoorIds : Launch(s, d)
       \/ LaunchReads(s) \/ LaunchLoads(s)
       \/ \E cs \in Grants, allow \in BOOLEAN : bucc_door_set_capability(s, cs, allow)
       \/ Run(s) \/ bucc_door_runner_free(s)
       \/ \E r \in Results : Stop(s, r)
       \/ Calls(s)
  \/ \E d \in DoorIds : \/ \E m \in Modules[d] : SaveOpens(d, m)
                        \/ \E n \in Cuts \cup {file[d].text.len} : SaveWrites(d, n)

Spec == Init /\ [][Next]_vars

-----------------------------------------------------------------------------
(* Properties.                                                              *)

\* Runners, files and the stores stay in their types.
TypeOK ==
  /\ \A s \in Sessions :
       /\ run[s].pc \in {None, "opened", "reading", "loaded", "running", "over"} /\ run[s].door \in DoorIds
       /\ run[s].allowed \subseteq Known /\ run[s].host \subseteq Known
       /\ run[s].map \in [Maps -> Values \cup {None}]
       /\ run[s].result \in Results \cup {None, "security", "capability"}
  /\ \A d \in DoorIds : store.kv[d] \in Values \cup {None} /\ store.text[d] \in Values \cup {None}
  /\ \A r \in store.data : r.id \in 1 .. store.next - 1 /\ r.scope \in DoorIds
  /\ \A r, q \in store.data : r.id = q.id => r = q
  /\ read \in [by : Sessions \cup {None}, got : SUBSET (DoorIds \cup {"board"})]

\* What a door keeps is changed only by a run of that very door, and only
\* with the capability its runner was given before the run: whichever other
\* doors run beside it, whatever ids they name (bucc_host_dispatch,
\* bucc_door_run, the scope of db_bucc_kv_* and db_bucc_data_*).
Records(st, d) == {r \in st.data : r.scope = d}
By(d, cap) == \E s \in Sessions : run[s].pc = "running" /\ run[s].door = d /\ cap \in run[s].allowed
StoresConfined ==
  [][\A d \in DoorIds :
       /\ store'.kv[d] # store.kv[d] => By(d, "kv.write")
       /\ Records(store', d) # Records(store, d) => By(d, "data.write")
       /\ store'.text[d] # store.text[d] => By(d, "text.write")]_vars

\* A call returns only what runs of the same door have stored, with the
\* capability to read it, and the board's messages, files and nodes only to a
\* run that was given the capability to see them before it began.
ReadsOwn ==
  read.got # {} =>
    LET r == run[read.by]
    IN  \/ read.got = {r.door} /\ r.allowed \cap {"kv.read", "data.read", "text.read"} # {}
        \/ read.got = {"board"} /\ r.allowed \cap {"data.read", "bbs.query"} # {}

\* Unless its file was incomplete when it was opened, or written again until it
\* was read, a door runs a program the compiler wrote for it, whole: strings,
\* constants, procedures and imports come back as they went in, whatever is
\* written later.  Otherwise it may run the beginning of such a program, whose
\* tables then are whole, or nothing; or, if the door had another program
\* before, anything (bucc_module_save_file, bucc_module_load_file).
LoadedWhole ==
  \A s \in Sessions : run[s].pc \in {"loaded", "running"} =>
    LET p == run[s].prog
        modules == Modules[run[s].door]
    IN  /\ run[s].calm => \E m \in modules : SameProgram(p, m)
        /\ IF p = Torn THEN \E m, n \in modules : m # n
           ELSE p.code = <<>> \/ \E m \in modules : SameBeginning(p, m)

\* What does not hold: a door may run a part of the program that is being
\* written for it, since the loader takes the code's length from the size the
\* file has, and compares neither the length nor the checksum it holds.
LoadedComplete ==
  \A s \in Sessions : run[s].pc \in {"loaded", "running"} =>
    \E m \in Modules[run[s].door] : SameProgram(run[s].prog, m)

\* What holds of the host in every state: a door runs what was written for it
\* and has read nothing but its own or what it was allowed.
HostInv == TypeOK /\ LoadedWhole /\ ReadsOwn

\* docs/buccaneer/door-packages.md: `leaderboard.write' in the manifest
\* permits the LEADERBOARD calls; such a door is not turned away for asking.
ScoresPermitted ==
  \A s \in Sessions :
    (/\ <<"leaderboard.write", TRUE>> \in Doors[run[s].door].manifest.caps
     /\ \A c \in Doors[run[s].door].manifest.caps : c[1] \in CAP_SAFE \cup {"leaderboard.write"})
      => run[s].result # "capability"
=============================================================================
