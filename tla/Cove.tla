-------------------------------- MODULE Cove --------------------------------
(***************************************************************************)
(* The PLANK store and the COVE hub.  Programs that import bundles         *)
(* (plankd, plankpack, plank-offline) and the hub daemon coved are         *)
(* processes of their own on one SQLite database in WAL mode               *)
(* (src/tools/coved.c:1195), and so is the sysop's plankctl.  An importer  *)
(* runs one transaction per bundle; coved and plankctl run single          *)
(* statements, each a transaction of its own.                              *)
(*                                                                         *)
(* SQLite is external.  What the code relies on is modelled: one writer at *)
(* a time; a transaction opened by BEGIN reads from the snapshot of its    *)
(* first SELECT; a write from a snapshot that is no longer the newest, or  *)
(* while another connection writes, fails and leaves the transaction open; *)
(* a statement outside a transaction waits for the writer and gives up     *)
(* after busy_timeout.                                                     *)
(*                                                                         *)
(* Nothing in the repository writes plank_messages, plank_subscriptions or *)
(* cove_upstream, or deletes a link: an object's message row is taken to   *)
(* be there as soon as the object is, and the subscriptions are constants. *)
(***************************************************************************)
EXTENDS Naturals, Sequences, FiniteSets

CONSTANTS
    Importers,  \* processes that import bundles
    Bundles,    \* bundle ids
    Objects,    \* object ids (hashes of the contents)
    Links,      \* rows of plank_links, enabled and not paused
    Content,    \* the decodable objects of each bundle, in file order
    Offline,    \* the bundles that are reply packets of offline readers
    Via,        \* the source_link_id the importer is given with each bundle
    Wants,      \* the objects in areas each link subscribes to
    Upstream,   \* links in cove_upstream with status 1
    NoLink,     \* source_link_id 0, NULL in plank_journal
    NoBundle,   \* no import under way
    NoProcess,  \* nobody holds SQLite's write lock
    MaxImports, \* bound: bundles opened
    MaxRescans, \* bound: runs of plankctl rescan
    MaxCrashes  \* bound: processes killed

ASSUME LinksAssumption == NoLink \notin Links /\ Upstream \subseteq Links
ASSUME ImportersAssumption == NoProcess \notin Importers
ASSUME BundlesAssumption ==
    /\ Offline \subseteq Bundles
    /\ Content \in [Bundles -> Seq(Objects)]
    /\ Via \in [Bundles -> Links \cup {NoLink}]
    /\ \A b \in Offline : Via[b] = NoLink
ASSUME WantsAssumption == Wants \in [Links -> SUBSET Objects]
ASSUME BoundsAssumption ==
    MaxImports \in Nat /\ MaxRescans \in Nat /\ MaxCrashes \in Nat

VARIABLES
    objects,  \* plank_objects
    journal,  \* plank_journal
    dedupe,   \* plank_dedupe, keyed by bundle id
    pending,  \* rows of cove_fanout_queue with status 0, counted per target
    sent,     \* rows of cove_fanout_queue with status 1, counted per target
    outbound, \* rows of plank_outbound_queue, counted per target
    writer,   \* the connection that holds the write lock
    imp,      \* the import each importer is in
    cove,     \* where coved's loop is
    imports,  \* bundles opened so far
    rescans,  \* rescans so far
    crashes   \* crashes so far

queues == <<pending, sent, outbound>>
store == <<objects, journal, dedupe>>
vars == <<store, queues, writer, imp, cove, imports, rescans, crashes>>

\* A delivery: the pair (target_link_id, object_id) of a queue row.
Targets == Links \X Objects

\* A row of plank_journal.  processing_state is 0 (pending) or 1 (processed).
Rows == [seq : Nat \ {0}, obj : Objects, kind : {"link", "offline"},
         via : Links \cup {NoLink}, state : {0, 1}]

\* The local state of plank_bundle_import: `snap' is the transaction's
\* snapshot, `seen' the objects it shows with the transaction's own inserts,
\* `own' the journal rows the transaction has inserted.
ImportState == [pc : {"idle", "scan", "put", "commit"}, bundle : Bundles \cup {NoBundle},
                todo : Seq(Objects), snap : {"none", "fresh", "stale"},
                seen : SUBSET Objects, own : SUBSET Rows]

\* No import under way.
Idle == [pc |-> "idle", bundle |-> NoBundle, todo |-> <<>>, snap |-> "none", seen |-> {}, own |-> {}]

TypeOK ==
    /\ objects \subseteq Objects
    /\ journal \subseteq Rows
    /\ dedupe \subseteq Bundles
    /\ pending \in [Targets -> Nat]
    /\ sent \in [Targets -> Nat]
    /\ outbound \in [Targets -> Nat]
    /\ writer \in Importers \cup {NoProcess}
    /\ imp \in [Importers -> ImportState]
    /\ \A i \in Importers : imp[i].pc # "idle" => imp[i].bundle \in Bundles
    /\ cove \in {"process", "mark", "queue", "sent", "upstream", "late", "sweep"}
    /\ imports \in 0 .. MaxImports
    /\ rescans \in 0 .. MaxRescans
    /\ crashes \in 0 .. MaxCrashes

Init ==
    /\ objects = {} /\ journal = {} /\ dedupe = {}
    /\ pending = [t \in Targets |-> 0]
    /\ sent = [t \in Targets |-> 0]
    /\ outbound = [t \in Targets |-> 0]
    /\ writer = NoProcess
    /\ imp = [i \in Importers |-> Idle]
    /\ cove = "process"
    /\ imports = 0 /\ rescans = 0 /\ crashes = 0

-----------------------------------------------------------------------------
(* Importers: plank_bundle_import and plank_bundle_import_reply.           *)

\* May importer i write: it has the lock or can take it, and the snapshot of
\* its transaction is still the newest state of the database.
Writable(i) == writer \in {i, NoProcess} /\ imp[i].snap # "stale"

\* A commit makes every snapshot that other importers read from an old one.
Outdated(S) == [j \in Importers |->
    IF j \in S /\ imp[j].snap = "fresh" THEN [imp[j] EXCEPT !.snap = "stale"] ELSE imp[j]]

\* The bundle is opened and is not a known one, and BEGIN starts a deferred
\* transaction.  A known bundle returns DUPLICATE and changes nothing.
ImportOpen(i, b) ==
    /\ imp[i].pc = "idle"
    /\ b \notin dedupe
    /\ imports < MaxImports
    /\ imports' = imports + 1
    /\ imp' = [imp EXCEPT ![i] = [Idle EXCEPT !.pc = "scan", !.bundle = b, !.todo = Content[b]]]
    /\ UNCHANGED <<store, queues, writer, cove, rescans, crashes>>

\* plank_store_object_exists on the next object, in the transaction: the first
\* one fixes the snapshot.  An object that is there counts as a duplicate.
ObjectExists(i) ==
    /\ imp[i].pc = "scan"
    /\ imp[i].todo # <<>>
    /\ LET view == IF imp[i].snap = "none" THEN objects ELSE imp[i].seen
           read == [imp[i] EXCEPT !.snap = IF @ = "none" THEN "fresh" ELSE @, !.seen = view]
       IN imp' = [imp EXCEPT ![i] = IF Head(imp[i].todo) \in view
                                    THEN [read EXCEPT !.todo = Tail(@)]
                                    ELSE [read EXCEPT !.pc = "put"]]
    /\ UNCHANGED <<store, queues, writer, cove, imports, rescans, crashes>>

\* The row object_put adds to plank_journal; plank_bundle_import always says
\* PLANK_SOURCE_LINK, also when it is given no link.
NewRow(i) ==
    [seq |-> Cardinality(journal) + Cardinality(imp[i].own) + 1,
     obj |-> Head(imp[i].todo),
     kind |-> IF imp[i].bundle \in Offline THEN "offline" ELSE "link",
     via |-> Via[imp[i].bundle],
     state |-> 0]

\* Mutant of ObjectPut: the journal row is written only in the branch that
\* has a source link.
ObjectPutLinkOnly(i) ==
    /\ imp[i].pc = "put"
    /\ Writable(i)
    /\ writer' = i
    /\ imp' = [imp EXCEPT ![i] = [imp[i] EXCEPT
           !.pc = "scan", !.todo = Tail(@), !.seen = @ \cup {Head(imp[i].todo)},
           !.own = IF Via[imp[i].bundle] # NoLink THEN @ \cup {NewRow(i)} ELSE @]]
    /\ UNCHANGED <<store, queues, cove, imports, rescans, crashes>>

\* plank_store_object_put: the object and its journal row.  The transaction
\* holds the write lock from its first insert on, so nobody sees it between
\* the two.
ObjectPut(i) ==
    /\ imp[i].pc = "put"
    /\ Writable(i)
    /\ writer' = i
    /\ imp' = [imp EXCEPT ![i] = [imp[i] EXCEPT
           !.pc = "scan", !.todo = Tail(@), !.seen = @ \cup {Head(imp[i].todo)},
           !.own = @ \cup {NewRow(i)}]]
    /\ UNCHANGED <<store, queues, cove, imports, rescans, crashes>>

\* The INSERT fails with SQLITE_BUSY: the object is counted as rejected and
\* the import goes on in the same transaction.
ObjectPutBusy(i) ==
    /\ imp[i].pc = "put"
    /\ ~Writable(i)
    /\ imp' = [imp EXCEPT ![i] = [imp[i] EXCEPT !.pc = "scan", !.todo = Tail(@)]]
    /\ UNCHANGED <<store, queues, writer, cove, imports, rescans, crashes>>

\* plank_store_dedupe_record, whose failure is not looked at: the bundle is
\* recorded with the commit if and only if the lock is held.
DedupeRecord(i) ==
    /\ imp[i].pc = "scan"
    /\ imp[i].todo = <<>>
    /\ writer' = IF Writable(i) THEN i ELSE writer
    /\ imp' = [imp EXCEPT ![i].pc = "commit"]
    /\ UNCHANGED <<store, queues, cove, imports, rescans, crashes>>

\* COMMIT of a transaction that has written.
Commit(i) ==
    /\ imp[i].pc = "commit"
    /\ writer = i
    /\ objects' = imp[i].seen \cup objects
    /\ journal' = journal \cup imp[i].own
    /\ dedupe' = dedupe \cup {imp[i].bundle}
    /\ writer' = NoProcess
    /\ imp' = [Outdated(Importers) EXCEPT ![i] = Idle]
    /\ UNCHANGED <<queues, cove, imports, rescans, crashes>>

\* COMMIT of a transaction whose writes all failed.
CommitNothing(i) ==
    /\ imp[i].pc = "commit"
    /\ writer # i
    /\ imp' = [imp EXCEPT ![i] = Idle]
    /\ UNCHANGED <<store, queues, writer, cove, imports, rescans, crashes>>

\* The transaction is undone: COMMIT fails and ROLLBACK follows, or the
\* process is killed.
Rollback(i) ==
    /\ imp[i].pc # "idle"
    /\ crashes < MaxCrashes
    /\ crashes' = crashes + 1
    /\ imp' = [imp EXCEPT ![i] = Idle]
    /\ writer' = IF writer = i THEN NoProcess ELSE writer
    /\ UNCHANGED <<store, queues, cove, imports, rescans>>

-----------------------------------------------------------------------------
(* coved: one pass of run_daemon, statement by statement.                  *)

\* A statement of coved has run.  If it changed a table, the snapshots that
\* importers hold are old; audit, backlog and timestamp rows, which are not
\* modelled, may make them old all the same.
Wrote ==
    IF UNCHANGED <<store, queues>>
    THEN imp' \in {imp, Outdated(Importers)}
    ELSE imp' = Outdated(Importers)

\* A statement gives up after busy_timeout; its failure is not looked at and
\* the next one follows.
CoveBusy ==
    /\ writer # NoProcess
    /\ cove' = CASE cove = "process"  -> "mark"
                 [] cove = "mark"     -> "queue"
                 [] cove = "queue"    -> "sent"
                 [] cove = "sent"     -> "upstream"
                 [] cove = "upstream" -> "late"
                 [] cove = "late"     -> "sweep"
                 [] cove = "sweep"    -> "process"
    /\ UNCHANGED <<store, queues, writer, imp, imports, rescans, crashes>>

\* Mutant of Matches: the condition on source_link_id is dropped.
MatchesSource(t) == {r \in journal : r.state = 0 /\ r.obj = t[2] /\ t[2] \in Wants[t[1]]}

\* The journal rows that the SELECT of process_journal joins to target t.
Matches(t) == {r \in journal : r.state = 0 /\ r.obj = t[2] /\ t[2] \in Wants[t[1]] /\ r.via # t[1]}

\* process_journal, INSERT INTO cove_fanout_queue ... NOT EXISTS.
FanoutJournal ==
    /\ cove = "process"
    /\ writer = NoProcess
    /\ cove' = "mark"
    /\ pending' = [t \in Targets |->
           IF pending[t] + sent[t] = 0 THEN Cardinality(Matches(t)) ELSE pending[t]]
    /\ UNCHANGED <<store, sent, outbound, writer, imports, rescans, crashes>>
    /\ Wrote

\* Mutant of MarkProcessed: rows are given state 2 (failed), which nothing
\* else in the code writes or selects.
MarkProcessedFailed ==
    /\ cove = "mark"
    /\ writer = NoProcess
    /\ cove' = "queue"
    /\ journal' = {[r EXCEPT !.state = 2] : r \in journal}
    /\ UNCHANGED <<objects, dedupe, queues, writer, imports, rescans, crashes>>
    /\ Wrote

\* process_journal, UPDATE plank_journal SET processing_state = 1, after the
\* statements on cove_downstream and plank_audit.
MarkProcessed ==
    /\ cove = "mark"
    /\ writer = NoProcess
    /\ cove' = "queue"
    /\ journal' = {[r EXCEPT !.state = 1] : r \in journal}
    /\ UNCHANGED <<objects, dedupe, queues, writer, imports, rescans, crashes>>
    /\ Wrote

\* Mutants of QueueFanout: without NOT EXISTS, and reading the wrong status.
QueueFanoutAgain ==
    /\ cove = "queue"
    /\ writer = NoProcess
    /\ cove' = "sent"
    /\ outbound' = [t \in Targets |-> outbound[t] + pending[t]]
    /\ UNCHANGED <<store, pending, sent, writer, imports, rescans, crashes>>
    /\ Wrote
QueueFanoutSent ==
    /\ cove = "queue"
    /\ writer = NoProcess
    /\ cove' = "sent"
    /\ outbound' = [t \in Targets |-> IF outbound[t] = 0 THEN sent[t] ELSE outbound[t]]
    /\ UNCHANGED <<store, pending, sent, writer, imports, rescans, crashes>>
    /\ Wrote

\* process_fanout_queue, INSERT INTO plank_outbound_queue ... NOT EXISTS.
QueueFanout ==
    /\ cove = "queue"
    /\ writer = NoProcess
    /\ cove' = "sent"
    /\ outbound' = [t \in Targets |-> IF outbound[t] = 0 THEN pending[t] ELSE outbound[t]]
    /\ UNCHANGED <<store, pending, sent, writer, imports, rescans, crashes>>
    /\ Wrote

\* Mutant of MarkSent: the EXISTS condition is dropped.
MarkSentAll ==
    /\ cove = "sent"
    /\ writer = NoProcess
    /\ cove' = "upstream"
    /\ sent' = [t \in Targets |-> sent[t] + pending[t]]
    /\ pending' = [t \in Targets |-> 0]
    /\ UNCHANGED <<store, outbound, writer, imports, rescans, crashes>>
    /\ Wrote

\* process_fanout_queue, UPDATE cove_fanout_queue SET status = 1 ... EXISTS.
MarkSent ==
    /\ cove = "sent"
    /\ writer = NoProcess
    /\ cove' = "upstream"
    /\ sent' = [t \in Targets |-> IF outbound[t] > 0 THEN sent[t] + pending[t] ELSE sent[t]]
    /\ pending' = [t \in Targets |-> IF outbound[t] > 0 THEN 0 ELSE pending[t]]
    /\ UNCHANGED <<store, outbound, writer, imports, rescans, crashes>>
    /\ Wrote

\* The journal rows process_upstream_queue joins to target t.
Forwards(t) == {r \in journal : r.state = 1 /\ r.obj = t[2] /\ r.kind # "link" /\ t[1] \in Upstream}

\* process_upstream_queue.
QueueUpstream ==
    /\ cove = "upstream"
    /\ writer = NoProcess
    /\ cove' = "late"
    /\ outbound' = [t \in Targets |->
           IF outbound[t] = 0 THEN Cardinality(Forwards(t)) ELSE outbound[t]]
    /\ UNCHANGED <<store, pending, sent, writer, imports, rescans, crashes>>
    /\ Wrote

\* The pass is over and run_maintenance is not due.
NotDue ==
    /\ cove = "late"
    /\ cove' = "process"
    /\ UNCHANGED <<store, queues, writer, imp, imports, rescans, crashes>>

\* run_maintenance, plank_store_dedupe_prune: any records may be old enough.
DedupePrune ==
    /\ cove = "late"
    /\ writer = NoProcess
    /\ cove' = "sweep"
    /\ dedupe' \in SUBSET dedupe
    /\ UNCHANGED <<objects, journal, queues, writer, imports, rescans, crashes>>
    /\ Wrote

\* run_maintenance, DELETE FROM cove_fanout_queue WHERE status = 1: any of the
\* rows may be old enough.
SweepSent ==
    /\ cove = "sweep"
    /\ writer = NoProcess
    /\ cove' = "process"
    /\ \E old \in SUBSET {t \in Targets : sent[t] > 0} :
           sent' = [t \in Targets |-> IF t \in old THEN 0 ELSE sent[t]]
    /\ UNCHANGED <<store, pending, outbound, writer, imports, rescans, crashes>>
    /\ Wrote

\* coved is killed and started again.
CoveCrash ==
    /\ crashes < MaxCrashes
    /\ crashes' = crashes + 1
    /\ cove # "process"
    /\ cove' = "process"
    /\ UNCHANGED <<store, queues, writer, imp, imports, rescans>>

\* plankctl rescan: every journal row is pending again.
Rescan ==
    /\ writer = NoProcess
    /\ rescans < MaxRescans
    /\ rescans' = rescans + 1
    /\ journal' = {[r EXCEPT !.state = 0] : r \in journal}
    /\ UNCHANGED <<objects, dedupe, queues, writer, cove, imports, crashes>>
    /\ Wrote

Import(i) ==
    \/ ObjectExists(i) \/ ObjectPut(i) \/ ObjectPutBusy(i)
    \/ DedupeRecord(i) \/ Commit(i) \/ CommitNothing(i)

Pass ==
    \/ CoveBusy \/ FanoutJournal \/ MarkProcessed \/ QueueFanout \/ MarkSent
    \/ QueueUpstream \/ NotDue \/ DedupePrune \/ SweepSent

Next ==
    \/ \E i \in Importers : (\E b \in Bundles : ImportOpen(i, b)) \/ Import(i) \/ Rollback(i)
    \/ Pass \/ CoveCrash \/ Rescan

Spec == Init /\ [][Next]_vars

\* coved's loop never blocks for good and an import runs to its end.
FairSpec == Spec /\ WF_vars(Pass) /\ \A i \in Importers : WF_vars(Import(i))

-----------------------------------------------------------------------------
(* Properties.                                                             *)

\* The store and its journal agree: every stored object has exactly one
\* journal row, and every journal row an object, whatever imports overlap,
\* fail or are killed.  An object without a row would never be fanned out or
\* exported, and never be imported again; one with two rows would be queued
\* twice (plank_store_object_put in a transaction of plank_bundle_import).
JournalExact ==
    /\ objects = {r.obj : r \in journal}
    /\ \A q, r \in journal : q.obj = r.obj => q = r

\* An object is never queued for the link it came in on: neither by
\* process_journal nor, through its source_kind, by process_upstream_queue.
NoEcho == \A r \in journal : r.via # NoLink =>
    LET t == <<r.via, r.obj>> IN pending[t] = 0 /\ sent[t] = 0 /\ outbound[t] = 0

\* A link gets an object once: fan-out, upstream forwarding, a rescan and the
\* deletion of old fan-out rows never add up to two outbound rows.
OutboundOnce == \A t \in Targets : outbound[t] \leq 1

\* A fan-out row that process_fanout_queue has marked as sent is really in the
\* outbound queue, even if the INSERT before the UPDATE gave up.
SentIsQueued == \A t \in Targets : sent[t] > 0 => outbound[t] > 0

\* A queued fan-out reaches the outbound queue of its link.
FanoutDelivered == \A t \in Targets : pending[t] > 0 ~> outbound[t] > 0

\* docs/PLANK_ADMIN.md:65: coved `Fans out messages to all subscribed
\* downstream nodes'.  Once the hub has processed an object, every link that
\* subscribes to its area and did not send it has it queued.
FanoutComplete == \A r \in journal, l \in Links :
    (r.state = 1 /\ r.obj \in Wants[l] /\ r.via # l) => pending[<<l, r.obj>>] + outbound[<<l, r.obj>>] > 0
=============================================================================
