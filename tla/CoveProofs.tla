----------------------------- MODULE CoveProofs -----------------------------
(***************************************************************************)
(* Proofs about Cove, for any number of importers, bundles, objects and    *)
(* links.  The argument has three layers.  Types: the state is well formed *)
(* and finite.  Isolation: what a transaction has inserted is disjoint     *)
(* from the store, and only the holder of the write lock has inserted      *)
(* anything; with it the journal stays exact.  Routing: queue rows exist   *)
(* only for stored objects, at most one per target; with it no object is   *)
(* sent back or sent twice.                                                *)
(***************************************************************************)
EXTENDS Cove, FiniteSetTheorems, TLAPS

\* Tables hold finitely many rows, and an importer that is about to store an
\* object has one.
Finite ==
    /\ IsFiniteSet(journal)
    /\ \A i \in Importers :
          /\ IsFiniteSet(imp[i].own)
          /\ imp[i].pc = "put" => imp[i].todo # <<>>

Types == TypeOK /\ Finite

-----------------------------------------------------------------------------
\* The initial state is well formed.
LEMMA TypesInit == Init => Types
<1> SUFFICES ASSUME Init PROVE Types
    OBVIOUS
<1> USE BoundsAssumption DEF Init, Idle
<1>1. IsFiniteSet({})
    BY FS_EmptySet
<1>2. TypeOK
    BY DEF TypeOK, ImportState
<1>3. Finite
    BY <1>1 DEF Finite
<1> QED
    BY <1>2, <1>3 DEF Types

\* Marking snapshots as old changes nothing else of an import.
LEMMA OutdatedKeeps ==
    ASSUME TypeOK
    PROVE  /\ Outdated(Importers) \in [Importers -> ImportState]
           /\ \A i \in Importers :
                 LET j == Outdated(Importers)[i] IN
                 /\ j.pc = imp[i].pc /\ j.bundle = imp[i].bundle /\ j.todo = imp[i].todo
                 /\ j.seen = imp[i].seen /\ j.own = imp[i].own
                 /\ j.snap = IF imp[i].snap = "fresh" THEN "stale" ELSE imp[i].snap
BY DEF TypeOK, Outdated, ImportState

\* A statement of coved or plankctl leaves the imports well formed.
LEMMA WroteKeeps ==
    ASSUME TypeOK, Wrote
    PROVE  /\ imp' \in [Importers -> ImportState]
           /\ \A i \in Importers :
                 /\ imp'[i].pc = imp[i].pc /\ imp'[i].bundle = imp[i].bundle
                 /\ imp'[i].todo = imp[i].todo
                 /\ imp'[i].seen = imp[i].seen /\ imp'[i].own = imp[i].own
                 /\ \/ imp'[i].snap = imp[i].snap
                    \/ imp[i].snap = "fresh" /\ imp'[i].snap = "stale"
<1>1. imp' = imp \/ imp' = Outdated(Importers)
    BY DEF Wrote
<1>2. CASE imp' = imp
    BY <1>2 DEF TypeOK
<1>3. CASE imp' = Outdated(Importers)
    BY <1>3, OutdatedKeeps
<1> QED
    BY <1>1, <1>2, <1>3

\* The row that object_put inserts is a journal row.
LEMMA NewRowType ==
    ASSUME Types, NEW i \in Importers, imp[i].pc = "put"
    PROVE  NewRow(i) \in Rows /\ NewRow(i).obj = Head(imp[i].todo)
<1>1. Cardinality(journal) \in Nat /\ Cardinality(imp[i].own) \in Nat
    BY FS_CardinalityType DEF Types, Finite
<1>2. imp[i].todo # <<>> /\ imp[i].todo \in Seq(Objects) /\ imp[i].bundle \in Bundles
    BY DEF Types, Finite, TypeOK, ImportState
<1>3. Head(imp[i].todo) \in Objects
    BY <1>2
<1>4. Via[imp[i].bundle] \in Links \cup {NoLink}
    BY <1>2, BundlesAssumption
<1> QED
    BY <1>1, <1>3, <1>4 DEF NewRow, Rows

\* Changing the state of every row of a finite journal keeps it one.
LEMMA RestateType ==
    ASSUME Types, NEW x \in {0, 1}
    PROVE  LET J == {[r EXCEPT !.state = x] : r \in journal}
           IN J \subseteq Rows /\ IsFiniteSet(J)
<1> DEFINE J == {[r EXCEPT !.state = x] : r \in journal}
           f == [r \in journal |-> [r EXCEPT !.state = x]]
<1>0. f \in Surjection(journal, J)
    BY DEF Surjection
<1>1. IsFiniteSet(J)
    BY <1>0, FS_Surjection DEF Types, Finite
<1>2. \A r \in journal : [r EXCEPT !.state = x] \in Rows
    BY DEF Types, TypeOK, Rows
<1> QED
    BY <1>1, <1>2

\* Every step keeps the state well formed.
LEMMA TypesStep == Types /\ [Next]_vars => Types'
<1> SUFFICES ASSUME Types, [Next]_vars PROVE Types'
    OBVIOUS
<1> USE DEF Types, vars, store, queues
<1>1. ASSUME NEW i \in Importers, NEW b \in Bundles, ImportOpen(i, b) PROVE Types'
  <2>1. Content[b] \in Seq(Objects)
      BY BundlesAssumption
  <2>2. imports' \in 0 .. MaxImports
      BY <1>1, BoundsAssumption DEF ImportOpen, TypeOK
  <2>3. TypeOK'
      BY <1>1, <2>1, <2>2 DEF ImportOpen, Idle, TypeOK, ImportState
  <2>4. Finite'
      BY <1>1, FS_EmptySet DEF ImportOpen, Idle, TypeOK, Finite
  <2> QED
      BY <2>3, <2>4
<1>2. ASSUME NEW i \in Importers, ObjectExists(i) PROVE Types'
  <2>1. imp[i].todo # <<>> => Tail(imp[i].todo) \in Seq(Objects)
      BY DEF TypeOK, ImportState
  <2> DEFINE view == IF imp[i].snap = "none" THEN objects ELSE imp[i].seen
             read == [imp[i] EXCEPT !.snap = IF @ = "none" THEN "fresh" ELSE @, !.seen = view]
  <2>2. read \in ImportState /\ read.todo = imp[i].todo /\ read.own = imp[i].own
        /\ read.bundle = imp[i].bundle /\ read.pc = imp[i].pc
      BY DEF TypeOK, ImportState
  <2> DEFINE new == IF Head(imp[i].todo) \in view
                    THEN [read EXCEPT !.todo = Tail(@)]
                    ELSE [read EXCEPT !.pc = "put"]
  <2>3. imp' = [imp EXCEPT ![i] = new] /\ imp[i].todo # <<>> /\ imp[i].pc = "scan"
      BY <1>2 DEF ObjectExists
  <2> HIDE DEF read
  <2>4. new \in ImportState /\ new.own = imp[i].own /\ new.bundle = imp[i].bundle
        /\ (new.pc = "put" => new.todo # <<>>)
      BY <2>1, <2>2, <2>3 DEF ImportState
  <2> HIDE DEF new
  <2>5. TypeOK'
      BY <1>2, <2>3, <2>4 DEF ObjectExists, TypeOK
  <2>6. Finite'
      BY <1>2, <2>3, <2>4 DEF ObjectExists, TypeOK, Finite
  <2> QED
      BY <2>5, <2>6
<1>3. ASSUME NEW i \in Importers, ObjectPut(i) PROVE Types'
  <2>1. Tail(imp[i].todo) \in Seq(Objects) /\ Head(imp[i].todo) \in Objects
      BY <1>3 DEF TypeOK, Finite, ObjectPut, ImportState
  <2>2. NewRow(i) \in Rows
      BY <1>3, NewRowType DEF ObjectPut
  <2>3. IsFiniteSet(imp[i].own \cup {NewRow(i)})
      BY FS_AddElement DEF Finite
  <2> DEFINE new == [imp[i] EXCEPT !.pc = "scan", !.todo = Tail(@),
                        !.seen = @ \cup {Head(imp[i].todo)}, !.own = @ \cup {NewRow(i)}]
  <2>4. new \in ImportState /\ new.pc = "scan" /\ new.own = imp[i].own \cup {NewRow(i)}
        /\ new.bundle = imp[i].bundle
      BY <2>1, <2>2 DEF TypeOK, ImportState
  <2>5. imp' = [imp EXCEPT ![i] = new] /\ imp[i].pc = "put"
      BY <1>3 DEF ObjectPut
  <2> HIDE DEF new
  <2>6. TypeOK'
      BY <1>3, <2>4, <2>5 DEF ObjectPut, TypeOK
  <2>7. Finite'
      BY <1>3, <2>3, <2>4, <2>5 DEF ObjectPut, TypeOK, Finite
  <2> QED
      BY <2>6, <2>7
<1>4. ASSUME NEW i \in Importers, ObjectPutBusy(i) PROVE Types'
  <2>1. Tail(imp[i].todo) \in Seq(Objects)
      BY <1>4 DEF TypeOK, Finite, ObjectPutBusy, ImportState
  <2> DEFINE new == [imp[i] EXCEPT !.pc = "scan", !.todo = Tail(@)]
  <2>2. new \in ImportState /\ new.pc = "scan" /\ new.own = imp[i].own /\ new.bundle = imp[i].bundle
      BY <2>1 DEF TypeOK, ImportState
  <2>3. imp' = [imp EXCEPT ![i] = new] /\ imp[i].pc = "put"
      BY <1>4 DEF ObjectPutBusy
  <2> HIDE DEF new
  <2> QED
      BY <1>4, <2>2, <2>3 DEF ObjectPutBusy, TypeOK, Finite
<1>5. ASSUME NEW i \in Importers, DedupeRecord(i) PROVE Types'
    BY <1>5 DEF DedupeRecord, TypeOK, ImportState, Finite
<1>6. ASSUME NEW i \in Importers, Commit(i) PROVE Types'
  <2>1. imp[i].bundle \in Bundles /\ imp[i].seen \subseteq Objects /\ imp[i].own \subseteq Rows
      BY <1>6 DEF Commit, TypeOK, ImportState
  <2>2. imp' = [Outdated(Importers) EXCEPT ![i] = Idle]
      BY <1>6 DEF Commit
  <2>3. IsFiniteSet(journal \cup imp[i].own)
      BY FS_Union DEF Finite
  <2>4. TypeOK'
      BY <1>6, <2>1, <2>2, OutdatedKeeps DEF Commit, Idle, TypeOK, ImportState
  <2>5. Finite'
      BY <1>6, <2>2, <2>3, OutdatedKeeps, FS_EmptySet DEF Commit, Idle, Finite
  <2> QED
      BY <2>4, <2>5
<1>7. ASSUME NEW i \in Importers, CommitNothing(i) PROVE Types'
    BY <1>7, FS_EmptySet DEF CommitNothing, Idle, TypeOK, ImportState, Finite
<1>8. ASSUME NEW i \in Importers, Rollback(i) PROVE Types'
  <2>1. crashes' \in 0 .. MaxCrashes
      BY <1>8, BoundsAssumption DEF Rollback, TypeOK
  <2>2. TypeOK'
      BY <1>8, <2>1 DEF Rollback, Idle, TypeOK, ImportState
  <2>3. Finite'
      BY <1>8, FS_EmptySet DEF Rollback, Idle, TypeOK, Finite
  <2> QED
      BY <2>2, <2>3
<1>9. CASE CoveBusy
    BY <1>9 DEF CoveBusy, TypeOK, Finite
<1>10. CASE FanoutJournal
  <2>1. \A t \in Targets : Cardinality(Matches(t)) \in Nat
      BY FS_Subset, FS_CardinalityType DEF Matches, Finite
  <2>2. pending' \in [Targets -> Nat]
      BY <1>10, <2>1 DEF FanoutJournal, TypeOK
  <2> QED
      BY <1>10, <2>2, WroteKeeps DEF FanoutJournal, TypeOK, Finite
<1>11. CASE MarkProcessed
    BY <1>11, WroteKeeps, RestateType DEF MarkProcessed, TypeOK, Finite
<1>12. CASE QueueFanout
  <2>1. outbound' \in [Targets -> Nat]
      BY <1>12 DEF QueueFanout, TypeOK
  <2> QED
      BY <1>12, <2>1, WroteKeeps DEF QueueFanout, TypeOK, Finite
<1>13. CASE MarkSent
  <2>1. sent' \in [Targets -> Nat] /\ pending' \in [Targets -> Nat]
      BY <1>13 DEF MarkSent, TypeOK
  <2> QED
      BY <1>13, <2>1, WroteKeeps DEF MarkSent, TypeOK, Finite
<1>14. CASE QueueUpstream
  <2>1. \A t \in Targets : Cardinality(Forwards(t)) \in Nat
      BY FS_Subset, FS_CardinalityType DEF Forwards, Finite
  <2>2. outbound' \in [Targets -> Nat]
      BY <1>14, <2>1 DEF QueueUpstream, TypeOK
  <2> QED
      BY <1>14, <2>2, WroteKeeps DEF QueueUpstream, TypeOK, Finite
<1>15. CASE NotDue
    BY <1>15 DEF NotDue, TypeOK, Finite
<1>16. CASE DedupePrune
    BY <1>16, WroteKeeps DEF DedupePrune, TypeOK, Finite
<1>17. CASE SweepSent
  <2>1. sent' \in [Targets -> Nat]
      BY <1>17 DEF SweepSent, TypeOK
  <2> QED
      BY <1>17, <2>1, WroteKeeps DEF SweepSent, TypeOK, Finite
<1>18. CASE CoveCrash
    BY <1>18, BoundsAssumption DEF CoveCrash, TypeOK, Finite
<1>19. CASE Rescan
  <2>1. rescans' \in 0 .. MaxRescans
      BY <1>19, BoundsAssumption DEF Rescan, TypeOK
  <2>2. journal' \subseteq Rows /\ IsFiniteSet(journal')
      BY <1>19, RestateType DEF Rescan
  <2> QED
      BY <1>19, <2>1, <2>2, WroteKeeps DEF Rescan, TypeOK, Finite
<1>20. CASE UNCHANGED vars
    BY <1>20 DEF TypeOK, Finite
<1> QED
    BY <1>1, <1>2, <1>3, <1>4, <1>5, <1>6, <1>7, <1>8, <1>9, <1>10, <1>11, <1>12, <1>13, <1>14,
       <1>15, <1>16, <1>17, <1>18, <1>19, <1>20 DEF Next, Import, Pass

\* Type correctness, for every value of the constants.
THEOREM TypeCorrect == Spec => []TypeOK
<1>1. Types => TypeOK
    BY DEF Types
<1> QED
    BY TypesInit, TypesStep, <1>1, PTL DEF Spec

-----------------------------------------------------------------------------
\* What a transaction of plank_bundle_import may rely on.  Only the holder of
\* the write lock has inserted rows, its snapshot is the newest, it sees the
\* store and its own rows, and these are about different objects that the
\* store does not have.
ImportOK(i) ==
    /\ writer = i => imp[i].pc # "idle" /\ imp[i].snap # "stale"
    /\ imp[i].own # {} => writer = i
    /\ imp[i].snap = "fresh" => imp[i].seen = objects \cup {r.obj : r \in imp[i].own}
    /\ imp[i].snap = "none" => imp[i].seen = {} /\ imp[i].own = {}
    /\ \A q, r \in imp[i].own : q.obj = r.obj => q = r
    /\ \A r \in imp[i].own : r.obj \notin objects
    /\ imp[i].pc = "put" => imp[i].snap # "none" /\ Head(imp[i].todo) \notin imp[i].seen

Isolation == \A i \in Importers : ImportOK(i)

\* A statement outside transactions disturbs no transaction: it runs while
\* nobody holds the write lock, when no transaction has inserted anything.
LEMMA StatementIsolation ==
    ASSUME Types, Isolation, Wrote, writer = NoProcess, UNCHANGED <<writer, objects>>
    PROVE  Isolation'
<1> SUFFICES ASSUME NEW i \in Importers PROVE ImportOK(i)'
    BY DEF Isolation
<1>1. ImportOK(i) /\ writer # i
    BY ImportersAssumption DEF Isolation
<1>2. imp[i].own = {}
    BY <1>1 DEF ImportOK
<1>3. /\ imp'[i].pc = imp[i].pc /\ imp'[i].todo = imp[i].todo
      /\ imp'[i].seen = imp[i].seen /\ imp'[i].own = imp[i].own
      /\ \/ imp'[i].snap = imp[i].snap
         \/ imp[i].snap = "fresh" /\ imp'[i].snap = "stale"
    BY WroteKeeps DEF Types
<1> QED
    BY <1>1, <1>2, <1>3 DEF ImportOK

\* Changing only the state of rows keeps the journal exact.
LEMMA RestateExact ==
    ASSUME Types, JournalExact, NEW x \in {0, 1},
           journal' = {[r EXCEPT !.state = x] : r \in journal}, objects' = objects
    PROVE  JournalExact'
<1>1. \A r \in journal : [r EXCEPT !.state = x].obj = r.obj
    BY DEF Types, TypeOK, Rows
<1>2. {r.obj : r \in journal'} = {r.obj : r \in journal}
    BY <1>1
<1>3. ASSUME NEW q \in journal', NEW r \in journal', q.obj = r.obj PROVE q = r
  <2>1. PICK a \in journal : q = [a EXCEPT !.state = x]
      OBVIOUS
  <2>2. PICK b \in journal : r = [b EXCEPT !.state = x]
      OBVIOUS
  <2>3. a.obj = b.obj
      BY <1>1, <1>3, <2>1, <2>2
  <2>4. a = b
      BY <2>3 DEF JournalExact
  <2> QED
      BY <2>1, <2>2, <2>4
<1> QED
    BY <1>2, <1>3 DEF JournalExact

\* The store and its journal agree in the initial state.
LEMMA JournalInit == Init => Isolation /\ JournalExact
BY ImportersAssumption DEF Init, Idle, Isolation, ImportOK, JournalExact

\* An importer's own step leaves the other importers' transactions as they
\* were, if it touches neither the store nor another's hold on the lock.
LEMMA OthersIsolation ==
    ASSUME Types, Isolation, NEW i \in Importers, NEW new,
           imp' = [imp EXCEPT ![i] = new], objects' = objects,
           \A j \in Importers \ {i} : writer' = j <=> writer = j,
           ImportOK(i)'
    PROVE  Isolation'
<1> SUFFICES ASSUME NEW j \in Importers, j # i PROVE ImportOK(j)'
    BY DEF Isolation
<1>1. imp'[j] = imp[j] /\ (writer' = j <=> writer = j) /\ ImportOK(j)
    BY DEF Types, TypeOK, Isolation
<1> QED
    BY <1>1 DEF ImportOK

\* Every step keeps transactions isolated and the journal exact.
LEMMA JournalStep ==
    Types /\ Isolation /\ JournalExact /\ [Next]_vars => Isolation' /\ JournalExact'
<1> SUFFICES ASSUME Types, Isolation, JournalExact, [Next]_vars
             PROVE  Isolation' /\ JournalExact'
    OBVIOUS
<1> USE DEF vars, store, queues
<1>1. ASSUME NEW i \in Importers, NEW b \in Bundles, ImportOpen(i, b)
      PROVE  Isolation' /\ JournalExact'
  <2>1. ImportOK(i) /\ imp[i].pc = "idle"
      BY <1>1 DEF Isolation, ImportOpen
  <2>2. ImportOK(i)'
      BY <1>1, <2>1 DEF ImportOpen, Idle, ImportOK, Types, TypeOK
  <2> QED
      BY <1>1, <2>2, OthersIsolation DEF ImportOpen, JournalExact
<1>2. ASSUME NEW i \in Importers, ObjectExists(i) PROVE Isolation' /\ JournalExact'
  <2> DEFINE view == IF imp[i].snap = "none" THEN objects ELSE imp[i].seen
             read == [imp[i] EXCEPT !.snap = IF @ = "none" THEN "fresh" ELSE @, !.seen = view]
             new == IF Head(imp[i].todo) \in view
                    THEN [read EXCEPT !.todo = Tail(@)]
                    ELSE [read EXCEPT !.pc = "put"]
  <2>1. imp' = [imp EXCEPT ![i] = new] /\ imp[i].pc = "scan" /\ imp[i] \in ImportState
      BY <1>2 DEF ObjectExists, Types, TypeOK
  <2>2. /\ new.own = imp[i].own /\ new.seen = view
        /\ new.snap = (IF imp[i].snap = "none" THEN "fresh" ELSE imp[i].snap)
        /\ new.pc = (IF Head(imp[i].todo) \in view THEN "scan" ELSE "put")
        /\ Head(imp[i].todo) \notin view => new.todo = imp[i].todo
      BY <2>1 DEF ImportState
  <2> HIDE DEF new
  <2>3. imp'[i] = new /\ ImportOK(i)
      BY <2>1 DEF Types, TypeOK, Isolation
  <2>4. writer' = writer /\ objects' = objects
      BY <1>2 DEF ObjectExists
  <2>5. ImportOK(i)'
      BY <2>2, <2>3, <2>4 DEF ImportOK
  <2> QED
      BY <1>2, <2>1, <2>5, OthersIsolation DEF ObjectExists, JournalExact
<1>3. ASSUME NEW i \in Importers, ObjectPut(i) PROVE Isolation' /\ JournalExact'
  <2> DEFINE o == Head(imp[i].todo)
             new == [imp[i] EXCEPT !.pc = "scan", !.todo = Tail(@),
                        !.seen = @ \cup {o}, !.own = @ \cup {NewRow(i)}]
  <2>1. imp' = [imp EXCEPT ![i] = new] /\ imp[i].pc = "put" /\ imp[i] \in ImportState
      BY <1>3 DEF ObjectPut, Types, TypeOK
  <2>2. /\ new.own = imp[i].own \cup {NewRow(i)} /\ new.seen = imp[i].seen \cup {o}
        /\ new.snap = imp[i].snap /\ new.pc = "scan"
      BY <2>1 DEF ImportState
  <2>3. NewRow(i).obj = o
      BY <2>1, NewRowType
  <2> HIDE DEF new
  <2>4. imp'[i] = new /\ ImportOK(i) /\ imp[i].snap \in {"none", "fresh", "stale"}
      BY <2>1 DEF Types, TypeOK, Isolation, ImportState
  <2>5. Writable(i) /\ writer' = i /\ objects' = objects
      BY <1>3 DEF ObjectPut
  <2>6. imp[i].snap = "fresh" /\ o \notin imp[i].seen
        /\ imp[i].seen = objects \cup {r.obj : r \in imp[i].own}
      BY <2>1, <2>4, <2>5 DEF ImportOK, Writable
  <2>7. imp'[i].seen = objects' \cup {r.obj : r \in imp'[i].own}
      BY <2>2, <2>3, <2>4, <2>5, <2>6
  <2>8. \A q, r \in imp'[i].own : q.obj = r.obj => q = r
      BY <2>2, <2>3, <2>4, <2>6 DEF ImportOK
  <2>9. \A r \in imp'[i].own : r.obj \notin objects'
      BY <2>2, <2>3, <2>4, <2>5, <2>6 DEF ImportOK
  <2>10. ImportOK(i)'
      BY <2>2, <2>4, <2>5, <2>6, <2>7, <2>8, <2>9 DEF ImportOK
  <2>11. \A j \in Importers \ {i} : writer' = j <=> writer = j
      BY <2>5, ImportersAssumption DEF Writable
  <2> QED
      BY <1>3, <2>1, <2>5, <2>10, <2>11, OthersIsolation DEF ObjectPut, JournalExact
<1>4. ASSUME NEW i \in Importers, ObjectPutBusy(i) PROVE Isolation' /\ JournalExact'
  <2> DEFINE new == [imp[i] EXCEPT !.pc = "scan", !.todo = Tail(@)]
  <2>1. imp' = [imp EXCEPT ![i] = new] /\ imp[i] \in ImportState
      BY <1>4 DEF ObjectPutBusy, Types, TypeOK
  <2>2. /\ new.own = imp[i].own /\ new.seen = imp[i].seen
        /\ new.snap = imp[i].snap /\ new.pc = "scan"
      BY <2>1 DEF ImportState
  <2> HIDE DEF new
  <2>3. imp'[i] = new /\ ImportOK(i)
      BY <2>1 DEF Types, TypeOK, Isolation
  <2>4. ImportOK(i)'
      BY <1>4, <2>2, <2>3 DEF ImportOK, ObjectPutBusy
  <2> QED
      BY <1>4, <2>1, <2>4, OthersIsolation DEF ObjectPutBusy, JournalExact
<1>5. ASSUME NEW i \in Importers, DedupeRecord(i) PROVE Isolation' /\ JournalExact'
  <2> DEFINE new == [imp[i] EXCEPT !.pc = "commit"]
  <2>1. imp' = [imp EXCEPT ![i] = new] /\ imp[i] \in ImportState
      BY <1>5 DEF DedupeRecord, Types, TypeOK
  <2>2. /\ new.own = imp[i].own /\ new.seen = imp[i].seen
        /\ new.snap = imp[i].snap /\ new.pc = "commit"
      BY <2>1 DEF ImportState
  <2> HIDE DEF new
  <2>3. imp'[i] = new /\ ImportOK(i)
      BY <2>1 DEF Types, TypeOK, Isolation
  <2>4. ImportOK(i)'
      BY <1>5, <2>2, <2>3 DEF ImportOK, DedupeRecord, Writable
  <2>5. \A j \in Importers \ {i} : writer' = j <=> writer = j
      BY <1>5, ImportersAssumption DEF DedupeRecord, Writable
  <2> QED
      BY <1>5, <2>1, <2>4, <2>5, OthersIsolation DEF DedupeRecord, JournalExact
<1>6. ASSUME NEW i \in Importers, Commit(i) PROVE Isolation' /\ JournalExact'
  <2>1. writer = i /\ ImportOK(i) /\ imp[i].snap \in {"none", "fresh", "stale"}
      BY <1>6 DEF Commit, Isolation, Types, TypeOK, ImportState
  <2>2. objects' = objects \cup {r.obj : r \in imp[i].own} /\ journal' = journal \cup imp[i].own
      BY <1>6, <2>1 DEF Commit, ImportOK
  <2>3. JournalExact'
      BY <2>1, <2>2 DEF JournalExact, ImportOK
  <2>4. imp'[i] = Idle /\ writer' = NoProcess
      BY <1>6, OutdatedKeeps DEF Commit, Types
  <2>5. ImportOK(i)'
      BY <2>4, ImportersAssumption DEF ImportOK, Idle
  <2>6. ASSUME NEW j \in Importers, j # i PROVE ImportOK(j)'
    <3>1. ImportOK(j) /\ imp[j].own = {}
        BY <2>1, <2>6 DEF Isolation, ImportOK
    <3>2. imp'[j] = Outdated(Importers)[j]
        BY <1>6, <2>6, OutdatedKeeps DEF Commit, Types
    <3> QED
        BY <2>4, <3>1, <3>2, OutdatedKeeps, ImportersAssumption DEF ImportOK, Types
  <2> QED
      BY <2>3, <2>5, <2>6 DEF Isolation
<1>7. ASSUME NEW i \in Importers, CommitNothing(i) PROVE Isolation' /\ JournalExact'
  <2>1. imp'[i] = Idle /\ writer' # i
      BY <1>7 DEF CommitNothing, Types, TypeOK
  <2>2. ImportOK(i)'
      BY <2>1 DEF ImportOK, Idle
  <2> QED
      BY <1>7, <2>2, OthersIsolation DEF CommitNothing, JournalExact
<1>8. ASSUME NEW i \in Importers, Rollback(i) PROVE Isolation' /\ JournalExact'
  <2>1. imp'[i] = Idle /\ writer' # i
      BY <1>8, ImportersAssumption DEF Rollback, Types, TypeOK
  <2>2. ImportOK(i)'
      BY <2>1 DEF ImportOK, Idle
  <2>3. \A j \in Importers \ {i} : writer' = j <=> writer = j
      BY <1>8, ImportersAssumption DEF Rollback
  <2> QED
      BY <1>8, <2>2, <2>3, OthersIsolation DEF Rollback, JournalExact
<1>9. CASE FanoutJournal \/ QueueFanout \/ MarkSent \/ QueueUpstream \/ DedupePrune \/ SweepSent
  <2>1. writer = NoProcess /\ Wrote /\ UNCHANGED <<writer, objects, journal>>
      BY <1>9 DEF FanoutJournal, QueueFanout, MarkSent, QueueUpstream, DedupePrune, SweepSent
  <2> QED
      BY <2>1, StatementIsolation DEF JournalExact
<1>10. CASE MarkProcessed \/ Rescan
    BY <1>10, StatementIsolation, RestateExact DEF MarkProcessed, Rescan
<1>11. CASE CoveBusy \/ NotDue \/ CoveCrash \/ UNCHANGED vars
  <2>1. UNCHANGED <<store, writer, imp>>
      BY <1>11 DEF CoveBusy, NotDue, CoveCrash
  <2> QED
      BY <2>1 DEF Isolation, ImportOK, JournalExact
<1> QED
    BY <1>1, <1>2, <1>3, <1>4, <1>5, <1>6, <1>7, <1>8, <1>9, <1>10, <1>11 DEF Next, Import, Pass

\* Whatever imports overlap, fail or are killed, every stored object has
\* exactly one journal row and every journal row an object.
THEOREM JournalCorrect == Spec => []JournalExact
BY TypesInit, TypesStep, JournalInit, JournalStep, PTL DEF Spec

-----------------------------------------------------------------------------
\* What the queues hold.  Rows are about stored objects only, so a new journal
\* row finds none for its object; there is at most one of each kind per
\* target; and a row with a source link is one that process_upstream_queue
\* leaves alone.
Known == \A t \in Targets : t[2] \notin objects => pending[t] = 0 /\ sent[t] = 0 /\ outbound[t] = 0
FanoutOnce == \A t \in Targets : pending[t] + sent[t] \leq 1
LinkKind(r) == r.via # NoLink => r.kind = "link"
KindOK ==
    /\ \A r \in journal : LinkKind(r)
    /\ \A i \in Importers : \A r \in imp[i].own : LinkKind(r)

Routing == Known /\ FanoutOnce /\ KindOK /\ NoEcho /\ OutboundOnce /\ SentIsQueued

\* A set of journal rows about one object has at most one element.
LEMMA OneRow ==
    ASSUME Types, JournalExact, NEW S \in SUBSET journal, NEW o, \A r \in S : r.obj = o
    PROVE  /\ Cardinality(S) \in {0, 1}
           /\ o \notin objects => Cardinality(S) = 0
           /\ S = {} => Cardinality(S) = 0
<1>1. CASE S = {}
    BY <1>1, FS_EmptySet
<1>2. CASE S # {}
  <2>1. PICK r \in S : TRUE
      BY <1>2
  <2>2. S = {r} /\ r.obj \in objects /\ r.obj = o
      BY <2>1 DEF JournalExact
  <2> QED
      BY <1>2, <2>2, FS_Singleton
<1> QED
    BY <1>1, <1>2

\* The queues are in order in the initial state.
LEMMA RoutingInit == Init => Routing
BY DEF Init, Idle, Routing, Known, FanoutOnce, KindOK, LinkKind, NoEcho, OutboundOnce, SentIsQueued, Targets

\* Restating rows changes neither what they are about nor where they came from.
LEMMA RestateRouting ==
    ASSUME Types, Routing, NEW x \in {0, 1}, Wrote, UNCHANGED <<queues, objects>>,
           journal' = {[r EXCEPT !.state = x] : r \in journal}
    PROVE  Routing'
<1>1. \A r \in journal' : \E a \in journal : r.obj = a.obj /\ r.via = a.via /\ r.kind = a.kind
    BY DEF Types, TypeOK, Rows
<1>2. \A i \in Importers : imp'[i].own = imp[i].own
    BY WroteKeeps DEF Types
<1>3. KindOK'
    BY <1>1, <1>2 DEF Routing, KindOK, LinkKind
<1>4. NoEcho'
    BY <1>1 DEF Routing, NoEcho, queues
<1> QED
    BY <1>3, <1>4 DEF Routing, Known, FanoutOnce, OutboundOnce, SentIsQueued, queues

\* A step that writes neither the journal nor a queue keeps the queues in order
\* if it inserts no row of a wrong kind.
LEMMA QuietRouting ==
    ASSUME Routing, UNCHANGED <<queues, objects, journal>>,
           \A i \in Importers : \A r \in imp'[i].own : LinkKind(r)
    PROVE  Routing'
BY DEF Routing, Known, FanoutOnce, KindOK, LinkKind, NoEcho, OutboundOnce, SentIsQueued, queues

\* The target of a row that has a source link.
LEMMA SourceTarget ==
    ASSUME TypeOK, NEW r \in journal, r.via # NoLink
    PROVE  <<r.via, r.obj>> \in Targets
BY DEF TypeOK, Rows, Targets

\* Every step keeps the queues in order.
LEMMA RoutingStep ==
    Types /\ Isolation /\ JournalExact /\ Routing /\ [Next]_vars => Routing'
<1> SUFFICES ASSUME Types, Isolation, JournalExact, Routing, [Next]_vars PROVE Routing'
    OBVIOUS
<1> USE DEF vars, store, queues
<1>0. \A i \in Importers : imp[i] \in ImportState
    BY DEF Types, TypeOK
<1> DEFINE Quiet(i) == \/ \E b \in Bundles : ImportOpen(i, b)
                       \/ ObjectExists(i) \/ ObjectPutBusy(i) \/ DedupeRecord(i)
                       \/ CommitNothing(i) \/ Rollback(i)
<1>1. ASSUME NEW i \in Importers, Quiet(i) PROVE Routing'
  <2>1. imp'[i].own \subseteq imp[i].own /\ \A j \in Importers \ {i} : imp'[j] = imp[j]
    <3>1. ASSUME \E b \in Bundles : ImportOpen(i, b) PROVE <2>1!:
        BY <3>1 DEF ImportOpen, Idle, Types, TypeOK
    <3>2. ASSUME ObjectExists(i) PROVE <2>1!:
        BY <3>2, <1>0 DEF ObjectExists, ImportState, Types, TypeOK
    <3>3. ASSUME ObjectPutBusy(i) PROVE <2>1!:
      <4>1. [imp[i] EXCEPT !.pc = "scan", !.todo = Tail(@)].own = imp[i].own
          BY <1>0 DEF ImportState
      <4> QED
          BY <3>3, <4>1 DEF ObjectPutBusy, Types, TypeOK
    <3>5. ASSUME DedupeRecord(i) PROVE <2>1!:
        BY <3>5, <1>0 DEF DedupeRecord, ImportState, Types, TypeOK
    <3>4. ASSUME CommitNothing(i) \/ Rollback(i) PROVE <2>1!:
        BY <3>4 DEF CommitNothing, Rollback, Idle, Types, TypeOK
    <3> QED
        BY <1>1, <3>1, <3>2, <3>3, <3>4, <3>5
  <2>2. UNCHANGED <<queues, objects, journal>>
      BY <1>1 DEF ImportOpen, ObjectExists, ObjectPutBusy, DedupeRecord, CommitNothing, Rollback
  <2>3. \A j \in Importers : \A r \in imp'[j].own : LinkKind(r)
      BY <2>1 DEF Routing, KindOK
  <2> QED
      BY <2>2, <2>3, QuietRouting
<1>2. ASSUME NEW i \in Importers, ObjectPut(i) PROVE Routing'
  <2>1. imp[i].bundle \in Bundles
      BY <1>2 DEF ObjectPut, Types, TypeOK
  <2>2. LinkKind(NewRow(i))
      BY <2>1, BundlesAssumption DEF LinkKind, NewRow
  <2>3. imp'[i].own = imp[i].own \cup {NewRow(i)} /\ \A j \in Importers \ {i} : imp'[j] = imp[j]
      BY <1>2, <1>0 DEF ObjectPut, ImportState, Types, TypeOK
  <2>4. \A j \in Importers : \A r \in imp'[j].own : LinkKind(r)
      BY <2>2, <2>3 DEF Routing, KindOK
  <2>5. UNCHANGED <<queues, objects, journal>>
      BY <1>2 DEF ObjectPut
  <2> QED
      BY <2>4, <2>5, QuietRouting
<1>3. ASSUME NEW i \in Importers, Commit(i) PROVE Routing'
  <2>1. UNCHANGED queues /\ objects \subseteq objects' /\ journal' = journal \cup imp[i].own
      BY <1>3 DEF Commit
  <2>2. \A r \in imp[i].own : r.obj \notin objects /\ r \in Rows
      BY <1>0 DEF Isolation, ImportOK, ImportState
  <2>3. \A j \in Importers : imp'[j].own \subseteq imp[j].own
      BY <1>3, OutdatedKeeps DEF Commit, Idle, Types
  <2>4. KindOK'
      BY <2>1, <2>3 DEF Routing, KindOK, LinkKind
  <2>5. \A r \in imp[i].own : r.via # NoLink => <<r.via, r.obj>> \in Targets
      BY <2>2 DEF Rows, Targets
  <2>6. NoEcho'
      BY <2>1, <2>2, <2>5 DEF Routing, NoEcho, Known
  <2> QED
      BY <2>1, <2>4, <2>6 DEF Routing, Known, FanoutOnce, OutboundOnce, SentIsQueued
<1>4. CASE FanoutJournal
  <2>2. \A r \in journal : r.via # NoLink => Matches(<<r.via, r.obj>>) = {}
    <3> SUFFICES ASSUME NEW r \in journal, r.via # NoLink, NEW q \in Matches(<<r.via, r.obj>>)
                 PROVE  FALSE
        OBVIOUS
    <3>1. q \in journal /\ q.obj = r.obj /\ q.via # r.via
        BY DEF Matches
    <3> QED
        BY <3>1 DEF JournalExact
  <2>3. \A t \in Targets : pending'[t] = IF pending[t] + sent[t] = 0
                                         THEN Cardinality(Matches(t)) ELSE pending[t]
      BY <1>4 DEF FanoutJournal
  <2>4. UNCHANGED <<objects, journal, sent, outbound>> /\ Wrote
      BY <1>4 DEF FanoutJournal
  <2>5. \A t \in Targets : pending[t] \in Nat /\ sent[t] \in Nat
      BY DEF Types, TypeOK
  <2>6. Known' /\ FanoutOnce'
    <3> SUFFICES ASSUME NEW t \in Targets
                 PROVE  /\ t[2] \notin objects => pending'[t] = 0 /\ sent[t] = 0 /\ outbound[t] = 0
                        /\ pending'[t] + sent[t] \leq 1
        BY <2>4 DEF Known, FanoutOnce
    <3> DEFINE n == Cardinality(Matches(t))
    <3>0. Matches(t) \in SUBSET journal /\ \A r \in Matches(t) : r.obj = t[2]
        BY DEF Matches
    <3>1. n \in {0, 1} /\ (t[2] \notin objects => n = 0)
        BY <3>0, OneRow
    <3>2. pending'[t] = IF pending[t] + sent[t] = 0 THEN n ELSE pending[t]
        BY <2>3
    <3> HIDE DEF n
    <3> QED
        BY <2>5, <3>1, <3>2 DEF Routing, Known, FanoutOnce
  <2>7. NoEcho'
    <3> SUFFICES ASSUME NEW r \in journal, r.via # NoLink
                 PROVE  LET t == <<r.via, r.obj>> IN pending'[t] = 0 /\ sent'[t] = 0 /\ outbound'[t] = 0
        BY <2>4 DEF NoEcho
    <3>1. <<r.via, r.obj>> \in Targets
        BY SourceTarget DEF Types
    <3>2. Cardinality(Matches(<<r.via, r.obj>>)) = 0
      <4>1. Matches(<<r.via, r.obj>>) = {}
          BY <2>2
      <4> QED
          BY <4>1, FS_EmptySet
    <3> QED
        BY <2>3, <2>4, <3>1, <3>2 DEF Routing, NoEcho
  <2>8. KindOK'
      BY <2>4, WroteKeeps DEF Routing, KindOK, Types
  <2> QED
      BY <2>4, <2>6, <2>7, <2>8 DEF Routing, OutboundOnce, SentIsQueued
<1>5. CASE QueueFanout
  <2>1. \A t \in Targets : outbound'[t] = IF outbound[t] = 0 THEN pending[t] ELSE outbound[t]
      BY <1>5 DEF QueueFanout
  <2>2. UNCHANGED <<objects, journal, sent, pending>> /\ Wrote
      BY <1>5 DEF QueueFanout
  <2>3. \A t \in Targets : pending[t] \in Nat /\ sent[t] \in Nat /\ outbound[t] \in Nat
      BY DEF Types, TypeOK
  <2>4. NoEcho'
      BY <2>1, <2>2, SourceTarget DEF Routing, NoEcho, Types
  <2>5. KindOK'
      BY <2>2, WroteKeeps DEF Routing, KindOK, Types
  <2> QED
      BY <2>1, <2>2, <2>3, <2>4, <2>5 DEF Routing, Known, FanoutOnce, OutboundOnce, SentIsQueued
<1>6. CASE MarkSent
  <2>1. \A t \in Targets :
           /\ sent'[t] = IF outbound[t] > 0 THEN sent[t] + pending[t] ELSE sent[t]
           /\ pending'[t] = IF outbound[t] > 0 THEN 0 ELSE pending[t]
      BY <1>6 DEF MarkSent
  <2>2. UNCHANGED <<objects, journal, outbound>> /\ Wrote
      BY <1>6 DEF MarkSent
  <2>3. \A t \in Targets : pending[t] \in Nat /\ sent[t] \in Nat /\ outbound[t] \in Nat
      BY DEF Types, TypeOK
  <2>4. NoEcho'
      BY <2>1, <2>2, SourceTarget DEF Routing, NoEcho, Types
  <2>5. KindOK'
      BY <2>2, WroteKeeps DEF Routing, KindOK, Types
  <2> QED
      BY <2>1, <2>2, <2>3, <2>4, <2>5 DEF Routing, Known, FanoutOnce, OutboundOnce, SentIsQueued
<1>7. CASE QueueUpstream
  <2>2. \A r \in journal : r.via # NoLink => Forwards(<<r.via, r.obj>>) = {}
    <3> SUFFICES ASSUME NEW r \in journal, r.via # NoLink, NEW q \in Forwards(<<r.via, r.obj>>)
                 PROVE  FALSE
        OBVIOUS
    <3>1. q \in journal /\ q.obj = r.obj /\ q.kind # "link"
        BY DEF Forwards
    <3>2. r.kind = "link"
        BY DEF Routing, KindOK, LinkKind
    <3> QED
        BY <3>1, <3>2 DEF JournalExact
  <2>3. \A t \in Targets : outbound'[t] = IF outbound[t] = 0
                                          THEN Cardinality(Forwards(t)) ELSE outbound[t]
      BY <1>7 DEF QueueUpstream
  <2>4. UNCHANGED <<objects, journal, sent, pending>> /\ Wrote
      BY <1>7 DEF QueueUpstream
  <2>5. \A t \in Targets : outbound[t] \in Nat
      BY DEF Types, TypeOK
  <2>6. NoEcho'
    <3> SUFFICES ASSUME NEW r \in journal, r.via # NoLink
                 PROVE  LET t == <<r.via, r.obj>> IN pending'[t] = 0 /\ sent'[t] = 0 /\ outbound'[t] = 0
        BY <2>4 DEF NoEcho
    <3>1. <<r.via, r.obj>> \in Targets
        BY SourceTarget DEF Types
    <3>2. Cardinality(Forwards(<<r.via, r.obj>>)) = 0
      <4>1. Forwards(<<r.via, r.obj>>) = {}
          BY <2>2
      <4> QED
          BY <4>1, FS_EmptySet
    <3> QED
        BY <2>3, <2>4, <3>1, <3>2 DEF Routing, NoEcho
  <2>7. KindOK'
      BY <2>4, WroteKeeps DEF Routing, KindOK, Types
  <2>8. Known' /\ OutboundOnce' /\ SentIsQueued'
    <3> SUFFICES ASSUME NEW t \in Targets
                 PROVE  /\ t[2] \notin objects => pending[t] = 0 /\ sent[t] = 0 /\ outbound'[t] = 0
                        /\ outbound'[t] \leq 1
                        /\ sent[t] > 0 => outbound'[t] > 0
        BY <2>4 DEF Known, OutboundOnce, SentIsQueued
    <3> DEFINE n == Cardinality(Forwards(t))
    <3>0. Forwards(t) \in SUBSET journal /\ \A r \in Forwards(t) : r.obj = t[2]
        BY DEF Forwards
    <3>1. n \in {0, 1} /\ (t[2] \notin objects => n = 0)
        BY <3>0, OneRow
    <3>2. outbound'[t] = IF outbound[t] = 0 THEN n ELSE outbound[t]
        BY <2>3
    <3> HIDE DEF n
    <3> QED
        BY <2>5, <3>1, <3>2 DEF Routing, Known, OutboundOnce, SentIsQueued
  <2> QED
      BY <2>4, <2>6, <2>7, <2>8 DEF Routing, FanoutOnce
<1>8. CASE SweepSent
  <2>1. \A t \in Targets : sent'[t] \in {0, sent[t]}
      BY <1>8 DEF SweepSent
  <2>2. UNCHANGED <<objects, journal, outbound, pending>> /\ Wrote
      BY <1>8 DEF SweepSent
  <2>3. \A t \in Targets : pending[t] \in Nat /\ sent[t] \in Nat /\ outbound[t] \in Nat
      BY DEF Types, TypeOK
  <2>4. NoEcho'
      BY <2>1, <2>2, SourceTarget DEF Routing, NoEcho, Types
  <2>5. KindOK'
      BY <2>2, WroteKeeps DEF Routing, KindOK, Types
  <2> QED
      BY <2>1, <2>2, <2>3, <2>4, <2>5 DEF Routing, Known, FanoutOnce, OutboundOnce, SentIsQueued
<1>9. CASE MarkProcessed \/ Rescan
    BY <1>9, RestateRouting DEF MarkProcessed, Rescan
<1>10. CASE DedupePrune
  <2>1. UNCHANGED <<queues, objects, journal>> /\ Wrote
      BY <1>10 DEF DedupePrune
  <2>2. \A i \in Importers : \A r \in imp'[i].own : LinkKind(r)
      BY <2>1, WroteKeeps DEF Routing, KindOK, Types
  <2> QED
      BY <2>1, <2>2, QuietRouting
<1>11. CASE CoveBusy \/ NotDue \/ CoveCrash \/ UNCHANGED vars
  <2>1. UNCHANGED <<queues, objects, journal, imp>>
      BY <1>11 DEF CoveBusy, NotDue, CoveCrash
  <2> QED
      BY <2>1, QuietRouting DEF Routing, KindOK
<1>12. ASSUME NEW i \in Importers, (\E b \in Bundles : ImportOpen(i, b)) \/ Import(i) \/ Rollback(i)
       PROVE  Routing'
  <2>1. CASE ObjectPut(i)
      BY <1>2, <2>1
  <2>2. CASE Commit(i)
      BY <1>3, <2>2
  <2>3. CASE Quiet(i)
    <3> HIDE DEF Quiet
    <3> QED
        BY <1>1, <2>3
  <2> QED
      BY <1>12, <2>1, <2>2, <2>3 DEF Import
<1>13. CASE Pass
    BY <1>4, <1>5, <1>6, <1>7, <1>8, <1>9, <1>10, <1>11, <1>13 DEF Pass
<1> QED
    BY <1>9, <1>11, <1>12, <1>13 DEF Next

\* No object is ever queued for the link it came in on.
THEOREM NoEchoHolds == Spec => []NoEcho
<1>1. Routing => NoEcho
    BY DEF Routing
<1> QED
    BY TypesInit, TypesStep, JournalInit, JournalStep, RoutingInit, RoutingStep, <1>1, PTL DEF Spec

\* No link ever has two outbound rows for one object.
THEOREM OutboundOnceHolds == Spec => []OutboundOnce
<1>1. Routing => OutboundOnce
    BY DEF Routing
<1> QED
    BY TypesInit, TypesStep, JournalInit, JournalStep, RoutingInit, RoutingStep, <1>1, PTL DEF Spec

\* A fan-out row is marked as sent only once it is in the outbound queue.
THEOREM SentIsQueuedHolds == Spec => []SentIsQueued
<1>1. Routing => SentIsQueued
    BY DEF Routing
<1> QED
    BY TypesInit, TypesStep, JournalInit, JournalStep, RoutingInit, RoutingStep, <1>1, PTL DEF Spec
=============================================================================
