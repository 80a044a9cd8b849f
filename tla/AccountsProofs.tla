--------------------------- MODULE AccountsProofs ---------------------------
(***************************************************************************)
(* Proofs about Accounts, for any users, sessions, addresses, files, sizes *)
(* of the throttle tables, prices and limits.                              *)
(*                                                                         *)
(* Callers.  A session's copies agree from the moment the caller is in,    *)
(* and what was compared before a prompt or a transfer still holds when it *)
(* ends: nobody but the session writes its counters.  Points for uploads   *)
(* never outnumber the uploads, because a session that has yet to be       *)
(* credited for one has fewer than there are.                              *)
(*                                                                         *)
(* Counting.  A session that passed the throttle and has yet to fail is    *)
(* counted with the entry that its failure would be added to: an entry in  *)
(* its window and those sessions together never exceed the bound, since    *)
(* nobody is let past a full entry.                                        *)
(***************************************************************************)
EXTENDS Accounts, FiniteSetTheorems, SequenceTheorems, WellFoundedInduction, TLAPS

-----------------------------------------------------------------------------
(* The inductive invariant.  k is the number of uploads so far.            *)

Rows(k) == [pw : Pws, q : BOOLEAN, ans : Pws, flags : BOOLEAN, level : 1..2,
            credits : 0..MaxCredits, fp : 0..k, dl : Nat, ul : 0..k]

Sess(k) == [pc : Pcs, who : Users, usr : Rows(k) \cup {NoRow}, cred : 0..MaxCredits,
            fps : 0..k, buf : Rows(k) \cup {NoRow}, tgt : Users, name : Names \cup {""},
            id : 0..MaxFiles, list : Seq(FileIds)]

AtPrompt == {"idle", "pw", "ask", "answer", "reset", "expired", "reg"}

(* What a session at r.pc relies on.                                       *)
Fits(r, k) ==
  /\ r.pc \notin {"idle", "ask", "answer", "reset", "reg"} => r.usr \in Rows(k)
  /\ r.pc \notin AtPrompt => r.cred = r.usr.credits /\ r.fps = r.usr.fp
  /\ r.pc = "edit" => r.buf \in Rows(k)
  /\ r.pc = "sub" => Price <= r.cred
  /\ r.pc = "dl" => Cost <= r.cred
  /\ r.pc \in {"up", "staged", "describe"} => r.name \in Names
  /\ r.pc = "describe" => r.usr.fp < k /\ r.usr.ul < k
  /\ r.pc = "validate" => r.list # <<>>
  /\ Len(r.list) <= MaxFiles

Stored ==
  /\ users \in [Users -> Rows(uploads) \cup {NoRow}]
  /\ files \in [FileIds -> FileRow \cup {NoRow}]
  /\ disk \in [Names -> 0..MaxFiles]
  /\ uploads \in 0..MaxFiles /\ work \in 0..MaxWork
  /\ approved \subseteq 0..MaxFiles

Callers ==
  /\ sess \in [Sessions -> Sess(uploads)]
  /\ \A s \in Sessions : Fits(sess[s], uploads)

(* The sessions that stand where a failure will be recorded, and for whom. *)
Standing(pcs) == {s \in Sessions : sess[s].pc \in pcs}
LoggingIn == {"pw"}
Recovering == {"answer", "reset"}
Who == [s \in Sessions |-> sess[s].who]

Table == [1..Slots -> Entry \cup {NoRow}]
Limit(max) == max + Cardinality(Sessions) - 1
Pending(e, W, who) == {s \in W : Matches(e, Ip[s], who[s])}
Within(e, W, who, max) ==
  e # NoRow => /\ e.n <= Limit(max)
               /\ ~e.old => e.n + Cardinality(Pending(e, W, who)) <= Limit(max)
Bounded(t, W, who, max) == t \in Table /\ \A i \in 1..Slots : Within(t[i], W, who, max)

Counting ==
  /\ Bounded(logins, Standing(LoggingIn), Who, MaxLogin)
  /\ Bounded(recov, Standing(Recovering), Who, MaxRecovery)

Strong == Stored /\ Callers /\ Counting

-----------------------------------------------------------------------------
(* The constants.                                                          *)

LEMMA Sizes ==
  /\ Sysop \in Users /\ Guest \in Users /\ MaxPw \in Nat \ {0} /\ MaxCredits \in Nat
  /\ DefaultCredits \in 0..MaxCredits /\ Price \in Nat /\ Cost \in Nat
  /\ Slots \in Nat \ {0} /\ MaxLogin \in Nat \ {0} /\ MaxRecovery \in Nat \ {0}
  /\ MaxFiles \in Nat /\ MaxWork \in Nat
BY AccountsAssumption

LEMMA Crowd ==
  /\ IsFiniteSet(Sessions) /\ Cardinality(Sessions) \in Nat \ {0}
  /\ \A max \in Nat \ {0} : Limit(max) \in Nat \ {0} /\ Limit(max) >= max
<1>1. IsFiniteSet(Sessions) /\ Sessions # {}
  BY AccountsAssumption
<1>2. Cardinality(Sessions) \in Nat \ {0}
  BY <1>1, FS_CardinalityType, FS_EmptySet
<1> QED  BY <1>1, <1>2 DEF Limit

(* The sessions that could be counted with an entry.                       *)
LEMMA PendingCount ==
  ASSUME NEW e, NEW W \in SUBSET Sessions, NEW who
  PROVE  /\ IsFiniteSet(Pending(e, W, who)) /\ Cardinality(Pending(e, W, who)) \in Nat
         /\ Cardinality(Pending(e, W, who)) <= Cardinality(Sessions)
<1>1. Pending(e, W, who) \in SUBSET Sessions
  BY DEF Pending
<1> QED  BY <1>1, Crowd, FS_Subset, FS_CardinalityType

LEMMA FewerPending ==
  ASSUME NEW e, NEW W \in SUBSET Sessions, NEW who, NEW V, NEW whom,
         Pending(e, V, whom) \subseteq Pending(e, W, who)
  PROVE  /\ Cardinality(Pending(e, V, whom)) \in Nat
         /\ Cardinality(Pending(e, V, whom)) <= Cardinality(Pending(e, W, who))
<1>1. IsFiniteSet(Pending(e, W, who))
  BY PendingCount
<1>2. IsFiniteSet(Pending(e, V, whom))
  BY <1>1, FS_Subset
<1> QED  BY <1>1, <1>2, FS_Subset, FS_CardinalityType

(* An entry stays within its bound while it is freed or grows old and      *)
(* sessions leave.                                                         *)
LEMMA StaysWithin ==
  ASSUME NEW e \in Entry \cup {NoRow}, NEW W \in SUBSET Sessions, NEW who, NEW V, NEW whom,
         NEW max \in Nat \ {0}, Within(e, W, who, max),
         Pending(e, V, whom) \subseteq Pending(e, W, who)
  PROVE  Within(e, V, whom, max)
<1>1. CASE e = NoRow
  BY <1>1 DEF Within
<1>2. CASE e \in Entry
  <2>1. e.n \in Nat /\ Limit(max) \in Nat
    BY <1>2, Crowd DEF Entry
  <2>2. /\ Cardinality(Pending(e, V, whom)) \in Nat /\ Cardinality(Pending(e, W, who)) \in Nat
        /\ Cardinality(Pending(e, V, whom)) <= Cardinality(Pending(e, W, who))
    BY FewerPending, PendingCount
  <2> QED  BY <2>1, <2>2 DEF Within
<1> QED  BY <1>1, <1>2

LEMMA StaysBounded ==
  ASSUME NEW t, NEW W \in SUBSET Sessions, NEW who, NEW max \in Nat \ {0},
         Bounded(t, W, who, max), NEW t2 \in Table,
         NEW V \in SUBSET W, NEW whom, \A s \in V : whom[s] = who[s],
         \A i \in 1..Slots : \/ t2[i] = t[i] \/ t2[i] = NoRow
                             \/ t[i] # NoRow /\ t2[i] = [t[i] EXCEPT !.old = TRUE]
  PROVE  Bounded(t2, V, whom, max)
<1> SUFFICES ASSUME NEW i \in 1..Slots PROVE Within(t2[i], V, whom, max)
  BY DEF Bounded
<1>1. t[i] \in Entry \cup {NoRow} /\ Within(t[i], W, who, max)
  BY DEF Bounded, Table
<1>2. CASE t2[i] = t[i]
  <2>1. Pending(t[i], V, whom) \subseteq Pending(t[i], W, who)
    BY DEF Pending
  <2> QED  BY <1>1, <1>2, <2>1, StaysWithin
<1>3. CASE t2[i] = NoRow
  BY <1>3 DEF Within
<1>4. CASE t[i] # NoRow /\ t2[i] = [t[i] EXCEPT !.old = TRUE]
  <2>1. t2[i].n = t[i].n /\ t2[i].old
    BY <1>1, <1>4 DEF Entry
  <2> QED  BY <1>1, <1>4, <2>1 DEF Within
<1> QED  BY <1>2, <1>3, <1>4

-----------------------------------------------------------------------------
(* The throttle tables.                                                    *)

LEMMA Least ==
  ASSUME NEW S \in SUBSET Nat, S # {}
  PROVE  \E i \in S : \A j \in S : i <= j
<1>1. \E i \in S : \A j \in S : ~(<<j, i>> \in OpToRel(<, Nat))
  BY NatLessThanWellFounded, WFMin
<1>2. \A i, j \in S : ~(<<j, i>> \in OpToRel(<, Nat)) => i <= j
  BY DEF OpToRel
<1> QED  BY <1>1, <1>2

LEMMA Greatest ==
  ASSUME NEW n \in Nat, NEW S \in SUBSET (1..n), S # {}
  PROVE  \E i \in S : \A j \in S : j <= i
<1> DEFINE T == {k \in 1..n : n + 1 - k \in S}
<1>1. \A j \in S : n + 1 - j \in T
  <2> SUFFICES ASSUME NEW j \in S PROVE n + 1 - j \in T
    OBVIOUS
  <2>1. n + 1 - j \in 1..n /\ n + 1 - (n + 1 - j) = j
    OBVIOUS
  <2> QED  BY <2>1
<1>2. T \in SUBSET Nat /\ T # {}
  <2>1. T \in SUBSET Nat
    OBVIOUS
  <2>2. PICK x \in S : TRUE
    OBVIOUS
  <2> HIDE DEF T
  <2> QED  BY <1>1, <2>1, <2>2
<1>3. PICK k \in T : \A l \in T : k <= l
  BY <1>2, Least
<1>4. n + 1 - k \in S /\ \A j \in S : j <= n + 1 - k
  BY <1>1, <1>3
<1> QED  BY <1>4

LEMMA LeastSlot ==
  ASSUME NEW S \in SUBSET (1..Slots), S # {}
  PROVE  \E i \in S : \A j \in S : i <= j
<1>1. S \in SUBSET Nat
  BY Sizes
<1> QED  BY <1>1, Least

LEMMA LastSlot ==
  ASSUME NEW S \in SUBSET (1..Slots), S # {}
  PROVE  \E i \in S : \A j \in S : j <= i
BY Sizes, Greatest

LEMMA ScannedIs ==
  ASSUME NEW t \in Table, NEW ip, NEW h, NEW max
  PROVE  /\ Scanned(t, ip, h, max) \in Table
         /\ \A i \in 1..Slots : \/ Scanned(t, ip, h, max)[i] = t[i]
                                \/ Scanned(t, ip, h, max)[i] = NoRow
<1> DEFINE stop == {i \in 1..Slots : Matches(t[i], ip, h) /\ ~t[i].old /\ t[i].n >= max}
           k == IF stop = {} THEN Slots ELSE CHOOSE i \in stop : \A j \in stop : i <= j
<1>1. Scanned(t, ip, h, max) = [i \in 1..Slots |-> IF i <= k THEN Forget(t)[i] ELSE t[i]]
  BY DEF Scanned
<1>2. \A i \in 1..Slots : Forget(t)[i] \in {t[i], NoRow}
  BY DEF Forget
<1> HIDE DEF k
<1> QED  BY <1>1, <1>2 DEF Table

LEMMA ScanKeeps ==
  ASSUME NEW t, NEW W \in SUBSET Sessions, NEW who, NEW max \in Nat \ {0}, Bounded(t, W, who, max),
         NEW V \in SUBSET W, NEW whom, \A s \in V : whom[s] = who[s],
         NEW ip, NEW h, NEW limit
  PROVE  Bounded(Scanned(t, ip, h, limit), V, whom, max)
<1> DEFINE t2 == Scanned(t, ip, h, limit)
<1>1. t2 \in Table /\ \A i \in 1..Slots : t2[i] = t[i] \/ t2[i] = NoRow
  BY ScannedIs DEF Bounded
<1> HIDE DEF t2
<1>2. Bounded(t2, V, whom, max)
  BY <1>1, StaysBounded
<1> QED  BY <1>2 DEF t2

(* Whoever is let past the throttle is counted with entries that are not   *)
(* full.                                                                   *)
LEMMA LetPast ==
  ASSUME NEW t, NEW W \in SUBSET Sessions, NEW who, NEW max \in Nat \ {0}, Bounded(t, W, who, max),
         NEW s \in Sessions, NEW h, ~Throttled(t, Ip[s], h, max),
         NEW V \in SUBSET (W \cup {s}), NEW whom, whom[s] = h,
         \A q \in V \ {s} : whom[q] = who[q]
  PROVE  Bounded(Scanned(t, Ip[s], h, max), V, whom, max)
<1> DEFINE t2 == Scanned(t, Ip[s], h, max)
<1>1. t \in Table /\ t2 \in Table /\ \A i \in 1..Slots : t2[i] = t[i] \/ t2[i] = NoRow
  BY ScannedIs DEF Bounded
<1> HIDE DEF t2
<1> SUFFICES ASSUME NEW i \in 1..Slots, t2[i] # NoRow PROVE Within(t2[i], V, whom, max)
  BY <1>1 DEF Bounded, Within, t2
<1>2. t2[i] = t[i] /\ t[i] \in Entry /\ Within(t[i], W, who, max)
  BY <1>1 DEF Bounded, Table
<1>3. t[i].n \in Nat /\ t[i].old \in BOOLEAN /\ Limit(max) \in Nat
  BY <1>2, Crowd DEF Entry
<1>4. CASE Matches(t[i], Ip[s], h) /\ ~t[i].old
  <2>1. t[i].n < max
    BY <1>3, <1>4 DEF Throttled
  <2>2. V \in SUBSET Sessions
    OBVIOUS
  <2>3. /\ Cardinality(Pending(t[i], V, whom)) \in Nat
        /\ Cardinality(Pending(t[i], V, whom)) <= Cardinality(Sessions)
    BY <2>2, PendingCount
  <2> QED  BY <1>2, <1>3, <2>1, <2>3, Crowd DEF Within, Limit
<1>5. CASE t[i].old
  BY <1>2, <1>3, <1>5 DEF Within
<1>6. CASE ~Matches(t[i], Ip[s], h)
  <2>1. Pending(t[i], V, whom) \subseteq Pending(t[i], W, who)
    BY <1>6 DEF Pending
  <2> QED  BY <1>2, <2>1, StaysWithin
<1> QED  BY <1>3, <1>4, <1>5, <1>6

(* What a failure does to the table: it is added to a live entry that it   *)
(* matches, or is the first of a new one, and no other entry grows.        *)
LEMMA RecordedIs ==
  ASSUME NEW t \in Table, NEW s \in Sessions, NEW h \in Users
  PROVE  LET t2 == Recorded(t, Ip[s], h)
         IN /\ t2 \in Table
            /\ \A i \in 1..Slots :
                 \/ t2[i] = t[i] \/ t2[i] = NoRow
                 \/ Matches(t[i], Ip[s], h) /\ ~t[i].old /\ t2[i] = [t[i] EXCEPT !.n = @ + 1]
                 \/ t2[i] = [ip |-> Ip[s], handle |-> h, n |-> 1, old |-> FALSE]
<1> DEFINE ip   == Ip[s]
           new  == [ip |-> ip, handle |-> h, n |-> 1, old |-> FALSE]
           live == {i \in 1..Slots : Matches(t[i], ip, h) /\ ~t[i].old}
           hit  == IF live = {} THEN 0 ELSE CHOOSE i \in live : \A j \in live : i <= j
           past == {i \in 1..Slots : Matches(t[i], ip, h) /\ t[i].old /\ (hit = 0 \/ i < hit)}
           free == {i \in 1..Slots : t[i] = NoRow}
           slot == IF past # {} THEN CHOOSE i \in past : \A j \in past : j <= i
                   ELSE IF free # {} THEN CHOOSE i \in free : \A j \in free : i <= j
                   ELSE 0
           t1   == [i \in 1..Slots |-> IF i \in past THEN NoRow ELSE t[i]]
           t2   == IF hit # 0 THEN [t1 EXCEPT ![hit].n = @ + 1]
                   ELSE IF slot = 0 THEN t1
                   ELSE [t1 EXCEPT ![slot] = new]
<1>1. Recorded(t, ip, h) = t2
  BY DEF Recorded
<1>2. new \in Entry /\ 0 \notin 1..Slots
  BY Sizes DEF Entry
<1>3. hit # 0 => hit \in live
  <2>1. CASE live # {}
    <3>1. \E i \in live : \A j \in live : i <= j
      BY <2>1, LeastSlot
    <3> QED  BY <3>1
  <2> QED  BY <2>1
<1>4. hit # 0 => t1[hit] = t[hit] /\ t[hit] \in Entry
  <2> HIDE DEF hit
  <2>1. hit # 0 => hit \in 1..Slots /\ Matches(t[hit], ip, h) /\ ~t[hit].old
    BY <1>3
  <2> QED  BY <2>1 DEF Matches, Table
<1>5. t1 \in Table /\ \A i \in 1..Slots : t1[i] = t[i] \/ t1[i] = NoRow
  <2> HIDE DEF past
  <2> QED  BY DEF Table
<1>6. CASE hit # 0
  <2>1. hit \in live /\ hit \in 1..Slots
    BY <1>3, <1>6
  <2>2. t2 = [t1 EXCEPT ![hit] = [t[hit] EXCEPT !.n = @ + 1]]
    <3> HIDE DEF hit, t1
    <3>1. t1[hit] = t[hit]
      BY <1>4, <1>6
    <3> QED  BY <1>6, <3>1
  <2>3. [t[hit] EXCEPT !.n = @ + 1] \in Entry
    <3> HIDE DEF hit
    <3>1. t[hit] \in Entry
      BY <1>4, <1>6
    <3> QED  BY <3>1 DEF Entry
  <2>4. t2 \in Table /\ t2[hit] = [t[hit] EXCEPT !.n = @ + 1]
        /\ \A i \in (1..Slots) \ {hit} : t2[i] = t1[i]
    <3> HIDE DEF hit, t1, t2
    <3> QED  BY <1>5, <2>1, <2>2, <2>3 DEF Table
  <2>5. Matches(t[hit], ip, h) /\ ~t[hit].old
    BY <2>1
  <2> HIDE DEF hit, t1, t2
  <2> QED  BY <1>1, <1>5, <2>1, <2>4, <2>5
<1>7. CASE hit = 0
  <2>1. t2 = t1 \/ t2 = [t1 EXCEPT ![slot] = new]
    BY <1>7
  <2>2. t2 \in Table /\ \A i \in 1..Slots : t2[i] = t1[i] \/ t2[i] = new
    <3> HIDE DEF slot, t1, t2, new
    <3> QED  BY <1>2, <1>5, <2>1 DEF Table
  <2> HIDE DEF t1, t2
  <2> QED  BY <1>1, <1>5, <2>2
<1> QED  BY <1>6, <1>7

(* A failure is recorded by a session that was counted for it.             *)
LEMMA RecordKeeps ==
  ASSUME NEW t, NEW W \in SUBSET Sessions, NEW who, NEW max \in Nat \ {0}, Bounded(t, W, who, max),
         NEW s \in W, who[s] \in Users, NEW V \in SUBSET (W \ {s}),
         NEW whom, \A q \in V : whom[q] = who[q]
  PROVE  Bounded(Recorded(t, Ip[s], who[s]), V, whom, max)
<1> DEFINE h  == who[s]
           t2 == Recorded(t, Ip[s], h)
<1>0. t \in Table /\ h \in Users /\ s \in Sessions
  BY DEF Bounded
<1>1. /\ t2 \in Table
      /\ \A i \in 1..Slots :
           \/ t2[i] = t[i] \/ t2[i] = NoRow
           \/ Matches(t[i], Ip[s], h) /\ ~t[i].old /\ t2[i] = [t[i] EXCEPT !.n = @ + 1]
           \/ t2[i] = [ip |-> Ip[s], handle |-> h, n |-> 1, old |-> FALSE]
  BY <1>0, RecordedIs
<1> HIDE DEF t2
<1> SUFFICES ASSUME NEW i \in 1..Slots, t2[i] # NoRow PROVE Within(t2[i], V, whom, max)
  BY <1>1 DEF Bounded, Within, t2
<1>2. t[i] \in Entry \cup {NoRow} /\ Within(t[i], W, who, max)
  BY DEF Bounded, Table
<1>3. V \in SUBSET Sessions /\ \A e : Pending(e, V, whom) \subseteq Pending(e, W, who)
  BY DEF Pending
<1>4. CASE t2[i] = t[i]
  BY <1>2, <1>3, <1>4, StaysWithin
<1>5. CASE Matches(t[i], Ip[s], h) /\ ~t[i].old /\ t2[i] = [t[i] EXCEPT !.n = @ + 1]
  <2> DEFINE before == Pending(t[i], W, who)
             after  == Pending(t2[i], V, whom)
  <2>1. t[i] \in Entry /\ t[i].n \in Nat
    BY <1>2, <1>5 DEF Matches, Entry
  <2>2. t2[i].n = t[i].n + 1 /\ t2[i].ip = t[i].ip /\ t2[i].handle = t[i].handle
    BY <1>5, <2>1 DEF Entry
  <2>3. after \subseteq before \ {s} /\ s \in before
    BY <1>5, <2>2 DEF Pending, Matches
  <2>4. IsFiniteSet(before) /\ Cardinality(before) \in Nat
    BY PendingCount
  <2> HIDE DEF before, after
  <2>5. IsFiniteSet(before \ {s}) /\ Cardinality(before \ {s}) = Cardinality(before) - 1
    BY <2>3, <2>4, FS_RemoveElement
  <2>6. Cardinality(after) <= Cardinality(before) - 1 /\ Cardinality(after) \in Nat
    BY <2>3, <2>5, FS_Subset, FS_CardinalityType
  <2>7. t[i].n + Cardinality(before) <= Limit(max)
    BY <1>2, <1>5, <2>1 DEF Within, before, Matches
  <2>8. Limit(max) \in Nat
    BY Crowd
  <2> QED  BY <2>1, <2>2, <2>4, <2>6, <2>7, <2>8 DEF Within, after
<1>6. CASE t2[i] = [ip |-> Ip[s], handle |-> h, n |-> 1, old |-> FALSE]
  <2>1. Pending(t2[i], V, whom) \subseteq Sessions \ {s}
    BY <1>3 DEF Pending
  <2>2. /\ IsFiniteSet(Sessions \ {s})
        /\ Cardinality(Sessions \ {s}) = Cardinality(Sessions) - 1
    BY <1>0, Crowd, FS_RemoveElement
  <2>3. /\ Cardinality(Pending(t2[i], V, whom)) \in Nat
        /\ Cardinality(Pending(t2[i], V, whom)) <= Cardinality(Sessions) - 1
    BY <2>1, <2>2, FS_Subset, FS_CardinalityType
  <2>4. 1 <= Limit(max) /\ 1 + (Cardinality(Sessions) - 1) <= Limit(max)
    BY Crowd DEF Limit
  <2>5. t2[i].n = 1
    BY <1>6
  <2> QED  BY <2>3, <2>4, <2>5, Crowd DEF Within
<1> QED  BY <1>1, <1>4, <1>5, <1>6

-----------------------------------------------------------------------------
(* Steps of one session.                                                   *)

LEMMA RowsGrow ==
  ASSUME NEW k \in Nat, NEW l \in Nat, k <= l
  PROVE  /\ Rows(k) \subseteq Rows(l) /\ Sess(k) \subseteq Sess(l)
         /\ \A r \in Sess(k) : Fits(r, k) => Fits(r, l)
<1>1. 0..k \subseteq 0..l
  OBVIOUS
<1>2. Rows(k) \subseteq Rows(l)
  BY <1>1 DEF Rows
<1>3. Sess(k) \subseteq Sess(l)
  BY <1>1, <1>2 DEF Sess
<1>4. \A r \in Sess(k) : Fits(r, k) => Fits(r, l)
  <2> SUFFICES ASSUME NEW r \in Sess(k), Fits(r, k) PROVE Fits(r, l)
    OBVIOUS
  <2>1. r.pc = "describe" => r.usr.fp < l /\ r.usr.ul < l
    <3> SUFFICES ASSUME r.pc = "describe" PROVE r.usr.fp < l /\ r.usr.ul < l
      OBVIOUS
    <3>1. r.usr \in Rows(k) /\ r.usr.fp < k /\ r.usr.ul < k
      BY DEF Fits
    <3> QED  BY <3>1 DEF Rows
  <2> QED  BY <1>2, <2>1 DEF Fits
<1> QED  BY <1>2, <1>3, <1>4

LEMMA Absent == \A k : NoRow \notin Rows(k)
BY DEF NoRow, Rows

(* The row and the copies of a session that is in.                         *)
LEMMA InRow ==
  ASSUME Stored, Callers, NEW s \in Sessions
  PROVE  /\ uploads \in Nat /\ sess[s] \in Sess(uploads) /\ Fits(sess[s], uploads)
         /\ sess[s].who \in Users
         /\ sess[s].pc \notin {"idle", "ask", "answer", "reset", "reg"} => sess[s].usr \in Rows(uploads)
<1>1. uploads \in Nat /\ sess[s] \in Sess(uploads) /\ Fits(sess[s], uploads)
  BY Sizes DEF Stored, Callers
<1> QED  BY <1>1 DEF Fits, Sess

LEMMA CallerStep ==
  ASSUME Stored, Callers, uploads' \in uploads..MaxFiles,
         NEW s \in Sessions, NEW r \in Sess(uploads'), Fits(r, uploads'),
         sess' = [sess EXCEPT ![s] = r]
  PROVE  Callers'
<1>1. uploads \in Nat /\ uploads' \in Nat /\ uploads <= uploads'
  BY Sizes DEF Stored
<1>2. \A q \in Sessions : sess[q] \in Sess(uploads') /\ Fits(sess[q], uploads')
  BY <1>1, RowsGrow DEF Callers
<1>3. sess' \in [Sessions -> Sess(uploads')] /\ \A q \in Sessions : Fits(sess'[q], uploads')
  BY <1>2 DEF Callers
<1> QED  BY <1>3 DEF Callers, Sess, Rows, Fits

(* Whoever goes elsewhere is no longer counted.                            *)
LEMMA LoginsKept ==
  ASSUME Callers, Counting, NEW s \in Sessions, NEW r, sess' = [sess EXCEPT ![s] = r],
         r.pc \notin LoggingIn, UNCHANGED logins
  PROVE  Bounded(logins, Standing(LoggingIn), Who, MaxLogin)'
<1>1. Standing(LoggingIn)' \in SUBSET Standing(LoggingIn) /\ \A q \in Standing(LoggingIn)' : Who'[q] = Who[q]
  BY DEF Callers, Standing, Who
<1>2. Standing(LoggingIn) \in SUBSET Sessions
  BY DEF Standing
<1>3. Bounded(logins, Standing(LoggingIn), Who, MaxLogin) /\ logins \in Table /\ MaxLogin \in Nat \ {0}
  BY Sizes DEF Counting, Bounded
<1>4. Bounded(logins, Standing(LoggingIn)', Who', MaxLogin)
  BY <1>1, <1>2, <1>3, StaysBounded
<1> QED  BY <1>4 DEF Bounded, Table, Entry, Within, Limit, Pending, Matches

LEMMA RecovKept ==
  ASSUME Callers, Counting, NEW s \in Sessions, NEW r, sess' = [sess EXCEPT ![s] = r],
         r.pc \notin Recovering, UNCHANGED recov
  PROVE  Bounded(recov, Standing(Recovering), Who, MaxRecovery)'
<1>1. Standing(Recovering)' \in SUBSET Standing(Recovering)
      /\ \A q \in Standing(Recovering)' : Who'[q] = Who[q]
  BY DEF Callers, Standing, Who
<1>2. Standing(Recovering) \in SUBSET Sessions
  BY DEF Standing
<1>3. /\ Bounded(recov, Standing(Recovering), Who, MaxRecovery) /\ recov \in Table
      /\ MaxRecovery \in Nat \ {0}
  BY Sizes DEF Counting, Bounded
<1>4. Bounded(recov, Standing(Recovering)', Who', MaxRecovery)
  BY <1>1, <1>2, <1>3, StaysBounded
<1> QED  BY <1>4 DEF Bounded, Table, Entry, Within, Limit, Pending, Matches

(* A step of a session that no throttle has to do with.                    *)
LEMMA QuietStep ==
  ASSUME Strong, Stored', uploads' \in uploads..MaxFiles,
         NEW s \in Sessions, NEW r \in Sess(uploads'), Fits(r, uploads'),
         r.pc \notin {"pw", "answer", "reset"}, sess' = [sess EXCEPT ![s] = r], UNCHANGED <<logins, recov>>
  PROVE  Strong'
<1>1. Callers'
  BY CallerStep DEF Strong
<1>2. Counting'
  BY LoginsKept, RecovKept DEF Strong, Counting, LoggingIn, Recovering
<1> QED  BY <1>1, <1>2 DEF Strong

(* A step of no session.                                                   *)
LEMMA StillStep ==
  ASSUME Strong, Stored', UNCHANGED <<sess, uploads, logins, recov>>
  PROVE  Strong'
<1>1. Callers'
  BY DEF Strong, Callers
<1>2. Counting'
  BY DEF Strong, Counting, Bounded, Table, Entry, Within, Limit, Pending, Matches, Standing, Who
<1> QED  BY <1>1, <1>2 DEF Strong

(* Writing a user's row.                                                   *)
LEMMA StoredUsers ==
  ASSUME Stored, UNCHANGED <<files, disk, uploads, approved>>,
         work' = work \/ (work < MaxWork /\ work' = work + 1),
         users' = users \/ \E u \in Users, row \in Rows(uploads) : users' = [users EXCEPT ![u] = row]
  PROVE  Stored' /\ uploads' \in uploads..MaxFiles
<1>1. work' \in 0..MaxWork
  BY Sizes DEF Stored
<1>2. users' \in [Users -> Rows(uploads) \cup {NoRow}]
  BY DEF Stored
<1>3. uploads \in uploads..MaxFiles
  BY Sizes DEF Stored
<1> QED  BY <1>1, <1>2, <1>3 DEF Stored

-----------------------------------------------------------------------------
(* Logging in.                                                             *)

LEMMA IdleFits ==
  ASSUME NEW k \in Nat
  PROVE  Idle \in Sess(k) /\ Fits(Idle, k) /\ Idle.pc = "idle" /\ Idle.list = <<>>
<1>1. Idle \in Sess(k) /\ Idle.pc = "idle" /\ Idle.list = <<>>
  BY Sizes DEF Idle, Sess, Pcs
<1> QED  BY <1>1, Sizes DEF Fits, AtPrompt

LEMMA EnteredFits ==
  ASSUME NEW k \in Nat, NEW s, NEW u \in Users, NEW copy \in Rows(k)
  PROVE  /\ Entered(s, u, copy) \in Sess(k) /\ Fits(Entered(s, u, copy), k)
         /\ Entered(s, u, copy).pc = "menu" /\ Entered(s, u, copy).who = u
<1> DEFINE r == Entered(s, u, copy)
<1>1. copy.credits \in 0..MaxCredits /\ copy.fp \in 0..k
  BY DEF Rows
<1>2. Idle \in Sess(k) /\ Idle.list = <<>>
  BY IdleFits
<1>3. /\ r \in Sess(k) /\ r.pc = "menu" /\ r.who = u /\ r.usr = copy /\ r.cred = copy.credits
      /\ r.fps = copy.fp /\ r.list = Idle.list
  BY <1>1, <1>2 DEF Entered, Sess, Pcs
<1>4. Len(<<>>) <= MaxFiles
  BY Sizes
<1> HIDE DEF r
<1>5. Fits(r, k)
  BY <1>2, <1>3, <1>4 DEF Fits
<1> QED  BY <1>3, <1>5 DEF r

LEMMA NewRows ==
  ASSUME NEW k \in Nat, NEW pw \in Pws, NEW credits \in 0..MaxCredits
  PROVE  NewRow(pw, credits) \in Rows(k)
BY Sizes DEF NewRow, Rows, Pws

(* A session that is not let in is where it was, or at its first prompt.   *)
LEMMA HelloStep == ASSUME Strong, NEW s \in Sessions, NEW u \in Users, Hello(s, u) PROVE Strong'
<1> DEFINE W == Standing(LoggingIn)
<1>1. /\ sess[s].pc = "idle" /\ work < MaxWork /\ work' = work + 1
      /\ logins' = Scanned(logins, Ip[s], u, MaxLogin) /\ UNCHANGED <<recov, Area>>
  BY DEF Hello
<1>2. Stored /\ Callers /\ Counting /\ uploads \in Nat
  BY Sizes DEF Strong, Stored
<1>3. W \in SUBSET Sessions /\ Bounded(logins, W, Who, MaxLogin) /\ MaxLogin \in Nat \ {0}
  BY <1>2, Sizes DEF Standing, Counting
<1>4. CASE UNCHANGED <<users, sess>>
  <2>1. Stored' /\ uploads' \in uploads..MaxFiles
    BY <1>1, <1>2, <1>4, StoredUsers DEF Area
  <2>2. Callers'
    BY <1>1, <1>2, <1>4 DEF Callers, Area
  <2>3. Bounded(logins', W, Who, MaxLogin)
    BY <1>1, <1>3, ScanKeeps
  <2>4. W' = W /\ Who' = Who
    BY <1>4 DEF Standing, Who
  <2>5. Bounded(logins, Standing(LoggingIn), Who, MaxLogin)'
    BY <2>3, <2>4 DEF Bounded, Table, Entry, Within, Limit, Pending, Matches
  <2>6. Bounded(recov, Standing(Recovering), Who, MaxRecovery)'
    BY <1>1, <1>2, <1>4 DEF Counting, Bounded, Table, Entry, Within, Limit, Pending, Matches, Standing, Who
  <2> QED  BY <2>1, <2>2, <2>5, <2>6 DEF Strong, Counting
<1>5. ASSUME NEW r \in Sess(uploads), Fits(r, uploads), r.who = u, r.pc \notin Recovering,
             sess' = [sess EXCEPT ![s] = r], ~Throttled(logins, Ip[s], u, MaxLogin),
             users' = users \/ \E row \in Rows(uploads) : users' = [users EXCEPT ![u] = row]
      PROVE  Strong'
  <2>1. Stored' /\ uploads' \in uploads..MaxFiles /\ uploads' = uploads
    BY <1>1, <1>2, <1>5, StoredUsers DEF Area
  <2>2. Callers'
    BY <1>2, <1>5, <2>1, CallerStep
  <2>3. /\ W' \in SUBSET (W \cup {s}) /\ Who'[s] = u
        /\ \A q \in W' \ {s} : Who'[q] = Who[q]
    BY <1>2, <1>5 DEF Callers, Standing, Who
  <2>4. Bounded(logins', W', Who', MaxLogin)
    BY <1>1, <1>3, <1>5, <2>3, LetPast
  <2>5. Bounded(logins, Standing(LoggingIn), Who, MaxLogin)'
    BY <2>4 DEF Bounded, Table, Entry, Within, Limit, Pending, Matches
  <2>6. Bounded(recov, Standing(Recovering), Who, MaxRecovery)'
    BY <1>1, <1>2, <1>5, RecovKept
  <2> QED  BY <2>1, <2>2, <2>5, <2>6 DEF Strong, Counting
<1>6. CASE ~Throttled(logins, Ip[s], u, MaxLogin) /\ u = Guest
  <2> DEFINE row == IF users[u] = NoRow THEN NewRow(0, 0) ELSE users[u]
  <2>1. users' = [users EXCEPT ![u] = row] /\ sess' = [sess EXCEPT ![s] = Entered(s, u, row)]
    BY <1>6 DEF Hello, Put
  <2>2. NewRow(0, 0) \in Rows(uploads)
    BY <1>2, Sizes, NewRows DEF Pws
  <2>3. row \in Rows(uploads)
    BY <1>2, <2>2 DEF Stored
  <2> HIDE DEF row
  <2>4. /\ Entered(s, u, row) \in Sess(uploads) /\ Fits(Entered(s, u, row), uploads)
        /\ Entered(s, u, row).pc = "menu" /\ Entered(s, u, row).who = u
    BY <1>2, <2>3, EnteredFits
  <2> QED  BY <1>5, <1>6, <2>1, <2>3, <2>4 DEF Recovering
<1>7. CASE ~Throttled(logins, Ip[s], u, MaxLogin) /\ u # Guest
  <2> DEFINE r == [Idle EXCEPT !.pc = IF users[u] = NoRow THEN "reg" ELSE "pw",
                               !.who = u, !.usr = db_user_fetch(u)]
  <2>1. UNCHANGED users /\ sess' = [sess EXCEPT ![s] = r]
    BY <1>7 DEF Hello, Put
  <2>2. users[u] \in Rows(uploads) \cup {NoRow}
    BY <1>2 DEF Stored
  <2>3. Idle \in Sess(uploads) /\ Idle.list = <<>> /\ Len(<<>>) <= MaxFiles
    BY <1>2, IdleFits, Sizes
  <2>4. /\ r \in Sess(uploads) /\ r.who = u /\ r.usr = users[u] /\ r.list = <<>>
        /\ r.pc = IF users[u] = NoRow THEN "reg" ELSE "pw"
    BY <2>2, <2>3 DEF Sess, Pcs, db_user_fetch
  <2> HIDE DEF r
  <2>5. Fits(r, uploads) /\ r.pc \notin Recovering
    BY <2>2, <2>3, <2>4 DEF Fits, AtPrompt, Recovering
  <2> QED  BY <1>5, <1>7, <2>1, <2>4, <2>5
<1> QED  BY <1>4, <1>6, <1>7 DEF Hello

(* A table's bound, with its parts primed.                                 *)
LEMMA BoundedNext ==
  /\ Bounded(logins', Standing(LoggingIn)', Who', MaxLogin) => Bounded(logins, Standing(LoggingIn), Who, MaxLogin)'
  /\ Bounded(recov', Standing(Recovering)', Who', MaxRecovery)
       => Bounded(recov, Standing(Recovering), Who, MaxRecovery)'
BY DEF Bounded, Table, Entry, Within, Limit, Pending, Matches

LEMMA PasswordStep == ASSUME Strong, NEW s \in Sessions, NEW p \in Pws, Password(s, p) PROVE Strong'
<1> DEFINE me == sess[s]
           u  == me.who
           W  == Standing(LoggingIn)
<1>1. me.pc = "pw" /\ UNCHANGED <<users, recov, files, disk, uploads, approved, work>>
  BY DEF Password, Files, Area
<1>2. Stored /\ Callers /\ Counting
  BY DEF Strong
<1>3. /\ uploads \in Nat /\ me \in Sess(uploads) /\ Fits(me, uploads) /\ u \in Users
      /\ me.usr \in Rows(uploads) /\ users[u] \in Rows(uploads) \cup {NoRow}
  BY <1>1, <1>2, InRow DEF Stored
<1>4. Stored' /\ uploads' \in uploads..MaxFiles /\ uploads' = uploads
  BY <1>1, <1>2, StoredUsers
<1> HIDE DEF me
<1>5. CASE sess' = [sess EXCEPT ![s] = Entered(s, u, me.usr)] /\ UNCHANGED logins
  <2>1. /\ Entered(s, u, me.usr) \in Sess(uploads) /\ Fits(Entered(s, u, me.usr), uploads)
        /\ Entered(s, u, me.usr).pc = "menu"
    BY <1>3, EnteredFits
  <2> QED  BY <1>1, <1>4, <1>5, <2>1, QuietStep
<1>6. CASE sess' = [sess EXCEPT ![s] = [me EXCEPT !.pc = "expired"]] /\ UNCHANGED logins
  <2> DEFINE r == [me EXCEPT !.pc = "expired"]
  <2>1. r \in Sess(uploads) /\ r.pc = "expired" /\ r.usr = me.usr /\ r.list = me.list
    BY <1>3 DEF Sess, Pcs
  <2> HIDE DEF r
  <2>2. Fits(r, uploads)
    BY <1>3, <2>1 DEF Fits, AtPrompt
  <2> QED  BY <1>1, <1>4, <1>6, <2>1, <2>2, QuietStep DEF r
<1>7. ASSUME NEW r \in Sess(uploads), Fits(r, uploads), r.pc \notin {"pw", "answer", "reset"},
             sess' = [sess EXCEPT ![s] = r], logins' = Recorded(logins, Ip[s], u)
      PROVE  Strong'
  <2>1. Callers'
    BY <1>2, <1>4, <1>7, CallerStep
  <2>2. /\ s \in W /\ Who[s] = u /\ W \in SUBSET Sessions
        /\ W' \in SUBSET (W \ {s}) /\ \A q \in W' : Who'[q] = Who[q]
    BY <1>1, <1>2, <1>7 DEF Callers, Standing, Who, me, LoggingIn
  <2>3. Bounded(logins, W, Who, MaxLogin) /\ MaxLogin \in Nat \ {0}
    BY <1>2, Sizes DEF Counting
  <2>4. Bounded(Recorded(logins, Ip[s], Who[s]), W', Who', MaxLogin)
    BY <1>3, <2>2, <2>3, RecordKeeps
  <2>5. Bounded(recov, Standing(Recovering), Who, MaxRecovery)'
    BY <1>1, <1>2, <1>7, RecovKept DEF Recovering
  <2> QED  BY <1>4, <1>7, <2>1, <2>2, <2>4, <2>5, BoundedNext DEF Strong, Counting
<1>8. CASE /\ sess' = [sess EXCEPT ![s] = [me EXCEPT !.pc = "ask", !.buf = users[u]]]
           /\ logins' = Recorded(logins, Ip[s], u)
  <2> DEFINE r == [me EXCEPT !.pc = "ask", !.buf = users[u]]
  <2>1. r \in Sess(uploads) /\ r.pc = "ask" /\ r.list = me.list
    BY <1>3 DEF Sess, Pcs
  <2> HIDE DEF r
  <2>2. Fits(r, uploads)
    BY <1>3, <2>1 DEF Fits, AtPrompt
  <2> QED  BY <1>7, <1>8, <2>1, <2>2 DEF r
<1>9. CASE sess' = [sess EXCEPT ![s] = Idle] /\ logins' = Recorded(logins, Ip[s], u)
  BY <1>3, <1>7, <1>9, IdleFits
<1> QED  BY <1>5, <1>6, <1>8, <1>9 DEF Password, Put, Goes, me

(* A step of the recovery, which moves its own table.                      *)
LEMMA RecoveryStep ==
  ASSUME Strong, NEW s \in Sessions, UNCHANGED <<users, logins, files, disk, uploads, approved, work>>,
         NEW r \in Sess(uploads), Fits(r, uploads), r.pc \notin LoggingIn, sess' = [sess EXCEPT ![s] = r],
         Bounded(recov', Standing(Recovering)', Who', MaxRecovery)
  PROVE  Strong'
<1>1. Stored /\ Callers /\ Counting
  BY DEF Strong
<1>2. Stored' /\ uploads' \in uploads..MaxFiles /\ uploads' = uploads
  BY <1>1, StoredUsers
<1>3. Callers'
  BY <1>1, <1>2, CallerStep
<1>4. Bounded(logins, Standing(LoggingIn), Who, MaxLogin)'
  BY <1>1, LoginsKept
<1> QED  BY <1>2, <1>3, <1>4, BoundedNext DEF Strong, Counting

LEMMA RecoverStep == ASSUME Strong, NEW s \in Sessions, Recover(s) PROVE Strong'
<1> DEFINE me == sess[s]
           u  == me.who
           W  == Standing(Recovering)
           t  == Scanned(recov, Ip[s], u, MaxRecovery)
<1>1. me.pc = "ask" /\ recov' = t /\ UNCHANGED <<users, logins, files, disk, uploads, approved, work>>
  BY DEF Recover, Files, Area
<1>2. Stored /\ Callers /\ Counting
  BY DEF Strong
<1>3. uploads \in Nat /\ me \in Sess(uploads) /\ Fits(me, uploads) /\ u \in Users
  BY <1>2, InRow
<1>4. /\ Bounded(recov, W, Who, MaxRecovery) /\ MaxRecovery \in Nat \ {0}
      /\ W \in SUBSET Sessions /\ Who[s] = u
  BY <1>1, <1>2, Sizes DEF Counting, Standing, Who
<1> HIDE DEF me
<1>5. CASE Throttled(recov, Ip[s], u, MaxRecovery) /\ sess' = [sess EXCEPT ![s] = Idle]
  <2>1. Idle \in Sess(uploads) /\ Fits(Idle, uploads) /\ Idle.pc = "idle"
    BY <1>3, IdleFits
  <2>2. W' \in SUBSET W /\ \A q \in W' : Who'[q] = Who[q]
    BY <1>2, <1>5, <2>1 DEF Callers, Standing, Who, Recovering
  <2>3. Bounded(t, W', Who', MaxRecovery)
    BY <1>4, <2>2, ScanKeeps
  <2> QED  BY <1>1, <1>5, <2>1, <2>3, RecoveryStep DEF LoggingIn
<1>6. CASE ~Throttled(recov, Ip[s], u, MaxRecovery) /\ sess' = [sess EXCEPT ![s] = [me EXCEPT !.pc = "answer"]]
  <2> DEFINE r == [me EXCEPT !.pc = "answer"]
  <2>1. r \in Sess(uploads) /\ r.pc = "answer" /\ r.who = u /\ r.list = me.list
    BY <1>3 DEF Sess, Pcs
  <2> HIDE DEF r
  <2>2. Fits(r, uploads)
    BY <1>3, <2>1 DEF Fits, AtPrompt
  <2>3. sess' = [sess EXCEPT ![s] = r]
    BY <1>6 DEF r
  <2>4. W' \in SUBSET (W \cup {s}) /\ Who'[s] = u /\ \A q \in W' \ {s} : Who'[q] = Who[q]
    BY <1>2, <2>1, <2>3 DEF Callers, Standing, Who
  <2>5. Bounded(t, W', Who', MaxRecovery)
    BY <1>4, <1>6, <2>4, LetPast
  <2> QED  BY <1>1, <2>1, <2>2, <2>3, <2>5, RecoveryStep DEF LoggingIn
<1> QED  BY <1>5, <1>6 DEF Recover, recovery_throttled, Put, Goes, me

LEMMA AnswerStep == ASSUME Strong, NEW s \in Sessions, NEW a \in Pws, Answer(s, a) PROVE Strong'
<1> DEFINE me == sess[s]
           u  == me.who
           W  == Standing(Recovering)
<1>1. me.pc = "answer" /\ UNCHANGED <<users, logins, files, disk, uploads, approved, work>>
  BY DEF Answer, Files, Area
<1>2. Stored /\ Callers /\ Counting
  BY DEF Strong
<1>3. uploads \in Nat /\ me \in Sess(uploads) /\ Fits(me, uploads) /\ u \in Users
  BY <1>2, InRow
<1>4. /\ Bounded(recov, W, Who, MaxRecovery) /\ MaxRecovery \in Nat \ {0} /\ recov \in Table
      /\ W \in SUBSET Sessions /\ s \in W /\ Who[s] = u
  BY <1>1, <1>2, Sizes DEF Counting, Standing, Who, Recovering, Bounded
<1> HIDE DEF me
<1>5. CASE sess' = [sess EXCEPT ![s] = [me EXCEPT !.pc = "reset"]] /\ UNCHANGED recov
  <2> DEFINE r == [me EXCEPT !.pc = "reset"]
  <2>1. r \in Sess(uploads) /\ r.pc = "reset" /\ r.who = u /\ r.list = me.list
    BY <1>3 DEF Sess, Pcs
  <2> HIDE DEF r
  <2>2. Fits(r, uploads)
    BY <1>3, <2>1 DEF Fits, AtPrompt
  <2>3. sess' = [sess EXCEPT ![s] = r]
    BY <1>5 DEF r
  <2>4. W' \in SUBSET W /\ \A q \in W' : Who'[q] = Who[q]
    BY <1>2, <1>4, <2>1, <2>3 DEF Callers, Standing, Who
  <2>5. Bounded(recov', W', Who', MaxRecovery)
    BY <1>4, <1>5, <2>4, StaysBounded
  <2> QED  BY <1>1, <2>1, <2>2, <2>3, <2>5, RecoveryStep DEF LoggingIn
<1>6. CASE recov' = Recorded(recov, Ip[s], u) /\ sess' = [sess EXCEPT ![s] = Idle]
  <2>1. Idle \in Sess(uploads) /\ Fits(Idle, uploads) /\ Idle.pc = "idle"
    BY <1>3, IdleFits
  <2>2. W' \in SUBSET (W \ {s}) /\ \A q \in W' : Who'[q] = Who[q]
    BY <1>2, <1>6, <2>1 DEF Callers, Standing, Who, Recovering
  <2>3. Bounded(Recorded(recov, Ip[s], Who[s]), W', Who', MaxRecovery)
    BY <1>3, <1>4, <2>2, RecordKeeps
  <2> QED  BY <1>1, <1>4, <1>6, <2>1, <2>3, RecoveryStep DEF LoggingIn
<1> QED  BY <1>5, <1>6 DEF Answer, recovery_record, Put, Goes, me

(* A new password is written to a row that is there.                       *)
LEMMA PasswordRow ==
  ASSUME Stored, NEW u \in Users, NEW p \in Pws, db_user_set_pw_with_timestamp(u, p)
  PROVE  users' = users \/ \E v \in Users, row \in Rows(uploads) : users' = [users EXCEPT ![v] = row]
<1>1. CASE users[u] = NoRow
  BY <1>1 DEF db_user_set_pw_with_timestamp
<1>2. CASE users[u] # NoRow
  <2>1. users' = [users EXCEPT ![u] = [users[u] EXCEPT !.pw = p]] /\ users[u] \in Rows(uploads)
    BY <1>2 DEF db_user_set_pw_with_timestamp, Stored
  <2>2. [users[u] EXCEPT !.pw = p] \in Rows(uploads)
    BY <2>1 DEF Rows
  <2> QED  BY <2>1, <2>2
<1> QED  BY <1>1, <1>2

LEMMA ResetStep == ASSUME Strong, NEW s \in Sessions, NEW p \in Pws, Reset(s, p) PROVE Strong'
<1> DEFINE u == sess[s].who
           W == Standing(Recovering)
<1>1. /\ sess[s].pc = "reset" /\ UNCHANGED <<logins, files, disk, uploads, approved, work>>
      /\ sess' = [sess EXCEPT ![s] = Idle]
  BY DEF Reset, Files, Area, Put
<1>2. Stored /\ Callers /\ Counting
  BY DEF Strong
<1>3. uploads \in Nat /\ u \in Users
  BY <1>2, InRow
<1>4. Idle \in Sess(uploads) /\ Fits(Idle, uploads) /\ Idle.pc = "idle"
  BY <1>3, IdleFits
<1>5. CASE db_user_set_pw_with_timestamp(u, p) /\ UNCHANGED recov
  <2>1. Stored' /\ uploads' \in uploads..MaxFiles
    BY <1>1, <1>2, <1>3, <1>5, PasswordRow, StoredUsers
  <2> QED  BY <1>1, <1>4, <1>5, <2>1, QuietStep
<1>6. CASE recov' = Recorded(recov, Ip[s], u) /\ UNCHANGED users
  <2>1. Stored' /\ uploads' \in uploads..MaxFiles /\ uploads' = uploads
    BY <1>1, <1>2, <1>6, StoredUsers
  <2>2. Callers'
    BY <1>1, <1>2, <1>4, <2>1, CallerStep
  <2>3. /\ s \in W /\ Who[s] = u /\ W \in SUBSET Sessions
        /\ W' \in SUBSET (W \ {s}) /\ \A q \in W' : Who'[q] = Who[q]
    BY <1>1, <1>2, <1>4 DEF Callers, Standing, Who, Recovering
  <2>4. Bounded(recov, W, Who, MaxRecovery) /\ MaxRecovery \in Nat \ {0}
    BY <1>2, Sizes DEF Counting
  <2>5. Bounded(Recorded(recov, Ip[s], Who[s]), W', Who', MaxRecovery)
    BY <1>3, <2>3, <2>4, RecordKeeps
  <2>6. Bounded(logins, Standing(LoggingIn), Who, MaxLogin)'
    BY <1>1, <1>2, <1>4, LoginsKept DEF LoggingIn
  <2> QED  BY <1>6, <2>1, <2>2, <2>3, <2>5, <2>6, BoundedNext DEF Strong, Counting
<1> QED  BY <1>5, <1>6 DEF Reset, recovery_record

LEMMA ExpiredStep == ASSUME Strong, NEW s \in Sessions, NEW p \in Pws, Expired(s, p) PROVE Strong'
<1> DEFINE me == sess[s]
<1>1. me.pc = "expired" /\ UNCHANGED <<logins, recov, files, disk, uploads, approved, work>>
  BY DEF Expired, Files, Area
<1>2. Stored /\ Callers
  BY DEF Strong
<1>3. uploads \in Nat /\ me.who \in Users /\ me.usr \in Rows(uploads)
  BY <1>1, <1>2, InRow
<1>4. CASE /\ db_user_set_pw_with_timestamp(me.who, p)
           /\ sess' = [sess EXCEPT ![s] = Entered(s, me.who, me.usr)]
  <2>1. Stored' /\ uploads' \in uploads..MaxFiles /\ uploads' = uploads
    BY <1>1, <1>2, <1>3, <1>4, PasswordRow, StoredUsers
  <2>2. /\ Entered(s, me.who, me.usr) \in Sess(uploads) /\ Fits(Entered(s, me.who, me.usr), uploads)
        /\ Entered(s, me.who, me.usr).pc = "menu"
    BY <1>3, EnteredFits
  <2> QED  BY <1>1, <1>4, <2>1, <2>2, QuietStep
<1>5. CASE UNCHANGED users /\ sess' = [sess EXCEPT ![s] = Idle]
  <2>1. Stored' /\ uploads' \in uploads..MaxFiles /\ uploads' = uploads
    BY <1>1, <1>2, <1>5, StoredUsers
  <2>2. Idle \in Sess(uploads) /\ Fits(Idle, uploads) /\ Idle.pc = "idle"
    BY <1>3, IdleFits
  <2> QED  BY <1>1, <1>5, <2>1, <2>2, QuietStep
<1> QED  BY <1>4, <1>5 DEF Expired, Put

LEMMA RegisterStep == ASSUME Strong, NEW s \in Sessions, NEW p \in Pws, Register(s, p) PROVE Strong'
<1> DEFINE u == sess[s].who
           row == NewRow(p, DefaultCredits)
<1>1. UNCHANGED <<logins, recov, files, disk, uploads, approved, work>>
  BY DEF Register, Files, Area
<1>2. Stored /\ Callers
  BY DEF Strong
<1>3. uploads \in Nat /\ u \in Users /\ row \in Rows(uploads)
  BY <1>2, InRow, NewRows, Sizes
<1> HIDE DEF row
<1>4. CASE users' = [users EXCEPT ![u] = row] /\ sess' = [sess EXCEPT ![s] = Entered(s, u, row)]
  <2>1. Stored' /\ uploads' \in uploads..MaxFiles /\ uploads' = uploads
    BY <1>1, <1>2, <1>3, <1>4, StoredUsers
  <2>2. /\ Entered(s, u, row) \in Sess(uploads) /\ Fits(Entered(s, u, row), uploads)
        /\ Entered(s, u, row).pc = "menu"
    BY <1>3, EnteredFits
  <2> QED  BY <1>1, <1>4, <2>1, <2>2, QuietStep
<1>5. CASE UNCHANGED users /\ sess' = [sess EXCEPT ![s] = Idle]
  <2>1. Stored' /\ uploads' \in uploads..MaxFiles /\ uploads' = uploads
    BY <1>1, <1>2, <1>5, StoredUsers
  <2>2. Idle \in Sess(uploads) /\ Fits(Idle, uploads) /\ Idle.pc = "idle"
    BY <1>3, IdleFits
  <2> QED  BY <1>1, <1>5, <2>1, <2>2, QuietStep
<1> QED  BY <1>4, <1>5 DEF Register, Put, row

LEMMA HangUpStep == ASSUME Strong, NEW s \in Sessions, HangUp(s) PROVE Strong'
<1>1. /\ UNCHANGED <<users, logins, recov, files, disk, uploads, approved, work>>
      /\ sess' = [sess EXCEPT ![s] = Idle]
  BY DEF HangUp, Files, Area, Put
<1>2. Stored /\ Callers /\ uploads \in Nat
  BY Sizes DEF Strong, Stored
<1>3. Stored' /\ uploads' \in uploads..MaxFiles /\ uploads' = uploads
  BY <1>1, <1>2, StoredUsers
<1>4. Idle \in Sess(uploads) /\ Fits(Idle, uploads) /\ Idle.pc = "idle"
  BY <1>2, IdleFits
<1> QED  BY <1>1, <1>3, <1>4, QuietStep

-----------------------------------------------------------------------------
(* The account actions.                                                    *)

(* At the menu, and what is counted as work.                               *)
LEMMA MenuFits ==
  ASSUME Strong, NEW s \in Sessions, AtMenu(s)
  PROVE  /\ Stored /\ Callers /\ uploads \in Nat
         /\ sess[s] \in Sess(uploads) /\ Fits(sess[s], uploads) /\ sess[s].pc = "menu"
         /\ sess[s].usr \in Rows(uploads) /\ sess[s].who \in Users
         /\ sess[s].cred = sess[s].usr.credits /\ sess[s].fps = sess[s].usr.fp
         /\ work < MaxWork /\ work' = work + 1
<1>1. Stored /\ Callers /\ sess[s].pc = "menu" /\ work < MaxWork /\ work' = work + 1
  BY DEF Strong, AtMenu
<1>2. /\ uploads \in Nat /\ sess[s] \in Sess(uploads) /\ Fits(sess[s], uploads)
      /\ sess[s].usr \in Rows(uploads) /\ sess[s].who \in Users
  BY <1>1, InRow
<1> QED  BY <1>1, <1>2 DEF Fits, AtPrompt

(* What a whole-row write stores.                                          *)
LEMMA UpdatedRow ==
  ASSUME Stored, NEW u \in Users, NEW r \in Rows(uploads), db_user_update(u, r)
  PROVE  users' = users \/ \E v \in Users, row \in Rows(uploads) : users' = [users EXCEPT ![v] = row]
<1>1. CASE users[u] = NoRow
  BY <1>1 DEF db_user_update
<1>2. CASE users[u] # NoRow
  <2>1. users[u] \in Rows(uploads)
    BY <1>2 DEF Stored
  <2>2. [r EXCEPT !.pw = users[u].pw, !.q = users[u].q] \in Rows(uploads)
    BY <2>1 DEF Rows
  <2> QED  BY <1>2, <2>2 DEF db_user_update
<1> QED  BY <1>1, <1>2

LEMMA ChangePasswordStep ==
  ASSUME Strong, NEW s \in Sessions, NEW cur \in Pws, NEW new \in Pws, ChangePassword(s, cur, new)
  PROVE  Strong'
<1> DEFINE me == sess[s]
           r  == [me EXCEPT !.usr = [me.usr EXCEPT !.pw = new]]
<1>1. /\ AtMenu(s) /\ db_user_set_pw_with_timestamp(me.who, new)
      /\ UNCHANGED <<logins, recov, files, disk, uploads, approved>>
      /\ sess' = [sess EXCEPT ![s].usr.pw = new]
  BY DEF ChangePassword, Accounting, Area
<1>2. /\ Stored /\ Callers /\ uploads \in Nat /\ me \in Sess(uploads) /\ Fits(me, uploads)
      /\ me.pc = "menu" /\ me.usr \in Rows(uploads) /\ me.who \in Users
      /\ me.cred = me.usr.credits /\ me.fps = me.usr.fp /\ work < MaxWork /\ work' = work + 1
  BY <1>1, MenuFits
<1>3. Stored' /\ uploads' \in uploads..MaxFiles /\ uploads' = uploads
  BY <1>1, <1>2, PasswordRow, StoredUsers
<1>4. sess' = [sess EXCEPT ![s] = r]
  BY <1>1
<1> HIDE DEF me
<1>5. /\ [me.usr EXCEPT !.pw = new] \in Rows(uploads)
      /\ [me.usr EXCEPT !.pw = new].credits = me.usr.credits
      /\ [me.usr EXCEPT !.pw = new].fp = me.usr.fp
  BY <1>2 DEF Rows
<1>6. /\ r \in Sess(uploads) /\ r.pc = "menu" /\ r.usr = [me.usr EXCEPT !.pw = new]
      /\ r.cred = me.cred /\ r.fps = me.fps /\ r.list = me.list
  BY <1>2, <1>5 DEF Sess
<1> HIDE DEF r
<1>7. Fits(r, uploads)
  BY <1>2, <1>5, <1>6 DEF Fits
<1>8. UNCHANGED <<logins, recov>>
  BY <1>1
<1> QED  BY <1>3, <1>4, <1>6, <1>7, <1>8, QuietStep

LEMMA ResetPasswordStep ==
  ASSUME Strong, NEW s \in Sessions, NEW u \in Users, NEW new \in Pws, ResetPassword(s, u, new)
  PROVE  Strong'
<1>1. /\ AtMenu(s) /\ db_user_set_pw_with_timestamp(u, new)
      /\ UNCHANGED <<sess, logins, recov, files, disk, uploads, approved>>
  BY DEF ResetPassword, Accounting, Area
<1>2. Stored /\ work < MaxWork /\ work' = work + 1
  BY <1>1, MenuFits
<1>3. Stored'
  BY <1>1, <1>2, PasswordRow, StoredUsers
<1> QED  BY <1>1, <1>3, StillStep

LEMMA SetSecurityQStep ==
  ASSUME Strong, NEW s \in Sessions, NEW a \in Pws, SetSecurityQ(s, a)
  PROVE  Strong'
<1> DEFINE u == sess[s].who
           row == [users[u] EXCEPT !.q = TRUE, !.ans = a]
<1>1. /\ AtMenu(s) /\ users[u] # NoRow /\ users' = [users EXCEPT ![u].q = TRUE, ![u].ans = a]
      /\ UNCHANGED <<sess, logins, recov, files, disk, uploads, approved>>
  BY DEF SetSecurityQ, db_user_set_security_question, Accounting, Area
<1>2. Stored /\ work < MaxWork /\ work' = work + 1 /\ u \in Users
  BY <1>1, MenuFits
<1>3. users[u] \in Rows(uploads) /\ row \in Rows(uploads)
  BY <1>1, <1>2 DEF Stored, Rows
<1>4. users' = [users EXCEPT ![u] = row]
  BY <1>1, <1>2 DEF Stored
<1>5. Stored'
  BY <1>1, <1>2, <1>3, <1>4, StoredUsers
<1> QED  BY <1>1, <1>5, StillStep

LEMMA PickSchemeStep == ASSUME Strong, NEW s \in Sessions, PickScheme(s) PROVE Strong'
<1>1. /\ AtMenu(s) /\ db_user_update(sess[s].who, sess[s].usr)
      /\ UNCHANGED <<sess, logins, recov, files, disk, uploads, approved>>
  BY DEF PickScheme, Accounting, Area
<1>2. Stored /\ work < MaxWork /\ work' = work + 1 /\ sess[s].who \in Users /\ sess[s].usr \in Rows(uploads)
  BY <1>1, MenuFits
<1>3. Stored'
  BY <1>1, <1>2, UpdatedRow, StoredUsers
<1> QED  BY <1>1, <1>3, StillStep

LEMMA EditOpenStep ==
  ASSUME Strong, NEW s \in Sessions, NEW u \in Users, EditOpen(s, u)
  PROVE  Strong'
<1> DEFINE me == sess[s]
           r  == [me EXCEPT !.pc = "edit", !.tgt = u, !.buf = users[u]]
<1>1. /\ AtMenu(s) /\ users[u] # NoRow /\ sess' = [sess EXCEPT ![s] = r]
      /\ UNCHANGED <<users, logins, recov, files, disk, uploads, approved>>
  BY DEF EditOpen, Accounting, Area, Put, db_user_fetch
<1>2. /\ Stored /\ uploads \in Nat /\ me \in Sess(uploads) /\ Fits(me, uploads)
      /\ me.usr \in Rows(uploads) /\ me.cred = me.usr.credits /\ me.fps = me.usr.fp
      /\ work < MaxWork /\ work' = work + 1
  BY <1>1, MenuFits
<1>3. Stored' /\ uploads' \in uploads..MaxFiles /\ uploads' = uploads
  BY <1>1, <1>2, StoredUsers
<1>4. users[u] \in Rows(uploads)
  BY <1>1, <1>2 DEF Stored
<1> HIDE DEF me
<1>5. /\ r \in Sess(uploads) /\ r.pc = "edit" /\ r.buf = users[u] /\ r.usr = me.usr
      /\ r.cred = me.cred /\ r.fps = me.fps /\ r.list = me.list
  BY <1>2, <1>4 DEF Sess, Pcs
<1> HIDE DEF r
<1>6. Fits(r, uploads)
  BY <1>2, <1>4, <1>5 DEF Fits
<1> QED  BY <1>1, <1>3, <1>5, <1>6, QuietStep

LEMMA EditFieldStep ==
  ASSUME Strong, NEW s \in Sessions, NEW flags \in BOOLEAN, NEW credits \in 0..MaxCredits,
         EditField(s, flags, credits)
  PROVE  Strong'
<1> DEFINE me == sess[s]
           b  == [me.buf EXCEPT !.flags = flags, !.credits = credits]
           r  == [me EXCEPT !.buf = b]
<1>1. /\ me.pc = "edit" /\ sess' = [sess EXCEPT ![s].buf.flags = flags, ![s].buf.credits = credits]
      /\ UNCHANGED <<users, logins, recov, files, disk, uploads, approved, work>>
  BY DEF EditField, Accounting, Area
<1>2. /\ Stored /\ Callers /\ uploads \in Nat /\ me \in Sess(uploads) /\ Fits(me, uploads)
      /\ me.buf \in Rows(uploads)
  BY <1>1, InRow DEF Strong, Fits
<1>3. Stored' /\ uploads' \in uploads..MaxFiles /\ uploads' = uploads
  BY <1>1, <1>2, StoredUsers
<1>4. sess' = [sess EXCEPT ![s] = r]
  <2>1. sess \in [Sessions -> Sess(uploads)]
    BY <1>2 DEF Callers
  <2>2. sess' = [[sess EXCEPT ![s] = [me EXCEPT !.buf = [me.buf EXCEPT !.flags = flags]]]
                   EXCEPT ![s].buf.credits = credits]
    BY <1>1
  <2>3. [me EXCEPT !.buf = [me.buf EXCEPT !.flags = flags]].buf = [me.buf EXCEPT !.flags = flags]
    BY <1>2 DEF Sess
  <2> QED  BY <1>2, <2>1, <2>2, <2>3 DEF Sess
<1> HIDE DEF me
<1>5. b \in Rows(uploads)
  BY <1>2 DEF Rows
<1> HIDE DEF b
<1>6. /\ r \in Sess(uploads) /\ r.pc = "edit" /\ r.buf = b /\ r.usr = me.usr
      /\ r.cred = me.cred /\ r.fps = me.fps /\ r.list = me.list
  BY <1>1, <1>2, <1>5 DEF Sess, me
<1> HIDE DEF r
<1>7. Fits(r, uploads)
  BY <1>1, <1>2, <1>5, <1>6 DEF Fits, AtPrompt, me
<1>8. UNCHANGED <<logins, recov>>
  BY <1>1
<1> QED  BY <1>3, <1>4, <1>6, <1>7, <1>8, QuietStep

LEMMA EditWriteStep == ASSUME Strong, NEW s \in Sessions, EditWrite(s) PROVE Strong'
<1> DEFINE me == sess[s]
           r  == [me EXCEPT !.pc = "menu", !.buf = NoRow, !.tgt = Sysop]
<1>1. /\ me.pc = "edit" /\ db_user_update(me.tgt, me.buf) /\ sess' = [sess EXCEPT ![s] = r]
      /\ UNCHANGED <<logins, recov, files, disk, uploads, approved, work>>
  BY DEF EditWrite, Accounting, Area, Put
<1>2. /\ Stored /\ Callers /\ uploads \in Nat /\ me \in Sess(uploads) /\ Fits(me, uploads)
      /\ me.buf \in Rows(uploads) /\ me.tgt \in Users
  BY <1>1, InRow DEF Strong, Fits, Sess
<1>3. Stored' /\ uploads' \in uploads..MaxFiles /\ uploads' = uploads
  BY <1>1, <1>2, UpdatedRow, StoredUsers
<1> HIDE DEF me
<1>4. /\ r \in Sess(uploads) /\ r.pc = "menu" /\ r.usr = me.usr
      /\ r.cred = me.cred /\ r.fps = me.fps /\ r.list = me.list
  BY <1>2, Sizes DEF Sess, Pcs
<1> HIDE DEF r
<1>5. Fits(r, uploads)
  BY <1>1, <1>2, <1>4 DEF Fits, AtPrompt, me
<1> QED  BY <1>1, <1>3, <1>4, <1>5, QuietStep

LEMMA SubscribeSelectStep == ASSUME Strong, NEW s \in Sessions, SubscribeSelect(s) PROVE Strong'
<1> DEFINE me == sess[s]
           r  == [me EXCEPT !.pc = "sub"]
<1>1. /\ AtMenu(s) /\ me.cred >= Price /\ sess' = [sess EXCEPT ![s] = r]
      /\ UNCHANGED <<users, logins, recov, files, disk, uploads, approved>>
  BY DEF SubscribeSelect, Accounting, Area, Goes
<1>2. /\ Stored /\ uploads \in Nat /\ me \in Sess(uploads) /\ Fits(me, uploads)
      /\ me.usr \in Rows(uploads) /\ me.cred = me.usr.credits /\ me.fps = me.usr.fp
      /\ work < MaxWork /\ work' = work + 1
  BY <1>1, MenuFits
<1>3. Stored' /\ uploads' \in uploads..MaxFiles /\ uploads' = uploads
  BY <1>1, <1>2, StoredUsers
<1>4. Price <= me.cred
  <2>1. me.cred \in 0..MaxCredits /\ me.cred >= Price
    BY <1>1, <1>2 DEF Sess
  <2> QED  BY <2>1, Sizes
<1> HIDE DEF me
<1>5. /\ r \in Sess(uploads) /\ r.pc = "sub" /\ r.usr = me.usr
      /\ r.cred = me.cred /\ r.fps = me.fps /\ r.list = me.list
  BY <1>2 DEF Sess, Pcs
<1> HIDE DEF r
<1>6. Fits(r, uploads)
  BY <1>2, <1>4, <1>5 DEF Fits
<1> QED  BY <1>1, <1>3, <1>5, <1>6, QuietStep

(* Back at the menu with nothing changed.                                  *)
LEMMA BackFits ==
  ASSUME NEW k \in Nat, NEW me \in Sess(k), Fits(me, k), me.pc \notin AtPrompt,
         NEW n \in Names \cup {""}, NEW i \in 0..MaxFiles
  PROVE  LET r == [me EXCEPT !.pc = "menu", !.name = n, !.id = i]
         IN /\ r \in Sess(k) /\ Fits(r, k) /\ r.pc = "menu" /\ r.usr = me.usr /\ r.who = me.who
            /\ r.cred = me.cred /\ r.fps = me.fps /\ r.list = me.list /\ r.usr \in Rows(k)
<1> DEFINE r == [me EXCEPT !.pc = "menu", !.name = n, !.id = i]
<1>1. /\ r \in Sess(k) /\ r.pc = "menu" /\ r.usr = me.usr /\ r.who = me.who
      /\ r.cred = me.cred /\ r.fps = me.fps /\ r.list = me.list
  BY DEF Sess, Pcs
<1> HIDE DEF r
<1>2. r.usr \in Rows(k) /\ r.cred = r.usr.credits /\ r.fps = r.usr.fp /\ Len(r.list) <= MaxFiles
  BY <1>1 DEF Fits, AtPrompt
<1>3. Fits(r, k)
  BY <1>1, <1>2 DEF Fits
<1> QED  BY <1>1, <1>2, <1>3 DEF r

LEMMA SubscribeDeclineStep == ASSUME Strong, NEW s \in Sessions, SubscribeDecline(s) PROVE Strong'
<1> DEFINE me == sess[s]
           r  == [me EXCEPT !.pc = "menu"]
<1>1. /\ me.pc = "sub" /\ sess' = [sess EXCEPT ![s] = r]
      /\ UNCHANGED <<users, logins, recov, files, disk, uploads, approved, work>>
  BY DEF SubscribeDecline, Accounting, Area, Goes
<1>2. /\ Stored /\ Callers /\ uploads \in Nat /\ me \in Sess(uploads) /\ Fits(me, uploads)
      /\ me.usr \in Rows(uploads)
  BY <1>1, InRow DEF Strong
<1>3. Stored' /\ uploads' \in uploads..MaxFiles /\ uploads' = uploads
  BY <1>1, <1>2, StoredUsers
<1> HIDE DEF me
<1>4. /\ r \in Sess(uploads) /\ r.pc = "menu" /\ r.usr = me.usr
      /\ r.cred = me.cred /\ r.fps = me.fps /\ r.list = me.list
  BY <1>2 DEF Sess, Pcs
<1> HIDE DEF r
<1>5. Fits(r, uploads)
  BY <1>1, <1>2, <1>4 DEF Fits, AtPrompt, me
<1> QED  BY <1>1, <1>3, <1>4, <1>5, QuietStep

LEMMA SubscribeConfirmStep ==
  ASSUME Strong, NEW s \in Sessions, NEW ok \in BOOLEAN, SubscribeConfirm(s, ok)
  PROVE  Strong'
<1> DEFINE me   == sess[s]
           left == me.cred - Price
           row  == db_user_update_time_credit(users[me.who], left, me.fps)
           new  == IF ok THEN db_user_subscribe(row) ELSE row
           lev  == IF ok THEN 2 ELSE me.usr.level
           copy == [me.usr EXCEPT !.credits = left, !.level = lev]
           r    == [me EXCEPT !.pc = "menu", !.cred = left, !.usr = copy]
<1>1. /\ me.pc = "sub" /\ users[me.who] # NoRow /\ users' = [users EXCEPT ![me.who] = new]
      /\ UNCHANGED <<logins, recov, files, disk, uploads, approved, work>>
  BY DEF SubscribeConfirm, Accounting, Area
<1>2. /\ Stored /\ Callers /\ uploads \in Nat /\ me \in Sess(uploads) /\ Fits(me, uploads)
      /\ me.usr \in Rows(uploads) /\ me.who \in Users
  BY <1>1, InRow DEF Strong
<1>3. sess' = [sess EXCEPT ![s] = r]
  <2>1. sess' = [sess EXCEPT ![s] = [me EXCEPT !.pc = "menu", !.cred = left, !.usr.credits = left,
                                               !.usr.level = IF ok THEN 2 ELSE @]]
    BY DEF SubscribeConfirm, Put
  <2> HIDE DEF me, left
  <2>2. [me EXCEPT !.pc = "menu", !.cred = left, !.usr.credits = left,
                   !.usr.level = IF ok THEN 2 ELSE @] = r
    BY <1>2 DEF Sess, Rows
  <2> QED  BY <2>1, <2>2
<1>4. left \in 0..MaxCredits /\ me.fps \in 0..uploads /\ me.fps = me.usr.fp
  <2>1. me.cred \in 0..MaxCredits /\ me.fps \in 0..uploads
    BY <1>2 DEF Sess
  <2>2. Price <= me.cred /\ me.fps = me.usr.fp
    BY <1>1, <1>2 DEF Fits, AtPrompt
  <2> HIDE DEF me
  <2> QED  BY <2>1, <2>2, Sizes
<1>5. new \in Rows(uploads)
  <2>1. users[me.who] \in Rows(uploads)
    BY <1>1, <1>2 DEF Stored
  <2> HIDE DEF me, left
  <2>2. row \in Rows(uploads)
    BY <1>4, <2>1 DEF db_user_update_time_credit, Rows
  <2> HIDE DEF row
  <2> QED  BY <2>2 DEF db_user_subscribe, Rows
<1>6. Stored' /\ uploads' \in uploads..MaxFiles /\ uploads' = uploads
  <2> HIDE DEF new
  <2> QED  BY <1>1, <1>2, <1>5, StoredUsers
<1>7. me.pc # "menu" /\ Len(me.list) <= MaxFiles
  BY <1>1, <1>2 DEF Fits
<1> HIDE DEF me, left, new
<1>8. lev \in 1..2
  BY <1>2 DEF Rows
<1> HIDE DEF lev
<1>9. copy \in Rows(uploads) /\ copy.credits = left /\ copy.fp = me.usr.fp
  BY <1>2, <1>4, <1>8 DEF Rows
<1> HIDE DEF copy
<1>10. /\ r \in Sess(uploads) /\ r.pc = "menu" /\ r.usr = copy
      /\ r.cred = left /\ r.fps = me.fps /\ r.list = me.list
  BY <1>2, <1>4, <1>9 DEF Sess, Pcs
<1> HIDE DEF r
<1>11. Fits(r, uploads)
  BY <1>4, <1>7, <1>9, <1>10 DEF Fits
<1> QED  BY <1>1, <1>3, <1>6, <1>10, <1>11, QuietStep

-----------------------------------------------------------------------------
(* The file commands.                                                      *)

LEMMA StoredFiles ==
  ASSUME Stored, UNCHANGED users, uploads' \in uploads..MaxFiles,
         work' = work \/ (work < MaxWork /\ work' = work + 1),
         files' \in [FileIds -> FileRow \cup {NoRow}], disk' \in [Names -> 0..MaxFiles],
         approved' \subseteq 0..MaxFiles
  PROVE  Stored'
<1>1. uploads \in Nat /\ uploads' \in Nat /\ uploads <= uploads' /\ uploads' \in 0..MaxFiles
  BY Sizes DEF Stored
<1>2. Rows(uploads) \subseteq Rows(uploads')
  BY <1>1, RowsGrow
<1>3. users' \in [Users -> Rows(uploads') \cup {NoRow}]
  BY <1>2 DEF Stored
<1>4. work' \in 0..MaxWork
  BY Sizes DEF Stored
<1> QED  BY <1>1, <1>3, <1>4 DEF Stored, FileIds, FileRow, Rows

(* Neither the row of a user nor a file changes.                           *)
LEMMA NothingStored ==
  ASSUME Stored, UNCHANGED <<users, files, disk, uploads, approved>>,
         work' = work \/ (work < MaxWork /\ work' = work + 1)
  PROVE  Stored' /\ uploads' \in uploads..MaxFiles /\ uploads' = uploads
BY StoredUsers

LEMMA DownloadStartStep ==
  ASSUME Strong, NEW s \in Sessions, NEW i \in FileIds, DownloadStart(s, i)
  PROVE  Strong'
<1> DEFINE me == sess[s]
           r  == [me EXCEPT !.pc = "dl", !.id = i, !.name = files[i].name]
<1>1. /\ AtMenu(s) /\ files[i] # NoRow /\ sess' = [sess EXCEPT ![s] = r]
      /\ UNCHANGED <<users, logins, recov, files, disk, uploads, approved>>
  BY DEF DownloadStart, Tables, Area, Put, db_file_get
<1>2. /\ Stored /\ uploads \in Nat /\ me \in Sess(uploads) /\ Fits(me, uploads)
      /\ me.usr \in Rows(uploads) /\ me.cred = me.usr.credits /\ me.fps = me.usr.fp
      /\ work < MaxWork /\ work' = work + 1
  BY <1>1, MenuFits
<1>3. Stored' /\ uploads' \in uploads..MaxFiles /\ uploads' = uploads
  BY <1>1, <1>2, NothingStored
<1>4. Cost <= me.cred
  <2>1. me.cred \in 0..MaxCredits /\ me.cred >= Cost
    BY <1>2 DEF Sess, DownloadStart, file_download_allowed
  <2> QED  BY <2>1, Sizes
<1>5. files[i].name \in Names /\ i \in 0..MaxFiles
  BY <1>1, <1>2, Sizes DEF Stored, FileRow, FileIds
<1> HIDE DEF me
<1>6. /\ r \in Sess(uploads) /\ r.pc = "dl" /\ r.usr = me.usr
      /\ r.cred = me.cred /\ r.fps = me.fps /\ r.list = me.list
  BY <1>2, <1>5 DEF Sess, Pcs
<1> HIDE DEF r
<1>7. Fits(r, uploads)
  BY <1>2, <1>4, <1>6 DEF Fits
<1> QED  BY <1>1, <1>3, <1>6, <1>7, QuietStep

LEMMA DownloadEndStep ==
  ASSUME Strong, NEW s \in Sessions, NEW ok \in BOOLEAN, DownloadEnd(s, ok)
  PROVE  Strong'
<1> DEFINE me   == sess[s]
           back == [me EXCEPT !.pc = "menu", !.name = "", !.id = 0]
           paid == file_record_download_success(back)
<1>1. /\ me.pc = "dl" /\ sess' = [sess EXCEPT ![s] = IF ok THEN paid ELSE back]
      /\ UNCHANGED <<users, logins, recov, files, disk, uploads, approved, work>>
  <2>1. me.pc = "dl" /\ UNCHANGED <<users, logins, recov, files, disk, uploads, approved, work>>
    BY DEF DownloadEnd, Tables, Area
  <2>2. me \in Sess(uploads)
    BY InRow DEF Strong
  <2>3. [me EXCEPT !.pc = "menu", !.id = 0, !.name = ""] = back
    BY <2>2 DEF Sess
  <2> QED  BY <2>1, <2>3 DEF DownloadEnd, Put
<1>2. /\ Stored /\ Callers /\ uploads \in Nat /\ me \in Sess(uploads) /\ Fits(me, uploads)
  BY <1>1, InRow DEF Strong
<1>3. Stored' /\ uploads' \in uploads..MaxFiles /\ uploads' = uploads
  BY <1>1, <1>2, NothingStored
<1>4. me.cred \in 0..MaxCredits /\ Cost <= me.cred /\ me.pc \notin AtPrompt
  BY <1>1, <1>2 DEF Sess, Fits, AtPrompt
<1> HIDE DEF me
<1>5. /\ back \in Sess(uploads) /\ Fits(back, uploads) /\ back.pc = "menu" /\ back.usr \in Rows(uploads)
      /\ back.cred = me.cred
  <2>1. "" \in Names \cup {""} /\ 0 \in 0..MaxFiles
    BY Sizes
  <2>2. LET b == [me EXCEPT !.pc = "menu", !.name = "", !.id = 0]
        IN /\ b \in Sess(uploads) /\ Fits(b, uploads) /\ b.pc = "menu" /\ b.usr = me.usr /\ b.who = me.who
           /\ b.cred = me.cred /\ b.fps = me.fps /\ b.list = me.list /\ b.usr \in Rows(uploads)
    BY <1>2, <1>4, <2>1, BackFits
  <2> QED  BY <2>2
<1> HIDE DEF back
<1>6. paid \in Sess(uploads) /\ Fits(paid, uploads) /\ paid.pc = "menu"
  <2> DEFINE left == back.cred - Cost
             more == back.usr.dl + 1
             copy == [back.usr EXCEPT !.credits = left, !.dl = more]
             r    == [back EXCEPT !.cred = left, !.usr = copy]
  <2>1. back.cred = back.usr.credits /\ back.fps = back.usr.fp /\ Len(back.list) <= MaxFiles
    BY <1>5 DEF Fits, AtPrompt
  <2>2. left \in 0..MaxCredits
    BY <1>4, <1>5, Sizes
  <2>3. paid = r
    BY <1>5, <2>1 DEF file_record_download_success, Sess, Rows
  <2> HIDE DEF left
  <2>7. more \in Nat
    BY <1>5 DEF Rows
  <2> HIDE DEF more
  <2>4. copy \in Rows(uploads) /\ copy.credits = left /\ copy.fp = back.usr.fp
    BY <1>5, <2>2, <2>7 DEF Rows
  <2> HIDE DEF copy
  <2>5. /\ r \in Sess(uploads) /\ r.pc = "menu" /\ r.usr = copy
        /\ r.cred = left /\ r.fps = back.fps /\ r.list = back.list
    BY <1>5, <2>2, <2>4 DEF Sess
  <2> HIDE DEF r
  <2>6. Fits(r, uploads)
    BY <2>1, <2>4, <2>5 DEF Fits
  <2> QED  BY <2>3, <2>5, <2>6
<1> HIDE DEF paid
<1>7. CASE ok
  BY <1>1, <1>3, <1>6, <1>7, QuietStep
<1>8. CASE ~ok
  BY <1>1, <1>3, <1>5, <1>8, QuietStep
<1> QED  BY <1>7, <1>8

(* A transfer into the area, or into a staging directory, begins.          *)
LEMMA ReceivingStep ==
  ASSUME Strong, NEW s \in Sessions, NEW n \in Names, UploadStart(s, n) \/ BatchReceive(s, n)
  PROVE  Strong'
<1> DEFINE me == sess[s]
<1>1. PICK pc \in {"up", "staged"} :
        /\ AtMenu(s) /\ sess' = [sess EXCEPT ![s] = [me EXCEPT !.pc = pc, !.name = n]]
        /\ UNCHANGED <<users, logins, recov, files, disk, uploads, approved>>
  BY DEF UploadStart, BatchReceive, Tables, Area, Put
<1> DEFINE r  == [me EXCEPT !.pc = pc, !.name = n]
<1>2. /\ Stored /\ uploads \in Nat /\ me \in Sess(uploads) /\ Fits(me, uploads)
      /\ me.usr \in Rows(uploads) /\ me.cred = me.usr.credits /\ me.fps = me.usr.fp
      /\ work < MaxWork /\ work' = work + 1
  BY <1>1, MenuFits
<1>3. Stored' /\ uploads' \in uploads..MaxFiles /\ uploads' = uploads
  BY <1>1, <1>2, NothingStored
<1> HIDE DEF me
<1>4. /\ r \in Sess(uploads) /\ r.pc = pc /\ r.usr = me.usr /\ r.name = n
      /\ r.cred = me.cred /\ r.fps = me.fps /\ r.list = me.list
  BY <1>2 DEF Sess, Pcs
<1>5. sess' = [sess EXCEPT ![s] = r] /\ UNCHANGED <<logins, recov>>
  BY <1>1
<1> HIDE DEF r
<1>6. Fits(r, uploads)
  BY <1>2, <1>4 DEF Fits
<1> QED  BY <1>3, <1>4, <1>5, <1>6, QuietStep

(* A credit for an upload keeps the points within the uploads when the     *)
(* session has yet to be credited for one.                                 *)
LEMMA CreditedFits ==
  ASSUME NEW k \in Nat, NEW me \in Sess(k), Fits(me, k), me.pc \notin AtPrompt,
         me.usr.fp < k, me.usr.ul < k
  PROVE  Credited(me) \in Sess(k) /\ Fits(Credited(me), k) /\ Credited(me).pc = "menu"
<1> DEFINE ul   == me.usr.ul + 1
           fp   == me.usr.fp + 1
           copy == [me.usr EXCEPT !.ul = ul, !.fp = fp]
           r    == [me EXCEPT !.pc = "menu", !.name = "", !.usr = copy, !.fps = fp]
<1>1. /\ me.usr \in Rows(k) /\ me.fps = me.usr.fp /\ me.cred = me.usr.credits
      /\ Len(me.list) <= MaxFiles
  BY DEF Fits, AtPrompt
<1>2. Credited(me) = r
  BY <1>1 DEF Credited, Sess, Rows
<1>3. ul \in 0..k /\ fp \in 0..k
  BY <1>1 DEF Rows
<1> HIDE DEF ul, fp
<1>4. copy \in Rows(k) /\ copy.credits = me.usr.credits /\ copy.fp = fp
  BY <1>1, <1>3 DEF Rows
<1> HIDE DEF copy
<1>5. /\ r \in Sess(k) /\ r.pc = "menu" /\ r.usr = copy /\ r.fps = fp /\ r.cred = me.cred
      /\ r.list = me.list
  BY <1>3, <1>4 DEF Sess, Pcs
<1> HIDE DEF r
<1>6. Fits(r, k)
  BY <1>1, <1>4, <1>5 DEF Fits
<1> QED  BY <1>2, <1>5, <1>6

LEMMA UploadEndStep ==
  ASSUME Strong, NEW s \in Sessions, NEW o \in {"ok", "norow", "failed"}, UploadEnd(s, o)
  PROVE  Strong'
<1> DEFINE me   == sess[s]
           back == [me EXCEPT !.pc = "menu", !.name = ""]
           now  == uploads + 1
<1>1. me.pc = "up" /\ uploads < MaxFiles /\ UNCHANGED <<users, logins, recov, approved, work>>
  BY DEF UploadEnd, Tables
<1>2. /\ Stored /\ Callers /\ uploads \in Nat /\ me \in Sess(uploads) /\ Fits(me, uploads)
      /\ me.pc \notin AtPrompt /\ me.usr \in Rows(uploads) /\ me.name \in Names
  BY <1>1, InRow DEF Strong, Fits, AtPrompt
<1>3. /\ o = "failed" => uploads' = uploads /\ disk' = disk /\ files' = files
                          /\ sess' = [sess EXCEPT ![s] = back]
      /\ o = "norow"  => uploads' = now /\ disk' = [disk EXCEPT ![me.name] = now]
                          /\ files' = files /\ sess' = [sess EXCEPT ![s] = back]
      /\ o = "ok"     => /\ uploads' = now /\ disk' = [disk EXCEPT ![me.name] = now]
                         /\ files' = [files EXCEPT ![now] = [name |-> me.name, notval |-> TRUE]]
                         /\ sess' = [sess EXCEPT ![s] = Credited(me)]
  BY DEF UploadEnd, Put, db_file_add_ex
<1>4. uploads' \in uploads..MaxFiles /\ uploads' \in Nat /\ uploads <= uploads'
  BY <1>1, <1>2, <1>3, Sizes
<1>5. now \in FileIds /\ now \in 0..MaxFiles
  BY <1>1, <1>2, Sizes DEF FileIds
<1>6. Stored'
  <2>1. disk' \in [Names -> 0..MaxFiles]
    BY <1>2, <1>3, <1>5 DEF Stored
  <2>2. files' \in [FileIds -> FileRow \cup {NoRow}]
    <3> DEFINE new == [name |-> me.name, notval |-> TRUE]
    <3>1. new \in FileRow /\ files \in [FileIds -> FileRow \cup {NoRow}]
      BY <1>2 DEF FileRow, Stored
    <3>2. files' = files \/ files' = [files EXCEPT ![now] = new]
      BY <1>3
    <3> HIDE DEF new, now
    <3> QED  BY <1>5, <3>1, <3>2
  <2>3. approved' \subseteq 0..MaxFiles
    BY <1>1, <1>2 DEF Stored
  <2> QED  BY <1>1, <1>2, <1>4, <2>1, <2>2, <2>3, StoredFiles
<1>7. me \in Sess(uploads') /\ Fits(me, uploads')
  BY <1>2, <1>4, RowsGrow
<1>8. CASE o = "failed" \/ o = "norow"
  <2>1. sess' = [sess EXCEPT ![s] = back]
    BY <1>3, <1>8
  <2>2. /\ me.usr \in Rows(uploads') /\ me.cred = me.usr.credits /\ me.fps = me.usr.fp
        /\ Len(me.list) <= MaxFiles
    BY <1>2, <1>7 DEF Fits, AtPrompt
  <2> HIDE DEF me
  <2>3. /\ back \in Sess(uploads') /\ back.pc = "menu" /\ back.usr = me.usr
        /\ back.cred = me.cred /\ back.fps = me.fps /\ back.list = me.list
    BY <1>7 DEF Sess, Pcs
  <2> HIDE DEF back
  <2>4. Fits(back, uploads')
    BY <2>2, <2>3 DEF Fits
  <2> QED  BY <1>1, <1>4, <1>6, <2>1, <2>3, <2>4, QuietStep
<1>9. CASE o = "ok"
  <2>1. me.usr.fp < uploads' /\ me.usr.ul < uploads'
    BY <1>2, <1>3, <1>9 DEF Rows
  <2>2. Credited(me) \in Sess(uploads') /\ Fits(Credited(me), uploads') /\ Credited(me).pc = "menu"
    BY <1>2, <1>4, <1>7, <2>1, CreditedFits
  <2>3. sess' = [sess EXCEPT ![s] = Credited(me)]
    BY <1>3, <1>9
  <2> QED  BY <1>1, <1>4, <1>6, <2>2, <2>3, QuietStep
<1> QED  BY <1>8, <1>9

LEMMA BatchMoveStep == ASSUME Strong, NEW s \in Sessions, BatchMove(s) PROVE Strong'
<1> DEFINE me   == sess[s]
           back == [me EXCEPT !.pc = "menu", !.name = ""]
           now  == uploads + 1
           r    == [me EXCEPT !.pc = "describe", !.id = now]
<1>1. /\ me.pc = "staged" /\ uploads < MaxFiles
      /\ UNCHANGED <<users, logins, recov, files, approved, work>>
      /\ \/ /\ sess' = [sess EXCEPT ![s] = back] /\ disk' = disk /\ uploads' = uploads
         \/ /\ sess' = [sess EXCEPT ![s] = r] /\ disk' = [disk EXCEPT ![me.name] = now]
            /\ uploads' = now
  BY DEF BatchMove, Put, Tables
<1>2. /\ Stored /\ Callers /\ uploads \in Nat /\ me \in Sess(uploads) /\ Fits(me, uploads)
      /\ me.pc \notin AtPrompt /\ me.usr \in Rows(uploads) /\ me.name \in Names
  BY <1>1, InRow DEF Strong, Fits, AtPrompt
<1>3. now \in 0..MaxFiles /\ uploads' \in {uploads, now}
  BY <1>1, <1>2, Sizes
<1>4. uploads' \in uploads..MaxFiles /\ uploads' \in Nat /\ uploads <= uploads'
  BY <1>1, <1>2, <1>3, Sizes
<1>5. Stored'
  <2>1. disk' \in [Names -> 0..MaxFiles]
    <3>1. disk \in [Names -> 0..MaxFiles] /\ (disk' = disk \/ disk' = [disk EXCEPT ![me.name] = now])
      BY <1>1, <1>2 DEF Stored
    <3> HIDE DEF me, now
    <3> QED  BY <1>3, <3>1
  <2>2. files' \in [FileIds -> FileRow \cup {NoRow}] /\ approved' \subseteq 0..MaxFiles
    BY <1>1, <1>2 DEF Stored
  <2> QED  BY <1>1, <1>2, <1>4, <2>1, <2>2, StoredFiles
<1>6. me \in Sess(uploads') /\ Fits(me, uploads')
  BY <1>2, <1>4, RowsGrow
<1>7. /\ me.usr \in Rows(uploads') /\ me.cred = me.usr.credits /\ me.fps = me.usr.fp
      /\ Len(me.list) <= MaxFiles
  BY <1>2, <1>6 DEF Fits, AtPrompt
<1>8. CASE sess' = [sess EXCEPT ![s] = back] /\ uploads' = uploads
  <2> HIDE DEF me
  <2>1. /\ back \in Sess(uploads') /\ back.pc = "menu" /\ back.usr = me.usr
        /\ back.cred = me.cred /\ back.fps = me.fps /\ back.list = me.list
    BY <1>6 DEF Sess, Pcs
  <2>2. sess' = [sess EXCEPT ![s] = back] /\ UNCHANGED <<logins, recov>>
    BY <1>1, <1>8
  <2> HIDE DEF back
  <2>3. Fits(back, uploads')
    BY <1>7, <2>1 DEF Fits
  <2> QED  BY <1>4, <1>5, <2>1, <2>2, <2>3, QuietStep
<1>9. CASE sess' = [sess EXCEPT ![s] = r] /\ uploads' = now
  <2>1. me.usr.fp < uploads' /\ me.usr.ul < uploads'
    BY <1>2, <1>9 DEF Rows
  <2> HIDE DEF me, now
  <2>2. /\ r \in Sess(uploads') /\ r.pc = "describe" /\ r.usr = me.usr /\ r.name = me.name
        /\ r.cred = me.cred /\ r.fps = me.fps /\ r.list = me.list
    BY <1>3, <1>6 DEF Sess, Pcs
  <2>3. sess' = [sess EXCEPT ![s] = r] /\ UNCHANGED <<logins, recov>>
    BY <1>1, <1>9
  <2> HIDE DEF r
  <2>4. Fits(r, uploads')
    BY <1>2, <1>7, <2>1, <2>2 DEF Fits
  <2> QED  BY <1>4, <1>5, <2>2, <2>3, <2>4, QuietStep
<1> QED  BY <1>1, <1>8, <1>9

LEMMA BatchAddStep == ASSUME Strong, NEW s \in Sessions, BatchAdd(s) PROVE Strong'
<1> DEFINE me  == sess[s]
           c   == Credited(me)
           r   == [c EXCEPT !.id = 0]
           new == [name |-> me.name, notval |-> TRUE]
<1>1. /\ me.pc = "describe" /\ sess' = [sess EXCEPT ![s] = r] /\ files' = [files EXCEPT ![me.id] = new]
      /\ UNCHANGED <<users, logins, recov, disk, uploads, approved, work>>
  BY DEF BatchAdd, Put, Tables, db_file_add_ex
<1>2. /\ Stored /\ Callers /\ uploads \in Nat /\ me \in Sess(uploads) /\ Fits(me, uploads)
      /\ me.pc \notin AtPrompt /\ me.usr \in Rows(uploads) /\ me.name \in Names
      /\ me.usr.fp < uploads /\ me.usr.ul < uploads
  BY <1>1, InRow DEF Strong, Fits, AtPrompt
<1>3. c \in Sess(uploads) /\ Fits(c, uploads) /\ c.pc = "menu"
  BY <1>2, CreditedFits
<1>4. uploads' \in uploads..MaxFiles /\ uploads' = uploads
  BY <1>1, <1>2 DEF Stored
<1>5. Stored'
  <2>1. files' \in [FileIds -> FileRow \cup {NoRow}]
    <3>1. new \in FileRow /\ files \in [FileIds -> FileRow \cup {NoRow}]
      BY <1>2 DEF FileRow, Stored
    <3> HIDE DEF new, me
    <3> QED  BY <1>1, <3>1
  <2>2. disk' \in [Names -> 0..MaxFiles] /\ approved' \subseteq 0..MaxFiles
    BY <1>1, <1>2 DEF Stored
  <2> QED  BY <1>1, <1>2, <1>4, <2>1, <2>2, StoredFiles
<1> HIDE DEF c
<1>6. /\ c.usr \in Rows(uploads) /\ c.cred = c.usr.credits /\ c.fps = c.usr.fp
      /\ Len(c.list) <= MaxFiles
  BY <1>3 DEF Fits, AtPrompt
<1>7. /\ r \in Sess(uploads) /\ r.pc = "menu" /\ r.usr = c.usr
      /\ r.cred = c.cred /\ r.fps = c.fps /\ r.list = c.list
  <2>1. 0 \in 0..MaxFiles
    BY Sizes
  <2> QED  BY <1>3, <2>1 DEF Sess
<1>8. sess' = [sess EXCEPT ![s] = r] /\ UNCHANGED <<logins, recov>>
  BY <1>1
<1> HIDE DEF r
<1>9. Fits(r, uploads)
  BY <1>6, <1>7 DEF Fits
<1> QED  BY <1>4, <1>5, <1>7, <1>8, <1>9, QuietStep

-----------------------------------------------------------------------------
(* The sysop's side of the file areas.                                     *)

(* The identifiers that wait, in order: the list exists.                   *)
Sorted(S, q) == /\ q \in [1..Cardinality(S) -> S]
                /\ \A i, j \in 1..Cardinality(S) : i < j => q[i] < q[j]

LEMMA IdsFinite ==
  ASSUME NEW S \in SUBSET FileIds
  PROVE  IsFiniteSet(S) /\ Cardinality(S) \in 0..MaxFiles
<1>1. IsFiniteSet(FileIds) /\ Cardinality(FileIds) = MaxFiles
  <2>1. 1 \in Int /\ MaxFiles \in Int /\ MaxFiles >= 0
    BY Sizes
  <2>2. /\ IsFiniteSet(1..MaxFiles)
        /\ Cardinality(1..MaxFiles) = IF 1 > MaxFiles THEN 0 ELSE MaxFiles - 1 + 1
    BY <2>1, FS_Interval
  <2> QED  BY <2>1, <2>2 DEF FileIds
<1>2. IsFiniteSet(S) /\ Cardinality(S) \in Nat /\ Cardinality(S) <= MaxFiles
  BY <1>1, FS_Subset, FS_CardinalityType
<1> QED  BY <1>2, Sizes

LEMMA SortedExists ==
  ASSUME NEW S \in SUBSET FileIds
  PROVE  \E q : Sorted(S, q)
<1> DEFINE Bad == {n \in Nat : \E A \in SUBSET FileIds : Cardinality(A) = n /\ \A q : ~Sorted(A, q)}
<1>1. SUFFICES Bad = {}
  BY IdsFinite
<1>2. SUFFICES ASSUME Bad # {} PROVE FALSE
  OBVIOUS
<1>3. PICK n \in Bad : \A m \in Bad : n <= m
  BY <1>2, Least
<1>4. PICK A \in SUBSET FileIds : Cardinality(A) = n /\ \A q : ~Sorted(A, q)
  BY <1>3
<1>5. n \in Nat /\ IsFiniteSet(A)
  BY <1>3, <1>4, IdsFinite
<1>6. CASE n = 0
  <2> DEFINE q == [i \in 1..0 |-> 0]
  <2>1. 1..Cardinality(A) = {} /\ 1..0 = {}
    BY <1>4, <1>6
  <2>2. Sorted(A, q)
    BY <2>1 DEF Sorted
  <2> QED  BY <1>4, <2>2
<1>7. CASE n # 0
  <2>1. A # {} /\ A \in SUBSET (1..MaxFiles) /\ MaxFiles \in Nat
    BY <1>4, <1>5, <1>7, FS_EmptySet, Sizes DEF FileIds
  <2>2. PICK m \in A : \A j \in A : j <= m
    BY <2>1, Greatest
  <2> DEFINE B == A \ {m}
  <2>3. B \in SUBSET FileIds /\ Cardinality(B) = n - 1 /\ n - 1 \in Nat
    BY <1>4, <1>5, <1>7, FS_RemoveElement
  <2>4. PICK p : Sorted(B, p)
    <3>1. ~(n - 1 \in Bad)
      BY <1>3, <1>5
    <3> QED  BY <2>3, <3>1
  <2>5. /\ p \in [1..(n - 1) -> B]
        /\ \A i, j \in 1..(n - 1) : i < j => p[i] < p[j]
    BY <2>3, <2>4 DEF Sorted
  <2> DEFINE q == [i \in 1..n |-> IF i = n THEN m ELSE p[i]]
  <2>6. \A i \in 1..n : i # n => i \in 1..(n - 1)
    BY <1>5
  <2>7. \A b \in B : b \in A /\ b < m
    BY <2>1, <2>2
  <2> HIDE DEF B
  <2>8. q \in [1..n -> A]
    BY <2>2, <2>5, <2>6, <2>7
  <2>9. \A i, j \in 1..n : i < j => q[i] < q[j]
    <3> SUFFICES ASSUME NEW i \in 1..n, NEW j \in 1..n, i < j PROVE q[i] < q[j]
      OBVIOUS
    <3>1. i # n /\ i \in 1..(n - 1) /\ q[i] = p[i] /\ p[i] \in B
      BY <1>5, <2>5, <2>6
    <3>2. CASE j = n
      BY <2>7, <3>1, <3>2
    <3>3. CASE j # n
      BY <2>5, <2>6, <3>1, <3>3
    <3> QED  BY <3>2, <3>3
  <2> HIDE DEF q
  <2> QED  BY <1>4, <2>8, <2>9 DEF Sorted
<1> QED  BY <1>6, <1>7

LEMMA ValidateOpenStep == ASSUME Strong, NEW s \in Sessions, ValidateOpen(s) PROVE Strong'
<1> DEFINE me      == sess[s]
           pending == {i \in db_file_list : files[i].notval}
           asked   == CHOOSE q \in [1..Cardinality(pending) -> pending] :
                        \A i, j \in 1..Cardinality(pending) : i < j => q[i] < q[j]
           r       == [me EXCEPT !.pc = "validate", !.list = asked]
<1>1. /\ AtMenu(s) /\ pending # {} /\ sess' = [sess EXCEPT ![s] = r]
      /\ UNCHANGED <<users, logins, recov, files, disk, uploads, approved>>
  BY DEF ValidateOpen, Tables, Area, Put
<1>2. /\ Stored /\ uploads \in Nat /\ me \in Sess(uploads) /\ Fits(me, uploads)
      /\ me.usr \in Rows(uploads) /\ me.cred = me.usr.credits /\ me.fps = me.usr.fp
      /\ work < MaxWork /\ work' = work + 1
  BY <1>1, MenuFits
<1>3. Stored' /\ uploads' \in uploads..MaxFiles /\ uploads' = uploads
  BY <1>1, <1>2, NothingStored
<1>4. pending \in SUBSET FileIds
  BY DEF db_file_list
<1> HIDE DEF me, pending
<1>5. Sorted(pending, asked)
  <2>1. \E q \in [1..Cardinality(pending) -> pending] :
          \A i, j \in 1..Cardinality(pending) : i < j => q[i] < q[j]
    BY <1>4, SortedExists DEF Sorted
  <2> QED  BY <2>1 DEF Sorted
<1> HIDE DEF asked
<1>6. asked \in Seq(FileIds) /\ Len(asked) <= MaxFiles /\ asked # <<>>
  <2>1. IsFiniteSet(pending) /\ Cardinality(pending) \in 0..MaxFiles /\ Cardinality(pending) # 0
    BY <1>1, <1>4, IdsFinite, FS_EmptySet
  <2> DEFINE c == Cardinality(pending)
  <2>2. asked \in [1..c -> FileIds] /\ c \in Nat /\ c <= MaxFiles /\ c > 0
    BY <1>4, <1>5, <2>1, Sizes DEF Sorted
  <2> HIDE DEF c
  <2>3. asked \in Seq(FileIds) /\ Len(asked) = c
    BY <2>2
  <2> QED  BY <2>2, <2>3
<1>7. /\ r \in Sess(uploads) /\ r.pc = "validate" /\ r.usr = me.usr
      /\ r.cred = me.cred /\ r.fps = me.fps /\ r.list = asked
  BY <1>2, <1>6 DEF Sess, Pcs
<1>8. sess' = [sess EXCEPT ![s] = r] /\ UNCHANGED <<logins, recov>>
  BY <1>1
<1> HIDE DEF r
<1>9. Fits(r, uploads)
  BY <1>2, <1>6, <1>7 DEF Fits
<1> QED  BY <1>3, <1>7, <1>8, <1>9, QuietStep

LEMMA ValidateOneStep ==
  ASSUME Strong, NEW s \in Sessions, NEW v \in {"approve", "reject", "skip"}, ValidateOne(s, v)
  PROVE  Strong'
<1> DEFINE me   == sess[s]
           id   == Head(me.list)
           rest == Tail(me.list)
           pc   == IF Len(me.list) = 1 THEN "menu" ELSE "validate"
           r    == [me EXCEPT !.list = rest, !.pc = pc]
           open == [files[id] EXCEPT !.notval = FALSE]
<1>1. /\ me.pc = "validate" /\ sess' = [sess EXCEPT ![s] = Listed(s)]
      /\ UNCHANGED <<users, logins, recov, disk, uploads, work>>
  BY DEF ValidateOne, Put, Tables
<1>2. /\ Stored /\ Callers /\ uploads \in Nat /\ me \in Sess(uploads) /\ Fits(me, uploads)
      /\ me.usr \in Rows(uploads) /\ me.cred = me.usr.credits /\ me.fps = me.usr.fp
      /\ me.list # <<>> /\ Len(me.list) <= MaxFiles
  BY <1>1, InRow DEF Strong, Fits, AtPrompt
<1>3. Listed(s) = r
  BY <1>1, <1>2 DEF Listed, Sess
<1>4. /\ v = "approve" => files' = IF files[id] = NoRow THEN files ELSE [files EXCEPT ![id] = open]
      /\ v = "reject"  => files' = [i \in FileIds |-> IF i \in {id} THEN NoRow ELSE files[i]]
      /\ v = "skip"    => files' = files
  BY DEF ValidateOne, db_file_update, db_file_delete
<1>5. /\ v = "approve" => approved' = IF files[id] = NoRow THEN approved
                                      ELSE approved \cup {disk[files[id].name]}
      /\ v \in {"reject", "skip"} => approved' = approved
  BY DEF ValidateOne
<1>6. me.list \in Seq(FileIds) /\ id \in FileIds
  <2>1. me.list \in Seq(FileIds)
    BY <1>2 DEF Sess
  <2> HIDE DEF me
  <2> QED  BY <1>2, <2>1
<1>7. /\ rest \in Seq(FileIds) /\ Len(rest) = Len(me.list) - 1 /\ Len(me.list) \in Nat
      /\ Len(me.list) # 1 => rest # <<>>
  <2> HIDE DEF me
  <2>1. /\ rest \in Seq(FileIds) /\ Len(rest) = Len(me.list) - 1 /\ Len(me.list) \in Nat
        /\ Len(me.list) >= 1
    BY <1>2, <1>6, HeadTailProperties, LenProperties
  <2>2. Len(me.list) # 1 => Len(rest) # 0
    BY <2>1
  <2> QED  BY <2>1, <2>2, EmptySeq
<1>8. files[id] # NoRow => files[id] \in FileRow /\ open \in FileRow /\ disk[files[id].name] \in 0..MaxFiles
  <2> HIDE DEF id
  <2>1. files[id] # NoRow => files[id] \in FileRow
    BY <1>2, <1>6 DEF Stored
  <2> QED  BY <1>2, <2>1 DEF Stored, FileRow
<1>9. Stored'
  <2>1. files \in [FileIds -> FileRow \cup {NoRow}] /\ disk' \in [Names -> 0..MaxFiles]
        /\ approved \subseteq 0..MaxFiles
    BY <1>1, <1>2 DEF Stored
  <2> HIDE DEF id, open
  <2>2. files' \in [FileIds -> FileRow \cup {NoRow}]
    BY <1>4, <1>6, <1>8, <2>1
  <2>3. approved' \subseteq 0..MaxFiles
    BY <1>5, <1>8, <2>1
  <2>4. uploads' \in uploads..MaxFiles
    BY <1>1, <1>2 DEF Stored
  <2> QED  BY <1>1, <1>2, <2>1, <2>2, <2>3, <2>4, StoredFiles
<1>10. uploads' \in uploads..MaxFiles /\ uploads' = uploads
  BY <1>1, <1>2 DEF Stored
<1> HIDE DEF me, rest
<1>11. /\ r \in Sess(uploads) /\ r.pc \in {"menu", "validate"} /\ r.usr = me.usr
       /\ r.cred = me.cred /\ r.fps = me.fps /\ r.list = rest
       /\ r.pc = "validate" => Len(me.list) # 1
  BY <1>2, <1>7 DEF Sess, Pcs
<1>12. sess' = [sess EXCEPT ![s] = r] /\ UNCHANGED <<logins, recov>>
  BY <1>1, <1>3
<1> HIDE DEF r
<1>13. Fits(r, uploads)
  <2>1. Len(r.list) <= MaxFiles
    BY <1>2, <1>7, <1>11, Sizes
  <2> QED  BY <1>2, <1>7, <1>11, <2>1 DEF Fits
<1> QED  BY <1>9, <1>10, <1>11, <1>12, <1>13, QuietStep

(* A file whose row goes, or whose content does.                           *)
LEMMA UnlinkedStep == ASSUME Strong, NEW n \in Names, Unlinked(n) PROVE Strong'
<1>1. /\ disk' = [disk EXCEPT ![n] = 0]
      /\ UNCHANGED <<users, logins, recov, sess, files, uploads, approved, work>>
  BY DEF Unlinked, Tables
<1>2. /\ disk \in [Names -> 0..MaxFiles] /\ files' \in [FileIds -> FileRow \cup {NoRow}]
      /\ approved' \subseteq 0..MaxFiles /\ uploads' \in uploads..MaxFiles /\ 0 \in 0..MaxFiles
  BY <1>1, Sizes DEF Strong, Stored
<1>3. disk' \in [Names -> 0..MaxFiles]
  BY <1>1, <1>2
<1>4. Stored'
  BY <1>1, <1>2, <1>3, StoredFiles DEF Strong
<1> QED  BY <1>1, <1>4, StillStep

LEMMA PackStep == ASSUME Strong, NEW s \in Sessions, cmd_file_pack(s) PROVE Strong'
<1> DEFINE gone == {i \in db_file_list : disk[files[i].name] = 0}
<1>1. /\ AtMenu(s) /\ files' = [i \in FileIds |-> IF i \in gone THEN NoRow ELSE files[i]]
      /\ UNCHANGED <<users, logins, recov, sess, disk, uploads, approved>>
  BY DEF cmd_file_pack, db_file_delete, Tables
<1>2. /\ files \in [FileIds -> FileRow \cup {NoRow}] /\ disk' \in [Names -> 0..MaxFiles]
      /\ approved' \subseteq 0..MaxFiles /\ uploads' \in uploads..MaxFiles
      /\ Stored /\ work < MaxWork /\ work' = work + 1
  BY <1>1, Sizes DEF Strong, Stored, AtMenu
<1>3. files' \in [FileIds -> FileRow \cup {NoRow}]
  <2> HIDE DEF gone
  <2> QED  BY <1>1, <1>2
<1>4. Stored'
  BY <1>1, <1>2, <1>3, StoredFiles
<1> QED  BY <1>1, <1>4, StillStep

LEMMA WindowStep == ASSUME Strong, NEW i \in 1..Slots, WindowPasses(i) PROVE Strong'
<1>1. UNCHANGED <<users, sess, files, disk, uploads, approved, work>>
  BY DEF WindowPasses
<1>2. Stored' /\ Callers'
  BY <1>1 DEF Strong, Stored, Callers
<1>3. Standing(LoggingIn)' = Standing(LoggingIn) /\ Standing(Recovering)' = Standing(Recovering) /\ Who' = Who
  BY <1>1 DEF Standing, Who
<1>4. Bounded(logins, Standing(LoggingIn), Who, MaxLogin) /\ Bounded(recov, Standing(Recovering), Who, MaxRecovery)
  BY DEF Strong, Counting
<1>5. \A t : t \in Table /\ t[i] # NoRow =>
               /\ [t EXCEPT ![i].old = TRUE] \in Table
               /\ \A j \in 1..Slots : \/ [t EXCEPT ![i].old = TRUE][j] = t[j]
                                      \/ t[j] # NoRow /\ [t EXCEPT ![i].old = TRUE][j] = [t[j] EXCEPT !.old = TRUE]
  <2> SUFFICES ASSUME NEW t \in Table, t[i] # NoRow
               PROVE  /\ [t EXCEPT ![i].old = TRUE] \in Table
                      /\ \A j \in 1..Slots :
                            \/ [t EXCEPT ![i].old = TRUE][j] = t[j]
                            \/ t[j] # NoRow /\ [t EXCEPT ![i].old = TRUE][j] = [t[j] EXCEPT !.old = TRUE]
    OBVIOUS
  <2>1. [t[i] EXCEPT !.old = TRUE] \in Entry
    BY DEF Table, Entry
  <2> QED  BY <2>1 DEF Table
<1>6. Counting'
  <2>1. CASE logins' = [logins EXCEPT ![i].old = TRUE] /\ logins[i] # NoRow /\ recov' = recov
    <3>1. logins \in Table
      BY <1>4 DEF Bounded
    <3>2. /\ logins' \in Table
          /\ \A j \in 1..Slots : \/ logins'[j] = logins[j]
                                 \/ logins[j] # NoRow /\ logins'[j] = [logins[j] EXCEPT !.old = TRUE]
      BY <1>5, <2>1, <3>1
    <3>3. Bounded(logins', Standing(LoggingIn), Who, MaxLogin)
      BY <1>4, <3>2, Sizes, StaysBounded DEF Standing
    <3>4. Bounded(logins', Standing(LoggingIn)', Who', MaxLogin)
      BY <1>3, <3>3
    <3>5. Bounded(recov', Standing(Recovering)', Who', MaxRecovery)
      BY <1>3, <1>4, <2>1
    <3> QED  BY <3>4, <3>5, BoundedNext DEF Counting
  <2>2. CASE recov' = [recov EXCEPT ![i].old = TRUE] /\ recov[i] # NoRow /\ logins' = logins
    <3>1. recov \in Table
      BY <1>4 DEF Bounded
    <3>2. /\ recov' \in Table
          /\ \A j \in 1..Slots : \/ recov'[j] = recov[j]
                                 \/ recov[j] # NoRow /\ recov'[j] = [recov[j] EXCEPT !.old = TRUE]
      BY <1>5, <2>2, <3>1
    <3>3. Bounded(recov', Standing(Recovering), Who, MaxRecovery)
      BY <1>4, <3>2, Sizes, StaysBounded DEF Standing
    <3>4. Bounded(recov', Standing(Recovering)', Who', MaxRecovery)
      BY <1>3, <3>3
    <3>5. Bounded(logins', Standing(LoggingIn)', Who', MaxLogin)
      BY <1>3, <1>4, <2>2
    <3> QED  BY <3>4, <3>5, BoundedNext DEF Counting
  <2> QED  BY <2>1, <2>2 DEF WindowPasses
<1> QED  BY <1>2, <1>6 DEF Strong

-----------------------------------------------------------------------------
(* The invariant.                                                          *)

LEMMA StrongInit == Init => Strong
<1> SUFFICES ASSUME Init PROVE Strong
  OBVIOUS
<1>1. /\ users = [u \in Users |-> CASE u = Sysop -> [NewRow(1, 0) EXCEPT !.q = TRUE, !.ans = 1]
                                    [] OTHER -> NoRow]
      /\ logins = [i \in 1..Slots |-> NoRow] /\ recov = [i \in 1..Slots |-> NoRow]
      /\ sess = [s \in Sessions |-> Idle] /\ files = [f \in FileIds |-> NoRow]
      /\ disk = [n \in Names |-> 0] /\ uploads = 0 /\ approved = {} /\ work = 0
  BY DEF Init
<1>2. /\ 0 \in 0..MaxFiles /\ 0 \in 0..MaxWork /\ 0 \in 0..MaxCredits /\ 0 \in Nat
      /\ 1 \in Pws
  BY Sizes DEF Pws
<1> DEFINE sysop == [NewRow(1, 0) EXCEPT !.q = TRUE, !.ans = 1]
<1>3. sysop \in Rows(0)
  <2> DEFINE row == NewRow(1, 0)
  <2>1. row \in Rows(0)
    BY <1>2, NewRows
  <2>2. sysop = [row EXCEPT !.q = TRUE, !.ans = 1]
    OBVIOUS
  <2> HIDE DEF row, sysop
  <2>3. [row EXCEPT !.q = TRUE, !.ans = 1] \in Rows(0)
    BY <1>2, <2>1 DEF Rows
  <2> QED  BY <2>2, <2>3
<1> HIDE DEF sysop
<1>4. users \in [Users -> Rows(uploads) \cup {NoRow}]
  <2>1. users = [u \in Users |-> IF u = Sysop THEN sysop ELSE NoRow]
    BY <1>1 DEF sysop
  <2> QED  BY <1>1, <1>3, <2>1
<1>5. Stored
  BY <1>1, <1>2, <1>4 DEF Stored
<1>6. Callers
  BY <1>1, <1>2, IdleFits DEF Callers
<1>7. Counting
  BY <1>1 DEF Counting, Bounded, Table, Within
<1> QED  BY <1>5, <1>6, <1>7 DEF Strong

LEMMA StrongStep == Strong /\ [Next]_vars => Strong'
<1> SUFFICES ASSUME Strong, [Next]_vars PROVE Strong'
  OBVIOUS
<1>1. ASSUME NEW i \in 1..Slots, WindowPasses(i) PROVE Strong'
  BY <1>1, WindowStep
<1>2. ASSUME NEW n \in Names, Unlinked(n) PROVE Strong'
  BY <1>2, UnlinkedStep
<1>3. ASSUME NEW s \in Sessions, NEW u \in Users, Hello(s, u) \/ EditOpen(s, u) PROVE Strong'
  BY <1>3, HelloStep, EditOpenStep
<1>4. ASSUME NEW s \in Sessions, NEW p \in Pws,
             \/ Password(s, p) \/ Answer(s, p) \/ Reset(s, p)
             \/ Expired(s, p) \/ Register(s, p) \/ SetSecurityQ(s, p)
      PROVE  Strong'
  BY <1>4, PasswordStep, AnswerStep, ResetStep, ExpiredStep, RegisterStep, SetSecurityQStep
<1>5. ASSUME NEW s \in Sessions, NEW p \in Pws, NEW q \in Pws, ChangePassword(s, p, q) PROVE Strong'
  BY <1>5, ChangePasswordStep
<1>6. ASSUME NEW s \in Sessions, NEW u \in Users, NEW p \in Pws, ResetPassword(s, u, p) PROVE Strong'
  BY <1>6, ResetPasswordStep
<1>7. ASSUME NEW s \in Sessions,
             \/ HangUp(s) \/ Recover(s) \/ PickScheme(s) \/ EditWrite(s) \/ SubscribeSelect(s)
             \/ SubscribeDecline(s) \/ BatchMove(s) \/ BatchAdd(s) \/ ValidateOpen(s)
             \/ cmd_file_pack(s)
      PROVE  Strong'
  BY <1>7, HangUpStep, RecoverStep, PickSchemeStep, EditWriteStep, SubscribeSelectStep, SubscribeDeclineStep,
     BatchMoveStep, BatchAddStep, ValidateOpenStep, PackStep
<1>8. ASSUME NEW s \in Sessions, NEW f \in BOOLEAN, NEW c \in 0..MaxCredits, EditField(s, f, c)
      PROVE  Strong'
  BY <1>8, EditFieldStep
<1>9. ASSUME NEW s \in Sessions, NEW ok \in BOOLEAN, SubscribeConfirm(s, ok) \/ DownloadEnd(s, ok)
      PROVE  Strong'
  BY <1>9, SubscribeConfirmStep, DownloadEndStep
<1>10. ASSUME NEW s \in Sessions, NEW i \in FileIds, DownloadStart(s, i) PROVE Strong'
  BY <1>10, DownloadStartStep
<1>11. ASSUME NEW s \in Sessions, NEW n \in Names, UploadStart(s, n) \/ BatchReceive(s, n)
       PROVE  Strong'
  BY <1>11, ReceivingStep
<1>12. ASSUME NEW s \in Sessions, NEW o \in {"ok", "norow", "failed"}, UploadEnd(s, o) PROVE Strong'
  BY <1>12, UploadEndStep
<1>13. ASSUME NEW s \in Sessions, NEW v \in {"approve", "reject", "skip"}, ValidateOne(s, v)
       PROVE  Strong'
  BY <1>13, ValidateOneStep
<1>14. CASE UNCHANGED vars
  <2>1. UNCHANGED <<users, logins, recov, sess, files, disk, uploads, approved, work>>
    BY <1>14 DEF vars
  <2>2. Stored'
    BY <2>1 DEF Strong, Stored
  <2> QED  BY <2>1, <2>2, StillStep
<1> QED  BY <1>1, <1>2, <1>3, <1>4, <1>5, <1>6, <1>7, <1>8, <1>9, <1>10, <1>11, <1>12, <1>13,
            <1>14 DEF Next

LEMMA StrongMeans == Strong => AccountsInv
<1> SUFFICES ASSUME Strong PROVE AccountsInv
  OBVIOUS
<1>1. Stored /\ Callers /\ Counting
  BY DEF Strong
<1>2. /\ uploads \in Nat /\ MaxFiles \in Nat /\ uploads <= MaxFiles
      /\ Rows(uploads) \subseteq Rows(MaxFiles) /\ Rows(MaxFiles) = Row
      /\ Sess(uploads) \subseteq Sess(MaxFiles)
  <2>1. uploads \in Nat /\ MaxFiles \in Nat /\ uploads <= MaxFiles
    BY <1>1, Sizes DEF Stored
  <2> QED  BY <2>1, RowsGrow DEF Rows, Row
<1>3. TypeOK
  <2>1. users \in [Users -> Row \cup {NoRow}]
    BY <1>1, <1>2 DEF Stored
  <2>2. logins \in [1..Slots -> Entry \cup {NoRow}] /\ recov \in [1..Slots -> Entry \cup {NoRow}]
    BY <1>1 DEF Counting, Bounded, Table
  <2>3. ASSUME NEW s \in Sessions
        PROVE  /\ sess[s].pc \in Pcs /\ sess[s].who \in Users /\ sess[s].tgt \in Users
               /\ sess[s].usr \in Row \cup {NoRow} /\ sess[s].buf \in Row \cup {NoRow}
               /\ sess[s].cred \in 0..MaxCredits /\ sess[s].fps \in 0..MaxFiles
               /\ sess[s].id \in 0..MaxFiles /\ sess[s].name \in Names \cup {""}
               /\ Len(sess[s].list) <= MaxFiles
               /\ \A i \in 1..Len(sess[s].list) : sess[s].list[i] \in FileIds
    <3>1. sess[s] \in Sess(MaxFiles) /\ Fits(sess[s], uploads)
      BY <1>1, <1>2, InRow
    <3>2. sess[s].list \in Seq(FileIds) /\ Len(sess[s].list) <= MaxFiles
      BY <3>1 DEF Sess, Fits
    <3>3. \A i \in 1..Len(sess[s].list) : sess[s].list[i] \in FileIds
      BY <3>2, ElementOfSeq
    <3> QED  BY <1>2, <3>1, <3>2, <3>3 DEF Sess
  <2> QED  BY <1>1, <2>1, <2>2, <2>3 DEF TypeOK, Stored
<1>4. CopiesAgree
  BY <1>1 DEF CopiesAgree, LoggedIn, Callers, Fits, AtPrompt
<1>5. ThrottleBound
  BY <1>1, Sizes DEF Counting, Bounded, Within, Limit, ThrottleBound
<1> QED  BY <1>3, <1>4, <1>5 DEF AccountsInv

(* The prompts and transfers of session.c and file_cmds.c and the throttle *)
(* of auth_throttle: however the sessions interleave, a session's counters *)
(* are those of its copy of the row, nobody buys or downloads on credits   *)
(* that are gone, and an entry of either throttle table exceeds its limit  *)
(* by at most the other callers who had passed the check before.           *)
THEOREM AccountsCorrect == Spec => []AccountsInv
<1>1. Init => Strong
  BY StrongInit
<1>2. Strong /\ [Next]_vars => Strong'
  BY StrongStep
<1>3. Strong => AccountsInv
  BY StrongMeans
<1> QED  BY <1>1, <1>2, <1>3, PTL DEF Spec

=============================================================================
