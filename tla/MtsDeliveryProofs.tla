------------------------- MODULE MtsDeliveryProofs --------------------------
(***************************************************************************)
(* Proofs about MtsDelivery, for any callers, consoles, rooms, sizes of    *)
(* inboxes and numbers of commands.                                        *)
(*                                                                         *)
(* Typed: the variables have their types and the sets that are counted are *)
(* finite.  Locked: a thread in mts_publish holds publish_mu, and its      *)
(* event bears the last number given out.  Boxed: whatever waits in an     *)
(* inbox is older than the events still to be delivered to it; this is     *)
(* what publish_mu is for, and the order of inboxes and the blocks follow. *)
(* Living: who cleans up an instance, and how far it has come, is told by  *)
(* the instance's lifecycle.  Held: an instance that is listed and no      *)
(* longer entered has somebody to take it off the list, and its own thread *)
(* frees it only after cleanup_instance.                                   *)
(***************************************************************************)
EXTENDS MtsDelivery, SequenceTheorems, FiniteSetTheorems, TLAPS

Publication == [from : Sessions \cup {NoThread}, event : Event, todo : SUBSET Sessions,
                failed : BOOLEAN, auto : SUBSET Sessions]

CallersOK ==
    /\ pc \in [Sessions -> {"none", "run", "exit", "gone"}]
    /\ life \in [Sessions -> {"created", "entered", "exiting", "exited", "destroyed"}]
    /\ sessions \subseteq Sessions /\ Cardinality(sessions) <= MaxUsers /\ IsFiniteSet(sessions)
    /\ room \in [Sessions -> Rooms \cup {NoRoom}]
    /\ watch \in [Sessions -> Rooms \cup {NoRoom}]
    /\ watchall \in [Sessions -> BOOLEAN]
    /\ afk \in [Sessions -> BOOLEAN]
RepliedOK == replied \in [Sessions -> SUBSET Users]
MailOK ==
    /\ inbox \in [Sessions -> Seq(Event)] /\ \A s \in Sessions : Len(inbox[s]) <= Capacity
    /\ skipped \in [Sessions -> Nat] /\ last \in [Sessions -> Nat] /\ owed \in [Sessions -> Nat]
RowsOK == next \in Nat \ {0} /\ rel \in [Tables -> [Users \X Users -> Nat]]
PubOK ==
    /\ mu \in Threads \cup {NoThread} /\ pub \in [Threads -> Publication]
    /\ \A t \in Threads : IsFiniteSet(pub[t].auto)
ScriptOK == script \in [Threads -> Seq(Call)] /\ commands \in 0 .. MaxCommands
Typed == CallersOK /\ RepliedOK /\ MailOK /\ RowsOK /\ PubOK /\ ScriptOK

Locked ==
    \A t \in Threads : pub[t] # Outside =>
        /\ pub[t].from \in Sessions /\ mu = t
        /\ pub[t].event.seq + 1 = next /\ pub[t].event.by = User[pub[t].from]

Boxed ==
    /\ \A s \in Sessions : last[s] < next /\ \A i \in 1 .. Len(inbox[s]) : inbox[s][i].seq < next
    /\ \A t \in Threads : \A s \in pub[t].todo : \A i \in 1 .. Len(inbox[s]) :
           inbox[s][i].seq < pub[t].event.seq
    /\ \A b \in Tables, p \in Users \X Users : rel[b][p] <= next
    /\ InboxOrdered /\ BlockHonoured

\* The i-th thing that t has still to do is op for instance s.
Has(t, i, op, s) == i \in 1 .. Len(script[t]) /\ script[t][i].op = op /\ script[t][i].of = s

\* A clean-up has begun.
Ending == {"exiting", "exited", "destroyed"}

Living ==
    /\ \A s \in Sessions : /\ life[s] = "entered" => s \in sessions
                           /\ s \in sessions => life[s] \in {"entered", "exiting", "destroyed"}
                           /\ pc[s] = "none" => life[s] = "created"
    /\ \A t \in Threads, s \in Sessions, i \in Nat :
          /\ Has(t, i, "announced", s) \/ Has(t, i, "silent", s) => pc[s] # "none"
          /\ Has(t, i, "remove", s) => Has(t, i + 1, "exited", s)
          /\ Has(t, i, "exited", s) =>
                /\ life[s] \in Ending
                /\ s \in sessions => \E j \in Nat : j + 1 = i /\ Has(t, j, "remove", s)
    /\ \A t1, t2 \in Threads, s \in Sessions, i, j \in Nat :
          Has(t1, i, "exited", s) /\ Has(t2, j, "exited", s) => t1 = t2 /\ i = j

Held ==
    /\ \A s \in sessions : life[s] # "entered" => \E t \in Threads, i \in Nat : Has(t, i, "exited", s)
    /\ \A t \in Threads, s \in Sessions, i \in Nat :
          Has(t, i, "destroy", s) =>
              /\ t = s
              /\ life[s] \in Ending \/ \E j \in Nat : j + 1 = i /\ Has(t, j, "announced", s)
    /\ \A t \in Threads, r, s \in Sessions, i, j \in Nat, op \in {"announced", "silent", "exited"} :
          ~(Has(t, i, "join", r) /\ Has(t, j, op, s))

Strong == Typed /\ Locked /\ Boxed /\ Accounted /\ Living /\ Held

-----------------------------------------------------------------------------
(* What does not change.                                                    *)

LEMMA Rigid == /\ Threads' = Threads /\ Event' = Event /\ Call' = Call /\ Publication' = Publication
               /\ Outside' = Outside /\ Tables' = Tables /\ Personal' = Personal
BY DEF Threads, Event, Call, Publication, Outside, Tables, Personal, Kinds, Ops

LEMMA TypedKept ==
    /\ CallersOK /\ UNCHANGED callers => CallersOK'
    /\ RepliedOK /\ UNCHANGED replied => RepliedOK'
    /\ MailOK /\ UNCHANGED mail => MailOK'
    /\ RowsOK /\ UNCHANGED <<next, rel>> => RowsOK'
    /\ PubOK /\ UNCHANGED publishing => PubOK'
    /\ ScriptOK /\ UNCHANGED <<script, commands>> => ScriptOK'
BY Rigid DEF CallersOK, RepliedOK, MailOK, RowsOK, PubOK, ScriptOK, callers, mail, publishing

LEMMA LockedKept == Locked /\ UNCHANGED <<publishing, next>> => Locked'
BY Rigid DEF Locked, publishing

LEMMA BoxedKept == Boxed /\ UNCHANGED <<publishing, next, mail, rel>> => Boxed'
BY Rigid DEF Boxed, publishing, mail, InboxOrdered, BlockHonoured

LEMMA AccountedKept == Accounted /\ UNCHANGED <<mail, pc>> => Accounted'
BY DEF Accounted, mail

LEMMA LivingKept == Living /\ UNCHANGED <<script, life, sessions, pc>> => Living'
BY Rigid DEF Living, Has

LEMMA HeldKept == Held /\ UNCHANGED <<script, life, sessions>> => Held'
BY Rigid DEF Held, Has

-----------------------------------------------------------------------------
(* Scripts.                                                                 *)

\* Calls are calls.
LEMMA Calls ==
    ASSUME NEW s \in Sessions
    PROVE  /\ \A k \in Kinds, r \in Rooms \cup {NoRoom}, u \in Users \cup {NoUser} :
                 /\ Publish(s, k, r, u) \in Call /\ Publish(s, k, r, u).op = "publish"
           /\ \A o \in Ops, r \in Rooms \cup {NoRoom} :
                 Step(o, s, r) \in Call /\ Step(o, s, r).op = o /\ Step(o, s, r).of = s
           /\ \A k \in Kinds : Speak(s, k) \in Call /\ Speak(s, k).op = "here"
           /\ Clear(s) \in Call /\ Clear(s).op = "clear"
<1>1. ASSUME NEW k \in Kinds, NEW r \in Rooms \cup {NoRoom}, NEW u \in Users \cup {NoUser}
      PROVE  Publish(s, k, r, u) \in Call /\ Publish(s, k, r, u).op = "publish"
    BY <1>1 DEF Publish, Call, Ops
<1>2. ASSUME NEW o \in Ops, NEW r \in Rooms \cup {NoRoom}
      PROVE  Step(o, s, r) \in Call /\ Step(o, s, r).op = o /\ Step(o, s, r).of = s
    BY <1>2 DEF Step, Call, Kinds
<1>3. ASSUME NEW k \in Kinds
      PROVE  Speak(s, k) \in Call /\ Speak(s, k).op = "here"
    BY <1>3 DEF Speak, Step, Call, Ops
<1>4. Clear(s) \in Call /\ Clear(s).op = "clear"
    BY DEF Clear, Step, Call, Ops, Kinds
<1> QED
    BY <1>1, <1>2, <1>3, <1>4

\* The words a call is made of.
LEMMA Words ==
    /\ {"room", "action", "presence", "private", "auto", "all", "notice"} \subseteq Kinds
    /\ {"announced", "silent", "remove", "exited", "destroy", "join", "epoch"} \subseteq Ops
    /\ NoRoom \in Rooms \cup {NoRoom} /\ NoUser \in Users \cup {NoUser}
BY DEF Kinds, Ops

\* Short scripts.
LEMMA Tuples ==
    ASSUME NEW a \in Call, NEW b \in Call
    PROVE  /\ <<a>> \in Seq(Call) /\ Len(<<a>>) = 1 /\ <<a>>[1] = a
           /\ <<a, b>> \in Seq(Call) /\ Len(<<a, b>>) = 2 /\ <<a, b>>[1] = a /\ <<a, b>>[2] = b
           /\ << >> \in Seq(Call) /\ Len(<< >>) = 0
OBVIOUS

\* A thread that has something to do.
LEMMA Begun ==
    ASSUME ScriptOK, NEW t \in Threads, script[t] # << >>
    PROVE  /\ Head(script[t]) \in Call /\ Head(script[t]) = script[t][1]
           /\ Tail(script[t]) \in Seq(Call) /\ Len(Tail(script[t])) + 1 = Len(script[t])
           /\ \A i \in 1 .. Len(Tail(script[t])) : Tail(script[t])[i] = script[t][i + 1]
           /\ Len(script[t]) \in Nat \ {0}
<1>1. script[t] \in Seq(Call)
    BY DEF ScriptOK
<1>2. Len(script[t]) \in Nat \ {0}
    BY <1>1, EmptySeq
<1>3. /\ Head(script[t]) \in Call /\ Tail(script[t]) \in Seq(Call)
      /\ Len(Tail(script[t])) = Len(script[t]) - 1
      /\ \A i \in 1 .. Len(Tail(script[t])) : Tail(script[t])[i] = script[t][i + 1]
    BY <1>1, HeadTailProperties
<1>4. Head(script[t]) = script[t][1]
    BY <1>1, <1>2
<1> QED
    BY <1>2, <1>3, <1>4

\* P comes before Q, and Q is what is left of the script after its first d
\* entries, or nothing.
Prefixed(t, P, Q, d) ==
    /\ P \in Seq(Call) /\ Q \in Seq(Call) /\ d \in {0, 1}
    /\ script' = [script EXCEPT ![t] = P \o Q]
    /\ Q = << >> \/ Len(Q) + d = Len(script[t])
    /\ \A i \in 1 .. Len(Q) : Q[i] = script[t][i + d]

\* What t has then to do.
LEMMA HasThen ==
    ASSUME ScriptOK, NEW t \in Threads, NEW P, NEW Q, NEW d, Prefixed(t, P, Q, d)
    PROVE  /\ script'[t] \in Seq(Call) /\ \A x \in Threads \ {t} : script'[x] = script[x]
           /\ \A op, s : \A i \in Nat :
                Has(t, i, op, s)' <=>
                  \/ i \in 1 .. Len(P) /\ P[i].op = op /\ P[i].of = s
                  \/ /\ i > Len(P) /\ i - Len(P) <= Len(Q)
                     /\ Has(t, i - Len(P) + d, op, s)
<1>1. P \in Seq(Call) /\ Q \in Seq(Call) /\ d \in {0, 1} /\ Len(P) \in Nat /\ Len(Q) \in Nat
      /\ Len(script[t]) \in Nat
    BY LenProperties DEF Prefixed, ScriptOK
<1>2. script'[t] = P \o Q /\ \A x \in Threads \ {t} : script'[x] = script[x]
    BY DEF Prefixed, ScriptOK
<1>3. /\ P \o Q \in Seq(Call) /\ Len(P \o Q) = Len(P) + Len(Q)
      /\ \A i \in 1 .. Len(P) + Len(Q) : (P \o Q)[i] = IF i <= Len(P) THEN P[i] ELSE Q[i - Len(P)]
    BY <1>1, ConcatProperties
<1>4. ASSUME NEW op, NEW s, NEW i \in Nat
      PROVE  Has(t, i, op, s)' <=>
               \/ i \in 1 .. Len(P) /\ P[i].op = op /\ P[i].of = s
               \/ /\ i > Len(P) /\ i - Len(P) <= Len(Q)
                  /\ Has(t, i - Len(P) + d, op, s)
  <2>1. Has(t, i, op, s)' <=> i \in 1 .. Len(P) + Len(Q) /\ (P \o Q)[i].op = op /\ (P \o Q)[i].of = s
      BY <1>2, <1>3 DEF Has
  <2>2. CASE i <= Len(P)
      BY <1>1, <1>3, <2>1, <2>2
  <2>3. CASE i > Len(P) /\ i - Len(P) <= Len(Q)
    <3> DEFINE j == i - Len(P)
    <3>1. j \in 1 .. Len(Q) /\ i \in 1 .. Len(P) + Len(Q) /\ ~(i <= Len(P)) /\ Q # << >>
        BY <1>1, <2>3
    <3>2. (P \o Q)[i] = Q[j]
        BY <1>3, <3>1
    <3>3. Q[j] = script[t][j + d] /\ j + d \in 1 .. Len(script[t])
        BY <1>1, <3>1 DEF Prefixed
    <3> QED
        BY <2>1, <2>3, <3>1, <3>2, <3>3 DEF Has
  <2>4. CASE i - Len(P) > Len(Q)
      BY <1>1, <2>1, <2>4
  <2> QED
      BY <1>1, <2>2, <2>3, <2>4
<1> QED
    BY <1>2, <1>3, <1>4

\* Entries that are no part of a clean-up, or begin one for an instance that
\* has been entered.
Plain(P) == \A i \in 1 .. Len(P) : /\ P[i].op \notin {"remove", "exited"}
                                   /\ P[i].op \in {"announced", "silent"} => pc'[P[i].of] # "none"

\* A lifecycle agrees with the list and with the thread.
Alive(s) ==
    /\ life[s] = "entered" => s \in sessions
    /\ s \in sessions => life[s] \in {"entered", "exiting", "destroyed"}
    /\ pc[s] = "none" => life[s] = "created"

\* A handler goes on, begins or ends; clean-ups that stay under way are still
\* of instances that are exiting.
LEMMA LivingThen ==
    ASSUME Typed, Living, NEW t \in Threads, NEW P, NEW Q, NEW d, Prefixed(t, P, Q, d), Plain(P),
           Q # << >> /\ d = 1 /\ script[t][1].op = "remove" => script[t][1].of \notin sessions',
           \A s \in Sessions : Alive(s)',
           \A s \in Sessions : pc'[s] = "none" => pc[s] = "none",
           \A x \in Threads, s \in Sessions, i \in Nat :
               Has(x, i, "exited", s) /\ ~(x = t /\ i <= d) =>
                   life'[s] \in Ending /\ (s \in sessions' => s \in sessions)
    PROVE  Living'
<1>0. ScriptOK /\ Threads' = Threads
    BY Rigid DEF Typed
<1>1. /\ \A x \in Threads \ {t} : script'[x] = script[x]
      /\ \A op, s : \A i \in Nat :
           Has(t, i, op, s)' <=>
             \/ i \in 1 .. Len(P) /\ P[i].op = op /\ P[i].of = s
             \/ /\ i > Len(P) /\ i - Len(P) <= Len(Q)
                /\ Has(t, i - Len(P) + d, op, s)
    BY <1>0, HasThen
<1>2. d \in {0, 1} /\ Len(P) \in Nat /\ Len(Q) \in Nat /\ Len(script[t]) \in Nat
      /\ (Q = << >> \/ Len(Q) + d = Len(script[t])) /\ (Len(Q) > 0 => Q # << >>)
    BY <1>0, LenProperties DEF Prefixed, ScriptOK
<1>3. \A x \in Threads \ {t} : \A i, op, s : Has(x, i, op, s)' <=> Has(x, i, op, s)
    BY <1>1 DEF Has
<1>4. \A s \in Sessions, i \in Nat, op \in {"remove", "exited"} :
         Has(t, i, op, s)' <=>
             /\ i > Len(P) /\ i - Len(P) <= Len(Q)
             /\ Has(t, i - Len(P) + d, op, s)
  <2> SUFFICES ASSUME NEW s \in Sessions, NEW i \in Nat, NEW op \in {"remove", "exited"}
               PROVE  ~(i \in 1 .. Len(P) /\ P[i].op = op /\ P[i].of = s)
      BY <1>1
  <2> QED
      BY DEF Plain
<1>5. \A s \in Sessions, i \in Nat :
         i > Len(P) /\ i - Len(P) <= Len(Q) => i - Len(P) + d \in Nat
    BY <1>2
<1>6. \A s \in Sessions : /\ life'[s] = "entered" => s \in sessions'
                          /\ s \in sessions' => life'[s] \in {"entered", "exiting", "destroyed"}
                          /\ pc'[s] = "none" => life'[s] = "created"
    BY DEF Alive
<1>7. \A x \in Threads, s \in Sessions, i \in Nat :
         Has(x, i, "announced", s)' \/ Has(x, i, "silent", s)' => pc'[s] # "none"
  <2> SUFFICES ASSUME NEW x \in Threads, NEW s \in Sessions, NEW i \in Nat,
                      Has(x, i, "announced", s)' \/ Has(x, i, "silent", s)'
               PROVE  pc'[s] # "none"
      OBVIOUS
  <2>1. CASE x # t
      BY <1>3, <2>1 DEF Living
  <2>2. CASE x = t
    <3>1. CASE i \in 1 .. Len(P) /\ P[i].op \in {"announced", "silent"} /\ P[i].of = s
        BY <3>1 DEF Plain
    <3>2. CASE /\ i - Len(P) + d \in Nat
               /\ Has(t, i - Len(P) + d, "announced", s) \/ Has(t, i - Len(P) + d, "silent", s)
        BY <3>2 DEF Living
    <3> QED
        BY <1>1, <1>5, <2>2, <3>1, <3>2
  <2> QED
      BY <2>1, <2>2
<1>8. \A x \in Threads, s \in Sessions, i \in Nat : Has(x, i, "remove", s)' => Has(x, i + 1, "exited", s)'
  <2> SUFFICES ASSUME NEW x \in Threads, NEW s \in Sessions, NEW i \in Nat, Has(x, i, "remove", s)'
               PROVE  Has(x, i + 1, "exited", s)'
      OBVIOUS
  <2>1. CASE x # t
      BY <1>3, <2>1 DEF Living
  <2>2. CASE x = t
    <3>1. i > Len(P) /\ i - Len(P) <= Len(Q) /\ Has(t, i - Len(P) + d, "remove", s)
        BY <1>4, <2>2
    <3>2. Has(t, i - Len(P) + d + 1, "exited", s)
        BY <1>5, <3>1 DEF Living
    <3>3. (i + 1) - Len(P) + d = i - Len(P) + d + 1 /\ i + 1 \in Nat /\ i + 1 > Len(P)
        BY <1>2, <3>1
    <3>4. (i + 1) - Len(P) <= Len(Q)
        BY <1>2, <3>1, <3>2, <3>3 DEF Has
    <3> QED
        BY <1>4, <2>2, <3>2, <3>3, <3>4
  <2> QED
      BY <2>1, <2>2
<1>9. \A x \in Threads, s \in Sessions, i \in Nat :
         Has(x, i, "exited", s)' =>
            /\ life'[s] \in Ending
            /\ s \in sessions' => \E j \in Nat : j + 1 = i /\ Has(x, j, "remove", s)'
  <2> SUFFICES ASSUME NEW x \in Threads, NEW s \in Sessions, NEW i \in Nat, Has(x, i, "exited", s)'
               PROVE  /\ life'[s] \in Ending
                      /\ s \in sessions' => \E j \in Nat : j + 1 = i /\ Has(x, j, "remove", s)'
      OBVIOUS
  <2>1. CASE x # t
    <3>1. Has(x, i, "exited", s)
        BY <1>3, <2>1
    <3>2. life'[s] \in Ending /\ (s \in sessions' => s \in sessions)
        BY <2>1, <3>1
    <3>3. s \in sessions => \E j \in Nat : j + 1 = i /\ Has(x, j, "remove", s)
        BY <3>1 DEF Living
    <3> QED
        BY <1>3, <2>1, <3>2, <3>3
  <2>2. CASE x = t
    <3>1. i > Len(P) /\ i - Len(P) <= Len(Q) /\ Has(t, i - Len(P) + d, "exited", s)
        BY <1>4, <2>2
    <3>0. ~(i - Len(P) + d <= d)
        BY <1>2, <3>1
    <3>2. /\ life'[s] \in Ending /\ (s \in sessions' => s \in sessions)
          /\ s \in sessions => \E j \in Nat : j + 1 = i - Len(P) + d /\ Has(t, j, "remove", s)
        BY <1>5, <3>0, <3>1 DEF Living
    <3>3. ASSUME s \in sessions' PROVE \E j \in Nat : j + 1 = i /\ Has(t, j, "remove", s)'
      <4>1. PICK j \in Nat : j + 1 = i - Len(P) + d /\ Has(t, j, "remove", s)
          BY <3>2, <3>3
      <4>2. j >= 1 /\ script[t][j].op = "remove" /\ script[t][j].of = s /\ i \in Nat /\ Len(P) \in Nat
          BY <1>2, <4>1 DEF Has
      <4>3. ~(d = 1 /\ j = 1)
        <5>1. Q # << >>
            BY <1>2, <3>1
        <5> QED
            BY <3>3, <4>2, <5>1
      <4>4. j - d \in Nat /\ j - d >= 1
          BY <1>2, <4>2, <4>3
      <4> DEFINE k == Len(P) + (j - d)
      <4>5. k \in Nat /\ k + 1 = i /\ k > Len(P) /\ k - Len(P) <= Len(Q) /\ k - Len(P) + d = j
          BY <1>2, <3>1, <4>1, <4>4
      <4> HIDE DEF k
      <4>6. Has(t, k, "remove", s)'
          BY <1>4, <4>1, <4>5
      <4> QED
          BY <4>5, <4>6
    <3> QED
        BY <2>2, <3>2, <3>3
  <2> QED
      BY <2>1, <2>2
<1>a. \A t1, t2 \in Threads, s \in Sessions, i, j \in Nat :
         Has(t1, i, "exited", s)' /\ Has(t2, j, "exited", s)' => t1 = t2 /\ i = j
  <2> SUFFICES ASSUME NEW t1 \in Threads, NEW t2 \in Threads, NEW s \in Sessions, NEW i \in Nat, NEW j \in Nat,
                      Has(t1, i, "exited", s)', Has(t2, j, "exited", s)'
               PROVE  t1 = t2 /\ i = j
      OBVIOUS
  <2> DEFINE At(x, n) == IF x = t THEN n - Len(P) + d ELSE n
  <2>1. At(t1, i) \in Nat /\ Has(t1, At(t1, i), "exited", s)
      BY <1>3, <1>4, <1>5
  <2>2. At(t2, j) \in Nat /\ Has(t2, At(t2, j), "exited", s)
      BY <1>3, <1>4, <1>5
  <2>3. t1 = t2 /\ At(t1, i) = At(t2, j)
      BY <2>1, <2>2 DEF Living
  <2> QED
      BY <1>2, <2>3
<1> QED
    BY <1>0, <1>6, <1>7, <1>8, <1>9, <1>a DEF Living

\* A handler that is no clean-up goes on, begins or ends.
LEMMA LivingOn ==
    ASSUME Typed, Living, NEW t \in Threads, NEW P, NEW Q, NEW d, Prefixed(t, P, Q, d), Plain(P),
           Q # << >> /\ d = 1 => script[t][1].op # "remove",
           UNCHANGED <<life, sessions>>,
           \A s \in Sessions : pc'[s] = "none" => pc[s] = "none"
    PROVE  Living'
<1>1. \A s \in Sessions : Alive(s)'
    BY DEF Living, Alive
<1>2. \A x \in Threads, s \in Sessions, i \in Nat :
         Has(x, i, "exited", s) => life'[s] \in Ending /\ (s \in sessions' => s \in sessions)
    BY DEF Living
<1> QED
    BY <1>1, <1>2, LivingThen

\* The entries of P begin a handler of t, which moves an instance or cleans
\* one up but never both, and destroys only what it has cleaned up.
Whole(t, P) ==
    /\ \A i, j \in 1 .. Len(P) : P[i].op = "join" => P[j].op \notin {"announced", "silent", "exited"}
    /\ \A i \in 1 .. Len(P) : P[i].op = "destroy" =>
           /\ P[i].of = t
           /\ \E j \in 1 .. Len(P) : j + 1 = i /\ P[j].op = "announced" /\ P[j].of = t

\* Or they go on with one: only a clean-up leads to entries of a clean-up.
Further(t, P) ==
    \A i \in 1 .. Len(P) :
        /\ P[i].op \notin {"join", "destroy"}
        /\ P[i].op \in {"announced", "silent", "exited"} => script[t][1].op \in {"announced", "silent"}

Adds(t, P) == (script[t] = << >> /\ Whole(t, P)) \/ (script[t] # << >> /\ Further(t, P))

\* No clean-up of t is broken off.
Keeps(t, Q, d) == Len(Q) + d = Len(script[t]) \/ \A i \in Nat, s \in Sessions : ~Has(t, i, "exited", s)

\* A handler goes on, begins or ends.
LEMMA HeldThen ==
    ASSUME Typed, Held, NEW t \in Threads, NEW P, NEW Q, NEW d, Prefixed(t, P, Q, d), Adds(t, P), Keeps(t, Q, d),
           d = 1 => script[t] # << >> /\ script[t][1].of \in Sessions,
           d = 1 /\ script[t][1].op = "announced" => life'[script[t][1].of] \in Ending,
           \A s \in Sessions : life[s] \in Ending => life'[s] \in Ending,
           sessions' \subseteq Sessions,
           \A s \in sessions' : life'[s] # "entered" =>
               \/ \E i \in 1 .. Len(P) : P[i].op = "exited" /\ P[i].of = s
               \/ /\ s \in sessions /\ life[s] # "entered"
                  /\ ~(d = 1 /\ script[t][1].op = "exited" /\ script[t][1].of = s)
    PROVE  Held'
<1>0. ScriptOK /\ Threads' = Threads
    BY Rigid DEF Typed
<1>1. /\ \A x \in Threads \ {t} : script'[x] = script[x]
      /\ \A op, s : \A i \in Nat :
           Has(t, i, op, s)' <=>
             \/ i \in 1 .. Len(P) /\ P[i].op = op /\ P[i].of = s
             \/ /\ i > Len(P) /\ i - Len(P) <= Len(Q)
                /\ Has(t, i - Len(P) + d, op, s)
    BY <1>0, HasThen
<1>2. /\ d \in {0, 1} /\ Len(P) \in Nat /\ Len(Q) \in Nat /\ Len(script[t]) \in Nat
      /\ 1 .. Len(P) \subseteq Nat
      /\ (Q = << >> \/ Len(Q) + d = Len(script[t])) /\ (Len(Q) > 0 => Q # << >>)
      /\ script[t] = << >> => Len(script[t]) = 0
    BY <1>0, LenProperties, EmptySeq DEF Prefixed, ScriptOK
<1>3. \A x \in Threads \ {t} : \A i, op, s : Has(x, i, op, s)' <=> Has(x, i, op, s)
    BY <1>1 DEF Has
<1>4. ASSUME NEW i \in Nat, i > Len(P), i - Len(P) <= Len(Q)
      PROVE  i - Len(P) + d \in Nat /\ script[t] # << >>
    BY <1>2, <1>4
\* An entry that stays is found again.
<1>5. ASSUME NEW k \in Nat, NEW op, NEW s \in Sessions, Has(t, k, op, s), k > d, Len(Q) + d = Len(script[t])
      PROVE  Len(P) + (k - d) \in Nat /\ Has(t, Len(P) + (k - d), op, s)'
  <2> DEFINE i == Len(P) + (k - d)
  <2>1. i \in Nat /\ i > Len(P) /\ i - Len(P) <= Len(Q) /\ i - Len(P) + d = k
      BY <1>2, <1>5 DEF Has
  <2> HIDE DEF i
  <2>2. Has(t, i, op, s)'
      BY <1>1, <1>5, <2>1
  <2> QED
      BY <2>1, <2>2 DEF i
<1>6. ASSUME NEW s \in sessions', life'[s] # "entered"
      PROVE  \E x \in Threads, i \in Nat : Has(x, i, "exited", s)'
  <2>0. s \in Sessions
      BY <1>6
  <2>1. CASE \E i \in 1 .. Len(P) : P[i].op = "exited" /\ P[i].of = s
      BY <1>1, <1>2, <2>1
  <2>2. CASE /\ s \in sessions /\ life[s] # "entered"
             /\ ~(d = 1 /\ script[t][1].op = "exited" /\ script[t][1].of = s)
    <3>1. PICK x \in Threads, k \in Nat : Has(x, k, "exited", s)
        BY <2>2 DEF Held
    <3>2. CASE x # t
        BY <1>3, <3>1, <3>2
    <3>3. CASE x = t
      <4>1. k >= 1 /\ script[t][k].op = "exited" /\ script[t][k].of = s
          BY <1>2, <3>1, <3>3 DEF Has
      <4>2. k > d
          BY <1>2, <2>2, <4>1
      <4>3. Len(Q) + d = Len(script[t])
          BY <2>0, <3>1, <3>3 DEF Keeps
      <4> QED
          BY <1>5, <2>0, <3>1, <3>3, <4>2, <4>3
    <3> QED
        BY <3>2, <3>3
  <2> QED
      BY <1>6, <2>1, <2>2
<1>7. ASSUME NEW x \in Threads, NEW s \in Sessions, NEW i \in Nat, Has(x, i, "destroy", s)'
      PROVE  /\ x = s
             /\ life'[s] \in Ending \/ \E j \in Nat : j + 1 = i /\ Has(x, j, "announced", s)'
  <2>1. CASE x # t
    <3>1. Has(x, i, "destroy", s)
        BY <1>3, <1>7, <2>1
    <3>2. /\ x = s
          /\ life[s] \in Ending \/ \E j \in Nat : j + 1 = i /\ Has(x, j, "announced", s)
        BY <3>1 DEF Held
    <3> QED
        BY <1>3, <2>1, <3>2
  <2>2. CASE x = t /\ i \in 1 .. Len(P) /\ P[i].op = "destroy" /\ P[i].of = s
    <3>1. Whole(t, P)
        BY <2>2 DEF Adds, Further
    <3>2. PICK j \in 1 .. Len(P) : j + 1 = i /\ P[j].op = "announced" /\ P[j].of = t
        BY <2>2, <3>1 DEF Whole
    <3>3. s = t
        BY <2>2, <3>1 DEF Whole
    <3>4. j \in Nat /\ Has(t, j, "announced", s)'
        BY <1>1, <1>2, <3>2, <3>3
    <3> QED
        BY <2>2, <3>2, <3>3, <3>4
  <2>3. CASE x = t /\ i > Len(P) /\ i - Len(P) <= Len(Q) /\ Has(t, i - Len(P) + d, "destroy", s)
    <3> DEFINE k == i - Len(P) + d
    <3>1. k \in Nat /\ Len(Q) + d = Len(script[t])
        BY <1>2, <1>4, <2>3
    <3>2. /\ t = s
          /\ life[s] \in Ending \/ \E j \in Nat : j + 1 = k /\ Has(t, j, "announced", s)
        BY <2>3, <3>1 DEF Held
    <3>3. ASSUME NEW j \in Nat, j + 1 = k, Has(t, j, "announced", s)
          PROVE  life'[s] \in Ending \/ \E n \in Nat : n + 1 = i /\ Has(t, n, "announced", s)'
      <4>1. j >= 1 /\ script[t][j].op = "announced" /\ script[t][j].of = s
          BY <1>2, <3>3 DEF Has
      <4>2. CASE j > d
        <5>1. Len(P) + (j - d) \in Nat /\ Has(t, Len(P) + (j - d), "announced", s)'
            BY <1>5, <3>1, <3>3, <4>2
        <5>2. Len(P) + (j - d) + 1 = i
            BY <1>2, <3>3
        <5> QED
            BY <5>1, <5>2
      <4>3. CASE j <= d
        <5>1. d = 1 /\ j = 1
            BY <1>2, <4>1, <4>3
        <5> QED
            BY <4>1, <5>1
      <4> QED
          BY <1>2, <4>2, <4>3
    <3> QED
        BY <2>3, <3>2, <3>3
  <2> QED
      BY <1>1, <1>7, <2>1, <2>2, <2>3
<1>8. ASSUME NEW x \in Threads, NEW r \in Sessions, NEW s \in Sessions, NEW i \in Nat, NEW j \in Nat,
             NEW op \in {"announced", "silent", "exited"}, Has(x, i, "join", r)', Has(x, j, op, s)'
      PROVE  FALSE
  <2>1. CASE x # t
      BY <1>3, <1>8, <2>1 DEF Held
  <2>2. CASE x = t /\ script[t] = << >>
    <3>1. i \in 1 .. Len(P) /\ P[i].op = "join" /\ j \in 1 .. Len(P) /\ P[j].op = op
        BY <1>1, <1>4, <1>8, <2>2
    <3> QED
        BY <2>2, <3>1 DEF Adds, Whole
  <2>3. CASE x = t /\ script[t] # << >>
    <3>1. i - Len(P) + d \in Nat /\ Has(t, i - Len(P) + d, "join", r) /\ i - Len(P) <= Len(Q) /\ i > Len(P)
        BY <1>1, <1>4, <1>8, <2>3 DEF Adds, Further
    <3>2. CASE j \in 1 .. Len(P) /\ P[j].op = op
      <4>1. script[t][1].op \in {"announced", "silent"}
          BY <2>3, <3>2 DEF Adds, Further
      <4>2. 1 \in 1 .. Len(script[t]) /\ script[t][1].of \in Sessions
          BY <1>0, <2>3, Begun DEF Call
      <4>3. Has(t, 1, script[t][1].op, script[t][1].of)
          BY <4>2 DEF Has
      <4> QED
          BY <3>1, <4>1, <4>2, <4>3 DEF Held
    <3>3. CASE j > Len(P) /\ j - Len(P) <= Len(Q) /\ Has(t, j - Len(P) + d, op, s)
        BY <1>4, <3>1, <3>3 DEF Held
    <3> QED
        BY <1>1, <1>8, <2>3, <3>2, <3>3
  <2> QED
      BY <2>1, <2>2, <2>3
<1> QED
    BY <1>0, <1>6, <1>7, <1>8 DEF Held

\* A handler goes on, and no lifecycle changes.
LEMMA HeldOn ==
    ASSUME Typed, Held, NEW t \in Threads, NEW P, NEW Q, NEW d, Prefixed(t, P, Q, d), Adds(t, P), Keeps(t, Q, d),
           d = 1 => /\ script[t] # << >> /\ script[t][1].of \in Sessions /\ script[t][1].op # "exited"
                    /\ script[t][1].op = "announced" => life[script[t][1].of] \in Ending,
           UNCHANGED <<life, sessions>>
    PROVE  Held'
<1>1. sessions' \subseteq Sessions
    BY DEF Typed, CallersOK
<1> QED
    BY <1>1, HeldThen

-----------------------------------------------------------------------------
(* Inboxes.                                                                 *)

\* An event put in an inbox comes last, and pushes out the first at most.
LEMMA PutLast ==
    ASSUME NEW box \in Seq(Event), Len(box) <= Capacity, NEW e \in Event
    PROVE  LET b == Put(box, e)
               d == IF Len(box) = Capacity THEN 1 ELSE 0
           IN  /\ b \in Seq(Event) /\ Len(b) <= Capacity /\ Len(b) + d = Len(box) + 1
               /\ Len(b) \in Nat \ {0} /\ b[Len(b)] = e
               /\ \A i \in 1 .. Len(b) - 1 : b[i] = box[i + d] /\ i + d \in 1 .. Len(box)
<1>0. Len(box) \in Nat /\ Capacity \in Nat \ {0}
    BY LimitsAssumption, LenProperties
<1>1. CASE Len(box) = Capacity
  <2> DEFINE q == Tail(box)
  <2>1. box # << >>
      BY <1>0, <1>1, EmptySeq
  <2>2. /\ q \in Seq(Event) /\ Len(q) = Len(box) - 1
        /\ \A i \in 1 .. Len(q) : q[i] = box[i + 1]
      BY <2>1, HeadTailProperties
  <2>3. Put(box, e) = Append(q, e)
      BY <1>1 DEF Put
  <2> HIDE DEF q
  <2>4. /\ Append(q, e) \in Seq(Event) /\ Len(Append(q, e)) = Len(q) + 1 /\ Append(q, e)[Len(q) + 1] = e
        /\ \A i \in 1 .. Len(q) : Append(q, e)[i] = q[i]
      BY <2>2
  <2> QED
      BY <1>0, <1>1, <2>2, <2>3, <2>4
<1>2. CASE Len(box) # Capacity
  <2>1. Put(box, e) = Append(box, e)
      BY <1>2 DEF Put
  <2>2. /\ Append(box, e) \in Seq(Event) /\ Len(Append(box, e)) = Len(box) + 1 /\ Append(box, e)[Len(box) + 1] = e
        /\ \A i \in 1 .. Len(box) : Append(box, e)[i] = box[i]
      OBVIOUS
  <2> QED
      BY <1>0, <1>2, <2>1, <2>2
<1> QED
    BY <1>1, <1>2

\* Everything in an inbox is an event.
LEMMA InboxEvents ==
    ASSUME MailOK, NEW s \in Sessions
    PROVE  /\ inbox[s] \in Seq(Event) /\ Len(inbox[s]) \in Nat
           /\ \A i \in 1 .. Len(inbox[s]) : inbox[s][i] \in Event /\ inbox[s][i].seq \in Nat
<1>1. inbox[s] \in Seq(Event)
    BY DEF MailOK
<1>2. Len(inbox[s]) \in Nat /\ \A i \in 1 .. Len(inbox[s]) : inbox[s][i] \in Event
    BY <1>1, LenProperties, ElementOfSeq
<1> QED
    BY <1>1, <1>2 DEF Event

\* What an inbox holds after enqueue(): what it held, and the event.
LEMMA Enqueued ==
    ASSUME MailOK, RowsOK, InboxOrdered, BlockHonoured, Accounted,
           NEW s \in Sessions, NEW e \in Event, Enqueue(s, e), UNCHANGED <<rel, pc>>,
           last[s] <= e.seq,
           \A i \in 1 .. Len(inbox[s]) : \/ inbox[s][i].seq < e.seq
                                         \/ inbox[s][i].seq = e.seq /\ e.kind = "notice",
           e.by # NoUser /\ e.by # User[s] => rel["blocks"][<<User[s], e.by>>] = 0
    PROVE  /\ MailOK' /\ InboxOrdered' /\ BlockHonoured' /\ Accounted' /\ UNCHANGED last
           /\ \A x \in Sessions \ {s} : inbox'[x] = inbox[x]
           /\ \A i \in 1 .. Len(inbox'[s]) :
                 \/ inbox'[s][i] = e
                 \/ \E j \in 1 .. Len(inbox[s]) : inbox'[s][i] = inbox[s][j]
<1>1. CASE pc[s] = "gone"
  <2>1. UNCHANGED mail
      BY <1>1 DEF Enqueue
  <2>2. MailOK'
      BY <2>1, TypedKept
  <2>3. InboxOrdered' /\ BlockHonoured' /\ Accounted'
      BY <2>1, AccountedKept DEF mail, InboxOrdered, BlockHonoured
  <2> QED
      BY <2>1, <2>2, <2>3 DEF mail
<1>2. CASE pc[s] # "gone"
  <2> DEFINE box == inbox[s]
             b == Put(box, e)
             d == IF Len(box) = Capacity THEN 1 ELSE 0
  <2>1. /\ inbox' = [inbox EXCEPT ![s] = b]
        /\ skipped' = [skipped EXCEPT ![s] = IF Len(box) = Capacity THEN @ + 1 ELSE @]
        /\ owed' = [owed EXCEPT ![s] = @ + 1] /\ UNCHANGED last
      BY <1>2 DEF Enqueue
  <2>2. box \in Seq(Event) /\ Len(box) <= Capacity /\ Len(box) \in Nat
      BY InboxEvents DEF MailOK
  <2>3. /\ b \in Seq(Event) /\ Len(b) <= Capacity /\ Len(b) + d = Len(box) + 1
        /\ Len(b) \in Nat \ {0} /\ b[Len(b)] = e
        /\ \A i \in 1 .. Len(b) - 1 : b[i] = box[i + d] /\ i + d \in 1 .. Len(box)
      BY <2>2, PutLast
  <2>4. d \in {0, 1}
      OBVIOUS
  <2>5. skipped[s] \in Nat /\ owed[s] \in Nat /\ skipped'[s] = skipped[s] + d /\ owed'[s] = owed[s] + 1
        /\ skipped' \in [Sessions -> Nat] /\ owed' \in [Sessions -> Nat]
        /\ \A x \in Sessions \ {s} : skipped'[x] = skipped[x] /\ owed'[x] = owed[x]
      BY <2>1 DEF MailOK
  <2> HIDE DEF b, d
  <2>6. inbox'[s] = b /\ inbox' \in [Sessions -> Seq(Event)] /\ \A x \in Sessions \ {s} : inbox'[x] = inbox[x]
      BY <2>1, <2>3 DEF MailOK
  <2>7. MailOK'
      BY <2>1, <2>3, <2>5, <2>6, Rigid DEF MailOK
  <2>8. Accounted'
    <3>1. \A x \in Sessions \ {s} : pc'[x] # "gone" => owed'[x] = Len(inbox'[x]) + skipped'[x]
        BY <2>5, <2>6 DEF Accounted
    <3>2. owed[s] = Len(box) + skipped[s]
        BY <1>2 DEF Accounted
    <3>3. owed'[s] = Len(inbox'[s]) + skipped'[s]
      <4> DEFINE m == Len(box)
                 n == Len(b)
      <4>1. m \in Nat /\ n \in Nat /\ d \in {0, 1} /\ n + d = m + 1 /\ owed[s] = m + skipped[s]
          BY <2>2, <2>3, <2>4, <3>2
      <4>2. owed'[s] = owed[s] + 1 /\ skipped'[s] = skipped[s] + d /\ skipped[s] \in Nat /\ Len(inbox'[s]) = n
          BY <2>5, <2>6
      <4> HIDE DEF m, n
      <4>3. m + skipped[s] + 1 = n + (skipped[s] + d)
        <5>1. CASE d = 0
          <6>1. n = m + 1 /\ skipped[s] + d = skipped[s]
              BY <4>1, <4>2, <5>1
          <6> QED
              BY <4>1, <4>2, <6>1
        <5>2. CASE d = 1
          <6>1. n = m
              BY <4>1, <5>2
          <6>2. n + (skipped[s] + 1) = n + skipped[s] + 1
              BY <4>1, <4>2
          <6> QED
              BY <4>1, <4>2, <6>1, <5>2
        <5> QED
            BY <4>1, <5>1, <5>2
      <4> QED
          BY <4>1, <4>2, <4>3
    <3> QED
        BY <3>1, <3>3 DEF Accounted
  <2>9. \A i \in 1 .. Len(b) : b[i] = e \/ \E j \in 1 .. Len(box) : b[i] = box[j]
    <3> SUFFICES ASSUME NEW i \in 1 .. Len(b) PROVE b[i] = e \/ \E j \in 1 .. Len(box) : b[i] = box[j]
        OBVIOUS
    <3>1. i = Len(b) \/ i \in 1 .. Len(b) - 1
        BY <2>3
    <3> QED
        BY <2>3, <3>1
  <2>a. BlockHonoured'
    <3>1. ASSUME NEW i \in 1 .. Len(b), b[i].by # NoUser, b[i].by # User[s],
                 rel["blocks"][<<User[s], b[i].by>>] # 0
          PROVE  b[i].seq < rel["blocks"][<<User[s], b[i].by>>]
        BY <2>9, <3>1 DEF BlockHonoured
    <3> QED
        BY <2>6, <3>1 DEF BlockHonoured
  <2>b. InboxOrdered'
    <3>1. ASSUME NEW i \in 1 .. Len(b)
          PROVE  /\ b[i].seq >= last[s]
                 /\ \A j \in 1 .. i - 1 : \/ b[j].seq < b[i].seq
                                          \/ b[j].seq = b[i].seq /\ b[i].kind = "notice"
      <4>0. last[s] \in Nat /\ e.seq \in Nat /\ \A k \in 1 .. Len(box) : box[k].seq \in Nat
          BY InboxEvents DEF MailOK, Event
      <4>1. CASE i = Len(b)
        <5>1. b[i] = e /\ \A j \in 1 .. i - 1 : j \in 1 .. Len(b) - 1
            BY <2>3, <4>1
        <5>2. \A j \in 1 .. i - 1 : b[j].seq < e.seq \/ (b[j].seq = e.seq /\ e.kind = "notice")
            BY <2>3, <5>1
        <5>3. e.seq >= last[s]
            BY <4>0
        <5> QED
            BY <5>1, <5>2, <5>3
      <4>2. CASE i \in 1 .. Len(b) - 1
        <5>1. b[i] = box[i + d] /\ i + d \in 1 .. Len(box) /\ box[i + d].seq >= last[s]
            BY <2>3, <4>2 DEF InboxOrdered
        <5>2. ASSUME NEW j \in 1 .. i - 1
              PROVE  b[j].seq < b[i].seq \/ (b[j].seq = b[i].seq /\ b[i].kind = "notice")
          <6>1. j \in 1 .. Len(b) - 1 /\ j + d \in 1 .. (i + d) - 1
              BY <2>3, <2>4, <4>2
          <6>2. b[j] = box[j + d]
              BY <2>3, <6>1
          <6> QED
              BY <5>1, <6>1, <6>2 DEF InboxOrdered
        <5> QED
            BY <5>1, <5>2
      <4> QED
          BY <2>3, <4>1, <4>2
    <3> QED
        BY <2>1, <2>6, <3>1 DEF InboxOrdered
  <2> QED
      BY <2>1, <2>6, <2>7, <2>8, <2>9, <2>a, <2>b
<1> QED
    BY <1>1, <1>2

-----------------------------------------------------------------------------
(* The steps of mts_publish.                                                *)

\* A call that is due is the first of its thread's script.
LEMMA DueCall ==
    ASSUME Typed, NEW t \in Threads, NEW op, Due(t, op)
    PROVE  LET c == Head(script[t])
           IN  /\ c \in Call /\ c.of \in Sessions /\ c.kind \in Kinds /\ c.room \in Rooms \cup {NoRoom}
               /\ c.to \in Users \cup {NoUser} /\ c.op = op /\ script[t][1] = c
               /\ Has(t, 1, op, c.of) /\ pub[t] = Outside /\ script[t] # << >>
               /\ Tail(script[t]) \in Seq(Call)
<1>1. script[t] # << >> /\ pub[t] = Outside /\ Head(script[t]).op = op
    BY DEF Due
<1>2. /\ Head(script[t]) \in Call /\ Head(script[t]) = script[t][1] /\ Len(script[t]) \in Nat \ {0}
      /\ Tail(script[t]) \in Seq(Call)
    BY <1>1, Begun DEF Typed
<1> QED
    BY <1>1, <1>2 DEF Call, Has

\* The first entry is replaced by P.
LEMMA Replaced ==
    ASSUME Typed, NEW t \in Threads, script[t] # << >>, NEW P \in Seq(Call),
           script' = [script EXCEPT ![t] = P \o Tail(script[t])]
    PROVE  Prefixed(t, P, Tail(script[t]), 1) /\ Keeps(t, Tail(script[t]), 1)
BY Begun DEF Prefixed, Keeps, Typed

\* The first entry is done.
LEMMA DoneFirst ==
    ASSUME Typed, NEW t \in Threads, script[t] # << >>, Done(t)
    PROVE  /\ Prefixed(t, << >>, Tail(script[t]), 1) /\ Plain(<< >>)
           /\ Adds(t, << >>) /\ Keeps(t, Tail(script[t]), 1)
<1>1. Tail(script[t]) \in Seq(Call)
    BY Begun DEF Typed
<1>2. << >> \o Tail(script[t]) = Tail(script[t]) /\ << >> \in Seq(Call)
    BY <1>1, ConcatEmptySeq, EmptySeq
<1>3. script' = [script EXCEPT ![t] = << >> \o Tail(script[t])]
    BY <1>2 DEF Done
<1>4. Prefixed(t, << >>, Tail(script[t]), 1) /\ Keeps(t, Tail(script[t]), 1)
    BY <1>2, <1>3, Replaced
<1>5. Plain(<< >>) /\ Adds(t, << >>)
    BY DEF Plain, Adds, Further
<1> QED
    BY <1>4, <1>5

\* The script stays a list of calls.
LEMMA ScriptThen ==
    ASSUME Typed, NEW t \in Threads, NEW P, NEW Q, NEW d, Prefixed(t, P, Q, d),
           commands' \in 0 .. MaxCommands
    PROVE  ScriptOK'
<1>1. P \o Q \in Seq(Call)
    BY ConcatProperties DEF Prefixed
<1> QED
    BY <1>1, Rigid DEF Prefixed, Typed, ScriptOK

\* Under publish_mu the event is numbered: nothing in any inbox has its number
\* or a later one.
LEMMA CollectStep ==
    ASSUME Strong, NEW t \in Threads, Collect(t)
    PROVE  Strong'
<1> DEFINE c == Head(script[t])
           p == [from |-> c.of, event |-> [seq |-> next, kind |-> c.kind, by |-> User[c.of]],
                 todo |-> {s \in sessions : Gets(s, c.kind, c.room, c.to)},
                 failed |-> FALSE, auto |-> {}]
<1>1. Due(t, "publish") /\ mu = NoThread /\ mu' = t /\ next' = next + 1 /\ Done(t)
      /\ UNCHANGED <<callers, replied, mail, rel, commands>>
    BY DEF Collect, Numbered
<1>2. pub' = [pub EXCEPT ![t] = p]
    BY DEF Collect, Numbered
<1>3. /\ c.of \in Sessions /\ c.kind \in Kinds /\ c.op = "publish" /\ script[t][1] = c /\ script[t] # << >>
    BY <1>1, DueCall DEF Strong
<1>4. /\ next \in Nat \ {0} /\ sessions \subseteq Sessions /\ pub \in [Threads -> Publication]
      /\ rel \in [Tables -> [Users \X Users -> Nat]] /\ ScriptOK
    BY DEF Strong, Typed, RowsOK, CallersOK, PubOK
<1>5. User[c.of] \in Users
    BY <1>3, PeopleAssumption
<1>6. p.event \in Event /\ p.event.seq = next /\ p.event.by = User[c.of] /\ p.from = c.of
      /\ p.todo \subseteq Sessions /\ p.auto = {}
  <2>1. [seq |-> next, kind |-> c.kind, by |-> User[c.of]] \in Event
      BY <1>3, <1>4, <1>5 DEF Event
  <2> QED
      BY <1>4, <2>1
<1>7. p \in Publication
    BY <1>3, <1>6 DEF Publication
<1>8. \A x \in Threads : pub[x] = Outside
    BY <1>1, ThreadsAssumption DEF Strong, Locked, Threads
<1> HIDE DEF p
<1>9. pub'[t] = p /\ \A x \in Threads \ {t} : pub'[x] = pub[x]
    BY <1>2, <1>4
<1>a. Typed'
  <2>1. PubOK'
    <3>1. pub' \in [Threads -> Publication]
        BY <1>2, <1>4, <1>7
    <3>2. \A x \in Threads : IsFiniteSet(pub'[x].auto)
        BY <1>6, <1>9, FS_EmptySet DEF Strong, Typed, PubOK
    <3> QED
        BY <1>1, <3>1, <3>2, Rigid DEF PubOK
  <2>2. RowsOK'
    <3>1. next' \in Nat \ {0}
        BY <1>1, <1>4
    <3> QED
        BY <1>1, <1>4, <3>1, Rigid DEF RowsOK
  <2>3. ScriptOK'
      BY <1>1, <1>3, DoneFirst, ScriptThen DEF Strong, Typed, ScriptOK
  <2> QED
      BY <1>1, <2>1, <2>2, <2>3, TypedKept DEF Strong, Typed
<1>b. Locked'
  <2>1. pub'[t].from \in Sessions /\ mu' = t /\ pub'[t].event.seq + 1 = next'
        /\ pub'[t].event.by = User[pub'[t].from]
      BY <1>1, <1>3, <1>6, <1>9
  <2> QED
      BY <1>8, <1>9, <2>1, Rigid DEF Locked
<1>c. Boxed'
  <2>0. UNCHANGED <<inbox, last, rel>>
      BY <1>1 DEF mail
  <2>1. \A s \in Sessions : last'[s] < next' /\ \A i \in 1 .. Len(inbox'[s]) : inbox'[s][i].seq < next'
    <3>1. \A s \in Sessions : last[s] \in Nat /\ \A i \in 1 .. Len(inbox[s]) : inbox[s][i].seq \in Nat
        BY InboxEvents DEF Strong, Typed, MailOK
    <3> QED
        BY <1>1, <1>4, <2>0, <3>1 DEF Strong, Boxed
  <2>2. \A x \in Threads : \A s \in pub'[x].todo : \A i \in 1 .. Len(inbox'[s]) :
             inbox'[s][i].seq < pub'[x].event.seq
    <3>1. \A s \in p.todo : \A i \in 1 .. Len(inbox[s]) : inbox[s][i].seq < p.event.seq
        BY <1>6 DEF Strong, Boxed
    <3>2. Outside.todo = {}
        BY DEF Outside
    <3> QED
        BY <1>8, <1>9, <2>0, <3>1, <3>2
  <2>3. \A b \in Tables, q \in Users \X Users : rel'[b][q] <= next'
      BY <1>1, <1>4, <2>0 DEF Strong, Boxed
  <2>4. InboxOrdered' /\ BlockHonoured'
      BY <2>0 DEF Strong, Boxed, InboxOrdered, BlockHonoured
  <2> QED
      BY <2>1, <2>2, <2>3, <2>4, Rigid DEF Boxed
<1>d. Accounted'
    BY <1>1, AccountedKept DEF Strong, callers
<1>e. Living' /\ Held'
    BY <1>1, <1>3, DoneFirst, LivingOn, HeldOn DEF Strong, callers
<1> QED
    BY <1>a, <1>b, <1>c, <1>d, <1>e DEF Strong

\* While t is in mts_publish no other thread is.
LEMMA Alone ==
    ASSUME Strong, NEW t \in Threads, pub[t] # Outside
    PROVE  /\ \A x \in Threads \ {t} : pub[x] = Outside /\ pub[x].todo = {}
           /\ pub[t] \in Publication /\ pub[t].event \in Event /\ pub[t].event.seq \in Nat
           /\ pub[t].from \in Sessions /\ pub[t].todo \subseteq Sessions /\ pub[t].auto \subseteq Sessions
           /\ pub[t].event.by \in Users /\ pub[t].event.by = User[pub[t].from]
           /\ IsFiniteSet(pub[t].auto) /\ pub[t].event.seq + 1 = next /\ mu = t /\ pub[t].failed \in BOOLEAN
           /\ pub[t].event.kind \in Kinds
<1>1. Outside.todo = {}
    BY DEF Outside
<1>2. pub[t] \in Publication /\ IsFiniteSet(pub[t].auto)
    BY DEF Strong, Typed, PubOK
<1>3. /\ pub[t].from \in Sessions /\ mu = t
      /\ pub[t].event.seq + 1 = next /\ pub[t].event.by = User[pub[t].from]
    BY DEF Strong, Locked
<1>4. \A x \in Threads \ {t} : pub[x] = Outside
    BY <1>3 DEF Strong, Locked
<1>5. pub[t].event \in Event /\ pub[t].todo \subseteq Sessions /\ pub[t].auto \subseteq Sessions
      /\ pub[t].failed \in BOOLEAN
    BY <1>2 DEF Publication
<1>6. pub[t].event.seq \in Nat /\ pub[t].event.kind \in Kinds
    BY <1>5 DEF Event
<1>7. User[pub[t].from] \in Users
    BY <1>3, PeopleAssumption
<1> QED
    BY <1>1, <1>2, <1>3, <1>4, <1>5, <1>6, <1>7

\* The inboxes of the others, after one has got event e.
LEMMA OthersBoxed ==
    ASSUME Strong, NEW s \in Sessions, NEW e \in Event, e.seq < next, UNCHANGED <<next, rel, last>>,
           \A x \in Sessions \ {s} : inbox'[x] = inbox[x],
           \A i \in 1 .. Len(inbox'[s]) : \/ inbox'[s][i] = e
                                          \/ \E j \in 1 .. Len(inbox[s]) : inbox'[s][i] = inbox[s][j]
    PROVE  /\ \A x \in Sessions : last'[x] < next' /\ \A i \in 1 .. Len(inbox'[x]) : inbox'[x][i].seq < next'
           /\ \A b \in Tables, q \in Users \X Users : rel'[b][q] <= next'
BY DEF Strong, Boxed

\* The event reaches one recipient.
LEMMA DeliverStep ==
    ASSUME Strong, NEW t \in Threads, NEW s \in Sessions, Deliver(t, s)
    PROVE  Strong'
<1> DEFINE p == pub[t]
           e == p.event
           q == pub'[t]
<1>1. s \in p.todo /\ UNCHANGED <<callers, next, rel, mu, script, commands>>
    BY DEF Deliver
<1>2. p # Outside
    BY <1>1 DEF Outside
<1>3. /\ \A x \in Threads \ {t} : pub[x] = Outside /\ pub[x].todo = {}
      /\ p \in Publication /\ e \in Event /\ e.seq \in Nat
      /\ p.from \in Sessions /\ p.todo \subseteq Sessions /\ p.auto \subseteq Sessions
      /\ e.by \in Users /\ e.by = User[p.from]
      /\ IsFiniteSet(p.auto) /\ e.seq + 1 = next /\ mu = t /\ p.failed \in BOOLEAN
    BY <1>2, Alone
<1>4. PICK a \in {p.auto, p.auto \cup {s}}, f \in BOOLEAN :
           pub' = [pub EXCEPT ![t] = [p EXCEPT !.todo = p.todo \ {s}, !.auto = a, !.failed = f]]
    BY DEF Deliver
<1>5. \/ Enqueue(s, e) /\ ~Filtered(p, s)
      \/ UNCHANGED mail
    BY DEF Deliver
<1>6. replied' \in [Sessions -> SUBSET Users]
  <2>1. PICK v \in {replied[s], replied[s] \cup {e.by}} : replied' = [replied EXCEPT ![s] = v]
      BY DEF Deliver
  <2> QED
      BY <1>3, <2>1 DEF Strong, Typed, RepliedOK
<1>7. q = [p EXCEPT !.todo = p.todo \ {s}, !.auto = a, !.failed = f] /\ \A x \in Threads \ {t} : pub'[x] = pub[x]
    BY <1>4 DEF Strong, Typed, PubOK
<1>8. q \in Publication /\ q.todo = p.todo \ {s} /\ q.auto = a /\ q.from = p.from /\ q.event = e
  <2>1. a \in SUBSET Sessions /\ p.todo \ {s} \in SUBSET Sessions
      BY <1>3
  <2> QED
      BY <1>3, <1>7, <2>1 DEF Publication
<1>9. IsFiniteSet(a)
    BY <1>3, FS_AddElement
<1> HIDE DEF p, q, e
<1>a. /\ MailOK' /\ InboxOrdered' /\ BlockHonoured' /\ Accounted' /\ UNCHANGED last
      /\ \A x \in Sessions \ {s} : inbox'[x] = inbox[x]
      /\ \A i \in 1 .. Len(inbox'[s]) : \/ inbox'[s][i] = e
                                        \/ \E j \in 1 .. Len(inbox[s]) : inbox'[s][i] = inbox[s][j]
  <2>1. CASE UNCHANGED mail
    <3>1. MailOK' /\ Accounted'
        BY <1>1, <2>1, TypedKept, AccountedKept DEF Strong, Typed, callers
    <3>2. InboxOrdered' /\ BlockHonoured'
        BY <1>1, <2>1 DEF Strong, Boxed, mail, InboxOrdered, BlockHonoured
    <3> QED
        BY <2>1, <3>1, <3>2 DEF mail
  <2>2. CASE Enqueue(s, e) /\ ~Filtered(p, s)
    <3>1. last[s] <= e.seq
        BY <1>3 DEF Strong, Boxed, Typed, MailOK
    <3>2. \A i \in 1 .. Len(inbox[s]) : inbox[s][i].seq < e.seq
        BY <1>1 DEF Strong, Boxed, p, e
    <3>3. e.by # NoUser /\ e.by # User[s] => rel["blocks"][<<User[s], e.by>>] = 0
        BY <1>3, <2>2 DEF Filtered, e
    <3> QED
        BY <1>1, <1>3, <2>2, <3>1, <3>2, <3>3, Enqueued DEF Strong, Typed, Boxed, callers
  <2> QED
      BY <1>5, <2>1, <2>2 DEF e, p
<1>b. Typed'
  <2>1. PubOK'
    <3>1. pub' \in [Threads -> Publication] /\ \A x \in Threads : IsFiniteSet(pub'[x].auto)
        BY <1>4, <1>7, <1>8, <1>9 DEF Strong, Typed, PubOK, q
    <3> QED
        BY <1>1, <3>1, Rigid DEF Strong, Typed, PubOK
  <2> QED
      BY <1>1, <1>6, <1>a, <2>1, TypedKept DEF Strong, Typed, RepliedOK
<1>c. Locked'
  <2>1. q.from \in Sessions /\ mu' = t /\ q.event.seq + 1 = next' /\ q.event.by = User[q.from]
      BY <1>1, <1>3, <1>8
  <2> QED
      BY <1>3, <1>7, <2>1, Rigid DEF Locked, q
<1>d. Boxed'
  <2>1. e.seq < next
      BY <1>3
  <2>2. /\ \A x \in Sessions : last'[x] < next' /\ \A i \in 1 .. Len(inbox'[x]) : inbox'[x][i].seq < next'
        /\ \A b \in Tables, y \in Users \X Users : rel'[b][y] <= next'
      BY <1>1, <1>3, <1>a, <2>1, OthersBoxed
  <2>3. \A x \in Threads : \A y \in pub'[x].todo : \A i \in 1 .. Len(inbox'[y]) :
             inbox'[y][i].seq < pub'[x].event.seq
    <3>1. \A y \in q.todo : inbox'[y] = inbox[y] /\ y \in p.todo
        BY <1>3, <1>8, <1>a
    <3>2. \A y \in p.todo : \A i \in 1 .. Len(inbox[y]) : inbox[y][i].seq < e.seq
        BY DEF Strong, Boxed, p, e
    <3> QED
        BY <1>3, <1>7, <1>8, <3>1, <3>2 DEF q
  <2> QED
      BY <1>a, <2>2, <2>3, Rigid DEF Boxed
<1>e. Living' /\ Held'
    BY <1>1, LivingKept, HeldKept DEF Strong, callers
<1> QED
    BY <1>a, <1>b, <1>c, <1>d, <1>e DEF Strong

\* mts_publish returns: the sender may be told of a refusal, with the number of
\* the message that was refused.
LEMMA FinishStep ==
    ASSUME Strong, NEW t \in Threads, Finish(t)
    PROVE  Strong'
<1> DEFINE p == pub[t]
           e == p.event
           n == [p.event EXCEPT !.kind = "notice", !.by = NoUser]
           s == p.from
<1>1. /\ p # Outside /\ mu' = NoThread /\ pub' = [pub EXCEPT ![t] = Outside]
      /\ UNCHANGED <<callers, replied, next, rel, commands>>
      /\ Enqueue(s, n) \/ UNCHANGED mail
    BY DEF Finish
<1>3. /\ \A x \in Threads \ {t} : pub[x] = Outside /\ pub[x].todo = {}
      /\ e \in Event /\ e.seq \in Nat /\ s \in Sessions /\ p.auto \subseteq Sessions
      /\ e.by \in Users /\ IsFiniteSet(p.auto) /\ e.seq + 1 = next
    BY <1>1, Alone
<1>4. PICK answers \in [1 .. Cardinality(p.auto) -> p.auto] :
           script' = [script EXCEPT ![t] =
               [i \in DOMAIN answers |-> Publish(answers[i], "auto", NoRoom, e.by)] \o @]
    BY DEF Finish
<1> DEFINE P == [i \in DOMAIN answers |-> Publish(answers[i], "auto", NoRoom, e.by)]
           m == Cardinality(p.auto)
<1>5. m \in Nat
    BY <1>3, FS_CardinalityType
<1>6. n \in Event /\ n.seq = e.seq /\ n.kind = "notice" /\ n.by = NoUser
    BY <1>3 DEF Event, Kinds
<1> HIDE DEF p, e, n, s, m
<1>7. \A i \in 1 .. m : Publish(answers[i], "auto", NoRoom, e.by) \in Call
                        /\ Publish(answers[i], "auto", NoRoom, e.by).op = "publish"
  <2> SUFFICES ASSUME NEW i \in 1 .. m
               PROVE  /\ Publish(answers[i], "auto", NoRoom, e.by) \in Call
                      /\ Publish(answers[i], "auto", NoRoom, e.by).op = "publish"
      OBVIOUS
  <2> DEFINE a == answers[i]
  <2>1. a \in Sessions
      BY <1>3, <1>4 DEF m
  <2>2. "auto" \in Kinds /\ NoRoom \in Rooms \cup {NoRoom} /\ e.by \in Users \cup {NoUser}
      BY <1>3 DEF Kinds
  <2> HIDE DEF a
  <2>3. Publish(a, "auto", NoRoom, e.by) \in Call /\ Publish(a, "auto", NoRoom, e.by).op = "publish"
      BY <2>1, <2>2, Calls
  <2> QED
      BY <2>3 DEF a
<1>8. /\ P \in [1 .. m -> Call] /\ DOMAIN P = 1 .. m /\ \A i \in 1 .. m : P[i].op = "publish"
    BY <1>4, <1>7 DEF m
<1>9. P \in Seq(Call) /\ Len(P) = m
  <2> HIDE DEF P
  <2>1. P \in Seq(Call)
      BY <1>5, <1>8, SeqDef
  <2>2. Len(P) \in Nat /\ DOMAIN P = 1 .. Len(P)
      BY <2>1, LenProperties
  <2> QED
      BY <1>5, <1>8, <2>1, <2>2
<1>a. script' = [script EXCEPT ![t] = P \o script[t]]
    BY <1>4
<1> HIDE DEF P
<1>b. Prefixed(t, P, script[t], 0) /\ Plain(P) /\ Adds(t, P) /\ Keeps(t, script[t], 0)
  <2>1. script[t] \in Seq(Call)
      BY DEF Strong, Typed, ScriptOK
  <2>2. Len(script[t]) \in Nat
      BY <2>1, LenProperties
  <2>3. \A i \in 1 .. Len(script[t]) : script[t][i] = script[t][i + 0]
      BY <2>2
  <2>4. Plain(P) /\ Adds(t, P)
      BY <1>8, <1>9 DEF Plain, Adds, Whole, Further
  <2>5. Len(script[t]) + 0 = Len(script[t])
      BY <2>2
  <2> QED
      BY <1>9, <1>a, <2>1, <2>3, <2>4, <2>5 DEF Prefixed, Keeps
<1>c. /\ MailOK' /\ InboxOrdered' /\ BlockHonoured' /\ Accounted' /\ UNCHANGED last
      /\ \A x \in Sessions \ {s} : inbox'[x] = inbox[x]
      /\ \A i \in 1 .. Len(inbox'[s]) : \/ inbox'[s][i] = n
                                        \/ \E j \in 1 .. Len(inbox[s]) : inbox'[s][i] = inbox[s][j]
  <2>1. CASE UNCHANGED mail
    <3>1. MailOK' /\ Accounted'
        BY <1>1, <2>1, TypedKept, AccountedKept DEF Strong, Typed, callers
    <3>2. InboxOrdered' /\ BlockHonoured'
        BY <1>1, <2>1 DEF Strong, Boxed, mail, InboxOrdered, BlockHonoured
    <3> QED
        BY <2>1, <3>1, <3>2 DEF mail
  <2>2. CASE Enqueue(s, n)
    <3>0. last[s] \in Nat /\ last[s] < next /\ \A i \in 1 .. Len(inbox[s]) : inbox[s][i].seq \in Nat /\ inbox[s][i].seq < next
        BY <1>3, InboxEvents DEF Strong, Boxed, Typed, MailOK
    <3>1. last[s] <= n.seq
        BY <1>3, <1>6, <3>0
    <3>2. \A i \in 1 .. Len(inbox[s]) : \/ inbox[s][i].seq < n.seq
                                        \/ inbox[s][i].seq = n.seq /\ n.kind = "notice"
        BY <1>3, <1>6, <3>0
    <3> QED
        BY <1>1, <1>3, <1>6, <2>2, <3>1, <3>2, Enqueued DEF Strong, Typed, Boxed, callers
  <2> QED
      BY <1>1, <2>1, <2>2 DEF n, s, p
<1>d. pub'[t] = Outside /\ Outside.todo = {} /\ \A x \in Threads \ {t} : pub'[x] = pub[x]
    BY <1>1 DEF Strong, Typed, PubOK, Outside
<1>e. Typed'
  <2>1. PubOK'
    <3>1. Outside \in Publication /\ Outside.auto = {}
      <4>1. [seq |-> 0, kind |-> "notice", by |-> NoUser] \in Event
          BY DEF Event, Kinds
      <4> QED
          BY <4>1 DEF Outside, Publication
    <3>2. pub' \in [Threads -> Publication] /\ \A x \in Threads : IsFiniteSet(pub'[x].auto)
        BY <1>1, <1>d, <3>1, FS_EmptySet DEF Strong, Typed, PubOK
    <3> QED
        BY <1>1, <3>2, Rigid DEF PubOK
  <2>2. ScriptOK'
      BY <1>1, <1>b, ScriptThen DEF Strong, Typed, ScriptOK
  <2> QED
      BY <1>1, <1>c, <2>1, <2>2, TypedKept DEF Strong, Typed
<1>f. Locked'
    BY <1>3, <1>d, Rigid DEF Locked
<1>g. Boxed'
  <2>1. n.seq < next
      BY <1>3, <1>6
  <2>2. /\ \A x \in Sessions : last'[x] < next' /\ \A i \in 1 .. Len(inbox'[x]) : inbox'[x][i].seq < next'
        /\ \A b \in Tables, y \in Users \X Users : rel'[b][y] <= next'
      BY <1>1, <1>3, <1>6, <1>c, <2>1, OthersBoxed
  <2>3. \A x \in Threads : pub'[x].todo = {}
      BY <1>3, <1>d
  <2> QED
      BY <1>c, <2>2, <2>3, Rigid DEF Boxed
<1>h. Living' /\ Held'
    BY <1>1, <1>b, LivingOn, HeldOn DEF Strong, callers
<1> QED
    BY <1>c, <1>e, <1>f, <1>g, <1>h DEF Strong

-----------------------------------------------------------------------------
(* Handlers begin and go on.                                                *)

\* A script is replaced by P.
LEMMA Afresh ==
    ASSUME Typed, NEW t \in Threads, NEW P \in Seq(Call), script' = [script EXCEPT ![t] = P]
    PROVE  Prefixed(t, P, << >>, 0)
<1>1. P \o << >> = P /\ << >> \in Seq(Call) /\ Len(<< >>) = 0
    BY ConcatEmptySeq, EmptySeq
<1> QED
    BY <1>1 DEF Prefixed

\* A step that changes a script and what is known of callers, but no inbox and
\* no lifecycle.
LEMMA Goes ==
    ASSUME Strong, NEW t \in Threads, NEW P, NEW Q, NEW d, Prefixed(t, P, Q, d), Plain(P), Adds(t, P), Keeps(t, Q, d),
           d = 1 => /\ script[t] # << >> /\ script[t][1].of \in Sessions
                    /\ script[t][1].op \notin {"remove", "exited"}
                    /\ script[t][1].op = "announced" => life[script[t][1].of] \in Ending,
           UNCHANGED <<life, sessions, mail, next, rel, publishing>>,
           commands' \in 0 .. MaxCommands, CallersOK', RepliedOK',
           \A s \in Sessions : /\ pc'[s] = "none" => pc[s] = "none"
                               /\ pc[s] = "gone" => pc'[s] = "gone"
    PROVE  Strong'
<1>1. ScriptOK'
    BY ScriptThen DEF Strong
<1>2. Typed'
    BY <1>1, TypedKept DEF Strong, Typed
<1>3. Locked' /\ Boxed'
    BY LockedKept, BoxedKept DEF Strong
<1>4. Accounted'
    BY DEF Strong, Accounted, mail
<1>5. Living' /\ Held'
    BY LivingOn, HeldOn DEF Strong
<1> QED
    BY <1>2, <1>3, <1>4, <1>5 DEF Strong

\* The sender's room is read.
LEMMA HereStep ==
    ASSUME Strong, NEW t \in Threads, Here(t)
    PROVE  Strong'
<1> DEFINE c == Head(script[t])
           x == Publish(c.of, c.kind, room[c.of], NoUser)
<1>1. Due(t, "here") /\ script' = [script EXCEPT ![t] = <<x>> \o Tail(script[t])]
      /\ UNCHANGED <<callers, replied, mail, next, rel, publishing, commands>>
    BY DEF Here
<1>2. c.of \in Sessions /\ c.kind \in Kinds /\ c.op = "here" /\ script[t][1] = c /\ script[t] # << >>
    BY <1>1, DueCall DEF Strong
<1>3. room[c.of] \in Rooms \cup {NoRoom} /\ NoUser \in Users \cup {NoUser}
    BY <1>2 DEF Strong, Typed, CallersOK
<1>4. x \in Call /\ x.op = "publish"
    BY <1>2, <1>3, Calls
<1> HIDE DEF x
<1>5. <<x>> \in Seq(Call) /\ Plain(<<x>>) /\ Adds(t, <<x>>)
    BY <1>2, <1>4, Tuples DEF Plain, Adds, Further
<1>6. Prefixed(t, <<x>>, Tail(script[t]), 1) /\ Keeps(t, Tail(script[t]), 1)
    BY <1>1, <1>2, <1>5, Replaced DEF Strong
<1>7. CallersOK' /\ RepliedOK' /\ commands' \in 0 .. MaxCommands
    BY <1>1, TypedKept DEF Strong, Typed, ScriptOK
<1> QED
    BY <1>1, <1>2, <1>5, <1>6, <1>7, Goes DEF callers

\* mts_join.
LEMMA JoinStep ==
    ASSUME Strong, NEW t \in Threads, Join(t)
    PROVE  Strong'
<1> DEFINE c == Head(script[t])
           x == Publish(c.of, "presence", c.room, NoUser)
<1>1. Due(t, "join")
      /\ UNCHANGED <<pc, life, sessions, watch, watchall, afk, replied, mail, next, rel, publishing, commands>>
    BY DEF Join
<1>2. c.of \in Sessions /\ c.room \in Rooms \cup {NoRoom} /\ c.op = "join" /\ script[t][1] = c /\ script[t] # << >>
    BY <1>1, DueCall DEF Strong
<1>3. x \in Call /\ x.op = "publish"
  <2>1. "presence" \in Kinds /\ NoUser \in Users \cup {NoUser}
      BY Words
  <2> QED
      BY <1>2, <2>1, Calls
<1> HIDE DEF x
<1>4. RepliedOK' /\ commands' \in 0 .. MaxCommands
    BY <1>1, TypedKept DEF Strong, Typed, ScriptOK
<1>5. CASE /\ room' = [room EXCEPT ![c.of] = c.room]
           /\ script' = [script EXCEPT ![t] = <<x>> \o Tail(script[t])]
  <2>1. <<x>> \in Seq(Call) /\ Plain(<<x>>) /\ Adds(t, <<x>>)
      BY <1>2, <1>3, Tuples DEF Plain, Adds, Further
  <2>2. Prefixed(t, <<x>>, Tail(script[t]), 1) /\ Keeps(t, Tail(script[t]), 1)
      BY <1>2, <1>5, <2>1, Replaced DEF Strong
  <2>3. CallersOK'
      BY <1>1, <1>2, <1>5 DEF Strong, Typed, CallersOK
  <2> QED
      BY <1>1, <1>2, <1>4, <2>1, <2>2, <2>3, Goes
<1>6. CASE script' = [script EXCEPT ![t] = << >>] /\ UNCHANGED room
  <2>1. << >> \in Seq(Call) /\ Plain(<< >>) /\ Adds(t, << >>)
      BY <1>2, EmptySeq DEF Plain, Adds, Further
  <2>2. Prefixed(t, << >>, << >>, 0)
      BY <1>6, <2>1, Afresh DEF Strong
  <2>4. Keeps(t, << >>, 0)
    <3>1. Has(t, 1, "join", c.of) /\ 1 \in Nat
        BY <1>1, DueCall DEF Strong
    <3> QED
        BY <1>2, <3>1 DEF Keeps, Held, Strong
  <2>3. CallersOK'
      BY <1>1, <1>6, TypedKept DEF Strong, Typed, callers
  <2> QED
      BY <1>1, <1>4, <2>1, <2>2, <2>3, <2>4, Goes
<1> QED
    BY <1>5, <1>6 DEF Join, x

\* clear_afk.
LEMMA ClearAfkStep ==
    ASSUME Strong, NEW t \in Threads, ClearAfk(t)
    PROVE  Strong'
<1> DEFINE c == Head(script[t])
           s == c.of
           x == Publish(s, "presence", room[s], NoUser)
           P == IF afk[s] THEN <<x>> ELSE << >>
<1>1. Due(t, "clear") /\ afk' = [afk EXCEPT ![s] = FALSE]
      /\ UNCHANGED <<pc, life, sessions, room, watch, watchall, mail, next, rel, publishing, commands>>
      /\ script' = [script EXCEPT ![t] = P \o Tail(script[t])]
    BY DEF ClearAfk
<1>2. PICK v \in {{}, replied[s]} : replied' = [replied EXCEPT ![s] = v]
    BY DEF ClearAfk
<1>3. s \in Sessions /\ c.op = "clear" /\ script[t][1] = c /\ script[t] # << >>
    BY <1>1, DueCall DEF Strong
<1>4. room[s] \in Rooms \cup {NoRoom} /\ replied[s] \subseteq Users
    BY <1>3 DEF Strong, Typed, CallersOK, RepliedOK
<1>5. x \in Call /\ x.op = "publish"
  <2>1. "presence" \in Kinds /\ NoUser \in Users \cup {NoUser}
      BY Words
  <2> QED
      BY <1>3, <1>4, <2>1, Calls
<1> HIDE DEF x
<1>6. P \in Seq(Call) /\ Plain(P) /\ Adds(t, P)
    BY <1>3, <1>5, Tuples, EmptySeq DEF Plain, Adds, Further
<1>7. Prefixed(t, P, Tail(script[t]), 1) /\ Keeps(t, Tail(script[t]), 1)
    BY <1>1, <1>3, <1>6, Replaced DEF Strong
<1> HIDE DEF P
<1>8. CallersOK' /\ commands' \in 0 .. MaxCommands
    BY <1>1, <1>3 DEF Strong, Typed, CallersOK, ScriptOK
<1>9. RepliedOK'
    BY <1>2, <1>3, <1>4 DEF Strong, Typed, RepliedOK
<1> QED
    BY <1>1, <1>3, <1>6, <1>7, <1>8, <1>9, Goes

\* The answers given are forgotten.
LEMMA EpochStep ==
    ASSUME Strong, NEW t \in Threads, Epoch(t)
    PROVE  Strong'
<1> DEFINE c == Head(script[t])
<1>1. Due(t, "epoch") /\ replied' = [replied EXCEPT ![c.of] = {}] /\ Done(t)
      /\ UNCHANGED <<callers, mail, next, rel, publishing, commands>>
    BY DEF Epoch
<1>2. c.of \in Sessions /\ c.op = "epoch" /\ script[t][1] = c /\ script[t] # << >>
    BY <1>1, DueCall DEF Strong
<1>3. /\ Prefixed(t, << >>, Tail(script[t]), 1) /\ Plain(<< >>)
      /\ Adds(t, << >>) /\ Keeps(t, Tail(script[t]), 1)
    BY <1>1, <1>2, DoneFirst DEF Strong
<1>4. CallersOK' /\ RepliedOK' /\ commands' \in 0 .. MaxCommands
    BY <1>1, <1>2, TypedKept DEF Strong, Typed, RepliedOK, ScriptOK
<1> QED
    BY <1>1, <1>2, <1>3, <1>4, Goes DEF callers

-----------------------------------------------------------------------------
(* Commands.                                                                *)

\* An entry of a command's script.
Simple(a) == a \in Call /\ a.op \in {"publish", "here", "clear", "join", "epoch"}

LEMMA Simples ==
    ASSUME NEW s \in Sessions
    PROVE  /\ \A k \in Kinds, r \in Rooms \cup {NoRoom}, u \in Users \cup {NoUser} : Simple(Publish(s, k, r, u))
           /\ \A r \in Rooms : Simple(Step("join", s, r))
           /\ \A k \in Kinds : Simple(Speak(s, k))
           /\ Simple(Clear(s)) /\ Simple(Step("epoch", s, NoRoom))
<1>1. \A k \in Kinds, r \in Rooms \cup {NoRoom}, u \in Users \cup {NoUser} : Simple(Publish(s, k, r, u))
    BY Calls DEF Simple
<1>2. ASSUME NEW r \in Rooms PROVE Simple(Step("join", s, r))
  <2>1. "join" \in Ops /\ r \in Rooms \cup {NoRoom}
      BY DEF Ops
  <2> QED
      BY <2>1, Calls DEF Simple
<1>3. \A k \in Kinds : Simple(Speak(s, k))
    BY Calls DEF Simple
<1>4. Simple(Clear(s))
    BY Calls DEF Simple
<1>5. Simple(Step("epoch", s, NoRoom))
  <2>1. "epoch" \in Ops /\ NoRoom \in Rooms \cup {NoRoom}
      BY DEF Ops
  <2> QED
      BY <2>1, Calls DEF Simple
<1> QED
    BY <1>1, <1>2, <1>3, <1>4, <1>5

\* A command of one or two entries, or of none.
LEMMA Shorts ==
    ASSUME NEW a, NEW b, Simple(a), Simple(b)
    PROVE  /\ <<a>> \in Seq(Call) /\ Plain(<<a>>) /\ \A t : Whole(t, <<a>>)
           /\ <<a, b>> \in Seq(Call) /\ Plain(<<a, b>>) /\ \A t : Whole(t, <<a, b>>)
<1>1. a \in Call /\ b \in Call
    BY DEF Simple
<1>2. \A i \in 1 .. 2 : i = 1 \/ i = 2
    OBVIOUS
<1>3. Plain(<<a>>) /\ \A t : Whole(t, <<a>>)
    BY <1>1, Tuples DEF Plain, Whole, Simple
<1>4. Plain(<<a, b>>) /\ \A t : Whole(t, <<a, b>>)
    BY <1>1, <1>2, Tuples DEF Plain, Whole, Simple
<1> QED
    BY <1>1, <1>3, <1>4, Tuples

\* A command is counted.
LEMMA CountedKept ==
    ASSUME ScriptOK, NEW t, NEW name, Counted(t, name)
    PROVE  commands' \in 0 .. MaxCommands
BY LimitsAssumption DEF Counted, ScriptOK

\* A thread is given a script.
LEMMA Given ==
    ASSUME Strong, NEW t \in Threads, NEW P \in Seq(Call), Plain(P), Whole(t, P), script[t] = << >>,
           script' = [script EXCEPT ![t] = P],
           UNCHANGED <<life, sessions, mail, next, rel, publishing>>,
           commands' \in 0 .. MaxCommands, CallersOK', RepliedOK',
           \A s \in Sessions : /\ pc'[s] = "none" => pc[s] = "none"
                               /\ pc[s] = "gone" => pc'[s] = "gone"
    PROVE  Strong'
<1>1. Prefixed(t, P, << >>, 0)
    BY Afresh DEF Strong
<1>2. Adds(t, P) /\ Keeps(t, << >>, 0)
    BY EmptySeq DEF Adds, Keeps
<1> QED
    BY <1>1, <1>2, Goes

\* A command that only gives its thread something to do.
LEMMA Said ==
    ASSUME Strong, NEW s \in Sessions, NEW name, Reads(s, name), NEW a, NEW b, Simple(a), Simple(b),
           NEW P \in {<<a>>, <<a, b>>}, script' = [script EXCEPT ![s] = P],
           UNCHANGED <<callers, replied, mail, next, rel, publishing>>
    PROVE  Strong'
<1>1. P \in Seq(Call) /\ Plain(P) /\ Whole(s, P) /\ script[s] = << >>
    BY Shorts DEF Reads, Idle
<1>2. CallersOK' /\ RepliedOK' /\ commands' \in 0 .. MaxCommands /\ s \in Threads
    BY TypedKept, CountedKept DEF Strong, Typed, Reads, Threads
<1> QED
    BY <1>1, <1>2, Given DEF callers

\* Lines, announcements, moves, messages and moderation.
LEMMA SpokenStep ==
    ASSUME Strong, NEW s \in Sessions,
           \/ Say(s) \/ Announce(s) \/ Move(s)
           \/ \E u \in Users : Msg(s, u) \/ Whisper(s, u)
           \/ \E u \in Sessions : Kick(s, u)
    PROVE  Strong'
<1>0. "room" \in Kinds /\ "action" \in Kinds /\ "presence" \in Kinds /\ "private" \in Kinds /\ "all" \in Kinds
      /\ NoRoom \in Rooms \cup {NoRoom} /\ NoUser \in Users \cup {NoUser} /\ Lobby \in Rooms
      /\ room[s] \in Rooms \cup {NoRoom}
    BY Words, RoomsAssumption DEF Strong, Typed, CallersOK
<1>1. CASE Say(s)
  <2>1. PICK k \in {"room", "action"} : script' = [script EXCEPT ![s] = <<Clear(s), Speak(s, k)>>]
      BY <1>1 DEF Say
  <2>2. k \in Kinds
      BY <1>0
  <2>3. Simple(Clear(s)) /\ Simple(Speak(s, k))
      BY <2>2, Simples
  <2> QED
      BY <1>1, <2>1, <2>3, Said DEF Say
<1>2. CASE Announce(s)
  <2>1. Simple(Publish(s, "all", NoRoom, NoUser))
      BY <1>0, Simples
  <2> QED
      BY <1>2, <2>1, Said DEF Announce
<1>3. CASE Move(s)
  <2> DEFINE x == Publish(s, "presence", room[s], NoUser)
  <2>1. Simple(x)
      BY <1>0, Simples
  <2>2. PICK r \in Rooms : \/ script' = [script EXCEPT ![s] = <<Step("join", s, r), x>>]
                           \/ script' = [script EXCEPT ![s] = <<x, Step("join", s, r)>>]
      BY <1>0, <1>3 DEF Move
  <2>3. Simple(Step("join", s, r))
      BY Simples
  <2>4. Reads(s, "move") /\ UNCHANGED <<callers, replied, mail, next, rel, publishing>>
      BY <1>3 DEF Move
  <2> HIDE DEF x
  <2> QED
      BY <2>1, <2>2, <2>3, <2>4, Said
<1>4. ASSUME NEW u \in Users, Msg(s, u) \/ Whisper(s, u) PROVE Strong'
  <2> DEFINE x == Publish(s, "private", NoRoom, u)
  <2>1. u \in Users \cup {NoUser}
      OBVIOUS
  <2>2. Simple(x) /\ Simple(Clear(s))
      BY <1>0, <2>1, Simples
  <2>3. /\ \E name : Reads(s, name)
        /\ UNCHANGED <<callers, replied, mail, next, rel, publishing>>
        /\ \/ script' = [script EXCEPT ![s] = <<x>>]
           \/ script' = [script EXCEPT ![s] = <<Clear(s), x>>]
           \/ script' = [script EXCEPT ![s] = <<x, Clear(s)>>]
      BY <1>4 DEF Msg, Whisper
  <2> HIDE DEF x
  <2> QED
      BY <2>2, <2>3, Said
<1>5. ASSUME NEW u \in Sessions, Kick(s, u) PROVE Strong'
  <2>1. Simple(Speak(u, "room")) /\ Simple(Step("join", u, Lobby))
      BY <1>0, Simples
  <2> QED
      BY <1>5, <2>1, Said DEF Kick
<1> QED
    BY <1>1, <1>2, <1>3, <1>4, <1>5

\* /afk and /watch change flags.
LEMMA FlagsStep ==
    ASSUME Strong, NEW s \in Sessions, Afk(s) \/ Watch(s)
    PROVE  Strong'
<1>1. CASE Afk(s)
  <2>1. Simple(Step("epoch", s, NoRoom))
      BY Simples
  <2>2. /\ <<Step("epoch", s, NoRoom)>> \in Seq(Call) /\ Plain(<<Step("epoch", s, NoRoom)>>)
        /\ Whole(s, <<Step("epoch", s, NoRoom)>>) /\ script[s] = << >>
      BY <1>1, <2>1, Shorts DEF Afk, Reads, Idle
  <2>3. afk' \in [Sessions -> BOOLEAN]
      BY <1>1 DEF Afk, Strong, Typed, CallersOK
  <2>4. CallersOK' /\ RepliedOK' /\ commands' \in 0 .. MaxCommands /\ s \in Threads
      BY <1>1, <2>3, CountedKept DEF Afk, Reads, Strong, Typed, CallersOK, RepliedOK, Threads
  <2> QED
      BY <1>1, <2>2, <2>4, Given DEF Afk
<1>2. CASE Watch(s)
  <2>1. /\ UNCHANGED <<pc, life, sessions, room, afk, replied, mail, next, rel, publishing, script>>
        /\ commands' \in 0 .. MaxCommands
      BY <1>2, CountedKept DEF Watch, Reads, Strong, Typed
  <2>2. watch' \in [Sessions -> Rooms \cup {NoRoom}] /\ watchall' \in [Sessions -> BOOLEAN]
      BY <1>2 DEF Watch, Strong, Typed, CallersOK
  <2>3. Typed'
    <3>1. CallersOK'
        BY <2>1, <2>2 DEF Strong, Typed, CallersOK
    <3>2. ScriptOK'
        BY <2>1, Rigid DEF Strong, Typed, ScriptOK
    <3> QED
        BY <2>1, <3>1, <3>2, TypedKept DEF Strong, Typed
  <2> QED
      BY <2>1, <2>3, LockedKept, BoxedKept, AccountedKept, LivingKept, HeldKept DEF Strong
<1> QED
    BY <1>1, <1>2

\* on_enter fails, a caller quits, or a console disconnects one: the farewell
\* is for an instance that has been begun.
LEMMA LeavingStep ==
    ASSUME Strong, NEW s \in Sessions,
           EnterRefused(s) \/ Exit(s) \/ \E c \in Consoles : ForcedDisconnect(c, s)
    PROVE  Strong'
<1>0. pc \in [Sessions -> {"none", "run", "exit", "gone"}]
    BY DEF Strong, Typed, CallersOK
<1>1. /\ Step("announced", s, NoRoom) \in Call /\ Step("announced", s, NoRoom).op = "announced"
      /\ Step("announced", s, NoRoom).of = s
      /\ Step("destroy", s, NoRoom) \in Call /\ Step("destroy", s, NoRoom).op = "destroy"
      /\ Step("destroy", s, NoRoom).of = s
      /\ Step("silent", s, NoRoom) \in Call /\ Step("silent", s, NoRoom).op = "silent"
      /\ Step("silent", s, NoRoom).of = s
  <2>1. "announced" \in Ops /\ "destroy" \in Ops /\ "silent" \in Ops /\ NoRoom \in Rooms \cup {NoRoom}
      BY DEF Ops
  <2> QED
      BY <2>1, Calls
<1>2. CASE EnterRefused(s) \/ Exit(s)
  <2>1. /\ pc[s] \in {"none", "run"} /\ pc' = [pc EXCEPT ![s] = "exit"]
        /\ script' = [script EXCEPT ![s] = Farewell(s)]
        /\ UNCHANGED <<life, sessions, room, watch, watchall, afk, replied, mail, next, rel, publishing>>
      BY <1>2 DEF EnterRefused, Exit
  <2>2. commands' \in 0 .. MaxCommands
    <3>1. CASE UNCHANGED commands
        BY <3>1 DEF Strong, Typed, ScriptOK
    <3>2. CASE Exit(s)
        BY <3>2, CountedKept DEF Exit, Strong, Typed
    <3> QED
        BY <1>2, <3>1, <3>2 DEF EnterRefused
  <2>3. pc' \in [Sessions -> {"none", "run", "exit", "gone"}] /\ pc'[s] = "exit"
        /\ \A x \in Sessions \ {s} : pc'[x] = pc[x]
      BY <1>0, <2>1
  <2>4. CallersOK' /\ RepliedOK' /\ s \in Threads
      BY <2>1, <2>3 DEF Strong, Typed, CallersOK, RepliedOK, Threads
  <2>5. Farewell(s) \in Seq(Call) /\ Len(Farewell(s)) = 2
        /\ Farewell(s)[1] = Step("announced", s, NoRoom) /\ Farewell(s)[2] = Step("destroy", s, NoRoom)
      BY <1>1, Tuples DEF Farewell
  <2>6. Plain(Farewell(s)) /\ Whole(s, Farewell(s))
    <3>1. \A i \in 1 .. 2 : i = 1 \/ i = 2
        OBVIOUS
    <3> QED
        BY <1>1, <2>3, <2>5, <3>1 DEF Plain, Whole
  <2>7. script[s] = << >>
      BY <1>2 DEF EnterRefused, Exit, Idle
  <2> QED
      BY <2>1, <2>2, <2>3, <2>4, <2>5, <2>6, <2>7, Given
<1>3. ASSUME NEW c \in Consoles, ForcedDisconnect(c, s) PROVE Strong'
  <2> DEFINE P == <<Step("silent", s, NoRoom)>>
  <2>1. /\ s \in sessions /\ script' = [script EXCEPT ![c] = P] /\ Counted(c, "disconnect")
        /\ UNCHANGED <<callers, replied, mail, next, rel, publishing>>
      BY <1>3 DEF ForcedDisconnect
  <2>2. pc[s] # "none"
      BY <2>1 DEF Strong, Living
  <2>3. P \in Seq(Call) /\ Len(P) = 1 /\ P[1] = Step("silent", s, NoRoom)
      BY <1>1, Tuples
  <2>4. Plain(P) /\ Whole(c, P) /\ script[c] = << >>
      BY <1>1, <1>3, <2>1, <2>2, <2>3 DEF Plain, Whole, ForcedDisconnect, Idle, callers
  <2>5. CallersOK' /\ RepliedOK' /\ commands' \in 0 .. MaxCommands /\ c \in Threads
      BY <2>1, TypedKept, CountedKept DEF Strong, Typed, Threads
  <2> HIDE DEF P
  <2> QED
      BY <2>1, <2>3, <2>4, <2>5, Given DEF callers
<1> QED
    BY <1>2, <1>3

\* A block is dated by the next number, so it is later than all that waits.
LEMMA RelateStep ==
    ASSUME Strong, NEW s \in Sessions, NEW u \in Users, Relate(s, u)
    PROVE  Strong'
<1> DEFINE pair == <<User[s], u>>
<1>1. UNCHANGED <<callers, replied, mail, next, publishing, script>> /\ Counted(s, "relate")
    BY DEF Relate, Reads
<1>2. PICK b \in Tables : \E v \in {0, next, rel[b][pair]} : rel' = [rel EXCEPT ![b][pair] = v]
    BY DEF Relate
<1>3. PICK v \in {0, next, rel[b][pair]} : rel' = [rel EXCEPT ![b][pair] = v]
    BY <1>2
<1>4. pair \in Users \X Users /\ next \in Nat \ {0} /\ rel \in [Tables -> [Users \X Users -> Nat]]
    BY PeopleAssumption DEF Strong, Typed, RowsOK
<1> HIDE DEF pair
<1>5. rel[b][pair] \in Nat /\ v \in Nat
    BY <1>3, <1>4
<1>6. /\ rel' \in [Tables -> [Users \X Users -> Nat]]
      /\ \A x \in Tables, y \in Users \X Users : rel'[x][y] \in {0, next, rel[x][y]}
  <2>1. [rel[b] EXCEPT ![pair] = v] \in [Users \X Users -> Nat]
      BY <1>4, <1>5
  <2>2. rel' = [rel EXCEPT ![b] = [rel[b] EXCEPT ![pair] = v]]
      BY <1>3
  <2>3. rel' \in [Tables -> [Users \X Users -> Nat]]
      BY <1>4, <2>1, <2>2
  <2>4. \A x \in Tables, y \in Users \X Users : rel'[x][y] \in {0, next, rel[x][y]}
      BY <1>3, <1>4, <2>1, <2>2
  <2> QED
      BY <2>3, <2>4
<1>7. Typed'
  <2>1. RowsOK'
      BY <1>1, <1>4, <1>6, Rigid DEF RowsOK
  <2>2. ScriptOK'
      BY <1>1, CountedKept, Rigid DEF Strong, Typed, ScriptOK
  <2> QED
      BY <1>1, <2>1, <2>2, TypedKept DEF Strong, Typed
<1>8. Boxed'
  <2>0. UNCHANGED <<inbox, last, next, pub>>
      BY <1>1 DEF mail, publishing
  <2>1. /\ \A x \in Sessions : last'[x] < next' /\ \A i \in 1 .. Len(inbox'[x]) : inbox'[x][i].seq < next'
        /\ \A t \in Threads : \A x \in pub'[t].todo : \A i \in 1 .. Len(inbox'[x]) :
               inbox'[x][i].seq < pub'[t].event.seq
        /\ InboxOrdered'
      BY <2>0 DEF Strong, Boxed, InboxOrdered
  <2>2. \A x \in Tables, y \in Users \X Users : rel'[x][y] <= next'
    <3> SUFFICES ASSUME NEW x \in Tables, NEW y \in Users \X Users PROVE rel'[x][y] <= next
        BY <2>0
    <3>1. rel'[x][y] \in {0, next, rel[x][y]} /\ rel[x][y] <= next
        BY <1>6 DEF Strong, Boxed
    <3> QED
        BY <1>4, <3>1
  <2>3. BlockHonoured'
    <3> SUFFICES ASSUME NEW x \in Sessions, NEW i \in 1 .. Len(inbox[x]),
                        inbox[x][i].by # NoUser, inbox[x][i].by # User[x],
                        rel'["blocks"][<<User[x], inbox[x][i].by>>] # 0
                 PROVE  inbox[x][i].seq < rel'["blocks"][<<User[x], inbox[x][i].by>>]
        BY <2>0 DEF BlockHonoured
    <3> DEFINE y == <<User[x], inbox[x][i].by>>
    <3>1. inbox[x][i] \in Event
        BY InboxEvents DEF Strong, Typed
    <3>2. y \in Users \X Users /\ "blocks" \in Tables
        BY <3>1, PeopleAssumption DEF Event, Tables
    <3>3. rel'["blocks"][y] \in {0, next, rel["blocks"][y]}
        BY <1>6, <3>2
    <3>4. inbox[x][i].seq < next
        BY DEF Strong, Boxed
    <3>5. rel["blocks"][y] # 0 => inbox[x][i].seq < rel["blocks"][y]
        BY DEF Strong, Boxed, BlockHonoured
    <3> QED
        BY <3>3, <3>4, <3>5
  <2> QED
      BY <2>1, <2>2, <2>3, Rigid DEF Boxed
<1> QED
    BY <1>1, <1>7, <1>8, LockedKept, AccountedKept, LivingKept, HeldKept DEF Strong, callers

-----------------------------------------------------------------------------
(* An inbox is emptied.                                                     *)

\* A box that holds nothing older than l, in order.
InOrder(box, l) ==
    \A i \in 1 .. Len(box) :
        /\ box[i].seq >= l
        /\ \A j \in 1 .. i - 1 : \/ box[j].seq < box[i].seq
                                 \/ box[j].seq = box[i].seq /\ box[i].kind = "notice"

LEMMA OrderedIs == InboxOrdered <=> \A s \in Sessions : InOrder(inbox[s], last[s])
BY DEF InboxOrdered, InOrder

LEMMA OrderedThen == (\A s \in Sessions : InOrder(inbox'[s], last'[s])) => InboxOrdered'
BY DEF InboxOrdered, InOrder

\* Blocks hold of inboxes that get nothing.
LEMMA BlocksStay ==
    ASSUME BlockHonoured, UNCHANGED rel,
           \A s \in Sessions : \A i \in 1 .. Len(inbox'[s]) : \E j \in 1 .. Len(inbox[s]) : inbox'[s][i] = inbox[s][j]
    PROVE  BlockHonoured'
<1> SUFFICES ASSUME NEW s \in Sessions, NEW i \in 1 .. Len(inbox'[s]),
                    inbox'[s][i].by # NoUser, inbox'[s][i].by # User[s],
                    rel["blocks"][<<User[s], inbox'[s][i].by>>] # 0
             PROVE  inbox'[s][i].seq < rel["blocks"][<<User[s], inbox'[s][i].by>>]
    BY DEF BlockHonoured
<1>1. PICK j \in 1 .. Len(inbox[s]) : inbox'[s][i] = inbox[s][j]
    OBVIOUS
<1> QED
    BY <1>1 DEF BlockHonoured

\* What is left of an inbox after its first n events.
LEMMA Dropped ==
    ASSUME NEW box \in Seq(Event), NEW n \in 0 .. Len(box)
    PROVE  LET b == SubSeq(box, n + 1, Len(box))
           IN  /\ b \in Seq(Event) /\ Len(b) = Len(box) - n
               /\ \A i \in 1 .. Len(b) : b[i] = box[i + n] /\ i + n \in 1 .. Len(box)
<1> DEFINE m == n + 1
           k == Len(box)
<1>1. k \in Nat /\ n \in Nat /\ n <= k /\ m \in Int /\ k \in Int
    BY LenProperties
<1>2. \A i \in m .. k : box[i] \in Event
    BY <1>1, ElementOfSeq
<1>3. /\ SubSeq(box, m, k) \in Seq(Event) /\ Len(SubSeq(box, m, k)) = (IF m <= k THEN k - m + 1 ELSE 0)
      /\ \A i \in 1 .. k - m + 1 : SubSeq(box, m, k)[i] = box[m + i - 1]
  <2> HIDE DEF m, k
  <2> QED
      BY <1>1, <1>2, SubSeqProperties
<1>4. Len(SubSeq(box, m, k)) = k - n /\ k - m + 1 = k - n
    BY <1>1, <1>3
<1>5. ASSUME NEW i \in 1 .. k - n PROVE SubSeq(box, m, k)[i] = box[i + n] /\ i + n \in 1 .. k
  <2>1. m + i - 1 = i + n /\ i + n \in 1 .. k
      BY <1>1
  <2> QED
      BY <1>3, <1>4, <2>1
<1> QED
    BY <1>3, <1>4, <1>5

\* flush() takes the oldest events, and the rest is later.
LEMMA DrainStep ==
    ASSUME Strong, NEW s \in Sessions, Drain(s)
    PROVE  Strong'
<1> DEFINE box == inbox[s]
           n == IF Len(box) < Batch THEN Len(box) ELSE Batch
           b == SubSeq(box, n + 1, Len(box))
           l == IF n = 0 THEN last[s] ELSE box[n].seq
<1>1. /\ pc[s] = "run" /\ inbox' = [inbox EXCEPT ![s] = b] /\ last' = [last EXCEPT ![s] = l]
      /\ owed' = [owed EXCEPT ![s] = owed[s] - (n + skipped[s])] /\ skipped' = [skipped EXCEPT ![s] = 0]
      /\ UNCHANGED <<callers, replied, next, rel, publishing, script, commands>>
    BY DEF Drain
<1>2. box \in Seq(Event) /\ Len(box) \in Nat /\ Len(box) <= Capacity
      /\ \A i \in 1 .. Len(box) : box[i] \in Event /\ box[i].seq \in Nat
    BY InboxEvents DEF Strong, Typed, MailOK
<1>3. n \in 0 .. Len(box)
    BY <1>2, LimitsAssumption
<1>4. /\ b \in Seq(Event) /\ Len(b) = Len(box) - n
      /\ \A i \in 1 .. Len(b) : b[i] = box[i + n] /\ i + n \in 1 .. Len(box)
    BY <1>2, <1>3, Dropped
<1>5. /\ inbox \in [Sessions -> Seq(Event)] /\ skipped \in [Sessions -> Nat] /\ last \in [Sessions -> Nat]
      /\ owed \in [Sessions -> Nat] /\ next \in Nat
    BY DEF Strong, Typed, MailOK, RowsOK
<1>6. owed[s] = Len(box) + skipped[s]
    BY <1>1 DEF Strong, Accounted
<1>7. l \in Nat /\ l < next /\ \A i \in 1 .. Len(box) : box[i].seq < next
  <2>1. last[s] \in Nat /\ last[s] < next /\ \A i \in 1 .. Len(box) : box[i].seq < next
      BY <1>5 DEF Strong, Boxed
  <2>2. CASE n = 0
    <3>1. l = last[s]
        BY <2>2
    <3> QED
        BY <2>1, <3>1
  <2>3. CASE n # 0
    <3>1. l = box[n].seq /\ n \in 1 .. Len(box)
        BY <1>2, <1>3, <2>3
    <3> HIDE DEF l, n
    <3> QED
        BY <1>2, <2>1, <3>1
  <2> QED
      BY <2>2, <2>3
<1>8. \A i \in 1 .. Len(b) : b[i].seq >= l
  <2> SUFFICES ASSUME NEW i \in 1 .. Len(b) PROVE b[i].seq >= l
      OBVIOUS
  <2>1. b[i] = box[i + n] /\ i + n \in 1 .. Len(box)
      BY <1>4
  <2>2. CASE n = 0
      BY <2>1, <2>2 DEF Strong, Boxed, InboxOrdered
  <2>3. CASE n # 0
    <3>1. n \in 1 .. (i + n) - 1 /\ n \in 1 .. Len(box)
        BY <1>3, <1>2, <2>3
    <3>2. box[n].seq < box[i + n].seq \/ box[n].seq = box[i + n].seq
        BY <2>1, <3>1 DEF Strong, Boxed, InboxOrdered
    <3>3. box[n].seq \in Nat /\ box[i + n].seq \in Nat
        BY <1>2, <2>1, <3>1
    <3>4. l = box[n].seq
        BY <2>3
    <3> HIDE DEF l, n, b
    <3> QED
        BY <2>1, <3>2, <3>3, <3>4
  <2> QED
      BY <2>2, <2>3
<1> HIDE DEF b, l, n
<1>9. /\ inbox'[s] = b /\ last'[s] = l /\ skipped'[s] = 0 /\ owed'[s] = Len(box) - n
      /\ inbox' \in [Sessions -> Seq(Event)] /\ last' \in [Sessions -> Nat]
      /\ skipped' \in [Sessions -> Nat] /\ owed' \in [Sessions -> Nat]
      /\ \A x \in Sessions \ {s} : /\ inbox'[x] = inbox[x] /\ last'[x] = last[x]
                                   /\ owed'[x] = owed[x] /\ skipped'[x] = skipped[x]
  <2> DEFINE k == owed[s] - (n + skipped[s])
  <2>1. k = Len(box) - n /\ k \in Nat
      BY <1>2, <1>3, <1>5, <1>6
  <2> HIDE DEF k
  <2>2. owed' = [owed EXCEPT ![s] = k]
      BY <1>1 DEF k
  <2> QED
      BY <1>1, <1>4, <1>5, <1>7, <2>1, <2>2
<1>a. Typed'
  <2>1. \A x \in Sessions : Len(inbox'[x]) <= Capacity
    <3>1. Len(b) <= Capacity
        BY <1>2, <1>3, <1>4, LimitsAssumption
    <3> QED
        BY <1>9, <3>1 DEF Strong, Typed, MailOK
  <2>2. MailOK'
      BY <1>9, <2>1, Rigid DEF MailOK
  <2> QED
      BY <1>1, <2>2, TypedKept DEF Strong, Typed
<1>b. Accounted'
  <2>1. owed'[s] = Len(inbox'[s]) + skipped'[s]
      BY <1>2, <1>3, <1>4, <1>9
  <2> QED
      BY <1>1, <1>9, <2>1 DEF Strong, Accounted, callers
<1>c. Boxed'
  <2>1. \A x \in Sessions : last'[x] < next' /\ \A i \in 1 .. Len(inbox'[x]) : inbox'[x][i].seq < next'
      BY <1>1, <1>4, <1>7, <1>9 DEF Strong, Boxed
  <2>2. \A t \in Threads : \A x \in pub'[t].todo : \A i \in 1 .. Len(inbox'[x]) :
             inbox'[x][i].seq < pub'[t].event.seq
    <3> SUFFICES ASSUME NEW t \in Threads, NEW x \in pub[t].todo, NEW i \in 1 .. Len(inbox'[x])
                 PROVE  inbox'[x][i].seq < pub[t].event.seq
        BY <1>1 DEF publishing
    <3>1. x \in Sessions
        BY DEF Strong, Typed, PubOK, Publication
    <3>2. \A j \in 1 .. Len(inbox[x]) : inbox[x][j].seq < pub[t].event.seq
        BY DEF Strong, Boxed
    <3>3. CASE x = s
        BY <1>4, <1>9, <3>2, <3>3
    <3>4. CASE x # s
        BY <1>9, <3>1, <3>2, <3>4
    <3> QED
        BY <3>3, <3>4
  <2>3. \A x \in Tables, y \in Users \X Users : rel'[x][y] <= next'
      BY <1>1 DEF Strong, Boxed
  <2>4. InboxOrdered'
    <3>1. ASSUME NEW i \in 1 .. Len(b), NEW j \in 1 .. i - 1
          PROVE  b[j].seq < b[i].seq \/ (b[j].seq = b[i].seq /\ b[i].kind = "notice")
      <4>1. j \in 1 .. Len(b) /\ j + n \in 1 .. (i + n) - 1
          BY <1>2, <1>3, <1>4
      <4>2. b[j] = box[j + n] /\ b[i] = box[i + n] /\ i + n \in 1 .. Len(box)
          BY <1>4, <4>1
      <4> QED
          BY <4>1, <4>2 DEF Strong, Boxed, InboxOrdered
    <3>2. \A x \in Sessions : inbox[x] = inbox'[x] /\ last[x] = last'[x] => InOrder(inbox'[x], last'[x])
        BY OrderedIs DEF Strong, Boxed
    <3>3. InOrder(inbox'[s], last'[s])
        BY <1>8, <1>9, <3>1 DEF InOrder
    <3>4. \A x \in Sessions : InOrder(inbox'[x], last'[x])
        BY <1>9, <3>2, <3>3
    <3> QED
        BY <3>4, OrderedThen
  <2>5. BlockHonoured'
    <3> SUFFICES ASSUME NEW x \in Sessions, NEW i \in 1 .. Len(inbox'[x])
                 PROVE  \E j \in 1 .. Len(inbox[x]) : inbox'[x][i] = inbox[x][j]
        BY <1>1, BlocksStay DEF Strong, Boxed
    <3>1. CASE x = s
        BY <1>4, <1>9, <3>1
    <3>2. CASE x # s
        BY <1>9, <3>2
    <3> QED
        BY <3>1, <3>2
  <2> QED
      BY <2>1, <2>2, <2>3, <2>4, <2>5, Rigid DEF Boxed
<1> QED
    BY <1>1, <1>a, <1>b, <1>c, LockedKept, LivingKept, HeldKept DEF Strong, callers

\* destroy.
LEMMA DestroyStep ==
    ASSUME Strong, NEW t \in Threads, Destroy(t)
    PROVE  Strong'
<1>1. /\ Due(t, "destroy") /\ Done(t)
      /\ UNCHANGED <<sessions, watch, watchall, next, rel, publishing, commands>>
    BY DEF Destroy
<1>2. /\ inbox \in [Sessions -> Seq(Event)] /\ skipped \in [Sessions -> Nat] /\ last \in [Sessions -> Nat]
      /\ owed \in [Sessions -> Nat] /\ << >> \in Seq(Event) /\ Len(<< >>) = 0 /\ 0 <= Capacity
      /\ \A x \in Sessions : Len(inbox[x]) <= Capacity
    BY LimitsAssumption, EmptySeq DEF Strong, Typed, MailOK
<1>3. /\ inbox' \in [Sessions -> Seq(Event)] /\ skipped' \in [Sessions -> Nat] /\ last' \in [Sessions -> Nat]
      /\ owed' \in [Sessions -> Nat]
      /\ \A x \in Sessions \ {t} : /\ inbox'[x] = inbox[x] /\ last'[x] = last[x]
                                   /\ owed'[x] = owed[x] /\ skipped'[x] = skipped[x]
      /\ t \in Sessions => inbox'[t] = << >> /\ last'[t] = 0
    BY <1>2 DEF Destroy
<1>4. MailOK'
    BY <1>2, <1>3, Rigid DEF MailOK
<1>5. /\ pc' \in [Sessions -> {"none", "run", "exit", "gone"}]
      /\ \A x \in Sessions \ {t} : pc'[x] = pc[x]
      /\ t \in Sessions => pc'[t] = "gone"
    BY DEF Destroy, Strong, Typed, CallersOK
<1>6. CallersOK' /\ RepliedOK'
  <2>1. room' \in [Sessions -> Rooms \cup {NoRoom}] /\ afk' \in [Sessions -> BOOLEAN]
        /\ replied' \in [Sessions -> SUBSET Users]
        /\ life' \in [Sessions -> {"created", "entered", "exiting", "exited", "destroyed"}]
      BY DEF Destroy, Strong, Typed, CallersOK, RepliedOK
  <2> QED
      BY <1>1, <1>5, <2>1 DEF Strong, Typed, CallersOK, RepliedOK
<1>7. /\ Head(script[t]).op = "destroy" /\ script[t][1] = Head(script[t]) /\ script[t] # << >>
      /\ Head(script[t]).of \in Sessions /\ Has(t, 1, "destroy", Head(script[t]).of)
    BY <1>1, DueCall DEF Strong
<1>8. /\ Prefixed(t, << >>, Tail(script[t]), 1) /\ Plain(<< >>)
      /\ Adds(t, << >>) /\ Keeps(t, Tail(script[t]), 1)
    BY <1>1, <1>7, DoneFirst DEF Strong
<1>d. t \in Sessions /\ life[t] \in Ending /\ life' = [life EXCEPT ![t] = "destroyed"]
      /\ life'[t] = "destroyed" /\ \A x \in Sessions \ {t} : life'[x] = life[x]
  <2>1. 1 \in Nat /\ \A j \in Nat : j + 1 = 1 => ~Has(t, j, "announced", t)
      BY DEF Has
  <2>2. t = Head(script[t]).of /\ life[t] \in Ending
      BY <1>7, <2>1 DEF Strong, Held
  <2> QED
      BY <1>7, <2>2 DEF Destroy, Strong, Typed, CallersOK
<1>e. /\ \A x \in Sessions : Alive(x)'
      /\ \A x \in Threads, y \in Sessions, i \in Nat :
            Has(x, i, "exited", y) => life'[y] \in Ending /\ (y \in sessions' => y \in sessions)
    BY <1>1, <1>5, <1>d DEF Strong, Living, Alive, Ending
<1>9. Typed'
  <2>1. ScriptOK'
      BY <1>1, <1>8, ScriptThen DEF Strong, Typed, ScriptOK
  <2> QED
      BY <1>1, <1>4, <1>6, <2>1, TypedKept DEF Strong, Typed
<1>a. Accounted'
    BY <1>3, <1>5 DEF Strong, Accounted
<1>b. Boxed'
  <2>0. t \in Sessions => 1 .. Len(inbox'[t]) = {} /\ last'[t] = 0
      BY <1>2, <1>3
  <2>1. ASSUME NEW x \in Sessions
        PROVE  last'[x] < next' /\ \A i \in 1 .. Len(inbox'[x]) : inbox'[x][i].seq < next'
    <3>1. CASE x = t
        BY <1>1, <2>0, <3>1 DEF Strong, Typed, RowsOK
    <3>2. CASE x # t
      <4>1. inbox'[x] = inbox[x] /\ last'[x] = last[x]
          BY <1>3, <3>2
      <4> QED
          BY <1>1, <4>1 DEF Strong, Boxed
    <3> QED
        BY <3>1, <3>2
  <2>2. \A y \in Threads : \A x \in pub'[y].todo : \A i \in 1 .. Len(inbox'[x]) :
             inbox'[x][i].seq < pub'[y].event.seq
    <3> SUFFICES ASSUME NEW y \in Threads, NEW x \in pub[y].todo, NEW i \in 1 .. Len(inbox'[x])
                 PROVE  inbox'[x][i].seq < pub[y].event.seq
        BY <1>1 DEF publishing
    <3>1. x \in Sessions
        BY DEF Strong, Typed, PubOK, Publication
    <3>2. x # t /\ inbox'[x] = inbox[x]
        BY <1>3, <2>0, <3>1
    <3> QED
        BY <3>2 DEF Strong, Boxed
  <2>3. \A x \in Tables, y \in Users \X Users : rel'[x][y] <= next'
      BY <1>1 DEF Strong, Boxed
  <2>4. InboxOrdered'
    <3>1. ASSUME NEW x \in Sessions PROVE InOrder(inbox'[x], last'[x])
      <4>1. CASE x = t
          BY <2>0, <4>1 DEF InOrder
      <4>2. CASE x # t
        <5>1. inbox'[x] = inbox[x] /\ last'[x] = last[x]
            BY <1>3, <4>2
        <5> QED
            BY <5>1, OrderedIs DEF Strong, Boxed
      <4> QED
          BY <4>1, <4>2
    <3> QED
        BY <3>1, OrderedThen
  <2>5. BlockHonoured'
    <3> SUFFICES ASSUME NEW x \in Sessions, NEW i \in 1 .. Len(inbox'[x])
                 PROVE  \E j \in 1 .. Len(inbox[x]) : inbox'[x][i] = inbox[x][j]
        BY <1>1, BlocksStay DEF Strong, Boxed
    <3>1. x # t /\ inbox'[x] = inbox[x]
        BY <1>3, <2>0
    <3> QED
        BY <3>1
  <2> QED
      BY <2>1, <2>2, <2>3, <2>4, <2>5, Rigid DEF Boxed
<1>c. Living'
  <2>1. \A x \in Sessions : pc'[x] = "none" => pc[x] = "none"
      BY <1>5
  <2> QED
      BY <1>1, <1>5, <1>7, <1>8, <1>d, <1>e, <2>1, LivingThen DEF Strong
<1>f. Held'
  <2>1. \A x \in Sessions : life[x] \in Ending => life'[x] \in Ending
      BY <1>d DEF Ending
  <2>2. sessions' \subseteq Sessions
      BY <1>1 DEF Strong, Typed, CallersOK
  <2>3. \A x \in sessions' : life'[x] # "entered" => x \in sessions /\ life[x] # "entered"
      BY <1>1, <1>d DEF Ending
  <2> QED
      BY <1>1, <1>7, <1>8, <2>1, <2>2, <2>3, HeldThen DEF Strong
<1> QED
    BY <1>1, <1>9, <1>a, <1>b, <1>c, <1>f, LockedKept DEF Strong

-----------------------------------------------------------------------------
(* Coming and going.                                                        *)

\* A step of coming and going: it changes a script, the list and a lifecycle.
LEMMA Moves ==
    ASSUME Strong, NEW t \in Threads, NEW P, NEW Q, NEW d, Prefixed(t, P, Q, d),
           UNCHANGED <<replied, mail, next, rel, publishing>>,
           commands' \in 0 .. MaxCommands, CallersOK', Living', Held',
           \A s \in Sessions : pc[s] = "gone" => pc'[s] = "gone"
    PROVE  Strong'
<1>1. ScriptOK'
    BY ScriptThen DEF Strong
<1>2. Typed'
    BY <1>1, TypedKept DEF Strong, Typed
<1>3. Locked' /\ Boxed'
    BY LockedKept, BoxedKept DEF Strong
<1>4. Accounted'
    BY DEF Strong, Accounted, mail
<1> QED
    BY <1>2, <1>3, <1>4 DEF Strong

\* on_enter registers the instance.
LEMMA EnterStep ==
    ASSUME Strong, NEW s \in Sessions, Enter(s)
    PROVE  Strong'
<1>1. /\ pc[s] = "none" /\ Cardinality(sessions) < MaxUsers /\ pc' = [pc EXCEPT ![s] = "run"]
      /\ life' = [life EXCEPT ![s] = "entered"] /\ sessions' = sessions \cup {s}
      /\ UNCHANGED <<room, watch, watchall, afk, replied, mail, next, rel, publishing, commands>>
    BY DEF Enter
<1>2. PICK r \in Rooms : script' = [script EXCEPT ![s] = <<Step("join", s, r)>>]
    BY DEF Enter
<1> DEFINE P == <<Step("join", s, r)>>
<1>3. P \in Seq(Call) /\ Plain(P) /\ Whole(s, P) /\ script[s] = << >>
  <2>1. Simple(Step("join", s, r))
      BY Simples
  <2> QED
      BY <2>1, Shorts DEF Enter, Idle
<1> HIDE DEF P
<1>4. s \in Threads /\ Prefixed(s, P, << >>, 0) /\ Adds(s, P) /\ Keeps(s, << >>, 0)
  <2>1. s \in Threads /\ script' = [script EXCEPT ![s] = P]
      BY <1>2 DEF Threads, P
  <2>2. Prefixed(s, P, << >>, 0)
      BY <1>3, <2>1, Afresh DEF Strong
  <2>3. Len(<< >>) = 0 /\ Len(<< >>) + 0 = 0
      BY EmptySeq
  <2> QED
      BY <1>3, <2>1, <2>2, <2>3 DEF Adds, Keeps
<1>5. life[s] = "created"
    BY <1>1 DEF Strong, Living
<1>6. /\ pc' \in [Sessions -> {"none", "run", "exit", "gone"}] /\ pc'[s] = "run"
      /\ life' \in [Sessions -> {"created", "entered", "exiting", "exited", "destroyed"}] /\ life'[s] = "entered"
      /\ \A x \in Sessions \ {s} : pc'[x] = pc[x] /\ life'[x] = life[x]
    BY <1>1 DEF Strong, Typed, CallersOK
<1>7. CallersOK'
  <2>1. IsFiniteSet(sessions') /\ sessions' \subseteq Sessions
      BY <1>1, FS_AddElement DEF Strong, Typed, CallersOK
  <2>2. Cardinality(sessions') <= MaxUsers
    <3>1. IsFiniteSet(sessions) /\ Cardinality(sessions) \in Nat
        BY FS_CardinalityType DEF Strong, Typed, CallersOK
    <3>2. Cardinality(sessions') = Cardinality(sessions) \/ Cardinality(sessions') = Cardinality(sessions) + 1
        BY <1>1, <3>1, FS_AddElement
    <3> QED
        BY <1>1, <3>1, <3>2, LimitsAssumption
  <2> QED
      BY <1>1, <1>6, <2>1, <2>2 DEF Strong, Typed, CallersOK
<1>8. Living'
  <2>1. \A x \in Sessions : Alive(x)'
      BY <1>1, <1>6 DEF Strong, Living, Alive
  <2>2. ASSUME NEW x \in Threads, NEW y \in Sessions, NEW i \in Nat, Has(x, i, "exited", y)
        PROVE  life'[y] \in Ending /\ (y \in sessions' => y \in sessions)
    <3>1. life[y] \in Ending
        BY <2>2 DEF Strong, Living
    <3> QED
        BY <1>1, <1>5, <1>6, <3>1 DEF Ending
  <2>3. \A x \in Sessions : pc'[x] = "none" => pc[x] = "none"
      BY <1>6
  <2> QED
      BY <1>3, <1>4, <2>1, <2>2, <2>3, LivingThen DEF Strong
<1>9. Held'
  <2>1. \A x \in Sessions : life[x] \in Ending => life'[x] \in Ending
      BY <1>5, <1>6 DEF Ending
  <2>2. sessions' \subseteq Sessions
      BY <1>1 DEF Strong, Typed, CallersOK
  <2>3. \A x \in sessions' : life'[x] # "entered" => x \in sessions /\ life[x] # "entered"
      BY <1>1, <1>6, <2>2
  <2> QED
      BY <1>4, <2>1, <2>2, <2>3, HeldThen DEF Strong
<1> QED
    BY <1>1, <1>4, <1>6, <1>7, <1>8, <1>9, Moves DEF Strong, Typed, ScriptOK

\* mts_leave takes the instance off the list.
LEMMA RemoveStep ==
    ASSUME Strong, NEW t \in Threads, Remove(t)
    PROVE  Strong'
<1> DEFINE c == Head(script[t])
           s == c.of
<1>1. /\ Due(t, "remove") /\ sessions' = sessions \ {s} /\ Done(t)
      /\ UNCHANGED <<pc, life, room, watch, watchall, afk, replied, mail, next, rel, publishing, commands>>
    BY DEF Remove
<1>2. s \in Sessions /\ c.op = "remove" /\ script[t][1] = c /\ script[t] # << >> /\ Has(t, 1, "remove", s)
    BY <1>1, DueCall DEF Strong
<1>3. /\ Prefixed(t, << >>, Tail(script[t]), 1) /\ Plain(<< >>)
      /\ Adds(t, << >>) /\ Keeps(t, Tail(script[t]), 1)
    BY <1>1, <1>2, DoneFirst DEF Strong
<1>4. life[s] \in Ending
  <2>1. 1 \in Nat /\ 1 + 1 \in Nat
      OBVIOUS
  <2>2. Has(t, 1 + 1, "exited", s)
      BY <1>2, <2>1 DEF Strong, Living
  <2>3. PICK k \in Nat : Has(t, k, "exited", s)
      BY <2>1, <2>2
  <2> QED
      BY <1>2, <2>3 DEF Strong, Living
<1>5. CallersOK'
  <2>1. IsFiniteSet(sessions') /\ sessions' \subseteq sessions
      BY <1>1, FS_Subset DEF Strong, Typed, CallersOK
  <2>2. Cardinality(sessions') <= MaxUsers
    <3>1. IsFiniteSet(sessions) /\ Cardinality(sessions) \in Nat /\ Cardinality(sessions) <= MaxUsers
        BY FS_CardinalityType DEF Strong, Typed, CallersOK
    <3>2. Cardinality(sessions') \in Nat /\ Cardinality(sessions') <= Cardinality(sessions)
        BY <2>1, <3>1, FS_Subset, FS_CardinalityType
    <3> QED
        BY <3>1, <3>2, LimitsAssumption
  <2> QED
      BY <1>1, <2>1, <2>2 DEF Strong, Typed, CallersOK
<1> HIDE DEF c, s
<1>6. Living'
  <2>1. \A x \in Sessions : Alive(x)'
      BY <1>1, <1>4 DEF Strong, Living, Alive, Ending
  <2>2. \A x \in Threads, y \in Sessions, i \in Nat :
           Has(x, i, "exited", y) => life'[y] \in Ending /\ (y \in sessions' => y \in sessions)
      BY <1>1 DEF Strong, Living
  <2>3. script[t][1].of \notin sessions'
      BY <1>1, <1>2 DEF s
  <2> QED
      BY <1>1, <1>3, <2>1, <2>2, <2>3, LivingThen DEF Strong
<1>7. Held'
  <2>1. sessions' \subseteq sessions /\ sessions' \subseteq Sessions
      BY <1>1 DEF Strong, Typed, CallersOK
  <2>2. script[t][1].of \in Sessions /\ script[t][1].op = "remove"
      BY <1>2 DEF s
  <2> QED
      BY <1>1, <1>2, <1>3, <2>1, <2>2, HeldThen DEF Strong
<1> QED
    BY <1>1, <1>3, <1>5, <1>6, <1>7, Moves DEF Strong, Typed, ScriptOK

\* The end of cleanup_instance: the instance was taken off the list, and no one
\* else cleans it up.
LEMMA ExitedStep ==
    ASSUME Strong, NEW t \in Threads, Exited(t)
    PROVE  Strong'
<1> DEFINE c == Head(script[t])
           s == c.of
<1>1. /\ Due(t, "exited") /\ Done(t)
      /\ life' = [life EXCEPT ![s] = IF pc[s] = "gone" THEN life[s] ELSE "exited"]
      /\ UNCHANGED <<pc, sessions, room, watch, watchall, afk, replied, mail, next, rel, publishing, commands>>
    BY DEF Exited
<1>2. s \in Sessions /\ c.op = "exited" /\ script[t][1] = c /\ script[t] # << >> /\ Has(t, 1, "exited", s)
    BY <1>1, DueCall DEF Strong
<1>3. /\ Prefixed(t, << >>, Tail(script[t]), 1) /\ Plain(<< >>)
      /\ Adds(t, << >>) /\ Keeps(t, Tail(script[t]), 1)
    BY <1>1, <1>2, DoneFirst DEF Strong
<1>4. life[s] \in Ending /\ s \notin sessions
  <2>1. 1 \in Nat
      OBVIOUS
  <2>2. life[s] \in Ending /\ (s \in sessions => \E j \in Nat : j + 1 = 1 /\ Has(t, j, "remove", s))
      BY <1>2, <2>1 DEF Strong, Living
  <2>3. ASSUME NEW j \in Nat, j + 1 = 1 PROVE ~Has(t, j, "remove", s)
      BY <2>3 DEF Has
  <2> QED
      BY <2>2, <2>3
<1>5. /\ life' \in [Sessions -> {"created", "entered", "exiting", "exited", "destroyed"}] /\ life'[s] \in Ending
      /\ \A x \in Sessions \ {s} : life'[x] = life[x]
    BY <1>1, <1>2, <1>4 DEF Strong, Typed, CallersOK, Ending
<1>6. CallersOK'
    BY <1>1, <1>5 DEF Strong, Typed, CallersOK
<1> HIDE DEF c, s
<1>7. Living'
  <2>1. \A x \in Sessions : Alive(x)'
      BY <1>1, <1>4, <1>5 DEF Strong, Living, Alive, Ending
  <2>2. ASSUME NEW x \in Threads, NEW y \in Sessions, NEW i \in Nat,
               Has(x, i, "exited", y), ~(x = t /\ i <= 1)
        PROVE  life'[y] \in Ending /\ (y \in sessions' => y \in sessions)
    <3>1. life[y] \in Ending
        BY <2>2 DEF Strong, Living
    <3>2. y # s
      <4>1. 1 \in Nat
          OBVIOUS
      <4>2. y = s => x = t /\ i = 1
          BY <1>2, <2>2, <4>1 DEF Strong, Living
      <4> QED
          BY <2>2, <4>2
    <3> QED
        BY <1>1, <1>5, <3>1, <3>2
  <2>3. script[t][1].op # "remove"
      BY <1>2
  <2> QED
      BY <1>1, <1>3, <2>1, <2>2, <2>3, LivingThen DEF Strong
<1>8. Held'
  <2>1. script[t][1].of = s /\ script[t][1].op = "exited"
      BY <1>2 DEF s
  <2>2. sessions' \subseteq Sessions
      BY <1>1 DEF Strong, Typed, CallersOK
  <2>3. \A x \in sessions' : x # s /\ x \in sessions /\ life'[x] = life[x]
      BY <1>1, <1>4, <1>5, <2>2
  <2>4. \A x \in Sessions : life[x] \in Ending => life'[x] \in Ending
      BY <1>5
  <2> QED
      BY <1>2, <1>3, <2>1, <2>2, <2>3, <2>4, HeldThen DEF Strong
<1> QED
    BY <1>1, <1>3, <1>6, <1>7, <1>8, Moves DEF Strong, Typed, ScriptOK

\* The first to clean up an instance that was entered takes it in hand.
LEMMA TakenInHand ==
    ASSUME Strong, NEW t \in Threads, NEW s \in Sessions, NEW L, NEW P, NEW Q, Prefixed(t, P, Q, 1),
           Q # << >> => script[t][1].op # "remove",
           L \in {0, 1}, Len(P) = L + 2,
           L = 1 => P[1].op = "here",
           P[L + 1].op = "remove", P[L + 1].of = s, P[L + 2].op = "exited", P[L + 2].of = s,
           life[s] = "entered", life' = [life EXCEPT ![s] = "exiting"], UNCHANGED <<pc, sessions>>
    PROVE  Living'
<1>0. ScriptOK /\ Threads' = Threads /\ life'[s] \in Ending /\ \A y \in Sessions \ {s} : life'[y] = life[y]
    BY Rigid DEF Strong, Typed, CallersOK, Ending
<1>1. /\ \A x \in Threads \ {t} : script'[x] = script[x]
      /\ \A op, y : \A i \in Nat :
           Has(t, i, op, y)' <=>
             \/ i \in 1 .. Len(P) /\ P[i].op = op /\ P[i].of = y
             \/ /\ i > Len(P) /\ i - Len(P) <= Len(Q)
                /\ Has(t, i - Len(P) + 1, op, y)
    BY <1>0, HasThen
<1>2. Len(Q) \in Nat /\ Len(script[t]) \in Nat
      /\ (Q = << >> \/ Len(Q) + 1 = Len(script[t])) /\ (Len(Q) > 0 => Q # << >>)
    BY <1>0, LenProperties DEF Prefixed, ScriptOK
<1>3. \A x \in Threads \ {t} : \A i, op, y : Has(x, i, op, y)' <=> Has(x, i, op, y)
    BY <1>1 DEF Has
<1>4. \A i \in 1 .. Len(P) : /\ i \in {L + 1, L + 2} \/ P[i].op = "here"
                             /\ P[i].op = "remove" <=> i = L + 1
                             /\ P[i].op = "exited" <=> i = L + 2
                             /\ P[i].op \notin {"announced", "silent"}
  <2>1. CASE L = 0
      BY <2>1
  <2>2. CASE L = 1
      BY <2>2
  <2> QED
      BY <2>1, <2>2
<1>5. \A i, op, y : i > Len(P) /\ i - Len(P) <= Len(Q) /\ i \in Nat => i - Len(P) + 1 \in Nat
    BY <1>2
<1>6. \A x \in Threads, i \in Nat : ~Has(x, i, "exited", s) /\ ~Has(x, i, "remove", s)
  <2> SUFFICES ASSUME NEW x \in Threads, NEW i \in Nat, Has(x, i, "exited", s) \/ Has(x, i, "remove", s)
               PROVE  FALSE
      OBVIOUS
  <2>1. PICK k \in Nat : Has(x, k, "exited", s)
    <3>1. i + 1 \in Nat
        OBVIOUS
    <3> QED
        BY <3>1 DEF Strong, Living
  <2> QED
      BY <2>1 DEF Strong, Living, Ending
<1>7. \A y \in Sessions : /\ life'[y] = "entered" => y \in sessions'
                          /\ y \in sessions' => life'[y] \in {"entered", "exiting", "destroyed"}
                          /\ pc'[y] = "none" => life'[y] = "created"
    BY <1>0 DEF Strong, Living
<1>8. \A x \in Threads, y \in Sessions, i \in Nat :
         Has(x, i, "announced", y)' \/ Has(x, i, "silent", y)' => pc'[y] # "none"
  <2> SUFFICES ASSUME NEW x \in Threads, NEW y \in Sessions, NEW i \in Nat,
                      Has(x, i, "announced", y)' \/ Has(x, i, "silent", y)'
               PROVE  pc[y] # "none"
      OBVIOUS
  <2>1. PICK k \in Nat : Has(x, k, "announced", y) \/ Has(x, k, "silent", y)
    <3>1. CASE x # t
        BY <1>3, <3>1
    <3>2. CASE x = t
        BY <1>1, <1>4, <1>5, <3>2
    <3> QED
        BY <3>1, <3>2
  <2> QED
      BY <2>1 DEF Strong, Living
<1>9. \A x \in Threads, y \in Sessions, i \in Nat : Has(x, i, "remove", y)' => Has(x, i + 1, "exited", y)'
  <2> SUFFICES ASSUME NEW x \in Threads, NEW y \in Sessions, NEW i \in Nat, Has(x, i, "remove", y)'
               PROVE  Has(x, i + 1, "exited", y)'
      OBVIOUS
  <2>0. i + 1 \in Nat
      OBVIOUS
  <2>1. CASE x # t
      BY <1>3, <2>1 DEF Strong, Living
  <2>2. CASE x = t /\ i \in 1 .. Len(P)
    <3>1. P[i].op = "remove" /\ P[i].of = y
        BY <1>1, <2>2
    <3>2. i = L + 1 /\ y = s
        BY <1>4, <2>2, <3>1
    <3>3. i + 1 = L + 2 /\ i + 1 \in 1 .. Len(P)
        BY <3>2
    <3> QED
        BY <1>1, <2>0, <2>2, <3>2, <3>3
  <2>3. CASE x = t /\ i \notin 1 .. Len(P)
    <3>1. i > Len(P) /\ i - Len(P) <= Len(Q) /\ Has(t, i - Len(P) + 1, "remove", y)
        BY <1>1, <2>3
    <3>2. Has(t, (i - Len(P) + 1) + 1, "exited", y)
        BY <1>5, <3>1 DEF Strong, Living
    <3>3. (i + 1) - Len(P) + 1 = (i - Len(P) + 1) + 1 /\ i + 1 > Len(P)
        BY <1>2, <3>1
    <3>4. (i + 1) - Len(P) <= Len(Q)
        BY <1>2, <3>1, <3>2, <3>3 DEF Has
    <3> QED
        BY <1>1, <2>0, <2>3, <3>2, <3>3, <3>4
  <2> QED
      BY <2>1, <2>2, <2>3
<1>a. \A x \in Threads, y \in Sessions, i \in Nat :
         Has(x, i, "exited", y)' =>
            /\ life'[y] \in Ending
            /\ y \in sessions' => \E j \in Nat : j + 1 = i /\ Has(x, j, "remove", y)'
  <2> SUFFICES ASSUME NEW x \in Threads, NEW y \in Sessions, NEW i \in Nat, Has(x, i, "exited", y)'
               PROVE  /\ life'[y] \in Ending
                      /\ y \in sessions => \E j \in Nat : j + 1 = i /\ Has(x, j, "remove", y)'
      OBVIOUS
  <2>1. CASE x # t
    <3>1. Has(x, i, "exited", y)
        BY <1>3, <2>1
    <3>2. life[y] \in Ending /\ y # s
        BY <1>6, <3>1 DEF Strong, Living
    <3>3. y \in sessions => \E j \in Nat : j + 1 = i /\ Has(x, j, "remove", y)
        BY <3>1 DEF Strong, Living
    <3> QED
        BY <1>0, <1>3, <2>1, <3>2, <3>3
  <2>2. CASE x = t /\ i \in 1 .. Len(P)
    <3>1. P[i].op = "exited" /\ P[i].of = y
        BY <1>1, <2>2
    <3>2. i = L + 2 /\ y = s
        BY <1>4, <2>2, <3>1
    <3>3. L + 1 \in Nat /\ (L + 1) + 1 = i /\ L + 1 \in 1 .. Len(P)
        BY <3>2
    <3>4. Has(t, L + 1, "remove", y)'
        BY <1>1, <3>2, <3>3
    <3> QED
        BY <1>0, <2>2, <3>2, <3>3, <3>4
  <2>3. CASE x = t /\ i \notin 1 .. Len(P)
    <3>1. i > Len(P) /\ i - Len(P) <= Len(Q) /\ Has(t, i - Len(P) + 1, "exited", y) /\ i - Len(P) + 1 \in Nat
        BY <1>1, <1>5, <2>3
    <3>2. life[y] \in Ending /\ y # s
        BY <1>6, <3>1 DEF Strong, Living
    <3>3. ASSUME y \in sessions PROVE \E j \in Nat : j + 1 = i /\ Has(t, j, "remove", y)'
      <4>1. PICK j \in Nat : j + 1 = i - Len(P) + 1 /\ Has(t, j, "remove", y)
          BY <3>1, <3>3 DEF Strong, Living
      <4>2. j >= 1 /\ script[t][j].op = "remove"
          BY <1>2, <4>1 DEF Has
      <4>3. j # 1
        <5>1. Q # << >>
            BY <1>2, <3>1
        <5> QED
            BY <4>2, <5>1
      <4> DEFINE k == Len(P) + (j - 1)
      <4>4. k \in Nat /\ k + 1 = i /\ k > Len(P) /\ k - Len(P) <= Len(Q) /\ k - Len(P) + 1 = j
          BY <1>2, <3>1, <4>1, <4>2, <4>3
      <4> HIDE DEF k
      <4>5. Has(t, k, "remove", y)'
          BY <1>1, <4>1, <4>4
      <4> QED
          BY <4>4, <4>5
    <3> QED
        BY <1>0, <2>3, <3>2, <3>3
  <2> QED
      BY <2>1, <2>2, <2>3
<1>b. \A t1, t2 \in Threads, y \in Sessions, i, j \in Nat :
         Has(t1, i, "exited", y)' /\ Has(t2, j, "exited", y)' => t1 = t2 /\ i = j
  <2> SUFFICES ASSUME NEW t1 \in Threads, NEW t2 \in Threads, NEW y \in Sessions, NEW i \in Nat, NEW j \in Nat,
                      Has(t1, i, "exited", y)', Has(t2, j, "exited", y)'
               PROVE  t1 = t2 /\ i = j
      OBVIOUS
  <2>1. CASE y = s
    <3>1. \A x \in Threads, k \in Nat : Has(x, k, "exited", s)' => x = t /\ k = L + 2
      <4> SUFFICES ASSUME NEW x \in Threads, NEW k \in Nat, Has(x, k, "exited", s)'
                   PROVE  x = t /\ k = L + 2
          OBVIOUS
      <4>1. x = t
          BY <1>3, <1>6
      <4>2. k \in 1 .. Len(P) /\ P[k].op = "exited"
          BY <1>1, <1>5, <1>6, <4>1
      <4> QED
          BY <1>4, <4>1, <4>2
    <3> QED
        BY <2>1, <3>1
  <2>2. CASE y # s
    <3> DEFINE At(x, n) == IF x = t THEN n - Len(P) + 1 ELSE n
    <3>0. \A k \in Nat : Has(t, k, "exited", y)' =>
             k > Len(P) /\ k - Len(P) + 1 \in Nat /\ Has(t, k - Len(P) + 1, "exited", y)
        BY <1>1, <1>4, <1>5, <2>2
    <3>1. At(t1, i) \in Nat /\ Has(t1, At(t1, i), "exited", y)
        BY <1>3, <3>0
    <3>2. At(t2, j) \in Nat /\ Has(t2, At(t2, j), "exited", y)
        BY <1>3, <3>0
    <3>3. t1 = t2 /\ At(t1, i) = At(t2, j)
        BY <3>1, <3>2 DEF Strong, Living
    <3> QED
        BY <3>3
  <2> QED
      BY <2>1, <2>2
<1> QED
    BY <1>0, <1>7, <1>8, <1>9, <1>a, <1>b DEF Living

\* cleanup_instance.
LEMMA CleanupStep ==
    ASSUME Strong, NEW t \in Threads, Cleanup(t)
    PROVE  Strong'
<1> DEFINE c == Head(script[t])
           s == c.of
           h == Speak(s, "presence")
           r == Step("remove", s, NoRoom)
           z == Step("exited", s, NoRoom)
           left == IF c.op = "announced" THEN <<h>> ELSE << >>
           P == left \o <<r, z>>
<1>1. UNCHANGED <<pc, sessions, room, afk, replied, mail, next, rel, publishing, commands>>
    BY DEF Cleanup
<1>2. PICK op \in {"announced", "silent"} : Due(t, op)
    BY DEF Cleanup
<1>3. s \in Sessions /\ c.op = op /\ script[t][1] = c /\ script[t] # << >> /\ Has(t, 1, op, s)
    BY <1>2, DueCall DEF Strong
<1>4. pc[s] # "none"
  <2>1. 1 \in Nat
      OBVIOUS
  <2> QED
      BY <1>3, <2>1 DEF Strong, Living
<1>5. CASE /\ script' = [script EXCEPT ![t] = Tail(script[t])] /\ UNCHANGED <<life, watch, watchall>>
           /\ life[s] \in Ending
  <2>1. /\ Prefixed(t, << >>, Tail(script[t]), 1) /\ Plain(<< >>)
        /\ Adds(t, << >>) /\ Keeps(t, Tail(script[t]), 1)
      BY <1>3, <1>5, DoneFirst DEF Strong, Done
  <2>2. CallersOK' /\ RepliedOK' /\ commands' \in 0 .. MaxCommands
      BY <1>1, <1>5, TypedKept DEF Strong, Typed, callers, ScriptOK
  <2> QED
      BY <1>1, <1>3, <1>5, <2>1, <2>2, Goes
<1>6. CASE /\ life[s] = "created" /\ life' = [life EXCEPT ![s] = "exited"]
           /\ script' = [script EXCEPT ![t] = Tail(script[t])] /\ UNCHANGED <<watch, watchall>>
  <2>1. /\ Prefixed(t, << >>, Tail(script[t]), 1) /\ Plain(<< >>)
        /\ Adds(t, << >>) /\ Keeps(t, Tail(script[t]), 1)
      BY <1>3, <1>6, DoneFirst DEF Strong, Done
  <2>2. /\ life' \in [Sessions -> {"created", "entered", "exiting", "exited", "destroyed"}] /\ life'[s] = "exited"
        /\ \A x \in Sessions \ {s} : life'[x] = life[x]
      BY <1>3, <1>6 DEF Strong, Typed, CallersOK
  <2>3. CallersOK'
      BY <1>1, <1>6, <2>2 DEF Strong, Typed, CallersOK
  <2> HIDE DEF s, c
  <2>4. \A x \in Sessions : Alive(x)'
      BY <1>1, <1>3, <1>4, <1>6, <2>2 DEF Strong, Living, Alive
  <2>5. ASSUME NEW x \in Threads, NEW y \in Sessions, NEW i \in Nat, Has(x, i, "exited", y)
        PROVE  life'[y] \in Ending /\ (y \in sessions' => y \in sessions)
    <3>1. life[y] \in Ending
        BY <2>5 DEF Strong, Living
    <3> QED
        BY <1>1, <1>6, <2>2, <3>1 DEF Ending
  <2>6. Living'
      BY <1>1, <1>3, <2>1, <2>4, <2>5, LivingThen DEF Strong
  <2>7. Held'
    <3>1. \A x \in Sessions : life[x] \in Ending => life'[x] \in Ending
        BY <1>6, <2>2 DEF Ending
    <3>2. script[t][1].of = s /\ script[t][1].op # "exited" /\ life'[s] \in Ending
        BY <1>3, <2>2 DEF s, Ending
    <3>3. sessions' \subseteq Sessions
        BY <1>1 DEF Strong, Typed, CallersOK
    <3>4. \A x \in sessions' : life'[x] # "entered" => x \in sessions /\ life[x] # "entered"
        BY <1>1, <1>6, <2>2, <3>3
    <3> QED
        BY <1>3, <2>1, <3>1, <3>2, <3>3, <3>4, HeldThen DEF Strong
  <2> QED
      BY <1>1, <2>1, <2>3, <2>6, <2>7, Moves DEF Strong, Typed, ScriptOK
<1>7. CASE /\ life[s] = "entered" /\ life' = [life EXCEPT ![s] = "exiting"]
           /\ watch' = [watch EXCEPT ![s] = NoRoom] /\ watchall' = [watchall EXCEPT ![s] = FALSE]
           /\ script' = [script EXCEPT ![t] = P \o Tail(script[t])]
  <2> DEFINE L == IF c.op = "announced" THEN 1 ELSE 0
  <2>1. /\ h \in Call /\ h.op = "here" /\ r \in Call /\ r.op = "remove" /\ r.of = s
        /\ z \in Call /\ z.op = "exited" /\ z.of = s
    <3>1. "presence" \in Kinds /\ "remove" \in Ops /\ "exited" \in Ops /\ NoRoom \in Rooms \cup {NoRoom}
        BY DEF Kinds, Ops
    <3> QED
        BY <1>3, <3>1, Calls
  <2> HIDE DEF h, r, z, s
  <2>2. <<r, z>> \in Seq(Call) /\ Len(<<r, z>>) = 2 /\ <<r, z>>[1] = r /\ <<r, z>>[2] = z
      BY <2>1, Tuples
  <2>3. L \in {0, 1} /\ left \in Seq(Call) /\ Len(left) = L /\ (L = 1 => left[1] = h)
      BY <2>1, Tuples
  <2> HIDE DEF left, L
  <2>4. /\ P \in Seq(Call) /\ Len(P) = Len(left) + 2
        /\ \A i \in 1 .. Len(left) + 2 : P[i] = IF i <= Len(left) THEN left[i] ELSE <<r, z>>[i - Len(left)]
      BY <2>2, <2>3, ConcatProperties
  <2> HIDE DEF P
  <2>5. Len(P) = L + 2 /\ P[L + 1] = r /\ P[L + 2] = z /\ (L = 1 => P[1] = h)
    <3>1. CASE L = 0
        BY <2>2, <2>3, <2>4, <3>1
    <3>2. CASE L = 1
        BY <2>2, <2>3, <2>4, <3>2
    <3> QED
        BY <2>3, <3>1, <3>2
  <2>6. Prefixed(t, P, Tail(script[t]), 1) /\ Keeps(t, Tail(script[t]), 1)
      BY <1>3, <1>7, <2>4, Replaced DEF Strong
  <2>7. CallersOK'
    <3>1. life' \in [Sessions -> {"created", "entered", "exiting", "exited", "destroyed"}]
        BY <1>3, <1>7 DEF Strong, Typed, CallersOK
    <3>2. watch' \in [Sessions -> Rooms \cup {NoRoom}] /\ watchall' \in [Sessions -> BOOLEAN]
        BY <1>3, <1>7 DEF Strong, Typed, CallersOK
    <3> QED
        BY <1>1, <3>1, <3>2 DEF Strong, Typed, CallersOK
  <2>8. Living'
    <3>1. script[t][1].op # "remove"
        BY <1>3
    <3> QED
        BY <1>1, <1>3, <1>7, <2>1, <2>3, <2>5, <2>6, <3>1, TakenInHand
  <2>9. Held'
    <3>1. \A i \in 1 .. Len(P) : P[i].op \in {"here", "remove", "exited"}
      <4>1. CASE L = 0
          BY <2>1, <2>5, <4>1
      <4>2. CASE L = 1
          BY <2>1, <2>5, <4>2
      <4> QED
          BY <2>3, <4>1, <4>2
    <3>2. Adds(t, P)
        BY <1>3, <3>1 DEF Adds, Further
    <3>3. script[t][1].of = s /\ script[t][1].op # "exited"
          /\ life'[s] = "exiting" /\ \A x \in Sessions \ {s} : life'[x] = life[x]
        BY <1>3, <1>7 DEF s, Strong, Typed, CallersOK
    <3>4. \A x \in Sessions : life[x] \in Ending => life'[x] \in Ending
        BY <3>3 DEF Ending
    <3>5. L + 2 \in 1 .. Len(P) /\ P[L + 2].op = "exited" /\ P[L + 2].of = s
        BY <2>1, <2>3, <2>5
    <3>6. sessions' \subseteq Sessions /\ sessions' = sessions /\ life'[s] \in Ending
        BY <1>1, <3>3 DEF Strong, Typed, CallersOK, Ending
    <3>7. \A x \in sessions' : life'[x] # "entered" =>
             \/ \E i \in 1 .. Len(P) : P[i].op = "exited" /\ P[i].of = x
             \/ x \in sessions /\ life[x] # "entered"
        BY <3>3, <3>5, <3>6
    <3> QED
        BY <1>3, <2>6, <3>2, <3>3, <3>4, <3>6, <3>7, HeldThen DEF Strong
  <2> QED
      BY <1>1, <2>6, <2>7, <2>8, <2>9, Moves DEF Strong, Typed, ScriptOK
<1> QED
    BY <1>5, <1>6, <1>7 DEF Cleanup, Ending

-----------------------------------------------------------------------------
(* The theorems.                                                            *)

LEMMA InitStrong == Init => Strong
<1> SUFFICES ASSUME Init PROVE Strong
    OBVIOUS
<1> USE DEF Init
<1>1. CallersOK
    BY FS_EmptySet, LimitsAssumption DEF CallersOK
<1>2. RepliedOK /\ RowsOK
    BY DEF RepliedOK, RowsOK
<1>3. MailOK
    BY EmptySeq, LimitsAssumption DEF MailOK
<1>4. PubOK
  <2>1. Outside \in Publication /\ Outside.auto = {}
    <3>1. [seq |-> 0, kind |-> "notice", by |-> NoUser] \in Event
        BY DEF Event, Kinds
    <3> QED
        BY <3>1 DEF Outside, Publication
  <2> QED
      BY <2>1, FS_EmptySet DEF PubOK
<1>5. ScriptOK
    BY EmptySeq, LimitsAssumption DEF ScriptOK
<1>6. Locked
    BY DEF Locked
<1>7. Boxed
  <2>1. \A s \in Sessions : 1 .. Len(inbox[s]) = {} /\ last[s] = 0
      BY EmptySeq
  <2>2. InboxOrdered /\ BlockHonoured
      BY <2>1 DEF InboxOrdered, BlockHonoured
  <2>3. \A t \in Threads : pub[t].todo = {}
      BY DEF Outside
  <2> QED
      BY <2>1, <2>2, <2>3 DEF Boxed
<1>8. Accounted
    BY EmptySeq DEF Accounted
<1>9. Living /\ Held
  <2>1. \A t \in Threads : 1 .. Len(script[t]) = {}
      BY EmptySeq
  <2> QED
      BY <2>1 DEF Living, Held, Has
<1> QED
    BY <1>1, <1>2, <1>3, <1>4, <1>5, <1>6, <1>7, <1>8, <1>9 DEF Strong, Typed

LEMMA StrongKept == Strong /\ [Next]_vars => Strong'
<1>1. CASE UNCHANGED vars
  <2> SUFFICES ASSUME Strong PROVE Strong'
      BY <1>1
  <2> QED
      BY <1>1, TypedKept, LockedKept, BoxedKept, AccountedKept, LivingKept, HeldKept DEF Strong, Typed, vars, callers
<1>2. ASSUME Strong, NEW t \in Threads, Proceed(t) PROVE Strong'
    BY <1>2, HereStep, CollectStep, FinishStep, JoinStep, ClearAfkStep, EpochStep, CleanupStep, RemoveStep,
       ExitedStep, DestroyStep, DeliverStep DEF Proceed
<1>3. ASSUME Strong, NEW s \in Sessions, Command(s) PROVE Strong'
    BY <1>3, SpokenStep, FlagsStep, RelateStep DEF Command
<1>4. ASSUME Strong, NEW s \in Sessions, Enter(s) \/ EnterRefused(s) \/ Exit(s) \/ Drain(s) PROVE Strong'
    BY <1>4, EnterStep, LeavingStep, DrainStep
<1>5. ASSUME Strong, NEW c \in Consoles, NEW s \in Sessions, ForcedDisconnect(c, s) PROVE Strong'
    BY <1>5, LeavingStep
<1> QED
    BY <1>1, <1>2, <1>3, <1>4, <1>5 DEF Next

LEMMA StrongInbox == Strong => InboxInv
<1> SUFFICES ASSUME Strong PROVE InboxInv
    OBVIOUS
<1>1. TypeOK
    BY DEF Strong, Typed, TypeOK, CallersOK, RepliedOK, MailOK, RowsOK, PubOK, ScriptOK, Publication
<1>2. PresenceExact
  <2>1. ASSUME NEW s \in Sessions, NEW t \in Threads, CleansUp(t, s)
        PROVE  \E i \in Nat : Has(t, i, "exited", s)
    <3>1. Len(script[t]) \in Nat
        BY LenProperties DEF Strong, Typed, ScriptOK
    <3>2. 1 .. Len(script[t]) \subseteq Nat
        BY <3>1
    <3> QED
        BY <2>1, <3>2 DEF CleansUp, Has
  <2>2. ASSUME NEW s \in sessions, life[s] # "entered" PROVE \E t \in Threads : CleansUp(t, s)
      BY <2>2 DEF Strong, Held, Has, CleansUp
  <2> QED
      BY <2>1, <2>2 DEF PresenceExact, Strong, Living
<1> QED
    BY <1>1, <1>2 DEF Strong, Boxed, InboxInv

\* However threads interleave, events wait in every inbox in the order of their
\* numbers, each is accounted for, and the list of sessions is exact.
THEOREM InboxCorrect == Spec => []InboxInv
<1>1. Init => Strong
    BY InitStrong
<1>2. Strong /\ [Next]_vars => Strong'
    BY StrongKept
<1>3. Strong => InboxInv
    BY StrongInbox
<1> QED
    BY <1>1, <1>2, <1>3, PTL DEF Spec

\* Nothing that was numbered after a block reaches the user who made it, for
\* any commands in any order.
THEOREM BlocksHonoured == Spec => []BlockHonoured
<1>1. Init => Strong
    BY InitStrong
<1>2. Strong /\ [Next]_vars => Strong'
    BY StrongKept
<1>3. Strong => BlockHonoured
    BY DEF Strong, Boxed
<1> QED
    BY <1>1, <1>2, <1>3, PTL DEF Spec

=============================================================================
