-------------------------------- MODULE Acs --------------------------------
(* Access conditions (src/src/acs.c): the recursive-descent evaluator that *)
(* every menu item, area and event asks, and the short one of the tools.   *)
(*                                                                         *)
(* A condition is a sequence of tokens.  A token is a record: op is an     *)
(* operator ("!", "&", "|", "(", ")") or the letters of a term, n is the   *)
(* term's number, a flag's letter being its index.  A caller is a record   *)
(* of what the terms look at.                                              *)
EXTENDS Integers, Sequences

CONSTANTS
  Terms,      \* terms that conditions are built from: [op, n]
  Callers     \* callers who are asked about

VARIABLES
  expr,       \* the condition the sysop means: a tree of terms
  caller,
  answer      \* what acs_allows and acs_check say: [full, short]

acsvars == <<expr, caller, answer>>

(***************************************************************************)
(* Terms.                                                                  *)
(***************************************************************************)
AtLeast == [S |-> "level", SL |-> "level", L |-> "level", D |-> "dsl",
            C |-> "calls", P |-> "credits", T |-> "time"]
Equals == [N |-> "node", U |-> "id", H |-> "hour", W |-> "wday", CONF |-> "conf", G |-> "sex"]
Has == [F |-> "flags", PLUS |-> "flags", R |-> "ac"]

\* a / b >= num / den, with nothing required when a part of it is zero.
RatioMet(a, b, num, den) == num = 0 \/ den = 0 \/ b = 0 \/ a * den >= b * num

\* Z divides with integers; PC and DR compare the products.
Ratio(t, c) ==
  CASE t.op = "Z" -> c.ratio.den = 0 \/ c.posts >= c.calls \div c.ratio.den
    [] t.op = "PC" -> RatioMet(c.posts, c.calls, c.ratio.num, c.ratio.den)
    [] t.op = "DR" -> RatioMet(c.uploads, c.downloads, c.dlratio.num, c.dlratio.den)

\* V and X look at the days until the account expires, 9999 when it never does.
Expiry(t, c) == IF t.op = "V" THEN c.days > 0 ELSE c.days <= t.n

db_conf_is_member(c, conf) == conf \in c.confs

\* The type of the active subscription, 0 for none.
db_user_subscription_get(c) == c.sub

\* E0 is any active subscription.
Subscribed(t, c) == db_user_subscription_get(c) # 0 /\ t.n \in {0, db_user_subscription_get(c)}

\* Years since the date of birth <<year, month, day>>; 0 without one.
calc_age(b, today) ==
  IF b = << >> THEN 0
  ELSE today[1] - b[1]
       - (IF today[2] < b[2] \/ (today[2] = b[2] /\ today[3] < b[3]) THEN 1 ELSE 0)

\* The old comparisons of credits, time left and ratio, with a relation rel.
\* The ratio is a / b, 999 when b is zero.
Compared(t, c) ==
  LET ratio == t.what = "ratio"
      noRatio == c.dlratio.den <= 0
      have == IF ~ratio THEN c[t.what] ELSE IF noRatio THEN 999 ELSE c.dlratio.num
      need == IF ~ratio \/ noRatio THEN t.n ELSE t.n * c.dlratio.den
  IN  CASE t.rel = ">=" -> have >= need
        [] t.rel = "<=" -> have <= need
        [] t.rel = ">" -> have > need
        [] t.rel = "<" -> have < need
        [] t.rel = "=" -> have = need

\* ARABC: every flag that is listed, from the set ns.
AllFlags(t, c) == t.ns \subseteq c.flags

\* A term the evaluator does not know denies.
Holds(t, c) ==
  CASE t.op \in DOMAIN AtLeast -> c[AtLeast[t.op]] >= t.n
    [] t.op \in DOMAIN Equals -> c[Equals[t.op]] = t.n
    [] t.op \in DOMAIN Has -> t.n \in c[Has[t.op]]
    [] t.op \in {"Z", "PC", "DR"} -> Ratio(t, c)
    [] t.op \in {"V", "X"} -> Expiry(t, c)
    [] t.op = "A" -> calc_age(c.birth, c.today) >= t.n
    [] t.op = "J" -> db_conf_is_member(c, t.n)
    [] t.op = "E" -> Subscribed(t, c)
    [] t.op = "B" -> TRUE
    [] t.op = "AR" -> AllFlags(t, c)
    [] t.op = "cmp" -> Compared(t, c)
    [] OTHER -> FALSE

(***************************************************************************)
(* The evaluator.  Each function answers [ok, rest]: the value and the     *)
(* tokens it has not read.                                                 *)
(***************************************************************************)
Sees(ts, op) == ts # << >> /\ Head(ts).op = op
Close(r) == [r EXCEPT !.rest = IF Sees(r.rest, ")") THEN Tail(r.rest) ELSE r.rest]
Negate(r) == [r EXCEPT !.ok = ~r.ok]

RECURSIVE eval_expr(_, _), eval_factor(_, _), eval_term(_, _),
          MoreTerms(_, _), MoreFactors(_, _)

\* Mutant: negation takes in what follows.
WideNot(ts, c) ==
  IF ts = << >> THEN [ok |-> FALSE, rest |-> ts]
  ELSE CASE Head(ts).op = "!" -> Negate(eval_factor(Tail(ts), c))
         [] Head(ts).op = "(" -> Close(eval_expr(Tail(ts), c))
         [] OTHER -> [ok |-> Holds(Head(ts), c), rest |-> Tail(ts)]

eval_term(ts, c) ==
  IF ts = << >> THEN [ok |-> FALSE, rest |-> ts]
  ELSE CASE Head(ts).op = "!" -> Negate(eval_term(Tail(ts), c))
         [] Head(ts).op = "(" -> Close(eval_expr(Tail(ts), c))
         [] Head(ts).op \in {"&", "|", ")"} -> [ok |-> FALSE, rest |-> ts]
         [] OTHER -> [ok |-> Holds(Head(ts), c), rest |-> Tail(ts)]

\* The loops over & and over |: both sides are always read.
MoreTerms(l, c) ==
  IF Sees(l.rest, "&")
  THEN LET r == eval_term(Tail(l.rest), c)
       IN  MoreTerms([ok |-> l.ok /\ r.ok, rest |-> r.rest], c)
  ELSE l

eval_factor(ts, c) == MoreTerms(eval_term(ts, c), c)

MoreFactors(l, c) ==
  IF Sees(l.rest, "|")
  THEN LET r == eval_factor(Tail(l.rest), c)
       IN  MoreFactors([ok |-> l.ok \/ r.ok, rest |-> r.rest], c)
  ELSE l

eval_expr(ts, c) == MoreFactors(eval_factor(ts, c), c)

\* An empty condition allows; what follows a complete condition is not read.
acs_allows(ts, c) == ts = << >> \/ eval_expr(ts, c).ok

\* acs_check knows levels and flags only.  It takes & and | for blanks, so
\* that every term it knows must hold, and passes over all the others; a "!"
\* or a "(" makes the term it is written before unknown, and the first ")"
\* ends the reading.
acs_check(ts, c) ==
  \A i \in DOMAIN ts :
    (/\ ts[i].op \in {"S", "SL", "F", "PLUS", "R"}
     /\ i > 1 => ts[i - 1].op \notin {"!", "("}
     /\ \A j \in 1..i : ts[j].op # ")") => Holds(ts[i], c)

(***************************************************************************)
(* What a condition means, and how a sysop writes it.                      *)
(***************************************************************************)
Leaf(t) == [op |-> "term", term |-> t]
Grow(S) ==
  S \cup {[op |-> "!", arg |-> e] : e \in S}
    \cup {[op |-> o, l |-> a, r |-> b] : o \in {"&", "|"}, a \in S, b \in S}
Trees == Grow(Grow({Leaf(t) : t \in Terms}))

RECURSIVE Meaning(_, _), Written(_)
Meaning(e, c) ==
  CASE e.op = "term" -> Holds(e.term, c)
    [] e.op = "!" -> ~Meaning(e.arg, c)
    [] e.op = "&" -> Meaning(e.l, c) /\ Meaning(e.r, c)
    [] e.op = "|" -> Meaning(e.l, c) \/ Meaning(e.r, c)

Op(o) == <<[op |-> o, n |-> 0]>>

\* With the parentheses that precedence (! before & before |) needs.
Nested(e, ops) == IF e.op \in ops THEN Op("(") \o Written(e) \o Op(")") ELSE Written(e)
Written(e) ==
  CASE e.op = "term" -> <<e.term>>
    [] e.op = "!" -> Op("!") \o Nested(e.arg, {"&", "|"})
    [] e.op = "&" -> Nested(e.l, {"|"}) \o Op("&") \o Nested(e.r, {"|"})
    [] e.op = "|" -> Written(e.l) \o Op("|") \o Written(e.r)

Unasked == [full |-> FALSE, short |-> FALSE, asked |-> FALSE]

AcsInit == expr \in Trees /\ caller \in Callers /\ answer = Unasked

Ask ==
  /\ ~answer.asked
  /\ answer' = [full |-> acs_allows(Written(expr), caller),
                short |-> acs_check(Written(expr), caller), asked |-> TRUE]
  /\ UNCHANGED <<expr, caller>>

\* The operators of a tree.
RECURSIVE Ops(_)
Ops(e) == CASE e.op = "term" -> {e.term.op}
            [] e.op = "!" -> {"!"} \cup Ops(e.arg)
            [] OTHER -> {e.op} \cup Ops(e.l) \cup Ops(e.r)

\* The evaluator's answer is the meaning of the condition that was written
\* down, for every nesting of !, & and |; the tools' short evaluator agrees
\* on conjunctions of the terms it knows (src/src/acs.c:367).
AcsMeaning ==
  answer.asked =>
    /\ answer.full = Meaning(expr, caller)
    /\ Ops(expr) \subseteq {"&", "S", "SL", "F", "PLUS", "R"} => answer.short = answer.full
=============================================================================
