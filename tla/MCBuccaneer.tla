---------------------------- MODULE MCBuccaneer -----------------------------
(***************************************************************************)
(* Programs for the Buccaneer compiler and machine, and the meaning they   *)
(* ought to have: Run is an evaluator of the syntax tree, written from the *)
(* language guide and not from the compiler.  Every way to nest two of the *)
(* control statements around a few simple bodies is a program, beside some *)
(* written by hand for calls, errors, containers and limits.               *)
(***************************************************************************)
EXTENDS Buccaneer

\* -------------------------------------------------- a program as its tokens

Prec == [x \in {"OR", "AND", "=", "<>", "<", "<=", ">", ">=", "+", "-", "*", "/", "MOD"} |->
         CASE x = "OR" -> 1 [] x = "AND" -> 2 [] x \in {"=", "<>"} -> 3 [] x \in {"<", "<=", ">", ">="} -> 4
           [] x \in {"+", "-"} -> 5 [] OTHER -> 6]

RECURSIVE TE(_), TList(_), TB(_), TS(_), TType(_)

Paren(t) == <<sym("(")>> \o t \o <<sym(")")>>
Commas(ts) == FoldLeft(LAMBDA a, t : IF a = <<>> THEN t ELSE a \o <<sym(",")>> \o t, <<>>, ts)
TList(es) == Commas([i \in 1..Len(es) |-> TE(es[i])])

TE(e) ==
    CASE e[1] = "lit" -> (CASE e[2][1] = "null" -> <<kw("NULL")>>
                            [] e[2][1] = "b" -> <<kw(IF e[2][2] THEN "TRUE" ELSE "FALSE")>>
                            [] e[2][1] = "i" -> <<<<"int", e[2][2]>>>>
                            [] e[2][1] = "s" -> <<<<"str", e[2][2][1]>>>>)
      [] e[1] = "id" -> <<<<"ident", e[2]>>>>
      [] e[1] = "q" -> <<<<"ident", e[2]>>, sym("."), <<"ident", e[3]>>>>
      [] e[1] = "call" -> TE(e[2]) \o Paren(TList(e[3]))
      [] e[1] = "un" -> <<sym(e[2])>> \o (IF e[3][1] = "bin" THEN Paren(TE(e[3])) ELSE TE(e[3]))
      [] e[1] = "bin" ->
           (IF e[3][1] = "bin" /\ Prec[e[3][2]] < Prec[e[2]] THEN Paren(TE(e[3])) ELSE TE(e[3]))
           \o <<sym(e[2])>>
           \o (IF e[4][1] = "bin" /\ Prec[e[4][2]] <= Prec[e[2]] THEN Paren(TE(e[4])) ELSE TE(e[4]))
      [] e[1] = "idx" -> TE(e[2]) \o <<sym("[")>> \o TE(e[3]) \o <<sym("]")>>
      [] e[1] = "mem" -> Paren(TE(e[2])) \o <<sym("."), <<"ident", e[3]>>>>
      [] e[1] = "arr" -> <<sym("[")>> \o TList(e[2]) \o <<sym("]")>>
      [] e[1] = "map" -> <<sym("{")>> \o Commas([i \in 1..Len(e[2]) |-> <<<<"str", e[2][i][1]>>, sym(":")>> \o TE(e[2][i][2])])
                         \o <<sym("}")>>

TType(t) == CASE t[1] = "ARRAY" -> <<kw("ARRAY"), kw("OF")>> \o TType(t[2])
              [] t[1] = "MAP" -> <<kw("MAP"), kw("OF"), kw("STRING"), kw("TO")>> \o TType(t[2])
              [] OTHER -> <<kw(t[1])>>

TB(b) == FlattenSeq([i \in 1..Len(b) |-> TS(b[i])])

Ln(t) == t \o <<NL>>

TS(s) ==
    CASE s[1] = "dim" -> Ln(<<kw("DIM"), <<"ident", s[2]>>, kw("AS")>> \o TType(s[3])
                              \o IF s[4] = <<>> THEN <<>> ELSE <<sym("=")>> \o TE(s[4]))
      [] s[1] = "set" -> Ln(TE(s[2]) \o <<sym("=")>> \o TE(s[3]))
      [] s[1] = "expr" -> Ln(TE(s[2]))
      [] s[1] = "if" ->
           FlattenSeq([i \in 1..Len(s[2]) |-> Ln(<<kw(IF i = 1 THEN "IF" ELSE "ELSEIF")>> \o TE(s[2][i][1])
                                                   \o <<kw("THEN")>>) \o TB(s[2][i][2])])
           \o (IF s[3] = <<>> THEN <<>> ELSE Ln(<<kw("ELSE")>>) \o TB(s[3])) \o Ln(<<kw("END"), kw("IF")>>)
      [] s[1] = "sel" ->
           Ln(<<kw("SELECT"), kw("CASE")>> \o TE(s[2]))
           \o FlattenSeq([i \in 1..Len(s[3]) |->
                 Ln(<<kw("CASE")>> \o Commas([j \in 1..Len(s[3][i][1]) |->
                        LET v == s[3][i][1][j] IN TE(v[1]) \o IF Len(v) = 2 THEN <<kw("TO")>> \o TE(v[2]) ELSE <<>>]))
                 \o TB(s[3][i][2])])
           \o Ln(<<kw("CASE"), kw("ELSE")>>) \o TB(s[4]) \o Ln(<<kw("END"), kw("SELECT")>>)
      [] s[1] = "while" -> Ln(<<kw("WHILE")>> \o TE(s[2])) \o TB(s[3]) \o Ln(<<kw("WEND")>>)
      [] s[1] = "do" -> Ln(<<kw("DO")>>) \o TB(s[2])
                        \o Ln(<<kw("LOOP")>> \o IF s[3] = "PLAIN" THEN <<>> ELSE <<kw(s[3])>> \o TE(s[4]))
      [] s[1] = "for" -> Ln(<<kw("FOR"), <<"ident", s[2]>>, sym("=")>> \o TE(s[3]) \o <<kw("TO")>> \o TE(s[4])
                              \o IF s[5] = <<>> THEN <<>> ELSE <<kw("STEP")>> \o TE(s[5]))
                         \o TB(s[6]) \o Ln(<<kw("NEXT")>>)
      [] s[1] = "try" -> Ln(<<kw("TRY")>>) \o TB(s[2])
                         \o Ln(<<kw("CATCH")>> \o IF s[3] = <<>> THEN <<>> ELSE <<<<"ident", s[3][1]>>>>)
                         \o TB(s[4]) \o Ln(<<kw("END"), kw("TRY")>>)
      [] s[1] = "ret" -> Ln(<<kw("RETURN")>> \o IF s[2] = <<>> THEN <<>> ELSE TE(s[2]))
      [] s[1] = "exit" -> Ln(<<kw("EXIT"), kw(s[2])>>)
      [] s[1] = "halt" -> Ln(<<kw("HALT")>>)
      [] s[1] = "throw" -> Ln(<<kw("THROW")>> \o TE(s[2]))
      [] s[1] = "chain" -> Ln(<<kw("CHAIN"), <<"str", s[2]>>>> \o IF s[3] = <<>> THEN <<>> ELSE <<sym(",")>> \o TE(s[3]))
      [] s[1] = "on" -> Ln(<<kw("ON")>> \o TE(s[2]) \o <<kw("CALL")>>
                             \o Commas([i \in 1..Len(s[3]) |-> <<<<"ident", s[3][i]>>>>]))

TParams(ps) == Paren(Commas([i \in 1..Len(ps) |-> <<<<"ident", ps[i][1]>>, kw("AS")>> \o TType(ps[i][2])]))

TProc(d) ==
    LET what == IF d.ret = <<>> THEN "SUB" ELSE "FUNCTION"
    IN  Ln(<<kw(what), <<"ident", d.name>>>> \o TParams(d.params)
             \o IF d.ret = <<>> THEN <<>> ELSE <<kw("AS")>> \o TType(d.ret))
        \o TB(d.body) \o Ln(<<kw("END"), kw(what)>>)

Tokens(m) ==
    Ln(<<kw("PROGRAM"), <<"str", "p">>>>)
    \o FlattenSeq([i \in 1..Len(m.caps) |-> Ln(<<kw("CAPABILITY"), <<"str", m.caps[i]>>>>)])
    \o TB(m.globals) \o FlattenSeq([i \in 1..Len(m.procs) |-> TProc(m.procs[i])])

\* ---------------------------------------------------- what a program means

\* r is the run so far: what was printed, the keys not yet read, the
\* variables, how the last statement ended ("ok", "exit", "ret", "throw",
\* "halt", "chain", "waiting" for a key, "limit" of the fuel) and its value.
RECURSIVE Ev(_, _, _, _)

EvE(p, e, r) == Ev("expression", p, e, r)
EvAll(p, es, r) == Ev("expressions", p, es, r)
ExB(p, b, r) == Ev("block", p, b, r)
ExS(p, s, r) == Ev("statement", p, s, r)
Looping(p, how, c, b, r) == Ev("looping", p, <<how, c, b>>, r)
Choosing(p, bs, v, other, r) == Ev("choosing", p, <<bs, v, other>>, r)
Counting(p, s, i, step, r) == Ev("counting", p, <<s, i, step>>, r)

Stop(r, sig) == [r EXCEPT !.sig = sig]
Give(r, v) == [r EXCEPT !.val = v]

Expressions(p, es, r) ==
    IF es = <<>> THEN Give(r, <<>>)
    ELSE LET a == EvE(p, Head(es), r)
             b == EvAll(p, Tail(es), a)
         IN  IF a.sig # "ok" THEN a ELSE IF b.sig # "ok" THEN b ELSE Give(b, <<a.val>> \o b.val)

Plain(v) == CASE v[1] = "i" -> <<ToString(v[2])>> [] v[1] = "s" -> v[2] [] v[1] = "null" -> <<"NULL">>
              [] v[1] = "b" -> <<IF v[2] THEN "TRUE" ELSE "FALSE">> [] v[1] = "e" -> <<v[2]>>

Calc(op, x, y) ==
    CASE op = "+" -> IF x[1] = "s" \/ y[1] = "s" THEN <<"s", Plain(x) \o Plain(y)>> ELSE <<"i", x[2] + y[2]>>
      [] op = "-" -> <<"i", x[2] - y[2]>>
      [] op = "*" -> <<"i", x[2] * y[2]>>
      [] op = "/" -> <<"i", x[2] \div y[2]>>
      [] op = "MOD" -> <<"i", x[2] % y[2]>>
      [] op = "=" -> <<"b", x = y>>
      [] op = "<>" -> <<"b", x # y>>
      [] op = "<" -> <<"b", x[2] < y[2]>>
      [] op = "<=" -> <<"b", x[2] <= y[2]>>
      [] op = ">" -> <<"b", x[2] > y[2]>>
      [] op = ">=" -> <<"b", x[2] >= y[2]>>
      [] op = "AND" -> <<"b", x[2] /\ y[2]>>
      [] op = "OR" -> <<"b", x[2] \/ y[2]>>

Proc(p, name) == CHOOSE d \in ToSet(p.procs) : d.name = name

Called(p, d, args, r) ==
    LET b == ExB(p, d.body, [r EXCEPT !.env = [n \in {d.params[i][1] : i \in 1..Len(d.params)} |->
                                               args[CHOOSE i \in 1..Len(d.params) : d.params[i][1] = n]],
                                      !.val = <<"null">>])
    IN  [b EXCEPT !.env = r.env, !.sig = IF @ = "ret" THEN "ok" ELSE @, !.val = IF b.sig = "ok" THEN <<"null">> ELSE @]

Expression(p, e, r) ==
    IF r.sig # "ok" THEN r
    ELSE CASE e[1] = "lit" -> Give(r, e[2])
           [] e[1] = "id" -> Give(r, IF e[2] \in DOMAIN r.env THEN r.env[e[2]] ELSE <<"null">>)
           [] e[1] = "un" -> LET a == EvE(p, e[3], r)
                             IN  IF a.sig # "ok" THEN a
                                 ELSE Give(a, IF e[2] = "-" THEN <<"i", -a.val[2]>> ELSE <<"b", ~a.val[2]>>)
           [] e[1] = "bin" ->
                LET a == EvAll(p, <<e[3], e[4]>>, r)
                IN  IF a.sig # "ok" THEN a
                    ELSE IF e[2] \in {"/", "MOD"} /\ a.val[2] = <<"i", 0>>
                    THEN Stop(Give(a, <<"e", "Division by zero">>), "throw")
                    ELSE Give(a, Calc(e[2], a.val[1], a.val[2]))
           [] e[1] = "arr" -> EvAll(p, e[2], r)
           [] e[1] = "map" -> LET a == EvAll(p, [i \in 1..Len(e[2]) |-> e[2][i][2]], r)
                              IN  IF a.sig # "ok" THEN a
                                  ELSE Give(a, [k \in {e[2][i][1] : i \in 1..Len(e[2])} |->
                                                a.val[CHOOSE i \in 1..Len(e[2]) : e[2][i][1] = k]])
           [] e[1] = "idx" -> LET a == EvAll(p, <<e[2], e[3]>>, r)
                                  i == a.val[2][2] + 1
                              IN  IF a.sig # "ok" THEN a
                                  ELSE Give(a, IF i \in DOMAIN a.val[1] THEN a.val[1][i] ELSE <<"null">>)
           [] e[1] = "mem" -> LET a == EvE(p, e[2], r)
                              IN  IF a.sig # "ok" THEN a
                                  ELSE Give(a, IF e[3] \in DOMAIN a.val THEN a.val[e[3]] ELSE <<"null">>)
           [] e[1] = "call" ->
                LET a == EvAll(p, e[3], r)
                IN  CASE a.sig # "ok" -> a
                      [] a.sig = "ok" /\ e[2][1] = "id" ->
                           IF a.fuel = 0 THEN Stop(a, "limit")
                           ELSE Called(p, Proc(p, e[2][2]), a.val, [a EXCEPT !.fuel = @ - 1])
                      [] a.sig = "ok" /\ e[2] = <<"q", "TERM", "GETKEY">> ->
                           IF a.keys # <<>> THEN [a EXCEPT !.val = <<"s", <<Head(a.keys)>>>>, !.keys = Tail(@)]
                           ELSE IF a.gone THEN Give(a, <<"s", <<>>>>) ELSE Stop(a, "waiting")
                      [] a.sig = "ok" /\ e[2] = <<"q", "TERM", "PRINTLN">> ->
                           [a EXCEPT !.out = Append(@, IF a.val = <<>> THEN <<>> ELSE Plain(a.val[1])), !.val = <<"null">>]
                      [] a.sig = "ok" /\ e[2] = <<"q", "DOOR", "EXIT">> -> Stop(a, "halt")

ExBlock(p, b, r) == IF b = <<>> \/ r.sig # "ok" THEN r ELSE ExB(p, Tail(b), ExS(p, Head(b), r))

\* A loop body ended: EXIT leaves the loop, anything but "ok" is passed on.
LeftBy(r) == IF r.sig = "exit" THEN Stop(r, "ok") ELSE r

\* kind: "pre" tests before the body, "while" and "until" after it, "ever" never.
Loop(p, how, c, b, r) ==
    IF r.fuel = 0 THEN Stop(r, "limit")
    ELSE LET t == IF how = "pre" THEN EvE(p, c, r) ELSE r
             g == how # "pre" \/ t.val = <<"b", TRUE>>
             x == ExB(p, b, [t EXCEPT !.fuel = @ - 1])
             u == IF how \in {"while", "until"} THEN EvE(p, c, x) ELSE x
         IN  CASE t.sig # "ok" -> t
               [] t.sig = "ok" /\ ~g -> t
               [] t.sig = "ok" /\ g /\ x.sig # "ok" -> LeftBy(x)
               [] t.sig = "ok" /\ g /\ x.sig = "ok" ->
                    IF u.sig # "ok" THEN u
                    ELSE IF how \in {"pre", "ever"} \/ u.val = <<"b", how = "while">>
                    THEN Looping(p, how, c, b, u) ELSE u

Count(p, s, i, step, r) ==
    LET e == EvE(p, s[4], r)
        x == ExB(p, s[6], [e EXCEPT !.env = (s[2] :> <<"i", i>>) @@ @, !.fuel = @ - 1])
    IN  CASE r.fuel = 0 -> Stop(r, "limit")
          [] r.fuel # 0 /\ e.sig # "ok" -> e
          [] r.fuel # 0 /\ e.sig = "ok" /\ i > e.val[2] -> e
          [] r.fuel # 0 /\ e.sig = "ok" /\ i <= e.val[2] ->
               IF x.sig # "ok" THEN LeftBy(x) ELSE Counting(p, s, i + step, step, x)

Matches(v, t) == IF Len(t) = 1 THEN v = t[1][2] ELSE t[1][2][2] <= v[2] /\ v[2] <= t[2][2][2]

\* The first branch that applies; branches hold a condition or case tests.
Choice(p, bs, v, other, r) ==
    IF bs = <<>> THEN ExB(p, other, r)
    ELSE IF v # <<>>
    THEN IF \E i \in 1..Len(Head(bs)[1]) : Matches(v, Head(bs)[1][i]) THEN ExB(p, Head(bs)[2], r)
         ELSE Choosing(p, Tail(bs), v, other, r)
    ELSE LET c == EvE(p, Head(bs)[1], r)
         IN  IF c.sig # "ok" THEN c
             ELSE IF c.val = <<"b", TRUE>> THEN ExB(p, Head(bs)[2], c) ELSE Choosing(p, Tail(bs), v, other, c)

Statement(p, s, r) ==
    LET bind(q, n, v) == [q EXCEPT !.env = (n :> v) @@ @]
    IN  CASE s[1] = "dim" -> LET a == IF s[4] = <<>> THEN Give(r, <<"null">>) ELSE EvE(p, s[4], r)
                             IN  IF a.sig # "ok" THEN a ELSE bind(a, s[2], a.val)
          [] s[1] = "set" -> LET a == EvE(p, s[3], r) IN IF a.sig # "ok" THEN a ELSE bind(a, s[2][2], a.val)
          [] s[1] = "expr" -> EvE(p, s[2], r)
          [] s[1] = "if" -> Choosing(p, s[2], <<>>, s[3], r)
          [] s[1] = "sel" -> LET a == EvE(p, s[2], r)
                             IN  IF a.sig # "ok" THEN a ELSE Choosing(p, s[3], a.val, s[4], a)
          [] s[1] = "while" -> Looping(p, "pre", s[2], s[3], r)
          [] s[1] = "do" -> Looping(p, CASE s[3] = "UNTIL" -> "until" [] s[3] = "WHILE" -> "while" [] OTHER -> "ever",
                                    s[4], s[2], r)
          [] s[1] = "for" -> LET a == EvE(p, s[3], r)
                             IN  IF a.sig # "ok" THEN a
                                 ELSE Counting(p, s, a.val[2], IF s[5] = <<>> THEN 1 ELSE s[5][2][2], a)
          [] s[1] = "try" -> LET a == ExB(p, s[2], r)
                             IN  IF a.sig # "throw" THEN a
                                 ELSE ExB(p, s[4], Stop(IF s[3] = <<>> THEN a ELSE bind(a, s[3][1], a.val), "ok"))
          [] s[1] = "ret" -> LET a == IF s[2] = <<>> THEN Give(r, <<"null">>) ELSE EvE(p, s[2], r)
                             IN  IF a.sig # "ok" THEN a ELSE Stop(a, "ret")
          [] s[1] = "exit" -> Stop(r, "exit")
          [] s[1] = "halt" -> Stop(r, "halt")
          [] s[1] = "throw" -> LET a == EvE(p, s[2], r) IN IF a.sig # "ok" THEN a ELSE Stop(a, "throw")
          [] s[1] = "chain" -> Stop(r, "chain")
          [] s[1] = "on" -> LET a == EvE(p, s[2], r)
                            IN  IF a.sig # "ok" THEN a
                                ELSE IF a.val[2] \notin 1..Len(s[3]) THEN Stop(a, "throw")
                                ELSE Called(p, Proc(p, s[3][a.val[2]]), <<>>, a)

Ev(what, p, x, r) ==
    CASE what = "expression" -> Expression(p, x, r)
      [] what = "expressions" -> Expressions(p, x, r)
      [] what = "block" -> ExBlock(p, x, r)
      [] what = "statement" -> Statement(p, x, r)
      [] what = "looping" -> Loop(p, x[1], x[2], x[3], r)
      [] what = "choosing" -> Choice(p, x[1], x[2], x[3], r)
      [] what = "counting" -> Count(p, x[1], x[2], x[3], r)

CONSTANT Fuel           \* iterations and calls of the reference run

\* The program from its first statement, with the keys the caller typed.
Run(p, keys) ==
    ExB(p, Proc(p, "Main").body,
        [out |-> <<>>, keys |-> keys, gone |-> Len(keys) = MaxKeys, env |-> [n \in {} |-> 0], sig |-> "ok", val |-> <<"null">>, fuel |-> Fuel])

\* ---------------------------------------------------------------- programs

Str(x) == <<"lit", <<"s", <<x>>>>>>
Num(n) == <<"lit", <<"i", n>>>>
True == <<"lit", <<"b", TRUE>>>>
Show(e) == <<"expr", <<"call", <<"q", "TERM", "PRINTLN">>, <<e>>>>>>
P(x) == Show(Str(x))
Key == <<"call", <<"q", "TERM", "GETKEY">>, <<>>>>
Yes == <<"bin", "=", Key, Str("y")>>
Use(f, args) == <<"call", <<"id", f>>, args>>
Throw == <<"throw", Num(7)>>
Leave(kind_) == <<"if", <<<<Yes, <<<<"exit", kind_>>>>>>>>, <<>>>>

\* Bodies of one level; a loop may also be left from its body.
Simple == {<<P("a")>>, <<P("a"), Throw>>, <<<<"halt">>>>}
LoopBody(k) == {<<P("a"), Leave(k)>>, <<Leave(k), P("b")>>}

\* Every control statement around the bodies bs.
Loops(bs, K) == UNION {
    {<<"while", Yes, b>> : b \in bs \cup LoopBody("WHILE")},
    {<<"do", b, w, Yes>> : b \in bs, w \in {"UNTIL", "WHILE"}},
    {<<"do", b, "PLAIN", <<>>>> : b \in LoopBody("DO") \cup K},
    {<<"for", "i", Num(1), Num(2), <<>>, b>> : b \in bs \cup LoopBody("FOR")},
    {<<"for", "i", Num(1), Num(3), Num(2), b>> : b \in bs}}

Branches(bs) == UNION {
    {<<"if", <<<<Yes, b>>>>, <<>>>> : b \in bs},
    {<<"if", <<<<Yes, b>>, <<Yes, <<P("c")>>>>>>, <<P("d")>>>> : b \in bs},
    {<<"sel", Key, <<<<<<<<Str("y")>>>>, b>>, <<<<<<Str("z")>>, <<Str("n")>>>>, <<P("c")>>>>>>, <<P("d")>>>> : b \in bs}}

Guards(bs) == UNION {
    {<<"try", b, <<>>, <<P("c")>>>> : b \in bs},
    {<<"try", <<P("t"), Throw>>, <<"err">>, b>> : b \in bs}}

One == Loops(Simple, {}) \cup Branches(Simple) \cup Guards(Simple)
OneGuarded == Branches(Simple) \cup Guards(Simple) \cup Loops(Simple, {})

\* Two levels: each control statement around each other one.
Nested == Loops({<<x>> : x \in One}, {}) \cup Branches({<<x>> : x \in One}) \cup Guards({<<x>> : x \in OneGuarded})

Sub(name, body) == [name |-> name, params |-> <<>>, ret |-> <<>>, body |-> body]
Fun(name, params, body) == [name |-> name, params |-> params, ret |-> <<"INTEGER">>, body |-> body]
TheCaps == <<"term.io", "door.chain">>
Prog(procs) == [caps |-> TheCaps, globals |-> <<>>, procs |-> procs]

\* Expressions and what they print.
Sums == {<<"bin", "+", Num(1), <<"bin", "*", Num(2), Num(3)>>>>,
         <<"bin", "-", <<"bin", "-", Num(9), Num(4)>>, Num(3)>>,
         <<"bin", "*", <<"bin", "+", Num(1), Num(2)>>, <<"un", "-", Num(3)>>>>,
         <<"bin", "/", Num(7), <<"bin", "MOD", Num(8), Num(3)>>>>,
         <<"bin", "+", Str("n"), <<"bin", "-", Num(3), Num(1)>>>>,
         <<"bin", "OR", <<"bin", "<", Num(2), Num(1)>>,
           <<"bin", "AND", <<"bin", ">=", Num(2), Num(2)>>, <<"un", "NOT", <<"bin", "<>", Num(1), Num(2)>>>>>>>>,
         <<"bin", "=", <<"bin", "<=", Num(1), Num(2)>>, <<"bin", ">", Num(3), Num(2)>>>>,
         <<"idx", <<"arr", <<Num(4), Num(5), Num(6)>>>>, Num(1)>>,
         <<"idx", <<"arr", <<Num(4)>>>>, Num(1)>>,
         <<"mem", <<"map", <<<<"a", Num(1)>>, <<"b", Num(2)>>>>>>, "b">>,
         <<"mem", <<"map", <<<<"a", Num(1)>>>>>>, "z">>}

Calls == {
    \* a function that prints and returns out of a loop
    <<Sub("Main", <<Show(<<"bin", "+", Use("f", <<>>), Use("f", <<>>)>>), P("z")>>),
      Fun("f", <<>>, <<<<"for", "i", Num(1), Num(3), <<>>, <<P("f"), <<"ret", Num(2)>>>>>>>>)>>,
    \* an error crosses two calls and is caught by the caller's handler, twice
    <<Sub("Main", <<<<"for", "i", Num(1), Num(2), <<>>,
                      <<<<"try", <<<<"expr", Use("f", <<Num(1), Num(2)>>)>>, P("x")>>, <<"err">>, <<P("c")>>>>>>>>, P("z")>>),
      Fun("f", <<<<"u", <<"INTEGER">>>>, <<"w", <<"INTEGER">>>>>>, <<<<"ret", <<"bin", "+", Num(1), Use("g", <<>>)>>>>>>),
      Fun("g", <<>>, <<P("g"), <<"try", <<Throw>>, <<>>, <<P("h"), <<"throw", Num(3)>>>>>>, <<"ret", Num(1)>>>>)>>,
    \* an error leaves a half-evaluated sum behind
    <<Sub("Main", <<<<"try", <<Show(<<"bin", "+", Num(1), Use("f", <<>>)>>)>>, <<>>, <<P("c")>>>>, P("z")>>),
      Fun("f", <<>>, <<Throw, <<"ret", Num(1)>>>>)>>,
    \* a division by zero inside a handler's reach
    <<Sub("Main", <<<<"try", <<Show(<<"bin", "/", Num(1), <<"bin", "MOD", Num(4), Num(2)>>>>)>>, <<>>, <<P("zero")>>>>, P("z")>>)>>,
    \* ON CALL, one time per key
    <<Sub("Main", <<<<"on", <<"idx", <<"arr", <<Num(1), Num(2)>>>>, Num(1)>>, <<"s1", "s2">>>>, P("z")>>),
      Sub("s1", <<P("one")>>), Sub("s2", <<P("two"), <<"if", <<<<Yes, <<<<"ret", <<>>>>>>>>>>, <<P("no")>>>>, P("end")>>)>>,
    <<Sub("Main", <<<<"on", Num(3), <<"s1">>>>, P("z")>>), Sub("s1", <<P("one")>>)>>,
    \* ranges before and between values
    <<Sub("Main", <<<<"for", "i", Num(1), Num(2), <<>>,
                      <<<<"sel", <<"idx", <<"arr", <<Num(1), Num(2), Num(5)>>>>, Num(2)>>,
                          <<<<<<<<Num(9)>>, <<Num(4), Num(6)>>>>, <<P("r")>>>>, <<<<<<Num(5)>>>>, <<P("v")>>>>>>, <<P("d")>>>>,
                        <<"sel", Num(1), <<<<<<<<Num(2), Num(3)>>>>, <<P("r")>>>>>>, <<P("d")>>>>>>>>>>)>>,
    <<Sub("Main", <<P("a"), <<"chain", "next", <<>>>>, P("z")>>)>>,
    <<Sub("Main", <<P("a"), <<"chain", "next", Num(4)>>>>)>>,
    <<Sub("Main", <<P("a"), <<"expr", <<"call", <<"q", "DOOR", "EXIT">>, <<Num(0)>>>>>>, P("z")>>)>>,
    <<Sub("Main", <<<<"dim", "n", <<"INTEGER">>, Num(4)>>, <<"dim", "t", <<"STRING">>, <<>>>>, P("z")>>)>>,
    <<Sub("Main", <<Show(Use("f", <<>>))>>), Fun("f", <<>>, <<P("f"), <<"ret", <<"bin", "+", Num(1), Use("f", <<>>)>>>>>>)>>,
    <<Sub("Main", <<Show(<<"idx", <<"arr", [i \in 1..STACK_MAX + 1 |-> Num(i)]>>, Num(0)>>)>>)>>,
    <<Sub("Main", <<<<"while", True, <<>>>>>>)>>}

Good == {Prog(<<Sub("Main", <<x, P("z")>>)>>) : x \in One \cup Nested}
        \cup {Prog(<<Sub("Main", <<Show(e)>>)>>) : e \in Sums}
        \cup {Prog(c) : c \in Calls}

\* Programs that must be refused.
BadBodies == {<<Show(<<"id", "nowhere">>)>>, <<Show(<<"bin", "+", Num(1), Str("a")>>)>>, <<<<"exit", "FOR">>>>,
              <<<<"dim", "n", <<"INTEGER">>, Str("a")>>>>, <<<<"if", <<<<Num(1), <<>>>>>>, <<>>>>>>,
              <<<<"dim", "n", <<"INTEGER">>, <<>>>>, <<"dim", "n", <<"STRING">>, <<>>>>>>,
              <<<<"try", <<>>, <<"err">>, <<>>>>, Show(<<"id", "err">>)>>, <<Show(<<"un", "-", True>>)>>,
              <<<<"expr", <<"call", <<"q", "KV", "GET">>, <<Str("k")>>>>>>>>, <<<<"while", Num(1), <<>>>>>>,
              <<<<"for", "i", True, Num(2), <<>>, <<>>>>>>, <<<<"on", Num(1), <<"nowhere">>>>>>,
              <<Show(<<"idx", <<"arr", <<Num(1)>>>>, True>>)>>, <<Show(<<"bin", "AND", True, Num(1)>>)>>,
              <<<<"on", Num(1), <<"f", "Main">>>>>>}
Bad == {Prog(<<Sub("Main", b), Fun("f", <<>>, <<<<"ret", Num(1)>>>>)>>) : b \in BadBodies}
       \cup {Prog(<<Sub("Other", <<P("a")>>)>>), Prog(<<Sub("Main", <<>>), Sub("Main", <<>>)>>),
             Prog(<<Sub("Main", <<>>), Fun("f", <<>>, <<<<"ret", <<>>>>>>)>>),
             Prog(<<Sub("Main", <<>>), Fun("f", <<>>, <<<<"ret", Str("a")>>>>)>>),
             [caps |-> <<>>, globals |-> <<>>, procs |-> <<Sub("Main", <<P("a")>>)>>]}

\* Instructions the emitter never uses, assembled by hand with what they
\* must print (as tests/test_vm.c does for some of them).
Println == <<<<"CALL_HOST", "TERM", "PRINTLN", 1>>, <<"POP">>>>
I(n) == <<"PUSH_I64", n>>
S(x) == <<"PUSH_STR", <<x>>>>
Assembled == {
    <<<<I(1), I(2), <<"SWAP">>, <<"SUB">>>> \o Println \o <<<<"HALT">>>>, <<<<"1">>>>, "HALT">>,
    <<<<I(5), <<"STORE_GLOBAL", 1>>, <<"LOAD_GLOBAL", 1>>>> \o Println \o <<<<"LOAD_GLOBAL", 0>>>> \o Println
      \o <<I(6), <<"STORE_GLOBAL", GLOBALS_MAX>>, <<"LOAD_GLOBAL", GLOBALS_MAX>>>> \o Println,
      <<<<"5">>, <<"NULL">>, <<"NULL">>>>, "HALT">>,
    <<<<I(5), <<"STORE_LOCAL", 0>>, <<"LOAD_ARG", 0>>, <<"NEG">>>> \o Println \o <<<<"YIELD">>>>, <<<<"-5">>>>, "YIELD">>,
    <<<<I(4), <<"ARRAY_NEW", 1>>, <<"DUP">>, <<"STORE_LOCAL", 0>>, I(9), <<"ARRAY_PUSH">>,
        <<"LOAD_LOCAL", 0>>, I(0), I(8), <<"ARRAY_SET">>, <<"LOAD_LOCAL", 0>>, I(0), <<"ARRAY_GET">>>> \o Println
      \o <<<<"LOAD_LOCAL", 0>>, <<"ARRAY_POP">>>> \o Println \o <<<<"LOAD_LOCAL", 0>>>> \o Println
      \o <<I(1), <<"ARRAY_POP">>>> \o Println,
      <<<<"8">>, <<"9">>, <<"[ARRAY len=", "1", "]">>, <<"NULL">>>>, "HALT">>,
    <<<<S("k"), I(4), <<"MAP_NEW", 1>>, <<"STORE_LOCAL", 0>>, <<"LOAD_LOCAL", 0>>, S("j"), I(5), <<"MAP_SET">>,
        <<"LOAD_LOCAL", 0>>, S("j"), <<"MAP_HAS">>>> \o Println \o <<<<"LOAD_LOCAL", 0>>, <<"MAP_KEYS">>>> \o Println
      \o <<<<"LOAD_LOCAL", 0>>, <<"DUP">>, <<"EQ">>>> \o Println \o <<<<"LOAD_LOCAL", 0>>, S("k"), <<"MAP_GET">>>> \o Println,
      <<<<"TRUE">>, <<"[ARRAY len=", "2", "]">>, <<"TRUE">>, <<"4">>>>, "HALT">>,
    <<<<S("3"), <<"CAST_I64">>, I(1), <<"ADD">>>> \o Println \o <<I(3), <<"CAST_STRING">>, S("x"), <<"CONCAT">>>> \o Println
      \o <<I(0), <<"CAST_BOOL">>, <<"TYPEOF">>>> \o Println, <<<<"4">>, <<"3", "x">>, <<"BOOL">>>>, "HALT">>,
    <<<<<<"TRY_BEGIN", 5>>, <<"RE_THROW">>, <<"NOP">>, <<"PROF_TICK">>, I(7), <<"THROW">>>> \o Println
      \o <<<<"DEBUG_LINE", 1>>, <<"BOGUS">>>>, <<<<"7">>>>, "INVALID_OPCODE">>,
    <<<<<<"POP">>>>, <<>>, "STACK_UNDERFLOW">>, <<<<I(1), <<"SWAP">>>>, <<>>, "STACK_UNDERFLOW">>,
    <<<<I(1), I(0), <<"DIV">>, <<"RE_THROW">>>>, <<>>, "ERROR">>,
    <<<<<<"CALL", 3, 0>>>>, <<>>, "ERROR">>}

MCPrograms == {<<"good", m>> : m \in Good} \cup {<<"bad", m>> : m \in Bad} \cup {<<"module", x>> : x \in Assembled}

\* An assembled program is a module already.
MCSource(x) ==
    IF x[1] = "module" THEN <<"module", [code |-> x[2][1], procs |-> <<[off |-> 1, params |-> 0, fn |-> FALSE]>>]>>
    ELSE <<"source", Tokens(x[2])>>

\* The program a reader of the guide writes first: a variable is assigned and
\* printed.
Assigning == Prog(<<Sub("Main", <<<<"dim", "total", <<"INTEGER">>, <<>>>>, <<"set", <<"id", "total">>, Num(1)>>,
                                  Show(<<"id", "total">>)>>)>>)
AssignPrograms == {<<"good", Assigning>>}

\* -------------------------------------------------------------- properties

\* The meaning of every program for everything its caller may type before
\* hanging up.
Meant == [p \in {x \in Programs : x[1] = "good"} |->
          [keys \in BoundedSeq(Keys, MaxKeys) |-> Run(p[2], keys)]]

TypeOK ==
    /\ Len(vm.stack) <= STACK_MAX /\ Len(vm.frames) <= FRAMES_MAX
    /\ Len(vm.locals) <= LOCALS_MAX /\ Len(vm.globals) <= GLOBALS_MAX
    /\ vm.count <= MaxInstructions /\ vm.ip \in Nat
    /\ vm.status \in {"OK", "HALT", "YIELD", "CHAIN", "ERROR", "STACK_OVERFLOW", "STACK_UNDERFLOW", "FRAME_OVERFLOW",
                      "INVALID_OPCODE", "LIMIT_EXCEEDED", "REFUSED"}

\* What the compiled program prints is what its source says, key for key, as
\* far as it has run (parser.c, emit.c and vm.c together); it ends the way the
\* source says; and the compiler refuses exactly the ill-formed programs.
Meaning ==
    CASE source[1] = "bad" -> vm.status \in {"OK", "REFUSED"} /\ mod = <<>>
      [] source[1] = "module" -> /\ IsPrefix(vm.out, source[2][2])
                                 /\ vm.status # "OK" => vm.out = source[2][2] /\ vm.status = source[2][3]
      [] source[1] = "good" ->
           LET r == Meant[source][SubSeq(vm.keys, 1, IF Len(vm.keys) < MaxKeys THEN Len(vm.keys) ELSE MaxKeys)]
           IN  /\ vm.status \notin {"REFUSED", "STACK_UNDERFLOW"}
               /\ IsPrefix(vm.out, r.out) \/ (r.sig = "limit" /\ IsPrefix(r.out, vm.out))
               /\ vm.status = "HALT" => vm.out = r.out /\ r.sig \in {"ok", "ret", "halt"}
               /\ vm.status = "ERROR" => vm.out = r.out /\ r.sig = "throw"
               /\ vm.status = "CHAIN" => vm.out = r.out /\ r.sig = "chain"

\* The call frames and the handlers nest: a frame's part of the stack and of
\* the locals begins after its caller's, a handler never reaches into a frame
\* that has returned or below its own frame's part of the stack, and a main
\* procedure that ends leaves nothing behind (vm.c, OP_CALL, OP_RETURN,
\* OP_TRY_BEGIN, handle_exception).
FrameDiscipline ==
    LET n == Len(vm.frames)
        bp(k) == IF k = 0 THEN 0 ELSE vm.frames[k].bp
    IN  source[1] = "good" =>
          /\ \A k \in 1..n : bp(k - 1) <= bp(k) /\ bp(k) <= Len(vm.stack) /\ vm.frames[k].base <= Len(vm.locals)
          /\ \A t \in 1..Len(vm.trys) :
                /\ vm.trys[t].fp <= n /\ vm.trys[t].sp <= Len(vm.stack) /\ bp(vm.trys[t].fp) <= vm.trys[t].sp
                /\ t > 1 => vm.trys[t].fp <= vm.trys[t - 1].fp
          /\ vm.status = "HALT" /\ mod[1].code[vm.ip - 1] = <<"RETURN">>
             => n = 0 /\ vm.stack = <<>> /\ vm.trys = <<>>

\* The machine stays within its limits and its frames and handlers nest,
\* whatever a program throws, calls and leaves (vm.c).
VmInv == TypeOK /\ FrameDiscipline

\* Every program that is started ends, if only by its instruction limit
\* (bucc_vm_run).
Terminates == (mod # <<>>) ~> (vm.status # "OK")
=============================================================================
