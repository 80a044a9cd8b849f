---------------------------- MODULE BuccCompiler ----------------------------
(***************************************************************************)
(* The Buccaneer compiler as pure operators: tokens to syntax tree         *)
(* (parser.c), syntax tree to diagnostics (semantic.c) and syntax tree to  *)
(* instructions (emit.c).  The lexer is left out: a source text is the     *)
(* sequence of its tokens, each a pair <<kind, text>>.  An instruction is  *)
(* a tuple <<opcode, operands>>, a jump operand is relative to the next    *)
(* instruction, as the bytes of the module are.  DOUBLE, DATE and DATETIME *)
(* values are left out.                                                    *)
(*                                                                         *)
(* A syntax tree is a tuple tagged with its node kind; an absent optional  *)
(* part is <<>>.                                                           *)
(***************************************************************************)
EXTENDS Integers, Sequences, FiniteSets, SequencesExt

\* ------------------------------------------------------------------ parser

\* A result is [n |-> node, p |-> next position]; position 0 is had_error:
\* error recovery only looks for more diagnostics, the source is refused.
Failed == [n |-> <<>>, p |-> 0]

current(ts, p) == IF p \in 1..Len(ts) THEN ts[p] ELSE <<"eof", "">>

check(ts, p, t) == p # 0 /\ current(ts, p) = t

expect(ts, p, t) == IF check(ts, p, t) THEN p + 1 ELSE 0

kw(x) == <<"kw", x>>
sym(x) == <<"sym", x>>
NL == <<"nl", "">>

expect_newline(ts, p) ==
    IF p # 0 /\ current(ts, p)[1] = "eof" THEN p ELSE expect(ts, p, NL)

RECURSIVE skip_newlines(_, _)
skip_newlines(ts, p) == IF check(ts, p, NL) THEN skip_newlines(ts, p + 1) ELSE p

\* A parser of several parts collects their nodes in a result s.
at(p) == [n |-> <<>>, p |-> p]
With(s, a) == [n |-> Append(s.n, a.n), p |-> a.p]
Without(s) == [s EXCEPT !.n = Append(@, <<>>)]
Past(ts, s, t) == [s EXCEPT !.p = expect(ts, @, t)]
Line(ts, s) == [s EXCEPT !.p = expect_newline(ts, @)]
Skip(ts, s) == [s EXCEPT !.p = skip_newlines(ts, @)]
Node(tag, s) == [s EXCEPT !.n = <<tag>> \o @]
is(ts, p, kind) == p # 0 /\ current(ts, p)[1] = kind

\* The binary operators, loosest first: OR, AND, equality, relational,
\* additive, multiplicative.
Levels == << {"OR"}, {"AND"}, {"=", "<>"}, {"<", "<=", ">", ">="}, {"+", "-"}, {"*", "/", "MOD"} >>

RECURSIVE bucc_parse_binary(_, _, _), BinaryRest(_, _, _), bucc_parse_unary_expr(_, _),
          bucc_parse_primary_expr(_, _), PostfixRest(_, _), ExprListRest(_, _),
          PairListRest(_, _)

bucc_parse_expression(ts, p) == bucc_parse_binary(1, ts, p)

\* The node of x, y and the part b parsed last.
Joined(tag, x, y, b) == [n |-> <<tag, x, y, b.n>>, p |-> b.p]
Wrapped(tag, x, b) == [n |-> <<tag, x, b.n>>, p |-> b.p]

bucc_parse_binary(l, ts, p) ==
    IF l > Len(Levels) THEN bucc_parse_unary_expr(ts, p)
    ELSE BinaryRest(l, bucc_parse_binary(l + 1, ts, p), ts)

BinaryRest(l, a, ts) ==
    IF a.p # 0 /\ current(ts, a.p)[1] = "sym" /\ current(ts, a.p)[2] \in Levels[l]
    THEN BinaryRest(l, Joined("bin", ts[a.p][2], a.n, bucc_parse_binary(l + 1, ts, a.p + 1)), ts)
    ELSE a

bucc_parse_unary_expr(ts, p) ==
    IF check(ts, p, sym("-")) \/ check(ts, p, sym("NOT"))
    THEN Wrapped("un", ts[p][2], bucc_parse_unary_expr(ts, p + 1))
    ELSE PostfixRest(bucc_parse_primary_expr(ts, p), ts)

\* Expressions separated by commas; none at all when the list closes at once.
ExprListMore(ts, s) == IF check(ts, s.p, sym(",")) THEN ExprListRest(ts, [s EXCEPT !.p = @ + 1]) ELSE s
ExprListRest(ts, s) == ExprListMore(ts, With(s, bucc_parse_expression(ts, s.p)))
ExprList(ts, p, close) == IF check(ts, p, sym(close)) THEN at(p) ELSE ExprListRest(ts, at(p))

Pair(ts, p) == IF ~is(ts, p, "str") THEN Failed
               ELSE With([n |-> <<ts[p][2]>>, p |-> p], bucc_parse_expression(ts, expect(ts, p + 1, sym(":"))))
PairListMore(ts, s) == IF check(ts, s.p, sym(",")) THEN PairListRest(ts, [s EXCEPT !.p = @ + 1]) ELSE s
PairListRest(ts, s) == PairListMore(ts, With(s, Pair(ts, s.p)))
PairList(ts, p, close) == IF check(ts, p, sym(close)) THEN at(p) ELSE PairListRest(ts, at(p))

bucc_parse_primary_expr(ts, p) ==
    LET t == current(ts, p)
        one(n) == [n |-> n, p |-> p + 1]
        closed(a, c) == Past(ts, a, sym(c))
        node(tag, a) == [a EXCEPT !.n = <<tag, @>>]
    IN  CASE p = 0 -> Failed
          [] t = kw("NULL") -> one(<<"lit", <<"null">>>>)
          [] t = kw("TRUE") -> one(<<"lit", <<"b", TRUE>>>>)
          [] t = kw("FALSE") -> one(<<"lit", <<"b", FALSE>>>>)
          [] t[1] = "int" -> one(<<"lit", <<"i", t[2]>>>>)
          [] t[1] = "str" -> one(<<"lit", <<"s", <<t[2]>>>>>>)
          [] t[1] = "ident" -> one(<<"id", t[2]>>)
          [] t = sym("(") -> closed(bucc_parse_expression(ts, p + 1), ")")
          [] t = sym("[") -> closed(node("arr", ExprList(ts, p + 1, "]")), "]")
          [] t = sym("{") -> closed(node("map", PairList(ts, p + 1, "}")), "}")
          [] OTHER -> Failed

\* bucc_parse_postfix_expr: calls, indices and members, as long as they come.
PostfixRest(a, ts) ==
    CASE check(ts, a.p, sym("(")) ->
           PostfixRest(Past(ts, Wrapped("call", a.n, ExprList(ts, a.p + 1, ")")), sym(")")), ts)
      [] check(ts, a.p, sym("[")) ->
           PostfixRest(Past(ts, Wrapped("idx", a.n, bucc_parse_expression(ts, a.p + 1)), sym("]")), ts)
      [] check(ts, a.p, sym(".")) ->
           IF ~is(ts, a.p + 1, "ident") THEN Failed
           ELSE PostfixRest([n |-> IF a.n[1] = "id" THEN <<"q", a.n[2], ts[a.p + 1][2]>> ELSE <<"mem", a.n, ts[a.p + 1][2]>>,
                             p |-> a.p + 2], ts)
      [] OTHER -> a

Expr(ts, s) == With(s, bucc_parse_expression(ts, s.p))

RECURSIVE bucc_parse_statement(_, _), BlockRest(_, _, _), Clauses(_, _), Cases(_, _),
          CaseValues(_, _), bucc_parse_type_ref(_, _), ParamRest(_, _)

ScalarTypes == {"INTEGER", "BOOLEAN", "STRING"}

bucc_parse_type_ref(ts, p) ==
    CASE check(ts, p, kw("ARRAY")) ->
           Node("ARRAY", With(at(p), bucc_parse_type_ref(ts, expect(ts, p + 1, kw("OF")))))
      [] check(ts, p, kw("MAP")) ->
           Node("MAP", With(at(p), bucc_parse_type_ref(ts,
                 expect(ts, expect(ts, expect(ts, p + 1, kw("OF")), kw("STRING")), kw("TO")))))
      [] p # 0 /\ current(ts, p) \in {kw(x) : x \in ScalarTypes} -> [n |-> <<ts[p][2]>>, p |-> p + 1]
      [] OTHER -> Failed

\* Statements up to (not including) one of the closing keywords.
BlockRest(ts, s, stops) ==
    IF s.p = 0 \/ is(ts, s.p, "eof") \/ current(ts, s.p) \in {kw(x) : x \in stops} THEN s
    ELSE BlockRest(ts, Skip(ts, With(s, bucc_parse_statement(ts, s.p))), stops)

bucc_parse_block(ts, p, stops) == BlockRest(ts, Skip(ts, at(p)), stops)

Block(ts, s, stops) == With(s, bucc_parse_block(ts, s.p, stops))

\* END <what>, newline
Ends(ts, s, what) == Line(ts, Past(ts, Past(ts, s, kw("END")), kw(what)))

\* DIM name AS type [= value]; s has the name.
Initialiser(ts, s) == IF check(ts, s.p, sym("=")) THEN Expr(ts, [s EXCEPT !.p = @ + 1]) ELSE Without(s)
VarDecl(ts, s) == Line(ts, Initialiser(ts, With(s, bucc_parse_type_ref(ts, expect(ts, s.p, kw("AS"))))))

bucc_parse_var_decl(ts, p) ==
    IF ~is(ts, p + 1, "ident") THEN Failed
    ELSE Node("dim", VarDecl(ts, [n |-> <<ts[p + 1][2]>>, p |-> p + 2]))

\* IF or ELSEIF: a condition and its block; then the other clauses.
Clause(ts, p) == Block(ts, Line(ts, Past(ts, Expr(ts, at(p + 1)), kw("THEN"))), {"ELSEIF", "ELSE", "END"})
Clauses(ts, s) == IF check(ts, s.p, kw("IF")) \/ check(ts, s.p, kw("ELSEIF"))
                  THEN Clauses(ts, With(s, Clause(ts, s.p))) ELSE s
Else(ts, s) == IF check(ts, s.p, kw("ELSE")) THEN Block(ts, Line(ts, Past(ts, s, kw("ELSE"))), {"END"}) ELSE Without(s)

bucc_parse_if_stmt(ts, p) == Node("if", Ends(ts, Else(ts, With(at(p), Clauses(ts, at(p)))), "IF"))

\* The tests of one CASE: values <<e>> and ranges <<low, high>>.
CaseRange(ts, s) == IF check(ts, s.p, kw("TO")) THEN Expr(ts, [s EXCEPT !.p = @ + 1]) ELSE s
CaseMore(ts, s) == IF check(ts, s.p, sym(",")) THEN CaseValues(ts, [s EXCEPT !.p = @ + 1]) ELSE s
CaseValues(ts, s) == CaseMore(ts, With(s, CaseRange(ts, Expr(ts, at(s.p)))))

\* Values are tested before ranges, whatever their order in the source.
ValuesFirst(s) == LET single(x) == Len(x) = 1
                      range(x) == Len(x) = 2
                  IN  [s EXCEPT !.n = SelectSeq(@, single) \o SelectSeq(@, range)]

Case(ts, p) == Block(ts, Line(ts, With(at(p), ValuesFirst(CaseValues(ts, at(p + 1))))), {"CASE", "END"})
Cases(ts, s) ==
    IF ~check(ts, s.p, kw("CASE")) \/ check(ts, s.p + 1, kw("ELSE")) THEN s
    ELSE Cases(ts, Skip(ts, With(s, Case(ts, s.p))))
CaseElse(ts, s) == IF check(ts, s.p, kw("CASE")) THEN Else(ts, [s EXCEPT !.p = @ + 1]) ELSE Without(s)
AllCases(ts, s) == With(s, Cases(ts, Skip(ts, at(s.p))))

bucc_parse_select_stmt(ts, p) ==
    Node("sel", Ends(ts, CaseElse(ts, AllCases(ts, Line(ts, Expr(ts, at(expect(ts, p + 1, kw("CASE"))))))), "SELECT"))

bucc_parse_while_stmt(ts, p) ==
    Node("while", Line(ts, Past(ts, Block(ts, Line(ts, Expr(ts, at(p + 1))), {"WEND"}), kw("WEND"))))

LoopTest(ts, s) ==
    IF current(ts, s.p) \in {kw("UNTIL"), kw("WHILE")} /\ s.p # 0
    THEN Expr(ts, [n |-> Append(s.n, ts[s.p][2]), p |-> s.p + 1]) ELSE Without([s EXCEPT !.n = Append(@, "PLAIN")])

bucc_parse_do_loop_stmt(ts, p) ==
    Node("do", Line(ts, LoopTest(ts, Past(ts, Block(ts, Line(ts, at(p + 1)), {"LOOP"}), kw("LOOP")))))

Step(ts, s) == IF check(ts, s.p, kw("STEP")) THEN Expr(ts, [s EXCEPT !.p = @ + 1]) ELSE Without(s)
NextName(ts, s) == IF is(ts, s.p, "ident") THEN [s EXCEPT !.p = @ + 1] ELSE s
ForBounds(ts, s) == Step(ts, Expr(ts, Past(ts, Expr(ts, Past(ts, s, sym("="))), kw("TO"))))

bucc_parse_for_stmt(ts, p) ==
    IF ~is(ts, p + 1, "ident") THEN Failed
    ELSE Node("for", Line(ts, NextName(ts, Past(ts,
              Block(ts, Line(ts, ForBounds(ts, [n |-> <<ts[p + 1][2]>>, p |-> p + 2])), {"NEXT"}), kw("NEXT")))))

\* CATCH [name]
Catch(ts, s) == IF is(ts, s.p, "ident") THEN [n |-> Append(s.n, <<ts[s.p][2]>>), p |-> s.p + 1] ELSE Without(s)

bucc_parse_try_catch_stmt(ts, p) ==
    Node("try", Ends(ts, Block(ts, Line(ts, Catch(ts, Past(ts,
              Block(ts, Line(ts, at(p + 1)), {"CATCH"}), kw("CATCH")))), {"END"}), "TRY"))

\* The procedure names of ON ... CALL.
OnTargets(ts, p) ==
    LET q == CHOOSE q \in p..Len(ts) + 1 : /\ ~(current(ts, q)[1] = "ident" \/ current(ts, q) = sym(","))
                                           /\ \A r \in p..q - 1 : current(ts, r)[1] = "ident" \/ current(ts, r) = sym(",")
        name(t) == t[1] = "ident"
        names == SelectSeq(SubSeq(ts, p, q - 1), name)
    IN  [n |-> [i \in 1..Len(names) |-> names[i][2]], p |-> IF names = <<>> THEN 0 ELSE q]

OnCall(ts, s) == With(s, OnTargets(ts, s.p))

ReturnValue(ts, s) == IF check(ts, s.p, NL) THEN Without(s) ELSE Expr(ts, s)
ChainArgs(ts, s) == IF check(ts, s.p, sym(",")) THEN Expr(ts, [s EXCEPT !.p = @ + 1]) ELSE Without(s)

\* A statement that begins with no keyword is an expression, which takes any
\* "=" with it as an equality test; only then is an assignment looked for.
Assignment(ts, s) ==
    IF check(ts, s.p, sym("=")) THEN Node("set", Expr(ts, [s EXCEPT !.p = @ + 1])) ELSE Node("expr", s)

bucc_parse_statement(ts, p) ==
    LET t == current(ts, p)
    IN  CASE t = kw("DIM") -> bucc_parse_var_decl(ts, p)
          [] t = kw("IF") -> bucc_parse_if_stmt(ts, p)
          [] t = kw("SELECT") -> bucc_parse_select_stmt(ts, p)
          [] t = kw("WHILE") -> bucc_parse_while_stmt(ts, p)
          [] t = kw("DO") -> bucc_parse_do_loop_stmt(ts, p)
          [] t = kw("FOR") -> bucc_parse_for_stmt(ts, p)
          [] t = kw("TRY") -> bucc_parse_try_catch_stmt(ts, p)
          [] t = kw("RETURN") -> Node("ret", Line(ts, ReturnValue(ts, at(p + 1))))
          [] t = kw("EXIT") -> IF current(ts, p + 1) \in {kw("FOR"), kw("DO"), kw("WHILE"), kw("SELECT")}
                               THEN Node("exit", Line(ts, [n |-> <<ts[p + 1][2]>>, p |-> p + 2])) ELSE Failed
          [] t = kw("HALT") -> Node("halt", Line(ts, at(p + 1)))
          [] t = kw("THROW") -> Node("throw", Line(ts, Expr(ts, at(p + 1))))
          [] t = kw("CHAIN") -> IF ~is(ts, p + 1, "str") THEN Failed
                                ELSE Node("chain", Line(ts, ChainArgs(ts, [n |-> <<ts[p + 1][2]>>, p |-> p + 2])))
          [] t = kw("ON") -> Node("on", Line(ts, OnCall(ts, Past(ts, Expr(ts, at(p + 1)), kw("CALL")))))
          [] OTHER -> Line(ts, Assignment(ts, Expr(ts, at(IF t \in {kw("LET"), kw("CALL")} THEN p + 1 ELSE p))))

Param(ts, p) == IF ~is(ts, p, "ident") THEN Failed
                ELSE With([n |-> <<ts[p][2]>>, p |-> p], bucc_parse_type_ref(ts, expect(ts, p + 1, kw("AS"))))
ParamRest(ts, s) == IF check(ts, s.p, sym(",")) THEN ParamRest(ts, With(s, Param(ts, s.p + 1))) ELSE s
bucc_parse_param_list(ts, p) ==
    IF check(ts, p, sym(")")) THEN at(p) ELSE ParamRest(ts, With(at(p), Param(ts, p)))

\* SUB name (params), FUNCTION name (params) AS type; then the body.
Signature(ts, p) == Past(ts, With([n |-> <<ts[p][2]>>, p |-> p], bucc_parse_param_list(ts, expect(ts, p + 1, sym("(")))), sym(")"))
Declared(s) == [n |-> [name |-> s.n[1], params |-> s.n[2], ret |-> s.n[3], body |-> s.n[4]], p |-> s.p]
Procedure(ts, s) == IF s.p = 0 THEN Failed ELSE Declared(s)

bucc_parse_procedure(ts, p) ==
    IF ~is(ts, p + 1, "ident") THEN Failed
    ELSE Procedure(ts, Ends(ts, Block(ts, Line(ts, Without(Signature(ts, p + 1))), {"END"}), "SUB"))

ReturnType(ts, s) == With(s, bucc_parse_type_ref(ts, expect(ts, s.p, kw("AS"))))

bucc_parse_function(ts, p) ==
    IF ~is(ts, p + 1, "ident") THEN Failed
    ELSE Procedure(ts, Ends(ts, Block(ts, Line(ts, ReturnType(ts, Signature(ts, p + 1))), {"END"}), "FUNCTION"))

RECURSIVE Metadata(_, _), Globals(_, _), Procedures(_, _)

\* bucc_parse_metadata; only CAPABILITY has a meaning for the compiler.
Metadata(ts, s) ==
    IF current(ts, s.p) \notin {kw("PROGRAM"), kw("VERSION"), kw("CAPABILITY")} THEN s
    ELSE IF ~is(ts, s.p + 1, "str") THEN Failed
    ELSE Metadata(ts, Skip(ts, Line(ts, [n |-> IF ts[s.p] = kw("CAPABILITY") THEN Append(s.n, ts[s.p + 1][2]) ELSE s.n,
                                         p |-> s.p + 2])))

Globals(ts, s) ==
    IF ~check(ts, s.p, kw("DIM")) THEN s ELSE Globals(ts, Skip(ts, With(s, bucc_parse_var_decl(ts, s.p))))

Procedures(ts, s) ==
    CASE s.p = 0 -> Failed
      [] is(ts, s.p, "eof") -> s
      [] check(ts, s.p, kw("SUB")) -> Procedures(ts, Skip(ts, With(s, bucc_parse_procedure(ts, s.p))))
      [] check(ts, s.p, kw("FUNCTION")) -> Procedures(ts, Skip(ts, With(s, bucc_parse_function(ts, s.p))))
      [] OTHER -> Failed

\* The capabilities, the global variables and the procedures, in this order.
Parts(ts, s) == With(s, Procedures(ts, at(s.p)))
bucc_parse_module(ts) ==
    LET globals(s) == Parts(ts, With(s, Globals(ts, at(s.p))))
        parts(s) == [n |-> IF s.p = 0 THEN <<>> ELSE [caps |-> ToSet(s.n[1]), globals |-> s.n[2], procs |-> s.n[3]],
                     p |-> s.p]
    IN  parts(globals(With(at(1), Metadata(ts, Skip(ts, at(1))))))

\* ---------------------------------------------------------------- semantic

\* bucc_type_equal is structural equality; an array or map of unknown
\* element type (a caught error, a host result) has element <<>>.
bucc_type_assignable(target, source) ==
    \/ target = <<"ANY">>
    \/ source \in {<<"ANY">>, <<"NULL">>}
    \/ target = source

bucc_type_is_numeric(t) == t = <<"INTEGER">>

\* A scope is the sequence of its symbols, the oldest first.
Symbol(name, kind, type) == [name |-> name, kind |-> kind, type |-> type]

bucc_scope_lookup_local(scope, name) ==
    LET hits == {i \in 1..Len(scope) : scope[i].name = name}
    IN  IF hits = {} THEN <<>> ELSE <<scope[CHOOSE i \in hits : \A j \in hits : j <= i]>>

\* Innermost scope first; <<>> when no scope knows the name.
RECURSIVE bucc_scope_lookup(_, _)
bucc_scope_lookup(scopes, name) ==
    IF scopes = <<>> THEN <<>>
    ELSE IF bucc_scope_lookup_local(Head(scopes), name) # <<>>
    THEN bucc_scope_lookup_local(Head(scopes), name)
    ELSE bucc_scope_lookup(Tail(scopes), name)

\* host_namespaces: the capability and the result type of every function the
\* compiler knows.
HostGroup(ns, fns, cap, type) == {[ns |-> ns, fn |-> f, cap |-> cap, type |-> type] : f \in fns}

host_namespaces == UNION {
    HostGroup("TERM", {"PRINT", "PRINTLN", "CLS", "COLOR", "PRINTAT", "PAUSE", "BOX", "SAVE_ATTR",
                       "RESTORE_ATTR", "PRINT_PAGED", "PAGER_BEGIN", "PAGER_END"}, "term.io", <<"VOID">>),
    HostGroup("TERM", {"GETKEY", "INPUT", "INPUT_PASSWORD"}, "term.io", <<"STRING">>),
    HostGroup("TERM", {"WIDTH", "HEIGHT"}, "term.io", <<"INTEGER">>),
    HostGroup("TERM", {"SUPPORTS_ANSI", "PAGER_LINE"}, "term.io", <<"BOOLEAN">>),
    HostGroup("USER", {"NAME", "ALIAS"}, "user.read", <<"STRING">>),
    HostGroup("USER", {"ID", "SECURITY", "TIME_LEFT", "FLAGS"}, "user.read", <<"INTEGER">>),
    HostGroup("USERS", {"FIND_BY_HANDLE", "FIND_BY_ID"}, "users.read", <<"MAP", <<>>>>),
    HostGroup("USERS", {"COUNT"}, "users.read", <<"INTEGER">>),
    HostGroup("DATA", {"INSERT", "UPDATE", "DELETE"}, "data.write", <<"INTEGER">>),
    HostGroup("DATA", {"BEGIN", "COMMIT", "ROLLBACK"}, "data.write", <<"VOID">>),
    HostGroup("DATA", {"GET"}, "data.read", <<"MAP", <<>>>>),
    HostGroup("DATA", {"FIND", "FIND_PAGED"}, "data.read", <<"ARRAY", <<>>>>),
    HostGroup("DATA", {"COUNT"}, "data.read", <<"INTEGER">>),
    HostGroup("DATA", {"SUM"}, "data.read", <<"DOUBLE">>),
    HostGroup("DATA", {"MIN", "MAX"}, "data.read", <<"ANY">>),
    HostGroup("KV", {"GET"}, "kv.read", <<"STRING">>),
    HostGroup("KV", {"EXISTS"}, "kv.read", <<"BOOLEAN">>),
    HostGroup("KV", {"SET", "DELETE"}, "kv.write", <<"VOID">>),
    HostGroup("LEADERBOARD", {"ENABLED", "SUBMIT"}, "leaderboard.write", <<"BOOLEAN">>),
    HostGroup("APP", {"GET"}, "app.state", <<"ANY">>),
    HostGroup("APP", {"SET"}, "app.state", <<"VOID">>),
    HostGroup("SHARED", {"GET"}, "shared.read", <<"ANY">>),
    HostGroup("SHARED", {"LIST_KEYS"}, "shared.read", <<"ARRAY", <<>>>>),
    HostGroup("SHARED", {"SET", "DELETE"}, "shared.write", <<"VOID">>),
    HostGroup("SHARED", {"CAS"}, "shared.write", <<"BOOLEAN">>),
    HostGroup("TEXT", {"READ_ALL"}, "file.read", <<"STRING">>),
    HostGroup("TEXT", {"READ_LINES"}, "file.read", <<"ARRAY", <<>>>>),
    HostGroup("TEXT", {"EXISTS"}, "file.read", <<"BOOLEAN">>),
    HostGroup("TEXT", {"WRITE_ALL", "APPEND_LINE"}, "file.write", <<"VOID">>),
    HostGroup("BBS", {"SEND_NODE_MSG"}, "bbs.node_msg", <<"VOID">>),
    HostGroup("BBS", {"ONLINE_NODES"}, "bbs.node_msg", <<"ARRAY", <<>>>>),
    HostGroup("SYS", {"NOW"}, "", <<"DATETIME">>),
    HostGroup("SYS", {"TODAY"}, "", <<"DATE">>),
    HostGroup("SESSION", {"NODE", "ELAPSED_MS"}, "", <<"INTEGER">>),
    HostGroup("DOOR", {"EXIT"}, "", <<"VOID">>) }

bucc_semantic_resolve_host_call(ns, fn) == {h \in host_namespaces : h.ns = ns /\ h.fn = fn}

\* A capability no function needs is the empty name.
bucc_semantic_check_capability(env, cap) == cap = "" \/ cap \in env.caps

\* The analysis carries an environment [scopes, caps, loop, fn, ret, ok] and
\* clears ok at the first diagnostic; the type of an expression is returned
\* beside it.
Diagnose(env, good) == [env EXCEPT !.ok = @ /\ good]

RECURSIVE analyze_expr(_, _), AnalyzeAll(_, _), AnalyzeRest(_, _), analyze_stmt(_, _), analyze_block(_, _),
          AnalyzeClauses(_, _), AnalyzeCases(_, _)

\* The types of a sequence of expressions, analysed in order.
AndTypes(t, r) == [r EXCEPT !.ts = <<t>> \o @]
AnalyzeRest(a, es) == AndTypes(a.t, AnalyzeAll(a.env, es))
AnalyzeAll(env, es) ==
    IF es = <<>> THEN [env |-> env, ts |-> <<>>]
    ELSE AnalyzeRest(analyze_expr(env, Head(es)), Tail(es))

LiteralType(v) == CASE v[1] = "null" -> <<"NULL">> [] v[1] = "b" -> <<"BOOLEAN">>
                    [] v[1] = "i" -> <<"INTEGER">> [] v[1] = "s" -> <<"STRING">>

Operands(e) ==
    CASE e[1] = "un" -> <<e[3]>>
      [] e[1] = "bin" -> <<e[3], e[4]>>
      [] e[1] = "idx" -> <<e[2], e[3]>>
      [] e[1] = "mem" -> <<e[2]>>
      [] e[1] = "arr" -> e[2]
      [] e[1] = "call" -> <<e[2]>> \o e[3]
      [] e[1] = "map" -> [i \in 1..Len(e[2]) |-> e[2][i][2]]
      [] OTHER -> <<>>

\* Indices, members and literals of arrays and maps.
ContainerType(e, sub) ==
    LET ret(v, t) == [env |-> v, t |-> t]
        t1 == sub.ts[1]
        t2 == sub.ts[2]
        elem == IF sub.ts = <<>> THEN <<"ANY">> ELSE t1
        inner == IF t1[2] = <<>> THEN <<"ANY">> ELSE t1[2]
    IN  CASE e[1] = "idx" /\ t1[1] = "ARRAY" -> ret(Diagnose(sub.env, t2 = <<"INTEGER">>), inner)
          [] e[1] = "idx" /\ t1[1] = "MAP" -> ret(Diagnose(sub.env, t2 = <<"STRING">>), inner)
          [] e[1] = "idx" /\ t1[1] \notin {"ARRAY", "MAP"} -> ret(sub.env, <<"ERROR">>)
          [] e[1] = "mem" -> ret(sub.env, <<"ANY">>)
          [] e[1] = "arr" -> ret(sub.env, <<"ARRAY", elem>>)
          [] e[1] = "map" -> ret(sub.env, <<"MAP", elem>>)

\* The type of e when its operands have the types sub.ts.
TypeOf(env, e, sub) ==
    LET ret(v, t) == [env |-> v, t |-> t]
        t1 == sub.ts[1]
        t2 == sub.ts[2]
    IN  CASE e[1] = "lit" -> ret(env, LiteralType(e[2]))
          [] e[1] = "id" ->
               LET s == bucc_scope_lookup(env.scopes, e[2])
               IN  IF s = <<>> THEN ret(Diagnose(env, FALSE), <<"ERROR">>) ELSE ret(env, s[1].type)
          [] e[1] = "q" ->
               LET f == bucc_semantic_resolve_host_call(e[2], e[3])
               IN  IF f = {} THEN ret(Diagnose(env, FALSE), <<"ERROR">>)
                   ELSE LET h == CHOOSE h \in f : TRUE
                        IN  ret(Diagnose(env, bucc_semantic_check_capability(env, h.cap)), h.type)
          [] e[1] = "call" -> ret(sub.env, t1)
          [] e[1] = "un" /\ e[2] = "-" -> ret(Diagnose(sub.env, bucc_type_is_numeric(t1)), t1)
          [] e[1] = "un" /\ e[2] = "NOT" -> ret(Diagnose(sub.env, t1 = <<"BOOLEAN">>), <<"BOOLEAN">>)
          [] e[1] = "bin" /\ e[2] = "+" /\ t1 = <<"STRING">> -> ret(sub.env, <<"STRING">>)
          [] e[1] = "bin" /\ e[2] \in {"+", "-", "*", "/", "MOD"} /\ ~(e[2] = "+" /\ t1 = <<"STRING">>) ->
               ret(Diagnose(sub.env, bucc_type_is_numeric(t1) /\ bucc_type_is_numeric(t2)), <<"INTEGER">>)
          [] e[1] = "bin" /\ e[2] \in {"=", "<>", "<", "<=", ">", ">="} -> ret(sub.env, <<"BOOLEAN">>)
          [] e[1] = "bin" /\ e[2] \in {"AND", "OR"} ->
               ret(Diagnose(sub.env, t1 = <<"BOOLEAN">> /\ t2 = <<"BOOLEAN">>), <<"BOOLEAN">>)
          [] OTHER -> ContainerType(e, sub)

analyze_expr(env, e) == TypeOf(env, e, AnalyzeAll(env, Operands(e)))

is_lvalue(e) == e[1] \in {"id", "idx", "mem"}

\* The expression is analysed and its type must satisfy the test.
Tested(a, Test(_)) == Diagnose(a.env, Test(a.t))
AnalyzeAs(env, e, Test(_)) == Tested(analyze_expr(env, e), Test)

\* The same for a part that may be absent.
AnalyzeOption(env, e, Test(_)) == IF e = <<>> THEN env ELSE AnalyzeAs(env, e, Test)

Anything(t) == TRUE
IsBoolean(t) == t = <<"BOOLEAN">>

Define(env, s) == [env EXCEPT !.scopes = <<Append(Head(@), s)>> \o Tail(@)]

\* The body of FOR and CATCH has a scope of its own, the other bodies have not.
InScope(env, syms, body, inner) ==
    [analyze_block([env EXCEPT !.scopes = <<syms>> \o @, !.loop = inner], body)
     EXCEPT !.scopes = Tail(@), !.loop = env.loop]

\* Only the first condition of an IF must be boolean.
AnalyzeClauses(env, cs) ==
    IF cs = <<>> THEN env
    ELSE AnalyzeClauses(analyze_block(AnalyzeAs(env, Head(cs)[1], Anything), Head(cs)[2]), Tail(cs))

\* Single values are analysed, the bounds of a range are not.
AnalyzeCases(env, cs) ==
    IF cs = <<>> THEN env
    ELSE LET one(v) == Len(v) = 1
             vs == SelectSeq(Head(cs)[1], one)
         IN  AnalyzeCases(analyze_block(AnalyzeAll(env, [i \in 1..Len(vs) |-> vs[i][1]]).env, Head(cs)[2]), Tail(cs))

\* The statements without a body.
AnalyzeSimple(env, s) ==
    LET Returns(t) == ~env.fn \/ bucc_type_assignable(env.ret, t)
    IN  CASE s[1] = "ret" -> IF s[2] = <<>> THEN Diagnose(env, ~env.fn) ELSE AnalyzeAs(env, s[2], Returns)
          [] s[1] = "exit" -> Diagnose(env, env.loop \/ s[2] = "SELECT")
          [] s[1] = "halt" -> env
          [] s[1] = "throw" -> AnalyzeAs(env, s[2], Anything)
          [] s[1] = "chain" ->
               AnalyzeOption(Diagnose(env, bucc_semantic_check_capability(env, "door.chain")), s[3], Anything)
          [] s[1] = "on" ->
               Diagnose(AnalyzeAs(env, s[2], bucc_type_is_numeric),
                        \A i \in 1..Len(s[3]) :
                           LET t == bucc_scope_lookup(env.scopes, s[3][i])
                           IN  t # <<>> /\ t[1].kind \in {"procedure", "function"})

Assigned(r) == Diagnose(r.env, bucc_type_assignable(r.ts[1], r.ts[2]))

analyze_stmt(env, s) ==
    LET Fits(t) == bucc_type_assignable(s[3], t)
        looped(v, b) == [analyze_block([v EXCEPT !.loop = TRUE], b) EXCEPT !.loop = v.loop]
    IN  CASE s[1] = "dim" ->
               IF bucc_scope_lookup_local(Head(env.scopes), s[2]) # <<>> THEN Diagnose(env, FALSE)
               ELSE Define(AnalyzeOption(env, s[4], Fits), Symbol(s[2], "local", s[3]))
          [] s[1] = "set" ->
               IF ~is_lvalue(s[2]) THEN Diagnose(env, FALSE)
               ELSE Assigned(AnalyzeAll(env, <<s[2], s[3]>>))
          [] s[1] = "expr" -> AnalyzeAs(env, s[2], Anything)
          [] s[1] = "if" ->
               analyze_block(AnalyzeClauses(AnalyzeAs(env, s[2][1][1], IsBoolean), s[2]), s[3])
          [] s[1] = "sel" -> analyze_block(AnalyzeCases(AnalyzeAs(env, s[2], Anything), s[3]), s[4])
          [] s[1] = "while" -> looped(AnalyzeAs(env, s[2], IsBoolean), s[3])
          [] s[1] = "do" -> AnalyzeOption(looped(env, s[2]), s[4], IsBoolean)
          [] s[1] = "for" ->
               InScope(AnalyzeOption(AnalyzeAs(AnalyzeAs(env, s[3], bucc_type_is_numeric), s[4], bucc_type_is_numeric),
                                     s[5], bucc_type_is_numeric),
                       <<Symbol(s[2], "local", <<"INTEGER">>)>>, s[6], TRUE)
          [] s[1] = "try" ->
               InScope(analyze_block(env, s[2]),
                       IF s[3] = <<>> THEN <<>> ELSE <<Symbol(s[3][1], "local", <<"MAP", <<>>>>)>>, s[4], env.loop)
          [] OTHER -> AnalyzeSimple(env, s)

analyze_block(env, b) == IF b = <<>> THEN env ELSE analyze_block(analyze_stmt(env, Head(b)), Tail(b))

\* analyze_procedure and analyze_function
AnalyzeProc(globals, caps, d) ==
    analyze_block([scopes |-> <<[i \in 1..Len(d.params) |-> Symbol(d.params[i][1], "param", d.params[i][2])],
                                globals>>,
                   caps |-> caps, loop |-> FALSE, fn |-> d.ret # <<>>, ret |-> d.ret, ok |-> TRUE], d.body)

\* The global scope: the variables, then each procedure that has a new name.
RECURSIVE GlobalScope(_, _)
GlobalScope(scope, ds) ==
    IF ds = <<>> THEN scope
    ELSE LET d == Head(ds)
             s == IF d.ret = <<>> THEN Symbol(d.name, "procedure", <<"VOID">>)
                  ELSE Symbol(d.name, "function", d.ret)
         IN  GlobalScope(IF bucc_scope_lookup_local(scope, d.name) # <<>> THEN scope ELSE Append(scope, s),
                         Tail(ds))

global_scope(mod) ==
    GlobalScope([i \in 1..Len(mod.globals) |-> Symbol(mod.globals[i][2], "global", mod.globals[i][3])],
                mod.procs)

bucc_semantic_analyze(mod) ==
    LET g == global_scope(mod)
    IN  /\ Len(g) = Len(mod.globals) + Len(mod.procs)
        /\ \E i \in 1..Len(mod.procs) : mod.procs[i].name = "Main" /\ mod.procs[i].ret = <<>>
        /\ \A i \in 1..Len(mod.procs) : AnalyzeProc(g, mod.caps, mod.procs[i]).ok

\* ----------------------------------------------------------------- emitter

\* Where the parser has done its work only the global scope is left, so that
\* is the scope every name is looked up in; the slot of a symbol is its place
\* in that scope, variables and procedures counted together.
lookup_symbol(g, name) ==
    LET hits == {i \in 1..Len(g) : g[i].name = name}
    IN  IF hits = {} THEN [kind |-> "none", slot |-> 0]
        ELSE LET i == CHOOSE i \in hits : \A j \in hits : j <= i
             IN  [kind |-> g[i].kind, slot |-> i - 1]

Procs == {"procedure", "function"}

\* The targets of ON CALL must be neighbours in the global scope.
resolve_on_call_base(g, names) ==
    LET id(i) == lookup_symbol(g, names[i])
    IN  /\ Len(names) \in 1..255
        /\ \A i \in 1..Len(names) : id(i).kind \in Procs /\ id(i).slot = id(1).slot + i - 1

Op(name) == <<<<name>>>>
Op1(name, a) == <<<<name, a>>>>

BinaryOp == [x \in {"+", "-", "*", "/", "MOD", "=", "<>", "<", "<=", ">", ">=", "AND", "OR"} |->
             CASE x = "+" -> "ADD" [] x = "-" -> "SUB" [] x = "*" -> "MUL" [] x = "/" -> "DIV"
               [] x = "=" -> "EQ" [] x = "<>" -> "NE" [] x = "<" -> "LT" [] x = "<=" -> "LE"
               [] x = ">" -> "GT" [] x = ">=" -> "GE" [] OTHER -> x]

RECURSIVE emit_expr(_, _), EmitAll(_, _), emit_stmt(_, _, _), BlockAfter(_, _, _), emit_block(_, _, _), EmitClauses(_, _, _),
          EmitCases(_, _, _)

EmitAll(g, es) == IF es = <<>> THEN <<>> ELSE emit_expr(g, Head(es)) \o EmitAll(g, Tail(es))

emit_expr(g, e) ==
    CASE e[1] = "lit" ->
           (CASE e[2][1] = "null" -> Op("PUSH_NULL")
              [] e[2][1] = "b" -> Op(IF e[2][2] THEN "PUSH_TRUE" ELSE "PUSH_FALSE")
              [] e[2][1] = "i" -> Op1("PUSH_I64", e[2][2])
              [] e[2][1] = "s" -> Op1("PUSH_STR", e[2][2]))
      [] e[1] = "id" ->
           LET s == lookup_symbol(g, e[2])
           IN  IF s.kind = "global" THEN Op1("LOAD_GLOBAL", s.slot) ELSE Op("PUSH_NULL")
      [] e[1] = "q" -> <<<<"CALL_HOST", e[2], e[3], 0>>>>
      [] e[1] = "call" ->
           EmitAll(g, e[3])
           \o (CASE e[2][1] = "q" -> <<<<"CALL_HOST", e[2][2], e[2][3], Len(e[3])>>>>
                 [] e[2][1] = "id" -> LET s == lookup_symbol(g, e[2][2])
                                      IN  IF s.kind \in Procs THEN <<<<"CALL", s.slot, Len(e[3])>>>>
                                          ELSE Op("PUSH_NULL")
                 [] OTHER -> emit_expr(g, e[2]))
      [] e[1] = "un" -> emit_expr(g, e[3]) \o Op(IF e[2] = "-" THEN "NEG" ELSE "NOT")
      [] e[1] = "bin" -> emit_expr(g, e[3]) \o emit_expr(g, e[4]) \o Op(BinaryOp[e[2]])
      [] e[1] = "idx" -> emit_expr(g, e[2]) \o emit_expr(g, e[3]) \o Op("ARRAY_GET")
      [] e[1] = "mem" -> emit_expr(g, e[2]) \o Op1("PUSH_STR", <<e[3]>>) \o Op("MAP_GET")
      [] e[1] = "arr" -> EmitAll(g, e[2]) \o Op1("ARRAY_NEW", Len(e[2]))
      [] e[1] = "map" ->
           EmitAll(g, FlattenSeq([i \in 1..Len(e[2]) |-> <<<<"lit", <<"s", <<e[2][i][1]>>>>>>, e[2][i][2]>>]))
           \o Op1("MAP_NEW", Len(e[2]))

\* The value is on the stack; only a global has a slot to store it in.
emit_lvalue_store(g, e) ==
    CASE e[1] = "id" -> LET s == lookup_symbol(g, e[2])
                        IN  IF s.kind = "global" THEN Op1("STORE_GLOBAL", s.slot) ELSE <<>>
      [] e[1] = "idx" -> emit_expr(g, e[2]) \o emit_expr(g, e[3]) \o Op("ARRAY_SET")
      [] e[1] = "mem" -> emit_expr(g, e[2]) \o Op1("PUSH_STR", <<e[3]>>) \o Op("MAP_SET")
      [] OTHER -> <<>>

\* A jump over n instructions, or back over n (its own included).
Over(op, n) == <<<<op, n>>>>
Back(op, n) == <<<<op, 0 - n>>>>

\* bucc_emit_jump to loop_end_label, resolved when the loop is complete.
EXITING == <<"EXIT">>
bucc_emit_resolve_patches(code) ==
    [i \in 1..Len(code) |-> IF code[i] = EXITING THEN <<"JMP", Len(code) - i>> ELSE code[i]]

\* Statements return their code and the next free local slot.
Code(c, k) == [c |-> c, k |-> k]
Then(s, r) == Code(s.c \o r.c, r.k)

\* A branch: its test t leads past the body b unless it holds, and b to the end.
Branch(t, b) == Code(t \o Over("JMP_FALSE", Len(b.c) + 1) \o b.c \o <<<<"END", 0>>>>, b.k)

EmitClauses(g, cs, s) ==
    IF cs = <<>> THEN s
    ELSE EmitClauses(g, Tail(cs), Then(s, Branch(emit_expr(g, Head(cs)[1]), emit_block(g, Head(cs)[2], s.k))))

\* The tests of a case, each jumping to the body that follows them all.
RECURSIVE EmitTests(_, _)
EmitTest(t, r) == Op("DUP") \o t \o Over("JMP_TRUE", Len(r) + 1) \o r
EmitTests(g, vs) ==
    IF vs = <<>> THEN <<>>
    ELSE EmitTest(EmitAll(g, Head(vs)) \o Op(IF Len(Head(vs)) = 1 THEN "EQ" ELSE "RANGE_TEST"), EmitTests(g, Tail(vs)))

CaseBody(t, b) == Code(t \o Over("JMP", Len(b.c) + 2) \o Op("POP") \o b.c \o <<<<"END", 0>>>>, b.k)

EmitCases(g, cs, s) ==
    IF cs = <<>> THEN s
    ELSE EmitCases(g, Tail(cs), Then(s, CaseBody(EmitTests(g, Head(cs)[1]), emit_block(g, Head(cs)[2], s.k))))

\* The end label of an IF or SELECT is reached from the end of every branch;
\* a nested one has been resolved already.
EndHere(s) == [s EXCEPT !.c = [i \in 1..Len(s.c) |-> IF s.c[i] = <<"END", 0>> THEN <<"JMP", Len(s.c) - i>> ELSE s.c[i]]]

\* What follows the branches: the block b, after the instructions c.
Otherwise(g, s, c, b) == Then(s, Then(Code(c, s.k), emit_block(g, b, s.k)))
After(c, s) == [s EXCEPT !.c = c \o @]

\* Mutant: the loop goes back to the end of its test.
WhileLoopTestSkipped(t, b) ==
    Code(bucc_emit_resolve_patches(t \o Over("JMP_FALSE", Len(b.c) + 1) \o b.c \o Back("JMP", Len(b.c) + 2)), b.k)

WhileLoop(t, b) ==
    Code(bucc_emit_resolve_patches(t \o Over("JMP_FALSE", Len(b.c) + 1) \o b.c \o Back("JMP", Len(t) + Len(b.c) + 2)), b.k)

DoLoop(b, t, op) == Code(bucc_emit_resolve_patches(b.c \o t \o Back(op, Len(b.c) + Len(t) + 1)), b.k)

\* The counter is in local slot k; the test t, the body b, the step n.
Around(c, k) == Code(bucc_emit_resolve_patches(c \o Back("JMP", Len(c) + 1)), k)
Counted(t, b, n) == Around(t \o Over("JMP_FALSE", Len(b.c) + Len(n) + 1) \o b.c \o n, b.k)
ForLoop(k, last, step, b) ==
    Counted(Op1("LOAD_LOCAL", k) \o last \o Op("LE"), b,
            Op1("LOAD_LOCAL", k) \o step \o Op("ADD") \o Op1("STORE_LOCAL", k))

\* The body b with its handler h, which takes the error off the stack first.
Guarded(b, h) == Code(Over("TRY_BEGIN", Len(b.c) + 2) \o b.c \o Op("TRY_END") \o Over("JMP", Len(h.c)) \o h.c, h.k)
Handler(g, s, k) == IF s[3] = <<>> THEN After(Op("POP"), emit_block(g, s[4], k))
                    ELSE After(Op1("STORE_LOCAL", k), emit_block(g, s[4], k + 1))
Try(g, s, b) == Guarded(b, Handler(g, s, b.k))

\* The code of an optional expression, c when it is absent.
OrElse(g, e, c) == IF e = <<>> THEN c ELSE emit_expr(g, e)

\* The statements without a body.
EmitSimple(g, s, k) ==
    CASE s[1] = "ret" -> Code(IF s[2] = <<>> THEN Op("RETURN") ELSE emit_expr(g, s[2]) \o Op("RETURN_VALUE"), k)
      [] s[1] = "exit" -> Code(<<EXITING>>, k)
      [] s[1] = "halt" -> Code(Op("HALT"), k)
      [] s[1] = "throw" -> Code(emit_expr(g, s[2]) \o Op("THROW"), k)
      [] s[1] = "chain" -> Code(OrElse(g, s[3], <<>>) \o <<<<"CHAIN", s[2], IF s[3] = <<>> THEN 0 ELSE 1>>>>, k)
      [] s[1] = "on" -> Code(emit_expr(g, s[2]) \o <<<<"DISPATCH_CALL", lookup_symbol(g, s[3][1]).slot, Len(s[3])>>>>, k)

emit_stmt(g, s, k) ==
    CASE s[1] = "dim" -> Code(OrElse(g, s[4], Op("PUSH_NULL")) \o Op1("STORE_LOCAL", k), k + 1)
      [] s[1] = "set" -> Code(emit_expr(g, s[3]) \o emit_lvalue_store(g, s[2]), k)
      [] s[1] = "expr" -> Code(emit_expr(g, s[2]) \o Op("POP"), k)
      [] s[1] = "if" -> EndHere(Otherwise(g, EmitClauses(g, s[2], Code(<<>>, k)), <<>>, s[3]))
      [] s[1] = "sel" ->
           After(emit_expr(g, s[2]), EndHere(Otherwise(g, EmitCases(g, s[3], Code(<<>>, k)), Op("POP"), s[4])))
      [] s[1] = "while" -> WhileLoop(emit_expr(g, s[2]), emit_block(g, s[3], k))
      [] s[1] = "do" -> DoLoop(emit_block(g, s[2], k), OrElse(g, s[4], <<>>),
                               CASE s[3] = "UNTIL" -> "JMP_FALSE" [] s[3] = "WHILE" -> "JMP_TRUE" [] OTHER -> "JMP")
      [] s[1] = "for" ->
           After(emit_expr(g, s[3]) \o Op1("STORE_LOCAL", k),
                 ForLoop(k, emit_expr(g, s[4]), OrElse(g, s[5], Op1("PUSH_I64", 1)), emit_block(g, s[6], k + 1)))
      [] s[1] = "try" -> Try(g, s, emit_block(g, s[2], k))
      [] OTHER -> EmitSimple(g, s, k)

BlockAfter(g, b, s) == IF b = <<>> THEN s ELSE BlockAfter(g, Tail(b), Then(s, emit_stmt(g, Head(b), s.k)))

emit_block(g, b, k) == BlockAfter(g, b, Code(<<>>, k))

emit_procedure(g, d) == emit_block(g, d.body, Len(d.params)).c \o Op("RETURN")

emit_function(g, d) == emit_block(g, d.body, Len(d.params)).c \o Op("PUSH_NULL") \o Op("RETURN_VALUE")

EmitProc(g, d) == IF d.ret = <<>> THEN emit_procedure(g, d) ELSE emit_function(g, d)

\* ON CALL errors are the only diagnostics of the emitter.
RECURSIVE OnCallsResolve(_, _)
OnCallsResolve(g, b) ==
    \A i \in 1..Len(b) :
        LET s == b[i] IN
        CASE s[1] = "on" -> resolve_on_call_base(g, s[3])
          [] s[1] = "if" -> /\ \A j \in 1..Len(s[2]) : OnCallsResolve(g, s[2][j][2])
                            /\ OnCallsResolve(g, s[3])
          [] s[1] = "sel" -> /\ \A j \in 1..Len(s[3]) : OnCallsResolve(g, s[3][j][2])
                             /\ OnCallsResolve(g, s[4])
          [] s[1] = "while" -> OnCallsResolve(g, s[3])
          [] s[1] = "do" -> OnCallsResolve(g, s[2])
          [] s[1] = "for" -> OnCallsResolve(g, s[6])
          [] s[1] = "try" -> OnCallsResolve(g, s[2]) /\ OnCallsResolve(g, s[4])
          [] OTHER -> TRUE

bucc_emit_module(mod) == \A i \in 1..Len(mod.procs) : OnCallsResolve(global_scope(mod), mod.procs[i].body)

\* The module: one stretch of code per procedure, in declaration order.  The
\* string, constant and import tables are left out, an operand is its entry.
bucc_emitter_to_module(mod) ==
    LET g == global_scope(mod)
        code == [i \in 1..Len(mod.procs) |-> EmitProc(g, mod.procs[i])]
    IN  [code |-> FlattenSeq(code),
         procs |-> [i \in 1..Len(mod.procs) |->
                    [off |-> FoldLeft(LAMBDA a, c : a + Len(c), 1, SubSeq(code, 1, i - 1)),
                     params |-> Len(mod.procs[i].params), fn |-> mod.procs[i].ret # <<>>]]]

\* Source to module: refused with a diagnostic, or compiled.
Translated(m) ==
    IF m.p # 0 /\ bucc_semantic_analyze(m.n) /\ bucc_emit_module(m.n) THEN <<bucc_emitter_to_module(m.n)>> ELSE <<>>
compile(ts) == Translated(bucc_parse_module(ts))
=============================================================================
