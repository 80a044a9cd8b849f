----------------------------- MODULE Buccaneer ------------------------------
(***************************************************************************)
(* The Buccaneer virtual machine (vm.c, value.c) running what the compiler *)
(* makes of a program.  Compile takes a source through parser, semantic    *)
(* analysis and emitter; every later step is one bucc_vm_step: it counts   *)
(* an instruction, reads the opcode and executes it.  The host is reduced  *)
(* to the terminal, whose keys come from the caller, and DOOR.EXIT.        *)
(*                                                                         *)
(* A value is <<"null">>, <<"b", truth>>, <<"i", number>>, <<"s", pieces>>,*)
(* <<"e", code>>, or a reference <<"a", n>> or <<"m", n>> to the n-th      *)
(* container of the heap: arrays and maps are shared, not copied.  A text  *)
(* is the sequence of the pieces it was put together from.  Reference      *)
(* counts are left out.                                                    *)
(***************************************************************************)
EXTENDS BuccCompiler, TLC

CONSTANTS
    Programs,           \* the programs there are
    Source(_),          \* <<"source", tokens>>, or <<"module", m>> for an assembled one
    STACK_MAX, FRAMES_MAX, LOCALS_MAX, GLOBALS_MAX,
    MaxInstructions,    \* limits.max_instructions
    Keys,               \* what the caller may type
    MaxKeys             \* keys before the caller hangs up

ASSUME LimitsAssumption ==
    {STACK_MAX, FRAMES_MAX, LOCALS_MAX, GLOBALS_MAX, MaxInstructions, MaxKeys} \subseteq Nat

VARIABLES
    source,             \* the program that runs
    mod,                \* its module, <<>> before it is compiled
    vm                  \* bucc_vm_t

vars == <<source, mod, vm>>

NULL == <<"null">>
Bool(b) == <<"b", b>>
I64(n) == <<"i", n>>
Text(s) == <<"s", IF s = "" THEN <<>> ELSE <<s>>>>
kind(v) == v[1]

\* bucc_vm_new
bucc_vm_new ==
    [stack |-> <<>>, frames |-> <<>>, locals |-> <<>>, globals |-> <<>>, heap |-> <<>>, ip |-> 1,
     exc |-> <<>>, trys |-> <<>>, status |-> "OK", count |-> 0, chain |-> <<>>,
     out |-> <<>>, keys |-> <<>>]

Init ==
    /\ source \in Programs
    /\ mod = <<>>
    /\ vm = bucc_vm_new

\* ------------------------------------------------------------------ values

bucc_value_truthy(h, v) ==
    CASE kind(v) = "b" -> v[2]
      [] kind(v) = "i" -> v[2] # 0
      [] kind(v) = "s" -> v[2] # <<>>
      [] kind(v) \in {"a", "m"} -> Len(h[v[2]]) > 0
      [] OTHER -> FALSE

RECURSIVE bucc_value_equal(_, _, _)
bucc_value_equal(h, a, b) ==
    /\ kind(a) = kind(b)
    /\ CASE kind(a) = "null" -> TRUE
         [] kind(a) \in {"a", "m"} ->
              /\ Len(h[a[2]]) = Len(h[b[2]])
              /\ \A i \in 1..Len(h[a[2]]) :
                    IF kind(a) = "a" THEN bucc_value_equal(h, h[a[2]][i], h[b[2]][i])
                    ELSE \E j \in 1..Len(h[b[2]]) :
                            /\ h[b[2]][j][1] = h[a[2]][i][1]
                            /\ bucc_value_equal(h, h[a[2]][i][2], h[b[2]][j][2])
         [] OTHER -> a[2] = b[2]

\* bucc_value_kind_t, in order
KindRank == [null |-> 0, b |-> 1, i |-> 2, s |-> 4, a |-> 7, m |-> 8, e |-> 9]

\* Numbers by value, values of different kinds by their kind; two different
\* texts are never put in order.
bucc_value_compare(a, b) ==
    CASE kind(a) = "i" /\ kind(b) = "i" -> IF a[2] < b[2] THEN -1 ELSE IF a[2] > b[2] THEN 1 ELSE 0
      [] kind(a) # kind(b) -> KindRank[kind(a)] - KindRank[kind(b)]
      [] OTHER -> 0

bucc_value_to_string(h, v) ==
    CASE kind(v) = "null" -> <<"NULL">>
      [] kind(v) = "b" -> <<IF v[2] THEN "TRUE" ELSE "FALSE">>
      [] kind(v) = "i" -> <<ToString(v[2])>>
      [] kind(v) = "s" -> v[2]
      [] kind(v) = "a" -> <<"[ARRAY len=", ToString(Len(h[v[2]])), "]">>
      [] kind(v) = "m" -> <<"{MAP len=", ToString(Len(h[v[2]])), "}">>
      [] kind(v) = "e" -> <<v[2]>>

\* The number a value is read as by the integer instructions.
AsI64(v) == IF kind(v) = "i" THEN v[2] ELSE IF kind(v) = "b" /\ v[2] THEN 1 ELSE 0

\* A text is a number when it is one piece that spells one.
bucc_value_to_number(v) ==
    IF kind(v) = "s"
    THEN IF \E n \in -9..9 : v[2] = <<ToString(n)>> THEN CHOOSE n \in -9..9 : v[2] = <<ToString(n)>> ELSE 0
    ELSE IF kind(v) \in {"i", "b"} THEN AsI64(v) ELSE 0

bucc_value_kind_name == [null |-> "NULL", b |-> "BOOL", i |-> "I64", s |-> "STRING", a |-> "ARRAY",
                         m |-> "MAP", e |-> "ERROR"]

bucc_array_get(s, i) == IF i \in 0..Len(s) - 1 THEN s[i + 1] ELSE NULL
bucc_array_set(s, i, v) == IF i \in 0..Len(s) - 1 THEN [s EXCEPT ![i + 1] = v] ELSE s
bucc_array_pop(s) == IF s = <<>> THEN s ELSE Front(s)

\* A map is the sequence of its entries <<key, value>>.
map_find(s, k) == {i \in 1..Len(s) : s[i][1] = k}
bucc_map_get(s, k) == IF map_find(s, k) = {} THEN NULL ELSE s[CHOOSE i \in map_find(s, k) : TRUE][2]
bucc_map_set(s, k, v) ==
    IF map_find(s, k) = {} THEN Append(s, <<k, v>>)
    ELSE [s EXCEPT ![CHOOSE i \in map_find(s, k) : TRUE] = <<k, v>>]
bucc_map_keys(s) == [i \in 1..Len(s) |-> <<"s", s[i][1]>>]

\* ----------------------------------------------------------------- machine

vm_error(v, status) == [v EXCEPT !.status = status]

bucc_vm_push(v, x) ==
    IF Len(v.stack) >= STACK_MAX THEN [v EXCEPT !.status = "STACK_OVERFLOW"]
    ELSE [v EXCEPT !.stack = Append(@, x)]

bucc_vm_pop(v) ==
    IF v.stack = <<>> THEN [v EXCEPT !.status = "STACK_UNDERFLOW"]
    ELSE [v EXCEPT !.stack = Front(@)]

\* The value n places below the top.
bucc_vm_peek(v, n) == IF Len(v.stack) > n THEN v.stack[Len(v.stack) - n] ELSE NULL

RECURSIVE PopN(_, _)
PopN(v, n) == IF n = 0 THEN v ELSE PopN(bucc_vm_pop(v), n - 1)

\* The n topmost values, the deepest first.
TopN(v, n) == [i \in 1..n |-> bucc_vm_peek(v, n - i)]

Resized(s, n) == [i \in 1..IF n > Len(s) THEN n ELSE Len(s) |-> IF i <= Len(s) THEN s[i] ELSE NULL]

bucc_vm_get_global(v, i) == IF i < Len(v.globals) THEN v.globals[i + 1] ELSE NULL
bucc_vm_set_global(v, i, x) ==
    IF i >= GLOBALS_MAX THEN v ELSE [v EXCEPT !.globals = [Resized(@, i + 1) EXCEPT ![i + 1] = x]]

local_base(v) == IF v.frames = <<>> THEN 0 ELSE Last(v.frames).base
bucc_vm_get_local(v, i) ==
    IF local_base(v) + i < Len(v.locals) THEN v.locals[local_base(v) + i + 1] ELSE NULL
bucc_vm_set_local(v, i, x) ==
    LET a == local_base(v) + i
    IN  IF a >= LOCALS_MAX THEN v ELSE [v EXCEPT !.locals = [Resized(@, a + 1) EXCEPT ![a + 1] = x]]

bucc_vm_throw(v, x) == [v EXCEPT !.exc = <<x>>]

\* Mutant: what the failed expression had put on the stack stays there.
handle_exceptionStackKept(v) ==
    LET t == Head(v.trys)
        cut == [v EXCEPT !.trys = Tail(@), !.exc = <<>>, !.ip = t.handler,
                         !.frames = SubSeq(@, 1, IF t.fp < Len(@) THEN t.fp ELSE Len(@))]
    IN  IF v.exc = <<>> \/ v.trys = <<>> THEN v ELSE bucc_vm_push(cut, v.exc[1])

\* The newest handler takes the error: frames and stack are cut back to where
\* its TRY began; the locals are not.
handle_exception(v) ==
    LET t == Head(v.trys)
        cut == [v EXCEPT !.trys = Tail(@), !.exc = <<>>, !.ip = t.handler,
                         !.frames = SubSeq(@, 1, IF t.fp < Len(@) THEN t.fp ELSE Len(@)),
                         !.stack = SubSeq(@, 1, IF t.sp < Len(@) THEN t.sp ELSE Len(@))]
    IN  IF v.exc = <<>> \/ v.trys = <<>> THEN v ELSE bucc_vm_push(cut, v.exc[1])

handled(v) == v.exc # <<>> /\ v.trys # <<>>

ThrowOrStop(v) == IF handled(v) THEN handle_exception(v) ELSE vm_error(v, "ERROR")

\* C's division rounds towards zero.
Quotient(a, b) == LET q == (IF a < 0 THEN -a ELSE a) \div (IF b < 0 THEN -b ELSE b)
                  IN  IF (a < 0) = (b < 0) THEN q ELSE -q

\* ------------------------------------------------------------ instructions

\* What the compiler makes of each program: <<module>>, or <<>>.
Compiled == [p \in Programs |-> IF Source(p)[1] = "module" THEN <<Source(p)[2]>> ELSE compile(Source(p)[2])]

Compile ==
    /\ mod = <<>> /\ vm.status = "OK"
    /\ mod' = Compiled[source]
    /\ vm' = IF mod' = <<>> THEN vm_error(vm, "REFUSED") ELSE vm
    /\ UNCHANGED source

ready == mod # <<>> /\ vm.status = "OK"

\* The instruction is fetched and counted: fetched is the machine after that.
instruction == mod[1].code[vm.ip]
\* (Mutant: the instruction is not counted.)
FetchedUncounted == [vm EXCEPT !.ip = @ + 1]

fetched == [vm EXCEPT !.count = @ + 1, !.ip = @ + 1]

Fetch(ops) ==
    /\ ready
    /\ vm.count < MaxInstructions
    /\ vm.ip <= Len(mod[1].code)
    /\ instruction[1] \in ops
    /\ UNCHANGED <<source, mod>>

LimitExceeded ==
    /\ ready /\ vm.count >= MaxInstructions
    /\ vm' = vm_error(vm, "LIMIT_EXCEEDED")
    /\ UNCHANGED <<source, mod>>

EndOfCode ==
    /\ ready /\ vm.count < MaxInstructions /\ vm.ip > Len(mod[1].code)
    /\ vm' = [vm EXCEPT !.status = "HALT"]
    /\ UNCHANGED <<source, mod>>

\* OP_NOP, OP_DEBUG_LINE, OP_PROF_TICK
DoNothing(v, i) == v

DoHalt(v, i) == [v EXCEPT !.status = "HALT"]

DoYield(v, i) == [v EXCEPT !.status = "YIELD"]

DoPush(v, i) ==
    bucc_vm_push(v, CASE i[1] = "PUSH_NULL" -> NULL [] i[1] = "PUSH_TRUE" -> Bool(TRUE)
                      [] i[1] = "PUSH_FALSE" -> Bool(FALSE) [] i[1] = "PUSH_I64" -> I64(i[2])
                      [] i[1] = "PUSH_STR" -> <<"s", IF i[2] = <<"">> THEN <<>> ELSE i[2]>>)

DoPop(v, i) == bucc_vm_pop(v)

DoDup(v, i) == bucc_vm_push(v, bucc_vm_peek(v, 0))

DoSwap(v, i) ==
    LET n == Len(v.stack)
    IN  IF n < 2 THEN vm_error(v, "STACK_UNDERFLOW")
        ELSE [v EXCEPT !.stack[n] = v.stack[n - 1], !.stack[n - 1] = v.stack[n]]

DoLoad(v, i) ==
    bucc_vm_push(v, IF i[1] = "LOAD_GLOBAL" THEN bucc_vm_get_global(v, i[2]) ELSE bucc_vm_get_local(v, i[2]))

DoStore(v, i) ==
    LET x == bucc_vm_peek(v, 0)
        u == bucc_vm_pop(v)
    IN  IF i[1] = "STORE_GLOBAL" THEN bucc_vm_set_global(u, i[2], x) ELSE bucc_vm_set_local(u, i[2], x)

Concatenated(v, a, b) == <<"s", bucc_value_to_string(v.heap, a) \o bucc_value_to_string(v.heap, b)>>

\* A division by zero is thrown; without a handler the program goes on.
DoArithmetic(v, i) ==
    LET a == bucc_vm_peek(v, 1)
        b == bucc_vm_peek(v, 0)
        u == PopN(v, 2)
        x == AsI64(a)
        y == AsI64(b)
    IN  IF i[1] = "ADD" /\ "s" \in {kind(a), kind(b)} THEN bucc_vm_push(u, Concatenated(v, a, b))
        ELSE IF i[1] \in {"DIV", "MOD"} /\ y = 0
        THEN handle_exception(bucc_vm_throw(u, <<"e", "Division by zero">>))
        ELSE bucc_vm_push(u, I64(CASE i[1] = "ADD" -> x + y [] i[1] = "SUB" -> x - y [] i[1] = "MUL" -> x * y
                                   [] i[1] = "DIV" -> Quotient(x, y) [] i[1] = "MOD" -> x - y * Quotient(x, y)))

DoNegate(v, i) == bucc_vm_push(bucc_vm_pop(v), I64(0 - AsI64(bucc_vm_peek(v, 0))))

DoCompare(v, i) ==
    LET a == bucc_vm_peek(v, 1)
        b == bucc_vm_peek(v, 0)
        c == bucc_value_compare(a, b)
    IN  bucc_vm_push(PopN(v, 2),
            Bool(CASE i[1] = "EQ" -> bucc_value_equal(v.heap, a, b) [] i[1] = "NE" -> ~bucc_value_equal(v.heap, a, b)
                   [] i[1] = "LT" -> c < 0 [] i[1] = "LE" -> c <= 0 [] i[1] = "GT" -> c > 0 [] i[1] = "GE" -> c >= 0))

DoLogic(v, i) ==
    LET a == bucc_value_truthy(v.heap, bucc_vm_peek(v, 1))
        b == bucc_value_truthy(v.heap, bucc_vm_peek(v, 0))
    IN  CASE i[1] = "AND" -> bucc_vm_push(PopN(v, 2), Bool(a /\ b))
          [] i[1] = "OR" -> bucc_vm_push(PopN(v, 2), Bool(a \/ b))
          [] i[1] = "NOT" -> bucc_vm_push(bucc_vm_pop(v), Bool(~b))

DoConcat(v, i) == bucc_vm_push(PopN(v, 2), Concatenated(v, bucc_vm_peek(v, 1), bucc_vm_peek(v, 0)))

DoJump(v, i) ==
    LET c == bucc_value_truthy(v.heap, bucc_vm_peek(v, 0))
        far(u) == [u EXCEPT !.ip = @ + i[2]]
    IN  CASE i[1] = "JMP" -> far(v)
          [] i[1] = "JMP_FALSE" -> IF c THEN bucc_vm_pop(v) ELSE far(bucc_vm_pop(v))
          [] i[1] = "JMP_TRUE" -> IF c THEN far(bucc_vm_pop(v)) ELSE bucc_vm_pop(v)

RECURSIVE SetLocals(_, _, _)
SetLocals(v, i, xs) == IF xs = <<>> THEN v ELSE SetLocals(bucc_vm_set_local(v, i, Head(xs)), i + 1, Tail(xs))

\* The arguments stay on the stack and become the first locals.
DoCall(v, i) ==
    LET f == [ip |-> v.ip, bp |-> Len(v.stack) - i[3], base |-> Len(v.locals)]
    IN  IF i[2] >= Len(mod[1].procs) THEN vm_error(v, "ERROR")
        ELSE IF Len(v.frames) >= FRAMES_MAX THEN vm_error(v, "FRAME_OVERFLOW")
        ELSE [SetLocals([v EXCEPT !.frames = Append(@, f)], 0, TopN(v, i[3]))
              EXCEPT !.ip = mod[1].procs[i[2] + 1].off]

\* Back to the caller: locals and stack are cut to where the call found them.
Unwound(v) ==
    LET f == Last(v.frames)
    IN  [v EXCEPT !.frames = Front(@), !.ip = f.ip,
                  !.locals = SubSeq(@, 1, IF f.base < Len(@) THEN f.base ELSE Len(@)),
                  !.stack = SubSeq(@, 1, IF f.bp < Len(@) THEN f.bp ELSE Len(@))]

DoReturn(v, i) == IF v.frames = <<>> THEN [v EXCEPT !.status = "HALT"] ELSE Unwound(v)

DoReturnValue(v, i) ==
    LET u == bucc_vm_pop(v)
        x == bucc_vm_peek(v, 0)
    IN  IF v.frames = <<>> THEN [bucc_vm_push(u, x) EXCEPT !.status = "HALT"]
        ELSE bucc_vm_push(Unwound(u), x)

\* The calls of a compiled module that reach the terminal or end the door.
HostCall(v, ns, fn, args) ==
    CASE ns = "TERM" /\ fn \in {"PRINT", "PRINTLN"} ->
           [v EXCEPT !.out = Append(@, IF args = <<>> THEN <<>> ELSE bucc_value_to_string(v.heap, args[1]))]
      [] ns = "DOOR" /\ fn = "EXIT" -> [v EXCEPT !.status = "HALT"]
      [] OTHER -> v

DoCallHost(v, i) ==
    IF i[4] > 16 THEN vm_error(v, "ERROR")
    ELSE bucc_vm_push(HostCall(PopN(v, i[4]), i[2], i[3], TopN(v, i[4])), NULL)

\* TERM.GETKEY waits for the caller; one who has hung up gives the empty text.
Awaits == ready /\ vm.ip <= Len(mod[1].code) /\ mod[1].code[vm.ip] = <<"CALL_HOST", "TERM", "GETKEY", 0>>

GetKey(k) ==
    /\ Awaits
    /\ (Len(vm.keys) < MaxKeys) = (k # "")
    /\ Fetch({"CALL_HOST"})
    /\ vm' = bucc_vm_push([fetched EXCEPT !.keys = Append(@, k)], Text(k))

DoChain(v, i) ==
    [IF i[3] = 1 THEN bucc_vm_pop(v) ELSE v
     EXCEPT !.chain = <<i[2], IF i[3] = 1 THEN bucc_vm_peek(v, 0) ELSE NULL>>, !.status = "CHAIN"]

Allocated(v, tag, contents) == bucc_vm_push([v EXCEPT !.heap = Append(@, contents)], <<tag, Len(v.heap) + 1>>)

DoArray(v, i) ==
    LET top == bucc_vm_peek(v, 0)
        second == bucc_vm_peek(v, 1)
        third == bucc_vm_peek(v, 2)
    IN  CASE i[1] = "ARRAY_NEW" -> Allocated(PopN(v, i[2]), "a", TopN(v, i[2]))
          [] i[1] = "ARRAY_GET" ->
               bucc_vm_push(PopN(v, 2), IF kind(second) = "a" /\ kind(top) = "i"
                                        THEN bucc_array_get(v.heap[second[2]], top[2]) ELSE NULL)
          [] i[1] = "ARRAY_SET" ->
               IF kind(third) = "a" /\ kind(second) = "i"
               THEN [PopN(v, 3) EXCEPT !.heap[third[2]] = bucc_array_set(@, second[2], top)] ELSE PopN(v, 3)
          [] i[1] = "ARRAY_PUSH" ->
               IF kind(second) = "a" THEN [PopN(v, 2) EXCEPT !.heap[second[2]] = Append(@, top)] ELSE PopN(v, 2)
          [] i[1] = "ARRAY_POP" ->
               IF kind(top) # "a" THEN bucc_vm_push(bucc_vm_pop(v), NULL)
               ELSE bucc_vm_push([bucc_vm_pop(v) EXCEPT !.heap[top[2]] = bucc_array_pop(@)],
                                 bucc_array_get(v.heap[top[2]], Len(v.heap[top[2]]) - 1))

\* The pairs are taken off the stack from the last to the first.
RECURSIVE MapOf(_, _)
MapOf(s, xs) ==
    IF xs = <<>> THEN s
    ELSE LET n == Len(xs)
         IN  MapOf(IF kind(xs[n - 1]) = "s" THEN bucc_map_set(s, xs[n - 1][2], xs[n]) ELSE s, SubSeq(xs, 1, n - 2))

DoMap(v, i) ==
    LET top == bucc_vm_peek(v, 0)
        second == bucc_vm_peek(v, 1)
        third == bucc_vm_peek(v, 2)
        keyed == kind(second) = "m" /\ kind(top) = "s"
    IN  CASE i[1] = "MAP_NEW" -> Allocated(PopN(v, 2 * i[2]), "m", MapOf(<<>>, TopN(v, 2 * i[2])))
          [] i[1] = "MAP_GET" ->
               bucc_vm_push(PopN(v, 2), IF keyed THEN bucc_map_get(v.heap[second[2]], top[2]) ELSE NULL)
          [] i[1] = "MAP_HAS" ->
               bucc_vm_push(PopN(v, 2), Bool(keyed /\ map_find(v.heap[second[2]], top[2]) # {}))
          [] i[1] = "MAP_SET" ->
               IF kind(third) = "m" /\ kind(second) = "s"
               THEN [PopN(v, 3) EXCEPT !.heap[third[2]] = bucc_map_set(@, second[2], top)] ELSE PopN(v, 3)
          [] i[1] = "MAP_KEYS" ->
               Allocated(bucc_vm_pop(v), "a", IF kind(top) = "m" THEN bucc_map_keys(v.heap[top[2]]) ELSE <<>>)

DoTryBegin(v, i) ==
    [v EXCEPT !.trys = <<[handler |-> v.ip + i[2], fp |-> Len(v.frames), sp |-> Len(v.stack)]>> \o @]

DoTryEnd(v, i) == IF v.trys = <<>> THEN v ELSE [v EXCEPT !.trys = Tail(@)]

DoThrow(v, i) == ThrowOrStop(bucc_vm_throw(bucc_vm_pop(v), bucc_vm_peek(v, 0)))

DoRethrow(v, i) == IF v.exc = <<>> THEN v ELSE ThrowOrStop(v)

DoCast(v, i) ==
    LET x == bucc_vm_peek(v, 0)
    IN  bucc_vm_push(bucc_vm_pop(v),
            CASE i[1] = "CAST_I64" -> I64(bucc_value_to_number(x))
              [] i[1] = "CAST_STRING" -> <<"s", bucc_value_to_string(v.heap, x)>>
              [] i[1] = "CAST_BOOL" -> Bool(bucc_value_truthy(v.heap, x))
              [] i[1] = "TYPEOF" -> Text(bucc_value_kind_name[kind(x)]))

\* ON n CALL: the n-th of a row of procedures, called without arguments.
DoDispatchCall(v, i) ==
    LET x == bucc_vm_peek(v, 0)
        n == IF kind(x) = "i" THEN x[2] ELSE 0
        u == bucc_vm_pop(v)
    IN  IF n \notin 1..i[3] \/ i[2] + n - 1 >= Len(mod[1].procs) THEN vm_error(u, "ERROR")
        ELSE IF Len(v.frames) >= FRAMES_MAX THEN vm_error(u, "FRAME_OVERFLOW")
        ELSE [u EXCEPT !.frames = Append(@, [ip |-> u.ip, bp |-> Len(u.stack), base |-> Len(u.locals)]),
                       !.ip = mod[1].procs[i[2] + n].off]

DoRangeTest(v, i) ==
    LET x == TopN(v, 3)
    IN  bucc_vm_push(PopN(v, 3), Bool(/\ \A n \in 1..3 : kind(x[n]) = "i"
                                      /\ x[2][2] <= x[1][2] /\ x[1][2] <= x[3][2]))

Opcodes == UNION {
    {"NOP", "DEBUG_LINE", "PROF_TICK", "HALT", "YIELD", "PUSH_NULL", "PUSH_TRUE", "PUSH_FALSE", "PUSH_I64",
     "PUSH_STR", "POP", "DUP", "SWAP", "LOAD_GLOBAL", "LOAD_LOCAL", "LOAD_ARG", "STORE_GLOBAL", "STORE_LOCAL"},
    {"ADD", "SUB", "MUL", "DIV", "MOD", "NEG", "EQ", "NE", "LT", "LE", "GT", "GE", "AND", "OR", "NOT", "CONCAT",
     "JMP", "JMP_FALSE", "JMP_TRUE", "CALL", "CALL_HOST", "RETURN", "RETURN_VALUE", "CHAIN"},
    {"ARRAY_NEW", "ARRAY_GET", "ARRAY_SET", "ARRAY_PUSH", "ARRAY_POP", "MAP_NEW", "MAP_GET", "MAP_SET", "MAP_HAS",
     "MAP_KEYS", "TRY_BEGIN", "TRY_END", "THROW", "RE_THROW", "CAST_I64", "CAST_STRING", "CAST_BOOL", "TYPEOF",
     "DISPATCH_CALL", "RANGE_TEST"}}

InvalidOpcode ==
    /\ ready /\ vm.count < MaxInstructions /\ vm.ip <= Len(mod[1].code)
    /\ mod[1].code[vm.ip][1] \notin Opcodes
    /\ vm' = vm_error([vm EXCEPT !.count = @ + 1, !.ip = @ + 1], "INVALID_OPCODE")
    /\ UNCHANGED <<source, mod>>

bucc_vm_step ==
    \/ LimitExceeded
    \/ EndOfCode
    \/ InvalidOpcode
    \/ Fetch({"NOP", "DEBUG_LINE", "PROF_TICK"}) /\ vm' = DoNothing(fetched, instruction)
    \/ Fetch({"HALT"}) /\ vm' = DoHalt(fetched, instruction)
    \/ Fetch({"YIELD"}) /\ vm' = DoYield(fetched, instruction)
    \/ Fetch({"PUSH_NULL", "PUSH_TRUE", "PUSH_FALSE", "PUSH_I64", "PUSH_STR"}) /\ vm' = DoPush(fetched, instruction)
    \/ Fetch({"POP"}) /\ vm' = DoPop(fetched, instruction)
    \/ Fetch({"DUP"}) /\ vm' = DoDup(fetched, instruction)
    \/ Fetch({"SWAP"}) /\ vm' = DoSwap(fetched, instruction)
    \/ Fetch({"LOAD_GLOBAL", "LOAD_LOCAL", "LOAD_ARG"}) /\ vm' = DoLoad(fetched, instruction)
    \/ Fetch({"STORE_GLOBAL", "STORE_LOCAL"}) /\ vm' = DoStore(fetched, instruction)
    \/ Fetch({"ADD", "SUB", "MUL", "DIV", "MOD"}) /\ vm' = DoArithmetic(fetched, instruction)
    \/ Fetch({"NEG"}) /\ vm' = DoNegate(fetched, instruction)
    \/ Fetch({"EQ", "NE", "LT", "LE", "GT", "GE"}) /\ vm' = DoCompare(fetched, instruction)
    \/ Fetch({"AND", "OR", "NOT"}) /\ vm' = DoLogic(fetched, instruction)
    \/ Fetch({"CONCAT"}) /\ vm' = DoConcat(fetched, instruction)
    \/ Fetch({"JMP", "JMP_FALSE", "JMP_TRUE"}) /\ vm' = DoJump(fetched, instruction)
    \/ Fetch({"CALL"}) /\ vm' = DoCall(fetched, instruction)
    \/ ~Awaits /\ Fetch({"CALL_HOST"}) /\ vm' = DoCallHost(fetched, instruction)
    \/ \E k \in Keys \cup {""} : GetKey(k)
    \/ Fetch({"RETURN"}) /\ vm' = DoReturn(fetched, instruction)
    \/ Fetch({"RETURN_VALUE"}) /\ vm' = DoReturnValue(fetched, instruction)
    \/ Fetch({"CHAIN"}) /\ vm' = DoChain(fetched, instruction)
    \/ Fetch({"ARRAY_NEW", "ARRAY_GET", "ARRAY_SET", "ARRAY_PUSH", "ARRAY_POP"}) /\ vm' = DoArray(fetched, instruction)
    \/ Fetch({"MAP_NEW", "MAP_GET", "MAP_SET", "MAP_HAS", "MAP_KEYS"}) /\ vm' = DoMap(fetched, instruction)
    \/ Fetch({"TRY_BEGIN"}) /\ vm' = DoTryBegin(fetched, instruction)
    \/ Fetch({"TRY_END"}) /\ vm' = DoTryEnd(fetched, instruction)
    \/ Fetch({"THROW"}) /\ vm' = DoThrow(fetched, instruction)
    \/ Fetch({"RE_THROW"}) /\ vm' = DoRethrow(fetched, instruction)
    \/ Fetch({"CAST_I64", "CAST_STRING", "CAST_BOOL", "TYPEOF"}) /\ vm' = DoCast(fetched, instruction)
    \/ Fetch({"DISPATCH_CALL"}) /\ vm' = DoDispatchCall(fetched, instruction)
    \/ Fetch({"RANGE_TEST"}) /\ vm' = DoRangeTest(fetched, instruction)

\* bucc_vm_run steps until the status is no longer VM_OK.
Next == Compile \/ bucc_vm_step

\* bucc_vm_run is a plain loop: a machine that can take a step takes it.
Spec == Init /\ [][Next]_vars /\ WF_vars(bucc_vm_step)
=============================================================================
