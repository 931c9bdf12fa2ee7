----------------------------- MODULE MCCompiler ------------------------------
(***************************************************************************)
(* Pairs of small statements, written down, parsed, optimised, compiled    *)
(* and run: the body of main declares variables of every kind, runs one    *)
(* statement after another, and shows what they left behind.               *)
(***************************************************************************)
EXTENDS Meaning, Optimizer, Machine

CONSTANTS Sources,  \* the sources to compile and run: MCSources, or the sources of a finding
          MaxDepth
VARIABLES meant,    \* what the program should write
          same      \* the parser found the tree the source was written from

Written == INSTANCE Printer
Parsed == INSTANCE Parser

I(n) == [t |-> "lit", ty |-> "int", v |-> n]
D(n) == [t |-> "lit", ty |-> "deci", v |-> n]
S(c) == [t |-> "lit", ty |-> "str", v |-> c]
V(n) == [t |-> "id", n |-> n]
B(op, l, r) == [t |-> "bin", op |-> op, l |-> l, r |-> r]
U(op, e) == [t |-> "un", op |-> op, e |-> e, post |-> FALSE]
Post(op, n) == [t |-> "un", op |-> op, e |-> V(n), post |-> TRUE]
Tern(c, a, b) == [t |-> "tern", c |-> c, a |-> a, b |-> b]
Elem(n, i) == [t |-> "at", n |-> n, i |-> i]
Dot(o, f) == [t |-> "dot", o |-> o, f |-> f]
To(ty, e) == [t |-> "cast", to |-> ty, e |-> e]
Conversions(tys, es) == [t |-> "casts", to |-> tys, args |-> es]
Fn(f, args) == [t |-> "call", f |-> f, args |-> args]
Builtin(f, args) == [t |-> "builtin", f |-> f, args |-> args]
When(v, b) == [v |-> v, b |-> b]
Cyc(v, cases, d) == [t |-> "cycle", v |-> v, cases |-> cases, default |-> d]

Do(ss) == [t |-> "block", ss |-> ss]
Try(ss) == [t |-> "check", b |-> Do(ss), handlers |-> <<>>]   \* a block of its own
Shows(e) == [t |-> "show", e |-> e]
Let(n, ty, e) == [t |-> "var", n |-> n, ty |-> ty, e |-> e]
Put(n, e) == [t |-> "set", n |-> n, e |-> e]
Cond(c, a, b) == [t |-> "if", c |-> c, a |-> a, b |-> b]
Whl(c, b) == [t |-> "while", c |-> c, b |-> b]
For(n, from, c, b) == [t |-> "loop", i |-> Let(n, "int", I(from)), c |-> c,
                       s |-> Put(n, B("+", V(n), I(1))), b |-> b]
Ret(e) == [t |-> "return", e |-> e]
Defer(s) == [t |-> "defer", s |-> s]
Brk == [t |-> "break"]
Cont == [t |-> "continue"]
ArrSet(n, i, e) == [t |-> "setat", n |-> n, i |-> i, e |-> e]
FieldSet(o, f, e) == [t |-> "setdot", o |-> o, f |-> f, e |-> e]
Below(n, k) == B("<", V(n), I(k))
Param(n, ty, e) == [n |-> n, ty |-> ty, e |-> e]

Groups == << [n |-> "Point", fields |-> << [n |-> "flag", ty |-> "bool"], [n |-> "px", ty |-> "int"], [n |-> "py", ty |-> "int"],
                                           [n |-> "w", ty |-> "deci"] >>],
             [n |-> "Pair", fields |-> << [n |-> "a", ty |-> "int"], [n |-> "b", ty |-> "int"] >>],
             [n |-> "Box", fields |-> << [n |-> "in", ty |-> "Pair"], [n |-> "name", ty |-> "str"] >>] >>

Functions == <<
  [n |-> "add", ret |-> "int", params |-> <<Param("p", "int", None), Param("q", "int", I(4))>>,
   body |-> Do(<<Let("r", "int", B("+", V("p"), V("q"))), Ret(V("r"))>>)],
  [n |-> "half", ret |-> "deci", params |-> <<Param("p", "deci", None), Param("k", "int", None)>>,
   body |-> Do(<<Cond(V("k"), Do(<<Ret(V("p"))>>), None), Ret(V("k"))>>)],
  [n |-> "down", ret |-> "int", params |-> <<Param("p", "int", None)>>,
   body |-> Do(<<Defer(Shows(V("p"))), Cond(B("==", V("p"), I(0)), Do(<<>>), Do(<<Put("p", Fn("down", <<B("-", V("p"), I(1))>>))>>)),
                 Ret(B("+", V("p"), I(1)))>>)],
  [n |-> "say", ret |-> "none", params |-> <<Param("p", "int", None)>>,
   body |-> Do(<<Defer(Shows(I(8))), Shows(V("p")), Defer(Shows(I(9)))>>)],
  [n |-> "seven", ret |-> "int", params |-> [i \in 1 .. 7 |-> Param(<<"a", "b", "c", "d", "e", "f", "g">>[i], "int", None)],
   body |-> Do(<<Ret(B("-", B("*", V("a"), V("f")), V("c")))>>)] >>

Imports == << [n |-> <<"app">>, as |-> ""], [n |-> <<"file">>, as |-> "m"], [n |-> <<"lib", "/", "math">>, as |-> ""] >>
Consts == << [n |-> "LIMIT", v |-> I(11)] >>

Prelude == << Let("x", "int", I(5)), Let("y", "byte", I(200)), Let("s", "str", S("a")), Let("d", "deci", I(3)),
              [t |-> "array", n |-> "arr", ty |-> "int", len |-> I(4), init |-> <<I(1), V("x"), I(3)>>],
              [t |-> "array", n |-> "raw", ty |-> "byte", len |-> I(8), init |-> <<>>],
              [t |-> "group", n |-> "box", ty |-> "Box"], Let("z", "int", None) >>
Epilogue == << Shows(V("x")), Shows(V("y")), Shows(V("d")), Shows(V("z")), Shows(Elem("arr", I(1))) >>

\* Statements that keep their meaning, alone and one after another.
Statements == <<
  Put("x", B("-", B("*", V("x"), I(3)), B("/", I(9), B("+", I(1), I(1))))),
  Put("z", B("+", B("%", V("y"), I(7)), B("*", I(700), V("x")))),
  Put("y", B("+", V("y"), B("<<", I(3), B("&", V("x"), I(6))))),
  Put("z", B("xor", B("&&", V("x"), B("/", V("x"), I(0))), B("||", V("z"), B("==", V("s"), S("a"))))),
  Put("x", Tern(B(">=", V("x"), V("LIMIT")), U("-", V("x")), Post("++", "x"))),
  Put("z", B("-", Post("--", "x"), U("++", V("x")))),
  Put("d", B("*", B("+", D(2), V("d")), V("d"))),
  Let("d", "deci", Fn("half", <<I(6), B("<", V("z"), I(2))>>)),
  Put("z", Fn("add", <<Fn("add", <<V("x"), I(2)>>), Cyc(I(2), <<When(I(1), Do(<<[t |-> "emit", e |-> I(10)]>>)),
                        When(B("-", I(3), I(1)), Do(<<[t |-> "emit", e |-> B("+", V("x"), I(20))]>>))>>, None)>>)),
  Fn("say", <<Fn("down", <<I(2)>>)>>),
  Put("x", Fn("down", <<I(1)>>)),
  ArrSet("arr", B("&", V("x"), I(3)), B("+", Elem("arr", I(0)), Elem("arr", Elem("arr", I(0))))),
  Try(<<ArrSet("raw", I(3), I(300)), Put("y", Elem("raw", I(3))), Put("s", S("b"))>>),
  Try(<<FieldSet(Dot(V("box"), "in"), "a", I(8)), FieldSet(V("box"), "name", S("b")), FieldSet(Dot(V("box"), "in"), "b", V("x")),
       Put("z", B("-", Dot(Dot(V("box"), "in"), "a"), Dot(Dot(V("box"), "in"), "b"))), Shows(V("s"))>>),
  Try(<<[t |-> "array", n |-> "ps", ty |-> "Pair", len |-> I(2), init |-> <<>>],
       FieldSet(Elem("ps", I(1)), "b", I(6)), FieldSet(Elem("ps", I(0)), "b", I(2)),
       Put("z", Dot(Elem("ps", I(1)), "b"))>>),
  Cond(B("!=", V("x"), I(5)), Do(<<Let("x", "int", I(1)), Shows(V("x"))>>), Do(<<Defer(Put("x", I(2))), Let("t", "int", V("x")), Put("z", V("t"))>>)),
  Whl(B("and", B(">=", V("z"), I(0)), Below("z", 3)), Do(<<Put("z", B("+", V("z"), I(1))), Let("t", "int", V("z")), Put("x", B("+", V("x"), V("t")))>>)),
  Whl(I(1), Do(<<Put("z", B("+", V("z"), I(1))), Cond(B("||", B(">", V("z"), I(2)), Below("z", 0)), Do(<<Brk>>), None), Cond(B("|", V("z"), I(0)), Do(<<Cont>>), None), Shows(I(0))>>)),
  For("i", 0, Below("i", 3), Do(<<For("j", 0, Below("j", 2), Do(<<Put("z", B("+", B("*", V("i"), V("j")), V("z")))>>)), Put("x", V("i"))>>)),
  For("i", 0, Below("i", 4), Do(<<Cond(B("==", V("i"), I(1)), Do(<<Cont>>), None), Cond(B("==", V("i"), I(3)), Do(<<Brk>>), None), Defer(Shows(V("i"))), Put("x", V("i"))>>)),
  Cyc(V("x"), <<When(I(5), Do(<<Put("z", I(1))>>)), When(I(5), Do(<<Put("z", I(2))>>))>>, Do(<<Put("z", I(3)), Shows(S("b"))>>)),
  Try(<<Defer(Shows(I(1))), Defer(Put("x", I(7))), Try(<<Defer(Shows(V("x"))), Let("x", "int", I(6)), Put("x", B("*", V("x"), V("x")))>>)>>),
  [t |-> "showf", parts |-> <<S("a"), V("x"), B("+", V("d"), D(1))>>],
  Try(<<Put("x", To("int", V("d"))), Put("d", To("deci", V("z"))), Put("z", To("bool", V("d"))),
                             Put("z", B("+", To("byte", V("y")), V("z"))), Conversions(<<"int", "int">>, <<Post("++", "x"), V("d")>>)>>),
  Try(<<Put("s", [t |-> "read", n |-> "", ty |-> "str"]), Shows(V("s")), Put("z", Fn("seven", [i \in 1 .. 7 |-> I(i)]))>>),
  Put("z", B("+", B("*", B("+", B("|", V("x"), B("-", I(2), I(2))), B("&", I(0), V("z"))), U("-", U("-", I(1)))), B("/", B("%", I(17), I(10)), I(2)))),
  Cond(B("-", B("*", I(1), V("x")), I(0)), Do(<<Let("k", "bool", U("!", [t |-> "lit", ty |-> "bool", v |-> 0])), Put("z", V("k"))>>),
       Do(<<Ret(I(3)), Shows(I(4)), Ret(I(5))>>)),
  Put("z", B("^", U("~", V("x")), B(">>", B("-", I(0), I(9)), I(1)))) >>

\* Nests of three loops, which the optimising generator tiles: it counts to 512
\* in each dimension and declares no variable of the loops, so the nests keep
\* their meaning where they are left in their first run. Nests of i, j, k,
\* where other loops would be unrolled, are not compiled: nasm refuses them.
Nest(names, i, j, k, b) ==
    For(names[1], 0, Below(names[1], i), Do(<<For(names[2], 0, Below(names[2], j), Do(<<For(names[3], 0, Below(names[3], k), b)>>))>>))
NestOf(b) == Nest(<<"a", "b", "c">>, 2, 2, 2, b)
Nests == << NestOf(Do(<<Defer(Shows(V("z"))), Put("z", I(1)), Whl(Below("z", 3), Do(<<Put("z", B("+", V("z"), I(1)))>>)),
                        Let("t", "int", B("*", V("x"), V("z"))), Shows(V("t")), Ret(I(0))>>)),
            NestOf(Do(<<Put("x", Fn("add", <<V("x"), Elem("arr", I(2))>>)), Shows(V("x")), ArrSet("arr", I(4), V("x"))>>)),
            NestOf(Do(<<Cond(V("z"), Do(<<Builtin("exit", <<I(1)>>)>>), Do(<<Put("d", B("+", V("d"), D(2))), Shows(V("d")), Ret(V("y"))>>))>>)) >>

Main(body) == [n |-> "main", ret |-> "int", params |-> <<>>, body |-> Do(Prelude \o body \o Epilogue \o <<Ret(I(0))>>)]
\* Levels 2 and 3 have the generator optimise loops as well.
Program(body, level, check) == [imports |-> Imports, consts |-> Consts, groups |-> Groups, funs |-> Append(Functions, Main(body)),
                                level |-> level, simd |-> level >= 2, checked |-> check]

\* Builtins are called with the number of arguments the registry asks for, a
\* block of the enumeration at a time.
Args == <<B("-", V("x"), I(1)), V("y"), I(2)>>
ArityOf(b) == (CHOOSE i \in DOMAIN Takes : b \in Takes[i]) - 1
CallIt(b) == Builtin(b, SubSeq(Args, 1, ArityOf(b)))
CallAll(bs) == Program([i \in DOMAIN bs |-> CallIt(bs[i])], 0, TRUE)

\* Those whose number sends them to other code or to none, or that take more than
\* they are given.
Astray == {"align", "stack_size", "mfence", "lfence", "sfence", "irq_enable", "irq_disable", "str_join", "repeat", "pad",
           "error", "get_error_code", "get_error_msg", "clear_error", "assert", "check_alloc", "try_syscall", "try_fopen",
           "log_error", "recover", "fork", "wait", "wait_any", "getpid", "getppid", "chdir", "getcwd", "getenv", "setenv",
           "unsetenv", "getenv_int", "setenv_int", "exec", "system_call", "getrlimit", "setrlimit", "thread_count",
           "event_reset", "rand_new", "rand_range", "hour_from_time", "minute_from_time", "second_from_time", "strftime",
           "strptime", "day_of_week", "day_of_year", "is_leap_year", "days_in_month", "bsearch", "search", "bubble_sort",
           "selection_sort", "insertion_sort", "find_max_idx", "count_val", "sum", "average", "import"}
\* Those that give no call to look at, lose the first argument or break the stack.
Apart == {"", "halt", "exit", "panic", "addr", "mmap", "realloc", "cast", "type", "to_int", "to_deci", "to_byte", "to_bool", "to_str"}
BuiltinPrograms ==
    [i \in DOMAIN Blocks |-> CallAll(SelectSeq(Blocks[i][2], LAMBDA b : b \notin Astray \cup Apart))]
    \o << Program(<<Put("z", Builtin("to_int", <<V("d")>>)), Put("x", Builtin("to_byte", <<Builtin("pow", <<V("x"), I(2)>>)>>)),
                    Put("y", Builtin("to_bool", <<V("y")>>)), Put("d", Builtin("to_deci", <<V("z")>>)), CallIt("panic")>>, 0, TRUE),
         CallAll(<<"exit", "pid">>) >>
\* No stack is reserved for a map, and what is put into it is not found again: maps are only parsed.
Map == [t |-> "mapdecl", n |-> "m", kt |-> "int", vt |-> "deci"]
MapOp(op, k) == [t |-> op, n |-> "m", k |-> k]

\* Every statement alone with itself and before Followers others.
N == Len(Statements)
Followers == 5
Pairs == [i \in 1 .. N * (Followers + 1) |-> LET a == (i - 1) % N IN <<a + 1, 1 + ((a + ((i - 1) \div N)) % N)>>]
MCPrograms == [i \in DOMAIN Pairs |-> Program(<<Statements[Pairs[i][1]], Statements[Pairs[i][2]]>>, (i \div 2) % 2, i % 2 = 0)]
              \o <<Program(<<ArrSet("arr", I(4), I(1))>>, 0, TRUE)>>
              \o BuiltinPrograms \o [i \in 1 .. Len(Nests) |-> Program(<<Nests[i]>>, 2 + (i % 2), TRUE)]

\* Blocks with a deferred statement that are left by return, break and continue.
Leavings == << Try(<<Defer(Shows(I(1))), Cond(B("==", V("x"), I(5)), Do(<<Ret(I(0))>>), None)>>),
               Whl(Below("z", 3), Do(<<Put("z", B("+", V("z"), I(1))), Defer(Shows(V("z"))),
                                       Cond(B("==", V("z"), I(2)), Do(<<Cont>>), None)>>)) >>
LeavingPrograms == [i \in DOMAIN Leavings |-> Program(<<Leavings[i]>>, 0, TRUE)]

\* A source is a program, written in one of the two styles, or a text; run says
\* whether to compile it as well, and right whether there is a tree to find.
SourcesOf(programs, run) ==
    [i \in DOMAIN programs |-> [program |-> programs[i], short |-> i % 3 # 0, run |-> run, right |-> TRUE]]
TextOf(s) == IF "text" \in DOMAIN s THEN s.text ELSE Written!Source(s.program, s.short)

\* A body of main on its own. Nested takes n pairs of parentheses.
Alone(body) == [consts |-> <<>>, groups |-> <<>>, imports |-> <<>>, level |-> 0, simd |-> FALSE, checked |-> TRUE,
                funs |-> <<[n |-> "main", ret |-> "int", params |-> <<Param("a", "int", None) @@ [array |-> I(2)]>>, body |-> Do(body)]>>]
Nested[n \in Nat] == IF n = 0 THEN I(1) ELSE B("-", I(n), Nested[n - 1])
\* Parsed, and not compiled: the limit of nesting, and what the generator does wrong.
ParsedOnly == << Alone(<<Put("x", Nested[MaxDepth + 1]), Let("y", "int", U("not", V("x"))), Brk>>),
                 Alone(<<Map, MapOp("mapremove", I(1)), Put("x", MapOp("maphas", I(2))), Put("x", Tern(V("x"), MapOp("mapget", V("x")), I(2))),
                         [t |-> "mapset", n |-> "m", k |-> I(1), e |-> B("and", V("x"), U("+", V("x")))], [t |-> "emit", e |-> I(1)]>>),
                 Alone(<<[t |-> "read", n |-> "x", ty |-> "int"],
                         [t |-> "check", b |-> Do(<<>>), handlers |-> <<When(V("e"), Do(<<Brk>>)), When(None, Do(<<>>))>>],
                         Conversions(<<"int">>, <<>>),
                         Cond(V("x"), Do(<<>>), Cond(I(2), Do(<<Cont>>), Cond(I(3), Do(<<>>), None)))>>) >>

\* Sources that give no tree: one nesting more, a cast that is followed by a comma,
\* a prompt that is not part of an expression, a type of what is read, manme { },
\* x += 1 and a part ${ } of blanks.
Wrong == << [Alone(<<>>) EXCEPT !.funs[1].body.ss = <<Put("x", Nested[MaxDepth + 2])>>],
            Alone(<<Put("x", Fn("add", <<To("int", V("x")), I(2)>>))>>),
            Alone(<<[t |-> "read", n |-> "", ty |-> "str"]>>) >>
Fragment(ks) == Written!Words(<<"fnc">>) \o <<Written!Ident("f"), Written!Word("["), Written!Word("]"), Written!Word("::"), Written!Word("int"), Written!Word("{")>>
                \o ks \o <<Written!Word("}"), [k |-> "eof", v |-> ""]>>
WrongTexts == << Fragment(Written!Words(<<"read", "[", "int", "]", "[">>) \o <<[k |-> "string", v |-> "a"], Written!Word("]"), Written!Word(";")>>),
                 Fragment(Written!Words(<<"manme", "{", "break", ";", "}">>)),
                 Fragment(<<Written!Ident("x"), Written!Word("+="), [k |-> "number", v |-> 1], Written!Word(";")>>),
                 Fragment(Written!Words(<<"showf", "[">>)
                          \o <<[k |-> "string", v |-> "", parts |-> <<[text |-> "a"], [tokens |-> <<[k |-> "eof", v |-> ""]>>], [text |-> ""]>>],
                               Written!Word("]"), Written!Word(";")>>) >>
WrongSources == [i \in DOMAIN Wrong |-> [program |-> Wrong[i], short |-> TRUE, run |-> FALSE, right |-> FALSE]]
                \o [i \in DOMAIN WrongTexts |-> [text |-> WrongTexts[i], run |-> FALSE, right |-> FALSE]]

MCSources == SourcesOf(MCPrograms, TRUE) \o SourcesOf(ParsedOnly, FALSE) \o WrongSources
LeavingSources == SourcesOf(LeavingPrograms, TRUE)

-----------------------------------------------------------------------------
Tree(p) == [imports |-> p.imports, consts |-> p.consts, groups |-> p.groups, funs |-> p.funs]
Generated(g) == [ins |-> g.out, at |-> g.at, crash |-> g.crash]
Compile(options, tree) == Generated(Generate(OptimizeAst([level |-> options.level, simd |-> options.simd, checked |-> options.checked] @@ tree)))
NoCode == [ins |-> << <<"exit">> >>, at |-> [l \in {<<"func", "_start">>} |-> 1], crash |-> FALSE]

Ended == status # "run"
MCVars == <<vars, meant, same>>

\* Only what came back from the parser is compiled.
Started(s, found) ==
    /\ same = IF s.right THEN found.ok /\ found.depth = 0 /\ found.node = Tree(s.program) ELSE ~found.ok
    /\ Init(IF s.run /\ same THEN Compile(s.program, found.node) ELSE NoCode)
    /\ meant = IF s.run /\ same THEN Meant(s.program) ELSE <<>>
MCInit == \E i \in DOMAIN Sources : Started(Sources[i], Parsed!ParserParse(TextOf(Sources[i])))
Runs == Next /\ UNCHANGED <<meant, same>>
Stutter == Ended /\ UNCHANGED MCVars
MCSpec == MCInit /\ [][Runs \/ Stutter]_MCVars /\ WF_MCVars(Runs)

\* The parser gives back the tree a source was written from, by the
\* table of precedence of docs/06-OPERATORS.md, with as few parentheses as the
\* table allows or with all of them, and refuses what has no tree: levels,
\* chains, postfixes and the short forms of src/src/parser.c keep apart.
ParsedBack == same

\* What the compiled program has written is at every moment a beginning of
\* what the source program means to write, and all of it at the end: scopes,
\* defers, loops, calls, arrays and groups survive the stack layout, the
\* registers and the labels of src/src/codegen.c.
MeansTheSame == /\ IsPrefix(shown, meant)
                /\ Ended => status = "exit" /\ shown = meant

\* At the end of every statement the stack pointer is at or below the last
\* variable the generator has placed: a push never overwrites a variable.
VariablesAreSafe ==
    /\ reg["rsp"] <= StackTop
    /\ (~Ended /\ Ins[1] = "mark") => reg["rsp"] <= reg["rbp"] - Ins[2]

\* The counter of the recursion limit, changed by callers and callees, is
\* back at zero when the program is over: a long run does not exhaust it.
DepthIsReturned == (Ended /\ pc = code.at[<<"func", "_start">>] + 2) => depth = 0 /\ reg["rsp"] = StackTop

\* Every program ends.
EveryProgramEnds == <>Ended
==============================================================================
