------------------------------- MODULE Meaning -------------------------------
(***************************************************************************)
(* What a program of the language means, said without a stack: scopes are  *)
(* lists of bindings, a statement ends normally or by break, continue,     *)
(* return or exit, and a block runs its deferred statements, last in first *)
(* out, however it is left (docs: "executes at scope exit").               *)
(* The state is a record:                                                  *)
(*   env    the bindings in scope, the newest last                         *)
(*   v      the value of the last expression, as <<type, contents>>        *)
(*   sig    "go", or how the statements in progress are being left         *)
(*   out    what has been written                                          *)
(***************************************************************************)
EXTENDS Generator, Words

Num(n) == <<"int", n>>
Bool(b) == Num(IF b THEN 1 ELSE 0)
IsTrue(v) == v[2] # 0

\* A result that does not fit a word is -1 with the overflow check and wraps without it.
Fit(p, n) == IF n = Wrap(n) THEN n ELSE IF p.checked THEN -1 ELSE Wrap(n)

ReadBytes(ty, n) == IF ty \in {"byte", "ubyte", "char"} THEN n % 256 ELSE n

OpOnInts(p, op, a, b) ==
    CASE op \in {"+", "-", "*"} -> Fit(p, Result(Arithmetic[op], a, b))
      [] op \in {"/", "%"} /\ b = 0 -> 0
      [] op = "/" -> Quotient(a, b)
      [] op = "%" -> a - b * Quotient(a, b)
      [] op = "xor" -> IF (a # 0) # (b # 0) THEN 1 ELSE 0
      [] op \in DOMAIN Arithmetic -> Wrap(Result(Arithmetic[op], a, b))
      [] op \in {"<<", ">>"} -> Wrap(Result(op, a, b))

OrderOf(op, a, b) == CASE op = "==" -> a = b [] op = "!=" -> a # b
                       [] op = "<" -> a < b [] op = ">" -> a > b [] op = "<=" -> a <= b [] OTHER -> a >= b

OpOn(p, op, a, b) ==
    CASE op \in DOMAIN Compare -> Bool(OrderOf(op, a[2], b[2]))
      [] a[1] = "deci" -> <<"deci", IF op = "/" THEN Quotient(a[2], b[2]) ELSE Result(Arithmetic[op], a[2], b[2])>>
      [] OTHER -> Num(OpOnInts(p, op, a[2], b[2]))

Give(s, v) == [s EXCEPT !.v = v]
Binding(s, n) == SelectLastInSeq(s.env, LAMBDA b : b.n = n)
Bind(s, n, ty, v) == [s EXCEPT !.env = Append(@, [n |-> n, ty |-> ty, v |-> v])]
Rebind(s, n, v) == [s EXCEPT !.env[Binding(s, n)].v = v]
ValueOf(s, n) == s.env[Binding(s, n)].v
KindOf(ty) == IF ty \in {"deci", "str"} THEN ty ELSE "int"
Default(ty) == <<KindOf(ty), IF ty = "str" THEN "" ELSE 0>>
Say(s, what) == [s EXCEPT !.out = Append(@, what)]
Quit(s, how) == [s EXCEPT !.sig = how]

\* One operator gives the meaning of every kind of thing, an expression, a
\* statement, a turn of a loop or the rest of a block; these are its uses.
RECURSIVE Means(_, _, _)
Eval(p, s, e) == Means(p, s, <<"eval", e>>)
Run(p, s, st) == Means(p, s, <<"run", st>>)
Turn(p, s, l) == Means(p, s, <<"turn", l>>)
MeantBlock(p, s, ss) == Means(p, s, <<"block", ss>>)

\* The values of several expressions, from left to right.
EvalAll(p, s, es) ==
    FoldLeft(LAMBDA given, e : LET t == Eval(p, given.s, e) IN [s |-> t, vs |-> Append(given.vs, t.v)],
             [s |-> s, vs |-> <<>>], es)

\* A function sees its parameters; nesting deeper than the limit allows is not meant.
Back(d, before, after) ==
    IF after.sig = "exit" THEN after
    ELSE [after EXCEPT !.env = before.env, !.sig = "go",
                       !.v = IF after.sig = "return" THEN <<KindOf(d.ret), after.v[2]>> ELSE Num(0)]
Enter(p, d, given) ==
    LET In(i) == [n |-> d.params[i].n, ty |-> d.params[i].ty, v |-> <<KindOf(d.params[i].ty), given.vs[i][2]>>]
    IN  Back(d, given.s, Run(p, [given.s EXCEPT !.env = [i \in DOMAIN d.params |-> In(i)], !.v = Num(0)], d.body))
ApplyTo(p, s, d, args) ==
    Enter(p, d, EvalAll(p, s, [i \in DOMAIN d.params |-> IF i <= Len(args) THEN args[i] ELSE d.params[i].e]))
Apply(p, s, f, args) == ApplyTo(p, s, Get(p.funs, f), args)

CastTo(to, v) == CASE to = "int" -> Num(v[2])
                   [] to = "deci" -> <<"deci", v[2]>>
                   [] to = "bool" -> Bool(v[2] # 0)
                   [] OTHER -> Num(Signed(v[2], 8))

\* The path of names and indices an lvalue stands for.
RECURSIVE Root(_), Fields(_)
Root(e) == IF e.t = "dot" THEN Root(e.o) ELSE e
Fields(e) == IF e.t = "dot" THEN Append(Fields(e.o), e.f) ELSE <<>>
Indexed(e, n, t) == [s |-> t, n |-> n, path |-> <<t.v[2] + 1>> \o Fields(e)]
Place(p, s, e) ==
    IF Root(e).t = "id" THEN [s |-> s, n |-> Root(e).n, path |-> Fields(e)]
    ELSE Indexed(e, Root(e).n, Eval(p, s, Root(e).i))

RECURSIVE Inside(_, _), Replace(_, _, _)
Inside(v, path) == IF path = <<>> THEN v ELSE Inside(v[Head(path)], Tail(path))
Replace(v, path, x) == IF path = <<>> THEN x ELSE [v EXCEPT ![Head(path)] = Replace(@, Tail(path), x)]

Both(p, op, l, r) ==
    CASE op \in {"&&", "and"} -> IF IsTrue(l.v) THEN Give(r, Bool(IsTrue(r.v))) ELSE Give(l, Num(0))
      [] op = "||" -> IF IsTrue(l.v) THEN Give(l, Num(1)) ELSE Give(r, Bool(IsTrue(r.v)))
      [] r.sig # "go" -> r
      [] OTHER -> Give(r, OpOn(p, op, l.v, r.v))
Second(p, op, l, e) == Both(p, op, l, Eval(p, l, e))

Bumped(s, e, old, new) == Give(Rebind(s, e.e.n, new), IF e.post THEN old ELSE new)
Negated(op, t) ==
    Give(t, CASE op = "!" -> Bool(~IsTrue(t.v)) [] op = "+" -> t.v
              [] op = "-" -> Num(Wrap(-t.v[2])) [] OTHER -> Num(-t.v[2] - 1))
Chosen(p, c, a, b) == IF c.sig # "go" THEN c ELSE Means(p, c, IF IsTrue(c.v) THEN a ELSE b)
Found(e, q, v) == IF e.t = "at" /\ q.path[1] \notin DOMAIN v THEN Quit(Say(q.s, <<"msg", "bounds">>), "exit")
                  ELSE Give(q.s, Inside(v, q.path))
Look(e, q) == Found(e, q, ValueOf(q.s, q.n))
Converted(to, t) == Give(t, CastTo(to, t.v))

\* A builtin is called with the values of its arguments.
Sizes(s, e) == IF e.t = "id" THEN TypeSize(s.env[Binding(s, e.n)].ty) ELSE 8
Called(b, t) ==
    CASE t.s.sig # "go" \/ b = "salloc" -> t.s
      [] b = "exit" -> Quit(t.s, "exit")
      [] b = "panic" -> Quit(Say(t.s, <<"msg", "panic">>), "exit")
      [] b \in {"chr", "ord"} -> Give(t.s, Num(t.vs[1][2] % 256))
      [] b \in {"to_int", "to_deci", "to_byte", "to_bool"} -> Give(t.s, CastTo(SubSeq(b, 4, Len(b)), t.vs[1]))
      [] OTHER -> Give(Say(t.s, <<"call", b, [i \in DOMAIN t.vs |-> t.vs[i][2]]>>), Num(NativeResult))
MeansBuiltin(p, s, e) ==
    IF e.f = "sizeof" THEN Give(s, Num(Sizes(s, e.args[1]))) ELSE Called(e.f, EvalAll(p, s, e.args))

\* A map is a function from its keys to its values.
InMap(s, n, k) == k \in DOMAIN ValueOf(s, n)
Sought(e, k) == IF e.t = "maphas" THEN Give(k, Bool(InMap(k, e.n, k.v[2])))
                ELSE Give(k, IF InMap(k, e.n, k.v[2]) THEN ValueOf(k, e.n)[k.v[2]] ELSE Num(0))
Enters(n, k, v) == Rebind(v, n, (k.v[2] :> v.v) @@ ValueOf(v, n))
Removed(n, k) == Rebind(k, n, Restrict(ValueOf(k, n), DOMAIN ValueOf(k, n) \ {k.v[2]}))

MeansExpr(p, s, e) ==
    IF s.sig # "go" THEN s ELSE
    CASE e.t = "lit" -> Give(s, <<KindOf(e.ty), e.v>>)
      [] e.t = "bin" -> Second(p, e.op, Eval(p, s, e.l), e.r)
      [] e.t = "un" /\ e.op \in {"++", "--"} ->
           Bumped(s, e, ValueOf(s, e.e.n), Num(Wrap(ValueOf(s, e.e.n)[2] + (IF e.op = "++" THEN 1 ELSE -1))))
      [] e.t = "un" -> Negated(e.op, Eval(p, s, e.e))
      [] e.t = "tern" -> Chosen(p, Eval(p, s, e.c), <<"eval", e.a>>, <<"eval", e.b>>)
      [] e.t = "cycle" -> Run(p, s, e)
      [] e.t = "id" -> IF Known(p.consts, e.n) THEN Eval(p, s, Get(p.consts, e.n).v) ELSE Give(s, ValueOf(s, e.n))
      [] e.t \in {"at", "dot"} -> Look(e, Place(p, s, e))
      [] e.t = "read" -> Give(Say(s, <<"msg", "prompt">>), <<"str", "in">>)
      [] e.t = "cast" -> Converted(e.to, Eval(p, s, e.e))
      [] e.t \in {"mapget", "maphas"} -> Sought(e, Eval(p, s, e.k))
      [] e.t = "builtin" -> MeansBuiltin(p, s, e)
      [] OTHER -> Apply(p, s, e.f, e.args)

\* A loop turn: the condition, the body, the step; continue goes on with the step.
Stepped(p, l, b, n) ==
    CASE b.sig = "break" -> Quit(b, "go")
      [] n.sig # "go" -> n
      [] OTHER -> Turn(p, n, l)
Ran(p, l, b) == Stepped(p, l, b, Run(p, IF b.sig = "continue" THEN Quit(b, "go") ELSE b, l.s))
Tested(p, l, c) == IF c.sig # "go" \/ ~IsTrue(c.v) THEN c ELSE Ran(p, l, Run(p, c, l.b))
MeansTurn(p, s, l) == Tested(p, l, IF l.c = None THEN Give(s, Num(1)) ELSE Eval(p, s, l.c))

\* The defers met before the block was left run last in, first out, and the
\* way it is left and the value it gives stay as they are.
Unwound(t, r) == IF r.sig = "exit" THEN r ELSE [r EXCEPT !.sig = t.sig, !.v = t.v]
Unwind(p, t, d) == IF t.sig = "exit" THEN t ELSE Unwound(t, Run(p, Quit(t, "go"), d))
MeansBlock(p, s, ss) ==
    CASE ss = <<>> \/ s.sig # "go" -> s
      [] Head(ss).t = "defer" -> Unwind(p, MeantBlock(p, s, Tail(ss)), Head(ss).s)
      [] OTHER -> MeantBlock(p, Run(p, s, Head(ss)), Tail(ss))

Blank(p, ty) == IF Known(p.groups, ty)
                THEN LET fs == Get(p.groups, ty).fields
                     IN  [n \in {fs[i].n : i \in DOMAIN fs} |->
                            LET t == Get(fs, n).ty
                            IN  IF Known(p.groups, t)
                                THEN [m \in {Get(p.groups, t).fields[i].n : i \in DOMAIN Get(p.groups, t).fields} |-> Num(0)]
                                ELSE Default(t)]
                ELSE Default(ty)

Shown(t) == IF t.sig = "go" THEN Say(t, t.v) ELSE t
Returned(t) == IF t.sig = "go" THEN Quit(t, "return") ELSE t
Bound(st, t) == Bind(t, st.n, st.ty, <<KindOf(st.ty), t.v[2]>>)
Assigned(n, ty, t) == IF t.sig # "go" THEN t ELSE Rebind(t, n, <<KindOf(ty), ReadBytes(ty, t.v[2])>>)
Listed(p, st, t) == Bind(t.s, st.n, st.ty, [i \in 1 .. st.len.v |-> IF i <= Len(t.vs) THEN t.vs[i] ELSE Blank(p, st.ty)])
PutInto(n, path, t) == IF t.sig # "go" THEN t ELSE Rebind(t, n, Replace(ValueOf(t, n), path, t.v))
PutAt(p, st, i) == IF i.v[2] + 1 \notin DOMAIN ValueOf(i, st.n) THEN Quit(Say(i, <<"msg", "bounds">>), "exit")
                   ELSE PutInto(st.n, <<i.v[2] + 1>>, Eval(p, i, st.e))
PutIn(p, st, q) == PutInto(q.n, Append(q.path, st.f), Eval(p, q.s, st.e))
Left(s, t) == [t EXCEPT !.env = SubSeq(@, 1, Len(s.env))]

\* The first case whose value is that of the cycle.
Matched(p, v, st, hit) ==
    Run(p, v, IF hit = {} THEN st.default ELSE st.cases[CHOOSE i \in hit : \A j \in hit : i <= j].b)
Among(p, v, st, values) == Matched(p, v, st, {i \in DOMAIN st.cases : values[i] = v.v})
Cycled(p, st, v) == Among(p, v, st, EvalAll(p, v, [i \in DOMAIN st.cases |-> st.cases[i].v]).vs)

MeansStmt(p, s, st) ==
    IF s.sig # "go" THEN s ELSE
    CASE st.t \in {"none", "defer"} -> s
      [] st.t = "show" -> Shown(Eval(p, s, st.e))
      [] st.t = "showf" -> Say(FoldLeft(LAMBDA t, e : Shown(Eval(p, t, e)), s, st.parts), <<"msg", "newline">>)
      [] st.t = "return" -> IF st.e = None THEN Quit(Give(s, Num(0)), "return") ELSE Returned(Eval(p, s, st.e))
      [] st.t = "if" -> Chosen(p, Eval(p, s, st.c), <<"run", st.a>>, <<"run", st.b>>)
      [] st.t = "while" -> Turn(p, s, [c |-> st.c, b |-> st.b, s |-> None])
      [] st.t = "loop" -> Turn(p, Run(p, s, st.i), st)
      [] st.t = "cycle" -> Cycled(p, st, Eval(p, s, st.v))
      [] st.t = "check" -> Run(p, s, st.b)
      [] st.t \in {"break", "continue"} -> Quit(s, st.t)
      [] st.t = "emit" -> Eval(p, s, st.e)
      [] st.t = "casts" -> EvalAll(p, s, st.args).s
      [] st.t = "read" -> Rebind(s, st.n, IF st.ty = "str" THEN <<"str", "in">> ELSE <<KindOf(st.ty), 7>>)
      [] st.t = "var" -> IF st.e = None THEN Bind(s, st.n, st.ty, Default(st.ty)) ELSE Bound(st, Eval(p, s, st.e))
      [] st.t = "set" -> Assigned(st.n, s.env[Binding(s, st.n)].ty, Eval(p, s, st.e))
      [] st.t = "array" -> Listed(p, st, EvalAll(p, s, st.init))
      [] st.t = "setat" -> PutAt(p, st, Eval(p, s, st.i))
      [] st.t = "mapdecl" -> Bind(s, st.n, "map", <<>>)
      [] st.t = "mapset" -> LET k == Eval(p, s, st.k) IN Enters(st.n, k, Eval(p, k, st.e))
      [] st.t = "mapremove" -> Removed(st.n, Eval(p, s, st.k))
      [] st.t = "group" -> Bind(s, st.n, st.ty, Blank(p, st.ty))
      [] st.t = "setdot" -> PutIn(p, st, Place(p, s, st.o))
      [] st.t = "block" -> Left(s, MeantBlock(p, s, st.ss))
      [] st.t = "builtin" -> MeansBuiltin(p, s, st)
      [] OTHER -> Apply(p, s, st.f, st.args)

Means(p, s, it) ==
    CASE it[1] = "eval" -> MeansExpr(p, s, it[2])
      [] it[1] = "run" -> MeansStmt(p, s, it[2])
      [] it[1] = "turn" -> MeansTurn(p, s, it[2])
      [] OTHER -> MeansBlock(p, s, it[2])

\* What the program writes.
Meant(p) ==
    LET nothing == [env |-> <<>>, v |-> Num(0), sig |-> "go", out |-> <<>>]
    IN  Apply(p, nothing, "main", <<>>).out
==============================================================================
