------------------------------- MODULE Parser --------------------------------
(***************************************************************************)
(* The recursive descent parser of RasCode (src/src/parser.c): one         *)
(* operator per parse_ function, from a state of the parser to the state   *)
(* after it.  The state is a record p:                                     *)
(*   ts      the tokens of the source; the last one is the end of file     *)
(*   i       the place of the current token                                *)
(*   depth   the nesting of expressions                                    *)
(*   node    what the last parse_ function returned                        *)
(*   ok      FALSE once an error was reported, which ends the compiler     *)
(* A token is a record of its kind k (the text of a keyword or a sign, or  *)
(* ident, number, decimal, char, string, eof) and its value v.  The text   *)
(* of a showf comes cut at its $ signs: parts of text and, for ${...} and  *)
(* $name, the tokens inside: none for ${}, the end of file for blanks.     *)
(* The functions of the parser call each other.  Here they do so through   *)
(* Parse, which goes to a function by the name of its rule.                *)
(***************************************************************************)
EXTENDS Integers, Sequences, SequencesExt

CONSTANT MaxDepth   \* MAX_DEPTH of parse_expression, 1000 in the code

Absent == [t |-> "none"]

Current(p) == p.ts[p.i]
Check(p, kinds) == Current(p).k \in kinds
Advanced(p) == [p EXCEPT !.i = IF @ = Len(p.ts) THEN @ ELSE @ + 1]
ErrorAt(p) == [p EXCEPT !.ok = FALSE, !.i = Len(p.ts), !.node = Absent]
Expect(p, kind) == IF Check(p, {kind}) THEN Advanced(p) ELSE ErrorAt(p)

With(p, node) == IF p.ok THEN [p EXCEPT !.node = node] ELSE p
\* The value of the current token, which has to be of one of the kinds.
Taken(p, kinds) == IF Check(p, kinds) THEN With(Advanced(p), Current(p).v) ELSE ErrorAt(p)
Name(p) == Taken(p, {"ident"})

RECURSIVE Parse(_, _)

\* The rules that are asked for by name.
Expression == <<"expression", 0>>
Ternary == <<"ternary", 0>>
UnaryRule == <<"unary", 0>>
Postfixes == <<"postfixes", 0>>
Level(n) == <<"level", n>>
Operators(m, n) == <<"operators", m, n>>
Arguments == <<"arguments", 0>>
Types == <<"types", 0>>
Members == <<"members", 0>>
Cases == <<"cases", 0>>
Handlers == <<"handlers", 0>>
Elses == <<"elses", 0>>
Parameters == <<"parameters", 0>>
Fields == <<"fields", 0>>
Block == <<"block", 0>>
Statements == <<"statements", 0>>
Statement == <<"statement", 0>>
Declarations == <<"declarations", 0>>

Primitives == {"int", "deci", "char", "str", "bool", "byte", "ubyte"}
Id(n) == [t |-> "id", n |-> n]
Literal(ty, v) == [t |-> "lit", ty |-> ty, v |-> v]
Binary(op, l, r) == [t |-> "bin", op |-> op, l |-> l, r |-> r]

\* '[' expression ']'
Bracketed(p) == Expect(Parse(Expression, Expect(p, "[")), "]")
\* What stands between brackets, separated by commas.
ArgumentList(p, close) ==
    IF Check(p, {close}) THEN With(Advanced(p), <<>>) ELSE Expect(Parse(Arguments, With(p, <<>>)), close)
MoreArguments(p) ==
    LET e == Parse(Expression, p)
        list == With(e, Append(p.node, e.node))
    IN  IF Check(list, {","}) THEN Parse(Arguments, Advanced(list)) ELSE list

-----------------------------------------------------------------------------
\* Expressions.

\* @name[arguments], and for @type the type to convert to, or several of both.
BuiltinCall(p) ==
    LET f == Taken(Advanced(p), {"ident", "show", "read"} \cup (Primitives \ {"ubyte"}))
        args == ArgumentList(Expect(f, "["), "]")
        to == Parse(Types, With(args, <<>>))
    IN  IF f.ok /\ f.node = "type" /\ Check(args, {"::"})
        THEN With(to, IF Len(args.node) = 1
                      THEN [t |-> "cast", to |-> IF Len(to.node) = 1 THEN to.node[1] ELSE "several", e |-> args.node[1]]
                      ELSE [t |-> "casts", to |-> to.node, args |-> args.node])
        ELSE With(args, [t |-> "builtin", f |-> f.node, args |-> args.node])
\* Any comma after a type is taken to announce another one.
MoreTypes(p) ==
    LET ty == Taken(Advanced(p), {"ident"} \cup (Primitives \ {"ubyte"}))
        list == With(ty, Append(p.node, ty.node))
    IN  IF Check(list, {","}) THEN Parse(Types, list) ELSE list

\* read[name]; is a statement with its semicolon; the names of types are
\* keywords, so what follows read[ is never a name that is one of them.
Read(p) ==
    LET q == Expect(Advanced(p), "[")
    IN  IF Check(q, {"string"}) THEN With(Expect(Advanced(q), "]"), [t |-> "read", n |-> "", ty |-> "str"])
        ELSE With(Expect(Expect(Name(q), "]"), ";"), [t |-> "read", n |-> Current(q).v, ty |-> "int"])

\* name{index}, of which one member may be taken; name.member..., and the call
\* of a function by a name with dots.
RECURSIVE Qualified(_)
Qualified(e) == IF e.t = "id" THEN <<e.n>> ELSE Append(Qualified(e.o), e.f)
Called(p, f) ==
    LET args == ArgumentList(Advanced(p), "]") IN With(args, [t |-> "call", f |-> f, args |-> args.node])
ElementAccess(p, n) ==
    LET i == Expect(Parse(Expression, Advanced(p)), "}")
        at == With(i, [t |-> "at", n |-> n, i |-> i.node])
        f == Name(Advanced(at))
    IN  IF Check(at, {"."}) THEN With(f, [t |-> "dot", o |-> at.node, f |-> f.node]) ELSE at
MemberAccess(p, n) ==
    LET m == Parse(Members, With(p, Id(n))) IN IF Check(m, {"["}) THEN Called(m, Qualified(m.node)) ELSE m
MoreMembers(p) ==
    LET f == Name(Advanced(p))
    IN  IF Check(p, {"."}) THEN Parse(Members, With(f, [t |-> "dot", o |-> p.node, f |-> f.node])) ELSE p
MapLookup(p, n) ==
    LET op == Taken(Advanced(p), {"set", "get", "ident"})
        k == Bracketed(op)
    IN  IF op.ok /\ op.node \in {"get", "has"}
        THEN With(k, [t |-> IF op.node = "get" THEN "mapget" ELSE "maphas", n |-> n, k |-> k.node])
        ELSE ErrorAt(p)
Named(p) ==
    LET n == Current(p).v
        q == Advanced(p)
    IN  CASE Check(q, {"{"}) -> ElementAccess(q, n)
          [] Check(q, {"."}) -> MemberAccess(q, n)
          [] Check(q, {"->"}) -> MapLookup(q, n)
          [] Check(q, {"["}) -> Called(q, n)
          [] OTHER -> With(q, Id(n))

\* cycle[value] { when[case]: {...} ... fixed: {...} }
Cycle(p) ==
    LET v == Bracketed(Advanced(p))
        empty == With(v, [t |-> "cycle", v |-> v.node, cases |-> <<>>, default |-> Absent])
    IN  Expect(Parse(Cases, Expect(empty, "{")), "}")
MoreCases(p) ==
    LET v == Bracketed(Advanced(p))
        b == Parse(Block, Expect(v, ":"))
        d == Parse(Block, Expect(Advanced(p), ":"))
    IN  CASE Check(p, {"}", "eof"}) -> p
          [] Check(p, {"when"}) -> Parse(Cases, With(b, [p.node EXCEPT !.cases = Append(@, [v |-> v.node, b |-> b.node])]))
          [] Check(p, {"fixed"}) -> Parse(Cases, With(d, [p.node EXCEPT !.default = d.node]))
          [] OTHER -> ErrorAt(p)

Primary(p) ==
    LET q == Advanced(p)
        v == Current(p).v
    IN  CASE Check(p, {"number"}) -> With(q, Literal("int", v))
          [] Check(p, {"decimal"}) -> With(q, Literal("deci", v))
          [] Check(p, {"string"}) -> With(q, Literal("str", v))
          [] Check(p, {"char"}) -> With(q, Literal("char", v))
          [] Check(p, {"true", "false"}) -> With(q, Literal("bool", IF Check(p, {"true"}) THEN 1 ELSE 0))
          [] Check(p, {"read"}) -> Read(p)
          [] Check(p, {"cycle"}) -> Cycle(p)
          [] Check(p, {"@"}) -> BuiltinCall(p)
          [] Check(p, {"ident"}) -> Named(p)
          [] Check(p, {"("}) -> Expect(Parse(Expression, q), ")")
          [] OTHER -> ErrorAt(p)

UnaryNode(op, e, post) == [t |-> "un", op |-> op, e |-> e, post |-> post]
MorePostfixes(p) ==
    IF Check(p, {"++", "--"}) THEN Parse(Postfixes, With(Advanced(p), UnaryNode(Current(p).v, p.node, TRUE))) ELSE p
Postfix(p) == Parse(Postfixes, Primary(p))
Unary(p) ==
    LET e == Parse(UnaryRule, Advanced(p))
    IN  IF Check(p, {"+", "-", "!", "not", "~", "++", "--"}) THEN With(e, UnaryNode(Current(p).v, e.node, FALSE))
        ELSE Postfix(p)

\* The operators of the levels, from the one that binds tightest: parse_multiplicative
\* to parse_comparison, and parse_equality to parse_logical_or.
ArithmeticLevels == << {"*", "/", "%"}, {"+", "-"}, {"<<", ">>"}, {"<", ">", "<=", ">="} >>
LogicalLevels == << {"==", "!="}, {"&"}, {"^"}, {"|"}, {"&&", "and"}, {"||", "xor"} >>
Levels == ArithmeticLevels \o LogicalLevels

\* parse_additive calls parse_multiplicative for its operands, and so on: a level is
\* a unary expression followed by the operators of level 1, of level 2, ... of its own.
BinaryLevel(n, p) == Parse(Operators(1, n), Parse(UnaryRule, p))
MoreOperators_FromTheRight(m, n, p) ==
    LET r == Parse(Level(m), Advanced(p))
    IN  CASE m > n -> p
          [] m <= n /\ Check(p, Levels[m]) -> Parse(Operators(m, n), With(r, Binary(Current(p).v, p.node, r.node)))
          [] OTHER -> Parse(Operators(m + 1, n), p)
\* Operators of one level group from the left.
MoreOperators(m, n, p) ==
    LET r == Parse(Level(m - 1), Advanced(p))
    IN  CASE m > n -> p
          [] m <= n /\ Check(p, Levels[m]) -> Parse(Operators(m, n), With(r, Binary(Current(p).v, p.node, r.node)))
          [] OTHER -> Parse(Operators(m + 1, n), p)

TernaryOp(p) ==
    LET c == Parse(Level(Len(Levels)), p)
        a == Parse(Expression, Advanced(c))
        b == Parse(Ternary, Expect(a, ":"))
    IN  IF Check(c, {"?"}) THEN With(b, [t |-> "tern", c |-> c.node, a |-> a.node, b |-> b.node]) ELSE c

ExpressionIn(p) ==
    LET e == Parse(Ternary, [p EXCEPT !.depth = @ + 1])
    IN  IF p.depth > MaxDepth THEN ErrorAt(p) ELSE [e EXCEPT !.depth = @ - 1]

-----------------------------------------------------------------------------
\* Statements.

Flattened(s) == IF s.t = "block" THEN s.ss ELSE <<s>>
BlockIn(p) ==
    LET b == Expect(Parse(Statements, With(Expect(p, "{"), <<>>)), "}") IN With(b, [t |-> "block", ss |-> b.node])
MoreStatements(p) ==
    LET s == Parse(Statement, p)
    IN  IF Check(p, {"}", "eof"}) THEN p ELSE Parse(Statements, With(s, p.node \o Flattened(s.node)))

\* show[e]; get[e]; emit[e];
Statement_Of(p, t) ==
    LET e == Expect(Bracketed(Advanced(p)), ";") IN With(e, [t |-> t, e |-> e.node])
Show(p) == Statement_Of(p, "show")
Return(p) == Statement_Of(p, "return")
Emit(p) == Statement_Of(p, "emit")

\* An expression of its own text: what is left of the text after it is ignored,
\* and an empty text is no expression. In a text of blanks alone the end of file
\* is where an expression is asked for: an error.
ExpressionFromString(ts) ==
    Parse(Expression, [ts |-> Append(ts, [k |-> "eof", v |-> ""]), i |-> 1, depth |-> 0, node |-> Absent, ok |-> TRUE])
\* Texts and expressions take turns; one expression fewer leaves out the last text.
Interpolated(parts) ==
    LET texts == [i \in 1 .. (Len(parts) + 1) \div 2 |-> Literal("str", parts[2 * i - 1].text)]
        given == SelectSeq([i \in 1 .. Len(parts) \div 2 |-> parts[2 * i].tokens], LAMBDA ts : ts # <<>>)
        values == [i \in DOMAIN given |-> ExpressionFromString(given[i])]
        turns == [i \in 1 .. Len(values) + 1 |-> IF i > Len(values) THEN <<texts[i]>> ELSE <<texts[i], values[i].node>>]
    IN  [ok |-> \A i \in DOMAIN values : values[i].ok,
         parts |-> SelectSeq(FlattenSeq(turns), LAMBDA e : e # Literal("str", ""))]
Showf(p) ==
    LET s == Expect(Advanced(p), "[")
        q == Expect(Expect(Advanced(s), "]"), ";")
        text == Interpolated(Current(s).parts)
    IN  IF q.ok /\ Check(s, {"string"}) /\ text.ok THEN With(q, [t |-> "showf", parts |-> text.parts]) ELSE ErrorAt(p)

\* if[c] {...} or[c] {...} else {...}
If(p) ==
    LET c == Bracketed(Advanced(p))
        a == Parse(Block, c)
        b == Parse(Elses, a)
    IN  With(b, [t |-> "if", c |-> c.node, a |-> a.node, b |-> b.node])
ElseBranch(p) ==
    CASE ~Check(p, {"or", "else"}) -> With(p, Absent)
      [] Check(Advanced(p), {"["}) -> If(p)
      [] Check(Advanced(p), {"{"}) -> Parse(Block, Advanced(p))
      [] OTHER -> ErrorAt(p)

While(p) ==
    LET c == Bracketed(Advanced(p))
        b == Parse(Block, c)
    IN  With(b, [t |-> "while", c |-> c.node, b |-> b.node])

\* check {...} when[name]: {...}
CheckStatement(p) ==
    LET b == Parse(Block, Advanced(p)) IN Parse(Handlers, With(b, [t |-> "check", b |-> b.node, handlers |-> <<>>]))
MoreHandlers(p) ==
    LET q == Expect(Advanced(p), "[")
        v == IF Check(q, {"ident"}) THEN With(Advanced(q), Id(Current(q).v)) ELSE With(q, Absent)
        b == Parse(Block, Expect(Expect(v, "]"), ":"))
    IN  IF ~Check(p, {"when"}) THEN p
        ELSE Parse(Handlers, With(b, [p.node EXCEPT !.handlers = Append(@, [v |-> v.node, b |-> b.node])]))

\* name++ and name-- stand for an assignment.
Assignment(n, e) == [t |-> "set", n |-> n, e |-> e]
Counted(n, sign) == Assignment(n, Binary(IF sign = "++" THEN "+" ELSE "-", Id(n), Literal("int", 1)))

\* loop[statement condition; step] {...}; the init statement takes its own semicolon.
Step(p) ==
    LET n == Current(p).v
        q == Advanced(p)
        e == Parse(Expression, Advanced(q))
    IN  CASE ~Check(p, {"ident"}) -> With(p, Absent)
          [] Check(q, {"++", "--"}) -> With(Advanced(q), Counted(n, Current(q).v))
          [] Check(q, {"="}) -> With(e, Assignment(n, e.node))
          [] OTHER -> With(q, Absent)
Loop(p) ==
    LET i == Parse(Statement, Expect(Advanced(p), "["))
        c == Parse(Expression, i)
        s == Step(Expect(c, ";"))
        b == Parse(Block, Expect(s, "]"))
    IN  With(b, [t |-> "loop", i |-> i.node, c |-> c.node, s |-> s.node, b |-> b.node])

\* The brace after manme is taken here and asked for once more by the block.
Manme(p) ==
    LET b == Expect(Parse(Block, Expect(Expect(p, "manme"), "{")), "}") IN With(b, [t |-> "manme", b |-> b.node])

\* type name, or type name = e; the semicolon may be missing.
VarDecl(p) ==
    LET n == Name(Advanced(p))
        e == IF Check(n, {"="}) THEN Parse(Expression, Advanced(n)) ELSE With(n, Absent)
        d == With(e, [t |-> "var", n |-> n.node, ty |-> Current(p).v, e |-> e.node])
    IN  IF Check(d, {";"}) THEN Advanced(d) ELSE d

\* Type name;
GroupDecl(p) ==
    LET q == Expect(Advanced(Advanced(p)), ";") IN With(q, [t |-> "group", n |-> Current(Advanced(p)).v, ty |-> Current(p).v])

\* arr{type, size} name = {e, ...};
ArrayType(p) ==
    LET ty == Taken(Expect(Advanced(p), "{"), Primitives \cup {"ident"})
        len == Expect(Parse(Expression, Expect(ty, ",")), "}")
    IN  With(len, [ty |-> ty.node, len |-> len.node])
ArrayDecl(p) ==
    LET a == ArrayType(p)
        n == Name(a)
        init == IF Check(n, {"="}) THEN ArgumentList(Expect(Advanced(n), "{"), "}") ELSE With(n, <<>>)
    IN  With(Expect(init, ";"), [t |-> "array", n |-> n.node, ty |-> a.node.ty, len |-> a.node.len, init |-> init.node])

\* map{type, type} name;
MapDecl(p) ==
    LET kt == Taken(Expect(Advanced(p), "{"), Primitives)
        vt == Taken(Expect(kt, ","), Primitives)
        n == Name(Expect(vt, "}"))
    IN  With(Expect(n, ";"), [t |-> "mapdecl", n |-> n.node, kt |-> kt.node, vt |-> vt.node])

\* Statements that start with a name.
MemberAssign(p, object) ==
    LET m == Parse(Members, With(p, object))
        e == Expect(Parse(Expression, Expect(m, "=")), ";")
    IN  With(e, [t |-> "setdot", o |-> m.node.o, f |-> m.node.f, e |-> e.node])
MapChange(p, n) ==
    LET op == Taken(Advanced(p), {"set", "ident"})
        k == Parse(Expression, Expect(op, "["))
        e == Parse(Expression, Expect(k, ","))
        Closed(q) == Expect(Expect(q, "]"), ";")
    IN  CASE op.ok /\ op.node = "set" -> With(Closed(e), [t |-> "mapset", n |-> n, k |-> k.node, e |-> e.node])
          [] op.ok /\ op.node = "remove" -> With(Closed(k), [t |-> "mapremove", n |-> n, k |-> k.node])
          [] OTHER -> ErrorAt(p)
ElementAssign(p, n) ==
    LET i == Expect(Parse(Expression, Advanced(p)), "}")
        e == Expect(Parse(Expression, Advanced(i)), ";")
    IN  CASE Check(i, {"."}) -> MemberAssign(i, [t |-> "at", n |-> n, i |-> i.node])
          [] Check(i, {"="}) -> With(e, [t |-> "setat", n |-> n, i |-> i.node, e |-> e.node])
          [] OTHER -> ErrorAt(i)
NamedStatement(p) ==
    LET n == Current(p).v
        q == Advanced(p)
        e == Expect(Parse(Expression, Advanced(q)), ";")
    IN  CASE Check(q, {"++", "--"}) -> With(Expect(Advanced(q), ";"), Counted(n, Current(q).v))
          [] Check(q, {"."}) -> MemberAssign(q, Id(n))
          [] Check(q, {"->"}) -> MapChange(q, n)
          [] Check(q, {"{"}) -> ElementAssign(q, n)
          [] Check(q, {"="}) -> With(e, Assignment(n, e.node))
          [] Check(q, {"["}) -> Expect(Called(q, n), ";")
          [] OTHER -> ErrorAt(q)

Single(p, t) == With(Expect(Advanced(p), ";"), [t |-> t])
Deferred(p) == LET s == Parse(Statement, Advanced(p)) IN With(s, [t |-> "defer", s |-> s.node])

StatementIn(p) ==
    CASE Check(p, {"@"}) -> Expect(BuiltinCall(p), ";")
      [] Check(p, {"show"}) -> Show(p)
      [] Check(p, {"showf"}) -> Showf(p)
      [] Check(p, {"get"}) -> Return(p)
      [] Check(p, {"if"}) -> If(p)
      [] Check(p, {"while"}) -> While(p)
      [] Check(p, {"loop"}) -> Loop(p)
      [] Check(p, {"cycle"}) -> Cycle(p)
      [] Check(p, {"check"}) -> CheckStatement(p)
      [] Check(p, {"break", "continue"}) -> Single(p, Current(p).k)
      [] Check(p, {"defer"}) -> Deferred(p)
      [] Check(p, {"emit"}) -> Emit(p)
      [] Check(p, {"read"}) -> Read(p)
      [] Check(p, {"manme"}) -> Manme(p)
      [] Check(p, Primitives) -> VarDecl(p)
      [] Check(p, {"arr"}) -> ArrayDecl(p)
      [] Check(p, {"map"}) -> MapDecl(p)
      [] Check(p, {"ident"}) -> IF Check(Advanced(p), {"ident"}) THEN GroupDecl(p) ELSE NamedStatement(p)
      [] OTHER -> ErrorAt(p)

-----------------------------------------------------------------------------
\* Declarations.

MoreFields(p) ==
    LET ty == Taken(p, Primitives \cup {"ident"})
        n == Name(ty)
    IN  IF Check(p, {"}", "eof"}) THEN p
        ELSE Parse(Fields, With(Expect(n, ";"), Append(p.node, [n |-> n.node, ty |-> ty.node])))
Group(p) ==
    LET n == Name(Expect(p, "group"))
        f == Expect(Parse(Fields, With(Expect(n, "{"), <<>>)), "}")
    IN  With(f, [n |-> n.node, fields |-> f.node])

\* type name, or arr{type, size} name, with a default value perhaps.
Parameter(p) ==
    LET a == ArrayType(p)
        ty == IF Check(p, {"arr"}) THEN With(a, a.node.ty) ELSE Taken(p, Primitives \cup {"ident"})
        n == Name(ty)
        e == IF Check(n, {"="}) THEN Parse(Expression, Advanced(n)) ELSE With(n, Absent)
    IN  With(e, [n |-> n.node, ty |-> ty.node, e |-> e.node] @@ (IF Check(p, {"arr"}) THEN [array |-> a.node.len] ELSE <<>>))
MoreParameters(p) ==
    LET e == Parameter(p)
        list == With(e, Append(p.node, e.node))
    IN  IF Check(list, {","}) THEN Parse(Parameters, Advanced(list)) ELSE list

\* An array as a return type is a text like any other.
ReturnType(p) ==
    LET ty == Taken(Expect(Advanced(p), "{"), Primitives \cup {"ident"})
        len == Taken(Expect(ty, ","), {"number"})
    IN  IF Check(p, {"arr"}) THEN With(Expect(len, "}"), "array") ELSE Taken(p, Primitives \cup {"none", "ident"})
Function(p) ==
    LET n == Name(Expect(p, "fnc"))
        q == Expect(n, "[")
        ps == IF Check(q, {"]"}) THEN With(Advanced(q), <<>>) ELSE Expect(Parse(Parameters, With(q, <<>>)), "]")
        ret == ReturnType(Expect(ps, "::"))
        b == Parse(Block, ret)
    IN  With(b, [n |-> n.node, ret |-> ret.node, params |-> ps.node, body |-> b.node])

\* as name
Alias(p) ==
    LET n == Name(Advanced(p))
    IN  IF Check(p, {"ident"}) /\ Current(p).v = "as" THEN n ELSE With(p, "")
\* pkg:name;
PackageImport(p) ==
    LET n == Name(Expect(Expect(p, "pkg"), ":"))
        as == Alias(n)
    IN  With(Expect(as, ";"), [n |-> <<n.node>>, as |-> as.node])
\* use:"file"; or use:path; where every name that follows is part of the path.
UsePath(p) ==
    LET In(j) == p.ts[j].k \in {"ident", ".", "/"}
        end == CHOOSE j \in p.i .. Len(p.ts) : ~In(j) /\ \A h \in p.i .. j - 1 : In(h)
    IN  IF end = p.i THEN ErrorAt(p) ELSE With([p EXCEPT !.i = end], [j \in 1 .. end - p.i |-> p.ts[p.i + j - 1].v])
Use(p) ==
    LET q == Expect(Expect(p, "use"), ":")
        path == IF Check(q, {"string"}) THEN With(Advanced(q), <<Current(q).v>>) ELSE UsePath(q)
        as == Alias(path)
    IN  With(Expect(as, ";"), [n |-> path.node, as |-> as.node])

ConstDecl(p) ==
    LET n == Name(Expect(p, "const"))
        e == Parse(Expression, Expect(n, "="))
    IN  With(Expect(e, ";"), [n |-> n.node, v |-> e.node])

MoreDeclarations(p) ==
    LET Found(q, list) == Parse(Declarations, With(q, [p.node EXCEPT ![list] = Append(@, q.node)]))
    IN  CASE Check(p, {"eof"}) -> p
          [] Check(p, {"pkg"}) -> Found(PackageImport(p), "imports")
          [] Check(p, {"use"}) -> Found(Use(p), "imports")
          [] Check(p, {"const"}) -> Found(ConstDecl(p), "consts")
          [] Check(p, {"group"}) -> Found(Group(p), "groups")
          [] Check(p, {"fnc"}) -> Found(Function(p), "funs")
          [] OTHER -> ErrorAt(p)

\* The rule of that name, from p. Nothing is parsed after an error.
Parse(rule, p) ==
    CASE ~p.ok -> p
      [] rule = Expression -> ExpressionIn(p)
      [] rule = Ternary -> TernaryOp(p)
      [] rule[1] = "level" -> BinaryLevel(rule[2], p)
      [] rule[1] = "operators" -> MoreOperators(rule[2], rule[3], p)
      [] rule = UnaryRule -> Unary(p)
      [] rule = Postfixes -> MorePostfixes(p)
      [] rule = Arguments -> MoreArguments(p)
      [] rule = Types -> MoreTypes(p)
      [] rule = Members -> MoreMembers(p)
      [] rule = Cases -> MoreCases(p)
      [] rule = Handlers -> MoreHandlers(p)
      [] rule = Elses -> ElseBranch(p)
      [] rule = Statement -> StatementIn(p)
      [] rule = Statements -> MoreStatements(p)
      [] rule = Block -> BlockIn(p)
      [] rule = Fields -> MoreFields(p)
      [] rule = Parameters -> MoreParameters(p)
      [] OTHER -> MoreDeclarations(p)

\* The whole of a source; a source in error gives no tree.
ParserParse(ts) ==
    LET nothing == [imports |-> <<>>, consts |-> <<>>, groups |-> <<>>, funs |-> <<>>]
    IN  Parse(Declarations, [ts |-> ts, i |-> 1, depth |-> 0, node |-> nothing, ok |-> TRUE])
==============================================================================
