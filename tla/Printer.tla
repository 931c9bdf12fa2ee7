------------------------------- MODULE Printer -------------------------------
(***************************************************************************)
(* How a program is written down, after docs/02-SYNTAX-RULES.md and the    *)
(* table of operators of docs/06-OPERATORS.md: from a syntax tree to the   *)
(* tokens of a source that stands for it.  There are two styles.  One sets *)
(* no parentheses but those the table asks for and uses the short forms    *)
(* of a statement; the other sets them around every operand.               *)
(***************************************************************************)
EXTENDS Integers, Sequences, SequencesExt

Word(k) == [k |-> k, v |-> k]
Words(ks) == [i \in DOMAIN ks |-> Word(ks[i])]
Ident(n) == [k |-> "ident", v |-> n]
TypeNames == {"int", "deci", "char", "str", "bool", "byte", "ubyte", "none"}
TypeName(ty) == IF ty \in TypeNames THEN Word(ty) ELSE Ident(ty)

\* The table, from the operators that bind loosest; what stands higher binds tighter.
TableOfOperators == << {"?"}, {"||", "xor"}, {"&&", "and"}, {"|"}, {"^"}, {"&"}, {"==", "!="}, {"<", ">", "<=", ">="},
                       {"<<", ">>"}, {"+", "-"}, {"*", "/", "%"} >>
RowOf(op) == CHOOSE i \in DOMAIN TableOfOperators : op \in TableOfOperators[i]
PrefixRow == 12
PostfixRow == 13
PrimaryRow == 14
Row(e) == CASE e.t = "tern" -> 1
            [] e.t = "bin" -> RowOf(e.op)
            [] e.t = "un" -> IF e.post THEN PostfixRow ELSE PrefixRow
            [] OTHER -> PrimaryRow

LiteralToken(e) ==
    CASE e.ty = "int" -> [k |-> "number", v |-> e.v]
      [] e.ty = "deci" -> [k |-> "decimal", v |-> e.v]
      [] e.ty = "str" -> [k |-> "string", v |-> e.v]
      [] e.ty = "char" -> [k |-> "char", v |-> e.v]
      [] OTHER -> Word(IF e.v = 1 THEN "true" ELSE "false")

Enclosed(open, ts, close) == <<Word(open)>> \o ts \o <<Word(close)>>
Listing(items) == FlattenSeq([i \in DOMAIN items |-> (IF i = 1 THEN <<>> ELSE <<Word(",")>>) \o items[i]])

\* x = x + 1 and x = x - 1 have a short form.
IsCount(s) == /\ s.t = "set" /\ s.e.t = "bin" /\ s.e.op \in {"+", "-"}
              /\ s.e.l = [t |-> "id", n |-> s.n] /\ s.e.r = [t |-> "lit", ty |-> "int", v |-> 1]
CountSign(s) == Word(IF s.e.op = "+" THEN "++" ELSE "--")

\* Text(e, row, short): e as an operand of an operator of the row before.
RECURSIVE Text(_, _, _)

Texts(es, short) == Listing([i \in DOMAIN es |-> Text(es[i], 1, short)])
Bare(e, short) ==
    CASE e.t = "lit" -> <<LiteralToken(e)>>
      [] e.t = "id" -> <<Ident(e.n)>>
      [] e.t = "bin" -> Text(e.l, Row(e), short) \o <<Word(e.op)>> \o Text(e.r, Row(e) + 1, short)
      [] e.t = "un" -> IF e.post THEN Text(e.e, PostfixRow, short) \o <<Word(e.op)>>
                       ELSE <<Word(e.op)>> \o Text(e.e, PrefixRow, short)
      [] e.t = "tern" -> Text(e.c, 2, short) \o Enclosed("?", Text(e.a, 1, short), ":") \o Text(e.b, 1, short)
      [] e.t = "at" -> <<Ident(e.n)>> \o Enclosed("{", Text(e.i, 1, short), "}")
      [] e.t = "dot" -> Text(e.o, PrimaryRow, short) \o <<Word("."), Ident(e.f)>>
      [] e.t = "cast" -> Words(<<"@">>) \o <<Ident("type")>> \o Enclosed("[", Text(e.e, 1, short), "]") \o <<Word("::"), TypeName(e.to)>>
      [] e.t = "casts" -> Words(<<"@">>) \o <<Ident("type")>> \o Enclosed("[", Texts(e.args, short), "]") \o <<Word("::")>>
                          \o Listing([i \in DOMAIN e.to |-> <<TypeName(e.to[i])>>])
      [] e.t = "call" -> <<Ident(e.f)>> \o Enclosed("[", Texts(e.args, short), "]")
      [] e.t = "builtin" -> <<Word("@"), Ident(e.f)>> \o Enclosed("[", Texts(e.args, short), "]")
      [] e.t = "read" -> Words(<<"read", "[">>) \o <<[k |-> "string", v |-> "a"], Word("]")>>
      [] e.t \in {"mapget", "maphas"} -> <<Ident(e.n), Word("->"), IF e.t = "mapget" THEN Word("get") ELSE Ident("has")>>
                                         \o Enclosed("[", Text(e.k, 1, short), "]")
      [] e.t = "cycle" ->
           LET When(c) == Words(<<"when">>) \o Enclosed("[", Text(c.v, 1, short), "]") \o <<Word(":")>> \o Text(c.b, 0, short)
           IN  Words(<<"cycle">>) \o Enclosed("[", Text(e.v, 1, short), "]")
               \o Enclosed("{", FlattenSeq([i \in DOMAIN e.cases |-> When(e.cases[i])])
                                \o (IF e.default.t = "none" THEN <<>> ELSE Words(<<"fixed", ":">>) \o Text(e.default, 0, short)), "}")

Keyword(s) == CASE s.t = "return" -> "get" [] OTHER -> s.t
Stop == <<Word(";")>>
Line(s, short) ==
    CASE s.t = "block" -> Enclosed("{", FlattenSeq([i \in DOMAIN s.ss |-> Text(s.ss[i], 0, short)]), "}")
      [] s.t \in {"show", "return", "emit"} -> <<Word(Keyword(s))>> \o Enclosed("[", Text(s.e, 1, short), "]") \o Stop
      [] s.t = "showf" ->
           LET IsText(e) == e.t = "lit" /\ e.ty = "str"
               Part(i) == (IF i = 1 /\ ~IsText(s.parts[1]) THEN << [text |-> ""] >> ELSE <<>>)
                          \o (IF IsText(s.parts[i]) THEN << [text |-> s.parts[i].v] >> ELSE << [tokens |-> Text(s.parts[i], 1, short)] >>)
                          \o (IF ~IsText(s.parts[i]) /\ (IF i = Len(s.parts) THEN TRUE ELSE ~IsText(s.parts[i + 1]))
                              THEN << [text |-> ""] >> ELSE <<>>)
           IN  Words(<<"showf", "[">>) \o << [k |-> "string", v |-> "", parts |-> FlattenSeq([i \in DOMAIN s.parts |-> Part(i)])], Word("]") >> \o Stop
      [] s.t = "if" -> Words(<<"if">>) \o Enclosed("[", Text(s.c, 1, short), "]") \o Text(s.a, 0, short)
                       \o (CASE s.b.t = "none" -> <<>>
                             [] s.b.t = "if" -> <<Word("or")>> \o Tail(Text(s.b, 0, short))
                             [] OTHER -> <<Word(IF short THEN "or" ELSE "else")>> \o Text(s.b, 0, short))
      [] s.t = "while" -> Words(<<"while">>) \o Enclosed("[", Text(s.c, 1, short), "]") \o Text(s.b, 0, short)
      [] s.t = "loop" -> Words(<<"loop", "[">>) \o Text(s.i, 0, short) \o Text(s.c, 1, short) \o Stop
                         \o Front(Text(s.s, 0, short)) \o <<Word("]")>> \o Text(s.b, 0, short)
      [] s.t = "check" -> <<Word("check")>> \o Text(s.b, 0, short)
                          \o FlattenSeq([i \in DOMAIN s.handlers |->
                                Words(<<"when", "[">>) \o (IF s.handlers[i].v.t = "none" THEN <<>> ELSE <<Ident(s.handlers[i].v.n)>>)
                                \o Words(<<"]", ":">>) \o Text(s.handlers[i].b, 0, short)])
      [] s.t = "defer" -> <<Word("defer")>> \o Text(s.s, 0, short)
      [] s.t \in {"break", "continue"} -> <<Word(s.t)>> \o Stop
      [] s.t = "read" /\ s.n # "" -> Words(<<"read", "[">>) \o <<Ident(s.n), Word("]")>> \o Stop
      [] s.t = "var" -> <<TypeName(s.ty), Ident(s.n)>> \o (IF s.e.t = "none" THEN <<>> ELSE <<Word("=")>> \o Text(s.e, 1, short)) \o Stop
      [] s.t = "group" -> <<TypeName(s.ty), Ident(s.n)>> \o Stop
      [] s.t = "array" -> Words(<<"arr">>) \o Enclosed("{", <<TypeName(s.ty), Word(",")>> \o Text(s.len, 1, short), "}") \o <<Ident(s.n)>>
                          \o (IF s.init = <<>> THEN <<>> ELSE <<Word("=")>> \o Enclosed("{", Texts(s.init, short), "}")) \o Stop
      [] s.t = "mapdecl" -> Words(<<"map", "{">>) \o <<TypeName(s.kt), Word(","), TypeName(s.vt), Word("}"), Ident(s.n)>> \o Stop
      [] s.t = "set" -> (IF short /\ IsCount(s) THEN <<Ident(s.n), CountSign(s)>>
                         ELSE <<Ident(s.n), Word("=")>> \o Text(s.e, 1, short)) \o Stop
      [] s.t = "setat" -> <<Ident(s.n)>> \o Enclosed("{", Text(s.i, 1, short), "}") \o <<Word("=")>> \o Text(s.e, 1, short) \o Stop
      [] s.t = "setdot" -> Text(s.o, PrimaryRow, short) \o <<Word("."), Ident(s.f), Word("=")>> \o Text(s.e, 1, short) \o Stop
      [] s.t = "mapset" -> <<Ident(s.n)>> \o Words(<<"->", "set">>) \o Enclosed("[", Texts(<<s.k, s.e>>, short), "]") \o Stop
      [] s.t = "mapremove" -> <<Ident(s.n), Word("->"), Ident("remove")>> \o Enclosed("[", Text(s.k, 1, short), "]") \o Stop
      [] s.t = "cycle" -> Bare(s, short)
      [] OTHER -> Bare(s, short) \o Stop

\* Row 0 asks for a statement.
Text(e, row, short) ==
    CASE row = 0 -> Line(e, short)
      [] row # 0 /\ (Row(e) < row \/ (~short /\ row > 1 /\ Row(e) < PrimaryRow)) -> Enclosed("(", Bare(e, short), ")")
      [] OTHER -> Bare(e, short)

ParameterText(p, short) ==
    (IF "array" \in DOMAIN p THEN Words(<<"arr">>) \o Enclosed("{", <<TypeName(p.ty), Word(",")>> \o Text(p.array, 1, short), "}")
     ELSE <<TypeName(p.ty)>>)
    \o <<Ident(p.n)>> \o (IF p.e.t = "none" THEN <<>> ELSE <<Word("=")>> \o Text(p.e, 1, short))
FunctionText(f, short) ==
    <<Word("fnc"), Ident(f.n)>> \o Enclosed("[", Listing([i \in DOMAIN f.params |-> ParameterText(f.params[i], short)]), "]")
    \o <<Word("::"), TypeName(f.ret)>> \o Text(f.body, 0, short)
GroupText(g) ==
    <<Word("group"), Ident(g.n)>>
    \o Enclosed("{", FlattenSeq([i \in DOMAIN g.fields |-> <<TypeName(g.fields[i].ty), Ident(g.fields[i].n)>> \o Stop]), "}")
ConstText(c, short) == <<Word("const"), Ident(c.n), Word("=")>> \o Text(c.v, 1, short) \o Stop
\* The first import names the module itself.
ImportText(imports, i) ==
    (IF i = 1 THEN Words(<<"pkg", ":">>) \o <<Ident(imports[1].n[1])>>
     ELSE Words(<<"use", ":">>) \o (IF imports[i].as # "" THEN <<[k |-> "string", v |-> imports[i].n[1]]>>
                                    ELSE [j \in DOMAIN imports[i].n |-> IF imports[i].n[j] = "/" THEN Word("/") ELSE Ident(imports[i].n[j])]))
    \o (IF imports[i].as = "" THEN <<>> ELSE <<Ident("as"), Ident(imports[i].as)>>) \o Stop

Source(p, short) ==
    FlattenSeq([i \in DOMAIN p.imports |-> ImportText(p.imports, i)] \o [i \in DOMAIN p.funs |-> FunctionText(p.funs[i], short)]
               \o [i \in DOMAIN p.consts |-> ConstText(p.consts[i], short)] \o [i \in DOMAIN p.groups |-> GroupText(p.groups[i])])
    \o <<[k |-> "eof", v |-> ""]>>
==============================================================================
