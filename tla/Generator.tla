------------------------------ MODULE Generator ------------------------------
(***************************************************************************)
(* The code generator of RasCode (src/src/codegen.c): one operator per     *)
(* codegen_ function, from the state of the generator and a node of the    *)
(* syntax tree to the items that take its place: instructions, nodes and   *)
(* changes of the state.  Expand puts the items of a node where the node   *)
(* stands until only instructions are left.  The state is a record g:      *)
(*   out     the instructions emitted so far, and at, the places of the    *)
(*           labels and functions in it                                    *)
(*   lab     label_count, the next unused label number                     *)
(*   off     stack_offset, the bytes below rbp in use                      *)
(*   syms    the symbol table, the newest entry first                      *)
(*   brk, cont   where break and continue jump to; NoLabel outside a loop  *)
(*   depth   loop_depth                                                    *)
(*   defers  deferred_stmts of the innermost block                         *)
(*   funs, groups, consts   the tables of declarations, ret the return     *)
(*           type of the function being generated                          *)
(*   simd, checked   the options -O2/-O3 (enable_simd) and the overflow    *)
(*           and bounds checks                                             *)
(*   crash   no program comes out: the generator has given up or followed  *)
(*           a null pointer, or nasm refuses what it has written           *)
(* An instruction is a tuple that starts with its name; Machine gives its  *)
(* meaning.  <<"mark", n>> is no instruction: it records that n bytes are  *)
(* in use at the end of a statement.  Only instructions that touch what    *)
(* the program can observe are kept: wording and hints are left out.       *)
(***************************************************************************)
EXTENDS Builtins

CONSTANTS MaxRecursion,    \* MAX_RECURSION_DEPTH, 1000 in the code
          WarnRecursion    \* STACK_WARN_THRESHOLD, 900 in the code

NoLabel == <<"none", 0>>
None == [t |-> "none"]
ParamRegs == <<"rdi", "rsi", "rdx", "rcx", "r8", "r9">>
XmmRegs == <<"x0", "x1", "x2", "x3", "x4", "x5">>

\* Items that are no instructions.
Expr(e) == <<"expr", e>>
Stmt(s) == <<"stmt", s>>
Fresh(n) == <<"fresh", n>>                \* label_count += n
Sets(change) == <<"become", change>>       \* the fields named in the record change
L(n) == <<"L", n>>
At(l) == <<"label", l>>
Goto(l) == <<"jmp", l>>

\* test rax, rax followed by a jump
IfZero(l) == << <<"cmpi", "rax", 0>>, <<"j", "e", l>> >>
IfNotZero(l) == << <<"cmpi", "rax", 0>>, <<"j", "ne", l>> >>
Truth(cc) == << <<"cmpi", "rax", 0>>, <<"set", cc>> >>
Exit(msg) == << <<"print", msg>>, <<"exit">> >>

TypeSize(ty) == CASE ty = "int" -> 4
                  [] ty \in {"char", "byte", "ubyte", "bool"} -> 1
                  [] OTHER -> 8

-----------------------------------------------------------------------------
\* The tables.

FindName(table, n) == SelectInSeq(table, LAMBDA d : d.n = n)
Known(table, n) == FindName(table, n) # 0
Get(table, n) == table[FindName(table, n)]

AddSymbol(n, off, ty, kind, len, size) ==
    <<"symbol", [n |-> n, off |-> off, ty |-> ty, kind |-> kind, len |-> len, size |-> size]>>

\* [rbp - offset] of a variable; a name that is not known falls back to rbp - 8.
Slot(g, n) == IF Known(g.syms, n) THEN Get(g.syms, n).off ELSE 8

TypeOfName(g, n) == IF Known(g.syms, n) THEN Get(g.syms, n).ty ELSE "unknown"

RECURSIVE ExprIs(_, _, _)
ExprIs(g, ty, e) ==
    CASE e.t = "lit" -> e.ty = ty
      [] e.t = "id" -> TypeOfName(g, e.n) = ty
      [] e.t = "call" -> Known(g.funs, e.f) /\ Get(g.funs, e.f).ret = ty
      [] e.t = "bin" -> ExprIs(g, ty, e.l) \/ ExprIs(g, ty, e.r)
      [] e.t = "at" -> ty = "deci" /\ TypeOfName(g, e.n) = ty
      [] OTHER -> FALSE
IsDeciExpr(g, e) == ExprIs(g, "deci", e)
IsStringExpr(g, e) == ExprIs(g, "str", e)

-----------------------------------------------------------------------------
\* Expressions leave their value in rax.

Literal(g, e) ==
    CASE e.ty = "deci" -> << Fresh(1), <<"immd", "rax", e.v>> >>
      [] e.ty = "str" -> << Fresh(1), <<"imms", "rax", e.v, g.lab>> >>
      [] OTHER -> << <<"imm", "rax", e.v>> >>

\* &&, which may be written and, and ||: the mirror image of each other.
ShortCircuit(g, e) ==
    LET quit == g.lab
        end == g.lab + 1
        leave == IF e.op = "||" THEN IfNotZero(L(quit)) ELSE IfZero(L(quit))
        both == IF e.op = "||" THEN 0 ELSE 1
    IN  <<Fresh(2), Expr(e.l)>> \o leave \o <<Expr(e.r)>> \o leave
          \o << <<"imm", "rax", both>>, Goto(L(end)), At(L(quit)),
                <<"imm", "rax", 1 - both>>, At(L(end)) >>

LogicalXor(g, e) ==
    <<Expr(e.l)>> \o Truth("ne") \o << <<"mov", "rcx", "rax">>, <<"push", "rcx">>, Expr(e.r)>>
      \o Truth("ne") \o << <<"pop", "rcx">>, <<"alu", "xor", "rax", "rcx">> >>

Arithmetic == [op \in {"+", "-", "*", "&", "|", "^"} |->
    CASE op = "+" -> "add" [] op = "-" -> "sub" [] op = "*" -> "mul"
      [] op = "&" -> "and" [] op = "|" -> "or" [] op = "^" -> "xor"]
Compare == [op \in {"==", "!=", "<", ">", "<=", ">="} |->
    CASE op = "==" -> "e" [] op = "!=" -> "ne" [] op = "<" -> "l"
      [] op = ">" -> "g" [] op = "<=" -> "le" [] op = ">=" -> "ge"]

\* The left operand waits in rbx while the right one is computed; no other
\* operator has code for decis.
DeciOp(g, e) ==
    <<Expr(e.l), <<"mov", "rbx", "rax">>, Expr(e.r), <<"mov", "x1", "rax">>, <<"mov", "x0", "rbx">> >>
      \o (CASE e.op \in DOMAIN Compare -> << <<"ssecmp", "x0", "x1">>, <<"set", Compare[e.op]>> >>
            [] e.op \in {"+", "-", "*", "/"} -> << <<"sse", e.op, "x0", "x1">>, <<"mov", "rax", "x0">> >>
            [] OTHER -> <<>>)

\* add, sub, imul; with the overflow check a result that does not fit is -1.
Checked(g, op) ==
    LET over == <<"overflow", g.lab>>
        done == <<"overflow_done", g.lab + 1>>
        compute == <<"alu", Arithmetic[op], "rax", "rbx">>
    IN  IF g.checked /\ op \in {"+", "-", "*"}
        THEN << Fresh(2), compute, <<"j", "o", over>>, Goto(done), At(over), <<"imm", "rax", -1>>, At(done) >>
        ELSE <<compute>>

\* rdx is zero before idiv, so a negative dividend is taken for a huge one.
Divide(g, op) ==
    LET zero == <<"div_by_zero", g.lab>>
        done == <<"div_done", g.lab>>
    IN  << Fresh(1), <<"cmpi", "rbx", 0>>, <<"j", "e", zero>>, <<"imm", "rdx", 0>>, <<"idiv", "rbx">> >>
          \o (IF op = "%" THEN << <<"mov", "rax", "rdx">> >> ELSE <<>>)
          \o << Goto(done), At(zero), <<"imm", "rax", 0>>, At(done) >>

IntOp(g, e) ==
    << Expr(e.l), <<"push", "rax">>, Expr(e.r), <<"mov", "rbx", "rax">>, <<"pop", "rax">> >>
      \o (CASE e.op \in {"/", "%"} -> << <<"divide", e.op>> >>
            [] e.op \in {"==", "!="} /\ (IsStringExpr(g, e.l) \/ IsStringExpr(g, e.r)) ->
                  << <<"strcmp">> >> \o Truth(Compare[e.op])
            [] e.op \in DOMAIN Compare -> << <<"cmp", "rax", "rbx">>, <<"set", Compare[e.op]>> >>
            [] e.op \in {"<<", ">>"} -> << <<"mov", "rcx", "rbx">>, <<"alu", e.op, "rax", "rcx">> >>
            [] e.op \in DOMAIN Arithmetic -> << <<"checked", e.op>> >>
            [] OTHER -> <<>>)

BinaryOp(g, e) ==
    CASE e.op \in {"&&", "and", "||"} -> ShortCircuit(g, e)
      [] e.op = "xor" -> LogicalXor(g, e)
      [] IsDeciExpr(g, e.l) \/ IsDeciExpr(g, e.r) -> DeciOp(g, e)
      [] OTHER -> IntOp(g, e)

\* ++ and -- act on a variable in place, before or after it is read.
Step(g, e) ==
    LET off == Slot(g, e.e.n)
        read == <<"load", "rax", 8, off>>
        bump == <<"bump", off, IF e.op = "++" THEN 1 ELSE -1>>
    IN  CASE e.e.t # "id" \/ ~Known(g.syms, e.e.n) -> <<>>
          [] e.post -> <<read, bump>>
          [] OTHER -> <<bump, read>>

\* There is no code for not.
UnaryOp(g, e) ==
    CASE e.op \in {"++", "--"} -> Step(g, e)
      [] e.op = "!" -> <<Expr(e.e)>> \o Truth("e")
      [] e.op = "+" -> <<Expr(e.e)>>
      [] e.op \in {"-", "~"} -> << Expr(e.e), <<"unary", e.op>> >>
      [] OTHER -> <<>>

Ternary(g, e) ==
    LET no == L(g.lab)
        end == L(g.lab + 1)
    IN  <<Fresh(2), Expr(e.c)>> \o IfZero(no) \o <<Expr(e.a), Goto(end), At(no), Expr(e.b), At(end)>>

Ident(g, e) ==
    IF Known(g.consts, e.n) THEN <<Expr(Get(g.consts, e.n).v)>>
    ELSE << <<"load", "rax", 8, Slot(g, e.n)>> >>

\* The address of an element: a local array lies below rbp, a parameter is a pointer.
Element(s, reg) == IF s.kind = "array_param" THEN <<"load", reg, 8, s.off>> ELSE <<"lea", reg, s.off>>

BoundsTest(s, error) == << <<"cmpi", "rax", 0>>, <<"j", "l", error>>,
                         <<"cmpi", "rax", s.len>>, <<"j", "ge", error>> >>
OutOfBounds(n) == <<Goto(<<"bounds_ok", n + 1>>), At(<<"bounds_error", n>>)>> \o Exit("bounds")
                    \o <<At(<<"bounds_ok", n + 1>>)>>

IsArraySymbol(g, n) == Known(g.syms, n) /\ Get(g.syms, n).kind \in {"array", "array_param"}

ArrayAccess(g, e) ==
    IF IsArraySymbol(g, e.n) THEN << Expr(e.i), <<"fetch", Get(g.syms, e.n)>> >> ELSE <<>>

\* The index is in rax.
Fetch(g, s) ==
    LET fetch == << <<"imm", "rbx", s.size>>, <<"alu", "mul", "rax", "rbx">>, Element(s, "rbx"),
                    <<"alu", "add", "rbx", "rax">>, <<"loadat", "rax", s.size, "rbx">> >>
    IN  IF g.checked THEN <<Fresh(1)>> \o BoundsTest(s, <<"bounds_error", g.lab>>) \o fetch \o OutOfBounds(g.lab)
        ELSE fetch

RECURSIVE MemberType(_, _), Field(_, _, _)
MemberType(g, e) ==
    CASE e.t \in {"id", "at"} -> TypeOfName(g, e.n)
      [] e.t = "dot" /\ Field(g, e.o, e.f) # None -> Field(g, e.o, e.f).ty
      [] OTHER -> "unknown"

\* The field f of an object; None when its group or the field is not known.
Field(g, o, f) ==
    LET ty == MemberType(g, o)
        fields == IF Known(g.groups, ty) THEN Get(g.groups, ty).fields ELSE <<>>
    IN  IF Known(fields, f) THEN Get(fields, f) ELSE None

\* The address of an element of one byte is taken with movzx rax, rdx, which
\* nasm refuses. What is not known leaves rax as it is.
MemberAddr(g, e) ==
    CASE e.t = "id" /\ Known(g.syms, e.n) -> << <<"lea", "rax", Slot(g, e.n)>> >>
      [] e.t = "at" /\ Known(g.syms, e.n) ->
           LET sym == Get(g.syms, e.n)
               scaled == IF sym.size = 1 THEN Sets([crash |-> TRUE]) ELSE <<"alui", "mul", "rax", sym.size>>
           IN  << Expr(e.i), <<"mov", "rdx", "rax">>, scaled, <<"lea", "rcx", sym.off>>, <<"alu", "add", "rax", "rcx">> >>
      [] e.t = "dot" -> << <<"addr", e.o>> >> \o (IF Field(g, e.o, e.f) = None THEN <<>>
                                                  ELSE << <<"alui", "add", "rax", Field(g, e.o, e.f).off>> >>)
      [] OTHER -> <<>>

MemberAccess(g, e) ==
    LET f == Field(g, e.o, e.f)
    IN  IF f = None THEN <<>> ELSE << <<"addr", e>>, <<"loadat", "rax", f.size, "rax">> >>

\* @type[..]::t: rax is converted according to what the expression is; the code
\* for ::str names a label that is never defined.
Cast(g, e) ==
    LET deci == IsDeciExpr(g, e.e)
        back == IF deci THEN << <<"cvttsd2si", "rax", "rax">> >> ELSE <<>>
    IN  <<Expr(e.e)>> \o
          (CASE e.to = "int" -> back
             [] e.to = "deci" -> IF deci THEN <<>> ELSE << <<"cvtsi2sd", "rax", "rax">> >>
             [] e.to \in {"byte", "char"} -> back \o << <<"movsx8", "rax">> >>
             [] e.to = "str" -> <<Sets([crash |-> TRUE])>>
             [] e.to = "bool" /\ deci -> << <<"mov", "x0", "rax">>, <<"immd", "x1", 0>>,
                                            <<"ssecmp", "x0", "x1">>, <<"set", "ne">> >>
             [] e.to = "bool" /\ ~deci -> Truth("ne")
             [] OTHER -> <<>>)

\* Any other number of arguments, and a list of types: the instructions of a
\* conversion are on one line, where all but the first are a comment.
Casts(g, e) ==
    LET Convert(x, ty) ==
          <<Expr(x)>>
            \o (CASE ty \in {"int", "byte", "bool"} /\ IsDeciExpr(g, x) -> << <<"mov", "x0", "rax">> >>
                  [] ty = "deci" /\ ~IsDeciExpr(g, x) -> << <<"cvtsi2sd", "x0", "rax">> >>
                  [] OTHER -> <<>>)
            \o (IF ty = "byte" THEN << <<"movsx8", "rax">> >> ELSE <<>>)
    IN  FlattenSeq([i \in DOMAIN e.args \cap DOMAIN e.to |-> Convert(e.args[i], e.to[i])])

\* @sizeof: the size of the type of a variable, 8 for everything else.
SizeOf(g, e) ==
    IF e.t = "id" THEN << <<"imm", "rax", IF Known(g.syms, e.n) THEN TypeSize(Get(g.syms, e.n).ty) ELSE 8>> >>
    ELSE << Expr(e), <<"imm", "rax", 8>> >>

-----------------------------------------------------------------------------
\* Calls.  The arguments are pushed, then popped into the registers.

Argument(f, args, i) == IF i <= Len(args) THEN args[i] ELSE f.defaults[i]

PushArguments(f, args) ==
    LET order == [k \in 1 .. (IF Len(f.params) > 6 THEN Len(f.params) - 6 ELSE 0) |-> Len(f.params) + 1 - k]
                   \o [k \in 1 .. (IF Len(f.params) > 6 THEN 6 ELSE Len(f.params)) |-> k]
    IN  FlattenSeq([k \in DOMAIN order |-> << Expr(Argument(f, args, order[k])), <<"push", "rax">> >>])

InRegisters(f) == IF Len(f.params) > 6 THEN 6 ELSE Len(f.params)
DropStackArgs(f) == IF Len(f.params) > 6 THEN << <<"rsp", 8 * (Len(f.params) - 6)>> >> ELSE <<>>

\* An expression converts and passes deci parameters in the xmm registers.
PopTyped(g, f, args) ==
    LET Pop(i) == IF f.params[i] # "deci" THEN <<"mov", ParamRegs[i], "rax">>
                  ELSE IF IsDeciExpr(g, Argument(f, args, i)) THEN <<"mov", XmmRegs[i], "rax">>
                  ELSE <<"cvtsi2sd", XmmRegs[i], "rax">>
        n == InRegisters(f)
    IN  [k \in 1 .. 2 * n |-> IF k % 2 = 1 THEN <<"pop", "rax">> ELSE Pop(n + 1 - k \div 2)]

\* The caller counts the call as well as the callee, and gives 0 at the limit.
GuardedCall(f, n) ==
    LET limit == <<"recursion_limit", n>>
        ok == <<"recursion_ok", n>>
    IN  << <<"getdepth", "rcx">>, <<"cmpi", "rcx", MaxRecursion>>, <<"j", "ge", limit>>,
           <<"depth", 1>>, <<"call", f.n>>, <<"getdepth", "rcx">>, <<"depth", -1>>,
           Goto(ok), At(limit), <<"imm", "rax", 0>>, At(ok) >>

Call(g, e) ==
    LET f == Get(g.funs, e.f)
    IN  CASE ~Known(g.funs, e.f) -> <<Fresh(1)>> \o Exit("unimplemented function")
          [] Len(e.args) < f.required \/ Len(e.args) > Len(f.params) -> <<Fresh(1)>>
          [] OTHER -> <<Fresh(1)>> \o PushArguments(f, e.args) \o PopTyped(g, f, e.args)
                        \o GuardedCall(f, g.lab) \o DropStackArgs(f)
                        \o (IF f.ret = "deci" THEN << <<"mov", "rax", "x0">> >> ELSE <<>>)

CallStatement(g, e) ==
    LET f == Get(g.funs, e.f)
    IN  CASE ~Known(g.funs, e.f) -> Exit("unimplemented function")
          [] Len(e.args) < f.required \/ Len(e.args) > Len(f.params) -> <<>>
          [] OTHER -> PushArguments(f, e.args)
                        \o [k \in 1 .. InRegisters(f) |-> <<"pop", ParamRegs[InRegisters(f) + 1 - k]>>]
                        \o << <<"call", f.n>> >> \o DropStackArgs(f)

-----------------------------------------------------------------------------
\* Statements.

Show(g, e) ==
    LET ty == CASE e.t = "lit" -> e.ty
                [] e.t = "id" -> TypeOfName(g, e.n)
                [] IsDeciExpr(g, e) -> "deci"
                [] OTHER -> "int"
    IN  << Expr(e), Fresh(IF ty = "str" THEN 3 ELSE 0), <<"show", IF ty \in {"str", "deci"} THEN ty ELSE "int">> >>

ShowFormat(g, parts) ==
    FlattenSeq([i \in DOMAIN parts |-> Show(g, parts[i])]) \o << <<"print", "newline">> >>

RunDefers_InOrder(g) == [i \in DOMAIN g.defers |-> Stmt(g.defers[i])]

\* Deferred statements run last in, first out.
RunDefers(g) == [i \in DOMAIN g.defers |-> Stmt(Reverse(g.defers)[i])]

Leave_NoCount == << <<"leave">>, <<"ret">> >>
Leave == << <<"depth", -1>>, <<"leave">>, <<"ret">> >>

\* Only the defers of the innermost block run before a return.
Return(g, s) == RunDefers(g) \o (IF s.e = None THEN <<>> ELSE << <<"result", s.e>> >>) \o Leave

ReturnValue(g, e) ==
    <<Expr(e)>> \o (IF g.ret # "deci" THEN <<>>
                    ELSE IF IsDeciExpr(g, e) THEN << <<"mov", "x0", "rax">> >>
                    ELSE << <<"cvtsi2sd", "x0", "rax">> >>)

If(g, s) ==
    LET no == L(g.lab)
        end == L(g.lab + 1)
    IN  <<Fresh(2), Expr(s.c)>> \o IfZero(no) \o <<Stmt(s.a), Goto(end), At(no), Stmt(s.b), At(end)>>

InLoop(brk, cont) == Sets([brk |-> brk, cont |-> cont])
OutOfLoop(g) == <<Sets([brk |-> g.brk, cont |-> g.cont, depth |-> g.depth])>>
Deeper(g, n) == Sets([depth |-> g.depth + n])

While(g, s) ==
    LET start == L(g.lab)
        end == L(g.lab + 1)
    IN  <<Fresh(2), InLoop(end, start), At(start), Expr(s.c)>> \o IfZero(end)
          \o <<Stmt(s.b), Goto(start), At(end)>> \o OutOfLoop(g)

\* The value waits on the stack; every case is compared with it.
Cycle(g, s) ==
    LET end == L(g.lab)
    IN  << Fresh(1), Expr(s.v), <<"push", "rax">> >>
          \o [i \in DOMAIN s.cases |-> <<"case", s.cases[i], end>>]
          \o << Stmt(s.default), At(end), <<"rsp", 8>> >>

Case(g, w, end) ==
    LET next == L(g.lab)
    IN  << Fresh(1), <<"peek", "rax">>, Expr(w.v), <<"mov", "rbx", "rax">>, <<"peek", "rax">>,
           <<"cmp", "rax", "rbx">>, <<"j", "ne", next>>, Stmt(w.b), Goto(end), At(next) >>

\* read: a prompt where no variable is named; strings go to a buffer of
\* their own; the other types use bytes of the stack that are given back after
\* the conversion and, as 32 bytes whatever they were, once more at the end.
Read(g, s) ==
    LET bytes == IF s.ty = "char" THEN 8 ELSE 32
    IN  (IF s.n = "" THEN << Fresh(1), <<"print", "prompt">> >> ELSE <<>>) \o
        (IF s.ty = "str" THEN << Fresh(1), <<"input", "str">> >>
         ELSE << Fresh(IF s.ty = "char" THEN 0 ELSE 1), <<"rsp", -bytes>>, <<"input", s.ty>> >>
               \o (IF s.ty \in {"byte", "ubyte"} THEN << <<"alui", "and", "rax", 255>> >> ELSE <<>>)
               \o (IF s.ty = "deci" THEN << <<"cvtsi2sd", "rax", "rax">> >> ELSE <<>>)
               \o << <<"rsp", bytes>> >>
               \o (IF s.n = "" THEN <<>> ELSE << <<"store", 8, Slot(g, s.n), "rax">> >>)
               \o << <<"rsp", 32>> >>)

VarDecl(g, s) ==
    (CASE s.e # None -> <<Expr(s.e)>> \o
            (IF s.ty = "deci" /\ ~IsDeciExpr(g, s.e) THEN << <<"cvtsi2sd", "rax", "rax">> >> ELSE <<>>)
       [] s.ty = "str" -> << <<"imms", "rax", "", 0>> >>
       [] OTHER -> << <<"imm", "rax", 0>> >>)
    \o << <<"push", "rax">>, Sets([off |-> g.off + 8]), AddSymbol(s.n, g.off + 8, s.ty, "var", 0, 8) >>

Assign(g, s) ==
    <<Expr(s.e)>>
      \o (IF TypeOfName(g, s.n) \in {"byte", "ubyte", "char"} THEN << <<"alui", "and", "rax", 255>> >> ELSE <<>>)
      \o << <<"store", 8, Slot(g, s.n), "rax">> >>

\* A size that is no literal is taken to be 10, and unknown (0) for a parameter;
\* a literal that is no number reads as 0.
ArraySize(e) == IF e.t # "lit" THEN 10 ELSE IF e.ty \in {"int", "deci", "char"} THEN e.v ELSE 0
EvaluateArraySize(e) == IF e.t = "lit" /\ e.ty = "int" THEN e.v ELSE 0

\* Element i of the initializer is stored i elements above the base. No or too
\* many elements, or more than 100 MB, end the compiler.
ArrayDecl(g, s) ==
    LET len == ArraySize(s.len)
        size == IF Known(g.groups, s.ty) THEN Get(g.groups, s.ty).total ELSE TypeSize(s.ty)
        bytes == len * size
        base == g.off + bytes
        given == IF Len(s.init) < len THEN s.init ELSE SubSeq(s.init, 1, len)
        refused == len <= 0 \/ len > 1000000 \/ (size > 0 /\ len > (100 * 1024 * 1024) \div size)
    IN  IF refused THEN <<Sets([crash |-> TRUE])>> ELSE
        << Sets([off |-> base]), <<"rsp", -bytes>>, AddSymbol(s.n, base, s.ty, "array", len, size) >>
          \o FlattenSeq([i \in DOMAIN given |-> << Expr(given[i]), <<"store", size, base - (i - 1) * size, "rax">> >>])

ArrayAssign(g, s) ==
    IF IsArraySymbol(g, s.n) THEN << Expr(s.i), <<"push", "rax">>, <<"keep", Get(g.syms, s.n), s.e>> >> ELSE <<>>

\* The index is in rax and on the stack.
Keep(g, sym, e) ==
    LET keep == << Expr(e), <<"mov", "rbx", "rax">>, <<"pop", "rax">>,
                   <<"imm", "rcx", sym.size>>, <<"alu", "mul", "rax", "rcx">>, Element(sym, "rcx"),
                   <<"alu", "add", "rcx", "rax">>, <<"storeat", sym.size, "rcx", "rbx">> >>
    IN  IF g.checked THEN <<Fresh(1)>> \o BoundsTest(sym, <<"bounds_error", g.lab>>) \o keep \o OutOfBounds(g.lab)
        ELSE keep

GroupDecl(g, s) ==
    LET group == Get(g.groups, s.ty)
        base == g.off + group.total
        Clear(f) == IF f.ty = "str"
                    THEN << <<"imms", "rax", "", 0>>, <<"store", 8, base - f.off, "rax">> >>
                    ELSE << <<"storei", f.size, base - f.off, 0>> >>
    IN  IF ~Known(g.groups, s.ty) THEN <<>> ELSE
        << Sets([off |-> base]), <<"rsp", -group.total>> >>
          \o FlattenSeq([i \in DOMAIN group.fields |-> Clear(group.fields[i])])
          \o <<AddSymbol(s.n, base, s.ty, "group", 0, 0)>>

\* The address waits in rcx while the value is computed.
MemberAssign(g, s) ==
    LET f == Field(g, s.o, s.f)
    IN  << <<"addr", s.o>>, <<"mov", "rcx", "rax">>, Expr(s.e) >>
          \o (IF f = None THEN <<>> ELSE << <<"alui", "add", "rcx", f.off>>, <<"storeat", f.size, "rcx", "rax">> >>)

Block(g, s) ==
    <<Sets([defers |-> <<>>])>> \o [i \in DOMAIN s.ss |-> Stmt(s.ss[i])] \o << <<"defers">>, <<"leave_block", g.off>>,
      Sets([off |-> g.off, syms |-> g.syms, defers |-> g.defers]) >>

PopLocals_All(g, off) == << <<"rsp", 8 * (g.off \div 8)>> >>

\* What the declarations of the block have pushed is dropped.
PopLocals(g, off) == IF g.off > off THEN << <<"rsp", 8 * ((g.off - off) \div 8)>> >> ELSE <<>>

-----------------------------------------------------------------------------
\* Maps: 16 buckets of a key, a value and a flag, probed one after another.
\* No stack is reserved for them, the flags cleared lie above the base and
\* the buckets that are used below it.  In the symbol len is the size of a key.

Buckets == 16

MapDecl(g, s) ==
    LET ks == TypeSize(s.kt)
        size == ks + TypeSize(s.vt) + 1
        base == g.off + 8 + Buckets * size
    IN  << Sets([off |-> base]), <<"storei", 4, base, Buckets>>, <<"storei", 4, base - 4, 0>> >>
          \o [i \in 1 .. Buckets |-> <<"storei", 1, base - 8 - (i - 1) * size - (size - 1), 0>>]
          \o <<AddSymbol(s.n, base, "map", "map", ks, size)>>

IsMap(g, n) == Known(g.syms, n) /\ Get(g.syms, n).kind = "map"

\* rdx becomes the rest of rax by the capacity; rsi the address of the bucket in index.
ModBuckets == << <<"imm", "rdx", 0>>, <<"imm", "rcx", Buckets>>, <<"div", "rcx">> >>
BucketOf(sym, index) ==
    << <<"mov", "rax", index>>, <<"imm", "rcx", sym.size>>, <<"alu", "mul", "rax", "rcx">>, <<"imm", "rdx", 0>>,
       <<"lea", "rsi", sym.off>>, <<"alui", "add", "rsi", -8>>, <<"alu", "sub", "rsi", "rax">>,
       <<"loadd", "rcx", 1, "rsi", sym.size - 1>>, <<"cmpi", "rcx", 0>> >>
\* Four bytes of a bucket are read and compared as such, others as eight.
Wide(size) == IF size = 4 THEN 4 ELSE 8
SameKey(sym, r) == << <<"pop", "rax">>, <<"push", "rax">>, <<"loadd", r, Wide(sym.len), "rsi", 0>>,
                      <<IF sym.len = 4 THEN "cmpd" ELSE "cmp", "rax", r>> >>

\* The index found is lost in the multiplication; the key has been popped
\* before the loop pops it again, so that a word of the program goes with it.
MapSet(g, s) ==
    IF IsMap(g, s.n)
    THEN <<Expr(s.k), <<"push", "rax">>, Expr(s.e), <<"mov", "rbx", "rax">>, <<"pop", "rax">> >> \o ModBuckets
           \o << <<"insert", Get(g.syms, s.n)>> >>
    ELSE <<>>
Insert(g, sym) ==
    LET probe == <<"probe", g.lab>>
        found == <<"found", g.lab + 1>>
        vs == sym.size - sym.len - 1
    IN  <<Fresh(2), At(probe)>> \o BucketOf(sym, "rdx") \o << <<"j", "e", found>> >> \o SameKey(sym, "rdx")
          \o << <<"j", "e", found>>, <<"pop", "rax">>, <<"push", "rax">>, <<"mov", "r9", "rdx">>,
                <<"alui", "add", "r9", 1>>, <<"mov", "rax", "r9">> >> \o ModBuckets
          \o << Goto(probe), At(found), <<"pop", "rax">>, <<"stored", Wide(sym.len), "rsi", 0, "rax">>,
                <<"stored", Wide(vs), "rsi", sym.len, "rbx">>,
                <<"imm", "rcx", 1>>, <<"stored", 1, "rsi", sym.size - 1, "rcx">> >>

\* get, has and remove look a key up in the same way.
MapUse(g, e) ==
    IF IsMap(g, e.n) THEN <<Expr(e.k), <<"push", "rax">> >> \o ModBuckets \o << <<"probe", e.t, Get(g.syms, e.n)>> >>
    ELSE IF e.t = "mapremove" THEN <<>> ELSE << <<"imm", "rax", 0>> >>
Probe(g, what, sym) ==
    LET probe == <<"probe", g.lab>>
        found == <<"found", g.lab + 1>>
        missing == <<"notfound", g.lab + 2>>
        end == <<"end", g.lab + 3>>
        hit == CASE what = "mapget" -> << <<"loadd", "rax", Wide(sym.size - sym.len - 1), "rsi", sym.len>> >>
                 [] what = "maphas" -> << <<"imm", "rax", 1>> >>
                 [] OTHER -> << <<"imm", "rcx", 0>>, <<"stored", 1, "rsi", sym.size - 1, "rcx">> >>
    IN  <<Fresh(4), <<"imm", "r8", 0>>, <<"mov", "r9", "rdx">>, At(probe), <<"cmpi", "r8", Buckets>>,
          <<"j", "ge", missing>>, <<"alui", "add", "r8", 1>> >>
          \o BucketOf(sym, "r9") \o << <<"j", "e", missing>> >> \o SameKey(sym, "r10")
          \o << <<"j", "e", found>>, <<"mov", "rax", "r9">>, <<"alui", "add", "rax", 1>> >> \o ModBuckets
          \o << <<"mov", "r9", "rdx">>, Goto(probe), At(found), <<"pop", "rax">> >> \o hit
          \o << Goto(end), At(missing), <<"pop", "rax">> >>
          \o (IF what = "mapremove" THEN <<>> ELSE << <<"imm", "rax", 0>> >>) \o <<At(end)>>

-----------------------------------------------------------------------------
\* Loops.  The loop variable is declared by the init statement and lives on.

RECURSIVE IsInnermost(_)
IsInnermost(s) ==
    CASE s.t = "loop" -> FALSE
      [] s.t = "block" ->
                \A i \in 1 .. Len(s.ss) :
                    /\ s.ss[i].t # "loop"
                    /\ s.ss[i].t = "if" => /\ ~IsInnermost(s.ss[i].a)
                                           /\ s.ss[i].b # None => ~IsInnermost(s.ss[i].b)
      [] s.t = "if" -> IsInnermost(s.a) /\ (s.b # None => IsInnermost(s.b))
      [] OTHER -> TRUE

\* The loop directly inside another one: its body, or the first statement of its body.
NestedLoop(s) ==
    CASE s = None -> None
      [] s.b.t = "loop" -> s.b
      [] s.b.t = "block" /\ s.b.ss # <<>> /\ s.b.ss[1].t = "loop" -> s.b.ss[1]
      [] OTHER -> None

LoopVar(s) == IF s.i.t = "var" THEN s.i.n ELSE ""

Condition(s, end) == IF s.c = None THEN <<>> ELSE <<Expr(s.c)>> \o IfZero(end)

RegularLoop_ContinueTests(g, s) ==
    LET start == L(g.lab)
        end == L(g.lab + 1)
        cont == L(g.lab + 2)
    IN  <<Fresh(3), Deeper(g, 1), InLoop(end, start), Stmt(s.i), At(start)>> \o Condition(s, end)
          \o <<Stmt(s.b), At(cont), Stmt(s.s), Goto(start), At(end)>> \o OutOfLoop(g)

RegularLoop(g, s) ==
    LET start == L(g.lab)
        end == L(g.lab + 1)
        cont == L(g.lab + 2)
    IN  <<Fresh(3), Deeper(g, 1), InLoop(end, cont), Stmt(s.i), At(start)>> \o Condition(s, end)
          \o <<Stmt(s.b), At(cont), Stmt(s.s), Goto(start), At(end)>> \o OutOfLoop(g)

\* The condition is tested once for a whole batch of bodies.
UnrolledLoop(g, s) ==
    LET start == <<"unroll", g.lab + 3>>
        end == L(g.lab + 4)
        cleanup == L(g.lab + 5)
        factor == IF g.depth + 1 = 3 THEN 16 ELSE 8
    IN  <<Fresh(6), Deeper(g, 2), InLoop(end, end), Stmt(s.i), At(start)>> \o Condition(s, cleanup)
          \o FlattenSeq([n \in 1 .. factor |-> <<Stmt(s.b), Stmt(s.s)>>])
          \o <<Goto(start), At(cleanup), At(end)>> \o OutOfLoop(g)

\* i, j, k becomes i, k, j. A loop has a number for its start and the next one
\* for its end. The test leaves it for the end with the number of the start,
\* break and continue for the number of the end without a name, and the label at
\* the end has both: nothing defines what they jump to, and nasm refuses the program.
InterchangedLoop(g, i, j, k) ==
    LET n == g.lab + 3
        Open(s, d, name, num) ==
          <<Deeper(g, d), InLoop(L(num + 1), L(num + 1)), Stmt(s.i), At(<<name, num>>)>>
            \o Condition(s, <<name \o "_end", num>>)
        Close(s, name, num) == <<Stmt(s.s), Goto(<<name, num>>), At(<<name \o "_end", num + 1>>)>>
    IN  <<Fresh(9)>> \o Open(i, 2, "i", n) \o Open(k, 3, "k", n + 2) \o Open(j, 4, "j", n + 4)
          \o <<Stmt(k.b)>> \o Close(j, "j", n + 4) \o Close(k, "k", n + 2) \o Close(i, "i", n) \o OutOfLoop(g)

\* Tiles of 64 up to 512 in each dimension, counted in registers; the bounds
\* and the variables of the loops themselves are not used.
Tile == << <<"rax", "rbx", "r8">>, <<"rcx", "rdx", "r9">>, <<"rsi", "rdi", "r10">> >>

BlockedLoop(g, nest) ==
    LET n == g.lab + 3
        m(d) == n + 2 + 4 * d
        Outer(d) == << <<"imm", Tile[d][1], 0>>, At(L(n + 2 * d - 2)), <<"cmpi", Tile[d][1], 512>>,
                       <<"j", "ge", L(n + 2 * d - 1)>>, <<"mov", Tile[d][2], Tile[d][1]>> >>
        Inner(d) == << <<"mov", Tile[d][1], Tile[d][2]>>, At(L(m(d))), <<"mov", Tile[d][3], Tile[d][2]>>,
                       <<"alui", "add", Tile[d][3], 64>>, <<"cmpi", Tile[d][3], 512>>,
                       <<"j", "le", L(m(d) + 2)>>, <<"imm", Tile[d][3], 512>>, At(L(m(d) + 2)),
                       <<"cmp", Tile[d][1], Tile[d][3]>>, <<"j", "ge", L(m(d) + 1)>> >>
        Next(d) == << IF nest[d].s = None THEN <<"alui", "add", Tile[d][1], 1>> ELSE Stmt(nest[d].s),
                      Goto(L(m(d))), At(L(m(d) + 1)) >>
        NextTile(d) == << <<"alui", "add", Tile[d][1], 64>>, Goto(L(n + 2 * d - 2)), At(L(n + 2 * d - 1))>>
    IN  <<Fresh(21)>> \o Outer(1) \o Outer(2) \o Outer(3) \o Inner(1) \o Inner(2) \o Inner(3)
          \o <<Stmt(nest[3].b)>> \o Next(3) \o Next(2) \o Next(1)
          \o NextTile(3) \o NextTile(2) \o NextTile(1) \o OutOfLoop(g)

\* At the outermost level the optimising generator looks into the first two
\* nested loops even when there are none.
Loop(g, s) ==
    LET l2 == NestedLoop(s)
        l3 == NestedLoop(l2)
        outermost == g.simd /\ g.depth = 0
        named == <<LoopVar(s), LoopVar(l2), LoopVar(l3)>> = <<"i", "j", "k">>
    IN  CASE outermost /\ (l2 = None \/ l3 = None) -> <<Sets([crash |-> TRUE])>>
          [] outermost /\ named -> InterchangedLoop(g, s, l2, l3)
          [] outermost /\ ~named -> BlockedLoop(g, <<s, l2, l3>>)
          [] g.simd /\ IsInnermost(s.b) -> UnrolledLoop(g, s)
          [] OTHER -> RegularLoop(g, s)

-----------------------------------------------------------------------------
Jump(l) == IF l = NoLabel THEN <<>> ELSE <<Goto(l)>>

Statement(g, s) ==
    CASE s.t = "none" -> <<>>
      [] s.t = "show" -> Show(g, s.e)
      [] s.t = "showf" -> ShowFormat(g, s.parts)
      [] s.t = "return" -> Return(g, s)
      [] s.t = "if" -> If(g, s)
      [] s.t = "while" -> While(g, s)
      [] s.t = "loop" -> Loop(g, s)
      [] s.t = "cycle" -> Cycle(g, s)
      [] s.t = "check" -> <<Stmt(s.b)>>
      [] s.t = "break" -> Jump(g.brk)
      [] s.t = "continue" -> Jump(g.cont)
      [] s.t = "defer" -> <<Sets([defers |-> Append(g.defers, s.s)])>>
      [] s.t = "emit" -> <<Expr(s.e)>>
      [] s.t = "read" -> Read(g, s) \o (IF s.n = "" \/ ~Known(g.syms, s.n) THEN <<>> ELSE << <<"store", 8, Slot(g, s.n), "rax">> >>)
      [] s.t = "var" -> VarDecl(g, s)
      [] s.t = "set" -> Assign(g, s)
      [] s.t = "array" -> ArrayDecl(g, s)
      [] s.t = "setat" -> ArrayAssign(g, s)
      [] s.t = "group" -> GroupDecl(g, s)
      [] s.t = "setdot" -> MemberAssign(g, s)
      [] s.t = "mapdecl" -> MapDecl(g, s)
      [] s.t = "mapset" -> MapSet(g, s)
      [] s.t = "mapremove" -> MapUse(g, s)
      [] s.t = "block" -> Block(g, s)
      [] s.t = "call" -> CallStatement(g, s)
      [] s.t = "builtin" -> BuiltinCall(s.f, s.args)
      [] s.t = "casts" -> Casts(g, s)
      [] OTHER -> Cast(g, s)

Expression(g, e) ==
    CASE e.t = "lit" -> Literal(g, e)
      [] e.t = "bin" -> BinaryOp(g, e)
      [] e.t = "un" -> UnaryOp(g, e)
      [] e.t = "tern" -> Ternary(g, e)
      [] e.t = "cycle" -> Cycle(g, e)
      [] e.t = "id" -> Ident(g, e)
      [] e.t = "at" -> ArrayAccess(g, e)
      [] e.t = "dot" -> MemberAccess(g, e)
      [] e.t = "read" -> Read(g, e)
      [] e.t = "cast" -> Cast(g, e)
      [] e.t = "casts" -> Casts(g, e)
      [] e.t \in {"mapget", "maphas"} -> MapUse(g, e)
      [] e.t = "builtin" -> BuiltinCall(e.f, e.args)
      [] OTHER -> Call(g, e)

\* The items an item stands for: a node, or the part of one that depends on
\* the labels and tables as they are when its turn comes.
Nodes == {"expr", "stmt", "addr", "sizeof", "divide", "checked", "fetch", "keep", "case", "insert", "probe",
          "result", "defers", "leave_block"}
Items(g, it) ==
    LET kind == it[1]
    IN  CASE kind = "expr" -> Expression(g, it[2])
          [] kind = "stmt" -> Statement(g, it[2]) \o << <<"end">> >>
          [] kind = "addr" -> MemberAddr(g, it[2])
          [] kind = "sizeof" -> SizeOf(g, it[2])
          [] kind = "divide" -> Divide(g, it[2])
          [] kind = "checked" -> Checked(g, it[2])
          [] kind = "fetch" -> Fetch(g, it[2])
          [] kind = "keep" -> Keep(g, it[2], it[3])
          [] kind = "case" -> Case(g, it[2], it[3])
          [] kind = "insert" -> Insert(g, it[2])
          [] kind = "probe" -> Probe(g, it[2], it[3])
          [] kind = "result" -> ReturnValue(g, it[2])
          [] kind = "defers" -> RunDefers(g)
          [] kind = "leave_block" -> PopLocals(g, it[2])

Effect(g, it) ==
    CASE it[1] = "fresh" -> [g EXCEPT !.lab = @ + it[2]]
      [] it[1] = "become" -> it[2] @@ g
      [] it[1] = "symbol" -> [g EXCEPT !.syms = <<it[2]>> \o @]
      [] it[1] = "end" -> [g EXCEPT !.out = Append(@, <<"mark", g.off>>)]
      [] it[1] \in {"label", "func"} -> [g EXCEPT !.out = Append(@, it), !.at = @ @@ (it :> Len(g.out) + 1)]
      [] OTHER -> [g EXCEPT !.out = Append(@, it)]

\* A sequence of items is expanded half by half, to keep the evaluation shallow.
RECURSIVE Expand(_, _)
Expand(g, items) ==
    CASE items = <<>> -> g
      [] Len(items) = 1 -> IF items[1][1] \in Nodes THEN Expand(g, Items(g, items[1])) ELSE Effect(g, items[1])
      [] OTHER -> LET half == Len(items) \div 2
                      h == Expand(g, SubSeq(items, 1, half))
                  IN  IF h.crash THEN h ELSE Expand(h, SubSeq(items, half + 1, Len(items)))

\* The depth counter, its limit and its warning, which overwrites argument registers.
Prologue(g, n) ==
    LET ok == <<"recursion_ok", g.lab>>
        calm == <<"stack_ok", g.lab + 1>>
    IN  << Fresh(2), <<"func", n>>, <<"enter">>, <<"depth", 1>>, <<"getdepth", "rax">>,
            <<"cmpi", "rax", MaxRecursion>>, <<"j", "le", ok>>, <<"depth", -1>> >>
          \o Exit("stack limit")
          \o << At(ok), <<"cmpi", "rax", WarnRecursion>>, <<"j", "le", calm>>, <<"imm", "rdi", 2>>,
                <<"imm", "rsi", -7>>, <<"imm", "rdx", 45>>, <<"print", "stack warning">>, At(calm) >>

IsArray(p) == "array" \in DOMAIN p

\* Parameters are stored below rbp in their order; the seventh and later ones
\* are left where the caller pushed them, above rbp, and recorded with the
\* sign of a local.
Parameters(g, params) ==
    LET Size(ty) == IF ty \in {"byte", "ubyte", "char", "bool"} THEN 1
                    ELSE IF Known(g.groups, ty) THEN Get(g.groups, ty).total ELSE 8
        Store(i) ==
          LET p == params[i]
              off == IF i <= 6 THEN 8 * i ELSE 16 + 8 * (i - 7)
              from == IF p.ty = "deci" /\ ~IsArray(p) THEN XmmRegs[i] ELSE ParamRegs[i]
              symbol == IF IsArray(p) THEN AddSymbol(p.n, off, p.ty, "array_param", EvaluateArraySize(p.array), Size(p.ty))
                        ELSE AddSymbol(p.n, off, p.ty, "var", 0, 8)
          IN  IF i <= 6 THEN << <<"store", 8, off, from>>, symbol >> ELSE <<symbol>>
    IN  (IF params = <<>> THEN <<>> ELSE << Sets([off |-> 8 * Len(params)]), <<"rsp", -8 * Len(params)>> >>)
          \o FlattenSeq([i \in DOMAIN params |-> Store(i)])

\* The signature is known from here on: to the function itself and to later ones.
Function(g, f) ==
    LET defaults == [i \in 1 .. Len(f.params) |-> f.params[i].e]
        sig == [n |-> f.n, ret |-> f.ret, defaults |-> defaults,
                params |-> [i \in 1 .. Len(f.params) |-> IF IsArray(f.params[i]) THEN "arr" ELSE f.params[i].ty],
                required |-> Len(SelectSeq(defaults, LAMBDA d : d = None))]
        fresh == [g EXCEPT !.funs = <<sig>> \o @, !.ret = f.ret, !.syms = <<>>, !.off = 0]
    IN  Expand(fresh, Prologue(g, f.n) \o Parameters(g, f.params)
          \o << Stmt(f.body), <<"depth", -1>>, <<"imm", "rax", 0>>, <<"leave">>, <<"ret">> >>)

\* The fields are laid out from the last one declared to the first.
GroupLayout(fields) ==
    LET Add(l, f) == [fields |-> <<[n |-> f.n, ty |-> f.ty, off |-> l.total, size |-> TypeSize(f.ty)]>> \o l.fields,
                      total |-> l.total + TypeSize(f.ty)]
    IN  FoldLeft(Add, [fields |-> <<>>, total |-> 0], Reverse(fields))

\* nasm refuses a jump to a label that is never defined.
Linked(g) ==
    LET Targets(it) == CASE it[1] = "jmp" -> {it[2]} [] it[1] = "j" -> {it[3]} [] OTHER -> {}
        used == UNION {Targets(g.out[i]) : i \in DOMAIN g.out}
    IN  [g EXCEPT !.crash = @ \/ \E l \in used : <<"label", l>> \notin DOMAIN g.at]

\* A program is a record of its options, constants, groups and functions.
Generate(p) ==
    LET Group(h, d) == [h EXCEPT !.groups = <<[n |-> d.n, fields |-> GroupLayout(d.fields).fields,
                                               total |-> GroupLayout(d.fields).total]>> \o @]
        empty == [out |-> <<>>, at |-> <<>>, lab |-> 0, off |-> 0, syms |-> <<>>, brk |-> NoLabel, cont |-> NoLabel,
                  depth |-> 0, defers |-> <<>>, funs |-> <<>>, groups |-> <<>>, consts |-> p.consts,
                  ret |-> "int", simd |-> p.simd, checked |-> p.checked, crash |-> FALSE]
        start == << <<"func", "_start">>, <<"call", "main">>, <<"exit">> >>
    IN  Linked(Expand(FoldLeft(Function, FoldLeft(Group, empty, p.groups), p.funs), start))
==============================================================================
