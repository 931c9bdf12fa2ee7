------------------------------- MODULE Machine -------------------------------
(***************************************************************************)
(* What the generated instructions do: one step of the machine per         *)
(* instruction.  Memory is addressed by bytes; a cell holds the value      *)
(* stored there and which of its bytes it is, and a load that does not     *)
(* meet the bytes of one stored value gives Junk.                          *)
(***************************************************************************)
EXTENDS Words

CONSTANT StackTop     \* the address above the first word of the stack

VARIABLES code,     \* the program: its instructions, and where its labels and functions are
          pc, reg, mem,
          flag,     \* what the last compare compared, and whether the last operation overflowed
          depth,    \* g_recursion_depth
          shown,    \* what the program has written
          status    \* "run", "exit", "trap", or "refused" when there is no program to run

vars == <<code, pc, reg, mem, flag, depth, shown, status>>

Ins == code.ins[pc]
Registers == {"rax", "rbx", "rcx", "rdx", "rsi", "rdi", "rsp", "rbp", "r8", "r9", "r10", "r12", "r13",
              "x0", "x1", "x2", "x3", "x4", "x5"}

\* The program is started.
Init(program) ==
    /\ code = program
    /\ pc = code.at[<<"func", "_start">>]
    /\ reg = [r \in Registers |-> IF r = "rsp" THEN StackTop ELSE Junk]
    /\ mem = <<>>
    /\ flag = [a |-> 0, b |-> 0, o |-> FALSE]
    /\ depth = 0
    /\ shown = <<>>
    /\ status = IF program.crash THEN "refused" ELSE "run"

-----------------------------------------------------------------------------
Stored(a, size, v) == [x \in a .. a + size - 1 |-> <<Cut(size, v), x - a>>] @@ mem
Loaded(a, size) ==
    IF \A x \in a .. a + size - 1 : x \in DOMAIN mem /\ mem[x] = <<mem[a][1], x - a>>
    THEN Cut(size, mem[a][1])
    ELSE Junk

Advance == pc' = pc + 1 /\ UNCHANGED <<code, status>>
Set(r, v) == reg' = [reg EXCEPT ![r] = v] /\ Advance
Push(v) == /\ reg' = [reg EXCEPT !["rsp"] = @ - 8]
           /\ mem' = Stored(reg["rsp"] - 8, 8, v)
Quiet == UNCHANGED <<depth, shown>>

\* mov in its forms.
Move ==
    LET op == Ins[1] IN
    /\ op \in {"imm", "immd", "imms", "mov", "lea", "load", "loadat", "loadd", "peek"}
    /\ Set(Ins[2], CASE op = "imm" -> Ins[3]
                     [] op = "immd" -> Ins[3] + DeciBias
                     [] op = "imms" -> StringWord(Ins[3], Ins[4])
                     [] op = "mov" -> reg[Ins[3]]
                     [] op = "lea" -> reg["rbp"] - Ins[3]
                     [] op = "load" -> Loaded(reg["rbp"] - Ins[4], Ins[3])
                     [] op = "loadd" -> Loaded(reg[Ins[4]] + Ins[5], Ins[3])
                     [] op = "loadat" -> Loaded(reg[Ins[4]], Ins[3])
                     [] OTHER -> Loaded(reg["rsp"], 8))
    /\ UNCHANGED <<mem, flag>> /\ Quiet

Store ==
    LET op == Ins[1] IN
    /\ op \in {"store", "storei", "stored", "storeat"}
    /\ mem' = CASE op = "store" -> Stored(reg["rbp"] - Ins[3], Ins[2], reg[Ins[4]])
                [] op = "stored" -> Stored(reg[Ins[3]] + Ins[4], Ins[2], reg[Ins[5]])
                [] op = "storei" -> Stored(reg["rbp"] - Ins[3], Ins[2], Ins[4])
                [] OTHER -> Stored(reg[Ins[3]], Ins[2], reg[Ins[4]])
    /\ Advance /\ UNCHANGED <<reg, flag>> /\ Quiet

Stack ==
    LET op == Ins[1] IN
    /\ \/ op = "push" /\ Push(reg[Ins[2]])
       \/ op = "pop" /\ reg' = [reg EXCEPT ![Ins[2]] = Loaded(reg["rsp"], 8), !["rsp"] = @ + 8]
            /\ UNCHANGED mem
       \/ op = "rsp" /\ reg' = [reg EXCEPT !["rsp"] = @ + Ins[2]] /\ UNCHANGED mem
       \/ op = "enter" /\ mem' = Stored(reg["rsp"] - 8, 8, reg["rbp"])
            /\ reg' = [reg EXCEPT !["rsp"] = @ - 8, !["rbp"] = reg["rsp"] - 8]
       \/ op = "leave" /\ reg' = [reg EXCEPT !["rsp"] = reg["rbp"] + 8, !["rbp"] = Loaded(reg["rbp"], 8)]
            /\ UNCHANGED mem
    /\ Advance /\ UNCHANGED flag /\ Quiet

Alu ==
    LET v == Result(Ins[2], reg[Ins[3]], IF Ins[1] = "alu" THEN reg[Ins[4]] ELSE Ins[4]) IN
    /\ Ins[1] \in {"alu", "alui"}
    /\ Set(Ins[3], Wrap(v))
    /\ flag' = [flag EXCEPT !.o = v # Wrap(v)]
    /\ UNCHANGED mem /\ Quiet

\* idiv and div take rdx:rax, and rdx is zero: the dividend is rax without its sign.
Unary ==
    LET op == Ins[1]
        n == reg["rax"] % (2 * Half)
        d == reg["rbx"]
        word == Ins[2]
    IN
    /\ \/ op = "unary" /\ Set("rax", Wrap(IF word = "-" THEN -reg["rax"] ELSE -reg["rax"] - 1))
       \/ op = "movsx8" /\ Set("rax", Signed(reg["rax"], 8))
       \/ op = "cvtsi2sd" /\ Set(word, reg["rax"] + DeciBias)
       \/ op = "cvttsd2si" /\ Set(word, reg["rax"] - DeciBias)
       \/ op = "sse" /\ Set("x0", LET a == reg["x0"] - DeciBias
                                      b == reg["x1"] - DeciBias
                                  IN  DeciBias + (CASE word = "+" -> a + b [] word = "-" -> a - b
                                                    [] word = "*" -> a * b [] OTHER -> Quotient(a, b)))
       \/ op = "div" /\ reg' = [reg EXCEPT !["rax"] = n \div reg[word], !["rdx"] = n % reg[word]] /\ Advance
       \/ /\ op = "idiv"
          /\ IF Quotient(n, d) \in -Half .. Half - 1
             THEN reg' = [reg EXCEPT !["rax"] = Quotient(n, d), !["rdx"] = n - d * Quotient(n, d)] /\ Advance
             ELSE status' = "trap" /\ UNCHANGED <<code, pc, reg>>
    /\ UNCHANGED <<mem, flag>> /\ Quiet

Bump ==
    LET a == reg["rbp"] - Ins[2] IN
    /\ Ins[1] = "bump"
    /\ mem' = Stored(a, 8, Wrap(Loaded(a, 8) + Ins[3]))
    /\ Advance /\ UNCHANGED <<reg, flag>> /\ Quiet

Holds(cc) == CASE cc = "e" -> flag.a = flag.b
               [] cc = "ne" -> flag.a # flag.b
               [] cc = "l" -> flag.a < flag.b
               [] cc = "g" -> flag.a > flag.b
               [] cc = "le" -> flag.a <= flag.b
               [] cc = "ge" -> flag.a >= flag.b
               [] OTHER -> flag.o

Compares ==
    LET op == Ins[1] IN
    /\ \/ op \in {"cmp", "cmpd", "cmpi", "ssecmp"}
            /\ flag' = [flag EXCEPT !.a = IF op = "cmpd" THEN Cut(4, reg[Ins[2]]) ELSE reg[Ins[2]],
                                    !.b = IF op = "cmpi" THEN Ins[3] ELSE reg[Ins[3]]]
            /\ Advance /\ UNCHANGED reg
       \/ op = "strcmp" /\ Set("rax", IF Contents(reg["rax"]) = Contents(reg["rbx"]) THEN 0 ELSE 1)
            /\ UNCHANGED flag
       \/ op = "set" /\ Set("rax", IF Holds(Ins[2]) THEN 1 ELSE 0) /\ UNCHANGED flag
    /\ UNCHANGED mem /\ Quiet

Transfer ==
    LET op == Ins[1] IN
    /\ \/ op = "jmp" /\ pc' = code.at[<<"label", Ins[2]>>] /\ UNCHANGED <<reg, mem>>
       \/ op = "j" /\ pc' = (IF Holds(Ins[2]) THEN code.at[<<"label", Ins[3]>>] ELSE pc + 1) /\ UNCHANGED <<reg, mem>>
       \/ op = "call" /\ Push(pc + 1) /\ pc' = code.at[<<"func", Ins[2]>>]
       \/ op = "ret" /\ pc' = Loaded(reg["rsp"], 8)
            /\ reg' = [reg EXCEPT !["rsp"] = @ + 8] /\ UNCHANGED mem
       \/ op \in {"label", "func", "mark"} /\ pc' = pc + 1 /\ UNCHANGED <<reg, mem>>
    /\ UNCHANGED <<code, status, flag>> /\ Quiet

\* The printing routines use registers and the stack below rsp for themselves.
Scratch == {"rax", "rbx", "rcx", "rdx", "rsi", "rdi", "x0", "x1"}

Runtime ==
    LET op == Ins[1]
        rax == reg["rax"]
    IN
    /\ \/ op = "show" /\ shown' = Append(shown, CASE Ins[2] = "deci" -> <<"deci", rax - DeciBias>>
                                                  [] Ins[2] = "str" -> <<"str", Contents(rax)>>
                                                  [] OTHER -> <<"int", rax>>)
            /\ reg' = [r \in Registers |-> IF r \in Scratch THEN Junk ELSE reg[r]]
            /\ mem' = Restrict(mem, {a \in DOMAIN mem : a >= reg["rsp"]})
            /\ UNCHANGED depth
       \/ op = "print" /\ shown' = Append(shown, <<"msg", Ins[2]>>)
            /\ reg' = [reg EXCEPT !["rax"] = Junk, !["rcx"] = Junk] /\ UNCHANGED <<depth, mem>>
       \/ op = "input" /\ reg' = [reg EXCEPT !["rax"] = IF Ins[2] = "str" THEN StringWord("in", 0) ELSE 7,
                                             !["rcx"] = Junk, !["rbx"] = Junk, !["rsi"] = Junk, !["rdi"] = Junk]
            /\ UNCHANGED <<depth, shown, mem>>
       \/ op = "native" /\ shown' = (IF Ins[2] = "malloc" THEN shown
                                     ELSE Append(shown, <<"call", Ins[2], [i \in DOMAIN Ins[3] |-> reg[Ins[3][i]]]>>))
            /\ reg' = [r \in Registers |-> IF r = "rax" THEN NativeResult ELSE IF r \in Ins[4] THEN Junk ELSE reg[r]]
            /\ UNCHANGED <<depth, mem>>
       \/ op = "depth" /\ depth' = depth + Ins[2] /\ UNCHANGED <<reg, shown, mem>>
       \/ op = "getdepth" /\ reg' = [reg EXCEPT ![Ins[2]] = depth] /\ UNCHANGED <<depth, shown, mem>>
    /\ Advance /\ UNCHANGED flag

\* hlt is not for programs.
Exits == /\ Ins[1] \in {"exit", "hlt"}
         /\ status' = IF Ins[1] = "exit" THEN "exit" ELSE "trap"
         /\ UNCHANGED <<code, pc, reg, mem, flag>> /\ Quiet

Next == /\ status = "run"
        /\ \/ Move \/ Store \/ Stack \/ Alu \/ Unary \/ Bump \/ Compares \/ Transfer \/ Runtime \/ Exits

==============================================================================
