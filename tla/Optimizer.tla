------------------------------ MODULE Optimizer ------------------------------
(***************************************************************************)
(* The passes of src/src/optimizer.c that change the syntax tree: constant *)
(* folding, algebraic simplification and the removal of dead statements,   *)
(* in the order and at the places optimize_ast applies them.  The other    *)
(* passes of levels 2 and 3 look at the tree and leave it as it is.        *)
(* A literal keeps its text: dec is what its digits read as in base ten,   *)
(* for a literal that is not written in it (0x10 reads as 0).              *)
(***************************************************************************)
EXTENDS Generator, Words

IntLit(ty, n) == [t |-> "lit", ty |-> ty, v |-> n]
IsLit(e) == e.t = "lit"
Decimal(e) == IF "dec" \in DOMAIN e THEN e.dec ELSE e.v
\* The text of a literal is that of the number n.
Reads(e, n) == IsLit(e) /\ "dec" \notin DOMAIN e /\ e.ty \in {"int", "char"} /\ e.v = n

Scale == 100    \* a deci is folded as so many parts of one; 1000000 in the code
TowardsZero(a, b) == IF (a < 0) = (b < 0) THEN (IF a < 0 THEN (-a) \div (-b) ELSE a \div b)
                     ELSE -((IF a < 0 THEN -a ELSE a) \div (IF b < 0 THEN -b ELSE b))

\* Only int and deci literals have a value here; every other one counts as 0,
\* and the result has the type of the left operand.
EvaluateBinaryOp(op, l, r) ==
    LET ValueOfLit(e) == CASE e.ty = "int" -> Decimal(e) [] e.ty = "deci" -> e.v * Scale [] OTHER -> 0
        a == ValueOfLit(l)
        b == ValueOfLit(r)
        n == CASE op = "+" -> a + b [] op = "-" -> a - b [] op = "*" -> a * b
               [] op = "/" -> TowardsZero(a, b) [] OTHER -> a - b * TowardsZero(a, b)
    IN  IF op \notin {"+", "-", "*", "/", "%"} \/ (op \in {"/", "%"} /\ b = 0) THEN None
        ELSE IntLit(l.ty, IF l.ty = "deci" THEN TowardsZero(n, Scale) ELSE IF l.ty = "str" THEN "0" ELSE Wrap(n))

\* Operands that are no binary operations themselves stay as they are.
RECURSIVE FoldBinaryOp(_), FoldUnaryOp(_)
FoldBinaryOp(e) ==
    IF e.t # "bin" THEN e
    ELSE LET l == FoldBinaryOp(e.l)
             r == FoldBinaryOp(e.r)
             folded == IF IsLit(l) /\ IsLit(r) THEN EvaluateBinaryOp(e.op, l, r) ELSE None
         IN  IF folded # None THEN folded ELSE [e EXCEPT !.l = l, !.r = r]
FoldUnaryOp(e) ==
    IF e.t # "un" THEN e
    ELSE LET o == FoldUnaryOp(e.e)
         IN  CASE IsLit(o) /\ e.op = "-" /\ o.ty = "int" -> IntLit("int", -Decimal(o))
               [] IsLit(o) /\ e.op = "!" /\ o.ty = "bool" -> IntLit("bool", 1 - o.v)
               [] OTHER -> [e EXCEPT !.e = o]

FoldExpression(e) == CASE e.t = "bin" -> FoldBinaryOp(e) [] e.t = "un" -> FoldUnaryOp(e) [] OTHER -> e

\* Folding looks into blocks, and not into branches and loops.
RECURSIVE ConstantFold(_)
ConstantFold(s) ==
    CASE s.t = "block" -> [s EXCEPT !.ss = [i \in 1 .. Len(s.ss) |-> ConstantFold(s.ss[i])]]
      [] s.t \in {"var", "set", "show", "return"} -> [s EXCEPT !.e = FoldExpression(@)]
      [] OTHER -> s

Zero == IntLit("int", 0)
RECURSIVE SimplifyBinaryOp(_)
SimplifyBinaryOp(e) ==
    IF e.t # "bin" THEN e
    ELSE LET l == SimplifyBinaryOp(e.l)
             r == SimplifyBinaryOp(e.r)
         IN  CASE e.op \in {"+", "-", "|"} /\ Reads(r, 0) -> l
               [] e.op \in {"+", "|"} /\ Reads(l, 0) -> r
               [] e.op \in {"*", "/"} /\ Reads(r, 1) -> l
               [] e.op = "*" /\ Reads(l, 1) -> r
               [] e.op \in {"*", "&"} /\ (Reads(l, 0) \/ Reads(r, 0)) -> Zero
               [] OTHER -> [e EXCEPT !.l = l, !.r = r]

RECURSIVE SimplifyExpressions(_)
SimplifyExpressions(s) ==
    CASE s.t = "block" -> [s EXCEPT !.ss = [i \in 1 .. Len(s.ss) |-> SimplifyExpressions(s.ss[i])]]
      [] s.t = "bin" -> SimplifyBinaryOp(s)
      [] s.t = "if" -> [s EXCEPT !.c = SimplifyExpressions(@), !.a = SimplifyExpressions(@), !.b = SimplifyExpressions(@)]
      [] s.t = "while" -> [s EXCEPT !.c = SimplifyExpressions(@), !.b = SimplifyExpressions(@)]
      [] s.t = "loop" -> [s EXCEPT !.i = SimplifyExpressions(@), !.c = SimplifyExpressions(@), !.s = SimplifyExpressions(@),
                                   !.b = SimplifyExpressions(@)]
      [] s.t = "set" -> [s EXCEPT !.e = SimplifyExpressions(@)]
      [] OTHER -> s

\* What stands after a return in the same block goes, but for other returns.
RemoveDeadStatements(ss) ==
    LET first == SelectInSeq(ss, LAMBDA s : s.t = "return")
    IN  IF first = 0 THEN ss ELSE SubSeq(ss, 1, first - 1) \o SelectSeq(SubSeq(ss, first, Len(ss)), LAMBDA s : s.t = "return")

RECURSIVE DeadCode(_)
DeadCode(s) ==
    CASE s.t = "block" -> LET kept == RemoveDeadStatements(s.ss) IN [s EXCEPT !.ss = [i \in 1 .. Len(kept) |-> DeadCode(kept[i])]]
      [] s.t = "if" -> [s EXCEPT !.a = DeadCode(@), !.b = DeadCode(@)]
      [] s.t \in {"while", "loop"} -> [s EXCEPT !.b = DeadCode(@)]
      [] OTHER -> s

OptimizeAst(p) ==
    IF p.level = 0 THEN p
    ELSE [p EXCEPT !.consts = [i \in DOMAIN @ |-> [@[i] EXCEPT !.v = FoldExpression(@)]],
                   !.funs = [i \in DOMAIN @ |-> [@[i] EXCEPT !.body = DeadCode(SimplifyExpressions(ConstantFold(@)))]]]
==============================================================================
