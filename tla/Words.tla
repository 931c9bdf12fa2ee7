-------------------------------- MODULE Words --------------------------------
(***************************************************************************)
(* The values of compiled programs.  A word (8 bytes) keeps WordBits bits  *)
(* here, a dword WordBits - 2 and a byte 8, so that values overflow and    *)
(* are cut off as the real ones are.  A deci is a word that is its (whole) *)
(* value moved by DeciBias and a string one that names its contents, so    *)
(* that taking one for the other shows.                                    *)
(***************************************************************************)
EXTENDS Integers, Sequences, SequencesExt

LOCAL INSTANCE Bitwise

CONSTANT WordBits

Junk == -1001
DeciBias == 1200
StrBias == 1500
NativeResult == 9      \* what routines give that are not modelled
Half == 2 ^ (WordBits - 1)

Strings == <<"", "a", "b", "in", "0">>
StringWord(c, place) == StrBias + 8 * (CHOOSE i \in DOMAIN Strings : Strings[i] = c) + (place % 8)
Contents(w) == LET i == (w - StrBias) \div 8 IN IF i \in DOMAIN Strings THEN Strings[i] ELSE "?"

Signed(v, bits) == ((v + 2 ^ (bits - 1)) % 2 ^ bits) - 2 ^ (bits - 1)
Wrap(v) == Signed(v, WordBits)
Cut(size, v) == CASE size = 1 -> v % 256
                  [] size = 4 -> Signed(v, WordBits - 2)
                  [] OTHER -> v

Result(op, a, b) ==
    LET ua == a % (2 * Half)
        ub == b % (2 * Half)
    IN  CASE op = "add" -> a + b
          [] op = "sub" -> a - b
          [] op = "mul" -> a * b
          [] op = "and" -> ua & ub
          [] op = "or" -> ua | ub
          [] op = "xor" -> ua ^^ ub
          [] op = "<<" -> a * 2 ^ (ub % WordBits)
          [] OTHER -> a \div 2 ^ (ub % WordBits)

\* Division rounds towards zero for a dividend that is not negative.
Quotient(n, d) == IF d > 0 THEN n \div d ELSE -(n \div (-d))
==============================================================================
