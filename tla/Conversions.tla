---------------------------- MODULE Conversions ----------------------------
(***************************************************************************)
(* The check sum of a message, added up a machine word at a time.  A word  *)
(* has Lanes bytes of Byte values (8 and 256 in the code).                 *)
(***************************************************************************)
EXTENDS Integers, Sequences, SequencesExt, FiniteSetsExt

CONSTANTS
    Byte,   \* values of a byte
    Lanes   \* bytes of an unsigned long

ASSUME ConversionsAssumption == Byte \in Nat \ {0, 1} /\ Lanes \in Nat \ {0}

SumOver(S, f(_)) == FoldSet(LAMBDA x, acc : f(x) + acc, 0, S)

SumSeq(s) == FoldSeq(LAMBDA x, acc : x + acc, 0, s)

-----------------------------------------------------------------------------
(* The check sum *)

WordSize == Byte ^ Lanes

(* The unsigned long at bytes first .. first + Lanes - 1, lowest first.    *)
WordAt(text, first) == SumOver(0 .. Lanes - 1, LAMBDA k : text[first + k] * Byte ^ k)

Digit(x, k) == (x \div Byte ^ k) % Byte

(* OVERFLOW_MASK keeps the lowest bit of each lane but the first: the      *)
(* exclusive or of those bits of the two terms and of the sum.             *)
CarriesInto(a, b, sum) ==
    SumOver(1 .. Lanes - 1,
            LAMBDA k : Byte ^ k * ((Digit(a, k) + Digit(b, k) + Digit(sum, k)) % 2))

COLLAPSE_INT64(x) == SumOver(0 .. Lanes - 1, LAMBDA k : x \div Byte ^ k)

(* Mutant: the carries between the lanes are not taken out again.          *)
calc_chksum_carries(text) ==
    LET words == Len(text) \div Lanes
        ret == FoldSeq(LAMBDA i, r : (r + WordAt(text, (i - 1) * Lanes + 1)) % WordSize, 0,
                       [i \in 1 .. words |-> i])
    IN  (COLLAPSE_INT64(ret) + SumSeq(SubSeq(text, words * Lanes + 1, Len(text)))) % Byte

(* Words first, then what is left byte by byte.                            *)
calc_chksum(text) ==
    LET words == Len(text) \div Lanes
        Add(acc, i) ==
            LET w   == WordAt(text, (i - 1) * Lanes + 1)
                ret == (acc.ret + w) % WordSize
            IN  [ret |-> ret,
                 overflow |-> (acc.overflow + CarriesInto(acc.ret, w, ret)) % WordSize]
        end == FoldLeft(Add, [ret |-> 0, overflow |-> 0], [i \in 1 .. words |-> i])
        rest == SumSeq(SubSeq(text, words * Lanes + 1, Len(text)))
    IN  (COLLAPSE_INT64(end.ret) + rest - COLLAPSE_INT64(end.overflow)) % Byte

(* How often the lanes below k carried into lane k over the whole text.    *)
Carries(text, k) ==
    LET words == Len(text) \div Lanes
    IN  SumOver(1 .. words, LAMBDA i : WordAt(text, (i - 1) * Lanes + 1) % Byte ^ k)
        \div Byte ^ k

=============================================================================
