-------------------------- MODULE WrappingIntegers --------------------------
(***************************************************************************)
(* libsponge/wrapping_integers.{hh,cc}: 32-bit sequence numbers that wrap, *)
(* and the conversions between them and 64-bit absolute sequence numbers.  *)
(* The two word sizes are constants: Mod stands for 2^32, Lim for 2^64.    *)
(***************************************************************************)
EXTENDS Integers

CONSTANTS
    Mod,    \* number of WrappingInt32 values (2^32 in the code)
    Lim     \* number of uint64_t values (2^64 in the code)

ASSUME WidthAssumption ==
    /\ Mod \in Nat \ {0}
    /\ Lim \in Nat
    /\ Mod % 2 = 0
    /\ Lim % Mod = 0
    /\ Lim >= 2 * Mod

Half == Mod \div 2

WrappingInt32 == 0 .. Mod - 1
UInt64 == 0 .. Lim - 1

(* operator+(WrappingInt32, uint32_t) and operator-(WrappingInt32, uint32_t) *)
Plus(a, b) == (a + b) % Mod
Less(a, b) == (a - b) % Mod

(* WrappingInt32(n - isn).raw_value(): the int32_t difference, taken back to
   an unsigned 32-bit value. *)
Offset(n, isn) ==
    LET d      == (n - isn) % Mod
        signed == IF d >= Half THEN d - Mod ELSE d
    IN  signed % Mod

wrap(n, isn) == Plus(isn, n % Mod)

(* Mutant: unwrap without the branch that steps back one turn. *)
unwrap_neverBack(n, isn, checkpoint) ==
    LET times == checkpoint \div Mod
        A     == Offset(n, isn)
        B     == checkpoint % Mod
    IN  IF A <= B /\ ~(B <= Half \/ A >= B - Half)
        THEN ((times + 1) * Mod + A) % Lim
        ELSE (times * Mod + A) % Lim

(* unwrap(n, isn, checkpoint), branch by branch. *)
unwrap(n, isn, checkpoint) ==
    LET times == checkpoint \div Mod
        A     == Offset(n, isn)
        B     == checkpoint % Mod
    IN  IF \/ A <= B /\ (B <= Half \/ A >= B - Half)
           \/ A > B /\ (B >= Half \/ A <= B + Half)
        THEN (times * Mod + A) % Lim
        ELSE IF A <= B
        THEN ((times + 1) * Mod + A) % Lim
        ELSE IF times < 1
        THEN (times * Mod + A) % Lim
        ELSE ((times - 1) * Mod + A) % Lim

Distance(a, b) == IF a >= b THEN a - b ELSE b - a

(* The documented result: an absolute sequence number that wraps to n, and
   none that wraps to n is closer to the checkpoint. *)
IsClosest(r, n, isn, checkpoint) ==
    /\ r \in UInt64
    /\ wrap(r, isn) = n
    /\ \A x \in UInt64 :
          wrap(x, isn) = n => Distance(r, checkpoint) <= Distance(x, checkpoint)

=============================================================================
