----------------------- MODULE WrappingIntegersProofs -----------------------
(***************************************************************************)
(* What wrap and unwrap compute, for every word size.                      *)
(***************************************************************************)
EXTENDS WrappingIntegers, TLAPS

(* Division with remainder exists and is unique. *)
LEMMA DivMod ==
    ASSUME NEW m \in Nat \ {0}, NEW x \in Int
    PROVE  /\ x \div m \in Int
           /\ x % m \in 0 .. m - 1
           /\ x = ((x \div m) * m) + (x % m)
  OBVIOUS

LEMMA DivModUnique ==
    ASSUME NEW m \in Nat \ {0}, NEW x \in Int, NEW q \in Int, NEW r \in 0 .. m - 1,
           x = q * m + r
    PROVE  x \div m = q /\ x % m = r
  OBVIOUS

(* Mod is twice Half. *)
LEMMA ModHalf == Mod \in Nat \ {0} /\ Half \in Nat \ {0} /\ Mod = 2 * Half
  BY WidthAssumption DEF Half

(* Division by Mod. *)
LEMMA DivModMod ==
    ASSUME NEW x \in Nat
    PROVE  /\ x \div Mod \in Int
           /\ x % Mod \in 0 .. Mod - 1
           /\ x = ((x \div Mod) * Mod) + (x % Mod)
<1>1. x \in Int /\ Mod \in Nat \ {0}
  BY WidthAssumption
<1> QED BY <1>1, DivMod, Zenon

(* The signed 32-bit detour of the code does not change the difference. *)
LEMMA OffsetValue ==
    ASSUME NEW n \in WrappingInt32, NEW isn0 \in WrappingInt32
    PROVE  /\ Offset(n, isn0) = IF n >= isn0 THEN n - isn0 ELSE n - isn0 + Mod
           /\ Offset(n, isn0) \in 0 .. Mod - 1
<1> DEFINE d == IF n >= isn0 THEN n - isn0 ELSE n - isn0 + Mod
<1>0. d \in 0 .. Mod - 1
  BY ModHalf DEF WrappingInt32
<1>1. (n - isn0) % Mod = d
  <2>1. n - isn0 = (IF n >= isn0 THEN 0 ELSE -1) * Mod + d
    BY ModHalf DEF WrappingInt32
  <2> QED BY <1>0, <2>1, ModHalf, DivModUnique DEF WrappingInt32
<1> HIDE DEF d
<1>2. d % Mod = d
  BY <1>0, ModHalf
<1>3. (d - Mod) % Mod = d
  <2>1. d - Mod = (-1) * Mod + d
    BY <1>0, ModHalf
  <2> QED BY <1>0, <2>1, ModHalf, DivModUnique
<1>4. Offset(n, isn0) = d
  BY <1>1, <1>2, <1>3 DEF Offset
<1> QED BY <1>0, <1>4 DEF d

(* wrap yields a 32-bit number, and taking the ISN away again leaves the
   absolute sequence number modulo 2^32. *)
LEMMA WrapOffset ==
    ASSUME NEW x \in Nat, NEW isn0 \in WrappingInt32
    PROVE  /\ wrap(x, isn0) \in WrappingInt32
           /\ Offset(wrap(x, isn0), isn0) = x % Mod
<1> DEFINE r == x % Mod
           w == IF isn0 + r < Mod THEN isn0 + r ELSE isn0 + r - Mod
<1>1. r \in 0 .. Mod - 1
  BY ModHalf, DivMod
<1>2. w \in 0 .. Mod - 1
  BY <1>1, ModHalf DEF WrappingInt32
<1> HIDE DEF r
<1>3. wrap(x, isn0) = w
  <2>1. isn0 + r = (IF isn0 + r < Mod THEN 0 ELSE 1) * Mod + w
    BY <1>1, ModHalf DEF WrappingInt32
  <2>2. (isn0 + r) % Mod = w
    BY <1>1, <1>2, <2>1, ModHalf, DivModUnique DEF WrappingInt32
  <2> QED BY <2>2 DEF wrap, Plus, r
<1>4. wrap(x, isn0) \in WrappingInt32
  BY <1>2, <1>3 DEF WrappingInt32
<1>5. (IF w >= isn0 THEN w - isn0 ELSE w - isn0 + Mod) = r
  BY <1>1, ModHalf DEF WrappingInt32
<1>6. Offset(wrap(x, isn0), isn0) = r
  BY <1>3, <1>4, <1>5, OffsetValue
<1> QED BY <1>4, <1>6 DEF r

(* With checkpoint 0, which is what TCPSender, TCPReceiver and TCPConnection
   pass at every call, unwrap never looks past the first turn: the result is
   the absolute sequence number modulo 2^32. *)
THEOREM UnwrapFromZero ==
    ASSUME NEW x \in Nat, NEW isn0 \in WrappingInt32
    PROVE  unwrap(wrap(x, isn0), isn0, 0) = x % Mod
<1> DEFINE A == Offset(wrap(x, isn0), isn0)
<1>1. A = x % Mod /\ A \in 0 .. Mod - 1
  BY WrapOffset, DivMod, ModHalf
<1>2. 0 \div Mod = 0 /\ 0 % Mod = 0
  BY ModHalf
<1>3. A % Lim = A
  BY <1>1, WidthAssumption, ModHalf
<1> HIDE DEF A
<1>4. unwrap(wrap(x, isn0), isn0, 0) = (0 * Mod + A) % Lim
  BY <1>1, <1>2, ModHalf DEF unwrap, A
<1> QED BY <1>1, <1>3, <1>4, ModHalf

(* unwrap recovers every absolute sequence number that is less than half a
   turn away from the checkpoint (wrapping_integers.cc:24-28). *)
THEOREM UnwrapRoundTrip ==
    ASSUME NEW x \in UInt64, NEW isn0 \in WrappingInt32, NEW cp \in UInt64,
           Distance(x, cp) < Half
    PROVE  unwrap(wrap(x, isn0), isn0, cp) = x
<1> DEFINE A == Offset(wrap(x, isn0), isn0)
           B == cp % Mod
           t == cp \div Mod
           q == x \div Mod
<1>1. x \in Nat /\ cp \in Nat /\ x < Lim /\ Lim \in Nat
  BY WidthAssumption DEF UInt64
<1>2. /\ A \in 0 .. Mod - 1 /\ q \in Int
      /\ x = q * Mod + A
  BY <1>1, WrapOffset, DivModMod
<1>3. B \in 0 .. Mod - 1 /\ t \in Int /\ cp = t * Mod + B
  BY <1>1, DivModMod
<1>4. x % Lim = x
  BY <1>1
<1>5. unwrap(wrap(x, isn0), isn0, cp) =
        IF \/ A <= B /\ (B <= Half \/ A >= B - Half)
           \/ A > B /\ (B >= Half \/ A <= B + Half)
        THEN (t * Mod + A) % Lim
        ELSE IF A <= B
        THEN ((t + 1) * Mod + A) % Lim
        ELSE IF t < 1
        THEN (t * Mod + A) % Lim
        ELSE ((t - 1) * Mod + A) % Lim
  BY DEF unwrap
<1> HIDE DEF A, B, t, q
<1>6. t \in Nat /\ q \in Nat
  BY <1>1, <1>2, <1>3, ModHalf
<1>7. q * Mod + A - (t * Mod + B) < Half /\ t * Mod + B - (q * Mod + A) < Half
  BY <1>1, <1>2, <1>3, ModHalf DEF Distance
<1>8. q = t \/ q = t + 1 \/ q = t - 1
  BY <1>2, <1>3, <1>6, <1>7, ModHalf
<1>9. CASE q = t
  BY <1>2, <1>3, <1>4, <1>5, <1>7, <1>9, ModHalf
<1>10. CASE q = t + 1
  BY <1>2, <1>3, <1>4, <1>5, <1>7, <1>10, ModHalf
<1>11. CASE q = t - 1
  BY <1>2, <1>3, <1>4, <1>5, <1>6, <1>7, <1>11, ModHalf
<1> QED BY <1>8, <1>9, <1>10, <1>11

(* unwrap returns the candidate closest to the checkpoint, for every word size,
   as long as the checkpoint is not in the last turn of the 64-bit range. *)
THEOREM UnwrapIsClosest ==
    ASSUME NEW n \in WrappingInt32, NEW isn0 \in WrappingInt32,
           NEW cp \in 0 .. Lim - Mod - 1
    PROVE  IsClosest(unwrap(n, isn0, cp), n, isn0, cp)
<1> DEFINE A == Offset(n, isn0)
           B == cp % Mod
           t == cp \div Mod
           r == unwrap(n, isn0, cp)
<1>1. /\ cp \in Nat /\ cp < Lim - Mod /\ Lim \in Nat
      /\ A \in 0 .. Mod - 1
  BY WidthAssumption, OffsetValue
<1>2. B \in 0 .. Mod - 1 /\ t \in Int /\ cp = t * Mod + B
  BY <1>1, DivModMod
<1>3. r = IF \/ A <= B /\ (B <= Half \/ A >= B - Half)
             \/ A > B /\ (B >= Half \/ A <= B + Half)
          THEN (t * Mod + A) % Lim
          ELSE IF A <= B
          THEN ((t + 1) * Mod + A) % Lim
          ELSE IF t < 1
          THEN (t * Mod + A) % Lim
          ELSE ((t - 1) * Mod + A) % Lim
  BY DEF unwrap
<1>4. ASSUME NEW x \in UInt64
      PROVE  x \in Nat /\ (wrap(x, isn0) = n => x % Mod = A)
             /\ (x % Mod = A => wrap(x, isn0) = n)
  <2>1. x \in Nat
    BY <1>4, WidthAssumption DEF UInt64
  <2>2. wrap(x, isn0) \in WrappingInt32 /\ Offset(wrap(x, isn0), isn0) = x % Mod
    BY <2>1, WrapOffset
  <2>3. ASSUME Offset(wrap(x, isn0), isn0) = A PROVE wrap(x, isn0) = n
    <3> DEFINE w == wrap(x, isn0)
    <3>1. (IF w >= isn0 THEN w - isn0 ELSE w - isn0 + Mod)
            = (IF n >= isn0 THEN n - isn0 ELSE n - isn0 + Mod)
      BY <2>2, <2>3, OffsetValue
    <3> HIDE DEF w
    <3> QED BY <2>2, <3>1, ModHalf DEF WrappingInt32, w
  <2> QED BY <2>1, <2>2, <2>3
<1> HIDE DEF A, B, t, r
<1>5. t \in Nat /\ (t + 1) * Mod + A < Lim
  <2>1. t \in Nat
    BY <1>1, <1>2, ModHalf
  <2>2. PICK k \in Nat : Lim = k * Mod
    BY WidthAssumption, ModHalf
  <2>3. t + 1 < k
    BY <1>1, <1>2, <2>1, <2>2, ModHalf
  <2> QED BY <1>1, <2>1, <2>2, <2>3, ModHalf
<1>6. PICK q \in Nat :
        /\ r = q * Mod + A
        /\ r \in Nat /\ r < Lim
        /\ \/ q = t /\ (\/ A <= B /\ (B <= Half \/ A >= B - Half)
                        \/ A > B /\ (B >= Half \/ A <= B + Half)
                        \/ A > B /\ t = 0)
           \/ q = t + 1 /\ A <= B /\ B > Half /\ A < B - Half
           \/ q = t - 1 /\ t >= 1 /\ A > B /\ B < Half /\ A > B + Half
  <2> DEFINE inner == \/ A <= B /\ (B <= Half \/ A >= B - Half)
                      \/ A > B /\ (B >= Half \/ A <= B + Half)
  <2>0. ASSUME NEW y \in Nat, y < Lim PROVE y % Lim = y
    BY <1>1, <2>0
  <2>1. CASE inner \/ (A > B /\ t = 0)
    <3>1. t * Mod + A \in Nat /\ t * Mod + A < Lim
      BY <1>1, <1>5, ModHalf
    <3>2. r = t * Mod + A
      BY <1>1, <1>2, <1>3, <1>5, <2>0, <2>1, <3>1
    <3> QED BY <1>5, <2>1, <3>1, <3>2
  <2>2. CASE ~inner /\ A <= B
    <3>1. (t + 1) * Mod + A \in Nat
      BY <1>1, <1>5, ModHalf
    <3>2. r = (t + 1) * Mod + A
      BY <1>3, <1>5, <2>0, <2>2, <3>1
    <3>3. t + 1 \in Nat /\ B > Half /\ A < B - Half
      BY <1>1, <1>2, <1>5, <2>2, ModHalf
    <3> QED BY <1>5, <2>2, <3>1, <3>2, <3>3
  <2>3. CASE ~inner /\ A > B /\ t >= 1
    <3>1. (t - 1) * Mod + A \in Nat /\ (t - 1) * Mod + A < Lim
      BY <1>1, <1>5, <2>3, ModHalf
    <3>2. r = (t - 1) * Mod + A
      BY <1>1, <1>2, <1>3, <1>5, <2>0, <2>3, <3>1
    <3>3. t - 1 \in Nat /\ B < Half /\ A > B + Half
      BY <1>1, <1>2, <1>5, <2>3, ModHalf
    <3> QED BY <2>3, <3>1, <3>2, <3>3
  <2> HIDE DEF inner
  <2> QED BY <1>1, <1>2, <1>5, <2>1, <2>2, <2>3
<1>7. r \in UInt64
  BY <1>1, <1>6 DEF UInt64
<1>8. r % Mod = A
  <2>1. Mod \in Nat \ {0} /\ r \in Int /\ q \in Int
    BY <1>6, ModHalf
  <2> QED BY <1>1, <1>6, <2>1, DivModUnique, Zenon
<1>9. ASSUME NEW x \in UInt64, wrap(x, isn0) = n
      PROVE  Distance(r, cp) <= Distance(x, cp)
  <2> DEFINE p == x \div Mod
  <2>1. x \in Nat /\ p \in Int /\ x = p * Mod + A
    BY <1>4, <1>9, DivModMod
  <2> HIDE DEF p
  <2>2. p \in Nat
    BY <1>1, <2>1, ModHalf
  <2> DEFINE T == t * Mod
             P == p * Mod
  <2>3. T \in Nat /\ P \in Nat /\ (q = t => q * Mod = T)
        /\ (q = t + 1 => q * Mod = T + Mod) /\ (q = t - 1 => q * Mod = T - Mod)
    BY <1>5, <2>2, ModHalf
  <2>4. /\ p >= t + 2 => P >= T + 2 * Mod
        /\ p >= t + 1 => P >= T + Mod
        /\ p >= t => P >= T
        /\ p <= t => P <= T
        /\ p <= t - 1 => P <= T - Mod
        /\ p <= t - 2 => P <= T - 2 * Mod
    BY <1>5, <2>2, ModHalf
  <2>5. /\ p = t + 1 => P = T + Mod
        /\ p = t => P = T
        /\ p = t - 1 => P = T - Mod
    BY <1>5, <2>2, ModHalf
  <2>6. \/ p = t \/ p = t + 1 \/ p = t - 1 \/ p >= t + 2 \/ p <= t - 2
    BY <1>5, <2>2
  <2> HIDE DEF T, P
  <2>7. Distance(q * Mod + A, T + B) <= Distance(P + A, T + B)
    BY <1>1, <1>2, <1>5, <1>6, <2>2, <2>3, <2>4, <2>5, <2>6, ModHalf DEF Distance
  <2> QED BY <1>2, <1>6, <2>1, <2>7 DEF T, P
<1> QED BY <1>4, <1>7, <1>8, <1>9 DEF IsClosest, r
=============================================================================
