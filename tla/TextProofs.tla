----------------------------- MODULE TextProofs -----------------------------
(***************************************************************************)
(* The texts the program formats.                                          *)
(*                                                                         *)
(* Console (DebugFormat): the digits uart_send_uint() collects are, read   *)
(* back, a numeral of the number; a field filled to its width is what      *)
(* IsNumber admits, and IsNumber admits one text; so every item is printed *)
(* as printf() prints it, and the digit buffer is never exceeded.          *)
(*                                                                         *)
(* Commands (AtCommands): where the AP configuration fits its array, every *)
(* command is a line of its own.                                           *)
(*                                                                         *)
(* What a recursive function computes is proved by induction, which is     *)
(* stated about sets of numbers: the library's theorems, which take a      *)
(* predicate as a parameter, are beyond the provers.                       *)
(***************************************************************************)
EXTENDS AtCommands, DebugFormat, FiniteSetTheorems, SequenceTheorems, WellFoundedInduction, TLAPS

-----------------------------------------------------------------------------
(* Induction, with the set of the numbers that have the property in place  *)
(* of the property.                                                        *)

(* A set of natural numbers has a least element.                           *)
LEMMA NatMin ==
  ASSUME NEW T, T \subseteq Nat, T # {}
  PROVE  \E x \in T : \A y \in T : x <= y
<1> DEFINE R == OpToRel(<, Nat)
<1>1. IsWellFoundedOn(R, Nat)
  BY NatLessThanWellFounded
<1>2. PICK x \in T : \A y \in T : ~(<<y, x>> \in R)
  <2> HIDE DEF R
  <2> QED BY <1>1, WFMin
<1>3. \A y \in T : ~(y < x)
  BY <1>2 DEF OpToRel
<1> QED BY <1>3

(* A set that holds a number whenever it holds all smaller ones holds all. *)
LEMMA StrongInduction ==
  ASSUME NEW n \in Nat, NEW S,
         \A k \in 0..n : (\A j \in 0..(k - 1) : j \in S) => k \in S
  PROVE  \A k \in 0..n : k \in S
<1> DEFINE T == {k \in 0..n : k \notin S}
<1> SUFFICES ASSUME T # {} PROVE FALSE
  OBVIOUS
<1>0. T \subseteq Nat
  OBVIOUS
<1>1. PICK x \in T : \A y \in T : x <= y
  <2> HIDE DEF T
  <2> QED BY <1>0, NatMin
<1>2. \A j \in 0..(x - 1) : j \in S
  BY <1>1
<1> QED BY <1>1, <1>2

(* The same for one step at a time.                                        *)
LEMMA StepInduction ==
  ASSUME NEW n \in Nat, NEW S, 0 \in S, \A k \in 1..n : k - 1 \in S => k \in S
  PROVE  \A k \in 0..n : k \in S
<1>1. ASSUME NEW k \in 0..n, \A j \in 0..(k - 1) : j \in S PROVE k \in S
  <2>1. CASE k = 0
    BY <2>1
  <2>2. CASE k \in 1..n
    BY <1>1, <2>2
  <2> QED BY <2>1, <2>2
<1> QED BY <1>1, StrongInduction

-----------------------------------------------------------------------------
(* The two recursive functions of DebugFormat: they exist and satisfy      *)
(* their equations.                                                        *)

(* Every number but 0 is greater than its quotients.                       *)
LEMMA Division ==
  ASSUME NEW base \in {8, 10, 16}, NEW k \in Nat
  PROVE  /\ k \div base \in Nat /\ k % base \in 0..(base - 1)
         /\ k = (k \div base) * base + (k % base)
         /\ k >= base => k \div base \in 1..(k - 1)
<1>1. CASE base = 8
  <2>1. /\ k \div 8 \in Nat /\ k % 8 \in 0..7 /\ k = (k \div 8) * 8 + (k % 8)
        /\ k >= 8 => k \div 8 \in 1..(k - 1)
    OBVIOUS
  <2> QED BY <1>1, <2>1
<1>2. CASE base = 10
  <2>1. /\ k \div 10 \in Nat /\ k % 10 \in 0..9 /\ k = (k \div 10) * 10 + (k % 10)
        /\ k >= 10 => k \div 10 \in 1..(k - 1)
    OBVIOUS
  <2> QED BY <1>2, <2>1
<1>3. CASE base = 16
  <2>1. /\ k \div 16 \in Nat /\ k % 16 \in 0..15 /\ k = (k \div 16) * 16 + (k % 16)
        /\ k >= 16 => k \div 16 \in 1..(k - 1)
    OBVIOUS
  <2> QED BY <1>3, <2>1
<1> QED BY <1>1, <1>2, <1>3

(* PrefixValues(s, base) is the function its definition describes.         *)
LEMMA PrefixValuesEquation ==
  ASSUME NEW s, Len(s) \in Nat, NEW base
  PROVE  PrefixValues(s, base) =
           [k \in 0..Len(s) |-> IF k = 0 THEN 0 ELSE PrefixValues(s, base)[k - 1] * base + s[k]]
<1> DEFINE Good(f, m) == f = [k \in 0..m |-> IF k = 0 THEN 0 ELSE f[k - 1] * base + s[k]]
           S == {m \in 0..Len(s) : \E f : Good(f, m)}
<1>1. 0 \in S
  <2> DEFINE f == [k \in 0..0 |-> 0]
  <2>1. Good(f, 0)
    OBVIOUS
  <2>2. \E h : Good(h, 0)
    BY <2>1, Zenon
  <2> QED BY <2>2
<1>2. ASSUME NEW m \in 1..Len(s), m - 1 \in S PROVE m \in S
  <2>1. PICK g : Good(g, m - 1)
    BY <1>2
  <2> DEFINE f == [k \in 0..m |-> IF k = m THEN g[m - 1] * base + s[m] ELSE g[k]]
  <2>2. ASSUME NEW k \in 0..m PROVE f[k] = IF k = 0 THEN 0 ELSE f[k - 1] * base + s[k]
    <3>1. CASE k = m
      BY <3>1
    <3>2. CASE k \in 0..(m - 1)
      BY <2>1, <3>2
    <3> QED BY <3>1, <3>2
  <2>3. Good(f, m)
    BY <2>2, Zenon
  <2>4. \E h : Good(h, m)
    BY <2>3, Zenon
  <2> QED BY <2>4
<1> HIDE DEF S
<1>3. Len(s) \in S
  <2>1. \A k \in 1..Len(s) : k - 1 \in S => k \in S
    BY <1>2
  <2>2. \A k \in 0..Len(s) : k \in S
    BY <1>1, <2>1, StepInduction, Zenon
  <2> QED BY <2>2
<1>4. \E f : Good(f, Len(s))
  BY <1>3 DEF S
<1> QED BY <1>4, Zenon DEF PrefixValues

(* Numerals(n, base) is the function its definition describes.             *)
LEMMA NumeralsEquation ==
  ASSUME NEW n \in Nat, NEW base \in {8, 10, 16}
  PROVE  Numerals(n, base) =
           [k \in 0..n |-> IF k < base THEN <<k>> ELSE Append(Numerals(n, base)[k \div base], k % base)]
<1> DEFINE Good(f, m) == f = [k \in 0..m |-> IF k < base THEN <<k>> ELSE Append(f[k \div base], k % base)]
           S == {m \in 0..n : \E f : Good(f, m)}
<1>1. 0 \in S
  <2> DEFINE f == [k \in 0..0 |-> <<k>>]
  <2>1. ASSUME NEW k \in 0..0 PROVE f[k] = IF k < base THEN <<k>> ELSE Append(f[k \div base], k % base)
    OBVIOUS
  <2>2. Good(f, 0)
    BY <2>1, Zenon
  <2>3. \E h : Good(h, 0)
    BY <2>2, Zenon
  <2> QED BY <2>3
<1>2. ASSUME NEW m \in 1..n, m - 1 \in S PROVE m \in S
  <2>1. PICK g : Good(g, m - 1)
    BY <1>2
  <2> DEFINE f == [k \in 0..m |-> IF k = m
                                  THEN IF m < base THEN <<m>> ELSE Append(g[m \div base], m % base)
                                  ELSE g[k]]
  <2>2. ASSUME NEW k \in 0..m PROVE f[k] = IF k < base THEN <<k>> ELSE Append(f[k \div base], k % base)
    <3>1. k >= base => k \div base \in 1..(k - 1)
      BY Division
    <3>2. k >= base => f[k \div base] = g[k \div base]
      BY <3>1
    <3>3. CASE k = m
      BY <3>2, <3>3
    <3>4. CASE k \in 0..(m - 1)
      <4>1. g[k] = IF k < base THEN <<k>> ELSE Append(g[k \div base], k % base)
        BY <2>1, <3>4
      <4>2. f[k] = g[k]
        BY <3>4
      <4> QED BY <3>2, <4>1, <4>2
    <3> QED BY <3>3, <3>4
  <2>3. Good(f, m)
    BY <2>2, Zenon
  <2>4. \E h : Good(h, m)
    BY <2>3, Zenon
  <2>5. m \in 0..n
    OBVIOUS
  <2> QED BY <2>4, <2>5, Zenon
<1> HIDE DEF S
<1>3. n \in S
  <2>1. \A k \in 1..n : k - 1 \in S => k \in S
    BY <1>2
  <2>2. \A k \in 0..n : k \in S
    BY <1>1, <2>1, StepInduction, Zenon
  <2> QED BY <2>2
<1>4. \E f : Good(f, n)
  BY <1>3 DEF S
<1> QED BY <1>4, Zenon DEF Numerals

-----------------------------------------------------------------------------
(* What a text of digits stands for.                                       *)

Value(s, base) == PrefixValues(s, base)[Len(s)]

(* The equation, for each prefix.                                          *)
LEMMA PrefixValuesStep ==
  ASSUME NEW s \in Seq(Nat), NEW base \in Nat
  PROVE  /\ PrefixValues(s, base)[0] = 0
         /\ \A k \in 1..Len(s) : PrefixValues(s, base)[k] = PrefixValues(s, base)[k - 1] * base + s[k]
         /\ \A k \in 0..Len(s) : PrefixValues(s, base)[k] \in Nat
<1> DEFINE v == PrefixValues(s, base)
<1>1. v = [k \in 0..Len(s) |-> IF k = 0 THEN 0 ELSE v[k - 1] * base + s[k]]
  BY PrefixValuesEquation
<1> HIDE DEF v
<1>2. v[0] = 0
  BY <1>1
<1>3. \A k \in 1..Len(s) : v[k] = v[k - 1] * base + s[k]
  BY <1>1
<1>4. \A k \in 0..Len(s) : v[k] \in Nat
  <2> DEFINE S == {k \in 0..Len(s) : v[k] \in Nat}
  <2>1. 0 \in S
    BY <1>2
  <2>2. ASSUME NEW k \in 1..Len(s), k - 1 \in S PROVE k \in S
    <3>1. v[k - 1] \in Nat /\ s[k] \in Nat
      BY <2>2
    <3> DEFINE w == v[k - 1] * base
    <3>2. w \in Nat
      BY <3>1
    <3>3. v[k] = w + s[k]
      BY <1>3, Zenon
    <3> HIDE DEF w
    <3>4. v[k] \in Nat
      BY <3>1, <3>2, <3>3
    <3>5. k \in 0..Len(s)
      OBVIOUS
    <3> QED BY <3>4, <3>5, Zenon
  <2>3. \A k \in 0..Len(s) : k \in S
    <3>1. Len(s) \in Nat
      OBVIOUS
    <3> HIDE DEF S
    <3> QED BY <2>1, <2>2, <3>1, StepInduction, Zenon
  <2> QED BY <2>3
<1> QED BY <1>2, <1>3, <1>4 DEF v

(* A digit added at the end.                                               *)
LEMMA ValueAppend ==
  ASSUME NEW s \in Seq(Nat), NEW d \in Nat, NEW base \in Nat
  PROVE  Value(Append(s, d), base) = Value(s, base) * base + d
<1> DEFINE t == Append(s, d)
           v == PrefixValues(s, base)
           w == PrefixValues(t, base)
           S == {k \in 0..Len(s) : w[k] = v[k]}
<1>1. t \in Seq(Nat) /\ Len(t) = Len(s) + 1 /\ t[Len(s) + 1] = d /\ \A k \in 1..Len(s) : t[k] = s[k]
  OBVIOUS
<1>2. /\ v[0] = 0 /\ w[0] = 0
      /\ \A k \in 1..Len(s) : v[k] = v[k - 1] * base + s[k]
      /\ \A k \in 1..(Len(s) + 1) : w[k] = w[k - 1] * base + t[k]
  <2> HIDE DEF t
  <2> QED BY <1>1, PrefixValuesStep
<1> HIDE DEF t, v, w
<1>3. 0 \in S
  BY <1>2
<1>4. \A k \in 1..Len(s) : k - 1 \in S => k \in S
  BY <1>1, <1>2
<1>5. \A k \in 0..Len(s) : k \in S
  <2>1. Len(s) \in Nat
    OBVIOUS
  <2> HIDE DEF S
  <2> QED BY <1>3, <1>4, <2>1, StepInduction, Zenon
<1>6. w[Len(s)] = v[Len(s)]
  BY <1>5
<1>7. w[Len(s) + 1] = v[Len(s)] * base + d
  BY <1>1, <1>2, <1>6
<1> QED BY <1>1, <1>7 DEF Value, t, v, w

(* Zeros in front change nothing.                                          *)
LEMMA ValueZeros ==
  ASSUME NEW z \in Seq({0}), NEW s \in Seq(Nat), NEW base \in Nat
  PROVE  Value(z \o s, base) = Value(s, base)
<1> DEFINE t == z \o s
           v == PrefixValues(s, base)
           w == PrefixValues(t, base)
           Z == {k \in 0..Len(z) : w[k] = 0}
           S == {k \in 0..Len(s) : w[Len(z) + k] = v[k]}
<1>1. /\ t \in Seq(Nat) /\ Len(t) = Len(z) + Len(s)
      /\ \A k \in 1..Len(z) : t[k] = 0
      /\ \A k \in 1..Len(s) : t[Len(z) + k] = s[k]
  OBVIOUS
<1>2. /\ v[0] = 0 /\ w[0] = 0
      /\ \A k \in 1..Len(s) : v[k] = v[k - 1] * base + s[k]
      /\ \A k \in 1..Len(t) : w[k] = w[k - 1] * base + t[k]
  <2> HIDE DEF t
  <2> QED BY <1>1, PrefixValuesStep
<1>0. Len(z) \in Nat /\ Len(s) \in Nat
  OBVIOUS
<1> HIDE DEF t, v, w
<1>3. 0 \in Z
  BY <1>2
<1>4. \A k \in 1..Len(z) : k - 1 \in Z => k \in Z
  BY <1>0, <1>1, <1>2
<1>5. \A k \in 0..Len(z) : k \in Z
  <2> HIDE DEF Z
  <2> QED BY <1>0, <1>3, <1>4, StepInduction, Zenon
<1>6. 0 \in S
  BY <1>0, <1>2, <1>5
<1>7. ASSUME NEW k \in 1..Len(s), k - 1 \in S PROVE k \in S
  <2> DEFINE m == Len(z) + k
  <2>1. m \in 1..Len(t) /\ m - 1 = Len(z) + (k - 1)
    BY <1>0, <1>1
  <2>2. w[m] = w[m - 1] * base + t[m]
    BY <1>2, <2>1
  <2>3. w[m - 1] = v[k - 1] /\ t[m] = s[k]
    BY <1>1, <1>7, <2>1
  <2>4. v[k] = v[k - 1] * base + s[k]
    BY <1>2
  <2> QED BY <2>2, <2>3, <2>4
<1>8. \A k \in 0..Len(s) : k \in S
  <2> HIDE DEF S
  <2> QED BY <1>0, <1>6, <1>7, StepInduction, Zenon
<1>9. w[Len(z) + Len(s)] = v[Len(s)]
  BY <1>0, <1>8
<1> QED BY <1>1, <1>9 DEF Value, t, v, w

(* d is what one writes for the number k: its digits, none too many.       *)
Writes(d, k, base) ==
  /\ d \in Seq(0..(base - 1)) /\ Len(d) >= 1
  /\ Value(d, base) = k
  /\ Len(d) > 1 \/ k > 0 => d[1] # 0

(* A number less than the base is its own digit.                           *)
LEMMA WritesDigit ==
  ASSUME NEW base \in {8, 10, 16}, NEW k \in 0..(base - 1)
  PROVE  Writes(<<k>>, k, base)
<1>1. base \in Nat /\ k \in Nat
  OBVIOUS
<1>2. Value(<< >>, base) = 0
  <2>1. << >> \in Seq(Nat) /\ Len(<< >>) = 0
    OBVIOUS
  <2> QED BY <1>1, <2>1, PrefixValuesStep DEF Value
<1>3. Value(Append(<< >>, k), base) = 0 * base + k
  <2>1. << >> \in Seq(Nat)
    OBVIOUS
  <2> QED BY <1>1, <1>2, <2>1, ValueAppend
<1>4. Append(<< >>, k) = <<k>> /\ 0 * base + k = k
  BY <1>1
<1>5. Value(<<k>>, base) = k
  BY <1>3, <1>4
<1> QED BY <1>5 DEF Writes

(* The quotient's digits and the remainder are the number's digits.        *)
LEMMA WritesAppend ==
  ASSUME NEW base \in {8, 10, 16}, NEW k \in Nat, k >= base,
         NEW d, Writes(d, k \div base, base)
  PROVE  Writes(Append(d, k % base), k, base)
<1> DEFINE q == k \div base
           e == k % base
<1>1. q \in Nat /\ q > 0 /\ e \in 0..(base - 1) /\ k = q * base + e
  BY Division
<1>0. Writes(d, q, base)
  OBVIOUS
<1> HIDE DEF q, e
<1>2. d \in Seq(0..(base - 1)) /\ Len(d) >= 1 /\ Value(d, base) = q /\ d[1] # 0
  BY <1>0, <1>1 DEF Writes
<1>3. Value(Append(d, e), base) = q * base + e
  <2>1. d \in Seq(Nat) /\ e \in Nat /\ base \in Nat
    BY <1>1, <1>2
  <2> QED BY <1>2, <2>1, ValueAppend
<1>4. Append(d, e) \in Seq(0..(base - 1)) /\ Len(Append(d, e)) >= 1 /\ Append(d, e)[1] # 0
  BY <1>1, <1>2
<1>5. Writes(Append(d, e), k, base)
  BY <1>1, <1>3, <1>4 DEF Writes
<1> QED BY <1>5 DEF e

(* Numerals writes every number.                                           *)
LEMMA NumeralsWrite ==
  ASSUME NEW n \in Nat, NEW base \in {8, 10, 16}
  PROVE  \A k \in 0..n : Writes(Numerals(n, base)[k], k, base)
<1> DEFINE f == Numerals(n, base)
           S == {k \in 0..n : Writes(f[k], k, base)}
<1>1. f = [k \in 0..n |-> IF k < base THEN <<k>> ELSE Append(f[k \div base], k % base)]
  BY NumeralsEquation
<1> HIDE DEF f
<1>2. ASSUME NEW k \in 0..n, \A j \in 0..(k - 1) : j \in S PROVE k \in S
  <2>1. CASE k < base
    <3>1. f[k] = <<k>> /\ k \in 0..(base - 1)
      BY <1>1, <2>1
    <3> QED BY <3>1, WritesDigit
  <2>2. CASE k >= base
    <3>1. f[k] = Append(f[k \div base], k % base)
      <4>1. ~(k < base)
        BY <2>2
      <4>2. f[k] = IF k < base THEN <<k>> ELSE Append(f[k \div base], k % base)
        BY <1>1, Zenon
      <4> QED BY <4>1, <4>2, Zenon
    <3>2. k \div base \in 0..(k - 1)
      BY <2>2, Division
    <3>3. Writes(f[k \div base], k \div base, base)
      BY <1>2, <3>2
    <3>4. Writes(Append(f[k \div base], k % base), k, base)
      BY <2>2, <3>3, WritesAppend
    <3> QED BY <3>1, <3>4
  <2> QED BY <2>1, <2>2
<1>3. \A k \in 0..n : k \in S
  <2> HIDE DEF S
  <2> QED BY <1>2, StrongInduction, Zenon
<1> QED BY <1>3 DEF f

(* So does Numeral.                                                        *)
LEMMA NumeralWrites ==
  ASSUME NEW n \in Nat, NEW base \in {8, 10, 16}
  PROVE  Writes(Numeral(n, base), n, base)
<1>1. n \in 0..n
  OBVIOUS
<1> QED BY <1>1, NumeralsWrite DEF Numeral

-----------------------------------------------------------------------------
(* A number filled up to its width.                                        *)

(* Padding() is a sequence of blanks, or of zeros, of the missing length.  *)
LEMMA PaddingFacts ==
  ASSUME NEW len \in Nat, NEW width \in Nat, NEW zero_pad \in BOOLEAN
  PROVE  LET pad == Padding(len, width, zero_pad)
         IN  /\ pad \in Seq({0, Blank})
             /\ Len(pad) = IF len < width THEN width - len ELSE 0
             /\ \A k \in 1..Len(pad) : pad[k] = IF zero_pad THEN 0 ELSE Blank
<1> DEFINE m == IF len < width THEN width - len ELSE 0
           c == IF zero_pad THEN 0 ELSE Blank
<1>1. m \in Nat /\ 1..(width - len) = 1..m
  OBVIOUS
<1>2. Padding(len, width, zero_pad) = [k \in 1..m |-> c]
  BY <1>1 DEF Padding
<1>3. c \in {0, Blank}
  BY Zenon
<1> HIDE DEF c, m
<1>4. /\ [k \in 1..m |-> c] \in Seq({0, Blank}) /\ Len([k \in 1..m |-> c]) = m
      /\ \A k \in 1..m : [i \in 1..m |-> c][k] = c
  BY <1>1, <1>3
<1> QED BY <1>2, <1>4 DEF c, m

(* Digits filled with zeros are a numeral of the same number.              *)
LEMMA ZerosThenDigits ==
  ASSUME NEW base \in {8, 10, 16}, NEW n \in Nat, NEW d, Writes(d, n, base), NEW z \in Seq({0})
  PROVE  IsNumeral(z \o d, n, base)
<1>1. d \in Seq(0..(base - 1)) /\ Len(d) >= 1 /\ Value(d, base) = n
  BY DEF Writes
<1>2. d \in Seq(Nat) /\ base \in Nat /\ 0 \in 0..(base - 1)
  BY <1>1
<1>3. Value(z \o d, base) = n
  BY <1>1, <1>2, ValueZeros
<1>4. Len(z \o d) >= 1 /\ \A k \in 1..Len(z \o d) : (z \o d)[k] \in 0..(base - 1)
  BY <1>1, <1>2
<1> QED BY <1>3, <1>4 DEF IsNumeral, Value

(* A number without sign, filled on the left.                              *)
LEMMA UnsignedIsNumber ==
  ASSUME NEW base \in {8, 10, 16}, NEW n \in Nat, NEW item \in Items
  PROVE  IsNumber(uart_send_uint(n, base, item.width, item.zero_pad), FALSE, n, base, item)
<1> DEFINE d == Numeral(n, base)
           pad == Padding(Len(d), item.width, item.zero_pad)
           s == pad \o d
<1>1. Writes(d, n, base)
  BY NumeralWrites
<1>2. item.width \in Nat /\ item.zero_pad \in BOOLEAN
  BY FormatAssumption, Zenon DEF Items
<1> HIDE DEF d
<1>3. d \in Seq(Int) /\ Len(d) \in Nat /\ Len(d) >= 1 /\ (Len(d) > 1 => d[1] # 0)
  BY <1>1 DEF Writes
<1>4. /\ pad \in Seq({0, Blank})
      /\ Len(pad) = IF Len(d) < item.width THEN item.width - Len(d) ELSE 0
      /\ \A k \in 1..Len(pad) : pad[k] = IF item.zero_pad THEN 0 ELSE Blank
  BY <1>2, <1>3, PaddingFacts
<1> HIDE DEF pad
<1>5. /\ s \in Seq(Int) /\ Len(s) = Len(pad) + Len(d) /\ Len(s) >= 1
      /\ Len(s) >= item.width /\ (Len(pad) > 0 => Len(s) = item.width)
      /\ \A k \in 1..Len(pad) : s[k] = pad[k]
  <2>1. pad \in Seq(Int) /\ Len(pad) \in Nat
    BY <1>4 DEF Blank
  <2>2. s \in Seq(Int) /\ Len(s) = Len(pad) + Len(d) /\ \A k \in 1..Len(pad) : s[k] = pad[k]
    BY <1>3, <2>1
  <2> HIDE DEF s
  <2> DEFINE w == item.width
             ls == Len(s)
             lp == Len(pad)
             ld == Len(d)
  <2>3. /\ w \in Nat /\ lp \in Nat /\ ld \in Nat /\ ld >= 1 /\ ls = lp + ld
        /\ lp = IF ld < w THEN w - ld ELSE 0
    BY <1>2, <1>3, <1>4, <2>1, <2>2, Zenon
  <2> HIDE DEF w, ls, lp, ld
  <2>4. ls >= 1 /\ ls >= w /\ (lp > 0 => ls = w)
    BY <2>3
  <2> QED BY <2>2, <2>4, Zenon DEF w, ls, lp
<1>6. CASE item.zero_pad
  <2>1. pad \in Seq({0})
    BY <1>4, <1>6
  <2>2. IsNumeral(s, n, base)
    BY <1>1, <2>1, ZerosThenDigits
  <2>3. SubSeq(s, 0 + 1, Len(s)) = s
    BY <1>5
  <2>4. s[1] = 0 /\ Len(s) > 1 => Len(s) = item.width
    <3>1. CASE Len(pad) > 0
      BY <1>5, <3>1
    <3>2. CASE Len(pad) = 0
      <4>1. s = d
        BY <1>3, <1>4, <3>2
      <4> QED BY <1>3, <4>1
    <3> QED BY <1>4, <3>1, <3>2
  <2>5. 0 \in 0..(Len(s) - 1)
    BY <1>5
  <2> HIDE DEF s
  <2>6. IsNumber(s, FALSE, n, base, item)
    <3> SUFFICES \E b \in 0..(Len(s) - 1) :
                   LET body   == SubSeq(s, b + 1, Len(s))
                       filled == IF item.zero_pad THEN body[1] = 0 /\ Len(body) > 1 ELSE b > 0
                   IN  /\ \A k \in 1..b : s[k] = Blank
                       /\ IsNumeral(body, n, base)
                       /\ item.zero_pad => b = 0
                       /\ Len(body) > 1 /\ body[1] = 0 => item.zero_pad
                       /\ Len(s) >= item.width /\ (filled => Len(s) = item.width)
      BY Zenon DEF IsNumber
    <3> WITNESS 0 \in 0..(Len(s) - 1)
    <3>1. (\A k \in 1..0 : s[k] = Blank) /\ Len(s) >= item.width
      BY <1>5
    <3> QED BY <1>6, <2>2, <2>3, <2>4, <3>1, Zenon
  <2> QED BY <2>6 DEF s, pad, d, uart_send_uint
<1>7. CASE ~item.zero_pad
  <2>1. SubSeq(s, Len(pad) + 1, Len(s)) = d
    <3>1. pad \in Seq(Int) /\ Len(pad) \in Nat
      BY <1>4 DEF Blank
    <3> QED BY <1>3, <1>5, <3>1
  <2>2. IsNumeral(d, n, base)
    <3>1. << >> \in Seq({0}) /\ << >> \o d = d
      BY <1>3
    <3>2. IsNumeral(<< >> \o d, n, base)
      BY <1>1, <3>1, ZerosThenDigits
    <3> QED BY <3>1, <3>2
  <2>3. Len(pad) \in 0..(Len(s) - 1)
    BY <1>3, <1>4, <1>5
  <2>4. \A k \in 1..Len(pad) : s[k] = Blank
    BY <1>4, <1>5, <1>7
  <2> HIDE DEF s
  <2>5. IsNumber(s, FALSE, n, base, item)
    BY <1>3, <1>5, <1>7, <2>1, <2>2, <2>3, <2>4 DEF IsNumber
  <2> QED BY <2>5 DEF s, pad, d, uart_send_uint
<1> QED BY <1>6, <1>7

(* One character in front of a text.                                       *)
LEMMA OneInFront ==
  ASSUME NEW x \in Int, NEW d \in Seq(Int)
  PROVE  /\ <<x>> \o d \in Seq(Int) /\ Len(<<x>> \o d) = Len(d) + 1
         /\ Head(<<x>> \o d) = x /\ Tail(<<x>> \o d) = d
OBVIOUS

(* What follows the first part of a text.                                  *)
LEMMA PartsOfText ==
  ASSUME NEW p \in Seq(Int), NEW q \in Seq(Int)
  PROVE  /\ p \o q \in Seq(Int) /\ Len(p \o q) = Len(p) + Len(q)
         /\ \A k \in 1..Len(p) : (p \o q)[k] = p[k]
         /\ SubSeq(p \o q, Len(p) + 1, Len(p \o q)) = q
OBVIOUS

(* A negative number, filled with blanks in front of its sign.             *)
LEMMA NegativeIsNumber ==
  ASSUME NEW v \in Int, v < 0, NEW item \in Items, ~item.zero_pad
  PROVE  IsNumber(uart_send_int(v, item.width, item.zero_pad), TRUE, -v, 10, item)
<1> DEFINE w == item.width
           d == Numeral(-v, 10)
           text == <<Minus>> \o d
           pad == Padding(Len(text), w, FALSE)
           s == pad \o text
<1>1. -v \in Nat /\ 10 \in {8, 10, 16}
  OBVIOUS
<1>2. Writes(d, -v, 10)
  BY <1>1, NumeralWrites
<1>3. w \in Nat /\ item.zero_pad = FALSE
  BY FormatAssumption, Zenon DEF Items
<1> HIDE DEF d, w
<1>4. d \in Seq(Int) /\ Len(d) \in Nat /\ Len(d) >= 1 /\ (Len(d) > 1 => d[1] # 0)
  BY <1>2 DEF Writes
<1>5. text \in Seq(Int) /\ Len(text) = Len(d) + 1 /\ Head(text) = Minus /\ Tail(text) = d
  <2>1. Minus \in Int
    BY DEF Minus
  <2> QED BY <1>4, <2>1, OneInFront
<1> HIDE DEF text
<1>6. /\ pad \in Seq({0, Blank})
      /\ Len(pad) = IF Len(text) < w THEN w - Len(text) ELSE 0
      /\ \A k \in 1..Len(pad) : pad[k] = Blank
  <2>1. Len(text) \in Nat /\ FALSE \in BOOLEAN
    BY <1>5
  <2> HIDE DEF pad
  <2>2. pad = Padding(Len(text), w, FALSE)
    BY DEF pad
  <2>3. /\ pad \in Seq({0, Blank})
        /\ Len(pad) = IF Len(text) < w THEN w - Len(text) ELSE 0
        /\ \A k \in 1..Len(pad) : pad[k] = IF FALSE THEN 0 ELSE Blank
    BY <1>3, <2>1, <2>2, PaddingFacts, Zenon
  <2> QED BY <2>3
<1> HIDE DEF pad
<1>7. pad \in Seq(Int) /\ Len(pad) \in Nat
  BY <1>6 DEF Blank
<1>8. /\ s \in Seq(Int) /\ Len(s) = Len(pad) + Len(text)
      /\ \A k \in 1..Len(pad) : s[k] = pad[k]
      /\ SubSeq(s, Len(pad) + 1, Len(s)) = text
  BY <1>5, <1>7, PartsOfText
<1>9. IsNumeral(d, -v, 10)
  <2>1. << >> \in Seq({0}) /\ << >> \o d = d
    BY <1>4
  <2>2. IsNumeral(<< >> \o d, -v, 10)
    BY <1>1, <1>2, <2>1, ZerosThenDigits
  <2> QED BY <2>1, <2>2
<1> HIDE DEF s
<1>10. /\ Len(pad) \in 0..(Len(s) - 1)
       /\ \A k \in 1..Len(pad) : s[k] = Blank
       /\ Len(s) >= w /\ (Len(pad) > 0 => Len(s) = w)
       /\ ~(Len(d) > 1 /\ d[1] = 0)
  <2>1. \A k \in 1..Len(pad) : s[k] = Blank
    BY <1>6, <1>8
  <2>2. Len(text) \in Nat /\ Len(text) >= 1
    BY <1>4, <1>5
  <2> QED BY <1>3, <1>4, <1>6, <1>7, <1>8, <2>1, <2>2
<1>11. IsNumber(s, TRUE, -v, 10, item)
  BY <1>5, <1>8, <1>9, <1>10 DEF IsNumber, w
<1>12. s = uart_send_int(v, item.width, item.zero_pad)
  BY <1>3 DEF s, pad, text, d, w, uart_send_int
<1> QED BY <1>11, <1>12

(* %d, but for a negative number in a field filled with zeros.             *)
LEMMA SignedIsNumber ==
  ASSUME NEW v \in Int, NEW item \in Items, ~(item.zero_pad /\ v < 0)
  PROVE  IsNumber(uart_send_int(v, item.width, item.zero_pad), v < 0, IF v < 0 THEN -v ELSE v, 10, item)
<1>1. CASE v < 0
  <2>1. (v < 0) = TRUE /\ ~item.zero_pad
    BY <1>1
  <2> QED BY <2>1, NegativeIsNumber
<1>2. CASE ~(v < 0)
  <2>1. v \in Nat /\ 10 \in {8, 10, 16} /\ (v < 0) = FALSE
    BY <1>2
  <2>2. Numeral(v, 10) \in Seq(Int)
    <3>1. Writes(Numeral(v, 10), v, 10)
      BY <2>1, NumeralWrites
    <3>2. Numeral(v, 10) \in Seq(0..(10 - 1))
      BY <3>1, Zenon DEF Writes
    <3> QED BY <3>2
  <2>3. << >> \o Numeral(v, 10) = Numeral(v, 10)
    BY <2>2
  <2>4. uart_send_int(v, item.width, item.zero_pad) = uart_send_uint(v, 10, item.width, item.zero_pad)
    BY <1>2, <2>3, Zenon DEF uart_send_int, uart_send_uint
  <2>5. IsNumber(uart_send_uint(v, 10, item.width, item.zero_pad), FALSE, v, 10, item)
    BY <2>1, UnsignedIsNumber
  <2> QED BY <1>2, <2>1, <2>4, <2>5, Zenon
<1> QED BY <1>1, <1>2

(* A word taken as unsigned is a natural number.                           *)
LEMMA UnsignedNat == ASSUME NEW v \in Int PROVE Unsigned(v) \in Nat
<1> DEFINE m == 2^WordBits
<1>1. m \in Nat \ {0}
  BY FormatAssumption
<1> HIDE DEF m
<1>2. v % m \in Nat
  BY <1>1
<1> QED BY <1>2 DEF Unsigned, m

(* %p: the prefix, and a hexadecimal numeral filled with zeros.            *)
LEMMA PointerIsNumeral ==
  ASSUME NEW n \in Nat
  PROVE  LET s == <<Prefix0x>> \o uart_send_uint(n, 16, WordBits \div 4, TRUE)
         IN  Head(s) = Prefix0x /\ IsNumeral(Tail(s), n, 16)
<1> DEFINE d == Numeral(n, 16)
           pad == Padding(Len(d), WordBits \div 4, TRUE)
<1>1. Writes(d, n, 16)
  BY NumeralWrites
<1>2. WordBits \div 4 \in Nat
  BY FormatAssumption
<1> HIDE DEF d
<1>3. d \in Seq(Int) /\ Len(d) \in Nat
  BY <1>1 DEF Writes
<1>4. pad \in Seq({0, Blank}) /\ \A k \in 1..Len(pad) : pad[k] = 0
  <2>1. TRUE \in BOOLEAN
    OBVIOUS
  <2> QED BY <1>2, <1>3, <2>1, PaddingFacts
<1> HIDE DEF pad
<1>5. pad \in Seq({0})
  BY <1>4
<1>6. IsNumeral(pad \o d, n, 16)
  BY <1>1, <1>5, ZerosThenDigits
<1>7. uart_send_uint(n, 16, WordBits \div 4, TRUE) = pad \o d
  BY DEF uart_send_uint, pad, d
<1>8. pad \o d \in Seq(Int)
  BY <1>3, <1>5
<1> DEFINE u == pad \o d
<1> HIDE DEF u
<1>9. u \in Seq(Int)
  BY <1>8 DEF u
<1>10. Head(<<Prefix0x>> \o u) = Prefix0x /\ Tail(<<Prefix0x>> \o u) = u
  BY <1>9 DEF Prefix0x
<1> QED BY <1>6, <1>7, <1>10, Zenon DEF u

(* Each conversion prints its argument as printf() does.                   *)
LEMMA ConversionIsPrintf ==
  ASSUME NEW item \in Items, NEW v \in Int,
         ~(item.conv = "d" /\ item.zero_pad /\ v < 0)
  PROVE  IsPrintf(Conversion(item, v), item, v)
<1>0. item.conv \in Conversions /\ Unsigned(v) \in Nat
  BY UnsignedNat DEF Items
<1>1. CASE item.conv = "d"
  <2>1. Conversion(item, v) = uart_send_int(v, item.width, item.zero_pad)
    BY <1>1 DEF Conversion
  <2>2. ~(item.zero_pad /\ v < 0)
    BY <1>1, Zenon
  <2>3. IsNumber(Conversion(item, v), v < 0, IF v < 0 THEN -v ELSE v, 10, item)
    BY <2>1, <2>2, SignedIsNumber, Zenon
  <2> QED BY <1>1, <2>3 DEF IsPrintf
<1>2. CASE item.conv \in {"u", "x", "o"}
  <2>1. Base[item.conv] \in {8, 10, 16}
    BY <1>2 DEF Base
  <2>2. Conversion(item, v) = uart_send_uint(Unsigned(v), Base[item.conv], item.width, item.zero_pad)
    BY <1>2 DEF Conversion
  <2>3. IsNumber(Conversion(item, v), FALSE, Unsigned(v), Base[item.conv], item)
    BY <1>0, <2>1, <2>2, UnsignedIsNumber, Zenon
  <2> QED BY <1>2, <2>3 DEF IsPrintf
<1>3. CASE item.conv = "p"
  <2>1. Conversion(item, v) = <<Prefix0x>> \o uart_send_uint(Unsigned(v), 16, WordBits \div 4, TRUE)
    BY <1>3 DEF Conversion
  <2>2. Head(Conversion(item, v)) = Prefix0x /\ IsNumeral(Tail(Conversion(item, v)), Unsigned(v), 16)
    BY <1>0, <2>1, PointerIsNumeral, Zenon
  <2> QED BY <1>3, <2>2 DEF IsPrintf
<1>4. CASE item.conv = "s"
  BY <1>4 DEF Conversion, IsPrintf, uart_send_string
<1>5. CASE item.conv = "c"
  BY <1>5 DEF Conversion, IsPrintf
<1>6. CASE item.conv = "%"
  BY <1>6 DEF Conversion, IsPrintf
<1>7. CASE item.conv = "other"
  BY <1>7 DEF Conversion, IsPrintf
<1> QED BY <1>0, <1>1, <1>2, <1>3, <1>4, <1>5, <1>6, <1>7 DEF Conversions

-----------------------------------------------------------------------------
(* The items of a format up to the n-th that take an argument.             *)
Taking(n) == {j \in 1..n : format[j].conv \notin {"%", "other"}}

(* va_arg() has handed out as many arguments as the items done take, so    *)
(* that the next item gets its own.                                        *)
FormatInv ==
  /\ format \in [1..MaxItems -> Items] /\ args \in [1..MaxItems -> Values]
  /\ \E Texts : out \in Seq(Texts)
  /\ Len(out) <= MaxItems
  /\ taken = Cardinality(Taking(Len(out)))
  /\ PrintsAsPrintf

(* One item more takes one argument more, or none.                         *)
LEMMA TakingStep ==
  ASSUME NEW n \in Nat
  PROVE  /\ Cardinality(Taking(n)) \in 0..n
         /\ Cardinality(Taking(n + 1)) =
              Cardinality(Taking(n)) + IF TakesArgument(format[n + 1].conv) THEN 1 ELSE 0
<1>1. IsFiniteSet(1..n) /\ Cardinality(1..n) = n
  <2>1. 1 \in Int /\ n \in Int
    OBVIOUS
  <2> QED BY <2>1, FS_Interval
<1>2. Taking(n) \subseteq 1..n
  BY DEF Taking
<1>3. IsFiniteSet(Taking(n)) /\ Cardinality(Taking(n)) \in Nat /\ Cardinality(Taking(n)) <= n
  BY <1>1, <1>2, FS_Subset, FS_CardinalityType
<1>4. CASE TakesArgument(format[n + 1].conv)
  <2>1. Taking(n + 1) = Taking(n) \cup {n + 1} /\ n + 1 \notin Taking(n)
    BY <1>4 DEF Taking, TakesArgument
  <2> QED BY <1>3, <1>4, <2>1, FS_AddElement
<1>5. CASE ~TakesArgument(format[n + 1].conv)
  <2>1. Taking(n + 1) = Taking(n)
    BY <1>5 DEF Taking, TakesArgument
  <2> QED BY <1>3, <1>5, <2>1
<1> QED BY <1>4, <1>5

(* No item has been printed.                                               *)
LEMMA FormatInitInv == Init => FormatInv
<1> SUFFICES ASSUME Init PROVE FormatInv
  OBVIOUS
<1>1. out \in Seq(Int) /\ Len(out) = 0
  BY DEF Init
<1>2. Taking(0) = {}
  BY DEF Taking
<1>3. taken = Cardinality(Taking(Len(out)))
  BY <1>1, <1>2, FS_EmptySet DEF Init
<1> QED BY <1>1, <1>3, FormatAssumption DEF Init, FormatInv, PrintsAsPrintf

(* The next item is printed from its own argument.                         *)
LEMMA FormatStepInv == FormatInv /\ [Next]_vars => FormatInv'
<1> SUFFICES ASSUME FormatInv, [Next]_vars PROVE FormatInv'
  OBVIOUS
<1>1. CASE UNCHANGED vars
  BY <1>1 DEF vars, FormatInv, Taking, PrintsAsPrintf, ArgumentOf
<1>2. CASE debug_write
  <2>0. PICK n : n = Len(out)
    OBVIOUS
  <2>1. PICK Texts : out \in Seq(Texts)
    BY DEF FormatInv
  <2>2. n \in Nat /\ n < MaxItems /\ n + 1 \in 1..MaxItems
    <3>1. Len(out) < Len(format) /\ Len(format) = MaxItems
      BY <1>2, FormatAssumption DEF debug_write, FormatInv
    <3> QED BY <2>0, <2>1, <3>1, FormatAssumption
  <2>3. taken \in 0..n /\ taken = Cardinality(Taking(n))
    BY <2>0, <2>2, TakingStep DEF FormatInv
  <2>4. PICK item, v : item = format[n + 1] /\ v = args[taken + 1]
    OBVIOUS
  <2>5. item \in Items /\ v \in Int
    <3>1. taken + 1 \in 1..MaxItems
      BY <2>2, <2>3, FormatAssumption
    <3>2. item \in Items /\ v \in Values
      BY <2>2, <2>4, <3>1, Zenon DEF FormatInv
    <3> QED BY <3>2, FormatAssumption
  <2> DEFINE c == Conversion(item, v)
  <2>6. /\ out' = Append(out, c) /\ format' = format /\ args' = args
        /\ taken' = IF TakesArgument(item.conv) THEN taken + 1 ELSE taken
    BY <1>2, <2>0, <2>4, Zenon DEF debug_write
  <2> HIDE DEF c
  <2>7. /\ out' \in Seq(Texts \cup {c}) /\ Len(out') = n + 1 /\ out'[n + 1] = c
        /\ \A k \in 1..n : out'[k] = out[k]
    BY <2>0, <2>1, <2>6
  <2>8. taken' = Cardinality(Taking(Len(out)))'
    <3>1. Cardinality(Taking(n + 1)) = taken + IF TakesArgument(item.conv) THEN 1 ELSE 0
      BY <2>2, <2>3, <2>4, TakingStep, Zenon
    <3>2. taken' = Cardinality(Taking(n + 1))
      BY <2>3, <2>6, <3>1
    <3>3. Taking(Len(out))' = Taking(n + 1)
      BY <2>6, <2>7, Zenon DEF Taking
    <3> QED BY <3>2, <3>3
  <2>9. \A k : ArgumentOf(k)' = ArgumentOf(k)
    BY <2>6, Zenon DEF ArgumentOf
  <2>10. ArgumentOf(n + 1) = v
    <3>1. (n + 1) - 1 = n /\ 1 + taken = taken + 1
      BY <2>2, <2>3
    <3>2. ArgumentOf(n + 1) = args[1 + Cardinality(Taking(n))]
      BY <3>1, Zenon DEF ArgumentOf, Taking
    <3> QED BY <2>3, <2>4, <3>1, <3>2
  <2>11. PrintsAsPrintf'
    <3> SUFFICES ASSUME NEW k \in 1..(n + 1)
                 PROVE  \/ format[k].conv = "d" /\ format[k].zero_pad /\ ArgumentOf(k) < 0
                        \/ IsPrintf(out'[k], format[k], ArgumentOf(k))
      BY <2>6, <2>7, <2>9, Zenon DEF PrintsAsPrintf
    <3>1. CASE k \in 1..n
      <4>1. out'[k] = out[k] /\ k \in 1..Len(out)
        BY <2>0, <2>7, <3>1
      <4> QED BY <4>1, Zenon DEF FormatInv, PrintsAsPrintf
    <3>2. CASE k = n + 1
      <4>1. out'[k] = c /\ format[k] = item /\ ArgumentOf(k) = v
        BY <2>4, <2>7, <2>10, <3>2
      <4>2. (item.conv = "d" /\ item.zero_pad /\ v < 0) \/ IsPrintf(c, item, v)
        BY <2>5, ConversionIsPrintf, Zenon DEF c
      <4> QED BY <4>1, <4>2, Zenon
    <3> QED BY <2>2, <3>1, <3>2
  <2> QED BY <2>2, <2>6, <2>7, <2>8, <2>11 DEF FormatInv
<1> QED BY <1>1, <1>2 DEF Next

(* debug_write() prints every item of every format as printf() does, from  *)
(* the argument that belongs to it: whatever the numbers, their bases and  *)
(* the widths, for words of any size and formats of any length.  The       *)
(* exceptions are those of PrintsAsPrintf: the zero-padded negative        *)
(* number, the width of %c and %s, and unknown conversions.                *)
THEOREM FormatsAsPrintf == Spec => []PrintsAsPrintf
<1>1. FormatInv => PrintsAsPrintf
  BY DEF FormatInv
<1> QED BY FormatInitInv, FormatStepInv, <1>1, PTL DEF Spec

-----------------------------------------------------------------------------
(* The numerals of 32-bit words.                                           *)

(* A numeral of a number eight times as great has one digit more at most.  *)
LEMMA OneDigitMore ==
  ASSUME NEW n \in Nat, NEW base \in {8, 10, 16}, NEW bound \in Nat, NEW len \in Nat,
         bound >= 1, len >= 1,
         \A k \in 0..n : k < bound => Len(Numerals(n, base)[k]) <= len
  PROVE  \A k \in 0..n : k < 8 * bound => Len(Numerals(n, base)[k]) <= len + 1
<1> DEFINE f == Numerals(n, base)
<1>1. f = [k \in 0..n |-> IF k < base THEN <<k>> ELSE Append(f[k \div base], k % base)]
  BY NumeralsEquation
<1>2. ASSUME NEW k \in 0..n PROVE Writes(f[k], k, base)
  BY NumeralsWrite
<1> HIDE DEF f
<1> SUFFICES ASSUME NEW k \in 0..n, k < 8 * bound PROVE Len(f[k]) <= len + 1
  BY DEF f
<1>3. f[k] = IF k < base THEN <<k>> ELSE Append(f[k \div base], k % base)
  BY <1>1, Zenon
<1>4. CASE k < base
  <2>1. f[k] = <<k>>
    BY <1>3, <1>4
  <2> QED BY <2>1
<1>5. CASE k >= base
  <2> DEFINE q == k \div base
  <2>1. q \in 1..(k - 1) /\ k = q * base + (k % base) /\ k % base \in 0..(base - 1)
    BY <1>5, Division
  <2>2. 8 * q <= k
    BY <2>1
  <2>3. q \in 0..n /\ q < bound
    BY <2>1, <2>2
  <2>4. Len(f[q]) <= len
    BY <2>3 DEF f
  <2>5. f[q] \in Seq(0..(base - 1))
    BY <1>2, <2>3 DEF Writes
  <2>6. ~(k < base)
    BY <1>5
  <2>7. f[k] = Append(f[q], k % base)
    BY <1>3, <2>6, Zenon
  <2> QED BY <2>4, <2>5, <2>7
<1> QED BY <1>4, <1>5

(* 2^32.                                                                   *)
WordLimit == 256 * 256 * 256 * 256

(* No number of 32 bits has more than 11 digits in base 8, 10 or 16: the   *)
(* array buffer[24] of uart_send_int() and uart_send_uint() has room for   *)
(* them and for the sign.                                                  *)
THEOREM NumberBufferFits ==
  \A base \in {8, 10, 16}, n \in Nat : n < WordLimit => Len(Numeral(n, base)) <= 11
<1> SUFFICES ASSUME NEW base \in {8, 10, 16}, NEW n \in Nat, n < WordLimit
             PROVE  Len(Numeral(n, base)) <= 11
  OBVIOUS
<1> DEFINE AtMost(len, bound) == \A k \in 0..n : k < bound => Len(Numerals(n, base)[k]) <= len
<1>0. ASSUME NEW len \in Nat, NEW bound \in Nat, len >= 1, bound >= 1, AtMost(len, bound)
      PROVE  AtMost(len + 1, 8 * bound)
  BY <1>0, OneDigitMore
<1>1. AtMost(1, 8)
  <2> SUFFICES ASSUME NEW k \in 0..n, k < 8 PROVE Len(Numerals(n, base)[k]) <= 1
    OBVIOUS
  <2>1. Numerals(n, base)[k] = <<k>>
    <3>1. Numerals(n, base)[k] =
            IF k < base THEN <<k>> ELSE Append(Numerals(n, base)[k \div base], k % base)
      BY NumeralsEquation, Zenon
    <3>2. k < base
      OBVIOUS
    <3> QED BY <3>1, <3>2
  <2> QED BY <2>1
<1> HIDE DEF AtMost
<1>2. AtMost(2, 64)
  <2>1. AtMost(1 + 1, 8 * 8)
    BY <1>0, <1>1, SMT
  <2> QED BY <2>1, SMT
<1>3. AtMost(3, 512)
  <2>1. AtMost(2 + 1, 8 * 64)
    BY <1>0, <1>2, SMT
  <2> QED BY <2>1, SMT
<1>4. AtMost(4, 4096)
  <2>1. AtMost(3 + 1, 8 * 512)
    BY <1>0, <1>3, SMT
  <2> QED BY <2>1, SMT
<1>5. AtMost(5, 32768)
  <2>1. AtMost(4 + 1, 8 * 4096)
    BY <1>0, <1>4, SMT
  <2> QED BY <2>1, SMT
<1>6. AtMost(6, 262144)
  <2>1. AtMost(5 + 1, 8 * 32768)
    BY <1>0, <1>5, SMT
  <2> QED BY <2>1, SMT
<1>7. AtMost(7, 2097152)
  <2>1. AtMost(6 + 1, 8 * 262144)
    BY <1>0, <1>6, SMT
  <2> QED BY <2>1, SMT
<1>8. AtMost(8, 16777216)
  <2>1. AtMost(7 + 1, 8 * 2097152)
    BY <1>0, <1>7, SMT
  <2> QED BY <2>1, SMT
<1>9. AtMost(9, 134217728)
  <2>1. AtMost(8 + 1, 8 * 16777216)
    BY <1>0, <1>8, SMT
  <2> QED BY <2>1, SMT
<1>10. AtMost(10, 1073741824)
  <2>1. AtMost(9 + 1, 8 * 134217728)
    BY <1>0, <1>9, SMT
  <2> QED BY <2>1, SMT
<1>11. AtMost(11, 8589934592)
  <2>1. AtMost(10 + 1, 8 * 1073741824)
    BY <1>0, <1>10, SMT
  <2> QED BY <2>1, SMT
<1>12. n \in 0..n /\ n < 8589934592
  BY SMT DEF WordLimit
<1> QED BY <1>11, <1>12, SMT DEF AtMost, Numeral

-----------------------------------------------------------------------------
(* A number has one numeral, up to zeros in front.                         *)

(* A text of digits that stand for n, perhaps with zeros in front.         *)
Denotes(s, n, base) == s \in Seq(0..(base - 1)) /\ Len(s) >= 1 /\ Value(s, base) = n

(* The last digit is the remainder, the ones before it are the quotient.   *)
LEMMA LastDigit ==
  ASSUME NEW base \in {8, 10, 16}, NEW s \in Seq(0..(base - 1)), Len(s) > 1
  PROVE  \E p \in Seq(0..(base - 1)), x \in 0..(base - 1) :
           /\ s = Append(p, x) /\ Len(p) = Len(s) - 1 /\ Len(p) >= 1 /\ p[1] = s[1]
           /\ Value(p, base) \in Nat /\ Value(s, base) = Value(p, base) * base + x
<1> DEFINE p == SubSeq(s, 1, Len(s) - 1)
           x == s[Len(s)]
<1>1. /\ p \in Seq(0..(base - 1)) /\ x \in 0..(base - 1) /\ s = Append(p, x)
      /\ Len(p) = Len(s) - 1 /\ Len(p) >= 1 /\ p[1] = s[1]
  OBVIOUS
<1> HIDE DEF p, x
<1>2. p \in Seq(Nat) /\ x \in Nat /\ base \in Nat
  BY <1>1
<1>3. Value(Append(p, x), base) = Value(p, base) * base + x
  BY <1>2, ValueAppend
<1>4. Value(p, base) \in Nat
  <2>1. Len(p) \in 0..Len(p)
    BY <1>2
  <2> QED BY <1>2, <2>1, PrefixValuesStep DEF Value
<1> QED BY <1>1, <1>3, <1>4, Zenon

(* A number is not less than a base times smaller one.                     *)
LEMMA TimesBase ==
  ASSUME NEW base \in {8, 10, 16}, NEW a \in Nat
  PROVE  a * base \in Nat /\ a * base >= a
<1>1. a * 8 >= a /\ a * 10 >= a /\ a * 16 >= a /\ a * 8 \in Nat /\ a * 10 \in Nat /\ a * 16 \in Nat
  OBVIOUS
<1> QED BY <1>1, Zenon

(* A digit that is not 0 makes the number greater than 0.                  *)
LEMMA NonzeroDigit ==
  ASSUME NEW base \in {8, 10, 16}, NEW s \in Seq(0..(base - 1)), NEW j \in 1..Len(s), s[j] # 0
  PROVE  Value(s, base) >= 1
<1> DEFINE v == PrefixValues(s, base)
           S == {k \in 0..(Len(s) - j) : v[j + k] >= 1}
<1>1. s \in Seq(Nat) /\ base \in Nat /\ Len(s) - j \in Nat
  OBVIOUS
<1>2. /\ \A k \in 1..Len(s) : v[k] = v[k - 1] * base + s[k]
      /\ \A k \in 0..Len(s) : v[k] \in Nat
  BY <1>1, PrefixValuesStep
<1> HIDE DEF v
<1>3. ASSUME NEW k \in 1..Len(s)
      PROVE  v[k] \in Nat /\ v[k - 1] \in Nat /\ s[k] \in Nat /\ v[k] >= v[k - 1] /\ v[k] >= s[k]
  <2>1. v[k - 1] \in Nat /\ s[k] \in Nat /\ v[k] \in Nat
    BY <1>1, <1>2
  <2>2. v[k] = v[k - 1] * base + s[k]
    BY <1>2
  <2> DEFINE w == v[k - 1] * base
  <2>3. w \in Nat /\ w >= v[k - 1]
    BY <2>1, TimesBase, Zenon
  <2> HIDE DEF w
  <2>4. v[k] = w + s[k]
    BY <2>2, Zenon DEF w
  <2> QED BY <2>1, <2>3, <2>4
<1>4. 0 \in S
  <2>1. v[j] >= s[j] /\ s[j] \in Nat /\ v[j] \in Nat
    BY <1>3
  <2> QED BY <1>1, <2>1
<1>5. ASSUME NEW k \in 1..(Len(s) - j), k - 1 \in S PROVE k \in S
  <2>1. j + k \in 1..Len(s) /\ (j + k) - 1 = j + (k - 1)
    OBVIOUS
  <2>2. v[j + k] >= v[(j + k) - 1] /\ v[j + k] \in Nat /\ v[(j + k) - 1] \in Nat
    BY <1>3, <2>1
  <2>3. v[j + (k - 1)] >= 1
    BY <1>5
  <2>4. v[j + k] >= 1
    <3> DEFINE a == v[j + k]
               c == v[(j + k) - 1]
    <3>1. a >= c /\ a \in Nat /\ c \in Nat /\ c >= 1
      BY <2>1, <2>2, <2>3, Zenon
    <3> HIDE DEF a, c
    <3>2. a >= 1
      BY <3>1
    <3> QED BY <3>2 DEF a
  <2>5. k \in 0..(Len(s) - j)
    BY <1>1
  <2> QED BY <2>4, <2>5
<1>6. \A k \in 0..(Len(s) - j) : k \in S
  <2> HIDE DEF S
  <2> QED BY <1>1, <1>4, <1>5, StepInduction, Zenon
<1>7. v[j + (Len(s) - j)] >= 1 /\ j + (Len(s) - j) = Len(s)
  <2>1. Len(s) - j \in 0..(Len(s) - j) /\ j + (Len(s) - j) = Len(s)
    BY <1>1
  <2> QED BY <1>6, <2>1
<1> QED BY <1>7 DEF Value, v

(* Quotient and remainder are determined.                                  *)
LEMMA DivisionUnique ==
  ASSUME NEW base \in {8, 10, 16}, NEW p \in Nat, NEW q \in Nat,
         NEW x \in 0..(base - 1), NEW y \in 0..(base - 1), p * base + x = q * base + y
  PROVE  p = q /\ x = y
<1>1. CASE base = 8
  <2>1. p * 8 + x = q * 8 + y /\ x \in 0..7 /\ y \in 0..7
    BY <1>1
  <2> QED BY <2>1
<1>2. CASE base = 10
  <2>1. p * 10 + x = q * 10 + y /\ x \in 0..9 /\ y \in 0..9
    BY <1>2
  <2> QED BY <2>1
<1>3. CASE base = 16
  <2>1. p * 16 + x = q * 16 + y /\ x \in 0..15 /\ y \in 0..15
    BY <1>3
  <2> QED BY <2>1
<1> QED BY <1>1, <1>2, <1>3

(* Two pairs of a quotient and a remainder that make the same number.      *)
SameNumber(p, x, q, y, base) ==
  /\ p \in Nat /\ q \in Nat /\ x \in 0..(base - 1) /\ y \in 0..(base - 1)
  /\ p * base + x = q * base + y

(* They are the same pair.                                                 *)
LEMMA SameParts ==
  ASSUME NEW base \in {8, 10, 16}, NEW p, NEW q, NEW x, NEW y, SameNumber(p, x, q, y, base)
  PROVE  p = q /\ x = y
BY DivisionUnique DEF SameNumber

(* A sequence of length 1.                                                 *)
LEMMA OneElement ==
  ASSUME NEW T, NEW s \in Seq(T), Len(s) = 1
  PROVE  s = <<s[1]>> /\ s[1] \in T
OBVIOUS

(* A numeral of one digit is that digit.                                   *)
LEMMA OneDigit ==
  ASSUME NEW base \in {8, 10, 16}, NEW s, NEW n \in Nat, Denotes(s, n, base), Len(s) = 1
  PROVE  s = <<n>> /\ n \in 0..(base - 1)
<1>1. s = <<s[1]>> /\ s[1] \in 0..(base - 1)
  <2>1. s \in Seq(0..(base - 1))
    BY DEF Denotes
  <2> QED BY <2>1, OneElement
<1>2. Value(<<s[1]>>, base) = s[1]
  BY <1>1, WritesDigit DEF Writes
<1> QED BY <1>1, <1>2 DEF Denotes

(* The digits before the last stand for a number that is not 0.            *)
HasQuotient(e, n, base) ==
  \E q \in Seq(0..(base - 1)), y \in 0..(base - 1) :
    /\ e = Append(q, y) /\ Writes(q, Value(q, base), base)
    /\ Value(q, base) \in Nat /\ Value(q, base) >= 1 /\ n = Value(q, base) * base + y

(* One that does not begin with 0 and has more than one digit stands for a *)
(* number that is not less than the base.                                  *)
LEMMA MoreDigits ==
  ASSUME NEW base \in {8, 10, 16}, NEW e, NEW n \in Nat, Writes(e, n, base), Len(e) > 1
  PROVE  HasQuotient(e, n, base)
<1>1. e \in Seq(0..(base - 1)) /\ Value(e, base) = n /\ e[1] # 0
  BY DEF Writes
<1>2. PICK q \in Seq(0..(base - 1)), y \in 0..(base - 1) :
           /\ e = Append(q, y) /\ Len(q) = Len(e) - 1 /\ Len(q) >= 1 /\ q[1] = e[1]
           /\ Value(q, base) \in Nat /\ Value(e, base) = Value(q, base) * base + y
  BY <1>1, LastDigit
<1>3. Value(q, base) >= 1
  <2>1. 1 \in 1..Len(q) /\ q[1] # 0
    BY <1>1, <1>2
  <2> QED BY <2>1, NonzeroDigit
<1>4. Writes(q, Value(q, base), base)
  BY <1>1, <1>2 DEF Writes
<1> QED BY <1>1, <1>2, <1>3, <1>4, Zenon DEF HasQuotient

(* A text whose characters are all zeros.                                  *)
LEMMA AllZeros ==
  ASSUME NEW T, NEW p \in Seq(T), \A j \in 1..Len(p) : p[j] = 0
  PROVE  p \in Seq({0})
OBVIOUS

(* Putting a text in front and a character behind commute.                 *)
LEMMA FrontAndBack ==
  ASSUME NEW z \in Seq(Nat), NEW q \in Seq(Nat), NEW x \in Nat
  PROVE  Append(z \o q, x) = z \o Append(q, x)
<1> DEFINE a == Append(z \o q, x)
           b == z \o Append(q, x)
<1>1. /\ a \in Seq(Nat) /\ b \in Seq(Nat)
      /\ Len(a) = Len(z) + Len(q) + 1 /\ Len(b) = Len(z) + Len(q) + 1
  OBVIOUS
<1>2. ASSUME NEW k \in 1..(Len(z) + Len(q) + 1) PROVE a[k] = b[k]
  <2>1. CASE k <= Len(z)
    BY <2>1
  <2>2. CASE k > Len(z) /\ k <= Len(z) + Len(q)
    BY <2>2
  <2>3. CASE k = Len(z) + Len(q) + 1
    BY <2>3
  <2> QED BY <2>1, <2>2, <2>3
<1> HIDE DEF a, b
<1>3. a = b
  BY <1>1, <1>2, SeqEqual
<1> QED BY <1>3 DEF a, b

(* A text that is not empty has one character or more than one.            *)
LEMMA OneOrMore ==
  ASSUME NEW T, NEW e \in Seq(T), Len(e) >= 1
  PROVE  Len(e) = 1 \/ Len(e) > 1
<1> DEFINE l == Len(e)
<1>1. l \in Nat /\ l >= 1
  OBVIOUS
<1> HIDE DEF l
<1>2. l = 1 \/ l > 1
  BY <1>1
<1> QED BY <1>2 DEF l

(* What one writes for a number stands for it.                             *)
LEMMA WritesDenotes ==
  ASSUME NEW base \in {8, 10, 16}, NEW n \in Nat, NEW e, Writes(e, n, base)
  PROVE  Denotes(e, n, base) /\ e \in Seq(0..(base - 1)) /\ (Len(e) = 1 \/ Len(e) > 1)
<1>1. e \in Seq(0..(base - 1)) /\ Len(e) >= 1 /\ Denotes(e, n, base)
  BY Zenon DEF Writes, Denotes
<1>2. Len(e) = 1 \/ Len(e) > 1
  BY <1>1, OneOrMore, Zenon
<1> QED BY <1>1, <1>2, Zenon

(* Every text that stands for a number is its numeral behind some zeros.   *)
LEMMA ZerosInFront ==
  ASSUME NEW base \in {8, 10, 16}, NEW len \in Nat
  PROVE  \A s \in Seq(0..(base - 1)), e \in Seq(0..(base - 1)), n \in Nat :
           Len(s) = len /\ Denotes(s, n, base) /\ Writes(e, n, base)
             => \E z \in Seq({0}) : s = z \o e
<1> DEFINE Holds(m) ==
             \A s \in Seq(0..(base - 1)), e \in Seq(0..(base - 1)), n \in Nat :
               Len(s) = m /\ Denotes(s, n, base) /\ Writes(e, n, base)
                 => \E z \in Seq({0}) : s = z \o e
           S == {m \in 0..len : Holds(m)}
<1>1. 0 \in S
  BY DEF Denotes
<1>2. ASSUME NEW m \in 1..len, m - 1 \in S PROVE m \in S
  <2>6. m \in 0..len
    OBVIOUS
  <2> SUFFICES Holds(m)
    BY <2>6, Zenon
  <2>5. Holds(m - 1)
    BY <1>2
  <2> SUFFICES ASSUME NEW s \in Seq(0..(base - 1)), NEW e \in Seq(0..(base - 1)), NEW n \in Nat,
                      Len(s) = m, Denotes(s, n, base), Writes(e, n, base)
               PROVE  \E z \in Seq({0}) : s = z \o e
    BY Zenon
  <2>0. (Len(e) = 1 \/ Len(e) > 1) /\ Denotes(e, n, base)
    BY WritesDenotes, Zenon
  <2>1. ASSUME s = e PROVE \E z \in Seq({0}) : s = z \o e
    <3>1. << >> \in Seq({0}) /\ << >> \o e = e
      BY <2>0
    <3> QED BY <2>1, <3>1
  <2>2. CASE m = 1
    <3>1. s = <<n>> /\ n \in 0..(base - 1)
      BY <2>2, OneDigit
    <3>2. CASE Len(e) = 1
      BY <2>0, <2>1, <3>1, <3>2, OneDigit
    <3>3. CASE Len(e) > 1
      <4>1. PICK q \in Seq(0..(base - 1)), y \in 0..(base - 1) :
                   e = Append(q, y) /\ Writes(q, Value(q, base), base) /\ Value(q, base) \in Nat
                   /\ Value(q, base) >= 1 /\ n = Value(q, base) * base + y
        <5>1. HasQuotient(e, n, base)
          BY <3>3, MoreDigits, Zenon
        <5> QED BY <5>1, Zenon DEF HasQuotient
      <4>2. n = 0 * base + n
        BY <3>1
      <4>3. Value(q, base) = 0
        BY <3>1, <4>1, <4>2, DivisionUnique
      <4> QED BY <4>1, <4>3
    <3> QED BY <2>0, <3>2, <3>3, Zenon
  <2>3. CASE m > 1
    <3>1. PICK p \in Seq(0..(base - 1)), x \in 0..(base - 1) :
             /\ s = Append(p, x) /\ Len(p) = Len(s) - 1 /\ Len(p) >= 1
             /\ Value(p, base) \in Nat /\ Value(s, base) = Value(p, base) * base + x
      BY <2>3, LastDigit
    <3>2. n = Value(p, base) * base + x
      BY <3>1 DEF Denotes
    <3>3. CASE Len(e) = 1
      <4>1. e = <<n>> /\ n \in 0..(base - 1) /\ n = 0 * base + n
        BY <2>0, <3>3, OneDigit
      <4>2. Value(p, base) = 0 /\ x = n
        BY <3>1, <3>2, <4>1, DivisionUnique
      <4>3. \A j \in 1..Len(p) : p[j] = 0
        <5>1. ASSUME NEW j \in 1..Len(p), p[j] # 0 PROVE FALSE
          <6>1. Value(p, base) >= 1
            BY <5>1, NonzeroDigit, Zenon
          <6> QED BY <4>2, <6>1
        <5> QED BY <5>1
      <4>4. p \in Seq({0})
        BY <4>3, AllZeros, Zenon
      <4>5. s = p \o e
        BY <3>1, <4>1, <4>2
      <4> QED BY <4>4, <4>5
    <3>4. CASE Len(e) > 1
      <4>1. PICK q \in Seq(0..(base - 1)), y \in 0..(base - 1) :
                   e = Append(q, y) /\ Writes(q, Value(q, base), base) /\ Value(q, base) \in Nat
                   /\ Value(q, base) >= 1 /\ n = Value(q, base) * base + y
        <5>1. HasQuotient(e, n, base)
          BY <3>4, MoreDigits, Zenon
        <5> QED BY <5>1, Zenon DEF HasQuotient
      <4>2. Value(p, base) = Value(q, base) /\ x = y
        <5>1. Value(p, base) * base + x = Value(q, base) * base + y
          BY <3>2, <4>1, Zenon
        <5>2. SameNumber(Value(p, base), x, Value(q, base), y, base)
          BY <3>1, <4>1, <5>1, Zenon DEF SameNumber
        <5> QED BY <5>2, SameParts, Zenon
      <4>3. Len(p) = m - 1 /\ Denotes(p, Value(p, base), base)
        BY <3>1 DEF Denotes
      <4>4. PICK z \in Seq({0}) : p = z \o q
        <5>1. Writes(q, Value(p, base), base)
          BY <4>1, <4>2, Zenon
        <5> QED BY <2>5, <3>1, <4>3, <5>1, Zenon
      <4>5. s = z \o e
        <5>1. z \in Seq(Nat) /\ q \in Seq(Nat) /\ x \in Nat
          OBVIOUS
        <5>2. Append(z \o q, x) = z \o Append(q, x)
          BY <5>1, FrontAndBack, Zenon
        <5> QED BY <3>1, <4>1, <4>2, <4>4, <5>2, Zenon
      <4> QED BY <4>5
    <3> QED BY <2>0, <3>3, <3>4, Zenon
  <2>4. m = 1 \/ m > 1
    OBVIOUS
  <2> QED BY <2>2, <2>3, <2>4, Zenon
<1> HIDE DEF S
<1>3. \A m \in 0..len : m \in S
  BY <1>1, <1>2, StepInduction, Zenon
<1>4. len \in S
  BY <1>3
<1> QED BY <1>4 DEF S

-----------------------------------------------------------------------------
(* IsNumber admits one text: what the console is held to is no less than   *)
(* the text itself.                                                        *)

(* b blanks, m signs (one or none), then the digits d.                     *)
Laid(s, m, b, d) ==
  /\ s \in Seq(Int) /\ d \in Seq(Int) /\ m \in 0..1 /\ b \in Nat /\ Len(s) = b + m + Len(d)
  /\ \A k \in 1..b : s[k] = Blank
  /\ m = 1 => s[b + 1] = Minus
  /\ \A k \in 1..Len(d) : s[b + m + k] = d[k]

(* The parts determine the text.                                           *)
LEMMA LaidEqual ==
  ASSUME NEW s, NEW t, NEW m, NEW b, NEW d, Laid(s, m, b, d), Laid(t, m, b, d)
  PROVE  s = t
<1>1. /\ s \in Seq(Int) /\ t \in Seq(Int) /\ m \in 0..1 /\ b \in Nat /\ Len(d) \in Nat
      /\ Len(s) = b + m + Len(d) /\ Len(t) = b + m + Len(d)
  BY DEF Laid
<1>2. ASSUME NEW k \in 1..(b + m + Len(d)) PROVE s[k] = t[k]
  <2>1. CASE k \in 1..b
    BY <2>1 DEF Laid
  <2>2. CASE k = b + 1 /\ m = 1
    BY <2>2 DEF Laid
  <2>3. CASE k > b + m
    <3>1. k - (b + m) \in 1..Len(d) /\ b + m + (k - (b + m)) = k
      BY <1>1, <2>3
    <3>2. /\ s[b + m + (k - (b + m))] = d[k - (b + m)]
          /\ t[b + m + (k - (b + m))] = d[k - (b + m)]
      BY <3>1, Zenon DEF Laid
    <3> QED BY <3>1, <3>2, Zenon
  <2>4. k \in 1..b \/ (k = b + 1 /\ m = 1) \/ k > b + m
    BY <1>1
  <2> QED BY <2>1, <2>2, <2>3, <2>4, Zenon
<1> QED BY <1>1, <1>2, SeqEqual

(* Zeros of the same length are the same text.                             *)
LEMMA ZerosEqual ==
  ASSUME NEW y \in Seq({0}), NEW z \in Seq({0}), Len(y) = Len(z)
  PROVE  y = z
<1>1. \A k \in 1..Len(y) : y[k] = z[k]
  OBVIOUS
<1> QED BY <1>1, SeqEqual

(* How b blanks and z zeros fill a text of len characters up to a width,   *)
(* when the sign and the numeral need l.                                   *)
Fills(b, z, l, len, width, zero_pad) ==
  /\ b \in Nat /\ z \in Nat /\ len = b + z + l /\ len >= width
  /\ IF zero_pad THEN b = 0 /\ (z > 0 => len = width)
                 ELSE z = 0 /\ (b > 0 => len = width)

(* There is one way to fill.                                               *)
LEMMA FillUnique ==
  ASSUME NEW zero_pad \in BOOLEAN, NEW width \in Nat, NEW l \in Nat,
         NEW b, NEW z, NEW len, Fills(b, z, l, len, width, zero_pad),
         NEW c, NEW y, NEW len2, Fills(c, y, l, len2, width, zero_pad)
  PROVE  b = c /\ z = y
<1>1. CASE zero_pad
  BY <1>1 DEF Fills
<1>2. CASE ~zero_pad
  BY <1>2 DEF Fills
<1> QED BY <1>1, <1>2

(* A text that begins with zeros, with or without any.                     *)
LEMMA LeadingZeros ==
  ASSUME NEW base \in {8, 10, 16}, NEW z \in Seq({0}), NEW e \in Seq(0..(base - 1)), Len(e) >= 1
  PROVE  /\ z \o e \in Seq(Int) /\ Len(z) \in Nat /\ Len(e) \in Nat /\ Len(z \o e) = Len(z) + Len(e)
         /\ Len(z) > 0 => (z \o e)[1] = 0 /\ Len(z \o e) > 1
OBVIOUS

(* A text behind b characters, and behind one more.                        *)
LEMMA Behind ==
  ASSUME NEW s \in Seq(Int), NEW b \in 0..(Len(s) - 1)
  PROVE  LET body == SubSeq(s, b + 1, Len(s))
         IN  /\ body \in Seq(Int) /\ Len(body) = Len(s) - b /\ Len(body) >= 1 /\ Head(body) = s[b + 1]
             /\ \A k \in 1..Len(body) : body[k] = s[b + k]
             /\ Tail(body) \in Seq(Int) /\ Len(Tail(body)) = Len(s) - b - 1
             /\ \A k \in 1..Len(Tail(body)) : Tail(body)[k] = s[b + 1 + k]
<1> DEFINE body == SubSeq(s, b + 1, Len(s))
<1>1. /\ body \in Seq(Int) /\ Len(body) = Len(s) - b /\ Len(body) >= 1
      /\ \A k \in 1..Len(body) : body[k] = s[b + k]
  OBVIOUS
<1> HIDE DEF body
<1>2. /\ Head(body) = body[1] /\ Tail(body) \in Seq(Int) /\ Len(Tail(body)) = Len(body) - 1
      /\ \A k \in 1..Len(Tail(body)) : Tail(body)[k] = body[k + 1]
  BY <1>1
<1>3. Head(body) = s[b + 1]
  BY <1>1, <1>2
<1>4. ASSUME NEW k \in 1..Len(Tail(body)) PROVE Tail(body)[k] = s[b + 1 + k]
  <2>1. k + 1 \in 1..Len(body) /\ b + (k + 1) = b + 1 + k
    BY <1>1, <1>2
  <2> QED BY <1>1, <1>2, <2>1
<1>5. Len(Tail(body)) = Len(s) - b - 1
  BY <1>1, <1>2
<1> QED BY <1>1, <1>2, <1>3, <1>4, <1>5 DEF body

(* A text that is not empty and whose characters are all in T.             *)
LEMMA ElementsIn ==
  ASSUME NEW T, NEW d \in Seq(Int), d # << >>, \A k \in 1..Len(d) : d[k] \in T
  PROVE  d \in Seq(T) /\ Len(d) >= 1
OBVIOUS

(* The parts of a text that IsNumber admits: the blanks, the sign, the     *)
(* zeros and the numeral.                                                  *)
HasParts(s, m, n, base, item) ==
  \E b \in Nat, z \in Seq({0}) :
    /\ Laid(s, m, b, z \o Numeral(n, base))
    /\ Fills(b, Len(z), m + Len(Numeral(n, base)), Len(s), item.width, item.zero_pad)

(* A text admitted as a number has these parts.                            *)
LEMMA NumberHasParts ==
  ASSUME NEW base \in {8, 10, 16}, NEW n \in Nat, NEW item \in Items, NEW negative \in BOOLEAN,
         NEW s \in Seq(Int), IsNumber(s, negative, n, base, item)
  PROVE  HasParts(s, IF negative THEN 1 ELSE 0, n, base, item)
<1> DEFINE e == Numeral(n, base)
           m == IF negative THEN 1 ELSE 0
           Body(b) == SubSeq(s, b + 1, Len(s))
           Rest(b) == IF negative THEN Tail(Body(b)) ELSE Body(b)
<1>1. PICK b \in 0..(Len(s) - 1) :
        /\ \A k \in 1..b : s[k] = Blank
        /\ negative => Head(Body(b)) = Minus
        /\ IsNumeral(Rest(b), n, base)
        /\ item.zero_pad => b = 0
        /\ Len(Rest(b)) > 1 /\ Rest(b)[1] = 0 => item.zero_pad
        /\ Len(s) >= item.width
        /\ (IF item.zero_pad THEN Rest(b)[1] = 0 /\ Len(Rest(b)) > 1 ELSE b > 0) => Len(s) = item.width
  BY Zenon DEF IsNumber
<1> DEFINE d == Rest(b)
<1>2. /\ d \in Seq(Int) /\ Len(s) = b + m + Len(d) /\ m \in 0..1 /\ b \in Nat
      /\ m = 1 => s[b + 1] = Minus
      /\ \A k \in 1..Len(d) : s[b + m + k] = d[k]
  <2>0. b \in Nat /\ Len(s) \in Nat
    OBVIOUS
  <2>1. CASE negative
    <3>1. /\ Tail(Body(b)) \in Seq(Int) /\ Len(Tail(Body(b))) = Len(s) - b - 1 /\ Head(Body(b)) = s[b + 1]
          /\ \A k \in 1..Len(Tail(Body(b))) : Tail(Body(b))[k] = s[b + 1 + k]
      BY Behind, Zenon
    <3>2. d = Tail(Body(b)) /\ m = 1
      BY <2>1
    <3> HIDE DEF d, m, Body
    <3>3. /\ d \in Seq(Int) /\ Len(d) = Len(s) - b - 1 /\ s[b + 1] = Minus
          /\ \A k \in 1..Len(d) : s[b + 1 + k] = d[k]
      BY <1>1, <2>1, <3>1, <3>2, Zenon
    <3>4. Len(s) = b + 1 + Len(d)
      <4> DEFINE ls == Len(s)
                 ld == Len(d)
      <4>1. ld = ls - b - 1 /\ ls \in Nat
        BY <2>0, <3>3
      <4> HIDE DEF ls, ld
      <4>2. ls = b + 1 + ld
        BY <2>0, <4>1
      <4> QED BY <4>2 DEF ls, ld
    <3>5. m \in 0..1
      BY <3>2
    <3> QED BY <2>0, <3>2, <3>3, <3>4, <3>5, Zenon
  <2>2. CASE ~negative
    <3>1. /\ Body(b) \in Seq(Int) /\ Len(Body(b)) = Len(s) - b
          /\ \A k \in 1..Len(Body(b)) : Body(b)[k] = s[b + k]
      BY Behind, Zenon
    <3>2. d = Body(b) /\ m = 0
      BY <2>2
    <3> HIDE DEF d, m, Body
    <3>3. d \in Seq(Int) /\ Len(d) = Len(s) - b /\ \A k \in 1..Len(d) : s[b + k] = d[k]
      BY <3>1, <3>2, Zenon
    <3>4. b + m = b /\ m \in 0..1 /\ m # 1
      BY <2>0, <3>2
    <3>5. Len(s) = b + Len(d)
      <4> DEFINE ls == Len(s)
                 ld == Len(d)
      <4>1. ld = ls - b /\ ls \in Nat
        BY <2>0, <3>3
      <4> HIDE DEF ls, ld
      <4>2. ls = b + ld
        BY <2>0, <4>1
      <4> QED BY <4>2 DEF ls, ld
    <3> QED BY <2>0, <3>3, <3>4, <3>5, Zenon
  <2> QED BY <2>1, <2>2
<1> HIDE DEF d, m, Rest, Body
<1>3. Writes(e, n, base)
  BY NumeralWrites, Zenon
<1> HIDE DEF e
<1>4. e \in Seq(0..(base - 1)) /\ Len(e) >= 1
  BY <1>3 DEF Writes
<1>5. d \in Seq(0..(base - 1)) /\ Denotes(d, n, base)
  <2>1. d # << >> /\ (\A k \in 1..Len(d) : d[k] \in 0..(base - 1)) /\ Value(d, base) = n
    BY <1>1, Zenon DEF IsNumeral, Value, d
  <2>2. d \in Seq(0..(base - 1)) /\ Len(d) >= 1
    BY <1>2, <2>1, ElementsIn, Zenon
  <2> QED BY <2>1, <2>2, Zenon DEF Denotes
<1>6. PICK z \in Seq({0}) : d = z \o e
  <2>1. Len(d) \in Nat
    BY <1>2
  <2>2. \A q \in Seq(0..(base - 1)), r \in Seq(0..(base - 1)), i \in Nat :
          Len(q) = Len(d) /\ Denotes(q, i, base) /\ Writes(r, i, base)
            => \E z \in Seq({0}) : q = z \o r
    BY <2>1, ZerosInFront, Zenon
  <2> QED BY <1>3, <1>4, <1>5, <2>2, Zenon
<1>7. /\ Len(z) \in Nat /\ Len(e) \in Nat /\ Len(d) = Len(z) + Len(e)
      /\ Len(z) > 0 => d[1] = 0 /\ Len(d) > 1
  BY <1>4, <1>6, LeadingZeros, Zenon
<1>8. Laid(s, m, b, d)
  BY <1>1, <1>2, Zenon DEF Laid
<1>9. Fills(b, Len(z), m + Len(e), Len(s), item.width, item.zero_pad)
  <2> DEFINE w == item.width
             zp == item.zero_pad
             lz == Len(z)
             le == Len(e)
             ls == Len(s)
             ld == Len(d)
             zero == d[1] = 0 /\ Len(d) > 1
  <2>1. w \in Nat /\ zp \in BOOLEAN
    BY FormatAssumption, Zenon DEF Items
  <2>2. /\ lz \in Nat /\ le \in Nat /\ ld = lz + le /\ ls = b + m + ld /\ m \in 0..1 /\ b \in Nat
        /\ (lz > 0 => zero) /\ (zp => b = 0) /\ (zero => zp) /\ ls >= w
        /\ (zp /\ zero => ls = w) /\ (~zp /\ b > 0 => ls = w)
    BY <1>1, <1>2, <1>7, Zenon DEF d
  <2> HIDE DEF w, zp, lz, le, ls, ld, zero
  <2>3. CASE zp
    <3>1. Fills(b, lz, m + le, ls, w, zp)
      BY <2>1, <2>2, <2>3 DEF Fills
    <3> QED BY <3>1 DEF w, zp, lz, le, ls
  <2>4. CASE ~zp
    <3>1. Fills(b, lz, m + le, ls, w, zp)
      BY <2>1, <2>2, <2>4 DEF Fills
    <3> QED BY <3>1 DEF w, zp, lz, le, ls
  <2> QED BY <2>1, <2>3, <2>4
<1>10. HasParts(s, m, n, base, item)
  BY <1>2, <1>6, <1>8, <1>9, Zenon DEF HasParts, e
<1> QED BY <1>10 DEF m

(* One text is what printf() sends for a number: no two texts satisfy      *)
(* IsNumber for the same number, sign, base, width and fill. So holding    *)
(* uart_send_int() and uart_send_uint() to IsNumber fixes every character. *)
THEOREM NumberHasOneText ==
  ASSUME NEW base \in {8, 10, 16}, NEW n \in Nat, NEW item \in Items, NEW negative \in BOOLEAN,
         NEW s \in Seq(Int), IsNumber(s, negative, n, base, item),
         NEW t \in Seq(Int), IsNumber(t, negative, n, base, item)
  PROVE  s = t
<1> DEFINE e == Numeral(n, base)
           m == IF negative THEN 1 ELSE 0
           w == item.width
           zp == item.zero_pad
<1>1. HasParts(s, m, n, base, item) /\ HasParts(t, m, n, base, item)
  BY NumberHasParts, Zenon
<1>2. m \in 0..1 /\ w \in Nat /\ zp \in BOOLEAN
  <2>1. m \in 0..1
    OBVIOUS
  <2> QED BY <2>1, FormatAssumption, Zenon DEF Items
<1>3. Len(e) \in Nat
  BY NumeralWrites DEF Writes
<1> HIDE DEF m
<1>4. PICK b \in Nat, z \in Seq({0}) :
        Laid(s, m, b, z \o e) /\ Fills(b, Len(z), m + Len(e), Len(s), w, zp)
  BY <1>1, Zenon DEF HasParts
<1>5. PICK c \in Nat, y \in Seq({0}) :
        Laid(t, m, c, y \o e) /\ Fills(c, Len(y), m + Len(e), Len(t), w, zp)
  BY <1>1, Zenon DEF HasParts
<1> HIDE DEF e, w, zp
<1>6. b = c /\ Len(z) = Len(y)
  <2>1. m + Len(e) \in Nat
    BY <1>2, <1>3
  <2> QED BY <1>2, <1>4, <1>5, <2>1, FillUnique, Zenon
<1>7. z = y
  BY <1>6, ZerosEqual, Zenon
<1> QED BY <1>4, <1>5, <1>6, <1>7, LaidEqual, Zenon

-----------------------------------------------------------------------------
(* The texts of the commands.                                              *)

(* The command that configures the module's own network fits its array.    *)
ApConfigFits ==
  \A ssid \in ApSsidLens, password \in PasswordLens, channel \in Channels, encryption \in Encryptions :
    18 + ssid + password + Digits(channel) + Digits(encryption) < 96

(* Nothing is left of an earlier text when one is sent.                    *)
CommandInv == unread = <<>> /\ OwnLine

(* A number of 16 bits has one to five digits, one of 0..3 has one.        *)
LEMMA DigitsRange ==
  ASSUME NEW n \in Nat
  PROVE  Digits(n) \in 1..5 /\ (n < 10 => Digits(n) = 1)
<1> DEFINE P == {10, 100, 1000, 10000}
           T == {p \in P : p <= n}
<1>1. IsFiniteSet({10}) /\ Cardinality({10}) = 1
  BY FS_Singleton
<1>2. IsFiniteSet({10, 100}) /\ Cardinality({10, 100}) \in 1..2
  <2>1. {10, 100} = {10} \cup {100}
    OBVIOUS
  <2> QED BY <1>1, <2>1, FS_AddElement
<1>3. IsFiniteSet({10, 100, 1000}) /\ Cardinality({10, 100, 1000}) \in 1..3
  <2>1. {10, 100, 1000} = {10, 100} \cup {1000}
    OBVIOUS
  <2> QED BY <1>2, <2>1, FS_AddElement
<1>4. IsFiniteSet(P) /\ Cardinality(P) \in 1..4
  <2>1. P = {10, 100, 1000} \cup {10000}
    OBVIOUS
  <2> HIDE DEF P
  <2> QED BY <1>3, <2>1, FS_AddElement
<1>5. T \subseteq P
  OBVIOUS
<1>6. n < 10 => T = {}
  OBVIOUS
<1>7. Cardinality(T) \in 0..4 /\ (n < 10 => Cardinality(T) = 0)
  <2> HIDE DEF P, T
  <2>1. IsFiniteSet(T) /\ Cardinality(T) <= Cardinality(P)
    BY <1>4, <1>5, FS_Subset
  <2>2. Cardinality(T) \in Nat
    BY <2>1, FS_CardinalityType
  <2> QED BY <1>4, <1>6, <2>1, <2>2, FS_EmptySet
<1> QED BY <1>7 DEF Digits

(* An interval that begins at 0 holds natural numbers.                     *)
LEMMA FromZero == ASSUME NEW k PROVE \A x \in 0..k : x \in Nat
OBVIOUS

(* What the arguments are, and how many digits the numbers among them have.*)
LEMMA ArgumentRanges ==
  /\ \A ssid \in SsidLens : ssid \in 0..32
  /\ \A password \in PasswordLens : password \in 0..63
  /\ \A ip \in IpLens : ip \in 0..15
  /\ \A link_id \in LinkIds : Digits(link_id) \in 1..5
  /\ \A port \in Ports : Digits(port) \in 1..5
  /\ \A length \in Lengths : Digits(length) \in 1..5
<1>1. /\ SsidLens \subseteq 0..32 /\ PasswordLens \subseteq 0..63 /\ IpLens \subseteq 0..15
      /\ Ports \subseteq 0..(256 * 256 - 1) /\ Lengths \subseteq 0..(256 * 256 - 1)
  BY CommandAssumption, Zenon
<1>2. LinkIds \subseteq Nat /\ Ports \subseteq Nat /\ Lengths \subseteq Nat
  <2>1. \A x \in 0..(256 * 256 - 1) : x \in Nat
    BY FromZero, Zenon
  <2>2. LinkIds \subseteq Nat
    <3>1. LinkIds \subseteq 0..255
      BY CommandAssumption, Zenon
    <3>2. \A x \in 0..255 : x \in Nat
      BY FromZero, Zenon
    <3> QED BY <3>1, <3>2, Zenon
  <2> QED BY <1>1, <2>1, <2>2, Zenon
<1> QED BY <1>1, <1>2, DigitsRange

(* A text that fits is a line of its own, whatever data follow it.         *)
LEMMA FittingText ==
  ASSUME CommandInv, NEW cmd, NEW len, NEW size, NEW length, len < size,
         SendWithData(cmd, len, size, length)
  PROVE  CommandInv'
<1>1. line' = Append(unread, [cmd |-> cmd, len |-> len]) /\ unread' = << >>
  BY Zenon DEF SendWithData, CommandInv
<1>2. line' = << [cmd |-> cmd, len |-> len] >>
  BY <1>1 DEF CommandInv
<1> QED BY <1>1, <1>2 DEF CommandInv, OwnLine

(* Every command the module is sent fits the array it is written into.     *)
LEMMA CommandStepInv == ASSUME ApConfigFits, CommandInv, [CommandNext]_commandVars PROVE CommandInv'
<1>1. ASSUME NEW len \in Nat, SendConstant(len) PROVE CommandInv'
  <2>1. len < len + 1
    OBVIOUS
  <2> QED BY <1>1, <2>1, FittingText, Zenon DEF SendCommand, SendConstant
<1>2. CASE SendText
  <2>1. ASSUME NEW len \in ConstantLens, SendConstant(len) PROVE CommandInv'
    BY <1>1, <2>1 DEF ConstantLens
  <2>2. ASSUME NEW mode \in Modes, esp8266_set_mode(mode) PROVE CommandInv'
    <3>1. mode \in Nat /\ mode < 10
      BY <2>2 DEF esp8266_set_mode
    <3>2. 12 + Digits(mode) < 16
      BY <3>1, DigitsRange
    <3> QED BY <2>2, <3>2, FittingText, Zenon DEF SendCommand, esp8266_set_mode
  <2>3. ASSUME NEW ssid \in SsidLens, NEW password \in PasswordLens, esp8266_connect(ssid, password)
        PROVE  CommandInv'
    <3>1. 16 + ssid + password < 128
      <4>1. ssid \in 0..32 /\ password \in 0..63
        BY ArgumentRanges
      <4> QED BY <4>1
    <3> QED BY <2>3, <3>1, FittingText, Zenon DEF SendCommand, esp8266_connect
  <2> QED BY <1>2, <2>1, <2>2, <2>3 DEF SendText
<1>3. ASSUME NEW link_id \in LinkIds, NEW ip \in IpLens, NEW port \in Ports,
             esp8266_tcp_connect(link_id, ip, port)
      PROVE  CommandInv'
  <2>1. Digits(link_id) \in 1..5 /\ Digits(port) \in 1..5 /\ ip \in 0..15
    BY ArgumentRanges
  <2>2. 24 + Digits(link_id) + ip + Digits(port) < 64 /\ 23 + ip + Digits(port) < 64
    BY <2>1
  <2> QED BY <1>3, <2>2, FittingText, Zenon DEF SendCommand, esp8266_tcp_connect
<1>4. ASSUME NEW link_id \in LinkIds, NEW length \in Lengths, esp8266_tcp_send(link_id, length)
      PROVE  CommandInv'
  <2>1. Digits(link_id) \in 1..5 /\ Digits(length) \in 1..5
    BY ArgumentRanges
  <2>2. 14 + Digits(link_id) + Digits(length) < 32 /\ 13 + Digits(length) < 24
    BY <2>1
  <2> QED BY <1>4, <2>2, FittingText, Zenon DEF esp8266_tcp_send
<1>5. ASSUME NEW link_id \in LinkIds, esp8266_tcp_close(link_id) PROVE CommandInv'
  <2>1. Digits(link_id) \in 1..5
    BY ArgumentRanges
  <2>2. 14 + Digits(link_id) < 24 /\ 13 < 13 + 1
    BY <2>1
  <2> QED BY <1>5, <2>2, FittingText, Zenon DEF SendCommand, SendConstant, esp8266_tcp_close
<1>6. ASSUME NEW port \in Ports, esp8266_server_start(port) PROVE CommandInv'
  <2>1. Digits(port) \in 1..5
    BY ArgumentRanges
  <2>2. 17 + Digits(port) < 32
    BY <2>1
  <2> QED BY <1>6, <2>2, FittingText, Zenon DEF SendCommand, esp8266_server_start
<1>7. CASE esp8266_server_stop
  BY <1>1, <1>7 DEF esp8266_server_stop
<1>8. ASSUME NEW ssid \in ApSsidLens, NEW password \in PasswordLens, NEW channel \in Channels,
             NEW encryption \in Encryptions, esp8266_set_ap_config(ssid, password, channel, encryption)
      PROVE  CommandInv'
  BY <1>8, FittingText, Zenon DEF SendCommand, ApConfigFits, esp8266_set_ap_config
<1>9. CASE UNCHANGED commandVars
  BY <1>9 DEF commandVars, CommandInv, OwnLine
<1> QED BY <1>2, <1>3, <1>4, <1>5, <1>6, <1>7, <1>8, <1>9, Zenon DEF CommandNext

(* As long as the SSID and the password of the module's own network fit    *)
(* the array of esp8266_set_ap_config(), every command of both builds is   *)
(* read as a line of its own, for all arguments of the lengths expected.   *)
THEOREM FittingCommandsOwnLine == ApConfigFits => (CommandSpec => []OwnLine)
<1> SUFFICES ASSUME ApConfigFits PROVE CommandSpec => []OwnLine
  OBVIOUS
<1>1. CommandInit => CommandInv
  BY DEF CommandInit, CommandInv, OwnLine
<1>2. CommandInv /\ [CommandNext]_commandVars => CommandInv'
  BY CommandStepInv
<1>3. CommandInv => OwnLine
  BY DEF CommandInv
<1> QED BY <1>1, <1>2, <1>3, PTL DEF CommandSpec
=============================================================================
