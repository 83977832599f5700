------------------------- MODULE DidEncodingProofs -------------------------
(***************************************************************************)
(* Proofs about DidEncoding, for any base, radix, key length and payload:  *)
(* what the encoder returns decodes to what it was given, and no two keys  *)
(* or tiers share a DID.                                                   *)
(*                                                                         *)
(* Number is a recursive function, so the facts about it are inductions.   *)
(* They rest on InductionOnNat, a principle over sets of numbers that is   *)
(* drawn from the well-foundedness of the order of Nat.                    *)
(***************************************************************************)
EXTENDS DidEncoding, WellFoundedInduction, TLAPS

-----------------------------------------------------------------------------
(* Induction *)

LEMMA LessThanIsWellFounded == IsWellFoundedOn({r \in Nat \X Nat : r[1] < r[2]}, Nat)
<1>1. {r \in Nat \X Nat : r[1] < r[2]} = OpToRel(<, Nat)
  BY DEF OpToRel
<1> QED BY <1>1, NatLessThanWellFounded

LEMMA InductionOnNat ==
    ASSUME NEW S, 0 \in S, \A k \in Nat : k \in S => k + 1 \in S
    PROVE  Nat \subseteq S
<1> DEFINE R == {r \in Nat \X Nat : r[1] < r[2]}
           T == Nat \ S
<1>1. SUFFICES ASSUME T # {} PROVE FALSE
  OBVIOUS
<1>2. T \subseteq Nat
  OBVIOUS
\* The smallest number outside S has a predecessor, which is in S.
<1>3. \E x \in T : \A y \in T : <<y, x>> \notin R
  <2> HIDE DEF T, R
  <2>1. IsWellFoundedOn(R, Nat)
    BY LessThanIsWellFounded DEF R
  <2> QED BY <2>1, <1>1, <1>2, WFMin
<1>4. PICK x \in T : \A y \in T : <<y, x>> \notin R
  BY <1>3
<1>5. x \in Nat /\ x # 0 /\ x - 1 \in Nat /\ (x - 1) + 1 = x
  OBVIOUS
<1>6. x - 1 \in T
  BY <1>5
<1>7. <<x - 1, x>> \in R
  BY <1>5
<1> QED BY <1>4, <1>6, <1>7

-----------------------------------------------------------------------------
(* Arithmetic *)

LEMMA Product == \A k, b \in Nat : k * b \in Nat
OBVIOUS

\* A number is its quotient and its remainder, and each of them is unique.
LEMMA Division ==
    ASSUME NEW k \in Nat, NEW b \in Nat \ {0}
    PROVE  /\ k \div b \in Nat
           /\ k % b \in 0 .. b - 1
           /\ k = (k \div b) * b + (k % b)
OBVIOUS

LEMMA SmallerQuotient ==
    ASSUME NEW b \in Nat, NEW j \in Nat, NEW k \in Nat, j < k,
           NEW x \in 0 .. b - 1, NEW y \in 0 .. b - 1
    PROVE  j * b + x < k * b + y
<1>1. PICK d \in Nat : k = j + 1 + d
  <2>1. k - j - 1 \in Nat /\ k = j + 1 + (k - j - 1)
    OBVIOUS
  <2> QED BY <2>1
<1>2. k * b = j * b + b + d * b
  BY <1>1
<1>3. j * b \in Nat /\ d * b \in Nat
  BY Product
<1> QED BY <1>2, <1>3

Join(k, b, x) == k * b + x

LEMMA DivisionIsUnique ==
    ASSUME NEW b \in Nat, NEW j \in Nat, NEW k \in Nat,
           NEW x \in 0 .. b - 1, NEW y \in 0 .. b - 1, Join(j, b, x) = Join(k, b, y)
    PROVE  j = k /\ x = y
<1>1. j * b \in Nat /\ k * b \in Nat
  BY Product
<1>2. ~ (j < k) /\ ~ (k < j)
  BY <1>1, SmallerQuotient DEF Join
<1>3. j = k
  BY <1>2
<1> QED BY <1>1, <1>3 DEF Join

-----------------------------------------------------------------------------
(* Numbers of sequences *)

\* The partial numbers of s in base b, from a on: a, then a * b + s[1], ...
Horner(g, a, s, b) ==
    g = [i \in 0 .. Len(s) |-> IF i = 0 THEN a ELSE g[i - 1] * b + s[i]]

From(a, s, b) == (CHOOSE g : Horner(g, a, s, b))[Len(s)]

LEMMA NumberIsFromZero == \A s, b : Number(s, b) = From(0, s, b)
BY DEF Number, From, Horner

LEMMA HornerFacts ==
    ASSUME NEW g, NEW a, NEW b, NEW s \in Seq(Nat), Horner(g, a, s, b)
    PROVE  /\ g[0] = a
           /\ \A i \in 0 .. Len(s) - 1 : g[i + 1] = g[i] * b + s[i + 1]
<1>1. Len(s) \in Nat
  OBVIOUS
<1>2. \A i \in 0 .. Len(s) : g[i] = IF i = 0 THEN a ELSE g[i - 1] * b + s[i]
  BY DEF Horner
<1>3. ASSUME NEW i \in 0 .. Len(s) - 1 PROVE g[i + 1] = g[i] * b + s[i + 1]
  <2>1. i + 1 \in 0 .. Len(s) /\ i + 1 # 0 /\ (i + 1) - 1 = i
    BY <1>1
  <2> QED BY <1>2, <2>1
<1> QED BY <1>1, <1>2, <1>3

LEMMA HornerExists ==
    ASSUME NEW a \in Nat, NEW b \in Nat, NEW s \in Seq(Nat)
    PROVE  \E g : Horner(g, a, s, b)
<1> DEFINE Upto(k, g) == g = [i \in 0 .. k |-> IF i = 0 THEN a ELSE g[i - 1] * b + s[i]]
           S == {k \in Nat : \E g : Upto(k, g)}
<1>1. 0 \in S
  <2>1. Upto(0, [i \in {0} |-> a])
    <3>1. 0 .. 0 = {0}
      OBVIOUS
    <3> QED BY <3>1
  <2> QED BY <2>1
<1>2. ASSUME NEW k \in Nat, k \in S PROVE k + 1 \in S
  <2>1. PICK g : Upto(k, g)
    BY <1>2
  <2> DEFINE h == [i \in 0 .. k + 1 |-> IF i = k + 1 THEN g[k] * b + s[k + 1] ELSE g[i]]
  <2>2. ASSUME NEW i \in 0 .. k + 1
        PROVE  h[i] = IF i = 0 THEN a ELSE h[i - 1] * b + s[i]
    <3>1. CASE i = 0
      BY <2>1, <3>1
    <3>2. CASE i = k + 1
      <4>1. i - 1 = k /\ k \in 0 .. k + 1 /\ k # k + 1
        BY <3>2
      <4>2. h[i - 1] = g[k] /\ h[i] = g[k] * b + s[k + 1]
        BY <4>1, <3>2
      <4> QED BY <3>2, <4>2
    <3>3. CASE i \in 1 .. k
      <4>1. i - 1 \in 0 .. k + 1 /\ i - 1 # k + 1 /\ i # k + 1 /\ i \in 0 .. k /\ i # 0
        BY <3>3
      <4>2. h[i - 1] = g[i - 1] /\ h[i] = g[i]
        BY <4>1
      <4>3. g[i] = g[i - 1] * b + s[i]
        BY <2>1, <4>1
      <4> QED BY <4>1, <4>2, <4>3
    <3> QED BY <3>1, <3>2, <3>3
  <2>3. Upto(k + 1, h)
    <3>1. h = [i \in 0 .. k + 1 |-> h[i]]
      OBVIOUS
    <3> HIDE DEF h
    <3>2. [i \in 0 .. k + 1 |-> h[i]]
            = [i \in 0 .. k + 1 |-> IF i = 0 THEN a ELSE h[i - 1] * b + s[i]]
      BY <2>2
    <3> QED BY <3>1, <3>2
  <2> HIDE DEF Upto, h
  <2> QED BY <2>3
<1> HIDE DEF S
<1>3. Nat \subseteq S
  BY <1>1, <1>2, InductionOnNat
<1>4. Len(s) \in S
  BY <1>3
<1> QED BY <1>4 DEF S, Horner

LEMMA HornerChosen ==
    ASSUME NEW a \in Nat, NEW b \in Nat, NEW s \in Seq(Nat)
    PROVE  \E g : Horner(g, a, s, b) /\ From(a, s, b) = g[Len(s)]
BY HornerExists DEF From

LEMMA HornerType ==
    ASSUME NEW a \in Nat, NEW b \in Nat, NEW s \in Seq(Nat), NEW g, Horner(g, a, s, b)
    PROVE  \A i \in 0 .. Len(s) : g[i] \in Nat
<1> DEFINE S == {k \in Nat : k <= Len(s) => g[k] \in Nat}
<1>1. 0 \in S
  BY HornerFacts
<1>2. ASSUME NEW k \in Nat, k \in S PROVE k + 1 \in S
  <2>1. SUFFICES ASSUME k + 1 <= Len(s) PROVE g[k + 1] \in Nat
    OBVIOUS
  <2>2. k \in 0 .. Len(s) - 1 /\ k + 1 \in 1 .. Len(s)
    BY <2>1
  <2>3. g[k] \in Nat /\ s[k + 1] \in Nat
    BY <1>2, <2>2
  <2>4. g[k] * b \in Nat
    BY <2>3, Product
  <2>5. g[k + 1] = g[k] * b + s[k + 1]
    BY <2>2, HornerFacts
  <2> QED BY <2>3, <2>4, <2>5
<1> HIDE DEF S
<1>3. Nat \subseteq S
  BY <1>1, <1>2, InductionOnNat
<1> QED BY <1>3 DEF S

\* The numbers of a sequence do not depend on how its beginning came about.
LEMMA HornerSuffix ==
    ASSUME NEW a, NEW c, NEW b \in Nat, NEW t \in Seq(Nat), NEW s \in Seq(Nat),
           NEW g, Horner(g, a, t \o s, b), NEW h, Horner(h, c, s, b), g[Len(t)] = c
    PROVE  g[Len(t \o s)] = h[Len(s)]
<1> DEFINE S == {k \in Nat : k <= Len(s) => g[Len(t) + k] = h[k]}
<1>1. t \o s \in Seq(Nat) /\ Len(t \o s) = Len(t) + Len(s) /\ Len(t) \in Nat /\ Len(s) \in Nat
  OBVIOUS
<1>2. 0 \in S
  BY <1>1, HornerFacts
<1>3. \A i \in 0 .. Len(t \o s) - 1 : g[i + 1] = g[i] * b + (t \o s)[i + 1]
  <2>1. PICK u \in Seq(Nat) : u = t \o s
    BY <1>1
  <2>2. Horner(g, a, u, b)
    BY <2>1
  <2>3. \A i \in 0 .. Len(u) - 1 : g[i + 1] = g[i] * b + u[i + 1]
    BY <2>2, HornerFacts
  <2> QED BY <2>1, <2>3
<1>4. ASSUME NEW k \in Nat, k \in S PROVE k + 1 \in S
  <2>1. SUFFICES ASSUME k + 1 <= Len(s) PROVE g[Len(t) + (k + 1)] = h[k + 1]
    OBVIOUS
  <2>2. k \in 0 .. Len(s) - 1 /\ Len(t) + k \in 0 .. Len(t \o s) - 1
    BY <1>1, <2>1
  <2>3. (t \o s)[Len(t) + k + 1] = s[k + 1]
    BY <1>1, <2>1
  <2>4. g[Len(t) + k] = h[k]
    BY <1>4, <2>1
  <2>5. g[Len(t) + k + 1] = g[Len(t) + k] * b + (t \o s)[Len(t) + k + 1]
    BY <1>3, <2>2
  <2>6. h[k + 1] = h[k] * b + s[k + 1]
    BY <2>2, HornerFacts
  <2>7. Len(t) + (k + 1) = Len(t) + k + 1
    BY <1>1
  <2> QED BY <2>3, <2>4, <2>5, <2>6, <2>7
<1> HIDE DEF S
<1>5. Nat \subseteq S
  BY <1>2, <1>4, InductionOnNat
<1>6. Len(s) \in S
  BY <1>1, <1>5
<1> QED BY <1>1, <1>6 DEF S

LEMMA SeqConcat == \A t, s \in Seq(Nat) : t \o s \in Seq(Nat)
OBVIOUS

LEMMA SeqOfOne == \A d \in Nat : <<d>> \in Seq(Nat)
OBVIOUS

LEMMA HornerPrefix ==
    ASSUME NEW a, NEW b \in Nat, NEW t \in Seq(Nat), NEW s \in Seq(Nat),
           NEW g, Horner(g, a, t \o s, b), NEW h, Horner(h, a, t, b)
    PROVE  g[Len(t)] = h[Len(t)]
<1> DEFINE S == {k \in Nat : k <= Len(t) => g[k] = h[k]}
<1>1. PICK u \in Seq(Nat) : u = t \o s
  BY SeqConcat
<1>2. Horner(g, a, u, b) /\ Len(u) = Len(t) + Len(s) /\ Len(t) \in Nat /\ Len(s) \in Nat
  BY <1>1
<1>20. Horner(g, a, u, b)
  BY <1>1
<1>3. \A i \in 0 .. Len(u) - 1 : g[i + 1] = g[i] * b + u[i + 1]
  BY <1>20, HornerFacts
<1>30. 0 \in S
  <2>1. h[0] = a /\ g[0] = a
    BY <1>20, HornerFacts
  <2> QED BY <2>1
<1>4. ASSUME NEW k \in Nat, k \in S PROVE k + 1 \in S
  <2>1. SUFFICES ASSUME k + 1 <= Len(t) PROVE g[k + 1] = h[k + 1]
    OBVIOUS
  <2>2. k \in 0 .. Len(t) - 1 /\ k \in 0 .. Len(u) - 1 /\ k + 1 \in 1 .. Len(t)
    BY <1>2, <2>1
  <2>3. (t \o s)[k + 1] = t[k + 1]
    <3>1. PICK i \in 1 .. Len(t) : i = k + 1
      BY <2>2
    <3>2. (t \o s)[i] = t[i]
      OBVIOUS
    <3> QED BY <3>1, <3>2
  <2>4. g[k + 1] = g[k] * b + u[k + 1]
    BY <1>3, <2>2
  <2>5. h[k + 1] = h[k] * b + t[k + 1]
    BY <2>2, HornerFacts
  <2>6. g[k] = h[k]
    BY <1>4, <2>2
  <2> QED BY <1>1, <2>3, <2>4, <2>5, <2>6
<1> HIDE DEF S
<1>5. Nat \subseteq S
  BY <1>30, <1>4, InductionOnNat
<1>6. Len(t) \in S
  BY <1>2, <1>5
<1> QED BY <1>2, <1>6 DEF S

LEMMA FromType ==
    ASSUME NEW a \in Nat, NEW b \in Nat, NEW s \in Seq(Nat)
    PROVE  From(a, s, b) \in Nat
<1>1. PICK g : Horner(g, a, s, b) /\ From(a, s, b) = g[Len(s)]
  BY HornerChosen
<1>2. \A i \in 0 .. Len(s) : g[i] \in Nat
  BY <1>1, HornerType
<1> QED BY <1>1, <1>2

\* A number can be read in two parts.
LEMMA FromConcat ==
    ASSUME NEW a \in Nat, NEW b \in Nat, NEW t \in Seq(Nat), NEW s \in Seq(Nat)
    PROVE  From(a, t \o s, b) = From(From(a, t, b), s, b)
<1>1. PICK u \in Seq(Nat) : u = t \o s
  BY SeqConcat
<1>2. PICK c \in Nat : c = From(a, t, b)
  BY FromType
<1>3. PICK g : Horner(g, a, u, b) /\ From(a, u, b) = g[Len(u)]
  BY HornerChosen
<1>4. PICK f : Horner(f, a, t, b) /\ From(a, t, b) = f[Len(t)]
  BY HornerChosen
<1>5. PICK h : Horner(h, c, s, b) /\ From(c, s, b) = h[Len(s)]
  BY HornerChosen
<1>6. Horner(g, a, t \o s, b)
  BY <1>1, <1>3
<1>7. g[Len(t)] = c
  BY <1>2, <1>4, <1>6, HornerPrefix
<1>8. g[Len(t \o s)] = h[Len(s)]
  BY <1>5, <1>6, <1>7, HornerSuffix
<1> QED BY <1>1, <1>2, <1>3, <1>5, <1>8

LEMMA FromNone ==
    ASSUME NEW a \in Nat, NEW b \in Nat
    PROVE  From(a, <<>>, b) = a
<1>1. <<>> \in Seq(Nat) /\ Len(<<>>) = 0
  OBVIOUS
<1>2. PICK s \in Seq(Nat) : s = <<>>
  BY <1>1
<1>3. PICK g : Horner(g, a, s, b) /\ From(a, s, b) = g[Len(s)]
  BY HornerChosen
<1>4. g[0] = a
  BY <1>3, HornerFacts
<1> QED BY <1>1, <1>2, <1>3, <1>4

LEMMA FromOne ==
    ASSUME NEW a \in Nat, NEW b \in Nat, NEW d \in Nat
    PROVE  From(a, <<d>>, b) = a * b + d
<1>1. PICK s \in Seq(Nat) : s = <<d>>
  BY SeqOfOne
<1>2. Len(s) = 1 /\ s[1] = d
  BY <1>1
<1>3. PICK g : Horner(g, a, s, b) /\ From(a, s, b) = g[Len(s)]
  BY HornerChosen
<1>4. g[0] = a /\ \A i \in 0 .. Len(s) - 1 : g[i + 1] = g[i] * b + s[i + 1]
  BY <1>3, HornerFacts
<1>5. 0 \in 0 .. Len(s) - 1 /\ 0 + 1 = 1
  BY <1>2
<1>6. g[1] = g[0] * b + s[1]
  BY <1>4, <1>5
<1> QED BY <1>1, <1>2, <1>3, <1>4, <1>6

\* A digit in front.
LEMMA FromPrepend ==
    ASSUME NEW a \in Nat, NEW b \in Nat, NEW d \in Nat, NEW s \in Seq(Nat)
    PROVE  From(a, <<d>> \o s, b) = From(a * b + d, s, b)
<1>1. PICK t \in Seq(Nat) : t = <<d>>
  BY SeqOfOne
<1>2. From(a, t \o s, b) = From(From(a, t, b), s, b)
  BY FromConcat
<1> QED BY <1>1, <1>2, FromOne

LEMMA OnesAreZero ==
    ASSUME NEW k \in Nat, NEW b \in Nat
    PROVE  Ones(k) \in Seq(Nat) /\ From(0, Ones(k), b) = 0
<1>1. PICK s \in Seq(Nat) : s = Ones(k) /\ Len(s) = k
  <2>1. Ones(k) \in Seq(Nat) /\ Len(Ones(k)) = k
    BY DEF Ones
  <2> QED BY <2>1
<1>2. PICK g : Horner(g, 0, s, b) /\ From(0, s, b) = g[Len(s)]
  BY HornerChosen
<1>3. g[0] = 0 /\ \A i \in 0 .. Len(s) - 1 : g[i + 1] = g[i] * b + s[i + 1]
  BY <1>2, HornerFacts
<1> DEFINE S == {i \in Nat : i <= k => g[i] = 0}
<1>4. 0 \in S
  BY <1>3
<1>5. ASSUME NEW i \in Nat, i \in S PROVE i + 1 \in S
  <2>1. SUFFICES ASSUME i + 1 <= k PROVE g[i + 1] = 0
    OBVIOUS
  <2>2. s[i + 1] = 0
    BY <1>1, <2>1 DEF Ones
  <2>3. g[i] = 0 /\ i \in 0 .. Len(s) - 1
    BY <1>1, <1>5, <2>1
  <2>4. g[i + 1] = g[i] * b + s[i + 1]
    BY <1>3, <2>3
  <2>5. 0 * b = 0
    OBVIOUS
  <2> QED BY <2>2, <2>3, <2>4, <2>5
<1> HIDE DEF S
<1>6. Nat \subseteq S
  BY <1>4, <1>5, InductionOnNat
<1>7. k \in S
  BY <1>6
<1> QED BY <1>1, <1>2, <1>7 DEF S

\* Zeros in front of a number change nothing.
LEMMA OnesInFront ==
    ASSUME NEW k \in Nat, NEW b \in Nat, NEW s \in Seq(Nat)
    PROVE  From(0, Ones(k) \o s, b) = From(0, s, b)
<1>1. PICK t \in Seq(Nat) : t = Ones(k) /\ From(0, t, b) = 0
  BY OnesAreZero
<1>2. From(0, t \o s, b) = From(From(0, t, b), s, b)
  BY FromConcat
<1> QED BY <1>1, <1>2

\* As many digits and the same number: the same digits.
LEMMA DigitsAreUnique ==
    ASSUME NEW b \in Nat, NEW s \in Seq(0 .. b - 1), NEW t \in Seq(0 .. b - 1),
           Len(s) = Len(t), From(0, s, b) = From(0, t, b)
    PROVE  s = t
<1>1. s \in Seq(Nat) /\ t \in Seq(Nat) /\ Len(s) \in Nat
  OBVIOUS
<1>2. PICK g : Horner(g, 0, s, b) /\ From(0, s, b) = g[Len(s)]
  BY <1>1, HornerChosen
<1>3. PICK h : Horner(h, 0, t, b) /\ From(0, t, b) = h[Len(t)]
  BY <1>1, HornerChosen
<1>4. \A i \in 0 .. Len(s) - 1 : g[i + 1] = g[i] * b + s[i + 1]
  BY <1>1, <1>2, HornerFacts
<1>5. \A i \in 0 .. Len(s) - 1 : h[i + 1] = h[i] * b + t[i + 1]
  <2>1. \A i \in 0 .. Len(t) - 1 : h[i + 1] = h[i] * b + t[i + 1]
    BY <1>1, <1>3, HornerFacts
  <2>2. 0 .. Len(s) - 1 = 0 .. Len(t) - 1
    OBVIOUS
  <2> QED
    BY <2>1, <2>2, Zenon
<1>6. \A i \in 0 .. Len(s) : g[i] \in Nat /\ h[i] \in Nat
  BY <1>1, <1>2, <1>3, HornerType
\* Where the numbers agree, so do the digits, and the numbers before them.
<1>7. ASSUME NEW i \in 0 .. Len(s) - 1, g[i + 1] = h[i + 1]
      PROVE  g[i] = h[i] /\ s[i + 1] = t[i + 1]
  <2>1. i \in 0 .. Len(s) /\ i + 1 \in 1 .. Len(s)
    BY <1>1
  <2>2. s[i + 1] \in 0 .. b - 1 /\ t[i + 1] \in 0 .. b - 1
    BY <2>1
  <2>3. g[i] \in Nat /\ h[i] \in Nat
    BY <1>6, <2>1
  <2>4. g[i] * b + s[i + 1] = h[i] * b + t[i + 1]
    BY <1>4, <1>5, <1>7
  <2>5. PICK x \in 0 .. b - 1, y \in 0 .. b - 1 : x = s[i + 1] /\ y = t[i + 1]
    BY <2>2
  <2>6. PICK j \in Nat, k \in Nat : j = g[i] /\ k = h[i]
    BY <2>3
  <2>7. Join(j, b, x) = Join(k, b, y)
    BY <2>4, <2>5, <2>6 DEF Join
  <2>8. j = k /\ x = y
    BY <2>7, DivisionIsUnique
  <2> QED BY <2>5, <2>6, <2>8
<1> DEFINE S == {k \in Nat : k <= Len(s) => g[Len(s) - k] = h[Len(s) - k]}
<1>8. 0 \in S
  BY <1>1, <1>2, <1>3
<1>9. ASSUME NEW k \in Nat, k \in S PROVE k + 1 \in S
  <2>1. SUFFICES ASSUME k + 1 <= Len(s) PROVE g[Len(s) - (k + 1)] = h[Len(s) - (k + 1)]
    OBVIOUS
  <2> DEFINE i == Len(s) - (k + 1)
  <2>2. i \in 0 .. Len(s) - 1 /\ i + 1 = Len(s) - k
    <3>1. PICK l \in Nat : l = Len(s)
      BY <1>1
    <3> QED BY <2>1, <3>1
  <2>3. g[i + 1] = h[i + 1]
    BY <1>1, <1>9, <2>1, <2>2
  <2> QED BY <1>7, <2>2, <2>3
<1> HIDE DEF S
<1>10. Nat \subseteq S
  BY <1>8, <1>9, InductionOnNat
<1>11. ASSUME NEW i \in 1 .. Len(s) PROVE s[i] = t[i]
  <2>1. Len(s) - i \in Nat /\ Len(s) - (Len(s) - i) = i /\ i - 1 \in 0 .. Len(s) - 1 /\ (i - 1) + 1 = i
    BY <1>1
  <2>2. Len(s) - i \in S
    BY <1>10, <2>1
  <2>3. g[i] = h[i]
    BY <1>1, <2>1, <2>2 DEF S
  <2> QED BY <1>7, <2>1, <2>3
<1>12. s = [i \in 1 .. Len(s) |-> s[i]] /\ t = [i \in 1 .. Len(t) |-> t[i]]
  OBVIOUS
<1> QED BY <1>11, <1>12

-----------------------------------------------------------------------------
(* Leading zeros *)

ZerosInFront(s, k) == (\A i \in 1 .. k : s[i] = 0) /\ (k < Len(s) => s[k + 1] # 0)

LEMMA ZerosInFrontExist ==
    ASSUME NEW s \in Seq(Nat)
    PROVE  \E k \in 0 .. Len(s) : ZerosInFront(s, k)
<1>1. Len(s) \in Nat
  OBVIOUS
<1>2. SUFFICES ASSUME \A k \in 0 .. Len(s) : ~ ZerosInFront(s, k) PROVE FALSE
  OBVIOUS
\* Otherwise every byte is 0, and so there are Len(s) zeros in front.
<1> DEFINE S == {k \in Nat : k <= Len(s) => \A i \in 1 .. k : s[i] = 0}
<1>3. 0 \in S
  OBVIOUS
<1>4. ASSUME NEW k \in Nat, k \in S PROVE k + 1 \in S
  <2>1. SUFFICES ASSUME k + 1 <= Len(s), NEW i \in 1 .. k + 1 PROVE s[i] = 0
    OBVIOUS
  <2>2. \A j \in 1 .. k : s[j] = 0
    BY <1>1, <1>4, <2>1
  <2>3. ~ ZerosInFront(s, k)
    BY <1>1, <1>2, <2>1
  <2>4. s[k + 1] = 0
    BY <2>2, <2>3 DEF ZerosInFront
  <2>5. i \in 1 .. k \/ i = k + 1
    OBVIOUS
  <2> QED BY <2>2, <2>4, <2>5
<1> HIDE DEF S
<1>5. Nat \subseteq S
  BY <1>3, <1>4, InductionOnNat
<1>6. Len(s) \in S
  BY <1>1, <1>5
<1>7. ZerosInFront(s, Len(s))
  BY <1>1, <1>6 DEF S, ZerosInFront
<1> QED BY <1>1, <1>2, <1>7

LEMMA ZerosInFrontAreUnique ==
    ASSUME NEW s \in Seq(Nat), NEW j \in 0 .. Len(s), NEW k \in 0 .. Len(s),
           ZerosInFront(s, j), ZerosInFront(s, k)
    PROVE  j = k
<1>1. Len(s) \in Nat /\ j \in Nat /\ k \in Nat
  OBVIOUS
<1>2. ~ (j < k)
  <2>1. SUFFICES ASSUME j < k PROVE FALSE
    OBVIOUS
  <2>2. j + 1 \in 1 .. k /\ j < Len(s)
    BY <1>1, <2>1
  <2> QED BY <2>2 DEF ZerosInFront
<1>3. ~ (k < j)
  <2>1. SUFFICES ASSUME k < j PROVE FALSE
    OBVIOUS
  <2>2. k + 1 \in 1 .. j /\ k < Len(s)
    BY <1>1, <2>1
  <2> QED BY <2>2 DEF ZerosInFront
<1> QED BY <1>1, <1>2, <1>3

LEMMA LeadingZerosType ==
    ASSUME NEW s \in Seq(Nat)
    PROVE  LeadingZeros(s) \in 0 .. Len(s) /\ ZerosInFront(s, LeadingZeros(s))
<1>1. LeadingZeros(s) = CHOOSE k \in 0 .. Len(s) : ZerosInFront(s, k)
  BY DEF LeadingZeros, ZerosInFront
<1> HIDE DEF LeadingZeros
<1> QED BY <1>1, ZerosInFrontExist

LEMMA LeadingZerosAre ==
    ASSUME NEW s \in Seq(Nat), NEW k \in 0 .. Len(s), ZerosInFront(s, k)
    PROVE  LeadingZeros(s) = k
<1>1. PICK j \in 0 .. Len(s) : j = LeadingZeros(s) /\ ZerosInFront(s, j)
  BY LeadingZerosType
<1> QED BY <1>1, ZerosInFrontAreUnique

\* The zeros that are put in front of digits without any are the leading ones.
LEMMA OnesAreLeading ==
    ASSUME NEW k \in Nat, NEW s \in Seq(Nat), s # <<>> => s[1] # 0
    PROVE  Ones(k) \o s \in Seq(Nat) /\ LeadingZeros(Ones(k) \o s) = k
<1>1. PICK t \in Seq(Nat) : t = Ones(k) /\ Len(t) = k
  <2>1. Ones(k) \in Seq(Nat) /\ Len(Ones(k)) = k
    BY DEF Ones
  <2> QED BY <2>1
<1>2. PICK u \in Seq(Nat) : u = t \o s
  BY SeqConcat
<1>3. Len(u) = k + Len(s) /\ Len(s) \in Nat
  <2>1. Len(t \o s) = Len(t) + Len(s)
    OBVIOUS
  <2> QED BY <1>1, <1>2, <2>1
<1>4. \A i \in 1 .. k : u[i] = 0
  <2>1. SUFFICES ASSUME NEW i \in 1 .. k PROVE u[i] = 0
    OBVIOUS
  <2>2. i \in 1 .. Len(t)
    BY <1>1
  <2>3. (t \o s)[i] = t[i]
    BY <2>2
  <2>4. t[i] = 0
    BY <1>1 DEF Ones
  <2> QED BY <1>2, <2>3, <2>4
<1>5. k < Len(u) => u[k + 1] # 0
  <2>1. SUFFICES ASSUME k < Len(u) PROVE u[k + 1] # 0
    OBVIOUS
  <2>2. s # <<>> /\ 1 \in 1 .. Len(s)
    BY <1>3, <2>1
  <2>3. (t \o s)[Len(t) + 1] = s[1]
    BY <2>2
  <2> QED BY <1>1, <1>2, <2>2, <2>3
<1>6. k \in 0 .. Len(u) /\ ZerosInFront(u, k)
  BY <1>3, <1>4, <1>5 DEF ZerosInFront
<1>7. LeadingZeros(u) = k
  BY <1>6, LeadingZerosAre
<1> QED BY <1>1, <1>2, <1>7

-----------------------------------------------------------------------------
(* The loop of the encoder *)

Called(c) ==
    /\ c = [tier |-> c.tier, payload |-> c.payload]
    /\ c.payload \in Seq(Byte)
    /\ c.tier # Nothing =>
          Len(c.payload) = Len(Multicodec) + KeyLength /\ c.payload[1] # 0

Returned(c, d) ==
    /\ d = Did(c.tier, d.text)
    /\ d.text \in Seq(0 .. Radix - 1)
    /\ Decodes(d.text, c.payload)

(***************************************************************************)
(* While the loop divides, what is left and the digits so far are together *)
(* the number of the payload, and no digit so far is a zero in front.      *)
(***************************************************************************)
EncInv ==
    /\ at \in {"idle", "divide"}
    /\ Called(call)
    /\ at = "divide" =>
          /\ n \in Nat /\ out \in Seq(0 .. Radix - 1)
          /\ Number(<<n>> \o out, Radix) = Number(call.payload, Base)
          /\ n = 0 /\ out # <<>> => out[1] # 0
    /\ at = "idle" /\ done # Nothing => Returned(call, done)
    /\ before # Nothing =>
          /\ before = [call |-> before.call, done |-> before.done]
          /\ before.call.tier # Nothing
          /\ Called(before.call) /\ Returned(before.call, before.done)

LEMMA SeqElements ==
    ASSUME NEW S, NEW s \in Seq(S)
    PROVE  \A i \in DOMAIN s : s[i] \in S
OBVIOUS

LEMMA SeqOfNumbers ==
    ASSUME NEW S, S \subseteq Nat
    PROVE  \A s \in Seq(S) : s \in Seq(Nat)
<1> SUFFICES ASSUME NEW s \in Seq(S) PROVE s \in Seq(Nat)
  OBVIOUS
<1>1. Len(s) \in Nat /\ (\A i \in 1 .. Len(s) : s[i] \in S) /\ s = [i \in 1 .. Len(s) |-> s[i]]
  OBVIOUS
<1>2. [i \in 1 .. Len(s) |-> s[i]] \in Seq(Nat)
  BY <1>1
<1> QED BY <1>1, <1>2

LEMMA DigitsAreNumbers == \A s \in Seq(0 .. Radix - 1) : s \in Seq(Nat)
<1>1. 0 .. Radix - 1 \subseteq Nat
  BY EncodingAssumption
<1> QED BY <1>1, SeqOfNumbers

LEMMA BytesAreNumbers == \A s \in Seq(Byte) : s \in Seq(Nat)
<1>1. Byte \subseteq Nat
  BY EncodingAssumption DEF Byte
<1> QED BY <1>1, SeqOfNumbers

LEMMA NumberWithFirst ==
    ASSUME NEW k \in Nat, NEW s \in Seq(Nat)
    PROVE  Number(<<k>> \o s, Radix) = From(k, s, Radix)
<1>1. Radix \in Nat
  BY EncodingAssumption
<1>2. From(0, <<k>> \o s, Radix) = From(0 * Radix + k, s, Radix)
  BY <1>1, FromPrepend
<1>3. 0 * Radix + k = k
  BY <1>1
<1> QED BY <1>2, <1>3, NumberIsFromZero

\* A turn of the loop: the remainder moves in front of the digits.
LEMMA TurnKeepsNumber ==
    ASSUME NEW k \in Nat, NEW s \in Seq(0 .. Radix - 1)
    PROVE  /\ k \div Radix \in Nat
           /\ <<k % Radix>> \o s \in Seq(0 .. Radix - 1)
           /\ Number(<<k \div Radix>> \o (<<k % Radix>> \o s), Radix) = Number(<<k>> \o s, Radix)
<1>1. Radix \in Nat \ {0}
  BY EncodingAssumption
<1>2. PICK q \in Nat, r \in 0 .. Radix - 1 :
        q = k \div Radix /\ r = k % Radix /\ k = q * Radix + r
  BY <1>1, Division
<1>3. r \in Nat /\ s \in Seq(Nat)
  BY <1>1, DigitsAreNumbers
<1>4. <<r>> \o s \in Seq(0 .. Radix - 1)
  OBVIOUS
<1>5. PICK u \in Seq(Nat) : u = <<r>> \o s
  BY <1>4, DigitsAreNumbers
<1>6. Number(<<q>> \o u, Radix) = From(q, u, Radix)
  BY NumberWithFirst
<1>7. From(q, u, Radix) = From(q * Radix + r, s, Radix)
  BY <1>1, <1>3, <1>5, FromPrepend
<1>8. Number(<<k>> \o s, Radix) = From(k, s, Radix)
  BY <1>3, NumberWithFirst
<1> QED BY <1>2, <1>4, <1>5, <1>6, <1>7, <1>8

\* The end of the loop: the digits with the ones in front decode to the payload.
LEMMA TextDecodes ==
    ASSUME NEW payload \in Seq(Byte), NEW s \in Seq(0 .. Radix - 1), s # <<>> => s[1] # 0,
           Number(<< 0 >> \o s, Radix) = Number(payload, Base)
    PROVE  /\ Ones(LeadingZeros(payload)) \o s \in Seq(0 .. Radix - 1)
           /\ Decodes(Ones(LeadingZeros(payload)) \o s, payload)
<1>1. Radix \in Nat /\ Radix > 1
  BY EncodingAssumption
<1>2. s \in Seq(Nat) /\ payload \in Seq(Nat)
  BY BytesAreNumbers, DigitsAreNumbers
<1>3. PICK k \in Nat : k = LeadingZeros(payload)
  <2>1. LeadingZeros(payload) \in 0 .. Len(payload)
    BY <1>2, LeadingZerosType
  <2> QED BY <2>1
<1>4. Ones(k) \o s \in Seq(0 .. Radix - 1)
  <2>1. Ones(k) \in Seq(0 .. Radix - 1)
    BY <1>1 DEF Ones
  <2> QED BY <2>1
<1>5. LeadingZeros(Ones(k) \o s) = k
  BY <1>2, OnesAreLeading
<1>6. From(0, Ones(k) \o s, Radix) = From(0, s, Radix)
  BY <1>1, <1>2, OnesInFront
<1>7. Number(<< 0 >> \o s, Radix) = From(0, s, Radix)
  BY <1>2, NumberWithFirst
<1>8. Number(Ones(k) \o s, Radix) = Number(payload, Base)
  BY <1>6, <1>7, NumberIsFromZero
<1> QED BY <1>3, <1>4, <1>5, <1>8 DEF Decodes

-----------------------------------------------------------------------------
(* The steps *)

LEMMA EncInitInv == EncInit => EncInv
<1>1. <<>> \in Seq(Byte)
  OBVIOUS
<1> QED BY <1>1 DEF EncInit, EncInv, NoCall, Called

\* What the call before returned, if it derived a DID, is what "before" keeps.
LEMMA StartInv ==
    ASSUME EncInv, at = "idle", NEW tier, NEW payload \in Seq(Byte), Start(tier, payload),
           Called([tier |-> tier, payload |-> payload])
    PROVE  EncInv'
<1>1. PICK k \in Nat : k = Number(payload, Base)
  <2>1. payload \in Seq(Nat) /\ Base \in Nat
    BY BytesAreNumbers, EncodingAssumption
  <2> QED BY <2>1, FromType, NumberIsFromZero
<1>2. Number(<<k>> \o <<>>, Radix) = k
  <2>1. Radix \in Nat /\ <<>> \in Seq(Nat)
    BY EncodingAssumption
  <2>2. Number(<<k>> \o <<>>, Radix) = From(k, <<>>, Radix)
    BY <2>1, NumberWithFirst
  <2> QED BY <2>1, <2>2, FromNone
<1>3. /\ call' = [tier |-> tier, payload |-> payload] /\ at' = "divide"
      /\ n' = k /\ out' = <<>>
  BY <1>1 DEF Start
<1>4. Called(call)'
  BY <1>3 DEF Called
<1>5. (at = "divide" =>
          /\ n \in Nat /\ out \in Seq(0 .. Radix - 1)
          /\ Number(<<n>> \o out, Radix) = Number(call.payload, Base)
          /\ n = 0 /\ out # <<>> => out[1] # 0)'
  <2>1. <<>> \in Seq(0 .. Radix - 1)
    OBVIOUS
  <2> QED BY <1>1, <1>2, <1>3, <2>1 DEF Number
<1>6. (before # Nothing =>
          /\ before = [call |-> before.call, done |-> before.done]
          /\ before.call.tier # Nothing
          /\ Called(before.call) /\ Returned(before.call, before.done))'
  <2>1. CASE done # Nothing /\ call.tier # Nothing
    <3>1. before' = [call |-> call, done |-> done]
      BY <2>1 DEF Start
    <3>2. Called(call) /\ Returned(call, done)
      BY <2>1 DEF EncInv
    <3> QED BY <2>1, <3>1, <3>2 DEF Called, Returned
  <2>2. CASE ~ (done # Nothing /\ call.tier # Nothing)
    BY <2>2 DEF Start, EncInv, Called, Returned
  <2> QED BY <2>1, <2>2
<1> QED BY <1>3, <1>4, <1>5, <1>6 DEF EncInv

LEMMA DivideInv == EncInv /\ Divide => EncInv'
<1> SUFFICES ASSUME EncInv, Divide PROVE EncInv'
  OBVIOUS
<1>1. PICK k, s : k = n /\ s = out
  OBVIOUS
<1>2. /\ k \in Nat /\ s \in Seq(0 .. Radix - 1) /\ k > 0
      /\ Number(<<k>> \o s, Radix) = Number(call.payload, Base)
  BY <1>1 DEF EncInv, Divide, DigitsLeft
<1>3. n' = k \div Radix /\ out' = <<k % Radix>> \o s /\ UNCHANGED <<call, at, done, before>>
  BY <1>1 DEF Divide
<1>4. /\ k \div Radix \in Nat
      /\ <<k % Radix>> \o s \in Seq(0 .. Radix - 1)
      /\ Number(<<k \div Radix>> \o (<<k % Radix>> \o s), Radix) = Number(<<k>> \o s, Radix)
  BY <1>2, TurnKeepsNumber
\* The last digit to come is what is left, which is not 0.
<1>5. k \div Radix = 0 => (<<k % Radix>> \o s)[1] # 0
  <2>1. Radix \in Nat \ {0}
    BY EncodingAssumption
  <2>2. k = (k \div Radix) * Radix + (k % Radix)
    BY <1>2, <2>1, Division
  <2>3. k \div Radix = 0 => k % Radix # 0
    BY <1>2, <2>1, <2>2
  <2>4. (<<k % Radix>> \o s)[1] = k % Radix
    BY <1>2
  <2> QED BY <2>3, <2>4
<1>6. at = "divide"
  BY DEF Divide
<1>7. Called(call)' /\ (before # Nothing =>
          /\ before = [call |-> before.call, done |-> before.done]
          /\ before.call.tier # Nothing
          /\ Called(before.call) /\ Returned(before.call, before.done))'
  BY <1>3 DEF EncInv, Called, Returned
<1>8. (Number(<<n>> \o out, Radix) = Number(call.payload, Base))'
  <2>1. Number(<<n'>> \o out', Radix) = Number(call'.payload, Base)
    BY <1>1, <1>2, <1>3, <1>4
  <2> QED BY <2>1
<1> QED BY <1>3, <1>4, <1>5, <1>6, <1>7, <1>8 DEF EncInv

LEMMA FinishInv == EncInv /\ Finish => EncInv'
<1> SUFFICES ASSUME EncInv, Finish PROVE EncInv'
  OBVIOUS
<1>1. PICK c, s : c = call /\ s = out
  OBVIOUS
<1>2. /\ c.payload \in Seq(Byte) /\ s \in Seq(0 .. Radix - 1) /\ n = 0
      /\ Number(<< 0 >> \o s, Radix) = Number(c.payload, Base)
      /\ s # <<>> => s[1] # 0
  BY <1>1 DEF EncInv, Finish, DigitsLeft, Called
<1> DEFINE text == Ones(LeadingZeros(c.payload)) \o s
<1>3. text \in Seq(0 .. Radix - 1) /\ Decodes(text, c.payload)
  BY <1>2, TextDecodes
<1>4. done' = Did(c.tier, text) /\ at' = "idle" /\ UNCHANGED <<call, n, out, before>>
  BY <1>1 DEF Finish
<1>5. Returned(c, Did(c.tier, text))
  BY <1>3 DEF Returned, Did
<1>6. Returned(call, done)'
  BY <1>1, <1>4, <1>5 DEF Returned
<1>7. Called(call)' /\ (before # Nothing =>
          /\ before = [call |-> before.call, done |-> before.done]
          /\ before.call.tier # Nothing
          /\ Called(before.call) /\ Returned(before.call, before.done))'
  BY <1>4 DEF EncInv, Called, Returned
<1> QED BY <1>4, <1>6, <1>7 DEF EncInv

LEMMA EncodeInv ==
    ASSUME EncInv, NEW length \in 0 .. MaxPayload, NEW payload \in PayloadOf(length), Encode(payload)
    PROVE  EncInv'
<1>1. payload \in Seq(Byte)
  BY EncodingAssumption DEF PayloadOf
<1>2. Called([tier |-> Nothing, payload |-> payload])
  BY <1>1 DEF Called
<1> QED BY <1>1, <1>2, StartInv DEF Encode

LEMMA DeriveDidInv ==
    ASSUME EncInv, NEW length \in {KeyLength - 1, KeyLength, KeyLength + 1},
           NEW key \in PayloadOf(length), NEW tier, DeriveDid(key, tier)
    PROVE  EncInv'
<1>1. at = "idle"
  BY DEF DeriveDid
<1>2. CASE tier \in Tiers /\ Len(key) = KeyLength
  <2>1. Start(tier, Multicodec \o key)
    BY <1>2 DEF DeriveDid
  <2>2. key \in Seq(Byte)
    BY EncodingAssumption DEF PayloadOf
  <2>3. PICK payload \in Seq(Byte) :
          /\ payload = Multicodec \o key
          /\ Len(payload) = Len(Multicodec) + KeyLength /\ payload[1] # 0
    <3>1. Multicodec \in Seq(Byte) /\ Multicodec # <<>> /\ Multicodec[1] # 0
      BY EncodingAssumption
    <3>2. Multicodec \o key \in Seq(Byte) /\ Len(Multicodec \o key) = Len(Multicodec) + Len(key)
      BY <2>2, <3>1
    <3>3. (Multicodec \o key)[1] = Multicodec[1]
      BY <2>2, <3>1
    <3> QED BY <1>2, <3>1, <3>2, <3>3
  <2>4. Called([tier |-> tier, payload |-> payload])
    BY <2>3 DEF Called
  <2>5. Start(tier, payload)
    BY <2>1, <2>3
  <2> QED BY <1>1, <2>4, <2>5, StartInv
<1>3. CASE ~ (tier \in Tiers /\ Len(key) = KeyLength)
  <2>1. done' = Nothing /\ UNCHANGED <<call, at, n, out, before>>
    BY <1>3 DEF DeriveDid
  <2> QED BY <1>1, <2>1 DEF EncInv, Called, Returned
<1> QED BY <1>2, <1>3

THEOREM EncoderInvariant == EncSpec => []EncInv
<1>1. EncInv /\ [EncNext]_encVars => EncInv'
  <2> SUFFICES ASSUME EncInv, [EncNext]_encVars PROVE EncInv'
    OBVIOUS
  <2>1. CASE \E length \in 0 .. MaxPayload : \E payload \in PayloadOf(length) : Encode(payload)
    BY <2>1, EncodeInv
  <2>2. CASE \E length \in {KeyLength - 1, KeyLength, KeyLength + 1} :
               \E key \in PayloadOf(length), tier \in Tiers \cup {"auditor"} : DeriveDid(key, tier)
    BY <2>2, DeriveDidInv
  <2>3. CASE Divide
    BY <2>3, DivideInv
  <2>4. CASE Finish
    BY <2>4, FinishInv
  <2>5. CASE UNCHANGED encVars
    <3>1. n' = n /\ out' = out /\ call' = call /\ at' = at /\ done' = done /\ before' = before
      BY <2>5 DEF encVars
    <3> QED BY <3>1 DEF EncInv, Called, Returned
  <2> QED BY <2>1, <2>2, <2>3, <2>4, <2>5 DEF EncNext
<1> QED BY EncInitInv, <1>1, PTL DEF EncSpec

-----------------------------------------------------------------------------
(* What is promised *)

(***************************************************************************)
(* DecodesBack, for every base, radix, key length and payload: what        *)
(* _base58btc_encode returns decodes to the payload, the zero bytes in     *)
(* front of it included.                                                   *)
(***************************************************************************)
THEOREM DecodesBackHolds == EncSpec => []DecodesBack
<1>1. EncInv => DecodesBack
  <2> SUFFICES ASSUME EncInv, at = "idle", done # Nothing
               PROVE  /\ \A i \in DOMAIN done.text : done.text[i] \in 0 .. Radix - 1
                      /\ Decodes(done.text, call.payload)
    BY DEF DecodesBack
  <2>1. Returned(call, done)
    BY DEF EncInv
  <2>2. PICK t \in Seq(0 .. Radix - 1) : t = done.text
    BY <2>1 DEF Returned
  <2>3. \A i \in DOMAIN t : t[i] \in 0 .. Radix - 1
    BY SeqElements
  <2> QED BY <2>1, <2>2, <2>3 DEF Returned
<1> QED BY <1>1, EncoderInvariant, PTL

\* A DID has one preimage: the tier it names, and the key of its number.
LEMMA OnePreimage ==
    ASSUME NEW c, NEW e, NEW d, Called(c), Called(e), c.tier # Nothing, e.tier # Nothing,
           Returned(c, d), Returned(e, d)
    PROVE  c = e
<1>1. c.tier = e.tier
  BY DEF Returned, Did
<1>2. PICK s \in Seq(Byte), t \in Seq(Byte) : s = c.payload /\ t = e.payload
  BY DEF Called
<1>3. Len(s) = Len(t)
  BY <1>2 DEF Called
<1>4. From(0, s, Base) = From(0, t, Base)
  BY <1>2, NumberIsFromZero DEF Returned, Decodes
<1>5. s = t
  BY <1>3, <1>4, DigitsAreUnique, EncodingAssumption DEF Byte
<1> QED BY <1>1, <1>2, <1>5 DEF Called

(***************************************************************************)
(* DidsTellApart, for every base, radix and key length: derive_did gives   *)
(* two calls one DID only if they name one tier and one key.               *)
(***************************************************************************)
THEOREM DidsTellApartHolds == EncSpec => []DidsTellApart
<1>1. EncInv => DidsTellApart
  <2> SUFFICES ASSUME EncInv, at = "idle", done # Nothing, call.tier # Nothing,
                      before # Nothing, before.done = done
               PROVE  before.call = call
    BY DEF DidsTellApart
  <2>1. PICK c, e, d : c = call /\ e = before.call /\ d = done
    OBVIOUS
  <2>2. Called(c) /\ Returned(c, d) /\ Called(e) /\ Returned(e, d) /\ c.tier # Nothing /\ e.tier # Nothing
    BY <2>1 DEF EncInv
  <2> QED BY <2>1, <2>2, OnePreimage
<1> QED BY <1>1, EncoderInvariant, PTL
=============================================================================
