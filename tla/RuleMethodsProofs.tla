------------------------- MODULE RuleMethodsProofs -------------------------
(***************************************************************************)
(* What the machine of Nftables does with the expressions that the methods *)
(* of RuleMethods append.  First facts about the run of a sequence of      *)
(* expressions, about the bits of a byte and the bytes of a header; then   *)
(* the outcome of each method: for every packet, every argument and every  *)
(* state that has not stopped, a match method lets exactly those packets   *)
(* pass that its lemma names, and a statement changes what its lemma       *)
(* names.                                                                  *)
(***************************************************************************)
EXTENDS Nftables, WellFoundedInduction, TLAPS

-----------------------------------------------------------------------------
(* Sequences.                                                              *)

LEMMA SequencesAre == \A S : Seq(S) = UNION {[1..n -> S] : n \in Nat}
OBVIOUS

LEMMA SequenceLen ==
  ASSUME NEW S, NEW s \in Seq(S)
  PROVE  Len(s) \in Nat /\ s \in [1..Len(s) -> S] /\ DOMAIN s = 1..Len(s)
OBVIOUS

LEMMA ConcatIs ==
  ASSUME NEW S, NEW s \in Seq(S), NEW t \in Seq(S)
  PROVE  /\ s \o t \in Seq(S) /\ Len(s \o t) = Len(s) + Len(t)
         /\ \A i \in 1..(Len(s) + Len(t)) : (s \o t)[i] = IF i <= Len(s) THEN s[i] ELSE t[i - Len(s)]
OBVIOUS

LEMMA AppendIs ==
  ASSUME NEW S, NEW s \in Seq(S), NEW x \in S
  PROVE  /\ Append(s, x) \in Seq(S) /\ Len(Append(s, x)) = Len(s) + 1
         /\ Append(s, x)[Len(s) + 1] = x /\ \A i \in 1..Len(s) : Append(s, x)[i] = s[i]
OBVIOUS

LEMMA AppendConcat ==
  ASSUME NEW S, NEW s \in Seq(S), NEW x \in S
  PROVE  Append(s, x) = s \o <<x>>
OBVIOUS

-----------------------------------------------------------------------------
(* Induction.  The principle is stated with a set in place of a predicate: *)
(* the set of the numbers that have the property.                          *)

LEMMA LeastNatural ==
  ASSUME NEW T \in SUBSET Nat, T # {}
  PROVE  \E m \in T : \A k \in T : m <= k
<1> DEFINE R == {ss \in Nat \X Nat : ss[1] < ss[2]}
<1>1. IsWellFoundedOn(R, Nat)
  BY NatLessThanWellFounded, Zenon DEF OpToRel
<1>2. \A x, y \in Nat : y < x => <<y, x>> \in R
  OBVIOUS
<1> HIDE DEF R
<1>3. \E x \in T : \A y \in T : ~ (<<y, x>> \in R)
  BY <1>1, WFMin, Zenon
<1>4. PICK m \in T : \A y \in T : ~ (<<y, m>> \in R)
  BY <1>3
<1>5. \A k \in T : ~ (k < m)
  BY <1>2, <1>4, Zenon
<1>6. \A k \in T : m <= k
  BY <1>5
<1> QED
  BY <1>6

LEMMA NaturalInduction ==
  ASSUME NEW S, 0 \in S, \A n \in Nat : n \in S => n + 1 \in S
  PROVE  Nat \subseteq S
<1>1. SUFFICES ASSUME Nat \ S # {} PROVE FALSE
  OBVIOUS
<1>2. PICK m \in Nat \ S : \A k \in Nat \ S : m <= k
  BY <1>1, LeastNatural, Zenon
<1>3. m # 0 /\ m - 1 \in Nat /\ m - 1 \in S
  BY <1>2
<1> QED
  BY <1>2, <1>3

-----------------------------------------------------------------------------
(* The run of a sequence of expressions.                                   *)

(* f[i] is the state behind the first i expressions, for i up to n.        *)
IsRun(f, n, m, exprs, p, sets) ==
  f = [i \in 0..n |-> IF i = 0 THEN m ELSE Step(f[i - 1], exprs[i], p, sets)]

LEMMA RunExists ==
  ASSUME NEW m, NEW exprs, NEW p, NEW sets
  PROVE  \A n \in Nat : \E f : IsRun(f, n, m, exprs, p, sets)
<1> DEFINE S == {n \in Nat : \E f : IsRun(f, n, m, exprs, p, sets)}
<1>1. 0 \in S
  <2> DEFINE f == [i \in 0..0 |-> m]
  <2>1. IsRun(f, 0, m, exprs, p, sets)
    BY DEF IsRun
  <2> QED
    BY <2>1
<1>2. ASSUME NEW n \in Nat, n \in S PROVE n + 1 \in S
  <2>1. PICK f : IsRun(f, n, m, exprs, p, sets)
    BY <1>2
  <2> DEFINE g == [i \in 0..(n + 1) |-> IF i = n + 1 THEN Step(f[n], exprs[n + 1], p, sets) ELSE f[i]]
  <2>2. ASSUME NEW i \in 0..(n + 1)
        PROVE  g[i] = IF i = 0 THEN m ELSE Step(g[i - 1], exprs[i], p, sets)
    <3>1. CASE i = n + 1
      <4>1. g[i] = Step(f[n], exprs[n + 1], p, sets) /\ g[n] = f[n]
        BY <3>1
      <4> QED
        BY <4>1, <3>1
    <3>2. CASE i # n + 1
      <4>1. i \in 0..n /\ g[i] = f[i]
        BY <3>2
      <4>2. f[i] = IF i = 0 THEN m ELSE Step(f[i - 1], exprs[i], p, sets)
        BY <4>1, <2>1 DEF IsRun
      <4>3. i # 0 => g[i - 1] = f[i - 1]
        BY <4>1
      <4> QED
        BY <4>1, <4>2, <4>3
    <3> QED
      BY <3>1, <3>2
  <2>3. IsRun(g, n + 1, m, exprs, p, sets)
    BY <2>2 DEF IsRun
  <2> HIDE DEF g
  <2> QED
    BY <2>3
<1> HIDE DEF S
<1>3. Nat \subseteq S
  BY <1>1, <1>2, NaturalInduction
<1> QED
  BY <1>3 DEF S

(* The states of RunFrom, one after the other.                             *)
LEMMA RunFromStates ==
  ASSUME NEW m, NEW exprs, NEW p, NEW sets, Len(exprs) \in Nat
  PROVE  \E f : IsRun(f, Len(exprs), m, exprs, p, sets) /\ RunFrom(m, exprs, p, sets) = f[Len(exprs)]
<1>1. \E f : IsRun(f, Len(exprs), m, exprs, p, sets)
  BY RunExists
<1> DEFINE state == CHOOSE f : f = [i \in 0..Len(exprs) |->
                                      IF i = 0 THEN m ELSE Step(f[i - 1], exprs[i], p, sets)]
<1>2. IsRun(state, Len(exprs), m, exprs, p, sets)
  BY <1>1, SMTT(30) DEF IsRun
<1>3. RunFrom(m, exprs, p, sets) = state[Len(exprs)]
  BY DEF RunFrom
<1> HIDE DEF state
<1> QED
  BY <1>2, <1>3

SameUpTo(l, s, t) == \A i \in 1..l : s[i] = t[i]

(* A run is determined by where it starts and by the expressions.          *)
LEMMA RunUnique ==
  ASSUME NEW m, NEW p, NEW sets, NEW s, NEW t, NEW f, NEW g, NEW k \in Nat, NEW n \in Nat, NEW l \in Nat,
         IsRun(f, k, m, s, p, sets), IsRun(g, n, m, t, p, sets), l <= k, l <= n,
         SameUpTo(l, s, t)
  PROVE  f[l] = g[l]
<1> DEFINE S == {i \in Nat : i <= l => f[i] = g[i]}
<1>1. 0 \in S
  BY DEF IsRun
<1>2. ASSUME NEW i \in Nat, i \in S PROVE i + 1 \in S
  <2> SUFFICES ASSUME i + 1 <= l PROVE f[i + 1] = g[i + 1]
    OBVIOUS
  <2>1. f[i] = g[i] /\ i + 1 \in 0..k /\ i + 1 \in 0..n /\ i + 1 # 0 /\ (i + 1) - 1 = i
    BY <1>2
  <2>2. f[i + 1] = Step(f[i], s[i + 1], p, sets)
    BY <2>1 DEF IsRun
  <2>3. g[i + 1] = Step(g[i], t[i + 1], p, sets)
    BY <2>1 DEF IsRun
  <2>4. s[i + 1] = t[i + 1]
    BY DEF SameUpTo
  <2> QED
    BY <2>1, <2>2, <2>3, <2>4
<1> HIDE DEF S
<1>3. Nat \subseteq S
  BY <1>1, <1>2, NaturalInduction
<1> QED
  BY <1>3 DEF S

LEMMA RunFromIs ==
  ASSUME NEW m, NEW exprs, NEW p, NEW sets, Len(exprs) \in Nat,
         NEW f, IsRun(f, Len(exprs), m, exprs, p, sets)
  PROVE  RunFrom(m, exprs, p, sets) = f[Len(exprs)]
<1>1. PICK g : IsRun(g, Len(exprs), m, exprs, p, sets) /\ RunFrom(m, exprs, p, sets) = g[Len(exprs)]
  BY RunFromStates
<1>2. Len(exprs) <= Len(exprs) /\ SameUpTo(Len(exprs), exprs, exprs)
  BY DEF SameUpTo
<1>3. f[Len(exprs)] = g[Len(exprs)]
  BY <1>1, <1>2, RunUnique, SMTT(20)
<1> QED
  BY <1>1, <1>3

(* The state behind a b is the state behind b when it starts behind a.     *)
LEMMA RunConcat ==
  ASSUME NEW S, NEW a \in Seq(S), NEW b \in Seq(S), NEW m, NEW p, NEW sets
  PROVE  RunFrom(m, a \o b, p, sets) = RunFrom(RunFrom(m, a, p, sets), b, p, sets)
<1> DEFINE c == a \o b
<1>1. /\ Len(a) \in Nat /\ Len(b) \in Nat /\ Len(c) = Len(a) + Len(b)
      /\ \A i \in 1..Len(a) : c[i] = a[i]
      /\ \A i \in 1..Len(b) : c[Len(a) + i] = b[i]
  BY ConcatIs, SequenceLen
<1> HIDE DEF c
<1>2. PICK f : IsRun(f, Len(c), m, c, p, sets) /\ RunFrom(m, c, p, sets) = f[Len(c)]
  <2>1. Len(c) \in Nat
    BY <1>1
  <2> QED
    BY <2>1, RunFromStates, Zenon
<1>3. PICK g : IsRun(g, Len(a), m, a, p, sets) /\ RunFrom(m, a, p, sets) = g[Len(a)]
  BY <1>1, RunFromStates
<1>4. f[Len(a)] = g[Len(a)]
  <2>1. /\ Len(c) \in Nat /\ Len(a) <= Len(c) /\ Len(a) <= Len(a) /\ SameUpTo(Len(a), c, a)
    BY <1>1 DEF SameUpTo
  <2> QED
    BY <2>1, <1>1, <1>2, <1>3, RunUnique, SMTT(20)
<1> DEFINE h == [i \in 0..Len(b) |-> f[Len(a) + i]]
<1>5. IsRun(h, Len(b), f[Len(a)], b, p, sets)
  <2>1. ASSUME NEW i \in 0..Len(b)
        PROVE  h[i] = IF i = 0 THEN f[Len(a)] ELSE Step(h[i - 1], b[i], p, sets)
    <3>1. CASE i = 0
      BY <3>1, <1>1
    <3>2. CASE i # 0
      <4>1. Len(a) + i \in 0..Len(c) /\ Len(a) + i # 0 /\ (Len(a) + i) - 1 = Len(a) + (i - 1)
        BY <1>1, <3>2
      <4>2. f[Len(a) + i] = Step(f[Len(a) + (i - 1)], c[Len(a) + i], p, sets)
        BY <4>1, <1>2, Zenon DEF IsRun
      <4>3. h[i] = f[Len(a) + i] /\ h[i - 1] = f[Len(a) + (i - 1)] /\ c[Len(a) + i] = b[i]
        BY <1>1, <3>2
      <4> QED
        BY <4>2, <4>3, <3>2
    <3> QED
      BY <3>1, <3>2
  <2> QED
    BY <2>1, SMTT(30) DEF IsRun
<1>6. RunFrom(f[Len(a)], b, p, sets) = h[Len(b)]
  <2> HIDE DEF h
  <2> QED BY <1>1, <1>5, RunFromIs
<1>7. h[Len(b)] = f[Len(c)]
  BY <1>1
<1> QED
  BY <1>2, <1>3, <1>4, <1>6, <1>7 DEF c

(* Short sequences.                                                        *)
LEMMA RunNone ==
  ASSUME NEW m, NEW p, NEW sets
  PROVE  RunFrom(m, << >>, p, sets) = m
<1>1. Len(<< >>) = 0
  OBVIOUS
<1>2. PICK f : IsRun(f, 0, m, << >>, p, sets) /\ RunFrom(m, << >>, p, sets) = f[0]
  BY <1>1, RunFromStates
<1> QED
  BY <1>2 DEF IsRun

LEMMA RunOne ==
  ASSUME NEW m, NEW p, NEW sets, NEW e
  PROVE  RunFrom(m, <<e>>, p, sets) = Step(m, e, p, sets)
<1> DEFINE s == <<e>>
<1>1. Len(s) = 1 /\ s[1] = e
  OBVIOUS
<1> HIDE DEF s
<1>2. Len(s) \in Nat
  BY <1>1
<1>3. PICK f : IsRun(f, Len(s), m, s, p, sets) /\ RunFrom(m, s, p, sets) = f[Len(s)]
  BY <1>2, RunFromStates, Zenon
<1>4. f[0] = m /\ f[1] = Step(f[0], s[1], p, sets)
  BY <1>1, <1>3 DEF IsRun
<1> QED
  BY <1>1, <1>3, <1>4 DEF s

LEMMA RunTwo ==
  ASSUME NEW m, NEW p, NEW sets, NEW e1, NEW e2
  PROVE  RunFrom(m, <<e1, e2>>, p, sets) = Step(Step(m, e1, p, sets), e2, p, sets)
<1> DEFINE s == <<e1, e2>>
<1>1. Len(s) = 2 /\ s[1] = e1 /\ s[2] = e2
  OBVIOUS
<1> HIDE DEF s
<1>2. Len(s) \in Nat
  BY <1>1
<1>3. PICK f : IsRun(f, Len(s), m, s, p, sets) /\ RunFrom(m, s, p, sets) = f[Len(s)]
  BY <1>2, RunFromStates, Zenon
<1>4. f[0] = m /\ f[1] = Step(f[0], s[1], p, sets) /\ f[2] = Step(f[1], s[2], p, sets)
  BY <1>1, <1>3 DEF IsRun
<1> QED
  BY <1>1, <1>3, <1>4 DEF s

LEMMA RunThree ==
  ASSUME NEW m, NEW p, NEW sets, NEW e1, NEW e2, NEW e3
  PROVE  RunFrom(m, <<e1, e2, e3>>, p, sets) = Step(Step(Step(m, e1, p, sets), e2, p, sets), e3, p, sets)
<1> DEFINE s == <<e1, e2, e3>>
<1>1. Len(s) = 3 /\ s[1] = e1 /\ s[2] = e2 /\ s[3] = e3
  OBVIOUS
<1> HIDE DEF s
<1>2. Len(s) \in Nat
  BY <1>1
<1>3. PICK f : IsRun(f, Len(s), m, s, p, sets) /\ RunFrom(m, s, p, sets) = f[Len(s)]
  BY <1>2, RunFromStates, Zenon
<1>4. f[0] = m /\ f[1] = Step(f[0], s[1], p, sets) /\ f[2] = Step(f[1], s[2], p, sets) /\ f[3] = Step(f[2], s[3], p, sets)
  BY <1>1, <1>3 DEF IsRun
<1> QED
  BY <1>1, <1>3, <1>4 DEF s

-----------------------------------------------------------------------------
(* Bytes.                                                                  *)

PowersOfTwo == {1, 2, 4, 8, 16, 32, 64, 128, 256}

Weights == {1, 2, 4, 8, 16, 32, 64, 128}

LEMMA BitsOfByte ==
  ASSUME NEW x \in Byte
  PROVE  /\ \A w \in Weights : Bit(x, w) \in {0, 1}
         /\ x = 128 * Bit(x, 128) + 64 * Bit(x, 64) + 32 * Bit(x, 32) + 16 * Bit(x, 16)
              + 8 * Bit(x, 8) + 4 * Bit(x, 4) + 2 * Bit(x, 2) + Bit(x, 1)
BY SMTT(30) DEF Bit, Byte, Weights

(* The remainders by powers of two are the sums of the low bits.           *)
LEMMA LowBits ==
  ASSUME NEW x \in Byte
  PROVE  /\ x % 1 = 0 /\ x % 2 = Bit(x, 1) /\ x % 256 = x
         /\ x % 4 = 2 * Bit(x, 2) + Bit(x, 1)
         /\ x % 8 = 4 * Bit(x, 4) + 2 * Bit(x, 2) + Bit(x, 1)
         /\ x % 16 = 8 * Bit(x, 8) + 4 * Bit(x, 4) + 2 * Bit(x, 2) + Bit(x, 1)
         /\ x % 32 = 16 * Bit(x, 16) + 8 * Bit(x, 8) + 4 * Bit(x, 4) + 2 * Bit(x, 2) + Bit(x, 1)
         /\ x % 64 = 32 * Bit(x, 32) + 16 * Bit(x, 16) + 8 * Bit(x, 8) + 4 * Bit(x, 4)
                + 2 * Bit(x, 2) + Bit(x, 1)
         /\ x % 128 = 64 * Bit(x, 64) + 32 * Bit(x, 32) + 16 * Bit(x, 16) + 8 * Bit(x, 8)
                + 4 * Bit(x, 4) + 2 * Bit(x, 2) + Bit(x, 1)
<1>1. x % 1 = 0 /\ x % 2 = Bit(x, 1) /\ x % 256 = x
  BY SMTT(30) DEF Bit, Byte
<1>2. x % 4 = 2 * Bit(x, 2) + Bit(x, 1)
  BY SMTT(30) DEF Bit, Byte
<1>3. x % 8 = 4 * Bit(x, 4) + 2 * Bit(x, 2) + Bit(x, 1)
  BY SMTT(30) DEF Bit, Byte
<1>4. x % 16 = 8 * Bit(x, 8) + 4 * Bit(x, 4) + 2 * Bit(x, 2) + Bit(x, 1)
  BY SMTT(30) DEF Bit, Byte
<1>5. x % 32 = 16 * Bit(x, 16) + 8 * Bit(x, 8) + 4 * Bit(x, 4) + 2 * Bit(x, 2) + Bit(x, 1)
  BY SMTT(30) DEF Bit, Byte
<1>6. x % 64 = 32 * Bit(x, 32) + 16 * Bit(x, 16) + 8 * Bit(x, 8) + 4 * Bit(x, 4)
            + 2 * Bit(x, 2) + Bit(x, 1)
  BY SMTT(30) DEF Bit, Byte
<1>7. x % 128 = 64 * Bit(x, 64) + 32 * Bit(x, 32) + 16 * Bit(x, 16) + 8 * Bit(x, 8)
            + 4 * Bit(x, 4) + 2 * Bit(x, 2) + Bit(x, 1)
  BY SMTT(30) DEF Bit, Byte
<1> QED
  BY <1>1, <1>2, <1>3, <1>4, <1>5, <1>6, <1>7

(* BitAnd with a mask of the high bits, all but the h lowest ones.         *)
LEMMA HighBits ==
  ASSUME NEW x \in Byte
  PROVE  \A n \in PowersOfTwo : BitAnd(x, 256 - n) = x - (x % n)
<1>1. \A w \in Weights : Bit(x, w) \in {0, 1}
  BY BitsOfByte
<1>2. BitAnd(x, 255) = x - (x % 1)
  <2>1. \A w \in {1, 2, 4, 8, 16, 32, 64, 128} : Bit(255, w) = 1
    BY DEF Bit
  <2>2. BitAnd(x, 255) = 128 * Bit(x, 128) + 64 * Bit(x, 64) + 32 * Bit(x, 32) + 16 * Bit(x, 16)
          + 8 * Bit(x, 8) + 4 * Bit(x, 4) + 2 * Bit(x, 2) + Bit(x, 1)
    BY <1>1, <2>1, SMTT(30) DEF BitAnd, SumOfBits, Weights
  <2> QED
    BY <1>1, <2>2, BitsOfByte, LowBits, SMTT(30) DEF Weights
<1>3. BitAnd(x, 254) = x - (x % 2)
  <2>1. \A w \in {2, 4, 8, 16, 32, 64, 128} : Bit(254, w) = 1
    BY DEF Bit
  <2>2. \A w \in {1} : Bit(254, w) = 0
    BY DEF Bit
  <2>3. BitAnd(x, 254) = 128 * Bit(x, 128) + 64 * Bit(x, 64) + 32 * Bit(x, 32) + 16 * Bit(x, 16)
          + 8 * Bit(x, 8) + 4 * Bit(x, 4) + 2 * Bit(x, 2)
    BY <1>1, <2>1, <2>2, SMTT(30) DEF BitAnd, SumOfBits, Weights
  <2> QED
    BY <1>1, <2>3, BitsOfByte, LowBits, SMTT(30) DEF Weights
<1>4. BitAnd(x, 252) = x - (x % 4)
  <2>1. \A w \in {4, 8, 16, 32, 64, 128} : Bit(252, w) = 1
    BY DEF Bit
  <2>2. \A w \in {1, 2} : Bit(252, w) = 0
    BY DEF Bit
  <2>3. BitAnd(x, 252) = 128 * Bit(x, 128) + 64 * Bit(x, 64) + 32 * Bit(x, 32) + 16 * Bit(x, 16)
          + 8 * Bit(x, 8) + 4 * Bit(x, 4)
    BY <1>1, <2>1, <2>2, SMTT(30) DEF BitAnd, SumOfBits, Weights
  <2> QED
    BY <1>1, <2>3, BitsOfByte, LowBits, SMTT(30) DEF Weights
<1>5. BitAnd(x, 248) = x - (x % 8)
  <2>1. \A w \in {8, 16, 32, 64, 128} : Bit(248, w) = 1
    BY DEF Bit
  <2>2. \A w \in {1, 2, 4} : Bit(248, w) = 0
    BY DEF Bit
  <2>3. BitAnd(x, 248) = 128 * Bit(x, 128) + 64 * Bit(x, 64) + 32 * Bit(x, 32) + 16 * Bit(x, 16) + 8 * Bit(x, 8)
    BY <1>1, <2>1, <2>2, SMTT(30) DEF BitAnd, SumOfBits, Weights
  <2> QED
    BY <1>1, <2>3, BitsOfByte, LowBits, SMTT(30) DEF Weights
<1>6. BitAnd(x, 240) = x - (x % 16)
  <2>1. \A w \in {16, 32, 64, 128} : Bit(240, w) = 1
    BY DEF Bit
  <2>2. \A w \in {1, 2, 4, 8} : Bit(240, w) = 0
    BY DEF Bit
  <2>3. BitAnd(x, 240) = 128 * Bit(x, 128) + 64 * Bit(x, 64) + 32 * Bit(x, 32) + 16 * Bit(x, 16)
    BY <1>1, <2>1, <2>2, SMTT(30) DEF BitAnd, SumOfBits, Weights
  <2> QED
    BY <1>1, <2>3, BitsOfByte, LowBits, SMTT(30) DEF Weights
<1>7. BitAnd(x, 224) = x - (x % 32)
  <2>1. \A w \in {32, 64, 128} : Bit(224, w) = 1
    BY DEF Bit
  <2>2. \A w \in {1, 2, 4, 8, 16} : Bit(224, w) = 0
    BY DEF Bit
  <2>3. BitAnd(x, 224) = 128 * Bit(x, 128) + 64 * Bit(x, 64) + 32 * Bit(x, 32)
    BY <1>1, <2>1, <2>2, SMTT(30) DEF BitAnd, SumOfBits, Weights
  <2> QED
    BY <1>1, <2>3, BitsOfByte, LowBits, SMTT(30) DEF Weights
<1>8. BitAnd(x, 192) = x - (x % 64)
  <2>1. \A w \in {64, 128} : Bit(192, w) = 1
    BY DEF Bit
  <2>2. \A w \in {1, 2, 4, 8, 16, 32} : Bit(192, w) = 0
    BY DEF Bit
  <2>3. BitAnd(x, 192) = 128 * Bit(x, 128) + 64 * Bit(x, 64)
    BY <1>1, <2>1, <2>2, SMTT(30) DEF BitAnd, SumOfBits, Weights
  <2> QED
    BY <1>1, <2>3, BitsOfByte, LowBits, SMTT(30) DEF Weights
<1>9. BitAnd(x, 128) = x - (x % 128)
  <2>1. \A w \in {128} : Bit(128, w) = 1
    BY DEF Bit
  <2>2. \A w \in {1, 2, 4, 8, 16, 32, 64} : Bit(128, w) = 0
    BY DEF Bit
  <2>3. BitAnd(x, 128) = 128 * Bit(x, 128)
    BY <1>1, <2>1, <2>2, SMTT(30) DEF BitAnd, SumOfBits, Weights
  <2> QED
    BY <1>1, <2>3, BitsOfByte, LowBits, SMTT(30) DEF Weights
<1>10. BitAnd(x, 0) = x - (x % 256)
  <2>1. \A w \in {1, 2, 4, 8, 16, 32, 64, 128} : Bit(0, w) = 0
    BY DEF Bit
  <2>2. BitAnd(x, 0) = 0
    BY <1>1, <2>1, SMTT(30) DEF BitAnd, SumOfBits, Weights
  <2> QED
    BY <1>1, <2>2, BitsOfByte, LowBits, SMTT(30) DEF Weights
<1> QED
  BY <1>2, <1>3, <1>4, <1>5, <1>6, <1>7, <1>8, <1>9, <1>10 DEF PowersOfTwo

LEMMA XorZero ==
  ASSUME NEW x \in Byte PROVE BitXor(x, 0) = x
<1>1. \A w \in Weights : Bit(x, w) \in {0, 1} /\ Bit(0, w) = 0
  BY BitsOfByte DEF Bit, Weights
<1>2. BitXor(x, 0) = 128 * Bit(x, 128) + 64 * Bit(x, 64) + 32 * Bit(x, 32) + 16 * Bit(x, 16)
      + 8 * Bit(x, 8) + 4 * Bit(x, 4) + 2 * Bit(x, 2) + Bit(x, 1)
  BY <1>1, SMTT(30) DEF BitXor, SumOfBits, Weights
<1> QED
  BY <1>2, BitsOfByte

(* A mask of one bit.                                                      *)
LEMMA AndTwo ==
  ASSUME NEW x \in Byte PROVE BitAnd(x, 2) = 2 * Bit(x, 2)
<1>1. \A w \in Weights : Bit(x, w) \in {0, 1}
  BY BitsOfByte
<1>2. Bit(2, 2) = 1 /\ \A w \in {1, 4, 8, 16, 32, 64, 128} : Bit(2, w) = 0
  BY DEF Bit
<1> QED
  BY <1>1, <1>2, SMTT(30) DEF BitAnd, SumOfBits, Weights

LEMMA AndZero ==
  ASSUME NEW x PROVE BitAnd(x, 0) = 0
<1>1. \A w \in Weights : Bit(0, w) = 0
  BY DEF Bit, Weights
<1> QED
  BY <1>1, SMTT(30) DEF BitAnd, SumOfBits, Weights

LEMMA Powers ==
  ASSUME NEW h \in 0..8 PROVE 2 ^ h \in PowersOfTwo
<1>1. CASE h = 0
  BY <1>1 DEF PowersOfTwo
<1>2. CASE h = 1
  BY <1>2 DEF PowersOfTwo
<1>3. CASE h = 2
  BY <1>3 DEF PowersOfTwo
<1>4. CASE h = 3
  BY <1>4 DEF PowersOfTwo
<1>5. CASE h = 4
  BY <1>5 DEF PowersOfTwo
<1>6. CASE h = 5
  BY <1>6 DEF PowersOfTwo
<1>7. CASE h = 6
  BY <1>7 DEF PowersOfTwo
<1>8. CASE h = 7
  BY <1>8 DEF PowersOfTwo
<1>9. CASE h = 8
  BY <1>9 DEF PowersOfTwo
<1> QED
  BY <1>1, <1>2, <1>3, <1>4, <1>5, <1>6, <1>7, <1>8, <1>9

(* Two bytes agree above their low bits exactly when they are equal with   *)
(* the low bits cleared.                                                   *)
LEMMA ClearedEqual ==
  ASSUME NEW x \in Byte, NEW y \in Byte, NEW n \in PowersOfTwo
  PROVE  /\ x - (x % n) \in Byte
         /\ x - (x % n) = y - (y % n) <=> x \div n = y \div n
<1>1. CASE n = 1
  BY <1>1, SMTT(30) DEF Byte
<1>2. CASE n = 2
  BY <1>2, SMTT(30) DEF Byte
<1>3. CASE n = 4
  BY <1>3, SMTT(30) DEF Byte
<1>4. CASE n = 8
  BY <1>4, SMTT(30) DEF Byte
<1>5. CASE n = 16
  BY <1>5, SMTT(30) DEF Byte
<1>6. CASE n = 32
  BY <1>6, SMTT(30) DEF Byte
<1>7. CASE n = 64
  BY <1>7, SMTT(30) DEF Byte
<1>8. CASE n = 128
  BY <1>8, SMTT(30) DEF Byte
<1>9. CASE n = 256
  BY <1>9, SMTT(30) DEF Byte
<1> QED
  BY <1>1, <1>2, <1>3, <1>4, <1>5, <1>6, <1>7, <1>8, <1>9 DEF PowersOfTwo

(* One octet of a network test: mask it, xor with zero, compare.           *)
LEMMA MaskedOctet ==
  ASSUME NEW x \in Byte, NEW y \in Byte, NEW h \in 0..8
  PROVE  BitXor(BitAnd(x, 256 - 2 ^ h), 0) = y - (y % (2 ^ h)) <=> x \div (2 ^ h) = y \div (2 ^ h)
<1> DEFINE n == 2 ^ h
<1>1. n \in PowersOfTwo
  BY Powers, Zenon
<1> HIDE DEF n
<1>2. BitAnd(x, 256 - n) = x - (x % n) /\ x - (x % n) \in Byte
  <2>1. BitAnd(x, 256 - n) = x - (x % n)
    BY <1>1, HighBits, Zenon
  <2>2. x - (x % n) \in Byte
    BY <1>1, ClearedEqual, Zenon
  <2> QED
    BY <2>1, <2>2
<1>3. BitXor(BitAnd(x, 256 - n), 0) = x - (x % n)
  BY <1>2, XorZero
<1>4. BitXor(BitAnd(x, 256 - n), 0) = y - (y % n) <=> x \div n = y \div n
  <2>1. x - (x % n) = y - (y % n) <=> x \div n = y \div n
    BY <1>1, ClearedEqual, Zenon
  <2> QED
    BY <2>1, <1>3, Zenon
<1> QED
  BY <1>4 DEF n

-----------------------------------------------------------------------------
(* States of the machine.                                                  *)

Registers == {"Reg1", "Reg2", "Reg3", "Reg4"}

IsMachine(m) ==
  /\ m = [regs |-> m.regs, verdict |-> m.verdict, nat |-> m.nat, mss |-> m.mss, logs |-> m.logs,
          counted |-> m.counted]
  /\ m.regs = [r \in Registers |-> m.regs[r]]

(* r is m but for the registers and the verdict.                           *)
Same(m, r) ==
  IsMachine(r) /\ r.nat = m.nat /\ r.mss = m.mss /\ r.logs = m.logs /\ r.counted = m.counted

(* And the rule goes on exactly when `matches`.                            *)
Outcome(m, r, matches) ==
  /\ Same(m, r)
  /\ matches => r.verdict = "Continue"
  /\ ~matches => r.verdict = "Break"

Going(m) == IsMachine(m) /\ m.verdict = "Continue"

LEMMA StartGoes ==
  ASSUME NEW p PROVE Going(Start(p))
BY DEF Going, IsMachine, Start, Registers

LEMMA LoadGoes ==
  ASSUME NEW m, Going(m), NEW r \in Registers, NEW bytes
  PROVE  /\ Going(Load(m, r, bytes)) /\ Load(m, r, bytes).regs[r] = bytes
         /\ \A s \in Registers : s # r => Load(m, r, bytes).regs[s] = m.regs[s]
         /\ Same(m, Load(m, r, bytes))
<1> DEFINE n == Load(m, r, bytes)
<1>1. /\ n = [regs |-> [m.regs EXCEPT ![r] = bytes], verdict |-> m.verdict, nat |-> m.nat, mss |-> m.mss,
              logs |-> m.logs, counted |-> m.counted]
      /\ m.regs = [s \in Registers |-> m.regs[s]] /\ m.verdict = "Continue"
  BY DEF Load, Going, IsMachine
<1> HIDE DEF n
<1>2. n.regs = [s \in Registers |-> IF s = r THEN bytes ELSE m.regs[s]]
  BY <1>1
<1> QED
  BY <1>1, <1>2 DEF Going, IsMachine, Same, n

IsSequence(s) == \E S : s \in Seq(S)

LEMMA SequenceConcat ==
  ASSUME NEW a, NEW b, IsSequence(a), IsSequence(b)
  PROVE  /\ IsSequence(a \o b)
         /\ \A m, p, sets : RunFrom(m, a \o b, p, sets) = RunFrom(RunFrom(m, a, p, sets), b, p, sets)
<1>1. PICK S : a \in Seq(S)
  BY DEF IsSequence
<1>2. PICK T : b \in Seq(T)
  BY DEF IsSequence
<1> DEFINE U == S \cup T
<1>3. a \in Seq(U) /\ b \in Seq(U)
  BY <1>1, <1>2
<1> HIDE DEF U
<1>4. a \o b \in Seq(U)
  BY <1>3
<1>5. ASSUME NEW m, NEW p, NEW sets
      PROVE  RunFrom(m, a \o b, p, sets) = RunFrom(RunFrom(m, a, p, sets), b, p, sets)
  BY <1>3, RunConcat, SMTT(20)
<1> QED
  BY <1>4, <1>5 DEF IsSequence

LEMMA ShortSequences ==
  /\ \A e : IsSequence(<<e>>)
  /\ \A e1, e2 : IsSequence(<<e1, e2>>)
  /\ \A e1, e2, e3 : IsSequence(<<e1, e2, e3>>)
<1>1. ASSUME NEW e PROVE IsSequence(<<e>>)
  <2>1. <<e>> \in Seq({e})
    OBVIOUS
  <2> QED
    BY <2>1, Zenon DEF IsSequence
<1>2. ASSUME NEW e1, NEW e2 PROVE IsSequence(<<e1, e2>>)
  <2>1. <<e1, e2>> \in Seq({e1, e2})
    OBVIOUS
  <2> QED
    BY <2>1, Zenon DEF IsSequence
<1>3. ASSUME NEW e1, NEW e2, NEW e3 PROVE IsSequence(<<e1, e2, e3>>)
  <2>1. <<e1, e2, e3>> \in Seq({e1, e2, e3})
    OBVIOUS
  <2> QED
    BY <2>1, Zenon DEF IsSequence
<1> QED
  BY <1>1, <1>2, <1>3

(* Behind a verdict or a comparison that failed nothing changes.           *)
LEMMA RunStopped ==
  ASSUME NEW m, m.verdict # "Continue", NEW exprs, IsSequence(exprs), NEW p, NEW sets
  PROVE  RunFrom(m, exprs, p, sets) = m
<1>1. Len(exprs) \in Nat
  BY SequenceLen DEF IsSequence
<1>2. PICK f : IsRun(f, Len(exprs), m, exprs, p, sets) /\ RunFrom(m, exprs, p, sets) = f[Len(exprs)]
  BY <1>1, RunFromStates, ZenonT(30)
<1> DEFINE S == {i \in Nat : i <= Len(exprs) => f[i] = m}
<1>3. 0 \in S
  BY <1>1, <1>2 DEF IsRun
<1>4. ASSUME NEW i \in Nat, i \in S PROVE i + 1 \in S
  <2> SUFFICES ASSUME i + 1 <= Len(exprs) PROVE f[i + 1] = m
    OBVIOUS
  <2>1. f[i] = m /\ i + 1 \in 0..Len(exprs) /\ i + 1 # 0 /\ (i + 1) - 1 = i
    BY <1>1, <1>4
  <2>2. f[i + 1] = Step(f[i], exprs[i + 1], p, sets)
    BY <2>1, <1>2 DEF IsRun
  <2> QED
    BY <2>1, <2>2, ZenonT(30) DEF Step
<1> HIDE DEF S
<1>5. Nat \subseteq S
  BY <1>3, <1>4, NaturalInduction
<1> QED
  BY <1>1, <1>2, <1>5 DEF S

(* Two tests in a row.                                                     *)
LEMMA OutcomeConcat ==
  ASSUME NEW m, NEW a, NEW b, NEW p, NEW sets, NEW first, NEW second, Going(m),
         IsSequence(a), IsSequence(b), Outcome(m, RunFrom(m, a, p, sets), first),
         \A n : first /\ Going(n) => Outcome(n, RunFrom(n, b, p, sets), second)
  PROVE  Outcome(m, RunFrom(m, a \o b, p, sets), first /\ second)
<1> DEFINE n == RunFrom(m, a, p, sets)
           r == RunFrom(n, b, p, sets)
<1>1. RunFrom(m, a \o b, p, sets) = r
  BY SequenceConcat
<1>2. Outcome(m, n, first)
  OBVIOUS
<1>3. first => Outcome(n, r, second)
  <2>1. first => Going(n)
    BY <1>2 DEF Outcome, Same, Going
  <2> HIDE DEF n
  <2> QED
    BY <2>1
<1>4. ~first => r = n
  <2>1. ~first => n.verdict # "Continue"
    BY <1>2 DEF Outcome
  <2> HIDE DEF n
  <2> QED
    BY <2>1, RunStopped
<1> HIDE DEF n, r
<1>5. Outcome(m, r, first /\ second)
  BY <1>2, <1>3, <1>4 DEF Outcome, Same
<1> QED
  BY <1>1, <1>5

-----------------------------------------------------------------------------
(* A load of Reg1 and the comparison behind it.                            *)

(* The first n bytes, as Take reads them from a register.                  *)
Front(bytes, n) == [i \in 1..n |-> IF i <= Len(bytes) THEN bytes[i] ELSE 0]

LEMMA CmpOutcome ==
  ASSUME NEW m, Going(m), NEW bytes, NEW op \in {"Eq", "Neq"}, NEW data, NEW p, NEW sets
  PROVE  Outcome(m, Step(Load(m, "Reg1", bytes), Cmp(op, data), p, sets),
                 Front(bytes, Len(data)) = data <=> op = "Eq")
<1> DEFINE n == Load(m, "Reg1", bytes)
           equal == Front(bytes, Len(data)) = data
<1>1. Going(n) /\ n.regs["Reg1"] = bytes /\ Same(m, n)
  <2>1. "Reg1" \in Registers
    BY SMTT(30) DEF Registers
  <2> QED
    BY <2>1, LoadGoes
<1> HIDE DEF n
<1>2. Step(n, Cmp(op, data), p, sets) = RunCmp(n, Cmp(op, data))
  BY <1>1, ZenonT(30) DEF Step, Cmp, Going
<1>3. RunCmp(n, Cmp(op, data)) = IF equal <=> op = "Eq" THEN n ELSE Break(n)
  BY <1>1 DEF RunCmp, Cmp, Take, Front
<1>4. IsMachine(Break(n)) /\ Outcome(m, Break(n), FALSE)
  BY <1>1 DEF Break, Outcome, Same, Going, IsMachine
<1> HIDE DEF equal
<1> QED
  BY <1>1, <1>2, <1>3, <1>4 DEF Outcome, Same, Going, n, equal

(* A meta load and a comparison.                                           *)
LEMMA MetaCmp ==
  ASSUME NEW m, Going(m), NEW key, NEW op \in {"Eq", "Neq"}, NEW data, NEW p, NEW sets
  PROVE  Outcome(m, RunFrom(m, <<Meta(key), Cmp(op, data)>>, p, sets),
                 Front(MetaBytes(p, key), Len(data)) = data <=> op = "Eq")
<1>1. Step(m, Meta(key), p, sets) = Load(m, "Reg1", MetaBytes(p, key))
  BY DEF Step, Meta, Going
<1>2. RunFrom(m, <<Meta(key), Cmp(op, data)>>, p, sets)
        = Step(Load(m, "Reg1", MetaBytes(p, key)), Cmp(op, data), p, sets)
  BY <1>1, RunTwo
<1> QED
  BY <1>2, CmpOutcome, SMTT(30)

(* Front of a byte string that is as long as the other one.                *)
LEMMA FrontEqual ==
  ASSUME NEW S, NEW a \in Seq(S), NEW b \in Seq(S), Len(a) = Len(b)
  PROVE  Front(a, Len(b)) = b <=> a = b
<1>1. Len(a) \in Nat /\ DOMAIN a = 1..Len(a) /\ DOMAIN b = 1..Len(b)
  BY SequenceLen
<1>2. Front(a, Len(b)) = [i \in 1..Len(a) |-> a[i]]
  BY <1>1 DEF Front
<1>3. Front(a, Len(b)) = a
  BY <1>1, <1>2
<1> QED
  BY <1>3

LEMMA ZerosSeq ==
  ASSUME NEW n \in Nat
  PROVE  Zeros(n) \in Seq(Nat) /\ Len(Zeros(n)) = n
<1>1. Zeros(n) \in [1..n -> Nat]
  BY DEF Zeros
<1>2. Zeros(n) \in Seq(Nat)
  BY <1>1, SequencesAre
<1>3. 1..n = 1..Len(Zeros(n)) /\ Len(Zeros(n)) \in Nat
  BY <1>1, <1>2, SequenceLen
<1> QED
  BY <1>2, <1>3

(* A byte string of a given length.                                        *)
LEMMA OctetString ==
  ASSUME NEW n \in Nat, NEW a \in [1..n -> Byte]
  PROVE  a \in Seq(Nat) /\ a \in Seq(Byte) /\ Len(a) = n
<1>1. a \in [1..n -> Nat]
  BY DEF Byte
<1>2. a \in Seq(Byte) /\ a \in Seq(Nat)
  BY <1>1, SequencesAre
<1>3. 1..n = 1..Len(a) /\ Len(a) \in Nat
  BY <1>2, SequenceLen
<1> QED
  BY <1>2, <1>3

(* A byte string of n bytes; and the bytes t at first..last of s.          *)
IsBytes(s, n) == s \in Seq(Nat) /\ n \in Nat /\ Len(s) = n

LiesAt(s, first, last, t) ==
  /\ s \in Seq(Nat) /\ first \in Nat /\ last \in Nat /\ 1 <= first /\ last <= Len(s)
  /\ SubSeq(s, first, last) = t

LEMMA BytesConcat ==
  ASSUME NEW a, NEW b, NEW i, NEW j, IsBytes(a, i), IsBytes(b, j)
  PROVE  IsBytes(a \o b, i + j)
<1>1. a \in Seq(Nat) /\ b \in Seq(Nat) /\ Len(a) = i /\ Len(b) = j /\ i \in Nat /\ j \in Nat
  BY DEF IsBytes
<1>2. a \o b \in Seq(Nat) /\ Len(a \o b) = Len(a) + Len(b)
  <2>1. a \in Seq(Nat) /\ b \in Seq(Nat)
    BY <1>1
  <2> QED
    BY <2>1, ConcatIs, Zenon
<1>3. i + j \in Nat
  BY <1>1
<1> QED
  BY <1>1, <1>2, <1>3, Zenon DEF IsBytes

LEMMA SubSeqIs ==
  ASSUME NEW s \in Seq(Nat), NEW i \in Nat, NEW j \in Nat
  PROVE  SubSeq(s, i, j) = [k \in 1..(j - i + 1) |-> s[k + i - 1]]
OBVIOUS

LEMMA WholeLies ==
  ASSUME NEW s, NEW n, IsBytes(s, n)
  PROVE  LiesAt(s, 1, n, s)
<1>1. s \in Seq(Nat) /\ n \in Nat /\ Len(s) = n
  BY DEF IsBytes
<1>2. s \in Seq(Nat) => SubSeq(s, 1, Len(s)) = s
  BY SequenceLen
<1>3. n <= n /\ 1 <= 1 /\ 1 \in Nat
  BY <1>1
<1> QED
  BY <1>1, <1>2, <1>3, Zenon DEF LiesAt

LEMMA LiesBefore ==
  ASSUME NEW a, NEW b \in Seq(Nat), NEW i, NEW j, NEW t, LiesAt(a, i, j, t)
  PROVE  LiesAt(a \o b, i, j, t)
<1>1. a \in Seq(Nat) /\ i \in Nat /\ j \in Nat /\ 1 <= i /\ j <= Len(a) /\ SubSeq(a, i, j) = t
  BY DEF LiesAt
<1> DEFINE s == a \o b
<1>2. /\ s \in Seq(Nat) /\ Len(s) = Len(a) + Len(b) /\ Len(a) \in Nat /\ Len(b) \in Nat
      /\ \A k \in 1..Len(a) : s[k] = a[k]
  BY <1>1, ConcatIs, SequenceLen
<1> HIDE DEF s
<1>3. j <= Len(s)
  BY <1>1, <1>2
<1>4. SubSeq(s, i, j) = [k \in 1..(j - i + 1) |-> s[k + i - 1]]
  BY <1>1, <1>2, SubSeqIs, ZenonT(30)
<1>5. SubSeq(a, i, j) = [k \in 1..(j - i + 1) |-> a[k + i - 1]]
  BY <1>1, SubSeqIs, Zenon
<1>6. \A k \in 1..(j - i + 1) : s[k + i - 1] = a[k + i - 1]
  <2> TAKE k \in 1..(j - i + 1)
  <2>1. k + i - 1 \in 1..Len(a)
    BY <1>1, <1>2
  <2> QED
    BY <1>2, <2>1
<1>7. SubSeq(s, i, j) = t
  BY <1>1, <1>4, <1>5, <1>6, Zenon
<1> QED
  BY <1>1, <1>2, <1>3, <1>7 DEF LiesAt, s

LEMMA LiesBehind ==
  ASSUME NEW a, NEW n, IsBytes(a, n), NEW b, NEW i, NEW j, NEW t, LiesAt(b, i, j, t)
  PROVE  LiesAt(a \o b, n + i, n + j, t)
<1>1. b \in Seq(Nat) /\ i \in Nat /\ j \in Nat /\ 1 <= i /\ j <= Len(b) /\ SubSeq(b, i, j) = t
  BY DEF LiesAt
<1>2. a \in Seq(Nat) /\ n \in Nat /\ Len(a) = n
  BY DEF IsBytes
<1> DEFINE s == a \o b
           l == Len(a)
<1>3. /\ s \in Seq(Nat) /\ Len(s) = l + Len(b) /\ l \in Nat /\ Len(b) \in Nat
      /\ \A k \in 1..Len(b) : s[l + k] = b[k]
  <2>1. a \in Seq(Nat)
    BY <1>2
  <2> QED
    BY <1>1, <2>1, ConcatIs, SequenceLen
<1> HIDE DEF s, l
<1>4. l + j <= Len(s) /\ l + i \in Nat /\ l + j \in Nat /\ 1 <= l + i
  BY <1>1, <1>3
<1>5. SubSeq(s, l + i, l + j) = [k \in 1..((l + j) - (l + i) + 1) |-> s[k + (l + i) - 1]]
  BY <1>3, <1>4, SubSeqIs, Zenon
<1>6. SubSeq(b, i, j) = [k \in 1..(j - i + 1) |-> b[k + i - 1]]
  BY <1>1, SubSeqIs, Zenon
<1>7. \A k \in 1..(j - i + 1) : s[k + (l + i) - 1] = b[k + i - 1]
  <2> TAKE k \in 1..(j - i + 1)
  <2>1. k + i - 1 \in 1..Len(b) /\ k + (l + i) - 1 = l + (k + i - 1)
    BY <1>1, <1>3
  <2> QED
    BY <1>3, <2>1, ZenonT(30)
<1>8. 1..((l + j) - (l + i) + 1) = 1..(j - i + 1)
  BY <1>1, <1>3
<1>9. SubSeq(s, l + i, l + j) = t
  BY <1>1, <1>5, <1>6, <1>7, <1>8, Zenon
<1>10. LiesAt(s, l + i, l + j, t)
  BY <1>3, <1>4, <1>9, Zenon DEF LiesAt
<1> QED
  BY <1>2, <1>10, Zenon DEF s, l

LEMMA ShortBytes ==
  /\ \A n \in Nat : IsBytes(Zeros(n), n)
  /\ \A x \in Nat : IsBytes(<<x>>, 1)
  /\ \A x, y \in Nat : IsBytes(<<x, y>>, 2)
  /\ \A n \in Nat : \A a \in [1..n -> Byte] : IsBytes(a, n)
<1>1. \A n \in Nat : IsBytes(Zeros(n), n)
  BY ZerosSeq, Zenon DEF IsBytes
<1>2. \A n \in Nat : \A a \in [1..n -> Byte] : IsBytes(a, n)
  BY OctetString, Zenon DEF IsBytes
<1>3. ASSUME NEW x \in Nat PROVE IsBytes(<<x>>, 1)
  <2>1. <<x>> \in Seq(Nat) /\ 1 \in Nat /\ Len(<<x>>) = 1
    OBVIOUS
  <2> QED
    BY <2>1, Zenon DEF IsBytes
<1>4. ASSUME NEW x \in Nat, NEW y \in Nat PROVE IsBytes(<<x, y>>, 2)
  <2>1. <<x, y>> \in Seq(Nat) /\ 2 \in Nat /\ Len(<<x, y>>) = 2
    OBVIOUS
  <2> QED
    BY <2>1, Zenon DEF IsBytes
<1> QED
  BY <1>1, <1>2, <1>3, <1>4

LEMMA FourBytes ==
  ASSUME NEW x \in Nat
  PROVE  IsBytes(<<64, x, 0, 0>>, 4) /\ LiesAt(<<64, x, 0, 0>>, 2, 2, <<x>>)
<1> DEFINE b == <<64, x, 0, 0>>
<1>1. b \in Seq(Nat) /\ 2 \in Nat /\ 4 \in Nat /\ 1 <= 2 /\ 2 <= 4
  OBVIOUS
<1>2. Len(b) = 4 /\ b[2] = x
  OBVIOUS
<1> HIDE DEF b
<1>3. SubSeq(b, 2, 2) = [k \in 1..(2 - 2 + 1) |-> b[k + 2 - 1]]
  BY <1>1, SubSeqIs, Zenon
<1>4. SubSeq(b, 2, 2) = <<x>>
  <2>1. 1..(2 - 2 + 1) = 1..1 /\ \A k \in 1..1 : k + 2 - 1 = 2
    OBVIOUS
  <2>2. SubSeq(b, 2, 2) = [k \in 1..1 |-> x]
    BY <1>2, <1>3, <2>1
  <2>3. [k \in 1..1 |-> x] = <<x>>
    OBVIOUS
  <2> QED
    BY <2>2, <2>3, Zenon
<1> QED
  BY <1>1, <1>2, <1>4, Zenon DEF IsBytes, LiesAt, b

(* The addresses and the protocol of an IPv4 packet, in its header.        *)
LEMMA Ipv4Header ==
  ASSUME NEW p, IsPacket(p), p.nfproto = NFPROTO_IPV4
  PROVE  /\ LiesAt(NetworkHeader(p), 13, 16, p.saddr) /\ IsBytes(p.saddr, 4)
         /\ LiesAt(NetworkHeader(p), 17, 20, p.daddr) /\ IsBytes(p.daddr, 4)
         /\ LiesAt(NetworkHeader(p), 10, 10, <<p.l4>>)
<1>1. IsBytes(p.saddr, 4) /\ IsBytes(p.daddr, 4)
  <2>1. p.saddr \in [1..4 -> Byte] /\ p.daddr \in [1..4 -> Byte]
    BY DEF IsPacket, HasAddresses, NFPROTO_IPV4, NFPROTO_IPV6
  <2> QED
    BY <2>1, ShortBytes, Zenon
<1>2. p.l4 \in Nat
  BY DEF IsPacket, HasNumbers, Byte
<1> DEFINE z == Zeros(8)
           b == <<64, p.l4, 0, 0>>
           s == p.saddr
           d == p.daddr
<1>3. NetworkHeader(p) = z \o b \o s \o d
  BY DEF NetworkHeader
<1>4. IsBytes(z, 8)
  BY ShortBytes
<1>5. IsBytes(b, 4) /\ LiesAt(b, 2, 2, <<p.l4>>)
  BY <1>2, FourBytes
<1>6. s \in Seq(Nat) /\ d \in Seq(Nat) /\ IsBytes(s, 4) /\ IsBytes(d, 4)
  BY <1>1, Zenon DEF IsBytes
<1> HIDE DEF z, b, s, d
<1>7. IsBytes(z \o b, 12) /\ LiesAt(z \o b, 10, 10, <<p.l4>>)
  <2>1. IsBytes(z \o b, 8 + 4) /\ LiesAt(z \o b, 8 + 2, 8 + 2, <<p.l4>>)
    BY <1>4, <1>5, BytesConcat, LiesBehind, Zenon
  <2> QED
    BY <2>1
<1>8. IsBytes(z \o b \o s, 16) /\ LiesAt(z \o b \o s, 10, 10, <<p.l4>>) /\ LiesAt(z \o b \o s, 13, 16, s)
  <2>1. /\ IsBytes(z \o b \o s, 12 + 4) /\ LiesAt(z \o b \o s, 10, 10, <<p.l4>>)
        /\ LiesAt(z \o b \o s, 12 + 1, 12 + 4, s)
    BY <1>6, <1>7, BytesConcat, WholeLies, LiesBehind, LiesBefore, Zenon
  <2> QED
    BY <2>1
<1>9. /\ LiesAt(z \o b \o s \o d, 10, 10, <<p.l4>>) /\ LiesAt(z \o b \o s \o d, 13, 16, s)
      /\ LiesAt(z \o b \o s \o d, 17, 20, d)
  <2>1. /\ LiesAt(z \o b \o s \o d, 10, 10, <<p.l4>>) /\ LiesAt(z \o b \o s \o d, 13, 16, s)
        /\ LiesAt(z \o b \o s \o d, 16 + 1, 16 + 4, d)
    BY <1>6, <1>8, WholeLies, LiesBehind, LiesBefore, Zenon
  <2> QED
    BY <2>1
<1> QED
  BY <1>1, <1>3, <1>9 DEF s, d

(* The addresses of an IPv6 packet.                                        *)
LEMMA Ipv6Header ==
  ASSUME NEW p, IsPacket(p), p.nfproto = NFPROTO_IPV6
  PROVE  /\ LiesAt(NetworkHeader(p), 9, 24, p.saddr) /\ IsBytes(p.saddr, 16)
         /\ LiesAt(NetworkHeader(p), 25, 40, p.daddr) /\ IsBytes(p.daddr, 16)
<1>1. IsBytes(p.saddr, 16) /\ IsBytes(p.daddr, 16)
  <2>1. p.saddr \in [1..16 -> Byte] /\ p.daddr \in [1..16 -> Byte]
    BY DEF IsPacket, HasAddresses, NFPROTO_IPV4, NFPROTO_IPV6
  <2> QED
    BY <2>1, ShortBytes, Zenon
<1>2. p.l4 \in Nat
  BY DEF IsPacket, HasNumbers, Byte
<1> DEFINE z == Zeros(6)
           b == <<p.l4, 64>>
           s == p.saddr
           d == p.daddr
<1>3. NetworkHeader(p) = z \o b \o s \o d
  BY DEF NetworkHeader, NFPROTO_IPV4, NFPROTO_IPV6
<1>4. IsBytes(z, 6) /\ IsBytes(b, 2)
  BY <1>2, ShortBytes
<1>5. s \in Seq(Nat) /\ d \in Seq(Nat) /\ IsBytes(s, 16) /\ IsBytes(d, 16)
  BY <1>1, Zenon DEF IsBytes
<1> HIDE DEF z, b, s, d
<1>6. IsBytes(z \o b, 8)
  <2>1. IsBytes(z \o b, 6 + 2)
    BY <1>4, BytesConcat, Zenon
  <2> QED
    BY <2>1
<1>7. IsBytes(z \o b \o s, 24) /\ LiesAt(z \o b \o s, 9, 24, s)
  <2>1. IsBytes(z \o b \o s, 8 + 16) /\ LiesAt(z \o b \o s, 8 + 1, 8 + 16, s)
    BY <1>5, <1>6, BytesConcat, WholeLies, LiesBehind, Zenon
  <2> QED
    BY <2>1
<1>8. LiesAt(z \o b \o s \o d, 9, 24, s) /\ LiesAt(z \o b \o s \o d, 25, 40, d)
  <2>1. LiesAt(z \o b \o s \o d, 9, 24, s) /\ LiesAt(z \o b \o s \o d, 24 + 1, 24 + 16, d)
    BY <1>5, <1>7, WholeLies, LiesBehind, LiesBefore, Zenon
  <2> QED
    BY <2>1
<1> QED
  BY <1>1, <1>3, <1>8 DEF s, d

LEMMA BE16Bytes ==
  ASSUME NEW n \in Nat PROVE IsBytes(BE16(n), 2)
<1>1. n \div 256 \in Nat /\ n % 256 \in Nat
  OBVIOUS
<1> QED
  BY <1>1, ShortBytes DEF BE16

(* The destination port of a TCP or UDP packet, and the flags of TCP.      *)
LEMMA TcpHeader ==
  ASSUME NEW p, IsPacket(p), p.l4 = IPPROTO.TCP
  PROVE  /\ LiesAt(TransportHeader(p), 3, 4, BE16(p.dport))
         /\ LiesAt(TransportHeader(p), 14, 14, <<p.flags>>)
<1>1. p.sport \in Nat /\ p.dport \in Nat /\ p.flags \in Nat
  BY DEF IsPacket, HasNumbers, Word, Byte
<1> DEFINE s == BE16(p.sport)
           d == BE16(p.dport)
           z == Zeros(9)
           f == <<p.flags>>
           e == Zeros(6)
<1>2. TransportHeader(p) = s \o d \o z \o f \o e
  <2>1. IPPROTO.TCP # IPPROTO.UDP
    BY DEF IPPROTO
  <2> QED
    BY <2>1, Zenon DEF TransportHeader
<1>3. IsBytes(s, 2) /\ IsBytes(d, 2) /\ IsBytes(z, 9) /\ IsBytes(f, 1) /\ IsBytes(e, 6)
  BY <1>1, ShortBytes, BE16Bytes
<1>4. d \in Seq(Nat) /\ z \in Seq(Nat) /\ f \in Seq(Nat) /\ e \in Seq(Nat)
  BY <1>3, Zenon DEF IsBytes
<1> HIDE DEF s, d, z, f, e
<1>5. IsBytes(s \o d, 4) /\ LiesAt(s \o d, 3, 4, d)
  <2>1. IsBytes(s \o d, 2 + 2) /\ LiesAt(s \o d, 2 + 1, 2 + 2, d)
    BY <1>3, BytesConcat, WholeLies, LiesBehind, Zenon
  <2> QED
    BY <2>1
<1>6. IsBytes(s \o d \o z, 13) /\ LiesAt(s \o d \o z, 3, 4, d)
  <2>1. IsBytes(s \o d \o z, 4 + 9) /\ LiesAt(s \o d \o z, 3, 4, d)
    BY <1>3, <1>4, <1>5, BytesConcat, LiesBefore, Zenon
  <2> QED
    BY <2>1
<1>7. LiesAt(s \o d \o z \o f, 3, 4, d) /\ LiesAt(s \o d \o z \o f, 14, 14, f)
  <2>1. LiesAt(s \o d \o z \o f, 3, 4, d) /\ LiesAt(s \o d \o z \o f, 13 + 1, 13 + 1, f)
    BY <1>3, <1>4, <1>6, WholeLies, LiesBehind, LiesBefore, Zenon
  <2> QED
    BY <2>1
<1>8. LiesAt(s \o d \o z \o f \o e, 3, 4, d) /\ LiesAt(s \o d \o z \o f \o e, 14, 14, f)
  BY <1>4, <1>7, LiesBefore, Zenon
<1> QED
  BY <1>2, <1>8 DEF d, f

LEMMA UdpHeader ==
  ASSUME NEW p, IsPacket(p), p.l4 = IPPROTO.UDP
  PROVE  LiesAt(TransportHeader(p), 3, 4, BE16(p.dport))
<1>1. p.sport \in Nat /\ p.dport \in Nat /\ p.body \in Seq(Nat)
  <2>1. p.body \in Seq(Byte)
    BY DEF IsPacket
  <2>2. p.body \in Seq(Nat)
    BY <2>1 DEF Byte
  <2> QED
    BY <2>2 DEF IsPacket, HasNumbers, Word
<1> DEFINE s == BE16(p.sport)
           d == BE16(p.dport)
           l == BE16(8 + Len(p.body))
           z == Zeros(2)
           e == p.body
<1>2. TransportHeader(p) = s \o d \o l \o z \o e
  <2>1. IPPROTO.TCP # IPPROTO.UDP
    BY DEF IPPROTO
  <2> QED
    BY <2>1, Zenon DEF TransportHeader
<1>3. IsBytes(s, 2) /\ IsBytes(d, 2) /\ IsBytes(l, 2) /\ IsBytes(z, 2)
  <2>1. 8 + Len(p.body) \in Nat
    BY <1>1, SequenceLen
  <2> QED
    BY <1>1, <2>1, ShortBytes, BE16Bytes
<1>4. d \in Seq(Nat) /\ l \in Seq(Nat) /\ z \in Seq(Nat) /\ e \in Seq(Nat)
  BY <1>1, <1>3, Zenon DEF IsBytes
<1> HIDE DEF s, d, l, z, e
<1>5. LiesAt(s \o d, 3, 4, d)
  <2>1. LiesAt(s \o d, 2 + 1, 2 + 2, d)
    BY <1>3, WholeLies, LiesBehind, Zenon
  <2> QED
    BY <2>1
<1>6. LiesAt(s \o d \o l \o z \o e, 3, 4, d)
  BY <1>4, <1>5, LiesBefore, Zenon
<1> QED
  BY <1>2, <1>6 DEF d

(* A load of header bytes that are there, and a comparison.                *)
LEMMA PayloadLoad ==
  ASSUME NEW m, Going(m), NEW e, e.expr = "payload", e.dreg = "Reg1", NEW p, NEW sets, NEW t,
         NEW first, first = e.offset + 1, NEW last, last = e.offset + e.len, LiesAt(HeaderBytes(p, e.base), first, last, t)
  PROVE  Step(m, e, p, sets) = Load(m, "Reg1", t)
<1>1. Step(m, e, p, sets) = RunPayload(m, e, p)
  BY DEF Step, Going
<1> DEFINE bytes == HeaderBytes(p, e.base)
<1>2. bytes \in Seq(Nat) /\ last \in Nat /\ last <= Len(bytes) /\ SubSeq(bytes, first, last) = t
  BY DEF LiesAt
<1>3. Len(bytes) \in Nat /\ ~(last > Len(bytes))
  BY <1>2, SequenceLen
<1> HIDE DEF bytes
<1> QED
  BY <1>1, <1>2, <1>3, ZenonT(30) DEF RunPayload, bytes

(* The payload expressions that the methods build.                         *)
LEMMA Builds ==
  /\ Build("IPv4", "Saddr") = PayloadRaw("NFT_PAYLOAD_NETWORK_HEADER", 12, 4, "Reg1")
  /\ Build("IPv4", "Daddr") = PayloadRaw("NFT_PAYLOAD_NETWORK_HEADER", 16, 4, "Reg1")
  /\ Build("IPv4", "Protocol") = PayloadRaw("NFT_PAYLOAD_NETWORK_HEADER", 9, 1, "Reg1")
  /\ Build("IPv6", "Saddr") = PayloadRaw("NFT_PAYLOAD_NETWORK_HEADER", 8, 16, "Reg1")
  /\ Build("IPv6", "Daddr") = PayloadRaw("NFT_PAYLOAD_NETWORK_HEADER", 24, 16, "Reg1")
  /\ Build("Tcp", "Dport") = PayloadRaw("NFT_PAYLOAD_TRANSPORT_HEADER", 2, 2, "Reg1")
  /\ Build("Udp", "Dport") = PayloadRaw("NFT_PAYLOAD_TRANSPORT_HEADER", 2, 2, "Reg1")
<1>1. /\ Base("IPv4") = "NFT_PAYLOAD_NETWORK_HEADER" /\ Base("IPv6") = "NFT_PAYLOAD_NETWORK_HEADER"
      /\ Base("Tcp") = "NFT_PAYLOAD_TRANSPORT_HEADER" /\ Base("Udp") = "NFT_PAYLOAD_TRANSPORT_HEADER"
  BY DEF Base
<1>2. /\ HeaderField["IPv4"] = IPv4HeaderField /\ HeaderField["IPv6"] = IPv6HeaderField
      /\ HeaderField["Tcp"] = TCPHeaderField /\ HeaderField["Udp"] = UDPHeaderField
  BY DEF HeaderField
<1>3. /\ IPv4HeaderField["Saddr"] = At(12, 4) /\ IPv4HeaderField["Daddr"] = At(16, 4)
      /\ IPv4HeaderField["Protocol"] = At(9, 1)
      /\ IPv6HeaderField["Saddr"] = At(8, 16) /\ IPv6HeaderField["Daddr"] = At(24, 16)
      /\ TCPHeaderField["Dport"] = At(2, 2) /\ UDPHeaderField["Dport"] = At(2, 2)
  BY DEF IPv4HeaderField, IPv6HeaderField, TCPHeaderField, UDPHeaderField
<1>4. \A o, l : At(o, l).offset = o /\ At(o, l).len = l
  BY DEF At
<1> QED
  BY <1>1, <1>2, <1>3, <1>4 DEF Build, PayloadRaw

(* The bytes t at the offset, as a payload expression counts them.         *)
Loads(header, offset, len, t) == LiesAt(header, offset + 1, offset + len, t)

LEMMA RawLoad ==
  ASSUME NEW m, Going(m), NEW base, NEW offset \in Nat, NEW len \in Nat, NEW p, NEW sets, NEW t,
         Loads(HeaderBytes(p, base), offset, len, t)
  PROVE  Step(m, PayloadRaw(base, offset, len, "Reg1"), p, sets) = Load(m, "Reg1", t)
<1> DEFINE e == PayloadRaw(base, offset, len, "Reg1")
<1>1. e.expr = "payload" /\ e.dreg = "Reg1" /\ e.offset = offset /\ e.len = len /\ e.base = base
  BY DEF PayloadRaw
<1> HIDE DEF e
<1>2. Step(m, e, p, sets) = Load(m, "Reg1", t)
  BY <1>1, PayloadLoad DEF Loads
<1> QED
  BY <1>2 DEF e

LEMMA NetworkLoad ==
  ASSUME NEW m, Going(m), NEW offset \in Nat, NEW len \in Nat, NEW p, NEW sets, NEW t,
         Loads(NetworkHeader(p), offset, len, t)
  PROVE  Step(m, PayloadRaw("NFT_PAYLOAD_NETWORK_HEADER", offset, len, "Reg1"), p, sets) = Load(m, "Reg1", t)
<1>1. HeaderBytes(p, "NFT_PAYLOAD_NETWORK_HEADER") = NetworkHeader(p)
  BY DEF HeaderBytes
<1> QED
  BY <1>1, RawLoad

LEMMA TransportLoad ==
  ASSUME NEW m, Going(m), NEW offset \in Nat, NEW len \in Nat, NEW p, NEW sets, NEW t,
         Loads(TransportHeader(p), offset, len, t)
  PROVE  Step(m, PayloadRaw("NFT_PAYLOAD_TRANSPORT_HEADER", offset, len, "Reg1"), p, sets) = Load(m, "Reg1", t)
<1>1. HeaderBytes(p, "NFT_PAYLOAD_TRANSPORT_HEADER") = TransportHeader(p)
  BY DEF HeaderBytes
<1> QED
  BY <1>1, RawLoad

(* A comparison of bytes with as many bytes.                               *)
LEMMA BytesCmp ==
  ASSUME NEW m, Going(m), NEW e, NEW op \in {"Eq", "Neq"}, NEW t, NEW data, NEW n, IsBytes(t, n),
         IsBytes(data, n), NEW p, NEW sets, Step(m, e, p, sets) = Load(m, "Reg1", t)
  PROVE  /\ Outcome(m, RunFrom(m, <<e, Cmp(op, data)>>, p, sets), t = data <=> op = "Eq")
         /\ IsSequence(<<e, Cmp(op, data)>>)
<1>1. t \in Seq(Nat) /\ data \in Seq(Nat) /\ Len(t) = Len(data)
  BY DEF IsBytes
<1>2. Front(t, Len(data)) = data <=> t = data
  BY <1>1, FrontEqual
<1>3. RunFrom(m, <<e, Cmp(op, data)>>, p, sets) = Step(Load(m, "Reg1", t), Cmp(op, data), p, sets)
  BY RunTwo
<1>4. Outcome(m, Step(Load(m, "Reg1", t), Cmp(op, data), p, sets), Front(t, Len(data)) = data <=> op = "Eq")
  BY CmpOutcome
<1>5. IsSequence(<<e, Cmp(op, data)>>)
  BY ShortSequences
<1> QED
  BY <1>2, <1>3, <1>4, <1>5 DEF Outcome

-----------------------------------------------------------------------------
(* A load, a mask and a comparison.                                        *)

(* s has the elements 1..n.                                                *)
IsRow(s, n) == n \in Nat /\ s = [i \in 1..n |-> s[i]]

LEMMA RowLen ==
  ASSUME NEW s, NEW n, IsRow(s, n) PROVE Len(s) = n
<1> DEFINE S == {s[i] : i \in 1..n}
<1>1. s \in [1..n -> S] /\ n \in Nat
  BY DEF IsRow
<1> HIDE DEF S
<1>2. s \in Seq(S)
  BY <1>1, SequencesAre
<1>3. 1..n = 1..Len(s) /\ Len(s) \in Nat
  BY <1>1, <1>2, SequenceLen
<1> QED
  BY <1>1, <1>3

LEMMA BytesRow ==
  ASSUME NEW s, NEW n, IsBytes(s, n) PROVE IsRow(s, n)
BY SequenceLen DEF IsBytes, IsRow

LEMMA LoadTwice ==
  ASSUME NEW m, Going(m), NEW a, NEW b
  PROVE  Load(Load(m, "Reg1", a), "Reg1", b) = Load(m, "Reg1", b)
<1>1. /\ m = [regs |-> m.regs, verdict |-> m.verdict, nat |-> m.nat, mss |-> m.mss,
              logs |-> m.logs, counted |-> m.counted]
      /\ m.regs = [s \in Registers |-> m.regs[s]]
  BY DEF Going, IsMachine
<1> DEFINE x == [m.regs EXCEPT !["Reg1"] = a]
           y == [m.regs EXCEPT !["Reg1"] = b]
<1>2. [x EXCEPT !["Reg1"] = b] = y
  BY <1>1, Zenon
<1>3. Load(m, "Reg1", a) = [m EXCEPT !.regs = x] /\ Load(m, "Reg1", b) = [m EXCEPT !.regs = y]
  BY DEF Load
<1> HIDE DEF x, y
<1>4. /\ Load(m, "Reg1", a) = [regs |-> x, verdict |-> m.verdict, nat |-> m.nat, mss |-> m.mss,
              logs |-> m.logs, counted |-> m.counted]
      /\ Load(m, "Reg1", b) = [regs |-> y, verdict |-> m.verdict, nat |-> m.nat, mss |-> m.mss,
              logs |-> m.logs, counted |-> m.counted]
  BY <1>1, <1>3
<1> DEFINE n == Load(m, "Reg1", a)
<1>5. n.regs = x /\ Load(n, "Reg1", b) = [n EXCEPT !.regs = [n.regs EXCEPT !["Reg1"] = b]]
  BY <1>4 DEF Load
<1>6. n = [regs |-> x, verdict |-> m.verdict, nat |-> m.nat, mss |-> m.mss, logs |-> m.logs,
           counted |-> m.counted]
  BY <1>4
<1> HIDE DEF n
<1>7. Load(n, "Reg1", b) = [n EXCEPT !.regs = y]
  BY <1>2, <1>5
<1>8. Load(n, "Reg1", b) = Load(m, "Reg1", b)
  BY <1>4, <1>6, <1>7
<1> QED
  BY <1>8 DEF n

(* The bytes t are `data` behind the mask and the xor.                     *)
Masked(t, msk, xor, data, n) == \A i \in 1..n : BitXor(BitAnd(t[i], msk[i]), xor[i]) = data[i]

LEMMA MaskCmp ==
  ASSUME NEW m, Going(m), NEW e, NEW op \in {"Eq", "Neq"}, NEW t, NEW msk, NEW xor, NEW data, NEW n,
         IsRow(t, n), IsRow(msk, n), IsRow(data, n),
         NEW p, NEW sets, Step(m, e, p, sets) = Load(m, "Reg1", t)
  PROVE  Outcome(m, RunFrom(m, <<e, Bitwise(msk, xor), Cmp(op, data)>>, p, sets),
                 Masked(t, msk, xor, data, n) <=> op = "Eq")
<1> DEFINE l == Load(m, "Reg1", t)
           b == Bitwise(msk, xor)
           r == [i \in 1..n |-> BitXor(BitAnd(t[i], msk[i]), xor[i])]
<1>1. Len(t) = n /\ Len(msk) = n /\ Len(data) = n /\ n \in Nat
  BY RowLen DEF IsRow
<1>2. Going(l) /\ l.regs["Reg1"] = t
  <2>1. "Reg1" \in Registers
    BY ZenonT(30) DEF Registers
  <2> QED
    BY <2>1, LoadGoes
<1> HIDE DEF l
<1>3. Step(l, b, p, sets) = RunBitwise(l, b)
  BY <1>2, ZenonT(30) DEF Step, Bitwise, Going
<1>4. /\ b.sreg = "Reg1" /\ b.dreg = "Reg1" /\ b.len = n /\ b.mask = msk /\ b.xor = xor
  BY <1>1 DEF Bitwise
<1> HIDE DEF b
<1>5. \A i \in 1..n : Take(l, "Reg1", n)[i] = t[i]
  BY <1>1, <1>2 DEF Take
<1>6. RunBitwise(l, b) = Load(l, "Reg1", r)
  <2>1. RunBitwise(l, b) = Load(l, "Reg1", [i \in 1..n |-> BitXor(BitAnd(Take(l, "Reg1", n)[i], msk[i]), xor[i])])
    BY <1>4 DEF RunBitwise
  <2>2. [i \in 1..n |-> BitXor(BitAnd(Take(l, "Reg1", n)[i], msk[i]), xor[i])] = r
    BY <1>5
  <2> QED
    BY <2>1, <2>2, ZenonT(30)
<1>7. IsRow(r, n)
  BY <1>1 DEF IsRow
<1>8. r = data <=> Masked(t, msk, xor, data, n)
  BY DEF IsRow, Masked
<1> HIDE DEF r
<1>9. Step(l, b, p, sets) = Load(m, "Reg1", r)
  BY <1>3, <1>6, LoadTwice DEF l
<1>10. RunFrom(m, <<e, b, Cmp(op, data)>>, p, sets) = Step(Load(m, "Reg1", r), Cmp(op, data), p, sets)
  BY <1>9, RunThree DEF l
<1>11. Front(r, Len(data)) = r
  <2>1. Len(r) = n
    BY <1>7, RowLen
  <2>2. Front(r, n) = [i \in 1..n |-> r[i]]
    BY <2>1, <1>1 DEF Front
  <2> QED
    BY <1>1, <1>7, <2>2, SMTT(30) DEF IsRow
<1>12. Outcome(m, Step(Load(m, "Reg1", r), Cmp(op, data), p, sets), Front(r, Len(data)) = data <=> op = "Eq")
  BY CmpOutcome
<1> QED
  BY <1>8, <1>10, <1>11, <1>12 DEF Outcome, b

LEMMA MaskEq ==
  ASSUME NEW m, Going(m), NEW e, NEW t, NEW msk, NEW xor, NEW data, NEW n,
         IsRow(t, n), IsRow(msk, n), IsRow(data, n),
         NEW p, NEW sets, Step(m, e, p, sets) = Load(m, "Reg1", t)
  PROVE  Outcome(m, RunFrom(m, <<e, Bitwise(msk, xor), Cmp("Eq", data)>>, p, sets), Masked(t, msk, xor, data, n))
<1>1. Outcome(m, RunFrom(m, <<e, Bitwise(msk, xor), Cmp("Eq", data)>>, p, sets),
              Masked(t, msk, xor, data, n) <=> "Eq" = "Eq")
  BY MaskCmp
<1> QED
  BY <1>1 DEF Outcome

LEMMA MaskNeq ==
  ASSUME NEW m, Going(m), NEW e, NEW t, NEW msk, NEW xor, NEW data, NEW n,
         IsRow(t, n), IsRow(msk, n), IsRow(data, n),
         NEW p, NEW sets, Step(m, e, p, sets) = Load(m, "Reg1", t)
  PROVE  Outcome(m, RunFrom(m, <<e, Bitwise(msk, xor), Cmp("Neq", data)>>, p, sets), ~Masked(t, msk, xor, data, n))
<1>1. Outcome(m, RunFrom(m, <<e, Bitwise(msk, xor), Cmp("Neq", data)>>, p, sets),
              Masked(t, msk, xor, data, n) <=> "Neq" = "Eq")
  BY MaskCmp
<1> QED
  BY <1>1 DEF Outcome

-----------------------------------------------------------------------------
(* Protocols and families.                                                 *)

LEMMA L4protoOutcome ==
  ASSUME NEW m, Going(m), NEW number, NEW p, NEW sets
  PROVE  Outcome(m, RunFrom(m, l4proto(number), p, sets), p.l4 = number) /\ IsSequence(l4proto(number))
<1>1. MetaBytes(p, "L4Proto") = <<p.l4>> /\ Len(<<number>>) = 1
  BY DEF MetaBytes
<1>2. Front(<<p.l4>>, 1) = <<number>> <=> p.l4 = number
  BY DEF Front
<1>3. Outcome(m, RunFrom(m, l4proto(number), p, sets),
              Front(MetaBytes(p, "L4Proto"), Len(<<number>>)) = <<number>> <=> "Eq" = "Eq")
  BY MetaCmp DEF l4proto
<1> QED
  BY <1>1, <1>2, <1>3, ShortSequences DEF Outcome, l4proto

LEMMA NfprotoOutcome ==
  ASSUME NEW m, Going(m), NEW ip, NEW p, NEW sets
  PROVE  /\ Outcome(m, RunFrom(m, nfproto(ip), p, sets),
                    p.nfproto = IF IsV4(ip) THEN NFPROTO_IPV4 ELSE NFPROTO_IPV6)
         /\ IsSequence(nfproto(ip))
<1> DEFINE number == IF IsV4(ip) THEN NFPROTO_IPV4 ELSE NFPROTO_IPV6
<1>1. MetaBytes(p, "NfProto") = <<p.nfproto>> /\ Len(<<number>>) = 1
  BY DEF MetaBytes
<1>2. Front(<<p.nfproto>>, 1) = <<number>> <=> p.nfproto = number
  BY DEF Front
<1>3. nfproto(ip) = <<Meta("NfProto"), Cmp("Eq", <<number>>)>>
  BY DEF nfproto
<1> HIDE DEF number
<1>4. Outcome(m, RunFrom(m, nfproto(ip), p, sets),
              Front(MetaBytes(p, "NfProto"), Len(<<number>>)) = <<number>> <=> "Eq" = "Eq")
  BY <1>3, MetaCmp, SMTT(30)
<1>5. IsSequence(nfproto(ip))
  BY <1>3, ShortSequences
<1>6. Outcome(m, RunFrom(m, nfproto(ip), p, sets), p.nfproto = number)
  BY <1>1, <1>2, <1>4 DEF Outcome
<1> QED
  BY <1>5, <1>6 DEF number

-----------------------------------------------------------------------------
(* Addresses.                                                              *)

IsAddress(ip) == ip \in [1..4 -> Byte] \/ ip \in [1..16 -> Byte]

Family(ip) == IF IsV4(ip) THEN NFPROTO_IPV4 ELSE NFPROTO_IPV6

LEMMA AddressBytes ==
  ASSUME NEW ip, IsAddress(ip)
  PROVE  /\ IsV4(ip) => IsBytes(ip, 4) /\ ip \in [1..4 -> Byte]
         /\ ~IsV4(ip) => IsBytes(ip, 16) /\ ip \in [1..16 -> Byte]
         /\ IsBytes(ip, Len(ip))
<1>1. CASE ip \in [1..4 -> Byte]
  <2>1. IsBytes(ip, 4)
    BY <1>1, ShortBytes, Zenon
  <2>2. Len(ip) = 4 /\ IsV4(ip)
    BY <2>1 DEF IsBytes, IsV4
  <2> QED
    BY <1>1, <2>1, <2>2, Zenon
<1>2. CASE ip \in [1..16 -> Byte]
  <2>1. IsBytes(ip, 16)
    BY <1>2, ShortBytes, Zenon
  <2>2. Len(ip) = 16 /\ ~IsV4(ip)
    BY <2>1 DEF IsBytes, IsV4
  <2> QED
    BY <1>2, <2>1, <2>2, Zenon
<1> QED
  BY <1>1, <1>2 DEF IsAddress

LEMMA PacketAddresses ==
  ASSUME NEW p, IsPacket(p)
  PROVE  /\ IsAddress(p.saddr) /\ IsAddress(p.daddr)
         /\ p.nfproto = Family(p.saddr) /\ p.nfproto = Family(p.daddr)
<1>1. IsAddress(p.saddr) /\ IsAddress(p.daddr)
  BY DEF IsPacket, HasAddresses, IsAddress
<1>2. CASE p.nfproto = NFPROTO_IPV4
  <2>1. IsBytes(p.saddr, 4) /\ IsBytes(p.daddr, 4)
    BY <1>2, Ipv4Header, Zenon
  <2> QED
    BY <1>1, <1>2, <2>1 DEF IsBytes, IsV4, Family
<1>3. CASE p.nfproto = NFPROTO_IPV6
  <2>1. IsBytes(p.saddr, 16) /\ IsBytes(p.daddr, 16)
    BY <1>3, Ipv6Header
  <2>2. ~IsV4(p.saddr) /\ ~IsV4(p.daddr)
    BY <2>1 DEF IsBytes, IsV4
  <2> QED
    BY <1>1, <1>3, <2>2 DEF Family
<1> QED
  BY <1>2, <1>3 DEF IsPacket, HasAddresses

(* In a packet of the family the address is loaded from its place.         *)
LEMMA AddressLoad ==
  ASSUME NEW p, IsPacket(p), NEW ip, IsAddress(ip), p.nfproto = Family(ip), NEW m, Going(m), NEW sets
  PROVE  /\ Step(m, load_ip(ip, TRUE), p, sets) = Load(m, "Reg1", p.saddr)
         /\ Step(m, load_ip(ip, FALSE), p, sets) = Load(m, "Reg1", p.daddr)
         /\ IsBytes(p.saddr, Len(ip)) /\ IsBytes(p.daddr, Len(ip)) /\ IsBytes(ip, Len(ip))
<1>2. CASE IsV4(ip)
  <2>1. p.nfproto = NFPROTO_IPV4 /\ Len(ip) = 4
    BY <1>2 DEF IsV4, Family
  <2>2. /\ load_ip(ip, TRUE) = PayloadRaw("NFT_PAYLOAD_NETWORK_HEADER", 12, 4, "Reg1")
        /\ load_ip(ip, FALSE) = PayloadRaw("NFT_PAYLOAD_NETWORK_HEADER", 16, 4, "Reg1")
    BY <1>2, Builds DEF load_ip
  <2>3. /\ LiesAt(NetworkHeader(p), 13, 16, p.saddr) /\ IsBytes(p.saddr, 4)
        /\ LiesAt(NetworkHeader(p), 17, 20, p.daddr) /\ IsBytes(p.daddr, 4)
    BY <2>1, Ipv4Header, Zenon
  <2>4. /\ Loads(NetworkHeader(p), 12, 4, p.saddr) /\ 12 \in Nat /\ 4 \in Nat
        /\ Loads(NetworkHeader(p), 16, 4, p.daddr) /\ 16 \in Nat
    BY <2>3 DEF Loads
  <2>5. Step(m, load_ip(ip, TRUE), p, sets) = Load(m, "Reg1", p.saddr)
    <3>1. Step(m, PayloadRaw("NFT_PAYLOAD_NETWORK_HEADER", 12, 4, "Reg1"), p, sets) = Load(m, "Reg1", p.saddr)
      BY <2>4, NetworkLoad
    <3> QED
      BY <2>2, <3>1, Zenon
  <2>6. Step(m, load_ip(ip, FALSE), p, sets) = Load(m, "Reg1", p.daddr)
    <3>1. Step(m, PayloadRaw("NFT_PAYLOAD_NETWORK_HEADER", 16, 4, "Reg1"), p, sets) = Load(m, "Reg1", p.daddr)
      BY <2>4, NetworkLoad
    <3> QED
      BY <2>2, <3>1, Zenon
  <2> QED
    BY <2>1, <2>3, <2>5, <2>6, <1>2, AddressBytes, Zenon
<1>3. CASE ~IsV4(ip)
  <2>1. p.nfproto = NFPROTO_IPV6 /\ Len(ip) = 16
    BY <1>3, AddressBytes DEF IsBytes, Family
  <2>2. /\ load_ip(ip, TRUE) = PayloadRaw("NFT_PAYLOAD_NETWORK_HEADER", 8, 16, "Reg1")
        /\ load_ip(ip, FALSE) = PayloadRaw("NFT_PAYLOAD_NETWORK_HEADER", 24, 16, "Reg1")
    BY <1>3, Builds DEF load_ip
  <2>3. /\ LiesAt(NetworkHeader(p), 9, 24, p.saddr) /\ IsBytes(p.saddr, 16)
        /\ LiesAt(NetworkHeader(p), 25, 40, p.daddr) /\ IsBytes(p.daddr, 16)
    BY <2>1, Ipv6Header
  <2>4. /\ Loads(NetworkHeader(p), 8, 16, p.saddr) /\ 8 \in Nat /\ 16 \in Nat
        /\ Loads(NetworkHeader(p), 24, 16, p.daddr) /\ 24 \in Nat
    BY <2>3 DEF Loads
  <2>5. Step(m, load_ip(ip, TRUE), p, sets) = Load(m, "Reg1", p.saddr)
    <3>1. Step(m, PayloadRaw("NFT_PAYLOAD_NETWORK_HEADER", 8, 16, "Reg1"), p, sets) = Load(m, "Reg1", p.saddr)
      BY <2>4, NetworkLoad
    <3> QED
      BY <2>2, <3>1, Zenon
  <2>6. Step(m, load_ip(ip, FALSE), p, sets) = Load(m, "Reg1", p.daddr)
    <3>1. Step(m, PayloadRaw("NFT_PAYLOAD_NETWORK_HEADER", 24, 16, "Reg1"), p, sets) = Load(m, "Reg1", p.daddr)
      BY <2>4, NetworkLoad
    <3> QED
      BY <2>2, <3>1, Zenon
  <2> QED
    BY <2>1, <2>3, <2>5, <2>6, <1>3, AddressBytes, Zenon
<1> QED
  BY <1>2, <1>3, Zenon

LEMMA FamilyOutcome ==
  ASSUME NEW m, Going(m), NEW ip, NEW p, NEW sets
  PROVE  Outcome(m, RunFrom(m, nfproto(ip), p, sets), p.nfproto = Family(ip)) /\ IsSequence(nfproto(ip))
BY NfprotoOutcome DEF Family

(* saddr and daddr match the packets with the address.                     *)
LEMMA AddressOutcome ==
  ASSUME NEW m, Going(m), NEW ip, IsAddress(ip), NEW p, IsPacket(p), NEW sets
  PROVE  /\ Outcome(m, RunFrom(m, saddr(ip), p, sets), p.saddr = ip) /\ IsSequence(saddr(ip))
         /\ Outcome(m, RunFrom(m, daddr(ip), p, sets), p.daddr = ip) /\ IsSequence(daddr(ip))
<1> DEFINE family == p.nfproto = Family(ip)
           s == <<load_ip(ip, TRUE), Cmp("Eq", ip)>>
           d == <<load_ip(ip, FALSE), Cmp("Eq", ip)>>
<1>1. Outcome(m, RunFrom(m, nfproto(ip), p, sets), family) /\ IsSequence(nfproto(ip))
  BY FamilyOutcome
<1>2. (p.saddr = ip => family) /\ (p.daddr = ip => family)
  BY PacketAddresses
<1>3. IsSequence(s) /\ IsSequence(d)
  BY ShortSequences
<1>4. \A n : family /\ Going(n) => Outcome(n, RunFrom(n, s, p, sets), p.saddr = ip)
  <2> SUFFICES ASSUME NEW n, family, Going(n) PROVE Outcome(n, RunFrom(n, s, p, sets), p.saddr = ip)
    BY Zenon
  <2>1. /\ Step(n, load_ip(ip, TRUE), p, sets) = Load(n, "Reg1", p.saddr) /\ "Eq" \in {"Eq", "Neq"}
        /\ IsBytes(p.saddr, Len(ip)) /\ IsBytes(ip, Len(ip))
    BY AddressLoad, Zenon
  <2>2. Outcome(n, RunFrom(n, s, p, sets), p.saddr = ip <=> "Eq" = "Eq")
    BY <2>1, BytesCmp, Zenon
  <2> QED
    BY <2>2 DEF Outcome
<1>5. \A n : family /\ Going(n) => Outcome(n, RunFrom(n, d, p, sets), p.daddr = ip)
  <2> SUFFICES ASSUME NEW n, family, Going(n) PROVE Outcome(n, RunFrom(n, d, p, sets), p.daddr = ip)
    BY Zenon
  <2>1. /\ Step(n, load_ip(ip, FALSE), p, sets) = Load(n, "Reg1", p.daddr) /\ "Eq" \in {"Eq", "Neq"}
        /\ IsBytes(p.daddr, Len(ip)) /\ IsBytes(ip, Len(ip))
    BY AddressLoad, Zenon
  <2>2. Outcome(n, RunFrom(n, d, p, sets), p.daddr = ip <=> "Eq" = "Eq")
    BY <2>1, BytesCmp, Zenon
  <2> QED
    BY <2>2 DEF Outcome
<1>6. saddr(ip) = nfproto(ip) \o s /\ daddr(ip) = nfproto(ip) \o d
  BY DEF saddr, daddr, match_ip
<1> HIDE DEF family, s, d
<1>7. Outcome(m, RunFrom(m, nfproto(ip) \o s, p, sets), family /\ p.saddr = ip)
  BY <1>1, <1>3, <1>4, OutcomeConcat, ZenonT(30)
<1>8. Outcome(m, RunFrom(m, nfproto(ip) \o d, p, sets), family /\ p.daddr = ip)
  BY <1>1, <1>3, <1>5, OutcomeConcat, ZenonT(30)
<1>9. IsSequence(saddr(ip)) /\ IsSequence(daddr(ip))
  BY <1>1, <1>3, <1>6, SequenceConcat
<1> QED
  BY <1>2, <1>6, <1>7, <1>8, <1>9 DEF Outcome

-----------------------------------------------------------------------------
(* Networks.                                                               *)

IsNetwork(net) == IsAddress(net.ip) /\ net.prefix \in Nat

(* The bits of the address in front of the prefix are those of the network.*)
SamePrefix(ip, net) ==
  \A i \in 1..Len(net.ip) : ip[i] \div (2 ^ HostBits(net, i)) = net.ip[i] \div (2 ^ HostBits(net, i))

LEMMA HostBitsRange ==
  ASSUME NEW net, net.prefix \in Nat, NEW i \in Nat
  PROVE  HostBits(net, i) \in 0..8
BY DEF HostBits

LEMMA NetworkRows ==
  ASSUME NEW net, IsNetwork(net)
  PROVE  /\ IsRow(net.ip, Len(net.ip)) /\ IsRow(mask(net), Len(net.ip)) /\ IsRow(network(net), Len(net.ip))
         /\ Len(net.ip) \in Nat
         /\ \A i \in 1..Len(net.ip) : /\ net.ip[i] \in Byte /\ no_xor(net)[i] = 0
                                      /\ mask(net)[i] = 256 - 2 ^ HostBits(net, i)
                                      /\ network(net)[i] = net.ip[i] - (net.ip[i] % (2 ^ HostBits(net, i)))
<1>1. IsAddress(net.ip)
  BY DEF IsNetwork
<1>2. IsRow(net.ip, Len(net.ip)) /\ Len(net.ip) \in Nat
  BY <1>1, AddressBytes, BytesRow, Zenon DEF IsRow
<1>3. \A i \in 1..Len(net.ip) : net.ip[i] \in Byte /\ no_xor(net)[i] = 0
  <2>1. CASE IsV4(net.ip)
    <3>1. Len(net.ip) = 4 /\ net.ip \in [1..4 -> Byte]
      BY <1>1, <2>1, AddressBytes DEF IsV4
    <3>2. no_xor(net) = [i \in 1..4 |-> 0]
      BY <2>1 DEF no_xor, Zeros
    <3> QED
      BY <3>1, <3>2
  <2>2. CASE ~IsV4(net.ip)
    <3>1. Len(net.ip) = 16 /\ net.ip \in [1..16 -> Byte]
      BY <1>1, <2>2, AddressBytes DEF IsBytes
    <3>2. no_xor(net) = [i \in 1..16 |-> 0]
      BY <2>2 DEF no_xor, Zeros
    <3> QED
      BY <3>1, <3>2
  <2> QED
    BY <2>1, <2>2
<1>4. IsRow(mask(net), Len(net.ip)) /\ IsRow(network(net), Len(net.ip))
  BY <1>2 DEF IsRow, mask, network
<1>5. \A i \in 1..Len(net.ip) : /\ mask(net)[i] = 256 - 2 ^ HostBits(net, i)
                                /\ network(net)[i] = net.ip[i] - (net.ip[i] % (2 ^ HostBits(net, i)))
  BY DEF mask, network
<1> QED
  BY <1>2, <1>3, <1>4, <1>5

(* A masked address is the network address exactly for that prefix.        *)
LEMMA MaskedAddress ==
  ASSUME NEW net, IsNetwork(net), NEW ip, \A i \in 1..Len(net.ip) : ip[i] \in Byte
  PROVE  Masked(ip, mask(net), no_xor(net), network(net), Len(net.ip)) <=> SamePrefix(ip, net)
<1>1. Len(net.ip) \in Nat
  BY NetworkRows
<1>2. ASSUME NEW i \in 1..Len(net.ip)
      PROVE  BitXor(BitAnd(ip[i], mask(net)[i]), no_xor(net)[i]) = network(net)[i]
               <=> ip[i] \div (2 ^ HostBits(net, i)) = net.ip[i] \div (2 ^ HostBits(net, i))
  <2> DEFINE h == HostBits(net, i)
  <2>1. h \in 0..8
    BY <1>1, HostBitsRange DEF IsNetwork
  <2>2. /\ net.ip[i] \in Byte /\ no_xor(net)[i] = 0 /\ mask(net)[i] = 256 - 2 ^ h
        /\ network(net)[i] = net.ip[i] - (net.ip[i] % (2 ^ h)) /\ ip[i] \in Byte
    BY NetworkRows
  <2> DEFINE x == ip[i]
             y == net.ip[i]
  <2> HIDE DEF h, x, y
  <2>3. x \in Byte /\ y \in Byte
    BY <2>2 DEF x, y
  <2>4. BitXor(BitAnd(x, 256 - 2 ^ h), 0) = y - (y % (2 ^ h)) <=> x \div (2 ^ h) = y \div (2 ^ h)
    BY <2>1, <2>3, MaskedOctet, ZenonT(30)
  <2> QED
    BY <2>2, <2>4, ZenonT(30) DEF h, x, y
<1> QED
  BY <1>2, Zenon DEF SamePrefix, Masked

(* snetwork and dnetwork match the packets of the family with the prefix.  *)
LEMMA NetworkOutcome ==
  ASSUME NEW m, Going(m), NEW net, IsNetwork(net), NEW p, IsPacket(p), NEW sets
  PROVE  /\ Outcome(m, RunFrom(m, snetwork(net), p, sets), p.nfproto = Family(net.ip) /\ SamePrefix(p.saddr, net))
         /\ Outcome(m, RunFrom(m, dnetwork(net), p, sets), p.nfproto = Family(net.ip) /\ SamePrefix(p.daddr, net))
         /\ IsSequence(snetwork(net)) /\ IsSequence(dnetwork(net))
<1> DEFINE family == p.nfproto = Family(net.ip)
           n == Len(net.ip)
           s == <<load_ip(net.ip, TRUE), Bitwise(mask(net), no_xor(net)), Cmp("Eq", network(net))>>
           d == <<load_ip(net.ip, FALSE), Bitwise(mask(net), no_xor(net)), Cmp("Eq", network(net))>>
<1>1. Outcome(m, RunFrom(m, nfproto(net.ip), p, sets), family) /\ IsSequence(nfproto(net.ip))
  BY FamilyOutcome
<1>2. IsAddress(net.ip) /\ n \in Nat /\ IsRow(mask(net), n) /\ IsRow(network(net), n) /\ "Eq" \in {"Eq", "Neq"}
  BY NetworkRows DEF IsNetwork
<1>3. IsSequence(s) /\ IsSequence(d)
  BY ShortSequences
<1>4. family => /\ \A i \in 1..n : p.saddr[i] \in Byte /\ p.daddr[i] \in Byte
                /\ IsRow(p.saddr, n) /\ IsRow(p.daddr, n)
  <2> SUFFICES ASSUME family PROVE /\ \A i \in 1..n : p.saddr[i] \in Byte /\ p.daddr[i] \in Byte
                                   /\ IsRow(p.saddr, n) /\ IsRow(p.daddr, n)
    OBVIOUS
  <2>1. IsBytes(p.saddr, n) /\ IsBytes(p.daddr, n)
    BY <1>2, StartGoes, AddressLoad, Zenon
  <2>2. Len(p.saddr) = n /\ Len(p.daddr) = n /\ IsRow(p.saddr, n) /\ IsRow(p.daddr, n)
    BY <2>1, BytesRow DEF IsBytes
  <2>3. \A i \in 1..Len(p.saddr) : p.saddr[i] \in Byte
    <3>1. IsAddress(p.saddr)
      BY PacketAddresses
    <3> QED
      BY <3>1, AddressBytes, Zenon DEF IsBytes
  <2>4. \A i \in 1..Len(p.daddr) : p.daddr[i] \in Byte
    <3>1. IsAddress(p.daddr)
      BY PacketAddresses
    <3> QED
      BY <3>1, AddressBytes, Zenon DEF IsBytes
  <2> QED
    BY <2>2, <2>3, <2>4
<1>5. ASSUME NEW k, family, Going(k) PROVE Outcome(k, RunFrom(k, s, p, sets), SamePrefix(p.saddr, net))
  <2>1. Step(k, load_ip(net.ip, TRUE), p, sets) = Load(k, "Reg1", p.saddr)
    BY <1>2, <1>5, AddressLoad, Zenon
  <2>2. Outcome(k, RunFrom(k, s, p, sets),
                Masked(p.saddr, mask(net), no_xor(net), network(net), n))
    BY <1>2, <1>4, <1>5, <2>1, MaskEq, ZenonT(30)
  <2>3. Masked(p.saddr, mask(net), no_xor(net), network(net), n) <=> SamePrefix(p.saddr, net)
    BY <1>4, <1>5, MaskedAddress
  <2> QED
    BY <2>2, <2>3, Zenon DEF Outcome
<1>6. ASSUME NEW k, family, Going(k) PROVE Outcome(k, RunFrom(k, d, p, sets), SamePrefix(p.daddr, net))
  <2>1. Step(k, load_ip(net.ip, FALSE), p, sets) = Load(k, "Reg1", p.daddr)
    BY <1>2, <1>6, AddressLoad, Zenon
  <2>2. Outcome(k, RunFrom(k, d, p, sets),
                Masked(p.daddr, mask(net), no_xor(net), network(net), n))
    BY <1>2, <1>4, <1>6, <2>1, MaskEq, Zenon
  <2>3. Masked(p.daddr, mask(net), no_xor(net), network(net), n) <=> SamePrefix(p.daddr, net)
    BY <1>4, <1>6, MaskedAddress
  <2> QED
    BY <2>2, <2>3, Zenon DEF Outcome
<1>7. snetwork(net) = nfproto(net.ip) \o s /\ dnetwork(net) = nfproto(net.ip) \o d
  BY DEF snetwork, dnetwork, match_network
<1> HIDE DEF family, s, d
<1>8. Outcome(m, RunFrom(m, nfproto(net.ip) \o s, p, sets), family /\ SamePrefix(p.saddr, net))
  BY <1>1, <1>3, <1>5, OutcomeConcat
<1>9. Outcome(m, RunFrom(m, nfproto(net.ip) \o d, p, sets), family /\ SamePrefix(p.daddr, net))
  BY <1>1, <1>3, <1>6, OutcomeConcat
<1>10. IsSequence(snetwork(net)) /\ IsSequence(dnetwork(net))
  BY <1>1, <1>3, <1>7, SequenceConcat
<1> QED
  BY <1>7, <1>8, <1>9, <1>10 DEF family

-----------------------------------------------------------------------------
(* Ports and protocols.                                                    *)

LEMMA BE16Injective ==
  ASSUME NEW a \in Nat, NEW b \in Nat PROVE BE16(a) = BE16(b) <=> a = b
<1>1. a = 256 * (a \div 256) + (a % 256) /\ b = 256 * (b \div 256) + (b % 256)
  OBVIOUS
<1>2. BE16(a) = BE16(b) <=> a \div 256 = b \div 256 /\ a % 256 = b % 256
  BY DEF BE16
<1> QED
  BY <1>1, <1>2

(* dport matches the packets of the protocol with the destination port.    *)
LEMMA DportOutcome ==
  ASSUME NEW m, Going(m), NEW port \in Nat, NEW proto \in Protocols, NEW p, IsPacket(p), NEW sets
  PROVE  /\ Outcome(m, RunFrom(m, dport(port, proto), p, sets), p.l4 = IPPROTO[proto] /\ p.dport = port)
         /\ IsSequence(dport(port, proto))
<1> DEFINE e == Build(IF proto = "TCP" THEN "Tcp" ELSE "Udp", "Dport")
           s == <<e, Cmp("Eq", BE16(port))>>
           first == p.l4 = IPPROTO[proto]
<1>1. dport(port, proto) = l4proto(IPPROTO[proto]) \o s
  BY DEF dport, match_port, protocol
<1>2. e = PayloadRaw("NFT_PAYLOAD_TRANSPORT_HEADER", 2, 2, "Reg1")
  BY Builds
<1>3. p.dport \in Nat
  BY DEF IsPacket, HasNumbers, Word
<1>4. ASSUME NEW n, first, Going(n) PROVE Outcome(n, RunFrom(n, s, p, sets), p.dport = port)
  <2>1. LiesAt(TransportHeader(p), 3, 4, BE16(p.dport))
    BY <1>4, TcpHeader, UdpHeader, ZenonT(30) DEF Protocols
  <2>2. Loads(TransportHeader(p), 2, 2, BE16(p.dport)) /\ "Eq" \in {"Eq", "Neq"} /\ 2 \in Nat
    BY <2>1 DEF Loads
  <2>3. Step(n, e, p, sets) = Load(n, "Reg1", BE16(p.dport))
    BY <1>2, <1>4, <2>2, TransportLoad
  <2>4. IsBytes(BE16(p.dport), 2) /\ IsBytes(BE16(port), 2)
    BY <1>3, BE16Bytes, SMTT(30)
  <2> HIDE DEF e
  <2>5. Outcome(n, RunFrom(n, s, p, sets), BE16(p.dport) = BE16(port) <=> "Eq" = "Eq")
    BY <1>4, <2>2, <2>3, <2>4, BytesCmp
  <2>6. BE16(p.dport) = BE16(port) <=> p.dport = port
    BY <1>3, BE16Injective
  <2> QED
    BY <2>5, <2>6 DEF Outcome
<1>5. IsSequence(s)
  BY ShortSequences
<1>6. Outcome(m, RunFrom(m, l4proto(IPPROTO[proto]), p, sets), first) /\ IsSequence(l4proto(IPPROTO[proto]))
  BY L4protoOutcome
<1> HIDE DEF s, first
<1>7. Outcome(m, RunFrom(m, l4proto(IPPROTO[proto]) \o s, p, sets), first /\ p.dport = port)
  BY <1>4, <1>5, <1>6, OutcomeConcat, ZenonT(30)
<1>8. IsSequence(dport(port, proto))
  BY <1>1, <1>5, <1>6, SequenceConcat
<1> QED
  BY <1>1, <1>7, <1>8 DEF first

(* ip6in4 matches IPv4 packets with protocol number 41.                    *)
LEMMA Ip6in4Outcome ==
  ASSUME NEW m, Going(m), NEW p, IsPacket(p), NEW sets
  PROVE  /\ Outcome(m, RunFrom(m, ip6in4, p, sets), p.nfproto = NFPROTO_IPV4 /\ p.l4 = IPPROTO.IPV6)
         /\ IsSequence(ip6in4)
<1> DEFINE e == Build("IPv4", "Protocol")
           a == <<Meta("NfProto"), Cmp("Eq", <<NFPROTO_IPV4>>)>>
           s == <<e, Cmp("Eq", <<41>>)>>
           first == p.nfproto = NFPROTO_IPV4
<1>1. ip6in4 = a \o s
  BY DEF ip6in4
<1>2. e = PayloadRaw("NFT_PAYLOAD_NETWORK_HEADER", 9, 1, "Reg1")
  BY Builds
<1>3. p.l4 \in Nat /\ IPPROTO.IPV6 = 41
  BY DEF IsPacket, HasNumbers, Byte, IPPROTO
<1>4. ASSUME NEW n, first, Going(n) PROVE Outcome(n, RunFrom(n, s, p, sets), p.l4 = IPPROTO.IPV6)
  <2>1. LiesAt(NetworkHeader(p), 10, 10, <<p.l4>>)
    BY <1>4, Ipv4Header
  <2>2. Loads(NetworkHeader(p), 9, 1, <<p.l4>>) /\ "Eq" \in {"Eq", "Neq"} /\ 9 \in Nat /\ 1 \in Nat
    BY <2>1 DEF Loads
  <2>3. Step(n, e, p, sets) = Load(n, "Reg1", <<p.l4>>)
    BY <1>2, <1>4, <2>2, NetworkLoad
  <2>4. IsBytes(<<p.l4>>, 1) /\ IsBytes(<<41>>, 1)
    BY <1>3, ShortBytes
  <2> HIDE DEF e
  <2>5. Outcome(n, RunFrom(n, s, p, sets), <<p.l4>> = <<41>> <=> "Eq" = "Eq")
    BY <1>4, <2>2, <2>3, <2>4, BytesCmp
  <2> QED
    BY <1>3, <2>5 DEF Outcome
<1>5. IsSequence(a) /\ IsSequence(s)
  BY ShortSequences
<1>6. Outcome(m, RunFrom(m, a, p, sets), first)
  <2>1. MetaBytes(p, "NfProto") = <<p.nfproto>> /\ Len(<<NFPROTO_IPV4>>) = 1
    BY DEF MetaBytes
  <2>2. Front(<<p.nfproto>>, 1) = <<NFPROTO_IPV4>> <=> first
    BY DEF Front
  <2>3. Outcome(m, RunFrom(m, a, p, sets),
                Front(MetaBytes(p, "NfProto"), Len(<<NFPROTO_IPV4>>)) = <<NFPROTO_IPV4>> <=> "Eq" = "Eq")
    BY MetaCmp
  <2> QED
    BY <2>1, <2>2, <2>3 DEF Outcome
<1> HIDE DEF a, s, first
<1>7. Outcome(m, RunFrom(m, a \o s, p, sets), first /\ p.l4 = IPPROTO.IPV6)
  BY <1>4, <1>5, <1>6, OutcomeConcat, ZenonT(30)
<1>8. IsSequence(ip6in4)
  BY <1>1, <1>5, SequenceConcat
<1> QED
  BY <1>1, <1>7, <1>8 DEF first

(* syn matches the TCP packets with the flag.                              *)
LEMMA SynOutcome ==
  ASSUME NEW m, Going(m), NEW p, IsPacket(p), p.l4 = IPPROTO.TCP, NEW sets
  PROVE  /\ Outcome(m, RunFrom(m, syn, p, sets), (p.flags \div SYN) % 2 = 1)
<1> DEFINE e == PayloadRaw("NFT_PAYLOAD_TRANSPORT_HEADER", 13, 1, "Reg1")
           t == <<p.flags>>
<1>1. Loads(TransportHeader(p), 13, 1, t) /\ 13 \in Nat /\ 1 \in Nat
  BY TcpHeader DEF Loads
<1>2. Step(m, e, p, sets) = Load(m, "Reg1", t)
  BY <1>1, TransportLoad
<1>3. IsRow(t, 1) /\ IsRow(<<SYN>>, 1) /\ IsRow(<<0>>, 1)
  BY DEF IsRow
<1>4. p.flags \in Byte
  BY DEF IsPacket, HasNumbers
<1>5. Masked(t, <<SYN>>, <<0>>, <<0>>, 1) <=> BitXor(BitAnd(p.flags, 2), 0) = 0
  BY DEF Masked, SYN
<1>6. BitAnd(p.flags, 2) = 2 * Bit(p.flags, 2) /\ Bit(p.flags, 2) \in {0, 1}
  BY <1>4, AndTwo, BitsOfByte DEF Weights
<1>7. BitXor(BitAnd(p.flags, 2), 0) = 2 * Bit(p.flags, 2)
  BY <1>6, XorZero DEF Byte
<1>8. ~Masked(t, <<SYN>>, <<0>>, <<0>>, 1) <=> (p.flags \div SYN) % 2 = 1
  BY <1>5, <1>6, <1>7 DEF Bit, SYN
<1>9. syn = <<e, Bitwise(<<SYN>>, <<0>>), Cmp("Neq", <<0>>)>>
  BY DEF syn
<1> HIDE DEF e, t
<1>10. Outcome(m, RunFrom(m, syn, p, sets), ~Masked(t, <<SYN>>, <<0>>, <<0>>, 1))
  BY <1>2, <1>3, <1>9, MaskNeq
<1> QED
  BY <1>8, <1>10 DEF Outcome

-----------------------------------------------------------------------------
(* Connection state and interfaces.                                        *)

(* established matches on a little-endian host.                            *)
LEMMA EstablishedOutcome ==
  ASSUME NEW m, Going(m), NEW p, IsPacket(p), p.host = "little", NEW sets
  PROVE  Outcome(m, RunFrom(m, established, p, sets), (p.ct \div ESTABLISHED) % 2 = 1)
<1> DEFINE e == Conntrack("State")
           t == LE32(p.ct)
           zero == BE32(0)
           flag == LE32(ESTABLISHED)
<1>1. Step(m, e, p, sets) = Load(m, "Reg1", t)
  BY DEF Step, Conntrack, Going, Host32
<1>2. zero = <<0, 0, 0, 0>> /\ flag = <<2, 0, 0, 0>>
  BY DEF BE32, LE32, ESTABLISHED
<1>3. IsRow(t, 4) /\ IsRow(zero, 4) /\ IsRow(flag, 4)
  BY <1>2 DEF IsRow, LE32
<1>4. p.ct \in Nat /\ t[1] = p.ct % 256 /\ p.ct % 256 \in Byte
  BY DEF IsPacket, HasNumbers, Byte, LE32
<1>5. \A i \in 1..4 : zero[i] = 0
  BY <1>2
<1>6. flag[1] = 2 /\ flag[2] = 0 /\ flag[3] = 0 /\ flag[4] = 0
  BY <1>2
<1>7. 0 \in Byte /\ BitXor(0, 0) = 0
  BY XorZero DEF Byte
<1> HIDE DEF t, zero, flag
<1>8. Masked(t, flag, zero, zero, 4) <=> BitXor(BitAnd(p.ct % 256, 2), 0) = 0
  <2>1. \A i \in {2, 3, 4} : BitXor(BitAnd(t[i], flag[i]), zero[i]) = zero[i]
    BY <1>5, <1>6, <1>7, AndZero
  <2>2. 1..4 = {1, 2, 3, 4}
    OBVIOUS
  <2> QED
    BY <1>4, <1>5, <1>6, <2>1, <2>2 DEF Masked
<1>9. BitAnd(p.ct % 256, 2) = 2 * Bit(p.ct % 256, 2) /\ Bit(p.ct % 256, 2) \in {0, 1}
  BY <1>4, AndTwo, BitsOfByte DEF Weights
<1>10. BitXor(BitAnd(p.ct % 256, 2), 0) = 2 * Bit(p.ct % 256, 2)
  BY <1>9, XorZero DEF Byte
<1>11. ((p.ct % 256) \div 2) % 2 = (p.ct \div 2) % 2
  BY <1>4
<1>12. ~Masked(t, flag, zero, zero, 4) <=> (p.ct \div ESTABLISHED) % 2 = 1
  BY <1>8, <1>9, <1>10, <1>11, SMTT(30) DEF Bit, ESTABLISHED
<1>13. established = <<e, Bitwise(flag, zero), Cmp("Neq", zero)>>
  BY DEF established, flag, zero
<1> HIDE DEF e
<1>14. Outcome(m, RunFrom(m, established, p, sets), ~Masked(t, flag, zero, zero, 4))
  BY <1>1, <1>3, <1>13, MaskNeq
<1> QED
  BY <1>12, <1>14, ZenonT(30) DEF Outcome

LEMMA BE32Injective ==
  ASSUME NEW a \in Nat, NEW b \in Nat PROVE BE32(a) = BE32(b) <=> a = b
<1> DEFINE value(x, y, z, w) == 16777216 * x + 65536 * y + 256 * z + w
           high(n) == n \div 16777216
           second(n) == (n \div 65536) % 256
           third(n) == (n \div 256) % 256
           low(n) == n % 256
<1>1. a = value(high(a), second(a), third(a), low(a))
  BY SMTT(30)
<1>2. b = value(high(b), second(b), third(b), low(b))
  BY SMTT(30)
<1>3. /\ BE32(a) = <<high(a), second(a), third(a), low(a)>>
      /\ BE32(b) = <<high(b), second(b), third(b), low(b)>>
  BY SMT DEF BE32
<1> HIDE DEF value, high, second, third, low
<1>4. BE32(a) = BE32(b) => high(a) = high(b) /\ second(a) = second(b) /\ third(a) = third(b) /\ low(a) = low(b)
  BY <1>3, SMT
<1> QED
  BY <1>1, <1>2, <1>4, SMT

(* iface_id and oface_id compare the index in host order with one in       *)
(* network order.                                                          *)
LEMMA IfaceIdReads ==
  ASSUME NEW m, Going(m), NEW p, IsPacket(p), NEW index \in Nat, NEW sets
  PROVE  /\ Outcome(m, RunFrom(m, iface_id(index), p, sets), Host32(p, p.iif) = BE32(index))
         /\ Outcome(m, RunFrom(m, oface_id(index), p, sets), Host32(p, p.oif) = BE32(index))
         /\ IsSequence(iface_id(index)) /\ IsSequence(oface_id(index))
<1>1. MetaBytes(p, "Iif") = Host32(p, p.iif) /\ MetaBytes(p, "Oif") = Host32(p, p.oif)
  BY DEF MetaBytes
<1>2. \A n \in Nat : IsRow(BE32(n), 4) /\ IsRow(LE32(n), 4)
  BY DEF IsRow, BE32, LE32
<1>3. IsRow(Host32(p, p.iif), 4) /\ IsRow(Host32(p, p.oif), 4)
  <2>1. p.iif \in Nat /\ p.oif \in Nat
    BY DEF IsPacket, HasNumbers
  <2> QED
    BY <1>2, <2>1, Zenon DEF Host32
<1>4. ASSUME NEW bytes, IsRow(bytes, 4) PROVE Front(bytes, Len(BE32(index))) = bytes
  <2>1. Len(BE32(index)) = 4 /\ Len(bytes) = 4
    BY <1>2, <1>4, RowLen, Zenon
  <2>2. Front(bytes, 4) = [i \in 1..4 |-> bytes[i]]
    BY <2>1 DEF Front
  <2> QED
    BY <1>4, <2>1, <2>2 DEF IsRow
<1>5. /\ Outcome(m, RunFrom(m, iface_id(index), p, sets),
                 Front(MetaBytes(p, "Iif"), Len(BE32(index))) = BE32(index) <=> "Eq" = "Eq")
      /\ Outcome(m, RunFrom(m, oface_id(index), p, sets),
                 Front(MetaBytes(p, "Oif"), Len(BE32(index))) = BE32(index) <=> "Eq" = "Eq")
  BY MetaCmp DEF iface_id, oface_id
<1>6. /\ Front(MetaBytes(p, "Iif"), Len(BE32(index))) = Host32(p, p.iif)
      /\ Front(MetaBytes(p, "Oif"), Len(BE32(index))) = Host32(p, p.oif)
  BY <1>1, <1>3, <1>4, Zenon
<1>7. IsSequence(iface_id(index)) /\ IsSequence(oface_id(index))
  BY ShortSequences DEF iface_id, oface_id
<1> QED
  BY <1>5, <1>6, <1>7 DEF Outcome

(* That is the right one on a big-endian host, and when the index reads    *)
(* the same in both orders.                                                *)
LEMMA IfaceIdOutcome ==
  ASSUME NEW m, Going(m), NEW p, IsPacket(p), NEW index \in Nat, NEW sets,
         p.host = "little" => BE32(index) = LE32(index)
  PROVE  /\ Outcome(m, RunFrom(m, iface_id(index), p, sets), p.iif = index)
         /\ Outcome(m, RunFrom(m, oface_id(index), p, sets), p.oif = index)
<1>1. ASSUME NEW n \in Nat PROVE Host32(p, n) = BE32(index) <=> n = index
  <2>1. BE32(n) = BE32(index) <=> n = index
    BY BE32Injective
  <2>2. LE32(n) = LE32(index) <=> n = index
    <3>1. \A k \in Nat : BE32(k) = <<LE32(k)[4], LE32(k)[3], LE32(k)[2], LE32(k)[1]>>
      BY DEF BE32, LE32
    <3> QED
      BY <3>1, BE32Injective
  <2> QED
    BY <2>1, <2>2, Zenon DEF Host32
<1>2. /\ Host32(p, p.iif) = BE32(index) <=> p.iif = index
      /\ Host32(p, p.oif) = BE32(index) <=> p.oif = index
  <2>1. p.iif \in Nat /\ p.oif \in Nat
    BY DEF IsPacket, HasNumbers
  <2> QED
    BY <1>1, <2>1
<1> QED
  BY <1>2, IfaceIdReads DEF Outcome

(* A name with its NUL byte against a name padded with NUL bytes.          *)
NulsBehind(a, b) == Len(a) <= Len(b) /\ \A i \in 1..Len(b) : b[i] = IF i <= Len(a) THEN a[i] ELSE 0

LEMMA PaddedName ==
  ASSUME NEW a \in Seq(Byte \ {0}), Len(a) < IFNAMSIZ, NEW b \in Seq(Byte), Len(b) < IFNAMSIZ
  PROVE  Front(a \o Zeros(IFNAMSIZ - Len(a)), Len(Append(b, 0))) = Append(b, 0) <=> NulsBehind(a, b)
<1> DEFINE k == Len(a)
           l == Len(b)
           s == a \o Zeros(IFNAMSIZ - k)
           c == Append(b, 0)
<1>1. k \in Nat /\ l \in Nat /\ k < 16 /\ l < 16
  BY SequenceLen DEF IFNAMSIZ
<1>2. /\ \A i \in 1..k : a[i] # 0
      /\ a = [i \in 1..k |-> a[i]] /\ b = [i \in 1..l |-> b[i]]
  BY SequenceLen
<1>3. Zeros(16 - k) \in Seq(Nat) /\ Len(Zeros(16 - k)) = 16 - k /\ \A i \in 1..(16 - k) : Zeros(16 - k)[i] = 0
  <2>1. 16 - k \in Nat
    BY <1>1
  <2> QED
    BY <2>1, ZerosSeq DEF Zeros
<1>4. Len(s) = 16 /\ \A i \in 1..16 : s[i] = IF i <= k THEN a[i] ELSE 0
  <2>1. a \in Seq(Nat)
    BY DEF Byte
  <2> DEFINE z == Zeros(16 - k)
  <2>2. z \in Seq(Nat) /\ Len(z) = 16 - k /\ \A i \in 1..(16 - k) : z[i] = 0
    BY <1>3
  <2>3. s = a \o z
    BY DEF IFNAMSIZ
  <2> HIDE DEF z, s
  <2>4. /\ Len(a \o z) = Len(a) + Len(z)
        /\ \A i \in 1..(Len(a) + Len(z)) : (a \o z)[i] = IF i <= Len(a) THEN a[i] ELSE z[i - Len(a)]
    BY <2>1, <2>2, ConcatIs, ZenonT(30)
  <2>5. \A i \in 1..16 : i > k => i - k \in 1..(16 - k)
    BY <1>1
  <2>6. k + (16 - k) = 16
    BY <1>1
  <2>7. Len(s) = 16
    BY <2>2, <2>3, <2>4, <2>6, Zenon
  <2>8. ASSUME NEW i \in 1..16 PROVE s[i] = IF i <= k THEN a[i] ELSE 0
    <3>1. s[i] = IF i <= k THEN a[i] ELSE z[i - k]
      BY <2>2, <2>3, <2>4, <2>6, <2>8, Zenon
    <3>2. ~(i <= k) => i > k
      BY <1>1
    <3>3. ~(i <= k) => z[i - k] = 0
      BY <2>2, <2>5, <2>8, <3>2, Zenon
    <3> QED
      BY <3>1, <3>3, Zenon
  <2> QED
    BY <2>7, <2>8
<1>5. Len(c) = l + 1 /\ c = [i \in 1..(l + 1) |-> IF i <= l THEN b[i] ELSE 0]
  <2>1. b \in Seq(Nat) /\ 0 \in Nat
    BY DEF Byte
  <2>2. /\ c \in Seq(Nat) /\ Len(c) = l + 1 /\ c[l + 1] = 0 /\ \A i \in 1..l : c[i] = b[i]
    BY <2>1, AppendIs
  <2> HIDE DEF c, l
  <2>3. c = [i \in 1..(l + 1) |-> c[i]]
    BY <2>2, SequenceLen, Zenon
  <2>4. \A i \in 1..(l + 1) : c[i] = IF i <= l THEN b[i] ELSE 0
    <3> TAKE i \in 1..(l + 1)
    <3>1. i \in 1..l \/ (i = l + 1 /\ ~(i <= l))
      BY <1>1
    <3>2. i \in 1..l => i <= l
      BY <1>1
    <3> QED
      BY <2>2, <3>1, <3>2, Zenon
  <2> QED
    BY <2>2, <2>3, <2>4
<1> HIDE DEF s, c, k, l
<1>6. Front(s, l + 1) = [i \in 1..(l + 1) |-> IF i <= k THEN a[i] ELSE 0]
  <2>1. \A i \in 1..(l + 1) : (IF i <= 16 THEN s[i] ELSE 0) = IF i <= k THEN a[i] ELSE 0
    <3> TAKE i \in 1..(l + 1)
    <3>1. i \in 1..16 /\ i <= 16
      BY <1>1
    <3> QED
      BY <1>4, <3>1, Zenon
  <2> QED
    BY <1>4, <2>1, ZenonT(30) DEF Front
<1>7. ASSUME k <= l, \A i \in 1..l : b[i] = IF i <= k THEN a[i] ELSE 0
      PROVE  Front(s, l + 1) = c
  <2>1. \A i \in 1..(l + 1) : (IF i <= k THEN a[i] ELSE 0) = IF i <= l THEN b[i] ELSE 0
    <3> TAKE i \in 1..(l + 1)
    <3>1. (i \in 1..l /\ i <= l) \/ (~(i <= l) /\ ~(i <= k))
      <4>1. k \in Nat /\ l \in Nat /\ k <= l
        BY <1>1, <1>7
      <4> QED
        BY <4>1
    <3> QED
      BY <1>7, <3>1, Zenon
  <2> QED
    BY <1>5, <1>6, <2>1, ZenonT(30)
<1>8. ASSUME Front(s, l + 1) = c
      PROVE  k <= l /\ \A i \in 1..l : b[i] = IF i <= k THEN a[i] ELSE 0
  <2>1. \A i \in 1..(l + 1) : (IF i <= k THEN a[i] ELSE 0) = IF i <= l THEN b[i] ELSE 0
    BY <1>5, <1>6, <1>8
  <2>2. ~(l < k)
    <3> SUFFICES ASSUME l < k PROVE FALSE
      OBVIOUS
    <3>1. l + 1 \in 1..k /\ l + 1 \in 1..(l + 1) /\ ~(l + 1 <= l) /\ l + 1 <= k
      BY <1>1
    <3> QED
      BY <1>2, <2>1, <3>1
  <2>3. \A i \in 1..l : i \in 1..(l + 1) /\ i <= l
    BY <1>1
  <2>4. k <= l
    BY <1>1, <2>2
  <2> QED
    BY <2>1, <2>3, <2>4, Zenon
<1> QED
  BY <1>5, <1>7, <1>8, ZenonT(30) DEF s, c, k, l, NulsBehind

(* Of a name without a NUL byte that is the name itself.                   *)
LEMMA SameName ==
  ASSUME NEW a, IsInterfaceName(a), NEW b, IsInterfaceName(b)
  PROVE  NulsBehind(a, b) <=> a = b
<1> DEFINE k == Len(a)
           l == Len(b)
<1>1. /\ k \in Nat /\ l \in Nat /\ \A i \in 1..l : b[i] # 0
      /\ a = [i \in 1..k |-> a[i]] /\ b = [i \in 1..l |-> b[i]]
  BY SequenceLen DEF IsInterfaceName
<1>2. ASSUME NulsBehind(a, b) PROVE a = b
  <2>1. k <= l /\ \A i \in 1..l : b[i] = IF i <= k THEN a[i] ELSE 0
    BY <1>2 DEF NulsBehind
  <2> HIDE DEF k, l
  <2>2. k = l
    <3> SUFFICES ASSUME k # l PROVE FALSE
      OBVIOUS
    <3>1. k + 1 \in 1..l /\ ~(k + 1 <= k)
      BY <1>1, <2>1
    <3> QED
      BY <1>1, <2>1, <3>1
  <2>3. \A i \in 1..l : a[i] = b[i]
    BY <1>1, <2>1, <2>2
  <2> QED
    BY <1>1, <2>2, <2>3
<1>3. ASSUME a = b PROVE NulsBehind(a, b)
  BY <1>1, <1>3 DEF NulsBehind
<1> QED
  BY <1>2, <1>3

(* iface and oface match the interface whose name stands in front of the   *)
(* NUL bytes.                                                              *)
LEMMA IfaceReads ==
  ASSUME NEW m, Going(m), NEW p, IsPacket(p), NEW name \in Seq(Byte), Len(name) < IFNAMSIZ, NEW sets
  PROVE  /\ Outcome(m, RunFrom(m, iface(name), p, sets), NulsBehind(p.iifname, name))
         /\ Outcome(m, RunFrom(m, oface(name), p, sets), NulsBehind(p.oifname, name))
<1>1. /\ MetaBytes(p, "IifName") = p.iifname \o Zeros(IFNAMSIZ - Len(p.iifname))
      /\ MetaBytes(p, "OifName") = p.oifname \o Zeros(IFNAMSIZ - Len(p.oifname))
  BY Zenon DEF MetaBytes
<1>2. /\ Front(MetaBytes(p, "IifName"), Len(Append(name, 0))) = Append(name, 0) <=> NulsBehind(p.iifname, name)
      /\ Front(MetaBytes(p, "OifName"), Len(Append(name, 0))) = Append(name, 0) <=> NulsBehind(p.oifname, name)
  BY <1>1, PaddedName, Zenon DEF IsPacket, IsInterfaceName
<1>3. /\ Outcome(m, RunFrom(m, iface(name), p, sets),
                 Front(MetaBytes(p, "IifName"), Len(Append(name, 0))) = Append(name, 0) <=> "Eq" = "Eq")
      /\ Outcome(m, RunFrom(m, oface(name), p, sets),
                 Front(MetaBytes(p, "OifName"), Len(Append(name, 0))) = Append(name, 0) <=> "Eq" = "Eq")
  BY MetaCmp, Zenon DEF iface, oface
<1> QED
  BY <1>2, <1>3 DEF Outcome

(* With a name without a NUL byte, that is the interface itself.           *)
LEMMA IfaceOutcome ==
  ASSUME NEW m, Going(m), NEW p, IsPacket(p), NEW name, IsInterfaceName(name), NEW sets
  PROVE  /\ Outcome(m, RunFrom(m, iface(name), p, sets), p.iifname = name)
         /\ Outcome(m, RunFrom(m, oface(name), p, sets), p.oifname = name)
<1>1. name \in Seq(Byte) /\ Len(name) < IFNAMSIZ
  BY DEF IsInterfaceName
<1>2. NulsBehind(p.iifname, name) <=> p.iifname = name
  BY SameName DEF IsPacket
<1>3. NulsBehind(p.oifname, name) <=> p.oifname = name
  BY SameName DEF IsPacket
<1> QED
  BY <1>1, <1>2, <1>3, IfaceReads DEF Outcome

-----------------------------------------------------------------------------
(* Statements: what the state is behind them.                              *)

Becomes(r, verdict, nat, mss, logs) ==
  IsMachine(r) /\ r.verdict = verdict /\ r.nat = nat /\ r.mss = mss /\ r.logs = logs

LEMMA ExceptBecomes ==
  ASSUME NEW m, IsMachine(m), NEW x, NEW y
  PROVE  /\ Becomes([m EXCEPT !.verdict = x], x, m.nat, m.mss, m.logs)
         /\ Becomes([m EXCEPT !.verdict = x, !.nat = y], x, y, m.mss, m.logs)
         /\ Becomes([m EXCEPT !.mss = y], m.verdict, m.nat, y, m.logs)
         /\ Becomes([m EXCEPT !.logs = y], m.verdict, m.nat, m.mss, y)
<1> DEFINE record(v, n, s, l) ==
             [regs |-> m.regs, verdict |-> v, nat |-> n, mss |-> s, logs |-> l, counted |-> m.counted]
<1>1. ASSUME NEW v, NEW n, NEW s, NEW l PROVE Becomes(record(v, n, s, l), v, n, s, l)
  BY DEF Becomes, IsMachine
<1>2. m = record(m.verdict, m.nat, m.mss, m.logs)
  BY DEF IsMachine
<1>3. /\ [m EXCEPT !.verdict = x] = record(x, m.nat, m.mss, m.logs)
      /\ [m EXCEPT !.mss = y] = record(m.verdict, m.nat, y, m.logs)
      /\ [m EXCEPT !.logs = y] = record(m.verdict, m.nat, m.mss, y)
  BY <1>2
<1>4. [m EXCEPT !.verdict = x, !.nat = y] = record(x, y, m.mss, m.logs)
  <2> DEFINE k == [m EXCEPT !.verdict = x]
  <2>1. k = record(x, m.nat, m.mss, m.logs)
    BY <1>3
  <2>2. [m EXCEPT !.verdict = x, !.nat = y] = [k EXCEPT !.nat = y]
    OBVIOUS
  <2> HIDE DEF k
  <2>3. [k EXCEPT !.nat = y] = record(x, y, m.mss, m.logs)
    BY <2>1
  <2> QED
    BY <2>2, <2>3
<1> HIDE DEF record
<1> QED
  BY <1>1, <1>3, <1>4

LEMMA VerdictRun ==
  ASSUME NEW m, Going(m), NEW kind, NEW p, NEW sets
  PROVE  /\ Becomes(RunFrom(m, <<ImmediateVerdict(kind)>>, p, sets), kind, m.nat, m.mss, m.logs)
         /\ IsSequence(<<ImmediateVerdict(kind)>>)
<1>1. RunFrom(m, <<ImmediateVerdict(kind)>>, p, sets) = Step(m, ImmediateVerdict(kind), p, sets)
  BY RunOne, ZenonT(30)
<1>2. Step(m, ImmediateVerdict(kind), p, sets) = [m EXCEPT !.verdict = kind]
  BY ZenonT(30) DEF Step, ImmediateVerdict, Going
<1>3. Becomes([m EXCEPT !.verdict = kind], kind, m.nat, m.mss, m.logs)
  BY ExceptBecomes, Zenon DEF Going
<1> QED
  BY <1>1, <1>2, <1>3, ShortSequences

LEMMA MasqueradeRun ==
  ASSUME NEW m, Going(m), NEW p, NEW sets
  PROVE  /\ Becomes(RunFrom(m, masquerade, p, sets), "Accept", <<"masquerade">>, m.mss, m.logs)
         /\ IsSequence(masquerade)
<1>1. RunFrom(m, masquerade, p, sets) = Step(m, Masquerade, p, sets)
  BY RunOne, ZenonT(30) DEF masquerade
<1>2. Step(m, Masquerade, p, sets) = [m EXCEPT !.verdict = "Accept", !.nat = <<"masquerade">>]
  BY ZenonT(30) DEF Step, Masquerade, Going
<1>3. Becomes([m EXCEPT !.verdict = "Accept", !.nat = <<"masquerade">>],
              "Accept", <<"masquerade">>, m.mss, m.logs)
  BY ExceptBecomes, Zenon DEF Going
<1> QED
  BY <1>1, <1>2, <1>3, ShortSequences DEF masquerade

LEMMA LogRun ==
  ASSUME NEW m, Going(m), NEW prefix, NEW p, NEW sets
  PROVE  /\ Becomes(RunFrom(m, <<Log(NoLogGroup, prefix)>>, p, sets), "Continue", m.nat, m.mss,
                    Append(m.logs, Log(NoLogGroup, prefix)))
         /\ IsSequence(<<Log(NoLogGroup, prefix)>>)
<1> DEFINE e == Log(NoLogGroup, prefix)
<1>1. RunFrom(m, <<e>>, p, sets) = Step(m, e, p, sets)
  BY RunOne
<1>2. e.expr = "log"
  BY ZenonT(30) DEF Log
<1> HIDE DEF e
<1>3. Step(m, e, p, sets) = [m EXCEPT !.logs = Append(@, e)]
  BY <1>2, ZenonT(30) DEF Step, Going
<1>4. Becomes([m EXCEPT !.logs = Append(@, e)], "Continue", m.nat, m.mss, Append(m.logs, e))
  BY ExceptBecomes, ZenonT(30) DEF Going
<1> QED
  BY <1>1, <1>3, <1>4, ShortSequences DEF e

LEMMA ImmediateLoad ==
  ASSUME NEW m, Going(m), NEW data, NEW r \in Registers, NEW p, NEW sets
  PROVE  Step(m, ImmediateData(data, r), p, sets) = Load(m, r, data)
<1>1. r # "Verdict"
  BY DEF Registers
<1> QED
  BY <1>1, ZenonT(30) DEF Step, ImmediateData, Going

LEMMA TakeRow ==
  ASSUME NEW m, NEW r, NEW n, IsRow(m.regs[r], n)
  PROVE  Take(m, r, n) = m.regs[r]
<1>1. Len(m.regs[r]) = n
  BY RowLen
<1>2. Take(m, r, n) = [i \in 1..n |-> m.regs[r][i]]
  BY <1>1 DEF Take, IsRow
<1> QED
  BY <1>2 DEF IsRow

(* dnat to an IPv4 address.                                                *)
LEMMA DnatRun ==
  ASSUME NEW m, Going(m), NEW dst, IsBytes(dst, 4), NEW port, port = NoPort \/ port \in Nat,
         NEW p, IsPacket(p), NEW sets
  PROVE  /\ p.nfproto = NFPROTO_IPV4 =>
              Becomes(RunFrom(m, dnat(dst, port), p, sets), "Accept",
                      <<dst, IF port = NoPort THEN << >> ELSE BE16(port)>>, m.mss, m.logs)
         /\ p.nfproto # NFPROTO_IPV4 =>
              Becomes(RunFrom(m, dnat(dst, port), p, sets), "Continue", m.nat, m.mss, m.logs)
         /\ IsSequence(dnat(dst, port))
<1> DEFINE a == Load(m, "Reg1", dst)
           b == Load(a, "Reg2", BE16(port))
<1>1. "Reg1" \in Registers /\ "Reg2" \in Registers /\ "Reg1" # "Reg2"
  BY DEF Registers
<1>2. Going(a) /\ a.regs["Reg1"] = dst /\ Same(m, a)
  BY <1>1, LoadGoes
<1>3. Step(m, ImmediateData(dst, "Reg1"), p, sets) = a
  BY <1>1, ImmediateLoad
<1>4. IsRow(dst, 4)
  BY BytesRow
<1> HIDE DEF a
<1>5. CASE port = NoPort
  <2> DEFINE e == Nat4("Reg1", "none")
  <2>1. dnat(dst, port) = <<ImmediateData(dst, "Reg1"), e>>
    BY <1>5 DEF dnat
  <2>2. RunFrom(m, dnat(dst, port), p, sets) = Step(a, e, p, sets)
    BY <1>3, <2>1, RunTwo, SMTT(30)
  <2>3. Step(a, e, p, sets) = RunNat(a, e, p)
    BY <1>2, ZenonT(30) DEF Step, Nat4, Going
  <2>4. Take(a, "Reg1", 4) = dst
    BY <1>2, <1>4, TakeRow
  <2>5. RunNat(a, e, p) = IF p.nfproto # NFPROTO_IPV4 THEN a
                          ELSE [a EXCEPT !.verdict = "Accept", !.nat = <<dst, << >> >>]
    BY <2>4, Zenon DEF RunNat, Nat4
  <2>6. Becomes([a EXCEPT !.verdict = "Accept", !.nat = <<dst, << >> >>], "Accept", <<dst, << >> >>, m.mss, m.logs)
    BY <1>2, ExceptBecomes, Zenon DEF Going, Same
  <2>7. Becomes(a, "Continue", m.nat, m.mss, m.logs)
    BY <1>2 DEF Becomes, Going, Same
  <2> QED
    BY <1>5, <2>1, <2>2, <2>3, <2>5, <2>6, <2>7, ShortSequences, SMTT(30)
<1>6. CASE port # NoPort
  <2> DEFINE e == Nat4("Reg1", "Reg2")
             i == ImmediateData(BE16(port), "Reg2")
  <2>1. dnat(dst, port) = <<ImmediateData(dst, "Reg1"), i, e>>
    BY <1>6 DEF dnat
  <2>2. Going(b) /\ b.regs["Reg1"] = dst /\ b.regs["Reg2"] = BE16(port) /\ Same(a, b)
    BY <1>1, <1>2, LoadGoes
  <2>3. Step(a, i, p, sets) = b
    BY <1>1, <1>2, ImmediateLoad
  <2> HIDE DEF b
  <2>4. RunFrom(m, dnat(dst, port), p, sets) = Step(b, e, p, sets)
    BY <1>3, <2>1, <2>3, RunThree, SMTT(30)
  <2>5. Step(b, e, p, sets) = RunNat(b, e, p)
    BY <2>2, ZenonT(30) DEF Step, Nat4, Going
  <2>6. Take(b, "Reg1", 4) = dst /\ Take(b, "Reg2", 2) = BE16(port)
    <3>1. IsRow(BE16(port), 2)
      BY <1>6, BE16Bytes, BytesRow
    <3> QED
      BY <1>4, <2>2, <3>1, TakeRow
  <2>7. RunNat(b, e, p) = IF p.nfproto # NFPROTO_IPV4 THEN b
                          ELSE [b EXCEPT !.verdict = "Accept", !.nat = <<dst, BE16(port)>>]
    BY <2>6, ZenonT(30) DEF RunNat, Nat4
  <2>8. Becomes([b EXCEPT !.verdict = "Accept", !.nat = <<dst, BE16(port)>>], "Accept",
                <<dst, BE16(port)>>, m.mss, m.logs)
    <3>1. Becomes([b EXCEPT !.verdict = "Accept", !.nat = <<dst, BE16(port)>>], "Accept",
                  <<dst, BE16(port)>>, b.mss, b.logs)
      BY <2>2, ExceptBecomes, Zenon DEF Going
    <3> QED
      BY <1>2, <2>2, <3>1 DEF Same
  <2>9. Becomes(b, "Continue", m.nat, m.mss, m.logs)
    BY <1>2, <2>2 DEF Becomes, Going, Same
  <2> QED
    BY <1>6, <2>1, <2>4, <2>5, <2>7, <2>8, <2>9, ShortSequences, SMTT(30)
<1> QED
  BY <1>5, <1>6


(* The MSS option: kind, length and two bytes.                             *)
HasOption(mss) == mss = << >> \/ \E a, b : mss = <<2, 4, a, b>>

(* The option with the value, in network order.                            *)
MssOption(value) == <<2, 4>> \o BE16(value)

MssOutcome(m, r, p, value) ==
  /\ p.l4 # IPPROTO.TCP => Becomes(r, "Break", m.nat, m.mss, m.logs)
  /\ p.l4 = IPPROTO.TCP /\ m.mss = << >> => Becomes(r, "Continue", m.nat, m.mss, m.logs)
  /\ p.l4 = IPPROTO.TCP /\ m.mss # << >> => Becomes(r, "Continue", m.nat, MssOption(value), m.logs)

(* What is written is an option again.                                     *)
LEMMA MssOptionIs ==
  ASSUME NEW value \in Nat PROVE HasOption(MssOption(value))
<1>1. BE16(value) = <<value \div 256, value % 256>>
  BY DEF BE16
<1>2. PICK mss : mss = <<2, 4, value \div 256, value % 256>>
  BY Zenon
<1>3. mss = MssOption(value)
  BY <1>1, <1>2 DEF MssOption
<1> QED
  BY <1>2, <1>3, ZenonT(30) DEF HasOption

LEMMA OptionWrite ==
  ASSUME NEW m, Going(m), HasOption(m.mss), NEW value \in Nat, m.regs["Reg1"] = BE16(value), NEW p, NEW sets
  PROVE  MssOutcome(m, Step(m, ExtHdrTCPOpt("Reg1", 2, 2, 2), p, sets), p, value)
<1> DEFINE e == ExtHdrTCPOpt("Reg1", 2, 2, 2)
<1>1. Step(m, e, p, sets) = RunExtHdr(m, e, p)
  BY DEF Step, ExtHdrTCPOpt, Going
<1>2. e.sreg = "Reg1" /\ e.typ = 2 /\ e.offset = 2 /\ e.len = 2
  BY DEF ExtHdrTCPOpt
<1> HIDE DEF e
<1>3. CASE p.l4 # IPPROTO.TCP
  <2>1. RunExtHdr(m, e, p) = [m EXCEPT !.verdict = "Break"]
    BY <1>3, SMTT(30) DEF RunExtHdr, Break
  <2>2. Becomes([m EXCEPT !.verdict = "Break"], "Break", m.nat, m.mss, m.logs)
    BY ExceptBecomes, ZenonT(30) DEF Going
  <2> QED
    BY <1>1, <1>3, <2>1, <2>2 DEF MssOutcome, e
<1>4. CASE p.l4 = IPPROTO.TCP /\ m.mss = << >>
  <2>1. RunExtHdr(m, e, p) = m
    BY <1>4 DEF RunExtHdr
  <2>2. Becomes(m, "Continue", m.nat, m.mss, m.logs)
    BY DEF Becomes, Going
  <2> QED
    BY <1>1, <1>4, <2>1, <2>2 DEF MssOutcome, e
<1>5. CASE p.l4 = IPPROTO.TCP /\ m.mss # << >>
  <2>1. PICK a, b : m.mss = <<2, 4, a, b>>
    BY <1>5 DEF HasOption
  <2> DEFINE new == [i \in DOMAIN m.mss |-> IF i \in (e.offset + 1)..(e.offset + e.len)
                                            THEN Take(m, e.sreg, e.len)[i - e.offset] ELSE m.mss[i]]
  <2>2. m.mss[1] = 2
    BY <2>1
  <2>3. RunExtHdr(m, e, p) = [m EXCEPT !.mss = new]
    BY <1>2, <1>5, <2>2 DEF RunExtHdr
  <2>4. Take(m, "Reg1", 2) = BE16(value)
    <3>1. IsRow(BE16(value), 2)
      BY BE16Bytes, BytesRow, SMTT(30)
    <3> QED
      BY <3>1, TakeRow
  <2>5. new = MssOption(value)
    <3>1. new = [i \in 1..4 |-> IF i \in 3..4 THEN BE16(value)[i - 2] ELSE <<2, 4, a, b>>[i]]
      BY <1>2, <2>1, <2>4
    <3>2. BE16(value) = <<value \div 256, value % 256>>
      BY DEF BE16
    <3>3. new = <<2, 4, value \div 256, value % 256>>
      BY <3>1, <3>2, SMTT(30)
    <3> QED
      BY <3>2, <3>3 DEF MssOption
  <2> HIDE DEF new
  <2>6. Becomes([m EXCEPT !.mss = new], m.verdict, m.nat, new, m.logs)
    BY ExceptBecomes, Zenon DEF Going
  <2> QED
    BY <1>1, <1>5, <2>3, <2>5, <2>6, SMTT(30) DEF MssOutcome, e, Going
<1> QED
  BY <1>3, <1>4, <1>5, ZenonT(30)

LEMMA MssLoaded ==
  ASSUME NEW m, NEW n, Going(m), Same(m, n), NEW r, NEW p, NEW value, MssOutcome(n, r, p, value)
  PROVE  MssOutcome(m, r, p, value)
BY DEF MssOutcome, Same

LEMMA SetMssRun ==
  ASSUME NEW m, Going(m), HasOption(m.mss), NEW value \in Nat, NEW p, NEW sets
  PROVE  MssOutcome(m, RunFrom(m, set_mss(value), p, sets), p, value) /\ IsSequence(set_mss(value))
<1> DEFINE n == Load(m, "Reg1", BE16(value))
           e == ExtHdrTCPOpt("Reg1", 2, 2, 2)
<1>1. "Reg1" \in Registers
  BY DEF Registers
<1>2. Step(m, ImmediateData(BE16(value), "Reg1"), p, sets) = n
  BY <1>1, ImmediateLoad
<1>3. Going(n) /\ n.regs["Reg1"] = BE16(value) /\ Same(m, n)
  BY <1>1, LoadGoes
<1>4. set_mss(value) = <<ImmediateData(BE16(value), "Reg1"), e>>
  BY DEF set_mss
<1> HIDE DEF n, e
<1>5. RunFrom(m, set_mss(value), p, sets) = Step(n, e, p, sets)
  BY <1>2, <1>4, RunTwo, SMTT(30)
<1>6. MssOutcome(n, Step(n, e, p, sets), p, value)
  BY <1>3, OptionWrite DEF Same, e
<1>7. MssOutcome(m, Step(n, e, p, sets), p, value)
  BY <1>3, <1>6, MssLoaded
<1> QED
  BY <1>4, <1>5, <1>7, ShortSequences

LEMMA ClampRun ==
  ASSUME NEW m, Going(m), HasOption(m.mss), NEW p, IsPacket(p), NEW sets
  PROVE  MssOutcome(m, RunFrom(m, clamp_mss_to_pmtu, p, sets), p, p.pathMss) /\ IsSequence(clamp_mss_to_pmtu)
<1> DEFINE v == p.pathMss
           h == Host16(p, v)
           n == Load(m, "Reg1", h)
           o == ByteorderHtoN("Reg1", "Reg1", 2, 2)
           e == ExtHdrTCPOpt("Reg1", 2, 2, 2)
           k == Load(m, "Reg1", BE16(v))
<1>1. "Reg1" \in Registers /\ v \in Nat
  BY SMTT(30) DEF Registers, IsPacket, HasNumbers, Word
<1>2. Step(m, Rt("TCPMSS", "Reg1"), p, sets) = n
  BY DEF Step, Rt, Going
<1>3. Going(n) /\ n.regs["Reg1"] = h
  BY <1>1, LoadGoes
<1>4. Going(k) /\ k.regs["Reg1"] = BE16(v) /\ Same(m, k)
  BY <1>1, LoadGoes
<1>5. IsRow(h, 2) /\ h = IF p.host = "little" THEN <<v % 256, v \div 256>> ELSE <<v \div 256, v % 256>>
  BY SMTT(30) DEF Host16, BE16, IsRow
<1> HIDE DEF n, h
<1>6. Step(n, o, p, sets) = RunByteorder(n, o, p)
  BY <1>3, ZenonT(30) DEF Step, ByteorderHtoN, Going
<1>7. Take(n, "Reg1", 2) = h
  BY <1>3, <1>5, TakeRow
<1>8. RunByteorder(n, o, p) = Load(n, "Reg1", BE16(v))
  <2>1. RunByteorder(n, o, p)
          = Load(n, "Reg1", [i \in 1..2 |-> IF p.host = "little" THEN h[IF i % 2 = 1 THEN i + 1 ELSE i - 1] ELSE h[i]])
    BY <1>7 DEF RunByteorder, ByteorderHtoN
  <2>2. [i \in 1..2 |-> IF p.host = "little" THEN h[IF i % 2 = 1 THEN i + 1 ELSE i - 1] ELSE h[i]] = BE16(v)
    <3>1. CASE p.host = "little"
      <4>1. h[1] = v % 256 /\ h[2] = v \div 256
        BY <1>5, <3>1
      <4>2. \A i \in 1..2 : h[IF i % 2 = 1 THEN i + 1 ELSE i - 1] = BE16(v)[i]
        BY <4>1 DEF BE16
      <4> QED
        BY <3>1, <4>2 DEF BE16
    <3>2. CASE p.host # "little"
      <4>1. h = BE16(v)
        BY <1>5, <3>2 DEF BE16
      <4> QED
        BY <1>5, <3>2, <4>1 DEF IsRow
    <3> QED
      BY <3>1, <3>2
  <2> QED
    BY <2>1, <2>2
<1>9. Step(n, o, p, sets) = k
  BY <1>6, <1>8, LoadTwice DEF n
<1>10. clamp_mss_to_pmtu = <<Rt("TCPMSS", "Reg1"), o, e>>
  BY DEF clamp_mss_to_pmtu
<1> HIDE DEF o, e, k, v
<1>11. RunFrom(m, clamp_mss_to_pmtu, p, sets) = Step(k, e, p, sets)
  BY <1>2, <1>9, <1>10, RunThree, SMTT(30)
<1>12. MssOutcome(k, Step(k, e, p, sets), p, v)
  BY <1>1, <1>4, OptionWrite DEF Same, e
<1>13. MssOutcome(m, Step(k, e, p, sets), p, v)
  BY <1>4, <1>12, MssLoaded
<1> QED
  BY <1>10, <1>11, <1>13, ShortSequences, SMTT(30) DEF v

-----------------------------------------------------------------------------
(* A rule on a packet.                                                     *)

(* The rule has the verdict `kind` for the packets that `matches` says and *)
(* none for the others, and it leaves nothing else behind.                 *)
Decides(exprs, p, kind, matches) ==
  LET r == Evaluate(exprs, p, << >>)
  IN /\ matches => r.verdict = kind
     /\ ~matches => r.verdict = "Break"
     /\ r.logs = << >> /\ r.counted = 0

LEMMA TestedVerdict ==
  ASSUME NEW test, IsSequence(test), NEW p, NEW matches, NEW kind,
         Outcome(Start(p), RunFrom(Start(p), test, p, << >>), matches)
  PROVE  Decides(test \o <<ImmediateVerdict(kind)>>, p, kind, matches)
<1> DEFINE v == <<ImmediateVerdict(kind)>>
           n == RunFrom(Start(p), test, p, << >>)
           r == RunFrom(n, v, p, << >>)
<1>1. IsSequence(v)
  BY ShortSequences
<1>2. Evaluate(test \o v, p, << >>) = r
  BY <1>1, SequenceConcat DEF Evaluate
<1>3. /\ IsMachine(n) /\ n.logs = << >> /\ n.counted = 0
      /\ (matches => n.verdict = "Continue") /\ (~matches => n.verdict = "Break")
  BY DEF Outcome, Same, Start
<1> HIDE DEF n
<1>4. CASE matches
  <2>1. r = Step(n, ImmediateVerdict(kind), p, << >>)
    BY RunOne, ZenonT(30)
  <2>2. Step(n, ImmediateVerdict(kind), p, << >>) = [n EXCEPT !.verdict = kind]
    BY <1>3, <1>4, ZenonT(30) DEF Step, ImmediateVerdict
  <2>3. n = [regs |-> n.regs, verdict |-> n.verdict, nat |-> n.nat, mss |-> n.mss, logs |-> n.logs,
             counted |-> n.counted]
    BY <1>3 DEF IsMachine
  <2>4. r.verdict = kind /\ r.logs = << >> /\ r.counted = 0
    BY <2>1, <2>2, <2>3, <1>3
  <2> QED
    BY <1>2, <1>4, <2>4 DEF Decides
<1>5. CASE ~matches
  <2>1. r = n
    BY <1>1, <1>3, <1>5, RunStopped
  <2> QED
    BY <1>2, <1>3, <1>5, <2>1 DEF Decides
<1> QED
  BY <1>4, <1>5

(* What comes behind a verdict is not run: neither branch goes on.         *)
LEMMA BehindVerdict ==
  ASSUME NEW a, IsSequence(a), NEW b, IsSequence(b), NEW p, NEW matches, NEW kind, kind # "Continue",
         Decides(a, p, kind, matches)
  PROVE  Decides(a \o b, p, kind, matches)
<1> DEFINE n == Evaluate(a, p, << >>)
<1>1. n.verdict # "Continue"
  BY DEF Decides
<1>2. Evaluate(a \o b, p, << >>) = RunFrom(n, b, p, << >>)
  BY SequenceConcat DEF Evaluate
<1> HIDE DEF n
<1>3. RunFrom(n, b, p, << >>) = n
  BY <1>1, RunStopped
<1>4. Evaluate(a \o b, p, << >>) = Evaluate(a, p, << >>)
  BY <1>2, <1>3 DEF n
<1> QED
  BY <1>4 DEF Decides

(* A /24 network.                                                          *)
LEMMA SlashTwentyFour ==
  ASSUME NEW net, net.prefix = 24, net.ip \in [1..4 -> Byte], net.ip[4] = 0
  PROVE  /\ IsNetwork(net) /\ Family(net.ip) = NFPROTO_IPV4 /\ IsV4(net.ip)
         /\ network(net) = net.ip
         /\ \A ip \in [1..4 -> Byte] : SamePrefix(ip, net) <=> SubSeq(ip, 1, 3) = SubSeq(net.ip, 1, 3)
<1>1. Len(net.ip) = 4 /\ IsAddress(net.ip)
  BY DEF IsAddress
<1>2. HostBits(net, 1) = 0 /\ HostBits(net, 2) = 0 /\ HostBits(net, 3) = 0 /\ HostBits(net, 4) = 8
  BY DEF HostBits
<1> DEFINE w == [i \in 1..4 |-> 2 ^ HostBits(net, i)]
<1>3. w[1] = 1 /\ w[2] = 1 /\ w[3] = 1 /\ w[4] = 256
  <2>1. 2 ^ 0 = 1 /\ 2 ^ 8 = 256
    OBVIOUS
  <2>2. 1 \in 1..4 /\ 2 \in 1..4 /\ 3 \in 1..4 /\ 4 \in 1..4
    OBVIOUS
  <2>3. \A i \in 1..4 : w[i] = 2 ^ HostBits(net, i)
    BY Zenon
  <2> HIDE DEF w
  <2>4. /\ w[1] = 2 ^ HostBits(net, 1) /\ w[2] = 2 ^ HostBits(net, 2)
        /\ w[3] = 2 ^ HostBits(net, 3) /\ w[4] = 2 ^ HostBits(net, 4)
    BY <2>2, <2>3, Zenon
  <2>5. w[1] = 2 ^ 0 /\ w[2] = 2 ^ 0 /\ w[3] = 2 ^ 0 /\ w[4] = 2 ^ 8
    BY <1>2, <2>4, Zenon
  <2> QED
    BY <2>1, <2>5
<1>6. /\ network(net) = [i \in 1..4 |-> net.ip[i] - (net.ip[i] % w[i])]
      /\ \A ip : SamePrefix(ip, net) <=> \A i \in 1..4 : ip[i] \div w[i] = net.ip[i] \div w[i]
  BY <1>1 DEF network, SamePrefix
<1> HIDE DEF w
<1>7. \A i : i \in 1..4 <=> i = 1 \/ i = 2 \/ i = 3 \/ i = 4
  OBVIOUS
<1>4. network(net) = net.ip
  <2> DEFINE q == net.ip
  <2>1. ASSUME NEW i \in 1..4 PROVE q[i] - (q[i] % w[i]) = q[i]
    <3>1. q[i] \in Nat
      BY DEF Byte
    <3>2. CASE i = 4
      BY <1>3, <3>2
    <3>3. CASE i # 4
      <4>1. w[i] = 1
        BY <1>3, <3>3
      <4> HIDE DEF q
      <4>2. q[i] % 1 = 0
        BY <3>1
      <4> QED
        BY <3>1, <4>1, <4>2
    <3> QED
      BY <3>2, <3>3
  <2>2. q = [i \in 1..4 |-> q[i]]
    OBVIOUS
  <2> HIDE DEF q
  <2> QED
    BY <1>6, <2>1, <2>2 DEF q
<1>5. ASSUME NEW ip \in [1..4 -> Byte]
      PROVE  SamePrefix(ip, net) <=> SubSeq(ip, 1, 3) = SubSeq(net.ip, 1, 3)
  <2> DEFINE q == net.ip
  <2>1. SamePrefix(ip, net) <=> ip[1] = q[1] /\ ip[2] = q[2] /\ ip[3] = q[3]
    <3>1. SamePrefix(ip, net) <=> \A i \in 1..4 : ip[i] \div w[i] = q[i] \div w[i]
      BY <1>6
    <3>2. /\ ip[1] \div w[1] = ip[1] /\ ip[2] \div w[2] = ip[2] /\ ip[3] \div w[3] = ip[3] /\ ip[4] \div w[4] = 0
          /\ q[1] \div w[1] = q[1] /\ q[2] \div w[2] = q[2] /\ q[3] \div w[3] = q[3] /\ q[4] \div w[4] = 0
      BY <1>3 DEF Byte
    <3> HIDE DEF q
    <3>3. (\A i \in 1..4 : ip[i] \div w[i] = q[i] \div w[i])
            <=> /\ ip[1] \div w[1] = q[1] \div w[1] /\ ip[2] \div w[2] = q[2] \div w[2]
                /\ ip[3] \div w[3] = q[3] \div w[3] /\ ip[4] \div w[4] = q[4] \div w[4]
      BY <1>7, Zenon
    <3> QED
      BY <3>1, <3>2, <3>3
  <2>2. SubSeq(ip, 1, 3) = [i \in 1..3 |-> ip[i]] /\ SubSeq(q, 1, 3) = [i \in 1..3 |-> q[i]]
    <3>1. ASSUME NEW s \in [1..4 -> Byte] PROVE SubSeq(s, 1, 3) = [i \in 1..3 |-> s[i]]
      BY SubSeqIs
    <3> QED
      BY <3>1
  <2>3. [i \in 1..3 |-> ip[i]] = [i \in 1..3 |-> q[i]] <=> \A i \in 1..3 : ip[i] = q[i]
    OBVIOUS
  <2>4. 1..3 = {1, 2, 3}
    OBVIOUS
  <2> HIDE DEF q
  <2>5. SamePrefix(ip, net) <=> SubSeq(ip, 1, 3) = SubSeq(q, 1, 3)
    BY <2>1, <2>2, <2>3, <2>4
  <2> QED
    BY <2>5 DEF q
<1> QED
  BY <1>1, <1>4, <1>5 DEF IsNetwork, Family, IsV4

(* The first three octets of an address.                                   *)
LEMMA FirstThree ==
  ASSUME NEW ip \in [1..4 -> Byte]
  PROVE  SubSeq(ip, 1, 3) = <<ip[1], ip[2], ip[3]>>
<1>1. SubSeq(ip, 1, 3) = [k \in 1..3 |-> ip[k]]
  BY SubSeqIs
<1> DEFINE a == ip[1]
           b == ip[2]
           c == ip[3]
<1>2. \A k \in 1..3 : ip[k] = IF k = 1 THEN a ELSE IF k = 2 THEN b ELSE c
  OBVIOUS
<1> HIDE DEF a, b, c
<1>3. [k \in 1..3 |-> IF k = 1 THEN a ELSE IF k = 2 THEN b ELSE c] = <<a, b, c>>
  OBVIOUS
<1> QED
  BY <1>1, <1>2, <1>3, Zenon DEF a, b, c

=============================================================================
