---------------------------- MODULE BuilderProofs ---------------------------
(***************************************************************************)
(* What the builders of the crate make and write, for every argument and   *)
(* any number of calls.                                                    *)
(*                                                                         *)
(* Attributes (macros/src/lib.rs, src/parser_impls.rs): WritesInside and   *)
(* HeaderLengths.  What get_size counts for an attribute is how far        *)
(* write_payload moves on behind it, so a payload keeps inside its size    *)
(* when the payloads it consists of do; by induction on how deep values    *)
(* nest, all of them do.                                                   *)
(*                                                                         *)
(* Payloads (src/expr/payload.rs): DecodeInvertsBuild and BuiltIsAccepted. *)
(* The lemmas compare offset() and len() of each header with its           *)
(* from_raw_data; the invariant says that what was parsed and decoded      *)
(* belongs to the expression at hand.                                      *)
(*                                                                         *)
(* Rules (src/rule_methods.rs): RegistersFed and NoLengthMismatch.  Fed is *)
(* closed under concatenation, and what each method appends is Fed by      *)
(* itself, so no method depends on another one.                            *)
(***************************************************************************)
EXTENDS PayloadFields, RuleBuilder, Encoder, WellFoundedInduction, TLAPS

-----------------------------------------------------------------------------
(* Sequences.                                                              *)

LEMMA SequencesAre == \A S : Seq(S) = UNION {[1..n -> S] : n \in Nat}
OBVIOUS

LEMMA SequenceLen ==
  ASSUME NEW S, NEW s \in Seq(S)
  PROVE  Len(s) \in Nat /\ s \in [1..Len(s) -> S] /\ DOMAIN s = 1..Len(s)
OBVIOUS

LEMMA ConcatIs ==
  ASSUME NEW S, NEW s \in Seq(S), NEW t \in Seq(S)
  PROVE  /\ s \o t \in Seq(S) /\ Len(s \o t) = Len(s) + Len(t)
         /\ \A i \in 1..(Len(s) + Len(t)) : (s \o t)[i] = IF i <= Len(s) THEN s[i] ELSE t[i - Len(s)]
OBVIOUS

LEMMA AppendIs ==
  ASSUME NEW S, NEW s \in Seq(S), NEW x \in S
  PROVE  /\ Append(s, x) \in Seq(S) /\ Len(Append(s, x)) = Len(s) + 1
         /\ Append(s, x)[Len(s) + 1] = x /\ \A i \in 1..Len(s) : Append(s, x)[i] = s[i]
OBVIOUS

-----------------------------------------------------------------------------
(* Induction.  The principle is stated with a set in place of a predicate: *)
(* the set of the numbers that have the property.                          *)

LEMMA LeastNatural ==
  ASSUME NEW T \in SUBSET Nat, T # {}
  PROVE  \E m \in T : \A k \in T : m <= k
<1> DEFINE R == {ss \in Nat \X Nat : ss[1] < ss[2]}
<1>1. IsWellFoundedOn(R, Nat)
  BY NatLessThanWellFounded, Zenon DEF OpToRel
<1>2. \A x, y \in Nat : y < x => <<y, x>> \in R
  OBVIOUS
<1> HIDE DEF R
<1>3. \E x \in T : \A y \in T : ~ (<<y, x>> \in R)
  BY <1>1, WFMin, Zenon
<1>4. PICK m \in T : \A y \in T : ~ (<<y, m>> \in R)
  BY <1>3
<1>5. \A k \in T : ~ (k < m)
  BY <1>2, <1>4, Zenon
<1>6. \A k \in T : m <= k
  BY <1>5
<1> QED
  BY <1>6

LEMMA NaturalInduction ==
  ASSUME NEW S, 0 \in S, \A n \in Nat : n \in S => n + 1 \in S
  PROVE  Nat \subseteq S
<1>1. SUFFICES ASSUME Nat \ S # {} PROVE FALSE
  OBVIOUS
<1>2. PICK m \in Nat \ S : \A k \in Nat \ S : m <= k
  BY <1>1, LeastNatural, Zenon
<1>3. m # 0 /\ m - 1 \in Nat /\ m - 1 \in S
  BY <1>2
<1> QED
  BY <1>2, <1>3

-----------------------------------------------------------------------------
(* The writer of attributes (Encoder).                                     *)

(* A value on top of the values below it, its size and its payload, named  *)
(* so that the recursion on the depth reads as one step.                   *)
Nested(vals) == Leaves \cup Structs(vals) \cup Lists(vals)
SizesOn(d, sizes) == [v \in Values[d] |-> SizeOver(v, sizes)]
PayloadsOn(d, payloads) == [v \in Values[d] |-> PayloadOver(v, SizeTo[d - 1], payloads)]
LeafSizes == [v \in Leaves |-> v.size]
LeafPayloads == [v \in Leaves |-> LeafPayload(v)]
Wrote(w, v, attr, sizes, payloads) ==
  [at |-> w.at + Advance(v, sizes[attr[2]]),
   cells |-> w.cells \cup
     Shift(WriteAttribute(attr[1], sizes[attr[2]], payloads[attr[2]]), w.at)]

(* The values, depth by depth.                                             *)
AreValues(f, n) ==
  f = [i \in 0..n |-> IF i = 0 THEN Leaves ELSE Nested(f[i - 1])]

LEMMA ValuesExist ==
  \A n \in Nat : \E f : AreValues(f, n)
<1> DEFINE S == {n \in Nat : \E f : AreValues(f, n)}
<1>1. 0 \in S
  <2> DEFINE f == [i \in 0..0 |-> Leaves]
  <2>1. AreValues(f, 0)
    BY DEF AreValues
  <2> QED
    BY <2>1
<1>2. ASSUME NEW n \in Nat, n \in S PROVE n + 1 \in S
  <2>1. PICK f : AreValues(f, n)
    BY <1>2
  <2> DEFINE g == [i \in 0..(n + 1) |-> IF i = n + 1 THEN Nested(f[n]) ELSE f[i]]
  <2>2. ASSUME NEW i \in 0..(n + 1)
        PROVE  g[i] = IF i = 0 THEN Leaves ELSE Nested(g[i - 1])
    <3>1. CASE i = n + 1
      <4>1. g[i] = Nested(f[n]) /\ g[n] = f[n]
        BY <3>1
      <4> QED
        BY <4>1, <3>1
    <3>2. CASE i # n + 1
      <4>1. i \in 0..n /\ g[i] = f[i]
        BY <3>2
      <4>2. f[i] = IF i = 0 THEN Leaves ELSE Nested(f[i - 1])
        BY <4>1, <2>1 DEF AreValues
      <4>3. i # 0 => g[i - 1] = f[i - 1]
        BY <4>1
      <4> QED
        BY <4>1, <4>2, <4>3
    <3> QED
      BY <3>1, <3>2
  <2>3. AreValues(g, n + 1)
    BY <2>2 DEF AreValues
  <2> HIDE DEF g
  <2> QED
    BY <2>3
<1> HIDE DEF S
<1>3. Nat \subseteq S
  BY <1>1, <1>2, NaturalInduction
<1> QED
  BY <1>3 DEF S

(* The sizes, depth by depth.                                              *)
AreSizes(f, n) ==
  f = [i \in 0..n |-> IF i = 0 THEN LeafSizes ELSE SizesOn(i, f[i - 1])]

LEMMA SizesExist ==
  \A n \in Nat : \E f : AreSizes(f, n)
<1> DEFINE S == {n \in Nat : \E f : AreSizes(f, n)}
<1>1. 0 \in S
  <2> DEFINE f == [i \in 0..0 |-> LeafSizes]
  <2>1. AreSizes(f, 0)
    BY DEF AreSizes
  <2> QED
    BY <2>1
<1>2. ASSUME NEW n \in Nat, n \in S PROVE n + 1 \in S
  <2>1. PICK f : AreSizes(f, n)
    BY <1>2
  <2> DEFINE g == [i \in 0..(n + 1) |-> IF i = n + 1 THEN SizesOn(n + 1, f[n]) ELSE f[i]]
  <2>2. ASSUME NEW i \in 0..(n + 1)
        PROVE  g[i] = IF i = 0 THEN LeafSizes ELSE SizesOn(i, g[i - 1])
    <3>1. CASE i = n + 1
      <4>1. g[i] = SizesOn(n + 1, f[n]) /\ g[n] = f[n]
        BY <3>1
      <4> QED
        BY <4>1, <3>1
    <3>2. CASE i # n + 1
      <4>1. i \in 0..n /\ g[i] = f[i]
        BY <3>2
      <4>2. f[i] = IF i = 0 THEN LeafSizes ELSE SizesOn(i, f[i - 1])
        BY <4>1, <2>1 DEF AreSizes
      <4>3. i # 0 => g[i - 1] = f[i - 1]
        BY <4>1
      <4> QED
        BY <4>1, <4>2, <4>3
    <3> QED
      BY <3>1, <3>2
  <2>3. AreSizes(g, n + 1)
    BY <2>2 DEF AreSizes
  <2> HIDE DEF g
  <2> QED
    BY <2>3
<1> HIDE DEF S
<1>3. Nat \subseteq S
  BY <1>1, <1>2, NaturalInduction
<1> QED
  BY <1>3 DEF S

(* The payloads, depth by depth.                                           *)
ArePayloads(f, n) ==
  f = [i \in 0..n |-> IF i = 0 THEN LeafPayloads ELSE PayloadsOn(i, f[i - 1])]

LEMMA PayloadsExist ==
  \A n \in Nat : \E f : ArePayloads(f, n)
<1> DEFINE S == {n \in Nat : \E f : ArePayloads(f, n)}
<1>1. 0 \in S
  <2> DEFINE f == [i \in 0..0 |-> LeafPayloads]
  <2>1. ArePayloads(f, 0)
    BY DEF ArePayloads
  <2> QED
    BY <2>1
<1>2. ASSUME NEW n \in Nat, n \in S PROVE n + 1 \in S
  <2>1. PICK f : ArePayloads(f, n)
    BY <1>2
  <2> DEFINE g == [i \in 0..(n + 1) |-> IF i = n + 1 THEN PayloadsOn(n + 1, f[n]) ELSE f[i]]
  <2>2. ASSUME NEW i \in 0..(n + 1)
        PROVE  g[i] = IF i = 0 THEN LeafPayloads ELSE PayloadsOn(i, g[i - 1])
    <3>1. CASE i = n + 1
      <4>1. g[i] = PayloadsOn(n + 1, f[n]) /\ g[n] = f[n]
        BY <3>1
      <4> QED
        BY <4>1, <3>1
    <3>2. CASE i # n + 1
      <4>1. i \in 0..n /\ g[i] = f[i]
        BY <3>2
      <4>2. f[i] = IF i = 0 THEN LeafPayloads ELSE PayloadsOn(i, f[i - 1])
        BY <4>1, <2>1 DEF ArePayloads
      <4>3. i # 0 => g[i - 1] = f[i - 1]
        BY <4>1
      <4> QED
        BY <4>1, <4>2, <4>3
    <3> QED
      BY <3>1, <3>2
  <2>3. ArePayloads(g, n + 1)
    BY <2>2 DEF ArePayloads
  <2> HIDE DEF g
  <2> QED
    BY <2>3
<1> HIDE DEF S
<1>3. Nat \subseteq S
  BY <1>1, <1>2, NaturalInduction
<1> QED
  BY <1>3 DEF S

(* f[i] is the sum of the first i steps, for i up to n.                    *)
AreSums(f, n, steps) ==
  f = [i \in 0..n |-> IF i = 0 THEN 0 ELSE f[i - 1] + steps[i]]

LEMMA SumsExist ==
  ASSUME NEW steps
  PROVE  \A n \in Nat : \E f : AreSums(f, n, steps)
<1> DEFINE S == {n \in Nat : \E f : AreSums(f, n, steps)}
<1>1. 0 \in S
  <2> DEFINE f == [i \in 0..0 |-> 0]
  <2>1. AreSums(f, 0, steps)
    BY DEF AreSums
  <2> QED
    BY <2>1
<1>2. ASSUME NEW n \in Nat, n \in S PROVE n + 1 \in S
  <2>1. PICK f : AreSums(f, n, steps)
    BY <1>2
  <2> DEFINE g == [i \in 0..(n + 1) |-> IF i = n + 1 THEN f[n] + steps[n + 1] ELSE f[i]]
  <2>2. ASSUME NEW i \in 0..(n + 1)
        PROVE  g[i] = IF i = 0 THEN 0 ELSE g[i - 1] + steps[i]
    <3>1. CASE i = n + 1
      <4>1. g[i] = f[n] + steps[n + 1] /\ g[n] = f[n]
        BY <3>1
      <4> QED
        BY <4>1, <3>1
    <3>2. CASE i # n + 1
      <4>1. i \in 0..n /\ g[i] = f[i]
        BY <3>2
      <4>2. f[i] = IF i = 0 THEN 0 ELSE f[i - 1] + steps[i]
        BY <4>1, <2>1 DEF AreSums
      <4>3. i # 0 => g[i - 1] = f[i - 1]
        BY <4>1
      <4> QED
        BY <4>1, <4>2, <4>3
    <3> QED
      BY <3>1, <3>2
  <2>3. AreSums(g, n + 1, steps)
    BY <2>2 DEF AreSums
  <2> HIDE DEF g
  <2> QED
    BY <2>3
<1> HIDE DEF S
<1>3. Nat \subseteq S
  BY <1>1, <1>2, NaturalInduction
<1> QED
  BY <1>3 DEF S

(* f[i] is the cursor and what is written behind the first i attributes.   *)
AreWrites(f, n, v, attr, sizes, payloads) ==
  f = [i \in 0..n |-> IF i = 0 THEN [at |-> 0, cells |-> {}] ELSE Wrote(f[i - 1], v, attr[i], sizes, payloads)]

LEMMA WritesExist ==
  ASSUME NEW v, NEW attr, NEW sizes, NEW payloads
  PROVE  \A n \in Nat : \E f : AreWrites(f, n, v, attr, sizes, payloads)
<1> DEFINE S == {n \in Nat : \E f : AreWrites(f, n, v, attr, sizes, payloads)}
<1>1. 0 \in S
  <2> DEFINE f == [i \in 0..0 |-> [at |-> 0, cells |-> {}]]
  <2>1. AreWrites(f, 0, v, attr, sizes, payloads)
    BY DEF AreWrites
  <2> QED
    BY <2>1
<1>2. ASSUME NEW n \in Nat, n \in S PROVE n + 1 \in S
  <2>1. PICK f : AreWrites(f, n, v, attr, sizes, payloads)
    BY <1>2
  <2> DEFINE g == [i \in 0..(n + 1) |-> IF i = n + 1 THEN Wrote(f[n], v, attr[n + 1], sizes, payloads) ELSE f[i]]
  <2>2. ASSUME NEW i \in 0..(n + 1)
        PROVE  g[i] = IF i = 0 THEN [at |-> 0, cells |-> {}] ELSE Wrote(g[i - 1], v, attr[i], sizes, payloads)
    <3>1. CASE i = n + 1
      <4>1. g[i] = Wrote(f[n], v, attr[n + 1], sizes, payloads) /\ g[n] = f[n]
        BY <3>1
      <4> QED
        BY <4>1, <3>1
    <3>2. CASE i # n + 1
      <4>1. i \in 0..n /\ g[i] = f[i]
        BY <3>2
      <4>2. f[i] = IF i = 0 THEN [at |-> 0, cells |-> {}] ELSE Wrote(f[i - 1], v, attr[i], sizes, payloads)
        BY <4>1, <2>1, Zenon DEF AreWrites
      <4>3. i # 0 => g[i - 1] = f[i - 1]
        BY <4>1
      <4> QED
        BY <4>1, <4>2, <4>3
    <3> QED
      BY <3>1, <3>2
  <2>3. AreWrites(g, n + 1, v, attr, sizes, payloads)
    BY <2>2 DEF AreWrites
  <2> HIDE DEF g
  <2> QED
    BY <2>3
<1> HIDE DEF S
<1>3. Nat \subseteq S
  BY <1>1, <1>2, NaturalInduction
<1> QED
  BY <1>3 DEF S

LEMMA ValuesAre ==
  /\ Values[0] = Leaves
  /\ \A d \in 1..MaxDepth : Values[d] = Nested(Values[d - 1])
<1>1. \E f : AreValues(f, MaxDepth)
  BY ValuesExist, DepthAssumption
<1>2. AreValues(Values, MaxDepth)
  BY <1>1, Zenon DEF AreValues, Values, Nested
<1>3. PICK f : f = Values
  OBVIOUS
<1>4. \A d \in 0..MaxDepth : f[d] = IF d = 0 THEN Leaves ELSE Nested(f[d - 1])
  BY <1>2, <1>3, Zenon DEF AreValues
<1>5. 0 \in 0..MaxDepth /\ \A d \in 1..MaxDepth : d \in 0..MaxDepth /\ d # 0
  BY DepthAssumption
<1> QED
  BY <1>3, <1>4, <1>5, Zenon

LEMMA SizesAre ==
  /\ SizeTo[0] = LeafSizes
  /\ \A d \in 1..MaxDepth : SizeTo[d] = SizesOn(d, SizeTo[d - 1])
<1>1. \E f : AreSizes(f, MaxDepth)
  BY SizesExist, DepthAssumption
<1>2. AreSizes(SizeTo, MaxDepth)
  BY <1>1, Zenon DEF AreSizes, SizeTo, SizesOn, LeafSizes
<1>3. PICK f : f = SizeTo
  OBVIOUS
<1>4. \A d \in 0..MaxDepth : f[d] = IF d = 0 THEN LeafSizes ELSE SizesOn(d, f[d - 1])
  BY <1>2, <1>3, Zenon DEF AreSizes
<1>5. 0 \in 0..MaxDepth /\ \A d \in 1..MaxDepth : d \in 0..MaxDepth /\ d # 0
  BY DepthAssumption
<1> QED
  BY <1>3, <1>4, <1>5, Zenon

LEMMA PayloadsAre ==
  /\ PayloadTo[0] = LeafPayloads
  /\ \A d \in 1..MaxDepth : PayloadTo[d] = PayloadsOn(d, PayloadTo[d - 1])
<1>1. \E f : ArePayloads(f, MaxDepth)
  BY PayloadsExist, DepthAssumption
<1>2. ArePayloads(PayloadTo, MaxDepth)
  BY <1>1, Zenon DEF ArePayloads, PayloadTo, PayloadsOn, LeafPayloads
<1>3. PICK f : f = PayloadTo
  OBVIOUS
<1>4. \A d \in 0..MaxDepth : f[d] = IF d = 0 THEN LeafPayloads ELSE PayloadsOn(d, f[d - 1])
  BY <1>2, <1>3, Zenon DEF ArePayloads
<1>5. 0 \in 0..MaxDepth /\ \A d \in 1..MaxDepth : d \in 0..MaxDepth /\ d # 0
  BY DepthAssumption
<1> QED
  BY <1>3, <1>4, <1>5, Zenon

(* The kinds of values.                                                    *)
LEMMA Kinds ==
  ASSUME NEW vals
  PROVE  /\ \A v \in Leaves : v.k = "leaf" /\ v.size \in Nat
         /\ \A v \in Structs(vals) : v.k = "struct"
         /\ \A v \in Lists(vals) : v.k = "list"
BY DEF Leaves, Structs, Lists

LEMMA AttributesAre ==
  ASSUME NEW vals, NEW v \in Structs(vals) \cup Lists(vals)
  PROVE  /\ Len(Attributes(v)) \in Nat
         /\ DOMAIN Attributes(v) = 1..Len(Attributes(v))
         /\ \A i \in 1..Len(Attributes(v)) : Attributes(v)[i][2] \in vals
<1>1. CASE v \in Structs(vals)
  <2>1. v.k = "struct" /\ v.fields \in Seq(STRING \X vals)
    BY <1>1 DEF Structs
  <2> QED
    BY <2>1 DEF Attributes
<1>2. CASE v \in Lists(vals)
  <2>1. v.k = "list" /\ v.items \in Seq(vals)
    BY <1>2 DEF Lists
  <2>2. DOMAIN v.items = 1..Len(v.items) /\ Len(v.items) \in Nat
    BY <2>1
  <2>3. Attributes(v) = [i \in 1..Len(v.items) |-> <<NFTA_LIST_ELEM, v.items[i]>>]
    BY <2>1, <2>2 DEF Attributes
  <2>4. Len(Attributes(v)) = Len(v.items)
    BY <2>2, <2>3
  <2> QED
    BY <2>1, <2>2, <2>3, <2>4
<1> QED
  BY <1>1, <1>2

(* The loop of get_size().                                                 *)
Counts(v, sizes) ==
  [i \in 1..Len(Attributes(v)) |-> Counted(v, sizes[Attributes(v)[i][2]])]

LEMMA SizeLoop ==
  ASSUME NEW v, v.k # "leaf", NEW sizes, Len(Attributes(v)) \in Nat
  PROVE  \E f : /\ AreSums(f, Len(Attributes(v)), Counts(v, sizes))
                /\ SizeOver(v, sizes) = f[Len(Attributes(v))]
<1> DEFINE n == Len(Attributes(v))
           size == CHOOSE f : f = [i \in 0..n |->
                     IF i = 0 THEN 0 ELSE f[i - 1] + Counted(v, sizes[Attributes(v)[i][2]])]
<1>1. \A i \in 1..n : Counts(v, sizes)[i] = Counted(v, sizes[Attributes(v)[i][2]])
  BY DEF Counts
<1>2. \A f : AreSums(f, n, Counts(v, sizes)) <=>
             f = [i \in 0..n |-> IF i = 0 THEN 0 ELSE f[i - 1] + Counted(v, sizes[Attributes(v)[i][2]])]
  BY <1>1 DEF AreSums
<1>3. \E f : AreSums(f, n, Counts(v, sizes))
  BY SumsExist, Zenon
<1>4. AreSums(size, n, Counts(v, sizes))
  BY <1>2, <1>3, Zenon
<1>5. SizeOver(v, sizes) = size[n]
  BY DEF SizeOver
<1> QED
  BY <1>4, <1>5, Zenon

(* The loop of write_payload().                                            *)
LEMMA WriteLoop ==
  ASSUME NEW v, v.k # "leaf", NEW sizes, NEW payloads, Len(Attributes(v)) \in Nat
  PROVE  \E f : /\ AreWrites(f, Len(Attributes(v)), v, Attributes(v), sizes, payloads)
                /\ PayloadOver(v, sizes, payloads) = f[Len(Attributes(v))].cells
<1> DEFINE n == Len(Attributes(v))
           attr == Attributes(v)
           written == CHOOSE f : f = [i \in 0..n |->
                        IF i = 0 THEN [at |-> 0, cells |-> {}]
                        ELSE Wrote(f[i - 1], v, attr[i], sizes, payloads)]
<1>1. \E f : AreWrites(f, n, v, attr, sizes, payloads)
  BY WritesExist, Zenon
<1>2. AreWrites(written, n, v, attr, sizes, payloads)
  BY <1>1, Zenon DEF AreWrites
<1>3. PayloadOver(v, sizes, payloads) = written[n].cells
  BY DEF PayloadOver, Wrote
<1> QED
  BY <1>2, <1>3, Zenon

-----------------------------------------------------------------------------
(* What is written stays inside its slice, and nothing overlaps.           *)

(* The cells take up bytes between lo and hi, no byte twice.               *)
Inside(lo, hi, cells) ==
  /\ lo \in Nat /\ hi \in Nat /\ lo <= hi
  /\ \A c \in cells : /\ c[1] \in Nat /\ Width(c[2]) \in Nat \ {0}
                       /\ lo <= c[1] /\ c[1] + Width(c[2]) <= hi
  /\ \A c, e \in cells : c # e => c[1] + Width(c[2]) <= e[1] \/ e[1] + Width(e[2]) <= c[1]

LEMMA InsideShift ==
  ASSUME NEW lo, NEW hi, NEW cells, Inside(lo, hi, cells), NEW n \in Nat
  PROVE  Inside(lo + n, hi + n, Shift(cells, n))
<1>1. \A s \in Shift(cells, n) : \E c \in cells : s = <<c[1] + n, c[2]>>
  BY DEF Shift
<1>2. lo + n \in Nat /\ hi + n \in Nat /\ lo + n <= hi + n
  BY DEF Inside
<1>3. ASSUME NEW s \in Shift(cells, n)
      PROVE  /\ s[1] \in Nat /\ Width(s[2]) \in Nat \ {0}
             /\ lo + n <= s[1] /\ s[1] + Width(s[2]) <= hi + n
  <2>1. PICK c \in cells : s[1] = c[1] + n /\ s[2] = c[2]
    BY <1>1
  <2> QED
    BY <2>1 DEF Inside
<1>4. ASSUME NEW s \in Shift(cells, n), NEW r \in Shift(cells, n), s # r
      PROVE  s[1] + Width(s[2]) <= r[1] \/ r[1] + Width(r[2]) <= s[1]
  <2>1. PICK c \in cells : s = <<c[1] + n, c[2]>>
    BY <1>1
  <2>2. PICK e \in cells : r = <<e[1] + n, e[2]>>
    BY <1>1
  <2>3. c # e /\ s[1] = c[1] + n /\ s[2] = c[2] /\ r[1] = e[1] + n /\ r[2] = e[2]
    BY <1>4, <2>1, <2>2
  <2> QED
    BY <2>3 DEF Inside
<1> QED
  BY <1>2, <1>3, <1>4 DEF Inside

LEMMA InsideUnion ==
  ASSUME NEW lo, NEW mid, NEW hi, NEW low, NEW high,
         Inside(lo, mid, low), Inside(mid, hi, high)
  PROVE  Inside(lo, hi, low \cup high)
<1>1. lo \in Nat /\ mid \in Nat /\ hi \in Nat /\ lo <= mid /\ mid <= hi
  BY DEF Inside
<1>2. \A c \in low : /\ c[1] \in Nat /\ Width(c[2]) \in Nat \ {0}
                     /\ lo <= c[1] /\ c[1] + Width(c[2]) <= mid
  BY DEF Inside
<1>3. \A c \in high : /\ c[1] \in Nat /\ Width(c[2]) \in Nat \ {0}
                      /\ mid <= c[1] /\ c[1] + Width(c[2]) <= hi
  BY DEF Inside
<1>4. \A c \in low : \A e \in high : c[1] + Width(c[2]) <= e[1]
  BY <1>1, <1>2, <1>3
<1>5. ASSUME NEW c \in low \cup high, NEW e \in low \cup high, c # e
      PROVE  c[1] + Width(c[2]) <= e[1] \/ e[1] + Width(e[2]) <= c[1]
  <2>1. CASE c \in low /\ e \in low
    BY <1>5, <2>1 DEF Inside
  <2>2. CASE c \in high /\ e \in high
    BY <1>5, <2>2 DEF Inside
  <2> QED
    BY <1>4, <2>1, <2>2
<1>6. \A c \in low \cup high : /\ c[1] \in Nat /\ Width(c[2]) \in Nat \ {0}
                               /\ lo <= c[1] /\ c[1] + Width(c[2]) <= hi
  BY <1>1, <1>2, <1>3
<1> QED
  BY <1>1, <1>5, <1>6 DEF Inside

LEMMA InsideWiden ==
  ASSUME NEW lo, NEW hi, NEW more \in Nat, NEW cells, Inside(lo, hi, cells), hi <= more
  PROVE  Inside(lo, more, cells)
<1>1. lo \in Nat /\ hi \in Nat /\ lo <= more
  BY DEF Inside
<1>2. \A c \in cells : /\ c[1] \in Nat /\ Width(c[2]) \in Nat \ {0}
                       /\ lo <= c[1] /\ c[1] + Width(c[2]) <= more
  BY <1>1 DEF Inside
<1> QED
  BY <1>1, <1>2 DEF Inside

(* write_attribute fills the header and the slice behind it.               *)
LEMMA AttributeInside ==
  ASSUME NEW ty, NEW size, NEW payload, Inside(0, size, payload)
  PROVE  /\ size \in Nat
         /\ Inside(0, NLA_HDRLEN + size, WriteAttribute(ty, size, payload))
<1>1. size \in Nat
  BY DEF Inside
<1>2. Width(Nlattr(ty, size)) = 4
  BY DEF Width, Nlattr, NLA_HDRLEN
<1>3. Inside(0, 4, {<<0, Nlattr(ty, size)>>})
  BY <1>2 DEF Inside
<1>4. Inside(0 + 4, size + 4, Shift(payload, 4))
  BY InsideShift
<1>5. 0 + 4 = 4 /\ size + 4 = 4 + size
  BY <1>1
<1>6. Inside(4, 4 + size, Shift(payload, 4))
  BY <1>4, <1>5
<1>7. Inside(0, 4 + size, {<<0, Nlattr(ty, size)>>} \cup Shift(payload, 4))
  BY <1>3, <1>6, InsideUnion
<1> QED
  BY <1>1, <1>7 DEF WriteAttribute, NLA_HDRLEN

(* write_payload advances by what get_size counts, and by no less than the *)
(* attribute takes.                                                        *)
LEMMA AdvanceIsCounted ==
  ASSUME NEW v, NEW size \in Nat
  PROVE  /\ Advance(v, size) = Counted(v, size)
         /\ Advance(v, size) \in Nat /\ NLA_HDRLEN + size <= Advance(v, size)
BY DEF Advance, Counted, FieldSize, FieldAdvance, ElementSize, Pad, NLA_HDRLEN

(* One attribute more.                                                     *)
LEMMA WroteInside ==
  ASSUME NEW w, Inside(0, w.at, w.cells), NEW v, NEW attr, NEW sizes, NEW payloads,
         Inside(0, sizes[attr[2]], payloads[attr[2]]),
         NEW x, x = Wrote(w, v, attr, sizes, payloads)
  PROVE  x.at = w.at + Counted(v, sizes[attr[2]]) /\ Inside(0, x.at, x.cells)
<1> DEFINE size == sizes[attr[2]]
           cells == WriteAttribute(attr[1], size, payloads[attr[2]])
<1>1. size \in Nat /\ Inside(0, NLA_HDRLEN + size, cells)
  BY AttributeInside
<1>2. w.at \in Nat
  BY DEF Inside
<1>3. x.at = w.at + Advance(v, size) /\ x.cells = w.cells \cup Shift(cells, w.at)
  BY DEF Wrote
<1> HIDE DEF size, cells
<1>4. /\ Advance(v, size) = Counted(v, size)
      /\ Advance(v, size) \in Nat /\ NLA_HDRLEN + size <= Advance(v, size)
  BY <1>1, AdvanceIsCounted
<1>5. Inside(0 + w.at, NLA_HDRLEN + size + w.at, Shift(cells, w.at))
  BY <1>1, <1>2, InsideShift, Zenon
<1>6. 0 + w.at = w.at /\ x.at \in Nat /\ NLA_HDRLEN + size + w.at <= x.at
  BY <1>1, <1>2, <1>3, <1>4 DEF NLA_HDRLEN
<1>7. Inside(w.at, x.at, Shift(cells, w.at))
  BY <1>5, <1>6, InsideWiden
<1>8. Inside(0, x.at, x.cells)
  BY <1>3, <1>7, InsideUnion
<1> QED
  BY <1>3, <1>4, <1>8 DEF size

(* The loops of get_size and write_payload go side by side: the cursor is  *)
(* the size of what was counted so far.                                    *)
LEMMA LoopsAgree ==
  ASSUME NEW v, NEW sizes, NEW payloads, NEW n \in Nat, NEW f, NEW g, n = Len(Attributes(v)),
         AreSums(f, n, Counts(v, sizes)), AreWrites(g, n, v, Attributes(v), sizes, payloads),
         \A i \in 1..n : Inside(0, sizes[Attributes(v)[i][2]], payloads[Attributes(v)[i][2]])
  PROVE  \A i \in 0..n : f[i] = g[i].at /\ Inside(0, g[i].at, g[i].cells)
<1> DEFINE attr == Attributes(v)
           P(i) == f[i] = g[i].at /\ Inside(0, g[i].at, g[i].cells)
           S == {i \in Nat : i \in 0..n => P(i)}
<1>1. 0 \in S
  <2>1. 0 \in 0..n /\ f[0] = 0 /\ g[0] = [at |-> 0, cells |-> {}]
    BY DEF AreSums, AreWrites
  <2>2. g[0].at = 0 /\ g[0].cells = {}
    BY <2>1
  <2>3. Inside(0, 0, {})
    BY DEF Inside
  <2> QED
    BY <2>1, <2>2, <2>3, Zenon
<1>2. ASSUME NEW i \in Nat, i \in S PROVE i + 1 \in S
  <2>1. SUFFICES ASSUME i + 1 \in 0..n PROVE P(i + 1)
    OBVIOUS
  <2>2. i \in 0..n /\ i + 1 \in 1..n /\ i + 1 - 1 = i /\ i + 1 # 0
    BY <2>1
  <2>3. f[i] = g[i].at /\ Inside(0, g[i].at, g[i].cells)
    BY <1>2, <2>2
  <2>4. f[i + 1] = f[i] + Counts(v, sizes)[i + 1]
    BY <2>1, <2>2 DEF AreSums
  <2>5. Counts(v, sizes)[i + 1] = Counted(v, sizes[attr[i + 1][2]])
    BY <2>2 DEF Counts
  <2>6. g[i + 1] = Wrote(g[i], v, attr[i + 1], sizes, payloads)
    <3>1. \A j \in 0..n : g[j] = IF j = 0 THEN [at |-> 0, cells |-> {}]
                                 ELSE Wrote(g[j - 1], v, attr[j], sizes, payloads)
      BY Zenon DEF AreWrites
    <3> QED
      BY <2>1, <2>2, <3>1
  <2>7. Inside(0, sizes[attr[i + 1][2]], payloads[attr[i + 1][2]])
    BY <2>2
  <2>8. /\ g[i + 1].at = g[i].at + Counted(v, sizes[attr[i + 1][2]])
        /\ Inside(0, g[i + 1].at, g[i + 1].cells)
    BY <2>3, <2>6, <2>7, WroteInside
  <2> QED
    BY <2>3, <2>4, <2>5, <2>8, Zenon
<1> HIDE DEF S
<1>3. Nat \subseteq S
  BY <1>1, <1>2, NaturalInduction
<1> QED
  BY <1>3 DEF S

(* A value on top of values whose payloads stay inside their sizes.        *)
LEMMA OverInside ==
  ASSUME NEW vals, NEW v \in Nested(vals), NEW sizes, NEW payloads,
         \A u \in vals : Inside(0, sizes[u], payloads[u])
  PROVE  Inside(0, SizeOver(v, sizes), PayloadOver(v, sizes, payloads))
<1>1. CASE v \in Leaves
  <2>1. v.k = "leaf" /\ v.size \in Nat
    BY <1>1, Kinds
  <2>2. Inside(0, v.size, LeafPayload(v))
    BY <2>1 DEF Inside, LeafPayload, Width
  <2> QED
    BY <2>1, <2>2 DEF SizeOver, PayloadOver
<1>2. CASE v \in Structs(vals) \cup Lists(vals)
  <2> DEFINE n == Len(Attributes(v))
  <2>1. n \in Nat /\ \A i \in 1..n : Attributes(v)[i][2] \in vals
    BY <1>2, AttributesAre
  <2>2. v.k # "leaf"
    BY <1>2, Kinds
  <2>3. PICK f : AreSums(f, n, Counts(v, sizes)) /\ SizeOver(v, sizes) = f[n]
    BY <2>1, <2>2, SizeLoop
  <2>4. PICK g : /\ AreWrites(g, n, v, Attributes(v), sizes, payloads)
                 /\ PayloadOver(v, sizes, payloads) = g[n].cells
    BY <2>1, <2>2, WriteLoop
  <2>5. \A i \in 0..n : f[i] = g[i].at /\ Inside(0, g[i].at, g[i].cells)
    BY <2>1, <2>3, <2>4, LoopsAgree, Zenon
  <2>6. n \in 0..n
    BY <2>1
  <2> QED
    BY <2>3, <2>4, <2>5, <2>6, Zenon
<1> QED
  BY <1>1, <1>2 DEF Nested

LEMMA PayloadInside ==
  \A d \in 0..MaxDepth : \A v \in Values[d] : Inside(0, SizeTo[d][v], PayloadTo[d][v])
<1> DEFINE P(d) == \A v \in Values[d] : Inside(0, SizeTo[d][v], PayloadTo[d][v])
           S == {d \in Nat : d \in 0..MaxDepth => P(d)}
<1>1. 0 \in S
  <2>1. ASSUME NEW v \in Leaves
        PROVE  Inside(0, SizeTo[0][v], PayloadTo[0][v])
    <3>1. SizeTo[0][v] = v.size /\ PayloadTo[0][v] = LeafPayload(v)
      BY SizesAre, PayloadsAre DEF LeafSizes, LeafPayloads
    <3>2. v.size \in Nat
      BY Kinds
    <3>3. Inside(0, v.size, LeafPayload(v))
      BY <3>2 DEF Inside, LeafPayload, Width
    <3> QED
      BY <3>1, <3>3
  <2> QED
    BY <2>1, ValuesAre
<1>2. ASSUME NEW d \in Nat, d \in S PROVE d + 1 \in S
  <2>1. SUFFICES ASSUME d + 1 \in 0..MaxDepth, NEW v \in Values[d + 1]
                 PROVE  Inside(0, SizeTo[d + 1][v], PayloadTo[d + 1][v])
    OBVIOUS
  <2>2. d \in 0..MaxDepth /\ d + 1 \in 1..MaxDepth /\ d + 1 - 1 = d
    BY <2>1, DepthAssumption
  <2>3. P(d)
    BY <1>2, <2>2
  <2>4. v \in Nested(Values[d])
    BY <2>1, <2>2, ValuesAre
  <2>5. SizeTo[d + 1] = SizesOn(d + 1, SizeTo[d]) /\ PayloadTo[d + 1] = PayloadsOn(d + 1, PayloadTo[d])
    BY <2>2, SizesAre, PayloadsAre
  <2>6. /\ SizeTo[d + 1][v] = SizeOver(v, SizeTo[d])
        /\ PayloadTo[d + 1][v] = PayloadOver(v, SizeTo[d], PayloadTo[d])
    BY <2>1, <2>2, <2>5 DEF SizesOn, PayloadsOn
  <2> QED
    BY <2>3, <2>4, <2>6, OverInside
<1> HIDE DEF S
<1>3. Nat \subseteq S
  BY <1>1, <1>2, NaturalInduction
<1> QED
  BY <1>3 DEF S

(* The buffer holds what was written, cell by cell.                        *)
LEMMA EncodeIs ==
  ASSUME NEW v \in Values[MaxDepth]
  PROVE  LET cells == PayloadTo[MaxDepth][v]
             mem == Encode(v).mem
         IN /\ Encode(v).len = GetSize(v)
            /\ Inside(0, GetSize(v), cells)
            /\ DOMAIN mem = {c[1] : c \in cells}
            /\ \A c \in cells : mem[c[1]] = c[2]
<1> DEFINE cells == PayloadTo[MaxDepth][v]
           mem == [o \in {c[1] : c \in cells} |-> (CHOOSE c \in cells : c[1] = o)[2]]
<1>1. Inside(0, GetSize(v), cells)
  BY PayloadInside, DepthAssumption DEF GetSize
<1>2. Encode(v).len = GetSize(v) /\ Encode(v).mem = mem
  BY DEF Encode
<1>3. ASSUME NEW c \in cells PROVE mem[c[1]] = c[2]
  <2>1. \A e \in cells : e[1] = c[1] => e = c
    BY <1>1 DEF Inside
  <2>2. (CHOOSE e \in cells : e[1] = c[1]) = c
    BY <2>1
  <2> QED
    BY <2>2, Zenon
<1> QED
  BY <1>1, <1>2, <1>3, Zenon

LEMMA EncodeInside ==
  ASSUME NEW v \in Values[MaxDepth], NEW buf, buf = Encode(v)
  PROVE  \A o \in DOMAIN buf.mem :
           /\ o + Width(buf.mem[o]) <= buf.len
           /\ \A p \in DOMAIN buf.mem : o < p => o + Width(buf.mem[o]) <= p
<1> DEFINE cells == PayloadTo[MaxDepth][v]
<1>1. /\ buf.len = GetSize(v) /\ Inside(0, buf.len, cells)
      /\ DOMAIN buf.mem = {c[1] : c \in cells}
      /\ \A c \in cells : buf.mem[c[1]] = c[2]
  BY EncodeIs
<1> HIDE DEF cells
<1>2. ASSUME NEW o \in DOMAIN buf.mem PROVE o + Width(buf.mem[o]) <= buf.len
  <2>1. PICK c \in cells : o = c[1] /\ buf.mem[o] = c[2]
    BY <1>1, <1>2
  <2> QED
    BY <1>1, <2>1 DEF Inside
<1>3. ASSUME NEW o \in DOMAIN buf.mem, NEW p \in DOMAIN buf.mem, o < p
      PROVE  o + Width(buf.mem[o]) <= p
  <2>1. PICK c \in cells : o = c[1] /\ buf.mem[o] = c[2]
    BY <1>1, <1>3
  <2>2. PICK e \in cells : p = e[1] /\ buf.mem[p] = e[2]
    BY <1>1, <1>3
  <2>3. /\ c[1] \in Nat /\ e[1] \in Nat /\ Width(c[2]) \in Nat /\ Width(e[2]) \in Nat
        /\ c # e => c[1] + Width(c[2]) <= e[1] \/ e[1] + Width(e[2]) <= c[1]
    BY <1>1 DEF Inside
  <2> QED
    BY <1>3, <2>1, <2>2, <2>3
<1> QED
  BY <1>2, <1>3

-----------------------------------------------------------------------------
(* The headers of an object.                                               *)

(* Two sums of the same steps are the same.                                *)
LEMMA SumsUnique ==
  ASSUME NEW n \in Nat, NEW steps, NEW f, NEW g, AreSums(f, n, steps), AreSums(g, n, steps)
  PROVE  f[n] = g[n]
<1> DEFINE S == {i \in Nat : i \in 0..n => f[i] = g[i]}
<1>1. 0 \in S
  BY DEF AreSums
<1>2. ASSUME NEW i \in Nat, i \in S PROVE i + 1 \in S
  <2>1. SUFFICES ASSUME i + 1 \in 0..n PROVE f[i + 1] = g[i + 1]
    OBVIOUS
  <2>2. i \in 0..n /\ i + 1 - 1 = i /\ i + 1 # 0
    BY <2>1
  <2>3. f[i + 1] = f[i] + steps[i + 1] /\ g[i + 1] = g[i] + steps[i + 1]
    BY <2>1, <2>2 DEF AreSums
  <2> QED
    BY <1>2, <2>2, <2>3
<1> HIDE DEF S
<1>3. Nat \subseteq S
  BY <1>1, <1>2, NaturalInduction
<1> QED
  BY <1>3 DEF S

LEMMA NestedGrows ==
  ASSUME NEW vals, NEW more, vals \subseteq more
  PROVE  Nested(vals) \subseteq Nested(more)
<1>1. Seq(vals) \subseteq Seq(more) /\ Seq(STRING \X vals) \subseteq Seq(STRING \X more)
  OBVIOUS
<1>2. Structs(vals) \subseteq Structs(more)
  BY <1>1 DEF Structs
<1>3. Lists(vals) \subseteq Lists(more)
  BY <1>1 DEF Lists
<1> QED
  BY <1>2, <1>3 DEF Nested

(* The size of a value depends on the sizes of what it consists of only.   *)
LEMMA SizeOverSame ==
  ASSUME NEW vals, NEW v \in Nested(vals), NEW sizes, NEW others,
         \A u \in vals : sizes[u] = others[u]
  PROVE  SizeOver(v, sizes) = SizeOver(v, others)
<1>1. CASE v \in Leaves
  BY <1>1, Kinds DEF SizeOver
<1>2. CASE v \in Structs(vals) \cup Lists(vals)
  <2> DEFINE n == Len(Attributes(v))
  <2>1. n \in Nat /\ \A i \in 1..n : Attributes(v)[i][2] \in vals
    BY <1>2, AttributesAre
  <2>2. v.k # "leaf"
    BY <1>2, Kinds
  <2>3. Counts(v, sizes) = Counts(v, others)
    BY <2>1 DEF Counts
  <2>4. PICK f : AreSums(f, n, Counts(v, sizes)) /\ SizeOver(v, sizes) = f[n]
    BY <2>1, <2>2, SizeLoop
  <2>5. PICK g : AreSums(g, n, Counts(v, sizes)) /\ SizeOver(v, others) = g[n]
    BY <2>1, <2>2, <2>3, SizeLoop
  <2> QED
    BY <2>1, <2>4, <2>5, SumsUnique
<1> QED
  BY <1>1, <1>2 DEF Nested

(* The size of a value does not depend on the depth it is computed for.    *)
LEMMA Deeper ==
  \A d \in 0..(MaxDepth - 1) :
    /\ Values[d] \subseteq Values[d + 1]
    /\ \A v \in Values[d] : SizeTo[d + 1][v] = SizeTo[d][v]
<1> DEFINE P(d) == /\ Values[d] \subseteq Values[d + 1]
                   /\ \A v \in Values[d] : SizeTo[d + 1][v] = SizeTo[d][v]
           S == {d \in Nat : d \in 0..(MaxDepth - 1) => P(d)}
<1>1. 0 \in S
  <2>1. 1 \in 1..MaxDepth /\ 1 - 1 = 0 /\ 0 + 1 = 1
    BY DepthAssumption
  <2>2. Values[0] = Leaves /\ Values[1] = Nested(Values[0])
    BY <2>1, ValuesAre
  <2>3. SizeTo[0] = LeafSizes /\ SizeTo[1] = SizesOn(1, SizeTo[0])
    BY <2>1, SizesAre
  <2>4. Leaves \subseteq Values[1]
    BY <2>2 DEF Nested
  <2>5. ASSUME NEW v \in Leaves PROVE SizeTo[1][v] = SizeTo[0][v]
    <3>1. v.k = "leaf"
      BY Kinds
    <3>2. SizeTo[1][v] = SizeOver(v, SizeTo[0])
      BY <2>3, <2>4 DEF SizesOn
    <3>3. SizeTo[0][v] = v.size
      BY <2>3 DEF LeafSizes
    <3> QED
      BY <3>1, <3>2, <3>3 DEF SizeOver
  <2> QED
    BY <2>1, <2>2, <2>4, <2>5
<1>2. ASSUME NEW d \in Nat, d \in S PROVE d + 1 \in S
  <2>1. SUFFICES ASSUME d + 1 \in 0..(MaxDepth - 1) PROVE P(d + 1)
    OBVIOUS
  <2>2. /\ d \in 0..(MaxDepth - 1) /\ d + 1 \in 1..MaxDepth /\ d + 1 - 1 = d
        /\ d + 1 + 1 \in 1..MaxDepth /\ d + 1 + 1 - 1 = d + 1
    BY <2>1, DepthAssumption
  <2>3. P(d)
    BY <1>2, <2>2
  <2>4. Values[d + 1] = Nested(Values[d]) /\ Values[d + 1 + 1] = Nested(Values[d + 1])
    BY <2>2, ValuesAre
  <2>5. /\ SizeTo[d + 1] = SizesOn(d + 1, SizeTo[d])
        /\ SizeTo[d + 1 + 1] = SizesOn(d + 1 + 1, SizeTo[d + 1])
    BY <2>2, SizesAre
  <2>6. Values[d + 1] \subseteq Values[d + 1 + 1]
    BY <2>3, <2>4, NestedGrows
  <2>7. ASSUME NEW v \in Values[d + 1] PROVE SizeTo[d + 1 + 1][v] = SizeTo[d + 1][v]
    <3>1. SizeTo[d + 1 + 1][v] = SizeOver(v, SizeTo[d + 1]) /\ SizeTo[d + 1][v] = SizeOver(v, SizeTo[d])
      BY <2>5, <2>6 DEF SizesOn
    <3>2. v \in Nested(Values[d])
      BY <2>4
    <3> QED
      BY <2>3, <3>1, <3>2, SizeOverSame
  <2> QED
    BY <2>6, <2>7
<1> HIDE DEF S
<1>3. Nat \subseteq S
  BY <1>1, <1>2, NaturalInduction
<1> QED
  BY <1>3 DEF S

(* What is written stays written.                                          *)
LEMMA WritesStay ==
  ASSUME NEW n \in Nat, NEW g, NEW v, NEW attr, NEW sizes, NEW payloads,
         AreWrites(g, n, v, attr, sizes, payloads), NEW i \in 0..n
  PROVE  g[i].cells \subseteq g[n].cells
<1> DEFINE S == {j \in Nat : i + j \in 0..n => g[i].cells \subseteq g[i + j].cells}
<1>1. 0 \in S
  OBVIOUS
<1>2. ASSUME NEW j \in Nat, j \in S PROVE j + 1 \in S
  <2>1. SUFFICES ASSUME i + (j + 1) \in 0..n PROVE g[i].cells \subseteq g[i + (j + 1)].cells
    OBVIOUS
  <2>2. i + j \in 0..n /\ i + (j + 1) - 1 = i + j /\ i + (j + 1) # 0
    BY <2>1
  <2>3. \A k \in 0..n : g[k] = IF k = 0 THEN [at |-> 0, cells |-> {}]
                               ELSE Wrote(g[k - 1], v, attr[k], sizes, payloads)
    BY DEF AreWrites
  <2>4. g[i + (j + 1)] = Wrote(g[i + j], v, attr[i + (j + 1)], sizes, payloads)
    BY <2>1, <2>2, <2>3
  <2>5. g[i + j].cells \subseteq g[i + (j + 1)].cells
    BY <2>4 DEF Wrote
  <2> QED
    BY <1>2, <2>2, <2>5
<1> HIDE DEF S
<1>3. Nat \subseteq S
  BY <1>1, <1>2, NaturalInduction
<1>4. n - i \in Nat /\ i + (n - i) = n /\ n \in 0..n
  OBVIOUS
<1> QED
  BY <1>3, <1>4 DEF S

LEMMA TreesAre ==
  ASSUME NEW v \in Trees
  PROVE  /\ v \in Nested(Values[MaxDepth - 1]) /\ v.k = "struct" /\ v.fields = Attributes(v)
         /\ Len(v.fields) \in Nat /\ DOMAIN v.fields = 1..Len(v.fields)
         /\ \A i \in 1..Len(v.fields) :
              /\ v.fields[i][2] \in Values[MaxDepth - 1]
              /\ GetSize(v.fields[i][2]) = SizeTo[MaxDepth - 1][v.fields[i][2]]
              /\ GetSize(v.fields[i][2]) \in Nat
<1> DEFINE D == MaxDepth - 1
<1>1. MaxDepth \in 1..MaxDepth /\ D \in 0..MaxDepth /\ D \in 0..(MaxDepth - 1) /\ D + 1 = MaxDepth
  BY DepthAssumption
<1>2. v \in Nested(Values[D]) /\ v.k = "struct"
  BY <1>1, ValuesAre DEF Trees
<1>3. v \in Structs(Values[D])
  BY <1>2, Kinds DEF Nested
<1>4. v.fields = Attributes(v)
  BY <1>2 DEF Attributes
<1>5. /\ Len(v.fields) \in Nat /\ DOMAIN v.fields = 1..Len(v.fields)
      /\ \A i \in 1..Len(v.fields) : v.fields[i][2] \in Values[D]
  BY <1>3, <1>4, AttributesAre
<1>6. ASSUME NEW u \in Values[D] PROVE GetSize(u) = SizeTo[D][u] /\ GetSize(u) \in Nat
  <2>1. GetSize(u) = SizeTo[D][u]
    BY <1>1, Deeper DEF GetSize
  <2>2. Inside(0, SizeTo[D][u], PayloadTo[D][u])
    BY <1>1, PayloadInside
  <2> QED
    BY <2>1, <2>2 DEF Inside
<1> QED
  BY <1>2, <1>4, <1>5, <1>6

(* The cursor of write_payload in front of each field of an object is      *)
(* where the fields before it end, and the header of the field is there.   *)
LEMMA HeadersAre ==
  ASSUME NEW v \in Trees, NEW i \in DOMAIN v.fields
  PROVE  Encode(v).mem[FieldEnd(v)[i - 1]] = Nlattr(v.fields[i][1], GetSize(v.fields[i][2]))
<1> DEFINE D == MaxDepth - 1
           n == Len(v.fields)
           sizes == SizeTo[D]
           payloads == PayloadTo[D]
           end == CHOOSE f : f = [j \in 0..n |->
                    IF j = 0 THEN 0 ELSE f[j - 1] + FieldAdvance(GetSize(v.fields[j][2]))]
<1>1. /\ v \in Nested(Values[D]) /\ v.k = "struct" /\ v.fields = Attributes(v)
      /\ n \in Nat /\ DOMAIN v.fields = 1..n
      /\ \A j \in 1..n : /\ v.fields[j][2] \in Values[D]
                         /\ GetSize(v.fields[j][2]) = sizes[v.fields[j][2]]
                         /\ GetSize(v.fields[j][2]) \in Nat
  BY TreesAre
<1>2. MaxDepth \in 1..MaxDepth /\ MaxDepth \in 0..MaxDepth /\ D \in 0..MaxDepth
  BY DepthAssumption
<1>3. v \in Values[MaxDepth]
  BY DEF Trees
<1>4. \A u \in Values[D] : Inside(0, sizes[u], payloads[u])
  BY <1>2, PayloadInside
<1>5. PayloadTo[MaxDepth][v] = PayloadOver(v, sizes, payloads)
  BY <1>2, <1>3, PayloadsAre, Zenon DEF PayloadsOn
<1>6. FieldEnd(v) = end
  BY DEF FieldEnd
<1> HIDE DEF sizes, payloads, n, D
<1>7. \A j \in 1..n : Counts(v, sizes)[j] = FieldAdvance(GetSize(v.fields[j][2]))
  BY <1>1 DEF Counts, Counted, FieldSize, FieldAdvance, n
<1>8. \A f : AreSums(f, n, Counts(v, sizes)) <=>
             f = [j \in 0..n |-> IF j = 0 THEN 0 ELSE f[j - 1] + FieldAdvance(GetSize(v.fields[j][2]))]
  BY <1>7 DEF AreSums
<1>9. \E f : AreSums(f, n, Counts(v, sizes))
  BY <1>1, SumsExist, Zenon
<1>10. AreSums(end, n, Counts(v, sizes))
  BY <1>8, <1>9
<1> HIDE DEF end
<1>11. PICK g : /\ AreWrites(g, n, v, v.fields, sizes, payloads)
                /\ PayloadOver(v, sizes, payloads) = g[n].cells
  BY <1>1, WriteLoop DEF n
<1>12. \A j \in 0..n : end[j] = g[j].at /\ Inside(0, g[j].at, g[j].cells)
  BY <1>1, <1>4, <1>10, <1>11, LoopsAgree, ZenonT(30) DEF n
<1>13. i \in 1..n /\ i \in 0..n /\ i # 0 /\ i - 1 \in 0..n
  BY <1>1
<1>14. PICK w : w = g[i - 1]
  OBVIOUS
<1>15. w.at \in Nat /\ end[i - 1] = w.at
  BY <1>12, <1>13, <1>14 DEF Inside
<1> DEFINE hdr == Nlattr(v.fields[i][1], sizes[v.fields[i][2]])
<1>16. g[i] = Wrote(w, v, v.fields[i], sizes, payloads)
  <2>1. \A j \in 0..n : g[j] = IF j = 0 THEN [at |-> 0, cells |-> {}]
                               ELSE Wrote(g[j - 1], v, v.fields[j], sizes, payloads)
    BY <1>11, Zenon DEF AreWrites
  <2> QED
    BY <1>13, <1>14, <2>1
<1>17. <<w.at, hdr>> \in g[i].cells
  <2>1. <<0, hdr>> \in WriteAttribute(v.fields[i][1], sizes[v.fields[i][2]], payloads[v.fields[i][2]])
    BY DEF WriteAttribute
  <2> HIDE DEF hdr
  <2>2. <<0 + w.at, hdr>> \in
          Shift(WriteAttribute(v.fields[i][1], sizes[v.fields[i][2]], payloads[v.fields[i][2]]), w.at)
    BY <2>1 DEF Shift
  <2>3. 0 + w.at = w.at
    BY <1>15
  <2> QED
    BY <1>16, <2>2, <2>3 DEF Wrote
<1>18. <<w.at, hdr>> \in PayloadTo[MaxDepth][v]
  BY <1>1, <1>5, <1>11, <1>13, <1>17, WritesStay
<1>19. Encode(v).mem[w.at] = hdr
  <2> HIDE DEF hdr
  <2>1. \A c \in PayloadTo[MaxDepth][v] : Encode(v).mem[c[1]] = c[2]
    BY <1>3, EncodeIs
  <2> QED
    BY <1>18, <2>1
<1>20. GetSize(v.fields[i][2]) = sizes[v.fields[i][2]]
  BY <1>1, <1>13
<1> QED
  BY <1>6, <1>15, <1>19, <1>20

-----------------------------------------------------------------------------
(* The promise of the writer.                                              *)

(* Whatever object is serialized, the writer stays inside the get_size()   *)
(* bytes that add_or_remove reserves, and no header and no content that    *)
(* write_payload puts there overlaps another: for every tree of fields and *)
(* lists, with leaves of any size and nested to any depth.                 *)
THEOREM WritesStayInside == EncoderSpec => []WritesInside
<1>1. EncoderInit => WritesInside
  BY DEF EncoderInit, WritesInside
<1>2. WritesInside /\ [EncoderNext]_encoderVars => WritesInside'
  <2>1. CASE EncoderNext
    <3>1. sent' \in Values[MaxDepth] /\ wire' = Encode(sent')
      BY <2>1 DEF EncoderNext, Trees
    <3> QED
      BY <3>1, EncodeInside DEF WritesInside
  <2>2. CASE UNCHANGED encoderVars
    BY <2>2 DEF encoderVars, WritesInside
  <2> QED
    BY <2>1, <2>2
<1> QED
  BY <1>1, <1>2, PTL DEF EncoderSpec

(* The nla_len that write_attribute puts into the header of a field is the *)
(* length of header and payload exactly when that fits 16 bits, whatever   *)
(* the other fields are: the header of each field is found where the       *)
(* fields before it end.                                                   *)
THEOREM HeaderLengthsHold == EncoderSpec => []HeaderLengths
<1>1. EncoderInit => HeaderLengths
  BY DEF EncoderInit, HeaderLengths, Struct
<1>2. HeaderLengths /\ [EncoderNext]_encoderVars => HeaderLengths'
  <2>1. CASE EncoderNext
    <3> SUFFICES ASSUME NEW i \in DOMAIN sent'.fields
                 PROVE  LET val == sent'.fields[i][2]
                        IN wire'.mem[FieldEnd(sent')[i - 1]].nlaLen = NLA_HDRLEN + GetSize(val)
                             <=> FitsField(val)
      BY DEF HeaderLengths
    <3>1. sent' \in Trees /\ wire' = Encode(sent')
      BY <2>1 DEF EncoderNext
    <3>2. wire'.mem[FieldEnd(sent')[i - 1]] = Nlattr(sent'.fields[i][1], GetSize(sent'.fields[i][2]))
      BY <3>1, HeadersAre
    <3>3. GetSize(sent'.fields[i][2]) \in Nat
      BY <3>1, TreesAre
    <3> QED
      BY <3>2, <3>3 DEF Nlattr, FitsField, NLA_HDRLEN, NlaLenMod
  <2>2. CASE UNCHANGED encoderVars
    BY <2>2 DEF encoderVars, HeaderLengths
  <2> QED
    BY <2>1, <2>2
<1> QED
  BY <1>1, <1>2, PTL DEF EncoderSpec

-----------------------------------------------------------------------------
(* The fields of a payload.                                                *)

LEMMA SameAt ==
  ASSUME NEW a, NEW b, NEW c, NEW d
  PROVE  At(a, b) = At(c, d) <=> a = c /\ b = d
BY DEF At

LEMMA LLInverse ==
  ASSUME NEW f \in DOMAIN LLHeaderField, NEW at
  PROVE  LLFromRawData(at) = <<"Ok", f>> <=> at = LLHeaderField[f]
<1>1. f \in {"Daddr", "Saddr", "EtherType"}
  BY DEF LLHeaderField
<1>2. /\ LLHeaderField["Daddr"] = At(0, 6) /\ LLHeaderField["Saddr"] = At(6, 6)
      /\ LLHeaderField["EtherType"] = At(12, 2)
  BY DEF LLHeaderField
<1>3. At(0, 6) # At(6, 6) /\ At(0, 6) # At(12, 2) /\ At(6, 6) # At(12, 2)
  BY SameAt
<1> QED
  BY <1>1, <1>2, <1>3 DEF LLFromRawData

LEMMA IPv4Inverse ==
  ASSUME NEW f \in DOMAIN IPv4HeaderField, NEW at
  PROVE  IPv4FromRawData(at) = <<"Ok", f>> <=> at = IPv4HeaderField[f]
<1>1. f \in {"Ttl", "Protocol", "Saddr", "Daddr"}
  BY DEF IPv4HeaderField
<1>2. /\ IPv4HeaderField["Ttl"] = At(8, 1) /\ IPv4HeaderField["Protocol"] = At(9, 1)
      /\ IPv4HeaderField["Saddr"] = At(12, 4) /\ IPv4HeaderField["Daddr"] = At(16, 4)
  BY DEF IPv4HeaderField
<1>3. /\ At(8, 1) # At(9, 1) /\ At(8, 1) # At(12, 4) /\ At(8, 1) # At(16, 4) /\ At(9, 1) # At(12, 4)
      /\ At(9, 1) # At(16, 4) /\ At(12, 4) # At(16, 4)
  BY SameAt
<1> QED
  BY <1>1, <1>2, <1>3 DEF IPv4FromRawData

LEMMA IPv6Inverse ==
  ASSUME NEW f \in DOMAIN IPv6HeaderField, NEW at
  PROVE  IPv6FromRawData(at) = <<"Ok", f>> <=> at = IPv6HeaderField[f]
<1>1. f \in {"NextHeader", "HopLimit", "Saddr", "Daddr"}
  BY DEF IPv6HeaderField
<1>2. /\ IPv6HeaderField["NextHeader"] = At(6, 1) /\ IPv6HeaderField["HopLimit"] = At(7, 1)
      /\ IPv6HeaderField["Saddr"] = At(8, 16) /\ IPv6HeaderField["Daddr"] = At(24, 16)
  BY DEF IPv6HeaderField
<1>3. /\ At(6, 1) # At(7, 1) /\ At(6, 1) # At(8, 16) /\ At(6, 1) # At(24, 16) /\ At(7, 1) # At(8, 16)
      /\ At(7, 1) # At(24, 16) /\ At(8, 16) # At(24, 16)
  BY SameAt
<1> QED
  BY <1>1, <1>2, <1>3 DEF IPv6FromRawData

LEMMA TCPInverse ==
  ASSUME NEW f \in DOMAIN TCPHeaderField, NEW at
  PROVE  TCPFromRawData(at) = <<"Ok", f>> <=> at = TCPHeaderField[f]
<1>1. f \in {"Sport", "Dport"}
  BY DEF TCPHeaderField
<1>2. TCPHeaderField["Sport"] = At(0, 2) /\ TCPHeaderField["Dport"] = At(2, 2)
  BY DEF TCPHeaderField
<1>3. At(0, 2) # At(2, 2)
  BY SameAt
<1> QED
  BY <1>1, <1>2, <1>3 DEF TCPFromRawData

LEMMA UDPInverse ==
  ASSUME NEW f \in DOMAIN UDPHeaderField, NEW at
  PROVE  UDPFromRawData(at) = <<"Ok", f>> <=> at = UDPHeaderField[f]
<1>1. f \in {"Sport", "Dport", "Len"}
  BY DEF UDPHeaderField
<1>2. /\ UDPHeaderField["Sport"] = At(0, 2) /\ UDPHeaderField["Dport"] = At(2, 2)
      /\ UDPHeaderField["Len"] = At(4, 2)
  BY DEF UDPHeaderField
<1>3. At(0, 2) # At(2, 2) /\ At(0, 2) # At(4, 2) /\ At(2, 2) # At(4, 2)
  BY SameAt
<1> QED
  BY <1>1, <1>2, <1>3 DEF UDPFromRawData

LEMMA ICMPv6Inverse ==
  ASSUME NEW f \in DOMAIN ICMPv6HeaderField, NEW at
  PROVE  ICMPv6FromRawData(at) = <<"Ok", f>> <=> at = ICMPv6HeaderField[f]
<1>1. f \in {"Type", "Code", "Checksum"}
  BY DEF ICMPv6HeaderField
<1>2. /\ ICMPv6HeaderField["Type"] = At(0, 1) /\ ICMPv6HeaderField["Code"] = At(1, 1)
      /\ ICMPv6HeaderField["Checksum"] = At(2, 2)
  BY DEF ICMPv6HeaderField
<1>3. At(0, 1) # At(1, 1) /\ At(0, 1) # At(2, 2) /\ At(1, 1) # At(2, 2)
  BY SameAt
<1> QED
  BY <1>1, <1>2, <1>3 DEF ICMPv6FromRawData

(* The same, through the dispatch on the header.                           *)
LEMMA HeadersInverse ==
  ASSUME NEW h \in DOMAIN HeaderField, NEW f \in DOMAIN HeaderField[h], NEW offset, NEW len
  PROVE  FromRawData(h, offset, len) = <<"Ok", f>> <=> At(offset, len) = HeaderField[h][f]
<1>1. h \in {"LL", "IPv4", "IPv6", "Tcp", "Udp", "ICMPv6"}
  BY DEF HeaderField
<1> DEFINE at == At(offset, len)
<1>2. /\ HeaderField["LL"] = LLHeaderField /\ HeaderField["IPv4"] = IPv4HeaderField
      /\ HeaderField["IPv6"] = IPv6HeaderField /\ HeaderField["Tcp"] = TCPHeaderField
      /\ HeaderField["Udp"] = UDPHeaderField /\ HeaderField["ICMPv6"] = ICMPv6HeaderField
  BY DEF HeaderField
<1>3. /\ FromRawData("LL", offset, len) = LLFromRawData(at)
      /\ FromRawData("IPv4", offset, len) = IPv4FromRawData(at)
      /\ FromRawData("IPv6", offset, len) = IPv6FromRawData(at)
      /\ FromRawData("Tcp", offset, len) = TCPFromRawData(at)
      /\ FromRawData("Udp", offset, len) = UDPFromRawData(at)
      /\ FromRawData("ICMPv6", offset, len) = ICMPv6FromRawData(at)
  BY DEF FromRawData
<1> HIDE DEF at
<1>4. CASE h = "LL"
  BY <1>2, <1>3, <1>4, LLInverse DEF at
<1>5. CASE h = "IPv4"
  BY <1>2, <1>3, <1>5, IPv4Inverse DEF at
<1>6. CASE h = "IPv6"
  BY <1>2, <1>3, <1>6, IPv6Inverse DEF at
<1>7. CASE h = "Tcp"
  BY <1>2, <1>3, <1>7, TCPInverse DEF at
<1>8. CASE h = "Udp"
  BY <1>2, <1>3, <1>8, UDPInverse DEF at
<1>9. CASE h = "ICMPv6"
  BY <1>2, <1>3, <1>9, ICMPv6Inverse DEF at
<1> QED
  BY <1>1, <1>4, <1>5, <1>6, <1>7, <1>8, <1>9

(* The positions of the fields are numbers.                                *)
IsField(f) == f = At(f.offset, f.len) /\ f.offset \in Nat /\ f.len \in Nat

LEMMA FieldsAre ==
  ASSUME NEW h \in DOMAIN HeaderField, NEW f \in DOMAIN HeaderField[h]
  PROVE  IsField(HeaderField[h][f])
<1>1. ASSUME NEW offset \in Nat, NEW len \in Nat PROVE IsField(At(offset, len))
  BY DEF IsField, At
<1>2. \A x \in DOMAIN LLHeaderField : IsField(LLHeaderField[x])
  BY <1>1 DEF LLHeaderField
<1>3. \A x \in DOMAIN IPv4HeaderField : IsField(IPv4HeaderField[x])
  BY <1>1 DEF IPv4HeaderField
<1>4. \A x \in DOMAIN IPv6HeaderField : IsField(IPv6HeaderField[x])
  BY <1>1 DEF IPv6HeaderField
<1>5. \A x \in DOMAIN TCPHeaderField : IsField(TCPHeaderField[x])
  BY <1>1 DEF TCPHeaderField
<1>6. \A x \in DOMAIN UDPHeaderField : IsField(UDPHeaderField[x])
  BY <1>1 DEF UDPHeaderField
<1>7. \A x \in DOMAIN ICMPv6HeaderField : IsField(ICMPv6HeaderField[x])
  BY <1>1 DEF ICMPv6HeaderField
<1>8. \A y \in DOMAIN HeaderField :
        HeaderField[y] \in {LLHeaderField, IPv4HeaderField, IPv6HeaderField, TCPHeaderField, UDPHeaderField,
                           ICMPv6HeaderField}
  BY DEF HeaderField
<1> QED
  BY <1>2, <1>3, <1>4, <1>5, <1>6, <1>7, <1>8, Zenon

IsPayload(r) ==
  r = [expr |-> "payload", dreg |-> "Reg1", base |-> r.base, offset |-> r.offset, len |-> r.len]

(* build makes this expression: the base of the header, the place of f.    *)
LEMMA BuildIs ==
  ASSUME NEW h \in DOMAIN HeaderField, NEW f \in DOMAIN HeaderField[h], NEW r, IsPayload(r)
  PROVE  Build(h, f) = r <=> Base(h) = r.base /\ At(r.offset, r.len) = HeaderField[h][f]
<1> DEFINE x == HeaderField[h][f]
           b == Base(h)
<1>1. IsField(x)
  BY FieldsAre
<1>2. Build(h, f) = [expr |-> "payload", dreg |-> "Reg1", base |-> b, offset |-> x.offset, len |-> x.len]
  BY DEF Build
<1> HIDE DEF x, b
<1>3. At(r.offset, r.len) = x <=> r.offset = x.offset /\ r.len = x.len
  BY <1>1, SameAt DEF IsField
<1>4. Build(h, f) = r <=> b = r.base /\ r.offset = x.offset /\ r.len = x.len
  BY <1>2 DEF IsPayload
<1> QED
  BY <1>3, <1>4 DEF x, b

-----------------------------------------------------------------------------
(* The invariant: what was parsed and decoded comes from this expression.  *)
FieldsInv ==
  /\ IsPayload(raw) /\ raw.base \in Bases \cup {None}
  /\ layer # << >> => layer = ParseFromPayload(raw)
  /\ field # << >> =>
       /\ field[1] \in DOMAIN HeaderField /\ Base(field[1]) = raw.base
       /\ field[2] = FromRawData(field[1], raw.offset, raw.len)

LEMMA FieldsInit == PayloadInit => FieldsInv
BY DEF PayloadInit, Raws, FieldsInv, IsPayload

LEMMA FieldsNext == FieldsInv /\ [PayloadNext]_payloadVars => FieldsInv'
<1> SUFFICES ASSUME FieldsInv, [PayloadNext]_payloadVars PROVE FieldsInv'
  OBVIOUS
<1>1. CASE Parse
  BY <1>1 DEF Parse, FieldsInv
<1>2. ASSUME NEW h \in DOMAIN HeaderField, Decode(h) PROVE FieldsInv'
  <2> DEFINE x == FromRawData(h, raw.offset, raw.len)
  <2>1. raw' = raw /\ layer' = layer /\ field' = <<h, x>> /\ Base(h) = raw.base
    BY <1>2 DEF Decode
  <2> HIDE DEF x
  <2>2. field'[1] = h /\ field'[2] = x
    BY <2>1
  <2> QED
    BY <2>1, <2>2 DEF FieldsInv, x
<1>3. CASE Rebuild
  <2>1. raw' = Build(field[1], field[2][2]) /\ layer' = << >> /\ field' = << >> /\ field # << >>
    BY <1>3 DEF Rebuild
  <2>2. IsPayload(raw') /\ raw'.base = Base(field[1])
    BY <2>1 DEF Build, IsPayload
  <2>3. Base(field[1]) \in Bases
    BY <2>1 DEF FieldsInv, Bases
  <2> QED
    BY <2>1, <2>2, <2>3 DEF FieldsInv
<1>4. CASE UNCHANGED payloadVars
  BY <1>4 DEF payloadVars, FieldsInv
<1> QED
  BY <1>1, <1>2, <1>3, <1>4 DEF PayloadNext

LEMMA DecodeFollows == FieldsInv => DecodeInvertsBuild
<1> SUFFICES ASSUME FieldsInv, field # << >>, NEW f \in DOMAIN HeaderField[field[1]]
             PROVE  (field[2] = <<"Ok", f>>) <=> (Build(field[1], f) = raw)
  BY DEF DecodeInvertsBuild
<1> DEFINE h == field[1]
<1>1. /\ h \in DOMAIN HeaderField /\ Base(h) = raw.base /\ IsPayload(raw)
      /\ field[2] = FromRawData(h, raw.offset, raw.len)
  BY DEF FieldsInv
<1>2. FromRawData(h, raw.offset, raw.len) = <<"Ok", f>> <=> At(raw.offset, raw.len) = HeaderField[h][f]
  BY <1>1, HeadersInverse
<1>3. Build(h, f) = raw <=> Base(h) = raw.base /\ At(raw.offset, raw.len) = HeaderField[h][f]
  BY <1>1, BuildIs
<1> QED
  BY <1>1, <1>2, <1>3

(* The bases are three, and one that the crate does not know.              *)
LEMMA BasesAre ==
  /\ Base("LL") = "NFT_PAYLOAD_LL_HEADER"
  /\ \A h \in DOMAIN HeaderField :
       /\ Base(h) \in {"NFT_PAYLOAD_LL_HEADER", "NFT_PAYLOAD_NETWORK_HEADER", "NFT_PAYLOAD_TRANSPORT_HEADER"}
       /\ Base(h) = "NFT_PAYLOAD_LL_HEADER" => h = "LL"
       /\ Base(h) = "NFT_PAYLOAD_NETWORK_HEADER" => h \in {"IPv4", "IPv6"}
       /\ Base(h) = "NFT_PAYLOAD_TRANSPORT_HEADER" => h \in {"Tcp", "Udp", "ICMPv6"}
  /\ "LL" \in DOMAIN HeaderField
<1>1. DOMAIN HeaderField = {"LL", "IPv4", "IPv6", "Tcp", "Udp", "ICMPv6"}
  BY DEF HeaderField
<1>2. /\ Base("LL") = "NFT_PAYLOAD_LL_HEADER"
      /\ Base("IPv4") = "NFT_PAYLOAD_NETWORK_HEADER" /\ Base("IPv6") = "NFT_PAYLOAD_NETWORK_HEADER"
      /\ Base("Tcp") = "NFT_PAYLOAD_TRANSPORT_HEADER" /\ Base("Udp") = "NFT_PAYLOAD_TRANSPORT_HEADER"
      /\ Base("ICMPv6") = "NFT_PAYLOAD_TRANSPORT_HEADER"
  BY DEF Base
<1> QED
  BY <1>1, <1>2

LEMMA LLResult ==
  ASSUME NEW offset, NEW len
  PROVE  LET x == FromRawData("LL", offset, len)
         IN x[1] = "Err" <=> \A f \in DOMAIN HeaderField["LL"] : x # <<"Ok", f>>
<1> DEFINE at == At(offset, len)
<1>1. FromRawData("LL", offset, len) = LLFromRawData(at)
  BY DEF FromRawData
<1>2. DOMAIN HeaderField["LL"] = {"Daddr", "Saddr", "EtherType"}
  BY DEF HeaderField, LLHeaderField
<1> HIDE DEF at
<1> QED
  BY <1>1, <1>2 DEF LLFromRawData

LEMMA AcceptFollows == FieldsInv => BuiltIsAccepted
<1> SUFFICES ASSUME FieldsInv, layer # << >>
             PROVE  /\ \A h \in DOMAIN HeaderField : \A f \in DOMAIN HeaderField[h] :
                         Build(h, f) = raw => layer = <<"Ok", Layer(h, f)>>
                    /\ layer[1] = "Err" =>
                         \/ None \in {raw.base, raw.offset, raw.len}
                         \/ raw.base = "NFT_PAYLOAD_INNER_HEADER"
                         \/ raw.base = Base("LL") /\ \A f \in DOMAIN HeaderField["LL"] : Build("LL", f) # raw
  BY DEF BuiltIsAccepted
<1>1. layer = ParseFromPayload(raw) /\ IsPayload(raw) /\ raw.base \in Bases \cup {None}
  BY DEF FieldsInv
<1> DEFINE ll == FromRawData("LL", raw.offset, raw.len)
           present == None \notin {raw.base, raw.offset, raw.len}
<1>2. /\ present /\ raw.base = "NFT_PAYLOAD_LL_HEADER" => layer = ll
      /\ present /\ raw.base = "NFT_PAYLOAD_NETWORK_HEADER" => layer = <<"Ok", "Network">>
      /\ present /\ raw.base = "NFT_PAYLOAD_TRANSPORT_HEADER" => layer = <<"Ok", "Transport">>
  BY <1>1 DEF ParseFromPayload
<1>3. raw.base = "NFT_PAYLOAD_LL_HEADER" =>
        \A f \in DOMAIN HeaderField["LL"] : ll = <<"Ok", f>> <=> Build("LL", f) = raw
  BY <1>1, BasesAre, HeadersInverse, BuildIs
<1>4. ASSUME NEW h \in DOMAIN HeaderField, NEW f \in DOMAIN HeaderField[h], Build(h, f) = raw
      PROVE  layer = <<"Ok", Layer(h, f)>>
  <2>1. raw.base = Base(h) /\ raw.offset = HeaderField[h][f].offset /\ raw.len = HeaderField[h][f].len
    BY <1>4 DEF Build
  <2>2. present
    <3>1. HeaderField[h][f].offset \in Nat /\ HeaderField[h][f].len \in Nat
      BY FieldsAre DEF IsField
    <3>2. Base(h) \in Bases
      BY DEF Bases
    <3> QED
      BY <2>1, <3>1, <3>2, NoneAssumption
  <2>3. CASE raw.base = "NFT_PAYLOAD_LL_HEADER"
    <3>1. h = "LL" /\ ll = <<"Ok", f>>
      BY <1>3, <1>4, <2>1, <2>3, BasesAre, ZenonT(30)
    <3>2. Layer(h, f) = f
      BY <3>1 DEF Layer
    <3> QED
      BY <1>2, <2>2, <2>3, <3>1, <3>2
  <2>4. CASE raw.base = "NFT_PAYLOAD_NETWORK_HEADER"
    <3>1. Layer(h, f) = "Network"
      BY <2>1, <2>4, BasesAre DEF Layer
    <3> QED
      BY <1>2, <2>2, <2>4, <3>1
  <2>5. CASE raw.base = "NFT_PAYLOAD_TRANSPORT_HEADER"
    <3>1. Layer(h, f) = "Transport"
      BY <2>1, <2>5, BasesAre DEF Layer
    <3> QED
      BY <1>2, <2>2, <2>5, <3>1
  <2> QED
    BY <2>1, <2>3, <2>4, <2>5, BasesAre, ZenonT(30)
<1>5. ASSUME layer[1] = "Err", present, raw.base # "NFT_PAYLOAD_INNER_HEADER"
      PROVE  raw.base = Base("LL") /\ \A f \in DOMAIN HeaderField["LL"] : Build("LL", f) # raw
  <2>1. raw.base \in Bases
    BY <1>1, <1>5
  <2>2. raw.base = "NFT_PAYLOAD_LL_HEADER"
    <3>1. layer # <<"Ok", "Network">> /\ layer # <<"Ok", "Transport">>
      BY <1>5
    <3> QED
      BY <1>2, <1>5, <2>1, <3>1, BasesAre, ZenonT(30) DEF Bases
  <2>3. ll[1] = "Err"
    BY <1>2, <1>5, <2>2
  <2>4. \A f \in DOMAIN HeaderField["LL"] : ll # <<"Ok", f>>
    BY <2>3, LLResult
  <2> QED
    BY <1>3, <2>2, <2>4, BasesAre
<1> QED
  BY <1>4, <1>5

(* What PayloadType::parse_from_payload and from_raw_data returned belongs *)
(* to the expression that was last taken up.                               *)
THEOREM FieldsInvariant == PayloadSpec => []FieldsInv
BY FieldsInit, FieldsNext, PTL DEF PayloadSpec

(* offset() and len() of every header field and the match of its           *)
(* from_raw_data are inverse, for every offset and length.                 *)
THEOREM FieldsDecode == PayloadSpec => []DecodeInvertsBuild
BY FieldsInvariant, DecodeFollows, PTL

(* PayloadType::parse_from_payload names the layer that an expression of   *)
(* HighLevelPayload::build was made for, and refuses an expression only    *)
(* for the reasons it names.                                               *)
THEOREM FieldsAccepted == PayloadSpec => []BuiltIsAccepted
BY FieldsInvariant, AcceptFollows, PTL


-----------------------------------------------------------------------------
(* Sequences.                                                              *)

(* A function on 1..n is a sequence of length n.                           *)
LEMMA FunctionSeq ==
  ASSUME NEW n \in Nat, NEW S, NEW f \in [1..n -> S]
  PROVE  f \in Seq(S) /\ Len(f) = n
<1>1. f \in Seq(S)
  BY SequencesAre
<1>2. 1..n = 1..Len(f) /\ Len(f) \in Nat
  BY <1>1, SequenceLen
<1> QED
  BY <1>1, <1>2

(* No expression of the second sequence reads what only the first loads.   *)
LEMMA FedConcat ==
  ASSUME NEW S, NEW a \in Seq(S), NEW b \in Seq(S), Fed(a), Fed(b)
  PROVE  Fed(a \o b)
<1> DEFINE c == a \o b
<1>1. /\ Len(a) \in Nat /\ Len(b) \in Nat /\ Len(c) = Len(a) + Len(b)
      /\ \A i \in 1..Len(a) : c[i] = a[i]
      /\ \A i \in 1..Len(b) : c[Len(a) + i] = b[i]
  BY ConcatIs, SequenceLen
<1> HIDE DEF c
<1> SUFFICES ASSUME NEW i \in 1..Len(c), NEW r \in Reads(c[i])
             PROVE  FedAt(c, i, r[1], r[2])
  BY DEF Fed, c
<1>2. CASE i <= Len(a)
  <2>1. i \in 1..Len(a) /\ r \in Reads(a[i])
    BY <1>1, <1>2
  <2>2. FedAt(a, i, r[1], r[2])
    BY <2>1 DEF Fed
  <2>3. \A k \in 1..(i - 1) : c[k] = a[k]
    BY <1>1, <2>1
  <2>4. PICK j \in 1..(i - 1) :
           /\ Writes(a[j]) = r[1] /\ WriteLen(a[j]) >= r[2]
           /\ \A k \in (j + 1)..(i - 1) : Writes(a[k]) # r[1]
    BY <2>2 DEF FedAt
  <2>5. \A k \in (j + 1)..(i - 1) : Writes(c[k]) # r[1]
    BY <2>1, <2>3, <2>4
  <2> QED
    BY <2>3, <2>4, <2>5 DEF FedAt
<1>3. CASE i > Len(a)
  <2> DEFINE h == i - Len(a)
  <2>1. h \in 1..Len(b) /\ i = Len(a) + h
    BY <1>1, <1>3
  <2>2. r \in Reads(b[h])
    BY <2>1, <1>1
  <2>3. FedAt(b, h, r[1], r[2])
    BY <2>1, <2>2 DEF Fed
  <2> HIDE DEF h
  <2>4. PICK j \in 1..(h - 1) :
           /\ Writes(b[j]) = r[1] /\ WriteLen(b[j]) >= r[2]
           /\ \A k \in (j + 1)..(h - 1) : Writes(b[k]) # r[1]
    BY <2>3 DEF FedAt
  <2>5. Len(a) + j \in 1..(i - 1) /\ c[Len(a) + j] = b[j]
    BY <2>1, <2>4, <1>1
  <2>6. ASSUME NEW k \in (Len(a) + j + 1)..(i - 1)
        PROVE  Writes(c[k]) # r[1]
    <3>1. k - Len(a) \in (j + 1)..(h - 1) /\ k - Len(a) \in 1..Len(b)
      BY <2>1, <2>4, <1>1
    <3>2. c[k] = b[k - Len(a)]
      <4>1. k = Len(a) + (k - Len(a))
        BY <1>1
      <4> QED BY <4>1, <3>1, <1>1
    <3> QED
      BY <3>1, <3>2, <2>4
  <2> QED
    BY <2>4, <2>5, <2>6 DEF FedAt
<1> QED
  BY <1>1, <1>2, <1>3

-----------------------------------------------------------------------------
(* Short sequences: a load, and behind it what reads the register.         *)

(* A sequence that may be appended to a rule.                              *)
Segment(s) == (\E S : s \in Seq(S)) /\ Fed(s)

LEMMA SegmentConcat ==
  ASSUME NEW a, NEW b, Segment(a), Segment(b)
  PROVE  Segment(a \o b)
<1>1. PICK S : a \in Seq(S)
  BY DEF Segment
<1>2. PICK T : b \in Seq(T)
  BY DEF Segment
<1>3. a \in Seq(S \cup T) /\ b \in Seq(S \cup T)
  BY <1>1, <1>2
<1>4. a \o b \in Seq(S \cup T)
  BY <1>3
<1> QED
  BY <1>3, <1>4, FedConcat DEF Segment

LEMMA SegmentOne ==
  ASSUME NEW e1, Reads(e1) = {}
  PROVE  Segment(<<e1>>)
<1> DEFINE s == <<e1>>
<1>1. s \in Seq({e1}) /\ Len(s) = 1 /\ s[1] = e1
  OBVIOUS
<1> HIDE DEF s
<1>2. Fed(s)
  BY <1>1 DEF Fed
<1> QED
  BY <1>1, <1>2, Zenon DEF Segment, s

(* The second expression reads what the first has written.                 *)
Feeds(e1, e2) == \A r \in Reads(e2) : Writes(e1) = r[1] /\ WriteLen(e1) >= r[2]

LEMMA SegmentTwo ==
  ASSUME NEW e1, NEW e2, Reads(e1) = {}, Feeds(e1, e2)
  PROVE  Segment(<<e1, e2>>)
<1> DEFINE s == <<e1, e2>>
<1>1. s \in Seq({e1, e2}) /\ Len(s) = 2 /\ s[1] = e1 /\ s[2] = e2
  OBVIOUS
<1> HIDE DEF s
<1>2. \A r \in Reads(s[2]) : FedAt(s, 2, r[1], r[2])
  BY <1>1 DEF FedAt, Feeds
<1>3. Fed(s)
  BY <1>1, <1>2 DEF Fed
<1> QED
  BY <1>1, <1>3, Zenon DEF Segment, s

LEMMA SegmentThree ==
  ASSUME NEW e1, NEW e2, NEW e3, Reads(e1) = {}, Feeds(e1, e2), Feeds(e2, e3)
  PROVE  Segment(<<e1, e2, e3>>)
<1> DEFINE s == <<e1, e2, e3>>
<1>1. s \in Seq({e1, e2, e3}) /\ Len(s) = 3 /\ s[1] = e1 /\ s[2] = e2 /\ s[3] = e3
  OBVIOUS
<1> HIDE DEF s
<1>2. \A r \in Reads(s[2]) : FedAt(s, 2, r[1], r[2])
  BY <1>1 DEF FedAt, Feeds
<1>3. \A r \in Reads(s[3]) : FedAt(s, 3, r[1], r[2])
  BY <1>1 DEF FedAt, Feeds
<1>4. Fed(s)
  BY <1>1, <1>2, <1>3 DEF Fed
<1> QED
  BY <1>1, <1>4, Zenon DEF Segment, s

-----------------------------------------------------------------------------
(* The methods.                                                            *)

(* What the loads write, and what the others read.                         *)
LEMMA LoadFacts ==
  /\ \A k : Reads(Meta(k)) = {} /\ Writes(Meta(k)) = "Reg1"
  /\ \A k : WriteLen(Meta(k)) = MetaLen(k)
  /\ \A k : Reads(Conntrack(k)) = {} /\ Writes(Conntrack(k)) = "Reg1"
              /\ WriteLen(Conntrack(k)) = 4
  /\ \A h, f : Reads(Build(h, f)) = {} /\ Writes(Build(h, f)) = "Reg1"
               /\ WriteLen(Build(h, f)) = HeaderField[h][f].len
BY DEF Reads, Writes, WriteLen, Meta, Conntrack, Build

LEMMA CmpFeeds ==
  ASSUME NEW e, NEW op, NEW data, Writes(e) = "Reg1", WriteLen(e) >= Len(data)
  PROVE  Feeds(e, Cmp(op, data))
<1>1. Reads(Cmp(op, data)) = {<<"Reg1", Len(data)>>}
  BY DEF Reads, Cmp
<1> QED
  BY <1>1 DEF Feeds

LEMMA BitwiseFeeds ==
  ASSUME NEW e, NEW mk, NEW xor, Writes(e) = "Reg1", WriteLen(e) >= Len(mk)
  PROVE  /\ Feeds(e, Bitwise(mk, xor))
         /\ Writes(Bitwise(mk, xor)) = "Reg1" /\ WriteLen(Bitwise(mk, xor)) = Len(mk)
<1>1. Reads(Bitwise(mk, xor)) = {<<"Reg1", Len(mk)>>}
  BY DEF Reads, Bitwise
<1>2. Writes(Bitwise(mk, xor)) = "Reg1" /\ WriteLen(Bitwise(mk, xor)) = Len(mk)
  BY DEF Writes, WriteLen, Bitwise
<1> QED
  BY <1>1, <1>2 DEF Feeds

LEMMA L4ProtoSegment ==
  ASSUME NEW n PROVE Segment(l4proto(n))
<1>1. Writes(Meta("L4Proto")) = "Reg1" /\ WriteLen(Meta("L4Proto")) >= Len(<<n>>)
  BY LoadFacts DEF MetaLen
<1>2. Feeds(Meta("L4Proto"), Cmp("Eq", <<n>>))
  BY <1>1, CmpFeeds, Zenon
<1> QED
  BY <1>2, LoadFacts, SegmentTwo DEF l4proto

LEMMA PortSegment ==
  ASSUME NEW port, NEW proto \in Protocols, NEW source \in BOOLEAN
  PROVE  Segment(match_port(port, proto, source))
<1> DEFINE h == IF proto = "TCP" THEN "Tcp" ELSE "Udp"
           f == IF source THEN "Sport" ELSE "Dport"
<1>1. HeaderField[h][f].len = 2
  BY DEF HeaderField, TCPHeaderField, UDPHeaderField, At
<1>2. Len(BE16(port)) = 2
  BY DEF BE16
<1>3. Feeds(Build(h, f), Cmp("Eq", BE16(port)))
  <2> HIDE DEF h, f
  <2>1. Writes(Build(h, f)) = "Reg1" /\ WriteLen(Build(h, f)) >= Len(BE16(port))
    BY <1>1, <1>2, LoadFacts
  <2> QED BY <2>1, CmpFeeds, Zenon
<1>4. Segment(<<Build(h, f), Cmp("Eq", BE16(port))>>)
  <2> HIDE DEF h, f
  <2> QED BY <1>3, LoadFacts, SegmentTwo
<1> QED
  BY <1>4, L4ProtoSegment, SegmentConcat DEF match_port, protocol

(* The arguments of type IpAddr.                                           *)
Octets(ip) == ip \in [1..4 -> Byte] \cup [1..16 -> Byte]

LEMMA OctetsLen ==
  ASSUME NEW ip, Octets(ip)
  PROVE  /\ Len(ip) \in {4, 16}
         /\ IsV4(ip) <=> Len(ip) = 4
<1>1. CASE ip \in [1..4 -> Byte]
  BY <1>1, FunctionSeq DEF IsV4
<1>2. CASE ip \in [1..16 -> Byte]
  BY <1>2, FunctionSeq, SMTT(30) DEF IsV4
<1> QED
  BY <1>1, <1>2 DEF Octets

LEMMA NfProtoSegment ==
  ASSUME NEW ip PROVE Segment(nfproto(ip))
<1> DEFINE n == IF IsV4(ip) THEN NFPROTO_IPV4 ELSE NFPROTO_IPV6
<1>1. Writes(Meta("NfProto")) = "Reg1" /\ WriteLen(Meta("NfProto")) >= Len(<<n>>)
  BY LoadFacts DEF MetaLen
<1>2. Feeds(Meta("NfProto"), Cmp("Eq", <<n>>))
  BY <1>1, CmpFeeds, Zenon
<1> QED
  BY <1>2, LoadFacts, SegmentTwo DEF nfproto

LEMMA LoadIp ==
  ASSUME NEW ip, Octets(ip), NEW source \in BOOLEAN
  PROVE  /\ Reads(load_ip(ip, source)) = {} /\ Writes(load_ip(ip, source)) = "Reg1"
         /\ WriteLen(load_ip(ip, source)) = Len(ip)
<1> DEFINE h == IF IsV4(ip) THEN "IPv4" ELSE "IPv6"
           f == IF source THEN "Saddr" ELSE "Daddr"
<1>1. HeaderField[h][f].len = Len(ip)
  BY OctetsLen, Zenon DEF HeaderField, IPv4HeaderField, IPv6HeaderField, At
<1> QED
  BY <1>1, LoadFacts DEF load_ip

LEMMA IpSegment ==
  ASSUME NEW ip, Octets(ip), NEW source \in BOOLEAN
  PROVE  Segment(match_ip(ip, source))
<1>1. Feeds(load_ip(ip, source), Cmp("Eq", ip))
  BY LoadIp, CmpFeeds, OctetsLen
<1>2. Segment(<<load_ip(ip, source), Cmp("Eq", ip)>>)
  BY <1>1, LoadIp, SegmentTwo
<1> QED
  BY <1>2, NfProtoSegment, SegmentConcat DEF match_ip

LEMMA NetworkFacts ==
  ASSUME NEW net, Octets(net.ip)
  PROVE  /\ Len(mask(net)) = Len(net.ip) /\ Len(network(net)) = Len(net.ip)
         /\ CompatibleLength(mask(net), no_xor(net))
<1> DEFINE n == Len(net.ip)
           M == {mask(net)[i] : i \in 1..n}
           W == {network(net)[i] : i \in 1..n}
<1>1. n \in {4, 16} /\ (IsV4(net.ip) <=> n = 4)
  BY OctetsLen
<1>2. mask(net) \in [1..n -> M]
  BY DEF mask
<1>3. network(net) \in [1..n -> W]
  BY DEF network
<1>4. no_xor(net) \in [1..n -> {0}]
  BY <1>1, Zenon DEF no_xor, Zeros
<1> HIDE DEF n, M, W
<1>5. Len(mask(net)) = n /\ Len(network(net)) = n /\ Len(no_xor(net)) = n
  BY <1>1, <1>2, <1>3, <1>4, FunctionSeq
<1> QED
  BY <1>5 DEF CompatibleLength, n

LEMMA NetworkSegment ==
  ASSUME NEW net, Octets(net.ip), NEW source \in BOOLEAN
  PROVE  Segment(match_network(net, source))
<1> DEFINE e1 == load_ip(net.ip, source)
           e2 == Bitwise(mask(net), no_xor(net))
           e3 == Cmp("Eq", network(net))
<1>1. Len(net.ip) \in Nat
  BY OctetsLen
<1>2. Reads(e1) = {} /\ Writes(e1) = "Reg1" /\ WriteLen(e1) >= Len(mask(net))
  BY <1>1, LoadIp, NetworkFacts
<1>3. Feeds(e1, e2) /\ Writes(e2) = "Reg1" /\ WriteLen(e2) = Len(mask(net))
  BY <1>2, BitwiseFeeds, Zenon
<1>4. Writes(e2) = "Reg1" /\ WriteLen(e2) >= Len(network(net))
  BY <1>1, <1>3, NetworkFacts
<1>5. Feeds(e2, e3)
  BY <1>4, CmpFeeds, Zenon
<1>6. Segment(<<e1, e2, e3>>)
  <2> HIDE DEF e1, e2, e3
  <2> QED BY <1>2, <1>3, <1>5, SegmentThree
<1> QED
  BY <1>6, NfProtoSegment, SegmentConcat DEF match_network

LEMMA Ip6in4Segment == Segment(ip6in4)
<1> DEFINE e1 == Build("IPv4", "Protocol")
           e2 == Cmp("Eq", <<41>>)
           first == <<Meta("NfProto"), Cmp("Eq", <<NFPROTO_IPV4>>)>>
<1>1. Writes(Meta("NfProto")) = "Reg1" /\ WriteLen(Meta("NfProto")) >= Len(<<NFPROTO_IPV4>>)
  BY LoadFacts DEF MetaLen
<1>2. Feeds(Meta("NfProto"), Cmp("Eq", <<NFPROTO_IPV4>>))
  BY <1>1, CmpFeeds, Zenon
<1>3. Segment(first)
  BY <1>2, LoadFacts, SegmentTwo, SMTT(30)
<1>4. HeaderField["IPv4"]["Protocol"].len = 1
  BY DEF HeaderField, IPv4HeaderField, At
<1>5. Writes(e1) = "Reg1" /\ WriteLen(e1) >= Len(<<41>>)
  BY <1>4, LoadFacts
<1>6. Feeds(e1, e2)
  BY <1>5, CmpFeeds, ZenonT(30)
<1>7. Segment(<<e1, e2>>)
  <2> HIDE DEF e2
  <2> QED BY <1>6, LoadFacts, SegmentTwo
<1>8. ip6in4 = first \o <<e1, e2>>
  BY DEF ip6in4
<1> QED
  BY <1>3, <1>7, <1>8, SegmentConcat

LEMMA EstablishedSegment == Segment(established) /\ CompatibleLength(LE32(ESTABLISHED), BE32(0))
<1> DEFINE e2 == Bitwise(LE32(ESTABLISHED), BE32(0))
<1>1. Len(LE32(ESTABLISHED)) = 4 /\ Len(BE32(0)) = 4
  BY DEF LE32, BE32
<1>2. Writes(Conntrack("State")) = "Reg1" /\ WriteLen(Conntrack("State")) >= Len(LE32(ESTABLISHED))
  BY <1>1, LoadFacts
<1>3. Feeds(Conntrack("State"), e2) /\ Writes(e2) = "Reg1" /\ WriteLen(e2) = Len(LE32(ESTABLISHED))
  BY <1>2, BitwiseFeeds, Zenon
<1>4. Writes(e2) = "Reg1" /\ WriteLen(e2) >= Len(BE32(0))
  <2>1. WriteLen(e2) = 4
    BY <1>1, <1>3, Zenon
  <2>2. 4 >= 4
    OBVIOUS
  <2> QED BY <1>1, <1>3, <2>1, <2>2, Zenon
<1>5. Feeds(e2, Cmp("Neq", BE32(0)))
  BY <1>4, CmpFeeds, ZenonT(30)
<1>6. Segment(established)
  <2>1. established = <<Conntrack("State"), e2, Cmp("Neq", BE32(0))>>
    BY DEF established
  <2> HIDE DEF e2
  <2> QED BY <2>1, <1>3, <1>5, LoadFacts, SegmentThree
<1> QED
  BY <1>1, <1>6 DEF CompatibleLength

LEMMA SynSegment == Segment(syn) /\ CompatibleLength(<<SYN>>, <<0>>)
<1> DEFINE e1 == PayloadRaw("NFT_PAYLOAD_TRANSPORT_HEADER", 13, 1, "Reg1")
           e2 == Bitwise(<<SYN>>, <<0>>)
           e3 == Cmp("Neq", <<0>>)
<1>1. Reads(e1) = {} /\ Writes(e1) = "Reg1" /\ WriteLen(e1) = 1
  BY DEF Reads, Writes, WriteLen, PayloadRaw
<1>2. Len(<<SYN>>) = 1 /\ Len(<<0>>) = 1
  OBVIOUS
<1>3. Writes(e1) = "Reg1" /\ WriteLen(e1) >= Len(<<SYN>>)
  BY <1>1, <1>2
<1>4. Feeds(e1, e2) /\ Writes(e2) = "Reg1" /\ WriteLen(e2) = Len(<<SYN>>)
  BY <1>3, BitwiseFeeds, Zenon
<1>5. Writes(e2) = "Reg1" /\ WriteLen(e2) >= Len(<<0>>)
  BY <1>2, <1>4
<1>6. Feeds(e2, e3)
  BY <1>5, CmpFeeds, Zenon
<1>7. Segment(syn)
  <2>1. syn = <<e1, e2, e3>>
    BY DEF syn
  <2> HIDE DEF e1, e2, e3
  <2> QED BY <2>1, <1>1, <1>4, <1>6, SegmentThree
<1> QED
  BY <1>2, <1>7 DEF CompatibleLength

LEMMA InterfaceSegment ==
  ASSUME NEW k, NEW data, MetaLen(k) >= Len(data)
  PROVE  Segment(<<Meta(k), Cmp("Eq", data)>>)
<1>1. Writes(Meta(k)) = "Reg1" /\ WriteLen(Meta(k)) >= Len(data)
  BY LoadFacts
<1>2. Feeds(Meta(k), Cmp("Eq", data))
  BY <1>1, CmpFeeds, Zenon
<1> QED
  BY <1>2, LoadFacts, SegmentTwo

(* An interface index is 4 bytes, a name that is not refused fits with its *)
(* NUL byte in the 16 that the kernel stores.                              *)
LEMMA InterfaceSegments ==
  /\ \A index : Segment(iface_id(index)) /\ Segment(oface_id(index))
  /\ \A name \in Seq(Byte) : ~InterfaceNameTooLong(name) =>
       Segment(iface(name)) /\ Segment(oface(name))
<1>1. ASSUME NEW index
      PROVE  Segment(iface_id(index)) /\ Segment(oface_id(index))
  <2>1. MetaLen("Iif") >= Len(BE32(index)) /\ MetaLen("Oif") >= Len(BE32(index))
    BY DEF MetaLen, BE32
  <2> QED
    BY <2>1, InterfaceSegment DEF iface_id, oface_id
<1>2. ASSUME NEW name \in Seq(Byte), ~InterfaceNameTooLong(name)
      PROVE  Segment(iface(name)) /\ Segment(oface(name))
  <2>1. Len(name) \in Nat /\ Len(name) < 16
    BY <1>2 DEF InterfaceNameTooLong, IFNAMSIZ
  <2>2. Len(Append(name, 0)) = Len(name) + 1
    BY AppendIs DEF Byte
  <2>3. MetaLen("IifName") = 16 /\ MetaLen("OifName") = 16
    BY DEF MetaLen
  <2>4. MetaLen("IifName") >= Len(Append(name, 0)) /\ MetaLen("OifName") >= Len(Append(name, 0))
    BY <2>1, <2>2, <2>3
  <2> QED
    BY <2>4, InterfaceSegment, Zenon DEF iface, oface
<1> QED
  BY <1>1, <1>2

LEMMA StatementSegments ==
  /\ Segment(accept) /\ Segment(drop) /\ Segment(masquerade)
  /\ \A group, prefix : Segment(<<Log(group, prefix)>>)
<1>1. /\ Reads(ImmediateVerdict("Accept")) = {} /\ Reads(ImmediateVerdict("Drop")) = {}
      /\ Reads(Masquerade) = {}
      /\ \A group, prefix : Reads(Log(group, prefix)) = {}
  BY DEF Reads, ImmediateVerdict, Masquerade, Log
<1> QED
  BY <1>1, SegmentOne DEF accept, drop, masquerade

LEMMA ImmediateFacts ==
  ASSUME NEW data, NEW register, register # "Verdict"
  PROVE  /\ Reads(ImmediateData(data, register)) = {}
         /\ Writes(ImmediateData(data, register)) = register
         /\ WriteLen(ImmediateData(data, register)) = Len(data)
BY DEF Reads, Writes, WriteLen, ImmediateData

(* The statement reads the address from Reg1, which the load of the port   *)
(* between them, into Reg2, leaves alone.                                  *)
LEMMA DnatSegment ==
  ASSUME NEW dst, Octets(dst), NEW port
  PROVE  Segment(dnat(dst, port))
<1> DEFINE e1 == ImmediateData(dst, "Reg1")
           e2 == ImmediateData(BE16(port), "Reg2")
           one == Nat4("Reg1", "none")
           two == Nat4("Reg1", "Reg2")
<1>1. Reads(e1) = {} /\ Writes(e1) = "Reg1" /\ WriteLen(e1) >= 4
  <2>1. Reads(e1) = {} /\ Writes(e1) = "Reg1" /\ WriteLen(e1) = Len(dst)
    BY ImmediateFacts
  <2>2. Len(dst) = 4 \/ Len(dst) = 16
    BY OctetsLen
  <2>3. WriteLen(e1) = 4 \/ WriteLen(e1) = 16
    BY <2>1, <2>2, Zenon
  <2> HIDE DEF e1
  <2>4. WriteLen(e1) >= 4
    BY <2>3
  <2> QED BY <2>1, <2>4
<1>2. Reads(e2) = {} /\ Writes(e2) = "Reg2" /\ WriteLen(e2) >= 2
  <2>1. Len(BE16(port)) = 2
    BY DEF BE16
  <2> QED BY <2>1, ImmediateFacts
<1>3. Reads(one) = {<<"Reg1", 4>>} /\ Reads(two) = {<<"Reg1", 4>>, <<"Reg2", 2>>}
  BY DEF Reads, Nat4
<1>4. dnat(dst, port) = IF port = NoPort THEN <<e1, one>> ELSE <<e1, e2, two>>
  BY DEF dnat
<1> HIDE DEF e1, e2, one, two
<1>5. Segment(<<e1, one>>)
  BY <1>1, <1>3, SegmentTwo DEF Feeds
<1>6. Segment(<<e1, e2, two>>)
  <2> DEFINE s == <<e1, e2, two>>
  <2>1. s \in Seq({e1, e2, two}) /\ Len(s) = 3 /\ s[1] = e1 /\ s[2] = e2 /\ s[3] = two
    OBVIOUS
  <2> HIDE DEF s
  <2>2. FedAt(s, 3, "Reg1", 4)
    BY <2>1, <1>1, <1>2 DEF FedAt
  <2>3. FedAt(s, 3, "Reg2", 2)
    BY <2>1, <1>2 DEF FedAt
  <2>4. Reads(s[1]) = {} /\ Reads(s[2]) = {}
    BY <2>1, <1>1, <1>2
  <2>5. \A r \in Reads(s[3]) : FedAt(s, 3, r[1], r[2])
    BY <2>1, <2>2, <2>3, <1>3
  <2>6. Fed(s)
    BY <2>1, <2>4, <2>5 DEF Fed
  <2> QED
    BY <2>1, <2>6, Zenon DEF Segment, s
<1> QED
  BY <1>4, <1>5, <1>6

LEMMA MssSegments ==
  /\ \A mss : Segment(set_mss(mss))
  /\ Segment(clamp_mss_to_pmtu)
<1> DEFINE opt == ExtHdrTCPOpt("Reg1", 2, 2, 2)
           rt == Rt("TCPMSS", "Reg1")
           order == ByteorderHtoN("Reg1", "Reg1", 2, 2)
<1>1. Reads(opt) = {<<"Reg1", 2>>}
  BY DEF Reads, ExtHdrTCPOpt
<1>2. Reads(rt) = {} /\ Writes(rt) = "Reg1" /\ WriteLen(rt) = 2
  BY DEF Reads, Writes, WriteLen, Rt
<1>3. Reads(order) = {<<"Reg1", 2>>} /\ Writes(order) = "Reg1" /\ WriteLen(order) = 2
  BY DEF Reads, Writes, WriteLen, ByteorderHtoN
<1>4. clamp_mss_to_pmtu = <<rt, order, opt>>
  BY DEF clamp_mss_to_pmtu
<1>5. \A mss : set_mss(mss) = <<ImmediateData(BE16(mss), "Reg1"), opt>>
  BY DEF set_mss
<1> HIDE DEF opt, rt, order
<1>6. Segment(<<rt, order, opt>>)
  BY <1>1, <1>2, <1>3, SegmentThree DEF Feeds
<1>7. ASSUME NEW mss PROVE Segment(set_mss(mss))
  <2> DEFINE e1 == ImmediateData(BE16(mss), "Reg1")
  <2>1. Len(BE16(mss)) = 2
    BY DEF BE16
  <2>2. Reads(e1) = {} /\ Writes(e1) = "Reg1" /\ WriteLen(e1) = 2
    BY <2>1, ImmediateFacts, Zenon
  <2> HIDE DEF e1
  <2>3. Segment(<<e1, opt>>)
    BY <2>2, <1>1, SegmentTwo DEF Feeds
  <2> QED
    BY <2>3, <1>5 DEF e1
<1> QED
  BY <1>4, <1>6, <1>7

-----------------------------------------------------------------------------
(* The rule under construction.                                            *)

(* The inductive invariant: what has been appended so far is Fed, and no   *)
(* call has failed on the operands of a Bitwise.                           *)
IInv == Segment(rule) /\ NoLengthMismatch

LEMMA AddKeeps ==
  ASSUME IInv, NEW call, NEW exprs, Segment(exprs), Add(call, exprs)
  PROVE  IInv'
<1>1. Segment(rule \o exprs)
  BY SegmentConcat DEF IInv
<1>2. rule' = rule \o exprs /\ outcome' = outcome
  BY DEF Add
<1>3. Segment(rule')
  BY <1>1, <1>2, Zenon
<1> QED
  BY <1>2, <1>3 DEF IInv, NoLengthMismatch

LEMMA TryKeeps ==
  ASSUME IInv, NEW failed, NEW error, NEW call, NEW exprs,
         ~failed => Segment(exprs), failed => error # "IncompatibleLength",
         Try(failed, error, call, exprs)
  PROVE  IInv'
<1>1. CASE ~failed /\ Add(call, exprs)
  BY <1>1, AddKeeps
<1>2. CASE failed /\ outcome' = error /\ UNCHANGED <<rule, calls>>
  BY <1>2 DEF IInv, NoLengthMismatch
<1> QED
  BY <1>1, <1>2 DEF Try

LEMMA InitIInv == Init => IInv
<1> SUFFICES ASSUME Init PROVE IInv
  OBVIOUS
<1>1. << >> \in Seq({}) /\ Len(<< >>) = 0
  OBVIOUS
<1>2. Fed(<< >>)
  BY <1>1 DEF Fed
<1> QED
  BY <1>1, <1>2 DEF Init, IInv, Segment, NoLengthMismatch

LEMMA NextIInv ==
  ASSUME IInv, [Next]_vars
  PROVE  IInv'
<1>1. CASE UNCHANGED vars
  BY <1>1 DEF IInv, vars, NoLengthMismatch
<1>2. CASE \E chain \in Chains : New(chain)
  BY <1>2 DEF IInv, New, NoLengthMismatch
<1>3. CASE Icmp \/ Icmpv6 \/ Igmp
  BY <1>3, AddKeeps, L4ProtoSegment DEF Icmp, Icmpv6, Igmp, icmp, icmpv6, igmp
<1>4. CASE Ip6in4
  BY <1>4, AddKeeps, Ip6in4Segment DEF Ip6in4
<1>5. CASE Established
  BY <1>5, TryKeeps, EstablishedSegment, Zenon DEF Established
<1>6. CASE \E proto \in Protocols : Protocol(proto)
  BY <1>6, AddKeeps, L4ProtoSegment DEF Protocol, protocol
<1>7. CASE \E port \in Ports, proto \in Protocols : Sport(port, proto) \/ Dport(port, proto)
  BY <1>7, AddKeeps, PortSegment, Zenon DEF Sport, Dport, sport, dport
<1>8. CASE \E index \in Indexes : IfaceId(index) \/ OfaceId(index)
  BY <1>8, AddKeeps, InterfaceSegments DEF IfaceId, OfaceId
<1>9. CASE \E name \in Names : Iface(name) \/ Oface(name)
  <2>1. PICK name \in Names : Iface(name) \/ Oface(name)
    BY <1>9
  <2>2. name \in Seq(Byte)
    BY ParametersAssumption
  <2> QED
    BY <2>1, <2>2, TryKeeps, InterfaceSegments DEF Iface, Oface
<1>10. CASE \E ip \in Ips : Saddr(ip) \/ Daddr(ip)
  <2>1. PICK ip \in Ips : Saddr(ip) \/ Daddr(ip)
    BY <1>10
  <2>2. Octets(ip)
    BY ParametersAssumption DEF Octets
  <2> QED
    BY <2>1, <2>2, AddKeeps, IpSegment, ZenonT(30) DEF Saddr, Daddr, saddr, daddr
<1>11. CASE \E net \in Nets : Snetwork(net) \/ Dnetwork(net)
  <2>1. PICK net \in Nets : Snetwork(net) \/ Dnetwork(net)
    BY <1>11
  <2>2. Octets(net.ip)
    BY ParametersAssumption DEF Octets
  <2>3. CompatibleLength(mask(net), no_xor(net))
    BY <2>2, NetworkFacts
  <2>4. Segment(snetwork(net)) /\ Segment(dnetwork(net))
    BY <2>2, NetworkSegment, Zenon DEF snetwork, dnetwork
  <2> QED
    BY <2>1, <2>3, <2>4, TryKeeps, ZenonT(30) DEF Snetwork, Dnetwork
<1>12. CASE Accept \/ Drop \/ Masq
  BY <1>12, AddKeeps, StatementSegments DEF Accept, Drop, Masq
<1>13. CASE \E dst \in Ips, port \in Ports \cup {NoPort} : Dnat(dst, port)
  <2>1. PICK dst \in Ips, port \in Ports \cup {NoPort} : Dnat(dst, port)
    BY <1>13
  <2>2. Octets(dst)
    BY ParametersAssumption DEF Octets
  <2> QED
    BY <2>1, <2>2, AddKeeps, DnatSegment DEF Dnat
<1>14. CASE \E mss \in Sizes : SetMss(mss)
  BY <1>14, AddKeeps, MssSegments DEF SetMss
<1>15. CASE ClampMssToPmtu
  BY <1>15, AddKeeps, MssSegments DEF ClampMssToPmtu
<1>16. CASE Syn
  BY <1>16, TryKeeps, SynSegment, Zenon DEF Syn
<1>17. CASE \E prefix \in LogPrefixes : WithLog(prefix)
  BY <1>17, TryKeeps, StatementSegments DEF WithLog
<1> QED
  BY <1>1, <1>2, <1>3, <1>4, <1>5, <1>6, <1>7, <1>8, <1>9, <1>10, <1>11, <1>12, <1>13, <1>14,
     <1>15, <1>16, <1>17, SMTT(30) DEF Next

(* Whatever methods of rule_methods.rs are called, with whatever arguments *)
(* and in whatever order, no expression of the rule reads a register byte  *)
(* that an earlier expression of the same rule has not written.            *)
THEOREM RuleRegistersFed == Spec => []RegistersFed
<1>1. IInv => RegistersFed
  BY DEF IInv, Segment, RegistersFed
<1> QED
  BY <1>1, InitIInv, NextIInv, PTL DEF Spec

(* The error of Bitwise::new that established, syn, snetwork and dnetwork  *)
(* pass on never occurs, for any network of either family.                 *)
THEOREM RuleNoLengthMismatch == Spec => []NoLengthMismatch
<1>1. IInv => NoLengthMismatch
  BY DEF IInv
<1> QED
  BY <1>1, InitIInv, NextIInv, PTL DEF Spec

=============================================================================
