----------------------- MODULE ObjectProperties_proofs -----------------------
(***************************************************************************)
(* What the answers tell of an object is so for every database: a dataset  *)
(* is read back part by part, a string character by character, and the     *)
(* name that was given to an object stays with it.                         *)
(***************************************************************************)
EXTENDS ObjectProperties, FiniteSetTheorems, WellFoundedInduction, TLAPS

-----------------------------------------------------------------------------
(* Parts of a sequence.                                                    *)

\* A set of naturals that is not empty has a least member.
LEMMA LeastNatural ==
    ASSUME NEW T \in SUBSET Nat, T # {}
    PROVE  \E m \in T : \A k \in T : m <= k
<1>1. \E x \in T : \A y \in T : ~(<<y, x>> \in OpToRel(<, Nat))
  BY NatLessThanWellFounded, WFMin
<1>2. PICK x \in T : \A y \in T : ~(<<y, x>> \in OpToRel(<, Nat))
  BY <1>1
<1>3. \A y \in T : ~(y < x)
  BY <1>2 DEF OpToRel
<1> QED BY <1>3

\* part stands in s from position p on.
Holds(s, p, part) ==
    /\ p \in Nat \ {0} /\ p + Len(part) - 1 <= Len(s)
    /\ \A k \in 1 .. Len(part) : s[p + k - 1] = part[k]

\* A sequence stands in itself.
LEMMA HoldsAll ==
    ASSUME NEW S, NEW s \in Seq(S)
    PROVE  Holds(s, 1, s)
<1>1. Len(s) \in Nat
  OBVIOUS
<1> QED BY <1>1 DEF Holds

\* Two parts that stand together stand one behind the other.
LEMMA HoldsBoth ==
    ASSUME NEW S, NEW a \in Seq(S), NEW b \in Seq(S), NEW s \in Seq(S), NEW p, Holds(s, p, a \o b)
    PROVE  Holds(s, p, a) /\ Holds(s, p + Len(a), b)
<1>1. /\ p \in Nat \ {0} /\ p + Len(a \o b) - 1 <= Len(s)
      /\ \A k \in 1 .. Len(a \o b) : s[p + k - 1] = (a \o b)[k]
  BY DEF Holds
<1>2. Len(a) \in Nat /\ Len(b) \in Nat /\ Len(s) \in Nat /\ Len(a \o b) = Len(a) + Len(b)
  OBVIOUS
<1>3. \A k \in 1 .. Len(a) : k \in 1 .. Len(a \o b) /\ (a \o b)[k] = a[k]
  OBVIOUS
<1>4. \A k \in 1 .. Len(b) : Len(a) + k \in 1 .. Len(a \o b) /\ (a \o b)[Len(a) + k] = b[k]
  OBVIOUS
<1>5. Holds(s, p, a)
  BY <1>1, <1>2, <1>3 DEF Holds
<1>6. Holds(s, p + Len(a), b)
  <2>1. ASSUME NEW k \in 1 .. Len(b) PROVE s[p + Len(a) + k - 1] = b[k]
    <3>1. s[p + (Len(a) + k) - 1] = b[k]
      BY <1>1, <1>4
    <3>2. p + (Len(a) + k) - 1 = p + Len(a) + k - 1
      BY <1>1, <1>2
    <3> QED BY <3>1, <3>2
  <2>2. p + Len(a) \in Nat \ {0} /\ p + Len(a) + Len(b) - 1 <= Len(s)
    BY <1>1, <1>2
  <2> QED BY ONLY <2>1, <2>2 DEF Holds
<1> QED BY <1>5, <1>6

-----------------------------------------------------------------------------
(* Sequences that are joined.                                              *)

\* f[i] joins the first i of n sequences.
Joins(f, s, n) == f = [i \in 1 .. n |-> IF i = 1 THEN s[i] ELSE f[i - 1] \o s[i]]

\* The joins of n sequences exist.
LEMMA JoinsExist ==
    ASSUME NEW s, NEW n \in Nat
    PROVE  \E f : Joins(f, s, n)
<1> DEFINE Fails == {m \in Nat : ~ \E f : Joins(f, s, m)}
<1> SUFFICES ASSUME Fails # {} PROVE FALSE
  OBVIOUS
<1>1. PICK m \in Fails : \A k \in Fails : m <= k
  BY LeastNatural
<1>2. m # 0
  <2> DEFINE f == [i \in 1 .. 0 |-> 0]
  <2>1. f = [i \in 1 .. 0 |-> IF i = 1 THEN s[i] ELSE f[i - 1] \o s[i]]
    OBVIOUS
  <2>2. Joins(f, s, 0)
    BY <2>1 DEF Joins
  <2> QED BY <2>2
<1>3. PICK f : Joins(f, s, m - 1)
  <2>1. m - 1 \in Nat /\ ~(m <= m - 1)
    BY <1>2
  <2> QED BY <1>1, <2>1
<1> DEFINE g == [i \in 1 .. m |-> IF i = m THEN IF m = 1 THEN s[m] ELSE f[m - 1] \o s[m] ELSE f[i]]
<1>4. g = [i \in 1 .. m |-> IF i = 1 THEN s[i] ELSE g[i - 1] \o s[i]]
  <2>1. ASSUME NEW i \in 1 .. m
        PROVE  g[i] = IF i = 1 THEN s[i] ELSE g[i - 1] \o s[i]
    <3>1. CASE i = m
      BY <1>2, <3>1
    <3>2. CASE i # m
      <4>1. i \in 1 .. m - 1 /\ g[i] = f[i] /\ (i # 1 => i - 1 \in 1 .. m /\ i - 1 # m)
        BY <1>2, <3>2
      <4>2. f[i] = IF i = 1 THEN s[i] ELSE f[i - 1] \o s[i]
        BY <1>3, <4>1 DEF Joins
      <4>3. i # 1 => g[i - 1] = f[i - 1]
        BY <4>1
      <4> QED BY <4>1, <4>2, <4>3
    <3> QED BY <3>1, <3>2
  <2> HIDE DEF g
  <2>2. DOMAIN g = 1 .. m /\ g = [i \in 1 .. m |-> g[i]]
    BY DEF g
  <2> QED BY <2>1, <2>2
<1>5. Joins(g, s, m)
  <2> HIDE DEF g
  <2> QED BY <1>4 DEF Joins
<1> QED BY <1>5

\* The last of the joins is the whole.
LEMMA FlattenIs ==
    ASSUME NEW s, Len(s) # 0, Len(s) \in Nat
    PROVE  \E f : Joins(f, s, Len(s)) /\ FlattenSeq(s) = f[Len(s)]
<1> DEFINE F == CHOOSE f : f = [i \in 1 .. Len(s) |-> IF i = 1 THEN s[i] ELSE f[i - 1] \o s[i]]
<1>1. FlattenSeq(s) = F[Len(s)]
  BY DEF FlattenSeq
<1>2. F = [i \in 1 .. Len(s) |-> IF i = 1 THEN s[i] ELSE F[i - 1] \o s[i]]
  BY JoinsExist DEF Joins
<1> HIDE DEF F
<1> QED BY <1>1, <1>2 DEF Joins

\* whole is the sequences of s one behind the other, the i-th from at[i] on.
Joined(whole, s, at) ==
    /\ at \in [1 .. Len(s) + 1 -> Nat \ {0}]
    /\ at[1] = 1 /\ at[Len(s) + 1] = Len(whole) + 1
    /\ \A i \in 1 .. Len(s) : at[i + 1] = at[i] + Len(s[i]) /\ Holds(whole, at[i], s[i])

\* What stands in a sequence stands there in a longer one.
LEMMA HoldsOn ==
    ASSUME NEW S, NEW a \in Seq(S), NEW b \in Seq(S), NEW part \in Seq(S), NEW p, Holds(a, p, part)
    PROVE  Holds(a \o b, p, part)
<1>1. p \in Nat \ {0} /\ p + Len(part) - 1 <= Len(a) /\ \A k \in 1 .. Len(part) : a[p + k - 1] = part[k]
  BY DEF Holds
<1>2. Len(a) \in Nat /\ Len(b) \in Nat /\ Len(part) \in Nat /\ Len(a \o b) = Len(a) + Len(b)
  OBVIOUS
<1>3. \A i \in 1 .. Len(a) : (a \o b)[i] = a[i]
  OBVIOUS
<1>4. ASSUME NEW k \in 1 .. Len(part) PROVE (a \o b)[p + k - 1] = part[k]
  <2>1. p + k - 1 \in 1 .. Len(a)
    BY <1>1, <1>2
  <2> QED BY <1>1, <1>3, <2>1
<1>5. p + Len(part) - 1 <= Len(a \o b)
  BY <1>1, <1>2
<1> QED BY ONLY <1>1, <1>4, <1>5 DEF Holds

\* The second of two sequences stands behind the first.
LEMMA HoldsSecond ==
    ASSUME NEW S, NEW a \in Seq(S), NEW b \in Seq(S)
    PROVE  Holds(a \o b, Len(a) + 1, b)
<1>1. a \o b \in Seq(S) /\ 1 + Len(a) = Len(a) + 1
  OBVIOUS
<1>2. Holds(a \o b, 1, a \o b)
  BY <1>1, HoldsAll
<1>3. Holds(a \o b, 1 + Len(a), b)
  BY <1>1, <1>2, HoldsBoth
<1> QED BY <1>1, <1>3

\* FlattenSeq joins its sequences.
LEMMA FlattenParts ==
    ASSUME NEW S, NEW s \in Seq(Seq(S))
    PROVE  FlattenSeq(s) \in Seq(S) /\ \E at : Joined(FlattenSeq(s), s, at)
<1>0. Len(s) \in Nat /\ \A i \in 1 .. Len(s) : s[i] \in Seq(S)
  OBVIOUS
<1>1. CASE s = << >>
  <2>1. FlattenSeq(s) = << >>
    BY <1>1 DEF FlattenSeq
  <2>2. Joined(<< >>, s, [i \in 1 .. 1 |-> 1])
    BY <1>1 DEF Joined
  <2> QED BY <2>1, <2>2
<1>2. CASE s # << >>
  <2>0. Len(s) # 0 /\ 1 \in 1 .. Len(s) /\ Len(s) \in 1 .. Len(s)
    BY <1>0, <1>2
  <2>1. PICK f : Joins(f, s, Len(s)) /\ FlattenSeq(s) = f[Len(s)]
    BY <1>0, <2>0, FlattenIs
  <2>2. \A i \in 1 .. Len(s) : f[i] = IF i = 1 THEN s[i] ELSE f[i - 1] \o s[i]
    <3>1. f = [i \in 1 .. Len(s) |-> IF i = 1 THEN s[i] ELSE f[i - 1] \o s[i]]
      BY <2>1 DEF Joins
    <3> QED BY <3>1
  <2> DEFINE at == [i \in 1 .. Len(s) + 1 |-> IF i = 1 THEN 1 ELSE Len(f[i - 1]) + 1]
             Good(i) == f[i] \in Seq(S) /\ \A j \in 1 .. i : Holds(f[i], at[j], s[j])
             Wrong == {i \in 1 .. Len(s) : ~Good(i)}
  <2>3. Wrong = {}
    <3> SUFFICES ASSUME Wrong # {} PROVE FALSE
      OBVIOUS
    <3>1. PICK i \in Wrong : \A k \in Wrong : i <= k
      <4>1. Wrong \in SUBSET Nat
        BY <1>0
      <4> QED BY <4>1, LeastNatural
    <3>2. i \in 1 .. Len(s) /\ ~Good(i)
      BY <3>1
    <3>3. i # 1
      <4> SUFFICES ASSUME i = 1 PROVE FALSE
        OBVIOUS
      <4>1. f[i] = s[i] /\ s[i] \in Seq(S) /\ at[1] = 1
        BY <1>0, <2>2, <3>2
      <4>2. Holds(s[i], 1, s[i])
        BY <4>1, HoldsAll
      <4>3. \A j \in 1 .. i : j = 1
        OBVIOUS
      <4> QED BY <3>2, <4>1, <4>2, <4>3
    <3>4. i - 1 \in 1 .. Len(s) /\ Good(i - 1)
      <4>1. i - 1 \in 1 .. Len(s) /\ ~(i <= i - 1)
        BY <1>0, <3>2, <3>3
      <4> QED BY <3>1, <4>1
    <3>5. f[i] = f[i - 1] \o s[i] /\ s[i] \in Seq(S) /\ f[i - 1] \in Seq(S)
      BY <1>0, <2>2, <3>2, <3>3, <3>4
    <3>6. at[i] = Len(f[i - 1]) + 1
      BY <1>0, <3>2, <3>3
    <3>7. ASSUME NEW j \in 1 .. i PROVE Holds(f[i], at[j], s[j])
      <4>1. CASE j = i
        <5>1. Holds(f[i - 1] \o s[i], Len(f[i - 1]) + 1, s[i])
          BY ONLY <3>5, HoldsSecond
        <5> QED BY <3>5, <3>6, <4>1, <5>1
      <4>2. CASE j # i
        <5>1. j \in 1 .. i - 1 /\ j \in 1 .. Len(s)
          BY <1>0, <3>2, <4>2
        <5>2. Holds(f[i - 1], at[j], s[j]) /\ s[j] \in Seq(S)
          BY <1>0, <3>4, <5>1
        <5> HIDE DEF at
        <5>3. Holds(f[i - 1] \o s[i], at[j], s[j])
          BY ONLY <3>5, <5>2, HoldsOn
        <5> QED BY <3>5, <5>3
      <4> QED BY <4>1, <4>2
    <3>8. f[i] \in Seq(S)
      BY <3>5
    <3> QED BY <3>2, <3>7, <3>8
  <2>4. ASSUME NEW i \in 1 .. Len(s) PROVE Good(i)
    BY <2>3
  <2> HIDE DEF Wrong
  <2>5. f[Len(s)] \in Seq(S) /\ \A j \in 1 .. Len(s) : Holds(f[Len(s)], at[j], s[j])
    BY <2>0, <2>4
  <2>6. \A i \in 1 .. Len(s) : f[i] \in Seq(S) /\ Len(f[i]) \in Nat
    BY <2>4
  <2>7. at \in [1 .. Len(s) + 1 -> Nat \ {0}]
    <3>1. ASSUME NEW i \in 1 .. Len(s) + 1 PROVE at[i] \in Nat \ {0}
      <4>1. CASE i = 1
        BY <4>1
      <4>2. CASE i # 1
        <5>1. i - 1 \in 1 .. Len(s)
          BY <1>0, <4>2
        <5> QED BY <2>6, <4>2, <5>1
      <4> QED BY <4>1, <4>2
    <3> QED BY <3>1
  <2>8. at[1] = 1 /\ at[Len(s) + 1] = Len(f[Len(s)]) + 1
    BY <1>0, <2>0
  <2>9. ASSUME NEW i \in 1 .. Len(s) PROVE at[i + 1] = at[i] + Len(s[i])
    <3>1. i + 1 \in 1 .. Len(s) + 1 /\ i + 1 # 1 /\ (i + 1) - 1 = i
      BY <1>0
    <3>2. at[i + 1] = Len(f[i]) + 1
      BY <3>1
    <3>3. CASE i = 1
      <4>1. f[i] = s[i] /\ s[i] \in Seq(S) /\ at[i] = 1
        BY <1>0, <2>2, <2>8, <3>3
      <4>2. Len(s[i]) \in Nat
        BY <4>1
      <4> HIDE DEF at
      <4> QED BY ONLY <3>2, <4>1, <4>2
    <3>4. CASE i # 1
      <4>1. i - 1 \in 1 .. Len(s) /\ at[i] = Len(f[i - 1]) + 1
        BY <1>0, <3>4
      <4>2. f[i] = f[i - 1] \o s[i] /\ f[i - 1] \in Seq(S) /\ s[i] \in Seq(S)
        BY <1>0, <2>2, <2>6, <3>4, <4>1
      <4>3. \A a, b \in Seq(S) : Len(a \o b) + 1 = (Len(a) + 1) + Len(b)
        OBVIOUS
      <4>4. Len(f[i - 1] \o s[i]) + 1 = (Len(f[i - 1]) + 1) + Len(s[i])
        BY <4>2, <4>3
      <4> HIDE DEF at
      <4> QED BY ONLY <3>2, <4>1, <4>2, <4>4
    <3> QED BY <3>3, <3>4
  <2> HIDE DEF at
  <2>10. Joined(f[Len(s)], s, at)
    BY ONLY <2>5, <2>7, <2>8, <2>9 DEF Joined
  <2> QED BY <2>1, <2>5, <2>10
<1> QED BY <1>1, <1>2

-----------------------------------------------------------------------------
(* Strings.                                                                *)

\* The characters a host can be told.
Told == One \cup Two \cup Three

\* Bytes of a character, and a byte's character and position.
Byte == (Told \cup Four) \X (1 .. 4)

\* How name stands in a dataset.
Wire(name) ==
    IF name = << >> THEN <<[width |-> 1, value |-> 0]>>
    ELSE <<[width |-> 1, value |-> Len(name) + 1]>>
         \o [n \in 1 .. Len(name) |-> [width |-> 2, value |-> name[n]]]
         \o <<[width |-> 2, value |-> NUL]>>

\* The bytes of a name that can be told.
BytesOf(c) == [k \in 1 .. Size(c) |-> <<c, k>>]

LEMMA SizeLemma ==
    ASSUME NEW c \in Told \cup {NUL}
    PROVE  /\ c \notin Four /\ c \in Nat /\ c # Junk
           /\ Size(c) = IF c \in Two THEN 2 ELSE IF c \in Three THEN 3 ELSE 1
           /\ c \in One \cup {NUL} => Size(c) = 1
           /\ BytesOf(c) \in Seq((Told \cup {NUL}) \X (1 .. 4)) /\ Len(BytesOf(c)) = Size(c)
<1>1. /\ c \notin Four /\ c \in Nat /\ c # Junk
      /\ Size(c) = IF c \in Two THEN 2 ELSE IF c \in Three THEN 3 ELSE 1
      /\ c \in One \cup {NUL} => Size(c) = 1
  BY CharAssumption DEF Told, Size, NUL
<1>2. Size(c) \in 1 .. 4
  BY <1>1
<1>3. \A k \in 1 .. Size(c) : <<c, k>> \in (Told \cup {NUL}) \X (1 .. 4)
  BY <1>2
<1>4. BytesOf(c) \in Seq((Told \cup {NUL}) \X (1 .. 4)) /\ Len(BytesOf(c)) = Size(c)
  BY <1>2, <1>3 DEF BytesOf
<1> QED BY <1>1, <1>4

\* The bytes of one character.
LEMMA OneCharacter ==
    ASSUME NEW c \in Told \cup {NUL}
    PROVE  UTF8(<<c>>) = BytesOf(c)
<1> DEFINE s == [i \in DOMAIN <<c>> |-> [k \in 1 .. Size(<<c>>[i]) |-> << <<c>>[i], k>>]]
<1>1. s = <<BytesOf(c)>>
  <2>1. DOMAIN <<c>> = 1 .. 1 /\ <<c>>[1] = c
    OBVIOUS
  <2>2. s = [i \in 1 .. 1 |-> BytesOf(c)]
    BY <2>1 DEF BytesOf
  <2>3. <<BytesOf(c)>> = [i \in 1 .. 1 |-> BytesOf(c)]
    OBVIOUS
  <2> QED BY <2>2, <2>3
<1>2. UTF8(<<c>>) = FlattenSeq(<<BytesOf(c)>>)
  BY <1>1 DEF UTF8
<1>3. PICK f : Joins(f, <<BytesOf(c)>>, 1) /\ FlattenSeq(<<BytesOf(c)>>) = f[1]
  <2> DEFINE t == <<BytesOf(c)>>
  <2>1. Len(t) = 1 /\ Len(t) # 0 /\ Len(t) \in Nat
    OBVIOUS
  <2> HIDE DEF t
  <2>2. \E f : Joins(f, t, Len(t)) /\ FlattenSeq(t) = f[Len(t)]
    BY <2>1, FlattenIs
  <2>3. \E f : Joins(f, t, 1) /\ FlattenSeq(t) = f[1]
    BY <2>1, <2>2
  <2> QED BY <2>3 DEF t
<1>4. f[1] = <<BytesOf(c)>>[1]
  <2>1. f = [i \in 1 .. 1 |-> IF i = 1 THEN <<BytesOf(c)>>[i] ELSE f[i - 1] \o <<BytesOf(c)>>[i]]
    BY <1>3 DEF Joins
  <2> QED BY <2>1
<1> QED BY <1>2, <1>3, <1>4

\* They are decoded to the character again.
LEMMA DecodeLemma ==
    ASSUME NEW c \in Told
    PROVE  Decode(BytesOf(c)) = c
<1>1. UTF8(<<c>>) = BytesOf(c)
  BY OneCharacter
<1>2. BytesOf(c)[1][1] = c
  <2>1. Size(c) \in 1 .. 4
    BY SizeLemma
  <2> QED BY <2>1 DEF BytesOf
<1>3. c \in Unit
  BY DEF Unit, Told
<1> QED BY <1>1, <1>2, <1>3 DEF Decode

\* Where the bytes of a character stand they are taken together.
LEMMA BytesAtLemma ==
    ASSUME NEW string, NEW p, NEW c \in Told, Len(string.mBuffer) \in Nat, Holds(string.mBuffer, p, BytesOf(c))
    PROVE  BytesAt(string, p) = BytesOf(c)
<1>1. Len(BytesOf(c)) = Size(c) /\ Size(c) \in 1 .. 4
  BY SizeLemma
<1>2. p \in Nat \ {0} /\ p + Size(c) - 1 <= Len(string.mBuffer)
      /\ \A k \in 1 .. Size(c) : string.mBuffer[p + k - 1] = <<c, k>>
  BY <1>1 DEF Holds, BytesOf
<1>3. \A k \in 1 .. Size(c) : ByteAt(string, p + k - 1) = <<c, k>>
  <2>1. \A k \in 1 .. Size(c) : p + k - 1 <= Len(string.mBuffer)
    BY <1>1, <1>2
  <2> QED BY <1>2, <2>1 DEF ByteAt
<1>4. ByteAt(string, p) = <<c, 1>>
  <2>1. 1 \in 1 .. Size(c) /\ p + 1 - 1 = p
    BY <1>1, <1>2
  <2> QED BY <1>3, <2>1
<1> DEFINE n == IF c \in One \cup {NUL} THEN 1 ELSE IF c \in Two /\ 1 = 1 THEN 2 ELSE 3
<1>5. n = Size(c)
  BY SizeLemma, CharAssumption DEF Told
<1>6. BytesAt(string, p) = [k \in 1 .. n |-> ByteAt(string, p + k - 1)]
  BY <1>4 DEF BytesAt
<1> QED BY <1>3, <1>5, <1>6 DEF BytesOf

\* Counted characters begin where the bytes of the name's do.
LEMMA StartsLemma ==
    ASSUME NEW string, NEW at, string.mCharCount \in Nat,
           \A n \in 1 .. string.mCharCount : n # 1 => at[n] = at[n - 1] + Len(BytesAt(string, at[n - 1])),
           at[1] = 1
    PROVE  \A n \in 1 .. string.mCharCount : Starts(string)[n] = at[n]
<1> DEFINE N == string.mCharCount
           Is(f) == f = [n \in 1 .. N |-> IF n = 1 THEN 1 ELSE f[n - 1] + Len(BytesAt(string, f[n - 1]))]
           F == CHOOSE f : Is(f)
           w == [n \in 1 .. N |-> at[n]]
<1>1. Starts(string) = F
  BY DEF Starts
<1>2. Is(w)
  <2>1. ASSUME NEW n \in 1 .. N
        PROVE  w[n] = IF n = 1 THEN 1 ELSE w[n - 1] + Len(BytesAt(string, w[n - 1]))
    <3>1. CASE n = 1
      BY <3>1
    <3>2. CASE n # 1
      <4>1. n - 1 \in 1 .. N
        BY <3>2
      <4>2. w[n] = at[n] /\ w[n - 1] = at[n - 1]
        BY <4>1
      <4> QED BY <3>2, <4>2
    <3> QED BY <3>1, <3>2
  <2>2. w = [n \in 1 .. N |-> w[n]]
    OBVIOUS
  <2> HIDE DEF w
  <2> QED BY <2>1, <2>2
<1>3. Is(F)
  BY <1>2
<1>4. \A n \in 1 .. N : F[n] = IF n = 1 THEN 1 ELSE F[n - 1] + Len(BytesAt(string, F[n - 1]))
  <2> HIDE DEF F
  <2> QED BY <1>3
<1> DEFINE Differ == {n \in 1 .. N : F[n] # at[n]}
<1>5. Differ = {}
  <2> SUFFICES ASSUME Differ # {} PROVE FALSE
    OBVIOUS
  <2> HIDE DEF F
  <2>1. PICK n \in Differ : \A k \in Differ : n <= k
    <3>1. Differ \in SUBSET Nat
      OBVIOUS
    <3> QED BY <3>1, LeastNatural
  <2>2. n \in 1 .. N /\ F[n] # at[n]
    BY <2>1
  <2>3. n # 1
    BY <1>4, <2>2
  <2>4. n - 1 \in 1 .. N /\ F[n - 1] = at[n - 1]
    <3>1. n - 1 \in 1 .. N /\ ~(n <= n - 1)
      BY <2>2, <2>3
    <3> QED BY <2>1, <3>1
  <2> QED BY <1>4, <2>2, <2>3, <2>4
<1> QED BY <1>1, <1>5

\* A name is written as it is.
LEMMA WriteLemma ==
    ASSUME NEW name \in Seq(Told), Len(name) < MaxCount
    PROVE  putString(name) = Wire(name)
<1> DEFINE s == [i \in DOMAIN name |-> [k \in 1 .. Size(name[i]) |-> <<name[i], k>>]]
           string == set(name)
<1>1. Len(name) \in Nat /\ DOMAIN name = 1 .. Len(name) /\ \A i \in 1 .. Len(name) : name[i] \in Told
  OBVIOUS
<1>2. string.mCharCount = Len(name) /\ string.mBuffer = UTF8(name)
  <2>1. {i \in DOMAIN name : name[i] \in Four} = {}
    BY <1>1, SizeLemma
  <2>2. Cardinality({i \in DOMAIN name : name[i] \in Four}) = 0
    BY <2>1, FS_EmptySet
  <2> QED BY <1>1, <2>2 DEF set
<1>3. Len(s) = Len(name) /\ \A i \in 1 .. Len(name) : s[i] = BytesOf(name[i])
  BY <1>1 DEF BytesOf
<1> DEFINE Bytes == (Told \cup {NUL}) \X (1 .. 4)
<1>4. s \in Seq(Seq(Bytes))
  <2>1. \A i \in 1 .. Len(name) : s[i] \in Seq(Bytes)
    BY <1>1, <1>3, SizeLemma
  <2> HIDE DEF Bytes
  <2> QED BY <1>1, <2>1
<1>5. UTF8(name) = FlattenSeq(s)
  BY DEF UTF8
<1> HIDE DEF s, string, Bytes
<1>6. PICK at : Joined(UTF8(name), s, at) /\ UTF8(name) \in Seq(Bytes)
  BY <1>4, <1>5, FlattenParts
<1>7. \A n \in 1 .. Len(name) : BytesAt(string, at[n]) = BytesOf(name[n])
  <2>1. Len(UTF8(name)) \in Nat
    BY <1>6
  <2>2. \A n \in 1 .. Len(name) : Holds(UTF8(name), at[n], BytesOf(name[n])) /\ name[n] \in Told
    BY <1>1, <1>3, <1>6 DEF Joined
  <2> QED BY <1>2, <2>1, <2>2, BytesAtLemma
<1>8. \A n \in 1 .. Len(name) : Starts(string)[n] = at[n]
  <2>1. ASSUME NEW n \in 1 .. Len(name), n # 1
        PROVE  at[n] = at[n - 1] + Len(BytesAt(string, at[n - 1]))
    <3>1. n - 1 \in 1 .. Len(name) /\ (n - 1) + 1 = n
      BY <1>1, <2>1
    <3>2. at[n] = at[n - 1] + Len(s[n - 1])
      BY <1>3, <1>6, <3>1 DEF Joined
    <3> QED BY <1>3, <1>7, <3>1, <3>2
  <2>2. at[1] = 1
    BY <1>6 DEF Joined
  <2> QED BY <1>1, <1>2, <2>1, <2>2, StartsLemma
<1>9. \A n \in 1 .. Len(name) : Decode(BytesAt(string, Starts(string)[n])) = name[n]
  BY <1>1, <1>7, <1>8, DecodeLemma
<1>10. CASE name = << >>
  BY <1>2, <1>10, WidthAssumption DEF string, putString, writeToPacket, Wire, putUInt8
<1>11. CASE name # << >>
  <2>1. Len(name) # 0 /\ (Len(name) + 1) % (MaxCount + 1) = Len(name) + 1
    BY <1>1, <1>11, WidthAssumption
  <2>2. [n \in 1 .. Len(name) |-> putUInt16(Decode(BytesAt(string, Starts(string)[n])))[1]]
           = [n \in 1 .. Len(name) |-> [width |-> 2, value |-> name[n]]]
    BY <1>9 DEF putUInt16
  <2> QED BY <1>2, <1>11, <2>1, <2>2 DEF string, putString, writeToPacket, Wire, putUInt8, putUInt16
<1> QED BY <1>10, <1>11

-----------------------------------------------------------------------------
(* The reader.                                                             *)

Cell == [width : Nat, value : Nat]

\* Two joined datasets.
LEMMA JoinCells ==
    ASSUME NEW a \in Seq(Cell), NEW b \in Seq(Cell)
    PROVE  /\ a \o b \in Seq(Cell) /\ Len(a \o b) = Len(a) + Len(b)
           /\ \A k \in 1 .. Len(a) : (a \o b)[k] = a[k]
           /\ \A k \in 1 .. Len(b) : (a \o b)[Len(a) + k] = b[k]
  OBVIOUS

\* Values of the widths that are expected.
LEMMA TakeWidthsLemma ==
    ASSUME NEW data \in Seq(Cell), NEW p, NEW part \in Seq(Cell), NEW widths,
           Holds(data, p, part), DOMAIN widths = 1 .. Len(part), Len(widths) = Len(part),
           \A i \in 1 .. Len(part) : part[i].width = widths[i]
    PROVE  TakeWidths(data, p, widths) =
               [next |-> p + Len(part), value |-> [i \in 1 .. Len(part) |-> part[i].value]]
<1>1. p \in Nat \ {0} /\ p + Len(part) - 1 <= Len(data) /\ \A i \in 1 .. Len(part) : data[p + i - 1] = part[i]
  BY DEF Holds
<1>2. p > 0 /\ p + Len(widths) - 1 <= Len(data) /\ \A i \in DOMAIN widths : data[p + i - 1].width = widths[i]
  BY <1>1
<1>3. [i \in DOMAIN widths |-> data[p + i - 1].value] = [i \in 1 .. Len(part) |-> part[i].value]
  BY <1>1
<1> QED BY <1>2, <1>3 DEF TakeWidths

\* One value of width w.
OneCell(part, w, n) == part \in Seq(Cell) /\ Len(part) = 1 /\ part[1].width = w /\ part[1].value = n

\* An integer of up to 32 bits.
LEMMA TakeInteger ==
    ASSUME NEW data \in Seq(Cell), NEW p, NEW part, NEW w, NEW n, NEW type,
           OneCell(part, w, n), Holds(data, p, part), type # MTP_TYPE_STR, Widths(type) = <<w>>
    PROVE  Take(data, p, type) = [next |-> p + Len(part), value |-> <<n>>]
<1>1. part \in Seq(Cell) /\ Len(part) = 1 /\ part[1].width = w /\ part[1].value = n
  BY DEF OneCell
<1>2. DOMAIN <<w>> = 1 .. 1 /\ Len(<<w>>) = 1 /\ <<w>>[1] = w
  OBVIOUS
<1>3. Take(data, p, type) = TakeWidths(data, p, <<w>>)
  BY DEF Take
<1>4. [i \in 1 .. 1 |-> part[i].value] = <<n>>
  BY <1>1
<1>5. \A i \in 1 .. Len(part) : part[i].width = <<w>>[i]
  BY <1>1, <1>2
<1> DEFINE widths == <<w>>
<1>7. DOMAIN widths = 1 .. Len(part) /\ Len(widths) = Len(part) /\ \A i \in 1 .. Len(part) : part[i].width = widths[i]
  BY <1>1, <1>2, <1>5
<1> HIDE DEF widths
<1>8. TakeWidths(data, p, widths) = [next |-> p + Len(part), value |-> [i \in 1 .. Len(part) |-> part[i].value]]
  <2>1. data \in Seq(Cell) /\ part \in Seq(Cell) /\ Holds(data, p, part)
    BY <1>1
  <2> QED BY ONLY <1>7, <2>1, TakeWidthsLemma
<1> QED BY <1>1, <1>3, <1>4, <1>8 DEF widths

\* An integer of 128 bits is two of 64.
LEMMA Part128 ==
    ASSUME NEW n \in Nat
    PROVE  /\ putUInt128(n) \in Seq(Cell) /\ Len(putUInt128(n)) = 2
           /\ putUInt128(n)[1].width = 8 /\ putUInt128(n)[1].value = n
           /\ putUInt128(n)[2].width = 8 /\ putUInt128(n)[2].value = 0
<1> DEFINE a == putUInt64(n)
           b == putUInt64(0)
<1>1. a \in Seq(Cell) /\ Len(a) = 1 /\ a[1].width = 8 /\ a[1].value = n
  BY DEF putUInt64, Cell
<1>2. b \in Seq(Cell) /\ Len(b) = 1 /\ b[1].width = 8 /\ b[1].value = 0
  BY DEF putUInt64, Cell
<1>3. putUInt128(n) = a \o b
  BY DEF putUInt128
<1> HIDE DEF a, b
<1>4. /\ a \o b \in Seq(Cell) /\ Len(a \o b) = Len(a) + Len(b)
      /\ \A k \in 1 .. Len(a) : (a \o b)[k] = a[k]
      /\ \A k \in 1 .. Len(b) : (a \o b)[Len(a) + k] = b[k]
  BY <1>1, <1>2, JoinCells
<1>5. (a \o b)[1] = a[1] /\ (a \o b)[1 + 1] = b[1]
  BY ONLY <1>1, <1>2, <1>4
<1> QED BY <1>1, <1>2, <1>3, <1>4, <1>5

\* It is taken as two.
LEMMA Take128 ==
    ASSUME NEW data \in Seq(Cell), NEW p, NEW n \in Nat, Holds(data, p, putUInt128(n))
    PROVE  Take(data, p, MTP_TYPE_UINT128) = [next |-> p + 2, value |-> <<n, 0>>]
<1> DEFINE part == putUInt128(n)
<1>2. part \in Seq(Cell) /\ Len(part) = 2 /\ part[1].width = 8 /\ part[2].width = 8 /\ part[1].value = n /\ part[2].value = 0
  BY Part128
<1>3. DOMAIN <<8, 8>> = 1 .. 2 /\ Len(<<8, 8>>) = 2 /\ <<8, 8>>[1] = 8 /\ <<8, 8>>[2] = 8
  OBVIOUS
<1>4. Take(data, p, MTP_TYPE_UINT128) = TakeWidths(data, p, <<8, 8>>)
  BY DEF Take, Widths, MTP_TYPE_UINT128, MTP_TYPE_STR, MTP_TYPE_UINT8, MTP_TYPE_UINT16, MTP_TYPE_UINT32
<1>5. [i \in 1 .. 2 |-> part[i].value] = <<n, 0>>
  BY <1>2
<1>6. \A i \in 1 .. Len(part) : part[i].width = <<8, 8>>[i]
  BY <1>2, <1>3
<1>7. Holds(data, p, part)
  OBVIOUS
<1> DEFINE widths == <<8, 8>>
<1>8. DOMAIN widths = 1 .. Len(part) /\ Len(widths) = Len(part) /\ \A i \in 1 .. Len(part) : part[i].width = widths[i]
  BY <1>2, <1>3, <1>6
<1> HIDE DEF part, widths
<1>9. TakeWidths(data, p, widths) = [next |-> p + Len(part), value |-> [i \in 1 .. Len(part) |-> part[i].value]]
  BY <1>2, <1>7, <1>8, TakeWidthsLemma
<1> QED BY <1>2, <1>4, <1>5, <1>9 DEF widths

\* How a name stands in a dataset.
LEMMA WireLemma ==
    ASSUME NEW name \in Seq(Nat)
    PROVE  /\ Wire(name) \in Seq(Cell)
           /\ Len(Wire(name)) = IF name = << >> THEN 1 ELSE Len(name) + 2
           /\ Wire(name)[1] = [width |-> 1, value |-> IF name = << >> THEN 0 ELSE Len(name) + 1]
           /\ name # << >> =>
                 /\ \A n \in 1 .. Len(name) : Wire(name)[n + 1] = [width |-> 2, value |-> name[n]]
                 /\ Wire(name)[Len(name) + 2] = [width |-> 2, value |-> 0]
<1>1. CASE name = << >>
  <2>1. [width |-> 1, value |-> 0] \in Cell
    BY DEF Cell
  <2> QED BY <1>1, <2>1 DEF Wire
<1>2. CASE name # << >>
  <2> DEFINE a == <<[width |-> 1, value |-> Len(name) + 1]>>
             b == [n \in 1 .. Len(name) |-> [width |-> 2, value |-> name[n]]]
             c == <<[width |-> 2, value |-> 0]>>
  <2>1. Len(name) \in Nat /\ \A n \in 1 .. Len(name) : name[n] \in Nat
    OBVIOUS
  <2>2. a \in Seq(Cell) /\ Len(a) = 1 /\ a[1] = [width |-> 1, value |-> Len(name) + 1]
    BY <2>1 DEF Cell
  <2>3. b \in Seq(Cell) /\ Len(b) = Len(name) /\ \A n \in 1 .. Len(name) : b[n] = [width |-> 2, value |-> name[n]]
    BY <2>1 DEF Cell
  <2>4. c \in Seq(Cell) /\ Len(c) = 1 /\ c[1] = [width |-> 2, value |-> 0]
    BY DEF Cell
  <2>5. Wire(name) = a \o b \o c
    BY <1>2 DEF Wire, NUL
  <2> HIDE DEF a, b, c
  <2> DEFINE ab == a \o b
  <2>6. /\ ab \in Seq(Cell) /\ Len(ab) = Len(name) + 1 /\ ab[1] = a[1]
        /\ \A n \in 1 .. Len(name) : ab[n + 1] = b[n]
    <3>1. /\ ab \in Seq(Cell) /\ Len(ab) = Len(a) + Len(b)
          /\ \A k \in 1 .. Len(a) : ab[k] = a[k]
          /\ \A k \in 1 .. Len(b) : ab[Len(a) + k] = b[k]
      BY <2>2, <2>3, JoinCells
    <3> HIDE DEF ab
    <3>2. 1 \in 1 .. Len(a) /\ Len(a) + Len(b) = Len(name) + 1
      BY <2>1, <2>2, <2>3
    <3>3. \A n \in 1 .. Len(name) : n \in 1 .. Len(b) /\ Len(a) + n = n + 1
      BY <2>1, <2>2, <2>3
    <3> QED BY ONLY <3>1, <3>2, <3>3
  <2> HIDE DEF ab
  <2>7. ab \o c \in Seq(Cell) /\ Len(ab \o c) = Len(name) + 2
        /\ (\A n \in 1 .. Len(name) + 1 : (ab \o c)[n] = ab[n]) /\ (ab \o c)[Len(name) + 2] = c[1]
    <3>1. /\ ab \o c \in Seq(Cell) /\ Len(ab \o c) = Len(ab) + Len(c)
          /\ \A k \in 1 .. Len(ab) : (ab \o c)[k] = ab[k]
          /\ \A k \in 1 .. Len(c) : (ab \o c)[Len(ab) + k] = c[k]
      BY <2>4, <2>6, JoinCells
    <3>2. 1 \in 1 .. Len(c) /\ Len(ab) + 1 = Len(name) + 2 /\ Len(ab) + Len(c) = Len(name) + 2
      BY <2>1, <2>4, <2>6
    <3> QED BY ONLY <2>6, <3>1, <3>2
  <2>8. \A n \in 1 .. Len(name) : Wire(name)[n + 1] = ab[n + 1]
    <3>1. \A n \in 1 .. Len(name) : n + 1 \in 1 .. Len(name) + 1
      BY <2>1
    <3> QED BY <2>5, <2>7, <3>1 DEF ab
  <2>9. 1 \in 1 .. Len(name) + 1 /\ \A n \in 1 .. Len(name) : n + 1 \in 1 .. Len(name) + 1
    BY <2>1
  <2>10. Wire(name) = ab \o c
    BY <2>5 DEF ab
  <2>11. Wire(name)[1] = ab[1]
    BY <2>1, <2>7, <2>9, <2>10
  <2> QED BY <1>2, <2>2, <2>3, <2>4, <2>6, <2>7, <2>8, <2>10, <2>11
<1> QED BY <1>1, <1>2

\* A name is taken as it is.
LEMMA TakeName ==
    ASSUME NEW data \in Seq(Cell), NEW p, NEW name \in Seq(Nat), Holds(data, p, Wire(name))
    PROVE  Take(data, p, MTP_TYPE_STR) = [next |-> p + Len(Wire(name)), value |-> name]
<1> DEFINE wire == Wire(name)
           count == IF name = << >> THEN 0 ELSE Len(name) + 1
           units(u) == IF u = Unreadable \/ Last(u.value) # 0 THEN Unreadable ELSE [u EXCEPT !.value = Front(@)]
<1>1. /\ p \in Nat \ {0} /\ p + Len(wire) - 1 <= Len(data)
      /\ \A k \in 1 .. Len(wire) : data[p + k - 1] = wire[k]
  BY DEF Holds
<1>2. Len(name) \in Nat /\ (name # << >> => Len(name) # 0) /\ \A n \in 1 .. Len(name) : name[n] \in Nat
  OBVIOUS
<1>3. /\ wire \in Seq(Cell) /\ Len(wire) = (IF name = << >> THEN 1 ELSE Len(name) + 2)
      /\ wire[1] = [width |-> 1, value |-> count]
      /\ name # << >> =>
            /\ \A n \in 1 .. Len(name) : wire[n + 1] = [width |-> 2, value |-> name[n]]
            /\ wire[Len(name) + 2] = [width |-> 2, value |-> 0]
  <2>1. [width |-> 1, value |-> count] = [width |-> 1, value |-> IF name = << >> THEN 0 ELSE Len(name) + 1]
    OBVIOUS
  <2> QED BY <2>1, WireLemma
<1> HIDE DEF wire
<1>4. TakeWidths(data, p, <<1>>) = [next |-> p + 1, value |-> <<count>>]
  <2> DEFINE widths == <<1>>
  <2>1. DOMAIN widths = 1 .. 1 /\ Len(widths) = 1 /\ widths[1] = 1
    OBVIOUS
  <2> HIDE DEF widths
  <2>2. data[p] = wire[1] /\ p <= Len(data)
    <3>1. 1 \in 1 .. Len(wire) /\ p + 1 - 1 = p /\ Len(data) \in Nat
      BY <1>1, <1>2, <1>3
    <3>2. p <= p + Len(wire) - 1
      BY <1>1, <1>2, <1>3
    <3> QED BY <1>1, <1>2, <1>3, <3>1, <3>2
  <2>3. p > 0 /\ p + Len(widths) - 1 <= Len(data) /\ \A i \in DOMAIN widths : data[p + i - 1].width = widths[i]
    BY <1>1, <1>3, <2>1, <2>2
  <2>4. [i \in DOMAIN widths |-> data[p + i - 1].value] = <<count>>
    BY <1>1, <1>3, <2>1, <2>2
  <2>5. TakeWidths(data, p, widths) = [next |-> p + 1, value |-> <<count>>]
    BY <2>1, <2>3, <2>4 DEF TakeWidths
  <2> QED BY <2>5 DEF widths
<1>5. Take(data, p, MTP_TYPE_STR) =
          IF count = 0 THEN [next |-> p + 1, value |-> << >>]
          ELSE units(TakeWidths(data, p + 1, [i \in 1 .. count |-> 2]))
  <2>1. Take(data, p, MTP_TYPE_STR) = TakeString(data, p)
    BY DEF Take
  <2>2. [next |-> p + 1, value |-> <<count>>] # Unreadable
    BY <1>1 DEF Unreadable
  <2>3. <<count>>[1] = count
    OBVIOUS
  <2> DEFINE one == [next |-> p + 1, value |-> <<count>>]
  <2>4. one.value[1] = count /\ [one EXCEPT !.value = << >>] = [next |-> p + 1, value |-> << >>]
    BY <2>3
  <2>5. TakeWidths(data, p, <<1>>) = one
    BY <1>4
  <2> HIDE DEF count, one
  <2>6. TakeString(data, p) =
            IF one = Unreadable THEN Unreadable
            ELSE IF one.value[1] = 0 THEN [one EXCEPT !.value = << >>]
            ELSE units(TakeWidths(data, p + 1, [i \in 1 .. one.value[1] |-> 2]))
    <3> HIDE DEF units
    <3>1. TakeString(data, p) =
              IF one = Unreadable THEN Unreadable
              ELSE IF one.value[1] = 0 THEN [one EXCEPT !.value = << >>]
              ELSE IF \/ TakeWidths(data, p + 1, [i \in 1 .. one.value[1] |-> 2]) = Unreadable
                      \/ Last(TakeWidths(data, p + 1, [i \in 1 .. one.value[1] |-> 2]).value) # 0
                   THEN Unreadable
                   ELSE [TakeWidths(data, p + 1, [i \in 1 .. one.value[1] |-> 2]) EXCEPT !.value = Front(@)]
      BY <2>5, Zenon DEF TakeString
    <3> QED BY <3>1, Zenon DEF units
  <2> HIDE DEF units
  <2>7. one # Unreadable
    BY <2>2 DEF one
  <2> QED BY <2>1, <2>4, <2>6, <2>7
<1>6. CASE name = << >>
  BY <1>3, <1>5, <1>6 DEF wire
<1>7. CASE name # << >>
  <2> DEFINE widths == [i \in 1 .. count |-> 2]
             values == [i \in 1 .. count |-> IF i = count THEN 0 ELSE name[i]]
  <2>1. count = Len(name) + 1 /\ count \in Nat \ {0} /\ Len(wire) = count + 1
    BY <1>2, <1>3, <1>7
  <2> HIDE DEF count
  <2>2. Len(widths) = count /\ DOMAIN widths = 1 .. count
    BY <2>1
  <2>3. \A i \in 1 .. count : data[p + 1 + i - 1] = [width |-> 2, value |-> values[i]]
    <3>1. ASSUME NEW i \in 1 .. count PROVE data[p + 1 + i - 1] = wire[i + 1]
      <4>1. i + 1 \in 1 .. Len(wire) /\ p + (i + 1) - 1 = p + 1 + i - 1
        BY <1>1, <2>1
      <4> QED BY <1>1, <4>1
    <3>2. ASSUME NEW i \in 1 .. count PROVE wire[i + 1] = [width |-> 2, value |-> values[i]]
      <4>1. CASE i = count
        <5>1. i + 1 = Len(name) + 2
          BY <1>2, <2>1, <4>1
        <5> QED BY <1>3, <1>7, <4>1, <5>1
      <4>2. CASE i # count
        <5>1. i \in 1 .. Len(name)
          BY <1>2, <2>1, <4>2
        <5> QED BY <1>3, <1>7, <4>2, <5>1
      <4> QED BY <4>1, <4>2
    <3> QED BY <3>1, <3>2
  <2>4. TakeWidths(data, p + 1, widths) = [next |-> p + 1 + count, value |-> values]
    <3>1. p + 1 > 0 /\ p + 1 + Len(widths) - 1 <= Len(data)
      BY <1>1, <2>1, <2>2
    <3>5. \A i \in 1 .. count : widths[i] = 2
      OBVIOUS
    <3> HIDE DEF widths, values
    <3>6. \A i \in 1 .. count : data[p + 1 + i - 1].width = 2 /\ data[p + 1 + i - 1].value = values[i]
      <4>1. ASSUME NEW i \in 1 .. count
            PROVE  data[p + 1 + i - 1].width = 2 /\ data[p + 1 + i - 1].value = values[i]
        <5>1. data[p + 1 + i - 1] = [width |-> 2, value |-> values[i]]
          BY <2>3 DEF widths, values
        <5> QED BY ONLY <5>1
      <4> QED BY ONLY <4>1
    <3>2. \A i \in DOMAIN widths : data[p + 1 + i - 1].width = widths[i]
      BY ONLY <2>2, <3>5, <3>6
    <3>3. [i \in DOMAIN widths |-> data[p + 1 + i - 1].value] = [i \in 1 .. count |-> values[i]]
      BY ONLY <2>2, <3>6
    <3>4. [i \in 1 .. count |-> values[i]] = values
      BY DEF values
    <3> QED BY <2>2, <3>1, <3>2, <3>3, <3>4 DEF TakeWidths
  <2>5. values \in Seq(Nat) /\ Len(values) = count /\ values[count] = 0
    BY <1>2, <2>1
  <2>6. Last(values) = 0
    BY <2>5 DEF Last
  <2>7. Front(values) = name
    <3> DEFINE front == SubSeq(values, 1, Len(values) - 1)
    <3>1. Len(values) - 1 = Len(name) /\ \A i \in 1 .. Len(name) : values[i] = name[i]
      BY <1>2, <2>1, <2>5
    <3>2. front \in Seq(Nat) /\ Len(front) = Len(name) /\ \A i \in 1 .. Len(name) : front[i] = values[i]
      <4> HIDE DEF values
      <4> QED BY <1>2, <2>1, <2>5, <3>1
    <3>3. front = name
      <4> HIDE DEF front, values
      <4>1. name \in Seq(Nat)
        BY <1>2
      <4>2. \A i \in 1 .. Len(name) : front[i] = name[i]
        BY <3>1, <3>2
      <4>3. front \in [1 .. Len(name) -> Nat]
        BY ONLY <3>2
      <4>4. name \in [1 .. Len(name) -> Nat]
        BY ONLY <4>1
      <4> QED BY ONLY <4>2, <4>3, <4>4
    <3> QED BY <3>3 DEF Front
  <2>8. [next |-> p + 1 + count, value |-> values] # Unreadable
    BY <1>1, <2>1 DEF Unreadable
  <2> HIDE DEF widths, values
  <2>9. Take(data, p, MTP_TYPE_STR) = units([next |-> p + 1 + count, value |-> values])
    BY <1>5, <2>1, <2>4 DEF widths
  <2>10. p + 1 + count = p + Len(wire)
    BY <1>1, <2>1
  <2> QED BY <2>6, <2>7, <2>8, <2>9, <2>10 DEF wire
<1> QED BY <1>6, <1>7

\* A reader that takes a value at each of the positions has these values.
LEMMA ReadingLemma ==
    ASSUME NEW data \in Seq(Cell), NEW types, NEW values \in Seq(Seq(Nat)), NEW at,
           Len(types) = Len(values), at[1] = 1, at[Len(values) + 1] = Len(data) + 1,
           \A i \in 1 .. Len(values) :
               Take(data, at[i], types[i]) = [next |-> at[i + 1], value |-> values[i]]
    PROVE  Reading(data, types) = values
<1> DEFINE n == Len(values)
           Is(f) == f = [i \in 0 .. n |->
                            IF i = 0 THEN [next |-> 1, value |-> << >>]
                            ELSE [next |-> Take(data, f[i - 1].next, types[i]).next,
                                  value |-> Append(f[i - 1].value, Take(data, f[i - 1].next, types[i]).value)]]
           F == CHOOSE f : Is(f)
           w == [i \in 0 .. n |-> [next |-> at[i + 1], value |-> [j \in 1 .. i |-> values[j]]]]
<1>1. Reading(data, types) = IF F[n].next = Len(data) + 1 THEN F[n].value ELSE << >>
  BY DEF Reading
<1>2. n \in Nat
  OBVIOUS
<1>3. ASSUME NEW i \in 1 .. n
      PROVE  Append([j \in 1 .. i - 1 |-> values[j]], values[i]) = [j \in 1 .. i |-> values[j]]
  OBVIOUS
<1>4. Is(w)
  <2>1. ASSUME NEW i \in 0 .. n
        PROVE  w[i] = IF i = 0 THEN [next |-> 1, value |-> << >>]
                      ELSE [next |-> Take(data, w[i - 1].next, types[i]).next,
                            value |-> Append(w[i - 1].value, Take(data, w[i - 1].next, types[i]).value)]
    <3>1. CASE i = 0
      <4>1. [j \in 1 .. 0 |-> values[j]] = << >>
        OBVIOUS
      <4> QED BY <3>1, <4>1
    <3>2. CASE i # 0
      <4>1. i \in 1 .. n /\ i - 1 \in 0 .. n /\ (i - 1) + 1 = i
        BY <3>2
      <4>2. w[i - 1].next = at[i] /\ w[i - 1].value = [j \in 1 .. i - 1 |-> values[j]]
        BY <4>1
      <4>3. w[i] = [next |-> at[i + 1], value |-> [j \in 1 .. i |-> values[j]]]
        OBVIOUS
      <4>4. Take(data, at[i], types[i]) = [next |-> at[i + 1], value |-> values[i]]
        BY <4>1
      <4> HIDE DEF w
      <4> DEFINE one == Take(data, w[i - 1].next, types[i])
      <4>5. one.next = at[i + 1] /\ one.value = values[i]
        BY <4>2, <4>4
      <4>6. Append(w[i - 1].value, one.value) = [j \in 1 .. i |-> values[j]]
        BY <1>3, <4>1, <4>2, <4>5
      <4> HIDE DEF one
      <4>7. w[i] = [next |-> one.next, value |-> Append(w[i - 1].value, one.value)]
        BY <4>3, <4>5, <4>6
      <4> QED BY <3>2, <4>7 DEF one
    <3> QED BY <3>1, <3>2
  <2>2. w = [i \in 0 .. n |-> w[i]]
    OBVIOUS
  <2> HIDE DEF w
  <2> QED BY <2>1, <2>2
<1>5. Is(F)
  <2> HIDE DEF w
  <2> QED BY <1>4
<1>6. \A i \in 0 .. n : F[i] = IF i = 0 THEN [next |-> 1, value |-> << >>]
                               ELSE [next |-> Take(data, F[i - 1].next, types[i]).next,
                                     value |-> Append(F[i - 1].value, Take(data, F[i - 1].next, types[i]).value)]
  <2> HIDE DEF F
  <2> QED BY <1>5
<1>7. \A i \in 0 .. n : w[i] = IF i = 0 THEN [next |-> 1, value |-> << >>]
                               ELSE [next |-> Take(data, w[i - 1].next, types[i]).next,
                                     value |-> Append(w[i - 1].value, Take(data, w[i - 1].next, types[i]).value)]
  <2> HIDE DEF w
  <2> QED BY <1>4
<1>8. w[n] = [next |-> Len(data) + 1, value |-> values]
  <2>1. [j \in 1 .. n |-> values[j]] = values /\ at[n + 1] = Len(data) + 1
    OBVIOUS
  <2>2. n \in 0 .. n
    BY <1>2
  <2>3. w[n] = [next |-> at[n + 1], value |-> [j \in 1 .. n |-> values[j]]]
    BY <2>2
  <2> HIDE DEF w, n
  <2> QED BY <2>1, <2>3
<1> DEFINE Differ == {i \in 0 .. n : F[i] # w[i]}
<1> HIDE DEF F, w
<1>9. Differ = {}
  <2> SUFFICES ASSUME Differ # {} PROVE FALSE
    OBVIOUS
  <2>1. PICK i \in Differ : \A k \in Differ : i <= k
    <3>1. Differ \in SUBSET Nat
      OBVIOUS
    <3> QED BY <3>1, LeastNatural
  <2>2. i \in 0 .. n /\ F[i] # w[i]
    BY <2>1
  <2>3. i # 0
    BY <1>6, <1>7, <2>2
  <2>4. i - 1 \in 0 .. n /\ F[i - 1] = w[i - 1]
    <3>1. i - 1 \in 0 .. n /\ ~(i <= i - 1)
      BY <1>2, <2>2, <2>3
    <3> QED BY <2>1, <3>1
  <2> QED BY <1>6, <1>7, <2>2, <2>3, <2>4
<1>10. F[n] = w[n]
  BY <1>2, <1>9
<1> QED BY <1>1, <1>8, <1>10

-----------------------------------------------------------------------------
(* The database.                                                           *)

\* An object of which the host knows the name is there, under that name.
Named == \A h \in DOMAIN hostName : h \in DOMAIN db /\ db[h].display_name = hostName[h]

DatabaseInv == TypeOK /\ Named

\* A name of the host's is taken without its terminator.
LEMMA GivenName ==
    ASSUME NEW name \in HostName
    PROVE  readFromPacket(Append(name, NUL)) = name
<1> DEFINE units == Append(name, NUL)
           ends  == {i \in DOMAIN units : units[i] = NUL}
<1>1. name \in Seq(Nat) /\ Len(name) \in Nat /\ \A i \in 1 .. Len(name) : name[i] # NUL /\ name[i] \in Nat
  <2>1. name \in Seq(Told)
    BY NameAssumption DEF Told
  <2>2. \A c \in Told : c \in Nat /\ c # NUL
    BY CharAssumption DEF Told
  <2>3. Len(name) \in Nat /\ name = [i \in 1 .. Len(name) |-> name[i]] /\ \A i \in 1 .. Len(name) : name[i] \in Told
    BY <2>1
  <2>4. name \in [1 .. Len(name) -> Nat]
    BY <2>2, <2>3
  <2> QED BY <2>2, <2>3, <2>4
<1>2. /\ units \in Seq(Nat) /\ Len(units) = Len(name) + 1 /\ units[Len(name) + 1] = NUL
      /\ \A i \in 1 .. Len(name) : units[i] = name[i]
  BY <1>1 DEF NUL
<1> HIDE DEF units
<1>3. DOMAIN units = 1 .. Len(name) + 1
  BY <1>1, <1>2
<1>4. ends = {Len(name) + 1}
  BY <1>1, <1>2, <1>3
<1>5. (CHOOSE i \in ends : \A j \in ends : i <= j) = Len(name) + 1
  BY <1>1, <1>4
<1>6. SubSeq(units, 1, (Len(name) + 1) - 1) = name
  <2>1. (Len(name) + 1) - 1 = Len(name)
    BY <1>1
  <2>2. SubSeq(units, 1, Len(name)) \in Seq(Nat) /\ Len(SubSeq(units, 1, Len(name))) = Len(name)
        /\ \A i \in 1 .. Len(name) : SubSeq(units, 1, Len(name))[i] = units[i]
    BY <1>1, <1>2
  <2> QED BY <1>1, <1>2, <2>1, <2>2
<1>7. readFromPacket(units) = IF ends = {} THEN units
                              ELSE SubSeq(units, 1, (CHOOSE i \in ends : \A j \in ends : i <= j) - 1)
  BY DEF readFromPacket
<1> HIDE DEF ends
<1>8. ends # {}
  BY <1>4
<1> QED BY <1>5, <1>6, <1>7, <1>8 DEF units

\* What a listing or the host makes of an object is an entry.
LEMMA EntryLemma ==
    ASSUME TypeOK, NEW parent \in DOMAIN db \cup {0}, NEW size \in FileSize \cup {0},
           NEW format \in {MTP_FORMAT_UNDEFINED, MTP_FORMAT_ASSOCIATION}, NEW name \in CardName \cup HostName
    PROVE  Entry(parent, format, size, name) \in DbEntry
  BY NameAssumption DEF TypeOK, Entry, DbEntry, Handle, kInvalidObjectHandle

LEMMA InitDatabase == Init => DatabaseInv
  BY DEF Init, DatabaseInv, TypeOK, Named

LEMMA ScanDatabase ==
    ASSUME DatabaseInv, NEW h \in Handle, NEW parent \in DOMAIN db \cup {0}, NEW size \in FileSize \cup {0},
           NEW format \in {MTP_FORMAT_UNDEFINED, MTP_FORMAT_ASSOCIATION}, NEW name \in CardName,
           Scan(h, parent, format, size, name)
    PROVE  DatabaseInv'
<1> DEFINE entry == Entry(parent, format, size, name)
<1>1. entry \in DbEntry
  BY EntryLemma DEF DatabaseInv
<1>2. db' = With(db, h, entry) /\ h \notin DOMAIN db /\ edit' = edit /\ hostName' = hostName
  BY DEF Scan
<1> HIDE DEF entry
<1>3. /\ DOMAIN db' = DOMAIN db \cup {h} /\ db' \in [DOMAIN db' -> DbEntry]
      /\ \A g \in DOMAIN db : db'[g] = db[g]
  BY <1>1, <1>2 DEF With, DatabaseInv, TypeOK
<1> QED BY <1>2, <1>3 DEF DatabaseInv, TypeOK, Named

LEMMA SendDatabase ==
    ASSUME DatabaseInv, NEW h \in Handle, NEW parent \in DOMAIN db \cup {0}, NEW size \in FileSize \cup {0},
           NEW format \in {MTP_FORMAT_UNDEFINED, MTP_FORMAT_ASSOCIATION}, NEW name \in HostName,
           SendObjectInfo(h, parent, format, size, name)
    PROVE  DatabaseInv'
<1> DEFINE entry == Entry(parent, format, size, name)
<1>1. entry \in DbEntry /\ entry.display_name = name
  BY EntryLemma DEF DatabaseInv, Entry
<1>2. db' = With(db, h, entry) /\ h \notin DOMAIN db /\ edit' = edit /\ hostName' = With(hostName, h, name)
  BY GivenName DEF SendObjectInfo
<1> HIDE DEF entry
<1>3. /\ DOMAIN db' = DOMAIN db \cup {h} /\ db' \in [DOMAIN db' -> DbEntry] /\ db'[h] = entry
      /\ \A g \in DOMAIN db : db'[g] = db[g]
  BY <1>1, <1>2 DEF With, DatabaseInv, TypeOK
<1>4. /\ DOMAIN hostName' = DOMAIN hostName \cup {h} /\ hostName' \in [DOMAIN hostName' -> HostName]
      /\ hostName'[h] = name /\ \A g \in DOMAIN hostName \ {h} : hostName'[g] = hostName[g]
  BY <1>2 DEF With, DatabaseInv, TypeOK
<1> QED BY <1>1, <1>2, <1>3, <1>4 DEF DatabaseInv, TypeOK, Named

LEMMA RenameDatabase ==
    ASSUME DatabaseInv, NEW h \in Handle, NEW name \in HostName, SetObjectPropValue(h, name)
    PROVE  DatabaseInv'
<1>1. /\ h \in DOMAIN db /\ db' = [db EXCEPT ![h].display_name = name]
      /\ hostName' = With(hostName, h, name) /\ edit' = edit
  BY GivenName DEF SetObjectPropValue
<1>2. /\ DOMAIN db' = DOMAIN db /\ db' \in [DOMAIN db' -> DbEntry] /\ db'[h].display_name = name
      /\ \A g \in DOMAIN db \ {h} : db'[g] = db[g]
  <2>1. [db[h] EXCEPT !.display_name = name] \in DbEntry
        /\ [db[h] EXCEPT !.display_name = name].display_name = name
    BY <1>1 DEF DatabaseInv, TypeOK, DbEntry
  <2>2. db' = [db EXCEPT ![h] = [db[h] EXCEPT !.display_name = name]] /\ db \in [DOMAIN db -> DbEntry]
    BY <1>1 DEF DatabaseInv, TypeOK
  <2> DEFINE entry == [db[h] EXCEPT !.display_name = name]
  <2> HIDE DEF entry
  <2>3. entry \in DbEntry /\ entry.display_name = name /\ db' = [db EXCEPT ![h] = entry]
    BY <2>1, <2>2 DEF entry
  <2> QED BY <1>1, <2>2, <2>3
<1>3. /\ DOMAIN hostName' = DOMAIN hostName \cup {h} /\ hostName' \in [DOMAIN hostName' -> HostName]
      /\ hostName'[h] = name /\ \A g \in DOMAIN hostName \ {h} : hostName'[g] = hostName[g]
  BY <1>1 DEF With, DatabaseInv, TypeOK
<1> QED BY <1>1, <1>2, <1>3 DEF DatabaseInv, TypeOK, Named

LEMMA DeleteDatabase ==
    ASSUME DatabaseInv, NEW h \in Handle, DeleteObject(h)
    PROVE  DatabaseInv'
<1> DEFINE kept == {g \in DOMAIN db : g # h /\ db[g].parent # h}
           both == DOMAIN hostName \cap kept
<1>1. db' = Restrict(db, kept) /\ hostName' = Restrict(hostName, both) /\ edit' = edit
  BY DEF DeleteObject
<1>2. kept \subseteq DOMAIN db /\ both \subseteq DOMAIN hostName /\ both \subseteq kept
  OBVIOUS
<1> HIDE DEF kept, both
<1>3. DOMAIN db' = kept /\ (\A g \in kept : db'[g] = db[g]) /\ db' \in [DOMAIN db' -> DbEntry]
  BY <1>1, <1>2 DEF Restrict, DatabaseInv, TypeOK
<1>4. DOMAIN hostName' = both /\ (\A g \in both : hostName'[g] = hostName[g])
      /\ hostName' \in [DOMAIN hostName' -> HostName]
  BY <1>1, <1>2 DEF Restrict, DatabaseInv, TypeOK
<1> QED BY <1>1, <1>2, <1>3, <1>4 DEF DatabaseInv, TypeOK, Named

LEMMA EditDatabase ==
    ASSUME DatabaseInv, NEW h \in Handle, NEW size \in FileSize, Edit(h, size)
    PROVE  DatabaseInv'
<1>1. edit' = With(edit, h, size) /\ db' = db /\ hostName' = hostName
  BY DEF Edit
<1>2. DOMAIN edit' = DOMAIN edit \cup {h} /\ edit' \in [DOMAIN edit' -> FileSize]
  BY <1>1 DEF With, DatabaseInv, TypeOK
<1> QED BY <1>1, <1>2 DEF DatabaseInv, TypeOK, Named

LEMMA EndEditDatabase ==
    ASSUME DatabaseInv, NEW h \in Handle, NEW size \in FileSize, EndEditObject(h, size)
    PROVE  DatabaseInv'
<1>1. /\ edit' = Restrict(edit, DOMAIN edit \ {h}) /\ hostName' = hostName
      /\ db' = IF h \in DOMAIN db THEN [db EXCEPT ![h].object_size = size] ELSE db
  BY DEF EndEditObject
<1>2. DOMAIN edit' = DOMAIN edit \ {h} /\ edit' \in [DOMAIN edit' -> FileSize]
  BY <1>1 DEF Restrict, DatabaseInv, TypeOK
<1>3. /\ DOMAIN db' = DOMAIN db /\ db' \in [DOMAIN db' -> DbEntry]
      /\ \A g \in DOMAIN db : db'[g].display_name = db[g].display_name
  <2>1. CASE h \in DOMAIN db
    <3> DEFINE entry == [db[h] EXCEPT !.object_size = size]
    <3>1. entry \in DbEntry /\ entry.display_name = db[h].display_name
      BY <2>1 DEF DatabaseInv, TypeOK, DbEntry
    <3>2. db' = [db EXCEPT ![h] = entry] /\ db \in [DOMAIN db -> DbEntry]
      BY <1>1, <2>1 DEF DatabaseInv, TypeOK
    <3> HIDE DEF entry
    <3> QED BY <2>1, <3>1, <3>2
  <2>2. CASE h \notin DOMAIN db
    BY <1>1, <2>2 DEF DatabaseInv, TypeOK
  <2> QED BY <2>1, <2>2
<1> QED BY <1>1, <1>2, <1>3 DEF DatabaseInv, TypeOK, Named

\* Every step keeps entries, edits and names.
LEMMA StepDatabase == DatabaseInv /\ [Next]_vars => DatabaseInv'
<1> SUFFICES ASSUME DatabaseInv, [Next]_vars PROVE DatabaseInv'
  OBVIOUS
<1>1. ASSUME NEW h \in Handle, NEW parent \in DOMAIN db \cup {0}, NEW size \in FileSize, NEW name \in CardName,
             \/ Scan(h, parent, MTP_FORMAT_UNDEFINED, size, name)
             \/ Scan(h, parent, MTP_FORMAT_ASSOCIATION, 0, name)
      PROVE  DatabaseInv'
  BY <1>1, ScanDatabase
<1>2. ASSUME NEW h \in Handle, NEW parent \in DOMAIN db \cup {0}, NEW size \in FileSize, NEW name \in HostName,
             \/ SendObjectInfo(h, parent, MTP_FORMAT_UNDEFINED, size, name)
             \/ SendObjectInfo(h, parent, MTP_FORMAT_ASSOCIATION, 0, name)
      PROVE  DatabaseInv'
  BY <1>2, SendDatabase
<1>3. ASSUME NEW h \in Handle, NEW name \in HostName, SetObjectPropValue(h, name) PROVE DatabaseInv'
  BY <1>3, RenameDatabase
<1>4. ASSUME NEW h \in Handle, DeleteObject(h) PROVE DatabaseInv'
  BY <1>4, DeleteDatabase
<1>5. ASSUME NEW h \in Handle, NEW size \in FileSize, Edit(h, size) PROVE DatabaseInv'
  BY <1>5, EditDatabase
<1>6. ASSUME NEW h \in Handle, NEW size \in FileSize, EndEditObject(h, size) PROVE DatabaseInv'
  BY <1>6, EndEditDatabase
<1>7. CASE UNCHANGED vars
  BY <1>7 DEF vars, DatabaseInv, TypeOK, Named
<1> QED BY <1>1, <1>2, <1>3, <1>4, <1>5, <1>6, <1>7 DEF Next

-----------------------------------------------------------------------------
(* Datasets that tell something.                                           *)

\* Wherever part stands it is read as this value of this type.
Reads(part, type, value) ==
    /\ part \in Seq(Cell)
    /\ \A data \in Seq(Cell) : \A p \in Nat \ {0} :
          Holds(data, p, part) => Take(data, p, type) = [next |-> p + Len(part), value |-> value]

\* data is n parts that are read as the first n of the values.
Tells(data, types, values, n) ==
    /\ data \in Seq(Cell) /\ n \in Nat
    /\ \E s, at :
          s \in Seq(Seq(Cell)) /\ Len(s) = n /\ Joined(data, s, at) /\ \A i \in 1 .. n : Reads(s[i], types[i], values[i])

\* The first part.
LEMMA TellsOne ==
    ASSUME NEW data, NEW types, NEW values, Reads(data, types[1], values[1])
    PROVE  Tells(data, types, values, 1)
<1> DEFINE s == <<data>>
           at == [i \in 1 .. 2 |-> IF i = 1 THEN 1 ELSE Len(data) + 1]
<1>1. data \in Seq(Cell) /\ Len(data) \in Nat /\ 1 + Len(data) = Len(data) + 1
  BY DEF Reads
<1>2. s \in Seq(Seq(Cell)) /\ Len(s) = 1 /\ s[1] = data
  BY <1>1
<1>3. at \in [1 .. 1 + 1 -> Nat \ {0}] /\ at[1] = 1 /\ at[1 + 1] = Len(data) + 1
  BY <1>1
<1>4. Holds(data, 1, data)
  BY <1>1, HoldsAll
<1> HIDE DEF s, at
<1>5. Joined(data, s, at)
  BY <1>1, <1>2, <1>3, <1>4 DEF Joined
<1>6. \A i \in 1 .. 1 : Reads(s[i], types[i], values[i])
  BY <1>2
<1> QED BY <1>1, <1>2, <1>5, <1>6 DEF Tells

\* One more.
LEMMA TellsMore ==
    ASSUME NEW data, NEW part, NEW types, NEW values, NEW n, Tells(data, types, values, n),
           Reads(part, types[n + 1], values[n + 1])
    PROVE  Tells(data \o part, types, values, n + 1)
<1>1. data \in Seq(Cell) /\ part \in Seq(Cell) /\ n \in Nat
  BY DEF Tells, Reads
<1>2. PICK s, at :
          s \in Seq(Seq(Cell)) /\ Len(s) = n /\ Joined(data, s, at) /\ \A i \in 1 .. n : Reads(s[i], types[i], values[i])
  BY DEF Tells
<1>3. /\ at \in [1 .. n + 1 -> Nat \ {0}] /\ at[1] = 1 /\ at[n + 1] = Len(data) + 1
      /\ \A i \in 1 .. n : at[i + 1] = at[i] + Len(s[i]) /\ Holds(data, at[i], s[i])
  BY <1>2 DEF Joined
<1> DEFINE t == Append(s, part)
           to == [i \in 1 .. n + 2 |-> IF i = n + 2 THEN Len(data) + Len(part) + 1 ELSE at[i]]
           whole == data \o part
<1>4. whole \in Seq(Cell) /\ Len(whole) = Len(data) + Len(part) /\ Len(data) \in Nat /\ Len(part) \in Nat
  BY <1>1, JoinCells
<1>5. t \in Seq(Seq(Cell)) /\ Len(t) = n + 1 /\ t[n + 1] = part /\ \A i \in 1 .. n : t[i] = s[i] /\ s[i] \in Seq(Cell)
  BY <1>1, <1>2
<1>6. \A i \in 1 .. n : Holds(whole, at[i], t[i])
  BY <1>1, <1>3, <1>5, HoldsOn
<1>7. Holds(whole, at[n + 1], t[n + 1])
  BY <1>1, <1>3, <1>5, HoldsSecond
<1> HIDE DEF t, whole
<1>8. /\ to \in [1 .. n + 2 -> Nat \ {0}] /\ to[n + 2] = Len(whole) + 1
      /\ \A i \in 1 .. n + 1 : to[i] = at[i]
  BY <1>1, <1>3, <1>4
<1> HIDE DEF to
<1>9. \A i \in 1 .. n + 1 : to[i + 1] = to[i] + Len(t[i]) /\ Holds(whole, to[i], t[i])
  <2>1. ASSUME NEW i \in 1 .. n PROVE to[i + 1] = to[i] + Len(t[i]) /\ Holds(whole, to[i], t[i])
    <3>1. i \in 1 .. n + 1 /\ i + 1 \in 1 .. n + 1
      BY <1>1
    <3> QED BY <1>3, <1>5, <1>6, <1>8, <3>1
  <2>2. to[(n + 1) + 1] = to[n + 1] + Len(t[n + 1]) /\ Holds(whole, to[n + 1], t[n + 1])
    <3>1. n + 1 \in 1 .. n + 1 /\ (n + 1) + 1 = n + 2
      BY <1>1
    <3>2. Len(whole) + 1 = (Len(data) + 1) + Len(part)
      BY <1>4
    <3> QED BY <1>3, <1>5, <1>7, <1>8, <3>1, <3>2
  <2>3. \A i \in 1 .. n + 1 : i \in 1 .. n \/ i = n + 1
    BY <1>1
  <2> QED BY <2>1, <2>2, <2>3
<1>10. Joined(whole, t, to)
  <2>1. (n + 1) + 1 = n + 2 /\ 1 \in 1 .. n + 1
    BY <1>1
  <2> QED BY <1>3, <1>5, <1>8, <1>9, <2>1 DEF Joined
<1>11. \A i \in 1 .. n + 1 : Reads(t[i], types[i], values[i])
  <2>1. \A i \in 1 .. n + 1 : i \in 1 .. n \/ i = n + 1
    BY <1>1
  <2> QED BY <1>2, <1>5, <2>1
<1>12. n + 1 \in Nat
  BY <1>1
<1> QED BY <1>4, <1>5, <1>10, <1>11, <1>12 DEF Tells, whole

\* What a dataset tells is what is read.
LEMMA TellsReading ==
    ASSUME NEW data, NEW types, NEW values \in Seq(Seq(Nat)), Len(types) = Len(values),
           Tells(data, types, values, Len(values))
    PROVE  Reading(data, types) = values
<1> DEFINE n == Len(values)
<1>1. data \in Seq(Cell) /\ n \in Nat
  BY DEF Tells
<1>2. PICK s, at :
          s \in Seq(Seq(Cell)) /\ Len(s) = n /\ Joined(data, s, at) /\ \A i \in 1 .. n : Reads(s[i], types[i], values[i])
  BY DEF Tells
<1>3. /\ at \in [1 .. n + 1 -> Nat \ {0}] /\ at[1] = 1 /\ at[n + 1] = Len(data) + 1
      /\ \A i \in 1 .. n : at[i + 1] = at[i] + Len(s[i]) /\ Holds(data, at[i], s[i])
  BY <1>2 DEF Joined
<1>4. ASSUME NEW i \in 1 .. n PROVE Take(data, at[i], types[i]) = [next |-> at[i + 1], value |-> values[i]]
  <2> HIDE DEF n
  <2>1. i \in 1 .. n + 1 /\ at[i] \in Nat \ {0}
    <3>1. i \in 1 .. n + 1
      BY <1>1
    <3> QED BY <1>3, <3>1
  <2>2. Take(data, at[i], types[i]) = [next |-> at[i] + Len(s[i]), value |-> values[i]]
    BY <1>1, <1>2, <1>3, <2>1 DEF Reads
  <2> QED BY <1>3, <2>2
<1>5. at[1] = 1 /\ at[Len(values) + 1] = Len(data) + 1
  BY <1>3
<1>6. \A i \in 1 .. Len(values) : Take(data, at[i], types[i]) = [next |-> at[i + 1], value |-> values[i]]
  BY <1>4
<1> QED BY ONLY <1>1, <1>5, <1>6, Len(types) = Len(values), values \in Seq(Seq(Nat)), ReadingLemma

\* An integer.
LEMMA ReadsInteger ==
    ASSUME NEW part, NEW w, NEW n, NEW type, OneCell(part, w, n), type # MTP_TYPE_STR, Widths(type) = <<w>>
    PROVE  Reads(part, type, <<n>>)
<1>1. part \in Seq(Cell)
  BY DEF OneCell
<1>2. ASSUME NEW data \in Seq(Cell), NEW p \in Nat \ {0}, Holds(data, p, part)
      PROVE  Take(data, p, type) = [next |-> p + Len(part), value |-> <<n>>]
  BY <1>2, TakeInteger
<1> QED BY <1>1, <1>2 DEF Reads

\* A name.
LEMMA ReadsName ==
    ASSUME NEW name \in Seq(Told), Len(name) < MaxCount
    PROVE  Reads(putString(name), MTP_TYPE_STR, name)
<1>1. putString(name) = Wire(name)
  BY WriteLemma
<1>2. name \in Seq(Nat)
  <2>1. \A c \in Told : c \in Nat
    BY CharAssumption DEF Told
  <2>2. Len(name) \in Nat /\ name = [i \in 1 .. Len(name) |-> name[i]] /\ \A i \in 1 .. Len(name) : name[i] \in Told
    OBVIOUS
  <2> QED BY <2>1, <2>2
<1>3. Wire(name) \in Seq(Cell)
  BY <1>2, WireLemma
<1>4. ASSUME NEW data \in Seq(Cell), NEW p \in Nat \ {0}, Holds(data, p, Wire(name))
      PROVE  Take(data, p, MTP_TYPE_STR) = [next |-> p + Len(Wire(name)), value |-> name]
  BY <1>2, <1>4, TakeName
<1> QED BY <1>1, <1>3, <1>4 DEF Reads

\* What the put operations write.
LEMMA ReadsPut ==
    ASSUME NEW n \in Nat
    PROVE  /\ Reads(putUInt8(0), MTP_TYPE_UINT8, <<0>>) /\ Reads(putUInt8(1), MTP_TYPE_UINT8, <<1>>)
           /\ Reads(putUInt16(n), MTP_TYPE_UINT16, <<n>>)
           /\ Reads(putUInt32(n), MTP_TYPE_UINT32, <<n % Word>>) /\ n % Word \in Nat
           /\ Reads(putUInt128(n), MTP_TYPE_UINT128, <<n, 0>>)
           /\ Reads(putUInt8(0), MTP_TYPE_STR, << >>)
<1>1. n % Word \in Nat /\ 0 % (MaxCount + 1) = 0 /\ 1 % (MaxCount + 1) = 1
  BY WidthAssumption
<1>2. OneCell(putUInt8(0), 1, 0) /\ OneCell(putUInt8(1), 1, 1)
  BY <1>1 DEF OneCell, putUInt8, Cell
<1>3. OneCell(putUInt16(n), 2, n)
  BY DEF OneCell, putUInt16, Cell
<1>4. OneCell(putUInt32(n), 4, n % Word)
  BY <1>1 DEF OneCell, putUInt32, Cell
<1>5. /\ MTP_TYPE_UINT8 # MTP_TYPE_STR /\ Widths(MTP_TYPE_UINT8) = <<1>>
      /\ MTP_TYPE_UINT16 # MTP_TYPE_STR /\ Widths(MTP_TYPE_UINT16) = <<2>>
      /\ MTP_TYPE_UINT32 # MTP_TYPE_STR /\ Widths(MTP_TYPE_UINT32) = <<4>>
  BY DEF Widths, MTP_TYPE_UINT8, MTP_TYPE_UINT16, MTP_TYPE_UINT32, MTP_TYPE_UINT128, MTP_TYPE_STR
<1>6. Reads(putUInt8(0), MTP_TYPE_UINT8, <<0>>) /\ Reads(putUInt8(1), MTP_TYPE_UINT8, <<1>>)
  BY <1>2, <1>5, ReadsInteger
<1>7. Reads(putUInt16(n), MTP_TYPE_UINT16, <<n>>)
  BY <1>3, <1>5, ReadsInteger
<1>8. Reads(putUInt32(n), MTP_TYPE_UINT32, <<n % Word>>)
  BY <1>4, <1>5, ReadsInteger
<1>9. Reads(putUInt128(n), MTP_TYPE_UINT128, <<n, 0>>)
  <2>1. putUInt128(n) \in Seq(Cell) /\ Len(putUInt128(n)) = 2
    BY Part128
  <2> QED BY <2>1, Take128 DEF Reads
<1>10. Reads(putUInt8(0), MTP_TYPE_STR, << >>)
  <2>1. << >> \in Seq(Nat)
    OBVIOUS
  <2>2. Wire(<< >>) = putUInt8(0)
    BY <1>1 DEF Wire, putUInt8
  <2> DEFINE name == << >>
  <2>3. name \in Seq(Nat) /\ Wire(name) = putUInt8(0)
    BY <2>1, <2>2
  <2> HIDE DEF name
  <2>4. Wire(name) \in Seq(Cell)
    BY <2>3, WireLemma
  <2>5. Reads(Wire(name), MTP_TYPE_STR, name)
    BY <2>3, <2>4, TakeName DEF Reads
  <2> QED BY <2>3, <2>5 DEF name
<1> QED BY <1>1, <1>6, <1>7, <1>8, <1>9, <1>10

\* Numbers of a word.
LEMMA SmallLemma ==
    ASSUME NEW n \in Nat, n < Word
    PROVE  n % Word = n
  BY WidthAssumption

-----------------------------------------------------------------------------
(* Object info.                                                            *)

\* The name of an object that can be told.
LEMMA LegibleLemma ==
    ASSUME TypeOK, NEW h \in Legible
    PROVE  /\ h \in DOMAIN db /\ db[h] \in DbEntry /\ h \in Handle
           /\ db[h].display_name \in Seq(Told) /\ Len(db[h].display_name) < MaxCount
<1>1. h \in DOMAIN db /\ db[h] \in DbEntry /\ h \in Handle /\ Fits(db[h].display_name)
  BY DEF TypeOK, Legible
<1> DEFINE name == db[h].display_name
<1>2. name \in CardName \cup HostName
  BY <1>1 DEF DbEntry
<1>3. Len(name) < MaxCount /\ \A i \in DOMAIN name : name[i] \notin Four
  BY <1>1 DEF Fits
<1> HIDE DEF name
<1>4. name \in Seq(Told \cup Four)
  <2>1. CASE name \in CardName
    BY <2>1, NameAssumption DEF Told
  <2>2. CASE name \in HostName
    <3>1. name \in Seq(Told)
      BY <2>2, NameAssumption DEF Told
    <3> QED BY <3>1
  <2> QED BY <1>2, <2>1, <2>2
<1>5. name \in Seq(Told)
  <2>1. \A i \in 1 .. Len(name) : name[i] \in Told \cup Four /\ name[i] \notin Four
    BY <1>3, <1>4
  <2>2. \A i \in 1 .. Len(name) : name[i] \in Told
    BY <2>1
  <2>3. name = [i \in 1 .. Len(name) |-> name[i]] /\ Len(name) \in Nat
    BY <1>4
  <2>4. name \in [1 .. Len(name) -> Told]
    BY <2>2, <2>3
  <2> QED BY <2>3, <2>4
<1> QED BY <1>1, <1>3, <1>5 DEF name

\* The date can be told.
LEMMA DateLemma == Date \in Seq(Told) /\ Len(Date) < MaxCount
  BY NameAssumption DEF Told

\* Characters are naturals.
LEMMA ToldNaturals ==
    ASSUME NEW name \in Seq(Told)
    PROVE  name \in Seq(Nat)
<1>1. \A c \in Told : c \in Nat
  BY CharAssumption DEF Told
<1>2. Len(name) \in Nat /\ name = [i \in 1 .. Len(name) |-> name[i]] /\ \A i \in 1 .. Len(name) : name[i] \in Told
  OBVIOUS
<1>3. name \in [1 .. Len(name) -> Nat]
  BY <1>1, <1>2
<1> QED BY <1>2, <1>3

\* The size that object info has.
InfoSize(h) ==
    IF h \notin DOMAIN edit THEN db[h].object_size
    ELSE IF edit[h] >= Word THEN Word - 1 ELSE edit[h]

\* What object info is read as.
InfoValues(h) ==
    <<<<MTP_STORAGE % Word>>, <<db[h].object_format>>, <<InfoSize(h) % Word>>, <<db[h].parent % Word>>,
      db[h].display_name, << >>, Date, << >> >>

LEMMA InfoLemma ==
    ASSUME TypeOK, NEW h \in Legible
    PROVE  Reading(GetObjectInfo(h).mData, InfoTypes) = InfoValues(h)
<1> DEFINE a1 == putUInt32(MTP_STORAGE)
           a2 == putUInt16(db[h].object_format)
           a3 == putUInt32(InfoSize(h))
           a4 == putUInt32(db[h].parent)
           a5 == putString(db[h].display_name)
           a6 == putUInt8(0)
           a7 == putString(Date)
           types == InfoTypes
           values == InfoValues(h)
<1>1. /\ h \in DOMAIN db /\ db[h] \in DbEntry /\ h \in Handle
      /\ db[h].display_name \in Seq(Told) /\ Len(db[h].display_name) < MaxCount
  BY LegibleLemma
<1>2. MTP_STORAGE \in Nat /\ db[h].object_format \in Nat /\ db[h].parent \in Nat
  BY <1>1, NameAssumption DEF DbEntry, MTP_STORAGE, MTP_FORMAT_UNDEFINED, MTP_FORMAT_ASSOCIATION, kInvalidObjectHandle
<1>3. InfoSize(h) \in Nat
  <2>1. db[h].object_size \in Nat /\ (h \in DOMAIN edit => edit[h] \in Nat)
    BY <1>1, NameAssumption DEF TypeOK, DbEntry
  <2> QED BY <2>1, WidthAssumption DEF InfoSize
<1>4. GetObjectInfo(h).mData = a1 \o a2 \o a3 \o a4 \o a5 \o a6 \o a7 \o a6
  <2>1. h # 0 /\ h # kInvalidObjectHandle
    BY <1>1, NameAssumption DEF Handle, kInvalidObjectHandle
  <2>2. GetObjectInfo(h).mData = ObjectInfo(h)
    BY <1>1, <2>1 DEF GetObjectInfo, Answer
  <2>3. ObjectInfo(h) = a1 \o a2 \o a3 \o a4 \o a5 \o a6 \o a7 \o a6
    BY DEF ObjectInfo, InfoSize
  <2> QED BY <2>2, <2>3
<1>5. /\ types[1] = MTP_TYPE_UINT32 /\ types[2] = MTP_TYPE_UINT16 /\ types[3] = MTP_TYPE_UINT32
      /\ types[4] = MTP_TYPE_UINT32 /\ types[5] = MTP_TYPE_STR /\ types[6] = MTP_TYPE_STR
      /\ types[7] = MTP_TYPE_STR /\ types[8] = MTP_TYPE_STR /\ Len(types) = 8
  BY DEF InfoTypes
<1>6. /\ values[1] = <<MTP_STORAGE % Word>> /\ values[2] = <<db[h].object_format>>
      /\ values[3] = <<InfoSize(h) % Word>> /\ values[4] = <<db[h].parent % Word>>
      /\ values[5] = db[h].display_name /\ values[6] = << >> /\ values[7] = Date /\ values[8] = << >>
      /\ Len(values) = 8
  BY DEF InfoValues
<1>7. values \in Seq(Seq(Nat))
  <2>1. db[h].display_name \in Seq(Nat) /\ Date \in Seq(Nat) /\ << >> \in Seq(Nat)
    BY <1>1, DateLemma, ToldNaturals
  <2>2. MTP_STORAGE % Word \in Nat /\ InfoSize(h) % Word \in Nat /\ db[h].parent % Word \in Nat
    BY <1>2, <1>3, WidthAssumption
  <2>3. /\ <<MTP_STORAGE % Word>> \in Seq(Nat) /\ <<db[h].object_format>> \in Seq(Nat)
        /\ <<InfoSize(h) % Word>> \in Seq(Nat) /\ <<db[h].parent % Word>> \in Seq(Nat)
    BY <1>2, <2>2
  <2> QED BY <2>1, <2>3 DEF InfoValues
<1>8. /\ Reads(a1, types[1], values[1]) /\ Reads(a2, types[2], values[2]) /\ Reads(a3, types[3], values[3])
      /\ Reads(a4, types[4], values[4])
  BY <1>2, <1>3, <1>5, <1>6, ReadsPut
<1>9. Reads(a5, types[5], values[5]) /\ Reads(a7, types[7], values[7])
  BY <1>1, <1>5, <1>6, DateLemma, ReadsName
<1>10. Reads(a6, types[6], values[6]) /\ Reads(a6, types[8], values[8])
  BY <1>5, <1>6, ReadsPut
<1> HIDE DEF a1, a2, a3, a4, a5, a6, a7, types, values
<1>11. Tells(a1, types, values, 1)
  BY <1>8, TellsOne
<1>12. Tells(a1 \o a2, types, values, 2)
  BY <1>8, <1>11, TellsMore
<1>13. Tells(a1 \o a2 \o a3, types, values, 3)
  BY <1>8, <1>12, TellsMore
<1>14. Tells(a1 \o a2 \o a3 \o a4, types, values, 4)
  BY <1>8, <1>13, TellsMore
<1>15. Tells(a1 \o a2 \o a3 \o a4 \o a5, types, values, 5)
  BY <1>9, <1>14, TellsMore
<1>16. Tells(a1 \o a2 \o a3 \o a4 \o a5 \o a6, types, values, 6)
  BY <1>10, <1>15, TellsMore
<1>17. Tells(a1 \o a2 \o a3 \o a4 \o a5 \o a6 \o a7, types, values, 7)
  BY <1>9, <1>16, TellsMore
<1>18. Tells(a1 \o a2 \o a3 \o a4 \o a5 \o a6 \o a7 \o a6, types, values, 8)
  BY <1>10, <1>17, TellsMore
<1>19. Reading(GetObjectInfo(h).mData, types) = values
  <2> DEFINE data == GetObjectInfo(h).mData
  <2>1. Tells(data, types, values, Len(values)) /\ Len(types) = Len(values)
    BY <1>4, <1>5, <1>6, <1>18
  <2> HIDE DEF data
  <2>2. Reading(data, types) = values
    BY ONLY <1>7, <2>1, TellsReading
  <2> QED BY <2>2 DEF data
<1> QED BY <1>19 DEF types, values

\* What is read of object info is the object's.
LEMMA InfoIsTold == TypeOK => InfoTold
<1> SUFFICES ASSUME TypeOK PROVE InfoTold
  OBVIOUS
<1> SUFFICES ASSUME NEW h \in Legible
             PROVE  LET told == Reading(GetObjectInfo(h).mData, InfoTypes)
                        size == IF h \in DOMAIN edit THEN edit[h] ELSE db[h].object_size
                    IN  /\ told # << >>
                        /\ told[2] = <<db[h].object_format>>
                        /\ size < Word => told[3] = <<size>>
                        /\ told[4] = <<db[h].parent>>
                        /\ told[5] = db[h].display_name
  BY DEF InfoTold
<1> DEFINE told == Reading(GetObjectInfo(h).mData, InfoTypes)
           size == IF h \in DOMAIN edit THEN edit[h] ELSE db[h].object_size
<1>1. h \in DOMAIN db /\ db[h] \in DbEntry
  BY LegibleLemma
<1>2. told = InfoValues(h)
  BY InfoLemma
<1>3. /\ told[2] = <<db[h].object_format>> /\ told[3] = <<InfoSize(h) % Word>>
      /\ told[4] = <<db[h].parent % Word>> /\ told[5] = db[h].display_name /\ Len(told) = 8
  BY <1>2 DEF InfoValues
<1>4. size < Word => InfoSize(h) % Word = size
  <2>1. size \in Nat
    BY <1>1, NameAssumption DEF TypeOK, DbEntry
  <2>2. size < Word => InfoSize(h) = size
    BY <2>1, WidthAssumption DEF InfoSize
  <2> HIDE DEF size
  <2> QED BY <2>1, <2>2, SmallLemma
<1>5. db[h].parent % Word = db[h].parent
  <2>1. db[h].parent \in Nat /\ db[h].parent < Word
    BY <1>1, NameAssumption, WidthAssumption DEF DbEntry, kInvalidObjectHandle
  <2> QED BY <2>1, SmallLemma
<1>6. told # << >>
  <2>1. Len(<< >>) = 0
    OBVIOUS
  <2> QED BY <1>3, <2>1
<1> HIDE DEF told, size
<1>7. told # << >> /\ told[2] = <<db[h].object_format>> /\ (size < Word => told[3] = <<size>>)
      /\ told[4] = <<db[h].parent>> /\ told[5] = db[h].display_name
  BY <1>3, <1>4, <1>5, <1>6
<1> QED BY <1>7 DEF told, size

\* The host's names can be told.
LEMMA NamesAreKept == DatabaseInv => NamesKept
<1> SUFFICES ASSUME DatabaseInv, NEW h \in DOMAIN hostName
             PROVE  Reading(GetObjectInfo(h).mData, InfoTypes)[5] = hostName[h]
  BY DEF NamesKept
<1>1. h \in DOMAIN db /\ db[h].display_name = hostName[h] /\ hostName[h] \in HostName
  BY DEF DatabaseInv, TypeOK, Named
<1>2. Fits(hostName[h])
  <2> DEFINE name == hostName[h]
  <2>1. name \in Seq(Told) /\ Len(name) < MaxCount
    BY <1>1, NameAssumption DEF Told
  <2> HIDE DEF name
  <2>2. \A i \in DOMAIN name : name[i] \notin Four
    <3>1. \A i \in DOMAIN name : name[i] \in Told
      BY <2>1
    <3>2. Told \cap Four = {}
      BY CharAssumption DEF Told
    <3> QED BY <3>1, <3>2
  <2> QED BY <2>1, <2>2 DEF Fits, name
<1>3. h \in Legible
  BY <1>1, <1>2 DEF Legible
<1>4. Reading(GetObjectInfo(h).mData, InfoTypes) = InfoValues(h)
  BY <1>3, InfoLemma DEF DatabaseInv
<1>5. InfoValues(h)[5] = db[h].display_name
  BY DEF InfoValues
<1> QED BY <1>1, <1>4, <1>5

-----------------------------------------------------------------------------
(* Descriptions and values.                                                *)

\* A dataset of one value.
LEMMA OneReading ==
    ASSUME NEW part, NEW type, NEW value \in Seq(Nat), Reads(part, type, value)
    PROVE  Reading(part, <<type>>) = <<value>>
<1> DEFINE types == <<type>>
           values == <<value>>
<1>1. values \in Seq(Seq(Nat)) /\ Len(types) = 1 /\ Len(values) = 1 /\ types[1] = type /\ values[1] = value
  OBVIOUS
<1> HIDE DEF types, values
<1>2. Tells(part, types, values, 1)
  BY <1>1, TellsOne
<1>3. Reading(part, types) = values
  BY <1>1, <1>2, TellsReading
<1> QED BY <1>3 DEF types, values

\* The type that the description of a property names.
PropertyType(p) == getObjectPropertyDesc(p).mType

PropertyName ==
    {"STORAGE_ID", "PARENT_OBJECT", "OBJECT_FORMAT", "OBJECT_SIZE", "OBJECT_FILE_NAME", "DISPLAY_NAME",
     "PERSISTENT_UID", "ASSOCIATION_TYPE", "ASSOCIATION_DESC", "PROTECTION_STATUS", "DATE_CREATED",
     "DATE_MODIFIED", "HIDDEN", "NON_CONSUMABLE"}

LEMMA PropertyLemma ==
    /\ Property = PropertyName
    /\ \A p \in Property :
          /\ Code[p] \in Nat /\ ~isDeviceProperty(Code[p])
          /\ getObjectPropertyDesc(p).mCode = Code[p]
          /\ getObjectPropertyDesc(p).mWriteable \in BOOLEAN
          /\ PropertyType(p) =
                IF p \in {"STORAGE_ID", "PARENT_OBJECT", "OBJECT_SIZE", "ASSOCIATION_DESC"} THEN MTP_TYPE_UINT32
                ELSE IF p \in {"DISPLAY_NAME", "OBJECT_FILE_NAME", "DATE_CREATED", "DATE_MODIFIED"} THEN MTP_TYPE_STR
                ELSE IF p = "PERSISTENT_UID" THEN MTP_TYPE_UINT128
                ELSE MTP_TYPE_UINT16
<1>1. Property = PropertyName
  BY DEF Property, PropertyName, ToSet, getSupportedObjectProperties
<1>2. ASSUME NEW p \in PropertyName
      PROVE  Code[p] \in Nat /\ ~isDeviceProperty(Code[p])
  <2>1. /\ Code["STORAGE_ID"] = 56321 /\ Code["OBJECT_FORMAT"] = 56322 /\ Code["PROTECTION_STATUS"] = 56323
        /\ Code["OBJECT_SIZE"] = 56324 /\ Code["ASSOCIATION_TYPE"] = 56325 /\ Code["ASSOCIATION_DESC"] = 56326
        /\ Code["OBJECT_FILE_NAME"] = 56327 /\ Code["DATE_CREATED"] = 56328 /\ Code["DATE_MODIFIED"] = 56329
        /\ Code["PARENT_OBJECT"] = 56331 /\ Code["HIDDEN"] = 56333 /\ Code["PERSISTENT_UID"] = 56385
        /\ Code["DISPLAY_NAME"] = 56544 /\ Code["NON_CONSUMABLE"] = 56399
    BY DEF Code
  <2>2. Code[p] \in Nat /\ Code[p] >= 56321 /\ Code[p] <= 56544
    BY <1>2, <2>1 DEF PropertyName
  <2>3. \A n \in Nat : n >= 56321 /\ n <= 56544 => ~isDeviceProperty(n)
    BY DEF isDeviceProperty
  <2> QED BY ONLY <2>2, <2>3
<1>3. ASSUME NEW p
      PROVE  /\ getObjectPropertyDesc(p).mCode = Code[p]
             /\ getObjectPropertyDesc(p).mWriteable \in BOOLEAN
             /\ PropertyType(p) =
                   IF p \in {"STORAGE_ID", "PARENT_OBJECT", "OBJECT_SIZE", "ASSOCIATION_DESC"} THEN MTP_TYPE_UINT32
                   ELSE IF p \in {"DISPLAY_NAME", "OBJECT_FILE_NAME", "DATE_CREATED", "DATE_MODIFIED"} THEN MTP_TYPE_STR
                   ELSE IF p = "PERSISTENT_UID" THEN MTP_TYPE_UINT128
                   ELSE MTP_TYPE_UINT16
  BY DEF PropertyType, getObjectPropertyDesc, MtpProperty
<1> QED BY <1>1, <1>2, <1>3

\* The value of a property has the type it is described with, and is the
\* object's.
LEMMA ValueLemma ==
    ASSUME TypeOK, NEW h \in Legible, NEW p \in Property \ {"NON_CONSUMABLE"}
    PROVE  \E v \in Seq(Nat) : Reads(Value(p, h), PropertyType(p), v) /\ Agrees(p, h, v)
<1>1. /\ h \in DOMAIN db /\ db[h] \in DbEntry /\ h \in Handle /\ h \in Nat
      /\ db[h].display_name \in Seq(Told) /\ Len(db[h].display_name) < MaxCount
  BY LegibleLemma, NameAssumption DEF Handle
<1>2. /\ MTP_STORAGE \in Nat /\ db[h].object_format \in Nat
      /\ db[h].parent \in Nat /\ db[h].parent < Word /\ db[h].object_size \in Nat
  <2>1. db[h].object_format \in Nat
    BY <1>1 DEF DbEntry, MTP_FORMAT_UNDEFINED, MTP_FORMAT_ASSOCIATION
  <2>3. db[h].object_size \in Nat
    <3>1. db[h].object_size \in FileSize \cup {0}
      BY <1>1 DEF DbEntry
    <3>2. FileSize \subseteq Nat
      BY NameAssumption
    <3>3. 0 \in Nat
      OBVIOUS
    <3> QED BY ONLY <3>1, <3>2, <3>3, Zenon
  <2>2. db[h].parent \in Nat /\ db[h].parent < Word
    BY <1>1, NameAssumption, WidthAssumption DEF DbEntry, kInvalidObjectHandle
  <2> QED BY <2>1, <2>2, <2>3 DEF MTP_STORAGE
<1>3. \A n \in Nat : <<n>> \in Seq(Nat) /\ <<n, 0>> \in Seq(Nat)
  OBVIOUS
<1>4. \A n \in Nat : n < Word => n % Word = n
  BY SmallLemma
<1>5. \A n \in Nat : /\ Reads(putUInt16(n), MTP_TYPE_UINT16, <<n>>)
                     /\ Reads(putUInt32(n), MTP_TYPE_UINT32, <<n % Word>>) /\ n % Word \in Nat
                     /\ Reads(putUInt128(n), MTP_TYPE_UINT128, <<n, 0>>)
  BY ReadsPut
<1>6. /\ Reads(putString(db[h].display_name), MTP_TYPE_STR, db[h].display_name)
      /\ Reads(putString(Date), MTP_TYPE_STR, Date)
      /\ db[h].display_name \in Seq(Nat) /\ Date \in Seq(Nat)
  BY <1>1, DateLemma, ReadsName, ToldNaturals
<1>7. /\ PropertyType(p) =
                IF p \in {"STORAGE_ID", "PARENT_OBJECT", "OBJECT_SIZE", "ASSOCIATION_DESC"} THEN MTP_TYPE_UINT32
                ELSE IF p \in {"DISPLAY_NAME", "OBJECT_FILE_NAME", "DATE_CREATED", "DATE_MODIFIED"} THEN MTP_TYPE_STR
                ELSE IF p = "PERSISTENT_UID" THEN MTP_TYPE_UINT128
                ELSE MTP_TYPE_UINT16
      /\ p \in PropertyName
  BY PropertyLemma
<1>8. CASE p = "STORAGE_ID"
  <2>1. Value(p, h) = putUInt32(MTP_STORAGE) /\ \A v : Agrees(p, h, v)
    BY <1>8 DEF Value, Agrees
  <2> QED BY <1>2, <1>3, <1>5, <1>7, <1>8, <2>1
<1>9. CASE p = "PARENT_OBJECT"
  <2>1. Value(p, h) = putUInt32(db[h].parent) /\ Agrees(p, h, <<db[h].parent>>)
    BY <1>9 DEF Value, Agrees
  <2> QED BY <1>2, <1>3, <1>4, <1>5, <1>7, <1>9, <2>1
<1>10. CASE p = "OBJECT_FORMAT"
  <2>1. Value(p, h) = putUInt16(db[h].object_format) /\ Agrees(p, h, <<db[h].object_format>>)
    BY <1>10 DEF Value, Agrees
  <2> QED BY <1>2, <1>3, <1>5, <1>7, <1>10, <2>1
<1>11. CASE p = "OBJECT_SIZE"
  <2> DEFINE v == <<db[h].object_size % Word>>
  <2>1. Value(p, h) = putUInt32(db[h].object_size)
    BY <1>11 DEF Value
  <2>2. db[h].object_size < Word => v = <<db[h].object_size>>
    BY <1>2, <1>4
  <2>3. Agrees(p, h, v)
    BY <1>11, <2>2 DEF Agrees
  <2>4. v \in Seq(Nat) /\ Reads(putUInt32(db[h].object_size), MTP_TYPE_UINT32, v)
    BY <1>2, <1>3, <1>5
  <2> HIDE DEF v
  <2> QED BY <1>7, <1>11, <2>1, <2>3, <2>4
<1>12. CASE p \in {"OBJECT_FILE_NAME", "DISPLAY_NAME"}
  <2>1. Value(p, h) = putString(db[h].display_name) /\ Agrees(p, h, db[h].display_name)
    BY <1>12 DEF Value, Agrees
  <2> QED BY <1>6, <1>7, <1>12, <2>1
<1>13. CASE p = "PERSISTENT_UID"
  <2>1. Value(p, h) = putUInt128(h) /\ Agrees(p, h, <<h, 0>>)
    BY <1>13 DEF Value, Agrees
  <2> QED BY <1>1, <1>3, <1>5, <1>7, <1>13, <2>1
<1>14. CASE p \in {"DATE_CREATED", "DATE_MODIFIED"}
  <2>1. Value(p, h) = putString(Date) /\ \A v : Agrees(p, h, v)
    BY <1>14 DEF Value, Agrees
  <2> QED BY <1>6, <1>7, <1>14, <2>1
<1>15. CASE p = "ASSOCIATION_DESC"
  <2>1. Value(p, h) = putUInt32(0) /\ \A v : Agrees(p, h, v)
    BY <1>15 DEF Value, Agrees
  <2> QED BY <1>3, <1>5, <1>7, <1>15, <2>1
<1>16. CASE p \in {"ASSOCIATION_TYPE", "PROTECTION_STATUS", "HIDDEN"}
  <2> DEFINE n == IF p = "ASSOCIATION_TYPE" /\ IsFolder(h) THEN 1 ELSE 0
  <2>1. Value(p, h) = putUInt16(n) /\ (\A v : Agrees(p, h, v)) /\ n \in Nat
    BY <1>16 DEF Value, Agrees
  <2> HIDE DEF n
  <2>2. PropertyType(p) = MTP_TYPE_UINT16
    BY <1>7, <1>16
  <2> QED BY <1>3, <1>5, <2>1, <2>2
<1> QED BY <1>7, <1>8, <1>9, <1>10, <1>11, <1>12, <1>13, <1>14, <1>15, <1>16 DEF PropertyName

\* A joined part stands at the beginning.
LEMMA HoldsFirst ==
    ASSUME NEW S, NEW a \in Seq(S), NEW b \in Seq(S)
    PROVE  Holds(a \o b, 1, a)
<1>1. Holds(a, 1, a)
  BY HoldsAll
<1> QED BY <1>1, HoldsOn

\* What a dataset begins with, a longer one begins with.
LEMMA BeginsLemma ==
    ASSUME NEW a \in Seq(Cell), NEW b \in Seq(Cell), NEW part \in Seq(Cell), Holds(a, 1, part)
    PROVE  Holds(a \o b, 1, part) /\ a \o b \in Seq(Cell)
  BY HoldsOn, JoinCells

\* Two joined sequences of types.
LEMMA JoinTypes ==
    ASSUME NEW a \in Seq(Nat), NEW b \in Seq(Nat)
    PROVE  /\ a \o b \in Seq(Nat) /\ Len(a \o b) = Len(a) + Len(b)
           /\ \A k \in 1 .. Len(a) : (a \o b)[k] = a[k]
           /\ \A k \in 1 .. Len(b) : (a \o b)[Len(a) + k] = b[k]
  OBVIOUS

\* The default value of a property has its type.
LEMMA DefaultLemma ==
    ASSUME NEW p \in Property
    PROVE  \E v \in Seq(Nat) : Reads(writeValue(PropertyType(p)), PropertyType(p), v)
<1>1. /\ Reads(putUInt16(0), MTP_TYPE_UINT16, <<0>>) /\ Reads(putUInt32(0), MTP_TYPE_UINT32, <<0 % Word>>)
      /\ Reads(putUInt128(0), MTP_TYPE_UINT128, <<0, 0>>) /\ Reads(putUInt8(0), MTP_TYPE_STR, << >>)
      /\ 0 % Word \in Nat
  BY ReadsPut
<1>2. <<0>> \in Seq(Nat) /\ <<0 % Word>> \in Seq(Nat) /\ <<0, 0>> \in Seq(Nat) /\ << >> \in Seq(Nat)
  BY <1>1
<1>3. PropertyType(p) \in {MTP_TYPE_UINT16, MTP_TYPE_UINT32, MTP_TYPE_UINT128, MTP_TYPE_STR}
  BY PropertyLemma
<1>4. /\ writeValue(MTP_TYPE_UINT16) = putUInt16(0) /\ writeValue(MTP_TYPE_UINT32) = putUInt32(0)
      /\ writeValue(MTP_TYPE_UINT128) = putUInt128(0) /\ writeValue(MTP_TYPE_STR) = putUInt8(0)
  BY DEF writeValue, MTP_TYPE_UINT16, MTP_TYPE_UINT32, MTP_TYPE_UINT128, MTP_TYPE_STR
<1> QED BY <1>1, <1>2, <1>3, <1>4

\* The program's own reader takes the description of an object property.
LEMMA DescriptionLemma ==
    ASSUME NEW p \in Property
    PROVE  LET desc == read(GetObjectPropDesc(p).mData)
           IN  desc # << >> /\ desc[1].mCode = Code[p] /\ desc[1].mType = PropertyType(p)
<1> DEFINE property == getObjectPropertyDesc(p)
           type == PropertyType(p)
           one == IF property.mWriteable THEN 1 ELSE 0
           a1 == putUInt16(Code[p])
           a2 == putUInt16(type)
           a3 == putUInt8(one)
           a4 == writeValue(type)
           a5 == putUInt32(0)
           a6 == putUInt8(0)
           data == GetObjectPropDesc(p).mData
<1>1. /\ Code[p] \in Nat /\ ~isDeviceProperty(Code[p]) /\ property.mCode = Code[p] /\ property.mType = type
      /\ type \in Nat
  BY PropertyLemma DEF PropertyType, MTP_TYPE_UINT16, MTP_TYPE_UINT32, MTP_TYPE_UINT128, MTP_TYPE_STR
<1>2. PICK default \in Seq(Nat) : Reads(a4, type, default)
  BY DefaultLemma
<1>3. data = a1 \o a2 \o a3 \o a4 \o << >> \o a5 \o a6
  <2>1. data = write(property)
    BY DEF GetObjectPropDesc, Answer
  <2> HIDE DEF property, type
  <2> QED BY <1>1, <2>1 DEF write, type
<1>4. /\ Reads(a1, MTP_TYPE_UINT16, <<Code[p]>>) /\ Reads(a2, MTP_TYPE_UINT16, <<type>>)
      /\ Reads(a5, MTP_TYPE_UINT32, <<0 % Word>>) /\ Reads(a6, MTP_TYPE_UINT8, <<0>>) /\ 0 % Word \in Nat
  <2> HIDE DEF type
  <2> QED BY <1>1, ReadsPut
<1>5. Reads(a3, MTP_TYPE_UINT8, <<one>>) /\ one \in Nat
  BY ReadsPut
<1>6. /\ OneCell(a1, 2, Code[p]) /\ OneCell(a2, 2, type)
  <2> HIDE DEF type
  <2> QED BY <1>1 DEF OneCell, putUInt16, Cell
<1> HIDE DEF property, type, one, a1, a2, a3, a4, a5, a6, data
<1>7. /\ a1 \in Seq(Cell) /\ a2 \in Seq(Cell) /\ a3 \in Seq(Cell) /\ a4 \in Seq(Cell) /\ a5 \in Seq(Cell)
      /\ a6 \in Seq(Cell) /\ << >> \in Seq(Cell)
  BY <1>2, <1>4, <1>5 DEF Reads
<1>8. data = a1 \o a2 \o a3 \o a4 \o a5 \o a6
  <2> DEFINE b == a1 \o a2 \o a3 \o a4
  <2>1. b \in Seq(Cell)
    BY <1>7
  <2> HIDE DEF b
  <2>2. b \o << >> = b
    BY <2>1
  <2> QED BY <1>3, <2>2 DEF b
<1>9. data[1].value = Code[p] /\ data[2].value = type
  <2> DEFINE b == a1 \o a2
  <2>1. b \in Seq(Cell) /\ Len(b) = 2 /\ b[1] = a1[1] /\ b[2] = a2[1]
    <3>1. Len(a1) = 1 /\ Len(a2) = 1
      BY <1>6 DEF OneCell
    <3>2. /\ b \in Seq(Cell) /\ Len(b) = Len(a1) + Len(a2)
          /\ \A k \in 1 .. Len(a1) : b[k] = a1[k]
          /\ \A k \in 1 .. Len(a2) : b[Len(a1) + k] = a2[k]
      BY <1>7, JoinCells
    <3> HIDE DEF b
    <3>3. b[1 + 1] = a2[1] /\ b[1] = a1[1]
      BY ONLY <3>1, <3>2
    <3> QED BY <3>1, <3>2, <3>3
  <2> HIDE DEF b
  <2>2. Holds(b \o a3, 1, b) /\ b \o a3 \in Seq(Cell)
    BY <1>7, <2>1, HoldsFirst
  <2>3. Holds(b \o a3 \o a4, 1, b) /\ b \o a3 \o a4 \in Seq(Cell)
    BY ONLY <1>7, <2>1, <2>2, BeginsLemma
  <2>4. Holds(b \o a3 \o a4 \o a5, 1, b) /\ b \o a3 \o a4 \o a5 \in Seq(Cell)
    BY ONLY <1>7, <2>1, <2>3, BeginsLemma
  <2>5. Holds(b \o a3 \o a4 \o a5 \o a6, 1, b)
    BY ONLY <1>7, <2>1, <2>4, BeginsLemma
  <2>6. Holds(data, 1, b)
    BY <1>8, <2>5 DEF b
  <2>7. data[1] = b[1] /\ data[2] = b[2]
    <3>1. \A k \in 1 .. 2 : data[1 + k - 1] = b[k]
      BY <2>1, <2>6 DEF Holds
    <3> QED BY <3>1
  <2> QED BY <1>6, <2>1, <2>7 DEF OneCell
<1> DEFINE types == Fields(Code[p], type)
           values == <<<<Code[p]>>, <<type>>, <<one>>, default, <<0 % Word>>, <<0>>>>
<1>10. /\ types[1] = MTP_TYPE_UINT16 /\ types[2] = MTP_TYPE_UINT16 /\ types[3] = MTP_TYPE_UINT8 /\ types[4] = type
       /\ types[5] = MTP_TYPE_UINT32 /\ types[6] = MTP_TYPE_UINT8 /\ Len(types) = 6
  <2> DEFINE f == <<MTP_TYPE_UINT16, MTP_TYPE_UINT16, MTP_TYPE_UINT8, type>>
             g == <<MTP_TYPE_UINT32>>
             k == <<MTP_TYPE_UINT8>>
  <2>1. f \in Seq(Nat) /\ Len(f) = 4 /\ f[1] = MTP_TYPE_UINT16 /\ f[2] = MTP_TYPE_UINT16
        /\ f[3] = MTP_TYPE_UINT8 /\ f[4] = type
    BY <1>1 DEF MTP_TYPE_UINT16, MTP_TYPE_UINT8
  <2>2. g \in Seq(Nat) /\ Len(g) = 1 /\ g[1] = MTP_TYPE_UINT32
    BY DEF MTP_TYPE_UINT32
  <2>3. k \in Seq(Nat) /\ Len(k) = 1 /\ k[1] = MTP_TYPE_UINT8
    BY DEF MTP_TYPE_UINT8
  <2>4. types = f \o g \o k
    BY <1>1 DEF Fields
  <2> HIDE DEF f, g, k, types
  <2> DEFINE fg == f \o g
  <2>5. /\ fg \in Seq(Nat) /\ Len(fg) = Len(f) + Len(g)
        /\ \A i \in 1 .. Len(f) : fg[i] = f[i]
        /\ \A i \in 1 .. Len(g) : fg[Len(f) + i] = g[i]
    BY <2>1, <2>2, JoinTypes
  <2>6. types = fg \o k
    BY <2>4
  <2> HIDE DEF fg
  <2>8. Len(fg) = 5 /\ fg[4 + 1] = g[1] /\ \A i \in 1 .. 4 : fg[i] = f[i]
    BY ONLY <2>1, <2>2, <2>5
  <2>9. /\ Len(types) = Len(fg) + Len(k)
        /\ \A i \in 1 .. Len(fg) : types[i] = fg[i]
        /\ \A i \in 1 .. Len(k) : types[Len(fg) + i] = k[i]
    BY <2>3, <2>5, <2>6, JoinTypes
  <2>7. Len(types) = 6 /\ types[5 + 1] = k[1] /\ \A i \in 1 .. 5 : types[i] = fg[i]
    BY ONLY <2>3, <2>8, <2>9
  <2> QED BY <2>1, <2>2, <2>3, <2>7, <2>8
<1>11. /\ values \in Seq(Seq(Nat)) /\ Len(values) = 6
       /\ values[1] = <<Code[p]>> /\ values[2] = <<type>> /\ values[3] = <<one>> /\ values[4] = default
       /\ values[5] = <<0 % Word>> /\ values[6] = <<0>>
  <2>1. <<Code[p]>> \in Seq(Nat) /\ <<type>> \in Seq(Nat) /\ <<one>> \in Seq(Nat) /\ <<0 % Word>> \in Seq(Nat)
        /\ <<0>> \in Seq(Nat)
    BY <1>1, <1>4, <1>5
  <2> QED BY <1>2, <2>1
<1> HIDE DEF types, values
<1>12. /\ Reads(a1, types[1], values[1]) /\ Reads(a2, types[2], values[2]) /\ Reads(a3, types[3], values[3])
       /\ Reads(a4, types[4], values[4]) /\ Reads(a5, types[5], values[5]) /\ Reads(a6, types[6], values[6])
  BY <1>2, <1>4, <1>5, <1>10, <1>11
<1>13. Tells(a1 \o a2, types, values, 2)
  <2>1. Tells(a1, types, values, 1)
    BY <1>12, TellsOne
  <2> QED BY <1>12, <2>1, TellsMore
<1>14. Tells(a1 \o a2 \o a3, types, values, 3)
  BY <1>12, <1>13, TellsMore
<1>15. Tells(a1 \o a2 \o a3 \o a4, types, values, 4)
  BY <1>12, <1>14, TellsMore
<1>16. Tells(a1 \o a2 \o a3 \o a4 \o a5, types, values, 5)
  BY <1>12, <1>15, TellsMore
<1>17. Tells(data, types, values, 6)
  <2>1. Tells(a1 \o a2 \o a3 \o a4 \o a5 \o a6, types, values, 6)
    BY <1>12, <1>16, TellsMore
  <2> QED BY <1>8, <2>1
<1>18. Reading(data, types) = values
  <2>1. Tells(data, types, values, Len(values)) /\ Len(types) = Len(values) /\ values \in Seq(Seq(Nat))
    BY <1>10, <1>11, <1>17
  <2> QED BY ONLY <2>1, TellsReading
<1>19. values # << >>
  BY <1>11
<1>20. read(data) = <<MtpProperty(values[1][1], values[2][1], values[3] = <<1>>)>>
  BY <1>9, <1>18, <1>19 DEF read, types
<1>21. values[1][1] = Code[p] /\ values[2][1] = type
  BY <1>11
<1>22. read(data) # << >> /\ read(data)[1].mCode = Code[p] /\ read(data)[1].mType = type
  BY <1>20, <1>21 DEF MtpProperty
<1> QED BY <1>22 DEF data, type

\* The value of a property can be read as it is described.
LEMMA ValuesAreTold == TypeOK => PropValueTold
<1> SUFFICES ASSUME TypeOK PROVE PropValueTold
  OBVIOUS
<1>1. ASSUME NEW code \in DeviceProperty
      PROVE  Reading(GetDevicePropValue(code).mData, <<getDevicePropertyDesc(code).mType>>) # << >>
  <2> DEFINE name == << >>
  <2>1. name \in Seq(Told) /\ Len(name) < MaxCount
    BY WidthAssumption
  <2>2. name \in Seq(Nat)
    OBVIOUS
  <2>3. /\ GetDevicePropValue(code).mData = putString(name)
        /\ getDevicePropertyDesc(code).mType = MTP_TYPE_STR
    BY DEF GetDevicePropValue, Answer, getDevicePropertyDesc, MtpProperty
  <2> HIDE DEF name
  <2>4. Reading(putString(name), <<MTP_TYPE_STR>>) = <<name>>
    BY <2>1, <2>2, ReadsName, OneReading
  <2>5. <<name>> # << >>
    OBVIOUS
  <2> QED BY <2>3, <2>4, <2>5
<1>2. ASSUME NEW h \in Legible, NEW p \in Property \ {"NON_CONSUMABLE"}
      PROVE  LET desc == read(GetObjectPropDesc(p).mData)
                 told == Reading(GetObjectPropValue(h, p).mData, <<desc[1].mType>>)
             IN  /\ desc # << >> /\ desc[1].mCode = Code[p]
                 /\ told # << >> /\ Agrees(p, h, told[1])
  <2> DEFINE desc == read(GetObjectPropDesc(p).mData)
             told == Reading(GetObjectPropValue(h, p).mData, <<desc[1].mType>>)
  <2>1. desc # << >> /\ desc[1].mCode = Code[p] /\ desc[1].mType = PropertyType(p)
    BY DescriptionLemma
  <2>2. PICK v \in Seq(Nat) : Reads(Value(p, h), PropertyType(p), v) /\ Agrees(p, h, v)
    BY ValueLemma
  <2>3. GetObjectPropValue(h, p).mData = Value(p, h)
    <3>1. h \in DOMAIN db /\ h # 0 /\ h # kInvalidObjectHandle
      BY LegibleLemma, NameAssumption DEF Handle, kInvalidObjectHandle
    <3>2. PropValueResponse(h, p) = "OK"
      BY <3>1 DEF PropValueResponse
    <3> QED BY <3>2 DEF GetObjectPropValue, Answer
  <2>4. Reading(Value(p, h), <<PropertyType(p)>>) = <<v>>
    BY <2>2, OneReading
  <2>5. <<v>> # << >> /\ <<v>>[1] = v
    OBVIOUS
  <2>6. told = <<v>>
    BY <2>1, <2>3, <2>4
  <2> HIDE DEF desc, told
  <2>7. desc # << >> /\ desc[1].mCode = Code[p] /\ told # << >> /\ Agrees(p, h, told[1])
    BY <2>1, <2>2, <2>5, <2>6
  <2> QED BY <2>7 DEF desc, told
<1> QED BY <1>1, <1>2 DEF PropValueTold

-----------------------------------------------------------------------------
(* Lists.                                                                  *)

Increasing(s) == \A i, j \in DOMAIN s : i < j => s[i] < s[j]

\* Numbers up to m can be put in order.
LEMMA OrderExists ==
    ASSUME NEW m \in Nat, NEW S \in SUBSET (1 .. m)
    PROVE  IsFiniteSet(S) /\ Cardinality(S) \in Nat /\ \E s \in [1 .. Cardinality(S) -> S] : Increasing(s)
<1> DEFINE Ordered(T) == \E s \in [1 .. Cardinality(T) -> T] : Increasing(s)
           Fails == {k \in Nat : \E T \in SUBSET (1 .. k) : ~Ordered(T)}
<1>1. \A k \in Nat : \A T \in SUBSET (1 .. k) : IsFiniteSet(T) /\ Cardinality(T) \in Nat
  <2> SUFFICES ASSUME NEW k \in Nat, NEW T \in SUBSET (1 .. k)
               PROVE  IsFiniteSet(T) /\ Cardinality(T) \in Nat
    OBVIOUS
  <2>1. IsFiniteSet(1 .. k)
    BY FS_Interval
  <2>2. IsFiniteSet(T)
    BY <2>1, FS_Subset
  <2> QED BY <2>2, FS_CardinalityType
<1>2. Fails = {}
  <2> SUFFICES ASSUME Fails # {} PROVE FALSE
    OBVIOUS
  <2>1. PICK k \in Fails : \A l \in Fails : k <= l
    <3>1. Fails \in SUBSET Nat
      OBVIOUS
    <3> HIDE DEF Fails
    <3> QED BY <3>1, LeastNatural
  <2>2. k \in Nat
    BY <2>1
  <2>3. PICK T \in SUBSET (1 .. k) : ~Ordered(T)
    BY <2>1
  <2>4. k # 0
    <3> SUFFICES ASSUME k = 0 PROVE FALSE
      OBVIOUS
    <3>1. T = {}
      BY <2>3
    <3>2. Cardinality(T) = 0
      BY <3>1, FS_EmptySet
    <3> DEFINE s == [i \in 1 .. 0 |-> 0]
    <3>3. s \in [1 .. 0 -> T] /\ DOMAIN s = 1 .. 0
      BY <3>1
    <3> HIDE DEF s
    <3>4. Increasing(s)
      BY <3>3 DEF Increasing
    <3> QED BY <2>3, <3>2, <3>3, <3>4
  <2>5. k - 1 \in Nat /\ k - 1 \notin Fails
    <3>1. k - 1 \in Nat /\ ~(k <= k - 1)
      BY <2>2, <2>4
    <3> HIDE DEF Fails
    <3> QED BY <2>1, <3>1
  <2> DEFINE U == T \ {k}
  <2>6. U \in SUBSET (1 .. k - 1)
    BY <2>2, <2>3, <2>4
  <2>7. Ordered(U)
    BY <2>5, <2>6
  <2>8. k \in T
    <3> SUFFICES ASSUME k \notin T PROVE FALSE
      OBVIOUS
    <3>1. U = T
      OBVIOUS
    <3> QED BY <2>3, <2>7, <3>1
  <2> DEFINE n == Cardinality(U)
  <2>9. IsFiniteSet(T) /\ Cardinality(T) = n + 1 /\ n \in Nat
    <3>1. IsFiniteSet(T) /\ IsFiniteSet(U) /\ n \in Nat
      BY <1>1, <2>2, <2>3, <2>5, <2>6
    <3>2. n = Cardinality(T) - 1 /\ Cardinality(T) \in Nat
      BY <1>1, <2>2, <2>3, <2>8, <3>1, FS_RemoveElement
    <3> HIDE DEF n
    <3> QED BY <3>1, <3>2
  <2>10. PICK t \in [1 .. n -> U] : Increasing(t)
    BY <2>7
  <2>11. \A u \in U : u \in T /\ u \in Nat /\ u < k
    BY <2>2, <2>6
  <2> HIDE DEF n, U, Ordered
  <2> DEFINE s == [i \in 1 .. n + 1 |-> IF i = n + 1 THEN k ELSE t[i]]
  <2>12. s \in [1 .. n + 1 -> T]
    <3>1. ASSUME NEW i \in 1 .. n + 1 PROVE s[i] \in T
      <4>1. CASE i = n + 1
        BY <2>8, <4>1
      <4>2. CASE i # n + 1
        <5>1. i \in 1 .. n
          BY <2>9, <4>2
        <5> QED BY <2>10, <2>11, <4>2, <5>1
      <4> QED BY <4>1, <4>2
    <3> QED BY <3>1
  <2>13. Increasing(s)
    <3> SUFFICES ASSUME NEW i \in 1 .. n + 1, NEW j \in 1 .. n + 1, i < j PROVE s[i] < s[j]
      BY DEF Increasing
    <3>1. i \in 1 .. n /\ s[i] = t[i]
      BY <2>9
    <3>2. CASE j = n + 1
      BY <2>10, <2>11, <3>1, <3>2
    <3>3. CASE j # n + 1
      <4>1. j \in 1 .. n /\ s[j] = t[j]
        BY <2>9, <3>3
      <4> QED BY <2>10, <3>1, <4>1 DEF Increasing
    <3> QED BY <3>2, <3>3
  <2> HIDE DEF s
  <2> QED BY <2>3, <2>9, <2>12, <2>13 DEF Ordered
<1>3. Ordered(S)
  BY <1>2
<1> QED BY <1>1, <1>3

\* InOrder has each of the handles once.
LEMMA InOrderLemma ==
    ASSUME NEW m \in Nat, NEW S \in SUBSET (1 .. m)
    PROVE  /\ Cardinality(S) \in Nat /\ Cardinality(S) <= m
           /\ InOrder(S) \in [1 .. Cardinality(S) -> S]
           /\ \A h \in S : \E i \in 1 .. Cardinality(S) : InOrder(S)[i] = h
<1> DEFINE n == Cardinality(S)
           s == InOrder(S)
<1>1. IsFiniteSet(S) /\ n \in Nat /\ \E t \in [1 .. n -> S] : Increasing(t)
  BY OrderExists
<1>2. s \in [1 .. n -> S] /\ Increasing(s)
  <2>1. s = CHOOSE t \in [1 .. n -> S] : Increasing(t)
    BY DEF InOrder, Increasing
  <2> QED BY <1>1, <2>1
<1>3. n <= m
  <2>1. IsFiniteSet(1 .. m) /\ Cardinality(1 .. m) = m
    BY FS_Interval
  <2> QED BY <2>1, FS_Subset
<1>4. s \in Injection(1 .. n, S)
  <2>1. \A i, j \in 1 .. n : s[i] = s[j] => i = j
    <3> SUFFICES ASSUME NEW i \in 1 .. n, NEW j \in 1 .. n, s[i] = s[j], i # j PROVE FALSE
      OBVIOUS
    <3>1. i < j \/ j < i
      BY <1>1
    <3>2. s[i] < s[j] \/ s[j] < s[i]
      BY <1>2, <3>1 DEF Increasing
    <3> HIDE DEF s
    <3>3. s[i] \in S /\ s[j] \in S
      BY <1>2
    <3>0. \A x \in S : x \in Nat
      OBVIOUS
    <3>4. s[i] \in Nat /\ s[j] \in Nat
      BY ONLY <3>0, <3>3
    <3> QED BY <3>2, <3>4
  <2> QED BY <1>2, <2>1 DEF Injection, IsInjective
<1>5. Cardinality(1 .. n) = n /\ IsFiniteSet(1 .. n)
  BY <1>1, FS_Interval
<1> HIDE DEF s
<1>6. s \in Surjection(1 .. n, S)
  BY <1>1, <1>4, <1>5, FS_Injection
<1>7. \A h \in S : \E i \in 1 .. n : s[i] = h
  BY <1>6 DEF Surjection
<1> QED BY <1>1, <1>2, <1>3, <1>7 DEF s

\* What stands in a sequence stands behind another one too.
LEMMA HoldsBehind ==
    ASSUME NEW a \in Seq(Cell), NEW b \in Seq(Cell), NEW part \in Seq(Cell), NEW p, Holds(b, p, part)
    PROVE  Holds(a \o b, Len(a) + p, part)
<1>1. p \in Nat \ {0} /\ p + Len(part) - 1 <= Len(b) /\ \A k \in 1 .. Len(part) : b[p + k - 1] = part[k]
  BY DEF Holds
<1>2. Len(a) \in Nat /\ Len(b) \in Nat /\ Len(part) \in Nat
  OBVIOUS
<1>3. Len(a \o b) = Len(a) + Len(b) /\ \A k \in 1 .. Len(b) : (a \o b)[Len(a) + k] = b[k]
  BY JoinCells
<1>4. ASSUME NEW k \in 1 .. Len(part) PROVE (a \o b)[Len(a) + p + k - 1] = part[k]
  <2>1. p + k - 1 \in 1 .. Len(b) /\ Len(a) + (p + k - 1) = Len(a) + p + k - 1
    BY <1>1, <1>2
  <2> QED BY <1>1, <1>3, <2>1
<1>5. Len(a) + p \in Nat \ {0} /\ Len(a) + p + Len(part) - 1 <= Len(a \o b)
  BY <1>1, <1>2, <1>3
<1> QED BY ONLY <1>4, <1>5 DEF Holds

\* What an element says: the handle, a code, the type of the description and
\* the object's value.
Says(e, p, h) ==
    /\ e.handle = h /\ e.type = PropertyType(p)
    /\ p # "DATE_MODIFIED" => e.code = Code[p]
    /\ Agrees(p, h, e.value)

\* Where an element stands it is read as one.
LEMMA ElementLemma ==
    ASSUME TypeOK, NEW h \in Legible, NEW p \in Property \ {"NON_CONSUMABLE"}
    PROVE  /\ Element(p, h) \in Seq(Cell)
           /\ \A data \in Seq(Cell) : \A q \in Nat \ {0} :
                 Holds(data, q, Element(p, h)) =>
                     ElementAt(data, q).next = q + Len(Element(p, h)) /\ Says(ElementAt(data, q), p, h)
<1> DEFINE code == IF p = "DATE_MODIFIED" THEN Code["DATE_CREATED"] ELSE Code[p]
           type == PropertyType(p)
           a == putUInt32(h)
           b == putUInt16(code)
           c == putUInt16(type)
           d == Value(p, h)
<1>1. h \in Nat /\ h < Word
  BY LegibleLemma, NameAssumption, WidthAssumption DEF Handle, kInvalidObjectHandle
<1>2. code \in Nat /\ (p # "DATE_MODIFIED" => code = Code[p])
  <2>1. "DATE_CREATED" \in Property
    BY PropertyLemma DEF PropertyName
  <2> QED BY <2>1, PropertyLemma
<1>3. /\ type \in Nat
      /\ type = CASE p \in {"STORAGE_ID", "PARENT_OBJECT", "OBJECT_SIZE", "ASSOCIATION_DESC"} -> MTP_TYPE_UINT32
                  [] p \in {"DISPLAY_NAME", "OBJECT_FILE_NAME", "DATE_CREATED", "DATE_MODIFIED"} -> MTP_TYPE_STR
                  [] p = "PERSISTENT_UID" -> MTP_TYPE_UINT128
                  [] OTHER -> MTP_TYPE_UINT16
  BY PropertyLemma DEF MTP_TYPE_UINT16, MTP_TYPE_UINT32, MTP_TYPE_UINT128, MTP_TYPE_STR
<1>4. Element(p, h) = a \o b \o c \o d
  BY <1>3 DEF Element
<1>5. PICK v \in Seq(Nat) : Reads(d, type, v) /\ Agrees(p, h, v)
  BY ValueLemma
<1> HIDE DEF code, type
<1>6. Reads(a, MTP_TYPE_UINT32, <<h>>)
  <2>1. h % Word = h
    BY <1>1, SmallLemma
  <2> QED BY <1>1, <2>1, ReadsPut
<1>7. Reads(b, MTP_TYPE_UINT16, <<code>>) /\ Reads(c, MTP_TYPE_UINT16, <<type>>)
  BY <1>2, <1>3, ReadsPut
<1>8. Len(a) = 1 /\ Len(b) = 1 /\ Len(c) = 1
  BY DEF putUInt32, putUInt16
<1> HIDE DEF a, b, c, d
<1>9. a \in Seq(Cell) /\ b \in Seq(Cell) /\ c \in Seq(Cell) /\ d \in Seq(Cell)
  BY <1>5, <1>6, <1>7 DEF Reads
<1>10. /\ a \o b \in Seq(Cell) /\ Len(a \o b) = 2 /\ a \o b \o c \in Seq(Cell) /\ Len(a \o b \o c) = 3
       /\ a \o b \o c \o d \in Seq(Cell) /\ Len(a \o b \o c \o d) = 3 + Len(d) /\ Len(d) \in Nat
  <2>1. a \o b \in Seq(Cell) /\ Len(a \o b) = 2
    BY <1>8, <1>9, JoinCells
  <2>2. a \o b \o c \in Seq(Cell) /\ Len(a \o b \o c) = 3
    BY <1>8, <1>9, <2>1, JoinCells
  <2>3. a \o b \o c \o d \in Seq(Cell) /\ Len(a \o b \o c \o d) = 3 + Len(d) /\ Len(d) \in Nat
    BY <1>9, <2>2, JoinCells
  <2> QED BY <2>1, <2>2, <2>3
<1>11. ASSUME NEW data \in Seq(Cell), NEW q \in Nat \ {0}, Holds(data, q, a \o b \o c \o d)
       PROVE  /\ ElementAt(data, q).next = q + Len(a \o b \o c \o d)
              /\ Says(ElementAt(data, q), p, h)
  <2>1. Holds(data, q, a \o b \o c) /\ Holds(data, q + 3, d)
    BY <1>9, <1>10, <1>11, HoldsBoth
  <2>2. Holds(data, q, a \o b) /\ Holds(data, q + 2, c)
    BY <1>9, <1>10, <2>1, HoldsBoth
  <2>3. Holds(data, q, a) /\ Holds(data, q + 1, b)
    BY <1>8, <1>9, <2>2, HoldsBoth
  <2>4. Take(data, q, MTP_TYPE_UINT32) = [next |-> q + 1, value |-> <<h>>]
    BY <1>6, <1>8, <2>3 DEF Reads
  <2>5. Take(data, q + 1, MTP_TYPE_UINT16) = [next |-> q + 2, value |-> <<code>>]
    <3>1. q + 1 \in Nat \ {0} /\ (q + 1) + 1 = q + 2
      OBVIOUS
    <3> QED BY <1>7, <1>8, <2>3, <3>1 DEF Reads
  <2>6. Take(data, q + 2, MTP_TYPE_UINT16) = [next |-> q + 3, value |-> <<type>>]
    <3>1. q + 2 \in Nat \ {0} /\ (q + 2) + 1 = q + 3
      OBVIOUS
    <3> QED BY <1>7, <1>8, <2>2, <3>1 DEF Reads
  <2>7. Take(data, q + 3, type) = [next |-> q + 3 + Len(d), value |-> v]
    <3>1. q + 3 \in Nat \ {0}
      OBVIOUS
    <3> QED BY <1>5, <2>1, <3>1 DEF Reads
  <2>8. <<h>>[1] = h /\ <<code>>[1] = code /\ <<type>>[1] = type
    OBVIOUS
  <2>9. [next |-> q + 3, value |-> <<type>>] # Unreadable /\ [next |-> q + 3 + Len(d), value |-> v] # Unreadable
    BY <1>10 DEF Unreadable
  <2>10. ElementAt(data, q) = [next |-> q + 3 + Len(d), handle |-> h, code |-> code, type |-> type, value |-> v]
    BY <2>4, <2>5, <2>6, <2>7, <2>8, <2>9 DEF ElementAt
  <2>11. q + 3 + Len(d) = q + Len(a \o b \o c \o d)
    BY <1>10
  <2> QED BY <1>2, <1>5, <2>10, <2>11 DEF Says, type
<1> QED BY <1>4, <1>10, <1>11

\* data announces n elements, and the i-th is read from at[i] to at[i + 1].
Elementwise(data, n, at) ==
    /\ n \in Nat /\ data[1].value = n
    /\ at \in [1 .. n + 1 -> Nat \ {0}] /\ at[1] = 2
    /\ \A i \in 1 .. n : ElementAt(data, at[i]).next = at[i + 1]

\* Elements begin where the element before them ends.
LEMMA ElementStartsLemma ==
    ASSUME NEW data, NEW n, NEW at, Elementwise(data, n, at)
    PROVE  \A i \in 1 .. n + 1 : ElementStarts(data)[i] = at[i]
<1> USE DEF Elementwise
<1> DEFINE Is(f) == f = [i \in 1 .. data[1].value + 1 |->
                            IF i = 1 THEN 2
                            ELSE LET before == f[i - 1] IN IF before = 0 THEN 0 ELSE ElementAt(data, before).next]
           F == CHOOSE f : Is(f)
<1>1. ElementStarts(data) = F
  BY DEF ElementStarts
<1>2. Is(at)
  <2>1. ASSUME NEW i \in 1 .. n + 1
        PROVE  at[i] = IF i = 1 THEN 2
                       ELSE LET before == at[i - 1] IN IF before = 0 THEN 0 ELSE ElementAt(data, before).next
    <3>1. CASE i = 1
      BY <3>1
    <3>2. CASE i # 1
      <4>1. i - 1 \in 1 .. n /\ i - 1 \in 1 .. n + 1 /\ (i - 1) + 1 = i
        BY <3>2
      <4>2. at[i - 1] # 0 /\ ElementAt(data, at[i - 1]).next = at[i]
        BY <4>1
      <4> QED BY <3>2, <4>2
    <3> QED BY <3>1, <3>2
  <2>2. at = [i \in 1 .. n + 1 |-> at[i]]
    OBVIOUS
  <2> QED BY <2>1, <2>2
<1>3. Is(F)
  BY <1>2
<1> HIDE DEF F
<1>4. \A i \in 1 .. n + 1 :
         F[i] = IF i = 1 THEN 2
                ELSE LET before == F[i - 1] IN IF before = 0 THEN 0 ELSE ElementAt(data, before).next
  BY <1>3
<1> HIDE DEF Is
<1> DEFINE Differ == {i \in 1 .. n + 1 : F[i] # at[i]}
<1>5. Differ = {}
  <2> SUFFICES ASSUME Differ # {} PROVE FALSE
    OBVIOUS
  <2>1. PICK i \in Differ : \A k \in Differ : i <= k
    <3>1. Differ \in SUBSET Nat
      OBVIOUS
    <3> QED BY <3>1, LeastNatural
  <2>2. i \in 1 .. n + 1 /\ F[i] # at[i]
    BY <2>1
  <2>3. i # 1
    BY <1>4, <2>2
  <2>4. i - 1 \in 1 .. n /\ i - 1 \in 1 .. n + 1 /\ (i - 1) + 1 = i
    BY <2>2, <2>3
  <2>5. F[i - 1] = at[i - 1]
    <3>1. ~(i <= i - 1)
      BY <2>2
    <3> QED BY <2>1, <2>4, <3>1
  <2>6. at[i - 1] # 0 /\ ElementAt(data, at[i - 1]).next = at[i]
    BY <2>4
  <2> QED BY <1>4, <2>2, <2>3, <2>5, <2>6
<1> QED BY <1>1, <1>5

\* data lists the objects of handles.
Lists(data, p, n, handles) ==
    /\ ListReadable(data) /\ data[1].value = n
    /\ \A i \in 1 .. n : Says(ElementAt(data, ElementStarts(data)[i]), p, handles[i])

\* The list of one property for the objects of a sequence.
LEMMA ListLemma ==
    ASSUME TypeOK, NEW p \in Property \ {"NON_CONSUMABLE"}, NEW n \in Nat, n < Word,
           NEW handles \in [1 .. n -> Legible]
    PROVE  Lists(putUInt32(n) \o FlattenSeq([i \in 1 .. n |-> Element(p, handles[i])]), p, n, handles)
<1> DEFINE s == [i \in 1 .. n |-> Element(p, handles[i])]
           head == putUInt32(n)
           tail == FlattenSeq(s)
           data == head \o tail
<1>1. s \in Seq(Seq(Cell)) /\ Len(s) = n /\ \A i \in 1 .. n : s[i] = Element(p, handles[i])
  <2>1. \A i \in 1 .. n : Element(p, handles[i]) \in Seq(Cell)
    <3> SUFFICES ASSUME NEW i \in 1 .. n PROVE Element(p, handles[i]) \in Seq(Cell)
      OBVIOUS
    <3>1. handles[i] \in Legible
      OBVIOUS
    <3> QED BY <3>1, ElementLemma
  <2>2. s \in [1 .. n -> Seq(Cell)]
    BY <2>1
  <2> QED BY <2>2
<1>2. head \in Seq(Cell) /\ Len(head) = 1 /\ head[1].value = n
  <2>1. n % Word = n
    BY SmallLemma
  <2> QED BY <2>1 DEF putUInt32, Cell
<1> HIDE DEF s, head
<1>3. tail \in Seq(Cell) /\ \E at : Joined(tail, s, at)
  BY <1>1, FlattenParts
<1>4. PICK at : Joined(tail, s, at)
  BY <1>3
<1> HIDE DEF tail
<1>5. data \in Seq(Cell) /\ Len(data) = 1 + Len(tail) /\ data[1] = head[1] /\ Len(tail) \in Nat
  <2>1. 1 \in 1 .. Len(head)
    BY <1>2
  <2> QED BY <1>2, <1>3, <2>1, JoinCells
<1>6. /\ at \in [1 .. n + 1 -> Nat \ {0}] /\ at[1] = 1 /\ at[n + 1] = Len(tail) + 1
      /\ \A i \in 1 .. n : at[i + 1] = at[i] + Len(s[i]) /\ Holds(tail, at[i], s[i])
  BY <1>1, <1>4 DEF Joined
<1> DEFINE from == [i \in 1 .. n + 1 |-> 1 + at[i]]
<1>7. from \in [1 .. n + 1 -> Nat \ {0}] /\ from[1] = 2 /\ from[n + 1] = Len(data) + 1
  <2>1. 1 \in 1 .. n + 1 /\ n + 1 \in 1 .. n + 1
    OBVIOUS
  <2>2. from \in [1 .. n + 1 -> Nat \ {0}]
    BY <1>6
  <2>3. from[1] = 1 + at[1] /\ from[n + 1] = 1 + at[n + 1]
    BY <2>1
  <2> HIDE DEF from, data
  <2> QED BY <1>5, <1>6, <2>2, <2>3
<1>8. ASSUME NEW i \in 1 .. n
      PROVE  ElementAt(data, from[i]).next = from[i + 1] /\ Says(ElementAt(data, from[i]), p, handles[i])
  <2>1. i \in 1 .. n + 1 /\ i + 1 \in 1 .. n + 1 /\ at[i] \in Nat \ {0}
    BY <1>6
  <2>2. from[i] = 1 + at[i] /\ from[i + 1] = 1 + at[i + 1] /\ from[i] \in Nat \ {0}
    BY <1>7, <2>1
  <2>3. handles[i] \in Legible
    OBVIOUS
  <2>4. Element(p, handles[i]) \in Seq(Cell) /\ s[i] = Element(p, handles[i])
    BY <1>1, <2>3, ElementLemma
  <2>5. Holds(data, from[i], Element(p, handles[i]))
    <3>1. Holds(head \o tail, Len(head) + at[i], s[i])
      BY <1>2, <1>3, <1>6, <2>4, HoldsBehind
    <3> QED BY <1>2, <2>2, <2>4, <3>1
  <2> HIDE DEF from, data
  <2>6. /\ ElementAt(data, from[i]).next = from[i] + Len(Element(p, handles[i]))
        /\ Says(ElementAt(data, from[i]), p, handles[i])
    BY <1>5, <2>2, <2>3, <2>5, ElementLemma
  <2>7. from[i] + Len(Element(p, handles[i])) = from[i + 1]
    <3>1. at[i + 1] = at[i] + Len(Element(p, handles[i])) /\ Len(Element(p, handles[i])) \in Nat
      BY <1>6, <2>4
    <3> QED BY <2>1, <2>2, <3>1
  <2> QED BY <2>6, <2>7
<1> HIDE DEF from, data
<1>9. data[1].value = n
  BY <1>2, <1>5
<1>10. \A i \in 1 .. n + 1 : ElementStarts(data)[i] = from[i]
  <2>1. \A i \in 1 .. n : ElementAt(data, from[i]).next = from[i + 1]
    BY <1>8
  <2>2. Elementwise(data, n, from)
    BY <1>7, <1>9, <2>1 DEF Elementwise
  <2> QED BY <2>2, ElementStartsLemma
<1>11. ListReadable(data)
  <2>1. n + 1 \in 1 .. n + 1
    OBVIOUS
  <2> QED BY <1>7, <1>9, <1>10, <2>1 DEF ListReadable
<1>12. \A i \in 1 .. n : Says(ElementAt(data, ElementStarts(data)[i]), p, handles[i])
  <2> SUFFICES ASSUME NEW i \in 1 .. n PROVE Says(ElementAt(data, ElementStarts(data)[i]), p, handles[i])
    OBVIOUS
  <2>1. i \in 1 .. n + 1
    OBVIOUS
  <2> QED BY <1>8, <1>10, <2>1
<1>13. Lists(data, p, n, handles)
  BY <1>9, <1>11, <1>12 DEF Lists
<1> QED BY <1>13 DEF data, head, tail, s

\* Whatever the database, a property list that is about objects whose names can
\* be told has each of them once and says of each what is so.
LEMMA ListsAreTold == TypeOK => PropListTold
<1> SUFFICES ASSUME TypeOK, NEW h \in Handle \cup {0}, NEW p \in Property \ {"NON_CONSUMABLE"}, NEW depth \in {0, 1}
             PROVE  LET answer == GetObjectPropList(h, p, 0, depth)
                        about  == IF depth = 0 THEN {h} ELSE {i \in DOMAIN db : db[i].parent = h}
                        starts == ElementStarts(answer.mData)
                        told   == {ElementAt(answer.mData, starts[i]) : i \in 1 .. answer.mData[1].value}
                    IN  answer.mResponse = "OK" /\ about \subseteq Legible =>
                            /\ ListReadable(answer.mData)
                            /\ answer.mData[1].value = Cardinality(about)
                            /\ {e.handle : e \in told} = about
                            /\ \A e \in told :
                                  /\ e.type = getObjectPropertyDesc(p).mType
                                  /\ p # "DATE_MODIFIED" => e.code = Code[p]
                                  /\ Agrees(p, e.handle, e.value)
  BY DEF PropListTold
<1> DEFINE answer == GetObjectPropList(h, p, 0, depth)
           data   == answer.mData
           about  == IF depth = 0 THEN {h} ELSE {i \in DOMAIN db : db[i].parent = h}
           starts == ElementStarts(data)
           n      == Cardinality(about)
           told   == {ElementAt(data, starts[i]) : i \in 1 .. data[1].value}
           handles == InOrder(about)
<1> SUFFICES ASSUME answer.mResponse = "OK", about \subseteq Legible
             PROVE  /\ ListReadable(data) /\ data[1].value = n
                    /\ {e.handle : e \in told} = about
                    /\ \A e \in told : Says(e, p, e.handle)
  BY DEF Says, PropertyType
<1>1. about \in SUBSET (1 .. MaxHandle) /\ MaxHandle \in Nat /\ MaxHandle < Word
  <2>1. Legible \subseteq Handle
    BY DEF Legible, TypeOK
  <2> HIDE DEF about
  <2> QED BY <2>1, NameAssumption, WidthAssumption DEF Handle, kInvalidObjectHandle
<1> HIDE DEF about
<1>2. /\ n \in Nat /\ n <= MaxHandle /\ handles \in [1 .. n -> about]
      /\ \A i \in about : \E j \in 1 .. n : handles[j] = i
  BY <1>1, InOrderLemma
<1>3. n < Word /\ Len(handles) = n /\ DOMAIN handles = 1 .. n /\ handles \in [1 .. n -> Legible]
  <2>1. n < Word
    <3> HIDE DEF n
    <3> QED BY <1>1, <1>2, WidthAssumption
  <2> HIDE DEF n, handles
  <2> QED BY <1>2, <2>1
<1>4. data = putUInt32(n) \o FlattenSeq([i \in 1 .. n |-> Element(p, handles[i])])
  <2>1. Matches(h, depth) = handles
    BY DEF Matches, about
  <2>2. p # ALL_PROPERTIES /\ p # "NON_CONSUMABLE"
    <3>1. p \in PropertyName
      BY PropertyLemma
    <3> QED BY <3>1 DEF PropertyName, ALL_PROPERTIES
  <2>3. 1 * n = n
    <3> HIDE DEF n
    <3> QED BY <1>2
  <2>4. data = getObjectPropertyList(h, p, depth)
    BY DEF GetObjectPropList, Answer
  <2> HIDE DEF handles, n, data
  <2>5. getObjectPropertyList(h, p, depth)
            = putUInt32(1 * Len(handles)) \o FlattenSeq([i \in DOMAIN handles |-> Element(p, handles[i])])
    BY <2>1, <2>2 DEF getObjectPropertyList, Elements
  <2> QED BY <1>3, <2>3, <2>4, <2>5
<1> HIDE DEF handles, n, answer
<1>5. /\ ListReadable(data) /\ data[1].value = n
      /\ \A i \in 1 .. n : Says(ElementAt(data, starts[i]), p, handles[i])
  <2>1. Lists(data, p, n, handles)
    <3> HIDE DEF data
    <3> QED BY <1>2, <1>3, <1>4, ListLemma
  <2> QED BY <2>1 DEF Lists
<1> HIDE DEF data, starts
<1>6. told = {ElementAt(data, starts[i]) : i \in 1 .. n}
  BY <1>5
<1>7. \A i \in 1 .. n : ElementAt(data, starts[i]).handle = handles[i]
  BY <1>5 DEF Says
<1> HIDE DEF told
<1>8. {e.handle : e \in told} = about
  <2>1. ASSUME NEW e \in told PROVE e.handle \in about
    <3>1. PICK i \in 1 .. n : e = ElementAt(data, starts[i])
      BY <1>6
    <3> QED BY <1>2, <1>7, <3>1
  <2>2. ASSUME NEW i \in about PROVE \E e \in told : e.handle = i
    <3>1. PICK j \in 1 .. n : handles[j] = i
      BY <1>2
    <3>2. ElementAt(data, starts[j]) \in told
      BY <1>6
    <3> QED BY <1>7, <3>1, <3>2
  <2> QED BY <2>1, <2>2
<1>9. \A e \in told : Says(e, p, e.handle)
  <2> SUFFICES ASSUME NEW e \in told PROVE Says(e, p, e.handle)
    OBVIOUS
  <2>1. PICK i \in 1 .. n : e = ElementAt(data, starts[i])
    BY <1>6
  <2> QED BY <1>5, <1>7, <2>1
<1> QED BY <1>5, <1>8, <1>9

-----------------------------------------------------------------------------
(* What holds in every state.                                              *)

\* The database has entries for handles only, an edit has a size, and a name
\* that the host gave is one of the host's, whatever is listed, sent, renamed,
\* deleted and edited in whatever order.
THEOREM ObjectsTyped == Spec => []TypeOK
<1>1. DatabaseInv => TypeOK
  BY DEF DatabaseInv
<1> QED BY <1>1, InitDatabase, StepDatabase, PTL DEF Spec

\* The name that the host gave an object, in SendObjectInfo or by
\* SetObjectPropValue, is the one GetObjectInfo tells until the object is gone.
THEOREM NamesKeptHolds == Spec => []NamesKept
BY InitDatabase, StepDatabase, NamesAreKept, PTL DEF Spec

\* GetObjectInfo can be read by a host, and tells format, size, parent and name
\* of the object, the size being the open edit's while there is one.
THEOREM InfoToldHolds == Spec => []InfoTold
BY ObjectsTyped, InfoIsTold, PTL

\* GetObjectPropDesc can be read by a host, and GetObjectPropValue with the type
\* it found there, and the value is the object's.
THEOREM PropValueToldHolds == Spec => []PropValueTold
BY ObjectsTyped, ValuesAreTold, PTL

\* GetObjectPropList of one property announces as many elements as it has, one
\* for each object it is about, with the type of the description and the value
\* of the object.
THEOREM PropListToldHolds == Spec => []PropListTold
BY ObjectsTyped, ListsAreTold, PTL

=============================================================================
