------------------------- MODULE CarefulHost_proofs -------------------------
(***************************************************************************)
(* For a host that keeps to the requests of CarefulHost the database       *)
(* mirrors the card, for every card, host and bound.                       *)
(***************************************************************************)
EXTENDS CarefulHost, MtpServer_proofs

-----------------------------------------------------------------------------
(* Paths, by their elements.                                               *)

\* The first k names of a path.
Pre(p, k) == SubSeq(p, 1, k)

LEMMA PathElements ==
    ASSUME NEW p \in Path
    PROVE  /\ Len(p) \in Nat
           /\ p = Root <=> Len(p) = 0
           /\ \A i \in 1 .. Len(p) : p[i] \in Name
BY LenProperties, ElementOfSeq, EmptySeq DEF Path, Root

LEMMA PathEqual ==
    ASSUME NEW p \in Path, NEW q \in Path, Len(p) = Len(q),
           \A i \in 1 .. Len(p) : p[i] = q[i]
    PROVE  p = q
BY SeqEqual DEF Path

LEMMA PreLemma ==
    ASSUME NEW p \in Path, NEW k \in 0 .. Len(p)
    PROVE  /\ Pre(p, k) \in Path
           /\ Len(Pre(p, k)) = k
           /\ \A i \in 1 .. k : Pre(p, k)[i] = p[i]
<1>1. k \in Int /\ \A i \in 1 .. k : p[i] \in Name
  BY PathElements
<1>2. /\ SubSeq(p, 1, k) \in Seq(Name)
      /\ Len(SubSeq(p, 1, k)) = IF 1 <= k THEN k - 1 + 1 ELSE 0
      /\ \A i \in 1 .. k - 1 + 1 : SubSeq(p, 1, k)[i] = p[1 + i - 1]
  BY <1>1, SubSeqProperties
<1>3. k \in Nat /\ \A i \in 1 .. k : i \in 1 .. k - 1 + 1 /\ 1 + i - 1 = i
  BY PathElements
<1>4. Len(SubSeq(p, 1, k)) = k
  BY <1>2, <1>3
<1>5. \A i \in 1 .. k : SubSeq(p, 1, k)[i] = p[i]
  BY <1>2, <1>3
<1> QED
  BY <1>2, <1>4, <1>5 DEF Pre, Path

\* A prefix is what the first names are.
LEMMA PrefixElements ==
    ASSUME NEW p \in Path, NEW q \in Path
    PROVE  /\ IsPrefix(p, q) <=> Len(p) <= Len(q) /\ Pre(q, Len(p)) = p
           /\ IsPrefix(p, q) <=> Len(p) <= Len(q) /\ \A i \in 1 .. Len(p) : p[i] = q[i]
<1>1. Len(p) \in Nat /\ Len(q) \in Nat
  BY PathElements
<1>2. SubSeq(p, 1, Len(p)) = p
  BY SubSeqFull DEF Path
<1>3. IsPrefix(p, q) <=> Len(p) <= Len(q) /\ Pre(q, Len(p)) = p
  BY <1>2 DEF IsPrefix, Pre
<1>4. ASSUME Len(p) <= Len(q)
      PROVE  Pre(q, Len(p)) = p <=> \A i \in 1 .. Len(p) : p[i] = q[i]
  <2>1. Len(p) \in 0 .. Len(q)
    BY <1>1, <1>4
  <2>2. /\ Pre(q, Len(p)) \in Path /\ Len(Pre(q, Len(p))) = Len(p)
        /\ \A i \in 1 .. Len(p) : Pre(q, Len(p))[i] = q[i]
    BY <2>1, PreLemma
  <2> QED
    BY <2>2, PathEqual
<1> QED
  BY <1>3, <1>4

LEMMA FrontLemma ==
    ASSUME NEW p \in Path, p # Root
    PROVE  /\ Front(p) = Pre(p, Len(p) - 1)
           /\ Len(p) - 1 \in 0 .. Len(p)
           /\ Front(p) \in Path /\ Len(Front(p)) = Len(p) - 1
           /\ \A i \in 1 .. Len(p) - 1 : Front(p)[i] = p[i]
           /\ \A k \in 0 .. Len(p) - 1 : Pre(Front(p), k) = Pre(p, k)
<1>1. Len(p) \in Nat \ {0} /\ Len(p) - 1 \in 0 .. Len(p)
  BY PathElements
<1>2. Front(p) = Pre(p, Len(p) - 1)
  BY DEF Front, Pre
<1>3. /\ Front(p) \in Path /\ Len(Front(p)) = Len(p) - 1
      /\ \A i \in 1 .. Len(p) - 1 : Front(p)[i] = p[i]
  BY <1>1, <1>2, PreLemma
<1>4. ASSUME NEW k \in 0 .. Len(p) - 1
      PROVE  Pre(Front(p), k) = Pre(p, k)
  <2>1. k \in 0 .. Len(p) /\ k \in 0 .. Len(Front(p))
    BY <1>1, <1>3
  <2>2. /\ Pre(p, k) \in Path /\ Len(Pre(p, k)) = k
        /\ \A i \in 1 .. k : Pre(p, k)[i] = p[i]
    BY <2>1, PreLemma
  <2>3. /\ Pre(Front(p), k) \in Path /\ Len(Pre(Front(p), k)) = k
        /\ \A i \in 1 .. k : Pre(Front(p), k)[i] = Front(p)[i]
    BY <1>3, <2>1, PreLemma
  <2>4. \A i \in 1 .. k : i \in 1 .. Len(p) - 1
    BY <1>1
  <2> QED
    BY <1>3, <2>2, <2>3, <2>4, PathEqual
<1> QED
  BY <1>1, <1>2, <1>3, <1>4

LEMMA OneName ==
    ASSUME NEW p \in Path, p # Root, Front(p) = Root
    PROVE  Len(p) = 1
<1>1. Len(Front(p)) = Len(p) - 1 /\ Len(p) \in Nat
  BY FrontLemma, PathElements
<1>2. Len(Front(p)) = 0
  BY EmptySeq DEF Root
<1> QED
  BY <1>1, <1>2

\* A name in a directory.
LEMMA ChildLemma ==
    ASSUME NEW p \in Path, NEW n \in Name
    PROVE  /\ Append(p, n) \in Path /\ Append(p, n) # Root
           /\ Len(Append(p, n)) = Len(p) + 1
           /\ Front(Append(p, n)) = p
<1>1. /\ Append(p, n) \in Path /\ Len(Append(p, n)) = Len(p) + 1
      /\ \A i \in 1 .. Len(p) : Append(p, n)[i] = p[i]
  BY AppendProperties DEF Path
<1>2. Len(p) \in Nat
  BY PathElements
<1> DEFINE q == Append(p, n)
<1> HIDE DEF q
<1>3. q \in Path /\ Len(q) = Len(p) + 1 /\ \A i \in 1 .. Len(p) : q[i] = p[i]
  BY <1>1 DEF q
<1>4. q # Root
  BY <1>2, <1>3, PathElements
<1>5. /\ Front(q) \in Path /\ Len(Front(q)) = Len(p)
      /\ \A i \in 1 .. Len(p) : Front(q)[i] = q[i]
  BY <1>2, <1>3, <1>4, FrontLemma
<1>6. Front(q) = p
  BY <1>3, <1>5, PathEqual
<1> QED
  BY <1>3, <1>4, <1>6 DEF q

\* What is below something below p is below p.
LEMMA PrefixOrder ==
    ASSUME NEW p \in Path, NEW q \in Path, NEW r \in Path, IsPrefix(p, q), IsPrefix(q, r)
    PROVE  IsPrefix(p, r)
BY PathElements, PrefixElements

\* The first names of a path are a prefix of it; a prefix of it that is no
\* longer than they are is one of theirs.
LEMMA PreOrder ==
    ASSUME NEW q \in Path, NEW k \in 0 .. Len(q), NEW p \in Path
    PROVE  /\ IsPrefix(Pre(q, k), q)
           /\ IsPrefix(p, q) /\ Len(p) <= k => IsPrefix(p, Pre(q, k))
           /\ IsPrefix(p, Pre(q, k)) => IsPrefix(p, q) /\ Len(p) <= k
<1>1. /\ Pre(q, k) \in Path /\ Len(Pre(q, k)) = k
      /\ \A i \in 1 .. k : Pre(q, k)[i] = q[i]
  BY PreLemma
<1>2. Len(p) \in Nat /\ Len(q) \in Nat /\ k \in Nat /\ k <= Len(q)
  BY PathElements
<1> DEFINE t == Pre(q, k)
<1> HIDE DEF t
<1>3. t \in Path /\ Len(t) = k /\ \A i \in 1 .. k : t[i] = q[i]
  BY <1>1 DEF t
<1>4. IsPrefix(t, q)
  BY <1>2, <1>3, PrefixElements
<1>5. IsPrefix(p, q) /\ Len(p) <= k => IsPrefix(p, t)
  BY <1>2, <1>3, PrefixElements
<1>6. IsPrefix(p, t) => IsPrefix(p, q) /\ Len(p) <= k
  BY <1>2, <1>3, PrefixElements
<1> QED
  BY <1>4, <1>5, <1>6 DEF t

-----------------------------------------------------------------------------
(* What rename(2) does to a tree.                                          *)

\* Two names in one directory, and the second is free.
RenamesTo(p, q) ==
    /\ p \in Path /\ q \in Path /\ p # q
    /\ Len(p) = Len(q) /\ Len(p) > 0
    /\ \A k \in 0 .. Len(p) - 1 : Pre(p, k) = Pre(q, k)
    /\ Exists(p) /\ ~Exists(q)

\* A path at or below p, moved to q, differs from what it was in the names of
\* the prefix only.
LEMMA RebaseElements ==
    ASSUME NEW p \in Path, NEW q \in Path, NEW s \in Path, Len(p) = Len(q), IsPrefix(p, s)
    PROVE  /\ Rebase(s, p, q) \in Path
           /\ Len(Rebase(s, p, q)) = Len(s)
           /\ IsPrefix(q, Rebase(s, p, q))
           /\ \A i \in 1 .. Len(s) : Rebase(s, p, q)[i] = IF i <= Len(p) THEN q[i] ELSE s[i]
<1> DEFINE tail == SubSeq(s, Len(p) + 1, Len(s))
<1>1. Len(p) \in Nat /\ Len(s) \in Nat /\ Len(p) <= Len(s)
  BY PathElements, PrefixElements
<1>2. \A i \in Len(p) + 1 .. Len(s) : s[i] \in Name
  BY <1>1, PathElements
<1>3. /\ tail \in Seq(Name)
      /\ Len(tail) = IF Len(p) + 1 <= Len(s) THEN Len(s) - (Len(p) + 1) + 1 ELSE 0
      /\ \A i \in 1 .. Len(s) - (Len(p) + 1) + 1 : tail[i] = s[Len(p) + 1 + i - 1]
  BY <1>1, <1>2, SubSeqProperties
<1>4. Rebase(s, p, q) = q \o tail
  BY DEF Rebase
<1> HIDE DEF tail
<1>5. /\ q \o tail \in Path
      /\ Len(q \o tail) = Len(q) + Len(tail)
      /\ \A i \in 1 .. Len(q) + Len(tail) :
            (q \o tail)[i] = IF i <= Len(q) THEN q[i] ELSE tail[i - Len(q)]
  BY <1>3, ConcatProperties DEF Path
<1> DEFINE r == Rebase(s, p, q)
<1>6. r \in Path /\ Len(r) = Len(s)
  BY <1>1, <1>3, <1>4, <1>5
<1>7. ASSUME NEW i \in 1 .. Len(s)
      PROVE  r[i] = IF i <= Len(p) THEN q[i] ELSE s[i]
  <2>1. r[i] = IF i <= Len(p) THEN q[i] ELSE tail[i - Len(p)]
    BY <1>1, <1>3, <1>4, <1>5
  <2>2. CASE ~(i <= Len(p))
    <3>1. i - Len(p) \in 1 .. Len(s) - (Len(p) + 1) + 1 /\ Len(p) + 1 + (i - Len(p)) - 1 = i
      BY <1>1, <2>2
    <3> QED
      BY <1>3, <2>1, <2>2, <3>1
  <2> QED
    BY <2>1, <2>2
<1> HIDE DEF r
<1>8. IsPrefix(q, r)
  BY <1>1, <1>6, <1>7, PrefixElements
<1> QED
  BY <1>6, <1>7, <1>8 DEF r

LEMMA RebaseOther ==
    ASSUME NEW p, NEW q, NEW s, ~IsPrefix(p, s)
    PROVE  Rebase(s, p, q) = s
BY DEF Rebase

\* Nothing lies at or below a free name.
LEMMA NothingBelow ==
    ASSUME IsTree, NEW q \in Path, ~Exists(q), NEW s \in DOMAIN card
    PROVE  ~IsPrefix(q, s)
<1> SUFFICES ASSUME IsPrefix(q, s)
             PROVE  FALSE
  OBVIOUS
<1>1. s \in Path /\ Len(q) \in Nat /\ Len(s) \in Nat
  BY PathElements DEF IsTree, IsCard
<1>2. Len(q) <= Len(s) /\ Pre(s, Len(q)) = q
  BY <1>1, PrefixElements
<1>3. CASE Len(q) = Len(s)
  BY <1>1, <1>2, <1>3, SubSeqFull DEF Pre, Path, Exists
<1>4. CASE Len(q) # Len(s)
  <2>1. Len(q) \in 0 .. Len(s) - 1
    BY <1>1, <1>2, <1>4
  <2> QED
    BY <1>2, <2>1 DEF IsTree, IsDirectory, Pre
<1> QED
  BY <1>3, <1>4

\* rename(2) takes each entry to one place, with its kind.
LEMMA RenameMoves ==
    ASSUME IsTree, NEW p, NEW q, RenamesTo(p, q), card' = Renamed(p, q)
    PROVE  /\ \A s \in DOMAIN card : /\ Rebase(s, p, q) \in DOMAIN card'
                                     /\ card'[Rebase(s, p, q)] = card[s]
           /\ \A r \in DOMAIN card' : \E s \in DOMAIN card : r = Rebase(s, p, q)
<1>1. /\ p \in Path /\ q \in Path /\ Len(p) = Len(q) /\ ~Exists(q)
      /\ DOMAIN card \subseteq Path
  BY DEF RenamesTo, IsTree, IsCard
<1>2. ASSUME NEW s \in DOMAIN card, NEW t \in DOMAIN card,
             Rebase(s, p, q) = Rebase(t, p, q)
      PROVE  s = t
  <2>1. s \in Path /\ t \in Path /\ ~IsPrefix(q, s) /\ ~IsPrefix(q, t)
    BY <1>1, NothingBelow
  <2>2. IsPrefix(p, s) <=> IsPrefix(p, t)
    BY <1>1, <1>2, <2>1, RebaseElements, RebaseOther
  <2>3. CASE ~IsPrefix(p, s)
    BY <1>2, <2>2, <2>3, RebaseOther
  <2>4. CASE IsPrefix(p, s)
    <3>1. Len(s) = Len(t) /\ Len(s) \in Nat /\ Len(p) \in Nat
      BY <1>1, <1>2, <2>1, <2>2, <2>4, RebaseElements, PathElements
    <3>2. \A i \in 1 .. Len(s) :
             (IF i <= Len(p) THEN q[i] ELSE s[i]) = (IF i <= Len(p) THEN q[i] ELSE t[i])
      <4>1. \A i \in 1 .. Len(s) : Rebase(s, p, q)[i] = IF i <= Len(p) THEN q[i] ELSE s[i]
        BY <1>1, <2>1, <2>4, RebaseElements
      <4>2. \A i \in 1 .. Len(t) : Rebase(t, p, q)[i] = IF i <= Len(p) THEN q[i] ELSE t[i]
        BY <1>1, <2>1, <2>2, <2>4, RebaseElements
      <4> QED
        BY <1>2, <3>1, <4>1, <4>2, Zenon
    <3>3. \A i \in 1 .. Len(p) : p[i] = s[i] /\ p[i] = t[i]
      BY <1>1, <2>1, <2>2, <2>4, PrefixElements
    <3>4. ASSUME NEW i \in 1 .. Len(s)
          PROVE  s[i] = t[i]
      BY <3>1, <3>2, <3>3
    <3> QED
      BY <2>1, <3>1, <3>4, PathEqual
  <2> QED
    BY <2>3, <2>4
<1> DEFINE D == {Rebase(s, p, q) : s \in DOMAIN card}
           Was(r) == CHOOSE s \in DOMAIN card : Rebase(s, p, q) = r
<1>3. card' = [r \in D |-> card[Was(r)]]
  BY DEF Renamed
<1>4. \A s \in DOMAIN card : Rebase(s, p, q) \in D /\ Was(Rebase(s, p, q)) = s
  BY <1>2
<1>5. \A r \in D : \E s \in DOMAIN card : r = Rebase(s, p, q)
  OBVIOUS
<1> HIDE DEF D, Was
<1> QED
  BY <1>3, <1>4, <1>5

\* What neither name is a prefix of stays where it is.
LEMMA RenameKeeps ==
    ASSUME IsTree, NEW p, NEW q, RenamesTo(p, q), card' = Renamed(p, q),
           NEW r \in DOMAIN card, ~IsPrefix(p, r)
    PROVE  r \in DOMAIN card' /\ card'[r] = card[r]
BY RenameMoves, RebaseOther

\* The first names of a path below p, moved with it.
LEMMA RebasePre ==
    ASSUME NEW p \in Path, NEW q \in Path, NEW s \in Path, Len(p) = Len(q), IsPrefix(p, s),
           \A k \in 0 .. Len(p) - 1 : Pre(p, k) = Pre(q, k), NEW k \in 0 .. Len(s)
    PROVE  Pre(Rebase(s, p, q), k) = Rebase(Pre(s, k), p, q)
<1> DEFINE r == Rebase(s, p, q)
<1>1. /\ r \in Path /\ Len(r) = Len(s)
      /\ \A i \in 1 .. Len(s) : r[i] = IF i <= Len(p) THEN q[i] ELSE s[i]
  BY RebaseElements
<1>2. Len(p) \in Nat /\ Len(s) \in Nat /\ k \in Nat
  BY PathElements
<1> HIDE DEF r
<1>3. /\ Pre(r, k) \in Path /\ Len(Pre(r, k)) = k
      /\ \A i \in 1 .. k : Pre(r, k)[i] = r[i]
  BY <1>1, PreLemma
<1>4. /\ Pre(s, k) \in Path /\ Len(Pre(s, k)) = k
      /\ \A i \in 1 .. k : Pre(s, k)[i] = s[i]
  BY PreLemma
<1>5. CASE k >= Len(p)
  <2>1. IsPrefix(p, Pre(s, k))
    BY <1>5, PreOrder
  <2>2. /\ Rebase(Pre(s, k), p, q) \in Path /\ Len(Rebase(Pre(s, k), p, q)) = k
        /\ \A i \in 1 .. k :
              Rebase(Pre(s, k), p, q)[i] = IF i <= Len(p) THEN q[i] ELSE Pre(s, k)[i]
    BY <1>4, <2>1, RebaseElements
  <2>3. ASSUME NEW i \in 1 .. k
        PROVE  Pre(r, k)[i] = Rebase(Pre(s, k), p, q)[i]
    BY <1>1, <1>2, <1>3, <1>4, <2>2
  <2> QED
    BY <1>3, <2>2, <2>3, PathEqual DEF r
<1>6. CASE k < Len(p)
  <2>1. ~IsPrefix(p, Pre(s, k))
    BY <1>2, <1>6, PreOrder
  <2>2. Pre(p, k) = Pre(q, k) /\ k \in 0 .. Len(p) /\ k \in 0 .. Len(q)
    BY <1>2, <1>6
  <2>3. \A i \in 1 .. k : Pre(p, k)[i] = p[i] /\ Pre(q, k)[i] = q[i]
    BY <2>2, PreLemma
  <2>4. \A i \in 1 .. Len(p) : p[i] = s[i]
    BY PrefixElements
  <2>5. ASSUME NEW i \in 1 .. k
        PROVE  Pre(r, k)[i] = Pre(s, k)[i]
    <3>1. i \in 1 .. Len(s) /\ i \in 1 .. Len(p)
      BY <1>2, <1>6
    <3> QED
      BY <1>1, <1>3, <1>4, <2>2, <2>3, <2>4, <3>1
  <2>6. Pre(r, k) = Pre(s, k)
    BY <1>3, <1>4, <2>5, PathEqual
  <2> QED
    BY <2>1, <2>6, RebaseOther DEF r
<1> QED
  BY <1>2, <1>5, <1>6

\* A tree stays a tree.
LEMMA RenameTree ==
    ASSUME IsTree, NEW p, NEW q, RenamesTo(p, q), card' = Renamed(p, q)
    PROVE  IsTree'
<1>1. /\ p \in Path /\ q \in Path /\ Len(p) = Len(q) /\ Len(p) > 0 /\ Len(p) \in Nat
      /\ \A k \in 0 .. Len(p) - 1 : Pre(p, k) = Pre(q, k)
      /\ IsCard /\ DOMAIN card \subseteq Path
  BY PathElements DEF RenamesTo, IsTree, IsCard
<1>2. IsCard'
  BY <1>1, RenamedLemma DEF IsCard
<1>3. IsDirectory(Root)'
  <2>1. Root \in DOMAIN card /\ card[Root] = "dir"
    BY DEF IsTree, IsDirectory, Exists
  <2>2. ~IsPrefix(p, Root)
    BY <1>1, <2>1, PathElements, PrefixElements
  <2> QED
    BY <2>1, <2>2, RenameKeeps DEF IsDirectory, Exists
<1>4. ASSUME NEW r \in DOMAIN card', NEW k \in 0 .. Len(r) - 1
      PROVE  IsDirectory(SubSeq(r, 1, k))'
  <2>1. PICK s \in DOMAIN card : r = Rebase(s, p, q)
    BY RenameMoves
  <2>2. s \in Path /\ Len(s) \in Nat /\ Len(r) = Len(s) /\ k \in 0 .. Len(s) - 1 /\ k \in 0 .. Len(s)
    BY <1>1, <2>1, PathElements, RebaseElements, RebaseOther
  <2>3. Pre(s, k) \in DOMAIN card /\ card[Pre(s, k)] = "dir"
    BY <2>2 DEF IsTree, IsDirectory, Exists, Pre
  <2>4. Pre(r, k) = Rebase(Pre(s, k), p, q)
    <3>1. CASE IsPrefix(p, s)
      BY <1>1, <2>1, <2>2, <3>1, RebasePre
    <3>2. CASE ~IsPrefix(p, s)
      BY <1>1, <2>1, <2>2, <3>2, PreOrder, RebaseOther
    <3> QED
      BY <3>1, <3>2
  <2>5. Pre(r, k) \in DOMAIN card' /\ card'[Pre(r, k)] = "dir"
    BY <2>3, <2>4, RenameMoves
  <2> QED
    BY <2>5 DEF IsDirectory, Exists, Pre
<1> QED
  BY <1>2, <1>3, <1>4 DEF IsTree

\* To its own name.
LEMMA RenameSame ==
    ASSUME IsCard, NEW p \in Path
    PROVE  Renamed(p, p) = card
<1>1. ASSUME NEW s \in DOMAIN card
      PROVE  Rebase(s, p, p) = s
  <2>1. s \in Path
    BY DEF IsCard
  <2>2. CASE IsPrefix(p, s)
    <3> DEFINE r == Rebase(s, p, p)
    <3>1. /\ r \in Path /\ Len(r) = Len(s)
          /\ \A i \in 1 .. Len(s) : r[i] = IF i <= Len(p) THEN p[i] ELSE s[i]
      BY <2>1, <2>2, RebaseElements
    <3>2. \A i \in 1 .. Len(p) : p[i] = s[i]
      BY <2>1, <2>2, PrefixElements
    <3> HIDE DEF r
    <3>3. \A i \in 1 .. Len(s) : r[i] = s[i]
      BY <2>1, <3>1, <3>2, PathElements
    <3> QED
      BY <2>1, <3>1, <3>3, PathEqual DEF r
  <2>3. CASE ~IsPrefix(p, s)
    BY <2>3, RebaseOther
  <2> QED
    BY <2>2, <2>3
<1> DEFINE D == {Rebase(s, p, p) : s \in DOMAIN card}
           Was(r) == CHOOSE s \in DOMAIN card : Rebase(s, p, p) = r
<1>2. Renamed(p, p) = [r \in D |-> card[Was(r)]]
  BY DEF Renamed
<1>3. D = DOMAIN card /\ \A r \in D : Was(r) = r
  BY <1>1
<1>4. card = [r \in DOMAIN card |-> card[r]]
  BY DEF IsCard
<1> HIDE DEF D, Was
<1> QED
  BY <1>2, <1>3, <1>4

-----------------------------------------------------------------------------
(* What else happens to a tree.                                            *)

\* A new entry where there is a directory for it.
LEMMA WithTree ==
    ASSUME IsTree, NEW p \in Path, IsFree(p), NEW kind \in {"dir", "file"},
           card' = With(p, kind)
    PROVE  /\ IsTree'
           /\ DOMAIN card' = DOMAIN card \cup {p} /\ card'[p] = kind
           /\ \A q \in DOMAIN card : card'[q] = card[q]
<1>1. p \notin DOMAIN card /\ p # Root /\ Front(p) \in DOMAIN card /\ card[Front(p)] = "dir"
  BY DEF IsFree, IsDirectory, Exists
<1>2. /\ DOMAIN card' = DOMAIN card \cup {p} /\ card'[p] = kind
      /\ \A q \in DOMAIN card : card'[q] = card[q]
  BY <1>1 DEF With
<1>3. IsCard'
  <2>1. card' \in [DOMAIN card \cup {p} -> {"dir", "file"}]
    BY DEF With, IsTree, IsCard
  <2> QED
    BY <1>2, <2>1 DEF IsTree, IsCard
<1>4. ASSUME NEW q \in DOMAIN card, NEW k \in 0 .. Len(q) - 1
      PROVE  IsDirectory(SubSeq(q, 1, k))'
  <2>1. IsDirectory(SubSeq(q, 1, k))
    BY DEF IsTree
  <2> HIDE DEF Pre
  <2> QED
    BY <1>2, <2>1 DEF IsDirectory, Exists
<1>5. ASSUME NEW k \in 0 .. Len(p) - 1
      PROVE  IsDirectory(SubSeq(p, 1, k))'
  <2>1. Front(p) = Pre(p, Len(p) - 1) /\ Len(Front(p)) = Len(p) - 1 /\ Len(p) \in Nat
        /\ Pre(Front(p), k) = Pre(p, k)
    BY <1>1, FrontLemma, PathElements
  <2>2. IsDirectory(Pre(p, k))
    <3>1. CASE k = Len(p) - 1
      BY <1>1, <2>1, <3>1 DEF IsDirectory, Exists
    <3>2. CASE k # Len(p) - 1
      <4>1. k \in 0 .. Len(Front(p)) - 1
        BY <2>1, <3>2
      <4>2. IsDirectory(SubSeq(Front(p), 1, k))
        BY <1>1, <4>1 DEF IsTree
      <4> QED
        BY <2>1, <4>2 DEF Pre
    <3> QED
      BY <3>1, <3>2
  <2> QED
    BY <1>2, <2>2 DEF IsDirectory, Exists, Pre
<1>6. IsDirectory(Root)'
  BY <1>2 DEF IsTree, IsDirectory, Exists
<1> QED
  BY <1>2, <1>3, <1>4, <1>5, <1>6 DEF IsTree

\* What is at or below a path and not above something refused.
Gone(p, refused) == {s \in DOMAIN card : IsPrefix(p, s) /\ \A k \in refused : ~IsPrefix(s, k)}

\* It goes.
LEMMA WithoutTree ==
    ASSUME IsTree, NEW p \in Path, p # Root, NEW refused \in SUBSET DOMAIN card,
           card' = Without(Gone(p, refused))
    PROVE  /\ IsTree'
           /\ DOMAIN card' = DOMAIN card \ Gone(p, refused)
           /\ \A s \in DOMAIN card' : card'[s] = card[s]
<1>1. /\ DOMAIN card' = DOMAIN card \ Gone(p, refused)
      /\ \A s \in DOMAIN card' : card'[s] = card[s]
  BY DEF Without, Restrict, Gone
<1>2. IsCard'
  BY <1>1 DEF Without, Restrict, IsTree, IsCard
<1>3. ASSUME NEW q \in DOMAIN card', NEW k \in 0 .. Len(q) - 1
      PROVE  IsDirectory(SubSeq(q, 1, k))'
  <2>1. q \in Path /\ q \in DOMAIN card /\ q \notin Gone(p, refused)
    BY <1>1 DEF IsTree, IsCard
  <2>2. Pre(q, k) \in DOMAIN card /\ card[Pre(q, k)] = "dir" /\ Pre(q, k) \in Path
    BY <2>1 DEF IsTree, IsCard, IsDirectory, Exists, Pre
  <2>3. Pre(q, k) \notin Gone(p, refused)
    <3>1. k \in 0 .. Len(q)
      BY <2>1, PathElements
    <3>2. IsPrefix(Pre(q, k), q) /\ (IsPrefix(p, Pre(q, k)) => IsPrefix(p, q))
      BY <2>1, <3>1, PreOrder
    <3>3. CASE ~IsPrefix(p, q)
      BY <3>2, <3>3 DEF Gone
    <3>4. CASE \E f \in refused : IsPrefix(q, f)
      <4>1. PICK f \in refused : IsPrefix(q, f)
        BY <3>4
      <4>2. f \in Path
        BY <4>1 DEF IsTree, IsCard
      <4>3. IsPrefix(Pre(q, k), f)
        BY <2>1, <2>2, <3>2, <4>1, <4>2, PrefixOrder
      <4> QED
        BY <4>1, <4>3 DEF Gone
    <3> QED
      BY <2>1, <3>3, <3>4 DEF Gone
  <2> QED
    BY <1>1, <2>2, <2>3 DEF IsDirectory, Exists, Pre
<1>4. IsDirectory(Root)'
  <2>1. ~IsPrefix(p, Root)
    BY Constants, PathElements, PrefixElements
  <2> QED
    BY <1>1, <2>1 DEF IsTree, IsDirectory, Exists, Gone
<1> QED
  BY <1>1, <1>2, <1>3, <1>4 DEF IsTree

-----------------------------------------------------------------------------
(* The entries.                                                            *)

Inv == IInv /\ CarefulInv

\* What the types say of an entry and of its handle.
LEMMA Entries ==
    ASSUME IInv
    PROVE  /\ db \in [DOMAIN db -> DbEntry] /\ counter \in Nat
           /\ \A h \in DOMAIN db : /\ h \in 1 .. MaxHandle /\ h < counter
                                   /\ db[h].path \in Path
                                   /\ db[h].parent \in 0 .. MTP_PARENT_ROOT
                                   /\ db[h].object_format \in {"association", "other"}
                                   /\ db[h].scanned \in BOOLEAN
                                   /\ h # kInvalidObjectHandle /\ h # MTP_PARENT_ROOT
<1>1. db \in [DOMAIN db -> DbEntry] /\ DOMAIN db \subseteq 1 .. (counter - 1)
      /\ counter \in 1 .. MTP_PARENT_ROOT /\ DOMAIN db \subseteq 1 .. MaxHandle
  BY DEF IInv, Issued, TypeOK
<1>2. \A h \in DOMAIN db : /\ db[h].path \in Path
                           /\ db[h].parent \in 0 .. MTP_PARENT_ROOT
                           /\ db[h].object_format \in {"association", "other"}
                           /\ db[h].scanned \in BOOLEAN
  BY <1>1 DEF DbEntry
<1> QED
  BY <1>1, <1>2, Constants

LEMMA RootFacts ==
    ASSUME IInv, status = "running"
    PROVE  /\ 1 \in DOMAIN db /\ db[1].path = Root /\ db[1].parent = MTP_PARENT_ROOT
           /\ db[1].object_format = "association"
BY DEF IInv, RootEntry

\* Only an object without children has no other below it.
LEMMA NoneBelow ==
    ASSUME IInv, status = "running", NamedOnce, Placed, Rooted,
           NEW h \in DOMAIN db \ {1}, \A c \in DOMAIN db : db[c].parent # h,
           NEW c \in DOMAIN db, IsPrefix(db[h].path, db[c].path)
    PROVE  c = h
<1> DEFINE p == db[h].path
           q == db[c].path
           k == Len(p) + 1
<1>1. p \in Path /\ q \in Path /\ Len(p) \in Nat /\ Len(q) \in Nat /\ Len(p) <= Len(q)
  BY Entries, PathElements, PrefixElements
<1>2. CASE Len(p) = Len(q)
  BY <1>1, <1>2, PrefixLemma DEF NamedOnce
<1>3. CASE Len(p) # Len(q)
  <2>1. k \in 0 .. Len(q)
    BY <1>1, <1>3
  <2>2. PICK g \in DOMAIN db : db[g].path = Pre(q, k)
    BY <2>1 DEF Rooted, Pre
  <2> DEFINE r == db[g].path
  <2>3. r \in Path /\ Len(r) = k /\ \A i \in 1 .. k : r[i] = q[i]
    BY <1>1, <2>1, <2>2, PreLemma
  <2>4. r # Root /\ g # 1
    BY <1>1, <2>3, PathElements, RootFacts
  <2>5. Front(r) = p
    <3> HIDE DEF p, q, r
    <3>1. Front(r) \in Path /\ Len(Front(r)) = Len(p) /\ \A i \in 1 .. Len(p) : Front(r)[i] = r[i]
      BY <1>1, <2>3, <2>4, FrontLemma
    <3>2. \A i \in 1 .. Len(p) : p[i] = q[i]
      BY <1>1, PrefixElements DEF p, q
    <3>3. \A i \in 1 .. Len(p) : Front(r)[i] = p[i]
      BY <1>1, <2>3, <3>1, <3>2
    <3> QED
      BY <1>1, <3>1, <3>3, PathEqual
  <2>6. Above(g) = h
    BY <2>4, <2>5 DEF Placed, NamedOnce
  <2> QED
    BY <2>6 DEF Above
<1> QED
  BY <1>2, <1>3

\* Objects without known children have none.
LEMMA NoChildren ==
    ASSUME Inv, status = "running", NEW h \in DOMAIN db \ {1},
           \A c \in known : db[c].parent # h
    PROVE  \A c \in DOMAIN db : db[c].parent # h
<1>1. h # 0 /\ h # MTP_PARENT_ROOT
  BY Entries, Constants DEF Inv
<1> QED
  BY <1>1, RootFacts DEF Inv, CarefulInv, Knows

\* Nor has a file.
LEMMA FileIsLeaf ==
    ASSUME Inv, status = "running", NEW h \in DOMAIN db \ {1}, db[h].object_format # "association"
    PROVE  \A c \in DOMAIN db : db[c].parent # h
<1>1. h # 0 /\ h # MTP_PARENT_ROOT
  BY Entries, Constants DEF Inv
<1> QED
  BY <1>1, RootFacts DEF Inv, CarefulInv, Placed

\* Nothing happens to the entries or the card.
LEMMA FrameLemma ==
    ASSUME CarefulInv, Idle, Idle', UNCHANGED card,
           DOMAIN db' = DOMAIN db,
           \A h \in DOMAIN db : SameObject(db'[h], db[h]) /\ db'[h].scanned = db[h].scanned,
           known' \subseteq DOMAIN db \ {1}, known \subseteq known', unshown \subseteq unshown'
    PROVE  CarefulInv'
<1>1. IsTree'
  BY DEF CarefulInv, IsTree, IsCard, IsDirectory, Exists
<1>2. NamedOnce'
  BY DEF CarefulInv, NamedOnce, SameObject
<1>3. Placed'
  BY DEF CarefulInv, Placed, Above, SameObject
<1>4. Rooted'
  <2>1. \A h \in DOMAIN db : db'[h].path = db[h].path
    BY DEF SameObject
  <2> QED
    BY <2>1 DEF CarefulInv, Rooted
<1>5. OnCard'
  BY DEF CarefulInv, OnCard, SameObject, Idle, IsDirectory, Exists
<1>6. ListedDirectoriesComplete'
  <2>1. {db'[c].path : c \in DOMAIN db'} = {db[c].path : c \in DOMAIN db}
    BY DEF SameObject
  <2>2. \A p : Children(p)' = Children(p)
    BY DEF Children
  <2> QED
    BY <2>1, <2>2 DEF CarefulInv, ListedDirectoriesComplete, SameObject
<1>7. Knows'
  BY DEF CarefulInv, Knows, SameObject
<1> QED
  BY <1>1, <1>2, <1>3, <1>4, <1>5, <1>6, <1>7 DEF CarefulInv

\* Entries are added to directories that have theirs.
LEMMA GrowLemma ==
    ASSUME IInv, IInv', status = "running", NamedOnce, Placed, Rooted,
           DOMAIN db \subseteq DOMAIN db',
           \A h \in DOMAIN db : SameObject(db'[h], db[h]) /\ (db[h].scanned => db'[h].scanned),
           \A g \in DOMAIN db' \ DOMAIN db :
              /\ db'[g].path # Root
              /\ IF db'[g].parent = 0 THEN Front(db'[g].path) = Root
                 ELSE /\ db'[g].parent \in DOMAIN db
                      /\ db[db'[g].parent].path = Front(db'[g].path)
                      /\ db[db'[g].parent].object_format = "association"
                      /\ db'[db'[g].parent].scanned
    PROVE  Placed' /\ Rooted'
<1>1. 1 \in DOMAIN db /\ db[1].path = Root
  BY RootFacts
<1>2. Placed'
  <2>1. ASSUME NEW h \in DOMAIN db \ {1}
        PROVE  /\ db'[h].path # Root
               /\ Above(h)' \in DOMAIN db'
               /\ db'[Above(h)'].path = Front(db'[h].path)
               /\ db'[h].parent # 0 => db'[db'[h].parent].scanned
                                     /\ db'[db'[h].parent].object_format = "association"
    BY <2>1 DEF Placed, Above, SameObject
  <2>2. ASSUME NEW h \in DOMAIN db' \ DOMAIN db
        PROVE  /\ db'[h].path # Root
               /\ Above(h)' \in DOMAIN db'
               /\ db'[Above(h)'].path = Front(db'[h].path)
               /\ db'[h].parent # 0 => db'[db'[h].parent].scanned
                                     /\ db'[db'[h].parent].object_format = "association"
    BY <1>1, <2>2 DEF Above, SameObject
  <2> QED
    BY <2>1, <2>2 DEF Placed
<1>3. Rooted'
  <2>1. ASSUME NEW h \in DOMAIN db, NEW k \in 0 .. Len(db[h].path)
        PROVE  \E g \in DOMAIN db' : db'[g].path = SubSeq(db[h].path, 1, k)
    BY DEF Rooted, SameObject
  <2>2. ASSUME NEW h \in DOMAIN db' \ DOMAIN db, NEW k \in 0 .. Len(db'[h].path)
        PROVE  \E g \in DOMAIN db' : db'[g].path = SubSeq(db'[h].path, 1, k)
    <3> DEFINE q == db'[h].path
    <3>1. q \in Path /\ q # Root
      <4>1. db' \in [DOMAIN db' -> DbEntry]
        BY DEF IInv, Issued
      <4> QED
        BY <4>1, <2>2 DEF DbEntry
    <3>2. PICK a \in DOMAIN db : db[a].path = Front(q)
      BY <1>1, <2>2
    <3> HIDE DEF q
    <3>3. Len(q) \in Nat /\ Len(Front(q)) = Len(q) - 1
          /\ \A i \in 0 .. Len(q) - 1 : Pre(Front(q), i) = Pre(q, i)
      BY <3>1, FrontLemma, PathElements
    <3>4. CASE k = Len(q)
      BY <3>1, <3>4, SubSeqFull DEF q, Path
    <3>5. CASE k # Len(q)
      <4>1. k \in 0 .. Len(q) - 1 /\ k \in 0 .. Len(db[a].path)
        BY <3>2, <3>3, <3>5 DEF q
      <4>2. PICK g \in DOMAIN db' : db'[g].path = SubSeq(db[a].path, 1, k)
        BY <2>1, <4>1
      <4>3. SubSeq(db[a].path, 1, k) = SubSeq(q, 1, k)
        BY <3>2, <3>3, <4>1 DEF Pre
      <4> QED
        BY <4>2, <4>3 DEF q
    <3> QED
      BY <3>4, <3>5
  <2>3. \A h \in DOMAIN db : db'[h].path = db[h].path
    BY DEF SameObject
  <2> QED
    BY <2>1, <2>2, <2>3 DEF Rooted
<1> QED
  BY <1>2, <1>3

\* An entry without children goes.
LEMMA LeafLemma ==
    ASSUME IInv, status = "running", NamedOnce, Placed, Rooted,
           NEW m \in DOMAIN db \ {1}, \A c \in DOMAIN db : db[c].parent # m,
           db' = Erase({m})
    PROVE  /\ NamedOnce' /\ Placed' /\ Rooted'
           /\ DOMAIN db' = DOMAIN db \ {m}
           /\ \A h \in DOMAIN db' : db'[h] = db[h]
<1>1. DOMAIN db' = DOMAIN db \ {m} /\ \A h \in DOMAIN db' : db'[h] = db[h]
  BY DEF Erase, Restrict
<1>2. NamedOnce'
  BY <1>1 DEF NamedOnce
<1>3. Placed'
  <2>1. ASSUME NEW h \in DOMAIN db' \ {1}
        PROVE  /\ Above(h)' = Above(h) /\ Above(h) \in DOMAIN db'
               /\ db'[h] = db[h] /\ db'[Above(h)] = db[Above(h)]
               /\ db[h].parent # 0 => db'[db[h].parent] = db[db[h].parent]
    <3>1. h \in DOMAIN db \ {1} /\ db'[h] = db[h] /\ Above(h) \in DOMAIN db
      BY <1>1 DEF Placed
    <3>2. Above(h) # m
      BY <3>1 DEF Above
    <3>3. Above(h)' = Above(h)
      BY <3>1 DEF Above
    <3> QED
      BY <1>1, <3>1, <3>2, <3>3 DEF Above
  <2>2. ASSUME NEW h \in DOMAIN db' \ {1}
        PROVE  /\ db'[h].path # Root
               /\ Above(h)' \in DOMAIN db'
               /\ db'[Above(h)'].path = Front(db'[h].path)
               /\ db'[h].parent # 0 => db'[db'[h].parent].scanned
                                     /\ db'[db'[h].parent].object_format = "association"
    <3>1. h \in DOMAIN db \ {1}
      BY <1>1
    <3>2. /\ db[h].path # Root
          /\ db[Above(h)].path = Front(db[h].path)
          /\ db[h].parent # 0 => db[db[h].parent].scanned
                                /\ db[db[h].parent].object_format = "association"
      BY <3>1 DEF Placed
    <3> QED
      BY <2>1, <3>2
  <2> QED
    BY <2>2 DEF Placed
<1>4. Rooted'
  <2>1. ASSUME NEW h \in DOMAIN db', NEW k \in 0 .. Len(db'[h].path)
        PROVE  \E g \in DOMAIN db' : db'[g].path = SubSeq(db'[h].path, 1, k)
    <3>1. h \in DOMAIN db /\ db'[h] = db[h] /\ k \in 0 .. Len(db[h].path)
      BY <1>1
    <3>2. PICK g \in DOMAIN db : db[g].path = Pre(db[h].path, k)
      BY <3>1 DEF Rooted, Pre
    <3>3. IsPrefix(db[g].path, db[h].path)
      BY <3>1, <3>2, Entries, PreOrder
    <3>4. g # m
      BY <1>1, <3>1, <3>3, NoneBelow
    <3> QED
      BY <1>1, <3>1, <3>2, <3>4 DEF Pre
  <2> QED
    BY <2>1 DEF Rooted
<1> QED
  BY <1>1, <1>2, <1>3, <1>4

-----------------------------------------------------------------------------
(* The requests.                                                           *)

LEMMA RequestRuns ==
    \A code : Reply(code) => status = "running" /\ status' = "running"
BY DEF Reply

\* A request that changes nothing the host knows of.
LEMMA AnswerKeeps ==
    ASSUME Inv, Idle, NEW code, Answer(code), UNCHANGED <<known, unshown>>
    PROVE  CarefulInv'
<1>1. Idle' /\ UNCHANGED <<card, db>>
  BY DEF Idle, Answer, ForgetSendObject
<1>2. known' \subseteq DOMAIN db \ {1}
  BY DEF Inv, CarefulInv, Knows
<1> QED
  BY <1>1, <1>2, FrameLemma DEF Inv, SameObject

LEMMA SessionKeeps ==
    ASSUME Inv, Idle, OpenSession \/ CloseSession, UNCHANGED <<known, unshown>>
    PROVE  CarefulInv'
<1>1. Idle' /\ UNCHANGED <<card, db>>
  BY DEF Idle, OpenSession, CloseSession, ForgetSendObject
<1>2. known' \subseteq DOMAIN db \ {1}
  BY DEF Inv, CarefulInv, Knows
<1> QED
  BY <1>1, <1>2, FrameLemma DEF Inv, SameObject

LEMMA EditKeeps ==
    ASSUME Inv, NEW h \in HostHandle, CarefulEdit(h)
    PROVE  CarefulInv'
<1>1. CASE \E code : Answer(code)
  BY <1>1, AnswerKeeps DEF CarefulEdit
<1>2. CASE ~ \E code : Answer(code)
  <2>1. Idle /\ Idle' /\ UNCHANGED <<card, db, known, unshown>>
    BY <1>2 DEF CarefulEdit, Idle, BeginEditObject, EndEditObject, ForgetSendObject
  <2>2. known' \subseteq DOMAIN db \ {1}
    BY <2>1 DEF Inv, CarefulInv, Knows
  <2> QED
    BY <2>1, <2>2, FrameLemma DEF Inv, SameObject
<1> QED
  BY <1>1, <1>2

\* The process ends: nothing is left to be wrong.
LEMMA StopKeeps ==
    ASSUME Inv, NEW end, Terminate(end), known' = {}
    PROVE  CarefulInv'
<1>1. DOMAIN db' = {} /\ UNCHANGED card /\ Idle'
  BY DEF Terminate, NoEntries, Idle, kInvalidObjectHandle, MTP_PARENT_ROOT
<1>2. IsTree'
  BY <1>1 DEF Inv, CarefulInv, IsTree, IsCard, IsDirectory, Exists
<1>3. NamedOnce' /\ Placed' /\ Rooted' /\ OnCard' /\ ListedDirectoriesComplete' /\ Knows'
  BY <1>1 DEF NamedOnce, Placed, Rooted, OnCard, ListedDirectoriesComplete, Knows
<1> QED
  BY <1>2, <1>3 DEF CarefulInv

\* main scans the root.
LEMMA StartKeeps ==
    ASSUME Inv, IInv', NEW unread, Start(unread), known' = {}, unshown' = unread
    PROVE  CarefulInv'
<1> DEFINE d == [h \in {1} |-> NewEntry(SdStorage, "association", MTP_PARENT_ROOT, Root)]
<1>1. /\ Issued(d, 2) /\ DOMAIN d = {1} /\ d[1].path = Root /\ d[1].parent = MTP_PARENT_ROOT
      /\ d[1].object_format = "association" /\ ~d[1].scanned
  BY Constants, StorageAssumption DEF Issued, NewEntry, DbEntry
<1>2. \/ \E o \in parse_directory(2, d, Root, 0, SdStorage, unread) : db' = o.db
      \/ db' = d /\ unread = Visited(Root)
  BY DEF Start, readFiles
<1>3. IsCard /\ 2 \in 1 .. MTP_PARENT_ROOT /\ 0 \in DOMAIN d \cup {0} /\ IsDirectory(Root)
  BY Constants DEF Inv, IInv, TypeOK, CarefulInv, IsTree
<1> HIDE DEF d
<1>4. ASSUME NEW o \in parse_directory(2, d, Root, 0, SdStorage, unread)
      PROVE  /\ DOMAIN d \subseteq DOMAIN o.db
             /\ \A h \in DOMAIN d : /\ SameObject(o.db[h], d[h])
                                    /\ o.db[h].scanned <=> d[h].scanned \/ h = 0
             /\ \A g \in DOMAIN o.db \ DOMAIN d :
                   /\ o.db[g].path \in Children(Root) /\ o.db[g].parent = 0
                   /\ ~o.db[g].scanned
                   /\ o.db[g].object_format = "association" <=> IsDirectory(o.db[g].path)
             /\ \A g, i \in DOMAIN o.db \ DOMAIN d : o.db[g].path = o.db[i].path => g = i
             /\ \A q \in Children(Root) \ unread :
                   \E g \in DOMAIN o.db \ DOMAIN d : o.db[g].path = q
  BY <1>1, <1>3, <1>4, DirectoryLemma
<1>5. /\ 1 \in DOMAIN db' /\ db'[1].path = Root /\ db'[1].object_format = "association"
      /\ ~db'[1].scanned
      /\ \A g \in DOMAIN db' \ {1} :
            /\ db'[g].path \in Children(Root) /\ db'[g].parent = 0 /\ ~db'[g].scanned
            /\ db'[g].object_format = "association" <=> IsDirectory(db'[g].path)
      /\ \A g, i \in DOMAIN db' \ {1} : db'[g].path = db'[i].path => g = i
      /\ \A q \in Children(Root) : q \in unshown' \/ \E g \in DOMAIN db' : db'[g].path = q
  <2>1. CASE db' = d /\ unread = Visited(Root)
    <3>1. unshown' = Children(Root)
      BY <1>3, <2>1 DEF Visited
    <3>2. DOMAIN db' = {1}
      BY <1>1, <2>1
    <3> QED
      BY <1>1, <2>1, <3>1, <3>2
  <2>2. ASSUME NEW o \in parse_directory(2, d, Root, 0, SdStorage, unread), db' = o.db
        PROVE  /\ 1 \in DOMAIN db' /\ db'[1].path = Root /\ db'[1].object_format = "association"
               /\ ~db'[1].scanned
               /\ \A g \in DOMAIN db' \ {1} :
                     /\ db'[g].path \in Children(Root) /\ db'[g].parent = 0 /\ ~db'[g].scanned
                     /\ db'[g].object_format = "association" <=> IsDirectory(db'[g].path)
               /\ \A g, i \in DOMAIN db' \ {1} : db'[g].path = db'[i].path => g = i
               /\ \A q \in Children(Root) :
                     q \in unshown' \/ \E g \in DOMAIN db' : db'[g].path = q
    BY <1>1, <1>4, <2>2 DEF SameObject
  <2> QED
    BY <1>2, <2>1, <2>2
<1>6. UNCHANGED card /\ Idle'
  BY DEF Start, Inv, IInv, AtRest, Idle, sendObject, kInvalidObjectHandle, MTP_PARENT_ROOT
<1>7. \A q \in Children(Root) : q # Root /\ Front(q) = Root /\ q \in DOMAIN card /\ q \in Path
  BY <1>3 DEF Children, IsCard
<1>8. NamedOnce'
  BY <1>5, <1>7 DEF NamedOnce
<1>9. Placed'
  BY <1>5, <1>7 DEF Placed, Above
<1>10. Rooted'
  <2>1. ASSUME NEW h \in DOMAIN db', NEW k \in 0 .. Len(db'[h].path)
        PROVE  \E g \in DOMAIN db' : db'[g].path = SubSeq(db'[h].path, 1, k)
    <3> DEFINE q == db'[h].path
    <3>1. q \in Path
      BY <1>5, <1>7, Constants
    <3> HIDE DEF q
    <3>2. Len(q) \in Nat /\ Len(q) <= 1
      <4>1. CASE q = Root
        BY <3>1, <4>1, PathElements
      <4>2. CASE q # Root
        <5>1. Front(q) = Root
          BY <1>5, <1>7, <4>2 DEF q
        <5>2. Len(q) = 1
          BY <3>1, <4>2, <5>1, OneName
        <5> QED
          BY <5>2
      <4> QED
        BY <4>1, <4>2
    <3>3. CASE k = Len(q)
      BY <3>1, <3>3, SubSeqFull DEF q, Path
    <3>4. CASE k # Len(q)
      <4>1. k = 0
        BY <3>2, <3>4 DEF q
      <4>2. Pre(q, 0) = Root
        BY <3>1, <3>2, PreLemma, PathElements
      <4> QED
        BY <1>5, <4>1, <4>2 DEF q, Pre
    <3> QED
      BY <3>3, <3>4
  <2> QED
    BY <2>1 DEF Rooted
<1>11. OnCard'
  <2>1. \A p : Exists(p)' = Exists(p) /\ IsDirectory(p)' = IsDirectory(p)
    BY <1>6 DEF Exists, IsDirectory
  <2>2. \A q \in Children(Root) : Exists(q)
    BY <1>7 DEF Exists
  <2>3. Exists(Root)
    BY <1>3 DEF IsDirectory
  <2>4. ASSUME NEW h \in DOMAIN db'
        PROVE  Exists(db'[h].path) /\ (IsDirectory(db'[h].path) <=> db'[h].object_format = "association")
    BY <1>3, <1>5, <2>2, <2>3
  <2> QED
    BY <1>6, <2>1, <2>4 DEF OnCard
<1>12. ListedDirectoriesComplete'
  <2>1. Children(Root)' = Children(Root)
    BY <1>6 DEF Children
  <2>2. \A h \in DOMAIN db' : db'[h].scanned \/ h = 1 => db'[h].path = Root
    BY <1>5
  <2> QED
    BY <1>5, <2>1, <2>2 DEF ListedDirectoriesComplete
<1>13. Knows'
  BY <1>5, <1>6 DEF Knows
<1>14. IsTree'
  BY <1>6 DEF Inv, CarefulInv, IsTree, IsCard, IsDirectory, Exists
<1> QED
  BY <1>8, <1>9, <1>10, <1>11, <1>12, <1>13, <1>14 DEF CarefulInv

\* The host lists a folder.
LEMMA ListKeeps ==
    ASSUME Inv, IInv', NEW p \in HostHandle, NEW unread, CarefulList(p, unread)
    PROVE  CarefulInv'
<1>1. Idle /\ GetObjectHandles(SdStorage, p, unread) /\ (p = MTP_PARENT_ROOT \/ IsFolder(p))
  BY DEF CarefulList
<1>2. IsFolder(p) => /\ p \in DOMAIN db \ {1} /\ db[p].object_format = "association"
                     /\ p \in known /\ p # MTP_PARENT_ROOT /\ p # 0
  BY Entries, Constants DEF IsFolder, Inv, CarefulInv, Knows
<1>3. CASE Answer("SESSION_NOT_OPEN")
  <2>1. UNCHANGED <<known, unshown>>
    BY <1>3 DEF CarefulList, Answer, Reply
  <2> QED
    BY <1>1, <1>3, <2>1, AnswerKeeps
<1>4. CASE Abort
  <2>1. Terminate("aborted") /\ status' = "aborted" /\ mResponse' = "none"
    BY <1>4 DEF Abort, Terminate
  <2>2. known' = {}
    BY <2>1 DEF CarefulList
  <2> QED
    BY <2>1, <2>2, StopKeeps
<1>5. CASE ListObjects(SdStorage, p, unread)
  <2>1. /\ status = "running" /\ status' = "running" /\ mResponse' = "OK"
        /\ Idle' /\ UNCHANGED card /\ getObjectList(SdStorage, p, unread)
        /\ known' = known \cup {h \in DOMAIN db' : db'[h].parent = ParentEntry(p)}
        /\ unshown' = unshown \cup unread
    BY <1>5 DEF CarefulList, ListObjects, Reply, ForgetSendObject, Idle
  <2>2. ParentEntry(p) # MTP_PARENT_ROOT /\ db[1].parent = MTP_PARENT_ROOT /\ 1 \in DOMAIN db
    <3>1. ParentEntry(p) # MTP_PARENT_ROOT
      <4>1. CASE p = MTP_PARENT_ROOT
        BY <4>1, Constants DEF ParentEntry
      <4>2. CASE p # MTP_PARENT_ROOT
        BY <4>2 DEF ParentEntry
      <4> QED
        BY <4>1, <4>2
    <3> QED
      BY <2>1, <3>1, RootFacts DEF Inv
  <2>3. CASE ~NeedsScan(p)
    <3>1. UNCHANGED db
      BY <2>1, <2>3 DEF getObjectList
    <3>2. known' \subseteq DOMAIN db \ {1}
      BY <2>1, <2>2, <3>1 DEF Inv, CarefulInv, Knows
    <3> QED
      BY <1>1, <2>1, <3>1, <3>2, FrameLemma DEF Inv, SameObject
  <2>4. CASE NeedsScan(p)
    <3>1. p \in DOMAIN db \ {1} /\ db[p].object_format = "association" /\ ~db[p].scanned
          /\ ParentEntry(p) = p /\ p # 0 /\ p # MTP_PARENT_ROOT
      BY <1>1, <1>2, <2>4 DEF NeedsScan, ParentEntry
    <3> DEFINE dir == db[p].path
    <3>2. /\ NamedOnce /\ Placed /\ Rooted /\ OnCard /\ ListedDirectoriesComplete /\ Knows
          /\ IInv /\ IsTree /\ IsCard
      BY DEF Inv, CarefulInv, IsTree
    <3>3. IsDirectory(dir) /\ p # mSendObjectHandle
      BY <1>1, <3>1, <3>2, Entries DEF OnCard, Idle
    <3>4. PICK o \in parse_directory(counter, db, dir, p, SdStorage, unread) : counter' = o.counter /\ db' = o.db
      BY <2>1, <2>4 DEF getObjectList
    <3>5. counter \in 1 .. MTP_PARENT_ROOT /\ Issued(db, counter)
      BY <3>2 DEF IInv, TypeOK
    <3> DEFINE new == DOMAIN db' \ DOMAIN db
    <3>6. /\ DOMAIN db \subseteq DOMAIN db'
          /\ \A h \in DOMAIN db : /\ SameObject(db'[h], db[h])
                                  /\ db'[h].scanned <=> db[h].scanned \/ h = p
          /\ \A g \in new :
                /\ db'[g].path \in Children(dir) /\ db'[g].parent = p
                /\ ~db'[g].scanned
                /\ db'[g].object_format = "association" <=> IsDirectory(db'[g].path)
          /\ \A g, i \in new : db'[g].path = db'[i].path => g = i
          /\ \A q \in Children(dir) \ unread : \E g \in new : db'[g].path = q
      <4> HIDE DEF dir
      <4> QED
        BY <3>1, <3>2, <3>3, <3>4, <3>5, DirectoryLemma
    <3>7. \A q \in Children(dir) : q # Root /\ Front(q) = dir /\ Exists(q)
      BY DEF Children, Exists
    <3>8. \A h \in DOMAIN db : db[h].path \notin Children(dir)
      <4> SUFFICES ASSUME NEW h \in DOMAIN db, db[h].path \in Children(dir)
                   PROVE  FALSE
        OBVIOUS
      <4>1. h # 1 /\ Front(db[h].path) = dir
        BY <2>1, <3>2, <3>7, RootFacts
      <4>2. Above(h) = p
        BY <3>1, <3>2, <4>1 DEF Placed, NamedOnce
      <4>3. db[h].parent = p
        BY <3>1, <4>2 DEF Above
      <4> QED
        BY <3>1, <3>2, <4>1, <4>3 DEF Placed
    <3>9. NamedOnce'
      BY <3>2, <3>6, <3>8 DEF NamedOnce, SameObject
    <3>10. Placed' /\ Rooted'
      <4> HIDE DEF new
      <4>1. \A g \in new : /\ db'[g].path # Root /\ db'[g].parent = p
                           /\ dir = Front(db'[g].path)
        BY <3>6, <3>7
      <4>2. db'[p].scanned
        BY <3>1, <3>6
      <4> QED
        BY <2>1, <3>1, <3>2, <3>6, <4>1, <4>2, GrowLemma DEF new
    <3>11. OnCard'
      <4>1. \A q : Exists(q)' = Exists(q) /\ IsDirectory(q)' = IsDirectory(q)
        BY <2>1 DEF Exists, IsDirectory
      <4>2. \A h \in DOMAIN db : /\ Exists(db[h].path)
                                 /\ IsDirectory(db[h].path) <=> db[h].object_format = "association"
        BY <1>1, <3>2, Entries DEF OnCard, Idle
      <4>3. \A h \in DOMAIN db' : /\ Exists(db'[h].path)
                                  /\ IsDirectory(db'[h].path) <=> db'[h].object_format = "association"
        BY <3>6, <3>7, <4>2 DEF SameObject
      <4> QED
        BY <2>1, <4>1, <4>3 DEF OnCard
    <3>12. ListedDirectoriesComplete'
      <4>1. \A q : Children(q)' = Children(q)
        BY <2>1 DEF Children
      <4>2. ASSUME NEW h \in DOMAIN db', db'[h].scanned \/ h = 1
            PROVE  \A q \in Children(db'[h].path) :
                      q \in unshown' \/ \E g \in DOMAIN db' : db'[g].path = q
        <5>1. h \in DOMAIN db /\ db'[h].path = db[h].path
          BY <2>2, <3>6, <4>2 DEF SameObject
        <5>2. CASE h = p
          BY <2>1, <3>6, <5>1, <5>2
        <5>3. CASE h # p
          <6>1. Children(db[h].path) \subseteq {db[g].path : g \in DOMAIN db} \cup unshown
            BY <3>2, <3>6, <4>2, <5>1, <5>3 DEF ListedDirectoriesComplete
          <6> QED
            BY <2>1, <3>6, <5>1, <6>1 DEF SameObject
        <5> QED
          BY <5>2, <5>3
      <4> QED
        BY <4>1, <4>2 DEF ListedDirectoriesComplete
    <3>13. Knows'
      <4>1. \A h \in DOMAIN db : db'[h].parent = db[h].parent
        BY <3>6 DEF SameObject
      <4>2. known' \subseteq DOMAIN db' \ {1}
        BY <2>1, <2>2, <3>2, <3>6, <4>1 DEF Knows
      <4>3. \A h \in DOMAIN db' \ ({1} \cup known') : db'[h].parent = 0
        BY <2>1, <3>1, <3>2, <3>6, <4>1 DEF Knows
      <4> QED
        BY <2>1, <4>2, <4>3 DEF Knows
    <3>14. IsTree'
      BY <2>1, <3>2 DEF IsTree, IsCard, IsDirectory, Exists
    <3> QED
      BY <3>9, <3>10, <3>11, <3>12, <3>13, <3>14 DEF CarefulInv
  <2> QED
    BY <2>3, <2>4
<1> QED
  BY <1>1, <1>3, <1>4, <1>5 DEF GetObjectHandles

\* One entry, of a path that is not on the card, is added to a directory that
\* was listed.
LEMMA NewEntryLemma ==
    ASSUME Inv, IInv', status = "running", Idle,
           NEW p \in HostHandle, NEW n \in Name, NEW f, Listed(p),
           p # MTP_PARENT_ROOT => db[p].object_format = "association",
           ~Exists(Append(ParentPath(p), n)),
           beginSendObject(Append(ParentPath(p), n), f, ParentEntry(p), SdStorage)
    PROVE  /\ NamedOnce' /\ Placed' /\ Rooted'
           /\ counter \notin DOMAIN db
           /\ DOMAIN db' = DOMAIN db \cup {counter}
           /\ \A h \in DOMAIN db : db'[h] = db[h]
           /\ db'[counter].path = Append(ParentPath(p), n)
           /\ db'[counter].object_format = f
           /\ db'[counter].parent = ParentEntry(p)
           /\ ~db'[counter].scanned
           /\ Append(ParentPath(p), n) \in Path
<1> DEFINE path == Append(ParentPath(p), n)
<1>1. counter \notin DOMAIN db /\ counter \in Nat
  BY Entries DEF Inv
<1>2. db' = Insert([h \in {counter} |-> NewEntry(SdStorage, f, ParentEntry(p), path)], db)
  BY DEF beginSendObject
<1>3. DOMAIN db' = DOMAIN db \cup {counter} /\ \A h \in DOMAIN db : db'[h] = db[h]
  BY <1>2 DEF Insert
<1>4. db'[counter] = NewEntry(SdStorage, f, ParentEntry(p), path)
  BY <1>1, <1>2 DEF Insert
<1>5. p # MTP_PARENT_ROOT =>
         /\ p \in DOMAIN db \ {1} /\ p # 0 /\ db[p].scanned
         /\ db[p].object_format = "association"
  BY Entries, Constants DEF Listed, IsFolder, Inv, CarefulInv, Knows
<1>6. ParentPath(p) \in Path
  BY <1>5, Entries, Constants DEF ParentPath, Inv
<1>7. path \in Path /\ path # Root /\ Front(path) = ParentPath(p)
  BY <1>6, ChildLemma
<1>8. /\ db'[counter].path = path /\ db'[counter].object_format = f
      /\ db'[counter].parent = ParentEntry(p) /\ ~db'[counter].scanned
  BY <1>4 DEF NewEntry
<1> HIDE DEF path
<1>9. \A h \in DOMAIN db : db[h].path # path
  <2>1. \A h \in DOMAIN db : Exists(db[h].path)
    BY Entries DEF Inv, CarefulInv, OnCard, Idle
  <2> QED
    BY <2>1 DEF path
<1>10. NamedOnce'
  <2>1. \A h, i \in DOMAIN db : db'[h].path = db'[i].path => h = i
    BY <1>3 DEF Inv, CarefulInv, NamedOnce
  <2> QED
    BY <1>3, <1>8, <1>9, <2>1 DEF NamedOnce
<1>11. Placed' /\ Rooted'
  <2>1. \A h \in DOMAIN db : SameObject(db'[h], db[h]) /\ (db[h].scanned => db'[h].scanned)
    BY <1>3 DEF SameObject
  <2>2. \A g \in DOMAIN db' \ DOMAIN db : g = counter
    BY <1>3
  <2>3. /\ db'[counter].path # Root
        /\ IF db'[counter].parent = 0 THEN Front(db'[counter].path) = Root
           ELSE /\ db'[counter].parent \in DOMAIN db
                /\ db[db'[counter].parent].path = Front(db'[counter].path)
                /\ db[db'[counter].parent].object_format = "association"
                /\ db'[db'[counter].parent].scanned
    <3>1. CASE p = MTP_PARENT_ROOT
      BY <1>7, <1>8, <3>1 DEF ParentEntry, ParentPath
    <3>2. CASE p # MTP_PARENT_ROOT
      BY <1>3, <1>5, <1>7, <1>8, <3>2 DEF ParentEntry, ParentPath
    <3> QED
      BY <3>1, <3>2
  <2> QED
    BY <1>3, <2>1, <2>2, <2>3, GrowLemma DEF Inv, CarefulInv
<1> QED
  BY <1>1, <1>3, <1>7, <1>8, <1>10, <1>11 DEF path

\* The next state's two card invariants, spelled out.
LEMMA OnCardNext ==
    ASSUME \A h \in DOMAIN db' \ {mSendObjectHandle'} :
              /\ db'[h].path \in DOMAIN card'
              /\ card'[db'[h].path] = "dir" <=> db'[h].object_format = "association",
           ~Idle' => mSendObjectFilePath' \notin DOMAIN card'
    PROVE  OnCard'
BY DEF OnCard, Exists, IsDirectory

LEMMA CompleteNext ==
    ASSUME \A h \in DOMAIN db' : db'[h].scanned \/ h = 1 =>
              \A q \in DOMAIN card' : q # Root /\ Front(q) = db'[h].path =>
                 q \in unshown' \/ \E g \in DOMAIN db' : db'[g].path = q
    PROVE  ListedDirectoriesComplete'
BY DEF ListedDirectoriesComplete, Children

\* The new entry and what SendObjectInfo did to the card.
LEMMA AddedLemma ==
    ASSUME Inv, Idle, status = "running", status' = "running", NEW path \in Path, NEW f,
           NamedOnce', Placed', Rooted',
           counter \notin DOMAIN db, DOMAIN db' = DOMAIN db \cup {counter},
           \A h \in DOMAIN db : db'[h] = db[h],
           db'[counter].path = path, db'[counter].object_format = f, ~db'[counter].scanned,
           known' = known \cup {counter}, unshown' = unshown, path \notin DOMAIN card,
           \/ /\ f = "other" /\ UNCHANGED card
              /\ mSendObjectHandle' = counter /\ mSendObjectFilePath' = path
           \/ /\ f = "association" /\ IsFree(path) /\ card' = With(path, "dir")
              /\ Idle'
    PROVE  CarefulInv'
<1>1. /\ IsTree /\ IsCard /\ OnCard /\ ListedDirectoriesComplete /\ Knows
      /\ 1 \in DOMAIN db /\ counter # 1
  BY RootFacts DEF Inv, CarefulInv, IsTree
<1>2. \A h \in DOMAIN db : /\ db[h].path \in DOMAIN card
                           /\ card[db[h].path] = "dir" <=> db[h].object_format = "association"
  BY <1>1, Entries DEF OnCard, Idle, Exists, IsDirectory, Inv
<1>3. /\ IsTree'
      /\ \A q \in DOMAIN card : q \in DOMAIN card' /\ card'[q] = card[q]
      /\ \A q \in DOMAIN card' : q \in DOMAIN card \/ q = path
      /\ \/ /\ f = "other" /\ path \notin DOMAIN card'
            /\ mSendObjectHandle' = counter /\ mSendObjectFilePath' = path
         \/ /\ f = "association" /\ path \in DOMAIN card' /\ card'[path] = "dir"
            /\ Idle'
  <2>1. CASE f = "other"
    <3>1. UNCHANGED card /\ mSendObjectHandle' = counter /\ mSendObjectFilePath' = path
      BY <2>1
    <3>2. IsTree'
      BY <1>1, <3>1 DEF IsTree, IsCard, IsDirectory, Exists
    <3> QED
      BY <2>1, <3>1, <3>2
  <2>2. CASE f = "association"
    <3>1. IsFree(path) /\ card' = With(path, "dir") /\ Idle'
      BY <2>2
    <3>2. /\ IsTree'
          /\ DOMAIN card' = DOMAIN card \cup {path} /\ card'[path] = "dir"
          /\ \A q \in DOMAIN card : card'[q] = card[q]
      BY <1>1, <3>1, WithTree
    <3> QED
      BY <2>2, <3>1, <3>2
  <2> QED
    BY <2>1, <2>2
<1>4. OnCard'
  <2>1. \A h \in DOMAIN db : /\ db'[h].path \in DOMAIN card'
                             /\ card'[db'[h].path] = "dir" <=> db'[h].object_format = "association"
    BY <1>2, <1>3
  <2>2. CASE f = "other"
    BY <1>3, <2>1, <2>2, OnCardNext
  <2>3. CASE f = "association"
    BY <1>3, <2>1, <2>3, OnCardNext
  <2> QED
    BY <1>3, <2>2, <2>3
<1>5. ListedDirectoriesComplete'
  <2> SUFFICES ASSUME NEW h \in DOMAIN db', db'[h].scanned \/ h = 1,
                      NEW q \in DOMAIN card', q # Root, Front(q) = db'[h].path
               PROVE  q \in unshown' \/ \E g \in DOMAIN db' : db'[g].path = q
    BY CompleteNext
  <2>1. h \in DOMAIN db /\ db'[h] = db[h]
    BY <1>1
  <2>2. CASE q \in DOMAIN card
    <3>1. q \in Children(db[h].path)
      BY <2>1, <2>2 DEF Children
    <3> QED
      BY <1>1, <2>1, <3>1 DEF ListedDirectoriesComplete
  <2>3. CASE q \notin DOMAIN card
    BY <1>3, <2>3
  <2> QED
    BY <2>2, <2>3
<1>6. Knows'
  <2>1. known' \subseteq DOMAIN db' \ {1}
    BY <1>1 DEF Knows
  <2>2. \A h \in DOMAIN db' \ ({1} \cup known') : db'[h].parent = 0
    BY <1>1 DEF Knows
  <2>3. ~Idle' => mSendObjectHandle' \in known'
    BY <1>3
  <2> QED
    BY <2>1, <2>2, <2>3 DEF Knows
<1> QED
  BY <1>3, <1>4, <1>5, <1>6 DEF CarefulInv

\* The host announces an object.
LEMMA SendInfoKeeps ==
    ASSUME Inv, IInv', NEW p \in HostHandle, NEW n \in Name, NEW f \in {"association", "other"},
           CarefulSendInfo(p, n, f)
    PROVE  CarefulInv'
<1> DEFINE path == Append(ParentPath(p), n)
<1>1. /\ Idle /\ Listed(p) /\ ~Exists(path) /\ SendObjectInfo(SdStorage, p, n, f)
      /\ f = "association" => mResponse' # "GENERAL_ERROR"
      /\ known' = IF mResponse' = "OK" THEN known \cup {counter} ELSE known
      /\ unshown' = unshown
  BY DEF CarefulSendInfo
<1>2. ASSUME NEW code, Answer(code), code # "OK"
      PROVE  CarefulInv'
  <2>1. known' = known
    BY <1>1, <1>2 DEF Answer, Reply
  <2> QED
    BY <1>1, <1>2, <2>1, AnswerKeeps
<1>3. ASSUME status = "running", status' = "running", mResponse' = "OK",
             AcceptsInto(SdStorage, p),
             beginSendObject(path, f, ParentEntry(p), SdStorage),
             \/ /\ f = "other" /\ UNCHANGED card
                /\ mSendObjectHandle' = counter /\ mSendObjectFilePath' = path
             \/ /\ f = "association" /\ CanCreate(path) /\ card' = With(path, "dir")
                /\ Idle'
      PROVE  CarefulInv'
  <2>1. p # MTP_PARENT_ROOT => db[p].object_format = "association"
    BY <1>3 DEF AcceptsInto
  <2>2. /\ NamedOnce' /\ Placed' /\ Rooted'
        /\ counter \notin DOMAIN db
        /\ DOMAIN db' = DOMAIN db \cup {counter}
        /\ \A h \in DOMAIN db : db'[h] = db[h]
        /\ db'[counter].path = path
        /\ db'[counter].object_format = f
        /\ ~db'[counter].scanned
        /\ path \in Path
    BY <1>1, <1>3, <2>1, NewEntryLemma
  <2>3. known' = known \cup {counter} /\ path \notin DOMAIN card
    BY <1>1, <1>3 DEF Exists
  <2>4. CanCreate(path) => IsFree(path)
    BY DEF CanCreate
  <2>5. \E r \in Path : r = path
    BY <2>2
  <2> HIDE DEF path
  <2>6. PICK r \in Path : r = path
    BY <2>5
  <2> QED
    BY <1>1, <1>3, <2>2, <2>3, <2>4, <2>6, AddedLemma
<1>4. CASE SendObjectInfoRefused(SdStorage, p)
  BY <1>2, <1>4 DEF SendObjectInfoRefused, getObjectFilePath
<1>5. CASE \E code \in {"STORAGE_FULL", "OBJECT_TOO_LARGE"} : Answer(code)
  BY <1>2, <1>5
<1>6. CASE f = "other" /\ SendObjectInfoFile(SdStorage, p, n)
  BY <1>3, <1>6 DEF SendObjectInfoFile, Reply
<1>7. CASE f = "association" /\ SendObjectInfoFolder(SdStorage, p, n)
  <2>1. status = "running" /\ status' = "running" /\ mResponse' = "OK"
    BY <1>1, <1>7 DEF SendObjectInfoFolder, Reply
  <2>2. /\ AcceptsInto(SdStorage, p)
        /\ beginSendObject(path, f, ParentEntry(p), SdStorage)
        /\ CanCreate(path) /\ card' = With(path, "dir")
    BY <1>1, <1>7 DEF SendObjectInfoFolder, Reply
  <2>3. Idle'
    BY <1>7 DEF SendObjectInfoFolder, ForgetSendObject, Idle, kInvalidObjectHandle, MTP_PARENT_ROOT
  <2> QED
    BY <1>3, <1>7, <2>1, <2>2, <2>3
<1> QED
  BY <1>1, <1>4, <1>5, <1>6, <1>7 DEF SendObjectInfo

\* The object that was announced arrives, or is given up.
LEMMA SendKeeps ==
    ASSUME Inv, IInv', NEW unlinked, CarefulSend(unlinked)
    PROVE  CarefulInv'
<1> DEFINE m == mSendObjectHandle
<1>1. /\ SendObject(unlinked) /\ ForgetSendObject /\ Idle' /\ status = "running" /\ status' = "running"
      /\ IsTree /\ IsCard /\ NamedOnce /\ Placed /\ Rooted /\ OnCard
      /\ ListedDirectoriesComplete /\ Knows /\ IInv
      /\ 1 \in DOMAIN db /\ DOMAIN card \subseteq Path
      /\ kInvalidObjectHandle' = kInvalidObjectHandle
  BY RootFacts DEF CarefulSend, SendObject, Reply, ForgetSendObject, Idle, Inv, CarefulInv,
                   IsTree, IsCard, kInvalidObjectHandle, MTP_PARENT_ROOT
<1>2. \A h \in DOMAIN db : h # kInvalidObjectHandle /\ db[h].path \in Path
  BY <1>1, Entries
<1>3. ASSUME Idle, db' = Erase({m}), UNCHANGED card, known' = known \ {m},
             unshown \subseteq unshown'
      PROVE  CarefulInv'
  <2>1. m \notin DOMAIN db /\ m \notin known
    BY <1>1, <1>2, <1>3 DEF Idle, Knows
  <2>2. DOMAIN db' = DOMAIN db /\ \A h \in DOMAIN db : db'[h] = db[h]
    BY <1>3, <2>1 DEF Erase, Restrict
  <2>3. known' = known /\ known \subseteq DOMAIN db \ {1}
    BY <1>1, <1>3, <2>1 DEF Knows
  <2>4. CarefulInv
    BY DEF Inv
  <2> QED
    BY <1>1, <1>3, <2>2, <2>3, <2>4, FrameLemma DEF SameObject
<1>4. ASSUME ~Idle
      PROVE  /\ m \in known /\ m \in DOMAIN db \ {1}
             /\ db[m].path = mSendObjectFilePath /\ db[m].object_format = "other"
             /\ mSendObjectFilePath \notin DOMAIN card
             /\ \A c \in DOMAIN db : db[c].parent # m
             /\ \A h \in DOMAIN db \ {m} :
                   /\ db[h].path \in DOMAIN card
                   /\ card[db[h].path] = "dir" <=> db[h].object_format = "association"
                   /\ db[h].path # mSendObjectFilePath
  <2>1. m \in known /\ m \in DOMAIN db \ {1}
    BY <1>1, <1>4 DEF Knows
  <2>2. db[m].path = mSendObjectFilePath /\ db[m].object_format = "other"
    BY <1>1, <1>4 DEF Idle, IInv, SendObjectReserved
  <2>3. mSendObjectFilePath \notin DOMAIN card
    BY <1>1, <1>4 DEF OnCard, Exists
  <2>4. \A c \in DOMAIN db : db[c].parent # m
    BY <1>1, <2>1, <2>2, FileIsLeaf
  <2>5. \A h \in DOMAIN db \ {m} :
           /\ db[h].path \in DOMAIN card
           /\ card[db[h].path] = "dir" <=> db[h].object_format = "association"
    BY <1>1 DEF OnCard, Exists, IsDirectory
  <2> QED
    BY <2>1, <2>2, <2>3, <2>4, <2>5
<1>5. ASSUME ~Idle, db' = Erase({m}), known' = known \ {m}, unshown \subseteq unshown',
             \/ card' = card
             \/ /\ CanOpenToWrite(mSendObjectFilePath)
                /\ card' = With(mSendObjectFilePath, "file")
                /\ mSendObjectFilePath \in unshown'
      PROVE  CarefulInv'
  <2>1. /\ NamedOnce' /\ Placed' /\ Rooted'
        /\ DOMAIN db' = DOMAIN db \ {m}
        /\ \A h \in DOMAIN db' : db'[h] = db[h]
    BY <1>1, <1>4, <1>5, LeafLemma
  <2>2. /\ IsTree'
        /\ \A q \in DOMAIN card : q \in DOMAIN card' /\ card'[q] = card[q]
        /\ \A q \in DOMAIN card' : q \in DOMAIN card \/ q \in unshown'
    <3>1. CASE card' = card
      BY <1>1, <3>1 DEF IsTree, IsCard, IsDirectory, Exists
    <3>2. CASE card' # card
      <4>1. IsFree(mSendObjectFilePath) /\ mSendObjectFilePath \in Path
        BY <1>2, <1>4, <1>5, <3>2 DEF CanOpenToWrite, IsFile, Exists, CanCreate
      <4> QED
        BY <1>1, <1>5, <3>2, <4>1, WithTree
    <3> QED
      BY <3>1, <3>2
  <2>3. OnCard'
    <3>1. ASSUME NEW h \in DOMAIN db'
          PROVE  /\ db'[h].path \in DOMAIN card'
                 /\ card'[db'[h].path] = "dir" <=> db'[h].object_format = "association"
      <4>1. h \in DOMAIN db \ {m} /\ db'[h] = db[h]
        BY <2>1
      <4>2. /\ db[h].path \in DOMAIN card
            /\ card[db[h].path] = "dir" <=> db[h].object_format = "association"
        BY <1>4, <1>5, <4>1
      <4>3. card'[db[h].path] = card[db[h].path] /\ db[h].path \in DOMAIN card'
        BY <2>2, <4>2
      <4> QED
        BY <4>1, <4>2, <4>3
    <3> QED
      BY <1>1, <3>1, OnCardNext
  <2>4. ListedDirectoriesComplete'
    <3> SUFFICES ASSUME NEW h \in DOMAIN db', db'[h].scanned \/ h = 1,
                        NEW q \in DOMAIN card', q # Root, Front(q) = db'[h].path
                 PROVE  q \in unshown' \/ \E g \in DOMAIN db' : db'[g].path = q
      BY CompleteNext
    <3>1. CASE q \in unshown'
      BY <3>1
    <3>2. CASE q \notin unshown'
      <4>1. h \in DOMAIN db /\ db'[h] = db[h] /\ q \in Children(db[h].path) /\ q \in DOMAIN card
        BY <2>1, <2>2, <3>2 DEF Children
      <4>2. PICK g \in DOMAIN db : db[g].path = q
        BY <1>1, <1>5, <3>2, <4>1 DEF ListedDirectoriesComplete
      <4>3. g # m
        BY <1>4, <1>5, <4>1, <4>2
      <4> QED
        BY <2>1, <4>2, <4>3
    <3> QED
      BY <3>1, <3>2
  <2>5. Knows'
    BY <1>1, <1>5, <2>1 DEF Knows
  <2> QED
    BY <2>1, <2>3, <2>4, <2>5, <2>2 DEF CarefulInv
<1>6. ASSUME ~Idle, CanOpenToWrite(mSendObjectFilePath), db' = db,
             card' = With(mSendObjectFilePath, "file"), UNCHANGED <<known, unshown>>
      PROVE  CarefulInv'
  <2>1. IsFree(mSendObjectFilePath) /\ mSendObjectFilePath \in Path
    BY <1>2, <1>4, <1>6 DEF CanOpenToWrite, IsFile, Exists, CanCreate
  <2>2. /\ IsTree'
        /\ DOMAIN card' = DOMAIN card \cup {mSendObjectFilePath}
        /\ card'[mSendObjectFilePath] = "file"
        /\ \A q \in DOMAIN card : card'[q] = card[q]
    BY <1>1, <1>6, <2>1, WithTree
  <2>3. OnCard'
    <3>1. ASSUME NEW h \in DOMAIN db'
          PROVE  /\ db'[h].path \in DOMAIN card'
                 /\ card'[db'[h].path] = "dir" <=> db'[h].object_format = "association"
      <4>1. CASE h = m
        BY <1>4, <1>6, <2>2, <4>1
      <4>2. CASE h # m
        BY <1>4, <1>6, <2>2, <3>1, <4>2
      <4> QED
        BY <4>1, <4>2
    <3> QED
      BY <1>1, <3>1, OnCardNext
  <2>4. ListedDirectoriesComplete'
    <3> SUFFICES ASSUME NEW h \in DOMAIN db', db'[h].scanned \/ h = 1,
                        NEW q \in DOMAIN card', q # Root, Front(q) = db'[h].path
                 PROVE  q \in unshown' \/ \E g \in DOMAIN db' : db'[g].path = q
      BY CompleteNext
    <3>1. CASE q = mSendObjectFilePath
      BY <1>4, <1>6, <3>1
    <3>2. CASE q # mSendObjectFilePath
      <4>1. q \in Children(db[h].path)
        BY <1>6, <2>2, <3>2 DEF Children
      <4> QED
        BY <1>1, <1>6, <4>1 DEF ListedDirectoriesComplete
    <3> QED
      BY <3>1, <3>2
  <2>5. Knows'
    BY <1>1, <1>6 DEF Knows
  <2>6. NamedOnce' /\ Placed' /\ Rooted'
    BY <1>1, <1>6 DEF NamedOnce, Placed, Rooted, Above
  <2> QED
    BY <2>2, <2>3, <2>4, <2>5, <2>6 DEF CarefulInv
<1>7. CASE mSendObjectHandle = kInvalidObjectHandle
  <2>1. /\ db' = Erase({m}) /\ UNCHANGED card /\ mResponse' # "OK"
    BY <1>1, <1>7 DEF SendObject, endSendObject, Reply
  <2>2. known' = known \ {m} /\ unshown \subseteq unshown'
    BY <2>1 DEF CarefulSend
  <2> QED
    BY <1>3, <1>7, <2>1, <2>2 DEF Idle
<1>8. CASE mSendObjectHandle # kInvalidObjectHandle
  <2>1. ~Idle
    BY <1>8 DEF Idle
  <2>2. \/ db' = Erase({m}) /\ UNCHANGED card /\ mResponse' # "OK"
        \/ /\ db' = db /\ CanOpenToWrite(mSendObjectFilePath) /\ mResponse' = "OK"
           /\ card' = With(mSendObjectFilePath, "file")
        \/ db' = Erase({m}) /\ card' = Without({mSendObjectFilePath}) /\ mResponse' # "OK"
        \/ /\ db' = Erase({m}) /\ CanOpenToWrite(mSendObjectFilePath) /\ mResponse' # "OK"
           /\ card' = With(mSendObjectFilePath, "file")
    BY <1>1, <1>8 DEF SendObject, endSendObject, Reply
  <2>3. /\ mResponse' = "OK" => UNCHANGED <<known, unshown>>
        /\ mResponse' # "OK" => /\ known' = known \ {m}
                                /\ unshown' = unshown \cup (DOMAIN card' \ DOMAIN card)
    BY DEF CarefulSend
  <2>4. Without({mSendObjectFilePath}) = card
    <3>1. DOMAIN card \ (DOMAIN card \cap {mSendObjectFilePath}) = DOMAIN card
      BY <1>4, <2>1
    <3> QED
      BY <1>1, <1>4, <2>1, <3>1 DEF Without, Restrict, IsCard
  <2>5. card' = With(mSendObjectFilePath, "file") => mSendObjectFilePath \in DOMAIN card' \ DOMAIN card
    BY <1>4, <2>1 DEF With
  <2> QED
    BY <1>5, <1>6, <2>1, <2>2, <2>3, <2>4, <2>5
<1> QED
  BY <1>7, <1>8

\* The host deletes what it has emptied.
LEMMA DeleteKeeps ==
    ASSUME Inv, IInv', NEW h \in HostHandle, NEW refused \in SUBSET AtAndBelow(h),
           CarefulDelete(h, refused)
    PROVE  CarefulInv'
<1> DEFINE old == db[h].path
           gone == Gone(old, refused)
<1>1. /\ Idle /\ h \in known /\ IsEmpty(h) /\ DeleteObject(h, refused)
      /\ known' = known \ {h}
      /\ unshown' = (unshown \cup AtAndBelow(h)) \cap DOMAIN card'
  BY DEF CarefulDelete
<1>2. status = "running" /\ status' = "running" /\ ForgetSendObject
  BY <1>1 DEF DeleteObject, Answer, Reply
<1>3. Idle'
  BY <1>2 DEF ForgetSendObject, Idle, kInvalidObjectHandle, MTP_PARENT_ROOT
<1>4. /\ IsTree /\ IsCard /\ NamedOnce /\ Placed /\ Rooted /\ OnCard
      /\ ListedDirectoriesComplete /\ Knows /\ IInv
      /\ 1 \in DOMAIN db /\ DOMAIN card \subseteq Path
  BY <1>2, RootFacts DEF Inv, CarefulInv, IsTree, IsCard
<1>5. /\ h \in DOMAIN db \ {1} /\ h # 0 /\ h # MTP_PARENT_ROOT
      /\ old \in Path /\ old # Root
      /\ \A i \in DOMAIN db : db[i].path \in Path
  BY <1>1, <1>4, Entries DEF Knows, Placed
<1>6. \A c \in DOMAIN db : db[c].parent # h
  <2>1. CASE db[h].object_format = "association"
    <3>1. \A c \in known : db[c].parent # h
      BY <1>1, <2>1 DEF IsEmpty, IsFolder
    <3> QED
      BY <1>2, <1>5, <3>1, NoChildren
  <2>2. CASE db[h].object_format # "association"
    BY <1>2, <1>5, <2>2, FileIsLeaf
  <2> QED
    BY <2>1, <2>2
<1>7. db' = Erase({h}) /\ card' = Without(gone)
  <2>1. getObjectFilePath(h) = "OK" /\ DOMAIN db # {h}
    BY <1>4, <1>5 DEF getObjectFilePath
  <2>2. deleteFile(h) /\ deletePath(old, refused)
    BY <1>1, <2>1 DEF DeleteObject, deleteFileResponse
  <2>3. {h} \cup {c \in DOMAIN db : db[c].parent = h} = {h}
    BY <1>6
  <2> QED
    BY <2>2, <2>3 DEF deleteFile, deletePath, Gone
<1>8. AtAndBelow(h) = {s \in DOMAIN card : IsPrefix(old, s)}
  BY <1>5 DEF AtAndBelow, getObjectFilePath
<1>9. /\ IsTree'
      /\ DOMAIN card' = DOMAIN card \ gone
      /\ \A s \in DOMAIN card' : card'[s] = card[s]
      /\ \A s \in DOMAIN card' : s \in unshown' \/ ~IsPrefix(old, s)
      /\ \A s \in DOMAIN card : ~IsPrefix(old, s) => s \in DOMAIN card'
      /\ unshown \cap DOMAIN card' \subseteq unshown'
  <2>1. PICK p \in Path : p = old
    BY <1>5
  <2>2. refused \in SUBSET DOMAIN card
    BY <1>8
  <2>3. /\ IsTree'
        /\ DOMAIN card' = DOMAIN card \ gone
        /\ \A s \in DOMAIN card' : card'[s] = card[s]
    BY <1>4, <1>5, <1>7, <2>1, <2>2, WithoutTree
  <2> QED
    BY <1>1, <1>8, <2>3 DEF Gone
<1>10. /\ NamedOnce' /\ Placed' /\ Rooted'
       /\ DOMAIN db' = DOMAIN db \ {h}
       /\ \A i \in DOMAIN db' : db'[i] = db[i]
  BY <1>2, <1>4, <1>5, <1>6, <1>7, LeafLemma
<1>11. \A i \in DOMAIN db' : ~IsPrefix(old, db[i].path)
  BY <1>2, <1>4, <1>5, <1>6, <1>10, NoneBelow
<1> HIDE DEF old, gone
<1>12. OnCard'
  <2>1. \A i \in DOMAIN db' : /\ db[i].path \in DOMAIN card
                              /\ card[db[i].path] = "dir" <=> db[i].object_format = "association"
    BY <1>1, <1>4, <1>10, Entries DEF OnCard, Exists, IsDirectory, Idle
  <2>2. \A i \in DOMAIN db' : /\ db'[i].path \in DOMAIN card'
                              /\ card'[db'[i].path] = "dir" <=> db'[i].object_format = "association"
    BY <1>9, <1>10, <1>11, <2>1
  <2> QED
    BY <1>3, <2>2, OnCardNext
<1>13. ListedDirectoriesComplete'
  <2> SUFFICES ASSUME NEW i \in DOMAIN db', db'[i].scanned \/ i = 1,
                      NEW q \in DOMAIN card', q # Root, Front(q) = db'[i].path
               PROVE  q \in unshown' \/ \E g \in DOMAIN db' : db'[g].path = q
    BY CompleteNext
  <2>1. SUFFICES ASSUME q \notin unshown'
                 PROVE  \E g \in DOMAIN db' : db'[g].path = q
    OBVIOUS
  <2>2. /\ i \in DOMAIN db /\ db'[i] = db[i] /\ q \in DOMAIN card /\ ~IsPrefix(old, q)
        /\ q \notin unshown
    BY <1>9, <1>10, <2>1
  <2>3. q \in Children(db[i].path)
    BY <2>2 DEF Children
  <2>4. PICK g \in DOMAIN db : db[g].path = q
    BY <1>4, <2>2, <2>3 DEF ListedDirectoriesComplete
  <2>5. g # h
    <3>1. IsPrefix(old, old)
      BY <1>5, PathElements, PrefixElements DEF old
    <3> QED
      BY <2>2, <2>4, <3>1 DEF old
  <2> QED
    BY <1>10, <2>4, <2>5
<1>14. Knows'
  BY <1>1, <1>2, <1>3, <1>4, <1>10 DEF Knows
<1> QED
  BY <1>9, <1>10, <1>12, <1>13, <1>14 DEF CarefulInv

\* rename(2) and the path of the one entry that names what it moved.
LEMMA RenamedEntryLemma ==
    ASSUME Inv, status = "running", Idle, Idle',
           NEW h \in DOMAIN db \ {1}, \A c \in DOMAIN db : db[c].parent # h,
           NEW p, NEW q, p = db[h].path, RenamesTo(p, q), Front(q) = Front(p),
           card' = Renamed(p, q), db' = [db EXCEPT ![h].path = q], UNCHANGED known,
           unshown' = {Rebase(s, p, q) : s \in unshown}
    PROVE  CarefulInv'
<1>1. /\ IsTree /\ IsCard /\ NamedOnce /\ Placed /\ Rooted /\ OnCard
      /\ ListedDirectoriesComplete /\ Knows /\ IInv
      /\ 1 \in DOMAIN db /\ DOMAIN card \subseteq Path
  BY RootFacts DEF Inv, CarefulInv, IsTree, IsCard
<1>2. /\ p \in Path /\ q \in Path /\ p # q /\ p # Root /\ q # Root
      /\ Len(p) = Len(q) /\ Len(p) \in Nat \ {0}
      /\ p \in DOMAIN card /\ q \notin DOMAIN card /\ ~Exists(q)
      /\ \A k \in 0 .. Len(p) - 1 : Pre(p, k) = Pre(q, k)
  BY PathElements DEF RenamesTo, Exists
<1>3. /\ DOMAIN db' = DOMAIN db /\ db'[h].path = q
      /\ \A i \in DOMAIN db \ {h} : db'[i] = db[i]
      /\ \A i \in DOMAIN db : /\ db'[i].parent = db[i].parent
                              /\ db'[i].scanned = db[i].scanned
                              /\ db'[i].object_format = db[i].object_format
  BY <1>1, Entries DEF DbEntry
<1>4. \A i \in DOMAIN db : /\ db[i].path \in Path /\ db[i].path \in DOMAIN card
                           /\ card[db[i].path] = "dir" <=> db[i].object_format = "association"
  BY <1>1, Entries DEF OnCard, Idle, Exists, IsDirectory
<1>5. \A i \in DOMAIN db \ {h} : ~IsPrefix(p, db[i].path)
  BY <1>1, NoneBelow
<1>6. \A s \in DOMAIN card : ~IsPrefix(q, s)
  BY <1>1, <1>2, NothingBelow
<1>7. IsPrefix(p, p) /\ Rebase(p, p, q) = q
  <2>1. IsPrefix(p, p)
    BY <1>2, PrefixElements
  <2>2. /\ Rebase(p, p, q) \in Path /\ Len(Rebase(p, p, q)) = Len(p)
        /\ \A i \in 1 .. Len(p) : Rebase(p, p, q)[i] = IF i <= Len(p) THEN q[i] ELSE p[i]
    <3>1. p \in Path /\ q \in Path /\ Len(p) = Len(q)
      BY <1>2
    <3> QED BY ONLY <2>1, <3>1, RebaseElements
  <2>3. \A i \in 1 .. Len(p) : Rebase(p, p, q)[i] = q[i]
    BY <1>2, <2>2
  <2> QED
    BY <1>2, <2>1, <2>2, <2>3, PathEqual
<1>8. NamedOnce'
  <2>1. \A i \in DOMAIN db \ {h} : db'[i].path # q /\ db'[i].path = db[i].path
    BY <1>2, <1>3, <1>4
  <2> QED
    BY <1>1, <1>3, <2>1 DEF NamedOnce
<1>9. Placed'
  <2>1. ASSUME NEW i \in DOMAIN db' \ {1}
        PROVE  /\ db'[i].path # Root
               /\ Above(i)' \in DOMAIN db'
               /\ db'[Above(i)'].path = Front(db'[i].path)
               /\ db'[i].parent # 0 => db'[db'[i].parent].scanned
                                       /\ db'[db'[i].parent].object_format = "association"
    <3>1. Above(i)' = Above(i) /\ Above(i) \in DOMAIN db \ {h} /\ i \in DOMAIN db \ {1}
      BY <1>1, <1>3 DEF Placed, Above
    <3>2. db'[Above(i)].path = Front(db[i].path) /\ db[i].path # Root
      BY <1>1, <1>3, <3>1 DEF Placed
    <3>3. db'[i].path # Root /\ Front(db'[i].path) = Front(db[i].path)
      BY <1>2, <1>3, <3>1, <3>2
    <3>4. db'[i].parent # 0 => db'[i].parent = Above(i)
      BY <1>3, <3>1 DEF Above
    <3>5. db'[i].parent # 0 => db[Above(i)].scanned /\ db[Above(i)].object_format = "association"
      BY <1>1, <1>3, <3>1, <3>4 DEF Placed
    <3> QED
      BY <1>3, <3>1, <3>2, <3>3, <3>4, <3>5
  <2> QED
    BY <2>1 DEF Placed
<1>10. Rooted'
  <2> SUFFICES ASSUME NEW i \in DOMAIN db', NEW k \in 0 .. Len(db'[i].path)
               PROVE  \E g \in DOMAIN db' : db'[g].path = Pre(db'[i].path, k)
    BY DEF Rooted, Pre
  <2>1. CASE i = h /\ k = Len(p)
    <3>1. Pre(q, k) = q
      BY <1>2, <2>1, SubSeqFull DEF Pre, Path
    <3> QED
      BY <1>3, <2>1, <3>1
  <2>2. CASE i = h /\ k # Len(p)
    <3>1. k \in 0 .. Len(p) - 1 /\ k \in 0 .. Len(p)
      BY <1>2, <1>3, <2>2
    <3>2. PICK g \in DOMAIN db : db[g].path = Pre(p, k)
      BY <1>1, <3>1 DEF Rooted, Pre
    <3>3. Len(Pre(p, k)) = k
      BY <1>2, <3>1, PreLemma
    <3>4. g # h
      BY <1>2, <3>1, <3>2, <3>3
    <3> QED
      BY <1>2, <1>3, <2>2, <3>1, <3>2, <3>4
  <2>3. CASE i # h
    <3>1. i \in DOMAIN db /\ db'[i].path = db[i].path /\ k \in 0 .. Len(db[i].path)
      BY <1>3, <2>3
    <3>2. PICK g \in DOMAIN db : db[g].path = Pre(db[i].path, k)
      BY <1>1, <3>1 DEF Rooted, Pre
    <3>3. IsPrefix(Pre(db[i].path, k), db[i].path)
      BY <1>4, <3>1, PreOrder
    <3>4. g # h
      BY <1>5, <2>3, <3>1, <3>2, <3>3
    <3> QED
      BY <1>3, <3>1, <3>2, <3>4
  <2> QED
    BY <2>1, <2>2, <2>3
<1>11. OnCard'
  <2>1. ASSUME NEW i \in DOMAIN db'
        PROVE  /\ db'[i].path \in DOMAIN card'
               /\ card'[db'[i].path] = "dir" <=> db'[i].object_format = "association"
    <3>1. CASE i = h
      <4>1. q \in DOMAIN card' /\ card'[q] = card[p]
        BY <1>1, <1>2, <1>7, RenameMoves
      <4>2. db'[i].path = q /\ db'[i].object_format = db[h].object_format
        BY <1>3, <3>1
      <4>3. card[p] = "dir" <=> db[h].object_format = "association"
        BY <1>4
      <4> QED
        BY <4>1, <4>2, <4>3
    <3>2. CASE i # h
      <4>1. db'[i] = db[i] /\ i \in DOMAIN db \ {h}
        BY <1>3, <3>2
      <4>2. PICK r \in DOMAIN card : r = db[i].path
        BY <1>4, <4>1
      <4>3. r \in DOMAIN card' /\ card'[r] = card[r]
        BY <1>1, <1>5, <4>1, <4>2, RenameKeeps
      <4> QED
        BY <1>4, <4>1, <4>2, <4>3
    <3> QED
      BY <3>1, <3>2
  <2> QED
    BY <2>1, OnCardNext
<1>12. ListedDirectoriesComplete'
  <2> SUFFICES ASSUME NEW i \in DOMAIN db', db'[i].scanned \/ i = 1,
                      NEW r \in DOMAIN card', r # Root, Front(r) = db'[i].path
               PROVE  r \in unshown' \/ \E g \in DOMAIN db' : db'[g].path = r
    BY CompleteNext
  <2>1. PICK s \in DOMAIN card : r = Rebase(s, p, q)
    BY <1>1, RenameMoves
  <2>2. s \in Path /\ Len(s) \in Nat
    BY <1>1, PathElements
  <2>3. CASE ~IsPrefix(p, s)
    <3>1. r = s
      BY <2>1, <2>3, RebaseOther
    <3>2. i # h
      <4>1. IsPrefix(Front(s), s)
        BY <2>2, <3>1, FrontLemma, PreOrder
      <4> QED
        BY <1>3, <1>6, <3>1, <4>1
    <3>3. s \in Children(db[i].path) /\ (db[i].scanned \/ i = 1)
      BY <1>3, <3>1, <3>2 DEF Children
    <3>4. CASE s \in unshown
      BY <2>1, <3>4
    <3>5. CASE s \notin unshown
      <4>1. PICK g \in DOMAIN db : db[g].path = s
        BY <1>1, <1>3, <3>3, <3>5 DEF ListedDirectoriesComplete
      <4>2. g # h
        BY <1>7, <2>3, <4>1
      <4> QED
        BY <1>3, <3>1, <4>1, <4>2
    <3> QED
      BY <3>4, <3>5
  <2>4. CASE s = p
    BY <1>3, <1>7, <2>1, <2>4
  <2>5. CASE IsPrefix(p, s) /\ s # p
    <3>1. Len(s) > Len(p)
      BY <1>2, <2>2, <2>5, PrefixElements, PathEqual
    <3>2. r \in Path /\ Len(r) = Len(s) /\ IsPrefix(q, r)
      BY <1>2, <2>1, <2>2, <2>5, RebaseElements
    <3>3. /\ Front(r) = Pre(r, Len(r) - 1) /\ Len(r) - 1 \in 0 .. Len(r)
          /\ Len(Front(r)) = Len(s) - 1
      BY <3>2, FrontLemma
    <3>4. IsPrefix(q, Front(r))
      BY <1>2, <2>2, <3>1, <3>2, <3>3, PreOrder
    <3>5. i = h
      BY <1>3, <1>4, <1>6, <3>4
    <3>6. Len(s) - 1 = Len(p) /\ s # Root
      BY <1>2, <1>3, <2>2, <3>1, <3>3, <3>5, PathElements
    <3>7. Front(s) = p
      <4>1. Front(s) = Pre(s, Len(p))
        BY <2>2, <3>6, FrontLemma
      <4>2. Pre(s, Len(p)) = p
        BY <1>2, <2>2, <2>5, PrefixElements
      <4> QED
        BY <4>1, <4>2
    <3>8. s \in Children(db[h].path)
      BY <3>6, <3>7 DEF Children
    <3>9. db[h].scanned
      BY <1>3, <3>5
    <3>10. CASE s \in unshown
      BY <2>1, <3>10
    <3>11. CASE s \notin unshown
      <4>1. PICK g \in DOMAIN db : db[g].path = s
        BY <1>1, <3>8, <3>9, <3>11 DEF ListedDirectoriesComplete
      <4> QED
        BY <1>5, <2>5, <4>1
    <3> QED
      BY <3>10, <3>11
  <2> QED
    BY <2>3, <2>4, <2>5
<1>13. Knows'
  BY <1>1, <1>3 DEF Knows
<1>14. IsTree'
  BY <1>1, RenameTree
<1> QED
  BY <1>8, <1>9, <1>10, <1>11, <1>12, <1>13, <1>14 DEF CarefulInv

\* The host renames an object.
LEMMA RenameKeepsInv ==
    ASSUME Inv, IInv', NEW h \in HostHandle, NEW n \in Name, CarefulRename(h, n)
    PROVE  CarefulInv'
<1> DEFINE old == db[h].path
           new == Append(Front(old), n)
<1>1. /\ Idle /\ h \in known /\ (\A c \in known : db[c].parent # h)
      /\ SetObjectPropValue(h, n) /\ UNCHANGED known
      /\ unshown' = IF db' = db THEN unshown
                    ELSE {Rebase(s, old, db'[h].path) : s \in unshown}
  BY DEF CarefulRename
<1>2. status = "running" /\ status' = "running" /\ ForgetSendObject
  BY <1>1 DEF SetObjectPropValue, Answer, Reply
<1>3. Idle'
  BY <1>2 DEF ForgetSendObject, Idle, kInvalidObjectHandle, MTP_PARENT_ROOT
<1>4. IsTree /\ IsCard /\ Placed /\ Knows /\ IInv /\ CarefulInv
  BY DEF Inv, CarefulInv, IsTree
<1>5. h \in DOMAIN db \ {1} /\ old \in Path /\ old # Root
  BY <1>1, <1>4, Entries DEF Knows, Placed
<1>6. CASE \E code : Answer(code)
  <2>1. db' = db
    BY <1>6 DEF Answer
  <2> QED
    BY <1>1, <1>6, <2>1, AnswerKeeps
<1>7. ASSUME CanRename(old, new), card' = Renamed(old, new), db' = [db EXCEPT ![h].path = new]
      PROVE  CarefulInv'
  <2>1. /\ Front(old) \in Path /\ Len(Front(old)) = Len(old) - 1 /\ Len(old) \in Nat \ {0}
        /\ \A k \in 0 .. Len(old) - 1 : Pre(Front(old), k) = Pre(old, k)
    BY <1>5, FrontLemma, PathElements
  <2>2. /\ new \in Path /\ new # Root /\ Front(new) = Front(old) /\ Len(new) = Len(old)
    BY <2>1, ChildLemma
  <2>3. \A k \in 0 .. Len(old) - 1 : Pre(old, k) = Pre(new, k)
    BY <2>1, <2>2, FrontLemma
  <2>4. \A c \in DOMAIN db : db[c].parent # h
    BY <1>1, <1>2, <1>5, NoChildren
  <2> HIDE DEF new
  <2>5. CASE new = old
    <3>1. card' = card
      BY <1>4, <1>5, <1>7, <2>5, RenameSame
    <3>2. DOMAIN db' = DOMAIN db /\ \A i \in DOMAIN db : db'[i] = db[i]
      BY <1>4, <1>5, <1>7, <2>5, Entries DEF DbEntry
    <3>3. db' = db
      BY <1>4, <1>7, <3>2, Entries
    <3>4. known' = known /\ known \subseteq DOMAIN db \ {1}
      BY <1>1, <1>4 DEF Knows
    <3> QED
      BY <1>1, <1>3, <1>4, <3>1, <3>2, <3>3, <3>4, FrameLemma DEF SameObject
  <2>6. CASE new # old
    <3>1. RenamesTo(old, new)
      BY <1>5, <1>7, <2>1, <2>2, <2>3, <2>6 DEF RenamesTo, CanRename, IsFree
    <3>2. PICK p, q : p = old /\ q = new
      OBVIOUS
    <3> HIDE DEF old
    <3>3. p = db[h].path
      BY <3>2 DEF old
    <3>4. db'[h].path = q /\ db' # db
      BY <1>4, <1>5, <1>7, <2>6, <3>2, <3>3, Entries DEF DbEntry
    <3>5. unshown' = {Rebase(s, p, q) : s \in unshown}
      BY <1>1, <3>2, <3>4
    <3> QED
      BY <1>1, <1>2, <1>3, <1>5, <1>7, <2>2, <2>4, <3>1, <3>2, <3>3, <3>5, RenamedEntryLemma
  <2> QED
    BY <2>5, <2>6
<1> QED
  BY <1>1, <1>6, <1>7 DEF SetObjectPropValue

-----------------------------------------------------------------------------
(* Invariance.                                                             *)

LEMMA CarefulInitLemma == CarefulInit => Inv
<1> SUFFICES ASSUME CarefulInit
             PROVE  Inv
  OBVIOUS
<1>1. Init /\ known = {} /\ IInv
  BY InitLemma DEF CarefulInit
<1>2. IsTree /\ DOMAIN db = {} /\ Idle
  BY <1>1 DEF Init, NoEntries, Idle
<1> QED
  BY <1>1, <1>2 DEF Inv, CarefulInv, NamedOnce, Placed, Rooted, OnCard,
                    ListedDirectoriesComplete, Knows

\* A careful host only makes requests the server can be sent.
LEMMA CarefulIsAllowed == CarefulNext => Next
<1> SUFFICES ASSUME CarefulNext
             PROVE  Next
  OBVIOUS
<1>1. CASE \/ \E unread \in SUBSET Visited(Root) : Start(unread)
           \/ Stop \/ OpenSession \/ CloseSession
           \/ \E unlinked \in BOOLEAN : CarefulSend(unlinked)
  BY <1>1 DEF CarefulSend, Next
<1>2. CASE \E p \in HostHandle : \E unread \in SUBSET MayMiss(p) : CarefulList(p, unread)
  BY <1>2, StorageAssumption DEF CarefulList, Next
<1>3. CASE \E p \in HostHandle, n \in Name, f \in {"association", "other"} :
              CarefulSendInfo(p, n, f)
  BY <1>3, StorageAssumption DEF CarefulSendInfo, Next
<1>4. CASE \E h \in HostHandle : \E refused \in SUBSET AtAndBelow(h) : CarefulDelete(h, refused)
  BY <1>4 DEF CarefulDelete, Next
<1>5. CASE \E h \in HostHandle, n \in Name : CarefulRename(h, n)
  BY <1>5 DEF CarefulRename, Next
<1>6. CASE \E h \in HostHandle : CarefulEdit(h)
  BY <1>6 DEF CarefulEdit, Next
<1> QED
  BY <1>1, <1>2, <1>3, <1>4, <1>5, <1>6 DEF CarefulNext

LEMMA CarefulStep == Inv /\ [CarefulNext]_hostVars => Inv'
<1> SUFFICES ASSUME Inv, [CarefulNext]_hostVars
             PROVE  Inv'
  OBVIOUS
<1>1. IInv'
  <2>1. [Next]_vars
    BY CarefulIsAllowed DEF hostVars
  <2> QED
    BY <2>1, StepLemma DEF Inv
<1> SUFFICES CarefulInv'
  BY <1>1 DEF Inv
<1>2. CASE UNCHANGED hostVars
  BY <1>2 DEF hostVars, vars, sendObject, Inv, CarefulInv, IsTree, IsCard, IsDirectory, Exists,
              NamedOnce, Placed, Above, Rooted, OnCard, Idle, ListedDirectoriesComplete,
              Children, Knows, kInvalidObjectHandle, MTP_PARENT_ROOT
<1>3. CASE \E unread : Start(unread) /\ known' = {} /\ unshown' = unread
  BY <1>1, <1>3, StartKeeps
<1>4. CASE Stop /\ known' = {}
  BY <1>4, StopKeeps DEF Stop
<1>5. CASE Idle /\ (OpenSession \/ CloseSession) /\ UNCHANGED <<known, unshown>>
  BY <1>5, SessionKeeps
<1>6. CASE \E p \in HostHandle : \E unread : CarefulList(p, unread)
  BY <1>1, <1>6, ListKeeps
<1>7. CASE \E p \in HostHandle, n \in Name, f \in {"association", "other"} :
              CarefulSendInfo(p, n, f)
  BY <1>1, <1>7, SendInfoKeeps
<1>8. CASE \E unlinked : CarefulSend(unlinked)
  BY <1>1, <1>8, SendKeeps
<1>9. CASE \E h \in HostHandle : \E refused \in SUBSET AtAndBelow(h) : CarefulDelete(h, refused)
  BY <1>1, <1>9, DeleteKeeps
<1>10. CASE \E h \in HostHandle, n \in Name : CarefulRename(h, n)
  BY <1>1, <1>10, RenameKeepsInv
<1>11. CASE \E h \in HostHandle : CarefulEdit(h)
  BY <1>11, EditKeeps
<1> QED
  BY <1>2, <1>3, <1>4, <1>5, <1>6, <1>7, <1>8, <1>9, <1>10, <1>11 DEF CarefulNext

\* For a host that lists a directory before it writes into it, gives every
\* new object a new name, sends what it announced and empties a folder before
\* it deletes or renames it, the database mirrors the card after every request,
\* but for what the card failed to tell in a scan or to remove.
THEOREM CarefulInvariance == CarefulSpec => []Inv
  BY CarefulInitLemma, CarefulStep, PTL DEF CarefulSpec

\* Every object of the database is on the card, under its path and with its
\* kind, in the directory its parent names: SetObjectPropValue, SendObject and
\* deleteFile never leave an entry behind that names nothing.
THEOREM RealObjects == CarefulSpec => []NamesRealObjects
<1>1. Inv => NamesRealObjects
  BY Constants DEF Inv, CarefulInv, Placed, Above, OnCard, NamesRealObjects
<1> QED
  BY <1>1, CarefulInvariance, PTL

\* No file has two handles: parse_directory and beginSendObject never make
\* an entry for a path that has one.
THEOREM OneHandleEach == CarefulSpec => []NamedOnce
<1>1. Inv => NamedOnce
  BY DEF Inv, CarefulInv
<1> QED
  BY <1>1, CarefulInvariance, PTL

\* A directory marked as scanned never has to be read again: its entries in
\* the database keep up with what the requests do to the card.  Missing are
\* only the entries whose properties the scan could not read (add_file_entry)
\* and what unlink, rmdir or opendir refused (deletePath, SendObject).
THEOREM ListingsComplete == CarefulSpec => []ListedDirectoriesComplete
<1>1. Inv => ListedDirectoriesComplete
  BY DEF Inv, CarefulInv
<1> QED
  BY <1>1, CarefulInvariance, PTL

\* No request of a careful host meets a handle that died, so db.at never
\* throws past getObjectList.  A folder that cannot be read (is_directory and
\* directory_iterator in parse_directory) ends the process all the same.
THEOREM KnownHandlesGood == CarefulSpec => []KnowledgeStaysGood
<1>1. Inv => KnowledgeStaysGood
  BY DEF Inv, CarefulInv, Knows, KnowledgeStaysGood
<1> QED
  BY <1>1, CarefulInvariance, PTL
=============================================================================
