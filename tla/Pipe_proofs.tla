----------------------------- MODULE Pipe_proofs -----------------------------
(***************************************************************************)
(* usbTransfer implements BulkPipe.  PipeInv says how far a try has come:  *)
(* which packets it took or gave and what of the buffer they make.  What   *)
(* FlattenSeq joins, and the packets that a chunk is cut into, come first; *)
(* then each step of the program is shown to be one of BulkPipe or none.   *)
(***************************************************************************)
EXTENDS Main_proofs, WellFoundedInduction

-----------------------------------------------------------------------------
(* Packets and their words.                                                *)

\* A set of naturals that is not empty has a least member.
LEMMA LeastNatural ==
    ASSUME NEW T \in SUBSET Nat, T # {}
    PROVE  \E m \in T : \A k \in T : m <= k
<1>1. \E x \in T : \A y \in T : ~(<<y, x>> \in OpToRel(<, Nat))
  BY NatLessThanWellFounded, WFMin
<1>2. PICK x \in T : \A y \in T : ~(<<y, x>> \in OpToRel(<, Nat))
  BY <1>1
<1>3. \A y \in T : ~(y < x)
  BY <1>2 DEF OpToRel
<1> QED BY <1>3

\* f[i] joins the first i of n sequences.
Joins(f, s, n) == f = [i \in 1 .. n |-> IF i = 1 THEN s[i] ELSE f[i - 1] \o s[i]]

\* The joins of n sequences exist.
LEMMA JoinsExist ==
    ASSUME NEW s, NEW n \in Nat
    PROVE  \E f : Joins(f, s, n)
<1> DEFINE Fails == {m \in Nat : ~ \E f : Joins(f, s, m)}
<1> SUFFICES ASSUME Fails # {} PROVE FALSE
  OBVIOUS
<1>1. PICK m \in Fails : \A k \in Fails : m <= k
  BY LeastNatural
<1>2. m # 0
  <2> DEFINE f == [i \in 1 .. 0 |-> 0]
  <2>1. f = [i \in 1 .. 0 |-> IF i = 1 THEN s[i] ELSE f[i - 1] \o s[i]]
    OBVIOUS
  <2>2. Joins(f, s, 0)
    BY <2>1 DEF Joins
  <2> QED BY <2>2
<1>3. PICK f : Joins(f, s, m - 1)
  <2>1. m - 1 \in Nat /\ ~(m <= m - 1)
    BY <1>2
  <2> QED BY <1>1, <2>1
<1> DEFINE g == [i \in 1 .. m |-> IF i = m THEN IF m = 1 THEN s[m] ELSE f[m - 1] \o s[m] ELSE f[i]]
<1>4. g = [i \in 1 .. m |-> IF i = 1 THEN s[i] ELSE g[i - 1] \o s[i]]
  <2>1. ASSUME NEW i \in 1 .. m
        PROVE  g[i] = IF i = 1 THEN s[i] ELSE g[i - 1] \o s[i]
    <3>1. CASE i = m
      BY <1>2, <3>1
    <3>2. CASE i # m
      <4>1. i \in 1 .. m - 1 /\ g[i] = f[i] /\ (i # 1 => i - 1 \in 1 .. m /\ i - 1 # m)
        BY <1>2, <3>2
      <4>2. f[i] = IF i = 1 THEN s[i] ELSE f[i - 1] \o s[i]
        BY <1>3, <4>1 DEF Joins
      <4>3. i # 1 => g[i - 1] = f[i - 1]
        BY <4>1
      <4> QED BY <4>1, <4>2, <4>3
    <3> QED BY <3>1, <3>2
  <2> HIDE DEF g
  <2>2. DOMAIN g = 1 .. m /\ g = [i \in 1 .. m |-> g[i]]
    BY DEF g
  <2> QED BY <2>1, <2>2
<1>5. Joins(g, s, m)
  <2> HIDE DEF g
  <2> QED BY <1>4 DEF Joins
<1> QED BY <1>5

\* What sequences share, their joins share.
LEMMA JoinsAgree ==
    ASSUME NEW s, NEW t, NEW f, NEW g, NEW m \in Nat, NEW n \in Nat, m <= n,
           Joins(f, s, m), Joins(g, t, n), \A i \in 1 .. m : s[i] = t[i]
    PROVE  \A i \in 1 .. m : f[i] = g[i]
<1> DEFINE Differ == {i \in 1 .. m : f[i] # g[i]}
<1> SUFFICES ASSUME Differ # {} PROVE FALSE
  OBVIOUS
<1>0. Differ \in SUBSET Nat
  OBVIOUS
<1>1. PICK i \in Differ : \A k \in Differ : i <= k
  BY <1>0, LeastNatural
<1>2. f[i] = (IF i = 1 THEN s[i] ELSE f[i - 1] \o s[i]) /\ g[i] = (IF i = 1 THEN t[i] ELSE g[i - 1] \o t[i])
  <2>1. i \in 1 .. m /\ i \in 1 .. n
    OBVIOUS
  <2>2. f = [j \in 1 .. m |-> IF j = 1 THEN s[j] ELSE f[j - 1] \o s[j]]
    BY DEF Joins
  <2>3. g = [j \in 1 .. n |-> IF j = 1 THEN t[j] ELSE g[j - 1] \o t[j]]
    BY DEF Joins
  <2> HIDE DEF Differ
  <2>4. f[i] = IF i = 1 THEN s[i] ELSE f[i - 1] \o s[i]
    BY <2>1, <2>2
  <2>5. g[i] = IF i = 1 THEN t[i] ELSE g[i - 1] \o t[i]
    BY <2>1, <2>3
  <2> QED BY <2>4, <2>5
<1>3. i # 1 /\ s[i] = t[i]
  BY <1>2
<1>4. i - 1 \in 1 .. m /\ i - 1 \notin Differ
  BY <1>1, <1>3
<1> QED BY <1>2, <1>3, <1>4

\* The last of the joins is the whole.
LEMMA FlattenIs ==
    ASSUME NEW s, Len(s) # 0, Len(s) \in Nat
    PROVE  \E f : Joins(f, s, Len(s)) /\ Pipe!FlattenSeq(s) = f[Len(s)]
<1> DEFINE F == CHOOSE f : f = [i \in 1 .. Len(s) |-> IF i = 1 THEN s[i] ELSE f[i - 1] \o s[i]]
<1>1. Pipe!FlattenSeq(s) = F[Len(s)]
  BY DEF Pipe!FlattenSeq
<1>2. F = [i \in 1 .. Len(s) |-> IF i = 1 THEN s[i] ELSE F[i - 1] \o s[i]]
  BY JoinsExist DEF Joins
<1> HIDE DEF F
<1> QED BY <1>1, <1>2 DEF Joins

\* No packets have no words.
LEMMA FlattenEmpty == Pipe!FlattenSeq(<< >>) = << >>
  BY DEF Pipe!FlattenSeq

\* One packet more adds its words.
LEMMA FlattenAppend ==
    ASSUME NEW S, NEW s \in Seq(Seq(S)), NEW x \in Seq(S)
    PROVE  Pipe!FlattenSeq(Append(s, x)) = Pipe!FlattenSeq(s) \o x
<1> DEFINE t == Append(s, x)
<1>1. Len(t) = Len(s) + 1 /\ t[Len(t)] = x /\ \A i \in 1 .. Len(s) : t[i] = s[i]
  OBVIOUS
<1>2. Len(s) \in Nat
  OBVIOUS
<1> HIDE DEF t
<1>3. PICK g : Joins(g, t, Len(t)) /\ Pipe!FlattenSeq(t) = g[Len(t)]
  BY <1>1, <1>2, FlattenIs
<1>4. g[Len(t)] = IF Len(t) = 1 THEN x ELSE g[Len(t) - 1] \o x
  <2>1. Len(t) \in 1 .. Len(t)
    BY <1>1, <1>2
  <2>2. g = [j \in 1 .. Len(t) |-> IF j = 1 THEN t[j] ELSE g[j - 1] \o t[j]]
    BY <1>3 DEF Joins
  <2>3. g[Len(t)] = IF Len(t) = 1 THEN t[Len(t)] ELSE g[Len(t) - 1] \o t[Len(t)]
    BY <2>1, <2>2
  <2> QED BY <2>3, <1>1
<1>5. CASE s = << >>
  <2>1. Pipe!FlattenSeq(t) = x
    BY <1>1, <1>3, <1>4, <1>5
  <2> QED BY <1>5, <2>1, FlattenEmpty DEF t
<1>6. CASE s # << >>
  <2>1. Len(s) # 0
    BY <1>6
  <2>2. PICK f : Joins(f, s, Len(s)) /\ Pipe!FlattenSeq(s) = f[Len(s)]
    BY <1>2, <2>1, FlattenIs
  <2>3. \A i \in 1 .. Len(s) : f[i] = g[i]
    <3>1. Len(s) <= Len(t) /\ Len(t) \in Nat /\ \A i \in 1 .. Len(s) : s[i] = t[i]
      BY <1>1, <1>2
    <3> QED BY <3>1, <1>2, <1>3, <2>2, JoinsAgree
  <2>4. Len(s) \in 1 .. Len(s) /\ Len(t) - 1 = Len(s) /\ Len(t) # 1
    BY <1>1, <1>2, <2>1
  <2>5. g[Len(t) - 1] = Pipe!FlattenSeq(s)
    BY <2>2, <2>3, <2>4
  <2> QED BY <1>3, <1>4, <2>4, <2>5 DEF t
<1> QED BY <1>5, <1>6

\* The words of packets are words.
LEMMA FlattenType ==
    ASSUME NEW S, NEW s \in Seq(Seq(S))
    PROVE  Pipe!FlattenSeq(s) \in Seq(S)
<1>1. CASE s = << >>
  <2>1. Pipe!FlattenSeq(s) = << >>
    BY <1>1, FlattenEmpty
  <2> QED BY <2>1
<1>2. CASE s # << >>
  <2>1. Len(s) \in Nat /\ Len(s) # 0 /\ \A i \in 1 .. Len(s) : s[i] \in Seq(S)
    BY <1>2
  <2>2. PICK f : Joins(f, s, Len(s)) /\ Pipe!FlattenSeq(s) = f[Len(s)]
    BY <2>1, FlattenIs
  <2>3. \A i \in 1 .. Len(s) : f[i] = IF i = 1 THEN s[i] ELSE f[i - 1] \o s[i]
    <3>1. f = [i \in 1 .. Len(s) |-> IF i = 1 THEN s[i] ELSE f[i - 1] \o s[i]]
      BY <2>2 DEF Joins
    <3> QED BY <3>1
  <2> DEFINE Wrong == {i \in 1 .. Len(s) : f[i] \notin Seq(S)}
  <2>4. Wrong = {}
    <3> SUFFICES ASSUME Wrong # {} PROVE FALSE
      OBVIOUS
    <3>1. PICK i \in Wrong : \A k \in Wrong : i <= k
      <4>1. Wrong \in SUBSET Nat
        BY <2>1
      <4> QED BY <4>1, LeastNatural
    <3>2. i \in 1 .. Len(s) /\ f[i] \notin Seq(S)
      OBVIOUS
    <3>3. i # 1
      BY <2>1, <2>3, <3>2
    <3>4. i - 1 \in 1 .. Len(s) /\ ~(i <= i - 1)
      BY <2>1, <3>2, <3>3
    <3>5. f[i - 1] \in Seq(S)
      BY <3>1, <3>4
    <3>6. f[i] = f[i - 1] \o s[i] /\ s[i] \in Seq(S)
      BY <2>1, <2>3, <3>2, <3>3
    <3> QED BY <3>2, <3>5, <3>6
  <2> QED BY <2>1, <2>2, <2>4
<1> QED BY <1>1, <1>2

-----------------------------------------------------------------------------
(* Chunks.                                                                 *)

\* What is left of a page ends at a page.
LEMMA PageLemma ==
    ASSUME NEW a \in Nat, NEW p \in Nat \ {0}
    PROVE  (a + (p - (a % p))) % p = 0 /\ (a % p) \in 0 .. p - 1
<1>1. a = p * (a \div p) + (a % p) /\ (a % p) \in 0 .. p - 1 /\ (a \div p) \in Nat
  OBVIOUS
<1> DEFINE q == (a \div p) + 1
<1>2. a + (p - (a % p)) = p * q
  BY <1>1
<1>3. (p * q) % p = 0
  <2>1. q \in Nat
    BY <1>1
  <2> HIDE DEF q
  <2> QED BY <2>1
<1> QED BY <1>1, <1>2, <1>3

\* The first chunk ends at the seam, the second takes the rest.
LEMMA SeamLemma ==
    ASSUME ProgramInv, Transferring
    PROVE  /\ call.size \in Nat \ {0} /\ Pipe!Seam \in 1 .. call.size
           /\ total = 0 => chunksize = Pipe!Seam
           /\ total = Pipe!Seam => chunksize = call.size - total
<1>1. call.size \in Nat \ {0} /\ call.at \in Nat /\ Page \in Nat \ {0} /\ total \in Nat
  BY UsbAssumption DEF ProgramInv, TypeOK, TransferOK, CallType, ChunkFits
<1> DEFINE start == call.at % Page
<1>2. start \in 0 .. Page - 1 /\ (call.at + (Page - start)) % Page = 0
  BY <1>1, PageLemma
<1>3. Pipe!Seam = IF start = 0 \/ call.size < Page - start THEN call.size ELSE Page - start
  BY DEF Pipe!Seam
<1>4. total = 0 => offset = start
  BY <1>1 DEF offset
<1>5. total = Page - start => offset = 0
  BY <1>2 DEF offset
<1>6. chunksize = IF offset = 0 THEN call.size - total ELSE Lesser(call.size - total, Page - offset)
  BY DEF chunksize
<1> HIDE DEF start
<1>7. call.size \in Nat \ {0} /\ Pipe!Seam \in 1 .. call.size
  BY <1>1, <1>2, <1>3
<1>8. total = 0 => chunksize = Pipe!Seam
  BY <1>1, <1>2, <1>3, <1>4, <1>6 DEF Lesser
<1>9. total = Pipe!Seam => chunksize = call.size - total
  <2>1. CASE Pipe!Seam = call.size
    <3>1. total = Pipe!Seam => call.size - total = 0
      BY <1>1, <2>1
    <3>2. (call.at + total) % Page \in 0 .. Page - 1
      BY <1>1
    <3> QED BY <1>1, <1>6, <3>1, <3>2 DEF Lesser, offset
  <2>2. CASE Pipe!Seam # call.size
    BY <1>3, <1>5, <1>6, <2>2
  <2> QED BY <2>1, <2>2
<1> QED BY <1>7, <1>8, <1>9

-----------------------------------------------------------------------------
(* A write in packets.                                                     *)

\* How many packets n words take.
LEMMA CountLemma ==
    ASSUME NEW p \in Nat \ {0}, NEW n \in Nat, NEW k \in Nat
    PROVE  (n + p - 1) \div p \in Nat /\ (k * p < n <=> k < (n + p - 1) \div p)
<1>1. n + p - 1 \in Nat
  OBVIOUS
<1> DEFINE q == (n + p - 1) \div p
<1>2. q \in Nat /\ p * q <= n + p - 1 /\ n + p - 1 < p * (q + 1)
  BY <1>1
<1> HIDE DEF q
<1>3. CASE k < q
  <2>1. k + 1 <= q
    BY <1>2, <1>3
  <2>2. p * (k + 1) <= p * q
    BY <2>1, <1>2
  <2> QED BY <2>2, <1>2, <1>3 DEF q
<1>4. CASE k >= q
  <2>1. p * k >= p * q
    BY <1>4, <1>2
  <2>2. p * (q + 1) = p * q + p /\ k * p = p * k
    BY <1>2
  <2> QED BY <2>1, <1>2, <1>4, <2>2 DEF q
<1> QED BY <1>2, <1>3, <1>4 DEF q

\* Packet k + 1 of a transfer.
LEMMA PacketLemma ==
    ASSUME NEW d \in Seq(Word), NEW k \in Nat
    PROVE  /\ Len(Pipe!Cut(d)) \in Nat
           /\ k * PacketSize < Len(d) <=> k < Len(Pipe!Cut(d))
           /\ k * PacketSize < Len(d) =>
                 Pipe!Cut(d)[k + 1] =
                     SubSeq(d, k * PacketSize + 1, Lesser((k + 1) * PacketSize, Len(d)))
<1> DEFINE n == (Len(d) + PacketSize - 1) \div PacketSize
           part(i) == SubSeq(d, (i - 1) * PacketSize + 1,
                             IF i * PacketSize < Len(d) THEN i * PacketSize ELSE Len(d))
<1>1. Pipe!Cut(d) = [i \in 1 .. n |-> part(i)]
  BY DEF Pipe!Cut
<1>2. n \in Nat /\ (k * PacketSize < Len(d) <=> k < n)
  <2>1. Len(d) \in Nat /\ PacketSize \in Nat \ {0}
    BY UsbAssumption
  <2> QED BY <2>1, CountLemma
<1>3. part(k + 1) = SubSeq(d, k * PacketSize + 1, Lesser((k + 1) * PacketSize, Len(d)))
  <2>1. (k + 1) - 1 = k
    OBVIOUS
  <2> QED BY <2>1 DEF Lesser
<1> HIDE DEF n, part
<1>4. Len(Pipe!Cut(d)) = n
  BY <1>1, <1>2
<1>5. k < n => Pipe!Cut(d)[k + 1] = part(k + 1)
  <2>1. k < n => k + 1 \in 1 .. n
    BY <1>2
  <2> QED BY <1>1, <2>1
<1> QED BY <1>2, <1>3, <1>4, <1>5

\* What SendPacket gives to the host after k packets of a chunk of p words is
\* packet k + 1 of that chunk.
GivesPart(data, t, p, k) ==
    LET words   == SubSeq(data, t + 1, t + Lesser(p, k * PacketSize + PacketSize))
        packets == Pipe!Cut(SubSeq(data, t + 1, t + p))
    IN  /\ Len(words) = Lesser(p, k * PacketSize + PacketSize) /\ words \in Seq(Word)
        /\ Len(packets) \in Nat
        /\ k < Len(packets)
        /\ packets[k + 1] = SubSeq(words, k * PacketSize + 1, Len(words))
        /\ Len(words) = p => Len(packets) = k + 1
        /\ Len(words) # p => Len(words) = (k + 1) * PacketSize

LEMMA PartLemma ==
    ASSUME NEW data \in Seq(Word), NEW t \in Nat, NEW p \in Nat \ {0}, t + p <= Len(data),
           NEW k \in Nat, k * PacketSize < p
    PROVE  GivesPart(data, t, p, k)
<1> DEFINE words == SubSeq(data, t + 1, t + Lesser(p, k * PacketSize + PacketSize))
           packets == Pipe!Cut(SubSeq(data, t + 1, t + p))
<1>1. PacketSize \in Nat \ {0} /\ Len(data) \in Nat /\ k * PacketSize \in Nat
  BY UsbAssumption
<1> DEFINE l == Lesser(p, k * PacketSize + PacketSize)
           d == SubSeq(data, t + 1, t + p)
<1>2. l \in Nat /\ l <= p /\ k * PacketSize < l
  BY <1>1 DEF Lesser
<1>3. (k + 1) * PacketSize = k * PacketSize + PacketSize
  BY <1>1
<1>4. d \in Seq(Word) /\ Len(d) = p /\ \A i \in 1 .. p : d[i] = data[t + i]
  <2>1. \A i \in t + 1 .. t + p : data[i] \in Word
    BY <1>1
  <2> QED BY <2>1, <1>1, SubSeqProperties
<1> HIDE DEF l, d, words, packets
<1>5. words \in Seq(Word) /\ Len(words) = l /\ \A i \in 1 .. l : words[i] = data[t + i]
  <2>1. words = SubSeq(data, t + 1, t + l)
    BY DEF l, words
  <2>2. t + 1 \in 1 .. Len(data) + 1 /\ t + l \in (t + 1) - 1 .. Len(data) /\ (t + l) - (t + 1) + 1 = l
    BY <1>1, <1>2
  <2>3. \A i \in 1 .. l : (t + 1) + i - 1 = t + i
    BY <1>2
  <2> HIDE DEF l
  <2> QED BY ONLY <2>1, <2>2, <2>3, data \in Seq(Word), SubSeqProperties
<1>6. /\ Len(packets) \in Nat /\ k < Len(packets)
      /\ packets[k + 1] = SubSeq(d, k * PacketSize + 1, l)
  <2>1. packets = Pipe!Cut(d)
    BY DEF d, packets
  <2>2. Lesser((k + 1) * PacketSize, Len(d)) = l
    BY <1>1, <1>3, <1>4 DEF l, Lesser
  <2> QED BY <2>1, <2>2, <1>4, PacketLemma
<1>7. SubSeq(d, k * PacketSize + 1, l) = SubSeq(words, k * PacketSize + 1, l)
  <2> DEFINE m == k * PacketSize + 1
  <2>1. m \in 1 .. l
    BY <1>1, <1>2
  <2> HIDE DEF m
  <2>2. \A i \in m .. l : d[i] = words[i] /\ i \in 1 .. Len(d) /\ i \in 1 .. Len(words)
    BY <2>1, <1>2, <1>4, <1>5
  <2>3. SubSeq(d, m, l) = SubSeq(words, m, l)
    BY ONLY <2>1, <2>2, <1>2, <1>4, <1>5
  <2> QED BY <2>3 DEF m
<1>8. l = p => Len(packets) = k + 1
  <2>1. l = p => ~((k + 1) * PacketSize < Len(d))
    BY <1>1, <1>3, <1>4 DEF l, Lesser
  <2>2. k + 1 \in Nat
    OBVIOUS
  <2>3. l = p => ~(k + 1 < Len(packets))
    BY <2>1, <2>2, <1>4, PacketLemma DEF d, packets
  <2> QED BY <2>3, <1>6
<1>9. l # p => l = (k + 1) * PacketSize
  BY <1>3 DEF l, Lesser
<1> QED BY <1>5, <1>6, <1>7, <1>8, <1>9 DEF l, words, packets, GivesPart

-----------------------------------------------------------------------------
(* The invariant.                                                          *)

Under == step \in {"post", "posted"}

\* A try begins anew, and one that a host has left has nothing.
FreshTry ==
    /\ step = "wait" => moved = << >>
    /\ Transferring /\ ~configured => moved = << >> /\ (step # "wait" => ~whole)

\* A write fails only when the host is gone.
OnlyReadsFail == step = "failed" /\ whole => call.dir = "read"

\* The buffer is cut at the seam.
TwoChunks ==
    Under => /\ total = 0 \/ total = Pipe!Seam
             /\ step = "posted" => posted = IF total = 0 THEN Pipe!Seam ELSE call.size - total

\* A read has the words of the packets it took, and none of them was the last.
ReadSoFar ==
    Under /\ whole /\ call.dir = "read" =>
        /\ Pipe!FlattenSeq(moved) =
              SubSeq(memory[call.into], 1, total) \o (IF step = "posted" THEN urb ELSE << >>)
        /\ \A n \in 1 .. Len(moved) : ~Pipe!Ends(SubSeq(moved, 1, n))

\* The packets of the chunks before.
before == IF total = 0 THEN 0 ELSE Len(Pipe!Cut(SubSeq(call.data, 1, Pipe!Seam)))

\* A write has given the first packets of its transfer.
WrittenSoFar ==
    Under /\ whole /\ call.dir = "write" =>
        /\ moved = SubSeq(Pipe!Packets(call.data), 1, Len(moved))
        /\ Len(moved) >= before
        /\ IF step = "posted" THEN Len(urb) = (Len(moved) - before) * PacketSize ELSE Len(moved) = before

PipeInv == FreshTry /\ OnlyReadsFail /\ TwoChunks /\ ReadSoFar /\ WrittenSoFar

-----------------------------------------------------------------------------
(* Steps that are none of a transfer's.                                    *)

\* Of what the proofs below are about.
LEMMA UsbTypes ==
    ASSUME ProgramInv
    PROVE  /\ pipe \in [Endpoint -> Seq(Seq(Word))] /\ moved \in Seq(Seq(Word))
           /\ call \in CallType /\ call.ep \in Endpoint /\ call.dir \in {"read", "write"}
           /\ call.at \in Nat /\ call.data \in Seq(Word) /\ call.size \in Nat
           /\ memory \in [DOMAIN BufferSize -> Seq(Word)]
           /\ \A b \in DOMAIN BufferSize : Len(memory[b]) = BufferSize[b] /\ BufferSize[b] \in Nat
           /\ total \in Nat /\ posted \in Nat /\ urb \in Seq(Word) /\ Len(urb) \in Nat /\ result \in Int
           /\ Len(moved) \in Nat /\ whole \in BOOLEAN
           /\ step \in {"idle", "wait", "post", "posted", "failed", "returned"}
<1>1. \A b \in DOMAIN BufferSize : BufferSize[b] \in Nat
  BY UsbAssumption
<1>2. urb \in Seq(Word) /\ moved \in Seq(Seq(Word)) /\ call \in CallType
  BY DEF ProgramInv, TypeOK, TransferOK
<1>3. Len(urb) \in Nat /\ Len(moved) \in Nat
  BY <1>2, LenProperties
<1> QED BY <1>1, <1>2, <1>3 DEF ProgramInv, TypeOK, TransferOK, WiresOK, CallType

\* What BulkPipe does not see.
LEMMA UnseenLemma ==
    ASSUME UNCHANGED <<initialized, pipe, call, result, memory, moved>>,
           step' = step \/ (Transferring /\ Transferring')
    PROVE  UNCHANGED <<initialized, untaken, busy, call, result, received>>
<1>1. busy' = busy /\ reading' = reading
  BY DEF busy, reading, Transferring
<1>2. untaken' = untaken
  BY <1>1 DEF untaken
<1>3. received' = received
  BY DEF received, Transferring
<1> QED BY <1>1, <1>2, <1>3

\* One call has one seam and one way to end.
LEMMA SameCall ==
    ASSUME call' = call
    PROVE  /\ (Pipe!Seam)' = Pipe!Seam
           /\ \A packets : (Pipe!Ends(packets))' <=> Pipe!Ends(packets)
           /\ (Pipe!Packets(call.data))' = Pipe!Packets(call.data)
<1>1. (Pipe!Seam)' = Pipe!Seam
  BY DEF Pipe!Seam
<1>2. \A packets : (Pipe!Ends(packets))' <=> Pipe!Ends(packets)
  BY <1>1 DEF Pipe!Ends
<1> QED BY <1>1, <1>2 DEF Pipe!Packets

\* The invariant is about a transfer.
LEMMA KeptLemma ==
    ASSUME PipeInv, UNCHANGED <<memory, transfer>>,
           ~Transferring \/ configured' = configured \/ configured'
    PROVE  PipeInv'
<1> USE DEF transfer, chunk, history
<1>1. FreshTry' /\ OnlyReadsFail'
  BY DEF PipeInv, FreshTry, OnlyReadsFail, Transferring
<1>2. TwoChunks'
  BY SameCall DEF PipeInv, TwoChunks, Under
<1>3. ReadSoFar'
  BY SameCall DEF PipeInv, ReadSoFar, Under
<1>4. before' = before
  BY SameCall DEF before
<1>5. WrittenSoFar'
  BY <1>4, SameCall DEF PipeInv, WrittenSoFar, Under
<1> QED BY <1>1, <1>2, <1>3, <1>5 DEF PipeInv

\* Nothing of a transfer happens.
LEMMA PipeIdle ==
    ASSUME ProgramInv, PipeInv, UNCHANGED <<pipe, memory, transfer>>,
           ~Transferring \/ (initialized' = initialized /\ (configured' = configured \/ configured'))
    PROVE  PipeInv' /\ [Pipe!Next]_Pipe!vars
<1> USE DEF transfer, chunk, history
<1>1. PipeInv'
  BY KeptLemma
<1>2. [Pipe!Next]_Pipe!vars
  <2>1. CASE initialized' = initialized
    BY <2>1, UnseenLemma DEF Pipe!vars
  <2>2. CASE initialized' # initialized
    <3>1. ~busy /\ ~busy' /\ ~reading /\ ~reading' /\ busy' = busy
      BY <2>2 DEF busy, reading, Transferring
    <3>2. untaken' = untaken /\ received' = received
      BY <3>1 DEF untaken, received
    <3>3. Pipe!SetUp
      BY <2>2, <3>1, <3>2 DEF Pipe!SetUp
    <3> QED BY <3>3 DEF Pipe!Next
  <2> QED BY <2>1, <2>2
<1> QED BY <1>1, <1>2

\* A call begins.
LEMMA PipeCalls ==
    ASSUME ProgramInv, PipeInv, NEW c \in CallType, NEW next, Calls(c, next)
    PROVE  PipeInv' /\ [Pipe!Next]_Pipe!vars
<1> USE DEF Calls, Call, Steady, interfaces, wires
<1>1. step' \in {"wait", "returned"} /\ moved' = << >> /\ ~Transferring
  BY DEF Transferring
<1>2. PipeInv'
  <2>1. ~Under' /\ step' # "failed" /\ (Transferring' => step' = "wait")
    BY <1>1 DEF Under, Transferring
  <2> QED BY <1>1, <2>1 DEF PipeInv, FreshTry, OnlyReadsFail, TwoChunks, ReadSoFar, WrittenSoFar
<1>3. busy' = (c.ep[1] \in initialized) /\ ~busy /\ ~reading
  BY <1>1 DEF busy, reading, Transferring
<1>4. untaken' = untaken
  <2>1. pipe \in [Endpoint -> Seq(Seq(Word))] /\ c.ep \in Endpoint /\ call' = c
    BY UsbTypes DEF CallType
  <2>2. << >> \o pipe[c.ep] = pipe[c.ep]
    BY <2>1, ConcatEmptySeq
  <2>3. [pipe EXCEPT ![c.ep] = << >> \o @] = pipe
    BY <2>1, <2>2
  <2> QED BY <1>1, <1>3, <2>1, <2>3 DEF untaken
<1>5. received' = << >>
  BY <1>1 DEF received
<1>6. result' = IF busy' THEN -1 ELSE 0
  BY <1>3
<1>7. Pipe!Begin
  <2>1. call'.ep[1] = c.ep[1]
    OBVIOUS
  <2> QED BY <1>3, <1>4, <1>5, <1>6, <2>1 DEF Pipe!Begin
<1> QED BY <1>2, <1>7 DEF Pipe!Next

\* main, nxlinkStdioInitialise and the loop go on or call usbTransfer.
LEMMA PipeProgram ==
    ASSUME ProgramInv, PipeInv, UNCHANGED <<rigid, stopThread, host>>,
           \/ SetUp \/ SetUpDone \/ AwaitStart \/ Run \/ Loop \/ RequestRead \/ DataRead
           \/ Log \/ ReadInitialData \/ ReceiveFile \/ Handle \/ Replied \/ Responded \/ Join \/ Closed \/ Exit
    PROVE  PipeInv' /\ [Pipe!Next]_Pipe!vars
<1>1. CASE SetUp \/ Exit
  <2>1. ~Transferring
    BY <1>1 DEF SetUp, Exit, ProgramInv, ChunkFits
  <2>2. UNCHANGED <<pipe, memory, transfer>>
    BY <1>1 DEF SetUp, Exit, usbInitialize, wires, transfer
  <2> QED BY <2>1, <2>2, PipeIdle
<1>2. ASSUME NEW next, Waits(next)
      PROVE  PipeInv' /\ [Pipe!Next]_Pipe!vars
  BY <1>2, PipeIdle DEF Waits, Steady, interfaces, wires
<1>3. ASSUME NEW c, Sound(c), NEW next, Calls(c, next)
      PROVE  PipeInv' /\ [Pipe!Next]_Pipe!vars
  BY <1>3, PipeCalls DEF Sound
<1>4. CASE SetUpDone \/ Run \/ DataRead \/ Responded \/ Closed
  BY <1>2, <1>4 DEF SetUpDone, Run, DataRead, Responded, Closed
<1>5. CASE AwaitStart
  BY <1>2, <1>3, <1>5, SoundLemma DEF AwaitStart
<1>6. CASE Loop
  BY <1>2, <1>3, <1>6, SoundLemma DEF Loop
<1>7. CASE RequestRead
  BY <1>2, <1>3, <1>7, SoundLemma DEF RequestRead
<1>8. CASE Log
  BY <1>3, <1>8, SoundLemma DEF Log
<1>13. CASE ReadInitialData
  BY <1>3, <1>13, SoundLemma DEF ReadInitialData
<1>14. CASE ReceiveFile
  BY <1>3, <1>14, SoundLemma DEF ReceiveFile
<1>9. CASE SendResponse
  BY <1>3, <1>9, SoundLemma DEF SendResponse
<1>10. CASE Handle
  <2>1. ASSUME NEW n \in ReplySize \ {0}, Calls(Write(mtp.IN, at, Text(n)), "reply")
        PROVE  PipeInv' /\ [Pipe!Next]_Pipe!vars
    <3>1. n \in Nat \ {0}
      BY MainAssumption
    <3> QED BY <1>3, <2>1, <3>1, SoundLemma
  <2> QED BY <1>9, <1>10, <2>1 DEF Handle
<1>11. CASE Replied
  BY <1>2, <1>9, <1>11 DEF Replied
<1>12. CASE Join
  BY <1>2, <1>3, <1>12, SoundLemma DEF Join
<1> QED BY <1>1, <1>4, <1>5, <1>6, <1>7, <1>8, <1>10, <1>11, <1>12, <1>13, <1>14

-----------------------------------------------------------------------------
(* A transfer that takes no packet.                                        *)

\* What stands first in a queue, and what is left without it.
LEMMA FrontLemma ==
    ASSUME NEW S, NEW m \in Seq(S), NEW q \in Seq(S)
    PROVE  /\ Len(m) \in 0 .. Len(m \o q)
           /\ SubSeq(m \o q, 1, Len(m)) = m
           /\ Pipe!Drop(m \o q, Len(m)) = q
<1> DEFINE c == m \o q
           a == SubSeq(c, 1, Len(m))
           b == SubSeq(c, Len(m) + 1, Len(c))
<1>1. Len(m) \in Nat /\ Len(q) \in Nat
  BY LenProperties
<1>2. /\ c \in Seq(S) /\ Len(c) = Len(m) + Len(q)
      /\ \A i \in 1 .. Len(m) + Len(q) : c[i] = IF i <= Len(m) THEN m[i] ELSE q[i - Len(m)]
  BY ConcatProperties
<1> HIDE DEF c
<1>3. \A i \in 1 .. Len(c) : c[i] \in S
  BY <1>2, ElementOfSeq
<1>4. a = m
  <2>1. a \in Seq(S) /\ Len(a) = Len(m) /\ \A i \in 1 .. Len(m) : a[i] = c[i]
    BY <1>1, <1>2, <1>3, SubSeqProperties
  <2> HIDE DEF a
  <2>2. \A i \in 1 .. Len(m) : a[i] = m[i]
    BY <1>1, <1>2, <2>1
  <2> QED BY <2>1, <2>2, SeqEqual
<1>5. b = q
  <2>1. Len(c) - (Len(m) + 1) + 1 = Len(q) /\ Len(m) + 1 \in Int /\ Len(c) \in Int
    BY <1>1, <1>2
  <2>2. b \in Seq(S) /\ Len(b) = Len(q) /\ \A i \in 1 .. Len(q) : b[i] = c[Len(m) + 1 + i - 1]
    BY <1>1, <1>3, <2>1, SubSeqProperties
  <2> HIDE DEF b
  <2>3. ASSUME NEW i \in 1 .. Len(q) PROVE b[i] = q[i]
    <3>1. Len(m) + 1 + i - 1 \in 1 .. Len(m) + Len(q) /\ ~(Len(m) + 1 + i - 1 <= Len(m))
          /\ Len(m) + 1 + i - 1 - Len(m) = i
      BY <1>1
    <3> DEFINE j == Len(m) + 1 + i - 1
    <3>2. b[i] = c[j]
      BY <2>2
    <3> HIDE DEF j
    <3>3. j \in 1 .. Len(m) + Len(q) /\ ~(j <= Len(m)) /\ j - Len(m) = i
      BY <3>1 DEF j
    <3>4. c[j] = q[j - Len(m)]
      BY <1>2, <3>3
    <3> QED BY <3>2, <3>3, <3>4
  <2> QED BY <2>2, <2>3, SeqEqual
<1> QED BY <1>1, <1>2, <1>4, <1>5 DEF c, Pipe!Drop

\* A call ends that has taken the packets m from its pipe.
LEMMA TakesLemma ==
    ASSUME ProgramInv, reading, ~reading', call' = call, NEW m \in Seq(Seq(Word)), NEW q \in Seq(Seq(Word)),
           m \o q = moved \o pipe[call.ep], pipe' = [pipe EXCEPT ![call.ep] = q]
    PROVE  /\ Len(m) \in 0 .. Len(untaken[call.ep])
           /\ SubSeq(untaken[call.ep], 1, Len(m)) = m
           /\ untaken' = [untaken EXCEPT ![call.ep] = Pipe!Drop(@, Len(m))]
<1>1. pipe \in [Endpoint -> Seq(Seq(Word))] /\ call.ep \in Endpoint
  BY UsbTypes
<1>2. untaken = [pipe EXCEPT ![call.ep] = m \o q] /\ untaken[call.ep] = m \o q
  BY <1>1 DEF untaken
<1>3. untaken' = [pipe EXCEPT ![call.ep] = q]
  BY DEF untaken
<1>4. /\ Len(m) \in 0 .. Len(m \o q) /\ SubSeq(m \o q, 1, Len(m)) = m
      /\ Pipe!Drop(m \o q, Len(m)) = q
  BY FrontLemma
<1> QED BY <1>1, <1>2, <1>3, <1>4

\* A call ends that has left its pipe alone.
LEMMA LeavesLemma ==
    ASSUME ProgramInv, ~reading, ~reading', pipe' = pipe
    PROVE  /\ 0 \in 0 .. Len(untaken[call.ep])
           /\ untaken' = untaken
           /\ untaken' = [untaken EXCEPT ![call.ep] = Pipe!Drop(@, 0)]
<1>1. pipe \in [Endpoint -> Seq(Seq(Word))] /\ call.ep \in Endpoint
  BY UsbTypes
<1>2. untaken = pipe /\ untaken' = pipe
  BY DEF untaken
<1>3. /\ 0 \in 0 .. Len(<< >> \o pipe[call.ep])
      /\ Pipe!Drop(<< >> \o pipe[call.ep], 0) = pipe[call.ep]
  <2>1. << >> \in Seq(Seq(Word)) /\ Len(<< >>) = 0 /\ pipe[call.ep] \in Seq(Seq(Word))
    BY <1>1, EmptySeq
  <2> QED BY <2>1, FrontLemma
<1>4. << >> \o pipe[call.ep] = pipe[call.ep]
  BY <1>1, ConcatEmptySeq
<1> QED BY <1>1, <1>2, <1>3, <1>4

\* The device is ready.
LEMMA PipeWait ==
    ASSUME ProgramInv, PipeInv, WaitReady, UNCHANGED <<interfaces, setup, index, program>>
    PROVE  PipeInv' /\ [Pipe!Next]_Pipe!vars
<1> USE DEF WaitReady, interfaces, wires
<1>1. moved = << >> /\ moved' = << >> /\ whole \in BOOLEAN
  BY UsbTypes DEF PipeInv, FreshTry
<1>2. PipeInv'
  <2>1. FreshTry' /\ OnlyReadsFail'
    BY DEF FreshTry, OnlyReadsFail
  <2>2. TwoChunks'
    BY DEF TwoChunks
  <2>3. ReadSoFar'
    <3>1. SubSeq(memory[call.into], 1, 0) = << >> /\ << >> \o << >> = << >>
      BY SubSeqEmpty
    <3>2. 1 .. Len(<< >>) = {}
      OBVIOUS
    <3> QED BY <1>1, <3>1, <3>2, FlattenEmpty DEF ReadSoFar
  <2>4. WrittenSoFar'
    <3>1. before' = 0 /\ Len(<< >>) = 0
      BY DEF before
    <3>2. SubSeq(Pipe!Packets(call.data), 1, 0) = << >>
      BY SubSeqEmpty
    <3>3. (Pipe!Packets(call.data))' = Pipe!Packets(call.data)
      BY SameCall
    <3> QED BY <1>1, <3>1, <3>2, <3>3 DEF WrittenSoFar
  <2> QED BY <2>1, <2>2, <2>3, <2>4 DEF PipeInv
<1>3. UNCHANGED <<initialized, untaken, busy, call, result, received>> /\ busy
  BY <1>1, UnseenLemma DEF Transferring, busy
<1>4. CASE whole
  BY <1>1, <1>2, <1>3, <1>4 DEF Pipe!vars
<1>5. CASE ~whole
  <2>1. Pipe!Again
    BY <1>1, <1>3, <1>5 DEF Pipe!Again
  <2> QED BY <1>2, <2>1 DEF Pipe!Next
<1> QED BY <1>1, <1>2, <1>4, <1>5

\* A chunk is posted, or the device has gone.
LEMMA PipePost ==
    ASSUME ProgramInv, PipeInv, PostBuffer, UNCHANGED <<interfaces, setup, index, program>>
    PROVE  PipeInv' /\ [Pipe!Next]_Pipe!vars
<1> USE DEF PostBuffer, interfaces, wires, history
<1>1. step' \in {"posted", "failed"} /\ Transferring /\ Transferring'
  BY DEF Transferring
<1>2. UNCHANGED Pipe!vars
  BY <1>1, UnseenLemma DEF Pipe!vars
<1>3. FreshTry' /\ OnlyReadsFail'
  BY <1>1 DEF PipeInv, FreshTry, OnlyReadsFail, Transferring
<1>4. before' = before
  BY SameCall DEF before
<1>5. CASE configured
  <2>1. step' = "posted" /\ posted' = chunksize /\ urb' = << >> /\ Len(<< >>) = 0
    BY <1>5
  <2>2. TwoChunks'
    BY <1>1, <2>1, SeamLemma, SameCall DEF PipeInv, TwoChunks, Under
  <2>3. ReadSoFar'
    BY <2>1, SameCall DEF PipeInv, ReadSoFar, Under
  <2>4. WrittenSoFar'
    <3>1. before = Len(moved) => (Len(moved) - before) * PacketSize = 0
      BY UsbTypes, UsbAssumption
    <3> QED BY <1>4, <2>1, <3>1, SameCall DEF PipeInv, WrittenSoFar, Under
  <2> QED BY <1>2, <1>3, <2>2, <2>3, <2>4 DEF PipeInv
<1>6. CASE ~configured
  <2>1. ~Under'
    BY <1>6 DEF Under
  <2> QED BY <1>2, <1>3, <2>1 DEF PipeInv, TwoChunks, ReadSoFar, WrittenSoFar
<1> QED BY <1>5, <1>6

\* A try fails: the next one begins, or the call.
LEMMA PipeFailed ==
    ASSUME ProgramInv, PipeInv, Failed, UNCHANGED <<interfaces, setup, index, program>>
    PROVE  PipeInv' /\ [Pipe!Next]_Pipe!vars
<1> USE DEF Failed, interfaces, wires, chunk, history
<1>1. Transferring /\ ~Under' /\ step' # "failed" /\ (Transferring' => step' = "wait")
  BY DEF Transferring, Under, Return
<1>2. PipeInv'
  <2>1. step' = "wait" => ~configured
    BY DEF Return
  <2>2. step' = "wait" => moved = << >>
    BY <1>1, <2>1 DEF PipeInv, FreshTry
  <2>3. FreshTry'
    BY <1>1, <2>2 DEF FreshTry
  <2> QED BY <1>1, <2>3 DEF PipeInv, OnlyReadsFail, TwoChunks, ReadSoFar, WrittenSoFar
<1>3. CASE step' = "wait"
  <2>1. result' = result /\ Transferring'
    BY <1>3 DEF Return, Transferring
  <2> QED BY <1>1, <1>2, <2>1, UnseenLemma DEF Pipe!vars
<1>4. CASE Return(-1)
  <2>1. step' = "returned" /\ result' = -1 /\ ~Transferring' /\ ~reading'
    BY <1>4 DEF Return, Transferring, reading
  <2>2. Pipe!End
    BY <1>1, <2>1 DEF Pipe!End, busy
  <2>3. pipe[call.ep] \in Seq(Seq(Word)) /\ moved \in Seq(Seq(Word)) /\ call.size \in Nat
        /\ pipe' = [pipe EXCEPT ![call.ep] = pipe[call.ep]] /\ result' \in -1 .. call.size
    BY <2>1, UsbTypes
  <2>4. CASE call.dir = "read"
    <3>1. reading
      BY <1>1, <2>4 DEF reading
    <3>2. /\ Len(moved) \in 0 .. Len(untaken[call.ep])
          /\ untaken' = [untaken EXCEPT ![call.ep] = Pipe!Drop(@, Len(moved))]
      BY <2>1, <2>3, <3>1, TakesLemma
    <3>3. received' = << >>
      BY <2>1, <2>4 DEF received
    <3>4. CASE whole
      <4>1. Pipe!ReadDone
        BY <2>1, <2>2, <2>4, <3>2, <3>3, <3>4 DEF Pipe!ReadDone
      <4> QED BY <1>2, <4>1 DEF Pipe!Next
    <3>5. CASE ~whole
      <4>1. ~whole'
        BY <3>5
      <4>2. Pipe!Broken
        BY ONLY <2>2, <2>3, <3>2, <4>1 DEF Pipe!Broken
      <4> QED BY <1>2, <4>2 DEF Pipe!Next
    <3> QED BY <3>4, <3>5
  <2>5. CASE call.dir # "read"
    <3>1. ~reading /\ ~whole
      BY <2>5 DEF reading, PipeInv, OnlyReadsFail
    <3>2. /\ 0 \in 0 .. Len(untaken[call.ep])
          /\ untaken' = [untaken EXCEPT ![call.ep] = Pipe!Drop(@, 0)]
      BY <2>1, <3>1, LeavesLemma
    <3>3. ~whole'
      BY <3>1
    <3>4. Pipe!Broken
      BY ONLY <2>2, <2>3, <3>2, <3>3 DEF Pipe!Broken
    <3> QED BY <1>2, <3>4 DEF Pipe!Next
  <2> QED BY <2>4, <2>5
<1> QED BY <1>3, <1>4

-----------------------------------------------------------------------------
(* A read.                                                                 *)

\* A packet goes from the pipe to those the read has taken.
LEMMA OnceTakenLemma ==
    ASSUME ProgramInv, Arrives, call' = call
    PROVE  /\ packet \in Seq(Word) /\ moved' \in Seq(Seq(Word))
           /\ Tail(pipe[call.ep]) \in Seq(Seq(Word))
           /\ moved' \o Tail(pipe[call.ep]) = moved \o pipe[call.ep]
           /\ pipe' = [pipe EXCEPT ![call.ep] = Tail(pipe[call.ep])]
           /\ reading /\ reading' => untaken' = untaken
<1>1. /\ pipe \in [Endpoint -> Seq(Seq(Word))] /\ call.ep \in Endpoint
      /\ moved \in Seq(Seq(Word)) /\ pipe[call.ep] # << >>
  BY UsbTypes DEF Arrives
<1>2. packet \in Seq(Word) /\ Tail(pipe[call.ep]) \in Seq(Seq(Word))
  BY <1>1, HeadTailProperties DEF packet
<1>3. moved' \in Seq(Seq(Word))
  BY <1>1, <1>2, AppendProperties DEF Arrives
<1>4. moved' \o Tail(pipe[call.ep]) = moved \o pipe[call.ep]
  BY <1>1, NextOfQueue DEF Arrives, packet
<1>5. pipe' = [pipe EXCEPT ![call.ep] = Tail(pipe[call.ep])]
  BY DEF Arrives
<1>6. ASSUME reading, reading'
      PROVE  untaken' = untaken
  <2>1. untaken' = [pipe EXCEPT ![call.ep] = moved' \o Tail(pipe[call.ep])]
    BY <1>1, <1>5, <1>6 DEF untaken
  <2>2. untaken = [pipe EXCEPT ![call.ep] = moved \o pipe[call.ep]]
    BY <1>1, <1>6 DEF untaken
  <2> QED BY <1>4, <2>1, <2>2
<1> QED BY <1>2, <1>3, <1>4, <1>5, <1>6

\* The buffer holds, after a chunk, what it held and the words of the chunk.
LEMMA FilledToLemma ==
    ASSUME ProgramInv, call.into \in DOMAIN BufferSize, NEW words \in Seq(Word), NEW over \in BOOLEAN,
           Store(words, over), total + Len(words) <= Len(memory[call.into]), Len(words) <= posted
    PROVE  /\ SubSeq(memory'[call.into], 1, total) = SubSeq(memory[call.into], 1, total)
           /\ over => SubSeq(memory'[call.into], 1, total + Len(words)) =
                          SubSeq(memory[call.into], 1, total) \o words
<1> DEFINE old == memory[call.into]
           new == memory'[call.into]
           n   == Len(words)
           part == SubSeq(old, 1, total)
<1>1. total \in Nat /\ posted \in Nat /\ n \in Nat /\ old \in Seq(Word) /\ Len(old) \in Nat
      /\ total + n <= Len(old) /\ words \in Seq(Word) /\ Len(words) = n
  BY UsbTypes, LenProperties
<1>2. /\ new \in Seq(Word) /\ Len(new) = Len(old)
      /\ IF offset = 0 \/ over
         THEN \A i \in 1 .. Len(old) :
                 new[i] = IF i \in total + 1 .. total + n THEN words[i - total] ELSE old[i]
         ELSE new = old
  <2>1. Lesser(posted, Len(words)) = n
    BY <1>1 DEF Lesser
  <2> QED BY <2>1, StoredLemma
<1> HIDE DEF old, new, n
<1>3. \A i \in 1 .. total : new[i] = old[i]
  BY <1>1, <1>2
<1>4. /\ part \in Seq(Word) /\ Len(part) = total /\ \A i \in 1 .. total : part[i] = old[i]
  <2>1. \A i \in 1 .. total : old[i] \in Word
    BY <1>1, ElementOfSeq
  <2> QED BY <2>1, <1>1, SubSeqProperties
<1>5. SubSeq(new, 1, total) = part
  <2>1. \A i \in 1 .. total : new[i] \in Word
    BY <1>1, <1>2, ElementOfSeq
  <2>2. /\ SubSeq(new, 1, total) \in Seq(Word) /\ Len(SubSeq(new, 1, total)) = total
        /\ \A i \in 1 .. total : SubSeq(new, 1, total)[i] = new[i]
    BY <2>1, <1>1, SubSeqProperties
  <2> HIDE DEF part
  <2>3. \A i \in 1 .. total : SubSeq(new, 1, total)[i] = part[i]
    BY <1>3, <1>4, <2>2
  <2> QED BY <1>4, <2>2, <2>3, SeqEqual
<1>6. ASSUME over
      PROVE  SubSeq(new, 1, total + n) = part \o words
  <2> DEFINE to == total + n
             all == SubSeq(new, 1, to)
  <2>1. to \in Nat /\ to <= Len(new)
    BY <1>1, <1>2
  <2>2. \A i \in 1 .. to : new[i] \in Word
    BY <1>2, <2>1, ElementOfSeq
  <2>3. all \in Seq(Word) /\ Len(all) = to /\ \A i \in 1 .. to : all[i] = new[i]
    <3> HIDE DEF to
    <3> QED BY <2>1, <2>2, SubSeqProperties
  <2>4. /\ part \o words \in Seq(Word) /\ Len(part \o words) = to
        /\ \A i \in 1 .. to : (part \o words)[i] = IF i <= total THEN part[i] ELSE words[i - total]
    <3>1. part \in Seq(Word) /\ words \in Seq(Word) /\ Len(part) = total /\ Len(words) = n
      BY <1>1, <1>4
    <3> HIDE DEF part
    <3>2. /\ part \o words \in Seq(Word) /\ Len(part \o words) = Len(part) + Len(words)
          /\ \A i \in 1 .. Len(part) + Len(words) :
                (part \o words)[i] = IF i <= Len(part) THEN part[i] ELSE words[i - Len(part)]
      BY <3>1, ConcatProperties
    <3> QED BY <3>1, <3>2
  <2>5. \A i \in 1 .. to : new[i] = IF i <= total THEN old[i] ELSE words[i - total]
    BY <1>1, <1>2, <1>6
  <2> HIDE DEF part, all, to
  <2>6. \A i \in 1 .. to : i <= total => i \in 1 .. total
    BY <1>1, <2>1
  <2>7. \A i \in 1 .. to : all[i] = (part \o words)[i]
    BY <1>4, <2>3, <2>4, <2>5, <2>6
  <2>8. all = part \o words
    BY <2>3, <2>4, <2>7, SeqEqual
  <2> QED BY <2>8 DEF all, to
<1> QED BY <1>5, <1>6 DEF old, new, n

\* The packets of a read that goes well, after one packet more.
LEMMA OneMoreLemma ==
    ASSUME ProgramInv, PipeInv, step = "posted", whole, call.dir = "read", Arrives, call' = call,
           NEW words, words = urb \o packet
    PROVE  /\ words \in Seq(Word) /\ Len(words) \in Nat /\ Len(words) = Len(urb) + Len(packet)
           /\ Len(packet) \in Nat
           /\ Pipe!FlattenSeq(moved') = SubSeq(memory[call.into], 1, total) \o words
           /\ Len(Pipe!FlattenSeq(moved')) = total + Len(words)
           /\ Pipe!Ends(moved') <=>
                 \/ total + Len(words) = call.size
                 \/ Len(packet) < PacketSize /\ (total + Len(words) # Pipe!Seam \/ packet = << >>)
           /\ moved' # << >> /\ Len(moved') = Len(moved) + 1 /\ SubSeq(moved', 1, Len(moved')) = moved'
           /\ \A n \in 1 .. Len(moved') - 1 : ~Pipe!Ends(SubSeq(moved', 1, n))
<1>1. /\ packet \in Seq(Word) /\ moved' \in Seq(Seq(Word)) /\ moved' = Append(moved, packet)
      /\ moved \in Seq(Seq(Word)) /\ urb \in Seq(Word) /\ total \in Nat /\ Len(moved) \in Nat
  BY UsbTypes, OnceTakenLemma DEF Arrives
<1>2. Len(packet) \in Nat /\ words \in Seq(Word) /\ Len(words) \in Nat
      /\ Len(words) = Len(urb) + Len(packet)
  BY <1>1, ConcatProperties, LenProperties
<1> DEFINE old == SubSeq(memory[call.into], 1, total)
<1>3. old \in Seq(Word) /\ Len(old) = total
  <2>1. /\ call.into \in DOMAIN BufferSize /\ call.size = BufferSize[call.into] /\ total < call.size
    BY DEF ProgramInv, ChunkFits, TypeOK, TransferOK, CallType, Transferring
  <2>2. memory[call.into] \in Seq(Word) /\ total <= Len(memory[call.into]) /\ Len(memory[call.into]) \in Nat
    BY <2>1, UsbTypes
  <2>3. \A i \in 1 .. total : memory[call.into][i] \in Word
    BY <1>1, <2>2, ElementOfSeq
  <2> QED BY <1>1, <2>3, SubSeqProperties
<1>4. Pipe!FlattenSeq(moved) = old \o urb /\ \A n \in 1 .. Len(moved) : ~Pipe!Ends(SubSeq(moved, 1, n))
  BY DEF PipeInv, ReadSoFar, Under
<1> HIDE DEF old
<1>5. Pipe!FlattenSeq(moved') = old \o words
  <2>1. Pipe!FlattenSeq(moved') = (old \o urb) \o packet
    BY <1>1, <1>4, FlattenAppend
  <2>2. (old \o urb) \o packet = old \o (urb \o packet)
    BY <1>1, <1>3, ConcatAssociative
  <2> QED BY <2>1, <2>2
<1>6. Len(Pipe!FlattenSeq(moved')) = total + Len(words)
  BY <1>2, <1>3, <1>5, ConcatProperties
<1>7. /\ moved' # << >> /\ Len(moved') = Len(moved) + 1 /\ moved'[Len(moved')] = packet
      /\ \A i \in 1 .. Len(moved) : moved'[i] = moved[i]
  <2>1. moved \in Seq(Seq(Word)) /\ packet \in Seq(Word) /\ moved' = Append(moved, packet)
    BY <1>1
  <2> QED BY ONLY <2>1, AppendProperties
<1>8. Pipe!Ends(moved') <=>
         \/ total + Len(words) = call.size
         \/ Len(packet) < PacketSize /\ (total + Len(words) # Pipe!Seam \/ packet = << >>)
  BY <1>6, <1>7 DEF Pipe!Ends
<1>9. SubSeq(moved', 1, Len(moved')) = moved'
  <2>1. << >> \in Seq(Seq(Word))
    BY EmptySeq
  <2>2. SubSeq(moved' \o << >>, 1, Len(moved')) = moved'
    BY <1>1, <2>1, FrontLemma
  <2>3. moved' \o << >> = moved'
    BY <1>1, ConcatEmptySeq
  <2> QED BY <2>2, <2>3
<1>10. ASSUME NEW n \in 1 .. Len(moved') - 1
       PROVE  ~Pipe!Ends(SubSeq(moved', 1, n))
  <2>1. n \in 1 .. Len(moved)
    BY <1>1, <1>7
  <2>2. SubSeq(moved', 1, n) = SubSeq(moved, 1, n)
    <3>1. \A i \in 1 .. n : moved'[i] = moved[i] /\ moved[i] \in Seq(Word)
      BY <1>1, <1>7, <2>1, ElementOfSeq
    <3> QED BY <1>1, <2>1, <3>1, SubSeqProperties, SeqEqual
  <2> QED BY <1>4, <2>1, <2>2
<1> QED BY <1>2, <1>5, <1>6, <1>7, <1>8, <1>9, <1>10 DEF old

\* A packet more of a read that goes on does not show.
LEMMA GoesOnLemma ==
    ASSUME ProgramInv, reading, reading', Arrives, UNCHANGED <<initialized, call, result>>
    PROVE  UNCHANGED <<initialized, untaken, busy, call, result, received>>
<1>1. busy /\ busy' /\ step # "returned" /\ step' # "returned"
  BY DEF busy, reading, Transferring
<1>2. busy' = busy
  BY <1>1 DEF busy, Transferring
<1>3. untaken' = untaken
  BY OnceTakenLemma
<1>4. received' = received
  BY <1>1 DEF received
<1> QED BY <1>2, <1>3, <1>4

\* A read returns after a mishap.
LEMMA BrokenLemma ==
    ASSUME ProgramInv, reading, ~Transferring', Arrives, UNCHANGED <<initialized, call>>,
           ~whole', result' \in -1 .. call.size
    PROVE  Pipe!Broken
<1>1. Pipe!End
  BY DEF Pipe!End, busy, reading
<1>2. ~reading'
  BY DEF reading
<1>3. /\ Len(moved') \in 0 .. Len(untaken[call.ep])
      /\ untaken' = [untaken EXCEPT ![call.ep] = Pipe!Drop(@, Len(moved'))]
  BY <1>2, OnceTakenLemma, TakesLemma
<1> QED BY <1>1, <1>3 DEF Pipe!Broken

\* What is known of a chunk that is posted to be read.
LEMMA PostedLemma ==
    ASSUME ProgramInv, PipeInv, step = "posted", call.dir = "read"
    PROVE  /\ reading /\ Transferring /\ call.into \in DOMAIN BufferSize
           /\ total \in Nat /\ posted \in Nat /\ call.size \in Nat /\ Len(urb) \in Nat
           /\ Pipe!Seam \in 1 .. call.size
           /\ Len(memory[call.into]) = call.size
           /\ total + posted <= call.size /\ Len(urb) < posted /\ total < call.size
           /\ \/ total = 0 /\ posted = Pipe!Seam
              \/ total = Pipe!Seam /\ posted = call.size - total
<1>1. Transferring /\ reading /\ Under
  BY DEF Transferring, reading, Under
<1>2. call.into \in DOMAIN BufferSize /\ call.size = BufferSize[call.into]
  BY <1>1 DEF ProgramInv, ChunkFits, TypeOK, TransferOK, CallType
<1>3. total + posted <= call.size /\ Len(urb) < posted /\ total < call.size
  BY DEF ProgramInv, ChunkFits
<1>4. Pipe!Seam \in 1 .. call.size
  BY <1>1, SeamLemma
<1>5. \/ total = 0 /\ posted = Pipe!Seam
      \/ total = Pipe!Seam /\ posted = call.size - total
  BY <1>1, <1>4, UsbTypes DEF PipeInv, TwoChunks
<1> QED BY <1>1, <1>2, <1>3, <1>4, <1>5, UsbTypes

\* A packet of the host arrives.
LEMMA PipeReceive ==
    ASSUME ProgramInv, PipeInv, ReceivePacket, UNCHANGED <<interfaces, setup, index, program>>
    PROVE  PipeInv' /\ [Pipe!Next]_Pipe!vars
<1> DEFINE words == urb \o packet
<1>1. /\ step = "posted" /\ call.dir = "read" /\ configured /\ Arrives
      /\ UNCHANGED <<initialized, configured, call, posted>>
  BY DEF ReceivePacket, interfaces
<1>2. /\ reading /\ Transferring /\ call.into \in DOMAIN BufferSize
      /\ total \in Nat /\ posted \in Nat /\ call.size \in Nat /\ Len(urb) \in Nat
      /\ Pipe!Seam \in 1 .. call.size
      /\ Len(memory[call.into]) = call.size
      /\ total + posted <= call.size /\ Len(urb) < posted /\ total < call.size
      /\ \/ total = 0 /\ posted = Pipe!Seam
         \/ total = Pipe!Seam /\ posted = call.size - total
  BY <1>1, PostedLemma
<1>3. /\ packet \in Seq(Word) /\ words \in Seq(Word)
      /\ Len(words) \in Nat /\ Len(packet) \in Nat /\ Len(words) = Len(urb) + Len(packet)
  <2>1. packet \in Seq(Word) /\ urb \in Seq(Word)
    BY <1>1, OnceTakenLemma, UsbTypes
  <2> QED BY <2>1, ConcatProperties, LenProperties
<1>4. PacketSize \in Nat \ {0} /\ whole \in BOOLEAN
  BY UsbAssumption, UsbTypes
<1>5. /\ (Pipe!Seam)' = Pipe!Seam
      /\ \A packets : (Pipe!Ends(packets))' <=> Pipe!Ends(packets)
  BY <1>1, SameCall
<1> HIDE DEF words
<1>6. CASE Len(words) > posted
  <2>1. /\ whole' = FALSE
        /\ Completed(posted) \/ (step' = "failed" /\ UNCHANGED <<total, urb, result>>)
    BY <1>6 DEF ReceivePacket, words
  <2>2. /\ FreshTry' /\ OnlyReadsFail' /\ ReadSoFar' /\ WrittenSoFar'
    <3>1. step' # "wait"
      BY <2>1 DEF Completed, Return
    <3> QED BY <1>1, <2>1, <3>1 DEF FreshTry, OnlyReadsFail, ReadSoFar, WrittenSoFar
  <2>3. TwoChunks'
    <3>1. CASE step' = "post"
      <4>1. total' = total + posted /\ total' # call.size
        BY <2>1, <3>1 DEF Completed, Return
      <4>2. total' = Pipe!Seam
        BY <1>2, <4>1
      <4> QED BY <1>5, <3>1, <4>2 DEF TwoChunks
    <3>2. CASE step' # "post"
      <4>1. ~Under'
        BY <2>1, <3>2 DEF Completed, Return, Under
      <4> QED BY <4>1 DEF TwoChunks
    <3> QED BY <3>1, <3>2
  <2>4. PipeInv'
    BY <2>2, <2>3 DEF PipeInv
  <2>5. CASE step' \in {"post", "failed"}
    <3>1. reading' /\ result' = result
      BY <1>1, <2>1, <2>5 DEF reading, Transferring, Completed, Return
    <3>2. UNCHANGED <<initialized, untaken, busy, call, result, received>> /\ busy
      BY <1>1, <1>2, <3>1, GoesOnLemma DEF busy
    <3>3. whole => Pipe!Mishap
      BY <2>1, <3>2 DEF Pipe!Mishap
    <3>4. ~whole => UNCHANGED Pipe!vars
      BY <1>4, <2>1, <3>2 DEF Pipe!vars
    <3> QED BY <2>4, <3>3, <3>4 DEF Pipe!Next
  <2>6. CASE step' = "returned"
    <3>1. total' = total + posted /\ result' = total'
      BY <2>1, <2>6 DEF Completed, Return
    <3>2. result' \in -1 .. call.size
      BY <1>2, <3>1
    <3>3. ~Transferring'
      BY <2>6 DEF Transferring
    <3>4. Pipe!Broken
      BY <1>1, <1>2, <2>1, <3>2, <3>3, BrokenLemma
    <3> QED BY <2>4, <3>4 DEF Pipe!Next
  <2> QED BY <2>1, <2>5, <2>6 DEF Completed, Return
<1>7. CASE Len(words) <= posted /\ (Len(words) = posted \/ Len(packet) < PacketSize)
  <2>0. ~(Len(words) > posted)
    BY <1>2, <1>3, <1>7
  <2>1. whole' = whole /\ Store(words, TRUE) /\ Completed(Len(words))
    BY <1>7, <2>0 DEF ReceivePacket, words
  <2>2. total' = total + Len(words) /\ total' \in 0 .. call.size /\ urb' = << >>
    BY <1>2, <1>3, <1>7, <2>1 DEF Completed
  <2>3. whole => SubSeq(memory'[call.into], 1, total') = Pipe!FlattenSeq(moved')
    <3>1. total + Len(words) <= Len(memory[call.into])
      BY <1>2, <2>2
    <3>2. SubSeq(memory'[call.into], 1, total') = SubSeq(memory[call.into], 1, total) \o words
      BY <1>2, <1>3, <1>7, <2>1, <2>2, <3>1, FilledToLemma
    <3> QED BY <1>1, <3>2, OneMoreLemma DEF words
  <2>4. CASE step' = "returned"
    <3>1. result' = total' /\ (Len(words) < posted \/ total' = call.size) /\ ~Transferring'
      BY <2>1, <2>4 DEF Completed, Return, Transferring
    <3>2. PipeInv'
      <4>1. step' # "wait" /\ step' # "failed" /\ ~Under'
        BY <2>4 DEF Under
      <4> QED BY <3>1, <4>1 DEF PipeInv, FreshTry, OnlyReadsFail, TwoChunks, ReadSoFar, WrittenSoFar
    <3>3. CASE ~whole
      <4>1. ~whole' /\ result' \in -1 .. call.size
        BY <2>1, <2>2, <3>1, <3>3
      <4>2. Pipe!Broken
        BY <1>1, <1>2, <3>1, <4>1, BrokenLemma
      <4> QED BY <3>2, <4>2 DEF Pipe!Next
    <3>4. CASE whole
      <4>1. Pipe!Ends(moved')
        <5>1. Pipe!Ends(moved') <=>
                 \/ total + Len(words) = call.size
                 \/ Len(packet) < PacketSize /\ (total + Len(words) # Pipe!Seam \/ packet = << >>)
          BY <1>1, <3>4, OneMoreLemma DEF words
        <5>2. CASE total' = call.size
          BY <2>2, <5>1, <5>2
        <5>3. CASE Len(words) < posted
          <6>1. Len(packet) < PacketSize
            BY <1>2, <1>3, <1>7, <5>3
          <6>2. total + Len(words) # Pipe!Seam \/ Len(packet) = 0
            BY <1>2, <1>3, <5>3
          <6>3. Len(packet) = 0 => packet = << >>
            BY <1>3, EmptySeq
          <6> QED BY <5>1, <6>1, <6>2, <6>3
        <5> QED BY <3>1, <5>2, <5>3
      <4>2. /\ Len(Pipe!FlattenSeq(moved')) = total' /\ Pipe!FlattenSeq(moved') \in Seq(Word)
            /\ \A n \in 1 .. Len(moved') - 1 : ~Pipe!Ends(SubSeq(moved', 1, n))
        <5>1. moved' \in Seq(Seq(Word))
          BY <1>1, OnceTakenLemma
        <5> QED BY <1>1, <2>2, <3>4, <5>1, OneMoreLemma, FlattenType DEF words
      <4>3. Pipe!Transfer(moved')
        BY <4>1, <4>2 DEF Pipe!Transfer
      <4>4. received' = Pipe!FlattenSeq(moved')
        <5>1. received' = IF total' > 0 THEN SubSeq(memory'[call.into], 1, total') ELSE << >>
          BY <1>1, <2>4, <3>1 DEF received
        <5>2. total' = 0 => Pipe!FlattenSeq(moved') = << >>
          BY <4>2, EmptySeq
        <5> QED BY <2>2, <2>3, <3>4, <5>1, <5>2
      <4>5. ~reading'
        BY <3>1 DEF reading
      <4>6. /\ Len(moved') \in 0 .. Len(untaken[call.ep])
            /\ SubSeq(untaken[call.ep], 1, Len(moved')) = moved'
            /\ untaken' = [untaken EXCEPT ![call.ep] = Pipe!Drop(@, Len(moved'))]
        BY <1>1, <1>2, <4>5, OnceTakenLemma, TakesLemma
      <4>7. Pipe!End
        BY <1>1, <1>2, <3>1 DEF Pipe!End, busy
      <4>8. result' = Len(received')
        BY <3>1, <4>2, <4>4
      <4>9. Pipe!ReadDone
        BY <1>1, <2>1, <3>4, <4>3, <4>4, <4>6, <4>7, <4>8 DEF Pipe!ReadDone
      <4> QED BY <3>2, <4>9 DEF Pipe!Next
    <3> QED BY <3>3, <3>4
  <2>5. CASE step' = "post"
    <3>1. Len(words) = posted /\ total' # call.size /\ result' = result
      BY <1>2, <1>3, <1>7, <2>1, <2>5 DEF Completed, Return
    <3>2. total' = Pipe!Seam
      BY <1>2, <2>2, <3>1
    <3>3. FreshTry' /\ OnlyReadsFail' /\ WrittenSoFar'
      BY <1>1, <2>5 DEF FreshTry, OnlyReadsFail, WrittenSoFar
    <3>4. TwoChunks'
      BY <1>5, <2>5, <3>2 DEF TwoChunks
    <3>5. ReadSoFar'
      <4> SUFFICES ASSUME whole
                   PROVE  /\ Pipe!FlattenSeq(moved') = SubSeq(memory'[call.into], 1, total') \o << >>
                          /\ \A n \in 1 .. Len(moved') : ~Pipe!Ends(SubSeq(moved', 1, n))
        BY <1>1, <1>5, <2>1, <2>5 DEF ReadSoFar
      <4>1. Pipe!FlattenSeq(moved') \in Seq(Word) /\ moved' \in Seq(Seq(Word))
        BY <1>1, OnceTakenLemma, FlattenType
      <4>2. SubSeq(memory'[call.into], 1, total') \o << >> = Pipe!FlattenSeq(moved')
        BY <2>3, <4>1, ConcatEmptySeq
      <4>3. /\ Len(moved') = Len(moved) + 1 /\ SubSeq(moved', 1, Len(moved')) = moved'
            /\ \A n \in 1 .. Len(moved') - 1 : ~Pipe!Ends(SubSeq(moved', 1, n))
            /\ Pipe!Ends(moved') <=>
                  \/ total + Len(words) = call.size
                  \/ Len(packet) < PacketSize /\ (total + Len(words) # Pipe!Seam \/ packet = << >>)
        BY <1>1, OneMoreLemma DEF words
      <4>4. packet # << >>
        BY <1>2, <1>3, <3>1, EmptySeq
      <4>5. ~Pipe!Ends(moved')
        BY <2>2, <3>1, <3>2, <4>3, <4>4
      <4>6. Len(moved) \in Nat
        BY UsbTypes
      <4>7. \A n \in 1 .. Len(moved') : n \in 1 .. Len(moved') - 1 \/ n = Len(moved')
        BY <4>3, <4>6
      <4> QED BY <4>2, <4>3, <4>5, <4>7
    <3>6. reading'
      BY <1>1, <2>5 DEF reading, Transferring
    <3>7. UNCHANGED Pipe!vars
      BY <1>1, <1>2, <2>1, <3>1, <3>6, GoesOnLemma DEF Pipe!vars
    <3> QED BY <3>3, <3>4, <3>5, <3>7 DEF PipeInv
  <2> QED BY <2>1, <2>4, <2>5 DEF Completed, Return
<1>8. CASE Len(words) < posted /\ ~(Len(packet) < PacketSize)
  <2>0. ~(Len(words) > posted) /\ ~(Len(words) = posted \/ Len(packet) < PacketSize)
    BY <1>2, <1>3, <1>8
  <2>1. whole' = whole /\ Store(words, FALSE) /\ urb' = words /\ UNCHANGED <<step, total, result>>
    BY <2>0 DEF ReceivePacket, words, More
  <2>2. FreshTry' /\ OnlyReadsFail' /\ WrittenSoFar'
    BY <1>1, <2>1 DEF FreshTry, OnlyReadsFail, WrittenSoFar
  <2>3. TwoChunks'
    BY <1>1, <1>5, <2>1 DEF PipeInv, TwoChunks, Under
  <2>4. ReadSoFar'
    <3> SUFFICES ASSUME whole
                 PROVE  /\ Pipe!FlattenSeq(moved') = SubSeq(memory'[call.into], 1, total) \o words
                        /\ \A n \in 1 .. Len(moved') : ~Pipe!Ends(SubSeq(moved', 1, n))
      BY <1>1, <1>5, <2>1 DEF ReadSoFar
    <3>1. SubSeq(memory'[call.into], 1, total) = SubSeq(memory[call.into], 1, total)
      <4>1. total + Len(words) <= Len(memory[call.into]) /\ Len(words) <= posted
        BY <1>2, <1>3, <1>8
      <4> QED BY <1>2, <1>3, <2>1, <4>1, FilledToLemma
    <3>2. /\ Pipe!FlattenSeq(moved') = SubSeq(memory[call.into], 1, total) \o words
          /\ Len(moved') = Len(moved) + 1 /\ SubSeq(moved', 1, Len(moved')) = moved'
          /\ \A n \in 1 .. Len(moved') - 1 : ~Pipe!Ends(SubSeq(moved', 1, n))
          /\ Pipe!Ends(moved') <=>
                \/ total + Len(words) = call.size
                \/ Len(packet) < PacketSize /\ (total + Len(words) # Pipe!Seam \/ packet = << >>)
      BY <1>1, OneMoreLemma DEF words
    <3>3. ~Pipe!Ends(moved')
      BY <1>2, <1>3, <1>8, <3>2
    <3>4. Len(moved) \in Nat
      BY UsbTypes
    <3>5. \A n \in 1 .. Len(moved') : n \in 1 .. Len(moved') - 1 \/ n = Len(moved')
      BY <3>2, <3>4
    <3> QED BY <3>1, <3>2, <3>3, <3>5
  <2>5. reading'
    BY <1>1, <2>1 DEF reading, Transferring
  <2>6. UNCHANGED Pipe!vars
    BY <1>1, <1>2, <2>1, <2>5, GoesOnLemma DEF Pipe!vars
  <2> QED BY <2>2, <2>3, <2>4, <2>6 DEF PipeInv
<1> QED BY <1>2, <1>3, <1>6, <1>7, <1>8

\* A read gives up, and may lose a packet.
LEMMA PipeTimedOut ==
    ASSUME ProgramInv, PipeInv, TimedOut, UNCHANGED <<interfaces, setup, index, program>>
    PROVE  PipeInv' /\ [Pipe!Next]_Pipe!vars
<1> USE DEF TimedOut, interfaces, chunk
<1>1. Transferring /\ Transferring' /\ call.dir = "read" /\ call' = call
  <2>1. Transferring /\ Transferring'
    BY DEF Transferring
  <2>2. call.dir \in {"read", "write"}
    BY UsbTypes
  <2> QED BY <2>1, <2>2 DEF ProgramInv, ChunkFits
<1>2. PipeInv'
  <2>1. ~Under' /\ step' # "wait" /\ configured'
    BY DEF Under
  <2> QED BY <1>1, <2>1 DEF PipeInv, FreshTry, OnlyReadsFail, TwoChunks, ReadSoFar, WrittenSoFar
<1>3. CASE UNCHANGED <<pipe, moved, memory>>
  BY <1>1, <1>2, <1>3, UnseenLemma DEF Pipe!vars
<1>4. CASE Arrives
  <2>1. reading /\ reading'
    BY <1>1 DEF reading
  <2> QED BY <1>2, <1>4, <2>1, GoesOnLemma DEF Pipe!vars
<1> QED BY <1>3, <1>4

-----------------------------------------------------------------------------
(* A write.                                                                *)

\* A transfer in packets is a sequence of sequences of words, and an empty one
\* has none.
LEMMA PacketsType ==
    ASSUME NEW d \in Seq(Word)
    PROVE  /\ Pipe!Cut(d) \in Seq(Seq(Word)) /\ Len(Pipe!Cut(d)) \in Nat
           /\ Len(d) = 0 => Len(Pipe!Cut(d)) = 0
<1> DEFINE c == Pipe!Cut(d)
           n == Len(c)
<1>1. n \in Nat /\ PacketSize \in Nat \ {0} /\ Len(d) \in Nat
  <2>1. 0 \in Nat
    OBVIOUS
  <2> QED BY <2>1, PacketLemma, UsbAssumption, LenProperties
<1>2. ASSUME NEW i \in 1 .. n
      PROVE  c[i] \in Seq(Word)
  <2> DEFINE k == i - 1
             a == k * PacketSize + 1
             b == Lesser((k + 1) * PacketSize, Len(d))
  <2>1. k \in Nat /\ k < n /\ k + 1 = i
    BY <1>1
  <2> HIDE DEF k
  <2>2. c[k + 1] = SubSeq(d, a, b)
    BY <2>1, PacketLemma
  <2>3. a \in Nat \ {0} /\ b \in Nat /\ b <= Len(d)
    BY <1>1, <2>1 DEF Lesser
  <2> HIDE DEF a, b
  <2>4. \A j \in a .. b : d[j] \in Word
    BY <1>1, <2>3, ElementOfSeq
  <2>5. SubSeq(d, a, b) \in Seq(Word)
    BY <2>3, <2>4, SubSeqProperties
  <2> QED BY <2>1, <2>2, <2>5
<1>3. c = [i \in 1 .. n |-> c[i]]
  <2> DEFINE l == (Len(d) + PacketSize - 1) \div PacketSize
             part(i) == SubSeq(d, (i - 1) * PacketSize + 1,
                               IF i * PacketSize < Len(d) THEN i * PacketSize ELSE Len(d))
  <2>1. c = [i \in 1 .. l |-> part(i)]
    BY DEF Pipe!Cut
  <2>2. l \in Nat
    BY <1>1, CountLemma
  <2> HIDE DEF l, part, c
  <2>3. Len(c) = l
    BY <2>1, <2>2
  <2> QED BY <2>1, <2>3
<1>4. Len(d) = 0 => n = 0
  <2>1. Len(d) = 0 => ~(0 * PacketSize < Len(d)) /\ 0 \in Nat
    BY <1>1
  <2>2. Len(d) = 0 => ~(0 < n)
    BY <2>1, PacketLemma
  <2> QED BY <1>1, <2>2
<1> HIDE DEF c
<1>5. c \in Seq(Seq(Word))
  BY <1>1, <1>2, <1>3 DEF n
<1> QED BY <1>1, <1>4, <1>5 DEF c

\* The first packets and the next.
LEMMA NextPacketLemma ==
    ASSUME NEW S, NEW p \in Seq(S), NEW n \in Nat, n < Len(p)
    PROVE  Append(SubSeq(p, 1, n), p[n + 1]) = SubSeq(p, 1, n + 1) /\ Len(SubSeq(p, 1, n)) = n
<1> DEFINE a == SubSeq(p, 1, n)
           b == SubSeq(p, 1, n + 1)
<1>1. \A i \in 1 .. n + 1 : p[i] \in S
  BY ElementOfSeq, LenProperties
<1>2. a \in Seq(S) /\ Len(a) = n /\ \A i \in 1 .. n : a[i] = p[i]
  BY <1>1, SubSeqProperties
<1>3. b \in Seq(S) /\ Len(b) = n + 1 /\ \A i \in 1 .. n + 1 : b[i] = p[i]
  BY <1>1, SubSeqProperties
<1> HIDE DEF a, b
<1>4. p[n + 1] \in S
  BY <1>1
<1>5. /\ Append(a, p[n + 1]) \in Seq(S) /\ Len(Append(a, p[n + 1])) = n + 1
      /\ \A i \in 1 .. n : Append(a, p[n + 1])[i] = a[i]
      /\ Append(a, p[n + 1])[n + 1] = p[n + 1]
  BY <1>2, <1>4, AppendProperties
<1>6. \A i \in 1 .. n + 1 : Append(a, p[n + 1])[i] = b[i]
  BY <1>2, <1>3, <1>5
<1>7. Append(a, p[n + 1]) = b
  BY <1>3, <1>5, <1>6, SeqEqual
<1> QED BY <1>2, <1>7 DEF a, b

\* What SendPacket gives is the next packet, and the last of a chunk ends it.
LEMMA NextWriteLemma ==
    ASSUME ProgramInv, PipeInv, step = "posted", whole, call.dir = "write",
           NEW words, words = SubSeq(call.data, total + 1, total + Lesser(posted, Len(urb) + PacketSize)),
           NEW part, part = SubSeq(words, Len(urb) + 1, Len(words))
    PROVE  LET packets == Pipe!Packets(call.data)
               more    == Append(moved, part)
           IN  /\ Len(moved) \in Nat /\ before \in Nat /\ Len(more) = Len(moved) + 1
               /\ more = SubSeq(packets, 1, Len(more)) /\ Len(moved) >= before
               /\ Len(words) # posted => Len(words) = (Len(more) - before) * PacketSize
               /\ Len(words) = posted /\ total + posted # call.size =>
                     total = 0 /\ Len(more) = Len(Pipe!Cut(SubSeq(call.data, 1, Pipe!Seam)))
               /\ Len(words) = posted /\ total + posted = call.size => Len(more) = Len(packets)
<1> DEFINE data == call.data
           seam == Pipe!Seam
           d1 == SubSeq(data, 1, seam)
           d2 == SubSeq(data, seam + 1, Len(data))
           c1 == Pipe!Cut(d1)
           c2 == Pipe!Cut(d2)
           packets == Pipe!Packets(call.data)
           k == Len(moved) - before
<1>1. Transferring /\ Under
  BY DEF Transferring, Under
<1>2. /\ data \in Seq(Word) /\ call.size = Len(data) /\ Len(data) \in Nat /\ seam \in 1 .. Len(data)
      /\ total \in Nat /\ posted \in Nat /\ Len(urb) \in Nat /\ Len(urb) < posted
      /\ total + posted <= Len(data) /\ total < Len(data) /\ PacketSize \in Nat \ {0}
      /\ Len(moved) \in Nat
  BY <1>1, SeamLemma, UsbTypes, UsbAssumption DEF ProgramInv, ChunkFits
<1>3. /\ \/ total = 0 /\ posted = seam
         \/ total = seam /\ posted = Len(data) - seam
      /\ total = 0 \/ total = seam
  BY <1>1, <1>2 DEF PipeInv, TwoChunks
<1>4. /\ moved = SubSeq(packets, 1, Len(moved)) /\ Len(moved) >= before
      /\ Len(urb) = k * PacketSize
      /\ before = IF total = 0 THEN 0 ELSE Len(c1)
  BY <1>1 DEF PipeInv, WrittenSoFar, before
<1> HIDE DEF data, seam
<1>5. d1 \in Seq(Word) /\ d2 \in Seq(Word) /\ Len(d1) = seam /\ Len(d2) = Len(data) - seam
  <2>1. \A i \in 1 .. Len(data) : data[i] \in Word
    BY <1>2, ElementOfSeq
  <2>2. d1 \in Seq(Word) /\ Len(d1) = seam
    BY <1>2, <2>1, SubSeqProperties
  <2>3. (\A i \in seam + 1 .. Len(data) : data[i] \in Word) /\ seam + 1 \in Int /\ Len(data) \in Int
    BY <1>2, <2>1
  <2>4. d2 \in Seq(Word) /\ Len(d2) = IF seam + 1 <= Len(data) THEN Len(data) - (seam + 1) + 1 ELSE 0
    BY <2>3, SubSeqProperties
  <2> QED BY <1>2, <2>2, <2>4
<1>6. /\ c1 \in Seq(Seq(Word)) /\ c2 \in Seq(Seq(Word)) /\ Len(c1) \in Nat /\ Len(c2) \in Nat
      /\ seam = Len(data) => Len(c2) = 0
  <2> HIDE DEF d1, d2
  <2> QED BY <1>2, <1>5, PacketsType
<1>7. packets = c1 \o c2
  BY DEF Pipe!Packets, data, seam
<1> HIDE DEF c1, c2, packets
<1>8. /\ packets \in Seq(Seq(Word)) /\ Len(packets) = Len(c1) + Len(c2)
      /\ \A i \in 1 .. Len(c1) + Len(c2) :
            packets[i] = IF i <= Len(c1) THEN c1[i] ELSE c2[i - Len(c1)]
  BY <1>6, <1>7, ConcatProperties
<1>9. before \in Nat /\ k \in Nat /\ Len(moved) = before + k
  BY <1>2, <1>4, <1>6
<1> HIDE DEF k
<1>10. k * PacketSize < posted /\ posted \in Nat \ {0}
       /\ words = SubSeq(data, total + 1, total + Lesser(posted, k * PacketSize + PacketSize))
       /\ part = SubSeq(words, k * PacketSize + 1, Len(words))
  BY <1>2, <1>4 DEF data
<1> DEFINE chunkof == Pipe!Cut(SubSeq(data, total + 1, total + posted))
<1>11. /\ Len(chunkof) \in Nat /\ k < Len(chunkof)
       /\ chunkof[k + 1] = part
       /\ Len(words) = posted => Len(chunkof) = k + 1
       /\ Len(words) # posted => Len(words) = (k + 1) * PacketSize
  <2>1. /\ data \in Seq(Word) /\ total \in Nat /\ total + posted <= Len(data)
        /\ chunkof = Pipe!Cut(SubSeq(data, total + 1, total + posted))
    BY <1>2
  <2> HIDE DEF chunkof
  <2>2. data \in Seq(Word) /\ total \in Nat /\ posted \in Nat \ {0} /\ k \in Nat
    BY <2>1, <1>9, <1>10
  <2>3. total + posted <= Len(data) /\ k * PacketSize < posted
    BY <2>1, <1>10
  <2>4. GivesPart(data, total, posted, k)
    BY ONLY <2>2, <2>3, PartLemma
  <2> QED BY <2>1, <2>4, <1>10 DEF GivesPart
<1>12. chunkof = IF total = 0 THEN c1 ELSE c2
  <2>1. CASE total = 0
    <3>1. total + 1 = 1 /\ total + posted = seam
      BY <1>2, <1>3, <2>1
    <3> QED BY <2>1, <3>1 DEF c1
  <2>2. CASE total # 0
    <3>1. total + 1 = seam + 1 /\ total + posted = Len(data)
      BY <1>2, <1>3, <2>2
    <3> QED BY <2>2, <3>1 DEF c2
  <2> QED BY <2>1, <2>2
<1> HIDE DEF chunkof
<1>13. Len(moved) < Len(packets) /\ packets[Len(moved) + 1] = part
  <2> DEFINE n == Len(moved) + 1
  <2>1. CASE total = 0
    <3>1. n \in 1 .. Len(c1) + Len(c2) /\ n <= Len(c1) /\ n = k + 1
      BY <1>4, <1>6, <1>9, <1>11, <1>12, <2>1
    <3> HIDE DEF n
    <3>2. packets[n] = c1[k + 1]
      BY <1>8, <3>1
    <3>3. packets[n] = part /\ n \in 1 .. Len(packets)
      BY <1>8, <1>11, <1>12, <2>1, <3>1, <3>2
    <3> QED BY <1>2, <1>6, <1>8, <3>3 DEF n
  <2>2. CASE total # 0
    <3>1. n \in 1 .. Len(c1) + Len(c2) /\ ~(n <= Len(c1)) /\ n - Len(c1) = k + 1
      BY <1>4, <1>6, <1>9, <1>11, <1>12, <2>2
    <3> HIDE DEF n
    <3>2. packets[n] = c2[k + 1]
      BY <1>8, <3>1
    <3>3. packets[n] = part /\ n \in 1 .. Len(packets)
      BY <1>8, <1>11, <1>12, <2>2, <3>1, <3>2
    <3> QED BY <1>2, <1>6, <1>8, <3>3 DEF n
  <2> QED BY <2>1, <2>2
<1> DEFINE more == Append(moved, part)
<1>14. more = SubSeq(packets, 1, Len(moved) + 1)
  BY <1>2, <1>4, <1>8, <1>13, NextPacketLemma
<1>15. Len(more) = Len(moved) + 1
  <2>1. moved \in Seq(Seq(Word))
    BY UsbTypes
  <2> QED BY <2>1
<1> HIDE DEF more
<1>16. Len(words) # posted => Len(words) = (Len(more) - before) * PacketSize
  <2>1. Len(more) - before = k + 1
    BY <1>9, <1>15
  <2> QED BY <1>11, <2>1
<1>17. Len(words) = posted /\ total + posted # Len(data) => total = 0 /\ Len(more) = Len(c1)
  <2> SUFFICES ASSUME Len(words) = posted, total + posted # Len(data)
               PROVE  total = 0 /\ Len(more) = Len(c1)
    OBVIOUS
  <2>1. total = 0
    BY <1>2, <1>3
  <2>2. Len(c1) = k + 1 /\ before = 0
    BY <1>4, <1>11, <1>12, <2>1
  <2> QED BY <1>9, <1>15, <2>1, <2>2
<1>18. Len(words) = posted /\ total + posted = Len(data) => Len(more) = Len(packets)
  <2> SUFFICES ASSUME Len(words) = posted, total + posted = Len(data)
               PROVE  Len(more) = Len(packets)
    OBVIOUS
  <2>1. CASE total = 0
    <3>1. seam = Len(data)
      BY <1>2, <1>3, <2>1
    <3>2. Len(c1) = k + 1 /\ before = 0 /\ Len(c2) = 0
      BY <1>4, <1>6, <1>11, <1>12, <2>1, <3>1
    <3> QED BY <1>6, <1>8, <1>9, <1>15, <3>2
  <2>2. CASE total # 0
    <3>1. Len(c2) = k + 1 /\ before = Len(c1)
      BY <1>4, <1>11, <1>12, <2>2
    <3> QED BY <1>6, <1>8, <1>9, <1>15, <3>1
  <2> QED BY <2>1, <2>2
<1> QED BY <1>2, <1>4, <1>9, <1>14, <1>15, <1>16, <1>17, <1>18 DEF more, packets, data, seam, c1

\* The host takes a packet.
LEMMA PipeSend ==
    ASSUME ProgramInv, PipeInv, SendPacket, UNCHANGED <<interfaces, setup, index, program>>
    PROVE  PipeInv' /\ [Pipe!Next]_Pipe!vars
<1> DEFINE words == SubSeq(call.data, total + 1, total + Lesser(posted, Len(urb) + PacketSize))
           part  == SubSeq(words, Len(urb) + 1, Len(words))
<1>1. /\ step = "posted" /\ call.dir = "write" /\ configured
      /\ UNCHANGED <<initialized, configured, pipe, memory, call, posted, whole>>
      /\ moved' = Append(moved, part)
      /\ IF Len(words) = posted THEN Completed(posted) ELSE More(words)
  BY DEF SendPacket, interfaces
<1> HIDE DEF words, part
<1>2. /\ Transferring /\ busy /\ ~reading /\ ~reading' /\ Under
      /\ total \in Nat /\ posted \in Nat /\ call.size \in Nat /\ total + posted <= call.size
      /\ whole \in BOOLEAN
  BY <1>1, UsbTypes DEF Transferring, busy, reading, Under, ProgramInv, ChunkFits
<1>3. step' \in {"posted", "post", "returned"} /\ step' # "wait" /\ step' # "failed"
  BY <1>1 DEF Completed, Return, More
<1>4. FreshTry' /\ OnlyReadsFail' /\ ReadSoFar'
  BY <1>1, <1>3 DEF FreshTry, OnlyReadsFail, ReadSoFar
<1>5. /\ (Pipe!Seam)' = Pipe!Seam
      /\ (Pipe!Packets(call.data))' = Pipe!Packets(call.data)
      /\ Pipe!Seam \in 1 .. call.size
  BY <1>1, <1>2, SameCall, SeamLemma
<1>6. untaken' = untaken /\ untaken' = [untaken EXCEPT ![call.ep] = Pipe!Drop(@, 0)]
      /\ 0 \in 0 .. Len(untaken[call.ep])
  BY <1>1, <1>2, LeavesLemma
<1>7. TwoChunks'
  <2>1. CASE step' = "posted"
    BY <1>1, <1>2, <1>5, <2>1 DEF PipeInv, TwoChunks, Completed, Return, More
  <2>2. CASE step' = "post"
    <3>1. total' = total + posted /\ total' # call.size
      BY <1>1, <2>2 DEF Completed, Return, More
    <3>2. total' = Pipe!Seam
      BY <1>1, <1>2, <1>5, <3>1 DEF PipeInv, TwoChunks
    <3> QED BY <1>5, <2>2, <3>2 DEF TwoChunks
  <2>3. CASE step' = "returned"
    BY <2>3 DEF TwoChunks, Under
  <2> QED BY <1>3, <2>1, <2>2, <2>3
<1>8. ASSUME whole
      PROVE  LET packets == Pipe!Packets(call.data)
             IN  /\ Len(moved) \in Nat /\ before \in Nat /\ Len(moved') = Len(moved) + 1
                 /\ moved' = SubSeq(packets, 1, Len(moved')) /\ Len(moved) >= before
                 /\ Len(words) # posted => Len(words) = (Len(moved') - before) * PacketSize
                 /\ Len(words) = posted /\ total + posted # call.size =>
                       total = 0 /\ Len(moved') = Len(Pipe!Cut(SubSeq(call.data, 1, Pipe!Seam)))
                 /\ Len(words) = posted /\ total + posted = call.size => Len(moved') = Len(packets)
  BY <1>1, <1>8, NextWriteLemma DEF words, part
<1>9. CASE step' = "posted"
  <2>1. urb' = words /\ UNCHANGED <<total, result>> /\ Len(words) # posted
    BY <1>1, <1>9 DEF Completed, Return, More
  <2>2. before' = before
    BY <1>1, <1>5, <2>1 DEF before
  <2>3. WrittenSoFar'
    BY <1>1, <1>5, <1>8, <1>9, <2>1, <2>2 DEF WrittenSoFar
  <2>4. busy' = busy /\ received' = received
    BY <1>1, <1>9 DEF busy, Transferring, received
  <2>5. UNCHANGED Pipe!vars
    BY <1>1, <1>6, <2>1, <2>4 DEF Pipe!vars
  <2> QED BY <1>4, <1>7, <2>3, <2>5 DEF PipeInv
<1>10. CASE step' = "post"
  <2>1. /\ Len(words) = posted /\ total' = total + posted /\ total' # call.size /\ result' = result
        /\ total' # 0
    <3>1. Len(words) = posted /\ total' = total + posted /\ total' # call.size /\ result' = result
      BY <1>1, <1>10 DEF Completed, Return, More
    <3>2. posted > 0
      BY <1>1, <1>2, UsbTypes DEF ProgramInv, ChunkFits
    <3> QED BY <1>2, <3>1, <3>2
  <2>2. before' = Len(Pipe!Cut(SubSeq(call.data, 1, Pipe!Seam)))
    <3>1. before' = Len((Pipe!Cut(SubSeq(call.data, 1, Pipe!Seam)))')
      BY <2>1 DEF before
    <3>2. (Pipe!Cut(SubSeq(call.data, 1, Pipe!Seam)))' = Pipe!Cut(SubSeq(call.data, 1, Pipe!Seam))
      BY <1>1, <1>5 DEF Pipe!Cut
    <3> QED BY <3>1, <3>2
  <2>3. WrittenSoFar'
    BY <1>1, <1>2, <1>5, <1>8, <1>10, <2>1, <2>2 DEF WrittenSoFar
  <2>4. busy' = busy /\ received' = received
    BY <1>1, <1>10 DEF busy, Transferring, received
  <2>5. UNCHANGED Pipe!vars
    BY <1>1, <1>6, <2>1, <2>4 DEF Pipe!vars
  <2> QED BY <1>4, <1>7, <2>3, <2>5 DEF PipeInv
<1>11. CASE step' = "returned"
  <2>1. /\ Len(words) = posted /\ total' = total + posted /\ total' = call.size /\ result' = call.size
    BY <1>1, <1>2, <1>11 DEF Completed, Return, More
  <2>2. PipeInv'
    BY <1>4, <1>7, <1>11 DEF PipeInv, WrittenSoFar, Under
  <2>3. Pipe!End
    BY <1>1, <1>2, <1>11 DEF Pipe!End, busy, Transferring
  <2>4. CASE whole
    <3>1. received' = moved'
      BY <1>1, <1>11 DEF received
    <3>2. /\ moved' = SubSeq(Pipe!Packets(call.data), 1, Len(Pipe!Packets(call.data)))
          /\ Len(Pipe!Packets(call.data)) \in Nat
      BY <1>2, <1>8, <2>1, <2>4
    <3>3. Pipe!WriteDone
      BY <1>1, <1>6, <2>1, <2>3, <2>4, <3>1, <3>2 DEF Pipe!WriteDone
    <3> QED BY <2>2, <3>3 DEF Pipe!Next
  <2>5. CASE ~whole
    <3>1. ~whole' /\ result' \in -1 .. call.size
      BY <1>1, <1>2, <2>1, <2>5
    <3>2. Pipe!Broken
      BY ONLY <1>6, <2>3, <3>1 DEF Pipe!Broken
    <3> QED BY <2>2, <3>2 DEF Pipe!Next
  <2> QED BY <2>4, <2>5
<1> QED BY <1>3, <1>9, <1>10, <1>11

-----------------------------------------------------------------------------
(* The other side.                                                         *)

\* A packet more stands behind those that were taken.
LEMMA BehindLemma ==
    ASSUME NEW m \in Seq(Seq(Word)), NEW q \in Seq(Seq(Word)), NEW p \in Seq(Word)
    PROVE  m \o Append(q, p) = Append(m \o q, p)
<1>1. Append(q, p) = q \o <<p>> /\ <<p>> \in Seq(Seq(Word))
  BY AppendIsConcat
<1>2. m \o q \in Seq(Seq(Word))
  BY ConcatProperties
<1>3. Append(m \o q, p) = (m \o q) \o <<p>>
  BY <1>2, AppendIsConcat
<1>4. (m \o q) \o <<p>> = m \o (q \o <<p>>)
  BY <1>1, ConcatAssociative
<1> QED BY <1>1, <1>3, <1>4

\* The host sends, also to a read that goes on.
LEMMA PipeHost ==
    ASSUME ProgramInv, PipeInv, UNCHANGED <<initialized, memory, transfer>>,
           NEW ep \in Endpoint, NEW p \in Seq(Word), HostSends(ep, p)
    PROVE  PipeInv' /\ [Pipe!Next]_Pipe!vars
<1> USE DEF HostSends, transfer, chunk, history
<1>1. PipeInv'
  BY KeptLemma
<1>2. /\ pipe \in [Endpoint -> Seq(Seq(Word))] /\ moved \in Seq(Seq(Word)) /\ call.ep \in Endpoint
      /\ pipe' = [pipe EXCEPT ![ep] = Append(@, p)]
  BY UsbTypes
<1>3. busy' = busy /\ reading' = reading /\ received' = received
  BY DEF busy, reading, Transferring, received
<1>4. untaken \in [Endpoint -> Seq(Seq(Word))]
  <2>1. moved \o pipe[call.ep] \in Seq(Seq(Word))
    BY <1>2, ConcatProperties
  <2> QED BY <1>2, <2>1 DEF untaken
<1>5. untaken' = [untaken EXCEPT ![ep] = Append(@, p)]
  <2>1. CASE reading
    <3>1. moved \o Append(pipe[call.ep], p) = Append(moved \o pipe[call.ep], p)
      <4>1. moved \in Seq(Seq(Word)) /\ pipe[call.ep] \in Seq(Seq(Word)) /\ p \in Seq(Word)
        BY <1>2
      <4> QED BY ONLY <4>1, BehindLemma
    <3>2. /\ untaken = [pipe EXCEPT ![call.ep] = moved \o @]
          /\ untaken' = [pipe' EXCEPT ![call.ep] = moved \o @]
      BY <1>3, <2>1 DEF untaken
    <3>3. CASE ep = call.ep
      BY <1>2, <3>1, <3>2, <3>3
    <3>4. CASE ep # call.ep
      BY <1>2, <3>2, <3>4
    <3> QED BY <3>3, <3>4
  <2>2. CASE ~reading
    BY <1>2, <1>3, <2>2 DEF untaken
  <2> QED BY <2>1, <2>2
<1>6. untaken'[ep] = Append(untaken[ep], p) /\ ep \in DOMAIN untaken
  BY <1>4, <1>5
<1>7. /\ Len(Append(untaken[ep], p)) = Len(untaken[ep]) + 1
      /\ Append(untaken[ep], p)[Len(untaken[ep]) + 1] = p
  BY <1>4, AppendProperties
<1>8. Pipe!HostSends
  <2>1. /\ Len(untaken'[ep]) = Len(untaken[ep]) + 1
        /\ untaken' = [untaken EXCEPT ![ep] = Append(@, untaken'[ep][Len(untaken'[ep])])]
    BY <1>5, <1>6, <1>7
  <2> QED BY <1>3, <1>6, <2>1 DEF Pipe!HostSends
<1> QED BY <1>1, <1>8 DEF Pipe!Next

\* The host goes: a try that goes on has had its mishap.
LEMMA PipeUnplug ==
    ASSUME ProgramInv, PipeInv, Unplug
    PROVE  PipeInv' /\ [Pipe!Next]_Pipe!vars
<1> USE DEF Unplug, interfaces, chunk, history
<1>1. /\ pipe \in [Endpoint -> Seq(Seq(Word))] /\ call.ep \in Endpoint /\ whole \in BOOLEAN
      /\ pipe' = [e \in Endpoint |-> << >>] /\ UNCHANGED <<initialized, memory, call, total, result>>
      /\ step' = IF step = "posted" THEN "failed" ELSE step
  BY UsbTypes
<1>2. Transferring' = Transferring /\ (step' = "returned" <=> step = "returned")
  BY <1>1 DEF Transferring
<1>3. Transferring => moved' = << >> /\ ~whole'
  OBVIOUS
<1>4. ~Transferring => moved' = moved /\ whole' = whole
  OBVIOUS
<1>5. PipeInv'
  <2>1. FreshTry' /\ OnlyReadsFail'
    <3>1. step' = "wait" \/ step' = "failed" => Transferring
      BY <1>1 DEF Transferring
    <3> QED BY <1>2, <1>3, <3>1 DEF FreshTry, OnlyReadsFail
  <2>2. TwoChunks'
    BY <1>1, SameCall DEF PipeInv, TwoChunks, Under
  <2>3. ReadSoFar' /\ WrittenSoFar'
    <3>1. Under' => ~whole'
      BY <1>1, <1>3 DEF Under, Transferring
    <3> QED BY <3>1 DEF ReadSoFar, WrittenSoFar
  <2> QED BY <2>1, <2>2, <2>3 DEF PipeInv
<1>6. Pipe!Reset
  <2>1. busy' = busy /\ reading' = reading
    BY <1>1, <1>2 DEF busy, reading
  <2>2. received' = received
    BY <1>1, <1>2, <1>4 DEF received, Transferring
  <2>3. whole' = (whole /\ ~busy)
    BY <1>1, <1>3, <1>4 DEF busy
  <2>4. DOMAIN untaken = Endpoint
    BY <1>1 DEF untaken
  <2>5. untaken' = [e \in Endpoint |-> << >>]
    <3>1. CASE reading
      <4>1. moved' = << >> /\ << >> \o << >> = << >>
        BY <1>3, <3>1 DEF reading
      <4>2. untaken' = [pipe' EXCEPT ![call.ep] = moved' \o @]
        BY <1>1, <2>1, <3>1 DEF untaken
      <4> QED BY <1>1, <4>1, <4>2
    <3>2. CASE ~reading
      BY <1>1, <2>1, <3>2 DEF untaken
    <3> QED BY <3>1, <3>2
  <2> QED BY <1>1, <2>1, <2>2, <2>3, <2>4, <2>5 DEF Pipe!Reset
<1> QED BY <1>5, <1>6 DEF Pipe!Next

-----------------------------------------------------------------------------
(* Every step.                                                             *)

LEMMA PipeTransfers ==
    ASSUME ProgramInv, PipeInv, Transfers
    PROVE  PipeInv' /\ [Pipe!Next]_Pipe!vars
<1>1. /\ \/ WaitReady \/ PostBuffer \/ ReceivePacket \/ SendPacket \/ TimedOut \/ Failed
      /\ UNCHANGED <<interfaces, setup, index, program>>
  BY DEF Transfers, usbTransfer
<1>2. CASE WaitReady
  BY <1>1, <1>2, PipeWait
<1>3. CASE PostBuffer
  BY <1>1, <1>3, PipePost
<1>4. CASE ReceivePacket
  BY <1>1, <1>4, PipeReceive
<1>5. CASE SendPacket
  BY <1>1, <1>5, PipeSend
<1>6. CASE TimedOut
  BY <1>1, <1>6, PipeTimedOut
<1>7. CASE Failed
  BY <1>1, <1>7, PipeFailed
<1> QED BY <1>1, <1>2, <1>3, <1>4, <1>5, <1>6, <1>7

\* A step of the program or of the other side is one of BulkPipe or none.
LEMMA PipeStep ==
    ASSUME ProgramInv, PipeInv, [Next]_vars
    PROVE  PipeInv' /\ [Pipe!Next]_Pipe!vars
<1> USE DEF vars, program, rigid, host, wires, Steady, interfaces
<1>1. TypeOK /\ WiresOK
  BY DEF ProgramInv, TypeOK
<1>2. CASE Server
  BY <1>2, PipeProgram, PipeTransfers DEF Server
<1>3. CASE PressB \/ LeaveApplet
  BY <1>3, PipeIdle DEF PressB, LeaveApplet
<1>4. ASSUME NEW params, NEW data, NEW upload, Requests(params, data, upload)
      PROVE  PipeInv' /\ [Pipe!Next]_Pipe!vars
  BY <1>4, PipeIdle DEF Requests
<1>5. CASE Sends
  <2>1. Head(toSend) \in Seq(Word)
    BY <1>1, <1>5, HeadTailProperties DEF Sends, WiresOK
  <2>2. mtp.OUT \in Endpoint
    BY EndpointLemma DEF mtp
  <2> QED BY <1>5, <2>1, <2>2, PipeHost DEF Sends
<1>6. ASSUME NEW line \in {START, <<junk>>}, Types(line)
      PROVE  PipeInv' /\ [Pipe!Next]_Pipe!vars
  <2>1. line \in Seq(Word)
    <3>1. <<0, -1>> \in Word /\ <<0, -2>> \in Word /\ <<0, 0>> \in Word
      BY DEF Word
    <3>2. <<<<0, -1>>, <<0, -2>>>> \in Seq(Word) /\ <<<<0, 0>>>> \in Seq(Word)
      BY <3>1
    <3> QED BY <3>2 DEF START, junk
  <2>2. serial.OUT \in Endpoint
    BY EndpointLemma DEF serial
  <2> QED BY <1>6, <2>1, <2>2, PipeHost DEF Types
<1>7. CASE Leaves
  BY <1>7, PipeUnplug DEF Leaves
<1>8. CASE Returns
  BY <1>8, PipeIdle DEF Returns, Plug
<1>9. CASE UNCHANGED vars
  BY <1>9, PipeIdle
<1> QED BY <1>2, <1>3, <1>4, <1>5, <1>6, <1>7, <1>8, <1>9 DEF Next

LEMMA PipeBegins ==
    ASSUME Init
    PROVE  PipeInv /\ Pipe!Init
<1>1. step = "idle" /\ pipe = [e \in Endpoint |-> << >>]
  BY DEF Init, UsbInit
<1>2. ~Transferring /\ ~Under
  BY <1>1 DEF Transferring, Under
<1>3. PipeInv
  BY <1>1, <1>2 DEF PipeInv, FreshTry, OnlyReadsFail, TwoChunks, ReadSoFar, WrittenSoFar
<1>4. untaken = pipe
  BY <1>2 DEF untaken, reading
<1> QED BY <1>1, <1>2, <1>3, <1>4 DEF Pipe!Init, busy

\* However the buffer is aligned and the host interrupts, a call of usbTransfer
\* does what BulkPipe says: a read takes the packets of one transfer once and in
\* order, a write gives the packets of one, and what it returns tells how many
\* words were moved, unless a mishap was in the try.
THEOREM PipeHolds == Spec => PipeImplemented
<1>1. Init => ProgramInv /\ PipeInv /\ Pipe!Init
  BY InitInv, PipeBegins
<1>2. ProgramInv /\ PipeInv /\ [Next]_vars => (ProgramInv /\ PipeInv)' /\ [Pipe!Next]_Pipe!vars
  BY StepInv, PipeStep
<1> QED BY <1>1, <1>2, PTL DEF Spec, PipeImplemented, Pipe!Spec
=============================================================================
