------------------------ MODULE FileTransfer_proofs ------------------------
(***************************************************************************)
(* ContentsInv is inductive, and what is said of uploads and downloads     *)
(* follows from it: for every length of header, buffers and words, and     *)
(* every file, offset and length up to the bound.                          *)
(***************************************************************************)
EXTENDS FileTransfer, SequenceTheorems, TLAPS

-----------------------------------------------------------------------------
(* Bytes.                                                                  *)

\* Byte i of file f after s was written at p.
ByteAt(f, p, s, i) ==
    IF i \in p + 1 .. p + Len(s) THEN s[i - p] ELSE IF i <= Len(f) THEN f[i] ELSE 0

\* A file that was written to is a file, as long as it has to be.
LEMMA WriteLemma ==
    ASSUME NEW f \in Seq(Nat), NEW p \in Nat, NEW s \in Seq(Nat)
    PROVE  /\ WriteAt(f, p, s) \in Seq(Nat)
           /\ Len(WriteAt(f, p, s)) = IF s = << >> THEN Len(f) ELSE Most(Len(f), p + Len(s))
           /\ s # << >> => \A i \in 1 .. Most(Len(f), p + Len(s)) :
                 WriteAt(f, p, s)[i] = ByteAt(f, p, s, i)
<1>1. CASE s = << >>
  BY <1>1 DEF WriteAt
<1>2. CASE s # << >>
  <2> DEFINE n == Most(Len(f), p + Len(s))
  <2>1. n \in Nat
    BY DEF Most
  <2>2. \A i \in 1 .. n : ByteAt(f, p, s, i) \in Nat
    BY DEF ByteAt
  <2>3. WriteAt(f, p, s) = [i \in 1 .. n |-> ByteAt(f, p, s, i)]
    BY <1>2 DEF WriteAt, ByteAt
  <2> HIDE DEF n
  <2>4. /\ WriteAt(f, p, s) \in Seq(Nat) /\ Len(WriteAt(f, p, s)) = n
        /\ \A i \in 1 .. n : WriteAt(f, p, s)[i] = ByteAt(f, p, s, i)
    BY <2>1, <2>2, <2>3
  <2> QED BY <1>2, <2>4 DEF n
<1> QED BY <1>1, <1>2

\* The first n bytes of a sequence, and the others.
LEMMA CutLemma ==
    ASSUME NEW s \in Seq(Nat), NEW n \in 0 .. Len(s)
    PROVE  /\ SubSeq(s, 1, n) \in Seq(Nat) /\ SubSeq(s, n + 1, Len(s)) \in Seq(Nat)
           /\ Len(SubSeq(s, 1, n)) = n /\ Len(SubSeq(s, n + 1, Len(s))) = Len(s) - n
           /\ \A i \in 1 .. n : SubSeq(s, 1, n)[i] = s[i]
           /\ \A i \in 1 .. Len(s) - n : SubSeq(s, n + 1, Len(s))[i] = s[n + i]
<1>1. Len(s) \in Nat /\ \A i \in 1 .. Len(s) : s[i] \in Nat
  OBVIOUS
<1>2. (\A i \in 1 .. n : s[i] \in Nat) /\ (\A i \in n + 1 .. Len(s) : s[i] \in Nat)
  BY <1>1
<1>3. /\ SubSeq(s, 1, n) \in Seq(Nat)
      /\ Len(SubSeq(s, 1, n)) = IF 1 <= n THEN n - 1 + 1 ELSE 0
      /\ \A i \in 1 .. n - 1 + 1 : SubSeq(s, 1, n)[i] = s[1 + i - 1]
  BY <1>1, <1>2, SubSeqProperties
<1>4. /\ SubSeq(s, n + 1, Len(s)) \in Seq(Nat)
      /\ Len(SubSeq(s, n + 1, Len(s))) = IF n + 1 <= Len(s) THEN Len(s) - (n + 1) + 1 ELSE 0
      /\ \A i \in 1 .. Len(s) - (n + 1) + 1 : SubSeq(s, n + 1, Len(s))[i] = s[n + 1 + i - 1]
  BY <1>1, <1>2, SubSeqProperties
<1> QED BY <1>1, <1>3, <1>4

\* To write a sequence is to write its beginning, and the rest behind it.
LEMMA SplitLemma ==
    ASSUME NEW f \in Seq(Nat), NEW p \in Nat, NEW s \in Seq(Nat), NEW n \in 0 .. Len(s)
    PROVE  WriteAt(f, p, s) =
              WriteAt(WriteAt(f, p, SubSeq(s, 1, n)), p + n, SubSeq(s, n + 1, Len(s)))
<1> DEFINE a == SubSeq(s, 1, n)
           b == SubSeq(s, n + 1, Len(s))
           g == WriteAt(f, p, a)
<1>1. /\ a \in Seq(Nat) /\ b \in Seq(Nat) /\ Len(a) = n /\ Len(b) = Len(s) - n
      /\ \A i \in 1 .. n : a[i] = s[i]
      /\ \A i \in 1 .. Len(s) - n : b[i] = s[n + i]
  BY CutLemma
<1>2. Len(s) \in Nat /\ Len(f) \in Nat /\ n \in Nat
  OBVIOUS
<1>3. CASE n = 0
  <2>1. a = << >>
    BY <1>1, <1>3
  <2>2. b = s
    BY <1>1, <1>3, SeqEqual
  <2>3. g = f
    BY <2>1 DEF WriteAt
  <2> HIDE DEF a, b
  <2>4. WriteAt(f, p, s) = WriteAt(g, p + n, b)
    BY <1>3, <2>2, <2>3
  <2> QED BY <2>4 DEF a, b
<1>4. CASE n = Len(s)
  <2>1. a = s
    BY <1>1, <1>4, SeqEqual
  <2>2. b = << >>
    BY <1>1, <1>4
  <2> HIDE DEF a, b
  <2>3. WriteAt(f, p, s) = WriteAt(g, p + n, b)
    BY <2>1, <2>2 DEF WriteAt
  <2> QED BY <2>3 DEF a, b
<1>5. CASE n # 0 /\ n # Len(s)
  <2> HIDE DEF a, b, g
  <2>1. a # << >> /\ b # << >> /\ s # << >>
    BY <1>1, <1>2, <1>5
  <2>2. /\ g \in Seq(Nat) /\ Len(g) = Most(Len(f), p + n)
        /\ \A i \in 1 .. Most(Len(f), p + n) : g[i] = ByteAt(f, p, a, i)
    <3>1. /\ g \in Seq(Nat) /\ Len(g) = Most(Len(f), p + Len(a))
          /\ \A i \in 1 .. Most(Len(f), p + Len(a)) : g[i] = ByteAt(f, p, a, i)
      BY <1>1, <2>1, WriteLemma DEF g
    <3> QED BY <1>1, <3>1
  <2> DEFINE h == WriteAt(g, p + n, b)
             w == WriteAt(f, p, s)
             m == Most(Len(f), p + Len(s))
  <2>3. Most(Len(g), p + n + Len(b)) = m
    BY <1>1, <1>2, <1>5, <2>2 DEF Most
  <2>4. /\ h \in Seq(Nat) /\ Len(h) = m
        /\ \A i \in 1 .. m :
              h[i] = ByteAt(g, p + n, b, i)
    <3>1. p + n \in Nat
      BY <1>2
    <3>2. /\ h \in Seq(Nat) /\ Len(h) = Most(Len(g), p + n + Len(b))
          /\ \A i \in 1 .. Most(Len(g), p + n + Len(b)) : h[i] = ByteAt(g, p + n, b, i)
      <4> DEFINE q == p + n
      <4>1. q \in Nat
        BY <3>1
      <4> HIDE DEF q
      <4>2. /\ WriteAt(g, q, b) \in Seq(Nat)
            /\ Len(WriteAt(g, q, b)) = Most(Len(g), q + Len(b))
            /\ \A i \in 1 .. Most(Len(g), q + Len(b)) : WriteAt(g, q, b)[i] = ByteAt(g, q, b, i)
        BY <1>1, <2>1, <2>2, <4>1, WriteLemma
      <4> QED BY <4>2 DEF q
    <3> QED BY <2>3, <3>2
  <2>5. /\ w \in Seq(Nat) /\ Len(w) = m
        /\ \A i \in 1 .. m : w[i] = ByteAt(f, p, s, i)
    BY <2>1, WriteLemma
  <2> HIDE DEF h, w
  <2>6. \A i \in 1 .. m : w[i] = h[i]
    <3> SUFFICES ASSUME NEW i \in 1 .. m PROVE w[i] = h[i]
      OBVIOUS
    <3>0. i \in Nat /\ m \in Nat /\ Len(g) \in Nat
      BY <1>2, <2>2 DEF Most
    <3>1. CASE i \in p + n + 1 .. p + Len(s)
      <4>1. h[i] = b[i - (p + n)] /\ w[i] = s[i - p]
        BY <1>1, <1>2, <2>4, <2>5, <3>1 DEF ByteAt
      <4>2. i - (p + n) \in 1 .. Len(s) - n /\ n + (i - (p + n)) = i - p
        BY <1>2, <3>1
      <4> QED BY <1>1, <4>1, <4>2
    <3>2. CASE i \in p + 1 .. p + n
      <4>1. i \in 1 .. Most(Len(f), p + n) /\ i \notin p + n + 1 .. p + n + Len(b)
        BY <1>1, <1>2, <3>2 DEF Most
      <4>2. h[i] = a[i - p]
        BY <1>1, <1>2, <2>2, <2>4, <3>0, <3>2, <4>1 DEF ByteAt
      <4>3. w[i] = s[i - p] /\ i - p \in 1 .. n
        BY <1>2, <2>5, <3>2 DEF ByteAt
      <4> QED BY <1>1, <4>2, <4>3
    <3>3. CASE i \notin p + 1 .. p + Len(s)
      <4>1. i \notin p + 1 .. p + n /\ i \notin p + n + 1 .. p + n + Len(b)
        BY <1>1, <1>2, <3>0, <3>3
      <4>2. w[i] = IF i <= Len(f) THEN f[i] ELSE 0
        BY <2>5, <3>3 DEF ByteAt
      <4>3. h[i] = IF i <= Len(g) THEN g[i] ELSE 0
        BY <2>4, <4>1 DEF ByteAt
      <4>4. i <= Len(g) => g[i] = IF i <= Len(f) THEN f[i] ELSE 0
        BY <1>1, <2>2, <3>0, <4>1 DEF ByteAt
      <4>5. i <= Len(f) => i <= Len(g)
        BY <1>2, <2>2, <3>0 DEF Most
      <4> QED BY <4>2, <4>3, <4>4, <4>5
    <3> QED BY <1>2, <3>0, <3>1, <3>2, <3>3
  <2>7. w = h
    BY <2>4, <2>5, <2>6, SeqEqual
  <2> QED BY <2>7 DEF w, h, g, a, b
<1> QED BY <1>3, <1>4, <1>5

\* A file that is written from its beginning, empty as it is.
LEMMA WholeLemma ==
    ASSUME NEW s \in Seq(Nat)
    PROVE  WriteAt(<< >>, 0, s) = s
<1>1. CASE s = << >>
  BY <1>1 DEF WriteAt
<1>2. CASE s # << >>
  <2> DEFINE w == WriteAt(<< >>, 0, s)
  <2>1. << >> \in Seq(Nat) /\ Len(<< >>) = 0 /\ Len(s) \in Nat /\ Most(0, 0 + Len(s)) = Len(s)
    BY EmptySeq DEF Most
  <2>2. /\ w \in Seq(Nat) /\ Len(w) = Most(Len(<< >>), 0 + Len(s))
        /\ \A i \in 1 .. Most(Len(<< >>), 0 + Len(s)) : w[i] = ByteAt(<< >>, 0, s, i)
    <3> DEFINE e == << >>
               z == 0
    <3>1. e \in Seq(Nat) /\ z \in Nat
      BY <2>1
    <3> HIDE DEF e, z
    <3>2. /\ WriteAt(e, z, s) \in Seq(Nat) /\ Len(WriteAt(e, z, s)) = Most(Len(e), z + Len(s))
          /\ \A i \in 1 .. Most(Len(e), z + Len(s)) : WriteAt(e, z, s)[i] = ByteAt(e, z, s, i)
      BY <1>2, <3>1, WriteLemma
    <3> QED BY <3>2 DEF e, z
  <2> HIDE DEF w
  <2>3. Len(w) = Len(s) /\ \A i \in 1 .. Len(s) : w[i] = s[i]
    BY <2>1, <2>2 DEF ByteAt
  <2>4. w = s
    BY <2>2, <2>3, SeqEqual
  <2> QED BY <2>4 DEF w
<1> QED BY <1>1, <1>2

LEMMA ResizeLemma ==
    ASSUME NEW f \in Seq(Nat), NEW n \in Nat
    PROVE  Resize(f, n) \in Seq(Nat) /\ Len(Resize(f, n)) = n
<1>1. \A i \in 1 .. n : (IF i <= Len(f) THEN f[i] ELSE 0) \in Nat
  OBVIOUS
<1> QED BY <1>1 DEF Resize

LEMMA HeaderLemma ==
    Header \in Seq(Nat) /\ Len(Header) = HeaderSize /\ Header # << >>
<1>1. HeaderSize \in Nat \ {0}
  BY SizeAssumption
<1>2. Header \in Seq(Nat) /\ Len(Header) = HeaderSize
  BY <1>1 DEF Header
<1> QED BY <1>1, <1>2

-----------------------------------------------------------------------------
(* The steps.                                                              *)

\* The constants, as the steps use them.
LEMMA Sizes ==
    /\ HeaderSize \in Nat \ {0} /\ FirstRead \in Nat /\ BlockSize \in Nat
    /\ HeaderSize < FirstRead /\ HeaderSize < BlockSize
    /\ MaxSize \in Nat /\ Word \in Nat /\ MaxSize + HeaderSize < Word /\ MaxTimeouts \in Nat
    /\ 0 \in 0 .. (Word - 1) /\ 0 >= -MaxTimeouts
    /\ \A data \in Data : data \in Seq(Nat) /\ Len(data) \in Nat /\ Len(data) <= MaxSize
<1>1. \A data \in Data : data \in Seq(Nat)
  <2> SUFFICES ASSUME NEW data \in Data PROVE data \in Seq(Nat)
    OBVIOUS
  <2>1. data \in Seq(Nat \ {0}) /\ Nat \ {0} \subseteq Nat
    BY SizeAssumption
  <2> QED BY <2>1, SeqMonotonic
<1>2. /\ HeaderSize \in Nat \ {0} /\ FirstRead \in Nat /\ BlockSize \in Nat
      /\ HeaderSize < FirstRead /\ HeaderSize < BlockSize
      /\ MaxSize \in Nat /\ Word \in Nat /\ MaxTimeouts \in Nat
      /\ 2 * (MaxSize + BlockSize) <= Word
  BY SizeAssumption
<1>3. \A data \in Data : Len(data) <= MaxSize
  BY SizeAssumption
<1>4. MaxSize + HeaderSize < Word
  BY <1>2
<1> QED BY <1>1, <1>2, <1>3, <1>4

LEMMA InitInv == Init => ContentsInv
<1> SUFFICES ASSUME Init PROVE ContentsInv
  OBVIOUS
<1>1. << >> \in Seq(Nat) /\ Len(<< >>) = 0
  BY EmptySeq
<1>2. TypeOK
  <2>2. {exists, open, failed, clean} \subseteq BOOLEAN
    BY DEF Init
  <2>3. {object_size, mSize, pos, offset, at} \subseteq Nat /\ length \in Int /\ total \in Int
    BY DEF Init
  <2>4. announced \in 0 .. (Word - 1) /\ total >= -MaxTimeouts
    BY Sizes DEF Init
  <2>5. /\ file \in Seq(Nat) /\ stream \in Seq(Nat) /\ want \in Seq(Nat)
        /\ sent \in Seq(Nat \cup {Stale})
    BY <1>1, EmptySeq DEF Init
  <2> QED BY <2>2, <2>3, <2>4, <2>5 DEF Init, TypeOK
<1> QED BY <1>1, <1>2, Sizes
        DEF Init, ContentsInv, Phases, Bounded, Uploading, Sending, Idle, Uploads

\* What a handler leaves when it returns, besides the file and its size.
LEMMA ReturnLemma ==
    ASSUME TypeOK, Return, exists' \in BOOLEAN, open' \in BOOLEAN, clean' \in BOOLEAN,
           object_size' \in Nat, mSize' \in Nat, pos' \in Nat, file' \in Seq(Nat),
           want' \in Seq(Nat), open' => exists', Len(file') <= MaxSize, object_size' <= MaxSize,
           clean' /\ exists' => file' = want' /\ Len(file') = size'
    PROVE  ContentsInv'
<1> USE DEF Return
<1>1. << >> \in Seq(Nat) /\ Len(<< >>) = 0
  BY EmptySeq
<1>2. TypeOK'
  <2>1. 0 \in 0 .. (Word - 1) /\ 0 >= -MaxTimeouts
    BY Sizes
  <2>2. failed' \in BOOLEAN
    OBVIOUS
  <2> QED BY <1>1, <2>1, <2>2 DEF TypeOK
<1>3. Phases'
  BY DEF Phases, Idle, Uploads
<1>4. Bounded'
  BY DEF Bounded
<1>5. Uploading'
  BY DEF Uploading, Uploads
<1>6. Sending'
  BY DEF Sending
<1> QED BY <1>2, <1>3, <1>4, <1>5, <1>6 DEF ContentsInv

\* The steps that answer at once.
LEMMA AtOnceLemma ==
    ASSUME ContentsInv, AtOnce, exists' \in BOOLEAN, open' \in BOOLEAN, clean' \in BOOLEAN,
           object_size' \in Nat, mSize' \in Nat, pos' \in Nat, file' \in Seq(Nat),
           want' \in Seq(Nat), open' => exists', Len(file') <= MaxSize, object_size' <= MaxSize,
           clean' /\ exists' => file' = want' /\ Len(file') = size'
    PROVE  ContentsInv'
<1> USE DEF AtOnce, Idle, locals, mfr, out
<1>0. op = "none" /\ op' = "none" /\ pc' = "idle"
  BY DEF ContentsInv, Phases
<1>2. TypeOK'
  BY DEF ContentsInv, TypeOK
<1>3. Phases'
  BY <1>0 DEF ContentsInv, Phases, Uploads
<1>4. Bounded'
  BY <1>0 DEF Bounded
<1>5. Uploading'
  BY <1>0 DEF Uploading, Uploads
<1>6. Sending'
  BY <1>0 DEF Sending
<1> QED BY <1>2, <1>3, <1>4, <1>5, <1>6 DEF ContentsInv

LEMMA SendObjectLemma ==
    ASSUME ContentsInv, NEW data \in Data, NEW n \in 0 .. MaxSize, SendObject(data, n)
    PROVE  ContentsInv'
<1> USE DEF SendObject, Enter, edit, Spoilt, Idle
<1>1. << >> \in Seq(Nat) /\ Len(<< >>) = 0 /\ data \in Seq(Nat) /\ Len(data) <= MaxSize
      /\ Len(data) \in Nat /\ MaxSize \in Nat
  BY EmptySeq, Sizes
<1>2. TypeOK'
  <2>1. 0 >= -MaxTimeouts
    BY Sizes
  <2>2. want' \in Seq(Nat) /\ clean' \in BOOLEAN
    BY <1>1
  <2>3. exists' \in BOOLEAN /\ failed' \in BOOLEAN
    OBVIOUS
  <2> QED BY <1>1, <2>1, <2>2, <2>3 DEF ContentsInv, TypeOK, Uploads
<1>3. Phases'
  BY DEF Phases, Uploads
<1>4. Bounded'
  BY <1>1 DEF Bounded
<1>5. Uploading'
  <2>1. WriteAt(<< >>, 0, data) = data
    BY <1>1, WholeLemma
  <2> QED BY <1>1, <2>1 DEF Uploading, Uploads
<1>6. Sending'
  BY DEF Sending
<1> QED BY <1>2, <1>3, <1>4, <1>5, <1>6 DEF ContentsInv

LEMMA SendPartialObjectLemma ==
    ASSUME ContentsInv, NEW data \in Data, NEW off \in 0 .. MaxSize, NEW len \in 0 .. MaxSize,
           Most(off, pos) + Len(data) <= MaxSize, SendPartialObject(data, off, len)
    PROVE  ContentsInv'
<1> USE DEF Idle
<1>0. TypeOK /\ Phases /\ Bounded /\ Uploading /\ Sending /\ open /\ exists
  BY DEF SendPartialObject, ContentsInv, Phases
<1>1. data \in Seq(Nat) /\ Len(data) \in Nat /\ MaxSize \in Nat
  BY Sizes
<1>2. CASE off > mSize
  <2>1. AtOnce /\ UNCHANGED <<disk, edit, pos, host>> /\ op = "none"
    BY <1>0, <1>2 DEF SendPartialObject, AtOnce, Phases, TypeOK
  <2>2. clean' /\ exists' => file' = want' /\ Len(file') = size'
    BY <1>0, <2>1 DEF disk, edit, host, size, Uploading, Uploads
  <2> QED BY <1>0, <2>1, <2>2, AtOnceLemma DEF disk, edit, host, TypeOK, Bounded
<1>3. CASE off <= mSize
  <2> USE DEF SendPartialObject, Enter, Spoilt, disk, edit
  <2>1. /\ op = "none" /\ op' = "SendPartialObject" /\ total' = 0 /\ failed' = FALSE
        /\ sent' = << >> /\ stream' = data /\ offset' = off /\ length' = len /\ pc' = "first"
        /\ UNCHANGED <<pos, announced, at, exists, file, object_size, open, mSize>>
    BY <1>0, <1>3 DEF TypeOK, Phases
  <2>2. /\ want' \in Seq(Nat) /\ clean' \in BOOLEAN
        /\ clean' => clean /\ len = Len(data) /\ want' = WriteAt(want, off, data)
    <3>1. off \in Nat /\ want \in Seq(Nat)
      BY <1>0 DEF TypeOK
    <3>2. WriteAt(want, off, data) \in Seq(Nat) /\ << >> \in Seq(Nat)
      BY <1>1, <3>1, WriteLemma, EmptySeq
    <3>3. IF clean /\ len = Len(data)
          THEN want' = WriteAt(want, off, data) /\ UNCHANGED clean
          ELSE clean' = FALSE /\ want' = << >>
      BY <1>0, <1>3 DEF TypeOK
    <3> HIDE DEF SendPartialObject
    <3>4. CASE clean /\ len = Len(data)
      BY <3>2, <3>3, <3>4
    <3>5. CASE ~(clean /\ len = Len(data))
      BY <3>2, <3>3, <3>5
    <3> QED BY <3>4, <3>5
  <2>3. TypeOK'
    <3>1. 0 >= -MaxTimeouts /\ << >> \in Seq(Nat) /\ off \in Nat /\ len \in Nat
      BY <1>1, Sizes, EmptySeq
    <3>2. failed' \in BOOLEAN
      BY <2>1
    <3> HIDE DEF SendPartialObject
    <3> QED BY <1>0, <1>1, <2>1, <2>2, <3>1, <3>2 DEF TypeOK, Uploads
  <2>4. Phases'
    BY <1>0, <2>1 DEF Phases, Uploads
  <2>5. Bounded'
    BY <1>0, <1>1, <2>1 DEF Bounded, TypeOK, Most
  <2>6. Uploading'
    <3> SUFFICES ASSUME clean' PROVE Uploading'
      BY DEF Uploading
    <3>1. clean /\ len = Len(data) /\ want' = WriteAt(want, off, data)
      BY <2>2
    <3>2. file = want /\ Len(file) = mSize
      BY <1>0, <2>1, <3>1 DEF Uploading, Uploads, size
    <3>3. Len(want') = Most(mSize, off + len)
      <4>1. Len(want') = IF data = << >> THEN mSize ELSE Most(mSize, off + len)
        BY <1>0, <1>1, <3>1, <3>2, WriteLemma DEF TypeOK
      <4>2. data = << >> => Most(mSize, off + len) = mSize
        BY <1>0, <1>3, <3>1, EmptySeq DEF Most, TypeOK
      <4> QED BY <4>1, <4>2
    <3> QED BY <2>1, <3>1, <3>2, <3>3 DEF Uploading, Uploads
  <2>7. Sending'
    BY <2>1 DEF Sending
  <2> QED BY <2>3, <2>4, <2>5, <2>6, <2>7 DEF ContentsInv
<1> QED BY <1>0, <1>2, <1>3 DEF TypeOK

LEMMA ReadFirstLemma ==
    ASSUME ContentsInv, ReadFirst
    PROVE  ContentsInv'
<1>0. TypeOK /\ Phases /\ Bounded /\ Uploading /\ pc = "first" /\ op \in Uploads
  BY DEF ReadFirst, ContentsInv, Phases
<1>1. PICK n \in 0 .. Least(FirstRead - HeaderSize, Len(stream)), written \in BOOLEAN :
          /\ n = 0 => written
          /\ InitialData(n, written)
          /\ IF written /\ (n = 0 \/ pos = offset) THEN UNCHANGED host ELSE Spoilt
  BY DEF ReadFirst
<1> DEFINE a == SubSeq(stream, 1, n)
           b == SubSeq(stream, n + 1, Len(stream))
           rest == IF op = "SendObject" THEN length - n ELSE (length - n) % Word
           received == rest # 0 /\ rest # Word - 1
<1>2. n \in 0 .. Len(stream) /\ n \in Nat /\ Len(stream) \in Nat /\ stream \in Seq(Nat)
  BY <1>0, <1>1, Sizes DEF Least, TypeOK
<1>3. /\ a \in Seq(Nat) /\ b \in Seq(Nat) /\ Len(a) = n /\ Len(b) = Len(stream) - n
  BY <1>2, CutLemma
<1>4. /\ file' = IF written THEN WriteAt(file, pos, a) ELSE file
      /\ stream' = b /\ offset' = offset + n /\ length' = rest /\ total' = 0
      /\ pc' = IF received THEN "receive" ELSE "end"
      /\ pos' = IF received THEN offset + n ELSE IF written THEN pos + n ELSE pos
      /\ failed' = IF op = "SendObject" \/ rest = 0 THEN ~written ELSE rest = Word - 1
  BY <1>1 DEF InitialData
<1>5. UNCHANGED <<exists, object_size, open, mSize, op, sent, announced, at>>
  BY DEF ReadFirst, edit, out
<1>6. /\ WriteAt(file, pos, a) \in Seq(Nat)
      /\ Len(WriteAt(file, pos, a)) = IF a = << >> THEN Len(file) ELSE Most(Len(file), pos + n)
  <2> HIDE DEF a
  <2>1. file \in Seq(Nat) /\ pos \in Nat
    BY <1>0 DEF TypeOK
  <2>2. /\ WriteAt(file, pos, a) \in Seq(Nat)
        /\ Len(WriteAt(file, pos, a)) = IF a = << >> THEN Len(file) ELSE Most(Len(file), pos + Len(a))
    BY <1>3, <2>1, WriteLemma
  <2> QED BY <1>3, <2>2
<1>7. rest \in Int /\ (op = "SendPartialObject" => rest = (length - n) % Word)
  BY <1>0, <1>2, Sizes DEF TypeOK
<1>8. /\ want' \in Seq(Nat) /\ clean' \in BOOLEAN
      /\ clean' => clean /\ want' = want /\ written /\ (n = 0 \/ pos = offset)
  <2>1. CASE written /\ (n = 0 \/ pos = offset)
    BY <1>0, <1>1, <2>1 DEF TypeOK, host
  <2>2. CASE ~(written /\ (n = 0 \/ pos = offset))
    BY <1>1, <2>2, EmptySeq DEF Spoilt
  <2> QED BY <2>1, <2>2
<1> HIDE DEF a, b, rest
<1>9. TypeOK'
  <2>1. failed' \in BOOLEAN
    BY <1>4
  <2>2. file' \in Seq(Nat) /\ pos' \in Nat /\ offset' \in Nat
    BY <1>0, <1>2, <1>4, <1>6 DEF TypeOK
  <2>3. pc' \in {"receive", "end"} /\ total' >= -MaxTimeouts
    BY <1>4, Sizes
  <2> QED BY <1>0, <1>3, <1>4, <1>5, <1>7, <1>8, <2>1, <2>2, <2>3 DEF TypeOK
<1>10. Phases'
  BY <1>0, <1>4, <1>5 DEF Phases, Idle, Uploads
<1>11. Bounded'
  <2>1. pos + n <= MaxSize
    BY <1>0, <1>2, Sizes DEF Bounded, TypeOK
  <2>2. Len(file') <= MaxSize
    BY <1>0, <1>2, <1>4, <1>6, <2>1, Sizes DEF Bounded, TypeOK, Most
  <2>3. pc' = "receive" => pos' + Len(stream') <= MaxSize
    BY <1>0, <1>2, <1>3, <1>4, Sizes DEF Bounded, TypeOK
  <2> QED BY <1>0, <1>4, <1>5, <2>2, <2>3 DEF Bounded
<1>12. Uploading'
  <2> SUFFICES ASSUME clean' PROVE Uploading'
    BY DEF Uploading
  <2>1. /\ clean /\ want' = want /\ written /\ (n = 0 \/ pos = offset)
        /\ length = Len(stream) /\ want = WriteAt(file, offset, stream)
        /\ op = "SendPartialObject" => Len(want) = Most(mSize, offset + length)
    BY <1>0, <1>8 DEF Uploading
  <2>2. Len(stream) <= MaxSize /\ Len(stream) < Word /\ Len(stream) < Word - 1
    BY <1>0, <1>2, Sizes DEF Bounded, TypeOK
  <2>3. rest = Len(stream) - n
    <3>1. Len(stream) - n \in 0 .. Word - 1
      BY <1>2, <2>2, Sizes
    <3>2. (Len(stream) - n) % Word = Len(stream) - n
      BY <3>1, Sizes
    <3> QED BY <2>1, <3>2 DEF rest
  <2>4. received <=> n # Len(stream)
    BY <1>2, <2>2, <2>3, Sizes
  <2>5. want = WriteAt(file', offset + n, b)
    <3>1. WriteAt(file, offset, stream) = WriteAt(WriteAt(file, offset, a), offset + n, b)
      BY <1>0, <1>2, SplitLemma DEF a, b, TypeOK
    <3>2. CASE pos = offset
      BY <1>4, <2>1, <3>1, <3>2
    <3>3. CASE n = 0
      <4>1. a = << >>
        BY <1>3, <3>3
      <4>2. WriteAt(file, pos, a) = WriteAt(file, offset, a)
        BY <4>1 DEF WriteAt
      <4> QED BY <1>4, <2>1, <3>1, <4>2
    <3> QED BY <2>1, <3>2, <3>3
  <2>6. CASE received
    <3>1. pc' = "receive" /\ pos' = offset + n /\ stream' # << >> /\ ~failed'
      <4>1. Len(b) # 0
        BY <1>2, <1>3, <2>4, <2>6
      <4>2. ~failed'
        BY <1>4, <2>1, <2>6
      <4> QED BY <1>4, <2>6, <4>1, <4>2, EmptySeq
    <3>2. length' = total' + Len(stream') /\ pos' = offset' + total'
      BY <1>0, <1>2, <1>3, <1>4, <2>3, <3>1 DEF TypeOK
    <3>3. offset' + length' = offset + length
      BY <1>0, <1>2, <1>4, <2>1, <2>3 DEF TypeOK
    <3>4. want' = WriteAt(file', pos', stream')
      BY <1>4, <2>1, <2>5, <3>1
    <3> QED BY <1>0, <1>5, <2>1, <3>1, <3>2, <3>3, <3>4 DEF Uploading, Uploads
  <2>7. CASE ~received
    <3>1. pc' = "end" /\ rest = 0 /\ b = << >> /\ ~failed'
      <4>1. n = Len(stream) /\ rest = 0 /\ Len(b) = 0
        BY <1>2, <1>3, <2>3, <2>4, <2>7
      <4>2. pc' = "end"
        BY <1>4, <2>7
      <4>3. failed' = ~written
        BY <1>4, <4>1
      <4>4. b = << >>
        BY <1>3, <4>1
      <4> QED BY <2>1, <4>1, <4>2, <4>3, <4>4
    <3>2. file' = want'
      BY <2>1, <2>5, <3>1 DEF WriteAt
    <3>3. offset' + length' = offset + length
      BY <1>0, <1>2, <1>4, <2>1, <2>3 DEF TypeOK
    <3> QED BY <1>0, <1>4, <1>5, <2>1, <3>1, <3>2, <3>3 DEF Uploading, Uploads
  <2> QED BY <2>6, <2>7
<1>13. Sending'
  BY <1>0, <1>5 DEF Sending, Uploads
<1> QED BY <1>9, <1>10, <1>11, <1>12, <1>13 DEF ContentsInv

LEMMA FirstFailsLemma ==
    ASSUME ContentsInv, FirstFails
    PROVE  ContentsInv'
<1>0. TypeOK /\ Phases /\ Bounded
  BY DEF ContentsInv
<1> USE DEF FirstFails, Spoilt, disk, edit
<1>1. << >> \in Seq(Nat) /\ Len(<< >>) = 0 /\ MaxSize \in Nat
  BY EmptySeq, Sizes
<1>2. clean' = FALSE /\ clean' \in BOOLEAN /\ want' \in Seq(Nat)
  BY <1>1
<1>3. CASE op = "SendObject"
  <2>1. exists' \in BOOLEAN /\ open' = FALSE /\ file' = << >> /\ object_size' = 0
    BY <1>0, <1>3 DEF Phases, TypeOK
  <2> QED BY <1>0, <1>1, <1>2, <2>1, ReturnLemma DEF TypeOK
<1>4. CASE op # "SendObject"
  <2>1. UNCHANGED <<exists, file, object_size, open>>
    BY <1>4
  <2> QED BY <1>0, <1>1, <1>2, <2>1, ReturnLemma DEF TypeOK, Phases, Bounded
<1> QED BY <1>3, <1>4

LEMMA ReadBlockLemma ==
    ASSUME ContentsInv, ReadBlock
    PROVE  ContentsInv'
<1>0. TypeOK /\ Phases /\ Bounded /\ Uploading /\ pc = "receive" /\ op \in Uploads
  BY DEF ReadBlock, ContentsInv, Phases
<1>1. PICK n \in 1 .. Least(BlockSize, Len(stream)), written \in BOOLEAN :
          /\ file' = IF written THEN WriteAt(file, pos, SubSeq(stream, 1, n)) ELSE file
          /\ pos' = IF written THEN pos + n ELSE pos
          /\ stream' = SubSeq(stream, n + 1, Len(stream))
          /\ total' = total + n
          /\ pc' = IF total' < length THEN "receive" ELSE "end"
          /\ IF written THEN UNCHANGED host ELSE Spoilt
  BY DEF ReadBlock
<1> DEFINE a == SubSeq(stream, 1, n)
           b == SubSeq(stream, n + 1, Len(stream))
<1>2. n \in 0 .. Len(stream) /\ n \in Nat \ {0} /\ Len(stream) \in Nat /\ stream \in Seq(Nat)
  BY <1>0, <1>1, Sizes DEF Least, TypeOK
<1>3. /\ a \in Seq(Nat) /\ b \in Seq(Nat) /\ Len(a) = n /\ Len(b) = Len(stream) - n
  BY <1>2, CutLemma
<1>4. /\ file' = IF written THEN WriteAt(file, pos, a) ELSE file
      /\ pos' = IF written THEN pos + n ELSE pos
      /\ stream' = b /\ total' = total + n
      /\ pc' = IF total' < length THEN "receive" ELSE "end"
  BY <1>1
<1>5. UNCHANGED <<exists, object_size, open, mSize, op, offset, length, failed,
                sent, announced, at>>
  BY DEF ReadBlock, edit, mfr, out
<1>6. want = WriteAt(file, pos, stream) => want = WriteAt(WriteAt(file, pos, a), pos + n, b)
  BY <1>0, <1>2, SplitLemma DEF TypeOK
<1> HIDE DEF a, b
<1>7. /\ WriteAt(file, pos, a) \in Seq(Nat)
      /\ Len(WriteAt(file, pos, a)) = IF a = << >> THEN Len(file) ELSE Most(Len(file), pos + n)
  <2>1. file \in Seq(Nat) /\ pos \in Nat
    BY <1>0 DEF TypeOK
  <2>2. /\ WriteAt(file, pos, a) \in Seq(Nat)
        /\ Len(WriteAt(file, pos, a)) = IF a = << >> THEN Len(file) ELSE Most(Len(file), pos + Len(a))
    BY <1>3, <2>1, WriteLemma
  <2> QED BY <1>3, <2>2
<1>8. /\ want' \in Seq(Nat) /\ clean' \in BOOLEAN
      /\ clean' => clean /\ want' = want /\ written
  <2>1. CASE written
    BY <1>0, <1>1, <2>1 DEF TypeOK, host
  <2>2. CASE ~written
    BY <1>1, <2>2, EmptySeq DEF Spoilt
  <2> QED BY <2>1, <2>2
<1>9. TypeOK'
  <2>1. file' \in Seq(Nat) /\ pos' \in Nat
    BY <1>0, <1>2, <1>4, <1>7 DEF TypeOK
  <2>2. pc' \in {"receive", "end"} /\ total' \in Int /\ total' >= -MaxTimeouts
    BY <1>0, <1>2, <1>4, Sizes DEF TypeOK
  <2> QED BY <1>0, <1>3, <1>4, <1>5, <1>8, <2>1, <2>2 DEF TypeOK
<1>10. Phases'
  BY <1>0, <1>4, <1>5 DEF Phases, Idle, Uploads
<1>11. Bounded'
  <2>1. pos + n <= MaxSize
    BY <1>0, <1>2, Sizes DEF Bounded, TypeOK
  <2>2. Len(file') <= MaxSize
    BY <1>0, <1>2, <1>4, <1>7, <2>1, Sizes DEF Bounded, TypeOK, Most
  <2>3. pos' + Len(stream') <= MaxSize
    BY <1>0, <1>2, <1>3, <1>4, Sizes DEF Bounded, TypeOK
  <2> QED BY <1>0, <1>4, <1>5, <2>2, <2>3 DEF Bounded
<1>12. Uploading'
  <2> SUFFICES ASSUME clean' PROVE Uploading'
    BY DEF Uploading
  <2>1. /\ clean /\ want' = want /\ written /\ ~failed
        /\ length = total + Len(stream) /\ pos = offset + total
        /\ want = WriteAt(file', pos', stream')
        /\ op = "SendPartialObject" => Len(want) = Most(mSize, offset + length)
    BY <1>0, <1>4, <1>6, <1>8 DEF Uploading
  <2>2. length = total' + Len(stream') /\ pos' = offset' + total'
    <3>1. total \in Int /\ offset \in Int
      BY <1>0 DEF TypeOK
    <3>2. total' = total + n /\ Len(stream') = Len(stream) - n /\ offset' = offset /\ pos' = pos + n
      BY <1>3, <1>4, <1>5, <2>1
    <3> QED BY <1>2, <2>1, <3>1, <3>2
  <2>3. CASE pc' = "receive"
    <3>1. Len(stream') # 0
      BY <1>0, <1>2, <1>3, <1>4, <2>2, <2>3 DEF TypeOK
    <3>2. stream' # << >>
      BY <3>1, EmptySeq
    <3>3. ~failed'
      BY <1>5, <2>1
    <3> QED BY <1>0, <1>5, <2>1, <2>2, <2>3, <3>2, <3>3 DEF Uploading, Uploads
  <2>4. CASE pc' = "end"
    <3>1. Len(stream') = 0
      BY <1>0, <1>2, <1>3, <1>4, <2>2, <2>4 DEF TypeOK
    <3>2. stream' = << >>
      BY <1>3, <1>4, <3>1
    <3>3. file' = want'
      BY <2>1, <3>2 DEF WriteAt
    <3>4. ~failed'
      BY <1>5, <2>1
    <3> QED BY <1>0, <1>5, <2>1, <2>4, <3>2, <3>3, <3>4 DEF Uploading, Uploads
  <2> QED BY <1>4, <2>3, <2>4
<1>13. Sending'
  BY <1>0, <1>5 DEF Sending, Uploads
<1> QED BY <1>9, <1>10, <1>11, <1>12, <1>13 DEF ContentsInv

LEMMA BlockTimesOutLemma ==
    ASSUME ContentsInv, BlockTimesOut
    PROVE  ContentsInv'
<1>0. TypeOK /\ Phases /\ Bounded /\ pc = "receive" /\ op \in Uploads
  BY DEF BlockTimesOut, ContentsInv, Phases
<1>1. /\ UNCHANGED <<exists, file, object_size, open, mSize, pos, op, stream, offset, length, failed,
                     sent, announced, at>>
      /\ clean' = FALSE /\ want' = << >> /\ pc' \in {"receive", "end"}
      /\ total' \in Int /\ total' >= -MaxTimeouts
  BY <1>0, Sizes DEF BlockTimesOut, disk, edit, mfr, out, Spoilt, Most, TypeOK
<1>2. TypeOK'
  <2>1. clean' \in BOOLEAN /\ << >> \in Seq(Nat)
    BY <1>1, EmptySeq
  <2> QED BY <1>0, <1>1, <2>1 DEF TypeOK
<1>3. Phases'
  BY <1>0, <1>1 DEF Phases, Idle, Uploads
<1>4. Bounded'
  BY <1>0, <1>1 DEF Bounded
<1>5. Uploading'
  BY <1>1 DEF Uploading
<1>6. Sending'
  BY <1>0, <1>1 DEF Sending, Uploads
<1> QED BY <1>2, <1>3, <1>4, <1>5, <1>6 DEF ContentsInv

LEMMA EndUploadLemma ==
    ASSUME ContentsInv, EndSendObject \/ EndSendPartialObject
    PROVE  ContentsInv'
<1>0. TypeOK /\ Phases /\ Bounded /\ Uploading /\ Len(file) \in Nat /\ MaxSize \in Nat
  BY Sizes DEF ContentsInv, TypeOK
<1>1. CASE EndSendObject
  <2> USE <1>1 DEF EndSendObject, edit, host
  <2>1. Return /\ op = "SendObject" /\ exists /\ ~open
        /\ UNCHANGED <<open, mSize, pos, want, clean>>
    BY <1>0 DEF Phases
  <2>2. CASE failed
    <3>1. exists' = FALSE /\ file' = << >> /\ object_size' = 0
      BY <2>2
    <3>2. exists' \in BOOLEAN /\ ~exists'
      BY <3>1
    <3> HIDE DEF EndSendObject
    <3> QED BY <1>0, <2>1, <3>1, <3>2, EmptySeq, ReturnLemma DEF TypeOK
  <2>3. CASE ~failed
    <3>1. object_size' = Len(file) /\ UNCHANGED <<exists, file>>
      BY <2>3
    <3>2. clean' => file' = want' /\ Len(file') = size'
      BY <1>0, <2>1, <3>1 DEF Uploading, Uploads, size
    <3> HIDE DEF EndSendObject
    <3> QED BY <1>0, <2>1, <3>1, <3>2, ReturnLemma DEF TypeOK, Bounded
  <2> QED BY <2>2, <2>3
<1>2. CASE EndSendPartialObject
  <2>1. /\ Return /\ op = "SendPartialObject" /\ pc = "end" /\ open
        /\ mSize' = IF failed THEN mSize ELSE Most(mSize, offset + length)
        /\ UNCHANGED <<exists, file, object_size, open, pos, want, clean>>
    BY <1>0, <1>2 DEF EndSendPartialObject, disk, host, Phases
  <2>2. mSize' \in Nat
    BY <1>0, <2>1 DEF TypeOK, Most
  <2>3. clean' => file' = want' /\ Len(file') = size'
    <3> SUFFICES ASSUME clean' PROVE file' = want' /\ Len(file') = size'
      OBVIOUS
    <3>1. file = want /\ ~failed /\ Len(want) = Most(mSize, offset + length)
      BY <1>0, <2>1 DEF Uploading, Uploads
    <3> QED BY <2>1, <3>1 DEF size
  <2> QED BY <1>0, <2>1, <2>2, <2>3, ReturnLemma DEF TypeOK, Phases, Bounded
<1> QED BY <1>1, <1>2

LEMMA EditLemma ==
    ASSUME ContentsInv,
           \/ BeginEditObject
           \/ \E n \in 0 .. MaxSize : TruncateObject(n)
           \/ EndEditObject
    PROVE  ContentsInv'
<1>0. TypeOK /\ Phases /\ Bounded /\ Len(file) \in Nat /\ MaxSize \in Nat
  BY Sizes DEF ContentsInv, TypeOK
<1>1. AtOnce => op \notin Uploads
  BY <1>0 DEF AtOnce, Phases, Uploads
<1>2. AtOnce => (clean /\ exists => file = want /\ Len(file) = size)
  BY <1>1 DEF ContentsInv, Uploading
<1>3. CASE BeginEditObject
  <2> USE DEF BeginEditObject, disk, host
  <2>1. open' \in BOOLEAN /\ exists' /\ exists' \in BOOLEAN
    BY <1>0, <1>3 DEF TypeOK
  <2>2. size' = size
    BY <1>3 DEF size
  <2> QED BY <1>0, <1>2, <1>3, <2>1, <2>2, AtOnceLemma DEF TypeOK, Bounded
<1>4. ASSUME NEW n \in 0 .. MaxSize, TruncateObject(n)
      PROVE  ContentsInv'
  <2> USE <1>4 DEF TruncateObject
  <2>1. n \in Nat /\ Resize(file, n) \in Seq(Nat) /\ Len(Resize(file, n)) = n
        /\ Resize(want, n) \in Seq(Nat)
    BY <1>0, ResizeLemma DEF TypeOK
  <2>2. want' \in Seq(Nat)
    BY <1>0, <2>1 DEF TypeOK
  <2>3. exists /\ open' /\ exists' = exists
    BY <1>0 DEF Phases
  <2>4. clean' => file' = want' /\ Len(file') = size'
    BY <1>0, <1>2, <2>1, <2>3 DEF size
  <2>5. file' \in Seq(Nat) /\ Len(file') <= MaxSize /\ mSize' \in Nat
    BY <2>1
  <2> QED BY <1>0, <2>2, <2>3, <2>4, <2>5, AtOnceLemma DEF TypeOK, Bounded
<1>5. CASE EndEditObject
  <2> USE DEF EndEditObject, host
  <2>1. open' \in BOOLEAN /\ ~open'
    BY <1>5
  <2>2. Len(file') = size'
    BY <1>5 DEF size
  <2> QED BY <1>0, <1>2, <1>5, <2>1, <2>2, AtOnceLemma DEF TypeOK, Bounded
<1> QED BY <1>3, <1>4, <1>5

\* A length that ends within what the database says the file has.
LEMMA StartSendingLemma ==
    ASSUME ContentsInv, NEW off \in Nat, NEW len \in Nat, StartSending(off, len),
           off <= object_size => off + len <= object_size
    PROVE  ContentsInv'
<1>0. TypeOK /\ Phases /\ Bounded /\ Uploading
  BY DEF ContentsInv
<1>1. /\ pc = "idle" /\ op = "none" /\ op' = "GetObject" /\ total' = 0 /\ failed' = FALSE
      /\ sent' = << >> /\ pc' = "send" /\ offset' = off /\ at' = off /\ length' = len
      /\ announced' = (len + HeaderSize) % Word
      /\ UNCHANGED <<exists, file, object_size, open, mSize, pos, stream, want, clean>>
  BY <1>0 DEF StartSending, Enter, Idle, disk, edit, host, Phases
<1>2. TypeOK'
  <2>1. failed' \in BOOLEAN /\ << >> \in Seq(Nat) /\ 0 >= -MaxTimeouts
    BY <1>1, EmptySeq, Sizes
  <2>2. announced' \in 0 .. (Word - 1)
    BY <1>1, Sizes
  <2> QED BY <1>0, <1>1, <2>1, <2>2 DEF TypeOK
<1>3. Phases'
  BY <1>0, <1>1 DEF Phases, Idle, Uploads
<1>4. Bounded'
  BY <1>0, <1>1 DEF Bounded
<1>5. Uploading'
  BY <1>0, <1>1 DEF Uploading, Uploads, size
<1>6. Sending'
  <2>1. off <= object_size => announced' = len + HeaderSize
    <3> SUFFICES ASSUME off <= object_size PROVE announced' = len + HeaderSize
      OBVIOUS
    <3>1. len + HeaderSize \in 0 .. Word - 1
      BY <1>0, Sizes DEF Bounded, TypeOK
    <3> QED BY <1>1, <3>1, Sizes
  <2>2. actualsize' \in Nat
    BY <1>0, <1>1 DEF actualsize, TypeOK
  <2> QED BY <1>1, <2>1, <2>2 DEF Sending
<1> QED BY <1>2, <1>3, <1>4, <1>5, <1>6 DEF ContentsInv

LEMMA GetLemma ==
    ASSUME ContentsInv, GetObject \/ \E off, len \in 0 .. MaxSize : GetPartialObject(off, len)
    PROVE  ContentsInv'
<1>0. object_size \in Nat /\ object_size <= MaxSize /\ MaxSize \in Nat
  BY Sizes DEF ContentsInv, TypeOK, Bounded
<1>1. CASE GetObject
  <2>1. StartSending(0, object_size)
    BY <1>1 DEF GetObject
  <2> QED BY <1>0, <2>1, StartSendingLemma
<1>2. ASSUME NEW off \in 0 .. MaxSize, NEW len \in 0 .. MaxSize, GetPartialObject(off, len)
      PROVE  ContentsInv'
  <2> DEFINE cut == IF off + len > object_size THEN (object_size - off) % Word ELSE len
  <2>1. StartSending(off, cut) /\ off \in Nat
    BY <1>0, <1>2 DEF GetPartialObject
  <2>2. cut \in Nat
    BY <1>0, Sizes
  <2>3. ASSUME off <= object_size PROVE off + cut <= object_size
    <3>1. object_size - off \in 0 .. Word - 1
      BY <1>0, <2>3, Sizes
    <3>2. (object_size - off) % Word = object_size - off
      BY <3>1, Sizes
    <3> QED BY <1>0, <2>3, <3>2
  <2> HIDE DEF cut
  <2> QED BY <2>1, <2>2, <2>3, StartSendingLemma
<1> QED BY <1>1, <1>2

\* The block that is sent next fits its buffer, and fits behind what was sent.
LEMMA BlockLemma ==
    ASSUME ContentsInv, pc = "send"
    PROVE  /\ blocksize \in Nat /\ ofs + blocksize <= BlockSize
           /\ total \in Nat /\ actualsize \in Nat /\ total + blocksize <= actualsize
           /\ total + blocksize > 0 => offset + total + blocksize <= Len(file)
<1>1. op = "GetObject"
  BY DEF ContentsInv, Phases
<1>2. length \in Nat /\ total \in 0 .. actualsize /\ (sent = << >> => total = 0)
  BY <1>1 DEF ContentsInv, Sending
<1>3. Len(file) \in Nat /\ offset \in Nat
  BY DEF ContentsInv, TypeOK
<1>4. actualsize \in Nat /\ (actualsize > 0 => offset + actualsize <= Len(file))
  BY <1>2, <1>3 DEF actualsize
<1>5. ofs \in Nat /\ ofs < BlockSize
  BY Sizes DEF ofs
<1> HIDE DEF actualsize, ofs
<1>6. /\ blocksize \in Nat /\ ofs + blocksize <= BlockSize /\ total + blocksize <= actualsize
  BY <1>2, <1>4, <1>5, Sizes DEF blocksize
<1> HIDE DEF blocksize
<1> QED BY <1>2, <1>3, <1>4, <1>6

LEMMA SendBlockLemma ==
    ASSUME ContentsInv, SendBlock
    PROVE  ContentsInv'
<1>0. TypeOK /\ Phases /\ Bounded /\ Uploading /\ Sending /\ pc = "send" /\ op = "GetObject"
  BY DEF SendBlock, ContentsInv, Phases
<1> DEFINE head == IF ofs > 0 THEN Header ELSE << >>
<1>1. /\ total' = total + blocksize
      /\ pc' = IF total' < actualsize THEN "send" ELSE "end"
      /\ UNCHANGED <<exists, file, object_size, open, mSize, pos, op, stream, offset, length, failed,
                     announced, want, clean>>
  BY DEF SendBlock, disk, edit, mfr, host
<1>2. PICK got \in 0 .. blocksize : sent' = sent \o head \o Block(got) /\ at' = at + got
  BY DEF SendBlock
<1>3. /\ blocksize \in Nat /\ total \in Nat /\ actualsize \in Nat /\ total + blocksize <= actualsize
      /\ total + blocksize > 0 => offset + total + blocksize <= Len(file)
  BY <1>0, BlockLemma
<1>4. actualsize' = actualsize
  BY <1>1 DEF actualsize
<1>5. /\ at \in Nat /\ offset \in Nat /\ at <= offset + total /\ Len(file) \in Nat
      /\ \A i \in 1 .. Len(file) : file[i] \in Nat
      /\ sent \in Seq(Nat \cup {Stale}) /\ Len(sent) \in Nat
      /\ HeaderSize \in Nat \ {0}
  BY <1>0, Sizes DEF TypeOK, Sending
<1>6. /\ Block(got) \in Seq(Nat \cup {Stale}) /\ Len(Block(got)) = blocksize
      /\ \A i \in 1 .. blocksize : Block(got)[i] = IF i <= got THEN file[at + i] ELSE Stale
  <2>1. \A i \in 1 .. blocksize : i <= got => at + i \in 1 .. Len(file)
    BY <1>3, <1>5
  <2>2. \A i \in 1 .. blocksize : (IF i <= got THEN file[at + i] ELSE Stale) \in Nat \cup {Stale}
    BY <1>5, <2>1
  <2> HIDE DEF blocksize
  <2>3. Block(got) = [i \in 1 .. blocksize |-> IF i <= got THEN file[at + i] ELSE Stale]
    BY DEF Block
  <2> QED BY <1>3, <2>2, <2>3
<1> DEFINE Byte == Nat \cup {Stale}
           pre == sent \o head
           n == HeaderSize + total
<1> HIDE DEF blocksize, actualsize
<1>7. /\ pre \in Seq(Byte) /\ Len(pre) = n
      /\ \A k \in 1 .. n : pre[k] = IF sent = << >> THEN Header[k] ELSE sent[k]
      /\ sent # << >> => Len(sent) = n
      /\ sent = << >> => total = 0
  <2>1. CASE sent = << >>
    <3>1. head = Header /\ total = 0
      BY <1>0, <1>5, <2>1 DEF ofs, Sending
    <3>2. pre = Header
      BY <2>1, <3>1, HeaderLemma, ConcatEmptySeq
    <3>3. Header \in Seq(Byte)
      BY HeaderLemma, SeqMonotonic
    <3> QED BY <1>5, <2>1, <3>1, <3>2, <3>3, HeaderLemma
  <2>2. CASE sent # << >>
    <3>1. head = << >> /\ Len(sent) = n
      BY <1>0, <2>2 DEF ofs, Sending
    <3>2. pre = sent
      BY <1>5, <3>1, ConcatEmptySeq
    <3> QED BY <1>5, <2>2, <3>1, <3>2
  <2> QED BY <2>1, <2>2
<1>8. n \in Nat \ {0}
  BY <1>3, <1>5
<1>9. /\ sent' \in Seq(Byte) /\ Len(sent') = n + blocksize
      /\ \A k \in 1 .. n : sent'[k] = pre[k]
      /\ \A k \in 1 .. blocksize : sent'[n + k] = IF k <= got THEN file[at + k] ELSE Stale
  <2> DEFINE b == Block(got)
  <2>1. /\ pre \in Seq(Byte) /\ b \in Seq(Byte) /\ Len(b) = blocksize /\ sent' = pre \o b
        /\ \A k \in 1 .. blocksize : b[k] = IF k <= got THEN file[at + k] ELSE Stale
    BY <1>2, <1>6, <1>7
  <2>2. Len(pre) = n
    BY <1>7
  <2> HIDE DEF pre, b, Byte
  <2>3. /\ pre \o b \in Seq(Byte) /\ Len(pre \o b) = Len(pre) + Len(b)
        /\ \A k \in 1 .. Len(pre) + Len(b) :
              (pre \o b)[k] = IF k <= Len(pre) THEN pre[k] ELSE b[k - Len(pre)]
    BY <2>1, ConcatProperties
  <2> HIDE DEF n
  <2>4. \A k \in 1 .. n : k \in 1 .. n + blocksize /\ k <= n
    BY <1>3, <1>8
  <2>5. \A k \in 1 .. blocksize : n + k \in 1 .. n + blocksize /\ ~(n + k <= n) /\ n + k - n = k
    BY <1>3, <1>8
  <2> QED BY <2>1, <2>2, <2>3, <2>4, <2>5
<1> HIDE DEF pre, head
<1> DEFINE Kept(k) == \A l \in 1 .. k : sent'[l] # Stale
<1>10. \A k \in Nat : Asked(k)' = Asked(k)
  BY <1>1 DEF Asked
<1>11. ASSUME NEW k \in 1 .. n, Kept(k)
       PROVE  sent'[k] = Asked(k)
  <2>1. sent'[k] = pre[k] /\ k \in Nat
    BY <1>8, <1>9
  <2>2. CASE sent = << >>
    <3>1. k <= HeaderSize
      BY <1>5, <1>7, <2>2
    <3> QED BY <1>7, <2>1, <2>2, <3>1 DEF Asked
  <2>3. CASE sent # << >>
    <3>1. \A l \in 1 .. k : l \in 1 .. n /\ sent'[l] = sent[l]
      BY <1>7, <1>8, <1>9, <2>3
    <3>2. Genuine(k)
      BY <1>11, <3>1 DEF Genuine
    <3>3. sent[k] = Asked(k)
      BY <1>0, <1>7, <2>3, <3>2 DEF Sending
    <3> QED BY <2>1, <3>1, <3>3
  <2> QED BY <2>2, <2>3
<1>12. Kept(n) => at = offset + total
  <2>1. CASE sent = << >>
    <3>1. Genuine(Len(sent))
      BY <2>1, EmptySeq DEF Genuine
    <3> QED BY <1>0, <3>1 DEF Sending
  <2>2. CASE sent # << >>
    <3>1. \A l \in 1 .. n : sent'[l] = sent[l]
      BY <1>7, <1>9, <2>2
    <3>2. Kept(n) => Genuine(Len(sent))
      BY <1>7, <2>2, <3>1 DEF Genuine
    <3> QED BY <1>0, <3>2 DEF Sending
  <2> QED BY <2>1, <2>2
<1>13. ASSUME NEW k \in 1 .. blocksize, Kept(n + k)
       PROVE  k <= got /\ sent'[n + k] = Asked(n + k)
  <2>0. k \in Nat /\ k >= 1 /\ n + k \in 1 .. n + k /\ \A l \in 1 .. n : l \in 1 .. n + k
    BY <1>3, <1>8
  <2>1. sent'[n + k] # Stale /\ Kept(n)
    BY <1>13, <2>0
  <2>2. k <= got /\ sent'[n + k] = file[at + k]
    BY <1>9, <2>1
  <2>3. at = offset + total
    BY <1>12, <2>1
  <2> DEFINE m == n + k
  <2>4. ~(m <= HeaderSize) /\ offset + (m - HeaderSize) = at + k
    BY <1>3, <1>5, <2>0, <2>3
  <2> HIDE DEF n, m
  <2>5. Asked(m) = file[at + k]
    BY ONLY <2>4 DEF Asked
  <2> QED BY <2>2, <2>5 DEF m
<1>14. \A k \in 1 .. n + blocksize : Kept(k) => sent'[k] = Asked(k)
  <2> SUFFICES ASSUME NEW k \in 1 .. n + blocksize, Kept(k)
               PROVE  sent'[k] = Asked(k)
    OBVIOUS
  <2>1. CASE k <= n
    <3>1. k \in 1 .. n
      BY <1>3, <1>8, <2>1
    <3> QED BY <1>11, <3>1
  <2>2. CASE k > n
    <3> DEFINE l == k - n
    <3>1. l \in 1 .. blocksize /\ k = n + l
      BY <1>3, <1>8, <2>2
    <3> HIDE DEF l, n, Kept
    <3>2. Kept(n + l)
      BY <3>1
    <3>3. sent'[n + l] = Asked(n + l)
      BY <1>13, <3>1, <3>2
    <3> QED BY <3>1, <3>3
  <2> QED BY <1>3, <1>8, <2>1, <2>2
<1>15. IF Kept(n + blocksize) THEN at' = offset + (total + blocksize)
                              ELSE at' <= offset + (total + blocksize)
  <2>1. at' = at + got /\ got <= blocksize /\ got \in Nat
    BY <1>2, <1>3
  <2>2. ASSUME Kept(n + blocksize)
        PROVE  at = offset + total /\ got = blocksize
    <3>0. \A l \in 1 .. n : l \in 1 .. n + blocksize
      BY <1>3, <1>8
    <3>1. Kept(n)
      BY <2>2, <3>0
    <3>2. blocksize # 0 => blocksize <= got
      <4> HIDE DEF Kept, n
      <4> QED BY <1>3, <1>13, <2>2
    <3> QED BY <1>3, <1>12, <2>1, <3>1, <3>2
  <2> HIDE DEF n, Kept
  <2> QED BY <1>3, <1>5, <2>1, <2>2
<1>16. sent' # << >> /\ Len(sent') = HeaderSize + total'
  BY <1>1, <1>3, <1>5, <1>8, <1>9, EmptySeq
<1>17. TypeOK'
  <2>1. total' \in Int /\ total' >= -MaxTimeouts /\ pc' \in {"send", "end"}
    BY <1>1, <1>3, Sizes
  <2>2. at' \in Nat /\ sent' \in Seq(Nat \cup {Stale})
    BY <1>2, <1>3, <1>5, <1>9
  <2> QED BY <1>0, <1>1, <2>1, <2>2 DEF TypeOK
<1>18. Phases'
  BY <1>0, <1>1 DEF Phases, Idle, Uploads
<1>19. Bounded'
  BY <1>0, <1>1 DEF Bounded
<1>20. Uploading'
  BY <1>0, <1>1 DEF Uploading, Uploads, size
<1>21. Sending'
  <2>1. length' \in Nat /\ (offset' <= object_size' =>
           offset' + length' <= object_size' /\ announced' = length' + HeaderSize)
    BY <1>0, <1>1 DEF Sending
  <2>2. total' \in 0 .. actualsize' /\ (pc' = "end" => total' = actualsize')
    BY <1>1, <1>3, <1>4
  <2>3. /\ \A k \in 1 .. Len(sent') : Genuine(k)' => sent'[k] = Asked(k)'
        /\ IF Genuine(Len(sent))' THEN at' = offset' + total' ELSE at' <= offset' + total'
    <3> DEFINE all == n + blocksize
    <3>1. all \in Nat /\ Len(sent') = all /\ offset' = offset /\ total' = total + blocksize
      BY <1>1, <1>3, <1>8, <1>9
    <3>2. \A k \in Nat : Genuine(k)' = Kept(k)
      BY DEF Genuine
    <3>3. Genuine(Len(sent))' = Kept(all)
      BY <3>1 DEF Genuine
    <3> HIDE DEF all, Kept
    <3>4. \A k \in 1 .. all : k \in Nat
      BY <3>1
    <3>5. \A k \in 1 .. all : Kept(k) => sent'[k] = Asked(k)
      BY <1>14 DEF all
    <3>6. IF Kept(all) THEN at' = offset + (total + blocksize) ELSE at' <= offset + (total + blocksize)
      BY <1>15 DEF all
    <3> QED BY <1>10, <3>1, <3>2, <3>3, <3>4, <3>5, <3>6
  <2> QED BY <1>16, <2>1, <2>2, <2>3 DEF Sending
<1> QED BY <1>17, <1>18, <1>19, <1>20, <1>21 DEF ContentsInv

LEMMA EndGetObjectLemma ==
    ASSUME ContentsInv, EndGetObject
    PROVE  ContentsInv'
<1>0. TypeOK /\ Phases /\ Bounded /\ Uploading
  BY DEF ContentsInv
<1>1. Return /\ op = "GetObject"
      /\ UNCHANGED <<exists, file, object_size, open, mSize, pos, want, clean>>
  BY DEF EndGetObject, disk, edit, host
<1>2. clean' /\ exists' => file' = want' /\ Len(file') = size'
  BY <1>0, <1>1 DEF Uploading, Uploads, size
<1> QED BY <1>0, <1>1, <1>2, ReturnLemma DEF TypeOK, Phases, Bounded

\* ContentsInv is inductive.
LEMMA StepInv == ContentsInv /\ [Next]_vars => ContentsInv'
<1> SUFFICES ASSUME ContentsInv, [Next]_vars PROVE ContentsInv'
  OBVIOUS
<1>1. CASE Request
  <2>1. ASSUME NEW data \in Data, NEW n \in 0 .. MaxSize, SendObject(data, n)
        PROVE  ContentsInv'
    BY <2>1, SendObjectLemma
  <2>2. ASSUME NEW data \in Data, NEW off \in 0 .. MaxSize, NEW len \in 0 .. MaxSize,
               Most(off, pos) + Len(data) <= MaxSize, SendPartialObject(data, off, len)
        PROVE  ContentsInv'
    BY <2>2, SendPartialObjectLemma
  <2> QED BY <1>1, <2>1, <2>2, EditLemma, GetLemma DEF Request
<1>2. CASE Handler
  BY <1>2, ReadFirstLemma, FirstFailsLemma, ReadBlockLemma, BlockTimesOutLemma, EndUploadLemma,
     SendBlockLemma, EndGetObjectLemma DEF Handler
<1>3. CASE UNCHANGED vars
  <2> USE <1>3 DEF vars, disk, edit, locals, mfr, out, host
  <2>1. TypeOK' /\ Phases' /\ Bounded'
    BY DEF ContentsInv, TypeOK, Phases, Bounded, Idle, Uploads
  <2>2. Uploading'
    BY DEF ContentsInv, Uploading, Uploads, size
  <2>3. Sending'
    BY DEF ContentsInv, Sending, actualsize, Genuine, Asked
  <2> QED BY <2>1, <2>2, <2>3 DEF ContentsInv
<1> QED BY <1>1, <1>2, <1>3 DEF Next

-----------------------------------------------------------------------------
(* What follows.                                                           *)

\* In every behaviour, what a transfer has moved and what it is still to move
\* make the whole.
THEOREM ContentsSafe == Spec => []ContentsInv
<1>1. Init => ContentsInv
  BY InitInv
<1>2. ContentsInv /\ [Next]_vars => ContentsInv'
  BY StepInv
<1> QED BY <1>1, <1>2, PTL DEF Spec

\* Unless a read timed out, a write failed, a length was wrong or a first
\* packet went elsewhere, the file receive_file leaves is what the host wrote.
THEOREM UploadsExact == Spec => []UploadExact
<1>1. ContentsInv => UploadExact
  BY DEF ContentsInv, Phases, Uploading, Uploads, UploadExact
<1> QED BY <1>1, ContentsSafe, PTL

\* Then the sizes in the database and in the edit are the file's.
THEOREM SizesKnown == Spec => []SizeKnown
<1>1. ContentsInv => SizeKnown
  BY DEF ContentsInv, Phases, Uploading, Uploads, SizeKnown
<1> QED BY <1>1, ContentsSafe, PTL

\* The loop of receive_file ends when, and only when, all has been read.
THEOREM ReceivesAll == Spec => []AllReceived
<1>1. ContentsInv => AllReceived
  <2> SUFFICES ASSUME ContentsInv, clean
               PROVE  (pc = "end" => stream = << >>) /\ (pc = "receive" => stream # << >>)
    BY DEF AllReceived
  <2>1. pc = "receive" => stream # << >>
    BY DEF ContentsInv, Uploading
  <2>2. pc = "end" => stream = << >>
    BY DEF ContentsInv, Phases, Uploading
  <2> QED BY <2>1, <2>2
<1> QED BY <1>1, ContentsSafe, PTL

\* If the database has the right size of the file, send_file sends as many
\* bytes as it announced, and they are the header and the bytes asked for up
\* to the first that read() did not give.
THEOREM DownloadsExact == Spec => []DownloadExact
<1>1. ContentsInv => DownloadExact
  <2> SUFFICES ASSUME ContentsInv, pc = "end", op = "GetObject", object_size = Len(file),
                      offset <= Len(file)
               PROVE  /\ Len(sent) = announced
                      /\ \A i \in 1 .. Len(sent) : Genuine(i) => sent[i] = Asked(i)
    BY DEF DownloadExact
  <2>1. /\ length \in Nat /\ offset + length <= Len(file) /\ announced = length + HeaderSize
        /\ Len(sent) = HeaderSize + total /\ total = actualsize
        /\ \A i \in 1 .. Len(sent) : Genuine(i) => sent[i] = Asked(i)
    BY DEF ContentsInv, Sending
  <2>2. offset \in Nat /\ Len(file) \in Nat
    BY DEF ContentsInv, TypeOK
  <2>3. total = length
    BY <2>1, <2>2 DEF actualsize
  <2> QED BY <2>1, <2>3, Sizes
<1> QED BY <1>1, ContentsSafe, PTL

\* Even with a stale size send_file never sends more than it announced.
THEOREM StaysWithinAnnounced == Spec => []WithinAnnounced
<1>1. ContentsInv => WithinAnnounced
  <2> SUFFICES ASSUME ContentsInv, op = "GetObject", offset <= object_size
               PROVE  Len(sent) <= announced
    BY DEF WithinAnnounced
  <2>1. /\ length \in Nat /\ announced = length + HeaderSize /\ total \in 0 .. actualsize
        /\ sent # << >> => Len(sent) = HeaderSize + total
    BY DEF ContentsInv, Sending
  <2>2. offset \in Nat /\ Len(file) \in Nat
    BY DEF ContentsInv, TypeOK
  <2>3. total \in Nat /\ total <= length
    BY <2>1, <2>2 DEF actualsize
  <2> QED BY <2>1, <2>3, EmptySeq, Sizes
<1> QED BY <1>1, ContentsSafe, PTL

\* No block of send_file overruns the buffer.
THEOREM BlocksFitHolds == Spec => []BlocksFit
<1>1. ContentsInv => BlocksFit
  BY BlockLemma DEF BlocksFit
<1> QED BY <1>1, ContentsSafe, PTL
=============================================================================
