----------------------------- MODULE Main_proofs -----------------------------
(***************************************************************************)
(* ProgramInv is inductive: for every page and packet size, every number   *)
(* of endpoints, and wherever set-up fails, the program transfers over     *)
(* complete interfaces only, within its buffers, and frees all it has.     *)
(* Then: a handler finds the parameters of its request in the buffer.      *)
(* What the host sends arrives in order, a request is one short packet,    *)
(* and a read that goes on after a packet began with one of a data phase.  *)
(***************************************************************************)
EXTENDS Main, SequenceTheorems, TLAPS

Sound(c) ==
    /\ c \in CallType /\ c.size > 0
    /\ IF c.dir = "read" THEN c.into # "none" /\ c.size = BufferSize[c.into]
       ELSE c.size = Len(c.data) /\ ~c.timed

CallPc ==
    {"nxlink", "request", "data", "log", "first", "receive", "reply", "response", "nxlinkStdioClose"}

-----------------------------------------------------------------------------
(* Endpoints and words.                                                    *)

\* An endpoint belongs to one of the two interfaces.
LEMMA EndpointLemma ==
    /\ DOMAIN bNumEndpoints = 1 .. 2 /\ bNumEndpoints \in [1 .. 2 -> Nat]
    /\ \A i \in 1 .. 2 : EndpointsOf(i) \subseteq Endpoint
    /\ \A i \in 1 .. 2 : \A e \in EndpointsOf(i) : e[1] = i
    /\ \A e \in Endpoint : e[1] \in 1 .. 2 /\ e \in EndpointsOf(e[1])
    /\ {<<1, 1>>, <<1, 2>>, <<2, 1>>, <<2, 2>>} \subseteq Endpoint
<1>1. DOMAIN bNumEndpoints = 1 .. 2 /\ bNumEndpoints \in [1 .. 2 -> Nat]
  <2>1. bNumEndpoints \in Seq(Nat \ {0}) /\ Len(bNumEndpoints) = 2
    BY UsbAssumption, MainAssumption
  <2>2. DOMAIN bNumEndpoints = 1 .. 2
    BY <2>1, LenProperties
  <2>3. bNumEndpoints \in [1 .. 2 -> Nat \ {0}]
    BY <2>1, LenProperties
  <2> QED BY <2>2, <2>3
<1>2. \A i \in 1 .. 2 : EndpointsOf(i) \subseteq Endpoint
  BY <1>1 DEF Endpoint
<1>3. \A i \in 1 .. 2 : \A e \in EndpointsOf(i) : e[1] = i
  BY DEF EndpointsOf
<1>4. \A e \in Endpoint : e[1] \in 1 .. 2 /\ e \in EndpointsOf(e[1])
  BY <1>1, <1>3 DEF Endpoint
<1>5. 1 \in 1 .. bNumEndpoints[1] /\ 2 \in 1 .. bNumEndpoints[1]
      /\ 1 \in 1 .. bNumEndpoints[2] /\ 2 \in 1 .. bNumEndpoints[2]
  BY <1>1, MainAssumption
<1>6. /\ <<1, 1>> \in EndpointsOf(1) /\ <<1, 2>> \in EndpointsOf(1)
      /\ <<2, 1>> \in EndpointsOf(2) /\ <<2, 2>> \in EndpointsOf(2)
  BY <1>5 DEF EndpointsOf
<1> QED BY <1>1, <1>2, <1>3, <1>4, <1>6

\* What the program writes is a sequence of words.
LEMMA TextLemma ==
    ASSUME NEW n \in Nat \ {0}
    PROVE  Text(n) \in Seq(Word) /\ Len(Text(n)) = n
<1>1. \A i \in 1 .. n : <<0, i>> \in Word
  BY DEF Word
<1> QED BY <1>1 DEF Text

\* Memory that holds one word everywhere.
LEMMA FilledLemma ==
    ASSUME NEW n \in Nat, NEW w \in Word
    PROVE  /\ [i \in 1 .. n |-> w] \in Seq(Word)
           /\ Len([i \in 1 .. n |-> w]) = n
  OBVIOUS

\* A transfer in packets is a sequence of sequences of words.
LEMMA CutLemma ==
    ASSUME NEW s \in Seq(Word)
    PROVE  Cut(s) \in Seq(Seq(Word))
<1>0. PacketSize \in Nat \ {0} /\ Len(s) \in Nat
  BY UsbAssumption
<1>1. Len(s) \div PacketSize + 1 \in Nat
  BY <1>0
<1>2. ASSUME NEW i \in 1 .. Len(s) \div PacketSize + 1
      PROVE  SubSeq(s, (i - 1) * PacketSize + 1, Lesser(i * PacketSize, Len(s))) \in Seq(Word)
  <2> DEFINE k == (i - 1) * PacketSize
  <2>1. k \in Nat /\ i * PacketSize \in Nat
    BY <1>0, <1>1
  <2>2. Lesser(i * PacketSize, Len(s)) \in Int /\ Lesser(i * PacketSize, Len(s)) <= Len(s)
    BY <2>1, <1>0 DEF Lesser
  <2>3. \A j \in k + 1 .. Lesser(i * PacketSize, Len(s)) : s[j] \in Word
    BY <2>1, <2>2
  <2> HIDE DEF k
  <2>4. k + 1 \in Int
    BY <2>1
  <2>5. SubSeq(s, k + 1, Lesser(i * PacketSize, Len(s))) \in Seq(Word)
    BY <2>2, <2>3, <2>4, SubSeqProperties
  <2> QED BY <2>5 DEF k
<1> DEFINE n == Len(s) \div PacketSize + 1
           part(i) == SubSeq(s, (i - 1) * PacketSize + 1, Lesser(i * PacketSize, Len(s)))
<1>3. Cut(s) = [i \in 1 .. n |-> part(i)]
  BY DEF Cut
<1>4. n \in Nat /\ \A i \in 1 .. n : part(i) \in Seq(Word)
  BY <1>1, <1>2
<1> HIDE DEF n, part
<1> QED BY <1>3, <1>4

\* The head of a queue goes to the end of the one before it.
LEMMA NextOfQueue ==
    ASSUME NEW S, NEW p \in Seq(S), NEW q \in Seq(S), q # << >>
    PROVE  Append(p, Head(q)) \o Tail(q) = p \o q
<1>1. Len(p) \in Nat /\ Len(q) \in Nat \ {0} /\ Head(q) = q[1] /\ Head(q) \in S
  BY EmptySeq, LenProperties, HeadTailProperties
<1>2. /\ Tail(q) \in Seq(S) /\ Len(Tail(q)) = Len(q) - 1
      /\ \A i \in 1 .. Len(q) - 1 : Tail(q)[i] = q[i + 1]
  BY HeadTailProperties
<1> DEFINE a == Append(p, Head(q))
           b == Tail(q)
<1>3. /\ a \in Seq(S) /\ Len(a) = Len(p) + 1
      /\ \A i \in 1 .. Len(p) : a[i] = p[i]
      /\ a[Len(p) + 1] = q[1]
  BY <1>1, AppendProperties
<1>4. b \in Seq(S) /\ Len(b) = Len(q) - 1 /\ \A i \in 1 .. Len(q) - 1 : b[i] = q[i + 1]
  BY <1>2
<1> HIDE DEF a, b
<1>5. /\ a \o b \in Seq(S) /\ Len(a \o b) = Len(a) + Len(b)
      /\ \A i \in 1 .. Len(a) + Len(b) : (a \o b)[i] = IF i <= Len(a) THEN a[i] ELSE b[i - Len(a)]
  BY <1>3, <1>4, ConcatProperties
<1>6. /\ p \o q \in Seq(S) /\ Len(p \o q) = Len(p) + Len(q)
      /\ \A i \in 1 .. Len(p) + Len(q) : (p \o q)[i] = IF i <= Len(p) THEN p[i] ELSE q[i - Len(p)]
  BY ConcatProperties
<1>7. ASSUME NEW i \in 1 .. Len(p) + Len(q)
      PROVE  (a \o b)[i] = (p \o q)[i]
  <2>1. i \in 1 .. Len(a) + Len(b)
    BY <1>1, <1>3, <1>4
  <2>2. CASE i <= Len(p)
    BY <1>1, <1>3, <1>5, <1>6, <2>1, <2>2
  <2>3. CASE i = Len(p) + 1
    <3>1. i <= Len(a) /\ ~(i <= Len(p)) /\ i - Len(p) = 1
      BY <1>1, <1>3, <2>3
    <3> QED BY <1>3, <1>5, <1>6, <2>1, <2>3, <3>1
  <2>4. CASE i > Len(p) + 1
    <3>1. /\ ~(i <= Len(a)) /\ ~(i <= Len(p)) /\ i - Len(a) \in 1 .. Len(q) - 1
          /\ (i - Len(a)) + 1 = i - Len(p)
      BY <1>1, <1>3, <2>4
    <3> QED BY <1>4, <1>5, <1>6, <2>1, <3>1
  <2>5. i <= Len(p) \/ i = Len(p) + 1 \/ i > Len(p) + 1
    BY <1>1
  <2> QED BY <2>2, <2>3, <2>4, <2>5
<1>8. a \o b = p \o q
  <2>1. Len(a \o b) = Len(p \o q) /\ Len(a \o b) = Len(p) + Len(q)
    BY <1>1, <1>3, <1>4, <1>5, <1>6
  <2> QED BY <1>5, <1>6, <1>7, <2>1, SeqEqual
<1> QED BY <1>8 DEF a, b

-----------------------------------------------------------------------------
(* The initial state.                                                      *)

LEMMA InitInv == Init => ProgramInv
<1> SUFFICES ASSUME Init PROVE ProgramInv
  OBVIOUS
<1> USE DEF Init, UsbInit
<1>1. TypeOK
  <2>1. NoCall \in CallType
    BY EndpointLemma DEF NoCall, Write, CallType
  <2>2. InterfacesOK
    BY DEF InterfacesOK
  <2>3. WiresOK
    <3>1. << >> \in Seq(Seq(Word)) /\ << >> \in Seq([params : Nat, data : Nat, upload : BOOLEAN])
      BY EmptySeq
    <3>2. pipe \in [Endpoint -> Seq(Seq(Word))] /\ toSend \in Seq(Seq(Word))
          /\ sent \in Seq([params : Nat, data : Nat, upload : BOOLEAN])
      BY <3>1
    <3>3. listening \subseteq Endpoint
      BY EndpointLemma DEF mtp, serial
    <3> QED BY <3>2, <3>3 DEF WiresOK
  <2>4. PICK garbage \in {<<junk, junk>>, START} :
           memory = [b \in DOMAIN BufferSize |->
                        IF b = "start" THEN garbage ELSE [i \in 1 .. BufferSize[b] |-> junk]]
    OBVIOUS
  <2>5. ASSUME NEW b \in DOMAIN BufferSize
        PROVE  memory[b] \in Seq(Word) /\ Len(memory[b]) = BufferSize[b]
    <3>1. junk \in Word /\ <<0, -1>> \in Word /\ <<0, -2>> \in Word
      BY DEF junk, Word
    <3>2. garbage \in Seq(Word) /\ Len(garbage) = 2
      <4>1. CASE garbage = <<junk, junk>>
        BY <3>1, <4>1
      <4>2. CASE garbage = START
        <5>1. garbage = <<<<0, -1>>, <<0, -2>>>>
          BY <4>2 DEF START
        <5> QED BY <3>1, <5>1
      <4> QED BY <2>4, <4>1, <4>2
    <3>3. BufferSize[b] \in Nat /\ BufferSize["start"] = 2
      BY UsbAssumption, MainAssumption
    <3>4. memory[b] = IF b = "start" THEN garbage ELSE [i \in 1 .. BufferSize[b] |-> junk]
      BY <2>4
    <3> QED BY <3>1, <3>2, <3>3, <3>4, FilledLemma
  <2>6. memory \in [DOMAIN BufferSize -> Seq(Word)]
    BY <2>4, <2>5
  <2>7. TransferOK
    <3>1. << >> \in Seq(Word) /\ << >> \in Seq(Seq(Word))
      BY EmptySeq
    <3>2. urb \in Seq(Word) /\ moved \in Seq(Seq(Word))
      BY <3>1
    <3>3. call \in CallType
      BY <2>1
    <3>4. \A b \in DOMAIN BufferSize : Len(memory[b]) = BufferSize[b]
      BY <2>5
    <3>5. step \in {"idle", "wait", "post", "posted", "failed", "returned"}
          /\ total \in Nat /\ posted \in Nat /\ result \in Int
      OBVIOUS
    <3>6. retried \in BOOLEAN /\ whole \in BOOLEAN
      OBVIOUS
    <3> QED BY <2>6, <3>2, <3>3, <3>4, <3>5, <3>6 DEF TransferOK
  <2>8. ProgramOK
    BY DEF ProgramOK, PcValue
  <2> QED BY <2>2, <2>3, <2>7, <2>8 DEF TypeOK
<1>2. NothingLeaks
  BY DEF NothingLeaks
<1>3. SetUpInOrder
  BY DEF SetUpInOrder
<1>4. ChunkFits
  BY DEF ChunkFits, Transferring
<1> QED BY <1>1, <1>2, <1>3, <1>4 DEF ProgramInv

-----------------------------------------------------------------------------
(* usbInitialize and usbExit.                                              *)

LEMMA SetUpLemma ==
    ASSUME ProgramInv, SetUp, UNCHANGED <<rigid, stopThread, host>>
    PROVE  ProgramInv'
<1> USE DEF ProgramInv, SetUp, usbInitialize, Goes, program, rigid, host, wires, transfer, chunk, history
<1>0. pc = "usbInitialize" /\ pc' = pc /\ step' = step /\ ~Transferring /\ call' = call
  BY DEF ChunkFits, Transferring
<1>1. TypeOK'
  <2> USE DEF TypeOK
  <2>1. index \in 1 .. 2 /\ EndpointsOf(index) \subseteq Endpoint /\ bNumEndpoints[index] \in Nat
    BY EndpointLemma DEF InterfacesOK
  <2>2. \A n \in 0 .. bNumEndpoints[index] : {<<index, e>> : e \in 1 .. n} \subseteq Endpoint
    BY <2>1 DEF EndpointsOf
  <2>3. InterfacesOK'
    <3>1. CASE OpenSession
      BY <3>1 DEF OpenSession, InterfacesOK
    <3>2. CASE AllocateBuffers
      BY <3>2, <2>1, <2>2 DEF AllocateBuffers, InterfacesOK
    <3>3. CASE RegisterInterface
      BY <3>3 DEF RegisterInterface, InterfacesOK, interfaces
    <3>4. CASE RegisterEndpoints
      BY <3>4, <2>1, <2>2 DEF RegisterEndpoints, InterfacesOK
    <3>5. CASE EnableInterface
      BY <3>5 DEF EnableInterface, InterfacesOK, interfaces
    <3>6. CASE Enable
      BY <3>6 DEF Enable, InterfacesOK
    <3>7. CASE InitializeFails
      BY <3>7 DEF InitializeFails, usbExit, InterfacesOK
    <3> QED BY <3>1, <3>2, <3>3, <3>4, <3>5, <3>6, <3>7
  <2>4. WiresOK' /\ TransferOK' /\ ProgramOK'
    BY DEF WiresOK, TransferOK, ProgramOK, PcValue
  <2> QED BY <2>3, <2>4
<1>2. NothingLeaks'
  <2>1. CASE OpenSession
    BY <2>1, <1>0 DEF OpenSession, NothingLeaks, SetUpInOrder, TypeOK, InterfacesOK
  <2>2. CASE AllocateBuffers
    BY <2>2, <1>0 DEF AllocateBuffers, NothingLeaks, TypeOK, InterfacesOK
  <2>3. CASE RegisterInterface
    BY <2>3, <1>0 DEF RegisterInterface, NothingLeaks, interfaces
  <2>4. CASE RegisterEndpoints
    BY <2>4, <1>0 DEF RegisterEndpoints, NothingLeaks, SetUpInOrder
  <2>5. CASE EnableInterface
    BY <2>5, <1>0 DEF EnableInterface, NothingLeaks, interfaces
  <2>6. CASE Enable
    BY <2>6, <1>0 DEF Enable, NothingLeaks
  <2>7. CASE InitializeFails
    BY <2>7, <1>0 DEF InitializeFails, usbExit, NothingLeaks
  <2> QED BY <2>1, <2>2, <2>3, <2>4, <2>5, <2>6, <2>7
<1>3. SetUpInOrder'
  <2>0. index \in Int /\ num_interfaces \in Int
    BY DEF TypeOK, InterfacesOK
  <2>1. CASE OpenSession
    BY <2>1, <1>0, <2>0 DEF OpenSession, SetUpInOrder, Complete
  <2>2. CASE AllocateBuffers
    <3>1. EndpointsOf(index) = {<<index, e>> : e \in 1 .. bNumEndpoints[index]}
      BY DEF EndpointsOf
    <3>2. setup' = "register" => EndpointsOf(index) \subseteq buffer'
      BY <2>2, <3>1 DEF AllocateBuffers
    <3>3. \A i \in Int : Complete(i) => Complete(i)'
      BY <2>2 DEF AllocateBuffers, Complete, EndpointsOf
    <3> QED BY <2>2, <1>0, <2>0, <3>2, <3>3 DEF AllocateBuffers, SetUpInOrder, EndpointsOf
  <2>3. CASE RegisterInterface
    BY <2>3, <1>0, <2>0 DEF RegisterInterface, SetUpInOrder, Complete, interfaces, EndpointsOf
  <2>4. CASE RegisterEndpoints
    <3>1. EndpointsOf(index) = {<<index, e>> : e \in 1 .. bNumEndpoints[index]}
      BY DEF EndpointsOf
    <3>2. setup' = "enable" => EndpointsOf(index) \subseteq endpoint'
      BY <2>4, <3>1 DEF RegisterEndpoints
    <3>3. setup' = "enable" => Complete(index)'
      BY <2>4, <3>2 DEF RegisterEndpoints, Complete, SetUpInOrder, EndpointsOf
    <3>4. \A i \in Int : Complete(i) => Complete(i)'
      BY <2>4 DEF RegisterEndpoints, Complete, EndpointsOf
    <3> QED BY <2>4, <1>0, <2>0, <3>3, <3>4 DEF RegisterEndpoints, SetUpInOrder
  <2>5. CASE EnableInterface
    <3>1. \A i \in Int : Complete(i) => Complete(i)'
      BY <2>5 DEF EnableInterface, Complete, EndpointsOf, interfaces
    <3>2. \A i \in 1 .. index : Complete(i)
      BY <2>5, <1>0, <2>0 DEF EnableInterface, SetUpInOrder
    <3> QED BY <2>5, <1>0, <2>0, <3>1, <3>2 DEF EnableInterface, SetUpInOrder, interfaces
  <2>6. CASE Enable
    BY <2>6, <1>0, <2>0 DEF Enable, SetUpInOrder, Complete, EndpointsOf
  <2>7. CASE InitializeFails
    BY <2>7, <1>0 DEF InitializeFails, SetUpInOrder
  <2> QED BY <2>1, <2>2, <2>3, <2>4, <2>5, <2>6, <2>7
<1>4. ChunkFits'
  BY <1>0 DEF ChunkFits, Transferring
<1> QED BY <1>1, <1>2, <1>3, <1>4

LEMMA ExitLemma ==
    ASSUME ProgramInv, Exit, UNCHANGED <<rigid, stopThread, host>>
    PROVE  ProgramInv'
<1> USE DEF ProgramInv, Exit, usbExit, Goto, rigid, host, transfer, chunk, history
<1>1. TypeOK'
  <2>1. InterfacesOK'
    BY DEF TypeOK, InterfacesOK
  <2>2. WiresOK'
    BY DEF TypeOK, WiresOK
  <2>3. TransferOK' /\ ProgramOK'
    BY DEF TypeOK, TransferOK, ProgramOK, PcValue
  <2> QED BY <2>1, <2>2, <2>3 DEF TypeOK
<1>2. NothingLeaks'
  BY DEF NothingLeaks
<1>3. SetUpInOrder'
  BY DEF SetUpInOrder
<1>4. ChunkFits'
  <2>1. ~Transferring /\ step' = step
    BY DEF ChunkFits
  <2> QED BY <2>1 DEF ChunkFits, Transferring
<1> QED BY <1>1, <1>2, <1>3, <1>4

-----------------------------------------------------------------------------
(* The program.                                                            *)

\* A call that is sound is made over an endpoint that is there, or returns at
\* once.
LEMMA CallsLemma ==
    ASSUME ProgramInv, NEW c, NEW next \in CallPc, Sound(c), Calls(c, next),
           pc \notin {"usbInitialize", "ended"},
           UNCHANGED <<rigid, stopThread, host, mRunning>>, mPacketSize' \in Nat
    PROVE  ProgramInv'
<1> USE DEF ProgramInv, Calls, Call, Goto, Steady, rigid, host, interfaces, wires, CallPc
<1>1. TypeOK'
  <2>1. InterfacesOK' /\ WiresOK'
    BY DEF TypeOK, InterfacesOK, WiresOK
  <2>2. TransferOK'
    <3>1. << >> \in Seq(Word) /\ << >> \in Seq(Seq(Word))
      BY EmptySeq
    <3>2. urb' \in Seq(Word) /\ moved' \in Seq(Seq(Word)) /\ call' \in CallType
      BY <3>1 DEF Sound
    <3>3. memory' \in [DOMAIN BufferSize -> Seq(Word)]
          /\ \A b \in DOMAIN BufferSize : Len(memory'[b]) = BufferSize[b]
      BY DEF TypeOK, TransferOK
    <3>4. step' \in {"idle", "wait", "post", "posted", "failed", "returned"}
          /\ total' \in Nat /\ posted' \in Nat /\ result' \in Int
      OBVIOUS
    <3>5. retried' \in BOOLEAN /\ whole' \in BOOLEAN
      OBVIOUS
    <3> QED BY <3>2, <3>3, <3>4, <3>5 DEF TransferOK
  <2>3. ProgramOK'
    BY DEF TypeOK, ProgramOK, PcValue
  <2> QED BY <2>1, <2>2, <2>3 DEF TypeOK
<1>2. NothingLeaks'
  BY DEF NothingLeaks
<1>3. SetUpInOrder'
  BY DEF SetUpInOrder, Complete, EndpointsOf
<1>4. ChunkFits'
  <2>1. step' \in {"wait", "returned"}
    OBVIOUS
  <2>2. CASE step' = "wait"
    <3>1. c.ep \in Endpoint /\ c.ep[1] \in initialized
      BY <2>2 DEF Sound, CallType
    <3>2. setup = "done"
      BY <3>1 DEF SetUpInOrder, NothingLeaks
    <3>3. c.ep[1] \in 1 .. index
      BY <3>1, <3>2 DEF NothingLeaks, SetUpInOrder
    <3>4. Complete(c.ep[1])
      BY <3>2, <3>3 DEF SetUpInOrder, TypeOK, InterfacesOK
    <3>5. c.ep \in buffer \cap endpoint
      BY <3>1, <3>4, EndpointLemma DEF Complete
    <3> QED BY <2>2, <3>5 DEF ChunkFits, Transferring, Sound
  <2>3. CASE step' = "returned"
    BY <2>3 DEF ChunkFits, Transferring
  <2> QED BY <2>1, <2>2, <2>3
<1> QED BY <1>1, <1>2, <1>3, <1>4

\* Going on without a call.
LEMMA WaitsLemma ==
    ASSUME ProgramInv, NEW next, Waits(next),
           next \in {"nxlink", "main", "run", "top", "handle", "join", "usbExit"},
           ~Transferring, pc # "ended", setup \in {"done", "refused"},
           UNCHANGED <<rigid, stopThread, host>>, mRunning' \in BOOLEAN, mPacketSize' \in Nat
    PROVE  ProgramInv'
<1> USE DEF ProgramInv, Waits, Goto, Steady, rigid, host, interfaces, wires, transfer, chunk, history
<1>1. TypeOK'
  <2>1. InterfacesOK' /\ WiresOK'
    BY DEF TypeOK, InterfacesOK, WiresOK
  <2>2. TransferOK'
    BY DEF TypeOK, TransferOK
  <2>3. ProgramOK'
    BY DEF TypeOK, ProgramOK, PcValue
  <2> QED BY <2>1, <2>2, <2>3 DEF TypeOK
<1>2. NothingLeaks'
  BY DEF NothingLeaks
<1>3. SetUpInOrder'
  BY DEF SetUpInOrder, Complete, EndpointsOf
<1>4. ChunkFits'
  BY DEF ChunkFits, Transferring
<1> QED BY <1>1, <1>2, <1>3, <1>4

\* The calls of the program are sound.
LEMMA SoundLemma ==
    ASSUME ProgramInv
    PROVE  /\ \A timed \in BOOLEAN : Sound(Read(mtp.OUT, at, "mRequest", timed))
           /\ Sound(Read(mtp.OUT, at, "mData", TRUE))
           /\ Sound(Read(mtp.OUT, at, "initialData", TRUE)) /\ Sound(Read(mtp.OUT, 0, "buffer", TRUE))
           /\ Sound(Read(serial.OUT, at, "start", FALSE))
           /\ \A n \in Nat \ {0} : Sound(Write(mtp.IN, at, Text(n))) /\ Sound(Write(serial.IN, at, Text(n)))
<1>1. at \in Nat
  BY UsbAssumption, MainAssumption DEF ProgramInv, TypeOK, ProgramOK
<1>2. ASSUME NEW ep \in Endpoint, NEW place \in Nat, NEW b \in DOMAIN BufferSize, NEW timed \in BOOLEAN
      PROVE  Sound(Read(ep, place, b, timed))
  <2>1. BufferSize[b] \in Nat \ {0} /\ b # "none"
    BY UsbAssumption, MainAssumption
  <2>2. << >> \in Seq(Word)
    BY EmptySeq
  <2> QED BY <2>1, <2>2 DEF Sound, Read, CallType
<1>3. ASSUME NEW ep \in Endpoint, NEW n \in Nat \ {0}
      PROVE  Sound(Write(ep, at, Text(n)))
  BY <1>1, TextLemma DEF Sound, Write, CallType
<1>4. mtp.IN \in Endpoint /\ mtp.OUT \in Endpoint /\ serial.IN \in Endpoint /\ serial.OUT \in Endpoint
  BY EndpointLemma DEF mtp, serial
<1> QED BY <1>1, <1>2, <1>3, <1>4, MainAssumption

\* Every step of main, nxlinkStdioInitialise and the loop keeps the invariant.
LEMMA ProgramLemma ==
    ASSUME ProgramInv, UNCHANGED <<rigid, stopThread, host>>,
           \/ SetUpDone \/ AwaitStart \/ Run \/ Loop \/ RequestRead \/ DataRead
           \/ Log \/ ReadInitialData \/ ReceiveFile \/ Handle \/ Replied \/ Responded \/ Join \/ Closed
    PROVE  ProgramInv'
<1>0. /\ mRunning \in BOOLEAN /\ mPacketSize \in Nat /\ result \in Int
      /\ step \in {"idle", "wait", "post", "posted", "failed", "returned"}
      /\ (pc # "usbInitialize" => setup \in {"done", "refused"})
      /\ (Transferring => pc \in CallPc)
  BY DEF ProgramInv, TypeOK, ProgramOK, TransferOK, SetUpInOrder, ChunkFits, CallPc
<1> USE DEF Answered, CallPc
<1>1. CASE SetUpDone
  BY <1>0, <1>1, WaitsLemma DEF SetUpDone
<1>2. CASE AwaitStart
  <2>1. ~Transferring
    BY <1>2 DEF AwaitStart, Transferring
  <2>2. CASE Waits("main")
    BY <1>0, <1>2, <2>1, <2>2, WaitsLemma DEF AwaitStart
  <2>3. CASE Calls(Read(serial.OUT, at, "start", FALSE), "nxlink")
    BY <1>0, <1>2, <2>3, CallsLemma, SoundLemma DEF AwaitStart
  <2> QED BY <1>2, <2>2, <2>3 DEF AwaitStart
<1>3. CASE Run
  BY <1>0, <1>3, WaitsLemma DEF Run
<1>4. CASE Loop
  <2>1. CASE mRunning
    BY <1>0, <1>4, <2>1, CallsLemma, SoundLemma DEF Loop
  <2>2. CASE ~mRunning
    BY <1>0, <1>4, <2>2, WaitsLemma DEF Loop
  <2> QED BY <2>1, <2>2
<1>5. CASE RequestRead
  <2>1. ~Transferring /\ mPacketSize' \in Nat
    BY <1>0, <1>5 DEF RequestRead, Transferring
  <2>2. CASE Waits("top") \/ Waits("handle")
    BY <1>0, <1>5, <2>1, <2>2, WaitsLemma DEF RequestRead
  <2>3. CASE Calls(Read(mtp.OUT, at, "mData", TRUE), "data")
    BY <1>0, <1>5, <2>1, <2>3, CallsLemma, SoundLemma DEF RequestRead
  <2> QED BY <1>5, <2>2, <2>3 DEF RequestRead
<1>6. CASE DataRead
  <2>1. ~Transferring
    BY <1>6 DEF DataRead, Transferring
  <2> QED BY <1>0, <1>6, <2>1, WaitsLemma DEF DataRead
<1>7. CASE Log
  BY <1>0, <1>7, CallsLemma, SoundLemma DEF Log
<1>8. CASE Handle
  <2>1. CASE SendResponse
    BY <1>0, <1>8, <2>1, CallsLemma, SoundLemma DEF Handle, Handled, SendResponse
  <2>2. ASSUME NEW n \in ReplySize \ {0}, Calls(Write(mtp.IN, at, Text(n)), "reply")
        PROVE  ProgramInv'
    BY <1>0, <1>8, <2>2, CallsLemma, SoundLemma, MainAssumption DEF Handle, Handled
  <2> QED BY <1>8, <2>1, <2>2 DEF Handle
<1>9. CASE Replied
  <2>1. ~Transferring
    BY <1>9 DEF Replied, Transferring
  <2>2. CASE Waits("top")
    BY <1>0, <1>9, <2>1, <2>2, WaitsLemma DEF Replied
  <2>3. CASE SendResponse
    BY <1>0, <1>9, <2>3, CallsLemma, SoundLemma DEF Replied, SendResponse
  <2> QED BY <1>9, <2>2, <2>3 DEF Replied
<1>10. CASE Responded
  <2>1. ~Transferring
    BY <1>10 DEF Responded, Transferring
  <2> QED BY <1>0, <1>10, <2>1, WaitsLemma DEF Responded
<1>11. CASE Join
  <2>1. CASE Waits("usbExit")
    BY <1>0, <1>11, <2>1, WaitsLemma DEF Join
  <2>2. CASE Calls(Write(serial.IN, at, Text(2)), "nxlinkStdioClose")
    BY <1>0, <1>11, <2>2, CallsLemma, SoundLemma DEF Join
  <2> QED BY <1>11, <2>1, <2>2 DEF Join
<1>12. CASE Closed
  <2>1. ~Transferring
    BY <1>12 DEF Closed, Transferring
  <2> QED BY <1>0, <1>12, <2>1, WaitsLemma DEF Closed
<1>13. CASE ReadInitialData
  BY <1>0, <1>13, CallsLemma, SoundLemma DEF ReadInitialData
<1>14. CASE ReceiveFile
  BY <1>0, <1>14, CallsLemma, SoundLemma DEF ReceiveFile
<1> QED BY <1>1, <1>2, <1>3, <1>4, <1>5, <1>6, <1>7, <1>8, <1>9, <1>10, <1>11, <1>12, <1>13, <1>14

-----------------------------------------------------------------------------
(* usbTransfer.                                                            *)

\* What the caller has of the words of a chunk is still a buffer of its size.
LEMMA StoreLemma ==
    ASSUME TypeOK, NEW words \in Seq(Word), NEW over \in BOOLEAN, call.into \in DOMAIN BufferSize,
           Store(words, over)
    PROVE  /\ memory' \in [DOMAIN BufferSize -> Seq(Word)]
           /\ \A b \in DOMAIN BufferSize : Len(memory'[b]) = BufferSize[b]
<1> DEFINE kept == SubSeq(words, 1, Lesser(posted, Len(words)))
           old == memory[call.into]
           new == [i \in DOMAIN old |->
                      IF i \in total + 1 .. total + Len(kept) THEN kept[i - total] ELSE old[i]]
<1>1. /\ memory \in [DOMAIN BufferSize -> Seq(Word)]
      /\ \A b \in DOMAIN BufferSize : Len(memory[b]) = BufferSize[b]
      /\ total \in Nat /\ posted \in Nat
  BY DEF TypeOK, TransferOK
<1>2. kept \in Seq(Word)
  <2>1. Len(words) \in Nat
    BY LenProperties
  <2>2. Lesser(posted, Len(words)) \in Nat /\ Lesser(posted, Len(words)) <= Len(words)
    BY <1>1, <2>1 DEF Lesser
  <2> QED BY <2>1, <2>2, SubSeqProperties, ElementOfSeq
<1>3. memory' = IF offset = 0 \/ over THEN [memory EXCEPT ![call.into] = new] ELSE memory
  BY DEF Store
<1>4. old \in Seq(Word) /\ DOMAIN old = 1 .. Len(old) /\ Len(old) \in Nat
  BY <1>1, LenProperties
<1>5. new \in Seq(Word) /\ Len(new) = Len(old)
  <2>1. Len(kept) \in Nat /\ kept \in [1 .. Len(kept) -> Word] /\ old \in [1 .. Len(old) -> Word]
    BY <1>2, <1>4, LenProperties
  <2> HIDE DEF kept, old
  <2>2. ASSUME NEW i \in 1 .. Len(old)
        PROVE  new[i] \in Word
    <3>1. new[i] = IF i \in total + 1 .. total + Len(kept) THEN kept[i - total] ELSE old[i]
      BY <1>4
    <3>2. i \in total + 1 .. total + Len(kept) => i - total \in 1 .. Len(kept)
      BY <1>1, <2>1
    <3> QED BY <2>1, <3>1, <3>2
  <2>3. new = [i \in 1 .. Len(old) |-> new[i]]
    BY <1>4
  <2> HIDE DEF new
  <2> QED BY <1>4, <2>2, <2>3
<1> HIDE DEF new, old
<1>6. \A b \in DOMAIN BufferSize : memory'[b] = memory[b] \/ (memory'[b] = new /\ b = call.into)
  BY <1>1, <1>3
<1>7. memory' \in [DOMAIN BufferSize -> Seq(Word)]
  BY <1>1, <1>3, <1>5
<1> QED BY <1>1, <1>5, <1>6, <1>7 DEF old

\* Where the words of a chunk end up.
LEMMA StoredLemma ==
    ASSUME ProgramInv, call.into \in DOMAIN BufferSize, NEW words \in Seq(Word), NEW over \in BOOLEAN,
           Store(words, over)
    PROVE  LET old == memory[call.into]
               new == memory'[call.into]
               k   == Lesser(posted, Len(words))
           IN  /\ new \in Seq(Word) /\ Len(new) = Len(old) /\ k \in Nat /\ k <= Len(words)
               /\ IF offset = 0 \/ over
                  THEN \A i \in 1 .. Len(old) :
                          new[i] = IF i \in total + 1 .. total + k THEN words[i - total] ELSE old[i]
                  ELSE new = old
<1> DEFINE old == memory[call.into]
           k == Lesser(posted, Len(words))
           kept == SubSeq(words, 1, k)
           stored == [i \in DOMAIN old |->
                         IF i \in total + 1 .. total + Len(kept) THEN kept[i - total] ELSE old[i]]
<1>1. Len(words) \in Nat /\ posted \in Nat /\ total \in Nat
  BY LenProperties DEF ProgramInv, TypeOK, TransferOK
<1>2. k \in Nat /\ k <= Len(words)
  BY <1>1 DEF Lesser
<1> HIDE DEF k
<1>3. Len(kept) = k /\ \A i \in 1 .. k : kept[i] = words[i]
  <2>1. \A i \in 1 .. k : words[i] \in Word
    BY <1>1, <1>2, ElementOfSeq
  <2> QED BY <1>2, <2>1, SubSeqProperties
<1>4. memory' = IF offset = 0 \/ over THEN [memory EXCEPT ![call.into] = stored] ELSE memory
  BY DEF Store, k
<1>0. old \in Seq(Word) /\ memory \in [DOMAIN BufferSize -> Seq(Word)]
  BY DEF ProgramInv, TypeOK, TransferOK
<1>5. /\ memory'[call.into] \in Seq(Word) /\ Len(memory'[call.into]) = Len(old)
  BY StoreLemma DEF ProgramInv, TypeOK, TransferOK
<1>6. ASSUME offset = 0 \/ over, NEW i \in 1 .. Len(old)
      PROVE  memory'[call.into][i] = IF i \in total + 1 .. total + k THEN words[i - total] ELSE old[i]
  <2>1. memory'[call.into] = stored /\ i \in DOMAIN old
    BY <1>0, <1>4, <1>6, LenProperties
  <2>2. stored[i] = IF i \in total + 1 .. total + k THEN kept[i - total] ELSE old[i]
    BY <1>3, <2>1
  <2> HIDE DEF stored
  <2>3. i \in total + 1 .. total + k => i - total \in 1 .. k
    BY <1>1, <1>2
  <2> QED BY <1>3, <2>1, <2>2, <2>3
<1>7. ~(offset = 0 \/ over) => memory'[call.into] = old
  BY <1>4
<1> QED BY <1>2, <1>5, <1>6, <1>7 DEF k

\* The next packet is a sequence of words, and the pipe stays one of packets.
LEMMA ArrivesLemma ==
    ASSUME TypeOK, Arrives
    PROVE  /\ packet \in Seq(Word)
           /\ pipe' \in [Endpoint -> Seq(Seq(Word))]
           /\ moved' \in Seq(Seq(Word))
<1>1. call.ep \in Endpoint
  BY DEF TypeOK, TransferOK, CallType
<1>2. pipe[call.ep] \in Seq(Seq(Word)) /\ pipe[call.ep] # << >>
  BY <1>1 DEF TypeOK, WiresOK, Arrives
<1>3. packet \in Seq(Word) /\ Tail(pipe[call.ep]) \in Seq(Seq(Word))
  BY <1>2, HeadTailProperties DEF packet
<1>4. pipe' \in [Endpoint -> Seq(Seq(Word))]
  BY <1>1, <1>3 DEF TypeOK, WiresOK, Arrives
<1>5. moved' \in Seq(Seq(Word))
  BY <1>3, AppendProperties DEF TypeOK, TransferOK, Arrives
<1> QED BY <1>3, <1>4, <1>5

\* A chunk that is over leaves the transfer within the caller's buffer.
LEMMA CompletedLemma ==
    ASSUME ProgramInv, step = "posted", NEW n \in Nat, n <= posted, Completed(n)
    PROVE  /\ total' \in Nat /\ urb' \in Seq(Word) /\ result' \in Int
           /\ step' \in {"post", "returned"}
           /\ step' = "post" => total' < call.size
<1>1. total \in Nat /\ posted \in Nat /\ result \in Int /\ call.size \in Nat
  BY DEF ProgramInv, TypeOK, TransferOK, CallType
<1>2. total + posted <= call.size
  BY DEF ProgramInv, ChunkFits
<1>3. << >> \in Seq(Word)
  BY EmptySeq
<1> QED BY <1>1, <1>2, <1>3 DEF Completed, Return

\* What a step of the transfer leaves alone.
LEMMA TransferFrame ==
    ASSUME ProgramInv, UNCHANGED <<interfaces, setup, index, configured, listening, call, program,
                                   rigid, stopThread, host>>,
           TransferOK', pipe' \in [Endpoint -> Seq(Seq(Word))]
    PROVE  TypeOK' /\ NothingLeaks' /\ SetUpInOrder'
<1> USE DEF ProgramInv, interfaces, program, rigid, host
<1>1. InterfacesOK' /\ WiresOK' /\ ProgramOK'
  BY DEF TypeOK, InterfacesOK, WiresOK, ProgramOK
<1>2. NothingLeaks'
  BY DEF NothingLeaks
<1>3. SetUpInOrder'
  BY DEF SetUpInOrder, Complete, EndpointsOf
<1> QED BY <1>1, <1>2, <1>3 DEF TypeOK

LEMMA TransferLemma ==
    ASSUME ProgramInv, Transfers, UNCHANGED <<rigid, stopThread, host>>
    PROVE  ProgramInv'
<1> USE DEF Transfers, interfaces, wires, chunk, history, program
<1>1. UNCHANGED <<interfaces, setup, index, configured, listening, call, program>>
  BY DEF usbTransfer, WaitReady, PostBuffer, ReceivePacket, SendPacket, TimedOut, Failed
<1>2. /\ call \in CallType /\ call.size \in Nat /\ call.at \in Nat
      /\ total \in Nat /\ posted \in Nat /\ urb \in Seq(Word) /\ result \in Int
      /\ retried \in BOOLEAN /\ whole \in BOOLEAN /\ moved \in Seq(Seq(Word))
      /\ memory \in [DOMAIN BufferSize -> Seq(Word)]
      /\ \A b \in DOMAIN BufferSize : Len(memory[b]) = BufferSize[b]
      /\ pipe \in [Endpoint -> Seq(Seq(Word))]
      /\ Len(urb) \in Nat
  BY LenProperties DEF ProgramInv, TypeOK, TransferOK, WiresOK, CallType
<1>3. Transferring =>
         /\ call.ep \in buffer \cap endpoint /\ call.size > 0
         /\ IF call.dir = "read" THEN call.into # "none" /\ call.size = BufferSize[call.into]
            ELSE call.size = Len(call.data) /\ ~call.timed
         /\ pc \in CallPc
  BY DEF ProgramInv, ChunkFits, CallPc
<1>4. Transferring
  BY DEF usbTransfer, WaitReady, PostBuffer, ReceivePacket, SendPacket, TimedOut, Failed, Transferring
<1>5. Page \in Nat \ {0} /\ PacketSize \in Nat \ {0}
  BY UsbAssumption
<1>6. SUFFICES ASSUME TRUE
               PROVE  /\ TransferOK' /\ pipe' \in [Endpoint -> Seq(Seq(Word))]
                      /\ step' \in {"post", "posted"} => total' < call.size
                      /\ step' = "posted" => /\ total' + posted' <= call.size
                                             /\ offset' # 0 => posted' <= Page - offset'
                                             /\ Len(urb') < posted'
  <2>1. ASSUME /\ TransferOK' /\ pipe' \in [Endpoint -> Seq(Seq(Word))]
               /\ step' \in {"post", "posted"} => total' < call.size
               /\ step' = "posted" => /\ total' + posted' <= call.size
                                      /\ offset' # 0 => posted' <= Page - offset'
                                      /\ Len(urb') < posted'
        PROVE  ProgramInv'
    <3>1. TypeOK' /\ NothingLeaks' /\ SetUpInOrder'
      BY <1>1, <2>1, TransferFrame
    <3>2. ChunkFits'
      BY <1>1, <1>3, <1>4, <2>1 DEF ChunkFits, CallPc
    <3> QED BY <3>1, <3>2 DEF ProgramInv
  <2> QED BY <2>1
<1>7. CASE WaitReady
  <2>1. << >> \in Seq(Seq(Word))
    BY EmptySeq
  <2> QED BY <1>2, <1>3, <1>4, <1>7, <2>1 DEF WaitReady, TransferOK
<1>8. CASE PostBuffer
  <2>1. << >> \in Seq(Word) /\ Len(<< >>) = 0
    BY EmptySeq
  <2>2. offset \in 0 .. Page - 1
    BY <1>2, <1>5 DEF offset
  <2>3. total < call.size
    BY <1>8 DEF PostBuffer, ProgramInv, ChunkFits
  <2>4. /\ chunksize \in Nat /\ chunksize > 0 /\ total + chunksize <= call.size
        /\ offset # 0 => chunksize <= Page - offset
    BY <1>2, <1>5, <2>2, <2>3 DEF chunksize, Lesser
  <2>5. offset' = offset
    BY <1>1, <1>8 DEF PostBuffer, offset
  <2>6. TransferOK'
    BY <1>2, <1>8, <2>1, <2>4 DEF PostBuffer, TransferOK
  <2> QED BY <1>2, <1>8, <2>1, <2>3, <2>4, <2>5, <2>6 DEF PostBuffer
<1>9. CASE ReceivePacket
  <2> DEFINE words == urb \o packet
  <2>1. packet \in Seq(Word) /\ pipe' \in [Endpoint -> Seq(Seq(Word))] /\ moved' \in Seq(Seq(Word))
    BY <1>9, ArrivesLemma DEF ReceivePacket, ProgramInv
  <2>2. words \in Seq(Word) /\ Len(words) \in Nat
    BY <1>2, <2>1, ConcatProperties, LenProperties
  <2>3. call.into \in DOMAIN BufferSize
    BY <1>2, <1>3, <1>4, <1>9 DEF ReceivePacket, CallType
  <2>4. step = "posted" /\ retried' = retried /\ posted' = posted /\ call' = call
    BY <1>9 DEF ReceivePacket
  <2> HIDE DEF words
  <2>5. CASE Len(words) > posted
    <3>1. /\ whole' = FALSE /\ Store(words, TRUE)
          /\ Completed(posted) \/ (step' = "failed" /\ UNCHANGED <<total, urb, result>>)
      BY <1>9, <2>5 DEF ReceivePacket, words
    <3>2. /\ memory' \in [DOMAIN BufferSize -> Seq(Word)]
          /\ \A b \in DOMAIN BufferSize : Len(memory'[b]) = BufferSize[b]
      BY <2>2, <2>3, <3>1, StoreLemma DEF ProgramInv
    <3>3. CASE Completed(posted)
      <4>1. /\ total' \in Nat /\ urb' \in Seq(Word) /\ result' \in Int
            /\ step' \in {"post", "returned"} /\ (step' = "post" => total' < call.size)
        BY <1>2, <2>4, <3>3, CompletedLemma
      <4>2. TransferOK'
        BY <1>2, <2>1, <2>4, <3>1, <3>2, <4>1 DEF TransferOK
      <4> QED BY <2>1, <2>4, <4>1, <4>2
    <3>4. CASE step' = "failed" /\ UNCHANGED <<total, urb, result>>
      BY <1>2, <2>1, <2>4, <3>1, <3>2, <3>4 DEF TransferOK
    <3> QED BY <3>1, <3>3, <3>4
  <2>6. CASE Len(words) <= posted /\ (Len(words) = posted \/ Len(packet) < PacketSize)
    <3>0. ~(Len(words) > posted)
      BY <1>2, <2>2, <2>6
    <3>1. whole' = whole /\ Store(words, TRUE) /\ Completed(Len(words))
      BY <1>9, <2>6, <3>0 DEF ReceivePacket, words
    <3>2. /\ memory' \in [DOMAIN BufferSize -> Seq(Word)]
          /\ \A b \in DOMAIN BufferSize : Len(memory'[b]) = BufferSize[b]
      BY <2>2, <2>3, <3>1, StoreLemma DEF ProgramInv
    <3>3. /\ total' \in Nat /\ urb' \in Seq(Word) /\ result' \in Int
          /\ step' \in {"post", "returned"} /\ (step' = "post" => total' < call.size)
      BY <2>2, <2>4, <2>6, <3>1, CompletedLemma
    <3>4. TransferOK'
      BY <1>2, <2>1, <2>4, <3>1, <3>2, <3>3 DEF TransferOK
    <3> QED BY <2>1, <2>4, <3>3, <3>4
  <2>7. CASE Len(words) < posted /\ ~(Len(packet) < PacketSize)
    <3>0. ~(Len(words) > posted) /\ ~(Len(words) = posted \/ Len(packet) < PacketSize)
      BY <1>2, <2>2, <2>7
    <3>1. whole' = whole /\ Store(words, FALSE) /\ urb' = words /\ UNCHANGED <<step, total, result>>
      BY <1>9, <3>0 DEF ReceivePacket, words, More
    <3>2. /\ memory' \in [DOMAIN BufferSize -> Seq(Word)]
          /\ \A b \in DOMAIN BufferSize : Len(memory'[b]) = BufferSize[b]
      BY <2>2, <2>3, <3>1, StoreLemma DEF ProgramInv
    <3>3. TransferOK'
      BY <1>2, <2>1, <2>2, <2>4, <3>1, <3>2 DEF TransferOK
    <3>4. offset' = offset
      BY <2>4, <3>1 DEF offset
    <3> QED BY <2>1, <2>4, <2>7, <3>1, <3>3, <3>4 DEF ProgramInv, ChunkFits
  <2> QED BY <1>2, <2>2, <2>5, <2>6, <2>7
<1>10. CASE SendPacket
  <2> DEFINE sent0 == Len(urb)
             end   == Lesser(posted, sent0 + PacketSize)
             words == SubSeq(call.data, total + 1, total + end)
             part  == SubSeq(words, sent0 + 1, Len(words))
  <2>1. step = "posted" /\ call.data \in Seq(Word) /\ call.size = Len(call.data)
    BY <1>2, <1>3, <1>4, <1>10 DEF SendPacket, CallType
  <2>2. total + posted <= call.size /\ Len(urb) < posted
    BY <2>1 DEF ProgramInv, ChunkFits
  <2>3. end \in Nat /\ end <= posted
    BY <1>2, <1>5, <2>2 DEF Lesser
  <2>4. words \in Seq(Word) /\ Len(words) = end
    <3>1. call.data \in [1 .. Len(call.data) -> Word] /\ Len(call.data) \in Nat
      BY <2>1, LenProperties
    <3> HIDE DEF end
    <3>2. \A i \in total + 1 .. total + end : call.data[i] \in Word
      BY <1>2, <2>1, <2>2, <2>3, <3>1
    <3> QED BY <1>2, <2>3, <3>2, SubSeqProperties
  <2>5. part \in Seq(Word)
    <3> HIDE DEF words, end
    <3>1. words \in Seq(Word) /\ words \in [1 .. Len(words) -> Word]
      BY <2>4, LenProperties
    <3>2. Len(words) \in Int /\ sent0 \in Nat /\ sent0 + 1 \in Int
      BY <1>2, <2>3, <2>4
    <3> HIDE DEF sent0
    <3>3. \A i \in sent0 + 1 .. Len(words) : words[i] \in Word
      <4> TAKE i \in sent0 + 1 .. Len(words)
      <4>1. i \in 1 .. Len(words)
        BY <3>2
      <4> QED BY <3>1, <4>1
    <3> QED BY <3>1, <3>2, <3>3, SubSeqProperties
  <2>6. /\ moved' = Append(moved, part)
        /\ IF Len(words) = posted THEN Completed(posted) ELSE More(words)
        /\ UNCHANGED <<pipe, memory, retried, posted, whole>>
    BY <1>10 DEF SendPacket
  <2>7. moved' \in Seq(Seq(Word))
    BY <1>2, <2>5, <2>6, AppendProperties
  <2> HIDE DEF words, part, end
  <2>8. CASE Len(words) = posted
    BY <1>1, <1>2, <2>1, <2>6, <2>7, <2>8, CompletedLemma DEF TransferOK
  <2>9. CASE Len(words) # posted
    <3>1. urb' = words /\ UNCHANGED <<step, total, result>>
      BY <2>6, <2>9 DEF More
    <3>2. TransferOK'
      BY <1>1, <1>2, <2>1, <2>4, <2>6, <2>7, <3>1 DEF TransferOK
    <3>3. offset' = offset
      BY <1>1, <3>1 DEF offset
    <3> QED BY <1>1, <1>2, <2>1, <2>3, <2>4, <2>6, <2>9, <3>1, <3>2, <3>3 DEF ProgramInv, ChunkFits
  <2> QED BY <2>8, <2>9
<1>11. CASE TimedOut
  <2>1. /\ step' = "failed" /\ UNCHANGED <<call, retried, total, posted, urb, result, whole>>
        /\ UNCHANGED <<pipe, moved, memory>> \/ (Arrives /\ Store(urb \o packet, FALSE))
    BY <1>11 DEF TimedOut
  <2>0. call.into \in DOMAIN BufferSize
    BY <1>2, <1>3, <1>4, <1>11 DEF TimedOut, CallType
  <2>2. CASE UNCHANGED <<pipe, moved, memory>>
    <3>1. /\ memory' \in [DOMAIN BufferSize -> Seq(Word)] /\ moved' \in Seq(Seq(Word))
          /\ \A b \in DOMAIN BufferSize : Len(memory'[b]) = BufferSize[b]
      BY <1>2, <2>2
    <3>2. TransferOK'
      BY <1>2, <2>1, <3>1 DEF TransferOK
    <3> QED BY <1>2, <2>1, <2>2, <3>2
  <2>3. CASE Arrives /\ Store(urb \o packet, FALSE)
    <3>1. packet \in Seq(Word) /\ pipe' \in [Endpoint -> Seq(Seq(Word))] /\ moved' \in Seq(Seq(Word))
      BY <2>3, ArrivesLemma DEF ProgramInv
    <3>2. urb \o packet \in Seq(Word)
      BY <1>2, <3>1, ConcatProperties
    <3>3. /\ memory' \in [DOMAIN BufferSize -> Seq(Word)]
          /\ \A b \in DOMAIN BufferSize : Len(memory'[b]) = BufferSize[b]
      BY <2>0, <2>3, <3>2, StoreLemma DEF ProgramInv
    <3>4. TransferOK'
      BY <1>2, <2>1, <3>1, <3>3 DEF TransferOK
    <3> QED BY <2>1, <3>1, <3>4
  <2> QED BY <2>1, <2>2, <2>3
<1>12. CASE Failed
  <2>1. /\ step' \in {"wait", "returned"} /\ retried' \in BOOLEAN /\ result' \in Int
        /\ UNCHANGED <<pipe, memory, call, total, posted, urb, moved, whole>>
    <3>1. UNCHANGED <<pipe, memory, call, total, posted, urb, moved, whole>>
      BY <1>12 DEF Failed
    <3>2. \/ retried' = TRUE /\ step' = "wait" /\ result' = result
          \/ step' = "returned" /\ result' = -1 /\ retried' = retried
      BY <1>12 DEF Failed, Return
    <3>3. step' \in {"wait", "returned"} /\ result' \in Int
      BY <1>2, <3>2
    <3>4. retried' \in BOOLEAN
      BY <1>2, <3>2, Zenon
    <3> QED BY <3>1, <3>3, <3>4
  <2>2. TransferOK'
    BY <1>2, <2>1 DEF TransferOK
  <2> QED BY <1>2, <2>1, <2>2
<1> QED BY <1>7, <1>8, <1>9, <1>10, <1>11, <1>12 DEF usbTransfer

-----------------------------------------------------------------------------
(* The other side, and the theorem.                                        *)

\* What the host, the console and the user do leaves the program alone.
LEMMA HostLemma ==
    ASSUME ProgramInv, UNCHANGED <<interfaces, setup, index, call, memory, pc, mPacketSize, rigid,
                                   retried, total, posted, urb, result>>,
           WiresOK', step' \in {step, "failed"}, step = "failed" \/ step' = step \/ step = "posted",
           mRunning' \in BOOLEAN, stopThread' \in {"polling", "ended"},
           moved' \in Seq(Seq(Word)), whole' \in BOOLEAN
    PROVE  ProgramInv'
<1> USE DEF ProgramInv, interfaces, rigid
<1>1. TypeOK'
  <2>1. InterfacesOK' /\ ProgramOK'
    BY DEF TypeOK, InterfacesOK, ProgramOK
  <2>2. TransferOK'
    <3>1. step' \in {"idle", "wait", "post", "posted", "failed", "returned"}
      BY DEF TypeOK, TransferOK
    <3> QED BY <3>1 DEF TypeOK, TransferOK
  <2> QED BY <2>1, <2>2 DEF TypeOK
<1>2. NothingLeaks' /\ SetUpInOrder'
  BY DEF NothingLeaks, SetUpInOrder, Complete, EndpointsOf
<1>3. ChunkFits'
  BY DEF ChunkFits, Transferring, offset
<1> QED BY <1>1, <1>2, <1>3

\* A packet more on a pipe.
LEMMA PipeLemma ==
    ASSUME TypeOK, NEW ep \in Endpoint, NEW p \in Seq(Word), HostSends(ep, p)
    PROVE  pipe' \in [Endpoint -> Seq(Seq(Word))]
<1>1. pipe \in [Endpoint -> Seq(Seq(Word))]
  BY DEF TypeOK, WiresOK
<1>2. Append(pipe[ep], p) \in Seq(Seq(Word))
  BY <1>1, AppendProperties
<1> QED BY <1>1, <1>2 DEF HostSends

\* What the host means to send is a sequence of packets.
LEMMA RequestsLemma ==
    ASSUME TypeOK, NEW params \in Nat, NEW data \in Nat, NEW upload \in BOOLEAN,
           Requests(params, data, upload)
    PROVE  WiresOK'
<1> USE DEF Requests, Steady, host
<1>1. sent \in Seq([params : Nat, data : Nat, upload : BOOLEAN])
  BY DEF TypeOK, WiresOK
<1>2. sent' \in Seq([params : Nat, data : Nat, upload : BOOLEAN]) /\ Len(sent') \in Nat
  <2>1. [params |-> params, data |-> data, upload |-> upload] \in [params : Nat, data : Nat, upload : BOOLEAN]
    OBVIOUS
  <2>2. sent' \in Seq([params : Nat, data : Nat, upload : BOOLEAN])
    BY <1>1, <2>1, AppendProperties
  <2> QED BY <2>2, LenProperties
<1> DEFINE n == Len(sent')
<1> HIDE DEF n
<1>3. n \in Nat
  BY <1>2 DEF n
<1>4. RequestOf(n, params) \in Seq(Word)
  <2>1. \A i \in 1 .. params + 1 : <<n, i - 1>> \in Word
    BY <1>3 DEF Word
  <2> QED BY <2>1 DEF RequestOf
<1>5. DataPhase(n, data) \in Seq(Seq(Word))
  <2>1. CASE data = 0
    BY <2>1, EmptySeq DEF DataPhase
  <2>2. CASE data # 0
    <3>1. <<n, -1>> \in Word
      BY <1>3 DEF Word
    <3>2. [i \in 1 .. data |-> <<n, -1>>] \in Seq(Word)
      BY <3>1, FilledLemma
    <3> QED BY <2>2, <3>2, CutLemma DEF DataPhase
  <2> QED BY <2>1, <2>2
<1>6. toSend' \in Seq(Seq(Word))
  <2>1. toSend' = Cut(RequestOf(n, params)) \o DataPhase(n, data)
    BY DEF n
  <2>2. Cut(RequestOf(n, params)) \in Seq(Seq(Word))
    BY <1>4, CutLemma
  <2> QED BY <1>5, <2>1, <2>2, ConcatProperties
<1> QED BY <1>2, <1>6 DEF TypeOK, WiresOK, wires

LEMMA StepInv == ProgramInv /\ [Next]_vars => ProgramInv'
<1> SUFFICES ASSUME ProgramInv, [Next]_vars PROVE ProgramInv'
  OBVIOUS
<1> USE DEF vars, program, rigid, host, wires, transfer, chunk, history, Steady
<1>0. TypeOK /\ WiresOK /\ MaxParameter \in Nat
      /\ moved \in Seq(Seq(Word)) /\ whole \in BOOLEAN
      /\ mRunning \in BOOLEAN /\ stopThread \in {"polling", "ended"}
  BY MainAssumption DEF ProgramInv, TypeOK, TransferOK, ProgramOK
<1>1. CASE Server
  BY <1>1, SetUpLemma, ExitLemma, ProgramLemma, TransferLemma DEF Server
<1>2. CASE PressB \/ LeaveApplet
  <2>1. WiresOK'
    BY <1>0, <1>2 DEF PressB, LeaveApplet, WiresOK
  <2> QED BY <1>0, <1>2, <2>1, HostLemma DEF PressB, LeaveApplet
<1>3. ASSUME NEW params \in Nat, NEW data \in Nat, NEW upload \in BOOLEAN, Requests(params, data, upload)
      PROVE  ProgramInv'
  <2>1. WiresOK'
    BY <1>0, <1>3, RequestsLemma
  <2> QED BY <1>0, <1>3, <2>1, HostLemma DEF Requests
<1>4. CASE Sends
  <2>1. Head(toSend) \in Seq(Word) /\ Tail(toSend) \in Seq(Seq(Word))
    BY <1>0, <1>4, HeadTailProperties DEF Sends, WiresOK
  <2>2. mtp.OUT \in Endpoint
    BY EndpointLemma DEF mtp
  <2>3. pipe' \in [Endpoint -> Seq(Seq(Word))]
    BY <1>0, <1>4, <2>1, <2>2, PipeLemma DEF Sends
  <2>4. WiresOK'
    BY <1>0, <1>4, <2>1, <2>3 DEF Sends, HostSends, WiresOK
  <2> QED BY <1>0, <1>4, <2>4, HostLemma DEF Sends, HostSends
<1>5. ASSUME NEW line \in {START, <<junk>>}, Types(line)
      PROVE  ProgramInv'
  <2>1. line \in Seq(Word)
    <3>1. <<0, -1>> \in Word /\ <<0, -2>> \in Word /\ <<0, 0>> \in Word
      BY DEF Word
    <3>2. <<<<0, -1>>, <<0, -2>>>> \in Seq(Word) /\ <<<<0, 0>>>> \in Seq(Word)
      BY <3>1
    <3> QED BY <3>2 DEF START, junk
  <2>2. serial.OUT \in Endpoint
    BY EndpointLemma DEF serial
  <2>3. pipe' \in [Endpoint -> Seq(Seq(Word))]
    BY <1>0, <1>5, <2>1, <2>2, PipeLemma DEF Types
  <2>4. WiresOK'
    BY <1>0, <1>5, <2>3 DEF Types, HostSends, WiresOK
  <2> QED BY <1>0, <1>5, <2>4, HostLemma DEF Types, HostSends
<1>6. CASE Leaves
  <2>1. << >> \in Seq(Seq(Word))
    BY EmptySeq
  <2>2. WiresOK'
    <3>1. pipe' \in [Endpoint -> Seq(Seq(Word))] /\ toSend' \in Seq(Seq(Word))
      BY <1>6, <2>1 DEF Leaves, Unplug
    <3>2. configured' \in BOOLEAN
      BY <1>6 DEF Leaves, Unplug
    <3>3. /\ UNCHANGED <<listening, sent, lines>>
          /\ unplugged' = unplugged + 1
      BY <1>6 DEF Leaves, Unplug
    <3>4. listening' \subseteq Endpoint /\ sent' \in Seq([params : Nat, data : Nat, upload : BOOLEAN])
          /\ lines' \in Nat /\ unplugged' \in Nat
      BY <1>0, <3>3 DEF WiresOK
    <3> QED BY <3>1, <3>2, <3>4 DEF WiresOK
  <2>3. moved' \in Seq(Seq(Word)) /\ whole' \in BOOLEAN
    BY <1>0, <1>6, <2>1 DEF Leaves, Unplug
  <2> QED BY <1>0, <1>6, <2>2, <2>3, HostLemma DEF Leaves, Unplug
<1>7. CASE Returns
  <2>1. WiresOK'
    BY <1>0, <1>7 DEF Returns, Plug, WiresOK
  <2> QED BY <1>0, <1>7, <2>1, HostLemma DEF Returns, Plug
<1>8. CASE UNCHANGED vars
  <2>1. WiresOK'
    BY <1>0, <1>8 DEF WiresOK
  <2> QED BY <1>0, <1>8, <2>1, HostLemma
<1>9. \A data \in DataSize \cup FileSize : data \in Nat
  BY MainAssumption
<1>10. \A params \in 0 .. MaxParameter : params \in Nat
  BY <1>0
<1> QED BY <1>0, <1>1, <1>2, <1>3, <1>4, <1>5, <1>6, <1>7, <1>8, <1>9, <1>10 DEF Next

\* Wherever set-up fails and whoever goes away when, main() transfers only
\* over endpoints that are registered and have their page, what usbTransfer
\* posts lies within the caller's buffer and within a page, and usbExit
\* leaves nothing allocated.
THEOREM ProgramSafe == Spec => []ProgramInv
<1>1. Init => ProgramInv
  BY InitInv
<1>2. ProgramInv /\ [Next]_vars => ProgramInv'
  BY StepInv
<1> QED BY <1>1, <1>2, PTL DEF Spec

-----------------------------------------------------------------------------
(* What is on its way.  q: packets still to be taken; s: the requests that *)
(* were made.                                                              *)

RequestIn(s, n) == RequestOf(n, s[n].params)

IsRequest(p, s) == \E n \in 1 .. Len(s) : p = RequestIn(s, n)
IsData(p) == \A i \in DOMAIN p : p[i][2] = -1

Older(words, n) == \A i \in DOMAIN words : words[i][1] < n

\* Nothing in words belongs to a request that is still to be taken, or made.
Past(words, q, s) ==
    /\ Older(words, Len(s) + 1)
    /\ \A j \in 1 .. Len(q), n \in 1 .. Len(s) : q[j] = RequestIn(s, n) => Older(words, n)

\* A request is one packet, and everything before it is older.
InOrder(q, s) ==
    /\ \A n \in 1 .. Len(s) : s[n].params <= MaxParameter
    /\ \A j \in 1 .. Len(q) : (IsRequest(q[j], s) \/ IsData(q[j])) /\ Older(q[j], Len(s) + 1)
    /\ \A j \in 1 .. Len(q), n \in 1 .. Len(s) :
          q[j] = RequestIn(s, n) => \A i \in 1 .. j - 1 : Older(q[i], n)

\* words begins with the request its first word belongs to, and that has
\* m words.  What follows is older.
Holds(words, m, s) ==
    LET n == words[1][1]
    IN  n > 0 /\ words[1][2] = 0 =>
            /\ SubSeq(words, 1, m) = RequestIn(s, n)
            /\ \A i \in m + 1 .. Len(words) : words[i][1] < n

coming == pipe[mtp.OUT] \o toSend

BufferOld ==
    /\ Past(memory["mRequest"], coming, sent)
    /\ call.into = "mRequest" => call.ep = mtp.OUT /\ call.dir = "read" /\ Past(urb, coming, sent)

\* A read that has words and goes on began with words of a data phase.
ReadOK ==
    pc = "request" =>
        /\ call = Read(mtp.OUT, at, "mRequest", TRUE)
        /\ step = "posted" => posted = chunksize
        /\ step \in {"post", "posted"} /\ total > 0 => memory["mRequest"][1][2] = -1
        /\ step = "posted" /\ total = 0 /\ urb # << >> => urb[1][2] = -1
        /\ step = "returned" /\ result > 0 => Holds(memory["mRequest"], result, sent)

HandledOK ==
    /\ Transferring /\ call.into = "mRequest" => pc = "request"
    /\ pc \in Handling /\ mPacketSize > 0 => Holds(memory["mRequest"], mPacketSize, sent)

ParametersInv ==
    InOrder(coming, sent) /\ BufferOld /\ (RoomForRequest => ReadOK /\ HandledOK)

Made == Seq([params : Nat, data : Nat, upload : BOOLEAN])

-----------------------------------------------------------------------------
(* The packets of requests.                                                *)

\* The words of a request.
LEMMA RequestLemma ==
    ASSUME NEW n \in Nat, NEW params \in Nat
    PROVE  /\ RequestOf(n, params) \in Seq(Word)
           /\ Len(RequestOf(n, params)) = params + 1
           /\ \A i \in 1 .. params + 1 : RequestOf(n, params)[i] = <<n, i - 1>>
<1>1. \A i \in 1 .. params + 1 : <<n, i - 1>> \in Word
  BY DEF Word
<1> QED BY <1>1 DEF RequestOf

\* A request fits into one packet, which is short.
LEMMA OnePacketLemma ==
    ASSUME NEW n \in Nat, NEW params \in 0 .. MaxParameter
    PROVE  Cut(RequestOf(n, params)) = <<RequestOf(n, params)>>
<1> DEFINE r == RequestOf(n, params)
<1>0. MaxParameter \in Nat /\ params \in Nat
  <2>1. MaxParameter \in Nat
    BY MainAssumption
  <2> QED BY <2>1
<1>1. r \in Seq(Word) /\ Len(r) = params + 1 /\ params \in Nat
  BY <1>0, RequestLemma
<1>2. PacketSize \in Nat \ {0} /\ Len(r) < PacketSize /\ Len(r) \in Nat
  <2>1. PacketSize \in Nat \ {0} /\ MaxParameter + 1 < PacketSize
    BY UsbAssumption, RequestAssumption
  <2> HIDE DEF r
  <2> QED BY <1>0, <1>1, <2>1
<1> HIDE DEF r
<1>3. Len(r) \div PacketSize = 0
  BY <1>2
<1>4. Lesser(1 * PacketSize, Len(r)) = Len(r) /\ (1 - 1) * PacketSize + 1 = 1
  BY <1>2 DEF Lesser
<1>5. SubSeq(r, 1, Len(r)) = r
  BY <1>1, SubSeqFull
<1>6. Cut(r) = [i \in 1 .. 1 |-> SubSeq(r, (i - 1) * PacketSize + 1, Lesser(i * PacketSize, Len(r)))]
  BY <1>3 DEF Cut
<1>7. \A i \in 1 .. 1 : SubSeq(r, (i - 1) * PacketSize + 1, Lesser(i * PacketSize, Len(r))) = r
  <2> TAKE i \in 1 .. 1
  <2>1. i = 1
    OBVIOUS
  <2> QED BY <1>4, <1>5, <2>1
<1>8. Cut(r) = [i \in 1 .. 1 |-> r]
  BY <1>6, <1>7
<1> QED BY <1>8 DEF r

\* The packets of a sequence of one word hold this word only.
LEMMA FilledCutLemma ==
    ASSUME NEW w \in Word, NEW size \in Nat, NEW p \in 1 .. Len(Cut([i \in 1 .. size |-> w]))
    PROVE  \A j \in DOMAIN Cut([i \in 1 .. size |-> w])[p] : Cut([i \in 1 .. size |-> w])[p][j] = w
<1> DEFINE s == [i \in 1 .. size |-> w]
           k == (p - 1) * PacketSize
           e == Lesser(p * PacketSize, Len(s))
           m == Len(s) \div PacketSize + 1
           part(i) == SubSeq(s, (i - 1) * PacketSize + 1, Lesser(i * PacketSize, Len(s)))
<1>1. s \in Seq(Word) /\ Len(s) = size /\ \A i \in 1 .. size : s[i] = w
  BY FilledLemma
<1>2. PacketSize \in Nat \ {0}
  BY UsbAssumption
<1> HIDE DEF s
<1>3. m \in Nat
  BY <1>1, <1>2
<1>4. Cut(s) = [i \in 1 .. m |-> part(i)]
  BY DEF Cut
<1> HIDE DEF m, part
<1>5. Len(Cut(s)) = m
  BY <1>3, <1>4
<1>6. p \in 1 .. m /\ Cut(s)[p] = part(p)
  BY <1>4, <1>5 DEF s
<1>7. k \in Nat /\ e \in Int /\ e <= size
  BY <1>1, <1>2, <1>3, <1>6 DEF Lesser
<1>8. part(p) = SubSeq(s, k + 1, e)
  BY DEF part
<1> HIDE DEF k, e
<1>9. \A i \in k + 1 .. e : s[i] = w
  BY <1>1, <1>7
<1>10. /\ Len(SubSeq(s, k + 1, e)) = IF k + 1 <= e THEN e - k ELSE 0
       /\ SubSeq(s, k + 1, e) \in Seq(Word)
       /\ \A i \in 1 .. e - k : SubSeq(s, k + 1, e)[i] = s[k + i]
  <2>1. k + 1 \in Int /\ \A i \in k + 1 .. e : s[i] \in Word
    BY <1>7, <1>9
  <2> QED BY <1>7, <2>1, SubSeqProperties
<1>11. \A j \in DOMAIN part(p) : part(p)[j] = w
  BY <1>7, <1>8, <1>9, <1>10
<1> QED BY <1>6, <1>11 DEF s

\* What follows a request are words of its data phase.
LEMMA DataPhaseLemma ==
    ASSUME NEW n \in Nat, NEW size \in Nat
    PROVE  /\ DataPhase(n, size) \in Seq(Seq(Word))
           /\ \A p \in 1 .. Len(DataPhase(n, size)) :
                 \A j \in DOMAIN DataPhase(n, size)[p] : DataPhase(n, size)[p][j] = <<n, -1>>
<1>0. <<n, -1>> \in Word
  BY DEF Word
<1>1. CASE size = 0
  BY <1>1, EmptySeq DEF DataPhase
<1>2. CASE size # 0
  <2>1. [i \in 1 .. size |-> <<n, -1>>] \in Seq(Word)
    BY <1>0, FilledLemma
  <2> QED BY <1>0, <1>2, <2>1, CutLemma, FilledCutLemma DEF DataPhase
<1> QED BY <1>1, <1>2

-----------------------------------------------------------------------------
(* Packets are taken, lost and sent.                                       *)

\* A request that was made has a number of parameters.
LEMMA MadeType ==
    ASSUME NEW s \in Made, NEW n \in 1 .. Len(s)
    PROVE  /\ n \in Nat /\ Len(s) \in Nat /\ s[n].params \in Nat
           /\ RequestIn(s, n) \in Seq(Word) /\ Len(RequestIn(s, n)) = s[n].params + 1
           /\ 1 \in DOMAIN RequestIn(s, n) /\ RequestIn(s, n)[1] = <<n, 0>>
<1>1. s[n] \in [params : Nat, data : Nat, upload : BOOLEAN] /\ Len(s) \in Nat
  BY ElementOfSeq, LenProperties DEF Made
<1>2. n \in Nat /\ s[n].params \in Nat
  BY <1>1
<1>3. /\ RequestIn(s, n) \in Seq(Word) /\ Len(RequestIn(s, n)) = s[n].params + 1
      /\ \A i \in 1 .. s[n].params + 1 : RequestIn(s, n)[i] = <<n, i - 1>>
  BY <1>2, RequestLemma DEF RequestIn
<1>4. DOMAIN RequestIn(s, n) = 1 .. s[n].params + 1
  BY <1>3, LenProperties
<1> QED BY <1>1, <1>2, <1>3, <1>4

\* Of two requests each is the one its first word names.
LEMMA NamedLemma ==
    ASSUME NEW s \in Made, NEW n \in 1 .. Len(s), NEW k \in 1 .. Len(s),
           RequestIn(s, n) = RequestIn(s, k)
    PROVE  n = k
<1>1. RequestIn(s, n)[1] = <<n, 0>> /\ RequestIn(s, k)[1] = <<k, 0>>
  BY MadeType
<1> QED BY <1>1

\* The packet that is taken is older than what stays.
LEMMA TakenLemma ==
    ASSUME NEW s \in Made, NEW q \in Seq(Seq(Word)), q # << >>, InOrder(q, s)
    PROVE  /\ InOrder(Tail(q), s)
           /\ IsRequest(Head(q), s) \/ IsData(Head(q))
           /\ Past(Head(q), Tail(q), s)
           /\ \A words : Past(words, q, s) => Past(words, Tail(q), s)
           /\ \A words : \A n \in 1 .. Len(s) : Past(words, q, s) /\ Head(q) = RequestIn(s, n) => Older(words, n)
<1>1. Len(q) \in Nat \ {0} /\ Len(Tail(q)) = Len(q) - 1 /\ Head(q) = q[1]
      /\ \A i \in 1 .. Len(q) - 1 : Tail(q)[i] = q[i + 1]
  BY HeadTailProperties, EmptySeq
<1>2. InOrder(Tail(q), s)
  <2>1. \A j \in 1 .. Len(Tail(q)) : /\ IsRequest(Tail(q)[j], s) \/ IsData(Tail(q)[j])
                                     /\ Older(Tail(q)[j], Len(s) + 1)
    BY <1>1 DEF InOrder
  <2>2. ASSUME NEW j \in 1 .. Len(Tail(q)), NEW n \in 1 .. Len(s), Tail(q)[j] = RequestIn(s, n),
               NEW i \in 1 .. j - 1
        PROVE  Older(Tail(q)[i], n)
    <3>1. j + 1 \in 1 .. Len(q) /\ i + 1 \in 1 .. (j + 1) - 1 /\ q[j + 1] = RequestIn(s, n)
      BY <1>1, <2>2
    <3>2. Older(q[i + 1], n)
      BY <3>1 DEF InOrder
    <3> QED BY <1>1, <3>1, <3>2
  <2> QED BY <2>1, <2>2 DEF InOrder
<1>3. Past(Head(q), Tail(q), s)
  <2>1. Older(q[1], Len(s) + 1)
    BY <1>1 DEF InOrder
  <2>2. ASSUME NEW j \in 1 .. Len(Tail(q)), NEW n \in 1 .. Len(s), Tail(q)[j] = RequestIn(s, n)
        PROVE  Older(q[1], n)
    <3>1. j + 1 \in 1 .. Len(q) /\ 1 \in 1 .. (j + 1) - 1 /\ q[j + 1] = RequestIn(s, n)
      BY <1>1, <2>2
    <3> QED BY <3>1 DEF InOrder
  <2> QED BY <1>1, <2>1, <2>2 DEF Past
<1>4. ASSUME NEW words, Past(words, q, s)
      PROVE  Past(words, Tail(q), s)
  <2>1. ASSUME NEW j \in 1 .. Len(Tail(q)), NEW n \in 1 .. Len(s), Tail(q)[j] = RequestIn(s, n)
        PROVE  Older(words, n)
    <3>1. j + 1 \in 1 .. Len(q) /\ q[j + 1] = RequestIn(s, n)
      BY <1>1, <2>1
    <3> QED BY <1>4, <3>1 DEF Past
  <2> QED BY <1>4, <2>1 DEF Past
<1>5. IsRequest(Head(q), s) \/ IsData(Head(q))
  BY <1>1 DEF InOrder
<1>6. ASSUME NEW words, NEW n \in 1 .. Len(s), Past(words, q, s), Head(q) = RequestIn(s, n)
      PROVE  Older(words, n)
  BY <1>1, <1>6 DEF Past
<1> QED BY <1>2, <1>3, <1>4, <1>5, <1>6

\* Nothing is on its way any more.
LEMMA LostLemma ==
    ASSUME NEW s \in Made, NEW q, InOrder(q, s)
    PROVE  /\ InOrder(<< >>, s)
           /\ \A words : Past(words, q, s) => Past(words, << >>, s)
  BY DEF InOrder, Past

\* A request that is made later leaves the older ones what they are.
LEMMA LaterLemma ==
    ASSUME NEW s \in Made, NEW r \in [params : Nat, data : Nat, upload : BOOLEAN]
    PROVE  LET t == Append(s, r)
           IN  /\ t \in Made /\ Len(t) = Len(s) + 1
               /\ \A n \in 1 .. Len(s) : RequestIn(t, n) = RequestIn(s, n) /\ t[n] = s[n]
               /\ t[Len(s) + 1] = r
  BY AppendProperties DEF Made, RequestIn

\* What words held, they hold.
LEMMA HoldsLemma ==
    ASSUME NEW s \in Made, NEW r \in [params : Nat, data : Nat, upload : BOOLEAN], NEW words, NEW m,
           words \in Seq(Word), words # << >>, Older(words, Len(s) + 1), Holds(words, m, s)
    PROVE  Holds(words, m, Append(s, r))
<1>1. words[1][1] \in Int /\ words[1][1] < Len(s) + 1 /\ Len(s) \in Nat
  <2>1. 1 \in 1 .. Len(words) /\ words[1] \in Word /\ DOMAIN words = 1 .. Len(words)
    BY EmptySeq, LenProperties, ElementOfSeq
  <2>2. words[1][1] < Len(s) + 1
    BY <2>1 DEF Older
  <2>3. words[1][1] \in Int /\ Len(s) \in Nat
    BY <2>1, LenProperties DEF Word, Made
  <2> QED BY <2>2, <2>3
<1>2. words[1][1] > 0 => RequestIn(Append(s, r), words[1][1]) = RequestIn(s, words[1][1])
  BY <1>1, LaterLemma
<1> QED BY <1>2 DEF Holds

\* A request is made when all that was sent before is on the pipe.
LEMMA MadeLemma ==
    ASSUME NEW s \in Made, NEW q \in Seq(Seq(Word)), InOrder(q, s),
           NEW params \in 0 .. MaxParameter, NEW data \in Nat, NEW upload \in BOOLEAN
    PROVE  LET t    == Append(s, [params |-> params, data |-> data, upload |-> upload])
               more == Cut(RequestOf(Len(t), params)) \o DataPhase(Len(t), data)
           IN  /\ InOrder(q \o more, t)
               /\ \A words \in Seq(Word) : Past(words, q, s) => Past(words, q \o more, t)
<1> DEFINE r == [params |-> params, data |-> data, upload |-> upload]
           t == Append(s, r)
           N == Len(s) + 1
           request == RequestOf(N, params)
           phase == DataPhase(N, data)
           new == q \o (<<request>> \o phase)
<1>0. params \in Nat /\ Len(s) \in Nat /\ N \in Nat /\ r \in [params : Nat, data : Nat, upload : BOOLEAN]
  <2>1. MaxParameter \in Nat
    BY MainAssumption
  <2> QED BY <2>1, LenProperties DEF Made
<1>1. /\ t \in Made /\ Len(t) = N /\ t[N] = r
      /\ \A n \in 1 .. Len(s) : RequestIn(t, n) = RequestIn(s, n) /\ t[n] = s[n]
  BY <1>0, LaterLemma
<1> HIDE DEF t
<1>2. RequestIn(t, N) = request
  BY <1>1 DEF RequestIn
<1>3. /\ request \in Seq(Word) /\ Len(request) = params + 1
      /\ \A i \in 1 .. params + 1 : request[i] = <<N, i - 1>>
  BY <1>0, RequestLemma
<1>4. Cut(request) = <<request>>
  BY <1>0, OnePacketLemma
<1>5. /\ phase \in Seq(Seq(Word))
      /\ \A p \in 1 .. Len(phase) : \A j \in DOMAIN phase[p] : phase[p][j] = <<N, -1>>
  BY <1>0, DataPhaseLemma
<1>6. \A words : Older(words, Len(s) + 1) => Older(words, N)
  OBVIOUS
<1> HIDE DEF request, phase, r
<1>7. /\ Len(new) = Len(q) + 1 + Len(phase)
      /\ \A j \in 1 .. Len(q) : new[j] = q[j]
      /\ new[Len(q) + 1] = request
      /\ \A j \in 1 .. Len(phase) : new[Len(q) + 1 + j] = phase[j]
      /\ Len(q) \in Nat /\ Len(phase) \in Nat
  <2>1. <<request>> \in Seq(Seq(Word)) /\ Len(<<request>>) = 1 /\ <<request>>[1] = request
    BY <1>3
  <2>2. Len(q) \in Nat /\ Len(phase) \in Nat
    BY <1>5, LenProperties
  <2> DEFINE u == <<request>> \o phase
  <2>3. /\ u \in Seq(Seq(Word)) /\ Len(u) = 1 + Len(phase)
        /\ u[1] = request
        /\ \A j \in 1 .. Len(phase) : u[1 + j] = phase[j]
    BY <1>5, <2>1, <2>2, ConcatProperties
  <2>4. new = q \o u
    OBVIOUS
  <2> HIDE DEF u, new
  <2>5. /\ Len(q \o u) = Len(q) + Len(u)
        /\ \A j \in 1 .. Len(q) + Len(u) : (q \o u)[j] = IF j <= Len(q) THEN q[j] ELSE u[j - Len(q)]
    <3>1. q \in Seq(Seq(Word)) /\ u \in Seq(Seq(Word))
      BY <2>3
    <3> QED BY ONLY <3>1, ConcatProperties
  <2>6. ASSUME NEW j \in 1 .. Len(phase)
        PROVE  new[Len(q) + 1 + j] = phase[j]
    <3>1. /\ Len(q) + 1 + j \in 1 .. Len(q) + Len(u) /\ ~(Len(q) + 1 + j <= Len(q))
          /\ Len(q) + 1 + j - Len(q) = 1 + j
      BY <2>2, <2>3
    <3>2. (q \o u)[Len(q) + 1 + j] = u[1 + j]
      BY ONLY <2>5, <3>1
    <3> QED BY ONLY <2>3, <2>4, <3>2
  <2>7. new[Len(q) + 1] = request
    <3>1. /\ Len(q) + 1 \in 1 .. Len(q) + Len(u) /\ ~(Len(q) + 1 <= Len(q))
          /\ Len(q) + 1 - Len(q) = 1
      BY <2>2, <2>3
    <3>2. (q \o u)[Len(q) + 1] = u[1]
      BY ONLY <2>5, <3>1
    <3> QED BY ONLY <2>3, <2>4, <3>2
  <2>8. Len(new) = Len(q) + (1 + Len(phase)) /\ \A j \in 1 .. Len(q) : new[j] = q[j]
    BY <2>2, <2>3, <2>4, <2>5
  <2>9. Len(new) = Len(q) + 1 + Len(phase)
    BY <2>2, <2>8
  <2> QED BY ONLY <2>2, <2>6, <2>7, <2>8, <2>9
<1> HIDE DEF new
<1>8. \A w \in Seq(Word) : \A n, k \in Nat : n <= k /\ Older(w, n) => Older(w, k)
  <2> SUFFICES ASSUME NEW w \in Seq(Word), NEW n \in Nat, NEW k \in Nat, n <= k, Older(w, n)
               PROVE  Older(w, k)
    OBVIOUS
  <2>1. \A i \in DOMAIN w : w[i][1] \in Int
    BY LenProperties DEF Word
  <2> QED BY <2>1 DEF Older
<1>9. \A j \in 1 .. Len(q) : q[j] \in Seq(Word)
  BY ElementOfSeq
<1>10. ASSUME NEW j \in 1 .. Len(new)
       PROVE  \/ j \in 1 .. Len(q) /\ new[j] = q[j]
              \/ j = Len(q) + 1 /\ new[j] = request
              \/ /\ j > Len(q) + 1
                 /\ \A i \in DOMAIN new[j] : new[j][i] = <<N, -1>>
  <2>1. CASE j > Len(q) + 1
    <3> DEFINE k == j - (Len(q) + 1)
    <3>0. Len(new) = Len(q) + 1 + Len(phase) /\ Len(q) \in Nat /\ Len(phase) \in Nat
      BY <1>7
    <3>1. k \in 1 .. Len(phase) /\ j = Len(q) + 1 + k
      BY <2>1, <3>0
    <3> HIDE DEF k
    <3>2. new[j] = phase[k]
      BY <1>7, <3>1
    <3> QED BY <1>5, <2>1, <3>1, <3>2
  <2> QED BY <1>7, <2>1
\* Where a request stands in the new queue.
<1>11. ASSUME NEW j \in 1 .. Len(new), NEW n \in 1 .. Len(t), new[j] = RequestIn(t, n)
       PROVE  \/ j \in 1 .. Len(q) /\ n \in 1 .. Len(s) /\ q[j] = RequestIn(s, n)
              \/ j = Len(q) + 1 /\ n = N
  <2>1. n \in Nat
    BY <1>1, MadeType
  <2>2. RequestIn(t, n)[1] = <<n, 0>> /\ 1 \in DOMAIN RequestIn(t, n)
    BY <1>1, MadeType
  <2>3. CASE j \in 1 .. Len(q)
    <3>1. Older(q[j], N) /\ 1 \in DOMAIN q[j] /\ q[j][1] = <<n, 0>>
      BY <1>7, <1>11, <2>2, <2>3 DEF InOrder
    <3>2. n < N
      BY <3>1 DEF Older
    <3>3. n \in 1 .. Len(s)
      BY <1>0, <2>1, <3>2
    <3>4. RequestIn(t, n) = RequestIn(s, n) /\ new[j] = q[j]
      BY <1>1, <1>7, <2>3, <3>3
    <3> QED BY <1>11, <2>3, <3>3, <3>4
  <2>4. CASE j = Len(q) + 1
    <3>1. request[1] = <<N, 0>>
      BY <1>0, <1>3
    <3> QED BY <1>7, <1>11, <2>2, <2>4, <3>1
  <2>5. CASE j > Len(q) + 1
    <3>1. ~(j \in 1 .. Len(q)) /\ j # Len(q) + 1
      BY <1>7, <2>5
    <3>2. \A i \in DOMAIN new[j] : new[j][i] = <<N, -1>>
      BY ONLY <1>11, <3>1, <1>10
    <3>3. new[j][1] = <<N, -1>>
      BY ONLY <1>11, <2>2, <3>2
    <3>4. <<N, -1>> = <<n, 0>>
      BY ONLY <1>11, <2>2, <3>3
    <3>5. -1 = 0
      BY ONLY <3>4
    <3> QED BY ONLY <3>5
  <2>6. j \in 1 .. Len(q) \/ j = Len(q) + 1 \/ j > Len(q) + 1
    <3>1. Len(new) = Len(q) + 1 + Len(phase) /\ Len(q) \in Nat /\ Len(phase) \in Nat
      BY <1>7
    <3> QED BY ONLY <3>1, j \in 1 .. Len(new)
  <2> QED BY ONLY <2>3, <2>4, <2>5, <2>6
<1>12. InOrder(new, t)
  <2>1. ASSUME NEW n \in 1 .. Len(t)
        PROVE  t[n].params <= MaxParameter
    <3>1. CASE n = N
      <4>1. t[n] = r /\ r.params = params
        BY <1>1, <3>1 DEF r
      <4>2. MaxParameter \in Nat
        BY MainAssumption
      <4> QED BY <4>1, <4>2
    <3>2. CASE n # N
      <4>1. n \in 1 .. Len(s) /\ t[n] = s[n]
        BY <1>0, <1>1, <3>2
      <4> QED BY <4>1 DEF InOrder
    <3> QED BY <3>1, <3>2
  <2>2. ASSUME NEW j \in 1 .. Len(new)
        PROVE  (IsRequest(new[j], t) \/ IsData(new[j])) /\ Older(new[j], Len(t) + 1)
    <3>1. CASE j \in 1 .. Len(q)
      <4>1. new[j] = q[j] /\ (IsRequest(q[j], s) \/ IsData(q[j])) /\ Older(q[j], N)
        BY <1>7, <3>1 DEF InOrder
      <4>2. IsRequest(q[j], s) => IsRequest(q[j], t)
        <5>1. \A n \in 1 .. Len(s) : n \in 1 .. Len(t) /\ RequestIn(t, n) = RequestIn(s, n)
          BY <1>0, <1>1
        <5> QED BY ONLY <5>1 DEF IsRequest
      <4> QED BY <1>0, <1>1, <1>8, <1>9, <3>1, <4>1, <4>2
    <3>2. CASE j = Len(q) + 1
      <4>1. N \in 1 .. Len(t) /\ new[j] = RequestIn(t, N)
        BY <1>0, <1>1, <1>2, <1>7, <3>2
      <4>2. DOMAIN request = 1 .. params + 1
        BY <1>0, <1>3, LenProperties
      <4>3. Older(request, Len(t) + 1)
        BY <1>0, <1>1, <1>3, <4>2 DEF Older
      <4> QED BY <1>7, <3>2, <4>1, <4>3 DEF IsRequest
    <3>3. CASE j > Len(q) + 1
      <4>1. ~(j \in 1 .. Len(q)) /\ j # Len(q) + 1
        BY <1>7, <3>3
      <4>2. \A i \in DOMAIN new[j] : new[j][i] = <<N, -1>>
        BY ONLY <2>2, <4>1, <1>10
      <4> QED BY <1>0, <1>1, <4>2 DEF IsData, Older
    <3> QED BY <1>10, <3>1, <3>2, <3>3
  <2>3. ASSUME NEW j \in 1 .. Len(new), NEW n \in 1 .. Len(t), new[j] = RequestIn(t, n),
               NEW i \in 1 .. j - 1
        PROVE  Older(new[i], n)
    <3>1. CASE j \in 1 .. Len(q) /\ n \in 1 .. Len(s) /\ q[j] = RequestIn(s, n)
      <4>1. i \in 1 .. Len(q)
        BY <1>7, <3>1
      <4> QED BY <1>7, <3>1, <4>1 DEF InOrder
    <3>2. CASE j = Len(q) + 1 /\ n = N
      <4>1. i \in 1 .. Len(q)
        BY <1>7, <3>2
      <4> QED BY <1>7, <3>2, <4>1 DEF InOrder
    <3> QED BY <1>11, <2>3, <3>1, <3>2
  <2> QED BY <2>1, <2>2, <2>3 DEF InOrder
<1>13. ASSUME NEW words \in Seq(Word), Past(words, q, s)
       PROVE  Past(words, new, t)
  <2>1. Older(words, N) /\ Older(words, Len(t) + 1)
    BY <1>0, <1>1, <1>8, <1>13 DEF Past
  <2>2. ASSUME NEW j \in 1 .. Len(new), NEW n \in 1 .. Len(t), new[j] = RequestIn(t, n)
        PROVE  Older(words, n)
    BY <1>11, <1>13, <2>1, <2>2 DEF Past
  <2> QED BY <2>1, <2>2 DEF Past
<1>14. t = Append(s, [params |-> params, data |-> data, upload |-> upload])
  BY DEF t, r
<1>15. q \o (Cut(RequestOf(Len(t), params)) \o DataPhase(Len(t), data)) = new
  BY <1>1, <1>4 DEF new, request, phase
<1> QED BY <1>12, <1>13, <1>14, <1>15

\* Two queues one behind the other.
LEMMA FrontOfQueue ==
    ASSUME NEW S, NEW p \in Seq(S), NEW q \in Seq(S), p # << >>
    PROVE  p \o q # << >> /\ Head(p \o q) = Head(p) /\ Tail(p \o q) = Tail(p) \o q
<1>1. Len(p) \in Nat \ {0} /\ Len(q) \in Nat
  BY EmptySeq, LenProperties
<1>2. p \o q \in Seq(S) /\ Len(p \o q) = Len(p) + Len(q)
      /\ \A i \in 1 .. Len(p) + Len(q) : (p \o q)[i] = IF i <= Len(p) THEN p[i] ELSE q[i - Len(p)]
  BY ConcatProperties
<1>3. p \o q # << >>
  BY <1>1, <1>2, EmptySeq
<1>4. Head(p \o q) = Head(p)
  BY <1>1, <1>2, <1>3
<1>5. Tail(p) \in Seq(S) /\ Len(Tail(p)) = Len(p) - 1
      /\ \A i \in 1 .. Len(p) - 1 : Tail(p)[i] = p[i + 1]
  BY HeadTailProperties
<1>6. /\ Tail(p \o q) \in Seq(S) /\ Len(Tail(p \o q)) = Len(p) + Len(q) - 1
      /\ \A i \in 1 .. Len(p) + Len(q) - 1 : Tail(p \o q)[i] = (p \o q)[i + 1]
  BY <1>2, <1>3, HeadTailProperties
<1>7. /\ Tail(p) \o q \in Seq(S) /\ Len(Tail(p) \o q) = Len(p) - 1 + Len(q)
      /\ \A i \in 1 .. Len(p) - 1 + Len(q) :
            (Tail(p) \o q)[i] = IF i <= Len(p) - 1 THEN Tail(p)[i] ELSE q[i - (Len(p) - 1)]
  BY <1>5, ConcatProperties
<1>8. ASSUME NEW i \in 1 .. Len(p) + Len(q) - 1
      PROVE  Tail(p \o q)[i] = (Tail(p) \o q)[i]
  <2>1. i + 1 \in 1 .. Len(p) + Len(q) /\ i \in 1 .. Len(p) - 1 + Len(q)
    BY <1>1
  <2>2. CASE i <= Len(p) - 1
    BY <1>1, <1>2, <1>5, <1>6, <1>7, <2>1, <2>2
  <2>3. CASE ~(i <= Len(p) - 1)
    <3>1. ~(i + 1 <= Len(p)) /\ i + 1 - Len(p) = i - (Len(p) - 1)
      BY <1>1, <2>3
    <3> QED BY <1>2, <1>6, <1>7, <2>1, <2>3, <3>1
  <2> QED BY <2>2, <2>3
<1>9. Tail(p \o q) = Tail(p) \o q
  BY <1>1, <1>6, <1>7, <1>8, SeqEqual
<1> QED BY <1>3, <1>4, <1>9

\* What is put together from words of the past is of the past.
LEMMA PastMixLemma ==
    ASSUME NEW s \in Made, NEW q \in Seq(Seq(Word)), NEW a \in Seq(Word), NEW b \in Seq(Word),
           NEW c \in Seq(Word), Past(a, q, s), Past(b, q, s),
           \A i \in 1 .. Len(c) : \/ \E k \in 1 .. Len(a) : c[i] = a[k]
                                  \/ \E k \in 1 .. Len(b) : c[i] = b[k]
    PROVE  Past(c, q, s)
<1>1. DOMAIN a = 1 .. Len(a) /\ DOMAIN b = 1 .. Len(b) /\ DOMAIN c = 1 .. Len(c)
  BY LenProperties
<1>2. \A n : Older(a, n) /\ Older(b, n) => Older(c, n)
  BY <1>1 DEF Older
<1> QED BY <1>2 DEF Past

-----------------------------------------------------------------------------
(* The buffer of requests.                                                 *)

LEMMA TypesLemma ==
    ASSUME ProgramInv
    PROVE  /\ pipe \in [Endpoint -> Seq(Seq(Word))] /\ mtp.OUT \in Endpoint
           /\ pipe[mtp.OUT] \in Seq(Seq(Word)) /\ toSend \in Seq(Seq(Word))
           /\ coming \in Seq(Seq(Word)) /\ sent \in Made
           /\ memory["mRequest"] \in Seq(Word) /\ urb \in Seq(Word)
           /\ BufferSize["mRequest"] \in Nat \ {0}
           /\ Len(memory["mRequest"]) = BufferSize["mRequest"] /\ memory["mRequest"] # << >>
           /\ memory \in [DOMAIN BufferSize -> Seq(Word)] /\ "mRequest" \in DOMAIN BufferSize
           /\ total \in Nat /\ posted \in Nat /\ result \in Int /\ Len(urb) \in Nat
           /\ mPacketSize \in Nat /\ at \in 0 .. Page - 1 /\ Page \in Nat \ {0}
<1>1. mtp.OUT \in Endpoint
  BY EndpointLemma DEF mtp
<1>2. /\ pipe \in [Endpoint -> Seq(Seq(Word))] /\ toSend \in Seq(Seq(Word)) /\ sent \in Made
      /\ urb \in Seq(Word) /\ memory \in [DOMAIN BufferSize -> Seq(Word)]
      /\ total \in Nat /\ posted \in Nat /\ result \in Int /\ mPacketSize \in Nat /\ at \in Offset
      /\ \A b \in DOMAIN BufferSize : Len(memory[b]) = BufferSize[b]
  BY DEF ProgramInv, TypeOK, WiresOK, TransferOK, ProgramOK, Made
<1>3. coming \in Seq(Seq(Word))
  BY <1>1, <1>2, ConcatProperties DEF coming
<1>4. "mRequest" \in DOMAIN BufferSize /\ at \in 0 .. Page - 1
  BY <1>2, MainAssumption
<1>5. BufferSize["mRequest"] \in Nat \ {0} /\ Page \in Nat \ {0}
  BY <1>4, UsbAssumption
<1>6. memory["mRequest"] \in Seq(Word) /\ Len(memory["mRequest"]) = BufferSize["mRequest"]
  BY <1>2, <1>4
<1>7. memory["mRequest"] # << >> /\ Len(urb) \in Nat
  BY <1>2, <1>5, <1>6, EmptySeq, LenProperties
<1> QED BY <1>1, <1>2, <1>3, <1>4, <1>5, <1>6, <1>7

\* Where the words of a chunk end up in the buffer of requests.
LEMMA StoredRequest ==
    ASSUME ProgramInv, call.into = "mRequest", NEW words \in Seq(Word), NEW over \in BOOLEAN,
           Store(words, over)
    PROVE  LET old == memory["mRequest"]
               new == memory'["mRequest"]
               k   == Lesser(posted, Len(words))
           IN  /\ new \in Seq(Word) /\ Len(new) = Len(old) /\ k \in Nat /\ k <= Len(words)
               /\ IF offset = 0 \/ over
                  THEN \A i \in 1 .. Len(old) :
                          new[i] = IF i \in total + 1 .. total + k THEN words[i - total] ELSE old[i]
                  ELSE new = old
<1>1. call.into \in DOMAIN BufferSize
  BY MainAssumption
<1> QED BY <1>1, StoredLemma

\* A packet arrives: from the front of the queue, if it is for the responder.
LEMMA ComingLemma ==
    ASSUME ProgramInv, InOrder(coming, sent), Arrives, UNCHANGED <<toSend, sent>>
    PROVE  /\ InOrder(coming', sent)
           /\ \A words : Past(words, coming, sent) => Past(words, coming', sent)
           /\ call.ep = mtp.OUT =>
                 /\ packet \in Seq(Word)
                 /\ IsRequest(packet, sent) \/ IsData(packet)
                 /\ Past(packet, coming', sent)
                 /\ \A words : \A n \in 1 .. Len(sent) :
                       Past(words, coming, sent) /\ packet = Request(n) => Older(words, n)
<1>1. /\ pipe \in [Endpoint -> Seq(Seq(Word))] /\ pipe[mtp.OUT] \in Seq(Seq(Word))
      /\ toSend \in Seq(Seq(Word)) /\ sent \in Made /\ coming \in Seq(Seq(Word)) /\ mtp.OUT \in Endpoint
  BY TypesLemma
<1>2. pipe[call.ep] # << >> /\ pipe' = [pipe EXCEPT ![call.ep] = Tail(@)]
  BY DEF Arrives
<1>3. CASE call.ep # mtp.OUT
  <2>1. coming' = coming
    BY <1>1, <1>2, <1>3 DEF coming
  <2> QED BY <1>3, <2>1
<1>4. CASE call.ep = mtp.OUT
  <2> DEFINE p == pipe[mtp.OUT]
  <2>1. p # << >> /\ pipe'[mtp.OUT] = Tail(p)
    BY <1>1, <1>2, <1>4
  <2>2. coming # << >> /\ Head(coming) = packet /\ Tail(coming) = Tail(p) \o toSend
    <3> HIDE DEF p
    <3>1. p \in Seq(Seq(Word))
      BY <1>1 DEF p
    <3>2. p \o toSend # << >> /\ Head(p \o toSend) = Head(p) /\ Tail(p \o toSend) = Tail(p) \o toSend
      BY ONLY <1>1, <2>1, <3>1, FrontOfQueue
    <3>3. coming = p \o toSend /\ packet = Head(p)
      BY <1>4 DEF coming, packet, p
    <3> QED BY <3>2, <3>3
  <2>3. coming' = Tail(coming)
    BY <2>1, <2>2 DEF coming
  <2>4. packet \in Seq(Word)
    BY <1>1, <2>2, HeadTailProperties
  <2>5. \A n \in 1 .. Len(sent) : RequestIn(sent, n) = Request(n)
    BY DEF RequestIn, Request
  <2> QED BY <1>1, <2>2, <2>3, <2>4, <2>5, TakenLemma
<1> QED BY <1>3, <1>4

\* A step of the transfer that takes no packet.
LEMMA NoPacketLemma ==
    ASSUME ProgramInv, ParametersInv,
           UNCHANGED <<interfaces, setup, index, program, rigid, stopThread, host, configured,
                       listening, call, retried, pipe, memory>>, urb' \in {urb, << >>},
           step' # "returned", step \in {"wait", "post", "posted"},
           step' = "posted" => posted' = chunksize /\ total' = total /\ urb' = << >> /\ step = "post",
           step' = "post" => total' = 0
    PROVE  ParametersInv'
<1> USE DEF program, rigid, host
<1>1. coming' = coming /\ InOrder(coming, sent)' /\ BufferOld'
  <2>1. coming' = coming
    BY DEF coming
  <2>2. Past(<< >>, coming, sent)
    BY DEF Past, Older
  <2> QED BY <2>1, <2>2 DEF ParametersInv, BufferOld
<1>2. ASSUME RoomForRequest
      PROVE  ReadOK' /\ HandledOK'
  <2>1. ReadOK /\ HandledOK
    BY <1>2 DEF ParametersInv
  <2>2. ASSUME pc = "request"
        PROVE  ReadOK'
    <3>1. call' = Read(mtp.OUT, at, "mRequest", TRUE) /\ at' = at
      BY <2>1, <2>2 DEF ReadOK
    <3>2. step' = "posted" => chunksize' = chunksize
      BY DEF chunksize, offset
    <3>3. step' \in {"post", "posted"} /\ total' > 0 => memory'["mRequest"][1][2] = -1
      BY <2>1, <2>2 DEF ReadOK
    <3> QED BY <3>1, <3>2, <3>3 DEF ReadOK
  <2>3. pc # "request" => ReadOK'
    BY DEF ReadOK
  <2>4. HandledOK'
    BY <2>1 DEF HandledOK, Transferring
  <2> QED BY <2>2, <2>3, <2>4
<1>3. RoomForRequest' = RoomForRequest
  BY DEF RoomForRequest
<1> QED BY <1>1, <1>2, <1>3 DEF ParametersInv

\* The buffer stays one of the past when a chunk ends up in it.
LEMMA OldLemma ==
    ASSUME ProgramInv, InOrder(coming, sent), BufferOld, Arrives, UNCHANGED <<toSend, sent, call>>,
           NEW over \in BOOLEAN, Store(urb \o packet, over), urb' \in {urb, << >>, urb \o packet}
    PROVE  InOrder(coming', sent) /\ BufferOld'
<1>1. InOrder(coming', sent) /\ \A words : Past(words, coming, sent) => Past(words, coming', sent)
  BY ComingLemma
<1>2. CASE call.into # "mRequest"
  <2>1. memory'["mRequest"] = memory["mRequest"]
    BY <1>2, TypesLemma DEF Store
  <2> QED BY <1>1, <1>2, <2>1 DEF BufferOld
<1>3. CASE call.into = "mRequest"
  <2> DEFINE words == urb \o packet
             old == memory["mRequest"]
             new == memory'["mRequest"]
             k == Lesser(posted, Len(words))
  <2>1. /\ sent \in Made /\ urb \in Seq(Word) /\ packet \in Seq(Word) /\ coming' \in Seq(Seq(Word))
        /\ old \in Seq(Word) /\ total \in Nat /\ posted \in Nat
    <3>1. packet \in Seq(Word) /\ pipe' \in [Endpoint -> Seq(Seq(Word))]
      BY ArrivesLemma DEF ProgramInv
    <3>2. pipe'[mtp.OUT] \in Seq(Seq(Word)) /\ toSend' \in Seq(Seq(Word))
      BY <3>1, TypesLemma
    <3>3. coming' \in Seq(Seq(Word))
      BY <3>2, ConcatProperties DEF coming
    <3> QED BY <3>1, <3>3, TypesLemma
  <2>2. Past(urb, coming', sent) /\ Past(packet, coming', sent) /\ Past(old, coming', sent)
    BY <1>1, <1>3, ComingLemma DEF BufferOld
  <2>3. /\ words \in Seq(Word) /\ Len(words) = Len(urb) + Len(packet)
        /\ \A i \in 1 .. Len(urb) + Len(packet) :
              words[i] = IF i <= Len(urb) THEN urb[i] ELSE packet[i - Len(urb)]
        /\ Len(urb) \in Nat /\ Len(packet) \in Nat
    BY <2>1, ConcatProperties, LenProperties
  <2> HIDE DEF words
  <2>4. \A i \in 1 .. Len(words) : \/ \E j \in 1 .. Len(urb) : words[i] = urb[j]
                                   \/ \E j \in 1 .. Len(packet) : words[i] = packet[j]
    <3> TAKE i \in 1 .. Len(words)
    <3>1. CASE i <= Len(urb)
      BY <2>3, <3>1
    <3>2. CASE ~(i <= Len(urb))
      <4>1. i - Len(urb) \in 1 .. Len(packet)
        BY <2>3, <3>2
      <4> QED BY <2>3, <3>2, <4>1
    <3> QED BY <3>1, <3>2
  <2>5. Past(words, coming', sent)
    BY <2>1, <2>2, <2>3, <2>4, PastMixLemma
  <2>6. /\ new \in Seq(Word) /\ Len(new) = Len(old) /\ k \in Nat /\ k <= Len(words)
        /\ IF offset = 0 \/ over
           THEN \A i \in 1 .. Len(old) :
                   new[i] = IF i \in total + 1 .. total + k THEN words[i - total] ELSE old[i]
           ELSE new = old
    BY <1>3, <2>3, StoredRequest DEF words
  <2> HIDE DEF old, new, k
  <2>7. \A i \in 1 .. Len(new) : \/ \E j \in 1 .. Len(old) : new[i] = old[j]
                                 \/ \E j \in 1 .. Len(words) : new[i] = words[j]
    <3> TAKE i \in 1 .. Len(new)
    <3>1. CASE new[i] = old[i]
      BY <2>6, <3>1
    <3>2. CASE i \in total + 1 .. total + k /\ new[i] = words[i - total]
      <4>1. total \in Nat /\ k \in Nat /\ k <= Len(words) /\ Len(words) \in Nat
        BY <2>1, <2>3, <2>6
      <4>2. i - total \in 1 .. Len(words)
        BY ONLY <3>2, <4>1
      <4> QED BY <3>2, <4>2
    <3> QED BY <2>6, <3>1, <3>2
  <2>8. Past(new, coming', sent)
    <3>1. new \in Seq(Word) /\ Past(old, coming', sent)
      BY <2>2, <2>6 DEF old
    <3> QED BY ONLY <2>1, <2>3, <2>5, <2>7, <3>1, PastMixLemma
  <2>9. Past(<< >>, coming', sent)
    BY DEF Past, Older
  <2>10. Past(urb', coming', sent)
    BY <2>2, <2>5, <2>9 DEF words
  <2> QED BY <1>1, <1>3, <2>8, <2>10 DEF BufferOld, new
<1> QED BY <1>2, <1>3

\* The first packet of a read is a request: it ends the read.
LEMMA RequestArrives ==
    ASSUME ProgramInv, ParametersInv, RoomForRequest, pc = "request", ReceivePacket,
           UNCHANGED <<program, rigid, host>>,
           total = 0, urb = << >>, NEW n \in 1 .. Len(sent), packet = Request(n)
    PROVE  /\ step' = "returned" /\ result' = sent[n].params + 1
           /\ Holds(memory'["mRequest"], sent[n].params + 1, sent)
<1> DEFINE m == sent[n].params + 1
           old == memory["mRequest"]
           new == memory'["mRequest"]
<1>1. InOrder(coming, sent) /\ BufferOld /\ ReadOK
  BY DEF ParametersInv
<1>2. sent \in Made /\ old \in Seq(Word) /\ posted \in Nat /\ at \in 0 .. Page - 1 /\ Page \in Nat \ {0}
      /\ BufferSize["mRequest"] \in Nat \ {0} /\ Len(old) = BufferSize["mRequest"]
  BY TypesLemma
<1>3. call = Read(mtp.OUT, at, "mRequest", TRUE) /\ step = "posted" /\ posted = chunksize
  BY <1>1 DEF ReadOK, ReceivePacket
<1>4. call.into = "mRequest" /\ call.at = at /\ call.size = BufferSize["mRequest"] /\ call.ep = mtp.OUT
  BY <1>3 DEF Read
<1>5. /\ packet \in Seq(Word) /\ Len(packet) = m /\ packet[1] = <<n, 0>>
      /\ m \in Nat \ {0} /\ m <= MaxParameter + 1
  <2>1. packet = RequestIn(sent, n)
    BY DEF Request, RequestIn
  <2>2. sent[n].params <= MaxParameter /\ sent[n].params \in Nat
    BY <1>1, <1>2, MadeType DEF InOrder
  <2> QED BY <1>2, <2>1, <2>2, MainAssumption, MadeType
<1> HIDE DEF m
<1>6. m < PacketSize /\ m <= call.size /\ MaxParameter \in Nat /\ PacketSize \in Nat
  BY <1>2, <1>4, <1>5, RequestAssumption, MainAssumption, UsbAssumption
<1>7. posted = IF at = 0 THEN call.size ELSE Lesser(call.size, Page - at)
  <2>1. at % Page = at
    BY <1>2
  <2>2. offset = at
    BY <1>2, <1>4, <2>1 DEF offset
  <2>3. posted = IF at = 0 THEN call.size - 0 ELSE Lesser(call.size - 0, Page - at)
    BY <1>3, <2>2 DEF chunksize
  <2>4. call.size - 0 = call.size
    BY <1>2, <1>4
  <2> QED BY <2>3, <2>4
<1>8. m <= posted /\ (m = posted => m = call.size)
  BY <1>2, <1>4, <1>5, <1>6, <1>7 DEF RoomForRequest, Lesser
<1>9. urb \o packet = packet
  BY <1>5, ConcatEmptySeq
<1>10. Completed(m) /\ Store(packet, TRUE)
  <2>1. ~(Len(packet) > posted) /\ Len(packet) < PacketSize
    BY <1>2, <1>5, <1>6, <1>8
  <2>2. Completed(Len(packet)) /\ Store(packet, TRUE)
    BY <1>9, <2>1 DEF ReceivePacket
  <2> QED BY <1>5, <2>2
<1>11. step' = "returned" /\ result' = m
  BY <1>2, <1>5, <1>8, <1>10 DEF Completed, Return
<1>12. Lesser(posted, Len(packet)) = m
  BY <1>2, <1>5, <1>8 DEF Lesser
<1>13. /\ new \in Seq(Word) /\ Len(new) = Len(old)
       /\ \A i \in 1 .. Len(old) : new[i] = IF i \in 1 .. m THEN packet[i] ELSE old[i]
  <2>1. /\ new \in Seq(Word) /\ Len(new) = Len(old)
        /\ \A i \in 1 .. Len(old) : new[i] = IF i \in 0 + 1 .. 0 + m THEN packet[i - 0] ELSE old[i]
    BY <1>4, <1>5, <1>10, <1>12, StoredRequest
  <2> QED BY <1>5, <2>1
<1> HIDE DEF new, old
<1>14. m <= Len(old) /\ Len(old) \in Nat
  BY <1>2, <1>4, <1>6
<1>15. Older(old, n)
  <2>1. Past(old, coming, sent)
    BY <1>1 DEF BufferOld, old
  <2>2. Arrives /\ UNCHANGED <<toSend, sent>>
    BY DEF ReceivePacket, host
  <2> QED BY <1>1, <1>4, <2>1, <2>2, ComingLemma
<1>16. new[1] = <<n, 0>>
  BY <1>5, <1>13, <1>14
<1>17. SubSeq(new, 1, m) = packet
  <2>1. \A i \in 1 .. m : new[i] \in Word /\ new[i] = packet[i]
    BY <1>5, <1>13, <1>14, ElementOfSeq
  <2>2. /\ SubSeq(new, 1, m) \in Seq(Word) /\ Len(SubSeq(new, 1, m)) = m
        /\ \A i \in 1 .. m : SubSeq(new, 1, m)[i] = new[i]
    BY <1>5, <2>1, SubSeqProperties
  <2> QED BY <1>5, <2>1, <2>2, SeqEqual
<1>18. \A i \in m + 1 .. Len(new) : new[i][1] < n
  <2> TAKE i \in m + 1 .. Len(new)
  <2>1. i \in 1 .. Len(old) /\ i \notin 1 .. m
    BY <1>5, <1>13, <1>14
  <2>2. new[i] = old[i] /\ i \in DOMAIN old
    BY <1>2, <1>13, <2>1, LenProperties DEF old
  <2> QED BY <1>15, <2>2 DEF Older
<1>19. Holds(new, m, sent)
  BY <1>16, <1>17, <1>18 DEF Holds, Request, RequestIn
<1> QED BY <1>11, <1>19 DEF m, new

\* Any other packet, or one that follows others: the read began with data.
LEMMA DataArrives ==
    ASSUME ProgramInv, ParametersInv, RoomForRequest, pc = "request", ReceivePacket,
           UNCHANGED <<program, rigid, host>>,
           total > 0 \/ urb # << >> \/ IsData(packet)
    PROVE  ReadOK'
<1> DEFINE words == urb \o packet
           old == memory["mRequest"]
           new == memory'["mRequest"]
           k == Lesser(posted, Len(words))
<1>1. BufferOld /\ ReadOK
  BY DEF ParametersInv
<1>2. /\ sent \in Made /\ old \in Seq(Word) /\ posted \in Nat /\ total \in Nat /\ urb \in Seq(Word)
      /\ BufferSize["mRequest"] \in Nat \ {0} /\ Len(old) = BufferSize["mRequest"]
  BY TypesLemma
<1>3. /\ call = Read(mtp.OUT, at, "mRequest", TRUE) /\ step = "posted" /\ posted = chunksize
      /\ total > 0 => old[1][2] = -1
      /\ total = 0 /\ urb # << >> => urb[1][2] = -1
  BY <1>1 DEF ReadOK, ReceivePacket
<1>4. call.into = "mRequest" /\ call' = call /\ posted' = posted /\ Arrives /\ sent' = sent /\ pc' = pc /\ at' = at
  BY <1>3 DEF Read, ReceivePacket, host, program, rigid
<1>5. packet \in Seq(Word)
  BY <1>4, ArrivesLemma DEF ProgramInv
<1>6. /\ words \in Seq(Word) /\ Len(words) = Len(urb) + Len(packet)
      /\ \A i \in 1 .. Len(urb) + Len(packet) :
            words[i] = IF i <= Len(urb) THEN urb[i] ELSE packet[i - Len(urb)]
      /\ Len(urb) \in Nat /\ Len(packet) \in Nat
  BY <1>2, <1>5, ConcatProperties, LenProperties
<1>7. Len(urb) < posted
  BY <1>3 DEF ProgramInv, ChunkFits
<1>8. total = 0 /\ words # << >> => words[1][2] = -1
  <2>1. CASE urb # << >>
    <3>1. Len(urb) \in Nat \ {0}
      BY <1>2, <2>1, EmptySeq
    <3>2. words[1] = urb[1]
      BY <1>6, <3>1
    <3> QED BY <1>3, <2>1, <3>2
  <2>2. CASE urb = << >>
    <3>1. words = packet /\ DOMAIN packet = 1 .. Len(packet)
      BY <1>5, <2>2, ConcatEmptySeq, LenProperties
    <3>2. packet # << >> => 1 \in DOMAIN packet
      BY <1>5, <3>1, EmptySeq
    <3> QED BY <1>2, <2>2, <3>1, <3>2 DEF IsData
  <2> QED BY <2>1, <2>2
<1>9. \A over \in BOOLEAN : Store(words, over) =>
         /\ new \in Seq(Word) /\ Len(new) = Len(old) /\ k \in Nat /\ k <= Len(words)
         /\ IF offset = 0 \/ over
            THEN \A i \in 1 .. Len(old) :
                    new[i] = IF i \in total + 1 .. total + k THEN words[i - total] ELSE old[i]
            ELSE new = old
  BY <1>4, <1>6, StoredRequest
<1> HIDE DEF words, new, old
<1>10. 1 \in 1 .. Len(old)
  BY <1>2
\* The first word stays what it is if there was one.
<1>11. \A over \in BOOLEAN : total > 0 /\ Store(words, over) => new[1][2] = -1
  <2> SUFFICES ASSUME NEW over \in BOOLEAN, total > 0, Store(words, over)
               PROVE  new[1] = old[1]
    BY <1>3
  <2>1. 1 \notin total + 1 .. total + k
    BY <1>2
  <2> QED BY <1>9, <1>10, <2>1
\* It is the first of the packet if there was none.
<1>12. total = 0 /\ words # << >> /\ Store(words, TRUE) => new[1][2] = -1
  <2> SUFFICES ASSUME total = 0, words # << >>, Store(words, TRUE)
               PROVE  new[1] = words[1]
    BY <1>8
  <2>1. Len(words) \in Nat \ {0} /\ k \in Nat \ {0}
    BY <1>2, <1>6, <1>7, EmptySeq DEF Lesser
  <2> HIDE DEF k
  <2>2. 1 \in 0 + 1 .. 0 + k /\ 1 - 0 = 1
    BY <2>1
  <2>3. new[1] = IF 1 \in 0 + 1 .. 0 + k THEN words[1 - 0] ELSE old[1]
    BY <1>9, <1>10
  <2> QED BY <2>2, <2>3
\* A chunk that is over.
<1>13. ASSUME NEW m \in Nat, Completed(m), Store(words, TRUE), m <= Len(words), m <= posted
       PROVE  ReadOK'
  <2>1. total' = total + m /\ step' \in {"post", "returned"}
        /\ (step' = "returned" => result' = total')
        /\ (m = 0 => step' = "returned")
    BY <1>2, <1>6, <1>7, <1>13 DEF Completed, Return
  <2>2. CASE total' > 0
    <3>1. new[1][2] = -1
      <4>1. CASE total > 0
        BY <1>11, <1>13, <4>1
      <4>2. CASE total = 0
        <5>1. m > 0
          BY <1>2, <2>1, <2>2, <4>2
        <5>2. words # << >>
          BY <1>6, <1>13, <5>1, EmptySeq
        <5> QED BY <1>12, <1>13, <4>2, <5>2
      <4> QED BY <1>2, <4>1, <4>2
    <3>2. Holds(new, result', sent)
      BY <3>1 DEF Holds
    <3> QED BY <1>3, <1>4, <2>1, <3>1, <3>2 DEF ReadOK, new
  <2>3. CASE ~(total' > 0)
    BY <1>2, <1>3, <1>4, <2>1, <2>3 DEF ReadOK
  <2> QED BY <2>2, <2>3
<1>14. CASE Len(words) > posted
  <2>1. Store(words, TRUE) /\ (Completed(posted) \/ step' = "failed")
    BY <1>14 DEF ReceivePacket, words
  <2>2. posted <= Len(words) /\ posted <= posted
    BY <1>2, <1>6, <1>14
  <2>3. step' = "failed" => ReadOK'
    BY <1>3, <1>4 DEF ReadOK
  <2> QED BY <1>2, <1>13, <2>1, <2>2, <2>3
<1>15. CASE ~(Len(words) > posted) /\ (Len(words) = posted \/ Len(packet) < PacketSize)
  <2>1. Store(words, TRUE) /\ Completed(Len(words))
    BY <1>15 DEF ReceivePacket, words
  <2>2. Len(words) \in Nat /\ Len(words) <= posted /\ Len(words) <= Len(words)
    BY <1>2, <1>6, <1>15
  <2> QED BY ONLY <1>13, <2>1, <2>2
<1>16. CASE ~(Len(words) > posted) /\ ~(Len(words) = posted \/ Len(packet) < PacketSize)
  <2>1. Store(words, FALSE) /\ urb' = words /\ UNCHANGED <<step, total, result>>
    BY <1>16 DEF ReceivePacket, words, More
  <2>2. total > 0 => new[1][2] = -1
    BY <1>11, <2>1
  <2>3. chunksize' = chunksize
    BY <1>4, <2>1 DEF chunksize, offset
  <2> QED BY <1>3, <1>4, <1>8, <2>1, <2>2, <2>3 DEF ReadOK, new
<1> QED BY <1>14, <1>15, <1>16

\* Every step of a transfer.
LEMMA TransferParameters ==
    ASSUME ProgramInv, ParametersInv, Transfers, UNCHANGED <<rigid, stopThread, host>>
    PROVE  ParametersInv'
<1> USE DEF Transfers, interfaces, wires, chunk, history, program, rigid, host
<1>1. UNCHANGED <<interfaces, setup, index, configured, listening, call, program>>
  BY DEF usbTransfer, WaitReady, PostBuffer, ReceivePacket, SendPacket, TimedOut, Failed
<1>2. /\ InOrder(coming, sent) /\ BufferOld /\ (RoomForRequest => ReadOK /\ HandledOK)
      /\ RoomForRequest' = RoomForRequest
  BY DEF ParametersInv, RoomForRequest
<1>3. CASE WaitReady
  BY <1>1, <1>3, NoPacketLemma DEF WaitReady
<1>4. CASE PostBuffer
  BY <1>1, <1>4, NoPacketLemma DEF PostBuffer
<1>5. CASE Failed
  <2>1. /\ step = "failed"
        /\ step' = "wait" \/ (step' = "returned" /\ result' = -1)
        /\ UNCHANGED <<pipe, memory, urb>>
    BY <1>5 DEF Failed, Return
  <2>2. ASSUME RoomForRequest
        PROVE  ReadOK' /\ HandledOK'
    <3>1. ReadOK /\ HandledOK
      BY <1>2, <2>2
    <3>2. ReadOK'
      <4>1. step' \notin {"post", "posted"} /\ ~(step' = "returned" /\ result' > 0)
        BY <2>1
      <4> QED BY <1>1, <3>1, <4>1 DEF ReadOK
    <3>3. HandledOK'
      <4>1. Transferring' => Transferring
        BY <2>1 DEF Transferring
      <4> QED BY <1>1, <2>1, <3>1, <4>1 DEF HandledOK
    <3> QED BY <3>2, <3>3
  <2> QED BY <1>1, <1>2, <2>1, <2>2 DEF ParametersInv, BufferOld, coming
<1>6. CASE SendPacket
  <2>1. call.into # "mRequest" /\ call.dir = "write"
    BY <1>2, <1>6 DEF BufferOld, SendPacket
  <2>2. UNCHANGED <<pipe, memory>>
    BY <1>6 DEF SendPacket
  <2>3. coming' = coming /\ BufferOld'
    BY <1>1, <1>2, <2>1, <2>2 DEF BufferOld, coming
  <2>4. ASSUME RoomForRequest
        PROVE  ReadOK' /\ HandledOK'
    <3>1. ReadOK /\ HandledOK
      BY <1>2, <2>4
    <3>2. pc # "request"
      BY <2>1, <3>1 DEF ReadOK, Read
    <3> QED BY <1>1, <2>1, <2>2, <3>1, <3>2 DEF ReadOK, HandledOK
  <2> QED BY <1>1, <1>2, <2>3, <2>4 DEF ParametersInv
<1>7. CASE ReceivePacket \/ (TimedOut /\ Arrives /\ Store(urb \o packet, FALSE))
  <2>1. /\ Arrives /\ UNCHANGED <<toSend, sent, call>>
        /\ \E over \in BOOLEAN : Store(urb \o packet, over)
        /\ step = "posted"
    <3>1. CASE ReceivePacket
      <4>1. Store(urb \o packet, TRUE) \/ Store(urb \o packet, FALSE)
        BY <3>1 DEF ReceivePacket
      <4> QED BY <1>1, <3>1, <4>1 DEF ReceivePacket
    <3>2. CASE TimedOut /\ Arrives /\ Store(urb \o packet, FALSE)
      BY <1>1, <3>2 DEF TimedOut
    <3> QED BY <1>7, <3>1, <3>2
  <2>2. urb' \in {urb, << >>, urb \o packet}
    BY <1>7 DEF ReceivePacket, TimedOut, Completed, More
  <2>3. InOrder(coming', sent) /\ BufferOld'
    BY <1>2, <2>1, <2>2, OldLemma
  <2>4. ASSUME RoomForRequest
        PROVE  ReadOK'
    <3>1. CASE pc # "request"
      BY <1>1, <3>1 DEF ReadOK
    <3>2. CASE pc = "request" /\ TimedOut
      BY <1>1, <1>2, <2>4, <3>2 DEF ReadOK, TimedOut
    <3>3. CASE pc = "request" /\ ReceivePacket
      <4>1. CASE total > 0 \/ urb # << >> \/ IsData(packet)
        BY <1>1, <2>4, <3>3, <4>1, DataArrives
      <4>2. CASE total = 0 /\ urb = << >> /\ IsRequest(packet, sent)
        <5>1. PICK n \in 1 .. Len(sent) : packet = Request(n)
          BY <4>2 DEF IsRequest, RequestIn, Request
        <5>2. /\ step' = "returned" /\ result' = sent[n].params + 1
              /\ Holds(memory'["mRequest"], sent[n].params + 1, sent)
          BY <1>1, <2>4, <3>3, <4>2, <5>1, RequestArrives
        <5>3. call = Read(mtp.OUT, at, "mRequest", TRUE)
          BY <1>2, <2>4, <3>3 DEF ReadOK
        <5> QED BY <1>1, <5>2, <5>3 DEF ReadOK
      <4>3. call.ep = mtp.OUT
        BY <1>2, <2>4, <3>3 DEF ReadOK, Read
      <4>4. IsRequest(packet, sent) \/ IsData(packet)
        BY <1>2, <2>1, <4>3, ComingLemma
      <4> QED BY <4>1, <4>2, <4>4, TypesLemma
    <3> QED BY <1>7, <3>1, <3>2, <3>3
  <2>5. ASSUME RoomForRequest
        PROVE  HandledOK'
    <3>1. HandledOK
      BY <1>2, <2>5
    <3>2. Transferring
      BY <2>1 DEF Transferring
    <3>3. pc \in Handling => memory'["mRequest"] = memory["mRequest"]
      <4>1. call.into # "mRequest" => memory'["mRequest"] = memory["mRequest"]
        BY <2>1, TypesLemma DEF Store
      <4> QED BY <3>1, <3>2, <4>1 DEF HandledOK, Handling
    <3> QED BY <1>1, <3>1, <3>2, <3>3 DEF HandledOK, Transferring
  <2> QED BY <1>1, <1>2, <2>3, <2>4, <2>5 DEF ParametersInv
<1>8. CASE TimedOut /\ UNCHANGED <<pipe, moved, memory>>
  BY <1>1, <1>8, NoPacketLemma DEF TimedOut
<1> QED BY <1>3, <1>4, <1>5, <1>6, <1>7, <1>8 DEF usbTransfer, TimedOut

-----------------------------------------------------------------------------
(* The program and the other side.                                         *)

\* A step that makes no transfer move leaves the queue and the buffer alone.
LEMMA StillLemma ==
    ASSUME ProgramInv, ParametersInv, UNCHANGED <<pipe, memory, rigid, host, call, urb>>
    PROVE  InOrder(coming', sent') /\ BufferOld'
  BY DEF ParametersInv, BufferOld, coming, host

\* A call is of the buffer of requests only where the loop reads one.
LEMMA CallParameters ==
    ASSUME ProgramInv, ParametersInv, NEW c, NEW next, Calls(c, next),
           UNCHANGED <<rigid, stopThread, host>>,
           IF next = "request" THEN c = Read(mtp.OUT, at, "mRequest", TRUE) ELSE c.into # "mRequest",
           RoomForRequest /\ next \in Handling /\ mPacketSize' > 0 =>
               Holds(memory["mRequest"], mPacketSize', sent)
    PROVE  ParametersInv'
<1> USE DEF Calls, Call, Goto, Steady, rigid, host, wires
<1>1. coming' = coming
  BY DEF coming
<1>2. Past(<< >>, coming, sent)
  BY DEF Past, Older
<1>3. BufferOld'
  <2>1. c.into = "mRequest" => c.ep = mtp.OUT /\ c.dir = "read"
    BY DEF Read
  <2> QED BY <1>1, <1>2, <2>1 DEF ParametersInv, BufferOld
<1>4. ReadOK'
  <2>1. step' \in {"wait", "returned"} /\ (step' = "returned" => result' = 0)
    OBVIOUS
  <2>2. next = "request" => call' = Read(mtp.OUT, at', "mRequest", TRUE)
    OBVIOUS
  <2> QED BY <2>1, <2>2 DEF ReadOK
<1>5. RoomForRequest => HandledOK'
  <2>1. "request" \notin Handling
    BY DEF Handling
  <2> QED BY <2>1 DEF HandledOK
<1> QED BY <1>1, <1>3, <1>4, <1>5 DEF ParametersInv, RoomForRequest

\* Going on without a call.
LEMMA WaitParameters ==
    ASSUME ProgramInv, ParametersInv, NEW next, Waits(next), ~Transferring, next # "request",
           UNCHANGED <<rigid, stopThread, host>>,
           RoomForRequest /\ next \in Handling /\ mPacketSize' > 0 =>
               Holds(memory["mRequest"], mPacketSize', sent)
    PROVE  ParametersInv'
<1> USE DEF Waits, Goto, Steady, rigid, host, wires, transfer, chunk, history
<1>1. InOrder(coming', sent') /\ BufferOld'
  BY StillLemma
<1>2. ReadOK'
  BY DEF ReadOK
<1>3. RoomForRequest => HandledOK'
  BY DEF HandledOK, Transferring
<1> QED BY <1>1, <1>2, <1>3 DEF ParametersInv, RoomForRequest

LEMMA ProgramParameters ==
    ASSUME ProgramInv, ParametersInv, UNCHANGED <<rigid, stopThread, host>>,
           \/ SetUpDone \/ AwaitStart \/ Run \/ Loop \/ RequestRead \/ DataRead
           \/ Log \/ ReadInitialData \/ ReceiveFile \/ Handle \/ Replied \/ Responded \/ Join \/ Closed
    PROVE  ParametersInv'
<1> USE DEF Answered
<1>0. /\ mPacketSize \in Nat /\ result \in Int
      /\ RoomForRequest /\ pc \in Handling /\ mPacketSize > 0 => Holds(memory["mRequest"], mPacketSize, sent)
      /\ RoomForRequest /\ pc = "request" /\ step = "returned" /\ result > 0 =>
            Holds(memory["mRequest"], result, sent)
      /\ Transferring => pc \in CallPc
      /\ step = "returned" \/ step = "idle" => ~Transferring
  BY TypesLemma DEF ParametersInv, ReadOK, HandledOK, ProgramInv, ChunkFits, CallPc, Transferring
<1>1. /\ "nxlink" \notin Handling /\ "main" \notin Handling /\ "run" \notin Handling
      /\ "top" \notin Handling /\ "request" \notin Handling /\ "join" \notin Handling
      /\ "nxlinkStdioClose" \notin Handling /\ "usbExit" \notin Handling
      /\ {"data", "handle", "log", "first", "receive", "reply", "response"} = Handling
  BY DEF Handling
<1>2. /\ Read(serial.OUT, at, "start", FALSE).into # "mRequest"
      /\ Read(mtp.OUT, at, "mData", TRUE).into # "mRequest"
      /\ Read(mtp.OUT, at, "initialData", TRUE).into # "mRequest"
      /\ Read(mtp.OUT, 0, "buffer", TRUE).into # "mRequest"
      /\ \A n \in Nat : /\ Write(mtp.IN, at, Text(n)).into # "mRequest"
                        /\ Write(serial.IN, at, Text(n)).into # "mRequest"
  BY DEF Read, Write
<1>3. CASE SetUpDone
  BY <1>0, <1>1, <1>3, WaitParameters DEF SetUpDone, CallPc
<1>4. CASE AwaitStart
  <2>1. ~Transferring
    BY <1>4 DEF AwaitStart, Transferring
  <2>2. CASE Waits("main")
    BY <1>1, <1>4, <2>1, <2>2, WaitParameters
  <2>3. CASE Calls(Read(serial.OUT, at, "start", FALSE), "nxlink")
    BY <1>1, <1>2, <1>4, <2>3, CallParameters
  <2> QED BY <1>4, <2>2, <2>3 DEF AwaitStart
<1>5. CASE Run
  BY <1>0, <1>1, <1>5, WaitParameters DEF Run, CallPc
<1>6. CASE Loop
  <2>1. CASE mRunning
    BY <1>1, <1>6, <2>1, CallParameters DEF Loop
  <2>2. CASE ~mRunning
    BY <1>0, <1>1, <1>6, <2>2, WaitParameters DEF Loop, CallPc
  <2> QED BY <2>1, <2>2
<1>7. CASE RequestRead
  <2>1. ~Transferring /\ pc = "request" /\ step = "returned"
        /\ mPacketSize' = IF result >= 0 THEN result ELSE 0
    BY <1>7 DEF RequestRead, Transferring
  <2>2. RoomForRequest /\ mPacketSize' > 0 => Holds(memory["mRequest"], mPacketSize', sent)
    BY <1>0, <2>1
  <2>3. CASE Waits("top") \/ Waits("handle")
    BY <1>1, <2>1, <2>2, <2>3, WaitParameters
  <2>4. CASE Calls(Read(mtp.OUT, at, "mData", TRUE), "data")
    BY <1>1, <1>2, <2>2, <2>4, CallParameters
  <2> QED BY <1>7, <2>3, <2>4 DEF RequestRead
<1>8. CASE DataRead
  <2>1. ~Transferring /\ pc \in Handling /\ mPacketSize' = mPacketSize
    BY <1>1, <1>8 DEF DataRead, Transferring
  <2> QED BY <1>0, <1>1, <1>8, <2>1, WaitParameters DEF DataRead
<1>9. CASE Log
  BY <1>0, <1>1, <1>2, <1>9, CallParameters DEF Log
<1>10. CASE Handle
  <2>1. pc \in Handling /\ mPacketSize' = mPacketSize
    BY <1>1, <1>10 DEF Handle, Handled
  <2>2. CASE SendResponse
    BY <1>0, <1>1, <1>2, <2>1, <2>2, CallParameters DEF SendResponse
  <2>3. ASSUME NEW n \in ReplySize \ {0}, Calls(Write(mtp.IN, at, Text(n)), "reply")
        PROVE  ParametersInv'
    BY <1>0, <1>1, <1>2, <2>1, <2>3, CallParameters, MainAssumption
  <2> QED BY <1>10, <2>2, <2>3 DEF Handle
<1>11. CASE Replied
  <2>1. ~Transferring /\ pc \in Handling /\ mPacketSize' = mPacketSize
    BY <1>1, <1>11 DEF Replied, Transferring
  <2>2. CASE Waits("top")
    BY <1>1, <2>1, <2>2, WaitParameters
  <2>3. CASE SendResponse
    BY <1>0, <1>1, <1>2, <2>1, <2>3, CallParameters DEF SendResponse
  <2> QED BY <1>11, <2>2, <2>3 DEF Replied
<1>12. CASE Responded
  BY <1>0, <1>1, <1>12, WaitParameters DEF Responded
<1>13. CASE Join
  <2>1. CASE Waits("usbExit")
    BY <1>0, <1>1, <1>13, <2>1, WaitParameters DEF Join, CallPc
  <2>2. CASE Calls(Write(serial.IN, at, Text(2)), "nxlinkStdioClose")
    BY <1>1, <1>2, <1>13, <2>2, CallParameters
  <2> QED BY <1>13, <2>1, <2>2 DEF Join
<1>14. CASE Closed
  BY <1>0, <1>1, <1>14, WaitParameters DEF Closed
<1>15. CASE ReadInitialData
  BY <1>0, <1>1, <1>2, <1>15, CallParameters DEF ReadInitialData
<1>16. CASE ReceiveFile
  BY <1>0, <1>1, <1>2, <1>16, CallParameters DEF ReceiveFile
<1> QED BY <1>3, <1>4, <1>5, <1>6, <1>7, <1>8, <1>9, <1>10, <1>11, <1>12, <1>13, <1>14, <1>15, <1>16

\* The other side works on the queue, and a transfer may break off.
LEMMA HostParameters ==
    ASSUME ProgramInv, ParametersInv, InOrder(coming', sent'),
           \A words \in Seq(Word) : Past(words, coming, sent) => Past(words, coming', sent'),
           \A m : Holds(memory["mRequest"], m, sent) => Holds(memory["mRequest"], m, sent'),
           UNCHANGED <<call, memory, pc, mPacketSize, rigid, total, posted, urb, result>>,
           step' = step \/ (step = "posted" /\ step' = "failed")
    PROVE  ParametersInv'
<1> USE DEF rigid
<1>1. BufferOld'
  BY TypesLemma DEF ParametersInv, BufferOld
<1>2. ASSUME RoomForRequest
      PROVE  ReadOK' /\ HandledOK'
  <2>1. ReadOK /\ HandledOK
    BY <1>2 DEF ParametersInv
  <2>2. chunksize' = chunksize
    BY DEF chunksize, offset
  <2>3. ReadOK'
    BY <2>1, <2>2 DEF ReadOK
  <2>4. HandledOK'
    BY <2>1 DEF HandledOK, Transferring
  <2> QED BY <2>3, <2>4
<1> QED BY <1>1, <1>2 DEF ParametersInv, RoomForRequest

LEMMA InitParameters == Init => ParametersInv
<1> SUFFICES ASSUME Init PROVE ParametersInv
  OBVIOUS
<1>1. coming = << >> /\ sent = << >> /\ Len(sent) = 0
  <2>1. pipe[mtp.OUT] = << >> /\ toSend = << >> /\ sent = << >>
    BY EndpointLemma DEF Init, UsbInit, mtp
  <2> QED BY <2>1 DEF coming
<1>2. InOrder(coming, sent)
  BY <1>1 DEF InOrder
<1>3. memory["mRequest"] = [i \in 1 .. BufferSize["mRequest"] |-> junk]
  <2>1. "mRequest" \in DOMAIN BufferSize
    BY MainAssumption
  <2> QED BY <2>1 DEF Init
<1>4. Past(memory["mRequest"], coming, sent) /\ Past(urb, coming, sent)
  <2>1. Older(memory["mRequest"], 1)
    BY <1>3 DEF Older, junk
  <2>2. Older(urb, 1)
    BY DEF Older, Init, UsbInit
  <2>3. Len(sent) + 1 = 1 /\ Len(coming) = 0
    BY <1>1
  <2> QED BY <2>1, <2>2, <2>3 DEF Past
<1>5. BufferOld
  BY <1>4 DEF BufferOld, Init, UsbInit, NoCall, Write
<1>6. ReadOK /\ HandledOK
  BY DEF ReadOK, HandledOK, Init, UsbInit, Transferring, Handling
<1> QED BY <1>2, <1>5, <1>6 DEF ParametersInv

LEMMA StepParameters == ProgramInv /\ ParametersInv /\ [Next]_vars => ParametersInv'
<1> SUFFICES ASSUME ProgramInv, ParametersInv, [Next]_vars PROVE ParametersInv'
  OBVIOUS
<1> USE DEF vars, program, rigid, host, wires, transfer, chunk, history, Steady
<1>0. /\ InOrder(coming, sent) /\ sent \in Made /\ pipe \in [Endpoint -> Seq(Seq(Word))]
      /\ pipe[mtp.OUT] \in Seq(Seq(Word)) /\ toSend \in Seq(Seq(Word)) /\ mtp.OUT \in Endpoint
  BY TypesLemma DEF ParametersInv
<1>1. CASE Server
  <2>1. UNCHANGED <<rigid, stopThread, host>>
    BY <1>1 DEF Server
  <2>2. CASE SetUp
    <3>1. InOrder(coming', sent') /\ BufferOld'
      BY <2>1, <2>2, StillLemma DEF SetUp, usbInitialize
    <3>2. UNCHANGED <<call, memory, pc, mPacketSize, rigid, step, total, posted, urb, result>>
      BY <2>1, <2>2 DEF SetUp, usbInitialize
    <3>3. coming' = coming /\ sent' = sent
      BY <2>1, <2>2 DEF SetUp, usbInitialize, coming
    <3> QED BY <3>1, <3>2, <3>3, HostParameters
  <2>3. CASE Exit
    <3>1. InOrder(coming', sent') /\ BufferOld'
      BY <2>1, <2>3, StillLemma DEF Exit
    <3>2. ~Transferring /\ Transferring' = Transferring /\ pc' = "ended"
      BY <2>3 DEF Exit, Goto, ProgramInv, ChunkFits, Transferring
    <3>3. ReadOK' /\ HandledOK'
      BY <3>2 DEF ReadOK, HandledOK, Handling
    <3> QED BY <3>1, <3>3 DEF ParametersInv
  <2>4. CASE Transfers
    BY <2>1, <2>4, TransferParameters
  <2> QED BY <1>1, <2>1, <2>2, <2>3, <2>4, ProgramParameters DEF Server
<1>2. CASE PressB \/ LeaveApplet \/ Returns \/ UNCHANGED vars
  <2>1. UNCHANGED <<pipe, toSend, sent, call, memory, pc, mPacketSize, rigid, step, total, posted, urb, result>>
    BY <1>2 DEF PressB, LeaveApplet, Returns, Plug
  <2>2. coming' = coming /\ sent' = sent
    BY <2>1 DEF coming
  <2> QED BY <1>0, <2>1, <2>2, HostParameters
<1>3. ASSUME NEW params \in 0 .. MaxParameter, NEW data \in Nat, NEW upload \in BOOLEAN,
             Requests(params, data, upload)
      PROVE  ParametersInv'
  <2> DEFINE r == [params |-> params, data |-> data, upload |-> upload]
             more == Cut(RequestOf(Len(sent'), params)) \o DataPhase(Len(sent'), data)
  <2>1. /\ toSend = << >> /\ sent' = Append(sent, r) /\ toSend' = more
        /\ UNCHANGED <<pipe, call, memory, pc, mPacketSize, rigid, step, total, posted, urb, result>>
    BY <1>3 DEF Requests
  <2>2. coming = pipe[mtp.OUT]
    BY <1>0, <2>1, ConcatEmptySeq DEF coming
  <2>3. coming' = coming \o more
    BY <2>1, <2>2 DEF coming
  <2>4. /\ InOrder(coming', sent')
        /\ \A words \in Seq(Word) : Past(words, coming, sent) => Past(words, coming', sent')
    BY <1>0, <2>1, <2>2, <2>3, MadeLemma
  <2>5. \A m : Holds(memory["mRequest"], m, sent) => Holds(memory["mRequest"], m, sent')
    <3>1. r \in [params : Nat, data : Nat, upload : BOOLEAN]
      BY MainAssumption
    <3>2. Older(memory["mRequest"], Len(sent) + 1)
      BY DEF ParametersInv, BufferOld, Past
    <3> QED BY <1>0, <2>1, <3>1, <3>2, TypesLemma, HoldsLemma
  <2> QED BY <2>1, <2>4, <2>5, HostParameters
<1>4. CASE Sends
  <2>1. /\ toSend # << >> /\ toSend' = Tail(toSend)
        /\ pipe' = [pipe EXCEPT ![mtp.OUT] = Append(@, Head(toSend))]
        /\ UNCHANGED <<sent, call, memory, pc, mPacketSize, rigid, step, total, posted, urb, result>>
    BY <1>4 DEF Sends, HostSends
  <2>2. coming' = Append(pipe[mtp.OUT], Head(toSend)) \o Tail(toSend)
    BY <1>0, <2>1 DEF coming
  <2>3. coming' = coming
    BY <1>0, <2>1, <2>2, NextOfQueue DEF coming
  <2> QED BY <1>0, <2>1, <2>3, HostParameters
<1>5. ASSUME NEW line, Types(line)
      PROVE  ParametersInv'
  <2>1. /\ pipe' = [pipe EXCEPT ![serial.OUT] = Append(@, line)]
        /\ UNCHANGED <<sent, toSend, call, memory, pc, mPacketSize, rigid, step, total, posted, urb, result>>
    BY <1>5 DEF Types, HostSends
  <2>2. mtp.OUT # serial.OUT
    BY DEF mtp, serial
  <2>3. coming' = coming
    BY <1>0, <2>1, <2>2 DEF coming
  <2> QED BY <1>0, <2>1, <2>3, HostParameters
<1>6. CASE Leaves
  <2>1. /\ pipe' = [e \in Endpoint |-> << >>] /\ toSend' = << >>
        /\ step' = IF step = "posted" THEN "failed" ELSE step
        /\ UNCHANGED <<sent, call, memory, pc, mPacketSize, rigid, total, posted, urb, result>>
    BY <1>6 DEF Leaves, Unplug
  <2>2. coming' = << >>
    BY <1>0, <2>1 DEF coming
  <2> QED BY <1>0, <2>1, <2>2, LostLemma, HostParameters
<1>7. \A data \in DataSize \cup FileSize : data \in Nat
  BY MainAssumption
<1>8. MaxParameter \in 0 .. MaxParameter
  BY MainAssumption
<1> QED BY <1>1, <1>2, <1>3, <1>4, <1>5, <1>6, <1>7, <1>8 DEF Next

\* What getParameter reads of a request that was received: its parameters as
\* far as it has some, and behind them only what older requests left.  Which
\* reads time out, are broken off by the host's leaving or tried again, and
\* what came before, does not matter.
THEOREM ParametersSentHolds == Spec => []ParametersSent
<1>1. Init => ProgramInv /\ ParametersInv
  BY InitInv, InitParameters
<1>2. ProgramInv /\ ParametersInv /\ [Next]_vars => (ProgramInv /\ ParametersInv)'
  BY StepInv, StepParameters
<1>3. ProgramInv /\ ParametersInv => ParametersSent
  <2> SUFFICES ASSUME ProgramInv, ParametersInv,
                      pc \in Handling, mPacketSize > 0, RoomForRequest
               PROVE  LET words == memory["mRequest"]
                          n     == words[1][1]
                      IN  n > 0 /\ words[1][2] = 0 =>
                             /\ SubSeq(words, 1, mPacketSize) = Request(n)
                             /\ \A i \in mPacketSize + 1 .. Len(words) : words[i][1] < n
    BY DEF ParametersSent
  <2>1. Holds(memory["mRequest"], mPacketSize, sent)
    BY DEF ParametersInv, HandledOK
  <2> QED BY <2>1 DEF Holds, Request, RequestIn
<1> QED BY <1>1, <1>2, <1>3, PTL DEF Spec
=============================================================================
