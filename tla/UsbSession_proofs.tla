------------------------- MODULE UsbSession_proofs -------------------------
(***************************************************************************)
(* In step, each transaction is handled once and answered once, and what   *)
(* the server writes belongs to it, for every number of transactions and   *)
(* every length of file.                                                   *)
(***************************************************************************)
EXTENDS UsbSession, SequenceTheorems, TLAPS

-----------------------------------------------------------------------------
(* Packets on their way.                                                   *)

\* Putting the next packet on the pipe leaves the packets to be read alone.
LEMMA SentLemma ==
    ASSUME NEW s \in Seq(Packet), NEW t \in Seq(Packet), t # << >>
    PROVE  /\ Append(s, Head(t)) \o Tail(t) = s \o t
           /\ Append(s, Head(t)) \in Seq(Packet)
           /\ Append(s, Head(t)) # << >>
           /\ Tail(t) \in Seq(Packet)
<1>1. /\ Head(t) \in Packet /\ Tail(t) \in Seq(Packet)
      /\ Append(s, Head(t)) \in Seq(Packet)
      /\ Len(Tail(t)) = Len(t) - 1
      /\ \A i \in 1 .. Len(Tail(t)) : Tail(t)[i] = t[i + 1]
  BY HeadTailProperties, AppendProperties
<1>2. Append(s, Head(t)) \o Tail(t) \in Seq(Packet) /\ s \o t \in Seq(Packet)
  BY <1>1, ConcatProperties
<1>3. Len(Append(s, Head(t)) \o Tail(t)) = Len(s \o t)
  BY <1>1, ConcatProperties, AppendProperties, LenProperties
<1>4. ASSUME NEW i \in 1 .. Len(s \o t)
      PROVE  (Append(s, Head(t)) \o Tail(t))[i] = (s \o t)[i]
  BY <1>1, <1>2, LenProperties
<1>5. Append(s, Head(t)) \o Tail(t) = s \o t
  BY <1>2, <1>3, <1>4, SeqEqual
<1> QED BY <1>1, <1>5

\* Reading takes the first packet.
LEMMA ReadLemma ==
    ASSUME NEW s \in Seq(Packet), NEW t \in Seq(Packet), s # << >>
    PROVE  /\ Head(s) = Head(s \o t) /\ Head(s) \in Packet
           /\ Tail(s) \o t = Tail(s \o t)
           /\ Tail(s) \in Seq(Packet)
<1>1. /\ Head(s) \in Packet /\ Tail(s) \in Seq(Packet)
      /\ Len(Tail(s)) = Len(s) - 1
      /\ \A i \in 1 .. Len(Tail(s)) : Tail(s)[i] = s[i + 1]
      /\ Head(s) = s[1] /\ Len(s) > 0
  BY HeadTailProperties, EmptySeq, LenProperties
<1>2. s \o t \in Seq(Packet) /\ Len(s \o t) = Len(s) + Len(t) /\ s \o t # << >>
  BY <1>1, ConcatProperties, LenProperties
<1>3. Head(s) = Head(s \o t)
  BY <1>1, <1>2
<1>4. /\ Tail(s \o t) \in Seq(Packet) /\ Tail(s) \o t \in Seq(Packet)
      /\ Len(Tail(s \o t)) = Len(Tail(s) \o t)
  BY <1>1, <1>2, ConcatProperties, HeadTailProperties
<1>5. ASSUME NEW i \in 1 .. Len(Tail(s) \o t)
      PROVE  (Tail(s) \o t)[i] = Tail(s \o t)[i]
  BY <1>1, <1>2, <1>4, LenProperties
<1>6. Tail(s) \o t = Tail(s \o t)
  BY <1>4, <1>5, SeqEqual
<1> QED BY <1>1, <1>3, <1>6

\* A packet in front of others is the first, and the others are the rest.
LEMMA ConsLemma ==
    ASSUME NEW c \in Packet, NEW d \in Seq(Packet)
    PROVE  /\ <<c>> \o d \in Seq(Packet) /\ <<c>> \o d # << >>
           /\ Head(<<c>> \o d) = c
           /\ Tail(<<c>> \o d) = d
<1>1. <<c>> \in Seq(Packet) /\ <<c>> # << >> /\ Head(<<c>>) = c /\ Tail(<<c>>) = << >>
  OBVIOUS
<1>2. << >> \o d = d
  BY ConcatEmptySeq
<1>3. <<c>> \o d \in Seq(Packet) /\ <<c>> \o d # << >>
  BY <1>1, ConcatProperties, LenProperties
<1> QED BY <1>1, <1>2, <1>3, ReadLemma

\* Nothing to read: nothing on the pipe and nothing to come.
LEMMA NothingLemma ==
    ASSUME NEW s \in Seq(Packet), NEW t \in Seq(Packet)
    PROVE  s \o t = << >> <=> s = << >> /\ t = << >>
  BY ConcatProperties, EmptySeq, LenProperties

\* The packets of a file.
LEMMA BodyLemma ==
    ASSUME NEW n \in Nat
    PROVE  /\ Raw("body") \in Packet
           /\ Body(n) \in Seq(Packet)
           /\ n = 0 => Body(n) = << >>
           /\ n > 0 => /\ Body(n) # << >> /\ Head(Body(n)) = Raw("body")
                       /\ Tail(Body(n)) = Body(n - 1)
<1>1. Raw("body") \in Packet
  BY TransferAssumption DEF Raw, Packet
<1>2. ASSUME NEW k \in Nat PROVE Body(k) \in Seq(Packet) /\ Len(Body(k)) = k
  BY <1>1 DEF Body
<1>3. n = 0 => Body(n) = << >>
  BY <1>2, EmptySeq
<1>4. ASSUME n > 0
      PROVE  /\ Body(n) # << >> /\ Head(Body(n)) = Raw("body")
             /\ Tail(Body(n)) = Body(n - 1)
  <2>1. Body(n) # << >> /\ Head(Body(n)) = Raw("body")
    BY <1>2, <1>4, EmptySeq DEF Body
  <2>2. /\ Tail(Body(n)) \in Seq(Packet) /\ Body(n - 1) \in Seq(Packet)
        /\ Len(Tail(Body(n))) = Len(Body(n - 1))
    BY <1>2, <1>4, <2>1, HeadTailProperties
  <2>3. ASSUME NEW i \in 1 .. Len(Body(n - 1))
        PROVE  Tail(Body(n))[i] = Body(n - 1)[i]
    BY <1>2, <1>4, <2>1, HeadTailProperties DEF Body
  <2> QED BY <2>1, <2>2, <2>3, SeqEqual
<1> QED BY <1>1, <1>2, <1>3, <1>4

\* Commands, containers and data phases are made of packets.
LEMMA PacketLemma ==
    ASSUME NEW op \in Operation, NEW n \in 0 .. MaxTransaction, NEW body \in 0 .. MaxPieces
    PROVE  /\ Command(op, n, body) \in Packet
           /\ Data(op, n) \in Packet
           /\ DataPhase(op, n, body) \in Seq(Packet)
<1>1. Command(op, n, body) \in Packet /\ Data(op, n) \in Packet
  BY TransferAssumption DEF Command, Data, Packet
<1>2. Body(body) \in Seq(Packet)
  BY BodyLemma
<1> QED BY <1>1, <1>2, ConsLemma DEF DataPhase

-----------------------------------------------------------------------------
(* Types.                                                                  *)

\* What is left after a read is packets.
LEMMA ReceivedLemma ==
    ASSUME TypeOK, Received \/ TimedOut
    PROVE  out' \in Seq(Packet) /\ configured' = configured
<1>1. out \in Seq(Packet)
  BY DEF TypeOK, DeviceTypeOK
<1>2. out # << >> => Tail(out) \in Seq(Packet) /\ Head(out) \in Packet
  BY <1>1, HeadTailProperties
<1> QED BY <1>1, <1>2 DEF Received, TimedOut

\* A write's end.
LEMMA AfterWriteLemma ==
    ASSUME TypeOK, Accounted, Writing
    PROVE  /\ AfterWrite \in {"send", "response", "top"}
           /\ (IF pc = "send" THEN todo - 1 ELSE todo) \in 0 .. (MaxPieces + 1)
           /\ AfterWrite = "send" => todo - 1 > 0
  BY TransferAssumption DEF TypeOK, DeviceTypeOK, Accounted, Writing, AfterWrite

\* The host's steps keep the types.
LEMMA HostTypes ==
    ASSUME TypeOK, Accounted
    PROVE  /\ \A op \in Operation, body \in 0 .. MaxPieces, full \in BOOLEAN :
                 StartTransaction(op, body, full) => TypeOK'
           /\ SendPacket => TypeOK'
           /\ Take => TypeOK'
           /\ GiveUp => TypeOK'
           /\ Unplug => TypeOK'
           /\ Plug => TypeOK'
           /\ PressB => TypeOK'
           /\ LeaveApplet => TypeOK'
<1> USE TransferAssumption
<1>1. ASSUME NEW op \in Operation, NEW body \in 0 .. MaxPieces, NEW full \in BOOLEAN,
             StartTransaction(op, body, full)
      PROVE  TypeOK'
  <2>0. tid < MaxTransaction /\ tid' = tid + 1
    BY <1>1, Zenon DEF StartTransaction
  <2>1. tid' \in 0 .. MaxTransaction
    BY <2>0 DEF TypeOK
  <2>2. Raw("zlp") \in Packet
    BY DEF Raw, Packet
  <2>3. LastPacket(full) \in Seq(Packet)
    BY <2>2 DEF LastPacket
  <2>4. toSend' \in Seq(Packet)
    BY <1>1, <2>1, <2>3, PacketLemma, ConcatProperties DEF StartTransaction
  <2>5. out' \in Seq(Packet)
    BY <1>1, <2>1, PacketLemma, AppendProperties DEF StartTransaction, TypeOK, DeviceTypeOK
  <2>6. DeviceTypeOK'
    BY <1>1, <2>5 DEF StartTransaction, TypeOK, DeviceTypeOK, device, request, file
  <2>7. upset' \in Cause
    BY <1>1 DEF StartTransaction, TypeOK, Upset, Steady, Cause
  <2> QED BY <1>1, <2>1, <2>4, <2>6, <2>7 DEF StartTransaction, TypeOK, counts
<1>2. ASSUME SendPacket PROVE TypeOK'
  <2>1. out' \in Seq(Packet) /\ toSend' \in Seq(Packet)
    BY <1>2, SentLemma DEF SendPacket, TypeOK, DeviceTypeOK
  <2> QED BY <1>2, <2>1 DEF SendPacket, TypeOK, DeviceTypeOK, device, request, file, counts
<1>3. ASSUME Take PROVE TypeOK'
  <2>1. DeviceTypeOK'
    BY <1>3, AfterWriteLemma
       DEF Take, Written, Goto, TypeOK, DeviceTypeOK, pipe, request
  <2>2. mRequest.tid \in 0 .. MaxTransaction
    BY DEF TypeOK, DeviceTypeOK, Packet
  <2>3. answered' \in [0 .. MaxTransaction -> Nat]
    <3>1. \/ answered' = [answered EXCEPT ![mRequest.tid] = @ + 1]
          \/ answered' = answered
      BY <1>3, Zenon DEF Take
    <3>2. answered \in [0 .. MaxTransaction -> Nat]
      BY DEF TypeOK
    <3> QED BY <2>2, <3>1, <3>2
  <2>4. busy' \in BOOLEAN /\ gotData' \in BOOLEAN
    BY <1>3 DEF Take, TypeOK
  <2> QED BY <1>3, <2>1, <2>3, <2>4 DEF Take, TypeOK
<1>4. ASSUME GiveUp PROVE TypeOK'
  <2>1. toSend' \in Seq(Packet) /\ busy' \in BOOLEAN
    BY <1>4, EmptySeq DEF GiveUp
  <2>2. upset' \in Cause
    BY <1>4 DEF GiveUp, Upset, TypeOK, Cause
  <2> QED
    BY <1>4, <2>1, <2>2 DEF GiveUp, TypeOK, DeviceTypeOK, pipe, device, request, file, counts
<1>5. ASSUME Unplug PROVE TypeOK'
  <2>1. upset' \in Cause
    BY <1>5 DEF Unplug, Upset, Steady, TypeOK, Cause
  <2> QED BY <1>5, <2>1, EmptySeq DEF Unplug, TypeOK, DeviceTypeOK, device, request, file, counts
<1>6. ASSUME Plug PROVE TypeOK'
  <2>1. DeviceTypeOK'
    <3>1. CASE UNCHANGED device
      BY <1>6, <3>1 DEF Plug, TypeOK, DeviceTypeOK, device, request, file
    <3>2. CASE WriteFails
      BY <1>6, <3>2, AfterWriteLemma
         DEF Plug, WriteFails, Goto, TypeOK, DeviceTypeOK, request
    <3> QED BY <1>6, <3>1, <3>2 DEF Plug
  <2> QED BY <1>6, <2>1 DEF Plug, TypeOK, host, counts
<1>7. ASSUME PressB PROVE TypeOK'
  BY <1>7 DEF PressB, Stop, TypeOK, DeviceTypeOK, pipe, request, file, host, counts
<1>8. ASSUME LeaveApplet PROVE TypeOK'
  BY <1>8 DEF LeaveApplet, TypeOK, DeviceTypeOK, pipe, device, request, file, host, counts
<1> QED BY <1>1, <1>2, <1>3, <1>4, <1>5, <1>6, <1>7, <1>8

\* Where the reads of the loop lead.
LEMMA ReadsControl ==
    ASSUME TypeOK, Reads
    PROVE  /\ pc' \in {"top", "request", "exited", "data", "handle", "receive", "response"}
           /\ pc' \in InService => pc \in InService /\ mRequest' = mRequest
           /\ DeviceTypeOK' /\ todo' = todo
           /\ handled' = handled /\ upset' \in Cause
<1>1. handled' = handled
  BY DEF Reads
<1>2. \A cause \in {"none", "stalled"} : OrDropped(cause) => upset' \in Cause
  BY DEF OrDropped, Upset, Steady, TypeOK, Cause
<1>3. Steady => upset' \in Cause
  BY DEF Steady, TypeOK
<1> DEFINE Goal == /\ pc' \in {"top", "request", "exited", "data", "handle", "receive", "response"}
                   /\ pc' \in InService => pc \in InService /\ mRequest' = mRequest
                   /\ DeviceTypeOK' /\ todo' = todo
<1> USE DEF TypeOK, DeviceTypeOK, InService, Goto, pipe, request, file
<1>4. Run => Goal
  BY DEF Run
<1>5. Loop => Goal
  BY DEF Loop
<1>6. ASSUME ReadRequest PROVE Goal
  <2>1. packet \in Packet
    BY <1>6, HeadTailProperties DEF ReadRequest, Received, packet
  <2> QED BY <1>6, <2>1, ReceivedLemma DEF ReadRequest
<1>7. RequestTimesOut => Goal
  BY ReceivedLemma DEF RequestTimesOut
<1>8. ReadData => Goal
  BY ReceivedLemma DEF ReadData
<1>9. DataTimesOut => Goal
  BY ReceivedLemma DEF DataTimesOut
<1>10. FirstTimesOut => Goal
  BY ReceivedLemma DEF FirstTimesOut, Respond
<1>11. BodyTimesOut => Goal
  BY ReceivedLemma DEF BodyTimesOut
<1>12. Goal /\ upset' \in Cause
  BY <1>2, <1>3, <1>4, <1>5, <1>6, <1>7, <1>8, <1>9, <1>10, <1>11 DEF Reads
<1> QED BY <1>1, <1>12

\* Where the reads of an upload lead.
LEMMA UploadsControl ==
    ASSUME TypeOK, Uploads \/ Opens
    PROVE  /\ pc \in {"first", "receive"}
           /\ pc' \in {"receive", "response", "reply", "top"}
           /\ DeviceTypeOK' /\ mRequest' = mRequest
           /\ handled' = handled /\ upset' \in Cause
<1> DEFINE Goal == /\ pc \in {"first", "receive"}
                   /\ pc' \in {"receive", "response", "reply", "top"}
                   /\ DeviceTypeOK' /\ mRequest' = mRequest
<1> USE TransferAssumption DEF TypeOK, DeviceTypeOK, Goto, request, file
<1>1. handled' = handled
  BY DEF Uploads, Opens
<1>2. upset' \in Cause
  BY DEF Uploads, Opens, Upset, Steady, Cause
<1>3. EndUpload => pc' \in {"response", "reply", "top"} /\ mResponse' \in {"OK", "error"}
  BY DEF EndUpload, Respond
<1>4. ASSUME ReadFirst PROVE Goal
  <2>1. mRequest.body \in 0 .. MaxPieces
    BY DEF Packet
  <2>2. todo' = todo \/ todo' = mRequest.body
    BY <1>4, Zenon DEF ReadFirst
  <2>3. pc' \in {"receive", "response", "reply", "top"} /\ mResponse' \in {"OK", "error"}
    BY <1>3, <1>4 DEF ReadFirst, Respond
  <2>4. todo' \in 0 .. (MaxPieces + 1)
    BY <2>1, <2>2
  <2>5. /\ pc = "first" /\ late' \in BOOLEAN /\ mRunning' = mRunning /\ mRequest' = mRequest
        /\ Received
    BY <1>4 DEF ReadFirst
  <2> QED BY <2>3, <2>4, <2>5, ReceivedLemma
<1>5. ASSUME ReadBody PROVE Goal
  <2>1. Counted \in 0 .. (MaxPieces + 1)
    BY DEF Counted
  <2> QED BY <1>3, <1>5, <2>1, ReceivedLemma DEF ReadBody
<1>6. OpenFails => Goal
  BY ReceivedLemma DEF OpenFails, Respond
<1> QED BY <1>1, <1>2, <1>4, <1>5, <1>6 DEF Uploads, Opens

\* Where the handlers lead.
LEMMA HandlesControl ==
    ASSUME TypeOK, Handles
    PROVE  /\ pc = "handle" /\ pc' \in {"response", "reply", "send", "first", "aborted"}
           /\ DeviceTypeOK' /\ mRequest' = mRequest /\ out' = out
           /\ pc' = "send" => todo' > 0
           /\ handled' = [handled EXCEPT ![mRequest.tid] = @ + 1]
           /\ upset' \in Cause
<1> DEFINE Goal == /\ pc = "handle" /\ pc' \in {"response", "reply", "send", "first", "aborted"}
                   /\ DeviceTypeOK' /\ mRequest' = mRequest /\ out' = out
                   /\ pc' = "send" => todo' > 0
<1>1. handled' = [handled EXCEPT ![mRequest.tid] = @ + 1]
  BY Zenon DEF Handles
<1>2. upset' \in Cause
  BY Zenon DEF Handles, Upset, Steady, TypeOK, Cause
<1>3. Succeed \/ Fail \/ FillData \/ SendFile \/ AwaitUpload \/ Throw
  BY Zenon DEF Handles
<1> USE TransferAssumption DEF TypeOK, DeviceTypeOK, Goto, Respond, pipe, request, file
<1>4. Succeed => Goal
  BY DEF Succeed
<1>5. Fail => Goal
  BY DEF Fail
<1>6. FillData => Goal
  BY DEF FillData
<1>7. SendFile => Goal
  BY DEF SendFile
<1>8. AwaitUpload => Goal
  BY DEF AwaitUpload
<1>9. Throw => Goal
  BY DEF Throw
<1> QED BY <1>1, <1>2, <1>3, <1>4, <1>5, <1>6, <1>7, <1>8, <1>9

\* The server's steps keep the types.
LEMMA ServerTypes ==
    ASSUME TypeOK, Server
    PROVE  TypeOK'
<1>1. UNCHANGED <<host, answered, stopThread>> /\ (Reads \/ Uploads \/ Opens \/ Handles)
  BY DEF Server
<1>2. handled' \in [0 .. MaxTransaction -> Nat]
  <2>1. mRequest.tid \in 0 .. MaxTransaction /\ handled \in [0 .. MaxTransaction -> Nat]
    BY DEF TypeOK, DeviceTypeOK, Packet
  <2>2. handled' = handled \/ handled' = [handled EXCEPT ![mRequest.tid] = @ + 1]
    BY <1>1, ReadsControl, UploadsControl, HandlesControl
  <2> QED BY <2>1, <2>2
<1>3. DeviceTypeOK' /\ upset' \in Cause
  BY <1>1, ReadsControl, UploadsControl, HandlesControl
<1> QED BY <1>1, <1>2, <1>3 DEF TypeOK, host

-----------------------------------------------------------------------------
(* What was handled is answered, or is being served.                       *)

\* One transaction more is being served.
Due(t) == IF pc \in InService /\ mRequest.tid = t THEN 1 ELSE 0

\* The server's steps keep its accounts.
LEMMA ServerAccounts ==
    ASSUME TypeOK, Accounted, Server
    PROVE  Accounted'
<1>1. answered' = answered /\ (Reads \/ Uploads \/ Opens \/ Handles)
  BY DEF Server
<1>2. /\ mRequest.tid \in 0 .. MaxTransaction
      /\ handled \in [0 .. MaxTransaction -> Nat] /\ answered \in [0 .. MaxTransaction -> Nat]
  BY DEF TypeOK, DeviceTypeOK, Packet
<1>3. \A t \in 0 .. MaxTransaction : answered[t] + Due(t) <= handled[t]
  BY DEF Accounted, Due
<1>4. ASSUME Handles, NEW t \in 0 .. MaxTransaction
      PROVE  answered'[t] + Due(t)' <= handled'[t]
  <2>1. /\ pc = "handle" /\ mRequest' = mRequest
        /\ handled' = [handled EXCEPT ![mRequest.tid] = @ + 1]
    BY <1>4, HandlesControl
  <2>2. answered[t] <= handled[t]
    BY <1>3, <1>2, <2>1 DEF Due, InService
  <2>3. handled'[t] = IF t = mRequest.tid THEN handled[t] + 1 ELSE handled[t]
    BY <1>2, <2>1
  <2> QED BY <1>1, <1>2, <2>1, <2>2, <2>3 DEF Due
<1>5. ASSUME Reads \/ Uploads \/ Opens, NEW t \in 0 .. MaxTransaction
      PROVE  answered'[t] + Due(t)' <= handled'[t]
  <2>1. handled' = handled /\ (pc' \in InService => pc \in InService /\ mRequest' = mRequest)
    BY <1>5, ReadsControl, UploadsControl DEF InService
  <2>2. Due(t)' <= Due(t) /\ Due(t) \in Nat /\ Due(t)' \in Nat
    BY <2>1 DEF Due
  <2> QED BY <1>1, <1>2, <1>3, <2>1, <2>2
<1>6. \A t \in 0 .. MaxTransaction : answered'[t] + Due(t)' <= handled'[t]
  BY <1>1, <1>4, <1>5
<1>7. pc' = "send" => todo' > 0
  BY <1>1, ReadsControl, UploadsControl, HandlesControl
<1> QED BY <1>6, <1>7 DEF Accounted, Due

\* A write leaves the request in service until it was the response.
LEMMA WriteAccounts ==
    ASSUME TypeOK, Accounted, Writing, pc' = AfterWrite, mRequest' = mRequest,
           todo' = IF pc = "send" THEN todo - 1 ELSE todo
    PROVE  /\ pc' = "send" => todo' > 0
           /\ pc = "response" => pc' = "top"
           /\ pc # "response" => pc' \in InService
           /\ pc \in InService
  BY AfterWriteLemma DEF Writing, AfterWrite, InService, TypeOK, DeviceTypeOK, Accounted

\* The host's steps keep the server's accounts.
LEMMA HostAccounts ==
    ASSUME TypeOK, Accounted
    PROVE  /\ Take => Accounted'
           /\ Plug => Accounted'
           /\ UNCHANGED <<pc, mRequest, todo, handled, answered>> => Accounted'
<1>1. /\ mRequest.tid \in 0 .. MaxTransaction
      /\ handled \in [0 .. MaxTransaction -> Nat] /\ answered \in [0 .. MaxTransaction -> Nat]
  BY DEF TypeOK, DeviceTypeOK, Packet
<1>2. \A t \in 0 .. MaxTransaction : answered[t] + Due(t) <= handled[t]
  BY DEF Accounted, Due
<1>3. ASSUME Take PROVE Accounted'
  <2>1. /\ Writing /\ pc' = AfterWrite /\ mRequest' = mRequest /\ handled' = handled
        /\ todo' = IF pc = "send" THEN todo - 1 ELSE todo
        /\ pc = "response" => answered' = [answered EXCEPT ![mRequest.tid] = @ + 1]
        /\ pc # "response" => answered' = answered
    BY <1>3 DEF Take, Written, Goto, request
  <2>2. ASSUME NEW t \in 0 .. MaxTransaction PROVE answered'[t] + Due(t)' <= handled'[t]
    <3>1. CASE pc = "response"
      <4>1. answered'[t] = IF t = mRequest.tid THEN answered[t] + 1 ELSE answered[t]
        BY <1>1, <2>1, <3>1
      <4>2. pc' \notin InService /\ pc \in InService
        BY <2>1, <3>1, WriteAccounts DEF InService
      <4> QED BY <1>1, <1>2, <2>1, <4>1, <4>2 DEF Due
    <3>2. CASE pc # "response"
      BY <1>1, <1>2, <2>1, <3>2, WriteAccounts DEF Due
    <3> QED BY <3>1, <3>2
  <2> QED BY <2>1, <2>2, WriteAccounts DEF Accounted, Due
<1>4. ASSUME UNCHANGED <<pc, mRequest, todo, handled, answered>> PROVE Accounted'
  BY <1>4 DEF Accounted
<1>5. ASSUME Plug PROVE Accounted'
  <2>1. CASE UNCHANGED device
    BY <1>4, <1>5, <2>1 DEF Plug, device, request, file, counts
  <2>2. CASE WriteFails
    <3>1. /\ Writing /\ pc' = (IF pc = "send" THEN AfterWrite ELSE "top")
          /\ todo' = (IF pc = "send" THEN todo - 1 ELSE todo)
          /\ mRequest' = mRequest /\ handled' = handled /\ answered' = answered
      BY <1>5, <2>2 DEF Plug, WriteFails, Goto, request, counts
    <3>2. /\ pc' = "send" => todo' > 0
          /\ pc' \in InService => pc \in InService
      BY <3>1, WriteAccounts DEF InService, Writing
    <3>3. \A t \in 0 .. MaxTransaction : answered'[t] + Due(t)' <= handled'[t]
      BY <1>1, <1>2, <3>1, <3>2 DEF Due
    <3> QED BY <3>2, <3>3 DEF Accounted, Due
  <2> QED BY <1>5, <2>1, <2>2 DEF Plug
<1> QED BY <1>3, <1>4, <1>5

-----------------------------------------------------------------------------
(* In step.                                                                *)

\* What put host and server out of step is never forgotten.
LEMMA UpsetLemma ==
    ASSUME upset' = "none"
    PROVE  /\ \A cause \in Cause \ {"none"} : ~Upset(cause)
           /\ Steady => upset = "none"
           /\ OrDropped("none") => upset = "none" /\ out = << >>
           /\ ~OrDropped("stalled")
  BY Zenon DEF Upset, Steady, OrDropped, Cause

\* Nothing Clean speaks of has changed.
LEMMA SameLemma ==
    ASSUME Clean,
           UNCHANGED <<tid, busy, out, toSend, gotData, handled, answered, mRequest, mResponse,
                       todo, late, configured>>,
           pc' = pc \/ (pc \in Between /\ pc' \in Between)
    PROVE  Clean'
<1>1. Settled' /\ Rest' = Rest
  BY DEF Clean, Settled, Rest
<1>2. pc \in Between => pc' \in Between /\ ~UnderWay
  BY DEF Between, UnderWay, InService
<1>3. Announced => Announced'
  BY <1>1, <1>2 DEF Announced
<1>4. ASSUME UnderWay PROVE UnderWay'
  <2>1. pc' = pc
    BY <1>2, <1>4
  <2>2. Unread' = Unread
    BY <2>1 DEF Unread
  <2> QED BY <1>1, <1>4, <2>1, <2>2 DEF UnderWay
<1> QED BY <1>1, <1>2, <1>3, <1>4 DEF Clean

\* What each operation has the host send after the command.
LEMMA DataPhaseLemma ==
    ASSUME NEW op \in Operation, NEW n \in 0 .. MaxTransaction, NEW body \in 0 .. MaxPieces
    PROVE  /\ op \in Upload => /\ op \notin DataIn
                              /\ DataPhase(op, n, body) # << >>
                              /\ Head(DataPhase(op, n, body)) = Data(op, n)
                              /\ Tail(DataPhase(op, n, body)) = Body(body)
           /\ op \in DataIn => /\ op \notin Upload
                              /\ DataPhase(op, n, body) # << >>
                              /\ Head(DataPhase(op, n, body)) = Data(op, n)
                              /\ Tail(DataPhase(op, n, body)) = << >>
           /\ op \notin Upload \cup DataIn => DataPhase(op, n, body) = << >>
<1>1. Data(op, n) \in Packet /\ Body(body) \in Seq(Packet)
  BY PacketLemma, BodyLemma
<1>2. op \in Upload => DataPhase(op, n, body) = <<Data(op, n)>> \o Body(body) /\ op \notin DataIn
  BY DEF DataPhase, Upload, DataIn
<1>3. op \in DataIn => DataPhase(op, n, body) = <<Data(op, n)>> /\ op \notin Upload
  BY DEF DataPhase, Upload, DataIn
<1>4. op \notin Upload \cup DataIn => DataPhase(op, n, body) = << >>
  BY DEF DataPhase
<1>5. /\ <<Data(op, n)>> # << >> /\ Head(<<Data(op, n)>>) = Data(op, n)
      /\ Tail(<<Data(op, n)>>) = << >>
  OBVIOUS
<1> QED BY <1>1, <1>2, <1>3, <1>4, <1>5, ConsLemma

\* A new transaction: its command is on the pipe and its data is to come.
LEMMA StartStep ==
    ASSUME TypeOK, upset = "none" => Clean, upset' = "none",
           NEW op \in Operation, NEW body \in 0 .. MaxPieces, NEW full \in BOOLEAN,
           StartTransaction(op, body, full)
    PROVE  Clean'
<1>1. /\ configured /\ ~busy /\ tid < MaxTransaction /\ tid' = tid + 1 /\ busy' /\ ~gotData'
      /\ out' = Append(out, Command(op, tid', body))
      /\ toSend' = DataPhase(op, tid', body) \o LastPacket(full)
      /\ UNCHANGED <<configured, device, counts>>
  BY Zenon DEF StartTransaction
<1>2. ~full /\ upset = "none"
  BY UpsetLemma, Zenon DEF StartTransaction, Cause
<1>3. Settled /\ pc \in Between /\ Rest = << >>
  BY <1>1, <1>2, Zenon DEF Clean
<1>4. out = << >> /\ toSend = << >>
  BY <1>3, NothingLemma DEF Rest, TypeOK, DeviceTypeOK
<1>5. tid \in Nat /\ tid' \in 0 .. MaxTransaction
  BY <1>1, TransferAssumption DEF TypeOK
<1>6. DataPhase(op, tid', body) \in Seq(Packet) /\ Command(op, tid', body) \in Packet
  BY <1>5, PacketLemma
<1>7. toSend' = DataPhase(op, tid', body)
  BY <1>1, <1>2, <1>6, ConcatEmptySeq, Zenon DEF LastPacket
<1>8. out' = <<Command(op, tid', body)>> /\ out' # << >>
  BY <1>1, <1>4, <1>6
<1>9. /\ handled' = handled /\ answered' = answered /\ pc' = pc
  BY <1>1 DEF counts, device
<1>10. Settled'
  BY <1>1, <1>3, <1>5, <1>9 DEF Settled
<1>11. handled'[tid'] = 0 /\ answered'[tid'] = 0
  BY <1>1, <1>3, <1>5, <1>9 DEF Settled
<1>12. Announced'
  BY <1>1, <1>3, <1>7, <1>8, <1>9, <1>11 DEF Announced, Rest
<1> QED BY <1>1, <1>5, <1>10, <1>11, <1>12 DEF Clean

\* Packets move from the host to the pipe.
LEMMA SendStep ==
    ASSUME TypeOK, upset = "none" => Clean, upset' = "none", SendPacket
    PROVE  Clean'
<1>1. /\ busy /\ toSend # << >> /\ out' = Append(out, Head(toSend)) /\ toSend' = Tail(toSend)
      /\ UNCHANGED <<configured, tid, busy, gotData, pc, mRequest, mResponse, todo, late, handled,
                     answered, upset>>
  BY DEF SendPacket, device, request, file, counts
<1>2. Clean
  BY <1>1
<1>3. Rest' = Rest /\ out' # << >>
  BY <1>1, SentLemma DEF Rest, TypeOK, DeviceTypeOK
<1>4. Announced => Announced'
  BY <1>1, <1>3 DEF Announced
<1>5. Unread' = Unread
  BY <1>1 DEF Unread
<1>6. UnderWay => UnderWay'
  BY <1>1, <1>3, <1>5 DEF UnderWay
<1> QED BY <1>1, <1>2, <1>4, <1>6 DEF Clean, Settled

\* A request being served is the one the host waits for.
LEMMA ServingLemma ==
    ASSUME TypeOK, Clean, pc \notin Between
    PROVE  /\ busy /\ configured /\ UnderWay /\ Settled /\ tid \in 1 .. tid /\ answered[tid] = 0
           /\ Rest = Unread
  BY DEF Clean, Announced, UnderWay, TypeOK

\* The host takes data, or the response that ends its transaction.
LEMMA TakeStep ==
    ASSUME TypeOK, Accounted, upset = "none" => Clean, upset' = "none", Take
    PROVE  Clean'
<1>1. /\ Writing /\ pc' = AfterWrite /\ todo' = (IF pc = "send" THEN todo - 1 ELSE todo)
      /\ UNCHANGED <<configured, out, toSend, tid, mRequest, mResponse, late, handled, upset>>
  BY DEF Take, Written, Goto, pipe, request
<1>2. Clean /\ pc \notin Between /\ pc \in InService
  BY <1>1 DEF Writing, Between, InService
<1>3. /\ busy /\ configured /\ UnderWay /\ Settled /\ tid \in 1 .. tid /\ answered[tid] = 0
      /\ Rest = Unread
  BY <1>2, ServingLemma
<1>4. Unread = << >> /\ Rest' = << >>
  BY <1>1, <1>3 DEF Unread, Writing, Rest
<1>5. mRequest.tid = tid /\ handled[tid] = 1
  BY <1>2, <1>3 DEF UnderWay
<1>6. CASE pc = "response"
  <2>1. /\ pc' = "top" /\ ~busy'
        /\ answered' = [answered EXCEPT ![mRequest.tid] = @ + 1]
    BY <1>1, <1>5, <1>6 DEF Take, AfterWrite
  <2>2. tid \in 0 .. MaxTransaction /\ answered \in [0 .. MaxTransaction -> Nat]
    BY DEF TypeOK
  <2>3. \A t \in 0 .. MaxTransaction : answered'[t] = IF t = tid THEN 1 ELSE answered[t]
    BY <1>3, <1>5, <2>1, <2>2
  <2>4. Settled'
    BY <1>1, <1>3, <1>5, <2>2, <2>3 DEF Settled
  <2> QED BY <1>4, <2>1, <2>4 DEF Clean, Between
<1>7. CASE pc # "response"
  <2>1. /\ gotData' = TRUE /\ answered' = answered /\ busy' = busy
        /\ pc' \in {"send", "response"} /\ (pc' = "send" => pc = "send")
    BY <1>1, <1>7 DEF Take, Writing, AfterWrite, TypeOK, DeviceTypeOK, Accounted
  <2>2. mRequest.op \in {"GetObjectInfo", "GetObject"}
    BY <1>1, <1>3, <1>7 DEF UnderWay, Writing
  <2>3. Unread' = << >>
    BY <2>1 DEF Unread
  <2>4. UnderWay'
    BY <1>1, <1>2, <1>3, <1>4, <1>5, <2>1, <2>2, <2>3 DEF UnderWay, InService
  <2>5. Settled'
    BY <1>1, <1>3, <2>1 DEF Settled
  <2> QED BY <1>1, <1>3, <2>1, <2>4, <2>5 DEF Clean
<1> QED BY <1>6, <1>7

\* The host goes while nothing is being served.
LEMMA UnplugStep ==
    ASSUME TypeOK, upset = "none" => Clean, upset' = "none", Unplug
    PROVE  Clean'
<1>1. pc \in Between /\ ~busy /\ upset = "none"
  BY UpsetLemma, Zenon DEF Unplug, Between, Cause
<1>2. /\ out' = << >> /\ toSend' = << >> /\ ~busy' /\ UNCHANGED <<pc, tid, handled, answered>>
  BY DEF Unplug, device, counts
<1>3. Rest' = << >>
  BY <1>2 DEF Rest
<1>4. Settled'
  BY <1>1, <1>2 DEF Clean, Settled
<1> QED BY <1>1, <1>2, <1>3, <1>4 DEF Clean

\* A host comes.  In step, no write waits for one.
LEMMA PlugStep ==
    ASSUME TypeOK, upset = "none" => Clean, upset' = "none", Plug
    PROVE  Clean'
<1>1. ~configured /\ UNCHANGED <<out, tid, busy, toSend, gotData, handled, answered, upset>>
  BY DEF Plug, host, counts
<1>2. Clean /\ ~busy /\ pc \in Between /\ Rest = << >>
  BY <1>1 DEF Clean
<1>3. pc' = pc
  BY <1>2, Zenon DEF Plug, WriteFails, Writing, Between, device
<1>4. Settled' /\ Rest' = Rest
  BY <1>1, <1>2 DEF Clean, Settled, Rest
<1> QED BY <1>1, <1>2, <1>3, <1>4 DEF Clean

\* The other thread and the host that gives up.
LEMMA OtherStep ==
    ASSUME TypeOK, upset = "none" => Clean, upset' = "none", PressB \/ LeaveApplet \/ GiveUp
    PROVE  Clean'
<1>1. ~GiveUp
  BY UpsetLemma, Zenon DEF GiveUp, Cause
<1>2. UNCHANGED <<tid, busy, out, toSend, gotData, handled, answered, mRequest, mResponse, todo,
                  late, configured, pc, upset>>
  BY <1>1 DEF PressB, LeaveApplet, Stop, pipe, device, request, file, host, counts
<1> QED BY <1>2, SameLemma

\* The server does nothing to the host's side.
LEMMA FrameLemma ==
    ASSUME Server
    PROVE  UNCHANGED <<tid, busy, toSend, gotData, answered>>
  BY DEF Server, host

\* A read takes the first of the packets still to be read.
LEMMA RestLemma ==
    ASSUME TypeOK, out # << >>, out' = Tail(out), toSend' = toSend
    PROVE  Head(out) = Head(Rest) /\ Rest' = Tail(Rest)
<1>1. out \in Seq(Packet) /\ toSend \in Seq(Packet)
  BY DEF TypeOK, DeviceTypeOK
<1>2. Head(out) = Head(out \o toSend) /\ Tail(out) \o toSend = Tail(out \o toSend)
  BY <1>1, ReadLemma
<1> QED BY <1>2, Zenon DEF Rest

\* A request is read whole, and it is the one the host sent.
LEMMA RequestStep ==
    ASSUME TypeOK, Clean, ReadRequest, handled' = handled,
           UNCHANGED <<tid, busy, toSend, gotData, answered>>
    PROVE  Clean'
<1>1. /\ pc = "request" /\ configured' = configured /\ out # << >> /\ out' = Tail(out)
      /\ mRequest' = (IF Head(out).type = "zlp" THEN mRequest ELSE Head(out))
      /\ pc' = (IF mRequest'.op \in DataIn THEN "data" ELSE "handle")
  BY DEF ReadRequest, Received, packet, Goto
<1>2. out \in Seq(Packet) /\ toSend \in Seq(Packet) /\ tid \in 0 .. MaxTransaction
  BY DEF TypeOK, DeviceTypeOK
<1>3. Rest # << >> /\ ~UnderWay
  BY <1>1, <1>2, NothingLemma DEF Rest, UnderWay, InService
<1>4. busy /\ Announced
  BY <1>3 DEF Clean
<1>5. PICK op \in Operation, body \in 0 .. MaxPieces :
          Rest = <<Command(op, tid, body)>> \o DataPhase(op, tid, body)
  BY <1>4 DEF Announced
<1>6. Command(op, tid, body) \in Packet /\ DataPhase(op, tid, body) \in Seq(Packet)
  BY <1>2, PacketLemma
<1>7. Head(out) = Command(op, tid, body) /\ Rest' = DataPhase(op, tid, body)
  <2>1. Head(out) = Head(Rest) /\ Rest' = Tail(Rest)
    BY <1>1, RestLemma
  <2> QED BY <1>5, <1>6, <2>1, ConsLemma
<1>8. /\ mRequest' = Command(op, tid, body)
      /\ mRequest'.type = "command" /\ mRequest'.op = op /\ mRequest'.tid = tid
      /\ mRequest'.body = body
  BY <1>1, <1>7 DEF Command
<1>9. pc' = (IF op \in DataIn THEN "data" ELSE "handle")
  BY <1>1, <1>8
<1>10. Rest' = Unread'
  BY <1>2, <1>7, <1>8, <1>9, DataPhaseLemma DEF Unread
<1>11. handled[tid] = 0 /\ ~gotData
  BY <1>4 DEF Announced
<1>12. UnderWay'
  BY <1>8, <1>9, <1>10, <1>11 DEF UnderWay, InService
<1>13. Settled'
  BY DEF Clean, Settled
<1> QED BY <1>1, <1>4, <1>12, <1>13 DEF Clean

\* The data of SendObjectInfo follows its command.
LEMMA DataStep ==
    ASSUME TypeOK, Clean, ReadData, handled' = handled,
           UNCHANGED <<tid, busy, toSend, gotData, answered>>
    PROVE  Clean'
<1>1. /\ pc = "data" /\ configured' = configured /\ out # << >> /\ out' = Tail(out)
      /\ pc' = (IF Head(out).type = "zlp" THEN "top" ELSE "handle")
      /\ mRequest' = mRequest /\ mResponse' = mResponse
  BY DEF ReadData, Received, packet, Goto, request
<1>2. /\ busy /\ configured /\ UnderWay /\ Settled /\ tid \in 1 .. tid /\ answered[tid] = 0
      /\ Rest = Unread
  BY <1>1, ServingLemma DEF Between
<1>3. /\ out \in Seq(Packet) /\ toSend \in Seq(Packet) /\ tid \in 0 .. MaxTransaction
      /\ mRequest.body \in 0 .. MaxPieces
  BY DEF TypeOK, DeviceTypeOK, Packet
<1>4. mRequest.op \in Operation /\ mRequest.op \in DataIn /\ mRequest.op \notin Upload
  BY <1>1, <1>2 DEF UnderWay, DataIn, Upload
<1>5. Rest = DataPhase(mRequest.op, tid, mRequest.body)
  BY <1>1, <1>2 DEF Unread
<1>6. Head(out) = Data(mRequest.op, tid) /\ Rest' = << >>
  <2>1. Head(out) = Head(Rest) /\ Rest' = Tail(Rest)
    BY <1>1, RestLemma
  <2> QED BY <1>3, <1>4, <1>5, <2>1, DataPhaseLemma
<1>7. pc' = "handle"
  BY <1>1, <1>6 DEF Data
<1>8. Unread' = << >>
  BY <1>1, <1>4, <1>7 DEF Unread
<1>9. UnderWay'
  BY <1>1, <1>2, <1>6, <1>7, <1>8 DEF UnderWay, InService
<1>10. Settled'
  BY <1>2 DEF Settled
<1> QED BY <1>1, <1>2, <1>9, <1>10 DEF Clean

\* The loop's own reads keep the two in step, or a packet was lost.
LEMMA ReadsStep ==
    ASSUME TypeOK, upset = "none" => Clean, upset' = "none", Server, Reads
    PROVE  Clean'
<1>1. handled' = handled /\ UNCHANGED <<tid, busy, toSend, gotData, answered>>
  BY FrameLemma DEF Reads
<1>2. /\ upset = "none"
      /\ Run \/ Loop \/ ReadRequest \/ ReadData \/ (RequestTimesOut /\ out = << >>)
  BY UpsetLemma, Zenon DEF Reads
<1>3. Clean
  BY <1>2
<1>4. CASE Run
  BY <1>1, <1>3, <1>4, SameLemma DEF Run, Goto, Between, pipe, request, file
<1>5. CASE Loop
  BY <1>1, <1>3, <1>5, SameLemma DEF Loop, Goto, Between, pipe, request, file
<1>6. CASE ReadRequest
  BY <1>1, <1>3, <1>6, RequestStep
<1>7. CASE ReadData
  BY <1>1, <1>3, <1>7, DataStep
<1>8. CASE RequestTimesOut /\ out = << >>
  BY <1>1, <1>3, <1>8, SameLemma DEF RequestTimesOut, TimedOut, Goto, Between, request, file
<1> QED BY <1>2, <1>4, <1>5, <1>6, <1>7, <1>8

\* The first of an upload follows its command.
LEMMA FirstStep ==
    ASSUME TypeOK, Clean, pc = "first", pc' # "top", pc' # "reply",
           ReadFirst \/ (OpenFails /\ mRequest.body = 0), handled' = handled,
           UNCHANGED <<tid, busy, toSend, gotData, answered>>
    PROVE  Clean'
<1>1. Received /\ out # << >> /\ out' = Tail(out) /\ configured' = configured /\ mRequest' = mRequest
  BY DEF ReadFirst, OpenFails, Received
<1>2. /\ busy /\ configured /\ UnderWay /\ Settled /\ tid \in 1 .. tid /\ answered[tid] = 0
      /\ Rest = Unread
  BY ServingLemma DEF Between
<1>3. tid \in 0 .. MaxTransaction /\ mRequest.body \in 0 .. MaxPieces /\ mRequest.op \in Operation
  BY <1>2 DEF TypeOK, DeviceTypeOK, Packet, UnderWay
<1>4. mRequest.op \in Upload /\ ~gotData /\ mRequest.op \notin {"GetObjectInfo", "GetObject"}
  BY <1>2 DEF UnderWay, Upload
<1>5. Rest = DataPhase(mRequest.op, tid, mRequest.body)
  BY <1>2 DEF Unread
<1>6. Head(out) = Data(mRequest.op, tid) /\ Rest' = Body(mRequest.body)
  <2>1. Head(out) = Head(Rest) /\ Rest' = Tail(Rest)
    BY <1>1, RestLemma
  <2> QED BY <1>3, <1>4, <1>5, <2>1, DataPhaseLemma
<1>7. Head(out).type # "zlp"
  BY <1>6 DEF Data
<1>8. \/ pc' = "response" /\ mRequest.body = 0
      \/ pc' = "receive" /\ todo' = mRequest.body /\ mRequest.body > 0 /\ late' = FALSE
  <2>1. CASE ReadFirst /\ mRequest.body = 0
    BY <1>7, <2>1 DEF ReadFirst, EndUpload, Respond, Goto, packet
  <2>2. CASE ReadFirst /\ mRequest.body # 0
    BY <1>3, <1>7, <2>2 DEF ReadFirst, Goto, packet
  <2>3. CASE OpenFails /\ mRequest.body = 0
    BY <2>3 DEF OpenFails, Respond, Goto
  <2> QED BY <2>1, <2>2, <2>3
<1>9. Rest' = Unread'
  BY <1>3, <1>6, <1>8, BodyLemma DEF Unread
<1>10. UnderWay'
  BY <1>1, <1>2, <1>3, <1>4, <1>8, <1>9 DEF UnderWay, InService
<1>11. Settled'
  BY <1>2 DEF Settled
<1> QED BY <1>1, <1>2, <1>10, <1>11 DEF Clean

\* The rest of an upload follows its first packet.
LEMMA BodyStep ==
    ASSUME TypeOK, Clean, ReadBody, pc' # "top", pc' # "reply", handled' = handled,
           UNCHANGED <<tid, busy, toSend, gotData, answered>>
    PROVE  Clean'
<1>1. /\ pc = "receive" /\ out # << >> /\ out' = Tail(out) /\ configured' = configured
      /\ mRequest' = mRequest /\ late' = late /\ todo' = Counted
      /\ IF Complete THEN EndUpload ELSE UNCHANGED <<pc, mResponse>>
  BY DEF ReadBody, Received
<1>2. /\ busy /\ configured /\ UnderWay /\ Settled /\ tid \in 1 .. tid /\ answered[tid] = 0
      /\ Rest = Unread
  BY <1>1, ServingLemma DEF Between
<1>3. /\ todo \in Nat /\ todo > 0 /\ ~late /\ mRequest.op \in Upload /\ ~gotData
      /\ mRequest.op \notin {"GetObjectInfo", "GetObject"}
  BY <1>1, <1>2 DEF UnderWay, TypeOK, DeviceTypeOK, Upload
<1>4. Rest = Body(todo)
  BY <1>1, <1>2 DEF Unread
<1>5. Head(out) = Raw("body") /\ Rest' = Body(todo - 1)
  <2>1. Head(out) = Head(Rest) /\ Rest' = Tail(Rest)
    BY <1>1, RestLemma
  <2> QED BY <1>3, <1>4, <2>1, BodyLemma
<1>6. todo' = todo - 1 /\ Counted = todo - 1
  BY <1>1, <1>3, <1>5 DEF Counted, packet, Raw
<1>7. \/ pc' = "response" /\ todo' = 0
      \/ pc' = "receive" /\ todo' > 0
  BY <1>1, <1>3, <1>6 DEF Complete, EndUpload, Respond, Goto
<1>8. Rest' = Unread'
  BY <1>3, <1>5, <1>6, <1>7, BodyLemma DEF Unread
<1>9. UnderWay'
  BY <1>1, <1>2, <1>3, <1>7, <1>8 DEF UnderWay, InService
<1>10. Settled'
  BY <1>2 DEF Settled
<1> QED BY <1>1, <1>2, <1>9, <1>10 DEF Clean

\* An upload that ends with a response has been read.
LEMMA UploadsStep ==
    ASSUME TypeOK, upset = "none" => Clean, upset' = "none", Server, Uploads \/ Opens
    PROVE  Clean'
<1>1. handled' = handled /\ UNCHANGED <<tid, busy, toSend, gotData, answered>>
  BY FrameLemma DEF Uploads, Opens
<1>2. /\ upset = "none"
      /\ \/ (ReadFirst \/ ReadBody) /\ pc' # "top" /\ pc' # "reply"
         \/ OpenFails /\ ~(mRequest.body > 0)
  BY UpsetLemma, Zenon DEF Uploads, Opens, Cause
<1>3. mRequest.body \in Nat
  BY TransferAssumption DEF TypeOK, DeviceTypeOK, Packet
<1>4. CASE ReadFirst /\ pc' # "top" /\ pc' # "reply"
  BY <1>1, <1>2, <1>4, FirstStep DEF ReadFirst
<1>5. CASE ReadBody /\ pc' # "top" /\ pc' # "reply"
  BY <1>1, <1>2, <1>5, BodyStep
<1>6. CASE OpenFails /\ mRequest.body = 0
  BY <1>1, <1>2, <1>6, FirstStep DEF OpenFails, Respond, Goto
<1> QED BY <1>2, <1>3, <1>4, <1>5, <1>6

\* A handler is entered with its data read, or about to be read by it.
LEMMA HandlesStep ==
    ASSUME TypeOK, upset = "none" => Clean, upset' = "none", Server, Handles
    PROVE  Clean'
<1>1. UNCHANGED <<tid, busy, toSend, gotData, answered>>
  BY FrameLemma
<1>2. /\ pc = "handle" /\ mRequest' = mRequest /\ out' = out
      /\ pc' = "send" => todo' > 0
      /\ handled' = [handled EXCEPT ![mRequest.tid] = @ + 1]
  BY HandlesControl
<1>3. /\ upset = "none"
      /\ Succeed \/ (Fail /\ mRequest.op \notin Upload) \/ FillData \/ SendFile \/ AwaitUpload
  BY UpsetLemma, Zenon DEF Handles, Cause
<1>4. /\ busy /\ configured /\ UnderWay /\ Settled /\ tid \in 1 .. tid /\ answered[tid] = 0
      /\ Rest = Unread
  BY <1>2, <1>3, ServingLemma DEF Between
<1>5. /\ mRequest.type = "command" /\ mRequest.op \in Operation /\ mRequest.tid = tid
      /\ handled[tid] = 0 /\ ~gotData
  BY <1>2, <1>4 DEF UnderWay, InService
<1>6. tid \in 0 .. MaxTransaction /\ handled \in [0 .. MaxTransaction -> Nat]
  BY DEF TypeOK
<1>7. \A t \in 0 .. MaxTransaction : handled'[t] = IF t = tid THEN 1 ELSE handled[t]
  BY <1>2, <1>5, <1>6
<1>8. Settled'
  BY <1>1, <1>4, <1>7 DEF Settled
<1>9. configured' = configured /\ handled'[tid'] = 1
  BY <1>1, <1>3, <1>6, <1>7 DEF Succeed, Fail, FillData, SendFile, AwaitUpload, pipe
<1>10. CASE AwaitUpload
  <2>1. pc' = "first" /\ mRequest.op \in Upload
    BY <1>10 DEF AwaitUpload, Goto
  <2>2. Unread' = Unread /\ Rest' = Rest
    BY <1>1, <1>2, <2>1 DEF Unread, Rest
  <2>3. UnderWay'
    BY <1>1, <1>2, <1>4, <1>5, <1>9, <2>1, <2>2 DEF UnderWay, InService
  <2> QED BY <1>1, <1>4, <1>8, <1>9, <2>3 DEF Clean
<1>11. CASE ~AwaitUpload
  <2>1. /\ pc' \in {"response", "reply", "send"} /\ mRequest.op \notin Upload
        /\ pc' = "reply" => mRequest.op = "GetObjectInfo"
        /\ pc' = "send" => mRequest.op = "GetObject"
        /\ pc' = "response" /\ mResponse' = "OK" => mRequest.op \notin {"GetObjectInfo", "GetObject"}
    BY <1>3, <1>11 DEF Succeed, Fail, FillData, SendFile, Respond, Goto, Upload, DataIn
  <2>2. Unread = << >> /\ Unread' = << >> /\ Rest' = Rest
    BY <1>1, <1>2, <2>1 DEF Unread, Rest
  <2>3. UnderWay'
    BY <1>1, <1>2, <1>4, <1>5, <1>9, <2>1, <2>2 DEF UnderWay, InService
  <2> QED BY <1>1, <1>4, <1>8, <1>9, <2>3 DEF Clean
<1> QED BY <1>10, <1>11

-----------------------------------------------------------------------------
(* The invariant and what follows from it.                                 *)

\* Before the first transaction nothing is under way.
LEMMA InitLemma ==
    ASSUME Init
    PROVE  SessionInv
<1> USE TransferAssumption DEF Init, DeviceInit
<1>1. Raw("command") \in Packet
  BY DEF Raw, Packet
<1>2. TypeOK
  <2>1. DeviceTypeOK
    BY <1>1, EmptySeq DEF DeviceTypeOK
  <2>2. /\ handled \in [0 .. MaxTransaction -> Nat] /\ answered \in [0 .. MaxTransaction -> Nat]
        /\ tid \in 0 .. MaxTransaction
    OBVIOUS
  <2> QED BY <2>1, <2>2, EmptySeq DEF TypeOK, Cause
<1>3. Accounted
  BY DEF Accounted, InService
<1>4. Rest = << >>
  BY DEF Rest
<1>5. Clean
  BY <1>4 DEF Clean, Settled, Between
<1> QED BY <1>2, <1>3, <1>5 DEF SessionInv

\* Every step keeps the invariant.
LEMMA StepLemma ==
    ASSUME SessionInv, [Next]_vars
    PROVE  SessionInv'
<1>1. TypeOK /\ Accounted /\ (upset = "none" => Clean)
  BY DEF SessionInv
<1>2. ASSUME NEW op \in Operation, NEW body \in 0 .. MaxPieces, NEW full \in BOOLEAN,
             StartTransaction(op, body, full)
      PROVE  SessionInv'
  <2>1. UNCHANGED <<pc, mRequest, todo, handled, answered>>
    BY <1>2 DEF StartTransaction, device, request, file, counts
  <2> QED BY <1>1, <1>2, <2>1, HostTypes, HostAccounts, StartStep DEF SessionInv
<1>3. CASE SendPacket \/ GiveUp \/ Unplug \/ PressB \/ LeaveApplet
  <2>1. UNCHANGED <<pc, mRequest, todo, handled, answered>>
    BY <1>3 DEF SendPacket, GiveUp, Unplug, PressB, Stop, LeaveApplet, device, request, file, counts
  <2> QED BY <1>1, <1>3, <2>1, HostTypes, HostAccounts, SendStep, UnplugStep, OtherStep DEF SessionInv
<1>4. CASE Take
  BY <1>1, <1>4, HostTypes, HostAccounts, TakeStep DEF SessionInv
<1>5. CASE Plug
  BY <1>1, <1>5, HostTypes, HostAccounts, PlugStep DEF SessionInv
<1>6. CASE Server
  <2>1. upset' = "none" => Clean'
    BY <1>1, <1>6, ReadsStep, UploadsStep, HandlesStep DEF Server
  <2> QED BY <1>1, <1>6, <2>1, ServerTypes, ServerAccounts DEF SessionInv
<1>7. CASE UNCHANGED vars
  <2>1. UNCHANGED <<pipe, device, host, counts, upset, stopThread, pc, mRunning, mRequest, mResponse,
                    todo, late, configured, out, tid, busy, toSend, gotData, handled, answered>>
    BY <1>7 DEF vars, pipe, device, request, file, host, counts
  <2>2. TypeOK'
    BY <1>1, <2>1 DEF TypeOK, DeviceTypeOK
  <2>3. Accounted'
    BY <1>1, <2>1, HostAccounts
  <2>4. upset' = "none" => Clean'
    BY <1>1, <2>1, SameLemma
  <2> QED BY <2>2, <2>3, <2>4 DEF SessionInv
<1>8. ASSUME NEW op \in Operation, NEW body \in 0 .. MaxPieces, NEW full \in BOOLEAN,
             StartTransaction(op, IF op \in Upload THEN body ELSE 0, full /\ op \in Upload)
      PROVE  SessionInv'
  <2>1. (IF op \in Upload THEN body ELSE 0) \in 0 .. MaxPieces /\ (full /\ op \in Upload) \in BOOLEAN
    BY TransferAssumption
  <2> QED BY <1>2, <1>8, <2>1, Zenon
<1> QED BY <1>3, <1>4, <1>5, <1>6, <1>7, <1>8, Zenon DEF Next

\* For every number of transactions and every length of file, host and server
\* agree on what is still to be read, and on which transaction is being served.
THEOREM SessionSafe == Spec => []SessionInv
<1>1. Init => SessionInv
  BY InitLemma
<1>2. SessionInv /\ [Next]_vars => SessionInv'
  BY StepLemma
<1> QED BY <1>1, <1>2, PTL DEF Spec

\* MtpServer::run answers only what it handled; in step, each transaction is
\* handled once and answered once.
THEOREM AnsweredOnceHolds == Spec => []AnsweredOnce
<1>1. ASSUME SessionInv PROVE AnsweredOnce
  <2>1. TypeOK /\ Accounted /\ (upset = "none" => Clean)
    BY <1>1 DEF SessionInv
  <2>2. /\ tid \in 0 .. MaxTransaction
        /\ handled \in [0 .. MaxTransaction -> Nat] /\ answered \in [0 .. MaxTransaction -> Nat]
    BY <2>1 DEF TypeOK
  <2>3. \A t \in 0 .. MaxTransaction : answered[t] <= handled[t]
    BY <2>1, <2>2 DEF Accounted
  <2>4. ASSUME upset = "none", NEW t \in 1 .. tid
        PROVE  /\ answered[t] = IF t = tid /\ busy THEN 0 ELSE 1
               /\ handled[t] = 1 \/ (t = tid /\ busy /\ handled[t] = 0)
    <3>1. t \in 0 .. MaxTransaction
      BY <2>2, <2>4, TransferAssumption
    <3> QED BY <2>1, <2>4, <3>1 DEF Clean, Settled, Announced, UnderWay
  <2> QED BY <2>3, <2>4 DEF AnsweredOnce
<1> QED BY <1>1, SessionSafe, PTL

\* What MtpServer::run writes belongs to the transaction the host waits for,
\* and with the response nothing the host sent is left on the pipe.
THEOREM InStepHolds == Spec => []InStep
<1>1. ASSUME SessionInv PROVE InStep
  <2>1. TypeOK /\ (upset = "none" => Clean)
    BY <1>1 DEF SessionInv
  <2>2. ASSUME upset = "none", Writing
        PROVE  busy /\ mRequest.tid = tid /\ (pc = "response" => out = << >> /\ toSend = << >>)
    <3>1. busy /\ UnderWay /\ Rest = Unread
      BY <2>1, <2>2, ServingLemma DEF Writing, Between
    <3>2. Unread = << >>
      BY <2>2 DEF Writing, Unread
    <3>3. out \in Seq(Packet) /\ toSend \in Seq(Packet)
      BY <2>1 DEF TypeOK, DeviceTypeOK
    <3> QED BY <3>1, <3>2, <3>3, NothingLemma DEF UnderWay, Rest
  <2> QED BY <2>2 DEF InStep
<1> QED BY <1>1, SessionSafe, PTL

\* MtpServer::run writes mData before the response that says it is there.
THEOREM DataBeforeResponseHolds == Spec => []DataBeforeResponse
<1>1. ASSUME SessionInv PROVE DataBeforeResponse
  BY <1>1, ServingLemma DEF SessionInv, DataBeforeResponse, Between, UnderWay
<1> QED BY <1>1, SessionSafe, PTL

\* The loop of MtpServer::run ends with every request it handled answered.
THEOREM ExitsBetweenRequestsHolds == Spec => []ExitsBetweenRequests
<1>1. ASSUME SessionInv PROVE ExitsBetweenRequests
  <2>1. ASSUME upset = "none", pc = "exited" PROVE handled = answered
    <3>1. TypeOK /\ Clean
      BY <1>1, <2>1 DEF SessionInv
    <3>2. /\ tid \in 0 .. MaxTransaction
          /\ handled \in [0 .. MaxTransaction -> Nat] /\ answered \in [0 .. MaxTransaction -> Nat]
      BY <3>1 DEF TypeOK
    <3>3. ~busy \/ (handled[tid] = 0 /\ answered[tid] = 0)
      BY <2>1, <3>1 DEF Clean, Announced, UnderWay, InService
    <3>4. \A t \in 0 .. MaxTransaction : handled[t] = answered[t]
      BY <3>1, <3>2, <3>3 DEF Clean, Settled
    <3>5. /\ handled = [t \in 0 .. MaxTransaction |-> handled[t]]
          /\ answered = [t \in 0 .. MaxTransaction |-> answered[t]]
      BY <3>2, Zenon
    <3> QED BY <3>4, <3>5, Zenon
  <2> QED BY <2>1 DEF ExitsBetweenRequests
<1> QED BY <1>1, SessionSafe, PTL
=============================================================================
