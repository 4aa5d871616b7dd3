-------------------------------- MODULE Main --------------------------------
(***************************************************************************)
(* The program from main() to its return: it sets up USB, waits for the    *)
(* start command if a console was asked for, runs the loop of              *)
(* MtpServer::run, and takes everything down.  Host, console and user are  *)
(* on the other side.  The header of a container is one word.              *)
(***************************************************************************)
EXTENDS UsbComms

CONSTANTS
    Offset,             \* where in a page buffers may begin
    MaxTransfer,        \* bound: requests the host sends and lines the console
    MaxParameter,       \* parameters a request has at most
    DataSize,           \* sizes of data phases that the loop reads
    FileSize,           \* sizes of data phases that a handler reads
    ReplySize,          \* sizes of answers
    MaxUnplugged        \* bound: times the host goes

ASSUME MainAssumption ==
    /\ Len(bNumEndpoints) = 2 /\ bNumEndpoints[1] >= 2 /\ bNumEndpoints[2] >= 2
    /\ Offset \subseteq 0 .. Page - 1
    /\ MaxTransfer \in Nat /\ MaxParameter \in Nat /\ MaxUnplugged \in Nat
    /\ DataSize \subseteq Nat \ {0} /\ FileSize \subseteq Nat \ {0} /\ ReplySize \subseteq Nat
    /\ DOMAIN BufferSize = {"start", "mRequest", "mData", "initialData", "buffer"}
    /\ BufferSize["start"] = 2

\* With its five parameters a request has 32 bytes: less than the smallest
\* packet, 64 bytes, and no more than the 512 of the buffer.
ASSUME RequestAssumption ==
    MaxParameter + 1 < PacketSize /\ MaxParameter + 1 <= BufferSize["mRequest"]

VARIABLES
    pc,
    at, terminated,     \* of the buffers; of the seven bytes of start
    mRunning, stopThread,
    mPacketSize,        \* of the request
    sent, toSend,       \* the host's requests; packets of the last to be sent
    lines, unplugged

program == <<pc, mRunning, mPacketSize>>
rigid   == <<at, terminated>>
host    == <<sent, toSend, lines, unplugged>>
vars    == <<interfaces, setup, index, wires, memory, transfer, program, rigid, stopThread, host>>

mtp == [IN |-> <<1, 1>>, OUT |-> <<1, 2>>]
serial == [IN |-> <<2, 1>>, OUT |-> <<2, 2>>]
nxlink == num_interfaces = 2

\* Words.  Those of request n are <<n, 0>> for the header and <<n, i>> for
\* parameter i; <<n, -1>> is any word of its data phase.
junk  == <<0, 0>>
START == <<<<0, -1>>, <<0, -2>>>>
Text(n) == [i \in 1 .. n |-> <<0, i>>]
RequestOf(n, params) == [i \in 1 .. params + 1 |-> <<n, i - 1>>]
Request(n) == RequestOf(n, sent[n].params)

-----------------------------------------------------------------------------
(* main and nxlinkStdioInitialise.                                         *)

Goto(next) == pc' = next
Steady == UNCHANGED <<setup, index, interfaces, wires, memory>>
Calls(c, next) == Call(c) /\ Goto(next) /\ Steady
Waits(next) == Goto(next) /\ Steady /\ UNCHANGED transfer
Answered == step = "returned"

SetUp ==
    /\ pc = "usbInitialize"
    /\ usbInitialize
    /\ UNCHANGED program

\* Its result is ignored.
SetUpDone ==
    /\ pc = "usbInitialize"
    /\ setup \in {"done", "refused"}
    /\ Waits(IF nxlink THEN "nxlink" ELSE "main")
    /\ UNCHANGED <<mRunning, mPacketSize>>

\* Mutant: the console is read with the timeout of requests.
AwaitStart_Timeout ==
    /\ pc = "nxlink"
    /\ step # "idle" => Answered
    /\ IF memory["start"] = START /\ terminated THEN Waits("main")
       ELSE Calls(Read(serial.OUT, at, "start", TRUE), "nxlink")
    /\ UNCHANGED <<mRunning, mPacketSize>>

\* The comparison looks at the byte behind the seven as well.
AwaitStart ==
    /\ pc = "nxlink"
    /\ step # "idle" => Answered
    /\ IF memory["start"] = START /\ terminated THEN Waits("main")
       ELSE Calls(Read(serial.OUT, at, "start", FALSE), "nxlink")
    /\ UNCHANGED <<mRunning, mPacketSize>>

\* The thread exists from here on, mRunning is set afterwards.
Run ==
    /\ \/ pc = "main" /\ Waits("run") /\ UNCHANGED mRunning
       \/ pc = "run" /\ Waits("top") /\ mRunning' = TRUE
    /\ UNCHANGED mPacketSize

-----------------------------------------------------------------------------
(* The loop.                                                               *)

\* Mutant: reads wait without a limit.
Loop_NoTimeout ==
    /\ pc = "top"
    /\ IF mRunning THEN Calls(Read(mtp.OUT, at, "mRequest", FALSE), "request") ELSE Waits("join")
    /\ UNCHANGED <<mRunning, mPacketSize>>

Loop ==
    /\ pc = "top"
    /\ IF mRunning THEN Calls(Read(mtp.OUT, at, "mRequest", TRUE), "request") ELSE Waits("join")
    /\ UNCHANGED <<mRunning, mPacketSize>>

\* The operation of the request in the buffer, be it an old one or none:
\* it brings data, and SendObject and SendPartialObject read theirs themselves.
Brings(upload) ==
    LET header == memory["mRequest"][1]
    IN  /\ header[1] \in 1 .. Len(sent) /\ header[2] = 0
        /\ sent[header[1]].data > 0 /\ sent[header[1]].upload = upload

dataIn == Brings(FALSE)

\* Mutant: what a read leaves behind when it fails is taken.
RequestRead_Unchecked ==
    /\ pc = "request" /\ Answered
    /\ mPacketSize' = IF result > 0 THEN result ELSE mPacketSize
    /\ IF dataIn THEN Calls(Read(mtp.OUT, at, "mData", TRUE), "data") ELSE Waits("handle")
    /\ UNCHANGED mRunning

RequestRead ==
    /\ pc = "request" /\ Answered
    /\ mPacketSize' = IF result >= 0 THEN result ELSE 0
    /\ IF result < 0 THEN Waits("top")
       ELSE IF dataIn THEN Calls(Read(mtp.OUT, at, "mData", TRUE), "data")
       ELSE Waits("handle")
    /\ UNCHANGED mRunning

DataRead ==
    /\ pc = "data" /\ Answered
    /\ Waits(IF result < 1 THEN "top" ELSE "handle")
    /\ UNCHANGED <<mRunning, mPacketSize>>

\* What is logged goes to the console.
Log ==
    /\ pc = "handle" /\ nxlink
    /\ Calls(Write(serial.IN, at, Text(1)), "log")
    /\ UNCHANGED <<mRunning, mPacketSize>>

SendResponse == Calls(Write(mtp.IN, at, Text(1)), "response")

\* The first packet of a file, into mData.
ReadInitialData ==
    /\ pc = "handle" \/ (pc = "log" /\ Answered)
    /\ Brings(TRUE)
    /\ Calls(Read(mtp.OUT, at, "initialData", TRUE), "first")
    /\ UNCHANGED <<mRunning, mPacketSize>>

\* receive_file reads until it has what the host announced, whatever its
\* reads return, and never looks at mRunning.
ReceiveFile ==
    /\ Answered
    /\ pc = "receive" \/ (pc = "first" /\ result > 0)
    /\ Calls(Read(mtp.OUT, 0, "buffer", TRUE), "receive")
    /\ UNCHANGED <<mRunning, mPacketSize>>

\* A handler that has no more to read.  Only a read that gave something can
\* have been the last of receive_file.
Handled ==
    \/ pc = "handle"
    \/ Answered /\ pc \in {"log", "first"}
    \/ Answered /\ pc = "receive" /\ result > 0

Handle ==
    /\ Handled
    /\ \/ SendResponse
       \/ \E n \in ReplySize \ {0} : ~dataIn /\ Calls(Write(mtp.IN, at, Text(n)), "reply")
    /\ UNCHANGED <<mRunning, mPacketSize>>

Replied ==
    /\ pc = "reply" /\ Answered
    /\ IF result < 0 THEN Waits("top") ELSE SendResponse
    /\ UNCHANGED <<mRunning, mPacketSize>>

Responded ==
    /\ pc = "response" /\ Answered
    /\ Waits("top")
    /\ UNCHANGED <<mRunning, mPacketSize>>

-----------------------------------------------------------------------------
(* The end of main.                                                        *)

Join ==
    /\ pc = "join"
    /\ stopThread = "ended"
    /\ IF nxlink THEN Calls(Write(serial.IN, at, Text(2)), "nxlinkStdioClose") ELSE Waits("usbExit")
    /\ UNCHANGED <<mRunning, mPacketSize>>

Closed ==
    /\ pc = "nxlinkStdioClose" /\ Answered
    /\ Waits("usbExit")
    /\ UNCHANGED <<mRunning, mPacketSize>>

\* The device is gone with the service.
Exit ==
    /\ pc = "usbExit"
    /\ usbExit
    /\ Goto("ended")
    /\ configured' = FALSE
    /\ UNCHANGED <<setup, index, pipe, listening, memory, transfer, mRunning, mPacketSize>>

Transfers == usbTransfer /\ UNCHANGED program

Server ==
    /\ \/ SetUp \/ SetUpDone \/ AwaitStart \/ Run
       \/ Loop \/ RequestRead \/ DataRead \/ Log \/ ReadInitialData \/ ReceiveFile \/ Handle
       \/ Replied \/ Responded
       \/ Join \/ Closed \/ Exit
       \/ Transfers
    /\ UNCHANGED <<rigid, stopThread, host>>

-----------------------------------------------------------------------------
(* The thread that waits for B, and the other side.                        *)

Threads == stopThread = "polling" /\ pc \notin {"usbInitialize", "nxlink", "main"}

PressB ==
    /\ Threads
    /\ stopThread' = "ended"
    /\ mRunning' = FALSE
    /\ Steady
    /\ UNCHANGED <<transfer, pc, mPacketSize, rigid, host>>

LeaveApplet ==
    /\ Threads
    /\ stopThread' = "ended"
    /\ Steady
    /\ UNCHANGED <<transfer, program, rigid, host>>

\* A transfer in packets: the last one is short, or empty.
Cut(data) ==
    [i \in 1 .. Len(data) \div PacketSize + 1 |->
        SubSeq(data, (i - 1) * PacketSize + 1, Lesser(i * PacketSize, Len(data)))]

DataPhase(n, size) == IF size = 0 THEN << >> ELSE Cut([i \in 1 .. size |-> <<n, -1>>])

Requests(params, data, upload) ==
    /\ configured
    /\ toSend = << >>
    /\ Len(sent) + lines < MaxTransfer
    /\ sent' = Append(sent, [params |-> params, data |-> data, upload |-> upload])
    /\ toSend' = Cut(RequestOf(Len(sent'), params)) \o DataPhase(Len(sent'), data)
    /\ Steady
    /\ UNCHANGED <<transfer, program, rigid, stopThread, lines, unplugged>>

Sends ==
    /\ toSend # << >>
    /\ HostSends(mtp.OUT, Head(toSend))
    /\ toSend' = Tail(toSend)
    /\ UNCHANGED <<setup, index, interfaces, memory, transfer, program, rigid, stopThread,
                   sent, lines, unplugged>>

\* Nobody reads what the console sends later.
Types(line) ==
    /\ nxlink /\ pc \in {"usbInitialize", "nxlink"}
    /\ Len(sent) + lines < MaxTransfer
    /\ lines' = lines + 1
    /\ HostSends(serial.OUT, line)
    /\ UNCHANGED <<setup, index, interfaces, memory, transfer, program, rigid, stopThread,
                   sent, toSend, unplugged>>

Leaves ==
    /\ unplugged < MaxUnplugged
    /\ unplugged' = unplugged + 1
    /\ Unplug
    /\ toSend' = << >>
    /\ UNCHANGED <<program, rigid, stopThread, sent, lines>>

Returns == Plug /\ UNCHANGED <<program, rigid, stopThread, host>>

-----------------------------------------------------------------------------
Init ==
    /\ UsbInit
    /\ num_interfaces \in 1 .. 2
    /\ \/ listening = {mtp.IN, serial.IN}
       \/ listening = {mtp.IN} /\ nxlink
    /\ at \in Offset
    /\ terminated \in BOOLEAN /\ (terminated \/ nxlink)
    /\ \E garbage \in {<<junk, junk>>} \cup (IF nxlink THEN {START} ELSE {}) :
          memory = [b \in DOMAIN BufferSize |->
                       IF b = "start" THEN garbage ELSE [i \in 1 .. BufferSize[b] |-> junk]]
    /\ pc = "usbInitialize"
    /\ mRunning = FALSE /\ stopThread = "polling"
    /\ mPacketSize = 0
    /\ sent = << >> /\ toSend = << >> /\ lines = 0 /\ unplugged = 0

Next ==
    \/ Server
    \/ PressB \/ LeaveApplet
    \/ \E params \in 0 .. MaxParameter : Requests(params, 0, FALSE)
    \/ \E data \in DataSize : Requests(MaxParameter, data, FALSE)
    \/ \E data \in FileSize : Requests(MaxParameter, data, TRUE)
    \/ Sends
    \/ \E line \in {START, <<junk>>} : Types(line)
    \/ Leaves \/ Returns

\* The server's thread runs.  A read that gives up after a second is one of
\* its steps, and so is the host's taking of a packet.
Spec == Init /\ [][Next]_vars /\ WF_vars(Server)

-----------------------------------------------------------------------------
(* Safety.                                                                 *)

PcValue == {"usbInitialize", "nxlink", "main", "run", "top", "request", "data", "handle", "log",
            "first", "receive", "reply", "response", "join", "nxlinkStdioClose", "usbExit", "ended"}

InterfacesOK ==
    /\ num_interfaces \in 1 .. 2 /\ index \in 1 .. num_interfaces
    /\ session \in {"closed", "open", "enabled"}
    /\ buffer \subseteq Endpoint /\ endpoint \subseteq Endpoint
    /\ setup \in {"begin", "interface", "register", "endpoints", "enable", "usbDsEnable",
                  "done", "failed", "refused"}

WiresOK ==
    /\ configured \in BOOLEAN /\ listening \subseteq Endpoint
    /\ pipe \in [Endpoint -> Seq(Seq(Word))] /\ toSend \in Seq(Seq(Word))
    /\ sent \in Seq([params : Nat, data : Nat, upload : BOOLEAN]) /\ lines \in Nat /\ unplugged \in Nat

CallType ==
    [ep : Endpoint, dir : {"read", "write"}, at : Nat, into : DOMAIN BufferSize \cup {"none"},
     data : Seq(Word), size : Nat, timed : BOOLEAN]

TransferOK ==
    /\ step \in {"idle", "wait", "post", "posted", "failed", "returned"}
    /\ call \in CallType
    /\ memory \in [DOMAIN BufferSize -> Seq(Word)]
    /\ \A b \in DOMAIN BufferSize : Len(memory[b]) = BufferSize[b]
    /\ retried \in BOOLEAN /\ whole \in BOOLEAN
    /\ total \in Nat /\ posted \in Nat /\ urb \in Seq(Word) /\ result \in Int
    /\ moved \in Seq(Seq(Word))

ProgramOK ==
    /\ pc \in PcValue
    /\ mRunning \in BOOLEAN /\ stopThread \in {"polling", "ended"}
    /\ at \in Offset /\ terminated \in BOOLEAN
    /\ mPacketSize \in Nat

TypeOK == InterfacesOK /\ WiresOK /\ TransferOK /\ ProgramOK

\* What is allocated belongs to an interface that usbExit will free.
NothingLeaks ==
    /\ initialized \subseteq 1 .. num_interfaces
    /\ \A e \in buffer \cup endpoint : e[1] \in initialized
    /\ setup = "refused" \/ pc = "ended" => session = "closed" /\ initialized = {}

Complete(i) == i \in initialized /\ EndpointsOf(i) \subseteq buffer \cap endpoint

\* Once set-up is done every interface has its pages and endpoints.
SetUpInOrder ==
    /\ pc # "usbInitialize" => setup \in {"done", "refused"}
    /\ setup \notin {"failed", "refused"} /\ pc # "ended" => \A i \in 1 .. index - 1 : Complete(i)
    /\ setup \in {"register", "endpoints"} => index \in initialized /\ EndpointsOf(index) \subseteq buffer
    /\ setup \in {"enable", "usbDsEnable", "done"} /\ pc # "ended" => Complete(index)
    /\ setup \in {"usbDsEnable", "done"} => index = num_interfaces

\* What is posted ends within the caller's buffer and, if it goes through the
\* page of the endpoint, within that page.
ChunkFits ==
    /\ Transferring =>
          /\ call.ep \in buffer \cap endpoint
          /\ call.size > 0
          /\ IF call.dir = "read" THEN call.into # "none" /\ call.size = BufferSize[call.into]
             ELSE call.size = Len(call.data) /\ ~call.timed
    /\ Transferring => pc \in {"nxlink", "request", "data", "log", "first", "receive", "reply", "response",
                             "nxlinkStdioClose"}
    /\ step \in {"post", "posted"} => total < call.size
    /\ step = "posted" =>
          /\ total + posted <= call.size
          /\ offset # 0 => posted <= Page - offset
          /\ Len(urb) < posted

\* The program never transfers over an endpoint that is not there, overruns
\* no buffer, and leaves nothing behind, in whichever step set-up failed.
ProgramInv == TypeOK /\ NothingLeaks /\ SetUpInOrder /\ ChunkFits

Handling == {"data", "handle", "log", "first", "receive", "reply", "response"}

\* The largest request ends before the first page of its buffer does.
RoomForRequest == at = 0 \/ Page - at > MaxParameter + 1

\* getParameter reads what the request carried, as far as that goes; behind
\* it stands what older requests left.
ParametersSent ==
    LET words == memory["mRequest"]
        n     == words[1][1]
    IN  pc \in Handling /\ mPacketSize > 0 /\ RoomForRequest /\ n > 0 /\ words[1][2] = 0 =>
            /\ SubSeq(words, 1, mPacketSize) = Request(n)
            /\ \A i \in mPacketSize + 1 .. Len(words) : words[i][1] < n

-----------------------------------------------------------------------------
(* Refinement.                                                             *)

busy == Transferring
reading == Transferring /\ call.dir = "read"

\* Packets that a call has taken or given count once it returns.
untaken == IF reading THEN [pipe EXCEPT ![call.ep] = moved \o @] ELSE pipe

received ==
    IF step # "returned" THEN << >>
    ELSE IF call.dir = "write" THEN moved
    ELSE IF result > 0 THEN SubSeq(memory[call.into], 1, result)
    ELSE << >>

\* usbTransfer implements BulkPipe.
Pipe == INSTANCE BulkPipe WITH usable <- initialized, pipe <- untaken, got <- received

PipeImplemented == Pipe!Spec

-----------------------------------------------------------------------------
(* Liveness.                                                               *)

Started == pc \notin {"usbInitialize", "nxlink", "main", "run"}

\* A loop that was stopped leads to the end of the program, whether or not
\* USB could be set up, unless no host is there, nobody reads the console or
\* receive_file goes on waiting for a file that does not come.
Exits ==
    \/ <>[](pc = "receive")
    \/ Started /\ ~mRunning ~>
           \/ pc = "ended"
           \/ 1 \in initialized /\ ~configured
           \/ nxlink /\ serial.IN \notin listening

\* The start command that the console sent in one transfer starts the server,
\* if the buffer it is read to does not lie across two pages.
Starts ==
    /\ pc = "nxlink"
    /\ terminated
    /\ at = 0 \/ Page - at >= Len(START)
    /\ \E i \in DOMAIN pipe[serial.OUT] : pipe[serial.OUT][i] = START
    ~> pc # "nxlink" \/ ~configured
=============================================================================
