------------------------------ MODULE RunLoop ------------------------------
(***************************************************************************)
(* MtpServer::run over the USB transfers of usb.c: one thread that reads a *)
(* request, perhaps data, and writes data and a response.  One operation   *)
(* stands for each of the ways requests use the pipes.  A packet is what   *)
(* one read of the receiver that expects it takes.                         *)
(***************************************************************************)
EXTENDS Naturals, Sequences

CONSTANTS
    MaxTransaction,     \* bound: transactions the host starts
    MaxPieces           \* bound: packets a file takes beyond the first

ASSUME TransferAssumption == MaxTransaction \in Nat /\ MaxPieces \in Nat

VARIABLES
    configured,     \* the host has configured the device
    out,            \* what the host put on EP_OUT and nobody has read
    pc,             \* where the server's thread is
    mRunning,
    mRequest,       \* the request's buffer: its operation, transaction and announced packets
    mResponse,      \* "OK" or "error"
    todo,           \* packets of the current file still to send or to receive
    late            \* receive_file has counted the -1 of a timed-out read

pipe == <<configured, out>>
request == <<mRequest, mResponse>>
file == <<todo, late>>
device == <<pc, mRunning, request, file>>

Upload    == {"SendObject", "SendPartialObject"}    \* the handler reads the data
DataIn    == {"SendObjectInfo"}                     \* run reads the data
Operation == {"DeleteObject", "GetObjectInfo", "GetObject"} \cup DataIn \cup Upload

Packet ==
    [type : {"command", "data", "body", "zlp"}, op : Operation \cup {"none"},
     tid : 0 .. MaxTransaction, body : 0 .. MaxPieces]

\* File contents, and the packet without contents that ends a transfer
\* whose length fills its last packet, name no operation.
Raw(type) == [type |-> type, op |-> "none", tid |-> 0, body |-> 0]

-----------------------------------------------------------------------------
(* Transfers.                                                              *)

Received ==
    /\ configured
    /\ out # << >>
    /\ out' = Tail(out)
    /\ UNCHANGED configured

packet == Head(out)

\* A read gives up after a second.  What arrives before the transfer is
\* cancelled is dropped.  Without a host usbTransfer waits and tries again.
TimedOut ==
    /\ configured
    /\ out' = IF out = << >> THEN out ELSE Tail(out)
    /\ UNCHANGED configured

Goto(next) == pc' = next

-----------------------------------------------------------------------------
(* The loop.                                                               *)

\* stop() from the other thread may have come before this assignment.
Run ==
    /\ pc = "init"
    /\ Goto("top")
    /\ mRunning' = TRUE
    /\ UNCHANGED <<pipe, request, file>>

Stop == mRunning' = FALSE /\ UNCHANGED <<pipe, pc, request, file>>

\* Mutant: while (true).
Loop_Forever ==
    /\ pc = "top"
    /\ Goto("request")
    /\ UNCHANGED <<pipe, mRunning, request, file>>

Loop ==
    /\ pc = "top"
    /\ Goto(IF mRunning THEN "request" ELSE "exited")
    /\ UNCHANGED <<pipe, mRunning, request, file>>

\* Mutant: the operations that bring data are missing from the list.
ReadRequest_NoDataIn ==
    /\ pc = "request"
    /\ Received
    /\ mRequest' = IF packet.type = "zlp" THEN mRequest ELSE packet
    /\ Goto("handle")
    /\ UNCHANGED <<mRunning, mResponse, file>>

\* An empty packet leaves the previous request in the buffer.
ReadRequest ==
    /\ pc = "request"
    /\ Received
    /\ mRequest' = IF packet.type = "zlp" THEN mRequest ELSE packet
    /\ Goto(IF mRequest'.op \in DataIn THEN "data" ELSE "handle")
    /\ UNCHANGED <<mRunning, mResponse, file>>

RequestTimesOut ==
    /\ pc = "request"
    /\ TimedOut
    /\ Goto("top")
    /\ UNCHANGED <<mRunning, request, file>>

\* Mutant: the test for an error is the wrong way round.
ReadData_Swapped ==
    /\ pc = "data"
    /\ Received
    /\ Goto(IF packet.type = "zlp" THEN "handle" ELSE "top")
    /\ UNCHANGED <<mRunning, request, file>>

\* Any container will do; a read of less than a header is an error, after
\* which the loop answers nothing.
ReadData ==
    /\ pc = "data"
    /\ Received
    /\ Goto(IF packet.type = "zlp" THEN "top" ELSE "handle")
    /\ UNCHANGED <<mRunning, request, file>>

DataTimesOut ==
    /\ pc = "data"
    /\ TimedOut
    /\ Goto("top")
    /\ UNCHANGED <<mRunning, request, file>>

-----------------------------------------------------------------------------
(* handleRequest.                                                          *)

\* Mutant: the loop looks at mRunning before it answers.
Respond_UnlessStopped(code) == Goto(IF mRunning THEN "response" ELSE "exited") /\ mResponse' = code

Respond(code) == Goto("response") /\ mResponse' = code

Succeed ==
    /\ pc = "handle"
    /\ mRequest.op \in {"DeleteObject"} \cup DataIn
    /\ Respond("OK")
    /\ UNCHANGED <<pipe, mRunning, mRequest, file>>

\* Unsupported operations and every check that fails before a data phase.
Fail ==
    /\ pc = "handle"
    /\ Respond("error")
    /\ UNCHANGED <<pipe, mRunning, mRequest, file>>

\* Mutant: mData is reset before the loop sees it.
FillData_Reset ==
    /\ pc = "handle"
    /\ mRequest.op = "GetObjectInfo"
    /\ Respond("OK")
    /\ UNCHANGED <<pipe, mRunning, mRequest, file>>

\* The handler leaves its answer in mData, for the loop to write.
FillData ==
    /\ pc = "handle"
    /\ mRequest.op = "GetObjectInfo"
    /\ Goto("reply")
    /\ mResponse' = "OK"
    /\ UNCHANGED <<pipe, mRunning, mRequest, file>>

SendFile ==
    /\ pc = "handle"
    /\ mRequest.op = "GetObject"
    /\ todo' \in 1 .. (MaxPieces + 1)
    /\ Goto("send")
    /\ mResponse' = "OK"
    /\ UNCHANGED <<pipe, mRunning, mRequest, late>>

\* doSendObject and doSendPartialObject go on to read their data, where the
\* parameters of the request are good and not the start of some file.
AwaitUpload ==
    /\ pc = "handle"
    /\ mRequest.op \in Upload /\ mRequest.type = "command"
    /\ Goto("first")
    /\ UNCHANGED <<pipe, mRunning, request, file>>

\* An exception nobody catches (module MtpServer says when).
Throw ==
    /\ pc = "handle"
    /\ mRequest.op \in {"GetObjectInfo"}
    /\ Goto("aborted")
    /\ UNCHANGED <<pipe, mRunning, request, file>>

-----------------------------------------------------------------------------
(* Uploads.                                                                *)

\* A write that failed is an error, and with ECANCELED there is no response
\* at all.  SendPartialObject leaves the packet it read in mData when it
\* fails, and the loop sends that back; its result is that of receive_file
\* where there is more than one packet.
EndUpload ==
    \/ Respond("OK")
    \/ mRequest.op = "SendObject" /\ Respond("error")
    \/ /\ mRequest.op = "SendPartialObject"
       /\ mRequest.body = 0
       /\ Goto("reply")
       /\ mResponse' = "error"
    \/ /\ mRequest.op = "SendObject" \/ mRequest.body = 0
       /\ Goto("top")
       /\ UNCHANGED mResponse

\* The header and the first of the data.
ReadFirst ==
    /\ pc = "first"
    /\ Received
    /\ late' = FALSE
    /\ \/ packet.type = "zlp" /\ Respond("error") /\ UNCHANGED todo
       \/ packet.type # "zlp" /\ mRequest.body = 0 /\ EndUpload /\ UNCHANGED todo
       \/ /\ packet.type # "zlp"
          /\ mRequest.body > 0
          /\ Goto("receive")
          /\ todo' = mRequest.body
          /\ UNCHANGED mResponse
    /\ UNCHANGED <<mRunning, mRequest>>

\* open fails: what follows the first packet stays unread.
OpenFails ==
    /\ pc = "first"
    /\ mRequest.op = "SendObject"
    /\ Received
    /\ Respond("error")
    /\ UNCHANGED <<mRunning, mRequest, file>>

FirstTimesOut ==
    /\ pc = "first"
    /\ TimedOut
    /\ Respond("error")
    /\ UNCHANGED <<mRunning, mRequest, file>>

\* Mutant: every read counts as the data expected.
Counted_Anything == todo - 1

\* receive_file ends when the total reaches the length.  A container that is
\* not file contents is shorter than the packet it is taken for, but longer
\* than what a -1 takes from the total.
Counted == IF packet.type = "body" /\ todo > 0 THEN todo - 1 ELSE todo
\* Mutant: the loop ends one packet early.
Complete_OffByOne == Counted <= 1 /\ (late => todo = 0 /\ packet.type # "zlp")

Complete == Counted = 0 /\ (late => todo = 0 /\ packet.type # "zlp")

ReadBody ==
    /\ pc = "receive"
    /\ Received
    /\ todo' = Counted
    /\ IF Complete THEN EndUpload ELSE UNCHANGED <<pc, mResponse>>
    /\ UNCHANGED <<mRunning, mRequest, late>>

BodyTimesOut ==
    /\ pc = "receive"
    /\ TimedOut
    /\ late' = TRUE
    /\ UNCHANGED <<pc, mRunning, request, todo>>

-----------------------------------------------------------------------------
(* Writes wait until the host has read, however long that takes.           *)

Writing == pc \in {"send", "reply", "response"}

AfterWrite ==
    CASE pc = "send" /\ todo > 1 -> "send"
      [] pc = "send" /\ todo = 1 -> "response"
      [] pc = "reply"             -> "response"
      [] pc = "response"          -> "top"

Written ==
    /\ Writing
    /\ configured
    /\ Goto(AfterWrite)
    /\ todo' = IF pc = "send" THEN todo - 1 ELSE todo
    /\ UNCHANGED <<pipe, mRunning, request, late>>

\* The host went and came back: usbTransfer fails, or it finds the state
\* changed and writes the same packet again.  send_file goes on either way;
\* the loop goes back for a request.
WriteFails ==
    /\ Writing
    /\ Goto(IF pc = "send" THEN AfterWrite ELSE "top")
    /\ todo' = IF pc = "send" THEN todo - 1 ELSE todo
    /\ UNCHANGED <<mRunning, request, late>>

-----------------------------------------------------------------------------
DeviceInit ==
    /\ configured = TRUE
    /\ out = << >>
    /\ pc = "init"
    /\ mRunning = FALSE
    /\ mRequest = Raw("command")
    /\ mResponse = "error"
    /\ todo = 0
    /\ late = FALSE

DeviceTypeOK ==
    /\ configured \in BOOLEAN
    /\ out \in Seq(Packet)
    /\ pc \in {"init", "top", "request", "data", "handle", "first", "receive",
              "send", "reply", "response", "exited", "aborted"}
    /\ mRunning \in BOOLEAN
    /\ mRequest \in Packet
    /\ mResponse \in {"OK", "error"}
    /\ todo \in 0 .. (MaxPieces + 1)
    /\ late \in BOOLEAN
=============================================================================
