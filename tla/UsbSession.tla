----------------------------- MODULE UsbSession -----------------------------
(***************************************************************************)
(* The run loop with a host on the other end of the pipes and a user at    *)
(* the console.  The host runs one transaction at a time: a command, the   *)
(* data if the operation has some to send, then it waits for the response. *)
(***************************************************************************)
EXTENDS RunLoop

VARIABLES
    tid,        \* the host's last transaction
    busy,       \* it waits for that one's response
    toSend,     \* packets of it the host has yet to put on the pipe
    gotData,    \* it has received data in it
    handled,    \* how often the server handled each transaction
    answered,   \* how often it answered each
    upset,      \* the first event that takes host and server out of step
    stopThread  \* the thread that waits for the B button

host == <<tid, busy, toSend, gotData>>
counts == <<handled, answered>>
vars == <<pipe, device, host, counts, upset, stopThread>>

Cause == {"none", "unplugged", "gave up", "full last packet", "stalled", "dropped",
          "refused", "cancelled", "echoed", "aborted"}

Upset(cause) == upset' = IF upset = "none" THEN cause ELSE upset
Steady == UNCHANGED upset

-----------------------------------------------------------------------------
(* The host.                                                               *)

Command(op, n, body) == [type |-> "command", op |-> op, tid |-> n, body |-> body]
Data(op, n) == [type |-> "data", op |-> op, tid |-> n, body |-> 0]

Body(n) == [i \in 1 .. n |-> Raw("body")]

DataPhase(op, n, body) ==
    IF op \in Upload THEN <<Data(op, n)>> \o Body(body)
    ELSE IF op \in DataIn THEN <<Data(op, n)>>
    ELSE << >>

\* A transfer that fills its last packet ends with an empty one.
LastPacket(full) == IF full THEN <<Raw("zlp")>> ELSE << >>

StartTransaction(op, body, full) ==
    /\ configured
    /\ ~busy
    /\ tid < MaxTransaction
    /\ tid' = tid + 1
    /\ busy' = TRUE
    /\ gotData' = FALSE
    /\ out' = Append(out, Command(op, tid', body))
    /\ toSend' = DataPhase(op, tid', body) \o LastPacket(full)
    /\ IF full THEN Upset("full last packet") ELSE Steady
    /\ UNCHANGED <<configured, device, counts, stopThread>>

SendPacket ==
    /\ configured
    /\ busy
    /\ toSend # << >>
    /\ out' = Append(out, Head(toSend))
    /\ toSend' = Tail(toSend)
    /\ UNCHANGED <<configured, device, tid, busy, gotData, counts, upset, stopThread>>

\* The host takes what the server writes, and a response for its answer if it
\* carries the transaction it waits for.
Take ==
    /\ Written
    /\ IF pc = "response"
       THEN /\ answered' = [answered EXCEPT ![mRequest.tid] = @ + 1]
            /\ busy' = (busy /\ mRequest.tid # tid)
            /\ UNCHANGED gotData
       ELSE gotData' = TRUE /\ UNCHANGED <<answered, busy>>
    /\ UNCHANGED <<tid, toSend, handled, upset, stopThread>>

GiveUp ==
    /\ busy
    /\ busy' = FALSE
    /\ toSend' = << >>
    /\ Upset("gave up")
    /\ UNCHANGED <<pipe, device, tid, gotData, counts, stopThread>>

Unplug ==
    /\ configured
    /\ configured' = FALSE
    /\ out' = << >>
    /\ busy' = FALSE
    /\ toSend' = << >>
    /\ IF pc \in {"init", "top", "request", "exited"} /\ ~busy THEN Steady ELSE Upset("unplugged")
    /\ UNCHANGED <<device, tid, gotData, counts, stopThread>>

\* A write that was under way fails, or is repeated for the new host.
Plug ==
    /\ ~configured
    /\ configured' = TRUE
    /\ UNCHANGED device \/ WriteFails
    /\ UNCHANGED <<out, host, counts, upset, stopThread>>

\* stop_thread calls stop() when B is pressed, and ends without it when the
\* system asks the applet to go.
PressB ==
    /\ stopThread = "polling"
    /\ stopThread' = "stopped"
    /\ Stop
    /\ UNCHANGED <<host, counts, upset>>

LeaveApplet ==
    /\ stopThread = "polling"
    /\ stopThread' = "left"
    /\ UNCHANGED <<pipe, device, host, counts, upset>>

-----------------------------------------------------------------------------
(* The server, and what puts it out of step.                               *)

\* Nothing was lost, or a packet was.
OrDropped(cause) ==
    IF out # << >> THEN Upset("dropped")
    ELSE IF cause = "none" THEN Steady
    ELSE Upset(cause)

Reads ==
    /\ \/ Run /\ Steady
       \/ Loop /\ Steady
       \/ ReadRequest /\ Steady
       \/ RequestTimesOut /\ OrDropped("none")
       \/ ReadData /\ Steady
       \/ DataTimesOut /\ OrDropped("stalled")
       \/ FirstTimesOut /\ OrDropped("stalled")
       \/ BodyTimesOut /\ OrDropped("stalled")
    /\ UNCHANGED handled

Uploads ==
    /\ \/ ReadFirst \/ ReadBody
    /\ IF pc' = "top" THEN Upset("cancelled")
       ELSE IF pc' = "reply" THEN Upset("echoed")
       ELSE Steady
    /\ UNCHANGED handled

Opens == OpenFails /\ (IF mRequest.body > 0 THEN Upset("refused") ELSE Steady) /\ UNCHANGED handled

Handles ==
    /\ \/ Succeed /\ Steady
       \/ Fail /\ (IF mRequest.op \in Upload THEN Upset("refused") ELSE Steady)
       \/ FillData /\ Steady
       \/ SendFile /\ Steady
       \/ AwaitUpload /\ Steady
       \/ Throw /\ Upset("aborted")
    /\ handled' = [handled EXCEPT ![mRequest.tid] = @ + 1]

Server == (Reads \/ Uploads \/ Opens \/ Handles) /\ UNCHANGED <<host, answered, stopThread>>

-----------------------------------------------------------------------------
Init ==
    /\ DeviceInit
    /\ tid = 0
    /\ busy = FALSE
    /\ toSend = << >>
    /\ gotData = FALSE
    /\ handled = [t \in 0 .. MaxTransaction |-> 0]
    /\ answered = [t \in 0 .. MaxTransaction |-> 0]
    /\ upset = "none"
    /\ stopThread = "polling"

Next ==
    \/ \E op \in Operation, body \in 0 .. MaxPieces, full \in BOOLEAN :
          StartTransaction(op, IF op \in Upload THEN body ELSE 0, full /\ op \in Upload)
    \/ SendPacket
    \/ Take
    \/ GiveUp
    \/ Unplug
    \/ Plug
    \/ PressB
    \/ LeaveApplet
    \/ Server

\* The server's thread runs; a host that is there reads what is written for
\* it and sends what it began to send.
Fairness == WF_vars(Server) /\ WF_vars(Take) /\ WF_vars(SendPacket)

Spec == Init /\ [][Next]_vars /\ Fairness

-----------------------------------------------------------------------------
TypeOK ==
    /\ DeviceTypeOK
    /\ tid \in 0 .. MaxTransaction
    /\ busy \in BOOLEAN
    /\ toSend \in Seq(Packet)
    /\ gotData \in BOOLEAN
    /\ handled \in [0 .. MaxTransaction -> Nat]
    /\ answered \in [0 .. MaxTransaction -> Nat]
    /\ upset \in Cause
    /\ stopThread \in {"polling", "stopped", "left"}

-----------------------------------------------------------------------------
(* The inductive invariant.                                                *)

Between == {"init", "top", "request", "exited"}         \* no request is being served
InService == {"first", "receive"} \cup {"send", "reply", "response"}

\* What was handled and is not yet answered is what the server is serving.
Accounted ==
    /\ \A t \in 0 .. MaxTransaction :
          answered[t] + (IF pc \in InService /\ mRequest.tid = t THEN 1 ELSE 0) <= handled[t]
    /\ pc = "send" => todo > 0

\* The packets the host has still to see read.
Rest == out \o toSend

\* The packets the server will read before it answers.
Unread ==
    CASE pc = "receive" -> Body(todo)
      [] pc \in {"data", "first"} \/ (pc = "handle" /\ mRequest.op \in Upload) ->
            DataPhase(mRequest.op, tid, mRequest.body)
      [] OTHER -> << >>

Announced ==
    /\ pc \in Between
    /\ handled[tid] = 0
    /\ out # << >>
    /\ \E op \in Operation, body \in 0 .. MaxPieces :
          Rest = <<Command(op, tid, body)>> \o DataPhase(op, tid, body)
    /\ ~gotData

UnderWay ==
    /\ pc \in {"data", "handle"} \cup InService
    /\ mRequest.type = "command" /\ mRequest.op \in Operation /\ mRequest.tid = tid
    /\ handled[tid] = IF pc \in InService THEN 1 ELSE 0
    /\ Rest = Unread
    /\ pc = "data" => mRequest.op \in DataIn
    /\ pc \in {"first", "receive"} => mRequest.op \in Upload
    /\ pc = "receive" => todo > 0 /\ ~late
    /\ pc = "reply" => mRequest.op = "GetObjectInfo"
    /\ pc = "send" => mRequest.op = "GetObject"
    /\ pc \in {"data", "handle", "first", "receive", "reply"} => ~gotData
    /\ pc = "response" /\ mResponse = "OK" =>
          (mRequest.op \in {"GetObjectInfo", "GetObject"} <=> gotData)

Settled ==
    \A t \in 0 .. MaxTransaction : t # tid \/ ~busy =>
        handled[t] = answered[t] /\ answered[t] = IF t \in 1 .. tid THEN 1 ELSE 0

Clean ==
    /\ Settled
    /\ ~busy => pc \in Between /\ Rest = << >>
    /\ busy => configured /\ tid > 0 /\ answered[tid] = 0 /\ (Announced \/ UnderWay)

\* In step, the host's packets are those the server is about to read, and
\* the counts say which transaction is being served.
SessionInv == TypeOK /\ Accounted /\ (upset = "none" => Clean)

-----------------------------------------------------------------------------
(* Safety and liveness.                                                    *)

\* The server never answers what it did not handle.  Unless something put
\* them out of step, every transaction the host is done with was handled once
\* and answered once, and the current one is not yet answered.
AnsweredOnce ==
    /\ \A t \in 0 .. MaxTransaction : answered[t] <= handled[t]
    /\ upset = "none" =>
          /\ \A t \in 1 .. tid : answered[t] = IF t = tid /\ busy THEN 0 ELSE 1
          /\ \A t \in 1 .. tid : handled[t] = 1 \/ (t = tid /\ busy /\ handled[t] = 0)

\* In step, what the server writes belongs to the transaction the host waits
\* for, and with the response all the host sent has been read.
InStep ==
    upset = "none" /\ Writing =>
        /\ busy /\ mRequest.tid = tid
        /\ pc = "response" => out = << >> /\ toSend = << >>

\* A successful answer to a request for data comes after the data.
DataBeforeResponse ==
    upset = "none" /\ pc = "response" /\ mResponse = "OK" =>
        (mRequest.op \in {"GetObjectInfo", "GetObject"} <=> gotData)

\* The loop ends between requests: what it handled it has answered.
ExitsBetweenRequests ==
    upset = "none" /\ pc = "exited" => handled = answered

\* In step, every transaction comes to its end while the server runs.
Answers == busy ~> (~busy \/ upset # "none" \/ pc = "exited")

\* main.cpp:144 tells the user "Press B to exit": then the loop ends, with the
\* host there.
PressBExits ==
    stopThread = "stopped" ~> (pc = "exited" \/ ~configured \/ upset # "none")

\* stop() ends a loop that is running, with the host there.
StopHonoured ==
    (~mRunning /\ pc # "init") ~> (pc = "exited" \/ ~configured \/ upset # "none")
=============================================================================
