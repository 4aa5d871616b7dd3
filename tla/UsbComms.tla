------------------------------ MODULE UsbComms ------------------------------
(***************************************************************************)
(* usb.c: usbInitialize sets up the interfaces step by step and usbExit    *)
(* frees them; usbTransfer moves a buffer in chunks, because what is       *)
(* posted to the device has to be page-aligned.  Its callers are all in    *)
(* one thread.  Sizes are in words.  The usb:ds service is external: it    *)
(* refuses buffers of a device that is not configured, and a packet that   *)
(* is too large is an error or cut.                                        *)
(***************************************************************************)
EXTENDS Integers, Sequences

CONSTANTS
    Page,               \* the page size, 0x1000 bytes
    PacketSize,         \* of a full packet of the bulk endpoints
    bNumEndpoints,      \* interface -> the number of its endpoints
    BufferSize          \* name of a buffer that is read into -> its size

ASSUME UsbAssumption ==
    /\ Page \in Nat \ {0} /\ PacketSize \in Nat \ {0}
    /\ bNumEndpoints \in Seq(Nat \ {0})
    /\ \A b \in DOMAIN BufferSize : BufferSize[b] \in Nat \ {0}

VARIABLES
    num_interfaces,
    session,            \* the usb:ds service: "closed", "open" or "enabled"
    initialized,        \* the interfaces that are initialized
    buffer, endpoint,   \* the endpoints with a page for chunks; those registered
    setup, index,       \* where usbInitialize is, and at which interface
    configured,         \* a host has configured the device
    pipe,               \* endpoint -> packets the host has put on it
    memory,             \* the buffers that are read into
    step, call,         \* where usbTransfer is, and with which arguments
    retried,            \* it is in its second try
    total, posted, urb, \* moved in this try; size of the chunk posted; moved of that
    result,
    listening,          \* the endpoints whose packets the host takes
    moved, whole        \* history: packets this try took or gave; no mishap in it

interfaces == <<num_interfaces, session, initialized, buffer, endpoint>>
wires      == <<configured, pipe, listening>>
chunk      == <<total, posted, urb>>
history    == <<moved, whole>>
transfer   == <<step, call, retried, chunk, result, history>>

EndpointsOf(i) == {<<i, e>> : e \in 1 .. bNumEndpoints[i]}
Endpoint == UNION {EndpointsOf(i) : i \in DOMAIN bNumEndpoints}

Word == Int \X Int

Transferring == step \in {"wait", "post", "posted", "failed"}

Lesser(m, n) == IF m < n THEN m ELSE n

-----------------------------------------------------------------------------
(* usbInitialize.  Every step may fail.                                    *)

Goes(next) == setup' = next

\* The service, the descriptors and the binary object store.
OpenSession ==
    /\ setup = "begin"
    /\ \/ session' = "open" /\ Goes("interface")
       \/ session' \in {"closed", "open"} /\ Goes("failed")
    /\ UNCHANGED <<num_interfaces, initialized, buffer, endpoint, index>>

\* Mutant: the mark is set once the buffers are there.
AllocateBuffers_MarksLate ==
    /\ setup = "interface"
    /\ \E n \in 0 .. bNumEndpoints[index] :
          /\ buffer' = buffer \cup {<<index, e>> : e \in 1 .. n}
          /\ initialized' = IF n = bNumEndpoints[index] THEN initialized \cup {index} ELSE initialized
          /\ Goes(IF n = bNumEndpoints[index] THEN "register" ELSE "failed")
    /\ UNCHANGED <<num_interfaces, session, endpoint, index>>

\* initialized is set first, so that usbExit frees what there is.
AllocateBuffers ==
    /\ setup = "interface"
    /\ initialized' = initialized \cup {index}
    /\ \E n \in 0 .. bNumEndpoints[index] :
          /\ buffer' = buffer \cup {<<index, e>> : e \in 1 .. n}
          /\ Goes(IF n = bNumEndpoints[index] THEN "register" ELSE "failed")
    /\ UNCHANGED <<num_interfaces, session, endpoint, index>>

\* The interface and its configuration for three speeds.
RegisterInterface ==
    /\ setup = "register"
    /\ Goes("endpoints") \/ Goes("failed")
    /\ UNCHANGED <<interfaces, index>>

RegisterEndpoints ==
    /\ setup = "endpoints"
    /\ \E n \in 0 .. bNumEndpoints[index] :
          /\ endpoint' = endpoint \cup {<<index, e>> : e \in 1 .. n}
          /\ Goes(IF n = bNumEndpoints[index] THEN "enable" ELSE "failed")
    /\ UNCHANGED <<num_interfaces, session, initialized, buffer, index>>

EnableInterface ==
    /\ setup = "enable"
    /\ \/ /\ index < num_interfaces
          /\ index' = index + 1
          /\ Goes("interface")
       \/ /\ index = num_interfaces
          /\ UNCHANGED index
          /\ Goes("usbDsEnable")
       \/ Goes("failed") /\ UNCHANGED index
    /\ UNCHANGED interfaces

Enable ==
    /\ setup = "usbDsEnable"
    /\ \/ session' = "enabled" /\ Goes("done")
       \/ Goes("failed") /\ UNCHANGED session
    /\ UNCHANGED <<num_interfaces, initialized, buffer, endpoint, index>>

\* Interfaces that are not initialized are passed over.
usbExit ==
    /\ session' = "closed"
    /\ initialized' = {}
    /\ buffer' = {b \in buffer : b[1] \notin initialized}
    /\ endpoint' = {e \in endpoint : e[1] \notin initialized}
    /\ UNCHANGED num_interfaces

InitializeFails ==
    /\ setup = "failed"
    /\ usbExit
    /\ Goes("refused")
    /\ UNCHANGED index

usbInitialize ==
    /\ \/ OpenSession \/ AllocateBuffers \/ RegisterInterface \/ RegisterEndpoints
       \/ EnableInterface \/ Enable \/ InitializeFails
    /\ UNCHANGED <<wires, memory, transfer>>

-----------------------------------------------------------------------------
(* usbTransfer.                                                            *)

Read(ep, at, into, timed) ==
    [ep |-> ep, dir |-> "read", at |-> at, into |-> into, data |-> << >>,
     size |-> BufferSize[into], timed |-> timed]

Write(ep, at, data) ==
    [ep |-> ep, dir |-> "write", at |-> at, into |-> "none", data |-> data,
     size |-> Len(data), timed |-> FALSE]

NoCall == Write(<<1, 1>>, 0, << >>)

\* The caller has seen what the last call returned.
Call(c) ==
    /\ step \in {"idle", "returned"}
    /\ call' = c
    /\ retried' = FALSE
    /\ total' = 0 /\ posted' = 0 /\ urb' = << >>
    /\ moved' = << >> /\ whole' = TRUE
    /\ IF c.ep[1] \in initialized THEN step' = "wait" /\ result' = -1
       ELSE step' = "returned" /\ result' = 0

Return(n) == step' = "returned" /\ result' = n

WaitReady ==
    /\ step = "wait"
    /\ configured
    /\ step' = "post"
    /\ total' = 0
    /\ moved' = << >> /\ whole' = TRUE
    /\ UNCHANGED <<wires, memory, call, retried, posted, urb, result>>

offset == (call.at + total) % Page

\* Mutant: the page of the endpoint is taken to hold the rest.
chunksize_NoLimit == call.size - total

\* What is not page-aligned goes through the page of the endpoint, up to the
\* end of a page; from there on the rest goes at once.
chunksize == IF offset = 0 THEN call.size - total ELSE Lesser(call.size - total, Page - offset)

PostBuffer ==
    /\ step = "post"
    /\ IF configured THEN step' = "posted" /\ posted' = chunksize
       ELSE step' = "failed" /\ UNCHANGED posted
    /\ urb' = << >>
    /\ UNCHANGED <<wires, memory, call, retried, total, result, history>>

\* words are in the caller's buffer: at once if it was posted itself, with
\* the end of the chunk if they had to be copied.
Store(words, over) ==
    LET kept == SubSeq(words, 1, Lesser(posted, Len(words)))
    IN  memory' = IF offset = 0 \/ over
                  THEN [memory EXCEPT ![call.into] =
                           [i \in DOMAIN @ |-> IF i \in total + 1 .. total + Len(kept)
                                               THEN kept[i - total] ELSE @[i]]]
                  ELSE memory

\* Mutant: a chunk that came short is not the last.
Completed_GoesOn(n) ==
    /\ total' = total + n
    /\ urb' = << >>
    /\ IF total' = call.size THEN Return(total') ELSE step' = "post" /\ UNCHANGED result

\* The chunk is over after n words.  One that came short is the last.
Completed(n) ==
    /\ total' = total + n
    /\ urb' = << >>
    /\ IF n < posted \/ total' = call.size THEN Return(total') ELSE step' = "post" /\ UNCHANGED result

More(words) == urb' = words /\ UNCHANGED <<step, total, result>>

packet == Head(pipe[call.ep])

Arrives ==
    /\ pipe[call.ep] # << >>
    /\ pipe' = [pipe EXCEPT ![call.ep] = Tail(@)]
    /\ moved' = Append(moved, packet)

ReceivePacket ==
    /\ step = "posted" /\ call.dir = "read"
    /\ configured
    /\ Arrives
    /\ LET words == urb \o packet
       IN  IF Len(words) > posted
           THEN /\ whole' = FALSE
                /\ Store(words, TRUE)
                /\ Completed(posted) \/ (step' = "failed" /\ UNCHANGED <<total, urb, result>>)
           ELSE /\ UNCHANGED whole
                /\ IF Len(words) = posted \/ Len(packet) < PacketSize
                   THEN Completed(Len(words)) /\ Store(words, TRUE)
                   ELSE More(words) /\ Store(words, FALSE)
    /\ UNCHANGED <<configured, listening, call, retried, posted>>

\* The host takes a packet; at the end of a chunk a short one.
SendPacket ==
    /\ step = "posted" /\ call.dir = "write"
    /\ configured
    /\ call.ep \in listening
    /\ LET sent  == Len(urb)
           words == SubSeq(call.data, total + 1, total + Lesser(posted, sent + PacketSize))
           part  == SubSeq(words, sent + 1, Len(words))
       IN  /\ moved' = Append(moved, part)
           /\ IF Len(words) = posted THEN Completed(posted) ELSE More(words)
    /\ UNCHANGED <<configured, pipe, listening, memory, call, retried, posted, whole>>

\* After a second without a complete chunk.  A packet that arrives before the
\* transfer is cancelled is lost.
TimedOut ==
    /\ step = "posted" /\ call.timed
    /\ configured
    /\ step' = "failed"
    /\ \/ UNCHANGED <<pipe, moved, memory>>
       \/ Arrives /\ Store(urb \o packet, FALSE)
    /\ UNCHANGED <<configured, listening, call, retried, chunk, result, whole>>

\* Mutant: a failed transfer is always tried again.
Failed_AlwaysRetries ==
    /\ step = "failed"
    /\ IF ~retried
       THEN retried' = TRUE /\ step' = "wait" /\ UNCHANGED result
       ELSE Return(-1) /\ UNCHANGED retried
    /\ UNCHANGED <<wires, memory, call, chunk, history>>

\* If the device is seen not to be configured any more the transfer is tried
\* once again, from the start of the buffer.
Failed ==
    /\ step = "failed"
    /\ \/ ~configured /\ ~retried /\ retried' = TRUE /\ step' = "wait" /\ UNCHANGED result
       \/ Return(-1) /\ UNCHANGED retried
    /\ UNCHANGED <<wires, memory, call, chunk, history>>

usbTransfer ==
    /\ \/ WaitReady \/ PostBuffer \/ ReceivePacket \/ SendPacket \/ TimedOut \/ Failed
    /\ UNCHANGED <<interfaces, setup, index>>

-----------------------------------------------------------------------------
(* The host.                                                               *)

HostSends(ep, p) ==
    /\ configured
    /\ pipe' = [pipe EXCEPT ![ep] = Append(@, p)]
    /\ UNCHANGED <<configured, listening>>

\* What is posted fails; what was sent is gone with the host.
Unplug ==
    /\ configured
    /\ configured' = FALSE
    /\ pipe' = [e \in Endpoint |-> << >>]
    /\ step' = IF step = "posted" THEN "failed" ELSE step
    /\ IF Transferring THEN moved' = << >> /\ whole' = FALSE ELSE UNCHANGED history
    /\ UNCHANGED <<interfaces, setup, index, listening, memory, call, retried, chunk, result>>

Plug ==
    /\ ~configured
    /\ session = "enabled"
    /\ configured' = TRUE
    /\ UNCHANGED <<interfaces, setup, index, pipe, listening, memory, transfer>>

-----------------------------------------------------------------------------
UsbInit ==
    /\ session = "closed" /\ initialized = {} /\ buffer = {} /\ endpoint = {}
    /\ setup = "begin" /\ index = 1
    /\ configured = FALSE
    /\ pipe = [e \in Endpoint |-> << >>]
    /\ step = "idle" /\ call = NoCall
    /\ retried = FALSE /\ total = 0 /\ posted = 0 /\ urb = << >> /\ result = 0
    /\ moved = << >> /\ whole = FALSE
=============================================================================
