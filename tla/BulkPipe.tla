------------------------------ MODULE BulkPipe ------------------------------
(***************************************************************************)
(* What a call of usbTransfer promises its caller.  A read takes one       *)
(* transfer of the host, or what of it fills the buffer; a write is one    *)
(* transfer to the host; each packet is taken once and in order, and how   *)
(* the buffer was cut into chunks does not show.  It does show in one      *)
(* place: at the seam, where the first page of the buffer ends.            *)
(***************************************************************************)
EXTENDS Integers, SequencesExt

CONSTANTS Page, PacketSize

VARIABLES
    usable,         \* interfaces that are initialized
    pipe,           \* endpoint -> packets the host has put on it
    busy, call,
    result,         \* of the last call: what it returned,
    got,            \* what it read, or the packets the host received
    whole           \* no reset and no packet too large in this try

vars == <<usable, pipe, busy, call, result, got, whole>>

\* Words up to the end of the first page, or of the buffer.
Seam ==
    LET start == call.at % Page
    IN  IF start = 0 \/ call.size < Page - start THEN call.size ELSE Page - start

\* The packets end a read: they fill the buffer, or the last one is short and
\* is not the one that reaches the seam.
Ends(packets) ==
    /\ packets # << >>
    /\ LET n    == Len(FlattenSeq(packets))
           last == packets[Len(packets)]
       IN  n = call.size \/ (Len(last) < PacketSize /\ (n # Seam \/ last = << >>))

Transfer(packets) ==
    /\ Ends(packets)
    /\ \A n \in 1 .. Len(packets) - 1 : ~Ends(SubSeq(packets, 1, n))

\* data in packets, the last one short unless it is full.
Cut(data) ==
    [i \in 1 .. (Len(data) + PacketSize - 1) \div PacketSize |->
        SubSeq(data, (i - 1) * PacketSize + 1, IF i * PacketSize < Len(data) THEN i * PacketSize ELSE Len(data))]

\* There is another short packet at the seam.
Packets(data) == Cut(SubSeq(data, 1, Seam)) \o Cut(SubSeq(data, Seam + 1, Len(data)))

Drop(s, n) == SubSeq(s, n + 1, Len(s))

-----------------------------------------------------------------------------
Begin ==
    /\ ~busy
    /\ busy' = (call'.ep[1] \in usable)
    /\ result' = IF busy' THEN -1 ELSE 0
    /\ got' = << >> /\ whole' = TRUE
    /\ UNCHANGED <<usable, pipe>>

End == busy /\ ~busy' /\ UNCHANGED <<usable, call>>

ReadDone ==
    /\ End /\ call.dir = "read" /\ whole /\ whole'
    /\ \E n \in 0 .. Len(pipe[call.ep]) :
          /\ pipe' = [pipe EXCEPT ![call.ep] = Drop(@, n)]
          /\ LET taken == SubSeq(pipe[call.ep], 1, n)
             IN  \/ Transfer(taken) /\ got' = FlattenSeq(taken) /\ result' = Len(got')
                 \/ result' = -1 /\ got' = << >>

WriteDone ==
    /\ End /\ call.dir = "write" /\ whole /\ whole'
    /\ LET packets == Packets(call.data)
       IN  \E n \in 0 .. Len(packets) :
              /\ got' = SubSeq(packets, 1, n)
              /\ result' = IF n = Len(packets) THEN call.size ELSE -1
    /\ UNCHANGED pipe

\* After a mishap the caller learns little.
Broken ==
    /\ End /\ ~whole'
    /\ result' \in -1 .. call.size
    /\ \E n \in 0 .. Len(pipe[call.ep]) : pipe' = [pipe EXCEPT ![call.ep] = Drop(@, n)]

Mishap == busy /\ whole /\ whole' = FALSE /\ UNCHANGED <<usable, pipe, busy, call, result, got>>

Again == busy /\ ~whole /\ whole' = TRUE /\ UNCHANGED <<usable, pipe, busy, call, result, got>>

-----------------------------------------------------------------------------
HostSends ==
    /\ \E ep \in DOMAIN pipe :
          /\ Len(pipe'[ep]) = Len(pipe[ep]) + 1
          /\ pipe' = [pipe EXCEPT ![ep] = Append(@, pipe'[ep][Len(pipe'[ep])])]
    /\ UNCHANGED <<usable, busy, call, result, got, whole>>

Reset ==
    /\ pipe' = [ep \in DOMAIN pipe |-> << >>]
    /\ whole' = (whole /\ ~busy)
    /\ UNCHANGED <<usable, busy, call, result, got>>

SetUp == usable' # usable /\ ~busy /\ UNCHANGED <<pipe, busy, call, result, got, whole>>

Next ==
    \/ Begin \/ ReadDone \/ WriteDone \/ Broken \/ Mishap \/ Again
    \/ HostSends \/ Reset \/ SetUp

Init == ~busy /\ \A ep \in DOMAIN pipe : pipe[ep] = << >>

Spec == Init /\ [][Next]_vars
=============================================================================
