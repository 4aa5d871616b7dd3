--------------------------- MODULE ObjectHandles ---------------------------
(***************************************************************************)
(* What MtpTypes.h promises of object handles, with nothing said of what   *)
(* they name: while the server is up a handle is given out at most once,   *)
(* and one that is spent never names an object again.                      *)
(***************************************************************************)
CONSTANT Handle

VARIABLES up, live, spent

handles == <<up, live, spent>>

Init == up = FALSE /\ live = {} /\ spent = {}

\* The process starts with the objects it finds.
Up ==
    /\ ~up
    /\ up' = TRUE
    /\ live' \cap spent' = {}
    /\ live' \cup spent' \subseteq Handle

Down == up' = FALSE /\ live' = {} /\ spent' = {}

\* New handles appear, some of them for nothing.
Issue ==
    /\ up /\ up' = up
    /\ live \subseteq live'
    /\ spent \subseteq spent'
    /\ live' \cap spent' = {}
    /\ live' \cup spent' \subseteq Handle

\* Objects go, and their handles with them.
Retire ==
    /\ up /\ up' = up
    /\ live' \subseteq live
    /\ spent' = spent \cup (live \ live')

Next == Up \/ Down \/ Issue \/ Retire

Spec == Init /\ [][Next]_handles
=============================================================================
