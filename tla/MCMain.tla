------------------------------- MODULE MCMain -------------------------------
(***************************************************************************)
(* Pages of six words and packets of three; a buffer for requests that is  *)
(* one packet long, others for data that takes two.                        *)
(***************************************************************************)
EXTENDS Main

MCNumEndpoints == <<3, 2>>
MCBufferSize == [start |-> 2, mRequest |-> 3, mData |-> 5, initialData |-> 3, buffer |-> 5]

\* With a console buffers begin at a page or one word before its end; the
\* third place is left to the program without one.
MCInit == Init /\ (nxlink => at \in {0, Page - 1})
MCSpec == MCInit /\ [][Next]_vars /\ WF_vars(Server)
=============================================================================
