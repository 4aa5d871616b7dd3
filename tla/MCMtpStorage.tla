---------------------------- MODULE MCMtpStorage ----------------------------
(***************************************************************************)
(* A small instance of MtpStorage: a card of a few units with two units of *)
(* reserve, and sizes of up to two below the one that means "too large".   *)
(***************************************************************************)
EXTENDS MtpStorage

\* No action and no invariant but TypeOK reads mResponse.  PromiseKept reads
\* it in the successor.
WithoutResponse ==
    <<size, others, f_bavail, edits, mMaxCapacity, reserved, lost, promise>>
=============================================================================
