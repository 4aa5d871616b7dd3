--------------------------- MODULE MCFileTransfer ---------------------------
(***************************************************************************)
(* Headers of one byte, and blocks and first packets of two, so that a     *)
(* file of three takes more than one block each way.  There are two        *)
(* different files, so that old bytes are told from new ones.              *)
(***************************************************************************)
EXTENDS FileTransfer

Prefixes == {SubSeq(bytes, 1, n) : bytes \in {<<1, 2, 3>>, <<4, 5, 6>>}, n \in 0 .. MaxSize}
=============================================================================
