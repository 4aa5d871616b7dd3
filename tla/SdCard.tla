------------------------------- MODULE SdCard -------------------------------
(***************************************************************************)
(* The file system behind "sdmc:/".  It is not part of the repository:     *)
(* this module says of it what MtpServer.cpp and SwitchMtpDatabase.h rely  *)
(* on when they call stat, is_directory, directory_iterator, mkdir, open,  *)
(* rename, unlink and rmdir.  A path is the sequence of its components     *)
(* below the root; contents, sizes and dates are left out.                 *)
(***************************************************************************)
EXTENDS SequencesExt

CONSTANTS
    Name,       \* file names
    PATH_MAX,   \* bound: components of the longest path a host creates
    Capacity    \* bound: entries the card has room for, its root among them

ASSUME CardAssumption == PATH_MAX \in Nat /\ Capacity \in Nat

VARIABLE card   \* existing path -> "dir" or "file"

Path == Seq(Name)
Root == << >>

Exists(p)      == p \in DOMAIN card
IsDirectory(p) == Exists(p) /\ card[p] = "dir"
IsFile(p)      == Exists(p) /\ card[p] = "file"

\* The entries a directory_iterator on p visits, in an unspecified order.
Children(p) == {q \in DOMAIN card : q # Root /\ Front(q) = p}

\* The name p is free in a directory that is there.
IsFree(p) == p # Root /\ Len(p) <= PATH_MAX /\ ~Exists(p) /\ IsDirectory(Front(p))

CanCreate(p) == IsFree(p) /\ Cardinality(DOMAIN card) < Capacity

With(p, kind) == [q \in DOMAIN card \cup {p} |-> IF q = p THEN kind ELSE card[q]]

Without(S) == Restrict(card, DOMAIN card \ S)

\* rename(2) keeps everything below p; p and q have the same parent here.
CanRename(p, q) == Exists(p) /\ (p = q \/ IsFree(q))

Rebase(r, p, q) == IF IsPrefix(p, r) THEN q \o SubSeq(r, Len(p) + 1, Len(r)) ELSE r

Renamed(p, q) ==
    [r \in {Rebase(s, p, q) : s \in DOMAIN card} |->
        card[CHOOSE s \in DOMAIN card : Rebase(s, p, q) = r]]

IsCard == card \in [DOMAIN card -> {"dir", "file"}] /\ DOMAIN card \subseteq Path

\* A tree: above every entry there are directories.
IsTree ==
    /\ IsCard
    /\ IsDirectory(Root)
    /\ \A p \in DOMAIN card : \A k \in 0 .. Len(p) - 1 : IsDirectory(SubSeq(p, 1, k))
=============================================================================
