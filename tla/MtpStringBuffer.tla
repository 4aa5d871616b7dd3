-------------------------- MODULE MtpStringBuffer --------------------------
(***************************************************************************)
(* Names between the card, where they are UTF-8, and the wire, where they  *)
(* are UTF-16.  Characters are sorted by the bytes they take in UTF-8; a   *)
(* byte is a character and a position.  Surrogates take three bytes each.  *)
(***************************************************************************)
EXTENDS MtpDataPacket

CONSTANTS One, Two, Three, Four, Junk   \* characters; what stale bytes decode to

NUL == 0

ASSUME CharAssumption ==
    /\ One \cup Two \cup Three \cup Four \subseteq Nat \ {NUL, Junk}
    /\ One \cap (Two \cup Three \cup Four) = {} /\ Two \cap (Three \cup Four) = {} /\ Three \cap Four = {}
    /\ Junk \in Nat \ {NUL}

Unit == One \cup Two \cup Three \cup {NUL}

Size(c) == IF c \in Two THEN 2 ELSE IF c \in Three THEN 3 ELSE IF c \in Four THEN 4 ELSE 1

UTF8(name) == FlattenSeq([i \in DOMAIN name |-> [k \in 1 .. Size(name[i]) |-> <<name[i], k>>]])

\* set(const char*): the four bytes of a character count for four.
set(name) ==
    [mBuffer    |-> UTF8(name),
     mCharCount |-> Len(name) + 3 * Cardinality({i \in DOMAIN name : name[i] \in Four})]

\* Behind the terminator the buffer holds what was there before.
ByteAt(string, p) ==
    IF p <= Len(string.mBuffer) THEN string.mBuffer[p]
    ELSE IF p = Len(string.mBuffer) + 1 THEN <<NUL, 1>>
    ELSE <<Junk, 1>>

\* A byte that begins no character of one or two bytes begins one of three.
BytesAt(string, p) ==
    LET lead == ByteAt(string, p)
        n    == IF lead[1] \in One \cup {NUL} THEN 1 ELSE IF lead[1] \in Two /\ lead[2] = 1 THEN 2 ELSE 3
    IN  [k \in 1 .. n |-> ByteAt(string, p + k - 1)]

Decode(bytes) == IF \E c \in Unit : bytes = UTF8(<<c>>) THEN bytes[1][1] ELSE Junk

\* Where each of the counted characters begins.
Starts(string) ==
    LET start[n \in 1 .. string.mCharCount] ==
            IF n = 1 THEN 1 ELSE LET p == start[n - 1] IN p + Len(BytesAt(string, p))
    IN  start

writeToPacket(string) ==
    IF string.mCharCount = 0 THEN putUInt8(0)
    ELSE putUInt8(string.mCharCount + 1)
         \o [n \in 1 .. string.mCharCount |-> putUInt16(Decode(BytesAt(string, Starts(string)[n])))[1]]
         \o putUInt16(NUL)

putString(name) == writeToPacket(set(name))

\* Mutant: the last character is taken for the terminator.
readFromPacket_DropsLast(units) == SubSeq(units, 1, Len(units) - 2)

\* A string as it comes from the host, used as a const char*.
readFromPacket(units) ==
    LET ends == {i \in DOMAIN units : units[i] = NUL}
    IN  IF ends = {} THEN units
        ELSE SubSeq(units, 1, (CHOOSE i \in ends : \A j \in ends : i <= j) - 1)

=============================================================================
