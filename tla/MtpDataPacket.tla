--------------------------- MODULE MtpDataPacket ---------------------------
(***************************************************************************)
(* A dataset: the integers that the handlers put into mData one after the  *)
(* other, each with the bytes it takes, and how the other side takes them  *)
(* out again.  Values are cut to their width; byte order is left out.      *)
(***************************************************************************)
EXTENDS Integers, Sequences, SequencesExt

CONSTANTS
    MaxCount,       \* 255, the largest uint8_t
    Word            \* 2^32

ASSUME WidthAssumption == MaxCount \in Nat \ {0} /\ Word \in Nat /\ Word > MaxCount

putUInt8(n)   == <<[width |-> 1, value |-> n % (MaxCount + 1)]>>
putUInt16(n)  == <<[width |-> 2, value |-> n]>>
putUInt32(n)  == <<[width |-> 4, value |-> n % Word]>>
putUInt64(n)  == <<[width |-> 8, value |-> n]>>
putUInt128(n) == putUInt64(n) \o putUInt64(0)

\* Data types of MTP, and the widths of those of a fixed size.
MTP_TYPE_UINT8   == 2
MTP_TYPE_UINT16  == 4
MTP_TYPE_UINT32  == 6
MTP_TYPE_UINT128 == 10
MTP_TYPE_STR     == 65535

Widths(type) ==
    CASE type = MTP_TYPE_UINT8   -> <<1>>
      [] type = MTP_TYPE_UINT16  -> <<2>>
      [] type = MTP_TYPE_UINT32  -> <<4>>
      [] type = MTP_TYPE_UINT128 -> <<8, 8>>
      [] OTHER                   -> << >>

-----------------------------------------------------------------------------
(* The reader: where the next value begins, and the value; none where the  *)
(* data is not what it expects.                                            *)

Unreadable == [next |-> 0, value |-> << >>]

\* Values of the given widths, from position p of data on.
TakeWidths(data, p, widths) ==
    IF /\ p > 0 /\ p + Len(widths) - 1 <= Len(data)
       /\ \A i \in DOMAIN widths : data[p + i - 1].width = widths[i]
    THEN [next |-> p + Len(widths), value |-> [i \in DOMAIN widths |-> data[p + i - 1].value]]
    ELSE Unreadable

\* A string: the number of its units, and the units, of which the last is 0.
TakeString(data, p) ==
    LET count == TakeWidths(data, p, <<1>>)
        n     == count.value[1]
        units == TakeWidths(data, p + 1, [i \in 1 .. n |-> 2])
    IN  IF count = Unreadable THEN Unreadable
        ELSE IF n = 0 THEN [count EXCEPT !.value = << >>]
        ELSE IF units = Unreadable \/ Last(units.value) # 0 THEN Unreadable
        ELSE [units EXCEPT !.value = Front(@)]

Take(data, p, type) ==
    IF type = MTP_TYPE_STR THEN TakeString(data, p) ELSE TakeWidths(data, p, Widths(type))

\* What the reader makes of a dataset of the given types; data that is left
\* over, or that is missing, spoils it.
Reading(data, types) ==
    LET after[i \in 0 .. Len(types)] ==
            IF i = 0 THEN [next |-> 1, value |-> << >>]
            ELSE LET before == after[i - 1]
                     one    == Take(data, before.next, types[i])
                 IN  [next |-> one.next, value |-> Append(before.value, one.value)]
    IN  IF after[Len(types)].next = Len(data) + 1 THEN after[Len(types)].value ELSE << >>
=============================================================================
