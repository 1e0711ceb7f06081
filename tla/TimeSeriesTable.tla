---------------------------- MODULE TimeSeriesTable ----------------------------
(***************************************************************************)
(* amendTimeSeries.ts: a table of samples in the order of their times, into *)
(* which another table is merged, and which is cut to a range of times.     *)
(* Indices count from 0, as in the code.                                    *)
(***************************************************************************)
EXTENDS Integers, Sequences

Least(a, b) == IF a < b THEN a ELSE b
Greatest(a, b) == IF a > b THEN a ELSE b

\* Array.prototype.slice(from, to): a negative index counts from the end.
Slice(table, from, to) ==
    LET at(i) == IF i < 0 THEN Greatest(Len(table) + i, 0) ELSE Least(i, Len(table))
    IN  SubSeq(table, at(from) + 1, at(to))

Time(table, i) == table[i + 1].time

Distance(a, b) == IF a < b THEN b - a ELSE a - b

\* The index of the closest time, the earlier one of two as close.
ClosestIdx(t, table) ==
    CHOOSE i \in 0 .. Len(table) - 1 : \A j \in 0 .. Len(table) - 1 :
        \/ Distance(t, Time(table, i)) < Distance(t, Time(table, j))
        \/ Distance(t, Time(table, i)) = Distance(t, Time(table, j)) /\ i <= j

\* Mutant: samples that are in both tables are kept twice.
MutAmendTable(prev, next) == prev \o next

AmendTable(prev, next) ==
    IF prev = <<>> \/ next = <<>> THEN prev \o next
    ELSE LET pStart == Head(prev).time   pEnd == prev[Len(prev)].time
             nStart == Head(next).time   nEnd == next[Len(next)].time
             atStart == ClosestIdx(nStart, prev)
             atEnd == ClosestIdx(nEnd, prev)
             appended == IF Time(prev, atStart) < nStart THEN atStart - 1 ELSE atStart
             replaced == IF Time(prev, atStart) < nStart THEN atStart + 1 ELSE atStart
             kept     == IF Time(prev, atEnd) > nEnd THEN atEnd ELSE atEnd + 1
             rest     == IF Time(prev, atEnd) < nEnd THEN atEnd ELSE atEnd + 1
         IN  IF nStart > pEnd THEN prev \o next
             ELSE IF nEnd < pStart THEN next \o prev
             ELSE IF nStart <= pStart /\ nEnd >= pEnd THEN next
             ELSE IF nStart > pStart /\ nEnd < pEnd
                  THEN Slice(prev, 0, replaced) \o next \o Slice(prev, kept, Len(prev))
             ELSE IF nStart >= pStart THEN Slice(prev, 0, appended) \o next
             ELSE next \o Slice(prev, rest, Len(prev))

TrimTable(table, from, to) ==
    IF table = <<>> THEN table
    ELSE LET atFrom == ClosestIdx(from, table)
             atTo   == ClosestIdx(to, table)
             first  == IF Head(table).time >= from THEN 0
                       ELSE IF Time(table, atFrom) < from THEN atFrom + 1 ELSE atFrom
             last   == IF table[Len(table)].time <= to THEN Len(table)
                       ELSE IF Time(table, atTo) > to THEN atTo - 1 ELSE atTo
         IN  Slice(table, first, last)
=============================================================================
