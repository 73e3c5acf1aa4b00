-------------------------- MODULE MCSalesComparison --------------------------
(***************************************************************************)
(* Grids of up to six comparables, one more than the median is used for    *)
(* and enough for the trimmed mean, over rates from next to nothing to     *)
(* far too high, and one entry of every kind that is refused.              *)
(***************************************************************************)
EXTENDS SalesComparison

Adjust(factor, pct) == [factor |-> factor, pct |-> pct, reasoned |-> TRUE]
Sale(price, area, adjustments) ==
    [price |-> price, area |-> area, adjustments |-> adjustments,
     months |-> None, distance |-> None]

(* Rates of 100, of 121 by two lines given out of order, of 85.5, of 133.5 *)
(* rounded up, stale and distant, and of next to nothing, as old and as    *)
(* far as is allowed.                                                      *)
Usable ==
    {Sale(300, 3, << >>),
     Sale(100, 1, <<Adjust("floor", 10), Adjust("location", 10)>>),
     Sale(171, 2, << >>),
     [Sale(400, 3, << >>) EXCEPT !.months = 19, !.distance = 2001],
     [Sale(1, 1, <<Adjust("time", -50)>>) EXCEPT !.months = 18, !.distance = 2000]}

Unusable ==
    {Sale(100, 1, <<Adjust("other", 5)>>),
     Sale(100, 1, <<[Adjust("view", 5) EXCEPT !.reasoned = FALSE]>>),
     Sale(100, 1, <<Adjust("size", 60)>>),
     Sale(100, 1, <<Adjust("size", -120)>>),
     Sale(100, 1, <<Adjust("age", 5), Adjust("age", 5)>>),
     Sale(100, 0, << >>)}

MCEntries == Usable \union Unusable
MCAreas == {0, 3}
===============================================================================
