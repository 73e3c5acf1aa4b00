--------------------------- MODULE MCReconciliation ---------------------------
(***************************************************************************)
(* Calls small enough to enumerate: up to three lines, weights that make 1 *)
(* (also as thirds), nearly 1, too much and too little, values within and  *)
(* beyond the limits of each other, every basis and kind of purpose.       *)
(***************************************************************************)
EXTENDS Reconciliation

CONSTANTS Values, Weights, Limits

Reasoned(m, v, w) == [method |-> m, value |-> v, weight |-> w,
                      reasoned |-> TRUE]

(* Sound lines: any of the methods, each at most once, with weights that   *)
(* make 1 or miss it by little.                                            *)
Column(m) == {<< >>} \union {<<Reasoned(m, v, w)>> : v \in Values, w \in Weights}
SoundLines ==
    {lines \in {s \o i \o k : s \in Column("sales"), i \in Column("income"),
                              k \in Column("cost")} :
        TotalWeight(lines) \in One - Tolerance - 1 .. One + Tolerance + 1}

(* And lists with one thing wrong.                                         *)
AllWeight == Reasoned("sales", 100, One)
FaultyLines ==
    {<<[AllWeight EXCEPT !.method = "other"]>>, <<[AllWeight EXCEPT !.reasoned = FALSE]>>,
     <<[AllWeight EXCEPT !.weight = One + 1]>>, <<[AllWeight EXCEPT !.weight = -1]>>,
     <<[AllWeight EXCEPT !.weight = 7], [AllWeight EXCEPT !.weight = 13]>>, << >>}

Terms(basis, income, specialised, purpose, limit, lines) ==
    [lines |-> lines, basis |-> basis, income |-> income,
     specialised |-> specialised, purpose |-> purpose, limit |-> limit]

AllCalls ==
    {Terms(b, i, s, p, l, lines) :
        b \in {"market", "liquidation", "insurable"}, i \in BOOLEAN,
        s \in BOOLEAN, p \in {"loan", None}, l \in Limits,
        lines \in SoundLines \union FaultyLines}
===============================================================================
