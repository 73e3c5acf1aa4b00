----------------------------- MODULE MCCompliance -----------------------------
(***************************************************************************)
(* Deeds in a state with a table and one without, at prices on either side *)
(* of the circle rate's valuation and within half a paisa of it; projects  *)
(* that begin, end and are looked at on the days around the ends of the    *)
(* quarters and the due dates of three years.                              *)
(***************************************************************************)
EXTENDS Compliance

Deeds ==
    [by : {"deed"}, state : {"delhi", "goa"}, gender : {"male", "female", "company"},
     consideration : {0, 1, 124, 2437, 2438, 2439, 2440, 2441, 9001},
     circleRate : {0, 201, 3999}, area : {0, 60, 121}]
Dates == {20231231, 20240101, 20240331, 20240401, 20240415, 20240630, 20240814,
          20241001, 20241231, 20250115, 20250116, 20250701}
Projects == [by : {"project"}, registered : Dates, ends : Dates, today : Dates]
MCFilings == Deeds \union Projects
===============================================================================
