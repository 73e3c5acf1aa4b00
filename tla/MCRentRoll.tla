------------------------------ MODULE MCRentRoll ------------------------------
(***************************************************************************)
(* Up to three leases that lapsed, end on the day, a day before or after   *)
(* each boundary of the profile, or have no expiry, at rents of nothing,   *)
(* of half a paisa more than an even and than an odd one, and below zero.  *)
(***************************************************************************)
EXTENDS RentRoll

MCLeases == [rent : {-5, 0, 5, 7},
             days : {None, -400, 0, 365, 366, 1095, 1096, 1826, 1827}]
MCRolls == UNION {[1 .. k -> MCLeases] : k \in 0 .. 2}
             \union [1 .. 3 -> [rent : {5, 7}, days : {-400, 365, 1096, 1827}]]
===============================================================================
