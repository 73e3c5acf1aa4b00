------------------------------ MODULE MCAccounts ------------------------------
(***************************************************************************)
(* Three requests over one old account, whose owner also has a Google       *)
(* account, and an address nobody has signed up under yet.                 *)
(***************************************************************************)
EXTENDS Accounts, TLC

CONSTANTS r1, r2, r3, old, google, held, free

AddressOfOld == old :> held
AddressOfGoogle == google :> held

RequestSymmetry == Permutations(Requests)
===============================================================================
