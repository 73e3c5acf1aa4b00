------------------------------ MODULE MCTenancy -------------------------------
(***************************************************************************)
(* Two firms with a client each from before, and three requests more; next *)
(* to it the auth endpoints of MCAccounts.  They share no state but the    *)
(* scope, which CurrentScope of Accounts takes from the row and which      *)
(* Tenancy takes as given: a behaviour is of the one or of the other.      *)
(***************************************************************************)
EXTENDS MCAccounts, Tenancy

CONSTANTS firmA, firmB, valuer, stranger, s1, s2

InstanceStrip == ("axis" :> 1) @@ (" axis " :> 1) @@ ("canara" :> 2)
InstanceClients == (1 :> [firm |-> firmA, name |-> 1]) @@ (2 :> [firm |-> firmB, name |-> 2])
InstanceScopes == {[firm |-> firmA, role |-> "analyst"], [firm |-> firmA, role |-> "client"],
                   [firm |-> firmB, role |-> "partner"]}
InstanceTerms == {Absent, {1}}
InstanceDetails == {[dates |-> "iso", valuer |-> v] : v \in {valuer, stranger, 0}}
    \union {[dates |-> "other", valuer |-> Absent]}

VARIABLE entry      \* the endpoints used

EntryInit ==
    /\ entry \in {"auth", "desk"} /\ Init /\ TenancyInit
    /\ entry = "desk" => mfaRequired   \* idle, whatever it is

EntryNext ==
    /\ \/ entry = "auth" /\ Next /\ UNCHANGED tenancyVars
       \/ entry = "desk" /\ TenancyNext /\ UNCHANGED vars
    /\ UNCHANGED entry

EntrySpec == EntryInit /\ [][EntryNext]_<<entry, vars, tenancyVars>>

EntrySymmetry == RequestSymmetry \union Permutations(Slots)
===============================================================================
