----------------------------- MODULE MCReviewDesk -----------------------------
(***************************************************************************)
(* One deliverable each of two firms; a valuer registered for land, a      *)
(* partner without a registration and an analyst.                          *)
(***************************************************************************)
EXTENDS ReviewDesk

MCFirmOf == [report |-> "a", memo |-> "b"]
MCDeliverables == DOMAIN MCFirmOf
MCScopes ==
    {[firm |-> "a", role |-> "valuer", ibbiRegNo |-> TRUE, assetClass |-> "land"],
     [firm |-> "a", role |-> "partner", ibbiRegNo |-> FALSE, assetClass |-> None],
     [firm |-> "b", role |-> "analyst", ibbiRegNo |-> FALSE, assetClass |-> None]}
===============================================================================
