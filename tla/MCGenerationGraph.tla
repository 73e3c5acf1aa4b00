-------------------------- MODULE MCGenerationGraph --------------------------
(***************************************************************************)
(* Small instances of GenerationGraph: the calls, the types and the        *)
(* clauses, few enough to explore and one of each kind the nodes tell      *)
(* apart.                                                                  *)
(***************************************************************************)
EXTENDS GenerationGraph

(* A property with everything a valuation needs, one without its           *)
(* encumbrance certificate, and one whose title chain has lost its middle. *)
Complete == [documents |-> {"encumbrance_cert", "title_deed"},
             chain |-> <<1, 2>>, approvals |-> {"cc"}]
NoCertificate == [Complete EXCEPT !.documents = {"title_deed"}]
BrokenChain == [Complete EXCEPT !.chain = <<1, 3>>]

Call(type, scoped, property, sheet) ==
    [requested |-> type, scoped |-> scoped, property |-> property,
     sheet |-> sheet]

(* Calls with a scope, as execute's signature allows, and calls without    *)
(* one, as the worker makes them.                                          *)
SafetyJobs ==
    {Call(type, TRUE, property, "readable") :
        type \in {"", "sale_deed"},
        property \in {Complete, NoCertificate, BrokenChain, None}}
    \union {Call(type, FALSE, Complete, sheet) :
        type \in {"rera_registration", "rent_roll_report"},
        sheet \in {"absent", "readable", "unreadable"}}
NoTypes == {}
SafetyTypes == {"valuation_report", "portfolio_report", "letter"}

ScopedJobs == {Call("", TRUE, Complete, "readable")}
ValuationJobs == {Call("valuation_report", FALSE, Complete, "absent")}

Plain == [type |-> "standard_clause", heading |-> Blank, content |-> Blank]
Occupancy == [Blank EXCEPT !.asserts = {"approval_oc"}]
Chain == [asserts |-> {"title_chain"}, figures |-> {"stated"}]
Result == [Blank EXCEPT !.figures = {"computed"}]
Asserting == [Plain EXCEPT !.content = Occupancy]
Backed == [Plain EXCEPT !.content = Chain]
Computed == [Plain EXCEPT !.content = Result]
Unregistered == [Plain EXCEPT !.type = "unregistered"]
Malformation == [Plain EXCEPT !.type = "malformed"]

(* A heading that claims the certificate and quotes a result.              *)
Titled == [Plain EXCEPT !.heading = [asserts |-> {"approval_oc"},
                                     figures |-> {"computed"}]]

ContentDrafts ==
    {Plain, Asserting, Backed, Computed, Unregistered, Malformation}
AllDrafts == ContentDrafts \union {Titled}

(* An empty cover; a client who boasts the certificate and an address that *)
(* quotes a figure nobody instructed.                                      *)
BlankCovers == {[client |-> Blank, address |-> Blank]}
SafetyCovers ==
    BlankCovers \union {[client |-> Occupancy, address |-> Result]}

MoneyFigures == {"stated", "computed"}
StatedFigures == {"stated"}
=============================================================================
