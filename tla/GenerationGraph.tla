--------------------------- MODULE GenerationGraph ---------------------------
(***************************************************************************)
(* One run of the generation graph: what run_graph does between the        *)
(* worker's claim of a job and the result execute reads.                   *)
(*                                                                         *)
(* A definition placed before another whose name it extends (PathOfKnown-  *)
(* Types before Path) is that definition with a plausible slip in it; the  *)
(* checks use it to show that the properties notice, no action does.       *)
(*                                                                         *)
(* The graph is a compiled LangGraph state machine: one node at a time, a  *)
(* node returns the keys it changes, and the edge chosen from the state it *)
(* left names the next one.  An action below is a node together with its   *)
(* outgoing edge; node holds the next node to run.  What the language      *)
(* model answers is the environment: every answer a node accepts is an     *)
(* alternative, an answer it cannot digest or a provider error is Raises.  *)
(*                                                                         *)
(* A text is the evidence classes it asserts (the patterns of              *)
(* ASSERTION_RULES) and the money figures it quotes.  A clause has one as  *)
(* its heading and one as its content, and the cover has the client and    *)
(* the address.  All four kinds are printed in the file, and the two scans *)
(* read the contents alone.  Wording and layout are left out.              *)
(***************************************************************************)
EXTENDS Naturals, Sequences

CONSTANTS Jobs,               \* the calls of run_graph considered
          DocTypes,           \* document types the intake model may answer
          Covers,             \* clients and addresses it may answer
          Drafts,             \* clauses a model may write
          Figures,            \* money figures
          Instructed,         \* figures the instructions state
          MaxClauses,         \* bound: clauses in one answer of a model
          MaxSections,        \* bound: sections in one plan
          MaxCriticRetries,   \* settings.MAX_CRITIC_RETRIES
          MaxHealerRetries,   \* settings.MAX_HEALER_RETRIES
          None                \* no property, no bundle, no document

-------------------------------------------------------------------------------
(***************************************************************************)
(* Vocabulary: job types, evidence classes, section types.                 *)
(***************************************************************************)
ValuationTypes == {"valuation_report", "due_diligence_report",
                   "construction_disbursement_report"}
ComplianceTypes == {"rera_registration", "rera_quarterly_report",
                    "fema_compliance", "environment_impact_assessment",
                    "noc_application"}
AgreementTypes == {"sale_deed", "lease_agreement", "rental_agreement",
                   "development_agreement", "mou", "power_of_attorney"}
ReconciliationTypes == {"rent_roll_report", "portfolio_report"}
JobTypes == ValuationTypes \union ComplianceTypes \union AgreementTypes
            \union ReconciliationTypes

EvidenceClasses == {"title_chain", "encumbrance_cert", "title_deed",
                    "approval_oc", "approval_cc", "approval_any",
                    "area_evidence", "tax_receipt", "lease_deed"}

SectionTypes == {"summary_table", "unit_table", "executive_summary",
                 "property_description", "market_analysis",
                 "valuation_approach", "due_diligence_check",
                 "construction_stage", "recommendations", "conclusion",
                 "standard_clause", "numbered_clause"}

Text == [asserts : SUBSET EvidenceClasses, figures : SUBSET Figures]

Blank == [asserts |-> {}, figures |-> {}]

Clause == [type : SectionTypes \union {"unregistered", "malformed"},
           heading : Text, content : Text]

Cover == [client : Text, address : Text]

Property == [documents : SUBSET STRING, chain : Seq(Nat),
             approvals : SUBSET STRING]

Job == [requested : JobTypes \union {""}, scoped : BOOLEAN,
        property : Property \union {None},
        sheet : {"absent", "readable", "unreadable"}]

ASSUME JobsAssumption == Jobs \subseteq Job
ASSUME DraftsAssumption == Drafts \subseteq Clause
ASSUME CoversAssumption == Covers \subseteq Cover
ASSUME FiguresAssumption == Instructed \subseteq Figures
ASSUME BoundsAssumption ==
    /\ MaxClauses \in Nat
    /\ MaxSections \in Nat
ASSUME RetriesAssumption ==
    /\ MaxCriticRetries \in Nat \ {0}
    /\ MaxHealerRetries \in Nat \ {0}

VARIABLES node,           \* the next node, "end", or "raised": an exception
          job,            \* the arguments of the call, never written
          docType,        \* doc_type
          cover,          \* client_name and property_address
          records,        \* whether parsed_data holds a record
          computed,       \* the figures of computed
          plan,           \* how many sections structure_plan has
          attempt,        \* structure_attempt
          drafted,        \* drafted_sections; section_index is its length
          clauses,        \* clause_plan
          renderAttempt,  \* render_attempt
          document,       \* the clauses under the cover in doc_path
          url,            \* doc_url
          errors,         \* generation_errors
          blocked         \* _blocked

vars == <<node, job, docType, cover, records, computed, plan, attempt,
          drafted, clauses, renderAttempt, document, url, errors, blocked>>

intake == <<docType, cover, records, computed>>
planning == <<plan, attempt, drafted>>
rendering == <<renderAttempt, document>>
ending == <<url, errors, blocked>>

(***************************************************************************)
(* What a model may answer when a list of clauses is asked of it.          *)
(***************************************************************************)
ClauseLists == UNION {[1..n -> Drafts] : n \in 0..MaxClauses}

Paths == {"rec_renderer", "valuation_structure", "compliance_structure",
          "agreement_drafter"}
ModelNodes == {"intake", "research", "valuation_structure",
               "valuation_critic", "section_drafter",
               "compliance_structure", "compliance_critic",
               "compliance_drafter", "agreement_drafter", "healer"}
Nodes == ModelNodes \union Paths \union
         {"property_data_parser", "valuation_calculator", "vision",
          "evidence_check", "evidence_scan", "renderer", "upload",
          "end", "raised"}

TypeOK ==
    /\ node \in Nodes
    /\ job \in Jobs
    /\ docType \in DocTypes \union JobTypes \union {"none"}
    /\ cover \in Cover
    /\ records \in BOOLEAN
    /\ computed \in SUBSET Figures
    /\ plan \in Nat
    /\ attempt \in Nat
    /\ drafted \in Seq(Clause)
    /\ clauses \in Seq(Clause)
    /\ renderAttempt \in Nat
    /\ document \in Seq(Clause) \union {None}
    /\ url \in {"none", "stored", "local"}
    /\ errors \in {"none", "unparsed", "miscalculated", "blocked",
                   "no document", "upload"}
    /\ blocked \in BOOLEAN

-------------------------------------------------------------------------------
(***************************************************************************)
(* The evidence bundle.  HasGap is bundle_for's: the sorted positions of   *)
(* the title chain are not contiguous from the first of them.              *)
(***************************************************************************)
HasGap(orders) ==
    /\ orders # << >>
    /\ orders # [i \in DOMAIN orders |-> orders[1] + i - 1]

BundleFor(property) ==
    [kinds |-> property.documents, length |-> Len(property.chain),
     gap |-> HasGap(property.chain), approvals |-> property.approvals]

(***************************************************************************)
(* execute assembles a bundle only for a caller that hands it a scope and  *)
(* a property.  The graph reads the bundle once, before it starts.         *)
(***************************************************************************)
Bundle == IF job.scoped /\ job.property # None
          THEN BundleFor(job.property) ELSE None

Has(bundle, evidence) ==
    \/ evidence = "title_chain" /\ bundle.length > 0 /\ ~bundle.gap
    \/ evidence = "approval_oc" /\ "oc" \in bundle.approvals
    \/ evidence = "approval_cc" /\ "cc" \in bundle.approvals
    \/ evidence = "approval_any" /\ bundle.approvals # {}
    \/ evidence = "area_evidence"
       /\ {"plan", "title_deed"} \intersect bundle.kinds # {}
    \/ /\ evidence \in {"encumbrance_cert", "title_deed", "tax_receipt",
                        "lease_deed"}
       /\ evidence \in bundle.kinds

Required(type) ==
    CASE type = "valuation_report" ->
             {"title_chain", "encumbrance_cert", "area_evidence"}
      [] type = "due_diligence_report" ->
             {"title_chain", "encumbrance_cert", "title_deed",
              "approval_any"}
      [] type = "construction_disbursement_report" ->
             {"approval_cc", "area_evidence"}
      [] type = "sale_deed" ->
             {"title_chain", "encumbrance_cert", "title_deed"}
      [] type = "development_agreement" -> {"title_chain", "title_deed"}
      [] type \in {"lease_agreement", "rental_agreement",
                   "power_of_attorney"} -> {"title_deed"}
      [] OTHER -> {}

(***************************************************************************)
(* check_preflight, and the node's refusal when there is no bundle at all. *)
(***************************************************************************)
Supported(type) ==
    \/ Required(type) = {}
    \/ Bundle # None /\ \A e \in Required(type) : Has(Bundle, e)

(***************************************************************************)
(* scan_assertions of the joined contents: what do they assert that no     *)
(* record supports?  Headings and cover are not among what is joined.      *)
(***************************************************************************)
Contents(list) == {list[i].content : i \in DOMAIN list}

Asserted(texts) == UNION {text.asserts : text \in texts}

Unsupported(list) == {e \in Asserted(Contents(list)) : ~Has(Bundle, e)}

-------------------------------------------------------------------------------
(***************************************************************************)
(* initial_state.                                                          *)
(***************************************************************************)
Init ==
    /\ node = "intake"
    /\ job \in Jobs
    /\ docType = "none"
    /\ cover = [client |-> Blank, address |-> Blank]
    /\ records = FALSE
    /\ computed = {}
    /\ plan = 0
    /\ attempt = 0
    /\ drafted = << >>
    /\ clauses = << >>
    /\ renderAttempt = 0
    /\ document = None
    /\ url = "none"
    /\ errors = "none"
    /\ blocked = FALSE

(***************************************************************************)
(* An exception leaves the graph: a model call that fails, or an answer of *)
(* a shape the node's code cannot index.  section_drafter calls no model   *)
(* when the plan has no sections.                                          *)
(***************************************************************************)
Raises ==
    /\ node \in ModelNodes
    /\ ~(node = "section_drafter" /\ Len(drafted) >= plan)
    /\ node' = "raised"
    /\ UNCHANGED <<job, intake, planning, clauses, rendering, ending>>

(***************************************************************************)
(* The model's document type wins over the one requested, and nothing      *)
(* checks it against the job types.  Its client and address are taken as   *)
(* they stand, to be printed on the cover and quoted in some contents.     *)
(***************************************************************************)
RequestedType == IF job.requested = "" THEN "valuation_report"
                 ELSE job.requested

Intake ==
    /\ node = "intake"
    /\ docType' \in DocTypes \union {RequestedType}
    /\ cover' \in Covers
    /\ node' = "property_data_parser"
    /\ UNCHANGED <<job, records, computed, planning, clauses, rendering,
                   ending>>

(***************************************************************************)
(* A sheet that cannot be parsed leaves an empty parse and a note in       *)
(* generation_errors; the run goes on.  A readable sheet may still have    *)
(* every row rejected.                                                     *)
(***************************************************************************)
ParsePropertyData ==
    /\ node = "property_data_parser"
    /\ records' \in (IF job.sheet = "readable" THEN BOOLEAN ELSE {FALSE})
    /\ errors' = IF job.sheet = "unreadable" THEN "unparsed" ELSE errors
    /\ node' = "valuation_calculator"
    /\ UNCHANGED <<job, docType, cover, computed, planning, clauses,
                   rendering, url, blocked>>

Calculate ==
    /\ node = "valuation_calculator"
    /\ \/ /\ computed' \in (IF records THEN SUBSET Figures ELSE {{}})
          /\ UNCHANGED errors
       \/ /\ records    \* a ValueError of compute
          /\ computed' = {}
          /\ errors' = "miscalculated"
    /\ node' = "research"
    /\ UNCHANGED <<job, docType, cover, records, planning, clauses,
                   rendering, url, blocked>>

(***************************************************************************)
(* Background for the drafters, and a letterhead whose failure is ignored. *)
(***************************************************************************)
Research ==
    /\ node = "research"
    /\ node' = "vision"
    /\ UNCHANGED <<job, intake, planning, clauses, rendering, ending>>

Vision ==
    /\ node = "vision"
    /\ node' = "evidence_check"
    /\ UNCHANGED <<job, intake, planning, clauses, rendering, ending>>

PathOfKnownTypes(type) ==
    CASE type \in ReconciliationTypes -> "rec_renderer"
      [] type \in ValuationTypes -> "valuation_structure"
      [] type \in ComplianceTypes -> "compliance_structure"
      [] OTHER -> "agreement"

Path(type) ==
    CASE type \in ReconciliationTypes -> "rec_renderer"
      [] type \in ValuationTypes -> "valuation_structure"
      [] type \in ComplianceTypes -> "compliance_structure"
      [] OTHER -> "agreement_drafter"

BlockUnrouted ==
    /\ blocked' = TRUE
    /\ errors' = "blocked"
    /\ node' = "renderer"
    /\ UNCHANGED <<job, intake, planning, clauses, rendering, url>>

Block ==
    /\ blocked' = TRUE
    /\ errors' = "blocked"
    /\ node' = "end"
    /\ UNCHANGED <<job, intake, planning, clauses, rendering, url>>

EvidenceCheckSkipsUnattached ==
    /\ node = "evidence_check"
    /\ \/ ~Supported(docType) /\ Bundle # None /\ Block
       \/ /\ Supported(docType) \/ Bundle = None
          /\ node' = Path(docType)
          /\ UNCHANGED <<job, intake, planning, clauses, rendering, ending>>

EvidenceCheck ==
    /\ node = "evidence_check"
    /\ \/ ~Supported(docType) /\ Block
       \/ /\ Supported(docType)
          /\ node' = Path(docType)
          /\ UNCHANGED <<job, intake, planning, clauses, rendering, ending>>

-------------------------------------------------------------------------------
(***************************************************************************)
(* The four drafting paths.  The reconciliation clauses are built without  *)
(* a model, of computed and, in their summary, of the client (a portfolio) *)
(* or the client and the address (a rent roll).  Anything else computed,   *)
(* or nothing, is dumped into one clause.  Their headings are fixed, and   *)
(* the names a sheet holds are taken to assert nothing.                    *)
(***************************************************************************)
Quoting(type, texts) ==
    [type |-> type, heading |-> Blank,
     content |-> [asserts |-> Asserted(texts),
                  figures |-> computed
                              \union UNION {text.figures : text \in texts}]]

Calculated == records /\ errors # "miscalculated"

Layouts ==
    {<<Quoting("standard_clause", {})>>} \union
    IF Calculated
    THEN {<<Quoting("summary_table", {cover.client, cover.address}),
            Quoting("unit_table", {}), Quoting("standard_clause", {})>>,
          <<Quoting("summary_table", {cover.client}),
            Quoting("unit_table", {})>>}
    ELSE {}

RecRender ==
    /\ node = "rec_renderer"
    /\ clauses' \in Layouts
    /\ node' = "evidence_scan"
    /\ UNCHANGED <<job, intake, planning, rendering, ending>>

(***************************************************************************)
(* An answer that is not JSON is a plan with no sections.                  *)
(***************************************************************************)
ValuationStructure ==
    /\ node = "valuation_structure"
    /\ plan' \in 0..MaxSections
    /\ attempt' = attempt + 1
    /\ drafted' = << >>
    /\ node' = "valuation_critic"
    /\ UNCHANGED <<job, intake, clauses, rendering, ending>>

ComplianceStructure ==
    /\ node = "compliance_structure"
    /\ plan' \in 0..MaxSections
    /\ attempt' = attempt + 1
    /\ node' = "compliance_critic"
    /\ UNCHANGED <<job, intake, drafted, clauses, rendering, ending>>

RetriesSpentOnceMore == attempt > MaxCriticRetries

RetriesSpent == attempt >= MaxCriticRetries

(***************************************************************************)
(* Both reviewers must approve; an answer that is not JSON approves.       *)
(***************************************************************************)
Criticise(critic, structure, drafter) ==
    /\ node = critic
    /\ \E approved \in BOOLEAN :
          node' = IF approved \/ RetriesSpent THEN drafter ELSE structure
    /\ UNCHANGED <<job, intake, planning, clauses, rendering, ending>>

ValuationCritic ==
    Criticise("valuation_critic", "valuation_structure", "section_drafter")
ComplianceCritic ==
    Criticise("compliance_critic", "compliance_structure",
              "compliance_drafter")

SectionsLeftLessOne(sections) == Len(sections) + 1 < plan

SectionsLeft(sections) == Len(sections) < plan

DraftSection ==
    /\ node = "section_drafter"
    /\ IF Len(drafted) >= plan THEN drafted' = drafted
       ELSE \E clause \in Drafts : drafted' = Append(drafted, clause)
    /\ clauses' = drafted'
    /\ node' = IF SectionsLeft(drafted') THEN "section_drafter"
               ELSE "evidence_scan"
    /\ UNCHANGED <<job, intake, plan, attempt, rendering, ending>>

DraftWhole ==
    /\ node \in {"compliance_drafter", "agreement_drafter"}
    /\ clauses' \in ClauseLists
    /\ node' = "evidence_scan"
    /\ UNCHANGED <<job, intake, planning, rendering, ending>>

-------------------------------------------------------------------------------
(***************************************************************************)
(* The scan of the contents drafted.  Without a bundle, or without a       *)
(* clause, it reads nothing and lets the draft through.                    *)
(***************************************************************************)
Malformed(clause) == clause.type = "malformed"

ScanRefusesGatedTypes ==
    /\ Required(docType) # {} /\ clauses # << >>
    /\ Bundle # None /\ Unsupported(clauses) # {}

ScanRefuses == clauses # << >> /\ Bundle # None /\ Unsupported(clauses) # {}

EvidenceScan ==
    /\ node = "evidence_scan"
    /\ LET unreadable == /\ Bundle # None
                         /\ \E i \in DOMAIN clauses : Malformed(clauses[i])
       IN  \/ /\ unreadable
              /\ node' = "raised"
              /\ UNCHANGED <<job, intake, planning, clauses, rendering,
                             ending>>
           \/ ~unreadable /\ ScanRefuses /\ Block
           \/ /\ ~unreadable /\ ~ScanRefuses
              /\ node' = "renderer"
              /\ UNCHANGED <<job, intake, planning, clauses, rendering,
                             ending>>

(***************************************************************************)
(* validate_figure_provenance stops at the first clause it cannot accept:  *)
(* one that is not an object raises an error the node does not catch, one  *)
(* quoting a figure with no source raises the error the node turns into    *)
(* render_error.  It reads a clause's content; the heading only names the  *)
(* section in that error.                                                  *)
(***************************************************************************)
Sourced(clause) == clause.content.figures \subseteq computed \union Instructed

Acceptable(clause) == ~Malformed(clause) /\ Sourced(clause)

FirstUnacceptable(i) ==
    /\ ~Acceptable(clauses[i])
    /\ \A k \in 1..(i-1) : Acceptable(clauses[k])

ValidatedFirstTimeOnly ==
    renderAttempt > 0 \/ \A i \in DOMAIN clauses : Acceptable(clauses[i])

Validated == \A i \in DOMAIN clauses : Acceptable(clauses[i])

Registered == \A i \in DOMAIN clauses : clauses[i].type \in SectionTypes

HealerRetriesLeft == renderAttempt + 1 < MaxHealerRetries

RenderFailsUncounted ==
    /\ document' = None
    /\ node' = IF HealerRetriesLeft THEN "healer" ELSE "upload"
    /\ UNCHANGED <<job, intake, planning, clauses, renderAttempt, ending>>

RenderFails ==
    /\ document' = None
    /\ renderAttempt' = renderAttempt + 1
    /\ node' = IF HealerRetriesLeft THEN "healer" ELSE "upload"
    /\ UNCHANGED <<job, intake, planning, clauses, ending>>

Renders ==
    /\ document' = clauses
    /\ node' = "upload"
    /\ UNCHANGED <<job, intake, planning, clauses, renderAttempt, ending>>

(***************************************************************************)
(* render: an unregistered section type, or any other failure to build or  *)
(* save the file, is caught and becomes render_error.                      *)
(***************************************************************************)
Renderer ==
    /\ node = "renderer"
    /\ \/ \E i \in DOMAIN clauses :
             /\ FirstUnacceptable(i)
             /\ IF Malformed(clauses[i])
                THEN /\ node' = "raised"
                     /\ UNCHANGED <<job, intake, planning, clauses,
                                    rendering, ending>>
                ELSE RenderFails
       \/ Validated /\ RenderFails
       \/ Validated /\ Registered /\ Renders

(***************************************************************************)
(* The healer is shown the error and the first three clauses, and what it  *)
(* answers replaces the plan: it may change, add or drop clauses.  The     *)
(* graph goes back to the renderer, not to the scan.                       *)
(***************************************************************************)
Healer ==
    /\ node = "healer"
    /\ clauses' \in ClauseLists \union {clauses}
    /\ node' = "renderer"
    /\ UNCHANGED <<job, intake, planning, rendering, ending>>

(***************************************************************************)
(* A failed upload leaves the local path as the document's URL.            *)
(***************************************************************************)
Upload ==
    /\ node = "upload"
    /\ \/ document = None /\ url' = "none" /\ errors' = "no document"
       \/ /\ document # None
          /\ \/ url' \in {"stored", "local"} /\ errors' = "none"
             \/ url' = "local" /\ errors' = "upload"
    /\ node' = "end"
    /\ UNCHANGED <<job, intake, planning, clauses, rendering, blocked>>

Next ==
    \/ Raises
    \/ Intake \/ ParsePropertyData \/ Calculate \/ Research \/ Vision
    \/ EvidenceCheck
    \/ RecRender
    \/ ValuationStructure \/ ValuationCritic \/ DraftSection
    \/ ComplianceStructure \/ ComplianceCritic
    \/ DraftWhole
    \/ EvidenceScan \/ Renderer \/ Healer \/ Upload

Spec == Init /\ [][Next]_vars

(***************************************************************************)
(* graph.invoke runs the nodes one after another in one call, and every    *)
(* model call either returns or raises.                                    *)
(***************************************************************************)
FairSpec == Spec /\ WF_vars(Next)

-------------------------------------------------------------------------------
(***************************************************************************)
(* Safety.                                                                 *)
(***************************************************************************)
Delivered == url # "none"
Headings(list) == {list[i].heading : i \in DOMAIN list}
Printed == {cover.client, cover.address} \union Headings(document)
           \union Contents(document)

(***************************************************************************)
(* A job refused for want of evidence leaves no file and no URL, at either *)
(* of the two places that refuse (execute reads _blocked first).           *)
(***************************************************************************)
BlockedDeliversNothing == blocked => document = None /\ ~Delivered

(***************************************************************************)
(* What is delivered passed the gate of the type it was drafted as,        *)
(* whatever loops the run went through after the gate.                     *)
(***************************************************************************)
DeliveredTypeIsSupported == Delivered => Supported(docType)

(***************************************************************************)
(* Every figure in the content of a delivered clause comes from computed   *)
(* or from the instructions, every clause has a registered type: also when *)
(* a model rewrote the clauses after a failed rendering, and when the      *)
(* content quotes the client or the address the intake model answered.     *)
(* The figures of headings and of the cover itself are not checked.        *)
(***************************************************************************)
DeliveredContentsAreSourced ==
    Delivered =>
        \A i \in DOMAIN document :
            Sourced(document[i]) /\ document[i].type \in SectionTypes

(***************************************************************************)
(* The contents of a draft rendered at the first attempt assert nothing    *)
(* the bundle does not hold, if the job had a bundle.  Its headings and    *)
(* its cover may.                                                          *)
(***************************************************************************)
UnhealedContentsHold ==
    Delivered /\ renderAttempt = 0 /\ Bundle # None
    => \A e \in Asserted(Contents(document)) : Has(Bundle, e)

(***************************************************************************)
(* A valuation rendered at the first attempt has exactly the sections      *)
(* drafted for its last plan: the drafting loop stops neither early nor    *)
(* late, and no section of a rejected plan survives.                       *)
(***************************************************************************)
UnhealedReportIsWhole ==
    Delivered /\ renderAttempt = 0 /\ docType \in ValuationTypes
    => document = drafted /\ Len(document) = plan

(***************************************************************************)
(* No more plans are drawn up than MAX_CRITIC_RETRIES and no more          *)
(* renderings fail than MAX_HEALER_RETRIES, whatever the reviewers and the *)
(* healer answer.                                                          *)
(***************************************************************************)
RetriesAreBounded ==
    attempt <= MaxCriticRetries /\ renderAttempt <= MaxHealerRetries

-------------------------------------------------------------------------------
(***************************************************************************)
(* Liveness: every run leaves the graph, by its end or by an exception.    *)
(***************************************************************************)
RunEnds == <>(node \in {"end", "raised"})

-------------------------------------------------------------------------------
(***************************************************************************)
(* What the documentation says and a run refutes.                          *)
(*                                                                         *)
(* No document asserts ownership, tenure, encumbrance or approval without  *)
(* a record behind it, wherever it is printed.  The scan is skipped        *)
(* without a bundle, the healer's clauses are never scanned, and neither   *)
(* are headings and cover.                                                 *)
(***************************************************************************)
AssertionsHaveRecords ==
    Delivered =>
        \A e \in Asserted(Printed) : Bundle # None /\ Has(Bundle, e)

(***************************************************************************)
(* A job whose property holds all its type requires is not refused at the  *)
(* gate.  The worker's call seeds no bundle.                               *)
(***************************************************************************)
SupportedPropertyIsNotRefused ==
    blocked /\ clauses = << >> /\ job.property # None
    => \E e \in Required(docType) : ~Has(BundleFor(job.property), e)
=============================================================================
