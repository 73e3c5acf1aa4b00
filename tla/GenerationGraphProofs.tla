----------------------- MODULE GenerationGraphProofs -----------------------
(***************************************************************************)
(* The safety of GenerationGraph for every set of calls, every answer of   *)
(* the models, every number of retries.                                    *)
(*                                                                         *)
(* None of the properties is inductive: each says something of a delivered *)
(* document, which was settled at a node passed long before.  Inv carries  *)
(* it along: what holds of the clauses from the gate (Gated), from the     *)
(* scan (Scanned) and from the drafting loop (Whole) as long as no healer  *)
(* touched them, what holds of the file once it is written (Phases, and    *)
(* FileIsSourced), and where the two counters stand (Counted).             *)
(***************************************************************************)
EXTENDS GenerationGraph, SequenceTheorems, TLAPS

Early == {"intake", "property_data_parser", "valuation_calculator",
          "research", "vision", "evidence_check"}
Drafting == {"rec_renderer", "valuation_structure", "valuation_critic",
             "section_drafter", "compliance_structure",
             "compliance_critic", "compliance_drafter",
             "agreement_drafter", "evidence_scan"}

(* A file exists only after the renderer, a URL only at the end.           *)
Phases ==
    /\ document # None => node \in {"upload", "end"}
    /\ Delivered => node = "end" /\ document # None
    /\ blocked => node = "end" /\ document = None /\ ~Delivered

(* Past the gate the type stays supported.                                 *)
Gated ==
    \/ node \in Early \union {"end", "raised"} /\ ~Delivered
    \/ Supported(docType)

FileIsSourced ==
    document # None =>
        \A i \in DOMAIN document :
            Sourced(document[i]) /\ document[i].type \in SectionTypes

(* The clauses reach their first rendering as the scan saw them.           *)
Scanned ==
    Bundle # None /\ renderAttempt = 0 =>
        /\ node = "renderer" => Unsupported(clauses) = {}
        /\ document # None => Unsupported(document) = {}

(* The valuation path alone writes drafted, one section at a time.         *)
Whole ==
    docType \in ValuationTypes =>
        /\ node \notin {"rec_renderer", "compliance_structure",
                        "compliance_critic", "compliance_drafter",
                        "agreement_drafter"}
        /\ node = "valuation_critic" => drafted = << >>
        /\ node = "section_drafter" => Len(drafted) <= plan
        /\ renderAttempt = 0 =>
              /\ node \in {"evidence_scan", "renderer"} =>
                    clauses = drafted /\ Len(drafted) = plan
              /\ document # None =>
                    document = drafted /\ Len(drafted) = plan

Counted ==
    /\ RetriesAreBounded
    /\ node \in Early => attempt = 0
    /\ node \in {"valuation_structure", "compliance_structure"} =>
          attempt < MaxCriticRetries
    /\ node \in Early \union Drafting => renderAttempt = 0
    /\ node \in {"renderer", "healer"} => renderAttempt < MaxHealerRetries
    /\ node = "healer" => renderAttempt > 0

Inv ==
    /\ TypeOK
    /\ Phases
    /\ Gated
    /\ FileIsSourced
    /\ Scanned
    /\ Whole
    /\ Counted

-------------------------------------------------------------------------------
(***************************************************************************)
(* What a model answers, and what the reconciliation path builds, are      *)
(* sequences of clauses.                                                   *)
(***************************************************************************)
LEMMA ClauseListType == ClauseLists \subseteq Seq(Clause)
<1> SUFFICES ASSUME NEW n \in 0..MaxClauses, NEW list \in [1..n -> Drafts]
             PROVE  list \in Seq(Clause)
  BY DEF ClauseLists
<1>1. n \in Nat
  BY BoundsAssumption
<1>2. list \in [1..n -> Clause]
  BY DraftsAssumption
<1> QED BY <1>1, <1>2, SeqDef

LEMMA QuotingType ==
    ASSUME NEW type \in SectionTypes, NEW texts \in SUBSET Text,
           computed \in SUBSET Figures
    PROVE  Quoting(type, texts) \in Clause
<1>1. Asserted(texts) \in SUBSET EvidenceClasses
  BY DEF Asserted, Text
<1>2. computed \union UNION {text.figures : text \in texts} \in SUBSET Figures
  BY DEF Text
<1>3. Blank \in Text
  BY DEF Blank, Text
<1>4. Quoting(type, texts).content \in Text
  BY <1>1, <1>2 DEF Quoting, Text
<1>5. type \in SectionTypes \union {"unregistered", "malformed"}
  OBVIOUS
<1> QED BY <1>3, <1>4, <1>5 DEF Quoting, Clause

LEMMA LayoutType ==
    ASSUME computed \in SUBSET Figures, cover \in Cover
    PROVE  Layouts \subseteq Seq(Clause)
<1>1. /\ {} \in SUBSET Text
      /\ {cover.client} \in SUBSET Text
      /\ {cover.client, cover.address} \in SUBSET Text
  BY DEF Cover
<1>2. /\ "summary_table" \in SectionTypes
      /\ "unit_table" \in SectionTypes
      /\ "standard_clause" \in SectionTypes
  BY DEF SectionTypes
<1> DEFINE dump == Quoting("standard_clause", {})
           units == Quoting("unit_table", {})
           portfolio == Quoting("summary_table", {cover.client})
           rents == Quoting("summary_table", {cover.client, cover.address})
<1>3. dump \in Clause /\ units \in Clause
  BY <1>1, <1>2, QuotingType
<1>4. portfolio \in Clause
  BY <1>1, <1>2, QuotingType
<1>5. rents \in Clause
  BY <1>1, <1>2, QuotingType
<1>6. Layouts \subseteq {<<dump>>, <<rents, units, dump>>, <<portfolio, units>>}
  BY DEF Layouts
<1> HIDE DEF dump, units, portfolio, rents
<1>7. <<dump>> \in Seq(Clause) /\ <<portfolio, units>> \in Seq(Clause)
  BY <1>3, <1>4
<1>8. <<rents, units, dump>> \in Seq(Clause)
  BY <1>3, <1>5
<1> QED BY <1>6, <1>7, <1>8

(***************************************************************************)
(* The call's arguments, and with them the bundle, are never written.      *)
(***************************************************************************)
LEMMA BundleIsFixed ==
    ASSUME [Next]_vars
    PROVE  /\ job' = job
           /\ Bundle' = Bundle
           /\ \A type : Supported(type)' <=> Supported(type)
<1>1. job' = job
  BY DEF Next, vars, intake, planning, rendering, ending, Raises, Intake,
         ParsePropertyData, Calculate, Research, Vision, EvidenceCheck,
         Block, RecRender, ValuationStructure, ComplianceStructure,
         ValuationCritic, ComplianceCritic, Criticise, DraftSection,
         DraftWhole, EvidenceScan, Renderer, RenderFails, Renders, Healer,
         Upload
<1>2. Bundle' = Bundle
  BY <1>1 DEF Bundle
<1> QED BY <1>1, <1>2 DEF Supported

-------------------------------------------------------------------------------
(***************************************************************************)
(* Types.                                                                  *)
(***************************************************************************)
LEMMA TypeInit == Init => TypeOK
<1>1. << >> \in Seq(Clause)
  OBVIOUS
<1>2. {} \in SUBSET Figures /\ 0 \in Nat
  OBVIOUS
<1>3. "intake" \in Nodes
  BY DEF Nodes, ModelNodes
<1>4. [client |-> Blank, address |-> Blank] \in Cover
  BY DEF Blank, Cover, Text
<1> QED BY <1>1, <1>2, <1>3, <1>4 DEF Init, TypeOK

LEMMA TypeNext == TypeOK /\ [Next]_vars => TypeOK'
<1> SUFFICES ASSUME TypeOK, [Next]_vars PROVE TypeOK'
  OBVIOUS
<1> USE DEF intake, planning, rendering, ending, Nodes, ModelNodes, Paths
<1>0. /\ plan \in Nat /\ attempt \in Nat /\ renderAttempt \in Nat
      /\ drafted \in Seq(Clause) /\ clauses \in Seq(Clause)
  BY DEF TypeOK
<1>1. CASE Raises
  BY <1>1 DEF TypeOK, Raises
<1>2. CASE Intake
  <2>1. RequestedType \in JobTypes
    <3>1. job \in Job
      BY JobsAssumption DEF TypeOK
    <3>2. job.requested \in JobTypes \union {""}
      BY <3>1 DEF Job
    <3>3. "valuation_report" \in JobTypes
      BY DEF JobTypes, ValuationTypes
    <3> QED BY <3>2, <3>3 DEF RequestedType
  <2>2. cover' \in Cover
    BY <1>2, CoversAssumption DEF Intake
  <2> QED BY <1>2, <2>1, <2>2 DEF TypeOK, Intake
<1>3. CASE ParsePropertyData
  BY <1>3 DEF TypeOK, ParsePropertyData
<1>4. CASE Calculate
  BY <1>4 DEF TypeOK, Calculate
<1>5. CASE Research \/ Vision
  BY <1>5 DEF TypeOK, Research, Vision
<1>6. CASE EvidenceCheck
  <2>1. Path(docType) \in Paths
    BY DEF Path, Paths
  <2> QED BY <1>6, <2>1 DEF TypeOK, EvidenceCheck, Block
<1>7. CASE RecRender
  BY <1>7, LayoutType DEF TypeOK, RecRender
<1>8. CASE ValuationStructure \/ ComplianceStructure
  <2>1. plan' \in 0..MaxSections
    BY <1>8 DEF ValuationStructure, ComplianceStructure
  <2>2. plan' \in Nat
    BY <2>1, BoundsAssumption
  <2>3. attempt' \in Nat
    BY <1>0, <1>8 DEF ValuationStructure, ComplianceStructure
  <2>4. drafted' \in Seq(Clause)
    <3>1. drafted' = << >> \/ drafted' = drafted
      BY <1>8 DEF ValuationStructure, ComplianceStructure
    <3>2. << >> \in Seq(Clause)
      OBVIOUS
    <3> QED BY <1>0, <3>1, <3>2
  <2> HIDE DEF Nodes, ModelNodes, Paths
  <2>5. node' \in Nodes
    BY <1>8 DEF ValuationStructure, ComplianceStructure, Nodes, ModelNodes
  <2> QED BY <1>8, <2>2, <2>3, <2>4, <2>5
             DEF TypeOK, ValuationStructure, ComplianceStructure
<1>9. CASE ValuationCritic \/ ComplianceCritic
  BY <1>9 DEF TypeOK, ValuationCritic, ComplianceCritic, Criticise
<1>10. CASE DraftSection
  <2>1. drafted' \in Seq(Clause)
    <3>1. CASE Len(drafted) >= plan
      BY <1>0, <1>10, <3>1 DEF DraftSection
    <3>2. CASE ~(Len(drafted) >= plan)
      <4>1. PICK clause \in Drafts : drafted' = Append(drafted, clause)
        BY <1>10, <3>2 DEF DraftSection
      <4>2. clause \in Clause
        BY DraftsAssumption
      <4> QED BY <1>0, <4>1, <4>2
    <3> QED BY <3>1, <3>2
  <2> QED BY <1>10, <2>1 DEF TypeOK, DraftSection
<1>11. CASE DraftWhole
  BY <1>11, ClauseListType DEF TypeOK, DraftWhole
<1>12. CASE EvidenceScan
  BY <1>12 DEF TypeOK, EvidenceScan, Block
<1>13. CASE Renderer
  <2>1. renderAttempt' \in Nat
    BY <1>0, <1>13 DEF Renderer, RenderFails, Renders
  <2>2. document' \in Seq(Clause) \union {None}
    BY <1>0, <1>13 DEF TypeOK, Renderer, RenderFails, Renders
  <2>3. node' \in Nodes
    BY <1>13 DEF Renderer, RenderFails, Renders
  <2> QED BY <1>13, <2>1, <2>2, <2>3 DEF TypeOK, Renderer, RenderFails, Renders
<1>14. CASE Healer
  BY <1>14, ClauseListType DEF TypeOK, Healer
<1>15. CASE Upload
  BY <1>15 DEF TypeOK, Upload
<1>16. CASE UNCHANGED vars
  <2> HIDE DEF Nodes, ModelNodes, Paths
  <2>1. /\ UNCHANGED <<node, job, docType, cover, records, computed>>
        /\ UNCHANGED <<plan, attempt>>
        /\ UNCHANGED <<drafted, clauses, renderAttempt, document, url>>
        /\ UNCHANGED <<errors, blocked>>
    BY <1>16, Zenon DEF vars
  <2> QED BY <2>1, Zenon DEF TypeOK
<1> QED
  BY <1>1, <1>2, <1>3, <1>4, <1>5, <1>6, <1>7, <1>8, <1>9, <1>10, <1>11,
     <1>12, <1>13, <1>14, <1>15, <1>16 DEF Next

-------------------------------------------------------------------------------
(***************************************************************************)
(* Where a file, a URL and a refusal can stand.                            *)
(***************************************************************************)
LEMMA PhasesNext == Phases /\ [Next]_vars => Phases'
<1> SUFFICES ASSUME Phases, [Next]_vars PROVE Phases'
  OBVIOUS
<1> USE DEF Phases, Delivered, intake, planning, rendering, ending
<1>1. CASE Raises
  BY <1>1 DEF Raises, ModelNodes
<1>2. CASE Intake \/ ParsePropertyData \/ Calculate \/ Research \/ Vision
  <2>1. document = None /\ url = "none" /\ ~blocked
    BY <1>2 DEF Intake, ParsePropertyData, Calculate, Research, Vision
  <2>2. UNCHANGED <<document, url, blocked>>
    BY <1>2 DEF Intake, ParsePropertyData, Calculate, Research, Vision
  <2> QED BY <2>1, <2>2
<1>3. CASE EvidenceCheck
  <2>1. document = None /\ url = "none" /\ ~blocked
    BY <1>3 DEF EvidenceCheck
  <2>2. CASE Block
    BY <2>1, <2>2 DEF Block
  <2>3. CASE UNCHANGED <<document, url, blocked>>
    BY <2>1, <2>3
  <2> QED BY <1>3, <2>2, <2>3 DEF EvidenceCheck
<1>4. CASE RecRender \/ ValuationStructure \/ ComplianceStructure
           \/ ValuationCritic \/ ComplianceCritic
           \/ DraftSection \/ DraftWhole
  BY <1>4 DEF RecRender, ValuationStructure, ComplianceStructure,
              ValuationCritic, ComplianceCritic, Criticise, DraftSection,
              DraftWhole
<1>5. CASE EvidenceScan
  BY <1>5 DEF EvidenceScan, Block
<1>6. CASE Renderer
  BY <1>6 DEF Renderer, RenderFails, Renders
<1>7. CASE Healer
  BY <1>7 DEF Healer
<1>8. CASE Upload
  BY <1>8 DEF Upload
<1>9. CASE UNCHANGED vars
  BY <1>9 DEF vars
<1> QED
  BY <1>1, <1>2, <1>3, <1>4, <1>5, <1>6, <1>7, <1>8, <1>9 DEF Next

(***************************************************************************)
(* The gate's verdict stands: docType and the bundle do not change past it.*)
(***************************************************************************)
LEMMA GatedNext == Phases /\ Gated /\ [Next]_vars => Gated'
<1> SUFFICES ASSUME Phases, Gated, [Next]_vars PROVE Gated'
  OBVIOUS
<1>1. \A type : Supported(type)' <=> Supported(type)
  BY BundleIsFixed
<1> USE DEF Gated, Early, Delivered, intake, planning, rendering, ending
<1>2. CASE Raises
  <2>1. node # "end" /\ ~Delivered /\ url' = url
    BY <1>2 DEF Phases, Raises, ModelNodes
  <2> QED BY <1>2, <2>1 DEF Raises
<1>3. CASE Intake \/ ParsePropertyData \/ Calculate \/ Research \/ Vision
  <2>1. node \in Early /\ node' \in Early /\ url' = url
    BY <1>3 DEF Intake, ParsePropertyData, Calculate, Research, Vision
  <2> QED BY <2>1 DEF Phases
<1>4. CASE EvidenceCheck
  <2>1. CASE Block
    BY <1>4, <2>1 DEF Phases, EvidenceCheck, Block
  <2>2. CASE Supported(docType) /\ UNCHANGED docType
    BY <1>1, <2>2
  <2> QED BY <1>4, <2>1, <2>2 DEF EvidenceCheck
<1>5. CASE \/ RecRender \/ ValuationStructure \/ ComplianceStructure
           \/ ValuationCritic \/ ComplianceCritic
           \/ DraftSection \/ DraftWhole
           \/ EvidenceScan \/ Renderer \/ Healer \/ Upload
  <2>1. node \notin Early \union {"end", "raised"} /\ docType' = docType
    BY <1>5 DEF RecRender, ValuationStructure, ComplianceStructure,
                ValuationCritic, ComplianceCritic, Criticise, DraftSection,
                DraftWhole, EvidenceScan, Block, Renderer, RenderFails,
                Renders, Healer, Upload
  <2> QED BY <1>1, <2>1
<1>6. CASE UNCHANGED vars
  BY <1>1, <1>6 DEF vars
<1> QED BY <1>2, <1>3, <1>4, <1>5, <1>6 DEF Next

(***************************************************************************)
(* Only a successful rendering writes a file, and only of clauses the      *)
(* validator and the registry accepted.                                    *)
(***************************************************************************)
LEMMA FileIsSourcedNext ==
    Phases /\ FileIsSourced /\ [Next]_vars => FileIsSourced'
<1> SUFFICES ASSUME Phases, FileIsSourced, [Next]_vars,
                    document' # None
             PROVE  FileIsSourced'
  BY DEF FileIsSourced
<1> USE DEF intake, planning, rendering, ending
<1>1. CASE document' = document /\ computed' = computed
  BY <1>1 DEF FileIsSourced, Sourced
<1>2. CASE Renderer
  <2>1. CASE Validated /\ Registered /\ Renders
    BY <2>1 DEF Renders, Validated, Registered, Acceptable, Sourced,
                FileIsSourced
  <2>2. CASE ~Renders
    <3>1. document' = document /\ computed' = computed
      BY <1>2, <2>2 DEF Renderer, RenderFails
    <3> QED BY <1>1, <3>1
  <2> QED BY <1>2, <2>1, <2>2 DEF Renderer, RenderFails, Phases
<1>3. CASE Calculate
  BY <1>3 DEF Phases, Calculate
<1>4. CASE Raises \/ Intake \/ ParsePropertyData \/ Research \/ Vision
           \/ EvidenceCheck \/ RecRender
           \/ ValuationStructure \/ ComplianceStructure
           \/ ValuationCritic \/ ComplianceCritic \/ DraftSection
           \/ DraftWhole \/ EvidenceScan \/ Healer \/ Upload
  <2>1. document' = document /\ computed' = computed
    BY <1>4 DEF Raises, Intake, ParsePropertyData, Research, Vision,
                EvidenceCheck, Block, RecRender, ValuationStructure,
                ComplianceStructure, ValuationCritic, ComplianceCritic,
                Criticise, DraftSection, DraftWhole, EvidenceScan, Healer,
                Upload
  <2> QED BY <1>1, <2>1
<1>5. CASE UNCHANGED vars
  BY <1>1, <1>5 DEF vars
<1> QED BY <1>2, <1>3, <1>4, <1>5 DEF Next

(***************************************************************************)
(* The scan's verdict stands until a healer writes, which it does only     *)
(* after an attempt was counted.                                           *)
(***************************************************************************)
LEMMA ScannedNext ==
    Phases /\ Counted /\ TypeOK /\ Scanned /\ [Next]_vars => Scanned'
<1> SUFFICES ASSUME Phases, Counted, TypeOK, Scanned, [Next]_vars,
                    Bundle' # None, renderAttempt' = 0
             PROVE  /\ node' = "renderer" => Unsupported(clauses)' = {}
                    /\ document' # None => Unsupported(document)' = {}
  BY DEF Scanned
<1>0. /\ Bundle' = Bundle
      /\ Bundle # None
  BY BundleIsFixed
<1>u. /\ clauses' = clauses => Unsupported(clauses)' = Unsupported(clauses)
      /\ document' = document => Unsupported(document)' = Unsupported(document)
      /\ document' = clauses => Unsupported(document)' = Unsupported(clauses)
  BY <1>0 DEF Unsupported, Contents, Asserted
<1>n. renderAttempt \in Nat
  BY DEF TypeOK
<1> USE DEF intake, planning, rendering, ending
<1>1. CASE EvidenceScan
  <2>1. document = None /\ document' = None /\ clauses' = clauses
    BY <1>1 DEF Phases, EvidenceScan, Block
  <2>2. node' = "renderer" => ~ScanRefuses
    BY <1>1 DEF EvidenceScan, Block
  <2>3. clauses = << >> => Unsupported(clauses) = {}
    BY DEF Unsupported, Contents, Asserted
  <2> QED BY <1>0, <1>u, <2>1, <2>2, <2>3 DEF ScanRefuses
<1>2. CASE Renderer
  <2>1. CASE Renders
    BY <1>0, <1>2, <1>u, <2>1 DEF Scanned, Renders, Renderer
  <2>2. CASE RenderFails
    BY <1>n, <2>2 DEF RenderFails
  <2>3. CASE node' = "raised" /\ UNCHANGED rendering
    BY <1>2, <2>3 DEF Phases, Renderer
  <2> QED BY <1>2, <2>1, <2>2, <2>3 DEF Renderer
<1>3. CASE Healer
  <2>1. renderAttempt' = renderAttempt /\ node = "healer"
    BY <1>3 DEF Healer
  <2> QED BY <1>n, <2>1 DEF Counted
<1>4. CASE Raises \/ Intake \/ ParsePropertyData \/ Calculate
           \/ Research \/ Vision \/ EvidenceCheck \/ RecRender
           \/ ValuationStructure \/ ComplianceStructure
           \/ ValuationCritic \/ ComplianceCritic \/ DraftSection
           \/ DraftWhole \/ Upload
  <2>1. /\ document' = document
        /\ renderAttempt' = renderAttempt
        /\ node' # "renderer"
    BY <1>4 DEF Raises, Intake, ParsePropertyData, Calculate, Research,
                Vision, EvidenceCheck, Path, Block, RecRender,
                ValuationStructure, ComplianceStructure, ValuationCritic,
                ComplianceCritic, Criticise, DraftSection, DraftWhole,
                Upload
  <2> QED BY <1>0, <1>u, <2>1 DEF Scanned
<1>5. CASE UNCHANGED vars
  <2>1. /\ document' = document /\ clauses' = clauses
        /\ renderAttempt' = renderAttempt /\ node' = node
    BY <1>5 DEF vars
  <2> QED BY <1>0, <1>u, <2>1 DEF Scanned
<1> QED BY <1>1, <1>2, <1>3, <1>4, <1>5 DEF Next

(***************************************************************************)
(* The drafting loop keeps clause_plan equal to drafted_sections and stops *)
(* when there are as many as the plan has.                                 *)
(***************************************************************************)
LEMMA PathOfValuation ==
    ASSUME NEW type PROVE type \in ValuationTypes
                          <=> Path(type) = "valuation_structure"
BY DEF Path, ValuationTypes, ReconciliationTypes, ComplianceTypes

LEMMA WholeNext ==
    TypeOK /\ Phases /\ Counted /\ Whole /\ [Next]_vars => Whole'
<1> SUFFICES ASSUME TypeOK, Phases, Counted, Whole, [Next]_vars
             PROVE  Whole'
  OBVIOUS
<1>n. /\ renderAttempt \in Nat /\ plan \in Nat
      /\ drafted \in Seq(Clause)
  BY DEF TypeOK
<1> USE DEF intake, planning, rendering, ending
<1>1. CASE Raises
  BY <1>1 DEF Whole, Raises
<1>2. CASE Intake \/ ParsePropertyData \/ Calculate \/ Research \/ Vision
  <2>1. /\ node' \in Early /\ document' = None
    BY <1>2 DEF Phases, Early, Intake, ParsePropertyData, Calculate,
                Research, Vision
  <2> QED BY <2>1 DEF Whole, Early
<1>3. CASE EvidenceCheck
  <2>1. /\ docType' = docType /\ document' = None
        /\ node' = "end" \/ node' = Path(docType)
    BY <1>3 DEF Phases, EvidenceCheck, Block
  <2>2. docType \in ValuationTypes
        => node' = "end" \/ node' = "valuation_structure"
    BY <2>1, PathOfValuation
  <2> QED BY <2>1, <2>2 DEF Whole
<1>4. CASE RecRender \/ ComplianceStructure \/ ComplianceCritic
           \/ DraftWhole
  <2>1. /\ node \in {"rec_renderer", "compliance_structure",
                     "compliance_critic", "compliance_drafter",
                     "agreement_drafter"}
        /\ docType' = docType
    BY <1>4 DEF RecRender, ComplianceStructure, ComplianceCritic, Criticise,
                DraftWhole
  <2> QED BY <2>1 DEF Whole
<1>5. CASE ValuationStructure
  BY <1>5 DEF Phases, Whole, ValuationStructure
<1>6. CASE ValuationCritic
  <2>1. node' \in {"section_drafter", "valuation_structure"}
        /\ node = "valuation_critic"
        /\ UNCHANGED <<docType, plan, drafted, document>>
    BY <1>6 DEF ValuationCritic, Criticise
  <2>2. drafted = << >> => Len(drafted) <= plan
    BY <1>n
  <2> QED BY <2>1, <2>2 DEF Phases, Whole
<1>7. CASE DraftSection
  <2>1. /\ node = "section_drafter" /\ document' = None
        /\ clauses' = drafted'
        /\ node' \in {"section_drafter", "evidence_scan"}
        /\ UNCHANGED <<docType, plan>>
    BY <1>7 DEF Phases, DraftSection
  <2>2. docType \in ValuationTypes =>
          Len(drafted') <= plan
          /\ (node' = "evidence_scan" => Len(drafted') = plan)
    <3> SUFFICES ASSUME Len(drafted) <= plan
                 PROVE  Len(drafted') <= plan
                        /\ (node' = "evidence_scan" => Len(drafted') = plan)
      BY <2>1 DEF Whole
    <3>1. \/ Len(drafted) >= plan /\ drafted' = drafted
          \/ Len(drafted) < plan
             /\ \E clause \in Drafts : drafted' = Append(drafted, clause)
      BY <1>7, <1>n DEF DraftSection
    <3>2. \A clause \in Drafts : Len(Append(drafted, clause)) = Len(drafted) + 1
      BY <1>n, DraftsAssumption
    <3>3. node' = "evidence_scan" => ~(Len(drafted') < plan)
      BY <1>7 DEF DraftSection, SectionsLeft
    <3> QED BY <1>n, <3>1, <3>2, <3>3
  <2> QED BY <2>1, <2>2 DEF Whole
<1>8. CASE EvidenceScan
  BY <1>8 DEF Phases, Whole, EvidenceScan, Block
<1>9. CASE Renderer
  <2>1. CASE Renders
    BY <1>9, <2>1 DEF Whole, Renderer, Renders
  <2>2. CASE RenderFails
    BY <1>n, <2>2 DEF Whole, RenderFails
  <2>3. CASE node' = "raised" /\ UNCHANGED <<intake, planning, rendering>>
    BY <1>9, <2>3 DEF Phases, Whole, Renderer
  <2> QED BY <1>9, <2>1, <2>2, <2>3 DEF Renderer
<1>10. CASE Healer
  <2>1. /\ renderAttempt' = renderAttempt /\ renderAttempt > 0
        /\ node' = "renderer" /\ docType' = docType
    BY <1>10 DEF Healer, Counted
  <2> QED BY <1>n, <2>1 DEF Whole
<1>11. CASE Upload
  BY <1>11 DEF Whole, Upload
<1>12. CASE UNCHANGED vars
  BY <1>12 DEF Whole, vars
<1> QED
  BY <1>1, <1>2, <1>3, <1>4, <1>5, <1>6, <1>7, <1>8, <1>9, <1>10, <1>11,
     <1>12 DEF Next

(***************************************************************************)
(* The counters.                                                           *)
(***************************************************************************)
LEMMA CountedNext == TypeOK /\ Counted /\ [Next]_vars => Counted'
<1> SUFFICES ASSUME TypeOK, Counted, [Next]_vars PROVE Counted'
  OBVIOUS
<1>n. /\ attempt \in Nat /\ renderAttempt \in Nat
      /\ MaxCriticRetries \in Nat /\ MaxHealerRetries \in Nat
      /\ MaxCriticRetries > 0 /\ MaxHealerRetries > 0
  <2>1. attempt \in Nat /\ renderAttempt \in Nat
    BY DEF TypeOK
  <2> QED BY <2>1, RetriesAssumption
<1> USE DEF RetriesAreBounded, intake, planning, rendering, ending
<1>1. CASE Raises
  BY <1>1 DEF Counted, Raises, Early, Drafting
<1>2. CASE Intake \/ ParsePropertyData \/ Calculate \/ Research \/ Vision
  <2>1. /\ node \in Early /\ node' \in Early
        /\ attempt' = attempt /\ renderAttempt' = renderAttempt
    BY <1>2 DEF Early, Intake, ParsePropertyData, Calculate, Research, Vision
  <2> QED BY <1>n, <2>1 DEF Counted, Early
<1>3. CASE EvidenceCheck
  <2>1. /\ attempt' = 0 /\ renderAttempt' = 0
        /\ node' = "end" \/ node' \in Paths
    BY <1>3 DEF Counted, Early, EvidenceCheck, Block, Path, Paths
  <2> QED BY <1>n, <2>1 DEF Counted, Early, Drafting, Paths
<1>4. CASE RecRender \/ DraftSection \/ DraftWhole
  BY <1>4 DEF Counted, Early, Drafting, RecRender, DraftSection, DraftWhole
<1>5. CASE ValuationStructure \/ ComplianceStructure
  <2>1. /\ attempt' = attempt + 1 /\ attempt < MaxCriticRetries
        /\ renderAttempt' = 0
        /\ node' \in {"valuation_critic", "compliance_critic"}
    BY <1>5 DEF Counted, Early, Drafting, ValuationStructure,
                ComplianceStructure
  <2> QED BY <1>n, <2>1 DEF Counted, Early, Drafting
<1>6. CASE ValuationCritic \/ ComplianceCritic
  <2>1. /\ attempt' = attempt /\ renderAttempt' = 0
        /\ attempt <= MaxCriticRetries
        /\ \/ node' \in {"section_drafter", "compliance_drafter"}
           \/ /\ node' \in {"valuation_structure", "compliance_structure"}
              /\ ~(attempt >= MaxCriticRetries)
    BY <1>6 DEF Counted, Early, Drafting, ValuationCritic, ComplianceCritic,
                Criticise, RetriesSpent
  <2> QED BY <1>n, <2>1 DEF Counted, Early, Drafting
<1>7. CASE EvidenceScan
  <2>1. /\ attempt' = attempt /\ attempt <= MaxCriticRetries
        /\ renderAttempt' = 0
        /\ node' \in {"raised", "end", "renderer"}
    BY <1>7 DEF Counted, Early, Drafting, EvidenceScan, Block
  <2> QED BY <1>n, <2>1 DEF Counted, Early, Drafting
<1>8. CASE Renderer
  <2>1. CASE \/ Renders
             \/ /\ node' = "raised" /\ attempt' = attempt
                /\ renderAttempt' = renderAttempt
    BY <1>8, <2>1 DEF Counted, Early, Drafting, Renders
  <2>2. CASE RenderFails
    <3>1. /\ attempt' = attempt /\ attempt <= MaxCriticRetries
          /\ renderAttempt' = renderAttempt + 1
          /\ renderAttempt < MaxHealerRetries
          /\ \/ node' = "upload"
             \/ node' = "healer" /\ renderAttempt + 1 < MaxHealerRetries
      BY <1>8, <2>2 DEF Counted, Renderer, RenderFails, HealerRetriesLeft
    <3> QED BY <1>n, <3>1 DEF Counted, Early, Drafting
  <2> QED
    BY <1>8, <2>1, <2>2 DEF Renderer
<1>9. CASE Healer \/ Upload
  BY <1>9 DEF Counted, Early, Drafting, Healer, Upload
<1>10. CASE UNCHANGED vars
  BY <1>10 DEF Counted, vars
<1> QED
  BY <1>1, <1>2, <1>3, <1>4, <1>5, <1>6, <1>7, <1>8, <1>9, <1>10 DEF Next

-------------------------------------------------------------------------------
(***************************************************************************)
(* Every variable keeps its type.                                          *)
(***************************************************************************)
THEOREM GraphTypeCorrect == Spec => []TypeOK
BY TypeInit, TypeNext, PTL DEF Spec

(***************************************************************************)
(* The inductive invariant.                                                *)
(***************************************************************************)
LEMMA InvInit == Init => Inv
<1> SUFFICES ASSUME Init PROVE Inv
  OBVIOUS
<1>1. TypeOK
  BY TypeInit
<1>2. MaxCriticRetries \in Nat /\ MaxHealerRetries \in Nat
      /\ MaxCriticRetries > 0 /\ MaxHealerRetries > 0
  BY RetriesAssumption
<1>3. Counted
  BY <1>2 DEF Init, Counted, RetriesAreBounded, Early, Drafting
<1>4. Phases /\ Gated
  BY DEF Init, Phases, Gated, Delivered, Early
<1>5. FileIsSourced /\ Scanned /\ Whole
  BY DEF Init, FileIsSourced, Scanned, Whole
<1> QED BY <1>1, <1>3, <1>4, <1>5 DEF Inv

THEOREM GraphInvariant == Spec => []Inv
<1>1. Inv /\ [Next]_vars => Inv'
  BY TypeNext, PhasesNext, GatedNext, FileIsSourcedNext, ScannedNext,
     WholeNext, CountedNext DEF Inv
<1> QED BY InvInit, <1>1, PTL DEF Spec

(***************************************************************************)
(* A refused job leaves no file and no URL.                                *)
(***************************************************************************)
THEOREM RefusalsDeliverNothing == Spec => []BlockedDeliversNothing
<1>1. Inv => BlockedDeliversNothing
  BY DEF Inv, Phases, BlockedDeliversNothing
<1> QED BY GraphInvariant, <1>1, PTL

(***************************************************************************)
(* Nothing is delivered of a type whose evidence the gate found missing.   *)
(***************************************************************************)
THEOREM DeliveriesPassedTheGate == Spec => []DeliveredTypeIsSupported
<1>1. Inv => DeliveredTypeIsSupported
  BY DEF Inv, Gated, DeliveredTypeIsSupported
<1> QED BY GraphInvariant, <1>1, PTL

(***************************************************************************)
(* No content quoting a figure without a source and no unregistered        *)
(* section is delivered, however often a healer rewrote the clauses.  (Of  *)
(* headings and cover, which no node checks, it says nothing.)             *)
(***************************************************************************)
THEOREM DeliveredContentsSourced == Spec => []DeliveredContentsAreSourced
<1>1. Inv => DeliveredContentsAreSourced
  BY DEF Inv, Phases, FileIsSourced, DeliveredContentsAreSourced
<1> QED BY GraphInvariant, <1>1, PTL

(***************************************************************************)
(* Contents no healer touched assert only what the bundle holds, whatever  *)
(* the headings above them and the cover assert.                           *)
(***************************************************************************)
THEOREM UnhealedContentsSupported == Spec => []UnhealedContentsHold
<1>1. Inv => UnhealedContentsHold
  <2> SUFFICES ASSUME Inv, Delivered, renderAttempt = 0, Bundle # None,
                      NEW e \in Asserted(Contents(document))
               PROVE  Has(Bundle, e)
    BY DEF UnhealedContentsHold
  <2>1. document # None
    BY DEF Inv, Phases
  <2>2. Unsupported(document) = {}
    BY <2>1 DEF Inv, Scanned
  <2> QED BY <2>2 DEF Unsupported
<1> QED BY GraphInvariant, <1>1, PTL

(***************************************************************************)
(* A valuation no healer touched has every section of its last plan.       *)
(***************************************************************************)
THEOREM UnhealedReportsAreWhole == Spec => []UnhealedReportIsWhole
<1>1. Inv => UnhealedReportIsWhole
  BY DEF Inv, Phases, Whole, UnhealedReportIsWhole
<1> QED BY GraphInvariant, <1>1, PTL

(***************************************************************************)
(* The critic and the healer loops stop at their settings.                 *)
(***************************************************************************)
THEOREM RetriesStayBounded == Spec => []RetriesAreBounded
<1>1. Inv => RetriesAreBounded
  BY DEF Inv, Counted
<1> QED BY GraphInvariant, <1>1, PTL
=============================================================================
