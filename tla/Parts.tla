------------------------------- MODULE Parts --------------------------------
(***************************************************************************)
(* Six components that share no state, side by side: a behaviour is one of *)
(* the part that the initial state names, and the variables of the other   *)
(* parts keep a fixed value.  Chosen says which parts there are.           *)
(* TokenBudget is extended, so that its invariants keep their own names;   *)
(* in the behaviours of other parts its ranks have not begun.              *)
(***************************************************************************)
EXTENDS TokenBudget, Sequences

CONSTANTS
  Chosen,
  \* TrainingRequest
  Budgets, MaxSteps,
  \* ModelTransforms
  Ancestors, Transforms, ProviderSets, Adapters, RequestLists, Models,
  Environments, HandlerSets,
  \* StateLayouts
  Layouts, TieGroups, Defects, MaxUpdates,
  \* CheckpointManifests
  Transactions, WorldSize, Backends, MaxRetained, MaxSlips,
  \* LocalCheckpoint
  Sessions, LoaderLength, Flaws, MaxMicro, MaxSessions

-----------------------------------------------------------------------------
(* Paths and their prefixes; a transformation is not a path; its targets are. *)
(* An adapter's own transformation has one target.  Providers are ranked.     *)
ASSUME PlannerAssumption ==
  /\ \A p \in DOMAIN Ancestors :
       /\ Ancestors[p] \subseteq DOMAIN Ancestors \ {p}
       /\ \A a \in Ancestors[p] : Ancestors[a] \subseteq Ancestors[p]
  /\ "mlp2" \in DOMAIN Ancestors => "mlp" \in DOMAIN Ancestors
  /\ DOMAIN Transforms \cap DOMAIN Ancestors = {}
  /\ \A t \in DOMAIN Transforms :
       /\ Transforms[t].kind \in {"pack", "remat", "foreign"}
       /\ Transforms[t].targets \in Seq(DOMAIN Ancestors)
       /\ Transforms[t].kind = "foreign" => Len(Transforms[t].targets) = 1
  /\ \A ps \in ProviderSets :
       /\ IsFiniteSet(ps)
       /\ \A p \in ps : /\ p.priority \in Int /\ p.order \in Int
                        /\ p.transforms \in Seq(DOMAIN Transforms)
  /\ \A rs \in RequestLists : Len(rs) \in Nat /\ DOMAIN rs = 1..Len(rs)

(* 0 stands for no transaction; max_retained is a positive integer.          *)
ASSUME ManifestAssumption ==
  /\ 0 \notin Transactions /\ MaxRetained \in Nat \ {0}
  /\ WorldSize \in Nat \ {0} /\ MaxSlips \in Nat

(* A loader has a batch; 0 stands for no seed and for an order of its own.   *)
ASSUME EngineAssumption ==
  /\ LoaderLength \in Nat \ {0} /\ MaxMicro \in Nat
  /\ \A s \in Sessions : s.seed # 0

(* Projections are counted in heads and widths; a group of ties is a         *)
(* sequence of keys.                                                         *)
ASSUME LayoutAssumption ==
  /\ \A layout \in Layouts :
       /\ Len(layout) \in Nat /\ DOMAIN layout = 1..Len(layout)
       /\ \A i \in DOMAIN layout :
            LET s == layout[i]
            IN /\ s.bias \in BOOLEAN
               /\ s.kind \in {"qkv", "partial"} =>
                    s.heads \in Nat /\ s.kv \in Nat /\ s.dim \in Nat
               /\ s.kind = "gated" => s.width \in Nat
  /\ \A groups \in TieGroups : \A g \in groups :
       Len(g) \in Nat /\ DOMAIN g = 1..Len(g)

-----------------------------------------------------------------------------
VARIABLES
  part,
  rqStage, rqArgs, rqOptions, rqHorizon, tfPhase, tfPlan, tfTree,
  tfForward, tfBefore, tfApplied, tfUndo, tfFailed, tfCommitted, tfSetup,
  lyAt, lySpec, lyReference, lyLive, lyStored, lyExported, lyReport,
  lyUpdates, cmPhase, cmTx, cmDurable, cmRetained, cmWriter,
  cmDisk, cmGranted, lcPc, lcSession, lcEngine, lcLoader, lcInitial, lcMicro,
  lcDisk, lcLoading, lcSessions

RequestVars == <<rqStage, rqArgs, rqOptions, rqHorizon>>
PlannerVars ==
  <<tfPhase, tfPlan, tfTree, tfForward, tfBefore, tfApplied, tfUndo, tfFailed,
    tfCommitted, tfSetup>>
LayoutVars ==
  <<lyAt, lySpec, lyReference, lyLive, lyStored, lyExported, lyReport,
    lyUpdates>>
ManifestVars ==
  <<cmPhase, cmTx, cmDurable, cmRetained, cmWriter, cmDisk, cmGranted>>
EngineVars ==
  <<lcPc, lcSession, lcEngine, lcLoader, lcInitial, lcMicro, lcDisk,
    lcLoading, lcSessions>>

-----------------------------------------------------------------------------
Request == INSTANCE TrainingRequest WITH
  stage <- rqStage, args <- rqArgs, options <- rqOptions,
  horizon <- rqHorizon

Planner == INSTANCE ModelTransforms WITH
  phase <- tfPhase, plan <- tfPlan, tree <- tfTree, forward <- tfForward,
  before <- tfBefore, applied <- tfApplied, undo <- tfUndo,
  failed <- tfFailed, committed <- tfCommitted, setup <- tfSetup

Layout == INSTANCE StateLayouts WITH
  at <- lyAt, spec <- lySpec, reference <- lyReference, live <- lyLive,
  stored <- lyStored, exported <- lyExported, report <- lyReport,
  updates <- lyUpdates

Manifest == INSTANCE CheckpointManifests WITH
  World <- WorldSize,
  phase <- cmPhase, tx <- cmTx, durable <- cmDurable, retained <- cmRetained,
  writer <- cmWriter, disk <- cmDisk, granted <- cmGranted

Engine == INSTANCE LocalCheckpoint WITH
  pc <- lcPc, session <- lcSession, engine <- lcEngine, loader <- lcLoader,
  initial <- lcInitial, micro <- lcMicro, disk <- lcDisk,
  loading <- lcLoading, sessions <- lcSessions

Off == "off"

RequestOff ==
  /\ rqStage = Off /\ rqArgs = Off /\ rqOptions = Off /\ rqHorizon = Off
PlannerOff ==
  /\ tfPhase = Off /\ tfPlan = Off /\ tfTree = Off /\ tfForward = Off
  /\ tfBefore = Off /\ tfApplied = Off /\ tfUndo = Off /\ tfFailed = Off
  /\ tfCommitted = Off /\ tfSetup = Off
LayoutOff ==
  /\ lyAt = Off /\ lySpec = Off /\ lyReference = Off /\ lyLive = Off
  /\ lyStored = Off /\ lyExported = Off /\ lyReport = Off /\ lyUpdates = Off
LoopOff ==
  /\ config = CHOOSE c \in Configurations : c.max_tokens = 0
  /\ rank = [r \in Ranks |-> Started(config, r)]
ManifestOff ==
  /\ cmPhase = Off /\ cmTx = Off /\ cmDurable = Off /\ cmRetained = Off
  /\ cmWriter = Off /\ cmDisk = Off /\ cmGranted = Off
EngineOff ==
  /\ lcPc = Off /\ lcSession = Off /\ lcEngine = Off /\ lcLoader = Off
  /\ lcInitial = Off /\ lcMicro = Off /\ lcDisk = Off /\ lcLoading = Off
  /\ lcSessions = Off

PartsInit ==
  /\ part \in Chosen
  /\ IF part = "request" THEN Request!Init ELSE RequestOff
  /\ IF part = "transforms" THEN Planner!Init ELSE PlannerOff
  /\ IF part = "layouts" THEN Layout!Init ELSE LayoutOff
  /\ IF part = "budget" THEN Init ELSE LoopOff
  /\ IF part = "manifests" THEN Manifest!Init ELSE ManifestOff
  /\ IF part = "checkpoint" THEN Engine!Init ELSE EngineOff

(* A step of the part; the others stand still.                              *)
RequestStep ==
  /\ part = "request" /\ Request!Next
  /\ UNCHANGED <<part, PlannerVars, LayoutVars, budgetVars,
                 ManifestVars, EngineVars>>
PlannerStep ==
  /\ part = "transforms" /\ Planner!Next
  /\ UNCHANGED <<part, RequestVars, LayoutVars, budgetVars,
                 ManifestVars, EngineVars>>
LayoutStep ==
  /\ part = "layouts" /\ Layout!Next
  /\ UNCHANGED <<part, RequestVars, PlannerVars, budgetVars,
                 ManifestVars, EngineVars>>
LoopStep ==
  /\ part = "budget" /\ Next
  /\ UNCHANGED <<part, RequestVars, PlannerVars, LayoutVars,
                 ManifestVars, EngineVars>>
ManifestStep ==
  /\ part = "manifests" /\ Manifest!Next
  /\ UNCHANGED <<part, RequestVars, PlannerVars, LayoutVars,
                 budgetVars, EngineVars>>
EngineStep ==
  /\ part = "checkpoint" /\ Engine!Next
  /\ UNCHANGED <<part, RequestVars, PlannerVars, LayoutVars,
                 budgetVars, ManifestVars>>

PartsNext ==
  \/ RequestStep \/ PlannerStep \/ LayoutStep
  \/ LoopStep \/ ManifestStep \/ EngineStep

PartsVars ==
  <<part, RequestVars, PlannerVars, LayoutVars, budgetVars, ManifestVars,
    EngineVars>>

PartsSpec == PartsInit /\ [][PartsNext]_PartsVars

-----------------------------------------------------------------------------
(* A TPU worker trains with what the facade was asked for.                 *)
TrainsAsAsked == part = "request" => Request!TrainsAsAsked

(* Applying a plan, and rolling it back, is all or nothing at every path   *)
(* of the model.                                                           *)
TransformsAtomic == part = "transforms" => Planner!TransformsAtomic

(* A committed plan obeys the policy it was made under.                    *)
PolicyHonoured == part = "transforms" => Planner!PolicyHonoured

(* Packing a model, training it, saving and resuming it leave its export   *)
(* what an unpacked training would have made.                              *)
LayoutRoundTrip == part = "layouts" => Layout!LayoutRoundTrip

(* A resume or an export that a manifest is granted can be carried out.    *)
GrantedIsWhole == part = "manifests" => Manifest!GrantedIsWhole

(* The asynchronous lifecycle claims only what is on disk.                 *)
DurableIsPublished == part = "manifests" => Manifest!DurableIsPublished

(* A local checkpoint is restored in full or, but for what the preflight   *)
(* cannot see, is refused with nothing changed.                            *)
ResumeAllOrNothing == part = "checkpoint" => Engine!ResumeAllOrNothing

(* A resumed loader stands where the saved one stood, in the same order,   *)
(* if the checkpoint names the generator state its loader began with.      *)
ReplayIsExact == part = "checkpoint" => Engine!ReplayIsExact
=============================================================================
