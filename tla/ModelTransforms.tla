--------------------------- MODULE ModelTransforms ---------------------------
(* Optimization of one model before training: structural inspection, adapter *)
(* resolution, the execution plan, and its transactional application by      *)
(* handlers that replace modules (packing), patch their forward              *)
(* (rematerialization) or are registered by an adapter ("foreign": they may  *)
(* raise anywhere).  Nothing of the model is left half-transformed.          *)
EXTENDS Naturals, Sequences, FiniteSets, SequencesExt

CONSTANTS
  Ancestors,     \* Ancestors[p]: the strict prefixes of the module path p
  Transforms,    \* id -> [kind, component, targets, layout, inverse]
  ProviderSets,  \* the collections of providers a planner is built from
  Adapters,      \* the adapters registered, as records
  RequestLists,  \* the lists of operation requests
  Models,        \* the models inspected: [class, heads, kv, rope, alibi, ffn,
                 \* qkv, norms, evidence, shared]
  Environments,  \* [backend, precision, features, versions]
  HandlerSets    \* registered handlers: id -> inverse id, for some ids

VARIABLES
  phase,     \* "idle", "planned", "refused", "applying", "undoing" (by the
             \* registry), "failed"; once the caller has the transaction:
             \* "open", "retracting", "closed", "stuck" (a rollback raised)
  plan,      \* the ExecutionPlan: policy, status, decisions, transforms
  tree,      \* tree[p]: the module at path p (implementation, parameters)
  forward,   \* forward[m]: the checkpoint wrappers around m's forward
  before,    \* what tree and forward were when the registry was called
  applied,   \* _AppliedTransform items, oldest first
  undo,      \* how many of them the running rollback still has to visit
  failed,    \* transforms whose rollback raised
  committed, \* TransformTransaction.committed
  setup      \* the model, its environment, handlers and packable paths

vars == <<phase, plan, tree, forward, before, applied, undo, failed,
          committed, setup>>

Paths == DOMAIN Ancestors
None == "none"

(* --- Inspection and adapters --------------------------------------------- *)

Known(kind) == [status |-> "known", kind |-> kind]
Unknown == [status |-> "unknown", kind |-> None]

(* inspect_dense_causal_lm: only direct evidence makes a claim; no           *)
(* num_key_value_heads (0) means one per attention head.                     *)
Attention(m) ==
  LET kv == IF m.kv = 0 THEN m.heads ELSE m.kv
  IN  IF m.heads = 0 \/ kv > m.heads \/ m.heads % kv # 0 THEN Unknown
      ELSE Known(IF kv = m.heads THEN "mha" ELSE IF kv = 1 THEN "mqa"
                 ELSE "gqa")

(* Structural evidence, where the caller has it, decides what configuration  *)
(* and modules cannot show.                                                  *)
Inspect(m) ==
  LET If(cond, claim) == IF cond THEN claim ELSE Unknown
      Evident(c, seen) ==
        IF c \in DOMAIN m.evidence THEN m.evidence[c] ELSE seen
  IN  [attention |-> Attention(m),
       position |-> IF m.rope THEN Known("rope")
                    ELSE If(m.alibi, Known("alibi")),
       normalization |-> Evident("normalization",
                                 If(m.norms, Known("layer_norm"))),
       mlp |-> If(m.ffn, [status |-> "inferred", kind |-> "feed_forward"]),
       residual |-> Evident("residual", Unknown),
       projections |-> If(m.qkv, Known("separate_qkv")),
       embedding |-> Known("token_embedding"), lm_head |-> Known("linear"),
       checkpointing |-> Known("gradient_checkpointing")]

ClaimsOf(caps, component) ==
  IF caps[component].status \in {"known", "inferred"}
  THEN {caps[component].kind} ELSE {}

Eligible(a, m, env) ==
  /\ m.class \in a.classes
  /\ \A c \in DOMAIN a.kinds : a.kinds[c] \in ClaimsOf(Inspect(m), c)
  /\ \A g \in DOMAIN a.versions :
       g \in DOMAIN env.versions /\ env.versions[g] \in a.versions[g]

(* Adapters and providers are tried by priority, then by name.               *)
Ahead(x, y) == \/ x.priority > y.priority
               \/ x.priority = y.priority /\ x.order < y.order
First(s) == CHOOSE x \in s : \A y \in s : ~Ahead(y, x)

(* ModelAdapterRegistry.resolve: the first eligible one, or none.            *)
Resolve(m, env) ==
  LET fit == {a \in Adapters : Eligible(a, m, env)}
  IN  IF fit = {} THEN None ELSE First(fit).id

Components ==
  {"attention", "position", "normalization", "mlp", "residual", "projections",
   "embedding", "lm_head", "checkpointing"}

(* --- Planning ------------------------------------------------------------ *)

(* ProviderSpec and OptimizationPlanner.register: every provider names       *)
(* transforms of its own component, and no id is registered twice.           *)
Registers(ps) ==
  /\ \A p \in ps : \A t \in ToSet(p.transforms) :
       /\ Transforms[t].component = p.component
       /\ p.component \in Components
  /\ \A p, q \in ps : p # q =>
       /\ p.id # q.id
       /\ ToSet(p.transforms) \cap ToSet(q.transforms) = {}

(* OptimizationPlanner._eligible                                             *)
Candidates(ps, r, m, env) ==
  LET Guards(p) ==
        /\ p.component = r.component
        /\ env.backend \in p.backends
        /\ env.precision \in p.precisions
        /\ p.kinds = {} \/ Inspect(m)[r.component].kind \in p.kinds
        /\ r.requirements \subseteq p.supports
        /\ p.runtime \subseteq env.features
  IN  {p \in ps : Guards(p)}

(* Mutant of Choice: a fallback stands in under every policy.                *)
Choice_AnyFallback(ps, r, m, env, policy) ==
  LET all == Candidates(ps, r, m, env)
      fit == {p \in all : IF r.requested = None THEN ~p.fallback
                          ELSE p.id = r.requested}
  IN  IF fit = {} THEN {p \in all : p.fallback} ELSE fit

(* The providers of which the first is chosen: the one a request asks for,   *)
(* or those that are no fallback; the auto policy falls back.                *)
Choice(ps, r, m, env, policy) ==
  LET all == Candidates(ps, r, m, env)
      wanted == {p \in all : IF r.requested = None THEN ~p.fallback
                             ELSE p.id = r.requested}
  IN  IF wanted = {} /\ policy = "auto" THEN {p \in all : p.fallback}
      ELSE wanted

(* One ProviderDecision.                                                     *)
Decision(ps, r, m, env, policy) ==
  LET choice == Choice(ps, r, m, env, policy)
      chosen == First(choice)
      Status ==
        IF policy = "disabled" THEN "skipped"
        ELSE IF choice = {}
        THEN IF policy = "required" \/ r.requested # None
             THEN "blocked" ELSE "skipped"
        ELSE IF \/ r.requested = None /\ chosen.fallback
                \/ r.requested \notin {None, chosen.id}
        THEN "fallback" ELSE "selected"
  IN  [component |-> r.component, status |-> Status,
       requested |-> IF Status = "fallback" /\ r.requested = None
                     THEN "auto" ELSE r.requested,
       provider |-> IF Status \in {"selected", "fallback"}
                    THEN chosen.id ELSE None,
       transforms |-> IF Status \in {"selected", "fallback"}
                      THEN chosen.transforms ELSE <<>>]

(* OptimizationPlanner.plan: one blocked decision blocks the whole plan, and *)
(* only a ready plan carries transformations.                                *)
Plan(ps, rs, m, env, policy) ==
  LET decisions == [i \in DOMAIN rs |-> Decision(ps, rs[i], m, env, policy)]
      Some(status) == \E i \in DOMAIN rs : decisions[i].status = status
      status == IF Some("blocked") THEN "blocked"
                ELSE IF Some("selected") \/ Some("fallback") THEN "ready"
                ELSE "noop"
  IN  [policy |-> policy, adapter |-> Resolve(m, env), decisions |-> decisions,
       status |-> status,
       transforms |->
         IF status # "ready" THEN <<>>
         ELSE FlattenSeq([i \in DOMAIN rs |-> decisions[i].transforms])]

(* ProviderDecision.__post_init__ *)
DecisionConstructs(d) ==
  /\ (d.provider # None) = (d.status \in {"selected", "fallback"})
  /\ d.status = "selected" => d.requested \in {None, d.provider}
  /\ d.status = "fallback" => d.requested \notin {None, d.provider}

(* ModelTransformation.__post_init__ *)
TransformConstructs(t) ==
  /\ t.targets # <<>> /\ IsInjective(t.targets)
  /\ t.inverse \notin DOMAIN Transforms

(* ExecutionPlan.__post_init__: no two transformations own one target path   *)
(* (nested paths are not compared), each belongs to a component a provider   *)
(* was selected for, and the status agrees with the decisions.               *)
PlanConstructs(p) ==
  LET Targets(i) == ToSet(Transforms[p.transforms[i]].targets)
      chosen == {d \in ToSet(p.decisions) : d.provider # None}
  IN  /\ \A i, j \in DOMAIN p.transforms : i # j =>
           Targets(i) \cap Targets(j) = {}
      /\ \A i \in DOMAIN p.transforms : \E d \in chosen :
           d.component = Transforms[p.transforms[i]].component
      /\ p.status # "ready" => p.transforms = <<>>
      /\ p.status = "ready" => chosen # {}
      /\ p.status = "noop" => chosen = {}
      /\ (\E d \in ToSet(p.decisions) : d.status = "blocked") =>
           p.status = "blocked"

WellFormed(p) ==
  /\ \A d \in ToSet(p.decisions) : DecisionConstructs(d)
  /\ \A i \in DOMAIN p.transforms :
       TransformConstructs(Transforms[p.transforms[i]])
  /\ PlanConstructs(p)

(* --- The model ----------------------------------------------------------- *)

(* The module at every path at first: a shared model has one module at both  *)
(* MLP paths.                                                                *)
Original(m) ==
  [p \in Paths |->
     LET own == IF m.shared /\ p = "mlp2" THEN "mlp" ELSE p
     IN  [impl |-> own, params |-> own, names |-> "own"]]

(* _resolve_module: a module that replaced its parent has no such child.     *)
Resolves(p) == \A a \in Ancestors[p] : tree[a].impl \in Paths

(* _parameter_aliases: which names stand for one parameter.                  *)
Aliases(t) ==
  {{<<q, t[q].names>> : q \in {r \in Paths : t[r].params = t[p].params}} :
     p \in Paths}

Impls == Paths \cup DOMAIN Transforms

(* --- The registry -------------------------------------------------------- *)

Init ==
  /\ phase = "idle" /\ plan = [status |-> None, transforms |-> <<>>]
  /\ tree = [p \in Paths |-> [impl |-> p, params |-> p, names |-> "own"]]
  /\ forward = [m \in Impls |-> <<>>] /\ before = <<tree, forward>>
  /\ applied = <<>> /\ undo = 0 /\ failed = {} /\ committed = FALSE
  /\ setup = [handlers |-> <<>>, packable |-> {}]

MakePlan ==
  /\ phase = "idle"
  /\ \E ps \in ProviderSets, rs \in RequestLists, m \in Models,
        env \in Environments, policy \in {"disabled", "auto", "required"} :
       /\ plan' = Plan(ps, rs, m, env, policy)
       /\ phase' = IF Registers(ps) /\ WellFormed(plan')
                   THEN "planned" ELSE "refused"
       /\ tree' = Original(m)
  /\ before' = <<tree', forward>>
  /\ \E hs \in HandlerSets, fit \in {Paths, {}} :
       setup' = [handlers |-> hs, packable |-> fit]
  /\ UNCHANGED <<forward, applied, undo, failed, committed>>

(* ModelTransformRegistry.apply up to its loop: a blocked plan or a missing  *)
(* handler is refused, a plan without transformations opens at once.         *)
Apply ==
  /\ phase = "planned"
  /\ phase' = IF \/ plan.status = "blocked"
                 \/ ~(ToSet(plan.transforms) \subseteq DOMAIN setup.handlers)
              THEN "refused"
              ELSE IF plan.transforms = <<>> THEN "open" ELSE "applying"
  /\ UNCHANGED <<plan, tree, forward, before, applied, undo, failed,
                 committed, setup>>

CurrentId == plan.transforms[Len(applied) + 1]
Current == Transforms[CurrentId]

(* The handler of the next transformation may not be its declared inverse,   *)
(* and a capture raises when a target is missing or is named twice; a        *)
(* foreign capture may raise anyway.                                         *)
CanCapture ==
  /\ setup.handlers[CurrentId] = Current.inverse
  /\ \A p \in ToSet(Current.targets) : Resolves(p)
  /\ Current.kind = "remat" =>
       /\ ~Current.layout
       /\ Cardinality({tree[p].impl : p \in ToSet(Current.targets)})
            = Len(Current.targets)

Snapshot ==
  IF Current.kind = "remat"
  THEN [m \in {tree[p].impl : p \in ToSet(Current.targets)} |-> forward[m]]
  ELSE [p \in ToSet(Current.targets) |-> tree[p]]

Fails(done) ==
  /\ phase' = "undoing" /\ applied' = done /\ undo' = Len(done)
  /\ failed' = {}
  /\ UNCHANGED <<plan, before, committed, setup>>

CaptureFails ==
  /\ phase = "applying"
  /\ ~CanCapture \/ Current.kind = "foreign"
  /\ Fails(applied) /\ UNCHANGED <<tree, forward>>

Item == [id |-> CurrentId, snapshot |-> Snapshot]

Advance(t) ==
  LET done == Append(applied, Item)
      undeclared == ~Current.layout /\ Aliases(t) # Aliases(tree)
  IN  /\ tree' = t
      /\ IF undeclared
         THEN Fails(done)
         ELSE /\ applied' = done
              /\ phase' = IF Len(done) = Len(plan.transforms)
                          THEN "open" ELSE "applying"
              /\ UNCHANGED <<plan, before, undo, failed, committed, setup>>

(* qkv_pack, partial_qkv_pack and gated_mlp_pack: exactly one path, whose    *)
(* projections fit and whose parameters nothing else uses.                   *)
CanPack(p) ==
  /\ p \in setup.packable
  /\ \A q \in Paths \ {p} : tree[q].params # tree[p].params

ApplyPack ==
  /\ phase = "applying" /\ CanCapture /\ Current.kind = "pack"
  /\ LET p == Current.targets[1]
         packed == [impl |-> CurrentId, params |-> CurrentId, names |-> "packed"]
     IN  IF Len(Current.targets) = 1 /\ CanPack(p)
         THEN Advance([tree EXCEPT ![p] = packed]) /\ UNCHANGED forward
         ELSE Fails(Append(applied, Item)) /\ UNCHANGED <<tree, forward>>

(* module_rematerialization_transform_handler.apply.                         *)
ApplyRemat ==
  /\ phase = "applying" /\ CanCapture /\ Current.kind = "remat"
  /\ LET hit == {tree[p].impl : p \in ToSet(Current.targets)}
     IN  forward' = [m \in Impls |-> IF m \in hit
                       THEN Append(forward[m], CurrentId) ELSE forward[m]]
  /\ Advance(tree)

(* A foreign handler: it replaces its target, keeping or cloning the         *)
(* parameters, and may raise before or after it did.                         *)
ApplyForeign ==
  /\ phase = "applying" /\ CanCapture /\ Current.kind = "foreign"
  /\ UNCHANGED forward
  /\ \E params \in {CurrentId, tree[Current.targets[1]].params} :
       LET made == [tree EXCEPT ![Current.targets[1]] =
             [impl |-> CurrentId, params |-> params,
              names |-> tree[Current.targets[1]].names]]
       IN  \/ Advance(made)
           \/ tree' \in {tree, made} /\ Fails(Append(applied, Item))

(* --- Transaction --------------------------------------------------------- *)

(* Mutant of UndoIndex: the items are visited as they were applied.          *)
UndoIndex_FirstApplied == Len(applied) + 1 - undo

(* _rollback_all visits the applied items from the last to the first.        *)
UndoIndex == undo

(* _rollback_all, one item: a replaced module is put back if its parent is   *)
(* there, a forward always; a foreign rollback may raise, and the earlier    *)
(* items are visited all the same.                                           *)
UndoOne ==
  /\ phase \in {"undoing", "retracting"} /\ undo > 0
  /\ LET item == applied[UndoIndex]
         kind == Transforms[item.id].kind
         back == item.snapshot
         reachable == kind = "remat" \/ \A p \in DOMAIN back : Resolves(p)
     IN  \/ /\ reachable
            /\ IF kind = "remat"
               THEN /\ forward' = [m \in Impls |-> IF m \in DOMAIN back
                                     THEN back[m] ELSE forward[m]]
                    /\ UNCHANGED tree
               ELSE /\ tree' = [p \in Paths |-> IF p \in DOMAIN back
                                  THEN back[p] ELSE tree[p]]
                    /\ UNCHANGED forward
            /\ UNCHANGED failed
         \/ /\ ~reachable \/ kind = "foreign"
            /\ failed' = failed \cup {item.id}
            /\ UNCHANGED <<tree, forward>>
  /\ undo' = undo - 1
  /\ UNCHANGED <<phase, plan, before, applied, committed, setup>>

(* The registry's own transaction is gone with the exception it raises; the  *)
(* caller's stays open when its rollback raised.                             *)
Undone ==
  /\ phase \in {"undoing", "retracting"} /\ undo = 0
  /\ phase' = IF phase = "undoing" THEN "failed"
              ELSE IF failed = {} THEN "closed" ELSE "stuck"
  /\ UNCHANGED <<plan, tree, forward, before, applied, undo, failed,
                 committed, setup>>

Commit ==
  /\ phase \in {"open", "stuck"} /\ phase' = "closed" /\ committed' = TRUE
  /\ UNCHANGED <<plan, tree, forward, before, applied, undo, failed, setup>>

(* rollback(), also by __exit__ when the body of the with statement raised.  *)
Rollback ==
  /\ phase \in {"open", "stuck"}
  /\ phase' = "retracting" /\ undo' = Len(applied) /\ failed' = {}
  /\ UNCHANGED <<plan, tree, forward, before, applied, committed, setup>>

Next ==
  \/ MakePlan \/ Apply \/ CaptureFails \/ ApplyPack \/ ApplyRemat
  \/ ApplyForeign \/ UndoOne \/ Undone \/ Commit \/ Rollback

Spec == Init /\ [][Next]_vars

(* --- Properties ---------------------------------------------------------- *)

Below(p) == Ancestors[p] \cup {p}
Touches(id, p) == ToSet(Transforms[id].targets) \cap Below(p) # {}

(* A failed or rolled-back application leaves at every path the module that  *)
(* was there, with the forward it had, unless the rollback of a foreign      *)
(* handler at that path or above it raised; and what is committed is the     *)
(* whole plan, each transform in effect unless a later one replaced a module *)
(* above its target (or the caller committed after a rollback that raised).  *)
TransformsAtomic ==
  /\ phase \in {"failed", "closed", "stuck", "refused"} /\ ~committed =>
       \A p \in Paths :
         (\A id \in failed :
            Transforms[id].kind = "foreign" => ~Touches(id, p)) =>
           /\ tree[p] = before[1][p]
           /\ forward[tree[p].impl] = before[2][tree[p].impl]
  /\ committed /\ failed = {} =>
       \A i \in DOMAIN plan.transforms :
         LET t == Transforms[plan.transforms[i]]
             Kept(p) == \A j \in (i + 1)..Len(plan.transforms) :
               ~Touches(plan.transforms[j], p)
         IN  \A p \in ToSet(t.targets) : Kept(p) =>
               IF t.kind = "remat"
               THEN plan.transforms[i] \in ToSet(forward[tree[p].impl])
               ELSE tree[p].impl = plan.transforms[i]

(* Under the required policy a committed plan answers every request with a   *)
(* provider that is no fallback or was asked for by name; under the disabled *)
(* policy the model is as it was.                                            *)
PolicyHonoured ==
  committed =>
    /\ plan.policy = "required" =>
         \A i \in DOMAIN plan.decisions : plan.decisions[i].status = "selected"
    /\ plan.policy = "disabled" => <<tree, forward>> = before
==============================================================================
