------------------------------ MODULE MCParts ------------------------------
(***************************************************************************)
(* The values that the configurations give to the constants of Parts.      *)
(***************************************************************************)
EXTENDS Parts

-----------------------------------------------------------------------------
(* TrainingRequest *)

MCBudgets == {"steps", "tokens", "both"}

-----------------------------------------------------------------------------
(* ModelTransforms: an attention block with its projections, two MLPs.  A  *)
(* model may have grouped heads that do not divide, and shared modules; a  *)
(* handler may be missing or belong to another inverse.                    *)

MCAncestors == [p \in {"attn", "attn.qkv", "mlp", "mlp2"} |->
                  IF p = "attn.qkv" THEN {"attn"} ELSE {}]

Transform(kind, component, targets, layout) ==
  [kind |-> kind, component |-> component, targets |-> targets,
   layout |-> layout, inverse |-> "undo"]

MCTransforms ==
  [pack      |-> Transform("pack", "projections", <<"attn.qkv">>, TRUE),
   gate      |-> Transform("pack", "mlp", <<"mlp">>, TRUE),
   remat     |-> Transform("remat", "attention", <<"attn">>, FALSE),
   rematmlps |-> Transform("remat", "mlp", <<"mlp", "mlp2">>, FALSE),
   kernel    |-> Transform("foreign", "attention", <<"attn">>, FALSE),
   clone     |-> Transform("foreign", "mlp", <<"mlp2">>, FALSE)]

Provider(id, component, order, transforms) ==
  [id |-> id, component |-> component, order |-> order,
   transforms |-> transforms, fallback |-> id = "remat",
   priority |-> IF id = "pallas" THEN 1 ELSE 0,
   backends |-> {"xla"}, precisions |-> {"bf16"},
   kinds |-> IF id = "packer" THEN {"separate_qkv"} ELSE {},
   supports |-> {},
   runtime |-> IF id = "pallas" THEN {"pallas"} ELSE {}]

Packer == Provider("packer", "projections", 1, <<"pack">>)
Gater == Provider("gater", "mlp", 2, <<"gate", "rematmlps">>)
Pallas == Provider("pallas", "attention", 3, <<"kernel">>)
Remat == Provider("remat", "attention", 4, <<"remat">>)
Memory == Provider("memory", "mlp", 5, <<"rematmlps">>)
Single == Provider("single", "mlp", 6, <<"gate">>)
Cloner == Provider("cloner", "mlp", 7, <<"clone">>)

MCProviders ==
  {{Packer, Gater, Pallas, Remat}, {Packer, Pallas, Memory},
   {Packer, Remat, Single}, {Gater, Memory}, {Packer, Remat, Cloner}}

Asks(component, requested) ==
  [component |-> component, requested |-> requested, requirements |-> {}]

MCRequests ==
  {<<Asks("projections", "none"), Asks("attention", id), Asks("mlp", "none")>> :
     id \in {"none", "pallas", "remat"}}
  \union {<<Asks("attention", id), Asks("projections", "none")>> :
            id \in {"none", "pallas"}}

Model(heads, kv, qkv, shared) ==
  [class |-> "lm", heads |-> heads, kv |-> kv, rope |-> ~shared,
   alibi |-> shared, ffn |-> TRUE, qkv |-> qkv, norms |-> qkv,
   evidence |-> IF qkv THEN <<>>
                ELSE [residual |-> [status |-> "known", kind |-> "serial"]],
   shared |-> shared]

MCModels == {Model(4, 2, TRUE, FALSE), Model(4, 3, FALSE, FALSE),
             Model(4, 1, TRUE, TRUE)}

MCAdapters ==
  {[id |-> "gqa", classes |-> {"lm"}, kinds |-> [attention |-> "gqa"],
    versions |-> [hf |-> {"5"}], priority |-> 0, order |-> 1],
   [id |-> "any", classes |-> {"lm"}, kinds |-> <<>>, versions |-> <<>>,
    priority |-> 0, order |-> 2]}

MCEnvironments ==
  [backend : {"xla"}, precision : {"bf16"}, features : {{}, {"pallas"}},
   versions : {[hf |-> "5"], [hf |-> "4"]}]

AllHandlers == [t \in DOMAIN MCTransforms |-> "undo"]
MCHandlers == {AllHandlers, [AllHandlers EXCEPT !["gate"] = "other"],
               [t \in {"pack", "kernel"} |-> "undo"]}

-----------------------------------------------------------------------------
(* StateLayouts: equal and grouped heads, with and without a bias, one     *)
(* projection that cannot be packed; keys tied within and across.          *)

Attention(kind, heads, kv, bias) ==
  [kind |-> kind, heads |-> heads, kv |-> kv, dim |-> 1, bias |-> bias]
MLP(kind) == [kind |-> kind, width |-> 2, bias |-> FALSE]

MCLayouts ==
  {<<Attention("qkv", 2, 1, FALSE), MLP("gated")>>,
   <<Attention("qkv", 2, 2, TRUE)>>,
   <<Attention("partial", 2, 1, FALSE), MLP("gelu")>>,
   <<Attention("qkv", 3, 2, FALSE)>>,
   <<Attention("packed", 2, 1, FALSE)>>,
   <<Attention("qkv", 2, 1, FALSE), Attention("partial", 2, 1, FALSE)>>}

MCTies ==
  {{}, {<<<<"embed", "weight">>, <<"head", "weight">>>>},
   {<<<<"q", "weight">>, <<"head", "weight">>>>}}

MCDefects ==
  {"none", "size", "kind", "grad", "bias", "missing", "untied", "clash"}

-----------------------------------------------------------------------------
(* TokenBudget: budgets of one micro-batch, of several updates and none;   *)
(* two micro-batches in an update; a start and a resume of three ranks;    *)
(* stops asked of all ranks at once, and of one before the others.         *)

Loops(tokens, means, guarded, exact, log, seen) ==
  {[max_steps |-> 2, max_tokens |-> tokens, accumulation |-> a,
    means |-> means, guarded |-> guarded, exact |-> exact, token_lr |-> lr,
    log |-> log, seen |-> seen, stop_at |-> <<3, 3, 3>>] :
     a \in {1, 2}, lr \in BOOLEAN}

NoneSeen == <<0, 0, 0>>
MCConfigurations ==
  UNION {Loops(t, TRUE, FALSE, e, 2, s) :
           t \in {0, 2, 8}, e \in BOOLEAN, s \in {NoneSeen, <<1, 2, 3>>}}
  \union UNION {Loops(t, FALSE, TRUE, TRUE, 1, NoneSeen) : t \in {0, 2, 8}}
  \union {[c EXCEPT !.stop_at = <<1, 2, 2>>] :
            c \in Loops(8, FALSE, TRUE, TRUE, 1, NoneSeen)}
  \union {[c EXCEPT !.max_steps = 3, !.stop_at = asked] :
            c \in {l \in Loops(10, TRUE, FALSE, TRUE, 1, NoneSeen) :
                    l.accumulation = 1},
            asked \in {<<1, 1, 1>>, <<3, 3, 3>>, <<1, 2, 3>>}}

-----------------------------------------------------------------------------
(* LocalCheckpoint: three loaders, three kinds of dataset, every flaw.     *)

Session(loader, data, workers, native, cuda, runtime, seed) ==
  [loader |-> loader, data |-> data, workers |-> workers, native |-> native,
   cuda |-> cuda, runtime |-> runtime, seed |-> seed]

MCSessions ==
  {Session("facade", d, w, FALSE, TRUE, "lax", 1) :
     d \in {"map", "stateful", "iterable"}, w \in BOOLEAN}
  \union {Session(l, "map", FALSE, TRUE, FALSE, "validating", 1) :
            l \in {"facade", "sequential", "shuffled"}}
  \union {Session("facade", "map", FALSE, FALSE, FALSE, "lax", 2),
          Session("facade", "validating", FALSE, TRUE, FALSE, "validating", 1),
          Session("sequential", "map", FALSE, FALSE, FALSE, "strict", 1)}

Saved == {"model", "optimizer", "scheduler", "trainer", "runtime", "cpu",
          "cuda", "generator", "data"}

MCFlaws ==
  {<<"none", "none">>, <<"cuda", "devices">>}
  \union (Saved \X {"absent", "malformed", "unfit"})
  \union ({"optimizer", "scheduler"} \X {"type"})
  \union ({"optimizer"} \X
           {"merged", "longer", "repeated", "swapped", "renamed", "unnamed",
            "reshaped", "negative", "strays", "slotless"})
  \union ({"scheduler"} \X
           {"fields", "rates", "count", "epoch", "phases", "horizon"})
  \union ({"trainer"} \X {"fields", "uncounted", "negative", "tokens"})
=============================================================================
