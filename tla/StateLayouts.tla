----------------------------- MODULE StateLayouts ----------------------------
(* Packed projections and the state dicts they leave behind: separate Q/K/V, *)
(* query with combined K/V, or gate/up projections become one parameter, are *)
(* trained, saved for a resume with a layout manifest, and split again for a *)
(* Hugging Face export that a round trip compares with the reference.        *)
(* A tensor is its rows, each with its origin and its updates, its kind      *)
(* (dtype and device) and whether it is trained.  Cumulative and Total are   *)
(* the running sums of PackedSchedule.                                       *)
EXTENDS PackedSchedule

CONSTANTS
  Layouts,    \* what a model holds: sequences of projection specifications,
              \* [kind, heads, kv, dim, bias] or [kind, width, bias]
  TieGroups,  \* sets of alias groups, each a sequence of state-dict keys
  Defects,    \* what may be wrong with a source: "none", "size", "kind",
              \* "grad", "bias", "missing", "untied", "clash"
  MaxUpdates  \* bound on the updates of the packed model

VARIABLES
  at,        \* "start", "separate", "packed", "exported" or "rejected"
  spec,      \* the specifications, their mappings and the alias groups
  reference, \* what an unpacked model would hold: key -> tensor
  live,      \* the state dict of the model
  stored,    \* the transformed resume checkpoint, with the reference of then
  exported,  \* what to_canonical made of it
  report,    \* RoundTripReport.passed
  updates    \* optimizer updates so far

lvars == <<at, spec, reference, live, stored, exported, report, updates>>

Empty == [k \in {} |-> <<>>]

Tensor(key, size) ==
  [rows |-> [i \in 1..size |-> <<key, i, 0>>], kind |-> "bf16", grad |-> TRUE]

(* --- Projection specifications ------------------------------------------- *)

(* Three projections, a query beside a combined key and value, a gate beside *)
(* an up projection; "gelu" and "packed" sources are left as they are.       *)
Parts(s) ==
  CASE s.kind = "qkv" -> <<"q", "k", "v">>
    [] s.kind = "partial" -> <<"q", "kv">>
    [] s.kind = "gated" -> <<"gate", "up">>
    [] OTHER -> <<>>

QuerySize(s) == s.heads * s.dim
KVSize(s) == s.kv * s.dim

Sizes(s) ==
  CASE s.kind = "qkv" -> <<QuerySize(s), KVSize(s), KVSize(s)>>
    [] s.kind = "partial" -> <<QuerySize(s), 2 * KVSize(s)>>
    [] OTHER -> <<s.width, s.width>>

(* The outputs of the packed forwards: a combined key and value is split too. *)
PackedQKV(s) == <<QuerySize(s), KVSize(s), KVSize(s)>>
PackedPartialQKV(s) == <<QuerySize(s), KVSize(s), KVSize(s)>>
PackedGatedMLP(s) == <<s.width, s.width>>

Views(s) ==
  CASE s.kind = "qkv" -> PackedQKV(s)
    [] s.kind = "partial" -> PackedPartialQKV(s)
    [] OTHER -> PackedGatedMLP(s)

(* What __post_init__ of the specifications refuses.                         *)
Grouped(s) == s.kind \in {"qkv", "partial"} => s.heads % s.kv = 0

(* converter(): a mapping of the weights and, if configured, of the biases.  *)
Mapping(s, tensor) ==
  [parts |-> [i \in DOMAIN Parts(s) |-> <<Parts(s)[i], tensor>>],
   sizes |-> Sizes(s), packed |-> <<"packed " \o s.kind, tensor>>]

Mappings(s) ==
  IF Parts(s) = <<>> THEN <<>>
  ELSE IF s.bias THEN <<Mapping(s, "weight"), Mapping(s, "bias")>>
  ELSE <<Mapping(s, "weight")>>

PartKeys(maps) == UNION {ToSet(maps[i].parts) : i \in DOMAIN maps}
PackedKeys(maps) == {maps[i].packed : i \in DOMAIN maps}

(* ParameterLayoutMapping and StateDictLayoutConverter check what they are   *)
(* given: two parts or more, every key once, nothing both part and packed,   *)
(* and no mapped key in an alias group.                                      *)
Constructs(maps, groups) ==
  /\ \A i \in DOMAIN maps :
       /\ Len(maps[i].parts) >= 2 /\ Len(maps[i].sizes) = Len(maps[i].parts)
       /\ IsInjective(maps[i].parts)
       /\ \A j \in DOMAIN maps[i].sizes : maps[i].sizes[j] > 0
  /\ \A i, j \in DOMAIN maps : i # j =>
       /\ ToSet(maps[i].parts) \cap ToSet(maps[j].parts) = {}
       /\ maps[i].packed # maps[j].packed
  /\ PartKeys(maps) \cap PackedKeys(maps) = {}
  /\ \A g \in groups : /\ Len(g) >= 2 /\ IsInjective(g)
                       /\ \A h \in groups \ {g} : ToSet(g) \cap ToSet(h) = {}
                       /\ ToSet(g) \cap PartKeys(maps) = {}
                       /\ ToSet(g) \cap PackedKeys(maps) = {}

(* Mutant of Offset: the packed parameter is cut into equal chunks.          *)
Offset_EqualShares(m, i) ==
  ((i - 1) * Total(m.sizes)) \div Len(m.sizes)

(* Where part i begins in the packed parameter.                              *)
Offset(m, i) == Cumulative(m.sizes)[i - 1]

(* torch.split of a packed tensor by the declared sizes.                     *)
Piece(m, t, i) ==
  [t EXCEPT !.rows = SubSeq(t.rows, Offset(m, i) + 1,
                            Offset(m, i) + m.sizes[i])]

(* What output i of the packed forward is computed from.                     *)
View(s, t, i) == Piece([sizes |-> Views(s)], t, i).rows

(* _validate_canonical, _validate_tensor, and the checks of from_separate    *)
(* on geometry, dtype and device.                                            *)
Fits(m, sd) ==
  /\ \A i \in DOMAIN m.parts : /\ m.parts[i] \in DOMAIN sd
                               /\ Len(sd[m.parts[i]].rows) = m.sizes[i]
  /\ \A k, l \in ToSet(m.parts) : sd[k].kind = sd[l].kind

(* _uniform_requires_grad: one packed parameter is trained or frozen.        *)
OneGrad(m, sd) == \A k, l \in ToSet(m.parts) : sd[k].grad = sd[l].grad

(* A bias is there for every projection of a specification with biases, and  *)
(* for none of the others.                                                   *)
BiasesMatch(s, sd) ==
  \A p \in ToSet(Parts(s)) : (<<p, "bias">> \in DOMAIN sd) = s.bias

(* from_separate and from_partial: every projection fits its share, is        *)
(* trained like the others, and has a bias exactly when one is configured.   *)
Accepts(layout, maps, sd) ==
  /\ \A i \in DOMAIN maps : Fits(maps[i], sd) /\ OneGrad(maps[i], sd)
  /\ \A s \in ToSet(layout) : BiasesMatch(s, sd)

(* torch.cat along the declared axis.                                        *)
Packed(m, sd) ==
  [sd[m.parts[1]] EXCEPT
     !.rows = FlattenSeq([i \in DOMAIN m.parts |-> sd[m.parts[i]].rows])]

(* _validate_alias_values: every group is there in full, or not at all, and  *)
(* its tensors agree.                                                        *)
TiesAgree(groups, sd) ==
  \A g \in groups :
    LET present == ToSet(g) \cap DOMAIN sd
    IN  present # {} => /\ present = ToSet(g)
                        /\ \A k \in present : sd[k].rows = sd[g[1]].rows

(* _restore_aliases: the first key of a group that is there stands for all.  *)
WithTies(groups, sd) ==
  [k \in DOMAIN sd |->
     IF \E g \in groups : k \in ToSet(g)
     THEN LET g == CHOOSE x \in groups : k \in ToSet(x)
              first == CHOOSE i \in DOMAIN g :
                         /\ g[i] \in DOMAIN sd
                         /\ \A j \in 1..(i - 1) : g[j] \notin DOMAIN sd
          IN  sd[g[first]]
     ELSE sd[k]]

(* StateDictLayoutConverter.to_transformed, and when it raises.              *)
CanTransform(maps, groups, sd) ==
  /\ TiesAgree(groups, sd)
  /\ \A i \in DOMAIN maps : Fits(maps[i], sd)
  /\ PackedKeys(maps) \cap DOMAIN sd = {}

ToTransformed(maps, groups, sd) ==
  WithTies(groups,
    [k \in (DOMAIN sd \ PartKeys(maps)) \cup PackedKeys(maps) |->
       IF k \in DOMAIN sd THEN sd[k]
       ELSE Packed(CHOOSE m \in ToSet(maps) : m.packed = k, sd)])

(* StateDictLayoutConverter.to_canonical, and when it raises.                *)
CanSplit(maps, sd) ==
  /\ \A m \in ToSet(maps) :
       /\ m.packed \in DOMAIN sd
       /\ Len(sd[m.packed].rows) = Total(m.sizes)
  /\ PartKeys(maps) \cap DOMAIN sd = {}

ToCanonical(maps, groups, sd) ==
  LET Owner(k) == CHOOSE m \in ToSet(maps) : k \in ToSet(m.parts)
      PartOf(k) == CHOOSE i \in DOMAIN Owner(k).parts : Owner(k).parts[i] = k
  IN  WithTies(groups,
        [k \in (DOMAIN sd \ PackedKeys(maps)) \cup PartKeys(maps) |->
           IF k \in DOMAIN sd THEN sd[k]
           ELSE Piece(Owner(k), sd[Owner(k).packed], PartOf(k))])

(* evaluate_round_trip: equal key sets, no error beyond the tolerance.       *)
RoundTrip(ref, candidate) ==
  /\ DOMAIN ref = DOMAIN candidate
  /\ \A k \in DOMAIN ref : ref[k].rows = candidate[k].rows

(* --- The life of one packed model ---------------------------------------- *)

Init ==
  /\ at = "start" /\ spec = [layout |-> <<>>, maps |-> <<>>, ties |-> {}]
  /\ reference = Empty /\ live = Empty /\ stored = <<>> /\ exported = Empty
  /\ report = FALSE /\ updates = 0

(* A source model: its projections, tied keys that hold one tensor, and what *)
(* is wrong with the first projection, if anything is.                       *)
SizeOf(maps, k) ==
  LET m == CHOOSE x \in ToSet(maps) : k \in ToSet(x.parts)
  IN  m.sizes[CHOOSE j \in DOMAIN m.parts : m.parts[j] = k]

Projection(maps, defect, k) ==
  LET flaw == IF k = maps[1].parts[1] THEN defect ELSE "none"
      size == SizeOf(maps, k)
  IN  CASE flaw = "size" -> Tensor(k, size + 1)
        [] flaw = "kind" -> [Tensor(k, size) EXCEPT !.kind = "fp32"]
        [] flaw = "grad" -> [Tensor(k, size) EXCEPT !.grad = FALSE]
        [] OTHER -> Tensor(k, size)

Tied(groups, defect, k) ==
  LET g == CHOOSE x \in groups : k \in ToSet(x)
  IN  Tensor(IF defect = "untied" THEN k ELSE g[1], 1)

SourceKeys(layout, maps, groups, defect) ==
  LET first == maps[1].parts[1]
      extra == CASE defect = "clash" -> {maps[1].packed}
                 [] defect = "bias" /\ ~layout[1].bias -> {<<first[1], "bias">>}
                 [] OTHER -> {}
      all == PartKeys(maps) \cup UNION {ToSet(g) : g \in groups} \cup extra
  IN  IF defect = "missing" THEN all \ {first} ELSE all

Source(layout, maps, groups, defect) ==
  [k \in SourceKeys(layout, maps, groups, defect) |->
     IF k \in PartKeys(maps) THEN Projection(maps, defect, k)
     ELSE IF \E g \in groups : k \in ToSet(g) THEN Tied(groups, defect, k)
     ELSE Tensor(k, 1)]

Load ==
  /\ at = "start"
  /\ \E layout \in Layouts, groups \in TieGroups, defect \in Defects :
       LET maps == FlattenSeq([i \in DOMAIN layout |-> Mappings(layout[i])])
           good == /\ \A i \in DOMAIN layout : Grouped(layout[i])
                   /\ Constructs(maps, groups)
       IN  /\ maps # <<>> \/ defect \in {"none", "untied"}
           /\ spec' = [layout |-> layout, maps |-> maps, ties |-> groups]
           /\ at' = IF good THEN "separate" ELSE "rejected"
           /\ reference' = IF good THEN Source(layout, maps, groups, defect)
                           ELSE Empty
  /\ live' = reference'
  /\ UNCHANGED <<stored, exported, report, updates>>

(* The live projections are packed by from_separate or from_partial, which   *)
(* also want one requires_grad and the configured biases, and a canonical    *)
(* state is loaded through to_transformed.                                   *)
Pack ==
  /\ at = "separate"
  /\ LET maps == spec.maps
         fit == /\ Accepts(spec.layout, maps, live)
                /\ CanTransform(maps, spec.ties, live)
     IN  /\ at' = IF fit THEN "packed" ELSE "rejected"
         /\ live' = IF fit THEN ToTransformed(maps, spec.ties, live) ELSE live
  /\ UNCHANGED <<spec, reference, stored, exported, report, updates>>

Stepped(sd) ==
  [k \in DOMAIN sd |->
     IF sd[k].grad
     THEN [sd[k] EXCEPT !.rows = [i \in DOMAIN sd[k].rows |->
            <<sd[k].rows[i][1], sd[k].rows[i][2], sd[k].rows[i][3] + 1>>]]
     ELSE sd[k]]

(* An optimizer update, of the model and of the reference beside it.         *)
Train ==
  /\ at = "packed" /\ updates < MaxUpdates
  /\ updates' = updates + 1
  /\ live' = Stepped(live) /\ reference' = Stepped(reference)
  /\ UNCHANGED <<at, spec, stored, exported, report>>

(* The transformed state and manifest() are kept; from_manifest makes the    *)
(* same mappings and groups of them, so a resume finds its layout.           *)
SaveLayout ==
  /\ at = "packed" /\ stored' = <<live, reference, updates>>
  /\ UNCHANGED <<at, spec, reference, live, exported, report, updates>>

(* The unpacked training the reference stands for is resumed beside it.      *)
ResumeLayout ==
  /\ at = "packed" /\ stored # <<>>
  /\ Constructs(spec.maps, spec.ties)
  /\ live' = stored[1] /\ reference' = stored[2] /\ updates' = stored[3]
  /\ UNCHANGED <<at, spec, stored, exported, report>>

(* A canonical export of the live model, and its report.                     *)
Export ==
  /\ at = "packed"
  /\ IF CanSplit(spec.maps, live)
     THEN /\ at' = "exported"
          /\ exported' = ToCanonical(spec.maps, spec.ties, live)
          /\ report' = RoundTrip(reference, exported')
     ELSE at' = "rejected" /\ UNCHANGED <<exported, report>>
  /\ UNCHANGED <<spec, reference, live, stored, updates>>

Next == Load \/ Pack \/ Train \/ SaveLayout \/ ResumeLayout \/ Export

Spec == Init /\ [][Next]_lvars

(* --- Properties ---------------------------------------------------------- *)

(* Whatever was packed, trained and resumed, an export holds under every     *)
(* canonical key the rows an unpacked training would have, tied keys the     *)
(* same tensor, and its round trip passes; a forward hands every projection  *)
(* its own rows; and what cannot be packed is refused and left as it was.    *)
LayoutRoundTrip ==
  /\ at = "exported" => exported = reference /\ report
  /\ at = "packed" =>
       \A s \in {x \in ToSet(spec.layout) : Parts(x) # <<>>} :
         LET packed == live[Mapping(s, "weight").packed]
             Own(i) == reference[<<Parts(s)[i], "weight">>].rows
         IN  /\ View(s, packed, 1) = Own(1)
             /\ IF s.kind = "partial"
                THEN View(s, packed, 2) \o View(s, packed, 3) = Own(2)
                ELSE \A i \in DOMAIN Views(s) : View(s, packed, i) = Own(i)
  /\ at = "rejected" => live = reference
==============================================================================
