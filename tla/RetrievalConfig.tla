--------------------------- MODULE RetrievalConfig ---------------------------
(***************************************************************************)
(* The settings of one retrieval: the fields of a batch item laid over the *)
(* batch's, each at the top level or in its `retrieval` object, over a     *)
(* named preset, over the process (routes/chat.py, retrieval_config.py,    *)
(* retrieval_presets.py).  A set of fields is a partial function.          *)
(***************************************************************************)
EXTENDS Naturals, Sequences, FiniteSets

(* A layer: its top-level fields, the fields of its `retrieval` object, and *)
(* the preset that object names.                                           *)
NoFields == [f \in {} |-> f]
NoPreset == "none"
Presets == [fast |-> [enabled |-> FALSE], deep |-> [enabled |-> TRUE, strategy |-> "stepback"]]

\* The values a client may give to a subset of the fields.
FieldSets ==
  {NoFields} \union {[enabled |-> b] : b \in BOOLEAN}
    \union {[strategy |-> v] : v \in {"rewrite", "none"}}
    \union {[enabled |-> b, strategy |-> v] : b \in BOOLEAN, v \in {"rewrite", "none"}}

\* extract_preset_name and lookup_retrieval_preset.
PresetFields(name) == IF name = NoPreset THEN NoFields ELSE Presets[name]

-----------------------------------------------------------------------------
(* merge_retrieval_field_layers, the later layer first.                     *)

\* The fields of two layers, those of `a` where both have one.
Over(a, b) == [f \in DOMAIN a \union DOMAIN b |-> IF f \in DOMAIN a THEN a[f] ELSE b[f]]

\* Slip: the earlier layer's nested object gives way to the later's top level.
FoldTopFirst(acc, layer) ==
  [top |-> Over(layer.top, acc.top),
   nested |-> Over(layer.nested, acc.nested),
   preset |-> IF layer.preset # NoPreset THEN layer.preset ELSE acc.preset]

FoldLayer(acc, layer) ==
  [top |-> layer.top,
   nested |-> Over(layer.nested, Over(acc.top, acc.nested)),
   preset |-> IF layer.preset # NoPreset THEN layer.preset ELSE acc.preset]

EmptyLayer == [top |-> NoFields, nested |-> NoFields, preset |-> NoPreset]

Merge(item, batch) == FoldLayer(FoldLayer(EmptyLayer, batch), item)

\* _pick and _pick_optional: the value of a field and where it comes from.
Pick(f, layer, env) ==
  IF f \in DOMAIN layer.top THEN <<layer.top[f], "request">>
  ELSE IF f \in DOMAIN layer.nested THEN <<layer.nested[f], "request">>
  ELSE IF f \in DOMAIN PresetFields(layer.preset) THEN <<PresetFields(layer.preset)[f], "preset">>
  ELSE <<env[f], "env">>

\* Slip: a strategy that is given turns it on, whatever `enabled` says.
TransformationByStrategy(on, how, env) ==
  LET strategy == how[1]
  IN CASE how[2] # "env" /\ strategy # "none" -> [enabled |-> TRUE, strategy |-> strategy, apply |-> TRUE]
       [] on[2] # "env" -> [enabled |-> on[1], strategy |-> strategy, apply |-> on[1] /\ strategy # "none"]
       [] OTHER -> [enabled |-> env.enabled, strategy |-> strategy,
                    apply |-> env.enabled /\ strategy # "none"]

\* _resolve_query_transformation of two picked fields: a strategy that is given
\* turns transformation on unless `enabled` says otherwise.
Transformation(on, how, env) ==
  LET strategy == how[1]
      Is(enabled, apply) == [enabled |-> enabled, strategy |-> strategy, apply |-> apply]
  IN CASE on[2] # "env" /\ ~on[1] -> Is(FALSE, FALSE)
       [] on[2] # "env" /\ on[1] -> Is(TRUE, strategy # "none")
       [] on[2] = "env" /\ how[2] # "env" /\ strategy # "none" -> Is(TRUE, TRUE)
       [] on[2] = "env" /\ strategy = "none" -> Is(env.enabled, FALSE)
       [] OTHER -> Is(env.enabled, env.enabled)

\* resolve_retrieval_config.
Effective(layer, env) ==
  LET on == Pick("enabled", layer, env)
      how == Pick("strategy", layer, env)
  IN [transformation |-> Transformation(on, how, env),
      scoped |-> on[2] # "env" \/ how[2] # "env"]   \* transformation_is_request_scoped

\* transform_query: a config that is not the request's is left out, and the
\* process's flags decide.
RunTransformation(effective, env) ==
  IF effective.scoped
  THEN effective.transformation.apply /\ effective.transformation.strategy # "none"
  ELSE env.enabled /\ env.strategy # "none"

-----------------------------------------------------------------------------
\* The order in which the places of a field are meant to count.
Precedence(item, batch) ==
  <<item.top, item.nested, batch.top, batch.nested,
    PresetFields(IF item.preset # NoPreset THEN item.preset ELSE batch.preset)>>

\* The value used for a field is that of the first place that gives it: nested
\* fields of the item outrank the batch's top level, fields any preset.
LayersRespected(item, batch, env) ==
  \A f \in {"enabled", "strategy"} :
    LET places == Precedence(item, batch)
        giving == {i \in DOMAIN places : f \in DOMAIN places[i]}
        value == Pick(f, Merge(item, batch), env)[1]
    IN IF giving = {} THEN value = env[f]
       ELSE value = places[CHOOSE i \in giving : \A j \in giving : i <= j][f]

\* A strategy runs when transformation is on and there is one: `enabled = FALSE`
\* turns off what a strategy would turn on, a strategy turns on what the process
\* leaves off, and naming neither leaves it to the process, by either route.
TransformationRuns(item, batch, env) ==
  LET layer == Merge(item, batch)
      on == Pick("enabled", layer, env)
      how == Pick("strategy", layer, env)
      wanted == IF on[2] # "env" THEN on[1] ELSE how[2] # "env" \/ env.enabled
  IN RunTransformation(Effective(layer, env), env) <=> wanted /\ how[1] # "none"
=============================================================================
