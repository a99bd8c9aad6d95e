--------------------------------- MODULE Aging ---------------------------------
(***************************************************************************)
(* What it means that the objects rendered only move forward: the payloads *)
(* an object is ever given are ranked, and contents rendered of objects    *)
(* that moved forward are no older.  FlowRolloutTracking and               *)
(* FlowSetServing state with it why no Pod serves stale content.           *)
(***************************************************************************)
EXTENDS FlowRender

(* Age[o][x]: the rank of payload x among those users ever give object o.  *)
CONSTANT Age

ASSUME AgeAssumption == Age \in [Deps -> [Data -> Nat]]

Before(o, x, y) ==
  x = y \/ (o \in Deps /\ x \in Data /\ y \in Data /\ Age[o][x] < Age[o][y])

(* Object o as x is no newer than as y: it was not removed, its payload is *)
(* the same or of higher rank, and a Model still has its PluginConfig.     *)
UpTo(o, x, y) ==
  x # Absent => /\ y # Absent
                /\ Before(o, x.data, y.data)
                /\ o \in Models => x.ref = y.ref

(* Two specs of the same content: edits of image, port and replicas only.  *)
SameContent(s, t) == s.prompts = t.prompts /\ s.tools = t.tools /\ s.model = t.model

Mounted == {"prompts", "tools", "config"}

(* The objects whose payloads are mounted.                                 *)
Sources(spec, d) ==
  {spec.prompts[i].name : i \in {j \in DOMAIN spec.prompts : spec.prompts[j].kind = "ref"}}
    \cup {spec.tools[i] : i \in DOMAIN spec.tools}
    \cup (IF spec.model.kind = "ref" THEN {spec.model.name} ELSE {})
    \cup ({PluginOf(spec, d)} \ {None})

(* Content x of a ConfigMap is no newer than y, when the Model's and the   *)
(* PluginConfig's payloads come from m and pc.                             *)
PieceBefore(m, pc, k, x, y) ==
  CASE k = "prompts" -> \A p \in Prompts : Before(p, x[p], y[p])
    [] k = "tools"   -> \A t \in Tools : Before(t, x[t], y[t])
    [] k = "config"  -> Before(m, x.model, y.model) /\ Before(pc, x.plugin, y.plugin)

(* Content x of a ConfigMap is no newer than what the objects d, none of   *)
(* them missing, render to.                                                *)
RenderedBy(spec, k, x, d) ==
  /\ \A o \in Sources(spec, d) : d[o] # Absent
  /\ PieceBefore(spec.model.name, PluginOf(spec, d), k, x, Child(k, spec, d))
=============================================================================
