---------------------------- MODULE MCFlowRollout ----------------------------
(***************************************************************************)
(* Instances of FlowRollout for TLC: a Flow with a prompt and credentials. *)
(***************************************************************************)
EXTENDS FlowRolloutTracking, FlowObservation

CONSTANTS
  f1, p1, healthz, pc1, s1, d1, d2, bad, img1, img2, port1, none, absent, unread, noImage

PodSpec(img, n) ==
  [image |-> img, port |-> port1, replicas |-> n, tools |-> <<>>,
   prompts |-> <<[kind |-> "ref", name |-> p1, content |-> none]>>,
   model |-> [kind |-> "inline", name |-> none, body |-> d1, plugin |-> pc1]]

New(s) == [uid |-> 0, spec |-> s, gen |-> 1, status |-> NoStatus]

(* A Flow with a prompt, a model and credentials.                          *)
PodSpecs == {PodSpec(img1, 1)}
PodFlows == [Flows -> {New(PodSpec(img1, 1))}]

(* It may be scaled to nothing, or be given what the runner exits on: no   *)
(* model, or a prompt on a route the runner needs itself.                  *)
NoModel == [kind |-> "none", name |-> none, body |-> none, plugin |-> none]
Modelless == [PodSpec(img1, 1) EXCEPT !.model = NoModel]
Clashing == [PodSpec(img1, 1) EXCEPT
               !.prompts = @ \o <<[kind |-> "inline", name |-> healthz, content |-> d1]>>]
ScaleSpecs == {PodSpec(img1, 1), PodSpec(img1, 0), Modelless, Clashing}
RiskyFlows == [Flows -> {New(PodSpec(img1, 1)), New(Modelless)}]

Obj(d, r) == [data |-> d, ref |-> r]
PodStart0 == {[o \in Deps |-> CASE o = pc1 -> Obj(d1, s1)
                               [] o = healthz -> absent
                               [] OTHER -> Obj(d1, none)]}

(* Every value is new: what was replaced is never written back.            *)
FreshValues == [o \in Deps |-> IF o \in {pc1, healthz} THEN {} ELSE {Obj(d2, none)}]
FreshAge == [o \in Deps |-> [x \in Data |-> IF x = d1 THEN 0 ELSE 1]]

(* The same with credentials the plugin cannot be built with.              *)
Built == [x \in Data |-> {d1, d2}]
RiskyValues == [FreshValues EXCEPT ![s1] = @ \cup {Obj(bad, none)}]
=============================================================================
