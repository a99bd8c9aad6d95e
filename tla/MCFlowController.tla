--------------------------- MODULE MCFlowController ---------------------------
(***************************************************************************)
(* Instances of FlowController for TLC: a Flow over a prompt, a tool, a    *)
(* model, plugin configurations and Secrets.                               *)
(***************************************************************************)
EXTENDS FlowTracking, FlowObservation

CONSTANTS
  f1, p1, t1, m1, pc1, pc2, s1,   \* object names
  d1, d2, bad,                           \* payloads
  img1, img2, port1,
  none, absent, unread, noImage

Obj(d, r) == [data |-> d, ref |-> r]

PromptRef(p) == [kind |-> "ref", name |-> p, content |-> none]
InlinePrompt(p, c) == [kind |-> "inline", name |-> p, content |-> c]
EmptySource == [kind |-> "none", name |-> none, content |-> none]

NoModel == [kind |-> "none", name |-> none, body |-> none, plugin |-> none]
ModelRef(m) == [NoModel EXCEPT !.kind = "ref", !.name = m]
ModelInline(b, pc) == [NoModel EXCEPT !.kind = "inline", !.body = b, !.plugin = pc]
ModelBoth(m, b, pc) == [kind |-> "both", name |-> m, body |-> b, plugin |-> pc]

SpecOf(img, n, ps, ts, m) ==
  [image |-> img, port |-> port1, replicas |-> n, prompts |-> ps, tools |-> ts, model |-> m]

New(s) == [uid |-> 0, spec |-> s, gen |-> 1, status |-> NoStatus]

(* Inputs: a Flow over a prompt, a tool and a model that leads to a Secret *)
(* through a plugin configuration.  Every link may be removed, the tool    *)
(* malformed, the Secret rotated, the model re-pointed, and the Flow given *)
(* every spec that is refused.                                             *)
FullSpec == SpecOf(img1, 1, <<PromptRef(p1)>>, <<t1>>, ModelRef(m1))
InputSpecs ==
  {FullSpec,
   SpecOf(img2, 0, <<InlinePrompt(p1, d2), PromptRef(p1)>>, <<t1>>, ModelInline(d1, pc1)),
   SpecOf(noImage, 1, <<PromptRef(p1)>>, <<>>, NoModel),
   SpecOf(img1, 1, <<PromptRef(p1), EmptySource>>, <<t1>>, NoModel),
   SpecOf(img1, 1, <<>>, <<t1>>, ModelBoth(m1, d1, pc1))}
InputFlows == [Flows -> {New(FullSpec)}]
InputValues ==
  [o \in Deps |-> CASE o = m1 -> {Obj(d1, pc2)}
                    [] o = t1 -> {Obj(bad, none)}
                    [] o = s1 -> {Obj(d2, none)}
                    [] OTHER -> {}]
InputStart == {[o \in Deps |-> CASE o = m1 -> Obj(d1, pc1)
                                 [] o = pc1 -> Obj(d1, s1)
                                 [] o = pc2 -> Obj(d2, s1)
                                 [] OTHER -> Obj(d1, none)]}

(* One prompt and two images.                                              *)
PromptSpec == SpecOf(img1, 1, <<PromptRef(p1)>>, <<>>, NoModel)
ImageSpecs == {PromptSpec, [PromptSpec EXCEPT !.image = img2]}
PromptFlows == [Flows -> {New(PromptSpec)}]
PromptValues == [o \in Deps |-> IF o = p1 THEN {Obj(d1, none), Obj(d2, none)} ELSE {}]
PromptStart == {[o \in Deps |-> IF o = p1 THEN Obj(d1, none) ELSE absent]}

(* A Flow that starts with no replica and an inline prompt, and is scaled  *)
(* up, re-pointed to the Prompt p1 and given another image in one edit.    *)
ScaledDown == [PromptSpec EXCEPT !.image = img2, !.replicas = 0,
                                 !.prompts = <<InlinePrompt(p1, d2)>>]
ScaleSpecs == {PromptSpec, ScaledDown}
ScaleFlows == [Flows -> {New(ScaledDown)}]
=============================================================================
