------------------------------- MODULE MCFlowSet -------------------------------
(***************************************************************************)
(* Instances of FlowSetController for TLC: a FlowSet of one or two flows   *)
(* over a prompt, a tool, a model and one plugin configuration.            *)
(***************************************************************************)
EXTENDS FlowSetServing

CONSTANTS
  fa, fb, p1, p2, t1, m1, pc1, s1,
  d1, d2, bad, img1, port1, none, absent, unread, noImage,
  maxEdits, maxFaults, maxReports, maxPods

Limits == [edits |-> maxEdits, faults |-> maxFaults, reports |-> maxReports,
           podStarts |-> maxPods]

Obj(d, r) == [data |-> d, ref |-> r]
PromptRef(p) == [kind |-> "ref", name |-> p, content |-> none]
InlinePrompt(p, c) == [kind |-> "inline", name |-> p, content |-> c]
EmptySource == [kind |-> "none", name |-> none, content |-> none]
NoModel == [kind |-> "none", name |-> none, body |-> none, plugin |-> none]
Inline == [NoModel EXCEPT !.kind = "inline", !.body = d1, !.plugin = pc1]
Ref == [NoModel EXCEPT !.kind = "ref", !.name = m1]

FlowOf(f, ps, ts, m) == [name |-> f, prompts |-> ps, tools |-> ts, model |-> m]
SetOf(fl) == [image |-> img1, port |-> port1, replicas |-> 1, flows |-> fl]

Store == [o \in Deps |-> CASE o = m1 -> Obj(d2, pc1)
                           [] o = pc1 -> Obj(d1, s1)
                           [] OTHER -> Obj(d1, none)]

Plan(start, specs, edits) == [start |-> start, specs |-> specs, edits |-> edits]

(* Two flows that share a prompt, credentials and, in one case, a tool.    *)
Shared(f, ts, m) == FlowOf(f, <<PromptRef(p1)>>, ts, m)
TwoFlows == SetOf(<<Shared(fa, <<>>, Inline), Shared(fb, <<t1>>, Inline)>>)
OneFlow == SetOf(<<Shared(fa, <<>>, Inline)>>)

FreshTools == [o \in Deps |-> IF o \in PluginConfigs \cup Models THEN {}
                              ELSE {Obj(d2, none)} \cup IF o \in Tools THEN {Obj(bad, none)} ELSE {}]
NoValues == [o \in Deps |-> {}]

(* A payload starts as d1 and is not what it was once it was replaced.     *)
FreshAge == [o \in Deps |-> [x \in Data |-> CASE x = d1 -> 0 [] x = d2 -> 1 [] x = bad -> 2]]

(* Flows with a prompt of their own, that share credentials.  A flow joins *)
(* and leaves the set, users delete children, or a set of one flow goes and*)
(* comes back, its children being collected one by one.                    *)
InlineOnly == SetOf(<<FlowOf(fa, <<InlinePrompt(p1, d1)>>, <<>>, Inline)>>)
InlineTwo == SetOf(<<FlowOf(fa, <<InlinePrompt(p1, d1)>>, <<>>, Inline),
                     FlowOf(fb, <<InlinePrompt(p1, d1)>>, <<>>, Inline)>>)
InlineSets == {InlineOnly, InlineTwo}
ComeAndGo == {Plan(InlineOnly, InlineSets, {"edit"}),
              Plan(InlineTwo, {InlineOnly}, {"edit"}),
              Plan(InlineOnly, {}, {"child"}),
              Plan(InlineOnly, {InlineOnly}, {"create", "delete"})}
InlineEdits == {Plan(InlineTwo, InlineSets, {"edit"})}

(* Every way a flow of the set can be refused.                             *)
Variants ==
  {TwoFlows,
   SetOf(<<Shared(fa, <<>>, Inline), Shared(fb, <<t1>>, Ref)>>),
   SetOf(<<Shared(fa, <<>>, Ref)>>),
   SetOf(<<Shared(fa, <<>>, Inline), FlowOf(fb, <<PromptRef(p1), EmptySource>>, <<>>, Ref)>>),
   SetOf(<<Shared(fa, <<t1>>, NoModel), Shared(fb, <<>>, Inline)>>),
   SetOf(<<Shared(fb, <<>>, [Ref EXCEPT !.kind = "both", !.body = d1, !.plugin = pc1])>>),
   [OneFlow EXCEPT !.image = noImage]}
VariantEdits == {Plan(TwoFlows, Variants, {"edit", "write", "remove"})}
ForwardEdits == {Plan(TwoFlows, {TwoFlows, OneFlow}, {"edit", "write"})}
RefusedAndForward == VariantEdits \cup ForwardEdits

(* A helper prompt that moves from one flow to the other.                  *)
Helper(f, on) ==
  FlowOf(f, IF on THEN <<PromptRef(p1), InlinePrompt(p2, d2)>> ELSE <<PromptRef(p1)>>, <<>>, Inline)
HelperInA == SetOf(<<Helper(fa, TRUE), Helper(fb, FALSE)>>)
HelperInB == SetOf(<<Helper(fa, FALSE), Helper(fb, TRUE)>>)
HelperMoves == {Plan(HelperInA, {HelperInA, HelperInB}, {"edit"})}
=============================================================================
