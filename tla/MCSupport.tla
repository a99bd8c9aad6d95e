------------------------------ MODULE MCSupport ------------------------------
(***************************************************************************)
(* Instances of EvalController and Readiness for TLC.  A plan is about one *)
(* chain of objects at a time: the others do not exist in it.              *)
(***************************************************************************)
EXTENDS SupportTracking, TLC

CONSTANTS
  pc1, m1, t1, pr1, ds1, s1, f1, cm1, sink1, e1, d1, d2,
  malformed, none, absent, unread, failed

Nothing == [n \in Owned \cup Others |-> absent]
NoWrites == [n \in Owned \cup Others |-> {}]

Limits(c, f, r) == [changes |-> c, faults |-> f, runs |-> r]

Plan(start, writes) ==
  [start |-> start @@ Nothing, writes |-> writes @@ NoWrites, max |-> Limits(2, 1, 0),
   evals |-> (e1 :> absent), evalWrites |-> (e1 :> {}), jobs |-> {}]

Spec1(sources, ref, body, format) ==
  [sources |-> sources, ref |-> ref, body |-> body, format |-> format]
To(ref) == Spec1({"ref"}, ref, d1, none)
Blank == Spec1({}, none, d1, none)
Here(d) == Spec1({"here"}, none, d, none)

(* A Model at the end of a chain of which every link comes and goes.       *)
Chain ==
  Plan(pc1 :> To(s1) @@ m1 :> To(pc1) @@ s1 :> d1,
       pc1 :> {To(s1), Blank, absent} @@ m1 :> {Blank, absent, To(pc1)} @@ s1 :> {absent, d1})

(* A Tool and a Flow, and a Prompt.                                        *)
Targets ==
  Plan(t1 :> To(f1) @@ f1 :> d1,
       t1 :> {To(f1), Blank, Here(d2), Spec1({"ref", "here"}, f1, d2, none), absent}
       @@ f1 :> {absent, d1})
Blanks == Plan(pr1 :> Here(d1), pr1 :> {Here(d2), Blank, absent})

(* A Dataset over every kind of source.                                    *)
TextOf(json, items, lines, rows) == [json |-> json, items |-> items, lines |-> lines, rows |-> rows]
Empty == TextOf("none", 0, 0, 0)
Rows == TextOf("none", 0, 3, 3)
Ragged == TextOf("none", 0, 2, malformed)
List == TextOf("array", 2, 1, 1)
Single == TextOf("object", 0, 1, malformed)
Number == TextOf("other", 0, 1, 1)
SomeTexts == {Empty, Rows, Ragged, List, Single, Number}

InConfigMap(format) == Spec1({"ref"}, cm1, none, format)
Samples1 ==
  Plan(ds1 :> InConfigMap("json") @@ cm1 :> List,
       ds1 :> {Spec1({"here"}, none, text, format) : text \in {List, Single, Number}, format \in {"json", "csv"}}
              \cup {InConfigMap("csv"), InConfigMap("jsonl"), Spec1({"uri"}, none, none, "json"),
                    Spec1({"uri", "ref"}, cm1, none, "json"), Spec1({}, none, none, "json"), absent}
       @@ cm1 :> {Rows, Empty, Ragged, none, absent})

(* An Eval whose Flow and Dataset may go, whose Job may be deleted or fail,*)
(* and which may be given a schedule, another sink, or go itself.          *)
OneOff ==
  [flow |-> f1, dataset |-> ds1, scheduled |-> FALSE, sink |-> sink1,
   sinks |-> {"configMap"}, body |-> d1]
Scheduled == [OneOff EXCEPT !.scheduled = TRUE]
EvalPlan(start, writes, specs, jobKinds, max) ==
  [Plan(ds1 :> Spec1({"uri"}, none, none, "json") @@ f1 :> d1, writes) EXCEPT
     !.evals = (e1 :> start), !.evalWrites = (e1 :> specs), !.jobs = jobKinds, !.max = max]

EvalEdited == EvalPlan(OneOff, NoWrites, {OneOff, Scheduled, absent}, {}, Limits(2, 0, 1))
CronEdited == EvalPlan(Scheduled, NoWrites, {[Scheduled EXCEPT !.body = d2]}, {}, Limits(1, 1, 1))
Missing == EvalPlan(OneOff, f1 :> {absent, d1} @@ ds1 :> {absent}, {}, {}, Limits(2, 0, 1))
Rerun == EvalPlan(OneOff, NoWrites, {}, {"delete", "fail"}, Limits(1, 0, 2))
Failing ==
  EvalPlan(OneOff, NoWrites,
           {Scheduled, [OneOff EXCEPT !.sinks = {"s3"}], [OneOff EXCEPT !.sinks = {}]},
           {}, Limits(1, 1, 1))

SupportPlans == 
  {Chain, Targets, Blanks, Samples1,
   EvalEdited, CronEdited, Missing, Rerun, Failing}
SinkPlans == {EvalPlan(OneOff, NoWrites, {}, {}, Limits(0, 0, 1))}

Results == {List, Ragged}
=============================================================================
