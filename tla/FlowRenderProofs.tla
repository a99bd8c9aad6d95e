--------------------------- MODULE FlowRenderProofs ---------------------------
(***************************************************************************)
(* Lemmas about the pure parts of the Flow and FlowSet controllers: what   *)
(* their operators return, which reads a rendering depends on, and that    *)
(* the watch mappers wake a Flow for every object its reconcile reads.     *)
(***************************************************************************)
EXTENDS FlowSetRender, FiniteSetTheorems, WellFoundedInduction, TLAPS

(* A non-empty set of naturals has a least element: the sets 0..k for its  *)
(* members k are finite, so one of them contains no other.                 *)
LEMMA LeastNatural ==
  ASSUME NEW S \in SUBSET Nat, S # {}
  PROVE  \E m \in S : \A n \in S : m <= n
<1> DEFINE below == {0..k : k \in S}
<1>1. below \subseteq FiniteSubsetsOf(Nat) /\ below # {}
  <2>1. \A k \in S : 0..k \in SUBSET Nat /\ IsFiniteSet(0..k)
    BY FS_Interval
  <2>2. QED
    BY <2>1 DEF FiniteSubsetsOf
<1>2. PICK x \in below : \A y \in below : ~ (<<y, x>> \in StrictSubsetOrdering(Nat))
  <2> HIDE DEF below
  <2> QED
    BY <1>1, FS_StrictSubsetOrderingWellFounded, WFMin
<1>3. PICK m \in S : x = 0..m
  BY <1>2
<1>4. ASSUME NEW n \in S, ~(m <= n) PROVE FALSE
  <2>1. 0..n \subseteq 0..m /\ 0..n # 0..m
    BY <1>4
  <2>2. <<0..n, 0..m>> \in StrictSubsetOrdering(Nat)
    BY <2>1 DEF StrictSubsetOrdering
  <2>3. QED
    BY <1>2, <1>3, <2>2
<1>5. QED
  BY <1>4

(* ... and, when it is bounded, a greatest one.                            *)
LEMMA GreatestNatural ==
  ASSUME NEW n \in Nat, NEW S \in SUBSET (1..n), S # {}
  PROVE  \E m \in S : \A k \in S : k <= m
<1> DEFINE above == {n - k : k \in S}
<1>1. above \in SUBSET Nat /\ above # {}
  <2>1. PICK k \in S : TRUE
    OBVIOUS
  <2>2. n - k \in above
    OBVIOUS
  <2>3. QED
    BY <2>2
<1>2. PICK x \in above : \A y \in above : x <= y
  <2> HIDE DEF above
  <2> QED
    BY <1>1, LeastNatural
<1>3. PICK m \in S : x = n - m
  BY <1>2
<1>4. ASSUME NEW k \in S PROVE k <= m
  <2>1. n - k \in above
    OBVIOUS
  <2>2. n - m <= n - k
    BY <1>2, <1>3, <2>1
  <2>3. QED
    BY <2>2
<1>5. QED
  BY <1>4

(* First picks one of the Gets it is given, and none comes before it.      *)
LEMMA FirstIsOneOfThem ==
  ASSUME NEW gets \in SUBSET (Nat \X Deps), gets # {}
  PROVE  \E g \in gets : First(gets) = g[2] /\ \A h \in gets : g[1] <= h[1]
<1> DEFINE positions == {g[1] : g \in gets}
<1>1. positions \in SUBSET Nat /\ positions # {}
  OBVIOUS
<1>2. PICK m \in positions : \A n \in positions : m <= n
  <2> HIDE DEF positions
  <2> QED
    BY <1>1, LeastNatural
<1>3. \E g \in gets : \A h \in gets : g[1] <= h[1]
  BY <1>2
<1>4. QED
  BY <1>3 DEF First

-----------------------------------------------------------------------------
(* The reads of a reconcile are of dependencies.                           *)
LEMMA GetsType ==
  ASSUME NEW spec \in FlowSpec, NEW d \in Readings
  PROVE  /\ Gets(spec, d) \in SUBSET (Nat \X Deps)
         /\ PluginOf(spec, d) \in PluginConfigs \cup {None}
         /\ SecretOf(spec, d) \in Secrets \cup {None}
<1>1. PluginOf(spec, d) \in PluginConfigs \cup {None}
  BY NamesAssumption DEF PluginOf, Present, FlowSpec, ModelSource, Readings, DepObj, RefTargets, Deps
<1>2. SecretOf(spec, d) \in Secrets \cup {None}
  BY <1>1, NamesAssumption DEF SecretOf, Present, Readings, DepObj, RefTargets, Deps
<1>3. Len(spec.prompts) \in Nat /\ Len(spec.tools) \in Nat
  BY DEF FlowSpec
<1>4. PromptGets(spec) \in SUBSET (Nat \X Deps)
  BY DEF PromptGets, FlowSpec, PromptSource, Deps
<1>5. ToolGets(spec) \in SUBSET (Nat \X Deps)
  BY <1>3 DEF ToolGets, FlowSpec, Deps
<1>6. ModelGets(spec, d) \in SUBSET (Nat \X Deps)
  <2>1. Listed(spec) \in Nat
    BY DEF FlowSpec, Listed
  <2>2. QED
    BY <1>1, <1>2, <2>1 DEF ModelGets, FlowSpec, ModelSource, Deps
<1>7. QED
  BY <1>1, <1>2, <1>4, <1>5, <1>6 DEF Gets

(* A tool that is malformed has a first one that is.                       *)
LEMMA FirstMalformedTool ==
  ASSUME NEW spec \in FlowSpec, NEW d, MalformedTools(spec, d) # {}
  PROVE  spec.tools[CHOOSE i \in MalformedTools(spec, d) :
                      \A j \in MalformedTools(spec, d) : i <= j] \in Tools
<1>1. MalformedTools(spec, d) \in SUBSET Nat /\ MalformedTools(spec, d) \subseteq DOMAIN spec.tools
  BY DEF MalformedTools, FlowSpec
<1>2. \E i \in MalformedTools(spec, d) : \A j \in MalformedTools(spec, d) : i <= j
  BY <1>1, LeastNatural
<1>3. \A i \in DOMAIN spec.tools : spec.tools[i] \in Tools
  BY DEF FlowSpec
<1> HIDE DEF MalformedTools
<1>4. QED
  BY <1>1, <1>2, <1>3

Reasons == {"InvalidSpec", "MissingDependency", "Rendered", "Error"}

LEMMA OutcomeType ==
  ASSUME NEW spec \in FlowSpec, NEW d \in Readings
  PROVE  /\ Outcome(spec, d).reason \in Reasons
         /\ Outcome(spec, d).about \in Deps \cup {None}
<1>1. Missing(spec, d) # {} => First(Missing(spec, d)) \in Deps
  <2>1. Missing(spec, d) \in SUBSET (Nat \X Deps)
    BY GetsType DEF Missing
  <2>2. QED
    BY <2>1, FirstIsOneOfThem
<1>2. MalformedTools(spec, d) # {} =>
        spec.tools[CHOOSE i \in MalformedTools(spec, d) :
                     \A j \in MalformedTools(spec, d) : i <= j] \in Deps
  BY FirstMalformedTool DEF Deps
<1>3. QED
  BY <1>1, <1>2 DEF Outcome, Reasons

(* What a rendering needs: an image, well-formed sources, and every object *)
(* read and found.                                                         *)
LEMMA RenderedMeans ==
  ASSUME NEW spec \in FlowSpec, NEW d \in Readings, Outcome(spec, d).reason = "Rendered"
  PROVE  /\ spec.image \in Images
         /\ Missing(spec, d) = {} /\ BadSources(spec) = {} /\ spec.model.kind # "both"
  BY DEF Outcome, FlowSpec

LEMMA EveryReadIsFound ==
  ASSUME NEW spec \in FlowSpec, NEW d \in Readings,
         Outcome(spec, d).reason = "Rendered", ToRead(spec, d) = {}
  PROVE  \A g \in Gets(spec, d) : d[g[2]] \in DepObj(g[2])
<1>1. \A g \in Gets(spec, d) : g[2] \in Deps
  BY GetsType
<1>2. \A g \in Gets(spec, d) : d[g[2]] # Absent /\ d[g[2]] # Unread
  BY RenderedMeans DEF Missing, ToRead
<1>3. QED
  BY <1>1, <1>2 DEF Readings

(* The last source of a name is one of its sources.                        *)
LEMMA LastPrompt ==
  ASSUME NEW spec \in FlowSpec, NEW p,
         NEW at, at = {i \in DOMAIN spec.prompts : spec.prompts[i].name = p}, at # {}
  PROVE  (CHOOSE i \in at : \A j \in at : j <= i) \in at
<1>1. Len(spec.prompts) \in Nat /\ at \in SUBSET (1..Len(spec.prompts))
  BY DEF FlowSpec
<1>2. \E i \in at : \A j \in at : j <= i
  BY <1>1, GreatestNatural
<1>3. QED
  BY <1>2

(* What a rendering makes of what it read.                                 *)
LEMMA PromptFilesType ==
  ASSUME NEW spec \in FlowSpec, NEW d \in Readings,
         Outcome(spec, d).reason = "Rendered", ToRead(spec, d) = {}
  PROVE  PromptFiles(spec, d) \in [Prompts -> Data \cup {Absent}]
<1> DEFINE at(p) == {i \in DOMAIN spec.prompts : spec.prompts[i].name = p}
           last(p) == CHOOSE i \in at(p) : \A j \in at(p) : j <= i
<1>1. ASSUME NEW p \in Prompts, at(p) # {}
      PROVE  (IF spec.prompts[last(p)].kind = "ref" THEN d[p].data
              ELSE spec.prompts[last(p)].content) \in Data
  <2>1. last(p) \in at(p)
    <3> DEFINE A == at(p)
    <3>1. A = {i \in DOMAIN spec.prompts : spec.prompts[i].name = p} /\ A # {}
      BY <1>1
    <3> HIDE DEF A
    <3>2. (CHOOSE i \in A : \A j \in A : j <= i) \in A
      BY <3>1, LastPrompt
    <3>3. QED
      BY <3>2 DEF A
  <2> HIDE DEF last
  <2>4. last(p) \in DOMAIN spec.prompts /\ spec.prompts[last(p)].name = p
    BY <2>1
  <2>5. spec.prompts[last(p)].kind # "none"
    BY <2>4, RenderedMeans DEF BadSources
  <2>6. spec.prompts[last(p)] \in PromptSource
    BY <2>4 DEF FlowSpec
  <2>7. CASE spec.prompts[last(p)].kind = "ref"
    <3>1. <<last(p), p>> \in Gets(spec, d)
      BY <2>4, <2>7, RenderedMeans DEF Gets, PromptGets
    <3>2. d[p] \in DepObj(p)
      BY <3>1, EveryReadIsFound
    <3>3. QED
      BY <2>7, <3>2 DEF DepObj
  <2>8. CASE spec.prompts[last(p)].kind = "inline"
    BY <2>6, <2>8 DEF PromptSource
  <2>9. QED
    BY <2>5, <2>6, <2>7, <2>8 DEF PromptSource
<1>2. QED
  BY <1>1 DEF PromptFiles

LEMMA ToolFilesType ==
  ASSUME NEW spec \in FlowSpec, NEW d \in Readings,
         Outcome(spec, d).reason = "Rendered", ToRead(spec, d) = {}
  PROVE  ToolFiles(spec, d) \in [Tools -> Data \cup {Absent}]
<1>1. ASSUME NEW i \in DOMAIN spec.tools PROVE d[spec.tools[i]].data \in Data
  <2>1. <<Len(spec.prompts) + i, spec.tools[i]>> \in Gets(spec, d)
    BY RenderedMeans DEF Gets, ToolGets
  <2>2. d[spec.tools[i]] \in DepObj(spec.tools[i])
    BY <2>1, EveryReadIsFound
  <2>3. QED
    BY <2>2 DEF DepObj
<1>2. QED
  BY <1>1 DEF ToolFiles

LEMMA ConfigType ==
  ASSUME NEW spec \in FlowSpec, NEW d \in Readings,
         Outcome(spec, d).reason = "Rendered", ToRead(spec, d) = {}
  PROVE  /\ RuntimeConfig(spec, d) \in [model : Data \cup {None}, plugin : Data \cup {None}]
         /\ SecretPayload(spec, d) \in [name : Secrets \cup {None}, data : Data \cup {None}]
<1>1. Gets(spec, d) = PromptGets(spec) \cup ToolGets(spec) \cup ModelGets(spec, d)
  BY RenderedMeans DEF Gets
<1>2. \A g \in ModelGets(spec, d) : d[g[2]].data \in Data
  BY <1>1, EveryReadIsFound DEF DepObj
<1>3. spec.model.kind = "ref" => d[spec.model.name].data \in Data
  <2>1. spec.model.kind = "ref" => \E n : <<n, spec.model.name>> \in ModelGets(spec, d)
    BY DEF ModelGets
  <2>2. QED
    BY <1>2, <2>1
<1>4. PluginOf(spec, d) # None => d[PluginOf(spec, d)].data \in Data
  <2>1. PluginOf(spec, d) # None => \E n : <<n, PluginOf(spec, d)>> \in ModelGets(spec, d)
    BY DEF ModelGets
  <2>2. QED
    BY <1>2, <2>1
<1>5. SecretOf(spec, d) # None => d[SecretOf(spec, d)].data \in Data
  <2>1. SecretOf(spec, d) # None => \E n : <<n, SecretOf(spec, d)>> \in ModelGets(spec, d)
    BY DEF ModelGets
  <2>2. QED
    BY <1>2, <2>1
<1>6. spec.model \in ModelSource
  BY DEF FlowSpec
<1>7. ModelBody(spec, d) \in Data \cup {None}
  BY <1>3, <1>6 DEF ModelBody, ModelSource
<1>8. QED
  BY <1>4, <1>5, <1>7, GetsType DEF RuntimeConfig, SecretPayload

LEMMA RenderingType ==
  ASSUME NEW spec \in FlowSpec, NEW d \in Readings,
         Outcome(spec, d).reason = "Rendered", ToRead(spec, d) = {}
  PROVE  /\ ContentHash(spec, d) \in Hashes
         /\ \A k \in Kinds : Child(k, spec, d) \in ChildBody(k)
<1>1. ContentHash(spec, d) \in Hashes
  BY PromptFilesType, ToolFilesType, ConfigType DEF ContentHash, Hashes
<1>2. spec.port \in Ports /\ spec.replicas \in Nat /\ spec.image \in Images
  BY RenderedMeans DEF FlowSpec
<1>3. Child("deploy", spec, d) \in ChildBody("deploy")
  BY <1>1, <1>2, GetsType DEF Child, ChildBody, PodTemplate
<1>4. ASSUME NEW k \in Kinds \ {"deploy"} PROVE Child(k, spec, d) \in ChildBody(k)
  BY <1>2, PromptFilesType, ToolFilesType, ConfigType DEF Child, ChildBody, Kinds
<1>5. QED
  BY <1>1, <1>3, <1>4

(* The statuses a reconcile may write.                                     *)
LEMMA NoStatusType == NoStatus \in Status
BY DEF NoStatus, Status, Phases

LEMMA RefusedStatusType ==
  ASSUME NEW st \in Status, NEW gen \in Nat,
         NEW reason \in {"InvalidSpec", "MissingDependency", "Error"},
         NEW about \in Deps \cup Kinds \cup {None}
  PROVE  RefusedStatus(st, gen, reason, about) \in Status
<1>1. NotReady(reason, about, gen) \in Conditions
  BY DEF NotReady, Conditions, Phases
<1>2. QED
  BY <1>1 DEF RefusedStatus, Status, Phases

LEMMA ObservedStatusType ==
  ASSUME NEW st \in Status, NEW gen \in Nat, NEW spec, NEW hash \in Hashes,
         NEW dep, dep # Absent => dep.status \in [observed : BOOLEAN, avail : Nat, unavail : Nat]
  PROVE  ObservedStatus(st, gen, spec, hash, dep) \in Status
<1>1. NotReady("Reconciling", None, gen) \in Conditions
  BY DEF NotReady, Conditions, Phases
<1>2. CASE dep = Absent
  BY <1>1, <1>2 DEF ObservedStatus, Status, Phases
<1>3. CASE dep # Absent
  <2>1. derivePhase(spec.replicas, dep.status) \in Phases
    BY DEF derivePhase, Phases
  <2>2. ReplicaCondition(derivePhase(spec.replicas, dep.status), dep.status, gen) \in Conditions
    BY <1>3, <2>1 DEF ReplicaCondition, Conditions, Phases
  <2>3. QED
    BY <1>3, <2>1, <2>2 DEF ObservedStatus, Status, Phases
<1>4. QED
  BY <1>2, <1>3

LEMMA MergedStatusType ==
  ASSUME NEW st \in Status, NEW orig \in Status, NEW upd \in Status
  PROVE  MergedStatus(st, orig, upd) \in Status
BY DEF MergedStatus, Status

-----------------------------------------------------------------------------
(* A reconcile depends on its reads only: two sets of dependencies that    *)
(* agree on the objects the first leads it to read lead it to read the     *)
(* same objects and to the same conclusion, children and content hash.     *)
LEMMA SameChain ==
  ASSUME NEW spec \in FlowSpec, NEW d \in Readings, NEW e \in Readings,
         \A g \in ModelGets(spec, d) : d[g[2]] = e[g[2]]
  PROVE  /\ PluginOf(spec, e) = PluginOf(spec, d)
         /\ SecretOf(spec, e) = SecretOf(spec, d)
         /\ RuntimeConfig(spec, e) = RuntimeConfig(spec, d)
         /\ SecretPayload(spec, e) = SecretPayload(spec, d)
<1>1. spec.model.kind = "ref" => d[spec.model.name] = e[spec.model.name]
  <2>1. spec.model.kind = "ref" => \E n : <<n, spec.model.name>> \in ModelGets(spec, d)
    BY DEF ModelGets
  <2>2. QED
    BY <2>1
<1>2. PluginOf(spec, d) # None => d[PluginOf(spec, d)] = e[PluginOf(spec, d)]
  <2>1. PluginOf(spec, d) # None => \E n : <<n, PluginOf(spec, d)>> \in ModelGets(spec, d)
    BY DEF ModelGets
  <2>2. QED
    BY <2>1
<1>3. SecretOf(spec, d) # None => d[SecretOf(spec, d)] = e[SecretOf(spec, d)]
  <2>1. SecretOf(spec, d) # None => \E n : <<n, SecretOf(spec, d)>> \in ModelGets(spec, d)
    BY DEF ModelGets
  <2>2. QED
    BY <2>1
<1>4. PluginOf(spec, e) = PluginOf(spec, d)
  BY <1>1 DEF PluginOf
<1>5. SecretOf(spec, e) = SecretOf(spec, d)
  BY <1>2, <1>4 DEF SecretOf
<1>6. ModelBody(spec, e) = ModelBody(spec, d)
  BY <1>1 DEF ModelBody
<1>7. QED
  BY <1>2, <1>3, <1>4, <1>5, <1>6 DEF RuntimeConfig, SecretPayload

LEMMA SameReads ==
  ASSUME NEW spec \in FlowSpec, NEW d \in Readings, NEW e \in Readings,
         \A g \in Gets(spec, d) : d[g[2]] = e[g[2]]
  PROVE  /\ Gets(spec, e) = Gets(spec, d)
         /\ Outcome(spec, e) = Outcome(spec, d)
         /\ Outcome(spec, d).reason = "Rendered" =>
              /\ ContentHash(spec, e) = ContentHash(spec, d)
              /\ \A k \in Kinds : Child(k, spec, e) = Child(k, spec, d)
<1>1. BadSources(spec) = {} =>
        /\ PluginOf(spec, e) = PluginOf(spec, d)
        /\ SecretOf(spec, e) = SecretOf(spec, d)
        /\ RuntimeConfig(spec, e) = RuntimeConfig(spec, d)
        /\ SecretPayload(spec, e) = SecretPayload(spec, d)
  BY SameChain DEF Gets
<1>2. Gets(spec, e) = Gets(spec, d)
  BY <1>1 DEF Gets, ModelGets
<1>3. Missing(spec, e) = Missing(spec, d)
  BY <1>2 DEF Missing
<1>4. BadSources(spec) = {} => \A i \in DOMAIN spec.tools : d[spec.tools[i]] = e[spec.tools[i]]
  <2>1. ASSUME BadSources(spec) = {}, NEW i \in DOMAIN spec.tools
        PROVE  d[spec.tools[i]] = e[spec.tools[i]]
    <3>1. <<Len(spec.prompts) + i, spec.tools[i]>> \in Gets(spec, d)
      BY <2>1 DEF Gets, ToolGets
    <3>2. QED
      BY <3>1
  <2>2. QED
    BY <2>1
<1>5. BadSources(spec) = {} => MalformedTools(spec, e) = MalformedTools(spec, d)
  BY <1>4 DEF MalformedTools
<1>6. Outcome(spec, e) = Outcome(spec, d)
  <2> HIDE DEF Missing, MalformedTools
  <2>1. CASE BadSources(spec) = {}
    <3> DEFINE first(m) == CHOOSE i \in m : \A j \in m : i <= j
    <3>1. MalformedTools(spec, e) = MalformedTools(spec, d)
      BY <1>5, <2>1
    <3>2. QED
      BY <1>3, <3>1 DEF Outcome
  <2>2. CASE BadSources(spec) # {}
    BY <1>3, <2>2 DEF Outcome
  <2>3. QED
    BY <2>1, <2>2
<1>7. ASSUME Outcome(spec, d).reason = "Rendered"
      PROVE  /\ ContentHash(spec, e) = ContentHash(spec, d)
             /\ \A k \in Kinds : Child(k, spec, e) = Child(k, spec, d)
  <2>1. BadSources(spec) = {}
    BY <1>7, RenderedMeans
  <2>2. /\ SecretOf(spec, e) = SecretOf(spec, d)
        /\ RuntimeConfig(spec, e) = RuntimeConfig(spec, d)
        /\ SecretPayload(spec, e) = SecretPayload(spec, d)
    BY <1>1, <2>1
  <2>3. \A i \in DOMAIN spec.prompts :
          spec.prompts[i].kind = "ref" => d[spec.prompts[i].name] = e[spec.prompts[i].name]
    <3>1. ASSUME NEW i \in DOMAIN spec.prompts, spec.prompts[i].kind = "ref"
          PROVE  d[spec.prompts[i].name] = e[spec.prompts[i].name]
      <4>1. <<i, spec.prompts[i].name>> \in Gets(spec, d)
        BY <2>1, <3>1 DEF Gets, PromptGets
      <4>2. QED
        BY <4>1
    <3>2. QED
      BY <3>1
  <2>4. PromptFiles(spec, e) = PromptFiles(spec, d)
    <3> DEFINE file(p, x) ==
                 LET at == {i \in DOMAIN spec.prompts : spec.prompts[i].name = p}
                     last == spec.prompts[CHOOSE i \in at : \A j \in at : j <= i]
                 IN  IF at = {} THEN Absent
                     ELSE IF last.kind = "ref" THEN x[p].data ELSE last.content
    <3>1. ASSUME NEW p \in Prompts PROVE file(p, e) = file(p, d)
      <4> DEFINE at == {i \in DOMAIN spec.prompts : spec.prompts[i].name = p}
                 i == CHOOSE j \in at : \A k \in at : k <= j
      <4>1. at # {} => i \in at
        BY LastPrompt
      <4>2. at # {} /\ spec.prompts[i].kind = "ref" => d[p] = e[p]
        <5> HIDE DEF i
        <5> QED
          BY <2>3, <4>1
      <4>3. QED
        BY <4>2
    <3>2. PromptFiles(spec, d) = [p \in Prompts |-> file(p, d)]
      BY DEF PromptFiles
    <3>3. PromptFiles(spec, e) = [p \in Prompts |-> file(p, e)]
      BY DEF PromptFiles
    <3> HIDE DEF file
    <3>4. QED
      BY <3>1, <3>2, <3>3
  <2>5. ToolFiles(spec, e) = ToolFiles(spec, d)
    BY <1>4, <2>1 DEF ToolFiles
  <2>6. ContentHash(spec, e) = ContentHash(spec, d)
    BY <2>2, <2>4, <2>5 DEF ContentHash
  <2>7. QED
    BY <2>2, <2>4, <2>5, <2>6 DEF Child, Kinds, PodTemplate
<1>8. QED
  BY <1>2, <1>6, <1>7

-----------------------------------------------------------------------------
(* A reconcile that has read part of d.                                    *)
PartOf(got, d) == \A o \in Deps : got[o] \in {Unread, d[o]}

LEMMA ModelGetsAre ==
  ASSUME NEW spec \in FlowSpec, NEW d
  PROVE  /\ Listed(spec) \in Nat
         /\ \A x : x \in ModelGets(spec, d) <=>
              \/ spec.model.kind = "ref" /\ x = <<Listed(spec) + 1, spec.model.name>>
              \/ PluginOf(spec, d) # None /\ x = <<Listed(spec) + 2, PluginOf(spec, d)>>
              \/ SecretOf(spec, d) # None /\ x = <<Listed(spec) + 3, SecretOf(spec, d)>>
<1>1. Listed(spec) \in Nat
  BY DEF FlowSpec, Listed
<1>2. ASSUME NEW a, NEW b, NEW pc, NEW s
      PROVE  \A x : x \in {g \in {<<a, pc>>, <<b, s>>} : g[2] # None} <=>
               \/ pc # None /\ x = <<a, pc>>
               \/ s # None /\ x = <<b, s>>
  <2>1. <<a, pc>>[2] = pc /\ <<b, s>>[2] = s
    OBVIOUS
  <2>2. QED
    BY <2>1
<1>3. QED
  BY <1>1, <1>2 DEF ModelGets

(* The more it has read, the more it knows it has to read ...              *)
LEMMA GetsGrow ==
  ASSUME NEW spec \in FlowSpec, NEW got \in Readings, NEW d \in Readings, PartOf(got, d)
  PROVE  Gets(spec, got) \subseteq Gets(spec, d)
<1>1. \A o \in Deps : Present(got[o]) => d[o] = got[o]
  BY DEF PartOf, Present
<1>2. spec.model.kind = "ref" => spec.model.name \in Deps
  BY DEF FlowSpec, ModelSource, Deps
<1>3. PluginOf(spec, got) # None => PluginOf(spec, d) = PluginOf(spec, got)
  <2>1. CASE spec.model.kind = "ref"
    BY <1>1, <1>2, <2>1 DEF PluginOf
  <2>2. CASE spec.model.kind # "ref"
    BY <2>2 DEF PluginOf
  <2>3. QED
    BY <2>1, <2>2
<1>4. SecretOf(spec, got) # None => SecretOf(spec, d) = SecretOf(spec, got)
  <2>1. PluginOf(spec, got) # None => PluginOf(spec, got) \in Deps
    BY GetsType DEF Deps
  <2>2. QED
    BY <1>1, <1>3, <2>1 DEF SecretOf
<1>5. ModelGets(spec, got) \subseteq ModelGets(spec, d)
  BY <1>3, <1>4, ModelGetsAre
<1>6. QED
  BY <1>5 DEF Gets

(* ... and a read it did not know of comes after one it has yet to make.   *)
LEMMA GetsGrowLater ==
  ASSUME NEW spec \in FlowSpec, NEW got \in Readings, NEW d \in Readings, PartOf(got, d),
         NEW h \in Gets(spec, d) \ Gets(spec, got)
  PROVE  \E g \in ToRead(spec, got) : g[1] < h[1]
<1>1. Listed(spec) \in Nat
  BY ModelGetsAre
<1>2. BadSources(spec) = {} /\ h \in ModelGets(spec, d) /\ h \notin ModelGets(spec, got)
  BY DEF Gets
<1>3. CASE spec.model.kind = "ref" /\ got[spec.model.name] = Unread
  <2>1. <<Listed(spec) + 1, spec.model.name>> \in ToRead(spec, got)
    BY <1>2, <1>3, ModelGetsAre DEF ToRead, Gets
  <2>2. h[1] \in {Listed(spec) + 2, Listed(spec) + 3}
    BY <1>2, <1>3, ModelGetsAre
  <2>3. QED
    BY <1>1, <2>1, <2>2
<1>4. CASE ~(spec.model.kind = "ref" /\ got[spec.model.name] = Unread)
  <2>1. PluginOf(spec, d) = PluginOf(spec, got)
    <3>1. spec.model.kind = "ref" => d[spec.model.name] = got[spec.model.name]
      BY <1>4 DEF PartOf, FlowSpec, ModelSource, Deps
    <3>2. QED
      BY <3>1 DEF PluginOf
  <2>2. PluginOf(spec, got) # None /\ got[PluginOf(spec, got)] = Unread
    <3>1. SecretOf(spec, d) # SecretOf(spec, got)
      BY <1>2, <2>1, ModelGetsAre
    <3>2. PluginOf(spec, got) # None
      BY <2>1, <3>1 DEF SecretOf
    <3>3. PluginOf(spec, got) \in Deps
      BY <3>2, GetsType DEF Deps
    <3>4. got[PluginOf(spec, got)] # d[PluginOf(spec, got)]
      BY <2>1, <3>1 DEF SecretOf
    <3>5. QED
      BY <3>2, <3>3, <3>4 DEF PartOf
  <2>3. <<Listed(spec) + 2, PluginOf(spec, got)>> \in ToRead(spec, got)
    <3>1. <<Listed(spec) + 2, PluginOf(spec, got)>> \in ModelGets(spec, got)
      BY <2>2, ModelGetsAre
    <3>2. QED
      BY <1>2, <2>2, <3>1 DEF ToRead, Gets
  <2>4. h[1] = Listed(spec) + 3
    <3>1. h = <<Listed(spec) + 3, SecretOf(spec, d)>>
      BY <1>2, <2>1, ModelGetsAre
    <3>2. QED
      BY <3>1
  <2>5. QED
    BY <1>1, <2>3, <2>4
<1>5. QED
  BY <1>3, <1>4

(* Each position is one read.                                              *)
LEMMA OneReadEach ==
  ASSUME NEW spec \in FlowSpec, NEW d \in Readings,
         NEW g \in Gets(spec, d), NEW h \in Gets(spec, d), g[1] = h[1]
  PROVE  g[2] = h[2]
<1> DEFINE n == Len(spec.prompts)
           m == Len(spec.tools)
<1>1. n \in Nat /\ m \in Nat /\ DOMAIN spec.prompts = 1..n /\ DOMAIN spec.tools = 1..m
  BY DEF FlowSpec
<1> HIDE DEF n, m
<1>2. \A x \in PromptGets(spec) : x[1] \in 1..n /\ x[2] = spec.prompts[x[1]].name
  BY <1>1 DEF PromptGets, n
<1>3. \A x \in ToolGets(spec) : x[1] \in (n + 1)..(n + m) /\ x[2] = spec.tools[x[1] - n]
  <2>1. \A i \in 1..m : n + i - n = i /\ n + i \in (n + 1)..(n + m)
    BY <1>1
  <2>2. QED
    BY <1>1, <2>1 DEF ToolGets, n
<1>4. \A x \in ModelGets(spec, d) :
        \/ x[1] = n + m + 1 /\ x[2] = spec.model.name
        \/ x[1] = n + m + 2 /\ x[2] = PluginOf(spec, d)
        \/ x[1] = n + m + 3 /\ x[2] = SecretOf(spec, d)
  <2>1. Listed(spec) = n + m
    BY DEF Listed, n, m
  <2>2. \A x \in ModelGets(spec, d) :
          \/ x = <<n + m + 1, spec.model.name>>
          \/ x = <<n + m + 2, PluginOf(spec, d)>>
          \/ x = <<n + m + 3, SecretOf(spec, d)>>
    BY <2>1, ModelGetsAre
  <2>3. QED
    BY <2>2
<1>5. QED
  BY <1>1, <1>2, <1>3, <1>4 DEF Gets

LEMMA StoresAreReadings == Stores \subseteq Readings
BY DEF Stores, Readings

(* A reconcile that has read everything, or has found an object missing    *)
(* before the next it would read, or has nothing to read for want of an    *)
(* image, concludes what one that had read all of d would conclude.        *)
LEMMA SameConclusion ==
  ASSUME NEW spec \in FlowSpec, NEW got \in Readings, NEW d \in Stores, PartOf(got, d),
         \/ spec.image = NoImage
         \/ \A h \in ToRead(spec, got) : \E m \in Missing(spec, got) : m[1] < h[1]
  PROVE  Outcome(spec, got) = Outcome(spec, d)
<1>1. d \in Readings /\ \A o \in Deps : d[o] # Unread
  BY StoresAreReadings, NamesAssumption DEF Stores, DepObj, Objects, RefTargets
<1>2. CASE spec.image = NoImage
  BY <1>2 DEF Outcome
<1>3. CASE ToRead(spec, got) = {}
  <2>1. \A g \in Gets(spec, got) : got[g[2]] = d[g[2]]
    BY <1>3, GetsType DEF ToRead, PartOf
  <2>2. QED
    BY <1>1, <2>1, SameReads
<1>4. CASE spec.image # NoImage /\ ToRead(spec, got) # {}
  <2> DEFINE some == Missing(spec, got)
             all == Missing(spec, d)
  <2>1. some # {}
    BY <1>4
  <2>2. some \subseteq all
    BY <1>1, GetsGrow, GetsType, NamesAssumption DEF Missing, PartOf
  <2>3. some \in SUBSET (Nat \X Deps) /\ all \in SUBSET (Nat \X Deps)
    BY <1>1, GetsType DEF Missing
  <2>4. PICK x \in all : First(all) = x[2] /\ \A h \in all : x[1] <= h[1]
    <3> HIDE DEF all, some
    <3> QED
      BY <2>1, <2>2, <2>3, FirstIsOneOfThem
  <2>5. x \in some
    <3>1. \A h \in ToRead(spec, got) : x[1] < h[1]
      <4> SUFFICES ASSUME NEW h \in ToRead(spec, got) PROVE x[1] < h[1]
        OBVIOUS
      <4>1. PICK m \in some : m[1] < h[1]
        BY <1>4
      <4>2. x[1] <= m[1]
        BY <2>2, <2>4
      <4>3. x[1] \in Nat /\ m[1] \in Nat /\ h[1] \in Nat
        BY <2>3, GetsType DEF ToRead
      <4>4. QED
        BY <4>1, <4>2, <4>3
    <3>2. x[1] \in Nat /\ x[2] \in Deps /\ x \in Gets(spec, d) /\ d[x[2]] = Absent
      BY <2>3 DEF Missing
    <3>3. x \in Gets(spec, got)
      <4>1. SUFFICES ASSUME x \notin Gets(spec, got) PROVE FALSE
        OBVIOUS
      <4>2. PICK g \in ToRead(spec, got) : g[1] < x[1]
        BY <1>1, <3>2, <4>1, GetsGrowLater
      <4>3. g[1] \in Nat
        BY GetsType DEF ToRead
      <4>4. QED
        BY <3>1, <3>2, <4>2, <4>3
    <3>4. got[x[2]] # Unread
      <4>1. SUFFICES ASSUME got[x[2]] = Unread PROVE FALSE
        OBVIOUS
      <4>2. x \in ToRead(spec, got)
        BY <3>3, <4>1 DEF ToRead
      <4>3. QED
        BY <3>1, <3>2, <4>2
    <3>5. QED
      BY <3>2, <3>3, <3>4 DEF Missing, PartOf
  <2>6. PICK y \in some : First(some) = y[2] /\ \A h \in some : y[1] <= h[1]
    <3> HIDE DEF all, some
    <3> QED
      BY <2>1, <2>3, FirstIsOneOfThem
  <2>7. y[1] = x[1]
    BY <2>2, <2>3, <2>4, <2>5, <2>6
  <2>8. First(some) = First(all)
    BY <2>4, <2>5, <2>6, <2>7, OneReadEach DEF Missing
  <2>9. QED
    BY <1>4, <2>1, <2>2, <2>8 DEF Outcome
<1>5. QED
  BY <1>2, <1>3, <1>4

-----------------------------------------------------------------------------
(* What the mappers compute.                                               *)
LEMMA WokenByPluginConfig ==
  ASSUME NEW cf, NEW cd, NEW f \in Flows, NEW pc
  PROVE  f \in flowsReferencingPluginConfig(pc, cf, cd) <=>
           /\ cf[f] # Absent
           /\ \/ /\ cf[f].spec.model.kind \in {"ref", "both"}
                 /\ cf[f].spec.model.name \in Models
                 /\ cd[cf[f].spec.model.name] # Absent
                 /\ cd[cf[f].spec.model.name].ref = pc
              \/ /\ cf[f].spec.model.kind \in {"inline", "both"}
                 /\ cf[f].spec.model.plugin = pc
BY DEF flowsReferencingPluginConfig

LEMMA WokenBySecret ==
  ASSUME NEW cf, NEW cd, NEW f, NEW s
  PROVE  f \in secretToFlow(s, cf, cd) <=>
           \E pc \in PluginConfigs : /\ cd[pc] # Absent /\ cd[pc].ref = s
                                     /\ f \in flowsReferencingPluginConfig(pc, cf, cd)
BY DEF secretToFlow

LEMMA MapperOf ==
  ASSUME NEW cf, NEW cd, NEW n
  PROVE  /\ n \in PluginConfigs => Woken(n, cf, cd) = flowsReferencingPluginConfig(n, cf, cd)
         /\ n \in Secrets => Woken(n, cf, cd) = secretToFlow(n, cf, cd)
         /\ n \notin PluginConfigs \cup Secrets =>
              Woken(n, cf, cd) = {f \in Flows : cf[f] # Absent /\ flowReferences(cf[f].spec, n)}
BY NamesAssumption DEF Woken

LEMMA WokenIsCached ==
  ASSUME NEW cf, NEW cd, NEW f \in Flows, NEW n, f \in Woken(n, cf, cd)
  PROVE  cf[f] # Absent
<1>1. \A pc : f \in flowsReferencingPluginConfig(pc, cf, cd) => cf[f] # Absent
  BY DEF flowsReferencingPluginConfig
<1>2. CASE n \in PluginConfigs
  BY <1>1, <1>2, MapperOf
<1>3. CASE n \in Secrets
  BY <1>1, <1>3, MapperOf, WokenBySecret
<1>4. CASE n \notin PluginConfigs \cup Secrets
  BY <1>4, MapperOf
<1>5. QED
  BY <1>2, <1>3, <1>4

(* The mappers are complete: when an object changes, its event wakes every *)
(* Flow whose reconcile reads it, directly or through the objects before   *)
(* it in the chain.                                                        *)
LEMMA ReadersAreWoken ==
  ASSUME NEW cf, NEW f \in Flows, cf[f] # Absent, cf[f].spec \in FlowSpec,
         NEW cd \in Stores, NEW e, NEW g \in Gets(cf[f].spec, cd),
         \A o \in Deps \ {g[2]} : e[o] = cd[o]
  PROVE  f \in Woken(g[2], cf, e)
<1> DEFINE spec == cf[f].spec
<1>1. cd \in Readings
  BY StoresAreReadings
<1>2. g \in PromptGets(spec) \cup ToolGets(spec) =>
        /\ flowReferences(spec, g[2])
        /\ g[2] \in Prompts \cup Tools
  BY DEF PromptGets, ToolGets, flowReferences, FlowSpec, PromptSource
<1>3. CASE g \in PromptGets(spec) \cup ToolGets(spec)
  BY <1>2, <1>3, NamesAssumption DEF Woken
<1>4. CASE g \in ModelGets(spec, cd)
  <2> DEFINE pc == PluginOf(spec, cd)
             s == SecretOf(spec, cd)
  <2>1. spec.model \in ModelSource
    BY DEF FlowSpec
  <2>2. pc # None =>
          /\ pc \in PluginConfigs
          /\ \/ spec.model.kind = "inline" /\ spec.model.plugin = pc
             \/ /\ spec.model.kind = "ref" /\ spec.model.name \in Models
                /\ cd[spec.model.name] # Absent /\ cd[spec.model.name].ref = pc
    BY <1>1, <2>1, GetsType DEF PluginOf, Present, ModelSource
  <2>3. s # None => /\ s \in Secrets /\ pc # None
                    /\ cd[pc] # Absent /\ cd[pc].ref = s
    BY <1>1, GetsType DEF SecretOf, Present
  <2> HIDE DEF pc, s
  <2>4. CASE g[2] = spec.model.name /\ spec.model.kind = "ref"
    BY <2>1, <2>4, NamesAssumption DEF Woken, flowReferences, ModelSource
  <2>5. CASE pc # None /\ g[2] = pc
    <3>1. spec.model.kind = "ref" => e[spec.model.name] = cd[spec.model.name]
      BY <2>2, <2>5, <2>1, NamesAssumption DEF Deps, ModelSource
    <3>2. /\ pc \in PluginConfigs
          /\ \/ spec.model.kind = "inline" /\ spec.model.plugin = pc
             \/ /\ spec.model.kind = "ref" /\ spec.model.name \in Models
                /\ e[spec.model.name] # Absent /\ e[spec.model.name].ref = pc
      BY <2>2, <2>5, <3>1, Zenon
    <3>3. f \in flowsReferencingPluginConfig(pc, cf, e)
      BY <3>2, WokenByPluginConfig
    <3>4. QED
      BY <2>2, <2>5, <3>3, MapperOf
  <2>6. CASE s # None /\ g[2] = s
    <3>1. spec.model.kind = "ref" => e[spec.model.name] = cd[spec.model.name]
      BY <2>1, <2>3, <2>6, NamesAssumption DEF Deps, ModelSource
    <3>2. e[pc] = cd[pc]
      BY <2>2, <2>3, <2>6, NamesAssumption DEF Deps
    <3>3. /\ pc \in PluginConfigs
          /\ \/ spec.model.kind = "inline" /\ spec.model.plugin = pc
             \/ /\ spec.model.kind = "ref" /\ spec.model.name \in Models
                /\ e[spec.model.name] # Absent /\ e[spec.model.name].ref = pc
      BY <2>2, <2>3, <2>6, <3>1, Zenon
    <3>4. f \in flowsReferencingPluginConfig(pc, cf, e)
      BY <3>3, WokenByPluginConfig
    <3>5. f \in secretToFlow(s, cf, e)
      BY <2>2, <2>3, <2>6, <3>2, <3>4, WokenBySecret
    <3>6. QED
      BY <2>3, <2>6, <3>5, MapperOf
  <2>7. QED
    <3>1. \/ spec.model.kind = "ref" /\ g[2] = spec.model.name
          \/ pc # None /\ g[2] = pc
          \/ s # None /\ g[2] = s
      BY <1>4, ModelGetsAre DEF pc, s
    <3>2. QED
      BY <2>4, <2>5, <2>6, <3>1
<1>5. QED
  BY <1>3, <1>4 DEF Gets

(* A Flow that an event would wake is still woken, by that event or by the *)
(* new one, after another object of its chain has changed.                 *)
LEMMA WokenStaysWoken ==
  ASSUME NEW cf, NEW f \in Flows, cf[f] # Absent => cf[f].spec \in FlowSpec,
         NEW cd \in Stores, NEW e, NEW n \in Deps, NEW o \in Deps,
         f \in Woken(n, cf, cd), \A x \in Deps \ {o} : e[x] = cd[x]
  PROVE  f \in Woken(n, cf, e) \/ f \in Woken(o, cf, e)
<1> DEFINE spec == cf[f].spec
<1>1. ASSUME NEW pc \in PluginConfigs, f \in flowsReferencingPluginConfig(pc, cf, cd)
      PROVE  f \in flowsReferencingPluginConfig(pc, cf, e) \/ f \in Woken(o, cf, e)
  <2>1. cf[f] # Absent
    BY <1>1, WokenByPluginConfig
  <2>2. CASE spec.model.kind \in {"ref", "both"} /\ o = spec.model.name
    BY <2>1, <2>2, NamesAssumption DEF Woken, flowReferences, FlowSpec, ModelSource
  <2>3. CASE spec.model.kind \in {"ref", "both"} /\ o # spec.model.name
    <3>1. spec.model.name \in Models
      BY <2>1, <2>3 DEF FlowSpec, ModelSource
    <3>2. e[spec.model.name] = cd[spec.model.name]
      BY <2>3, <3>1 DEF Deps
    <3>3. \/ /\ spec.model.kind \in {"ref", "both"} /\ spec.model.name \in Models
             /\ cd[spec.model.name] # Absent /\ cd[spec.model.name].ref = pc
          \/ spec.model.kind \in {"inline", "both"} /\ spec.model.plugin = pc
      BY <1>1, WokenByPluginConfig
    <3>4. \/ /\ spec.model.kind \in {"ref", "both"} /\ spec.model.name \in Models
             /\ e[spec.model.name] # Absent /\ e[spec.model.name].ref = pc
          \/ spec.model.kind \in {"inline", "both"} /\ spec.model.plugin = pc
      BY <3>2, <3>3, Zenon
    <3>5. QED
      BY <2>1, <3>4, WokenByPluginConfig
  <2>4. CASE spec.model.kind \notin {"ref", "both"}
    <3>1. spec.model.kind \in {"inline", "both"} /\ spec.model.plugin = pc
      BY <1>1, <2>4, WokenByPluginConfig
    <3>2. QED
      BY <2>1, <3>1, WokenByPluginConfig
  <2>5. QED
    BY <2>2, <2>3, <2>4
<1>2. CASE n \in PluginConfigs
  BY <1>1, <1>2, MapperOf
<1>3. CASE n \in Secrets
  <2>1. f \in secretToFlow(n, cf, cd)
    BY <1>3, MapperOf
  <2>2. PICK pc \in PluginConfigs : /\ cd[pc] # Absent /\ cd[pc].ref = n
                                   /\ f \in flowsReferencingPluginConfig(pc, cf, cd)
    BY <2>1, WokenBySecret
  <2>3. CASE o = pc
    BY <1>1, <2>2, <2>3, MapperOf
  <2>4. CASE o # pc
    <3>1. e[pc] = cd[pc]
      BY <2>4 DEF Deps
    <3>2. f \in flowsReferencingPluginConfig(pc, cf, e) => f \in secretToFlow(n, cf, e)
      BY <2>2, <3>1, WokenBySecret
    <3>3. QED
      BY <1>1, <1>3, <2>2, <3>2, MapperOf
  <2>5. QED
    BY <2>3, <2>4
<1>4. CASE n \notin PluginConfigs \cup Secrets
  BY <1>4, MapperOf
<1>5. QED
  BY <1>2, <1>3, <1>4

-----------------------------------------------------------------------------
(* The flows of a FlowSet.                                                 *)

(* What FlowRender asks of a spec, for the i-th flow of a set.             *)
AsFlow(spec, i) ==
  [image |-> spec.image, port |-> spec.port, replicas |-> spec.replicas,
   prompts |-> spec.flows[i].prompts, tools |-> spec.flows[i].tools,
   model |-> spec.flows[i].model]

LEMMA FlowOfSet ==
  ASSUME NEW spec \in FlowSetSpec, NEW i \in Entries(spec)
  PROVE  /\ i \in Nat /\ i >= 1
         /\ spec.flows[i] \in FlowSetFlow /\ spec.flows[i].name \in Flows
         /\ spec.flows[i].prompts # <<>> /\ spec.flows[i].prompts \in Seq(PromptSource)
         /\ AsFlow(spec, i) \in FlowSpec
<1>1. spec.flows \in Seq(FlowSetFlow) /\ i \in 1..Len(spec.flows)
  BY DEF FlowSetSpec, Entries
<1>2. spec.flows[i] \in FlowSetFlow
  BY <1>1
<1>3. QED
  BY <1>1, <1>2 DEF FlowSetSpec, FlowSetFlow, AsFlow, FlowSpec

LEMMA AsFlowIsTheFlow ==
  ASSUME NEW spec, NEW i, NEW d
  PROVE  LET flow == spec.flows[i]
             F == AsFlow(spec, i)
         IN  /\ F.image = spec.image /\ F.model = flow.model
             /\ BadSources(F) = BadSources(flow) /\ PluginOf(F, d) = PluginOf(flow, d)
             /\ SecretOf(F, d) = SecretOf(flow, d) /\ Gets(F, d) = Gets(flow, d)
             /\ Missing(F, d) = Missing(flow, d) /\ ToRead(F, d) = ToRead(flow, d)
             /\ MalformedTools(F, d) = MalformedTools(flow, d)
             /\ PromptFiles(F, d) = PromptFiles(flow, d) /\ ToolFiles(F, d) = ToolFiles(flow, d)
             /\ RuntimeConfig(F, d) = RuntimeConfig(flow, d)
             /\ \A o : flowReferences(F, o) <=> flowReferences(flow, o)
<1> DEFINE flow == spec.flows[i]
           F == AsFlow(spec, i)
<1>1. F.image = spec.image /\ F.prompts = flow.prompts /\ F.tools = flow.tools /\ F.model = flow.model
  BY DEF AsFlow
<1> HIDE DEF F, flow
<1>2. BadSources(F) = BadSources(flow)
  BY <1>1 DEF BadSources
<1>3. PluginOf(F, d) = PluginOf(flow, d)
  BY <1>1 DEF PluginOf
<1>4. SecretOf(F, d) = SecretOf(flow, d)
  BY <1>3 DEF SecretOf
<1>5. PromptGets(F) = PromptGets(flow) /\ ToolGets(F) = ToolGets(flow) /\ Listed(F) = Listed(flow)
  BY <1>1, <1>2 DEF PromptGets, ToolGets, Listed
<1>6. ModelGets(F, d) = ModelGets(flow, d)
  BY <1>1, <1>3, <1>4, <1>5 DEF ModelGets
<1>7. Gets(F, d) = Gets(flow, d)
  BY <1>2, <1>5, <1>6 DEF Gets
<1>8. Missing(F, d) = Missing(flow, d) /\ ToRead(F, d) = ToRead(flow, d)
  BY <1>7 DEF Missing, ToRead
<1>9. MalformedTools(F, d) = MalformedTools(flow, d)
  BY <1>1 DEF MalformedTools
<1>10. PromptFiles(F, d) = PromptFiles(flow, d)
  BY <1>1 DEF PromptFiles
<1>11. ToolFiles(F, d) = ToolFiles(flow, d)
  BY <1>1 DEF ToolFiles
<1>12. RuntimeConfig(F, d) = RuntimeConfig(flow, d)
  BY <1>1, <1>3 DEF RuntimeConfig, ModelBody
<1>13. \A o : flowReferences(F, o) <=> flowReferences(flow, o)
  BY <1>1 DEF flowReferences
<1>14. QED
  BY <1>1, <1>2, <1>3, <1>4, <1>7, <1>8, <1>9, <1>10, <1>11, <1>12, <1>13 DEF F, flow

LEMMA LeastIsOne ==
  ASSUME NEW is \in SUBSET Nat, is # {}
  PROVE  Least(is) \in is /\ \A j \in is : Least(is) <= j
BY LeastNatural DEF Least

(* A set that is rendered was read to the end, and no flow was refused.    *)
LEMMA SetRenderedMeans ==
  ASSUME NEW spec \in FlowSetSpec, NEW got, SetOutcome(spec, got).reason = "Rendered"
  PROVE  /\ spec.image \in Images
         /\ \A i \in Entries(spec) : /\ ToRead(spec.flows[i], got[i]) = {}
                                     /\ Missing(spec.flows[i], got[i]) = {}
                                     /\ BadSources(spec.flows[i]) = {}
                                     /\ spec.flows[i].model.kind \in {"ref", "inline"}
                                     /\ MalformedTools(spec.flows[i], got[i]) = {}
<1>1. spec.image # NoImage /\ Unresolved(spec, got) = {} /\ MalformedFlows(spec, got) = {}
  BY DEF SetOutcome
<1>2. spec.image \in Images
  BY <1>1 DEF FlowSetSpec
<1>3. ASSUME NEW i \in Entries(spec)
      PROVE  /\ ToRead(spec.flows[i], got[i]) = {} /\ ~FlowRefused(spec.flows[i], got[i])
             /\ MalformedTools(spec.flows[i], got[i]) = {}
             /\ spec.flows[i].model \in ModelSource
  BY <1>1, FlowOfSet DEF Unresolved, MalformedFlows, FlowSetFlow
<1>4. QED
  BY <1>2, <1>3 DEF FlowRefused, ModelSource

LEMMA EachFlowIsRendered ==
  ASSUME NEW spec \in FlowSetSpec, NEW got, SetOutcome(spec, got).reason = "Rendered",
         NEW i \in Entries(spec)
  PROVE  Outcome(AsFlow(spec, i), got[i]).reason = "Rendered" /\ ToRead(AsFlow(spec, i), got[i]) = {}
<1>1. /\ spec.image # NoImage
      /\ ToRead(spec.flows[i], got[i]) = {} /\ Missing(spec.flows[i], got[i]) = {}
      /\ BadSources(spec.flows[i]) = {} /\ spec.flows[i].model.kind # "both"
      /\ MalformedTools(spec.flows[i], got[i]) = {}
  BY SetRenderedMeans, NamesAssumption
<1>2. QED
  BY <1>1, AsFlowIsTheFlow DEF Outcome

-----------------------------------------------------------------------------
(* What a rendering of a set holds.                                        *)
LEMMA SetOutcomeType ==
  ASSUME NEW spec \in FlowSetSpec, NEW got, \A i \in Entries(spec) : got[i] \in Readings
  PROVE  LET o == SetOutcome(spec, got)
         IN  /\ o.reason \in {"Rendered", "InvalidSpec", "MissingDependency", "Error"}
             /\ o.flow \in Flows \cup {None} /\ o.about \in Deps \cup {None}
<1> DEFINE o == SetOutcome(spec, got)
           i == Current(spec, got)
           j == Least(MalformedFlows(spec, got))
           t == Least(MalformedTools(spec.flows[j], got[j]))
<1>1. Entries(spec) \subseteq Nat
  BY FlowOfSet
<1>2. CASE spec.image = NoImage
  BY <1>2 DEF SetOutcome
<1>3. CASE spec.image # NoImage /\ Unresolved(spec, got) # {}
  <2>1. i \in Entries(spec)
    BY <1>1, <1>3, LeastIsOne DEF Current, Unresolved
  <2>2. Missing(spec.flows[i], got[i]) \in SUBSET (Nat \X Deps)
    BY <2>1, FlowOfSet, AsFlowIsTheFlow, GetsType DEF Missing
  <2>3. Missing(spec.flows[i], got[i]) # {} => First(Missing(spec.flows[i], got[i])) \in Deps
    BY <2>2, FirstIsOneOfThem
  <2>4. o = [reason |-> "MissingDependency", flow |-> spec.flows[i].name,
             about |-> IF Missing(spec.flows[i], got[i]) = {} THEN None
                       ELSE First(Missing(spec.flows[i], got[i]))]
    BY <1>3 DEF SetOutcome
  <2> HIDE DEF i
  <2>5. QED
    BY <2>1, <2>3, <2>4, FlowOfSet
<1>4. CASE spec.image # NoImage /\ Unresolved(spec, got) = {} /\ MalformedFlows(spec, got) = {}
  BY <1>4 DEF SetOutcome
<1>5. CASE spec.image # NoImage /\ Unresolved(spec, got) = {} /\ MalformedFlows(spec, got) # {}
  <2>1. j \in MalformedFlows(spec, got) /\ MalformedFlows(spec, got) \subseteq Entries(spec)
    BY <1>1, <1>5, LeastIsOne DEF MalformedFlows
  <2>2. j \in Entries(spec) /\ MalformedTools(spec.flows[j], got[j]) # {}
    BY <2>1 DEF MalformedFlows
  <2>3. spec.flows[j].tools \in Seq(Tools)
    BY <2>2, FlowOfSet DEF FlowSetFlow
  <2>4. t \in DOMAIN spec.flows[j].tools
    <3>1. MalformedTools(spec.flows[j], got[j]) \subseteq DOMAIN spec.flows[j].tools
      BY DEF MalformedTools
    <3>2. MalformedTools(spec.flows[j], got[j]) \subseteq Nat
      BY <2>3, <3>1
    <3>3. QED
      BY <2>2, <3>1, <3>2, LeastIsOne
  <2>5. spec.flows[j].tools[t] \in Deps
    <3> HIDE DEF t, j
    <3> QED
      BY <2>3, <2>4 DEF Deps
  <2>6. o = [reason |-> "Error", flow |-> spec.flows[j].name, about |-> spec.flows[j].tools[t]]
    BY <1>5 DEF SetOutcome
  <2> HIDE DEF t, j
  <2>7. QED
    BY <2>2, <2>5, <2>6, FlowOfSet
<1>6. QED
  BY <1>2, <1>3, <1>4, <1>5

LEMMA InOrderType ==
  ASSUME NEW n \in Nat, NEW file, DOMAIN file = 1..n,
         \A i \in 1..n : file[i] \in Data \cup {Absent}
  PROVE  InOrder(file) \in SUBSET (Nat \X Data)
<1> DEFINE present == {i \in DOMAIN file : Present(file[i])}
<1>1. ASSUME NEW i \in present PROVE Cardinality({j \in present : j < i}) \in Nat
  <2>1. IsFiniteSet(1..n) /\ {j \in present : j < i} \subseteq 1..n
    BY FS_Interval
  <2>2. QED
    BY <2>1, FS_Subset, FS_CardinalityType
<1>2. ASSUME NEW i \in present PROVE file[i] \in Data
  BY DEF Present
<1> HIDE DEF present
<1>3. \A i \in present : <<Cardinality({j \in present : j < i}), file[i]>> \in Nat \X Data
  BY <1>1, <1>2
<1>4. InOrder(file) = {<<Cardinality({j \in present : j < i}), file[i]>> : i \in present}
  BY DEF InOrder, present
<1>5. QED
  BY <1>3, <1>4

(* Every object a flow refers to was found.                                *)
LEMMA FlowRenderingType ==
  ASSUME NEW spec \in FlowSetSpec, NEW got, \A i \in Entries(spec) : got[i] \in Readings,
         SetOutcome(spec, got).reason = "Rendered", NEW i \in Entries(spec)
  PROVE  /\ PromptFiles(spec.flows[i], got[i]) \in ChildBody("prompts")
         /\ ToolFiles(spec.flows[i], got[i]) \in ChildBody("tools")
         /\ FlowConfig(spec.flows[i], got[i]) \in FlowConfigs
         /\ SecretOf(spec.flows[i], got[i]) \in Secrets
         /\ got[i][SecretOf(spec.flows[i], got[i])] \in DepObj(SecretOf(spec.flows[i], got[i]))
         /\ got[i][SecretOf(spec.flows[i], got[i])].data \in Data
<1> DEFINE flow == spec.flows[i]
           F == AsFlow(spec, i)
           d == got[i]
<1>1. /\ F \in FlowSpec /\ d \in Readings /\ flow \in FlowSetFlow /\ flow.name \in Flows
      /\ Outcome(F, d).reason = "Rendered" /\ ToRead(F, d) = {}
  BY FlowOfSet, EachFlowIsRendered
<1>2. \A g \in Gets(flow, d) : d[g[2]] \in DepObj(g[2])
  BY <1>1, EveryReadIsFound, AsFlowIsTheFlow
<1>3. BadSources(flow) = {} /\ flow.model.kind \in {"ref", "inline"}
  BY SetRenderedMeans
<1> HIDE DEF F
<1>4. \A x : \/ flow.model.kind = "ref" /\ x = <<Listed(F) + 1, flow.model.name>>
             \/ PluginOf(flow, d) # None /\ x = <<Listed(F) + 2, PluginOf(flow, d)>>
             \/ SecretOf(flow, d) # None /\ x = <<Listed(F) + 3, SecretOf(flow, d)>>
             => x \in Gets(flow, d)
  <2>1. \A x : x \in ModelGets(F, d) => x \in Gets(F, d)
    BY <1>3, AsFlowIsTheFlow DEF Gets, F
  <2>2. F.model = flow.model /\ PluginOf(F, d) = PluginOf(flow, d)
        /\ SecretOf(F, d) = SecretOf(flow, d) /\ Gets(F, d) = Gets(flow, d)
    BY AsFlowIsTheFlow DEF F
  <2>3. QED
    BY <1>1, <2>1, <2>2, ModelGetsAre
<1>5. PluginOf(flow, d) \in PluginConfigs /\ d[PluginOf(flow, d)] \in DepObj(PluginOf(flow, d))
  <2>1. flow.model \in ModelSource
    BY <1>1 DEF FlowSetFlow
  <2>2. flow.model.kind = "ref" => d[flow.model.name] \in DepObj(flow.model.name)
    <3>1. flow.model.kind = "ref" => <<Listed(F) + 1, flow.model.name>> \in Gets(flow, d)
      BY <1>4
    <3>2. QED
      BY <1>2, <3>1
  <2>3. PluginOf(flow, d) \in PluginConfigs
    BY <1>3, <2>1, <2>2, NamesAssumption
    DEF PluginOf, ModelSource, DepObj, RefTargets, Present, Objects
  <2>4. PluginOf(flow, d) # None
    BY <2>3, NamesAssumption DEF Deps
  <2>5. <<Listed(F) + 2, PluginOf(flow, d)>> \in Gets(flow, d)
    BY <1>4, <2>4
  <2>6. QED
    BY <1>2, <2>3, <2>5
<1>6. SecretOf(flow, d) \in Secrets
  <2>1. PluginOf(flow, d) # None /\ PluginOf(flow, d) \in Deps
    BY <1>5, NamesAssumption DEF Deps
  <2>2. d[PluginOf(flow, d)].ref \in Secrets /\ Present(d[PluginOf(flow, d)])
    BY <1>5, NamesAssumption DEF DepObj, RefTargets, Present, Objects
  <2>3. QED
    BY <2>1, <2>2 DEF SecretOf
<1>7. d[SecretOf(flow, d)] \in DepObj(SecretOf(flow, d)) /\ d[SecretOf(flow, d)].data \in Data
  <2>1. SecretOf(flow, d) # None
    BY <1>6, NamesAssumption DEF Deps
  <2>2. <<Listed(F) + 3, SecretOf(flow, d)>> \in Gets(flow, d)
    BY <1>4, <2>1
  <2>3. d[SecretOf(flow, d)] \in DepObj(SecretOf(flow, d))
    BY <1>2, <2>2
  <2>4. d[SecretOf(flow, d)].data \in Data
    BY <2>3 DEF DepObj
  <2>5. QED
    BY <2>3, <2>4
<1>8. RuntimeConfig(flow, d) \in ChildBody("config")
  BY <1>1, ConfigType, AsFlowIsTheFlow DEF ChildBody, F
<1>9. PromptFiles(flow, d) \in ChildBody("prompts") /\ ToolFiles(flow, d) \in ChildBody("tools")
  BY <1>1, PromptFilesType, ToolFilesType, AsFlowIsTheFlow DEF ChildBody, F
<1>10. FlowConfig(flow, d) \in FlowConfigs
  BY <1>1, <1>8 DEF FlowConfig, FlowConfigs
<1>11. QED
  BY <1>6, <1>7, <1>9, <1>10
=============================================================================
