-------------------------- MODULE FlowSetServingProofs --------------------------
(***************************************************************************)
(* Proofs about FlowSetServing, for any number of flows, objects and       *)
(* payloads, any specs users give the set in which a flow is told by its   *)
(* name, and any bound on edits, faults and restarts: when no replaced     *)
(* payload comes back, a Pod at rest serves what every flow of it should.  *)
(***************************************************************************)
EXTENDS FlowSetServing, FlowSetProofs, AgingProofs

(* A flow of a set is rendered as the Flow of the same content.            *)
LEMMA AsFlowHasItsContent ==
  ASSUME NEW spec \in FlowSetSpec, NEW i \in Entries(spec)
  PROVE  /\ AsFlow(spec, i) \in FlowSpec
         /\ SameContent(AsFlow(spec, i), spec.flows[i])
         /\ \A k \in Mounted : \A x, d :
              RenderedBy(spec.flows[i], k, x, d) <=> RenderedBy(AsFlow(spec, i), k, x, d)
<1> DEFINE F == AsFlow(spec, i)
           flow == spec.flows[i]
<1>1. F \in FlowSpec
  BY FlowOfSet
<1>2. SameContent(F, flow)
  BY DEF SameContent, AsFlow
<1> HIDE DEF F, flow
<1>3. ASSUME NEW k \in Mounted, NEW x, NEW d
      PROVE  RenderedBy(flow, k, x, d) <=> RenderedBy(F, k, x, d)
  <2>1. /\ PluginOf(flow, d) = PluginOf(F, d) /\ Sources(flow, d) = Sources(F, d)
        /\ Child(k, flow, d) = Child(k, F, d)
    BY <1>2, SameContentSameRendering
  <2>2. flow.model = F.model
    BY <1>2 DEF SameContent
  <2>3. QED
    BY <2>1, <2>2 DEF RenderedBy
<1>4. QED
  BY <1>1, <1>2, <1>3 DEF F, flow

LEMMA FlowRenderedStays ==
  ASSUME NEW spec \in FlowSetSpec, NEW i \in Entries(spec), NEW flow, flow = spec.flows[i],
         NEW d \in Stores, NEW e \in Stores, \A o \in Deps : UpTo(o, d[o], e[o]),
         NEW k \in Mounted, NEW x, RenderedBy(flow, k, x, d)
  PROVE  RenderedBy(flow, k, x, e) /\ PluginOf(flow, e) = PluginOf(flow, d)
<1>1. PICK F \in FlowSpec : F = AsFlow(spec, i)
  BY AsFlowHasItsContent
<1>2. \A y \in {d, e} : /\ RenderedBy(flow, k, x, y) <=> RenderedBy(F, k, x, y)
                        /\ PluginOf(F, y) = PluginOf(flow, y)
  BY <1>1, AsFlowHasItsContent, SameContentSameRendering
<1>3. RenderedBy(F, k, x, e) /\ PluginOf(F, e) = PluginOf(F, d)
  BY <1>2, RenderedStays
<1>4. QED
  BY <1>2, <1>3

(* The ConfigMaps of a flow hold its content, config.json its directory.   *)
LEMMA PieceOfMap ==
  ASSUME NEW flow, NEW d, NEW k \in Mounted
  PROVE  /\ Piece(k, MapBody(k, flow, d)) = Child(k, flow, d)
         /\ OfFlow(flow.name, k, MapBody(k, flow, d))
BY DEF Mounted, Piece, MapBody, Child, FlowConfig, OfFlow

LEMMA MapOfPiece ==
  ASSUME NEW f, NEW k \in Mounted, NEW x \in SetChildBody(<<f, k>>),
         NEW y \in SetChildBody(<<f, k>>), f \in Flows,
         OfFlow(f, k, x), OfFlow(f, k, y), Piece(k, x) = Piece(k, y)
  PROVE  x = y
<1>1. CASE k = "config"
  <2>1. SetChildBody(<<f, k>>) = FlowConfigs
    BY <1>1, SlotsAreDistinct DEF SetChildBody
  <2>2. x \in FlowConfigs /\ y \in FlowConfigs
    BY <2>1
  <2>3. x.dir = y.dir /\ x.config = y.config
    BY <1>1 DEF OfFlow, Piece
  <2>4. QED
    BY <2>2, <2>3 DEF FlowConfigs
<1>2. CASE k # "config"
  BY <1>2 DEF Piece
<1>3. QED
  BY <1>1, <1>2

(* What a reconcile has rendered for a flow is what objects that agree     *)
(* with what it read for it render to.                                     *)
LEMMA RenderedOfWhatWasRead ==
  ASSUME NEW spec \in FlowSetSpec, NEW got, \A j \in Entries(spec) : got[j] \in Readings,
         SetOutcome(spec, got).reason = "Rendered", NEW i \in Entries(spec),
         NEW e \in Readings, \A o \in Deps : got[i][o] # Unread => e[o] = got[i][o],
         NEW k \in Mounted
  PROVE  /\ Child(k, spec.flows[i], e) = Child(k, spec.flows[i], got[i])
         /\ RenderedBy(spec.flows[i], k, Child(k, spec.flows[i], got[i]), e)
         /\ SecretOf(spec.flows[i], e) = SecretOf(spec.flows[i], got[i])
<1> DEFINE F == AsFlow(spec, i)
           flow == spec.flows[i]
           d == got[i]
<1>1. /\ F \in FlowSpec /\ d \in Readings
      /\ Outcome(F, d).reason = "Rendered" /\ ToRead(F, d) = {} /\ BadSources(F) = {}
  BY FlowOfSet, EachFlowIsRendered, RenderedMeans
<1>2. /\ F.prompts = flow.prompts /\ F.tools = flow.tools /\ F.model = flow.model
      /\ SecretOf(F, d) = SecretOf(flow, d) /\ SecretOf(F, e) = SecretOf(flow, e)
  BY AsFlowIsTheFlow DEF AsFlow
<1> HIDE DEF F, d
<1>3. \A g \in Gets(F, d) : g[2] \in Deps /\ d[g[2]] # Unread /\ d[g[2]] \in DepObj(g[2])
  BY <1>1, GetsType, EveryReadIsFound DEF ToRead
<1>4. \A g \in Gets(F, d) : d[g[2]] = e[g[2]]
  BY <1>3 DEF d
<1>5. k \in Kinds /\ Child(k, F, e) = Child(k, F, d)
  <2>1. k \in Kinds
    BY DEF Mounted, Kinds
  <2>2. QED
    BY <1>1, <1>4, <2>1, SameReads
<1>6. Gets(F, d) = PromptGets(F) \cup ToolGets(F) \cup ModelGets(F, d)
  BY <1>1 DEF Gets
<1>7. PluginOf(F, e) = PluginOf(F, d) /\ SecretOf(F, e) = SecretOf(F, d)
  BY <1>1, <1>4, <1>6, SameChain
<1>8. ASSUME NEW o \in Sources(F, e) PROVE e[o] # Absent
  <2>1. \E g \in Gets(F, d) : g[2] = o
    <3>1. CASE \E j \in DOMAIN F.prompts : F.prompts[j].kind = "ref" /\ o = F.prompts[j].name
      <4>1. PICK j \in DOMAIN F.prompts : F.prompts[j].kind = "ref" /\ o = F.prompts[j].name
        BY <3>1
      <4>2. <<j, o>> \in PromptGets(F)
        BY <1>1, <4>1 DEF PromptGets
      <4>3. QED
        BY <1>6, <4>2
    <3>2. CASE \E j \in DOMAIN F.tools : o = F.tools[j]
      <4>1. PICK j \in DOMAIN F.tools : o = F.tools[j]
        BY <3>2
      <4>2. <<Len(F.prompts) + j, o>> \in ToolGets(F)
        BY <4>1 DEF ToolGets
      <4>3. QED
        BY <1>6, <4>2
    <3>3. CASE F.model.kind = "ref" /\ o = F.model.name
      <4>1. <<Listed(F) + 1, o>> \in ModelGets(F, d)
        BY <1>1, <3>3, ModelGetsAre
      <4>2. QED
        BY <1>6, <4>1
    <3>4. CASE o = PluginOf(F, e) /\ o # None
      <4>1. <<Listed(F) + 2, o>> \in ModelGets(F, d)
        BY <1>1, <1>7, <3>4, ModelGetsAre
      <4>2. QED
        BY <1>6, <4>1
    <3>5. QED
      BY <1>8, <3>1, <3>2, <3>3, <3>4 DEF Sources
  <2>2. QED
    BY <1>3, <1>4, <2>1, NamesAssumption DEF DepObj, Objects, RefTargets
<1>9. RenderedBy(F, k, Child(k, F, d), e)
  BY <1>5, <1>8, PieceIsReflexive DEF RenderedBy
<1>10. Child(k, F, d) = Child(k, flow, d) /\ Child(k, F, e) = Child(k, flow, e)
  BY AsFlowHasItsContent, SameContentSameRendering DEF F
<1>11. RenderedBy(flow, k, Child(k, flow, d), e)
  BY <1>9, <1>10, AsFlowHasItsContent DEF F
<1>12. QED
  BY <1>2, <1>5, <1>7, <1>10, <1>11 DEF d

-----------------------------------------------------------------------------
(* The hash can be told apart again into what each flow brought in.        *)

(* An entry is told by how many there are before it.                       *)
RankIn(S, a) == Cardinality({j \in S : j < a})

LEMMA RankTells ==
  ASSUME NEW n \in Nat, NEW S \in SUBSET (1..n), NEW a \in S, NEW b \in S,
         RankIn(S, a) = RankIn(S, b)
  PROVE  a = b
<1>1. ASSUME NEW x \in S, NEW y \in S, x < y
      PROVE  RankIn(S, x) # RankIn(S, y)
  <2> DEFINE X == {j \in S : j < x}
             Y == {j \in S : j < y}
  <2>1. IsFiniteSet(S)
    <3>1. IsFiniteSet(1..n)
      BY FS_Interval
    <3>2. QED
      BY <3>1, FS_Subset
  <2>2. IsFiniteSet(X) /\ IsFiniteSet(Y)
    <3>1. X \subseteq S /\ Y \subseteq S
      OBVIOUS
    <3> HIDE DEF X, Y
    <3>2. QED
      BY <2>1, <3>1, FS_Subset
  <2>3. x \notin X /\ X \cup {x} \subseteq Y
    <3>1. \A j \in S : j \in Nat
      OBVIOUS
    <3>2. ~(x < x) /\ \A j \in S : j < x => j < y
      BY <1>1, <3>1
    <3>3. QED
      BY <1>1, <3>2
  <2> HIDE DEF X, Y
  <2>4. Cardinality(X \cup {x}) = Cardinality(X) + 1 /\ IsFiniteSet(X \cup {x})
    BY <2>2, <2>3, FS_AddElement
  <2>5. Cardinality(X \cup {x}) <= Cardinality(Y)
    BY <2>2, <2>3, FS_Subset
  <2>6. Cardinality(X) \in Nat /\ Cardinality(Y) \in Nat
    BY <2>2, FS_CardinalityType
  <2>7. Cardinality(X) # Cardinality(Y)
    BY <2>4, <2>5, <2>6
  <2>8. QED
    BY <2>7 DEF X, Y, RankIn
<1>2. a \in Nat /\ b \in Nat
  OBVIOUS
<1>3. QED
  BY <1>1, <1>2

LEMMA FileIsFound ==
  ASSUME NEW n \in Nat, NEW file, DOMAIN file = 1..n,
         \A j \in 1..n : file[j] \in Data \cup {Absent},
         NEW i \in 1..n, file[i] # Absent,
         NEW before, \A j : j \in before <=> j \in 1..n /\ j < i /\ file[j] # Absent
  PROVE  /\ file[i] \in Data /\ <<Cardinality(before), file[i]>> \in InOrder(file)
         /\ \A x : <<Cardinality(before), x>> \in InOrder(file) => x = file[i]
<1> DEFINE S == {j \in 1..n : file[j] # Absent}
<1>1. S \in SUBSET (1..n) /\ i \in S
  OBVIOUS
<1>2. InOrder(file) = {<<RankIn(S, j), file[j]>> : j \in S}
  <2>1. {j \in DOMAIN file : Present(file[j])} = S
    BY NamesAssumption DEF Present
  <2>2. QED
    BY <2>1 DEF InOrder, RankIn
<1>3. Cardinality(before) = RankIn(S, i)
  <2>1. before = {h \in S : h < i}
    OBVIOUS
  <2>2. QED
    BY <2>1 DEF RankIn
<1>4. ASSUME NEW x, <<RankIn(S, i), x>> \in InOrder(file) PROVE x = file[i]
  <2>1. PICK j \in S : RankIn(S, i) = RankIn(S, j) /\ x = file[j]
    BY <1>2, <1>4
  <2> HIDE DEF S
  <2>2. i = j
    BY <1>1, <2>1, RankTells
  <2>3. QED
    BY <2>1, <2>2
<1>5. <<RankIn(S, i), file[i]>> \in InOrder(file)
  BY <1>1, <1>2
<1>6. QED
  BY <1>3, <1>4, <1>5

LEMMA GivenFlow ==
  ASSUME FlowsKeepContent, NEW spec \in plan.specs \cup {plan.start}, NEW i \in Entries(spec)
  PROVE  /\ FlowNamed(spec.flows[i].name) = spec.flows[i]
         /\ spec.flows[i].name \in GivenNames
<1> DEFINE flow == spec.flows[i]
<1>1. flow \in GivenFlows
  BY DEF GivenFlows
<1>2. \A h \in GivenFlows : h.name = flow.name => h = flow
  BY <1>1 DEF FlowsKeepContent
<1> HIDE DEF flow
<1>3. FlowNamed(flow.name) = flow
  BY <1>1, <1>2 DEF FlowNamed
<1>4. flow.name \in GivenNames
  BY <1>1 DEF GivenNames
<1>5. QED
  BY <1>3, <1>4 DEF flow

LEMMA FlowOfGivenName ==
  ASSUME plan \in Plans, NEW f \in GivenNames
  PROVE  /\ FlowNamed(f).name = f /\ f \in Flows
         /\ \E spec \in FlowSetSpec : \E i \in Entries(spec) : FlowNamed(f) = spec.flows[i]
<1>1. PICK h \in GivenFlows : h.name = f
  BY DEF GivenNames
<1>2. FlowNamed(f) \in GivenFlows /\ FlowNamed(f).name = f
  BY <1>1 DEF FlowNamed
<1>3. PICK spec \in plan.specs \cup {plan.start} : \E i \in Entries(spec) : FlowNamed(f) = spec.flows[i]
  BY <1>2 DEF GivenFlows
<1>4. spec \in FlowSetSpec
  BY SetSpecsAre
<1>5. QED
  BY <1>2, <1>3, <1>4, FlowOfSet

(* A rendered flow has a file for exactly the prompts and tools it names.  *)
LEMMA FilesOfFlow ==
  ASSUME NEW spec \in FlowSetSpec, NEW got, \A j \in Entries(spec) : got[j] \in Readings,
         SetOutcome(spec, got).reason = "Rendered", NEW i \in Entries(spec)
  PROVE  LET flow == spec.flows[i]
         IN  /\ \A p \in Prompts :
                  /\ PromptFiles(flow, got[i])[p] \in Data \cup {Absent}
                  /\ PromptFiles(flow, got[i])[p] # Absent
                       <=> \E j \in DOMAIN flow.prompts : flow.prompts[j].name = p
             /\ \A t \in Tools :
                  /\ ToolFiles(flow, got[i])[t] \in Data \cup {Absent}
                  /\ ToolFiles(flow, got[i])[t] # Absent
                       <=> \E j \in DOMAIN flow.tools : flow.tools[j] = t
<1> DEFINE F == AsFlow(spec, i)
           flow == spec.flows[i]
           d == got[i]
<1>1. /\ F \in FlowSpec /\ d \in Readings
      /\ Outcome(F, d).reason = "Rendered" /\ ToRead(F, d) = {} /\ BadSources(F) = {}
  BY FlowOfSet, EachFlowIsRendered, RenderedMeans
<1>2. /\ F.prompts = flow.prompts /\ F.tools = flow.tools
      /\ PromptFiles(F, d) = PromptFiles(flow, d) /\ ToolFiles(F, d) = ToolFiles(flow, d)
  BY AsFlowIsTheFlow DEF AsFlow
<1>3. /\ PromptFiles(F, d) \in [Prompts -> Data \cup {Absent}]
      /\ ToolFiles(F, d) \in [Tools -> Data \cup {Absent}]
  BY <1>1, PromptFilesType, ToolFilesType
<1> HIDE DEF F, d
<1>4. \A g \in Gets(F, d) : d[g[2]] \in DepObj(g[2])
  BY <1>1, EveryReadIsFound
<1>5. \A g \in Gets(F, d) : d[g[2]].data \in Data
  BY <1>4 DEF DepObj
<1>6. Gets(F, d) = PromptGets(F) \cup ToolGets(F) \cup ModelGets(F, d)
  BY <1>1 DEF Gets
<1>7. ASSUME NEW p \in Prompts
      PROVE  PromptFiles(F, d)[p] # Absent <=> \E j \in DOMAIN F.prompts : F.prompts[j].name = p
  <2> DEFINE at == {j \in DOMAIN F.prompts : F.prompts[j].name = p}
             l == CHOOSE j \in at : \A h \in at : h <= j
  <2>1. PromptFiles(F, d)[p] = IF at = {} THEN Absent
               ELSE IF F.prompts[l].kind = "ref" THEN d[p].data ELSE F.prompts[l].content
    BY DEF PromptFiles
  <2>2. at # {} => l \in at
    <3> HIDE DEF at
    <3>1. ASSUME at # {} PROVE (CHOOSE j \in at : \A h \in at : h <= j) \in at
      BY <1>1, <3>1, LastPrompt DEF at
    <3>2. QED
      BY <3>1
  <2> HIDE DEF l
  <2>3. CASE at # {}
    <3>1. l \in DOMAIN F.prompts /\ F.prompts[l].name = p /\ F.prompts[l] \in PromptSource
      BY <1>1, <2>2, <2>3 DEF FlowSpec
    <3>2. F.prompts[l].kind # "none"
      BY <1>1, <3>1 DEF BadSources
    <3>3. CASE F.prompts[l].kind = "ref"
      <4>1. <<l, p>> \in PromptGets(F)
        BY <1>1, <3>1, <3>3 DEF PromptGets
      <4>2. d[p].data \in Data
        BY <1>5, <1>6, <4>1
      <4>3. QED
        BY <2>1, <2>3, <3>1, <3>3, <4>2, NamesAssumption
    <3>4. CASE F.prompts[l].kind # "ref"
      <4>1. F.prompts[l].content \in Data
        BY <3>1, <3>2, <3>4 DEF PromptSource
      <4>2. QED
        BY <2>1, <2>3, <3>1, <3>4, <4>1, NamesAssumption
    <3>5. QED
      BY <3>3, <3>4
  <2>4. CASE at = {}
    BY <2>1, <2>4
  <2>5. QED
    BY <2>3, <2>4
<1>8. ASSUME NEW t \in Tools
      PROVE  ToolFiles(F, d)[t] # Absent <=> \E j \in DOMAIN F.tools : F.tools[j] = t
  <2>1. CASE \E j \in DOMAIN F.tools : F.tools[j] = t
    <3>1. PICK j \in DOMAIN F.tools : F.tools[j] = t
      BY <2>1
    <3>2. <<Len(F.prompts) + j, t>> \in ToolGets(F)
      BY <3>1 DEF ToolGets
    <3>3. d[t].data \in Data
      BY <1>5, <1>6, <3>2
    <3>4. QED
      BY <2>1, <3>3, NamesAssumption DEF ToolFiles
  <2>2. CASE ~\E j \in DOMAIN F.tools : F.tools[j] = t
    BY <2>2 DEF ToolFiles
  <2>3. QED
    BY <2>1, <2>2
<1>9. QED
  BY <1>2, <1>3, <1>7, <1>8 DEF d

(* The flow has a file for prompt p, or for tool t.                        *)
HasPrompt(flow, p) == \E h \in DOMAIN flow.prompts : flow.prompts[h].name = p
HasTool(flow, t) == \E h \in DOMAIN flow.tools : flow.tools[h] = t

(* What the hash was taken of can be read off it, flow by flow.            *)
LEMMA HashTellsFlows ==
  ASSUME plan \in Plans, FlowsKeepContent, NEW spec \in plan.specs \cup {plan.start},
         NEW got, \A j \in Entries(spec) : got[j] \in Readings,
         SetOutcome(spec, got).reason = "Rendered"
  PROVE  LET hash == SetHash(spec, got)
         IN  /\ HashedNames(hash) = FlowNames(spec)
             /\ \A i \in Entries(spec), k \in Mounted :
                  Hashed(hash, k, spec.flows[i].name) = Child(k, spec.flows[i], got[i])
<1> DEFINE hash == SetHash(spec, got)
           n == Len(spec.flows)
<1>1. spec \in FlowSetSpec /\ DistinctNames(spec.flows)
  BY SetSpecsAre
<1>2. n \in Nat /\ Entries(spec) = 1..n
  BY <1>1, EntriesAre
<1>3. DOMAIN hash.manifest = 1..n /\ \A j \in 1..n : hash.manifest[j].name = spec.flows[j].name
  BY <1>2 DEF SetHash, Manifest
<1>4. \A p \in Prompts : hash.prompts[p]
        = InOrder([j \in Entries(spec) |-> PromptFiles(spec.flows[j], got[j])[p]])
  BY DEF SetHash
<1>5. \A t \in Tools : hash.tools[t]
        = InOrder([j \in Entries(spec) |-> ToolFiles(spec.flows[j], got[j])[t]])
  BY DEF SetHash
<1>6. \A j \in 1..n : hash.config[j] = FlowConfig(spec.flows[j], got[j])
  BY <1>2 DEF SetHash
<1> HIDE DEF hash
<1>7. HashedNames(hash) = FlowNames(spec)
  BY <1>2, <1>3 DEF HashedNames, FlowNames
<1>8. ASSUME NEW j \in Entries(spec), NEW flow, flow = spec.flows[j]
      PROVE  /\ \A p \in Prompts : /\ PromptFiles(flow, got[j])[p] \in Data \cup {Absent}
                                   /\ PromptFiles(flow, got[j])[p] # Absent <=> HasPrompt(flow, p)
             /\ \A t \in Tools : /\ ToolFiles(flow, got[j])[t] \in Data \cup {Absent}
                                 /\ ToolFiles(flow, got[j])[t] # Absent <=> HasTool(flow, t)
  BY <1>1, <1>8, FilesOfFlow DEF HasPrompt, HasTool
<1>9. ASSUME NEW i \in 1..n, NEW k \in Mounted
      PROVE  Hashed(hash, k, spec.flows[i].name) = Child(k, spec.flows[i], got[i])
  <2> DEFINE f == spec.flows[i].name
  <2>1. (CHOOSE j \in DOMAIN hash.manifest : hash.manifest[j].name = f) = i
    BY <1>1, <1>2, <1>3 DEF DistinctNames
  <2>2. ASSUME NEW j \in 1..n
        PROVE  /\ FlowNamed(spec.flows[j].name) = spec.flows[j]
               /\ spec.flows[j].name \in GivenNames
    <3>1. j \in Entries(spec)
      BY <1>2, Zenon
    <3>2. QED
      BY <3>1, GivenFlow
  <2>3. CASE k = "prompts"
    <3>1. ASSUME NEW p \in Prompts
          PROVE  (IF f \in WithPrompt(p) THEN FileOf(hash, hash.prompts[p], i, WithPrompt(p))
                  ELSE Absent) = PromptFiles(spec.flows[i], got[i])[p]
      <4> DEFINE file == [j \in Entries(spec) |-> PromptFiles(spec.flows[j], got[j])[p]]
      <4>1. ASSUME NEW j \in 1..n
            PROVE  /\ file[j] \in Data \cup {Absent}
                   /\ file[j] # Absent <=> spec.flows[j].name \in WithPrompt(p)
        <5>1. j \in Entries(spec)
          BY <1>2, Zenon
        <5>2. file[j] = PromptFiles(spec.flows[j], got[j])[p]
          BY <5>1
        <5>3. spec.flows[j].name \in WithPrompt(p) <=> HasPrompt(spec.flows[j], p)
          BY <2>2 DEF WithPrompt, HasPrompt
        <5>4. PICK flow : flow = spec.flows[j]
          OBVIOUS
        <5> HIDE DEF file
        <5>5. /\ PromptFiles(flow, got[j])[p] \in Data \cup {Absent}
              /\ PromptFiles(flow, got[j])[p] # Absent <=> HasPrompt(flow, p)
          BY <1>8, <5>1, <5>4
        <5>6. QED
          BY <5>2, <5>3, <5>4, <5>5, Zenon
      <4>2. DOMAIN file = 1..n /\ file[i] = PromptFiles(spec.flows[i], got[i])[p]
        BY <1>2
      <4>3. hash.prompts[p] = InOrder(file)
        BY <1>4
      <4> HIDE DEF file
      <4>4. {j \in DOMAIN hash.manifest : j < i /\ hash.manifest[j].name \in WithPrompt(p)}
              = {j \in 1..n : j < i /\ file[j] # Absent}
        BY <1>3, <4>1
      <4>5. CASE f \in WithPrompt(p)
        <5>1. file[i] # Absent
          BY <4>1, <4>5
        <5>2. PICK before : before = {j \in 1..n : j < i /\ file[j] # Absent}
          OBVIOUS
        <5>3. FileOf(hash, InOrder(file), i, WithPrompt(p)) = file[i]
          <6>1. {j \in DOMAIN hash.manifest : j < i /\ hash.manifest[j].name \in WithPrompt(p)} = before
            BY <4>4, <5>2
          <6>2. /\ n \in Nat /\ DOMAIN file = 1..n /\ i \in 1..n /\ file[i] # Absent
                /\ \A j \in 1..n : file[j] \in Data \cup {Absent}
                /\ \A j : j \in before <=> j \in 1..n /\ j < i /\ file[j] # Absent
            BY ONLY <1>2, <4>1, <4>2, <5>1, <5>2, i \in 1..n
          <6>3. /\ file[i] \in Data /\ <<Cardinality(before), file[i]>> \in InOrder(file)
                /\ \A x : <<Cardinality(before), x>> \in InOrder(file) => x = file[i]
            BY ONLY <6>2, FileIsFound
          <6>4. (CHOOSE x \in Data : <<Cardinality(before), x>> \in InOrder(file)) = file[i]
            BY <6>3
          <6>5. QED
            BY <6>1, <6>4 DEF FileOf
        <5>4. QED
          BY <4>2, <4>3, <4>5, <5>3
      <4>6. CASE f \notin WithPrompt(p)
        BY <4>1, <4>2, <4>6
      <4>7. QED
        BY <4>5, <4>6
    <3>2. Hashed(hash, k, f) = [p \in Prompts |-> PromptFiles(spec.flows[i], got[i])[p]]
      BY <2>1, <2>3, <3>1 DEF Hashed
    <3>3. QED
      BY <2>3, <3>2, Zenon DEF Child, PromptFiles
  <2>4. CASE k = "tools"
    <3>1. ASSUME NEW t \in Tools
          PROVE  (IF f \in WithTool(t) THEN FileOf(hash, hash.tools[t], i, WithTool(t))
                  ELSE Absent) = ToolFiles(spec.flows[i], got[i])[t]
      <4> DEFINE file == [j \in Entries(spec) |-> ToolFiles(spec.flows[j], got[j])[t]]
      <4>1. ASSUME NEW j \in 1..n
            PROVE  /\ file[j] \in Data \cup {Absent}
                   /\ file[j] # Absent <=> spec.flows[j].name \in WithTool(t)
        <5>1. j \in Entries(spec)
          BY <1>2, Zenon
        <5>2. file[j] = ToolFiles(spec.flows[j], got[j])[t]
          BY <5>1
        <5>3. spec.flows[j].name \in WithTool(t) <=> HasTool(spec.flows[j], t)
          BY <2>2 DEF WithTool, HasTool
        <5>4. PICK flow : flow = spec.flows[j]
          OBVIOUS
        <5> HIDE DEF file
        <5>5. /\ ToolFiles(flow, got[j])[t] \in Data \cup {Absent}
              /\ ToolFiles(flow, got[j])[t] # Absent <=> HasTool(flow, t)
          BY <1>8, <5>1, <5>4
        <5>6. QED
          BY <5>2, <5>3, <5>4, <5>5, Zenon
      <4>2. DOMAIN file = 1..n /\ file[i] = ToolFiles(spec.flows[i], got[i])[t]
        BY <1>2
      <4>3. hash.tools[t] = InOrder(file)
        BY <1>5
      <4> HIDE DEF file
      <4>4. {j \in DOMAIN hash.manifest : j < i /\ hash.manifest[j].name \in WithTool(t)}
              = {j \in 1..n : j < i /\ file[j] # Absent}
        BY <1>3, <4>1
      <4>5. CASE f \in WithTool(t)
        <5>1. file[i] # Absent
          BY <4>1, <4>5
        <5>2. PICK before : before = {j \in 1..n : j < i /\ file[j] # Absent}
          OBVIOUS
        <5>3. FileOf(hash, InOrder(file), i, WithTool(t)) = file[i]
          <6>1. {j \in DOMAIN hash.manifest : j < i /\ hash.manifest[j].name \in WithTool(t)} = before
            BY <4>4, <5>2
          <6>2. /\ n \in Nat /\ DOMAIN file = 1..n /\ i \in 1..n /\ file[i] # Absent
                /\ \A j \in 1..n : file[j] \in Data \cup {Absent}
                /\ \A j : j \in before <=> j \in 1..n /\ j < i /\ file[j] # Absent
            BY ONLY <1>2, <4>1, <4>2, <5>1, <5>2, i \in 1..n
          <6>3. /\ file[i] \in Data /\ <<Cardinality(before), file[i]>> \in InOrder(file)
                /\ \A x : <<Cardinality(before), x>> \in InOrder(file) => x = file[i]
            BY ONLY <6>2, FileIsFound
          <6>4. (CHOOSE x \in Data : <<Cardinality(before), x>> \in InOrder(file)) = file[i]
            BY <6>3
          <6>5. QED
            BY <6>1, <6>4 DEF FileOf
        <5>4. QED
          BY <4>2, <4>3, <4>5, <5>3
      <4>6. CASE f \notin WithTool(t)
        BY <4>1, <4>2, <4>6
      <4>7. QED
        BY <4>5, <4>6
    <3>2. Hashed(hash, k, f) = [t \in Tools |-> ToolFiles(spec.flows[i], got[i])[t]]
      BY <2>1, <2>4, <3>1 DEF Hashed
    <3>3. QED
      BY <2>4, <3>2, Zenon DEF Child, ToolFiles
  <2>5. CASE k = "config"
    <3>1. Hashed(hash, k, f) = hash.config[i].config
      BY <2>1, <2>5 DEF Hashed
    <3>2. FlowConfig(spec.flows[i], got[i]).config = RuntimeConfig(spec.flows[i], got[i])
      BY DEF FlowConfig
    <3>3. QED
      BY <1>6, <2>5, <3>1, <3>2 DEF Child
  <2>6. QED
    BY <2>3, <2>4, <2>5 DEF Mounted
<1>10. QED
  BY <1>2, <1>7, <1>9 DEF hash

-----------------------------------------------------------------------------
(* The plan of the users stays what it is, and with it the flows' names.   *)
LEMMA PlanStays ==
  ASSUME UNCHANGED plan
  PROVE  /\ GivenNames' = GivenNames /\ (FlowsKeepContent' <=> FlowsKeepContent)
         /\ \A f : FlowNamed(f)' = FlowNamed(f)
         /\ \A hash, f : \A k \in Mounted : Hashed(hash, k, f)' = Hashed(hash, k, f)
<1>1. GivenFlows' = GivenFlows
  BY DEF GivenFlows
<1>2. GivenNames' = GivenNames /\ (FlowsKeepContent' <=> FlowsKeepContent)
  BY <1>1 DEF GivenNames, FlowsKeepContent
<1>3. ASSUME NEW f PROVE FlowNamed(f)' = FlowNamed(f)
  BY <1>1 DEF FlowNamed
<1>4. ASSUME NEW p PROVE WithPrompt(p)' = WithPrompt(p)
  BY <1>2, <1>3 DEF WithPrompt
<1>5. ASSUME NEW t PROVE WithTool(t)' = WithTool(t)
  BY <1>2, <1>3 DEF WithTool
<1>6. ASSUME NEW hash, NEW k \in Mounted, NEW f PROVE Hashed(hash, k, f)' = Hashed(hash, k, f)
  <2>1. CASE k = "prompts"
    BY <1>4, <2>1 DEF Hashed
  <2>2. CASE k = "tools"
    BY <1>5, <2>2 DEF Hashed
  <2>3. CASE k = "config"
    BY <2>3 DEF Hashed
  <2>4. QED
    BY <2>1, <2>2, <2>3 DEF Mounted
<1>7. QED
  BY <1>2, <1>3, <1>6

(* What a reconcile has read, filled up from the cache.                    *)
LEMMA EntryOfFlow ==
  ASSUME NEW spec, NEW f \in FlowNames(spec)
  PROVE  EntryOf(spec, f) \in Entries(spec) /\ spec.flows[EntryOf(spec, f)].name = f
BY DEF EntryOf, FlowNames

LEMMA EntryOfName ==
  ASSUME NEW spec, DistinctNames(spec.flows), NEW i \in Entries(spec)
  PROVE  EntryOf(spec, spec.flows[i].name) = i
BY DEF EntryOf, DistinctNames, Entries

LEMMA FilledUpIsAStore ==
  ASSUME NEW cd \in Stores, NEW reads \in BOOLEAN, NEW got, reads => got \in Readings
  PROVE  [o \in Deps |-> IF reads /\ got[o] # Unread THEN got[o] ELSE cd[o]] \in Stores
BY DEF Stores, Readings

LEMMA ProspectType ==
  ASSUME SetTypeInv, NEW f
  PROVE  Prospect(f) \in Stores
<1>1. cdeps \in Stores
  BY SetTypeParts DEF SetTypeInv, SetCachesOK
<1>2. ReadFor(f) => rec.got[EntryOf(rec.orig.spec, f)] \in Readings
  BY RecParts, SetTypeParts, EntryOfFlow DEF ReadFor, SetTypeInv
<1>3. QED
  BY <1>1, <1>2, FilledUpIsAStore DEF Prospect, ReadFor

LEMMA ProspectTypeNext ==
  ASSUME SetTypeInv', NEW f
  PROVE  Prospect(f)' \in Stores
<1>1. cdeps' \in Stores
  BY DEF SetTypeInv, SetTypeOK
<1>2. ReadFor(f)' => rec'.got[EntryOf(rec'.orig.spec, f)] \in Readings
  <2> SUFFICES ASSUME ReadFor(f)' PROVE rec'.got[EntryOf(rec'.orig.spec, f)] \in Readings
    OBVIOUS
  <2>1. PICK r : r = rec'
    OBVIOUS
  <2>2. r # None /\ f \in FlowNames(r.orig.spec)
    BY <2>1 DEF ReadFor
  <2>3. r \in SetReconciles /\ DOMAIN r.got = Entries(r.orig.spec)
    BY <2>1, <2>2 DEF SetTypeInv, SetTypeOK
  <2>4. EntryOf(r.orig.spec, f) \in DOMAIN r.got /\ r.got \in Seq(Readings)
    BY <2>2, <2>3, EntryOfFlow DEF SetReconciles
  <2>5. r.got[EntryOf(r.orig.spec, f)] \in Readings
    BY <2>4
  <2>6. QED
    BY <2>1, <2>5
<1>3. QED
  BY <1>1, <1>2, FilledUpIsAStore DEF Prospect, ReadFor

LEMMA ProspectIsBehind ==
  ASSUME SetTypeInv, ReadingsOK, \A o \in Deps : UpTo(o, cdeps[o], deps[o]), NEW f, NEW o \in Deps
  PROVE  UpTo(o, Prospect(f)[o], cdeps[o]) /\ UpTo(o, Prospect(f)[o], deps[o])
<1>1. UpTo(o, Prospect(f)[o], cdeps[o])
  <2>1. CASE ReadFor(f) /\ rec.got[EntryOf(rec.orig.spec, f)][o] # Unread
    BY <2>1, EntryOfFlow DEF ReadFor, ReadingsOK, Prospect
  <2>2. CASE ~(ReadFor(f) /\ rec.got[EntryOf(rec.orig.spec, f)][o] # Unread)
    <3>1. Prospect(f)[o] = cdeps[o]
      BY <2>2 DEF Prospect
    <3>2. QED
      BY <3>1, UpToIsReflexive
  <2>3. QED
    BY <2>1, <2>2
<1>2. QED
  BY <1>1, UpToIsTransitive

-----------------------------------------------------------------------------
(* What is behind stays behind while everything moves forward.             *)

(* The ConfigMap is left alone, deleted, or sent as it is rendered now.    *)
MapMoves(f, k) ==
  \/ kids'[<<f, k>>] \in {kids[<<f, k>>], Absent}
  \/ /\ OfFlow(f, k, kids'[<<f, k>>].body)
     /\ Piece(k, kids'[<<f, k>>].body) = Child(k, FlowNamed(f), Prospect(f)')
     /\ RenderedBy(FlowNamed(f), k, Child(k, FlowNamed(f), Prospect(f)'), Prospect(f)')

(* What a step may do to all that is rendered or read.                     *)
Onwards ==
  /\ UNCHANGED plan
  /\ \A o \in Deps : UpTo(o, deps[o], deps'[o]) /\ UpTo(o, cdeps'[o], deps'[o])
  /\ \A f \in GivenNames, o \in Deps : UpTo(o, Prospect(f)[o], Prospect(f)'[o])
  /\ \A f \in GivenNames, k \in Mounted : MapMoves(f, k)
  /\ ReadingsOK' /\ SentOK'

LEMMA OnwardsMeans ==
  ASSUME SetTypeInv, SetTypeInv', ServingTracking, FlowsKeepContent, Onwards, NEW f \in GivenNames
  PROVE  /\ deps \in Stores /\ deps' \in Stores
         /\ Prospect(f) \in Stores /\ Prospect(f)' \in Stores
         /\ \A o \in Deps : /\ UpTo(o, deps[o], deps'[o])
                            /\ UpTo(o, Prospect(f)[o], Prospect(f)'[o])
                            /\ UpTo(o, Prospect(f)[o], deps[o])
                            /\ UpTo(o, Prospect(f)'[o], deps'[o])
         /\ \E spec \in FlowSetSpec : \E i \in Entries(spec) : FlowNamed(f) = spec.flows[i]
<1>1. deps \in Stores /\ deps' \in Stores /\ plan \in Plans
  BY DEF SetTypeInv, SetTypeOK
<1>2. Prospect(f) \in Stores /\ Prospect(f)' \in Stores
  BY ProspectType, ProspectTypeNext
<1>3. ASSUME NEW o \in Deps PROVE UpTo(o, Prospect(f)[o], deps[o])
  BY ProspectIsBehind DEF ServingTracking
<1>4. ASSUME NEW o \in Deps PROVE UpTo(o, Prospect(f)'[o], deps'[o])
  <2>1. UpTo(o, Prospect(f)'[o], cdeps'[o])
    <3>1. CASE ReadFor(f)' /\ rec'.got[EntryOf(rec'.orig.spec, f)][o] # Unread
      <4>1. PICK r, c : r = rec' /\ c = cdeps'
        OBVIOUS
      <4>2. r # None /\ f \in FlowNames(r.orig.spec)
        BY <3>1, <4>1 DEF ReadFor
      <4>3. EntryOf(r.orig.spec, f) \in Entries(r.orig.spec)
        BY <4>2, EntryOfFlow
      <4>4. \A i \in Entries(r.orig.spec) : r.got[i][o] # Unread => UpTo(o, r.got[i][o], c[o])
        BY <4>1, <4>2 DEF Onwards, ReadingsOK
      <4>5. UpTo(o, r.got[EntryOf(r.orig.spec, f)][o], c[o])
        BY <3>1, <4>1, <4>3, <4>4
      <4>6. Prospect(f)'[o] = r.got[EntryOf(r.orig.spec, f)][o]
        BY <3>1, <4>1 DEF Prospect
      <4>7. QED
        BY <4>1, <4>5, <4>6
    <3>2. CASE ~(ReadFor(f)' /\ rec'.got[EntryOf(rec'.orig.spec, f)][o] # Unread)
      <4>1. Prospect(f)'[o] = cdeps'[o]
        BY <3>2 DEF Prospect
      <4>2. QED
        BY <4>1, UpToIsReflexive
    <3>3. QED
      BY <3>1, <3>2
  <2>2. UpTo(o, cdeps'[o], deps'[o])
    BY DEF Onwards
  <2>3. QED
    BY <2>1, <2>2, UpToIsTransitive
<1>5. \E spec \in FlowSetSpec : \E i \in Entries(spec) : FlowNamed(f) = spec.flows[i]
  BY <1>1, FlowOfGivenName
<1>6. QED
  BY <1>1, <1>2, <1>3, <1>4, <1>5 DEF Onwards

LEMMA MapStays ==
  ASSUME SetTypeInv, SetTypeInv', ServingTracking, FlowsKeepContent, Onwards,
         NEW f \in GivenNames, NEW k \in Mounted
  PROVE  MapOK(f, k)'
<1>1. PICK flow, d, e, q : flow = FlowNamed(f) /\ d = deps /\ e = deps' /\ q = Prospect(f)'
  OBVIOUS
<1>2. /\ d \in Stores /\ e \in Stores /\ q \in Stores
      /\ \A o \in Deps : UpTo(o, d[o], e[o]) /\ UpTo(o, q[o], e[o])
      /\ \E spec \in FlowSetSpec : \E i \in Entries(spec) : flow = spec.flows[i]
  BY <1>1, OnwardsMeans
<1>3. MapOK(f, k) /\ MapMoves(f, k)
  BY DEF ServingTracking, Onwards
<1>4. PICK kid : kid = kids'[<<f, k>>]
  OBVIOUS
<1>5. SUFFICES ASSUME kid # Absent
               PROVE  OfFlow(f, k, kid.body) /\ RenderedBy(flow, k, Piece(k, kid.body), e)
  <2>1. FlowNamed(f)' = flow
    BY <1>1, PlanStays DEF Onwards
  <2>2. QED
    BY <1>1, <1>4, <1>5, <2>1 DEF MapOK
<1>6. CASE kid = kids[<<f, k>>]
  <2>1. OfFlow(f, k, kid.body) /\ RenderedBy(flow, k, Piece(k, kid.body), d)
    BY <1>1, <1>3, <1>5, <1>6 DEF MapOK
  <2>2. QED
    BY <1>2, <2>1, FlowRenderedStays
<1>7. CASE kid # kids[<<f, k>>]
  <2>1. OfFlow(f, k, kid.body) /\ RenderedBy(flow, k, Piece(k, kid.body), q)
    BY <1>1, <1>3, <1>4, <1>5, <1>7 DEF MapMoves
  <2>2. QED
    BY <1>2, <2>1, FlowRenderedStays
<1>8. QED
  BY <1>6, <1>7

LEMMA HashStays ==
  ASSUME SetTypeInv, SetTypeInv', ServingTracking, FlowsKeepContent, Onwards,
         NEW f \in GivenNames, NEW k \in Mounted, NEW hash, HashOK(hash, f, k)
  PROVE  HashOK(hash, f, k)'
<1>1. PICK flow, x : flow = FlowNamed(f) /\ x = Hashed(hash, k, f)
  OBVIOUS
<1>2. PICK d, e, p, q : d = deps /\ e = deps' /\ p = Prospect(f) /\ q = Prospect(f)'
  OBVIOUS
<1>3. /\ d \in Stores /\ e \in Stores /\ p \in Stores /\ q \in Stores
      /\ \A o \in Deps : /\ UpTo(o, d[o], e[o]) /\ UpTo(o, p[o], q[o])
                         /\ UpTo(o, p[o], d[o]) /\ UpTo(o, q[o], e[o])
      /\ \E spec \in FlowSetSpec : \E i \in Entries(spec) : flow = spec.flows[i]
  BY <1>1, <1>2, OnwardsMeans
<1>4. RenderedBy(flow, k, x, p)
  BY <1>1, <1>2 DEF HashOK
<1>5. RenderedBy(flow, k, x, q) /\ RenderedBy(flow, k, x, d) /\ RenderedBy(flow, k, x, e)
  BY <1>3, <1>4, FlowRenderedStays
<1>6. PluginOf(flow, e) = PluginOf(flow, d) /\ PluginOf(flow, e) = PluginOf(flow, q)
  <2> PICK spec \in FlowSetSpec : \E i \in Entries(spec) : flow = spec.flows[i]
    BY <1>3
  <2>1. PICK i \in Entries(spec) : flow = spec.flows[i]
    OBVIOUS
  <2>2. PluginOf(flow, e) = PluginOf(flow, d)
    BY <1>3, <1>5, <2>1, FlowRenderedStays
  <2>3. PluginOf(flow, e) = PluginOf(flow, q)
    BY <1>3, <1>5, <2>1, FlowRenderedStays
  <2>4. QED
    BY <2>2, <2>3
<1>7. FlowNamed(f)' = flow /\ Hashed(hash, k, f)' = x
  BY <1>1, PlanStays DEF Onwards
<1>8. PICK kid : kid = kids'[<<f, k>>]
  OBVIOUS
<1>9. ASSUME kid # Absent
      PROVE  PieceBefore(flow.model.name, PluginOf(flow, e), k, x, Piece(k, kid.body))
  <2>1. MapMoves(f, k)
    BY DEF Onwards
  <2>2. CASE kid = kids[<<f, k>>]
    <3>1. PieceBefore(flow.model.name, PluginOf(flow, d), k, x, Piece(k, kid.body))
      BY <1>1, <1>2, <1>9, <2>2 DEF HashOK, NoNewer
    <3>2. QED
      BY <1>6, <3>1
  <2>3. CASE kid # kids[<<f, k>>]
    <3>1. Piece(k, kid.body) = Child(k, flow, q)
      BY <1>1, <1>2, <1>8, <1>9, <2>1, <2>3 DEF MapMoves
    <3>2. QED
      BY <1>5, <1>6, <3>1 DEF RenderedBy
  <2>4. QED
    BY <2>2, <2>3
<1>10. HashOK(hash, f, k)' <=>
         /\ RenderedBy(flow, k, x, q)
         /\ kid # Absent => PieceBefore(flow.model.name, PluginOf(flow, e), k, x, Piece(k, kid.body))
  BY <1>2, <1>7, <1>8 DEF HashOK, NoNewer
<1>11. QED
  BY <1>5, <1>9, <1>10

LEMMA DeployIsTyped ==
  ASSUME SetTypeInv, kids[DeploySlot] # Absent
  PROVE  /\ kids[DeploySlot].body.template \in SetTemplates
         /\ \A mount \in kids[DeploySlot].body.template.volumes :
              mount[1] \in Flows /\ mount[2] \in Deps
<1>1. kids[DeploySlot] \in KidObj(DeploySlot)
  BY SlotsAreDistinct DEF SetTypeInv, SetTypeOK
<1>2. kids[DeploySlot].body \in SetChildBody(DeploySlot)
  BY <1>1 DEF KidObj
<1>3. kids[DeploySlot].body.template \in SetTemplates
  BY <1>2, SlotsAreDistinct DEF SetChildBody
<1>4. QED
  BY <1>3 DEF SetTemplates, Deps

LEMMA TemplateStays ==
  ASSUME SetTypeInv, SetTypeInv', ServingTracking, FlowsKeepContent, Onwards,
         NEW t, \A mount \in t.volumes : mount[2] \in Deps, TemplateOK(t)
  PROVE  TemplateOK(t)'
<1>1. GivenNames' = GivenNames
  BY PlanStays DEF Onwards
<1>2. \A f \in HashedNames(t.hash), k \in Mounted : HashOK(t.hash, f, k)'
  BY HashStays DEF TemplateOK
<1>3. ASSUME NEW mount \in t.volumes
      PROVE  /\ mount[1] \in HashedNames(t.hash) /\ deps'[mount[2]] # Absent
             /\ Before(mount[2], t.hash.secrets[mount[2]], deps'[mount[2]].data)
  <2> DEFINE s == mount[2]
  <2>1. /\ mount[1] \in HashedNames(t.hash) /\ deps[s] # Absent
        /\ Before(s, t.hash.secrets[s], deps[s].data)
    BY DEF TemplateOK
  <2>2. UpTo(s, deps[s], deps'[s])
    BY DEF Onwards
  <2>3. PICK e : e = deps'[s]
    OBVIOUS
  <2>4. e # Absent /\ Before(s, deps[s].data, e.data)
    BY <2>1, <2>2, <2>3 DEF UpTo
  <2>5. Before(s, t.hash.secrets[s], e.data)
    BY <2>1, <2>4, BeforeIsTransitive
  <2>6. QED
    BY <2>1, <2>3, <2>4, <2>5
<1>4. HashedNames(t.hash) \subseteq GivenNames'
  BY <1>1 DEF TemplateOK
<1>5. QED
  BY <1>2, <1>3, <1>4 DEF TemplateOK

LEMMA LoadedStays ==
  ASSUME SetTypeInv, SetTypeInv', ServingTracking, FlowsKeepContent, Onwards,
         NEW hash, NEW mount, mount[2] \in Deps, NEW loaded, LoadedOK(hash, mount, loaded)
  PROVE  LoadedOK(hash, mount, loaded)'
<1> DEFINE f == mount[1]
           s == mount[2]
<1>1. f \in GivenNames /\ f \in GivenNames'
  BY PlanStays DEF LoadedOK, Onwards
<1>2. PICK flow, d, e : flow = FlowNamed(f) /\ d = deps /\ e = deps'
  OBVIOUS
<1>3. /\ d \in Stores /\ e \in Stores /\ \A o \in Deps : UpTo(o, d[o], e[o])
      /\ \E spec \in FlowSetSpec : \E i \in Entries(spec) : flow = spec.flows[i]
  BY <1>1, <1>2, OnwardsMeans
<1>4. flow = FlowNamed(f)'
  BY <1>2, PlanStays DEF Onwards
<1>5. ASSUME NEW k \in Mounted
      PROVE  /\ OfFlow(f, k, loaded.maps[k])
             /\ RenderedBy(FlowNamed(f), k, Piece(k, loaded.maps[k]), deps)'
             /\ NoNewer(f, k, Hashed(hash, k, f), Piece(k, loaded.maps[k]))'
  <2>1. PICK x, y : x = Hashed(hash, k, f) /\ y = Piece(k, loaded.maps[k])
    OBVIOUS
  <2>2. /\ OfFlow(f, k, loaded.maps[k]) /\ RenderedBy(flow, k, y, d)
        /\ PieceBefore(flow.model.name, PluginOf(flow, d), k, x, y)
    BY <1>2, <2>1 DEF LoadedOK, NoNewer
  <2>3. RenderedBy(flow, k, y, e) /\ PluginOf(flow, e) = PluginOf(flow, d)
    <3> PICK spec \in FlowSetSpec : \E i \in Entries(spec) : flow = spec.flows[i]
      BY <1>3
    <3>1. PICK i \in Entries(spec) : flow = spec.flows[i]
      OBVIOUS
    <3>2. QED
      BY <1>3, <2>2, <3>1, FlowRenderedStays
  <2>4. Hashed(hash, k, f)' = x
    BY <2>1, PlanStays DEF Onwards
  <2>5. NoNewer(f, k, Hashed(hash, k, f), Piece(k, loaded.maps[k]))'
          <=> PieceBefore(flow.model.name, PluginOf(flow, e), k, x, y)
    BY <1>2, <1>4, <2>1, <2>4 DEF NoNewer
  <2>6. QED
    BY <1>2, <1>4, <2>1, <2>2, <2>3, <2>5
<1>6. /\ e[s] # Absent /\ Before(s, hash.secrets[s], loaded.secret)
      /\ Before(s, loaded.secret, e[s].data)
  <2>1. d[s] # Absent /\ Before(s, loaded.secret, d[s].data) /\ Before(s, hash.secrets[s], loaded.secret)
    BY <1>2 DEF LoadedOK
  <2>2. e[s] # Absent /\ Before(s, d[s].data, e[s].data)
    BY <1>3, <2>1 DEF UpTo
  <2>3. QED
    BY <2>1, <2>2, BeforeIsTransitive
<1>7. QED
  BY <1>1, <1>2, <1>5, <1>6 DEF LoadedOK

(* What a container has mounted is named after flows and Secrets.          *)
PodShapeOK ==
  pod # NoPod =>
    /\ \A mount \in pod.template.volumes : mount[2] \in Deps
    /\ pod.loaded = [mount \in pod.template.volumes |->
                       [maps |-> [k \in Mounted |-> pod.loaded[mount].maps[k]],
                        secret |-> pod.loaded[mount].secret]]
    /\ \A mount \in pod.template.volumes, k \in Mounted :
         pod.loaded[mount].maps[k] \in SetChildBody(<<mount[1], k>>)

LEMMA ServingIsKept ==
  ASSUME SetTypeInv, SetTypeInv', ServingTracking, FlowsKeepContent, PodShapeOK, Onwards,
         kids'[DeploySlot] \in {kids[DeploySlot], Absent} \/ DeployOK',
         pod' \in {pod, NoPod} \/ PodOK'
  PROVE  ServingTracking'
<1>1. FlowsKeepContent' /\ GivenNames' = GivenNames
  BY PlanStays DEF Onwards
<1>2. \A f \in GivenNames', k \in Mounted : MapOK(f, k)'
  BY <1>1, MapStays
<1>3. DeployOK'
  <2>1. CASE kids'[DeploySlot] = kids[DeploySlot]
    <3> SUFFICES ASSUME kids'[DeploySlot] # Absent
                 PROVE  TemplateOK(kids[DeploySlot].body.template)'
      BY DEF DeployOK
    <3>1. PICK t : t = kids[DeploySlot].body.template
      OBVIOUS
    <3>2. TemplateOK(t) /\ \A mount \in t.volumes : mount[2] \in Deps
      BY <2>1, <3>1, DeployIsTyped DEF ServingTracking, DeployOK
    <3>3. TemplateOK(t)'
      BY <3>2, TemplateStays
    <3>4. t = kids'[DeploySlot].body.template
      BY <2>1, <3>1
    <3>5. QED
      BY <3>3, <3>4 DEF TemplateOK, HashOK, NoNewer
  <2>2. CASE kids'[DeploySlot] = Absent
    BY <2>2 DEF DeployOK
  <2>3. QED
    BY <2>1, <2>2
<1>4. PodOK'
  <2>1. CASE pod' = pod /\ pod # NoPod
    <3>1. PICK p : p = pod
      OBVIOUS
    <3>2. ASSUME NEW mount \in p.template.volumes
          PROVE  LoadedOK(p.template.hash, mount, p.loaded[mount])'
      <4>1. LoadedOK(p.template.hash, mount, p.loaded[mount]) /\ mount[2] \in Deps
        BY <2>1, <3>1, <3>2 DEF ServingTracking, PodOK, PodShapeOK
      <4>2. PICK hash, loaded : hash = p.template.hash /\ loaded = p.loaded[mount]
        OBVIOUS
      <4>3. LoadedOK(hash, mount, loaded)'
        BY <4>1, <4>2, LoadedStays
      <4>4. QED
        BY <4>2, <4>3
    <3>3. p = pod'
      BY <2>1, <3>1
    <3>4. QED
      BY <3>2, <3>3 DEF PodOK
  <2>2. CASE pod' = NoPod
    BY <2>2 DEF PodOK
  <2>3. QED
    BY <2>1, <2>2
<1>5. \A o \in Deps : UpTo(o, cdeps'[o], deps'[o])
  BY DEF Onwards
<1>6. QED
  BY <1>2, <1>3, <1>4, <1>5 DEF ServingTracking, Onwards

-----------------------------------------------------------------------------
(* Steps that render nothing.                                              *)

(* The reconcile ends, begins, reads on or goes on, but sends nothing.     *)
GoesOn ==
  \/ rec' = None
  \/ /\ rec = None /\ rec'.pc # "apply"
     /\ \A i \in Entries(rec'.orig.spec), o \in Deps : rec'.got[i][o] = Unread
  \/ /\ rec # None /\ rec'.orig = rec.orig
     /\ \A i \in Entries(rec.orig.spec), o \in Deps : rec'.got[i][o] \in {rec.got[i][o], cdeps[o]}
     /\ rec'.pc = "apply" =>
          rec'.got = rec.got /\ (rec'.next = 1 \/ (rec.pc = "apply" /\ rec'.next = rec.next))

(* Objects and what the cache holds of them move forward, and children     *)
(* stay or disappear.                                                      *)
Quiet ==
  /\ UNCHANGED plan
  /\ \A o \in Deps : /\ UpTo(o, deps[o], deps'[o]) /\ UpTo(o, cdeps[o], cdeps'[o])
                     /\ UpTo(o, cdeps'[o], deps'[o])
  /\ \A s \in Slots : kids'[s] \in {kids[s], Absent}
  /\ GoesOn

LEMMA QuietProspect ==
  ASSUME ReadingsOK, Quiet, NEW f, NEW o \in Deps
  PROVE  UpTo(o, Prospect(f)[o], Prospect(f)'[o])
<1>1. PICK r, s, c, e : r = rec /\ s = rec' /\ c = cdeps /\ e = cdeps'
  OBVIOUS
<1>2. UpTo(o, c[o], e[o])
  BY <1>1 DEF Quiet
<1>3. UpTo(o, Prospect(f)[o], c[o])
  <2>1. CASE ReadFor(f) /\ r.got[EntryOf(r.orig.spec, f)][o] # Unread
    BY <1>1, <2>1, EntryOfFlow DEF ReadFor, ReadingsOK, Prospect
  <2>2. CASE ~(ReadFor(f) /\ r.got[EntryOf(r.orig.spec, f)][o] # Unread)
    <3>1. Prospect(f)[o] = c[o]
      BY <1>1, <2>2 DEF Prospect
    <3>2. QED
      BY <3>1, UpToIsReflexive
  <2>3. QED
    BY <2>1, <2>2
<1>4. CASE Prospect(f)'[o] = e[o]
  BY <1>2, <1>3, <1>4, UpToIsTransitive
<1>5. CASE Prospect(f)'[o] # e[o]
  <2>1. s # None /\ f \in FlowNames(s.orig.spec)
    BY <1>1, <1>5 DEF Prospect, ReadFor
  <2> DEFINE i == EntryOf(s.orig.spec, f)
  <2>2. Prospect(f)'[o] = s.got[i][o] /\ s.got[i][o] # Unread
    BY <1>1, <1>5, <2>1 DEF Prospect, ReadFor
  <2>3. i \in Entries(s.orig.spec)
    BY <2>1, EntryOfFlow
  <2>4. r # None /\ s.orig = r.orig /\ s.got[i][o] \in {r.got[i][o], c[o]}
    BY <1>1, <2>1, <2>2, <2>3 DEF Quiet, GoesOn
  <2>5. CASE s.got[i][o] = c[o]
    BY <1>3, <2>2, <2>5
  <2>6. CASE s.got[i][o] = r.got[i][o]
    <3>1. Prospect(f)[o] = r.got[i][o]
      BY <1>1, <2>1, <2>2, <2>4, <2>6 DEF Prospect, ReadFor
    <3>2. QED
      BY <2>2, <2>6, <3>1, UpToIsReflexive
  <2>7. QED
    BY <2>4, <2>5, <2>6
<1>6. QED
  BY <1>4, <1>5

LEMMA QuietIsOnwards ==
  ASSUME SetTypeInv, ServingTracking, FlowsKeepContent, Quiet
  PROVE  Onwards
<1>1. ReadingsOK /\ SentOK /\ plan \in Plans
  BY DEF ServingTracking, SetTypeInv, SetTypeOK
<1>2. \A f \in GivenNames, o \in Deps : UpTo(o, Prospect(f)[o], Prospect(f)'[o])
  BY <1>1, QuietProspect
<1>3. ASSUME NEW f \in GivenNames, NEW k \in Mounted PROVE MapMoves(f, k)
  <2>1. <<f, k>> \in Slots
    BY <1>1, FlowOfGivenName, SlotsAreDistinct DEF Mounted
  <2>2. QED
    BY <2>1 DEF Quiet, MapMoves
<1>4. PICK r, s, c, e : r = rec /\ s = rec' /\ c = cdeps /\ e = cdeps'
  OBVIOUS
<1>5. ReadingsOK'
  <2> SUFFICES ASSUME s # None, NEW i \in Entries(s.orig.spec), NEW o \in Deps, s.got[i][o] # Unread
               PROVE  UpTo(o, s.got[i][o], e[o])
    BY <1>4 DEF ReadingsOK
  <2>1. r # None /\ s.orig = r.orig /\ s.got[i][o] \in {r.got[i][o], c[o]}
    BY <1>4 DEF Quiet, GoesOn
  <2>2. UpTo(o, c[o], e[o])
    BY <1>4 DEF Quiet
  <2>3. CASE s.got[i][o] = c[o]
    BY <2>2, <2>3
  <2>4. CASE s.got[i][o] = r.got[i][o]
    <3>1. UpTo(o, r.got[i][o], c[o])
      BY <1>1, <1>4, <2>1, <2>4 DEF ReadingsOK
    <3>2. QED
      BY <2>2, <2>4, <3>1, UpToIsTransitive
  <2>5. QED
    BY <2>1, <2>3, <2>4
<1>6. SentOK'
  <2> SUFFICES ASSUME s # None, s.pc = "apply", NEW n \in 1..(s.next - 1),
                      kids'[SetApplyOrder(s.orig.spec)[n]] # Absent
               PROVE  kids'[SetApplyOrder(s.orig.spec)[n]].body
                        = SetChild(SetApplyOrder(s.orig.spec)[n], s.orig.spec, s.got)
    BY <1>4 DEF SentOK
  <2>1. r # None /\ s.orig = r.orig /\ s.got = r.got /\ (s.next = 1 \/ (r.pc = "apply" /\ s.next = r.next))
    BY <1>4 DEF Quiet, GoesOn
  <2>2. s.next # 1
    OBVIOUS
  <2> DEFINE slot == SetApplyOrder(r.orig.spec)[n]
  <2>3. slot \in Slots
    <3>1. SetRecOK
      BY SetTypeParts DEF SetTypeInv
    <3>2. r.orig.spec \in FlowSetSpec /\ r.next \in DOMAIN SetApplyOrder(r.orig.spec)
      BY <1>4, <2>1, <3>1, RecParts
    <3>3. n \in DOMAIN SetApplyOrder(r.orig.spec)
      BY <2>1, <2>2, <3>2, EverythingIsSent
    <3>4. QED
      BY <3>2, <3>3, EverythingIsSent, WantedSlots
  <2>4. kids'[slot] = kids[slot]
    BY <2>1, <2>3 DEF Quiet
  <2>5. kids[slot].body = SetChild(slot, r.orig.spec, r.got)
    BY <1>1, <1>4, <2>1, <2>2, <2>4 DEF SentOK
  <2>6. QED
    BY <2>1, <2>4, <2>5
<1>7. QED
  BY <1>2, <1>3, <1>5, <1>6 DEF Onwards, Quiet

LEMMA QuietKeeps ==
  ASSUME SetTypeInv, SetTypeInv', ServingTracking, FlowsKeepContent, PodShapeOK, Quiet,
         pod' \in {pod, NoPod} \/ PodOK'
  PROVE  ServingTracking'
<1>1. Onwards
  BY QuietIsOnwards
<1>2. kids'[DeploySlot] \in {kids[DeploySlot], Absent}
  BY SlotsAreDistinct DEF Quiet
<1>3. QED
  BY <1>1, <1>2, ServingIsKept

LEMMA QuietWhen ==
  ASSUME ServingTracking, FlowsKeepContent, DepsMoveForward, UNCHANGED plan,
         \A o \in Deps : cdeps'[o] \in {cdeps[o], deps[o]},
         \A s \in Slots : kids'[s] \in {kids[s], Absent}, GoesOn
  PROVE  Quiet
<1>1. ASSUME NEW o \in Deps
      PROVE  /\ UpTo(o, deps[o], deps'[o]) /\ UpTo(o, cdeps[o], cdeps'[o])
             /\ UpTo(o, cdeps'[o], deps'[o])
  <2>1. UpTo(o, deps[o], deps'[o]) /\ UpTo(o, cdeps[o], deps[o])
    BY DEF DepsMoveForward, ServingTracking
  <2>2. UpTo(o, cdeps[o], deps'[o])
    BY <2>1, UpToIsTransitive
  <2>3. cdeps'[o] = cdeps[o] \/ cdeps'[o] = deps[o]
    OBVIOUS
  <2>4. QED
    BY <2>1, <2>2, <2>3, UpToIsReflexive
<1>2. QED
  BY <1>1 DEF Quiet

LEMMA RecStaysGoesOn ==
  ASSUME rec' = rec
  PROVE  GoesOn
BY DEF GoesOn

(* What users, Kubernetes, informers and handlers do.                      *)
LEMMA OutsideIsQuiet ==
  ASSUME SetTypeInv, ServingTracking, FlowsKeepContent, DepsMoveForward, UNCHANGED plan,
         Edit \/ Cluster \/ ReportAny \/ Inform \/ HandleAny \/ UNCHANGED vars
  PROVE  Quiet /\ (PodStart \/ pod' \in {pod, NoPod})
<1>1. SetStoreOK /\ SetQueuesOK /\ SetCachesOK
  BY SetTypeParts DEF SetTypeInv
<1>2. ASSUME NEW s \in Slots, RemoveChild(s)
      PROVE  (\A t \in Slots : kids'[t] \in {kids[t], Absent}) /\ pod' \in {pod, NoPod}
  <2>1. \A t \in Slots : kids'[t] \in {kids[t], Absent}
    BY <1>1, <1>2, RemoveChildType
  <2>2. pod' \in {pod, NoPod}
    BY <1>2 DEF RemoveChild
  <2>3. QED
    BY <2>1, <2>2
<1>3. /\ rec' = rec /\ \A o \in Deps : cdeps'[o] \in {cdeps[o], deps[o]}
      /\ \A s \in Slots : kids'[s] \in {kids[s], Absent}
      /\ PodStart \/ pod' \in {pod, NoPod}
  <2>1. CASE Edit
    <3>1. CASE \E s \in Slots : ChildDelete(s)
      BY <1>2, <3>1 DEF ChildDelete, caches
    <3>2. CASE ~\E s \in Slots : ChildDelete(s)
      BY <2>1, <3>2 DEF Edit, SetCreate, SetEdit, SetDelete, DepWrite, caches
    <3>3. QED
      BY <3>1, <3>2
  <2>2. CASE Cluster
    <3>1. CASE \E s \in Slots : GarbageCollect(s)
      BY <1>2, <3>1 DEF GarbageCollect, caches
    <3>2. CASE ~\E s \in Slots : GarbageCollect(s)
      BY <2>2, <3>2 DEF Cluster, PodStart, ReportReplicas, store, caches
    <3>3. QED
      BY <3>1, <3>2
  <2>3. CASE ReportAny
    BY <2>3 DEF ReportAny, ReportReplicas, caches
  <2>4. CASE Inform
    <3>1. ASSUME NEW o \in Deps, InformDep(o)
          PROVE  \A x \in Deps : cdeps'[x] \in {cdeps[x], deps[x]}
      <4>1. cdeps' = [cdeps EXCEPT ![o] = deps[o]] /\ cdeps \in Stores
        BY <1>1, <3>1 DEF InformDep, SetCachesOK
      <4>2. QED
        BY <4>1 DEF Stores
    <3>2. rec' = rec /\ kids' = kids /\ pod' = pod
      BY <2>4 DEF Inform, InformSet, InformDeploy, InformDep, InformMap, store
    <3>3. (\E o \in Deps : InformDep(o)) \/ cdeps' = cdeps
      BY <2>4 DEF Inform, InformSet, InformDeploy, InformMap
    <3>4. QED
      BY <3>1, <3>2, <3>3
  <2>5. CASE HandleAny
    BY <2>5 DEF HandleAny, Handle, store, caches
  <2>6. CASE UNCHANGED vars
    BY <2>6 DEF vars, store, caches
  <2>7. QED
    BY <2>1, <2>2, <2>3, <2>4, <2>5, <2>6
<1>4. QED
  BY <1>3, QuietWhen, RecStaysGoesOn

(* What the worker does without sending anything.                          *)
LEMMA ThinkingIsQuiet ==
  ASSUME SetTypeInv, SetReadingOK, ServingTracking, FlowsKeepContent, DepsMoveForward, UNCHANGED plan,
         \/ Start \/ ReadDep \/ Render \/ ListOrphans \/ (\E s \in MapSlots : DeleteOrphan(s))
         \/ ObserveDeploy \/ PatchStatus \/ PatchStatusFails \/ DeleteFails \/ Crash
  PROVE  Quiet /\ pod' \in {pod, NoPod}
<1>1. SetStoreOK /\ SetQueuesOK /\ SetCachesOK
  BY SetTypeParts DEF SetTypeInv
<1>2. ASSUME NEW s \in Slots, RemoveChild(s)
      PROVE  (\A t \in Slots : kids'[t] \in {kids[t], Absent}) /\ pod' \in {pod, NoPod}
  <2>1. \A t \in Slots : kids'[t] \in {kids[t], Absent}
    BY <1>1, <1>2, RemoveChildType
  <2>2. pod' \in {pod, NoPod}
    BY <1>2 DEF RemoveChild
  <2>3. QED
    BY <2>1, <2>2
<1>3. MapSlots \subseteq Slots
  BY SlotsAreDistinct
<1>4. /\ \A o \in Deps : cdeps'[o] \in {cdeps[o], deps[o]}
      /\ \A s \in Slots : kids'[s] \in {kids[s], Absent}
      /\ pod' \in {pod, NoPod}
  <2>1. CASE Start \/ ReadDep \/ Render \/ ListOrphans \/ ObserveDeploy
    BY <2>1 DEF Start, ReadDep, Render, ListOrphans, ObserveDeploy, store, caches
  <2>2. CASE PatchStatus \/ PatchStatusFails \/ Crash
    BY <2>2 DEF PatchStatus, PatchStatusFails, Crash, store, caches
  <2>3. CASE \E s \in MapSlots : DeleteOrphan(s)
    <3>1. PICK s \in MapSlots : DeleteOrphan(s)
      BY <2>3
    <3>2. s \in Slots /\ cdeps' = cdeps
      BY <1>3, <3>1 DEF DeleteOrphan, caches
    <3>3. CASE RemoveChild(s)
      BY <1>2, <3>2, <3>3
    <3>4. CASE ~RemoveChild(s)
      BY <3>1, <3>2, <3>4 DEF DeleteOrphan
    <3>5. QED
      BY <3>3, <3>4
  <2>4. CASE DeleteFails
    <3>1. cdeps' = cdeps /\ rec.orphans \subseteq MapSlots
      BY <2>4, CollectIs, SetTypeParts, RecParts DEF SetTypeInv, DeleteFails, caches
    <3>2. CASE \E s \in rec.orphans : RemoveChild(s)
      BY <1>2, <1>3, <3>1, <3>2
    <3>3. CASE ~\E s \in rec.orphans : RemoveChild(s)
      BY <2>4, <3>1, <3>3 DEF DeleteFails
    <3>4. QED
      BY <3>2, <3>3
  <2>5. QED
    BY <2>1, <2>2, <2>3, <2>4
<1>5. GoesOn
  <2>1. CASE Start
    <3>1. CASE cset = Absent
      BY <2>1, <3>1 DEF Start, GoesOn
    <3>2. CASE cset # Absent
      <4> DEFINE new == [orig |-> cset, pc |-> "resolve", next |-> 1, orphans |-> {},
                         got |-> ForEvery(cset.spec, [o \in Deps |-> Unread]), upd |-> cset.status]
      <4>1. rec = None /\ rec' = new
        BY <2>1, <3>2 DEF Start
      <4>2. new.pc # "apply" /\ \A i \in Entries(new.orig.spec), o \in Deps : new.got[i][o] = Unread
        BY DEF ForEvery
      <4> HIDE DEF new
      <4>3. QED
        BY <4>1, <4>2 DEF GoesOn
    <3>3. QED
      BY <3>1, <3>2
  <2>2. CASE ReadDep
    <3>1. /\ rec # None /\ rec' # None
          /\ \E got : /\ rec' = [orig |-> rec.orig, pc |-> "resolve", next |-> rec.next,
                                 orphans |-> rec.orphans, got |-> got, upd |-> rec.upd]
                      /\ \A i \in Entries(rec.orig.spec), o \in Deps : got[i][o] \in {rec.got[i][o], cdeps[o]}
      BY <2>2, ReadDepIs
    <3>2. rec'.orig = rec.orig /\ rec'.pc # "apply"
      BY <3>1
    <3>3. \A i \in Entries(rec.orig.spec), o \in Deps : rec'.got[i][o] \in {rec.got[i][o], cdeps[o]}
      BY <3>1
    <3>4. QED
      BY <3>1, <3>2, <3>3 DEF GoesOn
  <2>3. CASE Render
    <3>1. /\ rec # None /\ rec.pc = "resolve" /\ rec'.orig = rec.orig /\ rec'.got = rec.got
          /\ rec'.next = rec.next
      BY <2>3, RenderIs
    <3>2. rec.next = 1
      BY <3>1 DEF SetReadingOK
    <3>3. QED
      BY <3>1, <3>2 DEF GoesOn
  <2>4. CASE ListOrphans \/ (\E s \in MapSlots : DeleteOrphan(s)) \/ ObserveDeploy \/ DeleteFails
    <3>1. rec # None /\ rec'.orig = rec.orig /\ rec'.got = rec.got /\ rec'.pc # "apply"
      BY <2>4, CollectIs
    <3>2. QED
      BY <3>1 DEF GoesOn
  <2>5. CASE PatchStatus \/ PatchStatusFails \/ Crash
    BY <2>5 DEF PatchStatus, PatchStatusFails, Crash, GoesOn
  <2>6. QED
    BY <2>1, <2>2, <2>3, <2>4, <2>5
<1>6. QED
  BY <1>4, <1>5, QuietWhen

-----------------------------------------------------------------------------
(* Steps that send a child.                                                *)

(* What a reconcile that sends children renders for a flow.                *)
LEMMA ProspectRenders ==
  ASSUME SetTypeInv, FlowsKeepContent, rec # None, rec.pc = "apply",
         NEW i \in Entries(rec.orig.spec), NEW k \in Mounted
  PROVE  LET spec == rec.orig.spec
             flow == spec.flows[i]
             x == Child(k, flow, rec.got[i])
         IN  /\ FlowNamed(flow.name) = flow /\ flow.name \in GivenNames
             /\ Child(k, flow, Prospect(flow.name)) = x
             /\ RenderedBy(flow, k, x, Prospect(flow.name))
             /\ SetChild(<<flow.name, k>>, spec, rec.got) = MapBody(k, flow, rec.got[i])
<1> DEFINE spec == rec.orig.spec
           flow == spec.flows[i]
           e == Prospect(flow.name)
<1>1. SetRecOK /\ plan \in Plans
  BY SetTypeParts DEF SetTypeInv, SetObjectsOK
<1>2. /\ spec \in FlowSetSpec /\ spec \in plan.specs \cup {plan.start}
      /\ \A j \in Entries(spec) : rec.got[j] \in Readings
      /\ SetOutcome(spec, rec.got).reason = "Rendered"
  BY <1>1, RecParts DEF SetRecOK, SetObjOK, SetTypeInv, SetRenderableOK
<1>3. DistinctNames(spec.flows)
  BY <1>1, <1>2, SetSpecsAre
<1>4. FlowNamed(flow.name) = flow /\ flow.name \in GivenNames
  BY <1>2, GivenFlow
<1>5. e \in Readings
  BY ProspectType, StoresAreReadings
<1>6. \A o \in Deps : rec.got[i][o] # Unread => e[o] = rec.got[i][o]
  <2>1. EntryOf(spec, flow.name) = i
    BY <1>3, EntryOfName
  <2>2. ReadFor(flow.name)
    BY DEF ReadFor, FlowNames
  <2>3. QED
    BY <2>1, <2>2 DEF Prospect
<1>7. SetChild(<<flow.name, k>>, spec, rec.got) = MapBody(k, flow, rec.got[i])
  <2>1. PICK j \in Entries(spec) : /\ spec.flows[j].name = flow.name
                                   /\ \A got : SetChild(<<flow.name, k>>, spec, got)
                                                 = MapBody(k, spec.flows[j], got[j])
    BY <1>2, FlowOfSlot DEF Mounted
  <2>2. j = i
    BY <1>3, <2>1 DEF DistinctNames, Entries
  <2>3. QED
    BY <2>1, <2>2
<1> HIDE DEF e
<1>8. /\ Child(k, flow, e) = Child(k, flow, rec.got[i])
      /\ RenderedBy(flow, k, Child(k, flow, rec.got[i]), e)
  BY <1>2, <1>5, <1>6, RenderedOfWhatWasRead
<1>9. QED
  BY <1>4, <1>7, <1>8 DEF e

(* The Deployment is sent last: what its hash was taken of is in the       *)
(* ConfigMaps that are still there.                                        *)
LEMMA DeploymentSent ==
  ASSUME SetTypeInv, ServingTracking, FlowsKeepContent, rec # None, rec.pc = "apply",
         \A s \in WantedMaps(rec.orig.spec) :
           \E n \in 1..(rec.next - 1) : SetApplyOrder(rec.orig.spec)[n] = s
  PROVE  TemplateOK(SetTemplate(rec.orig.spec, rec.got))
<1> DEFINE spec == rec.orig.spec
           got == rec.got
           t == SetTemplate(spec, got)
           users(s) == {i \in Entries(spec) : SecretOf(spec.flows[i], got[i]) = s}
           secret(s) == IF users(s) = {} THEN None ELSE got[Least(users(s))][s].data
<1>1. SetRecOK /\ plan \in Plans
  BY SetTypeParts DEF SetTypeInv, SetObjectsOK
<1>2. /\ spec \in FlowSetSpec /\ spec \in plan.specs \cup {plan.start}
      /\ \A j \in Entries(spec) : got[j] \in Readings
      /\ SetOutcome(spec, got).reason = "Rendered"
  BY <1>1, RecParts DEF SetRecOK, SetObjOK, SetTypeInv, SetRenderableOK
<1>3. t.hash = SetHash(spec, got)
  BY DEF SetTemplate
<1>4. /\ HashedNames(t.hash) = FlowNames(spec)
      /\ \A i \in Entries(spec), k \in Mounted :
           Hashed(t.hash, k, spec.flows[i].name) = Child(k, spec.flows[i], got[i])
  BY <1>1, <1>2, <1>3, HashTellsFlows
<1>5. FlowNames(spec) \subseteq GivenNames
  BY <1>2, GivenFlow DEF FlowNames
<1>6. ASSUME NEW i \in Entries(spec), NEW k \in Mounted
      PROVE  HashOK(t.hash, spec.flows[i].name, k)
  <2> DEFINE flow == spec.flows[i]
             f == flow.name
             x == Child(k, flow, got[i])
             kid == kids[<<f, k>>]
  <2>1. /\ FlowNamed(f) = flow /\ RenderedBy(flow, k, x, Prospect(f))
        /\ SetChild(<<f, k>>, spec, got) = MapBody(k, flow, got[i])
    BY ProspectRenders
  <2>2. Hashed(t.hash, k, f) = x
    BY <1>4
  <2>3. kid # Absent => Piece(k, kid.body) = x
    <3>1. <<f, k>> \in WantedMaps(spec)
      BY <1>2, WantedSlots DEF Mounted
    <3>2. PICK n \in 1..(rec.next - 1) : SetApplyOrder(spec)[n] = <<f, k>>
      BY <3>1
    <3>3. kid # Absent => kid.body = MapBody(k, flow, got[i])
      BY <2>1, <3>2 DEF ServingTracking, SentOK
    <3>4. QED
      BY <3>3, PieceOfMap
  <2> HIDE DEF x
  <2>4. NoNewer(f, k, x, x)
    BY PieceIsReflexive, Zenon DEF NoNewer
  <2>5. QED
    BY <2>1, <2>2, <2>3, <2>4, Zenon DEF HashOK
<1>7. t.hash.secrets = [s \in Secrets |-> secret(s)]
  BY Zenon DEF SetTemplate, SetHash
<1>8. ASSUME NEW f \in FlowNames(spec), NEW k \in Mounted PROVE HashOK(t.hash, f, k)
  <2>1. PICK i \in Entries(spec) : f = spec.flows[i].name
    BY Zenon DEF FlowNames
  <2>2. QED
    BY <1>6, <2>1, Zenon
<1>9. ASSUME NEW i \in Entries(spec)
      PROVE  LET s == SecretOf(spec.flows[i], got[i])
             IN  deps[s] # Absent /\ Before(s, t.hash.secrets[s], deps[s].data)
  <2>1. PICK s : s = SecretOf(spec.flows[i], got[i])
    OBVIOUS
  <2>2. s \in Secrets /\ i \in users(s)
    BY <1>2, <2>1, FlowRenderingType
  <2>3. users(s) \subseteq Nat
    BY <1>2, EntriesAre
  <2>4. PICK j : j = Least(users(s))
    OBVIOUS
  <2>5. j \in users(s)
    <3> HIDE DEF users
    <3>1. QED
      BY <2>2, <2>3, <2>4, LeastIsOne
  <2>6. t.hash.secrets[s] = got[j][s].data
    <3>1. t.hash.secrets[s] = secret(s)
      BY <1>7, <2>2, Zenon
    <3>2. users(s) # {}
      BY <2>2
    <3> HIDE DEF users
    <3>3. QED
      BY <2>4, <3>1, <3>2, Zenon
  <2>7. j \in Entries(spec) /\ got[j][s] \in DepObj(s)
    BY <1>2, <2>5, FlowRenderingType
  <2>8. s \in Deps /\ got[j][s] # Absent /\ got[j][s] # Unread
    BY <2>2, <2>7, NamesAssumption DEF Deps, DepObj, RefTargets, Objects
  <2>9. UpTo(s, got[j][s], cdeps[s]) /\ UpTo(s, cdeps[s], deps[s])
    BY <2>7, <2>8 DEF ServingTracking, ReadingsOK
  <2>10. UpTo(s, got[j][s], deps[s])
    BY <2>9, UpToIsTransitive
  <2>11. QED
    BY <2>1, <2>6, <2>8, <2>10, Zenon DEF UpTo
<1>10. ASSUME NEW mount \in t.volumes
      PROVE  /\ mount[1] \in HashedNames(t.hash) /\ deps[mount[2]] # Absent
             /\ Before(mount[2], t.hash.secrets[mount[2]], deps[mount[2]].data)
  <2>1. PICK i \in Entries(spec) : mount = <<spec.flows[i].name, SecretOf(spec.flows[i], got[i])>>
    BY DEF SetTemplate
  <2>2. mount[1] = spec.flows[i].name /\ mount[2] = SecretOf(spec.flows[i], got[i])
    BY <2>1
  <2>3. QED
    BY <1>4, <1>9, <2>2 DEF FlowNames
<1> HIDE DEF t
<1>11. QED
  BY <1>4, <1>5, <1>8, <1>10 DEF TemplateOK, t

LEMMA SameReconcileSameProspect ==
  ASSUME UNCHANGED cdeps, rec # None, rec' # None, rec'.orig = rec.orig, rec'.got = rec.got, NEW f
  PROVE  Prospect(f)' = Prospect(f)
<1>1. ReadFor(f)' <=> ReadFor(f)
  BY DEF ReadFor
<1>2. QED
  BY <1>1 DEF Prospect

LEMMA SendIsOnwards ==
  ASSUME SetTypeInv, ServingTracking, FlowsKeepContent, UNCHANGED <<plan, deps, cdeps>>,
         ApplyChild \/ ApplyFails, SetApplied
  PROVE  Onwards
<1> DEFINE spec == rec.orig.spec
           new == [owner |-> rec.orig.uid, body |-> SetChild(Slot, spec, rec.got)]
<1>1. /\ SetRecOK /\ SetStoreOK /\ SetRenderableOK /\ SetQueuesOK /\ plan \in Plans
      /\ ReadingsOK /\ SentOK
  BY SetTypeParts DEF SetTypeInv, SetObjectsOK, ServingTracking
<1>2. /\ rec # None /\ rec.pc = "apply" /\ rec' # None
      /\ rec'.orig = rec.orig /\ rec'.got = rec.got
      /\ rec'.pc = "apply" => rec'.next = rec.next + 1
  <2>1. CASE ApplyChild
    BY <2>1, ApplyIs
  <2>2. CASE ApplyFails
    BY <2>2, ApplyIs
  <2>3. QED
    BY <2>1, <2>2
<1>3. /\ Slot \in SetWanted(spec) /\ Slot \in Slots /\ kids' = [kids EXCEPT ![Slot] = new]
      /\ DOMAIN kids = Slots
  BY <1>1, <1>2, SetAppliedType DEF At, SetStoreOK
<1>4. spec \in FlowSetSpec /\ rec.next \in Nat /\ rec.next \in DOMAIN SetApplyOrder(spec)
  BY <1>1, <1>2, RecParts
<1>5. \A o \in Deps : UpTo(o, deps[o], deps'[o]) /\ UpTo(o, cdeps'[o], deps'[o])
  BY UpToIsReflexive DEF ServingTracking
<1>6. ASSUME NEW f, NEW o \in Deps PROVE UpTo(o, Prospect(f)[o], Prospect(f)'[o])
  BY <1>2, SameReconcileSameProspect, UpToIsReflexive
<1>7. ASSUME NEW f \in GivenNames, NEW k \in Mounted PROVE MapMoves(f, k)
  <2>1. f \in Flows /\ <<f, k>> \in Slots /\ <<f, k>> \notin {ManifestSlot, ServiceSlot, DeploySlot}
    BY <1>1, FlowOfGivenName, SlotsAreDistinct DEF Mounted
  <2>2. CASE <<f, k>> # Slot
    BY <1>3, <2>1, <2>2 DEF MapMoves
  <2>3. CASE <<f, k>> = Slot
    <3>1. PICK i \in Entries(spec), h \in {"prompts", "tools", "config"} :
            <<f, k>> = <<spec.flows[i].name, h>>
      BY <1>3, <1>4, <2>1, <2>3, WantedSlots DEF SetWanted
    <3>2. f = spec.flows[i].name
      BY <3>1
    <3>3. /\ FlowNamed(f) = spec.flows[i]
          /\ Child(k, spec.flows[i], Prospect(f)) = Child(k, spec.flows[i], rec.got[i])
          /\ RenderedBy(spec.flows[i], k, Child(k, spec.flows[i], rec.got[i]), Prospect(f))
          /\ SetChild(<<f, k>>, spec, rec.got) = MapBody(k, spec.flows[i], rec.got[i])
      BY <1>2, <3>2, ProspectRenders
    <3>4. kids'[<<f, k>>].body = MapBody(k, spec.flows[i], rec.got[i])
      BY <1>3, <2>3, <3>3
    <3>5. Prospect(f)' = Prospect(f)
      BY <1>2, SameReconcileSameProspect
    <3>6. PICK x : x = MapBody(k, spec.flows[i], rec.got[i])
      OBVIOUS
    <3>7. OfFlow(f, k, x) /\ Piece(k, x) = Child(k, spec.flows[i], rec.got[i])
      BY <3>2, <3>6, PieceOfMap
    <3>8. QED
      BY <3>3, <3>4, <3>5, <3>6, <3>7 DEF MapMoves
  <2>4. QED
    BY <2>2, <2>3
<1>8. ReadingsOK'
  BY <1>1, <1>2 DEF ReadingsOK
<1>9. SentOK'
  <2> SUFFICES ASSUME rec'.pc = "apply", NEW n \in 1..(rec'.next - 1),
                      kids'[SetApplyOrder(rec'.orig.spec)[n]] # Absent
               PROVE  kids'[SetApplyOrder(rec'.orig.spec)[n]].body
                        = SetChild(SetApplyOrder(rec'.orig.spec)[n], rec'.orig.spec, rec'.got)
    BY DEF SentOK
  <2> DEFINE slot == SetApplyOrder(spec)[n]
  <2>1. n \in 1..rec.next
    BY <1>2, <1>4
  <2>2. slot \in Slots
    <3>1. n \in DOMAIN SetApplyOrder(spec)
      BY <1>4, <2>1, EverythingIsSent
    <3>2. QED
      BY <1>4, <3>1, EverythingIsSent, WantedSlots
  <2>3. CASE slot = Slot
    BY <1>2, <1>3, <2>3
  <2>4. CASE slot # Slot
    <3>1. n # rec.next
      BY <2>4 DEF Slot
    <3>2. n \in 1..(rec.next - 1)
      BY <1>4, <2>1, <3>1
    <3>3. kids'[slot] = kids[slot]
      BY <1>3, <2>2, <2>4
    <3>4. kids[slot] # Absent => kids[slot].body = SetChild(slot, spec, rec.got)
      BY <1>1, <1>2, <3>2 DEF SentOK
    <3>5. QED
      BY <1>2, <3>3, <3>4
  <2>5. QED
    BY <2>3, <2>4
<1>10. QED
  BY <1>5, <1>6, <1>7, <1>8, <1>9 DEF Onwards

LEMMA SendKeeps ==
  ASSUME SetTypeInv, SetTypeInv', ServingTracking, FlowsKeepContent, PodShapeOK, DepsMoveForward,
         UNCHANGED plan, ApplyChild \/ ApplyFails
  PROVE  ServingTracking'
<1> DEFINE spec == rec.orig.spec
<1> PICK t : t = SetTemplate(spec, rec.got)
  OBVIOUS
<1>1. UNCHANGED <<deps, cdeps, pod>>
  BY DEF ApplyChild, ApplyFails, caches
<1>2. CASE ~SetApplied
  <2>1. ApplyFails /\ UNCHANGED kids
    BY <1>2 DEF ApplyChild, ApplyFails
  <2>2. rec # None /\ rec'.orig = rec.orig /\ rec'.got = rec.got /\ rec'.pc = "patch"
    BY <2>1, ApplyIs
  <2>3. GoesOn
    BY <2>2 DEF GoesOn
  <2>4. Quiet
    BY <1>1, <2>1, <2>3, QuietWhen
  <2>5. QED
    BY <1>1, <2>4, QuietKeeps
<1>3. CASE SetApplied
  <2>1. Onwards
    BY <1>1, <1>3, SendIsOnwards
  <2>2. /\ SetRecOK /\ SetStoreOK /\ SetRenderableOK /\ SetQueuesOK
        /\ rec # None /\ rec.pc = "apply" /\ rec' # None /\ rec'.orig = rec.orig /\ rec'.got = rec.got
    BY SetTypeParts, ApplyIs DEF SetTypeInv
  <2>3. /\ Slot \in Slots /\ DOMAIN kids = Slots
        /\ kids' = [kids EXCEPT ![Slot] = [owner |-> rec.orig.uid, body |-> SetChild(Slot, spec, rec.got)]]
    BY <1>1, <1>3, <2>2, SetAppliedType DEF At, SetStoreOK
  <2>4. DeploySlot \in Slots
    BY SlotsAreDistinct
  <2>5. CASE Slot # DeploySlot
    <3>1. kids'[DeploySlot] = kids[DeploySlot]
      BY <2>3, <2>4, <2>5
    <3>2. QED
      BY <1>1, <2>1, <3>1, ServingIsKept
  <2>6. CASE Slot = DeploySlot
    <3>1. /\ spec \in FlowSetSpec /\ rec.next \in DOMAIN SetApplyOrder(spec) /\ rec.next \in Nat
      BY <2>2, RecParts
    <3>2. rec.next = Len(SetApplyOrder(spec))
      BY <2>6, <3>1, EverythingIsSent DEF Slot
    <3>3. TemplateOK(t)
      BY <2>2, <3>1, <3>2, EverythingIsSent, DeploymentSent
    <3>4. \A mount \in t.volumes : mount[2] \in Deps
      <4>1. t \in SetTemplates
        <5>1. /\ \A i \in Entries(spec) : rec.got[i] \in Readings
              /\ SetOutcome(spec, rec.got).reason = "Rendered"
          BY <2>2, RecParts DEF SetRenderableOK
        <5>2. SetChild(DeploySlot, spec, rec.got) \in SetChildBody(DeploySlot)
          BY <3>1, <5>1, SetRenderingType DEF SetWanted
        <5>3. SetChild(DeploySlot, spec, rec.got) = [replicas |-> spec.replicas, template |-> t]
          BY SlotsAreDistinct DEF SetChild
        <5>4. SetChildBody(DeploySlot) = [replicas : Nat, template : SetTemplates]
          BY SlotsAreDistinct DEF SetChildBody
        <5>5. QED
          BY <5>2, <5>3, <5>4
      <4>2. QED
        BY <4>1 DEF SetTemplates, Deps
    <3>5. TemplateOK(t)'
      BY <2>1, <3>3, <3>4, TemplateStays
    <3>6. kids'[DeploySlot].body.template = t
      <4>1. SetChild(DeploySlot, spec, rec.got) = [replicas |-> spec.replicas, template |-> t]
        BY SlotsAreDistinct DEF SetChild
      <4>2. QED
        BY <2>3, <2>4, <2>6, <4>1
    <3>7. DeployOK'
      BY <3>5, <3>6 DEF DeployOK, TemplateOK, HashOK, NoNewer
    <3>8. QED
      BY <1>1, <2>1, <3>7, ServingIsKept
  <2>7. QED
    BY <2>5, <2>6
<1>4. QED
  BY <1>2, <1>3

-----------------------------------------------------------------------------
(* A set rendered of the objects d throughout, as it is at the start and   *)
(* whenever it is at rest.                                                 *)
LEMMA FreshMap ==
  ASSUME NEW spec \in FlowSetSpec, DistinctNames(spec.flows), NEW d \in Stores,
         NEW got, got = ForEvery(spec, d), SetOutcome(spec, got).reason = "Rendered",
         NEW i \in Entries(spec), NEW k \in Mounted
  PROVE  LET slot == <<spec.flows[i].name, k>>
         IN  /\ slot \in SetWanted(spec)
             /\ SetChild(slot, spec, got) = MapBody(k, spec.flows[i], d)
             /\ MapBody(k, spec.flows[i], d) \in SetChildBody(slot)
<1> DEFINE slot == <<spec.flows[i].name, k>>
<1>1. d \in Readings /\ \A j \in Entries(spec) : got[j] = d
  BY StoresAreReadings, ForEveryIs
<1>2. SetChild(slot, spec, got) = MapBody(k, spec.flows[i], d)
  <2>1. PICK j \in Entries(spec) : /\ spec.flows[j].name = spec.flows[i].name
                                   /\ \A g : SetChild(slot, spec, g) = MapBody(k, spec.flows[j], g[j])
    BY FlowOfSlot DEF Mounted
  <2>2. j = i
    BY <2>1 DEF DistinctNames, Entries
  <2>3. QED
    BY <1>1, <2>1, <2>2
<1>3. slot \in SetWanted(spec)
  BY WantedSlots DEF Mounted, SetWanted
<1>4. SetChild(slot, spec, got) \in SetChildBody(slot)
  BY <1>1, <1>3, SetRenderingType
<1>5. QED
  BY <1>2, <1>3, <1>4

LEMMA FreshRendering ==
  ASSUME plan \in Plans, FlowsKeepContent, NEW spec \in plan.specs \cup {plan.start},
         NEW d \in Stores, NEW got, got = ForEvery(spec, d),
         SetOutcome(spec, got).reason = "Rendered", NEW i \in Entries(spec), NEW k \in Mounted
  PROVE  LET flow == spec.flows[i]
         IN  /\ FlowNamed(flow.name) = flow /\ flow.name \in GivenNames
             /\ RenderedBy(flow, k, Child(k, flow, d), d)
             /\ Hashed(SetHash(spec, got), k, flow.name) = Child(k, flow, d)
<1> DEFINE flow == spec.flows[i]
<1>1. /\ spec \in FlowSetSpec /\ d \in Readings
      /\ \A j \in Entries(spec) : got[j] = d
  BY SetSpecsAre, StoresAreReadings, ForEveryIs
<1>2. FlowNamed(flow.name) = flow /\ flow.name \in GivenNames
  BY GivenFlow
<1>3. RenderedBy(flow, k, Child(k, flow, d), d)
  BY <1>1, RenderedOfWhatWasRead
<1>4. Hashed(SetHash(spec, got), k, flow.name) = Child(k, flow, d)
  BY <1>1, HashTellsFlows
<1>5. QED
  BY <1>2, <1>3, <1>4

LEMMA FreshSecret ==
  ASSUME NEW spec \in FlowSetSpec, NEW d \in Stores, NEW got, got = ForEvery(spec, d),
         SetOutcome(spec, got).reason = "Rendered", NEW i \in Entries(spec),
         NEW s, s = SecretOf(spec.flows[i], d)
  PROVE  s \in Secrets /\ s \in Deps /\ d[s] # Absent /\ SetHash(spec, got).secrets[s] = d[s].data
<1> DEFINE users(x) == {j \in Entries(spec) : SecretOf(spec.flows[j], got[j]) = x}
           secret(x) == IF users(x) = {} THEN None ELSE got[Least(users(x))][x].data
<1>1. d \in Readings /\ \A j \in Entries(spec) : got[j] = d
  BY StoresAreReadings, ForEveryIs
<1>2. s \in Secrets /\ d[s] \in DepObj(s)
  BY <1>1, FlowRenderingType
<1>3. s \in Deps /\ d[s] # Absent
  BY <1>2, NamesAssumption DEF Deps, DepObj, RefTargets, Objects
<1>4. SetHash(spec, got).secrets = [x \in Secrets |-> secret(x)]
  BY DEF SetHash
<1>5. users(s) \subseteq Nat /\ i \in users(s)
  BY <1>1, EntriesAre
<1>6. Least(users(s)) \in users(s)
  <2> HIDE DEF users
  <2>1. QED
    BY <1>5, LeastIsOne
<1>7. got[Least(users(s))] = d
  BY <1>1, <1>6
<1>8. SetHash(spec, got).secrets[s] = secret(s)
  BY <1>2, <1>4
<1> HIDE DEF users
<1>9. QED
  BY <1>2, <1>3, <1>5, <1>7, <1>8

LEMMA FreshVolume ==
  ASSUME NEW spec \in FlowSetSpec, DistinctNames(spec.flows), NEW d \in Stores,
         NEW got, got = ForEvery(spec, d), NEW mount \in SetTemplate(spec, got).volumes
  PROVE  \E i \in Entries(spec) :
           /\ mount[1] = spec.flows[i].name /\ mount[2] = SecretOf(spec.flows[i], d)
           /\ Content(spec, got)[mount]
                = [maps |-> [k \in Mounted |-> MapBody(k, spec.flows[i], d)],
                   secret |-> d[mount[2]].data]
<1>1. \A j \in Entries(spec) : got[j] = d
  BY ForEveryIs, StoresAreReadings
<1>2. PICK i \in Entries(spec) : mount = <<spec.flows[i].name, SecretOf(spec.flows[i], got[i])>>
  BY DEF SetTemplate
<1>3. mount[1] = spec.flows[i].name /\ mount[2] = SecretOf(spec.flows[i], d)
  BY <1>1, <1>2
<1> DEFINE h == CHOOSE j \in Entries(spec) : spec.flows[j].name = mount[1]
<1>4. h = i
  BY <1>3 DEF DistinctNames, Entries
<1>5. Content(spec, got)[mount]
        = [maps |-> [k \in Mounted |-> MapBody(k, spec.flows[i], got[i])],
           secret |-> got[i][mount[2]].data]
  <2>1. Content(spec, got)[mount]
          = [maps |-> [k \in Mounted |-> MapBody(k, spec.flows[h], got[h])],
             secret |-> got[h][mount[2]].data]
    BY DEF Content, Mounted
  <2> HIDE DEF h
  <2>2. QED
    BY <1>4, <2>1
<1>6. QED
  BY <1>1, <1>3, <1>5

-----------------------------------------------------------------------------
(* A Pod starts.                                                           *)
LEMMA PodLoads ==
  ASSUME SetTypeInv, kids[DeploySlot] # Absent, NEW t, t = kids[DeploySlot].body.template,
         CanLoad(t), NEW mount \in t.volumes, NEW loaded, loaded = Loaded(t)[mount]
  PROVE  /\ mount[1] \in Flows /\ mount[2] \in Deps /\ loaded.secret = deps[mount[2]].data
         /\ loaded = [maps |-> [k \in Mounted |-> loaded.maps[k]], secret |-> loaded.secret]
         /\ \A k \in Mounted : /\ kids[<<mount[1], k>>] # Absent
                               /\ loaded.maps[k] = kids[<<mount[1], k>>].body
                               /\ loaded.maps[k] \in SetChildBody(<<mount[1], k>>)
<1>1. mount[1] \in Flows /\ mount[2] \in Deps
  BY DeployIsTyped
<1>2. Loaded(t)[mount] = [maps |-> [k \in Mounted |-> kids[<<mount[1], k>>].body],
                          secret |-> deps[mount[2]].data]
  BY DEF Loaded, Mounted
<1>3. \A k \in Mounted : kids[<<mount[1], k>>] # Absent
  BY DEF CanLoad, Mounted
<1>4. ASSUME NEW k \in Mounted PROVE kids[<<mount[1], k>>].body \in SetChildBody(<<mount[1], k>>)
  <2>1. <<mount[1], k>> \in Slots
    BY <1>1, SlotsAreDistinct DEF Mounted
  <2>2. kids[<<mount[1], k>>] \in KidObj(<<mount[1], k>>)
    BY <1>3, <2>1 DEF SetTypeInv, SetTypeOK
  <2>3. QED
    BY <2>2 DEF KidObj
<1>5. /\ loaded.secret = deps[mount[2]].data
      /\ \A k \in Mounted : loaded.maps[k] = kids[<<mount[1], k>>].body
      /\ loaded = [maps |-> [k \in Mounted |-> loaded.maps[k]], secret |-> loaded.secret]
  <2> DEFINE body(k) == kids[<<mount[1], k>>].body
  <2>1. loaded = [maps |-> [k \in Mounted |-> body(k)], secret |-> deps[mount[2]].data]
    BY <1>2
  <2>2. \A k \in Mounted : body(k) = kids[<<mount[1], k>>].body
    OBVIOUS
  <2> HIDE DEF body
  <2>3. loaded.secret = deps[mount[2]].data /\ loaded.maps = [k \in Mounted |-> body(k)]
    BY <2>1
  <2>4. \A k \in Mounted : loaded.maps[k] = body(k)
    BY <2>3
  <2>5. loaded.maps = [k \in Mounted |-> loaded.maps[k]]
    BY <2>3, <2>4
  <2>6. loaded = [maps |-> loaded.maps, secret |-> loaded.secret]
    BY <2>1, <2>3
  <2>7. loaded = [maps |-> [k \in Mounted |-> loaded.maps[k]], secret |-> loaded.secret]
    BY ONLY <2>5, <2>6, Zenon
  <2>8. QED
    BY <2>2, <2>3, <2>4, <2>7, Zenon
<1>6. QED
  BY <1>1, <1>3, <1>4, <1>5

LEMMA LoadedNow ==
  ASSUME SetTypeInv, ServingTracking, FlowsKeepContent, kids[DeploySlot] # Absent,
         NEW t, t = kids[DeploySlot].body.template, CanLoad(t), NEW mount \in t.volumes
  PROVE  LoadedOK(t.hash, mount, Loaded(t)[mount])
<1> PICK loaded, f : loaded = Loaded(t)[mount] /\ f = mount[1]
  OBVIOUS
<1>1. /\ loaded.secret = deps[mount[2]].data
      /\ \A k \in Mounted : /\ kids[<<f, k>>] # Absent
                            /\ loaded.maps[k] = kids[<<f, k>>].body
  BY PodLoads
<1>2. TemplateOK(t)
  BY DEF ServingTracking, DeployOK
<1>3. /\ f \in HashedNames(t.hash) /\ f \in GivenNames /\ deps[mount[2]] # Absent
      /\ Before(mount[2], t.hash.secrets[mount[2]], deps[mount[2]].data)
  BY <1>2 DEF TemplateOK
<1>4. ASSUME NEW k \in Mounted
      PROVE  /\ OfFlow(f, k, loaded.maps[k])
             /\ RenderedBy(FlowNamed(f), k, Piece(k, loaded.maps[k]), deps)
             /\ NoNewer(f, k, Hashed(t.hash, k, f), Piece(k, loaded.maps[k]))
  <2>1. MapOK(f, k) /\ HashOK(t.hash, f, k)
    BY <1>2, <1>3 DEF ServingTracking, TemplateOK
  <2>2. QED
    BY <1>1, <2>1 DEF MapOK, HashOK
<1>5. QED
  BY <1>1, <1>3, <1>4, Zenon DEF LoadedOK, Before

LEMMA PodStartKeeps ==
  ASSUME SetTypeInv, SetTypeInv', ServingTracking, FlowsKeepContent, PodShapeOK, DepsMoveForward,
         UNCHANGED plan, PodStart
  PROVE  ServingTracking'
<1>1. Quiet
  <2>1. Cluster
    BY DEF Cluster
  <2>2. QED
    BY <2>1, OutsideIsQuiet
<1>2. Onwards
  BY <1>1, QuietIsOnwards
<1>3. PICK t : t = kids[DeploySlot].body.template
  OBVIOUS
<1>4. /\ kids[DeploySlot] # Absent /\ CanLoad(t)
      /\ pod' = [template |-> t, loaded |-> Loaded(t)]
  BY <1>3 DEF PodStart
<1>5. PICK loaded : loaded = Loaded(t)
  OBVIOUS
<1>6. ASSUME NEW mount \in t.volumes PROVE LoadedOK(t.hash, mount, loaded[mount])'
  <2>1. LoadedOK(t.hash, mount, loaded[mount]) /\ mount[2] \in Deps
    BY <1>3, <1>4, <1>5, LoadedNow, PodLoads
  <2>2. PICK hash, one : hash = t.hash /\ one = loaded[mount]
    OBVIOUS
  <2>3. LoadedOK(hash, mount, one)'
    BY <1>2, <2>1, <2>2, LoadedStays
  <2>4. QED
    BY <2>2, <2>3
<1>7. PodOK'
  <2>1. pod'.template = t /\ pod'.loaded = loaded
    BY <1>4, <1>5
  <2>2. QED
    BY <1>6, <2>1 DEF PodOK
<1>8. QED
  BY <1>1, <1>7, QuietKeeps

LEMMA PodShapeStep == SetTypeInv /\ PodShapeOK /\ [Next]_vars => PodShapeOK'
<1> SUFFICES ASSUME SetTypeInv, PodShapeOK, [Next]_vars PROVE PodShapeOK'
  OBVIOUS
<1>1. SetStoreOK /\ SetQueuesOK
  BY SetTypeParts DEF SetTypeInv
<1>2. pod' \in {pod, NoPod} \/ PodStart
  <2>1. \A s : RemoveChild(s) => pod' \in {pod, NoPod}
    BY DEF RemoveChild
  <2>2. CASE Edit \/ Cluster \/ ReportAny \/ Inform \/ HandleAny \/ UNCHANGED vars
    BY <2>1, <2>2 DEF Edit, SetCreate, SetEdit, SetDelete, DepWrite, ChildDelete, Cluster,
       GarbageCollect, ReportReplicas, ReportAny, Inform, InformSet, InformDeploy, InformDep,
       InformMap, HandleAny, Handle, vars
  <2>3. CASE Worker \/ ApplyFails \/ DeleteFails \/ Crash
    BY <2>1, <2>3 DEF Worker, Start, ReadDep, Render, ApplyChild, ListOrphans, DeleteOrphan,
       ObserveDeploy, PatchStatus, PatchStatusFails, ApplyFails, DeleteFails, Crash
  <2>4. QED
    BY <2>2, <2>3 DEF Next, Step
<1>3. CASE PodStart
  <2>1. PICK t : t = kids[DeploySlot].body.template
    OBVIOUS
  <2>2. PICK loaded : loaded = Loaded(t)
    OBVIOUS
  <2>3. kids[DeploySlot] # Absent /\ CanLoad(t) /\ pod' = [template |-> t, loaded |-> loaded]
    BY <1>3, <2>1, <2>2 DEF PodStart
  <2>4. \A mount \in t.volumes :
          /\ mount[2] \in Deps
          /\ loaded[mount] = [maps |-> [k \in Mounted |-> loaded[mount].maps[k]],
                              secret |-> loaded[mount].secret]
          /\ \A k \in Mounted : loaded[mount].maps[k] \in SetChildBody(<<mount[1], k>>)
    BY <2>1, <2>2, <2>3, PodLoads
  <2>5. loaded = [mount \in t.volumes |-> loaded[mount]]
    BY <2>2 DEF Loaded
  <2>6. loaded = [mount \in t.volumes |->
                    [maps |-> [k \in Mounted |-> loaded[mount].maps[k]],
                     secret |-> loaded[mount].secret]]
    BY <2>4, <2>5
  <2>7. pod'.template = t /\ pod'.loaded = loaded
    BY <2>3
  <2>8. QED
    BY <2>4, <2>6, <2>7 DEF PodShapeOK
<1>4. CASE pod' \in {pod, NoPod}
  BY <1>4 DEF PodShapeOK
<1>5. QED
  BY <1>2, <1>3, <1>4

-----------------------------------------------------------------------------
(* The set starts up and running.                                          *)
LEMMA PodShapeInit == Init => PodShapeOK
<1> SUFFICES ASSUME Init PROVE PodShapeOK
  OBVIOUS
<1> PICK spec, got, d : spec = plan.start /\ d = deps /\ got = ForEvery(spec, d)
  OBVIOUS
<1>1. /\ spec \in FlowSetSpec /\ DistinctNames(spec.flows) /\ d \in Stores
      /\ SetOutcome(spec, got).reason = "Rendered"
  BY SetInputsAssumption DEF Init
<1>2. PICK t, loaded : t = SetTemplate(spec, got) /\ loaded = Content(spec, got)
  OBVIOUS
<1>3. pod = [template |-> t, loaded |-> loaded]
  BY <1>2 DEF Init
<1>4. ASSUME NEW mount \in t.volumes
      PROVE  /\ mount[2] \in Deps
             /\ loaded[mount] = [maps |-> [k \in Mounted |-> loaded[mount].maps[k]],
                                 secret |-> loaded[mount].secret]
             /\ \A k \in Mounted : loaded[mount].maps[k] \in SetChildBody(<<mount[1], k>>)
  <2>1. PICK i \in Entries(spec) :
          /\ mount[1] = spec.flows[i].name /\ mount[2] = SecretOf(spec.flows[i], d)
          /\ loaded[mount] = [maps |-> [k \in Mounted |-> MapBody(k, spec.flows[i], d)],
                              secret |-> d[mount[2]].data]
    BY <1>1, <1>2, FreshVolume
  <2>2. \A j \in Entries(spec) : got[j] = d /\ got[j] \in Readings
    BY <1>1, ForEveryIs, StoresAreReadings
  <2>3. mount[2] \in Deps
    BY <1>1, <2>1, <2>2, FlowRenderingType DEF Deps
  <2>4. \A k \in Mounted : MapBody(k, spec.flows[i], d) \in SetChildBody(<<mount[1], k>>)
    BY <1>1, <2>1, FreshMap
  <2> DEFINE body(k) == MapBody(k, spec.flows[i], d)
  <2>5. PICK one : one = loaded[mount]
    OBVIOUS
  <2>6. \A k \in Mounted : body(k) \in SetChildBody(<<mount[1], k>>)
    BY <2>4
  <2>7. one = [maps |-> [k \in Mounted |-> body(k)], secret |-> d[mount[2]].data]
    BY <2>1, <2>5
  <2> HIDE DEF body
  <2>8. one.maps = [k \in Mounted |-> body(k)]
    BY <2>7
  <2>9. \A k \in Mounted : one.maps[k] = body(k)
    BY <2>8
  <2>10. one.maps = [k \in Mounted |-> one.maps[k]]
    BY <2>8, <2>9
  <2>11. one = [maps |-> one.maps, secret |-> one.secret]
    BY <2>7
  <2>12. one = [maps |-> [k \in Mounted |-> one.maps[k]], secret |-> one.secret]
    BY ONLY <2>10, <2>11
  <2>13. QED
    BY <2>3, <2>5, <2>6, <2>9, <2>12, Zenon
<1>5. loaded = [mount \in t.volumes |-> loaded[mount]]
  BY <1>2 DEF Content
<1>6. loaded = [mount \in t.volumes |->
                  [maps |-> [k \in Mounted |-> loaded[mount].maps[k]],
                   secret |-> loaded[mount].secret]]
  BY <1>4, <1>5
<1>7. pod.template = t /\ pod.loaded = loaded
  BY <1>3
<1>8. QED
  BY <1>4, <1>6, <1>7 DEF PodShapeOK

LEMMA ServingInit == Init => ServingTracking
<1> SUFFICES ASSUME Init, FlowsKeepContent PROVE ServingTracking
  BY DEF ServingTracking
<1> PICK spec, got, d : spec = plan.start /\ d = deps /\ got = ForEvery(spec, d)
  OBVIOUS
<1>1. /\ plan \in Plans /\ spec \in plan.specs \cup {plan.start}
      /\ spec \in FlowSetSpec /\ DistinctNames(spec.flows) /\ d \in Stores
      /\ SetOutcome(spec, got).reason = "Rendered"
      /\ cdeps = d /\ rec = None
  BY SetInputsAssumption DEF Init
<1>2. \A s \in Slots : kids[s] = IF s \notin SetWanted(spec) THEN Absent
                                 ELSE [owner |-> 0, body |-> SetChild(s, spec, got)]
  BY DEF Init, SetWanted
<1>3. PICK t, loaded : t = SetTemplate(spec, got) /\ loaded = Content(spec, got)
  OBVIOUS
<1>4. pod.template = t /\ pod.loaded = loaded
  BY <1>3 DEF Init
<1>5. kids[DeploySlot].body.template = t
  <2>1. DeploySlot \in Slots /\ DeploySlot \in SetWanted(spec)
    BY SlotsAreDistinct DEF SetWanted
  <2>2. kids[DeploySlot] = [owner |-> 0, body |-> SetChild(DeploySlot, spec, got)]
    BY <1>2, <2>1
  <2>3. SetChild(DeploySlot, spec, got) = [replicas |-> spec.replicas, template |-> t]
    BY <1>3, SlotsAreDistinct DEF SetChild
  <2>4. QED
    BY <2>2, <2>3
<1>6. t.hash = SetHash(spec, got)
  BY <1>3 DEF SetTemplate
<1>7. HashedNames(t.hash) = FlowNames(spec)
  <2>1. \A j \in Entries(spec) : got[j] \in Readings
    BY <1>1, ForEveryIs, StoresAreReadings
  <2>2. QED
    BY <1>1, <1>6, <2>1, HashTellsFlows
<1>9. \A f : Prospect(f) = d
  <2>1. \A f : Prospect(f) = [o \in Deps |-> d[o]]
    BY <1>1 DEF Prospect, ReadFor
  <2>2. d = [o \in Deps |-> d[o]]
    BY <1>1 DEF Stores
  <2>3. QED
    BY <2>1, <2>2
<1> DEFINE Fresh(f, k, body) ==
             /\ f \in GivenNames /\ kids[<<f, k>>] = [owner |-> 0, body |-> body]
             /\ OfFlow(f, k, body) /\ RenderedBy(FlowNamed(f), k, Piece(k, body), d)
             /\ RenderedBy(FlowNamed(f), k, Hashed(t.hash, k, f), d)
             /\ NoNewer(f, k, Hashed(t.hash, k, f), Piece(k, body))
<1>10. ASSUME NEW i \in Entries(spec), NEW k \in Mounted
       PROVE  Fresh(spec.flows[i].name, k, MapBody(k, spec.flows[i], d))
  <2> PICK flow, f, body, x : /\ flow = spec.flows[i] /\ f = flow.name
                              /\ body = MapBody(k, flow, d) /\ x = Child(k, flow, d)
    OBVIOUS
  <2>1. /\ FlowNamed(f) = flow /\ f \in GivenNames
        /\ RenderedBy(flow, k, x, d) /\ Hashed(SetHash(spec, got), k, f) = x
    BY <1>1, FreshRendering
  <2>2. <<f, k>> \in SetWanted(spec) /\ SetChild(<<f, k>>, spec, got) = body
    BY <1>1, FreshMap
  <2>3. <<f, k>> \in Slots
    BY <1>1, <2>2, WantedSlots
  <2>4. kids[<<f, k>>] = [owner |-> 0, body |-> body]
    BY <1>2, <2>2, <2>3
  <2>5. OfFlow(f, k, body) /\ Piece(k, body) = x
    BY PieceOfMap
  <2>6. NoNewer(f, k, x, x)
    BY PieceIsReflexive DEF NoNewer
  <2>7. Hashed(t.hash, k, f) = x
    BY <1>6, <2>1
  <2>8. Fresh(f, k, body)
    BY <2>1, <2>4, <2>5, <2>6, <2>7
  <2> HIDE DEF Fresh
  <2>9. QED
    BY <2>8
<1> HIDE DEF Fresh
<1>11. ASSUME NEW f \in GivenNames, NEW k \in Mounted, kids[<<f, k>>] # Absent
       PROVE  MapOK(f, k)
  <2>1. <<f, k>> \in Slots /\ <<f, k>> \notin {ManifestSlot, ServiceSlot, DeploySlot}
    BY <1>1, FlowOfGivenName, SlotsAreDistinct DEF Mounted
  <2>2. <<f, k>> \in WantedMaps(spec)
    BY <1>2, <1>11, <2>1 DEF SetWanted
  <2>3. PICK i \in Entries(spec), h \in {"prompts", "tools", "config"} :
          <<f, k>> = <<spec.flows[i].name, h>>
    BY <1>1, <2>1, <2>2, WantedSlots
  <2>4. f = spec.flows[i].name
    BY <2>3
  <2>5. PICK body : body = MapBody(k, spec.flows[i], d)
    OBVIOUS
  <2>6. Fresh(f, k, body)
    BY <1>10, <2>4, <2>5
  <2>7. QED
    BY <2>6 DEF MapOK, Fresh
<1>12. ASSUME NEW mount \in t.volumes
       PROVE  /\ mount[1] \in HashedNames(t.hash) /\ deps[mount[2]] # Absent
              /\ Before(mount[2], t.hash.secrets[mount[2]], deps[mount[2]].data)
              /\ LoadedOK(t.hash, mount, loaded[mount])
  <2>1. PICK i \in Entries(spec) :
          /\ mount[1] = spec.flows[i].name /\ mount[2] = SecretOf(spec.flows[i], d)
          /\ loaded[mount] = [maps |-> [k \in Mounted |-> MapBody(k, spec.flows[i], d)],
                              secret |-> d[mount[2]].data]
    BY <1>1, <1>3, FreshVolume
  <2>2. d[mount[2]] # Absent /\ t.hash.secrets[mount[2]] = d[mount[2]].data
    BY <1>1, <1>6, <2>1, FreshSecret
  <2>3. mount[1] \in HashedNames(t.hash)
    BY <1>7, <2>1 DEF FlowNames
  <2> DEFINE body(k) == MapBody(k, spec.flows[i], d)
  <2>4. loaded[mount].maps = [k \in Mounted |-> body(k)] /\ loaded[mount].secret = d[mount[2]].data
    BY <2>1
  <2>5. \A k \in Mounted : Fresh(mount[1], k, body(k))
    BY <1>10, <2>1
  <2> HIDE DEF body
  <2>6. \A k \in Mounted : loaded[mount].maps[k] = body(k)
    BY <2>4
  <2>7. LoadedOK(t.hash, mount, loaded[mount])
    <3>1. "config" \in Mounted
      BY DEF Mounted
    <3>2. mount[1] \in GivenNames
      BY <2>5, <3>1 DEF Fresh
    <3>3. QED
      BY <2>2, <3>2, <2>4, <2>5, <2>6 DEF LoadedOK, Before, Fresh
  <2>8. QED
    BY <2>2, <2>3, <2>7 DEF Before
<1>13. PodOK
  BY <1>4, <1>12 DEF PodOK
<1>14. DeployOK
  <2>1. HashedNames(t.hash) \subseteq GivenNames
    BY <1>1, <1>7, GivenFlow DEF FlowNames
  <2>2. ASSUME NEW f \in HashedNames(t.hash), NEW k \in Mounted PROVE HashOK(t.hash, f, k)
    <3>1. PICK i \in Entries(spec) : f = spec.flows[i].name
      BY <1>7 DEF FlowNames
    <3>2. PICK body : body = MapBody(k, spec.flows[i], d)
      OBVIOUS
    <3>3. Fresh(f, k, body)
      BY <1>10, <3>1, <3>2
    <3>4. QED
      BY <1>9, <3>3 DEF HashOK, Fresh
  <2>3. TemplateOK(t)
    BY <1>12, <2>1, <2>2 DEF TemplateOK
  <2>4. QED
    BY <1>5, <2>3 DEF DeployOK
<1>15. ReadingsOK /\ SentOK /\ \A o \in Deps : UpTo(o, cdeps[o], deps[o])
  BY <1>1, UpToIsReflexive DEF ReadingsOK, SentOK
<1>16. \A f \in GivenNames, k \in Mounted : MapOK(f, k)
  BY <1>11 DEF MapOK
<1>17. QED
  BY <1>13, <1>14, <1>15, <1>16 DEF ServingTracking

-----------------------------------------------------------------------------
(* The invariant, and what follows.                                        *)
LEMMA ServingStep ==
  ASSUME SetTypeInv, SetTypeInv', SetReadingOK, PodShapeOK, ServingTracking,
         [Next]_vars, [DepsMoveForward]_vars
  PROVE  ServingTracking'
<1>1. UNCHANGED plan
  BY DEF Next, vars
<1>2. CASE ~FlowsKeepContent
  BY <1>1, <1>2, PlanStays DEF ServingTracking
<1>3. CASE FlowsKeepContent
  <2>1. DepsMoveForward
    BY UpToIsReflexive DEF DepsMoveForward, vars, store
  <2>2. CASE PodStart
    BY <1>1, <1>3, <2>1, <2>2, PodStartKeeps
  <2>3. CASE ~PodStart /\ (Edit \/ Cluster \/ ReportAny \/ Inform \/ HandleAny \/ UNCHANGED vars)
    <3>1. Quiet /\ pod' \in {pod, NoPod}
      BY <1>1, <1>3, <2>1, <2>3, OutsideIsQuiet
    <3>2. QED
      BY <1>3, <3>1, QuietKeeps
  <2>4. CASE \/ Start \/ ReadDep \/ Render \/ ListOrphans \/ (\E s \in MapSlots : DeleteOrphan(s))
             \/ ObserveDeploy \/ PatchStatus \/ PatchStatusFails \/ DeleteFails \/ Crash
    <3>1. Quiet /\ pod' \in {pod, NoPod}
      BY <1>1, <1>3, <2>1, <2>4, ThinkingIsQuiet
    <3>2. QED
      BY <1>3, <3>1, QuietKeeps
  <2>5. CASE ApplyChild \/ ApplyFails
    BY <1>1, <1>3, <2>1, <2>5, SendKeeps
  <2>6. QED
    BY <2>2, <2>3, <2>4, <2>5 DEF Next, Step, Worker
<1>4. QED
  BY <1>2, <1>3

LEMMA ServingHolds == ForwardSetSpec => [](PodShapeOK /\ ServingTracking)
<1> DEFINE Inv == PodShapeOK /\ ServingTracking
<1>1. Init => Inv
  BY PodShapeInit, ServingInit
<1>2. SetTypeInv /\ SetTypeInv' /\ SetTracking /\ Inv /\ [Next]_vars /\ [DepsMoveForward]_vars => Inv'
  <2> SUFFICES ASSUME SetTypeInv, SetTypeInv', SetTracking, PodShapeOK, ServingTracking,
                      [Next]_vars, [DepsMoveForward]_vars
               PROVE  PodShapeOK' /\ ServingTracking'
    OBVIOUS
  <2>1. SetReadingOK
    BY DEF SetTracking
  <2>2. QED
    BY <2>1, PodShapeStep, ServingStep
<1> HIDE DEF Inv
<1>3. Spec => []SetTypeInv /\ []SetTracking
  BY SetTypesHold, SetTrackingHolds, PTL
<1>4. Spec => Init /\ [][Next]_vars
  BY DEF Spec
<1>5. ForwardSetSpec => []Inv
  BY <1>1, <1>2, <1>3, <1>4, PTL DEF ForwardSetSpec
<1>6. QED
  BY <1>5 DEF Inv

(* As long as no replaced payload comes back and a flow is told by its     *)
(* name: for every flow, what the Deployment's hash was taken of is no     *)
(* newer than what its Pod has loaded and its ConfigMaps hold, and those   *)
(* are no newer than the live objects, whatever fails, whichever flows     *)
(* join and leave and whenever the Pod starts between two applies.         *)
THEOREM ServingTracked == ForwardSetSpec => []ServingTracking
<1>1. PodShapeOK /\ ServingTracking => ServingTracking
  OBVIOUS
<1>2. QED
  BY <1>1, ServingHolds, PTL

(* A Pod whose hash is that of the live objects has loaded what they       *)
(* render to, for there is nothing between the two.                        *)
LEMMA LoadedBetween ==
  ASSUME SetTypeInv, ServingTracking, FlowsKeepContent, PodShapeOK, pod # NoPod,
         NEW spec \in plan.specs \cup {plan.start}, NEW got, got = ForEvery(spec, deps),
         SetOutcome(spec, got).reason = "Rendered", pod.template = SetTemplate(spec, got)
  PROVE  pod.loaded = Content(spec, got)
<1>1. /\ plan \in Plans /\ deps \in Stores /\ spec \in FlowSetSpec /\ DistinctNames(spec.flows)
      /\ deps \in Readings
  BY SetSpecsAre, StoresAreReadings DEF SetTypeInv, SetTypeOK
<1>2. PICK t, loaded, hash : /\ t = pod.template /\ loaded = pod.loaded
                             /\ hash = SetHash(spec, got)
  OBVIOUS
<1>3. t = SetTemplate(spec, got) /\ t.hash = hash
  BY <1>2 DEF SetTemplate
<1>4. ASSUME NEW mount \in t.volumes
      PROVE  [maps |-> [k \in Mounted |-> loaded[mount].maps[k]], secret |-> loaded[mount].secret]
               = Content(spec, got)[mount]
  <2>1. PICK i \in Entries(spec) :
          /\ mount[1] = spec.flows[i].name /\ mount[2] = SecretOf(spec.flows[i], deps)
          /\ Content(spec, got)[mount]
               = [maps |-> [k \in Mounted |-> MapBody(k, spec.flows[i], deps)],
                  secret |-> deps[mount[2]].data]
    BY <1>1, <1>3, FreshVolume
  <2> PICK flow, f, s, one : /\ flow = spec.flows[i] /\ f = mount[1] /\ s = mount[2]
                             /\ one = loaded[mount]
    OBVIOUS
  <2>2. LoadedOK(hash, mount, one)
    BY <1>2, <1>3 DEF ServingTracking, PodOK
  <2>3. one.secret = deps[s].data
    <3>1. hash.secrets[s] = deps[s].data
      BY <1>1, <1>2, <2>1, FreshSecret
    <3>2. Before(s, hash.secrets[s], one.secret) /\ Before(s, one.secret, deps[s].data)
      BY <2>2 DEF LoadedOK
    <3>3. QED
      BY <3>1, <3>2, BeforeIsAntisymmetric
  <2>4. ASSUME NEW k \in Mounted PROVE one.maps[k] = MapBody(k, flow, deps)
    <3> PICK x, y, body : /\ x = Child(k, flow, deps) /\ y = Piece(k, one.maps[k])
                          /\ body = MapBody(k, flow, deps)
      OBVIOUS
    <3>1. FlowNamed(f) = flow /\ Hashed(hash, k, f) = x
      BY <1>1, <1>2, <2>1, FreshRendering
    <3>2. /\ OfFlow(f, k, one.maps[k]) /\ RenderedBy(flow, k, y, deps)
          /\ NoNewer(f, k, x, y)
      BY <2>2, <3>1 DEF LoadedOK
    <3>3. /\ PieceBefore(flow.model.name, PluginOf(flow, deps), k, x, y)
          /\ PieceBefore(flow.model.name, PluginOf(flow, deps), k, y, x)
      BY <3>1, <3>2 DEF NoNewer, RenderedBy
    <3>4. f \in Flows
      BY <1>1, <2>1, FlowOfSet
    <3>5. one.maps[k] \in SetChildBody(<<f, k>>) /\ body \in SetChildBody(<<f, k>>)
      BY <1>1, <1>2, <2>1, FreshMap DEF PodShapeOK
    <3>6. OfFlow(f, k, body) /\ Piece(k, body) = x
      BY <2>1, PieceOfMap
    <3>7. x \in ChildBody(k) /\ y \in ChildBody(k)
      <4>1. \A z \in SetChildBody(<<f, k>>) : Piece(k, z) \in ChildBody(k)
        <5>1. SetChildBody(<<f, k>>) = IF k = "config" THEN FlowConfigs ELSE ChildBody(k)
          BY <3>4, SlotsAreDistinct DEF SetChildBody, Mounted
        <5>2. CASE k = "config"
          <6>1. SetChildBody(<<f, k>>) = FlowConfigs
            BY <5>1, <5>2
          <6>2. \A z \in FlowConfigs : z.config \in ChildBody("config")
            BY DEF FlowConfigs
          <6>3. \A z : Piece(k, z) = z.config
            BY <5>2 DEF Piece
          <6>4. ChildBody(k) = ChildBody("config")
            BY <5>2
          <6>5. QED
            BY <6>1, <6>2, <6>3, <6>4
        <5>3. CASE k # "config"
          BY <5>1, <5>3 DEF Piece
        <5>4. QED
          BY <5>2, <5>3
      <4>2. QED
        BY <3>5, <3>6, <4>1
    <3>8. x = y
      BY <3>3, <3>7, PieceIsAntisymmetric
    <3>9. QED
      BY <3>2, <3>4, <3>5, <3>6, <3>8, MapOfPiece
  <2>5. QED
    BY <2>1, <2>3, <2>4
<1>5. loaded = [mount \in t.volumes |->
                  [maps |-> [k \in Mounted |-> loaded[mount].maps[k]],
                   secret |-> loaded[mount].secret]]
  BY <1>2 DEF PodShapeOK
<1>6. Content(spec, got) = [mount \in t.volumes |-> Content(spec, got)[mount]]
  BY <1>3 DEF Content
<1>7. loaded = [mount \in t.volumes |-> Content(spec, got)[mount]]
  BY <1>4, <1>5
<1>8. QED
  BY <1>2, <1>6, <1>7

(* The Pod serves what it should: at rest, a Pod of the applied template   *)
(* has loaded, for every flow of the set, the files and credentials the    *)
(* present objects call for, unless a replaced payload came back or a      *)
(* flow's name was given to another.                                       *)
THEOREM ContentIsServed == ForwardSetSpec /\ FlowsKeepContent => []ContentServed
<1>1. ASSUME SetTypeInv, PodShapeOK, ServingTracking, SetSettled, FlowsKeepContent
      PROVE  ContentServed
  <2> SUFFICES ASSUME AtRest, cdeps = deps, CaughtUp,
                      SetOutcome(set.spec, ForEvery(set.spec, deps)).reason = "Rendered",
                      pod # NoPod, pod.template = kids[DeploySlot].body.template
               PROVE  pod.loaded = Content(set.spec, ForEvery(set.spec, deps))
    BY DEF ContentServed
  <2> PICK spec, got : spec = set.spec /\ got = ForEvery(set.spec, deps)
    OBVIOUS
  <2>1. spec \in plan.specs \cup {plan.start}
    BY <1>1 DEF SetTypeInv, SetTypeOK, AtRest
  <2>2. kids[DeploySlot] = [owner |-> set.uid, body |-> SetChild(DeploySlot, spec, got)]
    BY <1>1 DEF SetSettled
  <2>3. SetChild(DeploySlot, spec, got)
          = [replicas |-> spec.replicas, template |-> SetTemplate(spec, got)]
    BY SlotsAreDistinct DEF SetChild
  <2>4. pod.template = SetTemplate(spec, got)
    BY <2>2, <2>3
  <2>5. pod.loaded = Content(spec, got)
    BY <1>1, <2>1, <2>4, LoadedBetween
  <2>6. QED
    BY <2>5
<1>2. FlowsKeepContent /\ [Next]_vars => FlowsKeepContent'
  BY PlanStays DEF Next, vars
<1>3. ForwardSetSpec => Spec
  BY DEF ForwardSetSpec
<1>4. Spec => [][Next]_vars
  BY DEF Spec
<1>5. QED
  BY <1>1, <1>2, <1>3, <1>4, SetTypesHold, SetSettles, ServingHolds, PTL
=================================================================================
