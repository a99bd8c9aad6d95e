----------------------------- MODULE FlowSetProofs -----------------------------
(***************************************************************************)
(* Proofs about FlowSetController, for any number of flows in the set, any *)
(* dependencies, specs and plans of its users and any bound on edits,      *)
(* faults and restarts: its types, that a Pod's volumes are there, that no *)
(* wakeup is lost and that no ConfigMap is left behind.                    *)
(***************************************************************************)
EXTENDS FlowSetTracking, FlowRenderProofs, SequenceTheorems

LEMMA SlotsAreDistinct ==
  /\ ManifestSlot # ServiceSlot /\ ManifestSlot # DeploySlot /\ ServiceSlot # DeploySlot
  /\ ServiceSlot \notin MapSlots /\ DeploySlot \notin MapSlots
  /\ ManifestSlot \in MapSlots /\ MapSlots \subseteq Slots
  /\ {ServiceSlot, DeploySlot} \subseteq Slots
  /\ \A f \in Flows, k \in {"prompts", "tools", "config"} :
       <<f, k>> \in MapSlots /\ <<f, k>> \notin {ManifestSlot, ServiceSlot, DeploySlot}
  /\ \A s \in MapSlots \ {ManifestSlot} :
       \E f \in Flows, k \in {"prompts", "tools", "config"} : s = <<f, k>>
<1>1. {FlowMaps[k] : k \in 1..3} = {"prompts", "tools", "config"}
  <2>1. FlowMaps[1] = "prompts" /\ FlowMaps[2] = "tools" /\ FlowMaps[3] = "config"
    BY DEF FlowMaps
  <2>2. 1..3 = {1, 2, 3}
    OBVIOUS
  <2>3. QED
    BY <2>1, <2>2
<1>2. MapSlots = {ManifestSlot} \cup (Flows \X {"prompts", "tools", "config"})
  BY <1>1 DEF MapSlots
<1>3. None \notin Flows
  BY NamesAssumption
<1>4. QED
  BY <1>2, <1>3 DEF ManifestSlot, ServiceSlot, DeploySlot, Slots

LEMMA WantedSlots ==
  ASSUME NEW spec \in FlowSetSpec
  PROVE  /\ WantedMaps(spec) \subseteq MapSlots /\ SetWanted(spec) \subseteq Slots
         /\ \A s : s \in WantedMaps(spec) <=>
              \/ s = ManifestSlot
              \/ \E i \in Entries(spec), k \in {"prompts", "tools", "config"} :
                   s = <<spec.flows[i].name, k>>
<1>1. {FlowMaps[k] : k \in 1..3} = {"prompts", "tools", "config"}
  <2>1. FlowMaps[1] = "prompts" /\ FlowMaps[2] = "tools" /\ FlowMaps[3] = "config"
    BY DEF FlowMaps
  <2>2. 1..3 = {1, 2, 3}
    OBVIOUS
  <2>3. QED
    BY <2>1, <2>2
<1>2. WantedMaps(spec) = {ManifestSlot} \cup (FlowNames(spec) \X {"prompts", "tools", "config"})
  BY <1>1 DEF WantedMaps
<1>3. \A f : f \in FlowNames(spec) <=> \E i \in Entries(spec) : f = spec.flows[i].name
  BY DEF FlowNames
<1>4. FlowNames(spec) \subseteq Flows
  BY <1>3, FlowOfSet
<1>5. WantedMaps(spec) \subseteq MapSlots
  BY <1>1, <1>2, <1>4 DEF MapSlots
<1>6. QED
  BY <1>2, <1>3, <1>5, SlotsAreDistinct DEF SetWanted

(* The ConfigMaps of a flow are made from that flow.                       *)
LEMMA FlowOfSlot ==
  ASSUME NEW spec \in FlowSetSpec, NEW i \in Entries(spec),
         NEW k \in {"prompts", "tools", "config"}
  PROVE  \E j \in Entries(spec) :
           /\ spec.flows[j].name = spec.flows[i].name
           /\ \A got : SetChild(<<spec.flows[i].name, k>>, spec, got)
                         = MapBody(k, spec.flows[j], got[j])
<1> DEFINE name == spec.flows[i].name
           j == CHOOSE h \in Entries(spec) : spec.flows[h].name = name
<1>1. j \in Entries(spec) /\ spec.flows[j].name = name
  OBVIOUS
<1>2. name \in Flows /\ <<name, k>> # ManifestSlot /\ <<name, k>> # ServiceSlot /\ <<name, k>> # DeploySlot
  <2>1. name \in Flows
    BY FlowOfSet
  <2>2. <<name, k>> \notin {ManifestSlot, ServiceSlot, DeploySlot}
    BY <2>1, SlotsAreDistinct
  <2>3. QED
    BY <2>1, <2>2
<1>3. \A got : SetChild(<<name, k>>, spec, got) = MapBody(k, spec.flows[j], got[j])
  BY <1>2 DEF SetChild
<1>4. QED
  BY <1>1, <1>3

LEMMA EntriesAre ==
  ASSUME NEW spec \in FlowSetSpec
  PROVE  /\ Len(spec.flows) \in Nat /\ Entries(spec) = 1..Len(spec.flows)
         /\ spec.flows \in Seq(FlowSetFlow)
BY DEF FlowSetSpec, Entries

LEMMA SeqOfEntries ==
  ASSUME NEW spec \in FlowSetSpec, NEW S, NEW f, f = [i \in Entries(spec) |-> f[i]],
         \A i \in Entries(spec) : f[i] \in S
  PROVE  f \in Seq(S)
<1>1. f \in [1..Len(spec.flows) -> S] /\ Len(spec.flows) \in Nat
  BY EntriesAre
<1>2. QED
  BY <1>1, SeqDef

LEMMA ManifestType ==
  ASSUME NEW spec \in FlowSetSpec, \A i \in Entries(spec) : BadSources(spec.flows[i]) = {}
  PROVE  Manifest(spec) \in Manifests
<1>1. ASSUME NEW i \in Entries(spec)
      PROVE  Manifest(spec)[i] \in [name : Flows, entrypoint : Prompts]
  <2>1. 1 \in DOMAIN spec.flows[i].prompts /\ spec.flows[i].prompts[1] \in PromptSource
    BY FlowOfSet
  <2>2. spec.flows[i].prompts[1].kind # "none"
    BY <2>1 DEF BadSources
  <2>3. spec.flows[i].prompts[1].name \in Prompts
    BY <2>1, <2>2 DEF PromptSource
  <2>4. QED
    BY <2>3, FlowOfSet DEF Manifest
<1>2. Manifest(spec) = [i \in Entries(spec) |-> Manifest(spec)[i]]
  BY DEF Manifest
<1>3. QED
  BY <1>1, <1>2, SeqOfEntries DEF Manifests

LEMMA SetHashType ==
  ASSUME NEW spec \in FlowSetSpec, NEW got, \A i \in Entries(spec) : got[i] \in Readings,
         SetOutcome(spec, got).reason = "Rendered"
  PROVE  SetHash(spec, got) \in SetHashes
<1> DEFINE flow(i) == spec.flows[i]
           prompts(p) == [i \in Entries(spec) |-> PromptFiles(flow(i), got[i])[p]]
           tools(t) == [i \in Entries(spec) |-> ToolFiles(flow(i), got[i])[t]]
           config == [i \in Entries(spec) |-> FlowConfig(flow(i), got[i])]
           users(s) == {i \in Entries(spec) : SecretOf(flow(i), got[i]) = s}
           secret(s) == IF users(s) = {} THEN None ELSE got[Least(users(s))][s].data
<1>1. Entries(spec) = 1..Len(spec.flows) /\ Len(spec.flows) \in Nat
  BY EntriesAre
<1>2. \A p \in Prompts : InOrder(prompts(p)) \in SUBSET (Nat \X Data)
  <2>1. \A p \in Prompts, i \in Entries(spec) : prompts(p)[i] \in Data \cup {Absent}
    BY FlowRenderingType DEF ChildBody
  <2>2. QED
    BY <1>1, <2>1, InOrderType
<1>3. \A t \in Tools : InOrder(tools(t)) \in SUBSET (Nat \X Data)
  <2>1. \A t \in Tools, i \in Entries(spec) : tools(t)[i] \in Data \cup {Absent}
    BY FlowRenderingType DEF ChildBody
  <2>2. QED
    BY <1>1, <2>1, InOrderType
<1>4. config \in Seq(FlowConfigs)
  <2>1. \A i \in Entries(spec) : config[i] \in FlowConfigs
    BY FlowRenderingType
  <2>2. QED
    BY <2>1, SeqOfEntries
<1>5. Manifest(spec) \in Manifests
  BY ManifestType, SetRenderedMeans
<1>6. \A s \in Secrets : secret(s) \in Data \cup {None}
  <2> SUFFICES ASSUME NEW s \in Secrets, users(s) # {} PROVE secret(s) \in Data
    OBVIOUS
  <2>1. users(s) \subseteq Nat
    BY <1>1
  <2>2. Least(users(s)) \in users(s)
    <3> HIDE DEF users
    <3> QED
      BY <2>1, LeastIsOne
  <2>3. Least(users(s)) \in Entries(spec) /\ SecretOf(flow(Least(users(s))), got[Least(users(s))]) = s
    BY <2>2
  <2>4. QED
    BY <2>3, FlowRenderingType
<1>7. SetHash(spec, got) =
        [prompts |-> [p \in Prompts |-> InOrder(prompts(p))],
         tools |-> [t \in Tools |-> InOrder(tools(t))],
         config |-> config, manifest |-> Manifest(spec),
         secrets |-> [s \in Secrets |-> secret(s)]]
  BY DEF SetHash
<1> HIDE DEF prompts, tools, config, secret
<1>8. QED
  BY <1>2, <1>3, <1>4, <1>5, <1>6, <1>7 DEF SetHashes

LEMMA SetRenderingType ==
  ASSUME NEW spec \in FlowSetSpec, NEW got, \A i \in Entries(spec) : got[i] \in Readings,
         SetOutcome(spec, got).reason = "Rendered"
  PROVE  \A s \in SetWanted(spec) : SetChild(s, spec, got) \in SetChildBody(s)
<1>1. SetTemplate(spec, got) \in SetTemplates
  <2> DEFINE volumes == {<<spec.flows[i].name, SecretOf(spec.flows[i], got[i])>> : i \in Entries(spec)}
  <2>1. volumes \in SUBSET (Flows \X Secrets)
    BY FlowRenderingType, FlowOfSet
  <2>2. spec.image \in Images /\ spec.port \in Ports
    BY SetRenderedMeans DEF FlowSetSpec
  <2>3. SetTemplate(spec, got) = [image |-> spec.image, port |-> spec.port,
                                  hash |-> SetHash(spec, got), volumes |-> volumes]
    BY DEF SetTemplate
  <2> HIDE DEF volumes
  <2>4. QED
    BY <2>1, <2>2, <2>3, SetHashType DEF SetTemplates
<1>2. SetChild(DeploySlot, spec, got) \in SetChildBody(DeploySlot)
  <2>1. spec.replicas \in Nat
    BY DEF FlowSetSpec
  <2>2. QED
    BY <1>1, <2>1, SlotsAreDistinct DEF SetChild, SetChildBody
<1>3. SetChild(ServiceSlot, spec, got) \in SetChildBody(ServiceSlot)
  BY SlotsAreDistinct DEF SetChild, SetChildBody, FlowSetSpec
<1>4. SetChild(ManifestSlot, spec, got) \in SetChildBody(ManifestSlot)
  BY ManifestType, SetRenderedMeans, SlotsAreDistinct DEF SetChild, SetChildBody
<1>5. ASSUME NEW i \in Entries(spec), NEW k \in {"prompts", "tools", "config"}
      PROVE  SetChild(<<spec.flows[i].name, k>>, spec, got)
               \in SetChildBody(<<spec.flows[i].name, k>>)
  <2>1. PICK j \in Entries(spec) : \A g : SetChild(<<spec.flows[i].name, k>>, spec, g)
                                            = MapBody(k, spec.flows[j], g[j])
    BY FlowOfSlot
  <2>2. MapBody(k, spec.flows[j], got[j]) \in IF k = "config" THEN FlowConfigs ELSE ChildBody(k)
    BY FlowRenderingType DEF MapBody
  <2>3. SetChildBody(<<spec.flows[i].name, k>>) = IF k = "config" THEN FlowConfigs ELSE ChildBody(k)
    BY FlowOfSet, SlotsAreDistinct DEF SetChildBody
  <2>4. QED
    BY <2>1, <2>2, <2>3
<1>6. ASSUME NEW s \in WantedMaps(spec) PROVE SetChild(s, spec, got) \in SetChildBody(s)
  <2>1. CASE s = ManifestSlot
    BY <1>4, <2>1
  <2>2. CASE s # ManifestSlot
    <3>1. PICK i \in Entries(spec), k \in {"prompts", "tools", "config"} :
            s = <<spec.flows[i].name, k>>
      BY <2>2, WantedSlots
    <3>2. QED
      BY <1>5, <3>1
  <2>3. QED
    BY <2>1, <2>2
<1>7. QED
  BY <1>2, <1>3, <1>6 DEF SetWanted
-----------------------------------------------------------------------------
(* The order in which the children are sent: the manifest first, then the  *)
(* ConfigMaps of the flows, and the Deployment last.                       *)
FlowAt(k) == ((k - 1) \div 3) + 1
KindAt(k) == ((k - 1) % 3) + 1

LEMMA ThreeEach ==
  ASSUME NEW n \in Nat
  PROVE  /\ 3 * n \in Nat
         /\ \A k \in 1..(3 * n) : FlowAt(k) \in 1..n /\ KindAt(k) \in 1..3
         /\ \A i \in 1..n, j \in 1..3 :
              \E k \in 1..(3 * n) : FlowAt(k) = i /\ KindAt(k) = j
<1>1. 3 * n \in Nat
  OBVIOUS
<1>2. \A k \in 1..(3 * n) : FlowAt(k) \in 1..n /\ KindAt(k) \in 1..3
  BY DEF FlowAt, KindAt
<1>3. ASSUME NEW i \in 1..n, NEW j \in 1..3
      PROVE  \E k \in 1..(3 * n) : FlowAt(k) = i /\ KindAt(k) = j
  <2> DEFINE k == 3 * (i - 1) + j
  <2>1. k \in 1..(3 * n)
    OBVIOUS
  <2>2. FlowAt(k) = i /\ KindAt(k) = j
    BY DEF FlowAt, KindAt
  <2> HIDE DEF k
  <2>3. QED
    BY <2>1, <2>2
<1>4. QED
  BY <1>1, <1>2, <1>3

LEMMA ApplyOrderIs ==
  ASSUME NEW spec \in FlowSetSpec
  PROVE  LET order == SetApplyOrder(spec)
             n == Len(spec.flows)
         IN  /\ n \in Nat /\ Len(order) = 3 * n + 3 /\ DOMAIN order = 1..(3 * n + 3)
             /\ order[1] = ManifestSlot
             /\ order[3 * n + 2] = ServiceSlot /\ order[3 * n + 3] = DeploySlot
             /\ \A k \in 1..(3 * n) :
                  order[k + 1] = <<spec.flows[FlowAt(k)].name, FlowMaps[KindAt(k)]>>
<1> DEFINE n == Len(spec.flows)
           e(k) == <<spec.flows[FlowAt(k)].name, FlowMaps[KindAt(k)]>>
           mid == [k \in 1..(3 * n) |-> e(k)]
<1>1. n \in Nat /\ 3 * n \in Nat
  BY EntriesAre, ThreeEach
<1> HIDE DEF n, e
<1>2. mid \in Seq({e(k) : k \in 1..(3 * n)}) /\ Len(mid) = 3 * n
  <2>1. mid \in [1..(3 * n) -> {e(k) : k \in 1..(3 * n)}]
    OBVIOUS
  <2>2. mid \in Seq({e(k) : k \in 1..(3 * n)})
    BY <1>1, <2>1, SeqDef
  <2>3. QED
    BY <1>1, <2>2, LenProperties
<1> DEFINE all == {e(k) : k \in 1..(3 * n)} \cup {ManifestSlot, ServiceSlot, DeploySlot}
           first == <<ManifestSlot>>
           last == <<ServiceSlot, DeploySlot>>
<1> HIDE DEF mid
<1>3. mid \in Seq(all) /\ first \in Seq(all) /\ last \in Seq(all)
  BY <1>2
<1> HIDE DEF all
<1>4. /\ first \o mid \in Seq(all) /\ Len(first \o mid) = 3 * n + 1
      /\ \A k \in 1..(3 * n + 1) : (first \o mid)[k] = IF k <= 1 THEN first[k] ELSE mid[k - 1]
  BY <1>1, <1>2, <1>3, ConcatProperties
<1>5. /\ Len((first \o mid) \o last) = 3 * n + 3
      /\ (first \o mid) \o last \in Seq(all)
      /\ \A k \in 1..(3 * n + 3) :
           ((first \o mid) \o last)[k] = IF k <= 3 * n + 1 THEN (first \o mid)[k]
                                         ELSE last[k - (3 * n + 1)]
  BY <1>1, <1>3, <1>4, ConcatProperties
<1>6. SetApplyOrder(spec) = (first \o mid) \o last
  BY DEF SetApplyOrder, mid, e, n, FlowAt, KindAt
<1>7. \A k \in 1..(3 * n) : mid[k] = e(k)
  BY DEF mid
<1> HIDE DEF first, last
<1> DEFINE order == SetApplyOrder(spec)
<1>8. /\ Len(order) = 3 * n + 3 /\ DOMAIN order = 1..(3 * n + 3)
      /\ \A k \in 1..(3 * n + 3) :
           order[k] = IF k <= 1 THEN first[k] ELSE IF k <= 3 * n + 1 THEN mid[k - 1]
                      ELSE last[k - (3 * n + 1)]
  BY <1>1, <1>4, <1>5, <1>6
<1> HIDE DEF order
<1>9. order[1] = ManifestSlot /\ order[3 * n + 2] = ServiceSlot /\ order[3 * n + 3] = DeploySlot
  <2>1. first[1] = ManifestSlot /\ last[1] = ServiceSlot /\ last[2] = DeploySlot
    BY DEF first, last
  <2>2. QED
    BY <1>1, <1>8, <2>1
<1>10. \A k \in 1..(3 * n) : order[k + 1] = e(k)
  BY <1>1, <1>7, <1>8
<1>11. QED
  BY <1>1, <1>8, <1>9, <1>10 DEF order, n, e
LEMMA EverythingIsSent ==
  ASSUME NEW spec \in FlowSetSpec
  PROVE  LET order == SetApplyOrder(spec)
         IN  /\ Len(order) \in Nat /\ Len(order) >= 3 /\ DOMAIN order = 1..Len(order)
             /\ \A k \in DOMAIN order : order[k] \in SetWanted(spec)
             /\ order[Len(order)] = DeploySlot
             /\ \A k \in 1..(Len(order) - 1) : order[k] # DeploySlot
             /\ \A s \in SetWanted(spec) : \E k \in 1..Len(order) : order[k] = s
             /\ \A s \in WantedMaps(spec) : \E k \in 1..(Len(order) - 1) : order[k] = s
<1> DEFINE order == SetApplyOrder(spec)
           n == Len(spec.flows)
<1>1. /\ n \in Nat /\ Len(order) = 3 * n + 3 /\ DOMAIN order = 1..(3 * n + 3)
      /\ order[1] = ManifestSlot
      /\ order[3 * n + 2] = ServiceSlot /\ order[3 * n + 3] = DeploySlot
      /\ \A k \in 1..(3 * n) :
           order[k + 1] = <<spec.flows[FlowAt(k)].name, FlowMaps[KindAt(k)]>>
  BY ApplyOrderIs
<1>2. Entries(spec) = 1..n
  BY EntriesAre
<1> HIDE DEF order, n
<1>3. FlowMaps[1] = "prompts" /\ FlowMaps[2] = "tools" /\ FlowMaps[3] = "config"
  BY DEF FlowMaps
<1>4. \A k \in 1..(3 * n) : order[k + 1] \in WantedMaps(spec)
  <2> SUFFICES ASSUME NEW k \in 1..(3 * n) PROVE order[k + 1] \in WantedMaps(spec)
    OBVIOUS
  <2>1. PICK i \in 1..n, j \in 1..3 : order[k + 1] = <<spec.flows[i].name, FlowMaps[j]>>
    BY <1>1, ThreeEach
  <2>2. FlowMaps[j] \in {"prompts", "tools", "config"}
    BY <1>3
  <2>3. QED
    BY <1>2, <2>1, <2>2, WantedSlots
<1>5. ASSUME NEW k \in 1..(3 * n + 3)
      PROVE  \/ k = 1 \/ k = 3 * n + 2 \/ k = 3 * n + 3
             \/ k - 1 \in 1..(3 * n) /\ k = (k - 1) + 1
  BY <1>1
<1>6. ManifestSlot \in WantedMaps(spec)
  BY WantedSlots
<1>7. \A k \in 1..(3 * n + 3) : order[k] \in SetWanted(spec)
  BY <1>1, <1>4, <1>5, <1>6 DEF SetWanted
<1>8. \A k \in 1..(3 * n + 2) : order[k] # DeploySlot
  <2> SUFFICES ASSUME NEW k \in 1..(3 * n + 2) PROVE order[k] # DeploySlot
    OBVIOUS
  <2>1. k \in 1..(3 * n + 3) /\ k # 3 * n + 3
    BY <1>1
  <2>2. order[k] \in WantedMaps(spec) \cup {ServiceSlot}
    BY <1>1, <1>4, <1>5, <1>6, <2>1
  <2>3. QED
    BY <2>2, WantedSlots, SlotsAreDistinct
<1>9. ASSUME NEW s \in WantedMaps(spec) PROVE \E k \in 1..(3 * n + 2) : order[k] = s
  <2>1. CASE s = ManifestSlot
    BY <1>1, <2>1
  <2>2. CASE s # ManifestSlot
    <3>1. PICK i \in Entries(spec), kind \in {"prompts", "tools", "config"} :
            s = <<spec.flows[i].name, kind>>
      BY <2>2, WantedSlots
    <3>2. PICK j \in 1..3 : kind = FlowMaps[j]
      BY <1>3
    <3>3. PICK k \in 1..(3 * n) : FlowAt(k) = i /\ KindAt(k) = j
      <4>1. n \in Nat /\ i \in 1..n
        BY <1>1, <1>2
      <4>2. QED
        BY <4>1, ThreeEach
    <3>4. order[k + 1] = s
      BY <1>1, <3>1, <3>2, <3>3
    <3>5. k + 1 \in 1..(3 * n + 2)
      BY <1>1
    <3>6. QED
      BY <3>4, <3>5
  <2>3. QED
    BY <2>1, <2>2
<1>10. \A s \in SetWanted(spec) : \E k \in 1..(3 * n + 3) : order[k] = s
  <2> SUFFICES ASSUME NEW s \in SetWanted(spec)
               PROVE  \E k \in 1..(3 * n + 3) : order[k] = s
    OBVIOUS
  <2>1. 3 * n + 2 \in 1..(3 * n + 3) /\ 3 * n + 3 \in 1..(3 * n + 3)
        /\ 1..(3 * n + 2) \subseteq 1..(3 * n + 3)
    BY <1>1
  <2>2. s \in WantedMaps(spec) \/ s = ServiceSlot \/ s = DeploySlot
    BY DEF SetWanted
  <2>3. QED
    BY <1>1, <1>9, <2>1, <2>2
<1>11. 3 * n + 3 - 1 = 3 * n + 2 /\ 3 * n + 3 \in Nat /\ 3 * n + 3 >= 3
  BY <1>1
<1>12. QED
  BY <1>1, <1>7, <1>8, <1>9, <1>10, <1>11 DEF order

-----------------------------------------------------------------------------
(* What a status holds.                                                    *)
LEMMA PerFlowType ==
  ASSUME NEW spec \in FlowSetSpec, NEW ready \in BOOLEAN, NEW phase \in Phases,
         NEW msg \in SetMessages
  PROVE  /\ PerFlow(spec, ready, phase, msg)
              \in Seq([name : Flows, ready : BOOLEAN, phase : Phases, msg : SetMessages])
         /\ ReadyEntries(PerFlow(spec, ready, phase, msg)) \in Nat
<1> DEFINE entries == PerFlow(spec, ready, phase, msg)
<1>1. entries = [i \in Entries(spec) |-> [name |-> spec.flows[i].name, ready |-> ready,
                                          phase |-> phase, msg |-> msg]]
  BY DEF PerFlow
<1> HIDE DEF entries
<1>2. \A i \in Entries(spec) :
        entries[i] \in [name : Flows, ready : BOOLEAN, phase : Phases, msg : SetMessages]
  BY <1>1, FlowOfSet
<1>3. entries \in Seq([name : Flows, ready : BOOLEAN, phase : Phases, msg : SetMessages])
  BY <1>1, <1>2, SeqOfEntries
<1>4. ReadyEntries(entries) \in Nat
  <2>1. DOMAIN entries = 1..Len(spec.flows) /\ Len(spec.flows) \in Nat
    BY <1>1, EntriesAre
  <2> DEFINE up == {i \in DOMAIN entries : entries[i].ready}
  <2>2. IsFiniteSet(up)
    <3>1. up \subseteq 1..Len(spec.flows)
      BY <2>1
    <3>2. IsFiniteSet(1..Len(spec.flows))
      BY <2>1, FS_Interval
    <3> HIDE DEF up
    <3>3. QED
      BY <3>1, <3>2, FS_Subset
  <2>3. QED
    BY <2>2, FS_CardinalityType DEF ReadyEntries
<1>5. QED
  BY <1>3, <1>4 DEF entries

LEMMA NoSetStatusType == NoSetStatus \in SetStatus
BY DEF NoSetStatus, SetStatus, Phases

LEMMA SetRefusedStatusType ==
  ASSUME NEW st \in SetStatus, NEW spec \in FlowSetSpec, NEW gen \in Nat,
         NEW reason \in {"InvalidSpec", "MissingDependency", "Error"},
         NEW flow \in Flows \cup {None},
         NEW about \in Deps \cup {None} \cup {s[2] : s \in Slots}
  PROVE  SetRefusedStatus(st, spec, gen, reason, flow, about) \in SetStatus
<1> DEFINE msg == [NoMessage EXCEPT !.flow = flow, !.about = about]
           cond == [ready |-> FALSE, reason |-> reason, gen |-> gen, msg |-> msg]
           new == [st EXCEPT !.gen = gen, !.total = Len(spec.flows), !.phase = "Failed",
                     !.cond = cond]
<1>1. msg \in SetMessages
  BY DEF NoMessage, SetMessages, Phases
<1> HIDE DEF msg
<1>2. cond \in SetConditions
  BY <1>1 DEF SetConditions
<1> HIDE DEF cond
<1>3. new \in SetStatus
  BY <1>2, EntriesAre DEF SetStatus, Phases
<1>4. "Pending" \in Phases
  BY DEF Phases
<1>5. PerFlow(spec, FALSE, "Pending", msg)
        \in Seq([name : Flows, ready : BOOLEAN, phase : Phases, msg : SetMessages])
  BY <1>1, <1>4, PerFlowType
<1>6. [new EXCEPT !.phase = "Pending", !.flows = PerFlow(spec, FALSE, "Pending", msg)] \in SetStatus
  BY <1>3, <1>5 DEF SetStatus, Phases
<1>7. SetRefusedStatus(st, spec, gen, reason, flow, about) =
        IF reason = "MissingDependency"
        THEN [new EXCEPT !.phase = "Pending", !.flows = PerFlow(spec, FALSE, "Pending", msg)]
        ELSE new
  BY DEF SetRefusedStatus, msg, cond
<1>8. QED
  BY <1>3, <1>6, <1>7
LEMMA SetObservedStatusType ==
  ASSUME NEW st \in SetStatus, NEW spec \in FlowSetSpec, NEW gen \in Nat, NEW hash \in SetHashes,
         NEW dep, dep # Absent => dep.status \in Reports
  PROVE  SetObservedStatus(st, spec, gen, hash, dep) \in SetStatus
<1> DEFINE phase == IF dep = Absent THEN "Pending" ELSE derivePhase(spec.replicas, dep.status)
           up == phase = "Running"
           avail == IF dep = Absent THEN st.avail ELSE dep.status.avail
           msg == IF dep = Absent THEN NoMessage
                  ELSE [NoMessage EXCEPT !.phase = phase, !.avail = dep.status.avail,
                                         !.replicas = dep.status.avail + dep.status.unavail]
           cond == [ready |-> up, reason |-> IF up THEN "Ready" ELSE "Reconciling",
                    gen |-> gen, msg |-> msg]
           entries == PerFlow(spec, up, phase, msg)
<1>1. phase \in Phases
  BY DEF derivePhase, Phases
<1>2. avail \in Nat
  BY DEF SetStatus, Reports
<1>3. msg \in SetMessages
  <2>1. NoMessage \in SetMessages
    BY DEF NoMessage, SetMessages, Phases
  <2>2. dep # Absent => dep.status.avail \in Nat /\ dep.status.avail + dep.status.unavail \in Nat
    BY DEF Reports
  <2> HIDE DEF phase
  <2>3. QED
    BY <1>1, <2>1, <2>2 DEF SetMessages
<1> HIDE DEF phase, msg
<1>4. cond \in SetConditions
  BY <1>3 DEF SetConditions
<1>5. /\ entries \in Seq([name : Flows, ready : BOOLEAN, phase : Phases, msg : SetMessages])
      /\ ReadyEntries(entries) \in Nat
  BY <1>1, <1>3, PerFlowType
<1>6. SetObservedStatus(st, spec, gen, hash, dep) =
        [phase |-> phase, gen |-> gen, hash |-> hash, total |-> Len(spec.flows),
         avail |-> avail, cond |-> cond, flows |-> entries, ready |-> ReadyEntries(entries)]
  BY DEF SetObservedStatus, phase, msg
<1> HIDE DEF avail, cond, entries
<1>7. QED
  BY <1>1, <1>2, <1>4, <1>5, <1>6, EntriesAre DEF SetStatus

LEMMA SetFinalStatusType ==
  ASSUME NEW st \in SetStatus, NEW obj \in FlowSetObj, NEW got,
         \A i \in Entries(obj.spec) : got[i] \in Readings,
         NEW dep, dep # Absent => dep.status \in Reports
  PROVE  SetFinalStatus(st, obj, got, dep) \in SetStatus
<1> DEFINE o == SetOutcome(obj.spec, got)
<1>1. obj.spec \in FlowSetSpec /\ obj.gen \in Nat
  BY DEF FlowSetObj
<1>2. /\ o.reason \in {"Rendered", "InvalidSpec", "MissingDependency", "Error"}
      /\ o.flow \in Flows \cup {None} /\ o.about \in Deps \cup {None}
  BY <1>1, SetOutcomeType
<1>3. o.reason = "Rendered" => SetHash(obj.spec, got) \in SetHashes
  BY <1>1, SetHashType
<1>4. SetFinalStatus(st, obj, got, dep) =
        IF o.reason = "Rendered"
        THEN SetObservedStatus(st, obj.spec, obj.gen, SetHash(obj.spec, got), dep)
        ELSE SetRefusedStatus(st, obj.spec, obj.gen, o.reason, o.flow, o.about)
  BY DEF SetFinalStatus
<1> HIDE DEF o
<1>5. o.reason # "Rendered" =>
        SetRefusedStatus(st, obj.spec, obj.gen, o.reason, o.flow, o.about) \in SetStatus
  BY <1>1, <1>2, SetRefusedStatusType
<1>6. o.reason = "Rendered" =>
        SetObservedStatus(st, obj.spec, obj.gen, SetHash(obj.spec, got), dep) \in SetStatus
  BY <1>1, <1>3, SetObservedStatusType
<1>7. QED
  BY <1>4, <1>5, <1>6

(* The merged status, field by field.                                      *)
LEMMA SetMergedIs ==
  ASSUME NEW st \in SetStatus, NEW orig \in SetStatus, NEW upd \in SetStatus
  PROVE  /\ SetMerged(st, orig, upd) \in SetStatus
         /\ SetMerged(st, orig, upd) = orig => upd = orig
<1> DEFINE merged == SetMerged(st, orig, upd)
           Pick(field) == IF upd[field] = orig[field] THEN st[field] ELSE upd[field]
           fields == {"phase", "cond", "avail", "gen", "hash", "total", "ready", "flows"}
<1>1. DOMAIN st = fields /\ DOMAIN upd = fields
  BY DEF SetStatus
<1>2. merged = [field \in fields |-> Pick(field)]
  BY <1>1 DEF SetMerged
<1>3. [field \in fields |-> Pick(field)] =
        [phase |-> Pick("phase"), cond |-> Pick("cond"), avail |-> Pick("avail"),
         gen |-> Pick("gen"), hash |-> Pick("hash"), total |-> Pick("total"),
         ready |-> Pick("ready"), flows |-> Pick("flows")]
  OBVIOUS
<1>4. merged \in SetStatus
  <2>1. /\ Pick("phase") \in Phases /\ Pick("cond") \in SetConditions \cup {None}
        /\ Pick("avail") \in Nat /\ Pick("gen") \in Nat /\ Pick("hash") \in SetHashes \cup {None}
        /\ Pick("total") \in Nat /\ Pick("ready") \in Nat
        /\ Pick("flows") \in Seq([name : Flows, ready : BOOLEAN, phase : Phases, msg : SetMessages])
    BY DEF SetStatus
  <2> HIDE DEF Pick
  <2>2. QED
    BY <1>2, <1>3, <2>1 DEF SetStatus
<1>5. merged = orig => upd = orig
  <2> SUFFICES ASSUME merged = orig PROVE upd = orig
    OBVIOUS
  <2>1. \A field \in fields : upd[field] = orig[field]
    <3>1. \A field \in fields : orig[field] = Pick(field)
      BY <1>2
    <3>2. QED
      BY <3>1
  <2>2. /\ upd = [phase |-> upd.phase, cond |-> upd.cond, avail |-> upd.avail, gen |-> upd.gen,
                  hash |-> upd.hash, total |-> upd.total, ready |-> upd.ready, flows |-> upd.flows]
        /\ orig = [phase |-> orig.phase, cond |-> orig.cond, avail |-> orig.avail,
                   gen |-> orig.gen, hash |-> orig.hash, total |-> orig.total,
                   ready |-> orig.ready, flows |-> orig.flows]
    BY DEF SetStatus
  <2>3. QED
    BY <2>1, <2>2
<1>6. QED
  BY <1>4, <1>5
-----------------------------------------------------------------------------
(* Types.                                                                  *)
SetTypeInv == SetTypeOK /\ SetRenderableOK

(* The parts of the type invariant.                                        *)
SetObjOK(o) == o \in FlowSetObj /\ o.spec \in plan.specs \cup {plan.start}
SetObjectsOK == /\ plan \in Plans
                /\ set # Absent => SetObjOK(set)
                /\ cset # Absent => SetObjOK(cset)
SetStoreOK == /\ deps \in Stores
              /\ DOMAIN kids = Slots /\ \A s \in Slots : kids[s] \in KidObj(s) \cup {Absent}
              /\ report \in Reports
SetCachesOK == /\ cdeps \in Stores /\ cdeploy \in CachedDeploys \cup {Absent}
               /\ cmaps \in [MapSlots -> Nat \cup {Absent}]
SetRecOK == rec # None => /\ rec \in SetReconciles /\ SetObjOK(rec.orig)
                          /\ DOMAIN rec.got = Entries(rec.orig.spec)
                          /\ rec.next \in DOMAIN SetApplyOrder(rec.orig.spec)
SetQueuesOK == notes \subseteq Deps /\ queued \in BOOLEAN /\ used \in [Budgets -> Nat]

LEMMA SetTypeParts ==
  SetTypeOK <=> SetObjectsOK /\ SetStoreOK /\ SetCachesOK /\ SetRecOK /\ SetQueuesOK
BY DEF SetTypeOK, SetObjOK, SetObjectsOK, SetStoreOK, SetCachesOK, SetRecOK, SetQueuesOK

LEMMA SetTypePartsNext ==
  SetObjectsOK' /\ SetStoreOK' /\ SetCachesOK' /\ SetRecOK' /\ SetQueuesOK' => SetTypeOK'
BY DEF SetTypeOK, SetObjOK, SetObjectsOK, SetStoreOK, SetCachesOK, SetRecOK, SetQueuesOK

LEMMA SetSpecsAre ==
  ASSUME NEW p \in Plans, NEW s \in p.specs \cup {p.start}
  PROVE  s \in FlowSetSpec /\ DistinctNames(s.flows)
BY SetInputsAssumption

(* Every flow reads the same caches.                                       *)
LEMMA ForEveryIs ==
  ASSUME NEW spec \in FlowSetSpec, NEW d \in Readings
  PROVE  /\ DOMAIN ForEvery(spec, d) = Entries(spec)
         /\ \A i \in Entries(spec) : ForEvery(spec, d)[i] = d
         /\ ForEvery(spec, d) \in Seq(Readings)
<1>1. \A i \in Entries(spec) : ForEvery(spec, d)[i] = d
  BY DEF ForEvery
<1>2. ForEvery(spec, d) = [i \in Entries(spec) |-> ForEvery(spec, d)[i]]
  BY DEF ForEvery
<1>3. QED
  BY <1>1, <1>2, SeqOfEntries

LEMMA SetTypeInit == Init => SetTypeInv
<1> SUFFICES ASSUME Init PROVE SetTypeInv
  OBVIOUS
<1> DEFINE spec == plan.start
           got == ForEvery(spec, deps)
           obj == [uid |-> 0, spec |-> spec, gen |-> 1, status |-> NoSetStatus]
           status == SetFinalStatus(NoSetStatus, obj, got, cdeploy)
<1>1. plan \in Plans /\ deps \in Stores /\ deps = StartDeps /\ cdeps = deps
  BY SetInputsAssumption DEF Init
<1>2. spec \in FlowSetSpec /\ SetOutcome(spec, got).reason = "Rendered"
  BY <1>1, SetInputsAssumption
<1>3. \A i \in Entries(spec) : got[i] \in Readings
  BY <1>1, <1>2, ForEveryIs, StoresAreReadings
<1>4. \A s \in Slots : kids[s] = IF s \notin SetWanted(spec) THEN Absent
                                 ELSE [owner |-> 0, body |-> SetChild(s, spec, got)]
  BY DEF Init, SetWanted
<1>5. DOMAIN kids = Slots /\ report = RunningReport
  BY DEF Init
<1>6. \A s \in SetWanted(spec) : SetChild(s, spec, got) \in SetChildBody(s)
  BY <1>2, <1>3, SetRenderingType
<1> HIDE DEF spec, got
<1>7. \A s \in Slots : kids[s] \in KidObj(s) \cup {Absent}
  <2> SUFFICES ASSUME NEW s \in Slots, s \in SetWanted(spec) PROVE kids[s] \in KidObj(s)
    BY <1>4
  <2>1. kids[s] = [owner |-> 0, body |-> SetChild(s, spec, got)]
    BY <1>4
  <2>2. SetChild(s, spec, got) \in SetChildBody(s)
    BY <1>6
  <2>3. QED
    BY <2>1, <2>2 DEF KidObj
<1>8. report \in Reports
  BY <1>5 DEF Reports, RunningReport
<1>9. DeploySlot \in SetWanted(spec) /\ DeploySlot \in Slots
  BY SlotsAreDistinct DEF SetWanted
<1>10. kids[DeploySlot] \in KidObj(DeploySlot)
  <2>1. kids[DeploySlot] = [owner |-> 0, body |-> SetChild(DeploySlot, spec, got)]
    BY <1>4, <1>9
  <2>2. SetChild(DeploySlot, spec, got) \in SetChildBody(DeploySlot)
    BY <1>6, <1>9
  <2>3. QED
    BY <2>1, <2>2 DEF KidObj
<1>11. cdeploy \in CachedDeploys
  BY <1>8, <1>10 DEF Init, CachedDeploys
<1>12. obj \in FlowSetObj
  BY <1>2, NoSetStatusType DEF FlowSetObj
<1>13. status \in SetStatus
  <2>1. obj.spec = spec /\ cdeploy.status \in Reports
    BY <1>11 DEF CachedDeploys
  <2> HIDE DEF obj
  <2>2. QED
    BY <1>3, <1>12, <2>1, NoSetStatusType, SetFinalStatusType
<1>14. set = [obj EXCEPT !.status = status] /\ cset = set
  BY DEF Init, spec, got
<1>15. set \in FlowSetObj /\ set.spec = spec
  <2> HIDE DEF status
  <2>1. QED
    BY <1>12, <1>13, <1>14 DEF FlowSetObj
<1>16. cmaps \in [MapSlots -> Nat \cup {Absent}]
  <2>1. cmaps = [s \in MapSlots |-> Owner(s)]
    BY DEF Init
  <2>2. \A s \in MapSlots : Owner(s) \in Nat \cup {Absent}
    BY <1>7, SlotsAreDistinct DEF Owner, OwnerIn, KidObj
  <2>3. QED
    BY <2>1, <2>2
<1>17. notes = {} /\ queued = FALSE /\ rec = None /\ used \in [Budgets -> Nat]
  BY DEF Init
<1>18. SetObjectsOK
  BY <1>1, <1>14, <1>15 DEF SetObjectsOK, SetObjOK, spec
<1>19. SetStoreOK /\ SetCachesOK
  BY <1>1, <1>5, <1>7, <1>8, <1>11, <1>16 DEF SetStoreOK, SetCachesOK
<1>20. SetRecOK /\ SetQueuesOK /\ SetRenderableOK
  BY <1>17 DEF SetRecOK, SetQueuesOK, SetRenderableOK
<1>21. QED
  BY <1>18, <1>19, <1>20, SetTypeParts DEF SetTypeInv

LEMMA SpendType ==
  ASSUME SetQueuesOK, NEW what \in Budgets, Spend(what)
  PROVE  used' \in [Budgets -> Nat] /\ used'[what] = used[what] + 1
BY DEF SetQueuesOK, Spend

(* A child disappears.                                                     *)
LEMMA RemoveChildType ==
  ASSUME SetStoreOK, SetQueuesOK, NEW slot \in Slots, RemoveChild(slot)
  PROVE  /\ DOMAIN kids' = Slots /\ \A s \in Slots : kids'[s] \in KidObj(s) \cup {Absent}
         /\ kids'[slot] = Absent /\ \A s \in Slots \ {slot} : kids'[s] = kids[s]
         /\ report' \in Reports /\ queued' \in BOOLEAN /\ (queued => queued')
<1>1. kids' = [kids EXCEPT ![slot] = Absent]
  BY DEF RemoveChild
<1>2. report' \in Reports
  <2>1. NoReport \in Reports
    BY DEF NoReport, Reports
  <2>2. report' = NoReport \/ report' = report
    BY DEF RemoveChild
  <2>3. QED
    BY <2>1, <2>2 DEF SetStoreOK
<1>3. queued' \in BOOLEAN /\ (queued => queued')
  BY DEF RemoveChild, ChildEvent, SetQueuesOK
<1>4. QED
  BY <1>1, <1>2, <1>3 DEF SetStoreOK

LEMMA SetEditsTypes ==
  ASSUME SetTypeInv, UNCHANGED plan, Edit
  PROVE  SetTypeInv'
<1> USE DEF SetTypeInv
<1>1. SetObjectsOK /\ SetStoreOK /\ SetCachesOK /\ SetRecOK /\ SetQueuesOK
  BY SetTypeParts
<1>2. "edits" \in Budgets
  BY DEF Budgets
<1>3. used["edits"] \in Nat
  BY <1>1, <1>2 DEF SetQueuesOK
<1>4. CASE \E s \in plan.specs : SetCreate(s) \/ SetEdit(s)
  <2>1. PICK s \in plan.specs : SetCreate(s) \/ SetEdit(s)
    BY <1>4
  <2>2. s \in FlowSetSpec
    BY <1>1, SetSpecsAre DEF SetObjectsOK
  <2>3. Spend("edits") /\ UNCHANGED <<deps, kids, report, caches, notes, queued, rec, pod>>
    BY <2>1 DEF SetCreate, SetEdit
  <2>4. used' \in [Budgets -> Nat] /\ used'["edits"] \in Nat
    BY <1>1, <1>2, <1>3, <2>3, SpendType
  <2>5. set' \in FlowSetObj /\ set'.spec = s
    <3>1. CASE SetCreate(s)
      BY <2>2, <2>4, <3>1, NoSetStatusType DEF SetCreate, FlowSetObj
    <3>2. CASE SetEdit(s)
      <4>1. set # Absent /\ set' = [set EXCEPT !.spec = s, !.gen = @ + 1]
        BY <3>2 DEF SetEdit
      <4>2. set \in FlowSetObj
        BY <1>1, <4>1 DEF SetObjectsOK, SetObjOK
      <4>3. set.gen + 1 \in Nat /\ set.uid \in Nat /\ set.status \in SetStatus
        BY <4>2 DEF FlowSetObj
      <4>4. set' = [uid |-> set.uid, spec |-> s, gen |-> set.gen + 1, status |-> set.status]
        BY <4>1, <4>2 DEF FlowSetObj
      <4>5. QED
        BY <2>2, <4>3, <4>4 DEF FlowSetObj
    <3>3. QED
      BY <2>1, <3>1, <3>2
  <2>6. SetObjectsOK'
    BY <1>1, <2>3, <2>5 DEF SetObjectsOK, SetObjOK, caches
  <2>7. SetStoreOK' /\ SetCachesOK' /\ SetRecOK' /\ SetQueuesOK' /\ SetRenderableOK'
    BY <1>1, <2>3, <2>4
    DEF SetStoreOK, SetCachesOK, SetRecOK, SetQueuesOK, SetObjOK, SetRenderableOK, caches
  <2>8. QED
    BY <2>6, <2>7, SetTypePartsNext
<1>5. CASE SetDelete
  <2>1. set' = Absent /\ Spend("edits") /\ UNCHANGED <<deps, kids, report, caches, notes, queued, rec, pod>>
    BY <1>5 DEF SetDelete
  <2>2. used' \in [Budgets -> Nat]
    BY <1>1, <1>2, <2>1, SpendType
  <2>3. SetObjectsOK'
    BY <1>1, <2>1 DEF SetObjectsOK, SetObjOK, caches
  <2>4. SetStoreOK' /\ SetCachesOK' /\ SetRecOK' /\ SetQueuesOK' /\ SetRenderableOK'
    BY <1>1, <2>1, <2>2
    DEF SetStoreOK, SetCachesOK, SetRecOK, SetQueuesOK, SetObjOK, SetRenderableOK, caches
  <2>5. QED
    BY <2>3, <2>4, SetTypePartsNext
<1>6. CASE \E o \in Deps : \E v \in DepValues[o] \cup {Absent} : DepWrite(o, v)
  <2> PICK o \in Deps : \E v \in DepValues[o] \cup {Absent} : DepWrite(o, v)
    BY <1>6
  <2>1. PICK v \in DepValues[o] \cup {Absent} : DepWrite(o, v)
    OBVIOUS
  <2>2. /\ deps' = [deps EXCEPT ![o] = v] /\ Spend("edits")
        /\ UNCHANGED <<set, kids, report, caches, notes, queued, rec, pod>>
    BY <2>1 DEF DepWrite
  <2>3. used' \in [Budgets -> Nat]
    BY <1>1, <1>2, <2>2, SpendType
  <2>4. deps' \in Stores
    <3>1. v \in DepObj(o) \cup {Absent}
      BY SetInputsAssumption
    <3>2. DepObj(o) \subseteq Objects
      BY DEF DepObj, Objects, RefTargets
    <3>3. QED
      BY <1>1, <2>2, <3>1, <3>2 DEF SetStoreOK, Stores
  <2>5. SetObjectsOK'
    BY <1>1, <2>2 DEF SetObjectsOK, SetObjOK, caches
  <2>6. SetStoreOK' /\ SetCachesOK' /\ SetRecOK' /\ SetQueuesOK' /\ SetRenderableOK'
    BY <1>1, <2>2, <2>3, <2>4
    DEF SetStoreOK, SetCachesOK, SetRecOK, SetQueuesOK, SetObjOK, SetRenderableOK, caches
  <2>7. QED
    BY <2>5, <2>6, SetTypePartsNext
<1>7. CASE \E s \in Slots : ChildDelete(s)
  <2>1. PICK s \in Slots : ChildDelete(s)
    BY <1>7
  <2>2. Spend("edits") /\ RemoveChild(s) /\ UNCHANGED <<set, deps, caches, notes, rec>>
    BY <2>1 DEF ChildDelete
  <2>3. used' \in [Budgets -> Nat]
    BY <1>1, <1>2, <2>2, SpendType
  <2>4. SetObjectsOK'
    BY <1>1, <2>2 DEF SetObjectsOK, SetObjOK, caches
  <2>5. SetStoreOK' /\ queued' \in BOOLEAN
    BY <1>1, <2>2, RemoveChildType DEF SetStoreOK
  <2>6. SetCachesOK' /\ SetRecOK' /\ SetQueuesOK' /\ SetRenderableOK'
    BY <1>1, <2>2, <2>3, <2>5
    DEF SetCachesOK, SetRecOK, SetQueuesOK, SetObjOK, SetRenderableOK, caches
  <2>7. QED
    BY <2>4, <2>5, <2>6, SetTypePartsNext
<1>8. QED
  BY <1>4, <1>5, <1>6, <1>7 DEF Edit
(* The cluster, the informers and the mappers.                             *)
LEMMA SetOutsideTypes ==
  ASSUME SetTypeInv, UNCHANGED plan, Cluster \/ ReportAny \/ Inform \/ HandleAny
  PROVE  SetTypeInv'
<1> USE DEF SetTypeInv
<1>1. SetObjectsOK /\ SetStoreOK /\ SetCachesOK /\ SetRecOK /\ SetQueuesOK
  BY SetTypeParts
<1>2. CASE \E s \in Slots : GarbageCollect(s)
  <2>1. PICK s \in Slots : GarbageCollect(s)
    BY <1>2
  <2>2. RemoveChild(s) /\ UNCHANGED <<set, deps, caches, notes, rec, used>>
    BY <2>1 DEF GarbageCollect
  <2>3. SetObjectsOK'
    BY <1>1, <2>2 DEF SetObjectsOK, SetObjOK, caches
  <2>4. SetStoreOK' /\ queued' \in BOOLEAN
    BY <1>1, <2>2, RemoveChildType DEF SetStoreOK
  <2>5. SetCachesOK' /\ SetRecOK' /\ SetQueuesOK' /\ SetRenderableOK'
    BY <1>1, <2>2, <2>4
    DEF SetCachesOK, SetRecOK, SetQueuesOK, SetObjOK, SetRenderableOK, caches
  <2>6. QED
    BY <2>3, <2>4, <2>5, SetTypePartsNext
<1>3. CASE \E r \in Reports : ReportReplicas(r)
  <2>1. PICK r \in Reports : ReportReplicas(r)
    BY <1>3
  <2>2. report' = r /\ UNCHANGED <<set, deps, kids, caches, notes, queued, rec, pod>>
    BY <2>1 DEF ReportReplicas
  <2>3. used' \in [Budgets -> Nat]
    BY <1>1, <2>1, SpendType DEF ReportReplicas, Budgets, SetQueuesOK
  <2>4. SetObjectsOK' /\ SetStoreOK'
    BY <1>1, <2>2 DEF SetObjectsOK, SetStoreOK, SetObjOK, caches
  <2>5. SetCachesOK' /\ SetRecOK' /\ SetQueuesOK' /\ SetRenderableOK'
    BY <1>1, <2>2, <2>3
    DEF SetCachesOK, SetRecOK, SetQueuesOK, SetObjOK, SetRenderableOK, caches
  <2>6. QED
    BY <2>4, <2>5, SetTypePartsNext
<1>4. CASE PodStart
  <2>1. Spend("podStarts") /\ UNCHANGED <<store, caches, notes, queued, rec>>
    BY <1>4 DEF PodStart
  <2>2. used' \in [Budgets -> Nat]
    BY <1>1, <2>1, SpendType DEF Budgets
  <2>3. SetObjectsOK' /\ SetStoreOK'
    BY <1>1, <2>1 DEF SetObjectsOK, SetStoreOK, SetObjOK, caches, store
  <2>4. SetCachesOK' /\ SetRecOK' /\ SetQueuesOK' /\ SetRenderableOK'
    BY <1>1, <2>1, <2>2
    DEF SetCachesOK, SetRecOK, SetQueuesOK, SetObjOK, SetRenderableOK, caches
  <2>5. QED
    BY <2>3, <2>4, SetTypePartsNext
<1>5. CASE Inform
  <2>1. UNCHANGED <<store, rec, used>>
    BY <1>5 DEF Inform, InformSet, InformDeploy, InformDep, InformMap
  <2>2. set' = set /\ (cset' = cset \/ cset' = set)
    BY <1>5, <2>1 DEF Inform, InformSet, InformDeploy, InformDep, InformMap, store
  <2>3. SetObjectsOK' /\ SetStoreOK' /\ SetRecOK' /\ SetRenderableOK'
    BY <1>1, <2>1, <2>2
    DEF SetObjectsOK, SetStoreOK, SetRecOK, SetRenderableOK, SetObjOK, store
  <2>4. SetQueuesOK'
    BY <1>1, <1>5, <2>1
    DEF SetQueuesOK, Inform, InformSet, InformDeploy, InformDep, InformMap
  <2>5. cdeps' \in Stores
    <3>1. cdeps' = cdeps \/ \E o \in Deps : cdeps' = [cdeps EXCEPT ![o] = deps[o]]
      BY <1>5 DEF Inform, InformSet, InformDeploy, InformDep, InformMap
    <3>2. ASSUME NEW o \in Deps, cdeps' = [cdeps EXCEPT ![o] = deps[o]] PROVE cdeps' \in Stores
      BY <1>1, <3>2 DEF SetStoreOK, SetCachesOK, Stores
    <3>3. QED
      BY <1>1, <3>1, <3>2 DEF SetCachesOK
  <2>6. cmaps' \in [MapSlots -> Nat \cup {Absent}]
    <3>1. cmaps' = cmaps \/ \E s \in MapSlots : cmaps' = [cmaps EXCEPT ![s] = Owner(s)]
      BY <1>5 DEF Inform, InformSet, InformDeploy, InformDep, InformMap
    <3>2. \A s \in MapSlots : Owner(s) \in Nat \cup {Absent}
      BY <1>1, SlotsAreDistinct DEF Owner, OwnerIn, KidObj, SetStoreOK
    <3>3. QED
      BY <1>1, <3>1, <3>2 DEF SetCachesOK
  <2>7. cdeploy' \in CachedDeploys \cup {Absent}
    <3>1. cdeploy' = cdeploy \/ cdeploy' = DeployOf
      BY <1>5 DEF Inform, InformSet, InformDeploy, InformDep, InformMap
    <3>2. DeployOf \in CachedDeploys \cup {Absent}
      BY <1>1, SlotsAreDistinct DEF DeployOf, DeployIn, CachedDeploys, SetStoreOK
    <3>3. QED
      BY <1>1, <3>1, <3>2 DEF SetCachesOK
  <2>8. SetCachesOK'
    BY <2>5, <2>6, <2>7 DEF SetCachesOK
  <2>9. QED
    BY <2>3, <2>4, <2>8, SetTypePartsNext
<1>6. CASE HandleAny
  <2>1. PICK n \in notes : Handle(n)
    BY <1>6 DEF HandleAny
  <2>2. /\ UNCHANGED <<store, caches, rec, used>> /\ notes' = notes \ {n}
        /\ queued' = (queued \/ (cset # Absent /\ WakesSet(n, cset.spec, cdeps)))
    BY <2>1 DEF Handle
  <2>3. SetObjectsOK' /\ SetStoreOK' /\ SetRecOK' /\ SetRenderableOK' /\ SetCachesOK'
    BY <1>1, <2>2
    DEF SetObjectsOK, SetStoreOK, SetRecOK, SetRenderableOK, SetCachesOK, SetObjOK, store, caches
  <2>4. SetQueuesOK'
    BY <1>1, <2>2 DEF SetQueuesOK
  <2>5. QED
    BY <2>3, <2>4, SetTypePartsNext
<1>7. QED
  <2>1. ASSUME Cluster PROVE SetTypeInv'
    <3>1. [report EXCEPT !.observed = TRUE] \in Reports
      BY <1>1 DEF SetStoreOK, Reports
    <3>2. QED
      BY <1>2, <1>3, <1>4, <2>1, <3>1 DEF Cluster
  <2>2. ASSUME ReportAny PROVE SetTypeInv'
    <3>1. \A a, u \in 0..1 : [observed |-> TRUE, avail |-> a, unavail |-> u] \in Reports
      BY DEF Reports
    <3>2. QED
      BY <1>3, <2>2, <3>1 DEF ReportAny
  <2>3. QED
    BY <1>5, <1>6, <2>1, <2>2
(* The next dependency to read.                                            *)
LEMMA NextRead ==
  ASSUME NEW spec \in FlowSetSpec, NEW got, \A i \in Entries(spec) : got[i] \in Readings,
         Unresolved(spec, got) # {}
  PROVE  LET i == Current(spec, got)
             reads == ToRead(spec.flows[i], got[i])
         IN  /\ i \in Entries(spec) /\ i \in Unresolved(spec, got)
             /\ \A j \in Unresolved(spec, got) : i <= j
             /\ reads \in SUBSET (Nat \X Deps)
             /\ ~FlowRefused(spec.flows[i], got[i]) =>
                  /\ reads # {} /\ First(reads) \in Deps
                  /\ \E g \in reads : First(reads) = g[2] /\ \A h \in reads : g[1] <= h[1]
<1> DEFINE i == Current(spec, got)
           reads == ToRead(spec.flows[i], got[i])
<1>1. Unresolved(spec, got) \in SUBSET Nat
  BY FlowOfSet DEF Unresolved
<1>2. i \in Unresolved(spec, got) /\ \A j \in Unresolved(spec, got) : i <= j
  BY <1>1, LeastIsOne DEF Current
<1>3. i \in Entries(spec)
  BY <1>2 DEF Unresolved
<1> HIDE DEF i
<1>4. reads \in SUBSET (Nat \X Deps)
  BY <1>3, FlowOfSet, AsFlowIsTheFlow, GetsType DEF ToRead
<1>5. ~FlowRefused(spec.flows[i], got[i]) => reads # {}
  BY <1>2 DEF Unresolved
<1> HIDE DEF reads
<1>6. ASSUME reads # {}
      PROVE  /\ First(reads) \in Deps
             /\ \E g \in reads : First(reads) = g[2] /\ \A h \in reads : g[1] <= h[1]
  <2>1. PICK g \in reads : First(reads) = g[2] /\ \A h \in reads : g[1] <= h[1]
    BY <1>4, <1>6, FirstIsOneOfThem
  <2>2. First(reads) \in Deps
    BY <1>4, <2>1
  <2>3. QED
    BY <2>1, <2>2
<1>7. QED
  BY <1>2, <1>3, <1>4, <1>5, <1>6 DEF i, reads

LEMMA RecParts ==
  ASSUME SetRecOK, rec # None
  PROVE  /\ rec \in SetReconciles /\ rec.orig \in FlowSetObj /\ rec.orig.spec \in FlowSetSpec
         /\ rec.orig.gen \in Nat /\ rec.orig.uid \in Nat /\ rec.orig.status \in SetStatus
         /\ rec.upd \in SetStatus /\ rec.orphans \in SUBSET MapSlots /\ rec.got \in Seq(Readings)
         /\ rec.pc \in {"resolve", "apply", "list", "collect", "patch"} /\ rec.next \in Nat
         /\ DOMAIN rec.got = Entries(rec.orig.spec)
         /\ \A i \in Entries(rec.orig.spec) : rec.got[i] \in Readings
         /\ rec.next \in DOMAIN SetApplyOrder(rec.orig.spec)
         /\ rec = [orig |-> rec.orig, pc |-> rec.pc, next |-> rec.next,
                   orphans |-> rec.orphans, got |-> rec.got, upd |-> rec.upd]
<1>1. rec \in SetReconciles /\ rec.orig \in FlowSetObj
  BY DEF SetRecOK, SetObjOK
<1>2. rec.orig.spec \in FlowSetSpec /\ rec.orig.gen \in Nat /\ rec.orig.uid \in Nat
      /\ rec.orig.status \in SetStatus
  BY <1>1 DEF FlowSetObj
<1>3. rec.upd \in SetStatus /\ rec.orphans \in SUBSET MapSlots /\ rec.got \in Seq(Readings)
      /\ rec.pc \in {"resolve", "apply", "list", "collect", "patch"} /\ rec.next \in Nat
  BY <1>1 DEF SetReconciles
<1>4. DOMAIN rec.got = Entries(rec.orig.spec) /\ rec.next \in DOMAIN SetApplyOrder(rec.orig.spec)
  BY DEF SetRecOK
<1>5. \A i \in Entries(rec.orig.spec) : rec.got[i] \in Readings
  BY <1>3, <1>4
<1>6. rec = [orig |-> rec.orig, pc |-> rec.pc, next |-> rec.next,
             orphans |-> rec.orphans, got |-> rec.got, upd |-> rec.upd]
  BY <1>1 DEF SetReconciles
<1>7. QED
  BY <1>1, <1>2, <1>3, <1>4, <1>5, <1>6

(* A reconcile that does one more step, with the same copy of the set.     *)
LEMMA RecStepType ==
  ASSUME SetRecOK, rec # None, UNCHANGED plan,
         NEW pc \in {"resolve", "apply", "list", "collect", "patch"},
         NEW next \in DOMAIN SetApplyOrder(rec.orig.spec), NEW orphans \in SUBSET MapSlots,
         NEW got \in Seq(Readings), DOMAIN got = Entries(rec.orig.spec), NEW upd \in SetStatus,
         rec' = [orig |-> rec.orig, pc |-> pc, next |-> next, orphans |-> orphans,
                 got |-> got, upd |-> upd]
  PROVE  SetRecOK'
<1>1. next \in Nat
  BY RecParts, EverythingIsSent
<1>2. rec' \in SetReconciles
  BY <1>1, RecParts DEF SetReconciles
<1>3. rec'.orig = rec.orig /\ rec'.got = got /\ rec'.next = next
  OBVIOUS
<1>4. QED
  BY <1>2, <1>3 DEF SetRecOK, SetObjOK

LEMMA SetAppliedType ==
  ASSUME SetStoreOK, SetRecOK, SetRenderableOK, SetQueuesOK, At("apply"), SetApplied,
         UNCHANGED deps
  PROVE  /\ SetStoreOK' /\ queued' \in BOOLEAN
         /\ Slot \in SetWanted(rec.orig.spec) /\ Slot \in Slots
         /\ kids' = [kids EXCEPT ![Slot] =
                       [owner |-> rec.orig.uid, body |-> SetChild(Slot, rec.orig.spec, rec.got)]]
<1> DEFINE new == [owner |-> rec.orig.uid, body |-> SetChild(Slot, rec.orig.spec, rec.got)]
<1>1. rec # None /\ rec.pc = "apply"
  BY DEF At
<1>2. Slot \in SetWanted(rec.orig.spec) /\ Slot \in Slots
  BY <1>1, RecParts, EverythingIsSent, WantedSlots DEF Slot
<1>3. SetChild(Slot, rec.orig.spec, rec.got) \in SetChildBody(Slot)
  BY <1>1, <1>2, RecParts, SetRenderingType DEF SetRenderableOK
<1>4. kids' = [kids EXCEPT ![Slot] = new]
  BY DEF SetApplied
<1>5. new \in KidObj(Slot)
  BY <1>1, <1>3, RecParts DEF KidObj
<1>6. report' \in Reports
  <2>1. NoReport \in Reports /\ [report EXCEPT !.observed = FALSE] \in Reports
    BY DEF NoReport, Reports, SetStoreOK
  <2>2. report' \in {NoReport, [report EXCEPT !.observed = FALSE], report}
    BY DEF SetApplied
  <2>3. QED
    BY <2>1, <2>2 DEF SetStoreOK
<1>7. queued' \in BOOLEAN
  BY DEF SetApplied, ChildEvent, SetQueuesOK
<1> HIDE DEF new
<1>8. DOMAIN kids' = Slots /\ \A s \in Slots : kids'[s] \in KidObj(s) \cup {Absent}
  BY <1>2, <1>4, <1>5 DEF SetStoreOK
<1>9. QED
  BY <1>2, <1>4, <1>6, <1>7, <1>8 DEF SetStoreOK, new

LEMMA SetStartType ==
  ASSUME SetTypeInv, UNCHANGED plan, Start
  PROVE  SetTypeInv'
<1> USE DEF SetTypeInv
<1>1. SetObjectsOK /\ SetStoreOK /\ SetCachesOK /\ SetRecOK /\ SetQueuesOK
  BY SetTypeParts
<1>2. queued' = FALSE /\ UNCHANGED <<store, caches, notes, pod, used>>
  BY DEF Start
<1>3. SetObjectsOK' /\ SetStoreOK' /\ SetCachesOK' /\ SetQueuesOK'
  BY <1>1, <1>2
  DEF SetObjectsOK, SetStoreOK, SetCachesOK, SetQueuesOK, SetObjOK, store, caches
<1>4. SetRecOK' /\ SetRenderableOK'
  <2>1. CASE cset = Absent
    BY <2>1 DEF Start, SetRecOK, SetRenderableOK
  <2>2. CASE cset # Absent
    <3> DEFINE got == ForEvery(cset.spec, [o \in Deps |-> Unread])
    <3>1. SetObjOK(cset) /\ cset.spec \in FlowSetSpec /\ cset.status \in SetStatus
      BY <1>1, <2>2 DEF SetObjectsOK, SetObjOK, FlowSetObj
    <3>2. rec' = [orig |-> cset, pc |-> "resolve", next |-> 1, orphans |-> {},
                  got |-> got, upd |-> cset.status]
      BY <2>2 DEF Start
    <3>3. got \in Seq(Readings) /\ DOMAIN got = Entries(cset.spec)
      <4>1. [o \in Deps |-> Unread] \in Readings
        BY DEF Readings
      <4>2. QED
        BY <3>1, <4>1, ForEveryIs
    <3>4. 1 \in DOMAIN SetApplyOrder(cset.spec)
      BY <3>1, EverythingIsSent
    <3> HIDE DEF got
    <3>5. rec' \in SetReconciles
      BY <3>1, <3>2, <3>3 DEF SetReconciles, SetObjOK
    <3>6. /\ rec'.orig = cset /\ rec'.got = got /\ rec'.next = 1 /\ rec'.pc = "resolve"
      BY <3>2
    <3>7. QED
      BY <3>1, <3>3, <3>4, <3>5, <3>6 DEF SetRecOK, SetRenderableOK, SetObjOK
  <2>3. QED
    BY <2>1, <2>2
<1>5. QED
  BY <1>3, <1>4, SetTypePartsNext
(* The steps of a reconcile that read, render, list and observe.           *)
LEMMA SetThinkingTypes ==
  ASSUME SetTypeInv, UNCHANGED plan, ReadDep \/ Render \/ ListOrphans \/ ObserveDeploy
  PROVE  SetTypeInv'
<1> USE DEF SetTypeInv
<1>1. SetObjectsOK /\ SetStoreOK /\ SetCachesOK /\ SetRecOK /\ SetQueuesOK
  BY SetTypeParts
<1>2. UNCHANGED <<store, caches, notes, queued, pod, used>> /\ rec # None
  BY DEF ReadDep, Render, ListOrphans, ObserveDeploy, At
<1>3. SetObjectsOK' /\ SetStoreOK' /\ SetCachesOK' /\ SetQueuesOK'
  BY <1>1, <1>2
  DEF SetObjectsOK, SetStoreOK, SetCachesOK, SetQueuesOK, SetObjOK, store, caches
<1> DEFINE spec == rec.orig.spec
<1>4. /\ spec \in FlowSetSpec /\ rec.orig.gen \in Nat /\ rec.orig.uid \in Nat
      /\ rec.upd \in SetStatus /\ rec.orphans \in SUBSET MapSlots /\ rec.got \in Seq(Readings)
      /\ DOMAIN rec.got = Entries(spec) /\ \A i \in Entries(spec) : rec.got[i] \in Readings
      /\ rec.next \in DOMAIN SetApplyOrder(spec)
      /\ rec = [orig |-> rec.orig, pc |-> rec.pc, next |-> rec.next,
                orphans |-> rec.orphans, got |-> rec.got, upd |-> rec.upd]
  BY <1>1, <1>2, RecParts
<1>5. CASE ReadDep
  <2> DEFINE i == Current(spec, rec.got)
             o == First(ToRead(spec.flows[i], rec.got[i]))
             got == [rec.got EXCEPT ![i][o] = cdeps[o]]
  <2>1. /\ rec.pc = "resolve" /\ Unresolved(spec, rec.got) # {}
        /\ ~FlowRefused(spec.flows[i], rec.got[i])
        /\ rec' = [rec EXCEPT !.got[i][o] = cdeps[o]]
    BY <1>5 DEF ReadDep, At, Reading
  <2>2. i \in Entries(spec) /\ o \in Deps
    BY <1>4, <2>1, NextRead
  <2> HIDE DEF i, o
  <2>3. rec' = [orig |-> rec.orig, pc |-> "resolve", next |-> rec.next,
                orphans |-> rec.orphans, got |-> got, upd |-> rec.upd]
    BY <1>4, <2>1
  <2>4. [rec.got[i] EXCEPT ![o] = cdeps[o]] \in Readings
    <3>1. rec.got[i] \in Readings
      BY <1>4, <2>2
    <3>2. cdeps[o] \in DepObj(o) \cup {Absent} /\ cdeps[o] \in Objects \cup {Absent}
      BY <1>1, <2>2 DEF SetCachesOK, Stores
    <3>3. QED
      BY <2>2, <3>1, <3>2 DEF Readings
  <2>5. DOMAIN got = Entries(spec) /\ \A j \in Entries(spec) : got[j] \in Readings
    BY <1>4, <2>2, <2>4
  <2>6. got \in Seq(Readings)
    <3>1. got = [j \in Entries(spec) |-> got[j]]
      BY <1>4
    <3>2. QED
      BY <1>4, <2>5, <3>1, SeqOfEntries
  <2> HIDE DEF got
  <2>7. SetRecOK'
    BY <1>1, <1>2, <1>4, <2>3, <2>5, <2>6, RecStepType
  <2>8. SetRenderableOK'
    BY <2>3 DEF SetRenderableOK
  <2>9. QED
    BY <1>3, <2>7, <2>8, SetTypePartsNext
<1>6. CASE Render
  <2> DEFINE o == SetOutcome(spec, rec.got)
             upd == SetRefusedStatus(rec.upd, spec, rec.orig.gen, o.reason, o.flow, o.about)
  <2>1. rec' = IF o.reason = "Rendered" THEN [rec EXCEPT !.pc = "apply"]
               ELSE [rec EXCEPT !.pc = "patch", !.upd = upd]
    BY <1>6 DEF Render
  <2>2. /\ o.reason \in {"Rendered", "InvalidSpec", "MissingDependency", "Error"}
        /\ o.flow \in Flows \cup {None} /\ o.about \in Deps \cup {None}
    BY <1>4, SetOutcomeType
  <2>3. o.reason # "Rendered" => upd \in SetStatus
    <3> HIDE DEF o
    <3>1. QED
      BY <1>4, <2>2, SetRefusedStatusType
  <2> HIDE DEF upd
  <2>4. CASE o.reason = "Rendered"
    <3>1. rec' = [orig |-> rec.orig, pc |-> "apply", next |-> rec.next,
                  orphans |-> rec.orphans, got |-> rec.got, upd |-> rec.upd]
      BY <1>4, <2>1, <2>4
    <3>2. SetRecOK'
      BY <1>1, <1>2, <1>4, <3>1, RecStepType
    <3>3. SetRenderableOK'
      BY <2>4, <3>1 DEF SetRenderableOK
    <3>4. QED
      BY <1>3, <3>2, <3>3, SetTypePartsNext
  <2>5. CASE o.reason # "Rendered"
    <3>1. rec' = [orig |-> rec.orig, pc |-> "patch", next |-> rec.next,
                  orphans |-> rec.orphans, got |-> rec.got, upd |-> upd]
      BY <1>4, <2>1, <2>5
    <3>2. SetRecOK'
      BY <1>1, <1>2, <1>4, <2>3, <2>5, <3>1, RecStepType
    <3>3. SetRenderableOK'
      BY <3>1 DEF SetRenderableOK
    <3>4. QED
      BY <1>3, <3>2, <3>3, SetTypePartsNext
  <2>6. QED
    BY <2>4, <2>5
<1>7. CASE ListOrphans
  <2> DEFINE orphans == {s \in MapSlots \ WantedMaps(spec) : cmaps[s] = rec.orig.uid}
  <2>1. rec.pc = "list" /\ rec' = [rec EXCEPT !.pc = "collect", !.orphans = orphans]
    BY <1>7 DEF ListOrphans, At
  <2>2. orphans \in SUBSET MapSlots
    OBVIOUS
  <2> HIDE DEF orphans
  <2>3. rec' = [orig |-> rec.orig, pc |-> "collect", next |-> rec.next,
                orphans |-> orphans, got |-> rec.got, upd |-> rec.upd]
    BY <1>4, <2>1
  <2>4. SetRecOK'
    BY <1>1, <1>2, <1>4, <2>2, <2>3, RecStepType
  <2>5. SetRenderableOK'
    BY <1>2, <2>1, <2>3 DEF SetRenderableOK
  <2>6. QED
    BY <1>3, <2>4, <2>5, SetTypePartsNext
<1>8. CASE ObserveDeploy
  <2> DEFINE upd == SetObservedStatus(rec.upd, spec, rec.orig.gen, SetHash(spec, rec.got), cdeploy)
  <2>1. rec.pc = "collect" /\ rec' = [rec EXCEPT !.pc = "patch", !.upd = upd]
    BY <1>8 DEF ObserveDeploy, At
  <2>2. upd \in SetStatus
    <3>1. SetHash(spec, rec.got) \in SetHashes
      BY <1>2, <1>4, <2>1, SetHashType DEF SetRenderableOK
    <3>2. cdeploy # Absent => cdeploy.status \in Reports
      BY <1>1 DEF SetCachesOK, CachedDeploys
    <3>3. QED
      BY <1>4, <3>1, <3>2, SetObservedStatusType
  <2> HIDE DEF upd
  <2>3. rec' = [orig |-> rec.orig, pc |-> "patch", next |-> rec.next,
                orphans |-> rec.orphans, got |-> rec.got, upd |-> upd]
    BY <1>4, <2>1
  <2>4. SetRecOK'
    BY <1>1, <1>2, <1>4, <2>2, <2>3, RecStepType
  <2>5. SetRenderableOK'
    BY <2>3 DEF SetRenderableOK
  <2>6. QED
    BY <1>3, <2>4, <2>5, SetTypePartsNext
<1>9. QED
  BY <1>5, <1>6, <1>7, <1>8
LEMMA PartsOfASlot ==
  ASSUME NEW s \in Slots
  PROVE  s[1] \in Flows \cup {None} /\ s[2] \in {t[2] : t \in Slots}
<1>1. \/ s \in {ManifestSlot, ServiceSlot, DeploySlot}
      \/ \E f \in Flows, k \in {"prompts", "tools", "config"} : s = <<f, k>>
  BY SlotsAreDistinct DEF Slots
<1>2. s[1] \in Flows \cup {None}
  BY <1>1 DEF ManifestSlot, ServiceSlot, DeploySlot
<1>3. QED
  BY <1>2

(* The steps of a reconcile that write.                                    *)
LEMMA SetApplyTypes ==
  ASSUME SetTypeInv, UNCHANGED plan, ApplyChild \/ ApplyFails
  PROVE  SetTypeInv'
<1> USE DEF SetTypeInv
<1>1. SetObjectsOK /\ SetStoreOK /\ SetCachesOK /\ SetRecOK /\ SetQueuesOK
  BY SetTypeParts
<1> DEFINE spec == rec.orig.spec
<1>2. /\ UNCHANGED <<set, deps, caches, notes, pod>> /\ rec # None /\ rec.pc = "apply"
      /\ At("apply")
  BY DEF ApplyChild, ApplyFails, At
<1>3. SetObjectsOK' /\ SetCachesOK'
  BY <1>1, <1>2 DEF SetObjectsOK, SetCachesOK, SetObjOK, caches
<1>4. /\ spec \in FlowSetSpec /\ rec.orig.gen \in Nat /\ rec.orig.uid \in Nat
      /\ rec.upd \in SetStatus /\ rec.orphans \in SUBSET MapSlots /\ rec.got \in Seq(Readings)
      /\ DOMAIN rec.got = Entries(spec) /\ \A i \in Entries(spec) : rec.got[i] \in Readings
      /\ rec.next \in DOMAIN SetApplyOrder(spec) /\ rec.next \in Nat
      /\ rec = [orig |-> rec.orig, pc |-> rec.pc, next |-> rec.next,
                orphans |-> rec.orphans, got |-> rec.got, upd |-> rec.upd]
  BY <1>1, <1>2, RecParts
<1>5. Len(SetApplyOrder(spec)) \in Nat /\ DOMAIN SetApplyOrder(spec) = 1..Len(SetApplyOrder(spec))
  BY <1>4, EverythingIsSent
<1>6. SetApplied => SetStoreOK' /\ queued' \in BOOLEAN
  BY <1>1, <1>2, SetAppliedType
<1>7. CASE ApplyChild
  <2>1. SetStoreOK' /\ SetQueuesOK'
    BY <1>1, <1>2, <1>6, <1>7 DEF ApplyChild, SetQueuesOK
  <2>2. SetRecOK' /\ SetRenderableOK'
    <3>1. CASE rec.next = Len(SetApplyOrder(spec))
      <4>1. rec' = [orig |-> rec.orig, pc |-> "list", next |-> rec.next,
                    orphans |-> rec.orphans, got |-> rec.got, upd |-> rec.upd]
        BY <1>4, <1>7, <3>1 DEF ApplyChild
      <4>2. SetRecOK'
        BY <1>1, <1>2, <1>4, <4>1, RecStepType
      <4>3. SetRenderableOK'
        BY <1>2, <4>1 DEF SetRenderableOK
      <4>4. QED
        BY <4>2, <4>3
    <3>2. CASE rec.next # Len(SetApplyOrder(spec))
      <4>1. rec' = [orig |-> rec.orig, pc |-> "apply", next |-> rec.next + 1,
                    orphans |-> rec.orphans, got |-> rec.got, upd |-> rec.upd]
        BY <1>2, <1>4, <1>7, <3>2 DEF ApplyChild
      <4>2. rec.next + 1 \in DOMAIN SetApplyOrder(spec)
        BY <1>4, <1>5, <3>2
      <4>3. SetRecOK'
        BY <1>1, <1>2, <1>4, <4>1, <4>2, RecStepType
      <4>4. SetRenderableOK'
        BY <1>2, <4>1 DEF SetRenderableOK
      <4>5. QED
        BY <4>3, <4>4
    <3>3. QED
      BY <3>1, <3>2
  <2>3. QED
    BY <1>3, <2>1, <2>2, SetTypePartsNext
<1>8. CASE ApplyFails
  <2> DEFINE upd == SetRefusedStatus(rec.upd, spec, rec.orig.gen, "Error", Slot[1], Slot[2])
  <2>1. /\ rec' = [rec EXCEPT !.pc = "patch", !.upd = upd] /\ Spend("faults")
        /\ SetApplied \/ UNCHANGED <<kids, report, queued>>
    BY <1>8 DEF ApplyFails, Fault
  <2>2. Slot[1] \in Flows \cup {None} /\ Slot[2] \in {s[2] : s \in Slots}
    <3>1. Slot \in Slots
      BY <1>4, EverythingIsSent, WantedSlots DEF Slot
    <3>2. QED
      BY <3>1, PartsOfASlot
  <2>3. upd \in SetStatus
    BY <1>4, <2>2, SetRefusedStatusType
  <2> HIDE DEF upd
  <2>4. rec' = [orig |-> rec.orig, pc |-> "patch", next |-> rec.next,
                orphans |-> rec.orphans, got |-> rec.got, upd |-> upd]
    BY <1>4, <2>1
  <2>5. SetRecOK' /\ SetRenderableOK'
    <3>1. SetRecOK'
      BY <1>1, <1>2, <1>4, <2>3, <2>4, RecStepType
    <3>2. SetRenderableOK'
      BY <2>4 DEF SetRenderableOK
    <3>3. QED
      BY <3>1, <3>2
  <2>6. SetStoreOK' /\ queued' \in BOOLEAN
    BY <1>1, <1>2, <1>6, <2>1 DEF SetStoreOK, SetQueuesOK
  <2>7. used' \in [Budgets -> Nat]
    BY <1>1, <2>1, SpendType DEF Budgets
  <2>8. SetQueuesOK'
    BY <1>1, <1>2, <2>6, <2>7 DEF SetQueuesOK
  <2>9. QED
    BY <1>3, <2>5, <2>6, <2>8, SetTypePartsNext
<1>9. QED
  BY <1>7, <1>8

LEMMA SetCollectTypes ==
  ASSUME SetTypeInv, UNCHANGED plan, (\E s \in MapSlots : DeleteOrphan(s)) \/ DeleteFails
  PROVE  SetTypeInv'
<1> USE DEF SetTypeInv
<1>1. SetObjectsOK /\ SetStoreOK /\ SetCachesOK /\ SetRecOK /\ SetQueuesOK
  BY SetTypeParts
<1>2. /\ UNCHANGED <<set, deps, caches, notes>> /\ rec # None /\ rec.pc = "collect"
      /\ \E some \in SUBSET MapSlots : rec' = [rec EXCEPT !.orphans = some]
      /\ UNCHANGED <<kids, report, queued>> \/ \E s \in MapSlots : RemoveChild(s)
      /\ UNCHANGED used \/ Spend("faults")
  <2>1. rec # None
    BY DEF DeleteOrphan, DeleteFails, At
  <2>2. rec.orphans \subseteq MapSlots
    BY <1>1, <2>1, RecParts
  <2>3. CASE \E s \in MapSlots : DeleteOrphan(s)
    <3>1. PICK s \in MapSlots : DeleteOrphan(s)
      BY <2>3
    <3>2. rec.orphans \ {s} \in SUBSET MapSlots
      BY <2>2
    <3>3. rec' = [rec EXCEPT !.orphans = rec.orphans \ {s}]
      BY <3>1 DEF DeleteOrphan
    <3>4. /\ UNCHANGED <<set, deps, caches, notes, used>> /\ rec.pc = "collect"
          /\ UNCHANGED <<kids, report, queued>> \/ RemoveChild(s)
      BY <3>1 DEF DeleteOrphan, At
    <3>5. QED
      BY <2>1, <3>2, <3>3, <3>4
  <2>4. CASE DeleteFails
    <3>1. /\ UNCHANGED <<set, deps, caches, notes>> /\ rec.pc = "collect" /\ Spend("faults")
          /\ rec' = [rec EXCEPT !.orphans = {}]
          /\ UNCHANGED <<kids, report, queued>> \/ \E s \in rec.orphans : RemoveChild(s)
      BY <2>4 DEF DeleteFails, At, Fault
    <3>2. {} \in SUBSET MapSlots
      OBVIOUS
    <3>3. QED
      BY <2>1, <2>2, <3>1, <3>2
  <2>5. QED
    BY <2>3, <2>4
<1>3. PICK some \in SUBSET MapSlots : rec' = [rec EXCEPT !.orphans = some]
  BY <1>2
<1>4. SetObjectsOK' /\ SetCachesOK'
  BY <1>1, <1>2 DEF SetObjectsOK, SetCachesOK, SetObjOK, caches
<1>5. SetStoreOK' /\ queued' \in BOOLEAN
  <2>1. CASE UNCHANGED <<kids, report, queued>>
    BY <1>1, <1>2, <2>1 DEF SetStoreOK, SetQueuesOK
  <2>2. CASE \E s \in MapSlots : RemoveChild(s)
    <3>1. PICK s \in MapSlots : RemoveChild(s)
      BY <2>2
    <3>2. s \in Slots
      BY SlotsAreDistinct
    <3>3. QED
      BY <1>1, <1>2, <3>1, <3>2, RemoveChildType DEF SetStoreOK
  <2>3. QED
    BY <1>2, <2>1, <2>2
<1>6. used' \in [Budgets -> Nat]
  BY <1>1, <1>2, SpendType DEF SetQueuesOK, Budgets
<1>7. SetQueuesOK'
  BY <1>1, <1>2, <1>5, <1>6 DEF SetQueuesOK
<1>8. rec' = [orig |-> rec.orig, pc |-> "collect", next |-> rec.next,
              orphans |-> some, got |-> rec.got, upd |-> rec.upd]
  BY <1>1, <1>2, <1>3, RecParts
<1>9. SetRecOK'
  BY <1>1, <1>2, <1>8, RecParts, RecStepType
<1>10. SetRenderableOK'
  BY <1>2, <1>8 DEF SetRenderableOK
<1>11. QED
  BY <1>4, <1>5, <1>7, <1>9, <1>10, SetTypePartsNext

LEMMA SetPatchTypes ==
  ASSUME SetTypeInv, UNCHANGED plan, PatchStatus \/ PatchStatusFails \/ Crash
  PROVE  SetTypeInv'
<1> USE DEF SetTypeInv
<1>1. SetObjectsOK /\ SetStoreOK /\ SetCachesOK /\ SetRecOK /\ SetQueuesOK
  BY SetTypeParts
<1>2. rec' = None
  BY DEF PatchStatus, PatchStatusFails, Crash
<1>3. SetRecOK' /\ SetRenderableOK'
  BY <1>2 DEF SetRecOK, SetRenderableOK
<1>4. CASE PatchStatus \/ PatchStatusFails
  <2>1. /\ UNCHANGED <<deps, kids, report, caches, notes>> /\ rec # None
        /\ UNCHANGED set \/ (Patched /\ set # Absent)
        /\ queued' = queued \/ queued' = TRUE
        /\ UNCHANGED used \/ Spend("faults")
    BY <1>4 DEF PatchStatus, PatchStatusFails, At, Fault
  <2>2. set' # Absent => SetObjOK(set)'
    <3>1. CASE UNCHANGED set
      BY <1>1, <3>1 DEF SetObjectsOK, SetObjOK
    <3>2. CASE Patched /\ set # Absent
      <4> DEFINE merged == SetMerged(set.status, rec.orig.status, rec.upd)
      <4>1. set \in FlowSetObj /\ set.status \in SetStatus /\ set.spec \in plan.specs \cup {plan.start}
        BY <1>1, <3>2 DEF SetObjectsOK, SetObjOK, FlowSetObj
      <4>2. merged \in SetStatus
        BY <1>1, <2>1, <4>1, RecParts, SetMergedIs
      <4>3. set' = [set EXCEPT !.status = merged]
        BY <3>2 DEF Patched
      <4> HIDE DEF merged
      <4>4. set' \in FlowSetObj /\ set'.spec = set.spec
        BY <4>1, <4>2, <4>3 DEF FlowSetObj
      <4>5. QED
        BY <4>1, <4>4 DEF SetObjOK
    <3>3. QED
      BY <2>1, <3>1, <3>2
  <2>3. SetObjectsOK'
    BY <1>1, <2>1, <2>2 DEF SetObjectsOK, SetObjOK, caches
  <2>4. used' \in [Budgets -> Nat]
    BY <1>1, <2>1, SpendType DEF SetQueuesOK, Budgets
  <2>5. SetStoreOK' /\ SetCachesOK' /\ SetQueuesOK'
    BY <1>1, <2>1, <2>4 DEF SetStoreOK, SetCachesOK, SetQueuesOK, caches
  <2>6. QED
    BY <1>3, <2>3, <2>5, SetTypePartsNext
<1>5. CASE Crash
  <2>1. /\ UNCHANGED <<set, deps, kids, report>> /\ Spend("faults") /\ notes' = {}
        /\ queued' = (set # Absent) /\ cset' = set /\ cdeps' = deps /\ cdeploy' = DeployOf
        /\ cmaps' = [s \in MapSlots |-> Owner(s)]
    BY <1>5 DEF Crash, Fault, store
  <2>2. used' \in [Budgets -> Nat]
    BY <1>1, <2>1, SpendType DEF Budgets
  <2>3. cmaps' \in [MapSlots -> Nat \cup {Absent}]
    <3>1. \A s \in MapSlots : Owner(s) \in Nat \cup {Absent}
      BY <1>1, SlotsAreDistinct DEF Owner, OwnerIn, KidObj, SetStoreOK
    <3>2. QED
      BY <2>1, <3>1
  <2>4. cdeploy' \in CachedDeploys \cup {Absent}
    BY <1>1, <2>1, SlotsAreDistinct DEF DeployOf, DeployIn, CachedDeploys, SetStoreOK
  <2>5. SetObjectsOK' /\ SetStoreOK' /\ SetCachesOK' /\ SetQueuesOK'
    BY <1>1, <2>1, <2>2, <2>3, <2>4
    DEF SetObjectsOK, SetStoreOK, SetCachesOK, SetQueuesOK, SetObjOK
  <2>6. QED
    BY <1>3, <2>5, SetTypePartsNext
<1>6. QED
  BY <1>4, <1>5

LEMMA SetTypeStep == SetTypeInv /\ [Next]_vars => SetTypeInv'
<1> SUFFICES ASSUME SetTypeInv, [Next]_vars PROVE SetTypeInv'
  OBVIOUS
<1>1. CASE Next
  <2>1. UNCHANGED plan /\ Step
    BY <1>1 DEF Next
  <2>2. CASE Worker
    BY <2>1, <2>2, SetStartType, SetThinkingTypes, SetApplyTypes, SetCollectTypes, SetPatchTypes
    DEF Worker
  <2>3. QED
    BY <2>1, <2>2, SetEditsTypes, SetOutsideTypes, SetApplyTypes, SetCollectTypes, SetPatchTypes
    DEF Step
<1>2. CASE UNCHANGED vars
  BY <1>2
  DEF SetTypeInv, SetTypeOK, SetRenderableOK, KidObj, vars, store, caches
<1>3. QED
  BY <1>1, <1>2

(* The types of every variable, and that a reconcile past its reads has    *)
(* found what it renders, whatever users, the cluster and faults do.       *)
THEOREM SetTypesHold == Spec => []SetTypeInv
<1>1. QED
  BY SetTypeInit, SetTypeStep, PTL DEF Spec

(* The FlowSet, its cached copy, its children and what a reconcile holds   *)
(* are well formed, whatever users, the cluster and faults do.             *)
THEOREM SetTypes == Spec => []SetTypeOK
<1>1. SetTypeInv => SetTypeOK
  BY DEF SetTypeInv
<1>2. QED
  BY <1>1, SetTypesHold, PTL
-----------------------------------------------------------------------------
(* A Pod's volumes are there.  When users delete neither the set nor its   *)
(* children, nothing but gcOrphans removes a ConfigMap: what has been sent *)
(* is there when the Deployment is, and what is collected is not what the  *)
(* Deployment, by then the one just sent, mounts.                          *)
NobodyDeletes == plan.edits \cap {"child", "delete"} = {}

SentSoFar ==
  rec # None =>
    /\ rec.orig.uid = 0
    /\ rec.pc = "resolve" => rec.next = 1
    /\ rec.orphans \cap WantedMaps(rec.orig.spec) = {}
    /\ rec.pc = "apply" =>
         \A k \in 1..(rec.next - 1) : kids[SetApplyOrder(rec.orig.spec)[k]] # Absent
    /\ rec.pc \in {"list", "collect"} /\ kids[DeploySlot] # Absent =>
         \A mount \in kids[DeploySlot].body.template.volumes : mount[1] \in FlowNames(rec.orig.spec)

OneFlowSet ==
  /\ set # Absent /\ set.uid = 0 /\ cset # Absent /\ cset.uid = 0
  /\ \A s \in Slots : kids[s] # Absent => kids[s].owner = 0

MountsInv == NobodyDeletes /\ OneFlowSet /\ SentSoFar /\ MountsExist

LEMMA MountsAreWanted ==
  ASSUME NEW spec \in FlowSetSpec, NEW name \in FlowNames(spec),
         NEW k \in {"prompts", "tools", "config"}
  PROVE  <<name, k>> \in WantedMaps(spec) /\ <<name, k>> \in MapSlots
BY WantedSlots DEF FlowNames

LEMMA VolumesAreFlows ==
  ASSUME NEW spec, NEW got, NEW mount \in SetTemplate(spec, got).volumes
  PROVE  mount[1] \in FlowNames(spec)
BY DEF SetTemplate, FlowNames

LEMMA MountsInit == Init /\ NobodyDeletes => MountsInv
<1> SUFFICES ASSUME Init, NobodyDeletes PROVE MountsInv
  OBVIOUS
<1> DEFINE spec == plan.start
           got == ForEvery(spec, deps)
<1>1. spec \in FlowSetSpec
  BY SetInputsAssumption DEF Init
<1>2. set # Absent /\ set.uid = 0 /\ cset = set
  <2>1. SetTypeInv
    BY SetTypeInit
  <2>2. /\ cset = set
        /\ \E status : set = [[uid |-> 0, spec |-> plan.start, gen |-> 1, status |-> NoSetStatus]
                                EXCEPT !.status = status]
    BY DEF Init
  <2>3. set = [uid |-> 0, spec |-> plan.start, gen |-> 1, status |-> set.status]
    BY <2>2
  <2>4. set.status \in SetStatus
    <3> DEFINE obj == [uid |-> 0, spec |-> spec, gen |-> 1, status |-> NoSetStatus]
    <3>1. set.status = SetFinalStatus(NoSetStatus, obj, got, cdeploy)
      BY DEF Init
    <3>2. obj \in FlowSetObj /\ obj.spec = spec
      BY <1>1, NoSetStatusType DEF FlowSetObj
    <3>3. \A i \in Entries(spec) : got[i] \in Readings
      BY <1>1, ForEveryIs, StoresAreReadings, SetInputsAssumption DEF Init
    <3>4. cdeploy # Absent => cdeploy.status \in Reports
      BY <2>1, SetTypeParts DEF SetTypeInv, SetCachesOK, CachedDeploys
    <3> HIDE DEF obj
    <3>5. QED
      BY <3>1, <3>2, <3>3, <3>4, NoSetStatusType, SetFinalStatusType
  <2>5. set \in FlowSetObj
    BY <1>1, <2>3, <2>4 DEF FlowSetObj
  <2>6. QED
    BY <2>2, <2>3, <2>5, SetRecordsAssumption
<1>3. \A s \in Slots : kids[s] = IF s \notin SetWanted(spec) THEN Absent
                                 ELSE [owner |-> 0, body |-> SetChild(s, spec, got)]
  BY DEF Init, SetWanted
<1>4. OneFlowSet
  <2> HIDE DEF spec, got
  <2>1. ASSUME NEW s \in Slots, kids[s] # Absent PROVE kids[s].owner = 0
    <3>1. kids[s] = [owner |-> 0, body |-> SetChild(s, spec, got)]
      BY <1>3, <2>1
    <3>2. QED
      BY <3>1
  <2>2. QED
    BY <1>2, <2>1 DEF OneFlowSet
<1>5. SentSoFar
  BY DEF SentSoFar, Init
<1>6. MountsExist
  <2> SUFFICES ASSUME NEW mount \in kids[DeploySlot].body.template.volumes,
                      NEW k \in {"prompts", "tools", "config"}
               PROVE  kids[<<mount[1], k>>] # Absent
    BY DEF MountsExist
  <2>1. DeploySlot \in Slots /\ DeploySlot \in SetWanted(spec)
    BY SlotsAreDistinct DEF SetWanted
  <2>2. kids[DeploySlot].body.template = SetTemplate(spec, got)
    <3> HIDE DEF spec, got
    <3>1. kids[DeploySlot] = [owner |-> 0, body |-> SetChild(DeploySlot, spec, got)]
      BY <1>3, <2>1
    <3>2. SetChild(DeploySlot, spec, got) = [replicas |-> spec.replicas,
                                             template |-> SetTemplate(spec, got)]
      BY SlotsAreDistinct DEF SetChild
    <3>3. QED
      BY <3>1, <3>2
  <2>3. mount[1] \in FlowNames(spec)
    BY <2>2, VolumesAreFlows
  <2>4. <<mount[1], k>> \in SetWanted(spec) /\ <<mount[1], k>> \in Slots
    BY <1>1, <2>3, MountsAreWanted, SlotsAreDistinct DEF SetWanted
  <2>5. SetTypeInv
    BY SetTypeInit
  <2>6. kids[<<mount[1], k>>] \in KidObj(<<mount[1], k>>)
    <3>1. SetChild(<<mount[1], k>>, spec, got) \in SetChildBody(<<mount[1], k>>)
      <4>1. \A i \in Entries(spec) : got[i] \in Readings
        BY <1>1, ForEveryIs, StoresAreReadings, SetInputsAssumption DEF Init
      <4>2. SetOutcome(spec, got).reason = "Rendered"
        BY SetInputsAssumption DEF Init
      <4>3. QED
        BY <1>1, <2>4, <4>1, <4>2, SetRenderingType
    <3>2. kids[<<mount[1], k>>] =
            [owner |-> 0, body |-> SetChild(<<mount[1], k>>, spec, got)]
      BY <1>3, <2>4
    <3>3. QED
      BY <3>1, <3>2 DEF KidObj
  <2>7. QED
    BY <2>4, <2>6, SetRecordsAssumption
<1>7. QED
  BY <1>4, <1>5, <1>6 DEF MountsInv

LEMMA MountsAppliedStep ==
  ASSUME SetTypeInv, MountsInv, At("apply"), SetApplied, UNCHANGED <<set, deps, cset>>
  PROVE  /\ OneFlowSet' /\ MountsExist'
         /\ \A s \in Slots : kids[s] # Absent => kids'[s] # Absent
         /\ kids'[Slot] # Absent
         /\ Slot = DeploySlot => \A mount \in kids'[DeploySlot].body.template.volumes :
                                   mount[1] \in FlowNames(rec.orig.spec)
<1> DEFINE spec == rec.orig.spec
           new == [owner |-> rec.orig.uid, body |-> SetChild(Slot, spec, rec.got)]
<1>1. SetStoreOK /\ SetRecOK /\ SetRenderableOK /\ SetQueuesOK /\ rec # None /\ rec.pc = "apply"
  BY SetTypeParts DEF SetTypeInv, At
<1>2. /\ SetStoreOK' /\ Slot \in SetWanted(spec) /\ Slot \in Slots
      /\ kids' = [kids EXCEPT ![Slot] = new]
  BY <1>1, SetAppliedType
<1>3. rec.orig.uid = 0 /\ spec \in FlowSetSpec /\ rec.next \in DOMAIN SetApplyOrder(spec)
  BY <1>1, RecParts DEF MountsInv, SentSoFar
<1>4. kids'[Slot] = new /\ \A s \in Slots \ {Slot} : kids'[s] = kids[s]
  BY <1>1, <1>2 DEF SetStoreOK
<1>5. new # Absent
  <2>1. SetChild(Slot, spec, rec.got) \in SetChildBody(Slot)
    BY <1>1, <1>2, RecParts, SetRenderingType DEF SetRenderableOK
  <2>2. new \in KidObj(Slot)
    BY <1>1, <2>1, RecParts DEF KidObj
  <2>3. QED
    BY <1>2, <2>2, SetRecordsAssumption
<1>6. new.owner = 0
  BY <1>3
<1>7. Slot = DeploySlot => \A mount \in new.body.template.volumes : mount[1] \in FlowNames(spec)
  <2> SUFFICES ASSUME Slot = DeploySlot, NEW mount \in new.body.template.volumes
               PROVE  mount[1] \in FlowNames(spec)
    OBVIOUS
  <2>1. new.body.template = SetTemplate(spec, rec.got)
    BY SlotsAreDistinct DEF SetChild
  <2>2. QED
    BY <2>1, VolumesAreFlows
<1> HIDE DEF new
<1>8. OneFlowSet'
  BY <1>2, <1>4, <1>6 DEF OneFlowSet, MountsInv
<1>9. \A s \in Slots : kids[s] # Absent => kids'[s] # Absent
  BY <1>4, <1>5
<1>10. MountsExist'
  <2>1. CASE Slot = DeploySlot
    <3> SUFFICES ASSUME NEW mount \in new.body.template.volumes,
                        NEW k \in {"prompts", "tools", "config"}
                 PROVE  kids'[<<mount[1], k>>] # Absent
      BY <1>4, <2>1 DEF MountsExist
    <3>1. <<mount[1], k>> \in WantedMaps(spec) /\ <<mount[1], k>> \in Slots
      BY <1>3, <1>7, <2>1, MountsAreWanted, SlotsAreDistinct
    <3>2. rec.next = Len(SetApplyOrder(spec))
      BY <1>3, <2>1, EverythingIsSent DEF Slot
    <3>3. PICK j \in 1..(rec.next - 1) : SetApplyOrder(spec)[j] = <<mount[1], k>>
      BY <1>3, <3>1, <3>2, EverythingIsSent
    <3>4. kids[<<mount[1], k>>] # Absent
      BY <1>1, <3>3 DEF MountsInv, SentSoFar
    <3>5. QED
      BY <1>9, <3>1, <3>4
  <2>2. CASE Slot # DeploySlot
    <3>1. DeploySlot \in Slots /\ kids'[DeploySlot] = kids[DeploySlot]
      BY <1>4, <2>2, SlotsAreDistinct
    <3> SUFFICES ASSUME kids[DeploySlot] # Absent,
                        NEW mount \in kids[DeploySlot].body.template.volumes,
                        NEW k \in {"prompts", "tools", "config"}
                 PROVE  kids'[<<mount[1], k>>] # Absent
      BY <3>1 DEF MountsExist
    <3>2. kids[<<mount[1], k>>] # Absent
      BY DEF MountsInv, MountsExist
    <3>3. <<mount[1], k>> \in Slots
      <4>1. kids[DeploySlot] \in KidObj(DeploySlot)
        BY <1>1, <3>1 DEF SetStoreOK
      <4>2. kids[DeploySlot].body.template.volumes \in SUBSET (Flows \X Secrets)
        BY <4>1, SlotsAreDistinct DEF KidObj, SetChildBody, SetTemplates
      <4>3. mount[1] \in Flows
        BY <4>2
      <4>4. QED
        BY <4>3, SlotsAreDistinct
    <3>4. QED
      BY <1>9, <3>2, <3>3
  <2>3. QED
    BY <2>1, <2>2
<1>11. QED
  BY <1>4, <1>5, <1>7, <1>8, <1>9, <1>10
(* A ConfigMap that is collected is not mounted.                           *)
LEMMA MountsCollectedStep ==
  ASSUME SetTypeInv, MountsInv, At("collect"), NEW slot \in rec.orphans, RemoveChild(slot),
         UNCHANGED <<set, cset>>
  PROVE  OneFlowSet' /\ MountsExist' /\ UNCHANGED kids[DeploySlot]
<1> DEFINE spec == rec.orig.spec
<1>1. SetStoreOK /\ SetRecOK /\ SetQueuesOK /\ rec # None /\ rec.pc = "collect"
  BY SetTypeParts DEF SetTypeInv, At
<1>2. spec \in FlowSetSpec /\ slot \in MapSlots \ WantedMaps(spec) /\ slot \in Slots
  BY <1>1, RecParts, SlotsAreDistinct DEF MountsInv, SentSoFar
<1>3. kids'[slot] = Absent /\ \A s \in Slots \ {slot} : kids'[s] = kids[s]
  BY <1>1, <1>2, RemoveChildType
<1>4. kids'[DeploySlot] = kids[DeploySlot]
  BY <1>2, <1>3, SlotsAreDistinct
<1>5. OneFlowSet'
  BY <1>2, <1>3 DEF OneFlowSet, MountsInv
<1>6. MountsExist'
  <2> SUFFICES ASSUME kids[DeploySlot] # Absent,
                      NEW mount \in kids[DeploySlot].body.template.volumes,
                      NEW k \in {"prompts", "tools", "config"}
               PROVE  kids'[<<mount[1], k>>] # Absent
    BY <1>4 DEF MountsExist
  <2>1. mount[1] \in FlowNames(spec)
    BY <1>1 DEF MountsInv, SentSoFar
  <2>2. <<mount[1], k>> \in WantedMaps(spec) /\ <<mount[1], k>> \in Slots
    BY <1>2, <2>1, MountsAreWanted, SlotsAreDistinct
  <2>3. kids[<<mount[1], k>>] # Absent
    BY DEF MountsInv, MountsExist
  <2>4. QED
    BY <1>2, <1>3, <2>2, <2>3
<1>7. QED
  BY <1>4, <1>5, <1>6

(* Steps that leave the children alone.                                    *)
LEMMA MountsQuietStep ==
  ASSUME MountsInv, UNCHANGED <<kids, plan>>,
         set' # Absent /\ set'.uid = 0, cset' # Absent /\ cset'.uid = 0
  PROVE  NobodyDeletes' /\ OneFlowSet' /\ MountsExist'
<1>1. NobodyDeletes' /\ OneFlowSet'
  BY DEF MountsInv, NobodyDeletes, OneFlowSet
<1>2. kids' = kids
  OBVIOUS
<1>3. MountsExist'
  BY <1>2 DEF MountsInv, MountsExist
<1>4. QED
  BY <1>1, <1>3

LEMMA MountsOutsideStep ==
  ASSUME SetTypeInv, MountsInv, UNCHANGED plan,
         Edit \/ Cluster \/ ReportAny \/ Inform \/ HandleAny
  PROVE  MountsInv'
<1>1. SetObjectsOK /\ SetStoreOK
  BY SetTypeParts DEF SetTypeInv
<1>2. set # Absent /\ set.uid = 0 /\ cset # Absent /\ cset.uid = 0
  BY DEF MountsInv, OneFlowSet
<1>3. "delete" \notin plan.edits /\ "child" \notin plan.edits
  BY DEF MountsInv, NobodyDeletes
<1>4. UNCHANGED <<kids, rec>>
  <2>1. CASE Edit
    BY <1>2, <1>3, <2>1 DEF Edit, SetCreate, SetEdit, DepWrite
  <2>2. CASE Cluster
    <3>1. \A s \in Slots : ~GarbageCollect(s)
      BY <1>2 DEF GarbageCollect, RemoveChild, MountsInv, OneFlowSet
    <3>2. QED
      BY <2>2, <3>1 DEF Cluster, PodStart, ReportReplicas, store
  <2>3. CASE ReportAny
    BY <2>3 DEF ReportAny, ReportReplicas
  <2>4. CASE Inform
    BY <2>4 DEF Inform, InformSet, InformDeploy, InformDep, InformMap, store
  <2>5. CASE HandleAny
    BY <2>5 DEF HandleAny, Handle, store
  <2>6. QED
    BY <2>1, <2>2, <2>3, <2>4, <2>5
<1>5. set' # Absent /\ set'.uid = 0 /\ cset' \in {cset, set}
  <2>1. CASE Edit
    <3>1. set' = set \/ \E s \in plan.specs : SetEdit(s)
      BY <1>2, <1>3, <2>1 DEF Edit, SetCreate, DepWrite
    <3>2. cset' = cset
      BY <1>3, <2>1 DEF Edit, SetCreate, SetEdit, SetDelete, DepWrite, caches
    <3>3. ASSUME NEW s \in plan.specs, SetEdit(s) PROVE set' # Absent /\ set'.uid = 0
      <4>1. set \in FlowSetObj /\ set' = [set EXCEPT !.spec = s, !.gen = @ + 1]
        BY <1>1, <1>2, <3>3 DEF SetObjectsOK, SetObjOK, SetEdit
      <4>2. set' = [uid |-> set.uid, spec |-> s, gen |-> set.gen + 1, status |-> set.status]
        BY <4>1 DEF FlowSetObj
      <4>3. set' \in FlowSetObj
        <5>1. s \in FlowSetSpec
          BY <1>1, SetSpecsAre DEF SetObjectsOK
        <5>2. QED
          BY <4>1, <4>2, <5>1 DEF FlowSetObj
      <4>4. QED
        BY <1>2, <4>2, <4>3, SetRecordsAssumption
    <3>4. QED
      BY <1>2, <3>1, <3>2, <3>3
  <2>2. CASE Cluster \/ ReportAny \/ HandleAny
    BY <1>2, <2>2 DEF Cluster, PodStart, ReportReplicas, GarbageCollect, ReportAny, HandleAny,
       Handle, store, caches
  <2>3. CASE Inform
    BY <1>2, <2>3 DEF Inform, InformSet, InformDeploy, InformDep, InformMap, store
  <2>4. QED
    BY <2>1, <2>2, <2>3
<1>6. NobodyDeletes' /\ OneFlowSet' /\ MountsExist'
  BY <1>2, <1>4, <1>5, MountsQuietStep
<1>7. SentSoFar'
  BY <1>4 DEF SentSoFar, MountsInv
<1>8. QED
  BY <1>6, <1>7 DEF MountsInv
LEMMA MountsWorkerStep ==
  ASSUME SetTypeInv, MountsInv, UNCHANGED plan,
         Worker \/ ApplyFails \/ DeleteFails \/ Crash
  PROVE  MountsInv'
<1>1. SetObjectsOK /\ SetStoreOK /\ SetRecOK
  BY SetTypeParts DEF SetTypeInv
<1>2. /\ set # Absent /\ set.uid = 0 /\ cset # Absent /\ cset.uid = 0
      /\ set \in FlowSetObj
  BY <1>1 DEF MountsInv, OneFlowSet, SetObjectsOK, SetObjOK
<1> DEFINE spec == rec.orig.spec
<1>3. rec # None => /\ spec \in FlowSetSpec
                    /\ rec = [orig |-> rec.orig, pc |-> rec.pc, next |-> rec.next,
                              orphans |-> rec.orphans, got |-> rec.got, upd |-> rec.upd]
  BY <1>1, RecParts
<1>4. CASE Start
  <2>1. UNCHANGED <<set, cset, kids>> /\ rec = None
    BY <1>4 DEF Start, store, caches
  <2>2. rec' = [orig |-> cset, pc |-> "resolve", next |-> 1, orphans |-> {},
                got |-> ForEvery(cset.spec, [o \in Deps |-> Unread]), upd |-> cset.status]
    BY <1>2, <1>4 DEF Start
  <2>3. SentSoFar'
    <3>1. rec'.orig = cset /\ rec'.pc = "resolve" /\ rec'.next = 1 /\ rec'.orphans = {}
      BY <2>2
    <3>2. QED
      BY <1>2, <3>1 DEF SentSoFar
  <2>4. QED
    BY <1>2, <2>1, <2>3, MountsQuietStep DEF MountsInv
<1>5. CASE ReadDep \/ Render \/ ListOrphans \/ ObserveDeploy
  <2>1. UNCHANGED <<set, cset, kids>> /\ rec # None
    BY <1>5 DEF ReadDep, Render, ListOrphans, ObserveDeploy, At, store, caches
  <2>2. SentSoFar'
    <3>1. CASE ReadDep
      <4>1. /\ rec'.orig = rec.orig /\ rec'.pc = rec.pc /\ rec'.next = rec.next
            /\ rec'.orphans = rec.orphans
        BY <1>3, <2>1, <3>1 DEF ReadDep
      <4>2. QED
        BY <2>1, <4>1 DEF SentSoFar, MountsInv
    <3>2. CASE Render
      <4>1. /\ rec'.orig = rec.orig /\ rec'.pc \in {"apply", "patch"} /\ rec'.next = rec.next
            /\ rec'.orphans = rec.orphans /\ rec.pc = "resolve"
        BY <1>3, <2>1, <3>2 DEF Render, At
      <4>2. rec.next = 1 /\ 1..(rec.next - 1) = {}
        BY <2>1, <4>1 DEF MountsInv, SentSoFar
      <4>3. QED
        BY <2>1, <4>1, <4>2 DEF SentSoFar, MountsInv
    <3>3. CASE ListOrphans
      <4> DEFINE orphans == {s \in MapSlots \ WantedMaps(spec) : cmaps[s] = rec.orig.uid}
      <4>1. orphans \cap WantedMaps(spec) = {}
        OBVIOUS
      <4>2. rec' = [rec EXCEPT !.pc = "collect", !.orphans = orphans] /\ rec.pc = "list"
        BY <3>3 DEF ListOrphans, At
      <4> HIDE DEF orphans
      <4>3. rec'.orig = rec.orig /\ rec'.pc = "collect" /\ rec'.orphans = orphans
        BY <1>3, <2>1, <4>2
      <4>4. QED
        BY <2>1, <4>1, <4>2, <4>3 DEF SentSoFar, MountsInv
    <3>4. CASE ObserveDeploy
      <4>1. rec'.orig = rec.orig /\ rec'.pc = "patch" /\ rec'.orphans = rec.orphans
        BY <1>3, <2>1, <3>4 DEF ObserveDeploy
      <4>2. QED
        BY <2>1, <4>1 DEF SentSoFar, MountsInv
    <3>5. QED
      BY <1>5, <3>1, <3>2, <3>3, <3>4
  <2>3. QED
    BY <1>2, <2>1, <2>2, MountsQuietStep DEF MountsInv
<1>6. CASE ApplyChild \/ ApplyFails
  <2>1. rec # None /\ rec.pc = "apply" /\ At("apply") /\ UNCHANGED <<set, deps, cset>>
    BY <1>6 DEF ApplyChild, ApplyFails, At, caches
  <2>2. SetApplied =>
          /\ OneFlowSet' /\ MountsExist'
          /\ \A s \in Slots : kids[s] # Absent => kids'[s] # Absent
          /\ kids'[Slot] # Absent
          /\ Slot = DeploySlot => \A mount \in kids'[DeploySlot].body.template.volumes :
                                    mount[1] \in FlowNames(spec)
    BY <2>1, MountsAppliedStep
  <2>3. NobodyDeletes'
    BY DEF MountsInv, NobodyDeletes
  <2>4. CASE ApplyFails
    <3>1. OneFlowSet' /\ MountsExist'
      <4>1. CASE SetApplied
        BY <2>2, <4>1
      <4>2. CASE UNCHANGED <<kids, report, queued>>
        BY <1>2, <2>1, <4>2, MountsQuietStep
      <4>3. QED
        BY <2>4, <4>1, <4>2 DEF ApplyFails
    <3>2. rec'.orig = rec.orig /\ rec'.pc = "patch" /\ rec'.orphans = rec.orphans
      BY <1>3, <2>1, <2>4 DEF ApplyFails
    <3>3. SentSoFar'
      BY <2>1, <3>2 DEF SentSoFar, MountsInv
    <3>4. QED
      BY <2>3, <3>1, <3>3 DEF MountsInv
  <2>5. CASE ApplyChild
    <3>1. SetApplied
      BY <2>5 DEF ApplyChild
    <3>2. rec.next \in DOMAIN SetApplyOrder(spec) /\ DOMAIN SetApplyOrder(spec) = 1..Len(SetApplyOrder(spec))
          /\ Len(SetApplyOrder(spec)) \in Nat /\ SetApplyOrder(spec)[Len(SetApplyOrder(spec))] = DeploySlot
          /\ \A k \in DOMAIN SetApplyOrder(spec) : SetApplyOrder(spec)[k] \in Slots
      BY <1>1, <1>3, <2>1, RecParts, EverythingIsSent, WantedSlots
    <3>3. SentSoFar'
      <4>1. CASE rec.next = Len(SetApplyOrder(spec))
        <5>1. rec'.orig = rec.orig /\ rec'.pc = "list" /\ rec'.orphans = rec.orphans
          BY <1>3, <2>1, <2>5, <4>1 DEF ApplyChild
        <5>2. Slot = DeploySlot
          BY <3>2, <4>1 DEF Slot
        <5>3. QED
          BY <2>1, <2>2, <3>1, <5>1, <5>2 DEF SentSoFar, MountsInv
      <4>2. CASE rec.next # Len(SetApplyOrder(spec))
        <5>1. rec'.orig = rec.orig /\ rec'.pc = "apply" /\ rec'.orphans = rec.orphans
              /\ rec'.next = rec.next + 1
          BY <1>3, <2>1, <2>5, <4>2 DEF ApplyChild
        <5>2. ASSUME NEW k \in 1..rec.next PROVE kids'[SetApplyOrder(spec)[k]] # Absent
          <6>1. CASE k = rec.next
            BY <2>2, <3>1, <6>1 DEF Slot
          <6>2. CASE k # rec.next
            <7>1. k \in 1..(rec.next - 1) /\ k \in DOMAIN SetApplyOrder(spec)
              BY <3>2, <6>2
            <7>2. kids[SetApplyOrder(spec)[k]] # Absent
              BY <2>1, <7>1 DEF SentSoFar, MountsInv
            <7>3. QED
              BY <2>2, <3>1, <3>2, <7>1, <7>2
          <6>3. QED
            BY <6>1, <6>2
        <5>3. 1..(rec'.next - 1) = 1..rec.next
          BY <3>2, <5>1
        <5>4. QED
          BY <2>1, <5>1, <5>2, <5>3 DEF SentSoFar, MountsInv
      <4>3. QED
        BY <4>1, <4>2
    <3>4. QED
      BY <2>2, <2>3, <3>1, <3>3 DEF MountsInv
  <2>6. QED
    BY <1>6, <2>4, <2>5
<1>7. CASE (\E s \in MapSlots : DeleteOrphan(s)) \/ DeleteFails
  <2>1. /\ rec # None /\ rec.pc = "collect" /\ At("collect") /\ UNCHANGED <<set, cset>>
        /\ \E some \in SUBSET rec.orphans : rec' = [rec EXCEPT !.orphans = some]
        /\ UNCHANGED kids \/ \E s \in rec.orphans : RemoveChild(s)
    <3>1. ASSUME NEW s \in MapSlots, DeleteOrphan(s)
          PROVE  /\ rec' = [rec EXCEPT !.orphans = rec.orphans \ {s}] /\ s \in rec.orphans
                 /\ UNCHANGED kids \/ RemoveChild(s)
      BY <3>1 DEF DeleteOrphan
    <3>2. ASSUME DeleteFails
          PROVE  /\ rec' = [rec EXCEPT !.orphans = {}]
                 /\ UNCHANGED kids \/ \E s \in rec.orphans : RemoveChild(s)
      BY <3>2 DEF DeleteFails
    <3>3. rec # None /\ rec.pc = "collect" /\ At("collect") /\ UNCHANGED <<set, cset>>
      BY <1>7 DEF DeleteOrphan, DeleteFails, At, caches
    <3>4. \A s : rec.orphans \ {s} \in SUBSET rec.orphans
      OBVIOUS
    <3>5. {} \in SUBSET rec.orphans
      OBVIOUS
    <3>6. QED
      BY <1>7, <3>1, <3>2, <3>3, <3>4, <3>5
  <2>2. OneFlowSet' /\ MountsExist' /\ UNCHANGED kids[DeploySlot]
    BY <1>2, <2>1, MountsQuietStep, MountsCollectedStep
  <2>3. NobodyDeletes'
    BY DEF MountsInv, NobodyDeletes
  <2>4. PICK some \in SUBSET rec.orphans : rec' = [rec EXCEPT !.orphans = some]
    BY <2>1
  <2>5. rec'.orig = rec.orig /\ rec'.pc = "collect" /\ rec'.orphans = some
    BY <1>3, <2>1, <2>4
  <2>6. SentSoFar'
    BY <2>1, <2>2, <2>5 DEF SentSoFar, MountsInv
  <2>7. QED
    BY <2>2, <2>3, <2>6 DEF MountsInv
<1>8. CASE PatchStatus \/ PatchStatusFails
  <2>1. rec' = None /\ UNCHANGED <<kids, cset>> /\ (UNCHANGED set \/ Patched)
    BY <1>8 DEF PatchStatus, PatchStatusFails, caches
  <2>2. set' # Absent /\ set'.uid = 0
    <3>1. CASE UNCHANGED set
      BY <1>2, <3>1
    <3>2. CASE Patched
      <4>1. set' = [uid |-> set.uid, spec |-> set.spec, gen |-> set.gen, status |-> set'.status]
        BY <1>2, <3>2 DEF Patched, FlowSetObj
      <4>2. rec # None
        BY <1>8 DEF PatchStatus, PatchStatusFails, At
      <4>3. set'.status \in SetStatus
        <5> DEFINE merged == SetMerged(set.status, rec.orig.status, rec.upd)
        <5>1. set.status \in SetStatus
          BY <1>2 DEF FlowSetObj
        <5>2. merged \in SetStatus
          BY <1>1, <4>2, <5>1, RecParts, SetMergedIs
        <5>3. set' = [set EXCEPT !.status = merged]
          BY <3>2 DEF Patched
        <5> HIDE DEF merged
        <5>4. QED
          BY <1>2, <5>2, <5>3 DEF FlowSetObj
      <4>4. set' \in FlowSetObj
        BY <1>2, <4>1, <4>3 DEF FlowSetObj
      <4>5. QED
        BY <1>2, <4>1, <4>4, SetRecordsAssumption
    <3>3. QED
      BY <2>1, <3>1, <3>2
  <2>3. SentSoFar'
    BY <2>1 DEF SentSoFar
  <2>4. QED
    BY <1>2, <2>1, <2>2, <2>3, MountsQuietStep DEF MountsInv
<1>9. CASE Crash
  <2>1. rec' = None /\ UNCHANGED <<kids, set>> /\ cset' = set
    BY <1>9 DEF Crash, store
  <2>2. SentSoFar'
    BY <2>1 DEF SentSoFar
  <2>3. QED
    BY <1>2, <2>1, <2>2, MountsQuietStep DEF MountsInv
<1>10. QED
  BY <1>4, <1>5, <1>6, <1>7, <1>8, <1>9 DEF Worker

LEMMA MountsStep == SetTypeInv /\ MountsInv /\ [Next]_vars => MountsInv'
<1> SUFFICES ASSUME SetTypeInv, MountsInv, [Next]_vars PROVE MountsInv'
  OBVIOUS
<1>1. CASE Next
  BY <1>1, MountsOutsideStep, MountsWorkerStep DEF Next, Step
<1>2. CASE UNCHANGED vars
  <2>1. UNCHANGED <<plan, set, cset, kids, rec>>
    BY <1>2 DEF vars, store, caches
  <2>2. SentSoFar'
    BY <2>1 DEF SentSoFar, MountsInv
  <2>3. QED
    BY <2>1, <2>2, MountsQuietStep DEF MountsInv, OneFlowSet
<1>3. QED
  BY <1>1, <1>2

(* A Pod of the applied template finds the ConfigMaps of every flow it     *)
(* mounts, as long as users delete neither the FlowSet nor its children:   *)
(* edits that add and remove flows, failed calls and restarts never take   *)
(* one away.                                                               *)
THEOREM MountsAreThere == Spec /\ NobodyDeletes => []MountsExist
<1>1. MountsInv => MountsExist
  BY DEF MountsInv
<1>2. QED
  BY <1>1, SetTypesHold, MountsInit, MountsStep, PTL DEF Spec
-----------------------------------------------------------------------------
(* What the caches hold decides what a reconcile concludes.                *)

(* Flows that read the same objects are made into the same files.          *)
LEMMA SameFlow ==
  ASSUME NEW spec \in FlowSetSpec, NEW i \in Entries(spec), NEW d \in Readings, NEW e \in Readings,
         \A g \in Gets(spec.flows[i], d) : d[g[2]] = e[g[2]]
  PROVE  LET flow == spec.flows[i]
         IN  /\ Gets(flow, e) = Gets(flow, d) /\ Missing(flow, e) = Missing(flow, d)
             /\ ToRead(flow, e) = ToRead(flow, d) /\ (FlowRefused(flow, e) <=> FlowRefused(flow, d))
             /\ BadSources(flow) = {} => MalformedTools(flow, e) = MalformedTools(flow, d)
             /\ Outcome(AsFlow(spec, i), d).reason = "Rendered" =>
                  /\ PromptFiles(flow, e) = PromptFiles(flow, d)
                  /\ ToolFiles(flow, e) = ToolFiles(flow, d)
                  /\ FlowConfig(flow, e) = FlowConfig(flow, d)
                  /\ SecretOf(flow, e) = SecretOf(flow, d)
                  /\ SecretOf(flow, d) # None =>
                       e[SecretOf(flow, d)].data = d[SecretOf(flow, d)].data
<1> DEFINE flow == spec.flows[i]
           F == AsFlow(spec, i)
<1>1. F \in FlowSpec /\ \A g \in Gets(F, d) : d[g[2]] = e[g[2]]
  BY FlowOfSet, AsFlowIsTheFlow
<1>2. /\ Gets(F, d) = Gets(flow, d) /\ Gets(F, e) = Gets(flow, e)
      /\ BadSources(F) = BadSources(flow)
      /\ MalformedTools(F, d) = MalformedTools(flow, d) /\ MalformedTools(F, e) = MalformedTools(flow, e)
      /\ PromptFiles(F, d) = PromptFiles(flow, d) /\ PromptFiles(F, e) = PromptFiles(flow, e)
      /\ ToolFiles(F, d) = ToolFiles(flow, d) /\ ToolFiles(F, e) = ToolFiles(flow, e)
      /\ RuntimeConfig(F, d) = RuntimeConfig(flow, d) /\ RuntimeConfig(F, e) = RuntimeConfig(flow, e)
      /\ SecretOf(F, d) = SecretOf(flow, d) /\ SecretOf(F, e) = SecretOf(flow, e)
  BY AsFlowIsTheFlow
<1> HIDE DEF F
<1>3. Gets(flow, e) = Gets(flow, d)
  BY <1>1, <1>2, SameReads
<1>4. Missing(flow, e) = Missing(flow, d)
  BY <1>1, <1>2, <1>3 DEF Missing
<1>5. ToRead(flow, e) = ToRead(flow, d)
  BY <1>1, <1>2, <1>3 DEF ToRead
<1>6. FlowRefused(flow, e) <=> FlowRefused(flow, d)
  BY <1>4, <1>5 DEF FlowRefused
<1>7. BadSources(flow) = {} => MalformedTools(flow, e) = MalformedTools(flow, d)
  <2> SUFFICES ASSUME BadSources(flow) = {} PROVE MalformedTools(flow, e) = MalformedTools(flow, d)
    OBVIOUS
  <2>1. ASSUME NEW t \in DOMAIN flow.tools PROVE d[flow.tools[t]] = e[flow.tools[t]]
    <3>1. <<Len(flow.prompts) + t, flow.tools[t]>> \in Gets(flow, d)
      BY <2>1 DEF Gets, ToolGets
    <3>2. QED
      BY <3>1
  <2>2. QED
    BY <2>1 DEF MalformedTools
<1>8. ASSUME Outcome(F, d).reason = "Rendered"
      PROVE  /\ PromptFiles(flow, e) = PromptFiles(flow, d)
             /\ ToolFiles(flow, e) = ToolFiles(flow, d)
             /\ FlowConfig(flow, e) = FlowConfig(flow, d)
             /\ SecretOf(flow, e) = SecretOf(flow, d)
             /\ SecretOf(flow, d) # None => e[SecretOf(flow, d)].data = d[SecretOf(flow, d)].data
  <2>1. BadSources(F) = {}
    BY <1>1, <1>8, RenderedMeans
  <2>2. \A k \in Kinds : Child(k, F, e) = Child(k, F, d)
    BY <1>1, <1>8, SameReads
  <2>3. PromptFiles(F, e) = PromptFiles(F, d) /\ ToolFiles(F, e) = ToolFiles(F, d)
    BY <2>2 DEF Child, Kinds
  <2>4. \A g \in ModelGets(F, d) : d[g[2]] = e[g[2]]
    BY <1>1, <2>1 DEF Gets
  <2>5. /\ SecretOf(F, e) = SecretOf(F, d) /\ RuntimeConfig(F, e) = RuntimeConfig(F, d)
        /\ SecretPayload(F, e) = SecretPayload(F, d)
    BY <1>1, <2>4, SameChain
  <2>6. SecretOf(F, d) # None => e[SecretOf(F, d)].data = d[SecretOf(F, d)].data
    BY <2>5 DEF SecretPayload
  <2>7. FlowConfig(flow, e) = FlowConfig(flow, d)
    BY <1>2, <2>5 DEF FlowConfig
  <2>8. QED
    BY <1>2, <2>3, <2>5, <2>6, <2>7
<1>9. QED
  BY <1>3, <1>4, <1>5, <1>6, <1>7, <1>8 DEF F

(* The same for a whole set.                                               *)
LEMMA SameSet ==
  ASSUME NEW spec \in FlowSetSpec, NEW got, NEW e,
         \A i \in Entries(spec) : got[i] \in Readings /\ e[i] \in Readings,
         \A i \in Entries(spec) : \A g \in Gets(spec.flows[i], got[i]) : got[i][g[2]] = e[i][g[2]]
  PROVE  /\ SetOutcome(spec, e) = SetOutcome(spec, got)
         /\ SetOutcome(spec, got).reason = "Rendered" =>
              /\ SetHash(spec, e) = SetHash(spec, got)
              /\ \A s \in SetWanted(spec) : SetChild(s, spec, e) = SetChild(s, spec, got)
<1> DEFINE flow(i) == spec.flows[i]
<1>1. ASSUME NEW i \in Entries(spec)
      PROVE  /\ Missing(flow(i), e[i]) = Missing(flow(i), got[i])
             /\ ToRead(flow(i), e[i]) = ToRead(flow(i), got[i])
             /\ FlowRefused(flow(i), e[i]) <=> FlowRefused(flow(i), got[i])
             /\ BadSources(flow(i)) = {} =>
                  MalformedTools(flow(i), e[i]) = MalformedTools(flow(i), got[i])
  BY SameFlow
<1>2. Unresolved(spec, e) = Unresolved(spec, got)
  BY <1>1 DEF Unresolved
<1>3. Current(spec, e) = Current(spec, got)
  BY <1>2 DEF Current
<1>4. Unresolved(spec, got) = {} => \A i \in Entries(spec) : BadSources(flow(i)) = {}
  BY DEF Unresolved, FlowRefused
<1>5. Unresolved(spec, got) = {} => MalformedFlows(spec, e) = MalformedFlows(spec, got)
  BY <1>1, <1>4 DEF MalformedFlows
<1>6. SetOutcome(spec, e) = SetOutcome(spec, got)
  <2>1. CASE spec.image = NoImage
    BY <2>1 DEF SetOutcome
  <2>2. CASE spec.image # NoImage /\ Unresolved(spec, got) # {}
    <3>1. Current(spec, got) \in Entries(spec)
      BY <2>2, NextRead
    <3>2. Missing(flow(Current(spec, got)), e[Current(spec, got)])
            = Missing(flow(Current(spec, got)), got[Current(spec, got)])
      BY <1>1, <3>1
    <3>3. QED
      BY <1>2, <1>3, <2>2, <3>2 DEF SetOutcome
  <2>3. CASE spec.image # NoImage /\ Unresolved(spec, got) = {} /\ MalformedFlows(spec, got) = {}
    BY <1>2, <1>5, <2>3 DEF SetOutcome
  <2>4. CASE spec.image # NoImage /\ Unresolved(spec, got) = {} /\ MalformedFlows(spec, got) # {}
    <3> DEFINE m == Least(MalformedFlows(spec, got))
    <3>1. m \in Entries(spec)
      <4>1. MalformedFlows(spec, got) \in SUBSET Nat /\ MalformedFlows(spec, got) \subseteq Entries(spec)
        BY FlowOfSet DEF MalformedFlows
      <4>2. QED
        BY <2>4, <4>1, LeastIsOne
    <3>2. MalformedTools(flow(m), e[m]) = MalformedTools(flow(m), got[m])
      BY <1>1, <1>4, <2>4, <3>1
    <3>3. QED
      BY <1>2, <1>5, <2>4, <3>2 DEF SetOutcome
  <2>5. QED
    BY <2>1, <2>2, <2>3, <2>4
<1>7. ASSUME SetOutcome(spec, got).reason = "Rendered"
      PROVE  /\ SetHash(spec, e) = SetHash(spec, got)
             /\ \A s \in SetWanted(spec) : SetChild(s, spec, e) = SetChild(s, spec, got)
  <2>1. ASSUME NEW i \in Entries(spec)
        PROVE  /\ PromptFiles(flow(i), e[i]) = PromptFiles(flow(i), got[i])
               /\ ToolFiles(flow(i), e[i]) = ToolFiles(flow(i), got[i])
               /\ FlowConfig(flow(i), e[i]) = FlowConfig(flow(i), got[i])
               /\ SecretOf(flow(i), e[i]) = SecretOf(flow(i), got[i])
               /\ SecretOf(flow(i), got[i]) \in Secrets
               /\ e[i][SecretOf(flow(i), got[i])].data = got[i][SecretOf(flow(i), got[i])].data
    <3>1. Outcome(AsFlow(spec, i), got[i]).reason = "Rendered"
      BY <1>7, <2>1, EachFlowIsRendered
    <3>2. SecretOf(flow(i), got[i]) \in Secrets
      BY <1>7, <2>1, FlowRenderingType
    <3>3. SecretOf(flow(i), got[i]) # None
      BY <3>2, NamesAssumption DEF Deps
    <3>4. QED
      BY <2>1, <3>1, <3>2, <3>3, SameFlow
  <2> DEFINE prompts(x) == [p \in Prompts |->
                              InOrder([i \in Entries(spec) |-> PromptFiles(flow(i), x[i])[p]])]
             tools(x) == [t \in Tools |->
                            InOrder([i \in Entries(spec) |-> ToolFiles(flow(i), x[i])[t]])]
             config(x) == [i \in Entries(spec) |-> FlowConfig(flow(i), x[i])]
             users(x, s) == {i \in Entries(spec) : SecretOf(flow(i), x[i]) = s}
             secret(x, s) == IF users(x, s) = {} THEN None ELSE x[Least(users(x, s))][s].data
             secrets(x) == [s \in Secrets |-> secret(x, s)]
             volumes(x) == {<<flow(i).name, SecretOf(flow(i), x[i])>> : i \in Entries(spec)}
  <2>2. prompts(e) = prompts(got)
    <3>1. \A p : [i \in Entries(spec) |-> PromptFiles(flow(i), e[i])[p]]
                   = [i \in Entries(spec) |-> PromptFiles(flow(i), got[i])[p]]
      BY <2>1
    <3>2. QED
      BY <3>1
  <2>3. tools(e) = tools(got)
    <3>1. \A t : [i \in Entries(spec) |-> ToolFiles(flow(i), e[i])[t]]
                   = [i \in Entries(spec) |-> ToolFiles(flow(i), got[i])[t]]
      BY <2>1
    <3>2. QED
      BY <3>1
  <2>4. config(e) = config(got)
    BY <2>1
  <2>5. secrets(e) = secrets(got)
    <3>1. ASSUME NEW s \in Secrets PROVE secret(e, s) = secret(got, s)
      <4>1. users(e, s) = users(got, s)
        BY <2>1
      <4>2. CASE users(got, s) = {}
        BY <4>1, <4>2
      <4>3. CASE users(got, s) # {}
        <5> DEFINE i == Least(users(got, s))
        <5>1. i \in users(got, s)
          <6>1. users(got, s) \in SUBSET Nat
            BY FlowOfSet
          <6> HIDE DEF users
          <6>2. QED
            BY <4>3, <6>1, LeastIsOne
        <5>2. i \in Entries(spec) /\ SecretOf(flow(i), got[i]) = s
          BY <5>1
        <5>3. e[i][s].data = got[i][s].data
          BY <2>1, <5>2
        <5> HIDE DEF users
        <5>4. QED
          BY <4>1, <4>3, <5>3
      <4>4. QED
        BY <4>2, <4>3
    <3> HIDE DEF secret
    <3>2. QED
      BY <3>1
  <2>6. volumes(e) = volumes(got)
    BY <2>1
  <2>7. \A x : SetHash(spec, x) = [prompts |-> prompts(x), tools |-> tools(x), config |-> config(x),
                                   manifest |-> Manifest(spec), secrets |-> secrets(x)]
    BY DEF SetHash
  <2>8. \A x : SetTemplate(spec, x) = [image |-> spec.image, port |-> spec.port,
                                       hash |-> SetHash(spec, x), volumes |-> volumes(x)]
    BY DEF SetTemplate
  <2> HIDE DEF prompts, tools, config, secrets, volumes
  <2>9. SetHash(spec, e) = SetHash(spec, got)
    BY <2>2, <2>3, <2>4, <2>5, <2>7
  <2>10. SetTemplate(spec, e) = SetTemplate(spec, got)
    BY <2>6, <2>8, <2>9
  <2>11. ASSUME NEW s \in {ManifestSlot, ServiceSlot, DeploySlot}
         PROVE  SetChild(s, spec, e) = SetChild(s, spec, got)
    BY <2>10, <2>11, SlotsAreDistinct DEF SetChild
  <2>12. ASSUME NEW i \in Entries(spec), NEW k \in {"prompts", "tools", "config"}
         PROVE  SetChild(<<flow(i).name, k>>, spec, e) = SetChild(<<flow(i).name, k>>, spec, got)
    <3>1. PICK j \in Entries(spec) : \A g : SetChild(<<flow(i).name, k>>, spec, g)
                                              = MapBody(k, flow(j), g[j])
      BY FlowOfSlot
    <3>2. MapBody(k, flow(j), e[j]) = MapBody(k, flow(j), got[j])
      BY <2>1 DEF MapBody
    <3>3. QED
      BY <3>1, <3>2
  <2>13. \A s \in SetWanted(spec) : SetChild(s, spec, e) = SetChild(s, spec, got)
    <3> SUFFICES ASSUME NEW s \in SetWanted(spec)
                 PROVE  SetChild(s, spec, e) = SetChild(s, spec, got)
      OBVIOUS
    <3>1. CASE s \in {ManifestSlot, ServiceSlot, DeploySlot}
      BY <2>11, <3>1
    <3>2. CASE s \notin {ManifestSlot, ServiceSlot, DeploySlot}
      <4>1. s \in WantedMaps(spec)
        BY <3>2 DEF SetWanted
      <4>2. PICK i \in Entries(spec), k \in {"prompts", "tools", "config"} :
              s = <<flow(i).name, k>>
        BY <3>2, <4>1, WantedSlots
      <4>3. QED
        BY <2>12, <4>2
    <3>3. QED
      BY <3>1, <3>2
  <2>14. QED
    BY <2>9, <2>13
<1>8. QED
  BY <1>6, <1>7
(* A reconcile that has read all a set leads to renders what one that      *)
(* reads d renders.                                                        *)
LEMMA SetRenderingIsOf ==
  ASSUME NEW spec \in FlowSetSpec, NEW got, NEW d \in Stores,
         \A i \in Entries(spec) : got[i] \in Readings /\ PartOf(got[i], d),
         \A i \in Entries(spec) : ToRead(spec.flows[i], got[i]) = {}
  PROVE  LET e == ForEvery(spec, d)
         IN  /\ SetOutcome(spec, e) = SetOutcome(spec, got)
             /\ SetOutcome(spec, got).reason = "Rendered" =>
                  /\ SetHash(spec, e) = SetHash(spec, got)
                  /\ \A s \in SetWanted(spec) : SetChild(s, spec, e) = SetChild(s, spec, got)
<1> DEFINE e == ForEvery(spec, d)
<1>1. d \in Readings
  BY StoresAreReadings
<1>2. \A i \in Entries(spec) : e[i] = d
  BY <1>1, ForEveryIs
<1>3. ASSUME NEW i \in Entries(spec), NEW g \in Gets(spec.flows[i], got[i])
      PROVE  got[i][g[2]] = e[i][g[2]]
  <2>1. AsFlow(spec, i) \in FlowSpec /\ Gets(AsFlow(spec, i), got[i]) = Gets(spec.flows[i], got[i])
    BY FlowOfSet, AsFlowIsTheFlow
  <2>2. g[2] \in Deps
    BY <1>3, <2>1, GetsType
  <2>3. got[i][g[2]] # Unread
    BY <1>3 DEF ToRead
  <2>4. QED
    BY <1>2, <2>2, <2>3 DEF PartOf
<1> HIDE DEF e
<1>4. \A i \in Entries(spec) : got[i] \in Readings /\ e[i] \in Readings
  BY <1>1, <1>2
<1>5. QED
  BY <1>3, <1>4, SameSet DEF e

(* A reconcile that stops where a flow is refused names the flow and the   *)
(* object that one that reads d would name.                                *)
LEMMA SetSameConclusion ==
  ASSUME NEW spec \in FlowSetSpec, NEW got, NEW d \in Stores,
         \A i \in Entries(spec) : /\ got[i] \in Readings /\ PartOf(got[i], d)
                                  /\ InOrderOK(spec.flows[i], got[i]),
         LET i == Current(spec, got)
         IN  \/ spec.image = NoImage
             \/ Unresolved(spec, got) = {}
             \/ FlowRefused(spec.flows[i], got[i])
  PROVE  SetOutcome(spec, ForEvery(spec, d)) = SetOutcome(spec, got)
<1> DEFINE e == ForEvery(spec, d)
           i == Current(spec, got)
           F(j) == AsFlow(spec, j)
<1>1. d \in Readings /\ \A o \in Deps : d[o] # Unread
  BY StoresAreReadings, NamesAssumption DEF Stores
<1>2. \A j \in Entries(spec) : e[j] = d
  BY <1>1, ForEveryIs
<1>3. CASE spec.image = NoImage
  BY <1>3 DEF SetOutcome
<1>4. CASE Unresolved(spec, got) = {}
  <2>1. \A j \in Entries(spec) : ToRead(spec.flows[j], got[j]) = {}
    BY <1>4 DEF Unresolved
  <2>2. QED
    BY <2>1, SetRenderingIsOf
<1>5. CASE /\ spec.image # NoImage /\ Unresolved(spec, got) # {}
           /\ FlowRefused(spec.flows[i], got[i])
  <2>1. /\ i \in Entries(spec) /\ i \in Unresolved(spec, got)
        /\ \A j \in Unresolved(spec, got) : i <= j
    BY <1>5, NextRead
  <2>2. /\ \A j \in Entries(spec) : j \in Nat
        /\ \A j \in Entries(spec) : F(j) \in FlowSpec
    BY FlowOfSet
  <2>3. ASSUME NEW j \in Entries(spec), ToRead(spec.flows[j], got[j]) = {}
        PROVE  /\ ToRead(spec.flows[j], d) = {}
               /\ Missing(spec.flows[j], d) = Missing(spec.flows[j], got[j])
               /\ FlowRefused(spec.flows[j], d) <=> FlowRefused(spec.flows[j], got[j])
    <3>1. ASSUME NEW g \in Gets(spec.flows[j], got[j]) PROVE got[j][g[2]] = d[g[2]]
      <4>1. g[2] \in Deps
        BY <2>2, <2>3, <3>1, AsFlowIsTheFlow, GetsType
      <4>2. got[j][g[2]] # Unread
        BY <2>3, <3>1 DEF ToRead
      <4>3. QED
        BY <2>3, <4>1, <4>2 DEF PartOf
    <3>2. QED
      BY <1>1, <2>3, <3>1, SameFlow
  <2>4. ASSUME NEW j \in Unresolved(spec, e) PROVE i <= j
    <3>1. j \in Entries(spec) /\ (ToRead(spec.flows[j], d) # {} \/ FlowRefused(spec.flows[j], d))
      BY <1>2, <2>4 DEF Unresolved
    <3>2. j \in Unresolved(spec, got)
      BY <2>3, <3>1 DEF Unresolved
    <3>3. QED
      BY <2>1, <3>2
  <2> DEFINE flow == spec.flows[i]
  <2>5. /\ FlowRefused(flow, d)
        /\ Missing(flow, got[i]) = {} => Missing(flow, d) = {}
        /\ Missing(flow, got[i]) # {} => /\ Missing(flow, d) # {}
                                         /\ First(Missing(flow, d)) = First(Missing(flow, got[i]))
    <3>1. CASE Missing(flow, got[i]) = {}
      <4>1. ToRead(flow, got[i]) = {}
        BY <1>5, <3>1 DEF FlowRefused
      <4>2. QED
        BY <1>5, <2>1, <2>3, <3>1, <4>1
    <3>2. CASE Missing(flow, got[i]) # {}
      <4>1. /\ F(i) \in FlowSpec /\ F(i).image # NoImage
            /\ Missing(F(i), got[i]) = Missing(flow, got[i]) /\ Missing(F(i), d) = Missing(flow, d)
            /\ ToRead(F(i), got[i]) = ToRead(flow, got[i])
            /\ Gets(F(i), got[i]) = Gets(flow, got[i]) /\ Gets(F(i), d) = Gets(flow, d)
        BY <1>5, <2>1, <2>2, AsFlowIsTheFlow
      <4>2. got[i] \in Readings /\ PartOf(got[i], d) /\ InOrderOK(flow, got[i])
        BY <2>1
      <4> HIDE DEF F
      <4>3. Missing(flow, d) # {}
        <5>1. PICK m \in Missing(flow, got[i]) : TRUE
          BY <3>2
        <5>2. m \in Gets(flow, got[i]) /\ got[i][m[2]] = Absent
          BY <5>1 DEF Missing
        <5>3. m \in Gets(flow, d) /\ m[2] \in Deps
          BY <1>1, <4>1, <4>2, <5>2, GetsGrow, GetsType
        <5>4. d[m[2]] = Absent
          BY <4>2, <5>2, <5>3, NamesAssumption DEF PartOf
        <5>5. QED
          BY <5>3, <5>4 DEF Missing
      <4>4. \A h \in ToRead(F(i), got[i]) : \E m \in Missing(F(i), got[i]) : m[1] < h[1]
        BY <3>2, <4>1, <4>2 DEF InOrderOK
      <4>5. Outcome(F(i), got[i]) = Outcome(F(i), d)
        BY <4>1, <4>2, <4>4, SameConclusion
      <4>6. First(Missing(flow, d)) = First(Missing(flow, got[i]))
        <5>1. /\ Outcome(F(i), got[i]).about = First(Missing(F(i), got[i]))
              /\ Outcome(F(i), d).about = First(Missing(F(i), d))
          BY <3>2, <4>1, <4>3 DEF Outcome
        <5>2. QED
          BY <4>1, <4>5, <5>1
      <4>7. QED
        BY <3>2, <4>3, <4>6 DEF FlowRefused
    <3>3. QED
      BY <3>1, <3>2
  <2>6. i \in Unresolved(spec, e)
    BY <1>2, <2>1, <2>5 DEF Unresolved
  <2>7. Current(spec, e) = i
    <3>1. Unresolved(spec, e) \in SUBSET Nat
      BY <2>2 DEF Unresolved
    <3>2. Least(Unresolved(spec, e)) \in Unresolved(spec, e) /\ Least(Unresolved(spec, e)) <= i
      BY <2>6, <3>1, LeastIsOne
    <3>3. i <= Least(Unresolved(spec, e))
      BY <2>4, <3>2
    <3> HIDE DEF i, e
    <3>4. QED
      BY <2>6, <3>1, <3>2, <3>3 DEF Current
  <2> DEFINE ended(m) == [reason |-> "MissingDependency", flow |-> flow.name,
                          about |-> IF m = {} THEN None ELSE First(m)]
  <2>8. SetOutcome(spec, got) = ended(Missing(flow, got[i]))
    BY <1>5 DEF SetOutcome
  <2>9. SetOutcome(spec, e) = ended(Missing(flow, d))
    <3>1. e[i] = d
      BY <1>2, <2>1
    <3> HIDE DEF i, e
    <3>2. QED
      BY <1>5, <2>6, <2>7, <3>1 DEF SetOutcome
  <2>10. ended(Missing(flow, d)) = ended(Missing(flow, got[i]))
    <3> HIDE DEF i, e
    <3> QED
      BY <2>5
  <2>11. QED
    BY <2>8, <2>9, <2>10
<1>6. QED
  BY <1>3, <1>4, <1>5
-----------------------------------------------------------------------------
(* Wakeups.  An event wakes a set if it would wake one of its flows.       *)
ReachesPluginConfig(F, pc, cd) ==
  \/ /\ F.model.kind \in {"ref", "both"} /\ F.model.name \in Models
     /\ cd[F.model.name] # Absent /\ cd[F.model.name].ref = pc
  \/ F.model.kind \in {"inline", "both"} /\ F.model.plugin = pc

WakesFlow(n, F, cd) ==
  \/ n \in PluginConfigs /\ ReachesPluginConfig(F, n, cd)
  \/ /\ n \in Secrets
     /\ \E pc \in PluginConfigs : /\ cd[pc] # Absent /\ cd[pc].ref = n
                                  /\ ReachesPluginConfig(F, pc, cd)
  \/ n \notin PluginConfigs \cup Secrets /\ flowReferences(F, n)

LEMMA WokenIs ==
  ASSUME NEW cf, NEW cd, NEW f \in Flows, NEW n, cf[f] # Absent
  PROVE  f \in Woken(n, cf, cd) <=> WakesFlow(n, cf[f].spec, cd)
<1>1. \A pc : f \in flowsReferencingPluginConfig(pc, cf, cd)
                <=> ReachesPluginConfig(cf[f].spec, pc, cd)
  BY WokenByPluginConfig DEF ReachesPluginConfig
<1>2. PluginConfigs \cap Secrets = {}
  BY NamesAssumption
<1>3. CASE n \in PluginConfigs
  BY <1>1, <1>2, <1>3, MapperOf DEF WakesFlow
<1>4. CASE n \in Secrets
  BY <1>1, <1>2, <1>4, MapperOf, WokenBySecret DEF WakesFlow
<1>5. CASE n \notin PluginConfigs \cup Secrets
  BY <1>5, MapperOf DEF WakesFlow
<1>6. QED
  BY <1>3, <1>4, <1>5

LEMMA WakesSetIs ==
  ASSUME NEW spec \in FlowSetSpec, NEW n, NEW cd
  PROVE  WakesSet(n, spec, cd) <=> \E i \in Entries(spec) : WakesFlow(n, AsFlow(spec, i), cd)
<1>1. ASSUME NEW i \in Entries(spec)
      PROVE  /\ AsFlow(spec, i).model = spec.flows[i].model
             /\ spec.flows[i].model.kind \in {"ref", "both"} => spec.flows[i].model.name \in Models
             /\ \A o : flowReferences(AsFlow(spec, i), o) <=> flowReferences(spec.flows[i], o)
  <2>1. spec.flows[i].model \in ModelSource
    BY <1>1, FlowOfSet DEF FlowSetFlow
  <2>2. AsFlow(spec, i).model = spec.flows[i].model
    BY DEF AsFlow
  <2>3. QED
    BY <2>1, <2>2, AsFlowIsTheFlow DEF ModelSource
<1>2. \A pc : flowSetReferencesPluginConfig(spec, pc, cd)
                <=> \E i \in Entries(spec) : ReachesPluginConfig(AsFlow(spec, i), pc, cd)
  <2> SUFFICES ASSUME NEW pc, NEW i \in Entries(spec)
               PROVE  ReachesPluginConfig(AsFlow(spec, i), pc, cd) <=>
                        LET model == spec.flows[i].model
                        IN  \/ /\ model.kind \in {"ref", "both"}
                               /\ cd[model.name] # Absent /\ cd[model.name].ref = pc
                            \/ model.kind \in {"inline", "both"} /\ model.plugin = pc
    BY DEF flowSetReferencesPluginConfig
  <2> QED
    BY <1>1 DEF ReachesPluginConfig
<1>3. \A o : flowSetReferences(spec, o)
               <=> \E i \in Entries(spec) : flowReferences(AsFlow(spec, i), o)
  BY <1>1 DEF flowSetReferences
<1>4. PluginConfigs \cap Secrets = {}
  BY NamesAssumption
<1>5. CASE n \in PluginConfigs
  BY <1>2, <1>4, <1>5 DEF WakesSet, WakesFlow
<1>6. CASE n \in Secrets
  BY <1>2, <1>4, <1>6 DEF WakesSet, WakesFlow
<1>7. CASE n \notin PluginConfigs \cup Secrets
  BY <1>3, <1>7 DEF WakesSet, WakesFlow
<1>8. QED
  BY <1>5, <1>6, <1>7

(* A cache in which a Flow of any name has the spec F.                     *)
LEMMA SomeCachedFlow ==
  ASSUME NEW F
  PROVE  \E cf : \A f \in Flows : cf[f] # Absent /\ cf[f].spec = F
<1>1. PICK r : r # Absent /\ r.spec = F
  <2>1. [tag |-> 0, spec |-> F] # [tag |-> 1, spec |-> F]
    <3>1. [tag |-> 0, spec |-> F].tag # [tag |-> 1, spec |-> F].tag
      OBVIOUS
    <3>2. QED
      BY <3>1
  <2>2. [tag |-> 0, spec |-> F].spec = F /\ [tag |-> 1, spec |-> F].spec = F
    OBVIOUS
  <2>3. CASE [tag |-> 0, spec |-> F] = Absent
    BY <2>1, <2>2, <2>3
  <2>4. CASE [tag |-> 0, spec |-> F] # Absent
    BY <2>2, <2>4
  <2>5. QED
    BY <2>3, <2>4
<1>2. \A f \in Flows : [g \in Flows |-> r][f] = r
  OBVIOUS
<1>3. QED
  BY <1>1, <1>2

(* The set's mappers are complete too, for what each of its flows reads.   *)
LEMMA SetReadersAreWoken ==
  ASSUME NEW spec \in FlowSetSpec, NEW i \in Entries(spec), NEW cd \in Stores, NEW e,
         NEW g \in Gets(spec.flows[i], cd), \A o \in Deps \ {g[2]} : e[o] = cd[o]
  PROVE  WakesSet(g[2], spec, e)
<1> DEFINE F == AsFlow(spec, i)
           f == spec.flows[i].name
<1>1. F \in FlowSpec /\ f \in Flows /\ Gets(F, cd) = Gets(spec.flows[i], cd)
  BY FlowOfSet, AsFlowIsTheFlow
<1> HIDE DEF F
<1>2. PICK cf : cf[f] # Absent /\ cf[f].spec = F
  BY <1>1, SomeCachedFlow
<1>3. f \in Woken(g[2], cf, e)
  BY <1>1, <1>2, ReadersAreWoken
<1>4. WakesFlow(g[2], F, e)
  BY <1>1, <1>2, <1>3, WokenIs
<1>5. QED
  BY <1>4, WakesSetIs DEF F

LEMMA SetWokenStaysWoken ==
  ASSUME NEW spec \in FlowSetSpec, NEW cd \in Stores, NEW e, NEW n \in Deps, NEW o \in Deps,
         WakesSet(n, spec, cd), \A x \in Deps \ {o} : e[x] = cd[x]
  PROVE  WakesSet(n, spec, e) \/ WakesSet(o, spec, e)
<1>1. PICK i \in Entries(spec) : WakesFlow(n, AsFlow(spec, i), cd)
  BY WakesSetIs
<1> DEFINE F == AsFlow(spec, i)
           f == spec.flows[i].name
<1>2. F \in FlowSpec /\ f \in Flows
  BY FlowOfSet
<1> HIDE DEF F
<1>3. PICK cf : cf[f] # Absent /\ cf[f].spec = F
  BY <1>2, SomeCachedFlow
<1>4. f \in Woken(n, cf, cd)
  BY <1>1, <1>2, <1>3, WokenIs DEF F
<1>5. f \in Woken(n, cf, e) \/ f \in Woken(o, cf, e)
  BY <1>2, <1>3, <1>4, WokenStaysWoken
<1>6. WakesFlow(n, F, e) \/ WakesFlow(o, F, e)
  BY <1>2, <1>3, <1>5, WokenIs
<1>7. QED
  BY <1>6, WakesSetIs DEF F
-----------------------------------------------------------------------------
(* Reading: an object is read after those before it, none of them missing. *)
LEMMA ReadKeepsOrder ==
  ASSUME NEW spec \in FlowSetSpec, NEW i \in Entries(spec), NEW got \in Readings, NEW d \in Stores,
         InOrderOK(spec.flows[i], got), Missing(spec.flows[i], got) = {},
         NEW x \in ToRead(spec.flows[i], got),
         \A h \in ToRead(spec.flows[i], got) : x[1] <= h[1],
         NEW new, new = [got EXCEPT ![x[2]] = d[x[2]]]
  PROVE  /\ new \in Readings /\ InOrderOK(spec.flows[i], new)
         /\ \A o \in Deps : new[o] \in {got[o], d[o]}
<1> DEFINE F == AsFlow(spec, i)
           flow == spec.flows[i]
<1>1. /\ F \in FlowSpec
      /\ Gets(F, got) = Gets(flow, got) /\ Gets(F, new) = Gets(flow, new)
      /\ ToRead(F, got) = ToRead(flow, got)
  BY FlowOfSet, AsFlowIsTheFlow
<1> HIDE DEF F
<1>2. /\ x \in Gets(flow, got) /\ x[1] \in Nat /\ x[2] \in Deps /\ got[x[2]] = Unread
  BY <1>1, GetsType DEF ToRead
<1>3. new[x[2]] = d[x[2]] /\ \A o \in Deps \ {x[2]} : new[o] = got[o]
  BY <1>2 DEF Readings
<1>4. new \in Readings /\ PartOf(got, new)
  BY <1>2, <1>3 DEF Readings, Stores, PartOf
<1>5. Gets(flow, got) \subseteq Gets(flow, new)
  BY <1>1, <1>4, GetsGrow
<1>6. \A o \in Deps : new[o] # Unread => \E g \in Gets(flow, new) : g[2] = o
  BY <1>2, <1>3, <1>5 DEF InOrderOK
<1>7. ASSUME Missing(flow, new) # {}, NEW h \in ToRead(flow, new)
      PROVE  \E m \in Missing(flow, new) : m[1] < h[1]
  <2>1. d[x[2]] = Absent
    <3>1. SUFFICES ASSUME d[x[2]] # Absent PROVE FALSE
      OBVIOUS
    <3>2. PICK m \in Missing(flow, new) : TRUE
      BY <1>7
    <3>3. m[2] \in Deps /\ new[m[2]] = Absent
      BY <1>1, <1>4, GetsType DEF Missing
    <3>4. m[2] # x[2] /\ got[m[2]] = Absent
      BY <1>3, <3>1, <3>3
    <3>5. PICK g \in Gets(flow, got) : g[2] = m[2]
      BY <3>3, <3>4, NamesAssumption DEF InOrderOK
    <3>6. QED
      BY <3>4, <3>5 DEF Missing
  <2>2. x \in Missing(flow, new)
    BY <1>2, <1>3, <1>5, <2>1 DEF Missing
  <2>3. h[1] \in Nat /\ h[2] \in Deps /\ new[h[2]] = Unread /\ h \in Gets(flow, new)
    BY <1>1, <1>4, <1>7, GetsType DEF ToRead
  <2>4. CASE h \in Gets(flow, got)
    <3>1. h[2] # x[2]
      BY <1>3, <2>1, <2>3, NamesAssumption
    <3>2. h \in ToRead(flow, got)
      BY <1>3, <2>3, <2>4, <3>1 DEF ToRead
    <3>3. x[1] # h[1]
      BY <1>1, <1>2, <2>4, <3>1, OneReadEach
    <3>4. QED
      BY <1>2, <2>2, <2>3, <3>2, <3>3
  <2>5. CASE h \notin Gets(flow, got)
    <3>1. PICK g \in ToRead(flow, got) : g[1] < h[1]
      BY <1>1, <1>4, <2>3, <2>5, GetsGrowLater
    <3>2. g[1] \in Nat
      BY <1>1, GetsType DEF ToRead
    <3>3. QED
      BY <1>2, <2>2, <2>3, <3>1, <3>2
  <2>6. QED
    BY <2>4, <2>5
<1>8. \A o \in Deps : new[o] \in {got[o], d[o]}
  BY <1>2, <1>3
<1>9. QED
  BY <1>4, <1>6, <1>7, <1>8 DEF InOrderOK

(* Nothing read yet is in order.                                           *)
LEMMA NothingReadIsInOrder ==
  ASSUME NEW spec \in FlowSetSpec, NEW i \in Entries(spec), NEW got, got = [o \in Deps |-> Unread]
  PROVE  got \in Readings /\ InOrderOK(spec.flows[i], got)
<1>1. got \in Readings
  BY DEF Readings
<1>2. AsFlow(spec, i) \in FlowSpec /\ Gets(AsFlow(spec, i), got) = Gets(spec.flows[i], got)
  BY FlowOfSet, AsFlowIsTheFlow
<1>3. Missing(spec.flows[i], got) = {}
  BY <1>1, <1>2, GetsType, NamesAssumption DEF Missing
<1>4. QED
  BY <1>1, <1>3 DEF InOrderOK

(* What a step that reads does to the reconcile.                           *)
LEMMA ReadDepIs ==
  ASSUME SetTypeInv, SetReadingOK, ReadDep
  PROVE  LET spec == rec.orig.spec
             c == Current(spec, rec.got)
         IN  /\ rec # None /\ rec.pc = "resolve" /\ spec \in FlowSetSpec /\ c \in Entries(spec)
             /\ rec' # None
             /\ \E got : /\ rec' = [orig |-> rec.orig, pc |-> "resolve", next |-> rec.next,
                                    orphans |-> rec.orphans, got |-> got, upd |-> rec.upd]
                         /\ \A i \in Entries(spec) \ {c} : got[i] = rec.got[i]
                         /\ \A i \in Entries(spec) : got[i] \in Readings
                         /\ InOrderOK(spec.flows[c], got[c])
                         /\ \A o \in Deps : got[c][o] \in {rec.got[c][o], cdeps[o]}
<1> DEFINE spec == rec.orig.spec
           c == Current(spec, rec.got)
           reads == ToRead(spec.flows[c], rec.got[c])
           o == First(reads)
<1>1. rec # None /\ rec.pc = "resolve" /\ SetRecOK /\ cdeps \in Stores
  BY SetTypeParts DEF SetTypeInv, ReadDep, At, SetCachesOK
<1>2. /\ spec \in FlowSetSpec /\ rec \in SetReconciles /\ DOMAIN rec.got = Entries(spec)
      /\ \A i \in Entries(spec) : rec.got[i] \in Readings
      /\ rec.got \in Seq(Readings)
      /\ rec = [orig |-> rec.orig, pc |-> rec.pc, next |-> rec.next,
                orphans |-> rec.orphans, got |-> rec.got, upd |-> rec.upd]
  BY <1>1, RecParts
<1>3. Unresolved(spec, rec.got) # {} /\ ~FlowRefused(spec.flows[c], rec.got[c])
  BY DEF ReadDep, Reading
<1>4. /\ c \in Entries(spec)
      /\ \E g \in reads : o = g[2] /\ \A h \in reads : g[1] <= h[1]
  BY <1>2, <1>3, NextRead
<1>5. PICK g \in reads : o = g[2] /\ \A h \in reads : g[1] <= h[1]
  BY <1>4
<1>6. rec' = [rec EXCEPT !.got[c][o] = cdeps[o]]
  BY DEF ReadDep
<1> DEFINE new == [rec.got[c] EXCEPT ![o] = cdeps[o]]
           got == [rec.got EXCEPT ![c] = new]
<1>7. rec' = [orig |-> rec.orig, pc |-> "resolve", next |-> rec.next,
              orphans |-> rec.orphans, got |-> got, upd |-> rec.upd]
  <2>1. rec' = [rec EXCEPT !.got = got]
    BY <1>6
  <2> HIDE DEF got
  <2>2. \A r : r = [orig |-> r.orig, pc |-> r.pc, next |-> r.next, orphans |-> r.orphans,
                    got |-> r.got, upd |-> r.upd]
               => [r EXCEPT !.got = got] = [orig |-> r.orig, pc |-> r.pc, next |-> r.next,
                                            orphans |-> r.orphans, got |-> got, upd |-> r.upd]
    OBVIOUS
  <2>3. QED
    BY <1>1, <1>2, <2>1, <2>2
<1>8. got[c] = new /\ \A i \in Entries(spec) \ {c} : got[i] = rec.got[i]
  BY <1>2, <1>4
<1>9. Missing(spec.flows[c], rec.got[c]) = {} /\ InOrderOK(spec.flows[c], rec.got[c])
  BY <1>1, <1>3, <1>4 DEF FlowRefused, SetReadingOK
<1>10. rec.got[c] \in Readings
  BY <1>2, <1>4
<1> HIDE DEF got
<1>11. new = [rec.got[c] EXCEPT ![g[2]] = cdeps[g[2]]]
  BY <1>5
<1> HIDE DEF new, o, c
<1>12. /\ new \in Readings /\ InOrderOK(spec.flows[c], new)
       /\ \A x \in Deps : new[x] \in {rec.got[c][x], cdeps[x]}
  <2>1. g \in ToRead(spec.flows[c], rec.got[c]) /\ \A h \in ToRead(spec.flows[c], rec.got[c]) : g[1] <= h[1]
    BY <1>5
  <2>2. c \in Entries(spec)
    BY <1>4
  <2> HIDE DEF spec, reads
  <2>3. spec \in FlowSetSpec
    BY <1>2 DEF spec
  <2>4. QED
    BY <1>1, <1>9, <1>10, <1>11, <2>1, <2>2, <2>3, ReadKeepsOrder
<1>13. \A i \in Entries(spec) : got[i] \in Readings
  BY <1>2, <1>8, <1>12
<1>14. got \in Seq(Readings)
  <2>1. got = [i \in Entries(spec) |-> got[i]]
    BY <1>2 DEF got
  <2>2. QED
    BY <1>2, <1>13, <2>1, SeqOfEntries
<1>15. rec' # None
  <2>1. rec' \in SetReconciles
    BY <1>1, <1>2, <1>7, <1>14, RecParts DEF SetReconciles
  <2>2. QED
    BY <2>1, SetRecordsAssumption
<1>16. QED
  BY <1>1, <1>2, <1>4, <1>7, <1>8, <1>12, <1>13, <1>15 DEF c
-----------------------------------------------------------------------------
(* The steps of a reconcile, field by field.                               *)
LEMMA RecMoves ==
  ASSUME SetTypeInv, rec # None,
         NEW pc \in {"resolve", "apply", "list", "collect", "patch"},
         NEW next \in DOMAIN SetApplyOrder(rec.orig.spec), NEW orphans \in SUBSET MapSlots,
         NEW upd \in SetStatus,
         rec' = [orig |-> rec.orig, pc |-> pc, next |-> next, orphans |-> orphans,
                 got |-> rec.got, upd |-> upd]
  PROVE  /\ rec' # None /\ rec'.orig = rec.orig /\ rec'.got = rec.got
         /\ rec'.pc = pc /\ rec'.next = next /\ rec'.orphans = orphans /\ rec'.upd = upd
<1>1. SetRecOK
  BY SetTypeParts DEF SetTypeInv
<1>2. next \in Nat
  BY <1>1, RecParts, EverythingIsSent
<1>3. rec' \in SetReconciles
  BY <1>1, <1>2, RecParts DEF SetReconciles
<1>4. QED
  BY <1>3, SetRecordsAssumption

LEMMA RenderIs ==
  ASSUME SetTypeInv, Render
  PROVE  LET o == SetOutcome(rec.orig.spec, rec.got)
         IN  /\ rec # None /\ rec.pc = "resolve" /\ rec' # None
             /\ rec'.orig = rec.orig /\ rec'.got = rec.got
             /\ rec'.next = rec.next /\ rec'.orphans = rec.orphans
             /\ \/ o.reason = "Rendered" /\ rec'.pc = "apply" /\ rec'.upd = rec.upd
                \/ /\ o.reason # "Rendered" /\ rec'.pc = "patch"
                   /\ rec'.upd = SetRefusedStatus(rec.upd, rec.orig.spec, rec.orig.gen,
                                                  o.reason, o.flow, o.about)
<1> DEFINE spec == rec.orig.spec
           o == SetOutcome(spec, rec.got)
           upd == SetRefusedStatus(rec.upd, spec, rec.orig.gen, o.reason, o.flow, o.about)
<1>1. rec # None /\ rec.pc = "resolve" /\ SetRecOK
  BY SetTypeParts DEF SetTypeInv, Render, At
<1>2. /\ spec \in FlowSetSpec /\ rec.orig.gen \in Nat /\ rec.upd \in SetStatus
      /\ \A i \in Entries(spec) : rec.got[i] \in Readings
      /\ rec.orphans \in SUBSET MapSlots /\ rec.next \in DOMAIN SetApplyOrder(spec)
      /\ rec = [orig |-> rec.orig, pc |-> rec.pc, next |-> rec.next,
                orphans |-> rec.orphans, got |-> rec.got, upd |-> rec.upd]
  BY <1>1, RecParts
<1>3. rec' = IF o.reason = "Rendered" THEN [rec EXCEPT !.pc = "apply"]
             ELSE [rec EXCEPT !.pc = "patch", !.upd = upd]
  BY DEF Render
<1>4. o.reason # "Rendered" => upd \in SetStatus
  <2>1. /\ o.reason \in {"Rendered", "InvalidSpec", "MissingDependency", "Error"}
        /\ o.flow \in Flows \cup {None} /\ o.about \in Deps \cup {None}
    BY <1>2, SetOutcomeType
  <2> HIDE DEF o
  <2>2. QED
    BY <1>2, <2>1, SetRefusedStatusType
<1> HIDE DEF upd
<1>5. CASE o.reason = "Rendered"
  <2>1. rec' = [orig |-> rec.orig, pc |-> "apply", next |-> rec.next,
                orphans |-> rec.orphans, got |-> rec.got, upd |-> rec.upd]
    BY <1>2, <1>3, <1>5
  <2>2. /\ rec' # None /\ rec'.orig = rec.orig /\ rec'.got = rec.got
        /\ rec'.pc = "apply" /\ rec'.next = rec.next /\ rec'.orphans = rec.orphans
        /\ rec'.upd = rec.upd
    BY <1>1, <1>2, <2>1, RecMoves
  <2>3. QED
    BY <1>1, <1>5, <2>2
<1>6. CASE o.reason # "Rendered"
  <2>1. rec' = [orig |-> rec.orig, pc |-> "patch", next |-> rec.next,
                orphans |-> rec.orphans, got |-> rec.got, upd |-> upd]
    BY <1>2, <1>3, <1>6
  <2>2. /\ rec' # None /\ rec'.orig = rec.orig /\ rec'.got = rec.got
        /\ rec'.pc = "patch" /\ rec'.next = rec.next /\ rec'.orphans = rec.orphans
        /\ rec'.upd = upd
    BY <1>1, <1>2, <1>4, <1>6, <2>1, RecMoves
  <2>3. QED
    BY <1>1, <1>6, <2>2 DEF upd
<1>7. QED
  BY <1>5, <1>6

LEMMA ApplyIs ==
  ASSUME SetTypeInv, ApplyChild \/ ApplyFails
  PROVE  LET n == Len(SetApplyOrder(rec.orig.spec))
         IN  /\ rec # None /\ rec.pc = "apply" /\ rec' # None
             /\ rec.next \in 1..n /\ n \in Nat /\ n >= 3
             /\ rec'.orig = rec.orig /\ rec'.got = rec.got /\ rec'.orphans = rec.orphans
             /\ ApplyChild =>
                  /\ rec'.upd = rec.upd
                  /\ \/ rec.next = n /\ rec'.pc = "list"
                     \/ rec.next # n /\ rec'.pc = "apply" /\ rec'.next = rec.next + 1
             /\ ApplyFails =>
                  /\ rec'.pc = "patch"
                  /\ rec'.upd = SetRefusedStatus(rec.upd, rec.orig.spec, rec.orig.gen, "Error",
                                                 Slot[1], Slot[2])
<1> DEFINE spec == rec.orig.spec
           n == Len(SetApplyOrder(spec))
           upd == SetRefusedStatus(rec.upd, spec, rec.orig.gen, "Error", Slot[1], Slot[2])
<1>1. rec # None /\ rec.pc = "apply" /\ SetRecOK
  BY SetTypeParts DEF SetTypeInv, ApplyChild, ApplyFails, At
<1>2. /\ spec \in FlowSetSpec /\ rec.orig.gen \in Nat /\ rec.upd \in SetStatus
      /\ rec.orphans \in SUBSET MapSlots /\ rec.next \in DOMAIN SetApplyOrder(spec)
      /\ rec = [orig |-> rec.orig, pc |-> rec.pc, next |-> rec.next,
                orphans |-> rec.orphans, got |-> rec.got, upd |-> rec.upd]
  BY <1>1, RecParts
<1>3. n \in Nat /\ n >= 3 /\ DOMAIN SetApplyOrder(spec) = 1..n
  BY <1>2, EverythingIsSent
<1>4. ASSUME ApplyFails
      PROVE  /\ rec' # None /\ rec'.orig = rec.orig /\ rec'.got = rec.got
             /\ rec'.orphans = rec.orphans /\ rec'.pc = "patch" /\ rec'.upd = upd
  <2>1. rec' = [rec EXCEPT !.pc = "patch", !.upd = upd]
    BY <1>4 DEF ApplyFails
  <2>2. upd \in SetStatus
    <3>1. Slot \in Slots
      BY <1>2, <1>3, EverythingIsSent, WantedSlots DEF Slot
    <3>2. Slot[1] \in Flows \cup {None} /\ Slot[2] \in {s[2] : s \in Slots}
      BY <3>1, PartsOfASlot
    <3>3. QED
      BY <1>2, <3>2, SetRefusedStatusType
  <2> HIDE DEF upd
  <2>3. rec' = [orig |-> rec.orig, pc |-> "patch", next |-> rec.next,
                orphans |-> rec.orphans, got |-> rec.got, upd |-> upd]
    BY <1>2, <2>1
  <2>4. QED
    BY <1>1, <1>2, <2>2, <2>3, RecMoves
<1>5. ASSUME ApplyChild, rec.next = n
      PROVE  /\ rec' # None /\ rec'.orig = rec.orig /\ rec'.got = rec.got
             /\ rec'.orphans = rec.orphans /\ rec'.pc = "list" /\ rec'.upd = rec.upd
  <2>1. rec' = [orig |-> rec.orig, pc |-> "list", next |-> rec.next,
                orphans |-> rec.orphans, got |-> rec.got, upd |-> rec.upd]
    BY <1>2, <1>5 DEF ApplyChild
  <2>2. QED
    BY <1>1, <1>2, <2>1, RecMoves
<1>6. ASSUME ApplyChild, rec.next # n
      PROVE  /\ rec' # None /\ rec'.orig = rec.orig /\ rec'.got = rec.got
             /\ rec'.orphans = rec.orphans /\ rec'.pc = "apply" /\ rec'.upd = rec.upd
             /\ rec'.next = rec.next + 1
  <2>1. rec' = [orig |-> rec.orig, pc |-> "apply", next |-> rec.next + 1,
                orphans |-> rec.orphans, got |-> rec.got, upd |-> rec.upd]
    BY <1>1, <1>2, <1>6 DEF ApplyChild
  <2>2. rec.next + 1 \in DOMAIN SetApplyOrder(spec)
    BY <1>2, <1>3, <1>6
  <2>3. QED
    BY <1>1, <1>2, <2>1, <2>2, RecMoves
<1> HIDE DEF upd, n
<1>7. CASE ApplyFails
  <2>1. ~ApplyChild \/ (rec.next = n \/ rec.next # n)
    OBVIOUS
  <2>2. ApplyChild => /\ rec'.upd = rec.upd
                      /\ \/ rec.next = n /\ rec'.pc = "list"
                         \/ rec.next # n /\ rec'.pc = "apply" /\ rec'.next = rec.next + 1
    BY <1>5, <1>6
  <2>3. QED
    BY <1>1, <1>2, <1>3, <1>4, <1>7, <2>2 DEF upd, n
<1>8. CASE ~ApplyFails
  BY <1>1, <1>2, <1>3, <1>5, <1>6, <1>8 DEF n
<1>9. QED
  BY <1>7, <1>8

LEMMA CollectIs ==
  ASSUME SetTypeInv
  PROVE  /\ ListOrphans =>
              /\ rec # None /\ rec.pc = "list" /\ rec' # None
              /\ rec'.orig = rec.orig /\ rec'.got = rec.got
              /\ rec'.pc = "collect" /\ rec'.upd = rec.upd
              /\ rec'.orphans = {s \in MapSlots \ WantedMaps(rec.orig.spec) :
                                   cmaps[s] = rec.orig.uid}
         /\ \A s \in MapSlots : DeleteOrphan(s) =>
              /\ rec # None /\ rec.pc = "collect" /\ rec' # None
              /\ rec'.orig = rec.orig /\ rec'.got = rec.got
              /\ rec'.pc = "collect" /\ rec'.upd = rec.upd /\ rec'.orphans = rec.orphans \ {s}
         /\ DeleteFails =>
              /\ rec # None /\ rec.pc = "collect" /\ rec' # None
              /\ rec'.orig = rec.orig /\ rec'.got = rec.got
              /\ rec'.pc = "collect" /\ rec'.upd = rec.upd /\ rec'.orphans = {}
         /\ ObserveDeploy =>
              /\ rec # None /\ rec.pc = "collect" /\ rec' # None
              /\ rec'.orig = rec.orig /\ rec'.got = rec.got /\ rec'.orphans = rec.orphans
              /\ rec'.pc = "patch"
              /\ rec'.upd = SetObservedStatus(rec.upd, rec.orig.spec, rec.orig.gen,
                                              SetHash(rec.orig.spec, rec.got), cdeploy)
<1> DEFINE spec == rec.orig.spec
<1>1. SetRecOK /\ SetCachesOK /\ SetRenderableOK
  BY SetTypeParts DEF SetTypeInv
<1>2. rec # None =>
        /\ spec \in FlowSetSpec /\ rec.orig.gen \in Nat /\ rec.upd \in SetStatus
        /\ \A i \in Entries(spec) : rec.got[i] \in Readings
        /\ rec.orphans \in SUBSET MapSlots /\ rec.next \in DOMAIN SetApplyOrder(spec)
        /\ rec = [orig |-> rec.orig, pc |-> rec.pc, next |-> rec.next,
                  orphans |-> rec.orphans, got |-> rec.got, upd |-> rec.upd]
  BY <1>1, RecParts
<1>3. ASSUME rec # None, NEW orphans \in SUBSET MapSlots,
             rec' = [rec EXCEPT !.pc = "collect", !.orphans = orphans]
      PROVE  /\ rec' # None /\ rec'.orig = rec.orig /\ rec'.got = rec.got
             /\ rec'.pc = "collect" /\ rec'.upd = rec.upd /\ rec'.orphans = orphans
  <2>1. rec' = [orig |-> rec.orig, pc |-> "collect", next |-> rec.next,
                orphans |-> orphans, got |-> rec.got, upd |-> rec.upd]
    BY <1>2, <1>3
  <2>2. QED
    BY <1>2, <1>3, <2>1, RecMoves
<1>4. ASSUME ListOrphans
      PROVE  /\ rec # None /\ rec.pc = "list"
             /\ rec' = [rec EXCEPT !.pc = "collect",
                          !.orphans = {s \in MapSlots \ WantedMaps(spec) : cmaps[s] = rec.orig.uid}]
  BY <1>4 DEF ListOrphans, At
<1>5. {s \in MapSlots \ WantedMaps(spec) : cmaps[s] = rec.orig.uid} \in SUBSET MapSlots
  OBVIOUS
<1>6. ASSUME rec # None, rec.pc = "collect", NEW orphans \in SUBSET MapSlots,
             rec' = [rec EXCEPT !.orphans = orphans]
      PROVE  /\ rec' # None /\ rec'.orig = rec.orig /\ rec'.got = rec.got
             /\ rec'.pc = "collect" /\ rec'.upd = rec.upd /\ rec'.orphans = orphans
  <2>1. rec' = [orig |-> rec.orig, pc |-> "collect", next |-> rec.next,
                orphans |-> orphans, got |-> rec.got, upd |-> rec.upd]
    BY <1>2, <1>6
  <2>2. QED
    BY <1>2, <1>6, <2>1, RecMoves
<1>7. ASSUME NEW s \in MapSlots, DeleteOrphan(s)
      PROVE  rec # None /\ rec.pc = "collect" /\ rec' = [rec EXCEPT !.orphans = rec.orphans \ {s}]
  BY <1>7 DEF DeleteOrphan, At
<1>8. ASSUME DeleteFails
      PROVE  rec # None /\ rec.pc = "collect" /\ rec' = [rec EXCEPT !.orphans = {}]
  BY <1>8 DEF DeleteFails, At
<1>9. ASSUME ObserveDeploy
      PROVE  /\ rec # None /\ rec.pc = "collect" /\ rec' # None
             /\ rec'.orig = rec.orig /\ rec'.got = rec.got /\ rec'.orphans = rec.orphans
             /\ rec'.pc = "patch"
             /\ rec'.upd = SetObservedStatus(rec.upd, spec, rec.orig.gen,
                                             SetHash(spec, rec.got), cdeploy)
  <2> DEFINE upd == SetObservedStatus(rec.upd, spec, rec.orig.gen, SetHash(spec, rec.got), cdeploy)
  <2>1. rec # None /\ rec.pc = "collect" /\ rec' = [rec EXCEPT !.pc = "patch", !.upd = upd]
    BY <1>9 DEF ObserveDeploy, At
  <2>2. upd \in SetStatus
    <3>1. SetHash(spec, rec.got) \in SetHashes
      BY <1>1, <1>2, <2>1, SetHashType DEF SetRenderableOK
    <3>2. cdeploy # Absent => cdeploy.status \in Reports
      BY <1>1 DEF SetCachesOK, CachedDeploys
    <3>3. QED
      BY <1>2, <2>1, <3>1, <3>2, SetObservedStatusType
  <2> HIDE DEF upd
  <2>3. rec' = [orig |-> rec.orig, pc |-> "patch", next |-> rec.next,
                orphans |-> rec.orphans, got |-> rec.got, upd |-> upd]
    BY <1>2, <2>1
  <2>4. /\ rec' # None /\ rec'.orig = rec.orig /\ rec'.got = rec.got
        /\ rec'.pc = "patch" /\ rec'.upd = upd /\ rec'.orphans = rec.orphans
    BY <1>2, <2>1, <2>2, <2>3, RecMoves
  <2>5. QED
    BY <2>1, <2>4 DEF upd
<1>10. ASSUME NEW s \in MapSlots, DeleteOrphan(s)
       PROVE  /\ rec # None /\ rec.pc = "collect" /\ rec' # None
              /\ rec'.orig = rec.orig /\ rec'.got = rec.got
              /\ rec'.pc = "collect" /\ rec'.upd = rec.upd /\ rec'.orphans = rec.orphans \ {s}
  <2>1. rec.orphans \ {s} \in SUBSET MapSlots
    BY <1>2, <1>7, <1>10
  <2>2. QED
    BY <1>6, <1>7, <1>10, <2>1
<1>11. ASSUME DeleteFails
       PROVE  /\ rec # None /\ rec.pc = "collect" /\ rec' # None
              /\ rec'.orig = rec.orig /\ rec'.got = rec.got
              /\ rec'.pc = "collect" /\ rec'.upd = rec.upd /\ rec'.orphans = {}
  <2>1. {} \in SUBSET MapSlots
    OBVIOUS
  <2>2. QED
    BY <1>6, <1>8, <1>11, <2>1
<1>12. QED
  BY <1>3, <1>4, <1>5, <1>9, <1>10, <1>11
-----------------------------------------------------------------------------
(* Versions: the cached FlowSet never overtakes the live one.              *)
LEMMA EditsUsed ==
  ASSUME SetTypeInv
  PROVE  /\ used["edits"] \in Nat
         /\ Spend("edits") => used'["edits"] = used["edits"] + 1
         /\ Spend("faults") \/ Spend("reports") \/ Spend("podStarts") => used'["edits"] = used["edits"]
<1>1. used \in [Budgets -> Nat]
  BY DEF SetTypeInv, SetTypeOK
<1>2. QED
  BY <1>1 DEF Spend, Budgets

LEMMA SetsAre ==
  ASSUME SetTypeInv
  PROVE  /\ set # Absent => set \in FlowSetObj /\ set.spec \in FlowSetSpec /\ set.status \in SetStatus
                            /\ set.uid \in Nat /\ set.gen \in Nat
         /\ cset # Absent => cset \in FlowSetObj /\ cset.spec \in FlowSetSpec
                             /\ cset.status \in SetStatus /\ cset.uid \in Nat /\ cset.gen \in Nat
         /\ cdeps \in Stores /\ notes \in SUBSET Deps
BY DEF SetTypeInv, SetTypeOK, FlowSetObj

(* A patch changes the status alone.                                       *)
LEMMA PatchedIs ==
  ASSUME SetTypeInv, rec # None, set # Absent, Patched
  PROVE  /\ set' # Absent /\ set'.uid = set.uid /\ set'.gen = set.gen /\ set'.spec = set.spec
         /\ set'.status = SetMerged(set.status, rec.orig.status, rec.upd)
<1> DEFINE merged == SetMerged(set.status, rec.orig.status, rec.upd)
<1>1. set \in FlowSetObj /\ set.status \in SetStatus
  BY SetsAre
<1>2. merged \in SetStatus
  <2>1. SetRecOK
    BY SetTypeParts DEF SetTypeInv
  <2>2. QED
    BY <1>1, <2>1, RecParts, SetMergedIs
<1>3. set' = [set EXCEPT !.status = merged]
  BY DEF Patched
<1> HIDE DEF merged
<1>4. set' \in FlowSetObj /\ set'.status = merged /\ set'.uid = set.uid /\ set'.gen = set.gen
      /\ set'.spec = set.spec
  BY <1>1, <1>2, <1>3 DEF FlowSetObj
<1>5. QED
  BY <1>4, SetRecordsAssumption DEF merged

LEMMA SetVersionsStep == SetTypeInv /\ SetVersionsOK /\ [Next]_vars => SetVersionsOK'
<1> SUFFICES ASSUME SetTypeInv, SetVersionsOK, [Next]_vars PROVE SetVersionsOK'
  OBVIOUS
<1>1. /\ used["edits"] \in Nat
      /\ set # Absent => set.uid \in Nat /\ set.gen \in Nat
      /\ cset # Absent => cset.uid \in Nat /\ cset.gen \in Nat
  BY EditsUsed, SetsAre
<1>2. ASSUME UNCHANGED <<set, cset>>, used'["edits"] \in {used["edits"], used["edits"] + 1}
      PROVE  SetVersionsOK'
  BY <1>1, <1>2 DEF SetVersionsOK
<1>3. UNCHANGED used \/ Spend("faults") \/ Spend("edits") \/ Spend("reports") \/ Spend("podStarts")
        => used'["edits"] \in {used["edits"], used["edits"] + 1}
  BY EditsUsed
<1>4. ASSUME NEW s, SetCreate(s) PROVE SetVersionsOK'
  <2>1. used'["edits"] = used["edits"] + 1 /\ cset' = cset /\ set'.uid = used["edits"] + 1
    BY <1>4, EditsUsed DEF SetCreate, caches
  <2>2. QED
    BY <1>1, <2>1 DEF SetVersionsOK
<1>5. ASSUME NEW s, SetEdit(s) PROVE SetVersionsOK'
  <2>1. set # Absent /\ used'["edits"] = used["edits"] + 1 /\ cset' = cset
    BY <1>5, EditsUsed DEF SetEdit, caches
  <2>2. set'.uid = set.uid /\ set'.gen = set.gen + 1
    BY <1>5, SetsAre DEF SetEdit, FlowSetObj
  <2>3. QED
    BY <1>1, <2>1, <2>2 DEF SetVersionsOK
<1>6. ASSUME SetDelete PROVE SetVersionsOK'
  <2>1. used'["edits"] = used["edits"] + 1 /\ cset' = cset /\ set' = Absent
    BY <1>6, EditsUsed DEF SetDelete, caches
  <2>2. QED
    BY <1>1, <2>1 DEF SetVersionsOK
<1>7. ASSUME InformSet \/ Crash PROVE SetVersionsOK'
  <2>1. set' = set /\ cset' = set /\ used'["edits"] = used["edits"]
    BY <1>7, EditsUsed DEF InformSet, Crash, store, Fault
  <2>2. QED
    BY <1>1, <2>1 DEF SetVersionsOK
<1>8. ASSUME PatchStatus \/ PatchStatusFails PROVE SetVersionsOK'
  <2>1. /\ cset' = cset /\ rec # None /\ used'["edits"] = used["edits"]
        /\ set' = set \/ (set # Absent /\ Patched)
    BY <1>8, EditsUsed DEF PatchStatus, PatchStatusFails, caches, Fault, At
  <2>2. CASE set' = set
    BY <1>2, <2>1, <2>2
  <2>3. CASE set # Absent /\ Patched
    BY <1>1, <2>1, <2>3, PatchedIs DEF SetVersionsOK
  <2>4. QED
    BY <2>1, <2>2, <2>3
<1>9. CASE UNCHANGED vars
  BY <1>2, <1>3, <1>9 DEF vars, store, caches
<1>10. ASSUME \/ \E o \in Deps : (\E v \in DepValues[o] : DepWrite(o, v)) \/ DepWrite(o, Absent)
              \/ \E s \in Slots : ChildDelete(s)
       PROVE  SetVersionsOK'
  BY <1>2, <1>3, <1>10 DEF DepWrite, ChildDelete, caches
<1>11. ASSUME Cluster \/ ReportAny PROVE SetVersionsOK'
  BY <1>2, <1>3, <1>11 DEF Cluster, ReportAny, GarbageCollect, PodStart, ReportReplicas, store, caches
<1>12. ASSUME InformDeploy \/ (\E o \in Deps : InformDep(o)) \/ (\E s \in MapSlots : InformMap(s))
              \/ HandleAny
       PROVE  SetVersionsOK'
  BY <1>2, <1>3, <1>12 DEF InformDeploy, InformDep, InformMap, HandleAny, Handle, store, caches
<1>13. ASSUME \/ Start \/ ReadDep \/ Render \/ ApplyChild \/ ListOrphans \/ ObserveDeploy
              \/ \E s \in MapSlots : DeleteOrphan(s)
       PROVE  SetVersionsOK'
  <2>1. UNCHANGED <<set, cset, used>>
    BY <1>13
    DEF Start, ReadDep, Render, ApplyChild, ListOrphans, ObserveDeploy, DeleteOrphan, store, caches
  <2>2. QED
    BY <1>2, <1>3, <2>1
<1>14. ASSUME ApplyFails \/ DeleteFails PROVE SetVersionsOK'
  BY <1>2, <1>3, <1>14 DEF ApplyFails, DeleteFails, Fault, caches
<1>15. CASE Edit
  BY <1>4, <1>5, <1>6, <1>10, <1>15 DEF Edit
<1>16. CASE Inform
  BY <1>7, <1>12, <1>16 DEF Inform
<1>17. CASE Worker
  BY <1>8, <1>13, <1>17 DEF Worker
<1>18. QED
  BY <1>7, <1>9, <1>11, <1>12, <1>14, <1>15, <1>16, <1>17 DEF Next, Step

-----------------------------------------------------------------------------
(* Reading.                                                                *)
LEMMA SetReadingSame ==
  ASSUME SetReadingOK, rec # None, rec' # None, rec'.orig = rec.orig, rec'.got = rec.got,
         rec'.pc = "patch" \/ (rec'.upd = rec.upd /\ rec.pc # "patch"),
         rec'.pc # "resolve",
         rec'.orphans \subseteq MapSlots \ WantedMaps(rec.orig.spec)
  PROVE  SetReadingOK'
BY DEF SetReadingOK

LEMMA SetReadingStep == SetTypeInv /\ SetReadingOK /\ [Next]_vars => SetReadingOK'
<1> SUFFICES ASSUME SetTypeInv, SetReadingOK, [Next]_vars PROVE SetReadingOK'
  OBVIOUS
<1>1. CASE rec' = rec
  BY <1>1 DEF SetReadingOK
<1>2. CASE rec' = None
  BY <1>2 DEF SetReadingOK
<1>3. rec # None => rec.orphans \subseteq MapSlots \ WantedMaps(rec.orig.spec)
  BY DEF SetReadingOK
<1>4. ASSUME Start, cset # Absent PROVE SetReadingOK'
  <2> DEFINE unread == [o \in Deps |-> Unread]
  <2>1. rec' = [orig |-> cset, pc |-> "resolve", next |-> 1, orphans |-> {},
                got |-> ForEvery(cset.spec, unread), upd |-> cset.status]
    BY <1>4 DEF Start
  <2>2. /\ rec'.orig = cset /\ rec'.pc = "resolve" /\ rec'.next = 1 /\ rec'.orphans = {}
        /\ rec'.got = ForEvery(cset.spec, unread) /\ rec'.upd = cset.status
    BY <2>1
  <2> HIDE DEF unread
  <2>3. ASSUME NEW i \in Entries(cset.spec)
        PROVE  InOrderOK(cset.spec.flows[i], ForEvery(cset.spec, unread)[i])
    <3>1. cset.spec \in FlowSetSpec
      BY <1>4, SetsAre
    <3>2. ForEvery(cset.spec, unread)[i] = unread
      BY <2>3 DEF ForEvery
    <3>3. QED
      BY <2>3, <3>1, <3>2, NothingReadIsInOrder DEF unread
  <2>4. QED
    BY <2>2, <2>3 DEF SetReadingOK
<1>5. ASSUME ReadDep PROVE SetReadingOK'
  <2> DEFINE spec == rec.orig.spec
             c == Current(spec, rec.got)
  <2>1. PICK got :
          /\ rec' = [orig |-> rec.orig, pc |-> "resolve", next |-> rec.next,
                     orphans |-> rec.orphans, got |-> got, upd |-> rec.upd]
          /\ \A i \in Entries(spec) \ {c} : got[i] = rec.got[i]
          /\ InOrderOK(spec.flows[c], got[c])
    BY <1>5, ReadDepIs
  <2>2. rec # None /\ rec.pc = "resolve" /\ c \in Entries(spec)
    BY <1>5, ReadDepIs
  <2>3. /\ rec'.orig = rec.orig /\ rec'.pc = "resolve" /\ rec'.next = rec.next
        /\ rec'.orphans = rec.orphans /\ rec'.got = got /\ rec'.upd = rec.upd
    BY <2>1
  <2> HIDE DEF c
  <2>4. \A i \in Entries(spec) : InOrderOK(spec.flows[i], got[i])
    BY <2>1, <2>2 DEF SetReadingOK
  <2>5. QED
    BY <2>2, <2>3, <2>4 DEF SetReadingOK
<1>6. ASSUME Render PROVE SetReadingOK'
  BY <1>3, <1>6, RenderIs, SetReadingSame
<1>7. ASSUME ApplyChild \/ ApplyFails PROVE SetReadingOK'
  BY <1>3, <1>7, ApplyIs, SetReadingSame
<1>8. ASSUME ListOrphans \/ DeleteFails \/ ObserveDeploy \/ \E s \in MapSlots : DeleteOrphan(s)
      PROVE  SetReadingOK'
  <2>1. CASE ListOrphans
    BY <1>3, <2>1, CollectIs, SetReadingSame
  <2>2. CASE DeleteFails
    BY <1>3, <2>2, CollectIs, SetReadingSame
  <2>3. CASE ObserveDeploy
    BY <1>3, <2>3, CollectIs, SetReadingSame
  <2>4. ASSUME NEW s \in MapSlots, DeleteOrphan(s) PROVE SetReadingOK'
    <3>1. rec # None /\ rec.orphans \ {s} \subseteq MapSlots \ WantedMaps(rec.orig.spec)
      BY <1>3, <2>4, CollectIs
    <3>2. QED
      BY <2>4, <3>1, CollectIs, SetReadingSame
  <2>5. QED
    BY <1>8, <2>1, <2>2, <2>3, <2>4
<1>9. CASE UNCHANGED vars
  BY <1>1, <1>9 DEF vars
<1>10. CASE Edit
  BY <1>1, <1>10 DEF Edit, SetCreate, SetEdit, SetDelete, DepWrite, ChildDelete
<1>11. CASE Cluster \/ ReportAny \/ Inform \/ HandleAny
  BY <1>1, <1>11
  DEF Cluster, ReportAny, GarbageCollect, PodStart, ReportReplicas, Inform, InformSet,
      InformDeploy, InformDep, InformMap, HandleAny, Handle
<1>12. CASE Worker
  BY <1>2, <1>4, <1>5, <1>6, <1>7, <1>8, <1>12 DEF Worker, Start, PatchStatus, PatchStatusFails
<1>13. CASE ApplyFails \/ DeleteFails \/ Crash
  BY <1>2, <1>7, <1>8, <1>13 DEF Crash
<1>14. QED
  BY <1>9, <1>10, <1>11, <1>12, <1>13 DEF Next, Step
-----------------------------------------------------------------------------
(* Tracking.  A step that wakes the set has nothing to show; one that does *)
(* not leaves what a reconcile relies on as it was.                        *)
SetUntouched ==
  /\ cset' = cset /\ cdeps' = cdeps /\ cdeploy' = cdeploy /\ cmaps' = cmaps
  /\ \A s \in Slots : SetSentOK(s) => SetSentOK(s)'
  /\ \A s \in MapSlots : Owner(s)' \in {Owner(s), Absent}
  /\ SetAwake => SetAwake'

LEMMA AwakeAgain == SetAwake' => SetInProgressOK' /\ SetAtRestOK'
BY DEF SetInProgressOK, SetAtRestOK

LEMMA ChildrenStay ==
  ASSUME SetTypeInv, SetUntouched, cset # Absent
  PROVE  /\ \A s \in SetWanted(cset.spec) : SetSentOK(s) => SetSentOK(s)'
         /\ \A orphans : CollectedBut(orphans) => CollectedBut(orphans)'
<1>1. SetWanted(cset.spec) \subseteq Slots /\ cset.uid \in Nat
  BY SetsAre, WantedSlots
<1>2. \A s \in SetWanted(cset.spec) : SetSentOK(s) => SetSentOK(s)'
  BY <1>1 DEF SetUntouched
<1>3. cset.uid # Absent
  BY <1>1, SetRecordsAssumption
<1>4. ASSUME NEW orphans, CollectedBut(orphans) PROVE CollectedBut(orphans)'
  <2>1. ASSUME NEW s \in MapSlots \ WantedMaps(cset.spec), Owner(s)' = cset.uid
        PROVE  s \in orphans \/ cmaps'[s] # Owner(s)'
    <3>1. Owner(s)' = Owner(s)
      BY <1>3, <2>1 DEF SetUntouched
    <3>2. s \in orphans \/ cmaps[s] # Owner(s)
      BY <1>4, <2>1, <3>1 DEF CollectedBut
    <3>3. QED
      BY <3>1, <3>2 DEF SetUntouched
  <2>2. cset' = cset
    BY DEF SetUntouched
  <2>3. QED
    BY <2>1, <2>2 DEF CollectedBut
<1>5. QED
  BY <1>2, <1>4

LEMMA SetUntouchedInProgress ==
  ASSUME SetTypeInv, SetUntouched, rec' = rec, SetInProgressOK
  PROVE  SetInProgressOK'
<1> SUFFICES ASSUME rec # None, ~SetAwake'
             PROVE  (/\ rec.orig = cset
                     /\ \A i \in Entries(cset.spec), o \in Deps : rec.got[i][o] \in {Unread, cdeps[o]}
                     /\ rec.pc = "apply" => \A k \in 1..(rec.next - 1) :
                                              SetSentOK(SetApplyOrder(cset.spec)[k])
                     /\ rec.pc \in {"list", "collect"} => \A s \in SetWanted(cset.spec) : SetSentOK(s)
                     /\ rec.pc = "collect" /\ "gc" \notin FaultKinds => CollectedBut(rec.orphans)
                     /\ rec.pc = "patch" => SetEndsWith(rec.upd))'
  BY DEF SetInProgressOK
<1>1. ~SetAwake /\ cset' = cset /\ cdeps' = cdeps /\ cdeploy' = cdeploy
  BY DEF SetUntouched
<1>2. /\ rec.orig = cset
      /\ \A i \in Entries(cset.spec), o \in Deps : rec.got[i][o] \in {Unread, cdeps[o]}
      /\ rec.pc = "apply" => \A k \in 1..(rec.next - 1) : SetSentOK(SetApplyOrder(cset.spec)[k])
      /\ rec.pc \in {"list", "collect"} => \A s \in SetWanted(cset.spec) : SetSentOK(s)
      /\ rec.pc = "collect" /\ "gc" \notin FaultKinds => CollectedBut(rec.orphans)
      /\ rec.pc = "patch" => SetEndsWith(rec.upd)
  BY <1>1 DEF SetInProgressOK
<1>3. /\ cset # Absent /\ cset.spec \in FlowSetSpec
      /\ rec.next \in DOMAIN SetApplyOrder(cset.spec)
  <2>1. SetRecOK
    BY SetTypeParts DEF SetTypeInv
  <2>2. rec.orig \in FlowSetObj /\ rec.orig.spec \in FlowSetSpec /\ rec.next \in DOMAIN SetApplyOrder(rec.orig.spec)
    BY <2>1, RecParts
  <2>3. QED
    BY <1>2, <2>2, SetRecordsAssumption
<1>4. /\ \A s \in SetWanted(cset.spec) : SetSentOK(s) => SetSentOK(s)'
      /\ \A orphans : CollectedBut(orphans) => CollectedBut(orphans)'
  BY <1>3, ChildrenStay
<1>5. \A k \in 1..(rec.next - 1) : SetApplyOrder(cset.spec)[k] \in SetWanted(cset.spec)
  <2> DEFINE order == SetApplyOrder(cset.spec)
  <2>1. Len(order) \in Nat /\ DOMAIN order = 1..Len(order) /\ \A k \in DOMAIN order : order[k] \in SetWanted(cset.spec)
    BY <1>3, EverythingIsSent
  <2> HIDE DEF order
  <2>2. \A k \in 1..(rec.next - 1) : k \in DOMAIN order
    BY <1>3, <2>1 DEF order
  <2>3. QED
    BY <2>1, <2>2 DEF order
<1>6. (/\ rec.orig = cset
       /\ \A i \in Entries(cset.spec), o \in Deps : rec.got[i][o] \in {Unread, cdeps[o]})'
  BY <1>1, <1>2
<1>7. (rec.pc = "apply" => \A k \in 1..(rec.next - 1) : SetSentOK(SetApplyOrder(cset.spec)[k]))'
  <2> SUFFICES ASSUME rec.pc = "apply", NEW k \in 1..(rec.next - 1)
               PROVE  SetSentOK(SetApplyOrder(cset.spec)[k])'
    BY <1>1
  <2>1. PICK s \in SetWanted(cset.spec) : s = SetApplyOrder(cset.spec)[k]
    BY <1>5
  <2>2. SetSentOK(s)
    BY <1>2, <2>1
  <2>3. SetSentOK(s)'
    BY <1>4, <2>2
  <2>4. QED
    BY <1>1, <2>1, <2>3 DEF SetSentOK, SetRenderedFor
<1>8. (rec.pc \in {"list", "collect"} => \A s \in SetWanted(cset.spec) : SetSentOK(s))'
  BY <1>1, <1>2, <1>4
<1>9. (rec.pc = "collect" /\ "gc" \notin FaultKinds => CollectedBut(rec.orphans))'
  <2>1. PICK orphans : orphans = rec.orphans
    OBVIOUS
  <2>2. rec.pc = "collect" /\ "gc" \notin FaultKinds => CollectedBut(orphans)
    BY <1>2, <2>1 DEF CollectedBut
  <2>3. QED
    BY <1>4, <2>1, <2>2 DEF CollectedBut
<1>10. (rec.pc = "patch" => SetEndsWith(rec.upd))'
  BY <1>1, <1>2, <1>4 DEF SetEndsWith
<1>11. QED
  BY <1>6, <1>7, <1>8, <1>9, <1>10

LEMMA SetUntouchedAtRest ==
  ASSUME SetTypeInv, SetUntouched, rec # None => rec' # None,
         set' \in {set, Absent} \/ set' # cset, SetAtRestOK
  PROVE  SetAtRestOK'
<1> SUFFICES ASSUME rec' = None, ~SetAwake', set' # Absent, cset' = set'
             PROVE  SetEndsWith(set.status)'
  BY DEF SetAtRestOK
<1>1. rec = None /\ ~SetAwake /\ set' = set /\ cset = set /\ cset' = cset /\ cdeps' = cdeps
      /\ cdeploy' = cdeploy
  BY DEF SetUntouched
<1>2. SetEndsWith(set.status)
  BY <1>1 DEF SetAtRestOK
<1>3. /\ \A s \in SetWanted(cset.spec) : SetSentOK(s) => SetSentOK(s)'
      /\ \A orphans : CollectedBut(orphans) => CollectedBut(orphans)'
  BY <1>1, ChildrenStay
<1>4. QED
  BY <1>1, <1>2, <1>3 DEF SetEndsWith

(* Users and Kubernetes: only a child that disappears matters.             *)
LEMMA RemovedKeepsOrWakes ==
  ASSUME SetTypeInv, NEW slot \in Slots, RemoveChild(slot), UNCHANGED <<caches, notes>>
  PROVE  SetAwake' \/ SetUntouched
<1> SUFFICES ASSUME ~SetAwake' PROVE SetUntouched
  OBVIOUS
<1>1. (queued => queued') /\ ~queued'
  BY DEF RemoveChild, ChildEvent, SetAwake
<1>2. SetAwake => SetAwake'
  BY <1>1 DEF SetAwake, caches
<1>3. /\ kids'[slot] = Absent /\ \A s \in Slots \ {slot} : kids'[s] = kids[s]
      /\ DeploySlot \in Slots /\ MapSlots \subseteq Slots /\ DeploySlot \notin MapSlots
  <2>1. SetStoreOK /\ SetQueuesOK
    BY SetTypeParts DEF SetTypeInv
  <2>2. QED
    BY <2>1, RemoveChildType, SlotsAreDistinct
<1>4. \/ slot \in MapSlots /\ cmaps[slot] # Absent
      \/ slot = DeploySlot /\ cdeploy # Absent
  <2>1. CASE slot \in MapSlots
    <3>1. cmaps[slot] # OwnerIn(kids', slot)
      BY <1>1, <1>3, <2>1 DEF RemoveChild, ChildEvent
    <3>2. QED
      BY <1>3, <2>1, <3>1 DEF OwnerIn
  <2>2. CASE slot = DeploySlot
    <3>1. cdeploy # DeployIn(kids', report')
      BY <1>1, <1>3, <2>2 DEF RemoveChild, ChildEvent
    <3>2. QED
      BY <1>3, <2>2, <3>1 DEF DeployIn
  <2>3. CASE slot \notin MapSlots \cup {DeploySlot}
    BY <1>1, <2>3 DEF RemoveChild, ChildEvent
  <2>4. QED
    BY <2>1, <2>2, <2>3
<1>5. ASSUME NEW s \in Slots, SetSentOK(s) PROVE SetSentOK(s)'
  <2>1. CASE s = slot
    BY <1>3, <1>4, <2>1 DEF SetSentOK, caches
  <2>2. CASE s # slot
    <3>1. kids'[s] = kids[s]
      BY <1>3, <2>2
    <3>2. QED
      BY <1>5, <3>1 DEF SetSentOK, SetRenderedFor, caches
  <2>3. QED
    BY <2>1, <2>2
<1>6. \A s \in MapSlots : Owner(s)' \in {Owner(s), Absent}
  <2> SUFFICES ASSUME NEW s \in MapSlots PROVE Owner(s)' \in {Owner(s), Absent}
    OBVIOUS
  <2>1. kids'[s] = Absent \/ kids'[s] = kids[s]
    BY <1>3
  <2>2. QED
    BY <2>1 DEF Owner, OwnerIn
<1>7. QED
  BY <1>2, <1>5, <1>6 DEF SetUntouched, caches

SetTracked == SetInProgressOK /\ SetAtRestOK

LEMMA SetOutsideSteps ==
  ASSUME SetTypeInv, SetVersionsOK, SetTracked, Edit \/ Cluster \/ ReportAny
  PROVE  SetTracked'
<1>1. ASSUME NEW s \in Slots, ChildDelete(s) \/ GarbageCollect(s) PROVE SetTracked'
  <2>1. RemoveChild(s) /\ UNCHANGED <<set, caches, notes, rec>>
    BY <1>1 DEF ChildDelete, GarbageCollect
  <2>2. CASE SetAwake'
    BY <2>2, AwakeAgain DEF SetTracked
  <2>3. CASE SetUntouched
    BY <2>1, <2>3, SetUntouchedInProgress, SetUntouchedAtRest DEF SetTracked
  <2>4. QED
    BY <2>1, <2>2, <2>3, RemovedKeepsOrWakes
<1>2. ASSUME UNCHANGED <<kids, caches, notes, queued, rec>>,
             set' \in {set, Absent} \/ set' # cset
      PROVE  SetTracked'
  <2>1. \A s \in Slots : SetSentOK(s) => SetSentOK(s)'
    BY <1>2 DEF SetSentOK, SetRenderedFor, caches
  <2>2. \A s \in MapSlots : Owner(s)' = Owner(s)
    BY <1>2 DEF Owner, OwnerIn
  <2>3. SetAwake => SetAwake'
    BY <1>2 DEF SetAwake, caches
  <2>4. SetUntouched
    BY <1>2, <2>1, <2>2, <2>3 DEF SetUntouched, caches
  <2>5. QED
    BY <1>2, <2>4, SetUntouchedInProgress, SetUntouchedAtRest DEF SetTracked
<1>3. /\ used["edits"] \in Nat
      /\ set # Absent => set.uid \in Nat /\ set.gen \in Nat
      /\ cset # Absent => cset.uid \in Nat /\ cset.gen \in Nat
  BY EditsUsed, SetsAre
<1>4. ASSUME NEW s \in plan.specs, SetCreate(s) PROVE SetTracked'
  <2>1. set'.uid = used["edits"] + 1 /\ set' = [uid |-> used'["edits"], spec |-> s, gen |-> 1, status |-> NoSetStatus]
    BY <1>4, EditsUsed DEF SetCreate
  <2>2. set' # Absent
    <3>1. s \in FlowSetSpec /\ used'["edits"] \in Nat
      <4>1. plan \in Plans
        BY DEF SetTypeInv, SetTypeOK
      <4>2. QED
        BY <1>3, <1>4, <4>1, EditsUsed, SetSpecsAre DEF SetCreate
    <3>2. set' \in FlowSetObj
      BY <2>1, <3>1, NoSetStatusType DEF FlowSetObj
    <3>3. QED
      BY <3>2, SetRecordsAssumption
  <2>3. set' # cset
    BY <1>3, <2>1, <2>2 DEF SetVersionsOK
  <2>4. QED
    BY <1>2, <1>4, <2>3 DEF SetCreate
<1>5. ASSUME NEW s \in plan.specs, SetEdit(s) PROVE SetTracked'
  <2>1. set # Absent /\ set'.uid = set.uid /\ set'.gen = set.gen + 1 /\ set' \in FlowSetObj
    <3>1. s \in FlowSetSpec
      <4>1. plan \in Plans
        BY DEF SetTypeInv, SetTypeOK
      <4>2. QED
        BY <1>5, <4>1, SetSpecsAre
    <3>2. set # Absent /\ set \in FlowSetObj
      BY <1>5, SetsAre DEF SetEdit
    <3>3. set' = [uid |-> set.uid, spec |-> s, gen |-> set.gen + 1, status |-> set.status]
      BY <1>5, <3>2 DEF SetEdit, FlowSetObj
    <3>4. set.gen + 1 \in Nat
      BY <1>3, <3>2
    <3>5. set' \in FlowSetObj
      BY <3>1, <3>2, <3>3, <3>4 DEF FlowSetObj
    <3>6. QED
      BY <3>2, <3>3, <3>5
  <2>2. set' # cset
    BY <1>3, <2>1, SetRecordsAssumption DEF SetVersionsOK
  <2>3. QED
    BY <1>2, <1>5, <2>2 DEF SetEdit
<1>6. ASSUME SetDelete PROVE SetTracked'
  BY <1>2, <1>6 DEF SetDelete
<1>7. ASSUME NEW o, NEW v, DepWrite(o, v) PROVE SetTracked'
  BY <1>2, <1>7 DEF DepWrite
<1>8. ASSUME PodStart \/ ReportAny \/ ReportReplicas([report EXCEPT !.observed = TRUE]) PROVE SetTracked'
  BY <1>2, <1>8 DEF PodStart, ReportAny, ReportReplicas, store
<1>9. QED
  BY <1>1, <1>4, <1>5, <1>6, <1>7, <1>8 DEF Edit, Cluster
(* Informers.  A dependency that changes in the cache wakes the set if one *)
(* of its flows reads it; if not, it makes no difference.                  *)
LEMMA SetUnreadDoesNotMatter ==
  ASSUME SetTypeInv, NEW o \in Deps, InformDep(o), ~SetAwake', cset # Absent
  PROVE  LET spec == cset.spec
             old == ForEvery(spec, cdeps)
             new == ForEvery(spec, cdeps')
         IN  /\ ~SetAwake
             /\ \A i \in Entries(spec) : \A g \in Gets(spec.flows[i], cdeps) : g[2] # o
             /\ SetOutcome(spec, new) = SetOutcome(spec, old)
             /\ SetOutcome(spec, old).reason = "Rendered" =>
                  /\ SetHash(spec, new) = SetHash(spec, old)
                  /\ \A s \in SetWanted(spec) : SetChild(s, spec, new) = SetChild(s, spec, old)
<1> DEFINE spec == cset.spec
           old == ForEvery(spec, cdeps)
           new == ForEvery(spec, cdeps')
<1>1. spec \in FlowSetSpec /\ cdeps \in Stores /\ notes \in SUBSET Deps
  BY SetsAre
<1>2. cset' = cset /\ queued' = queued /\ notes' = notes \cup {o}
      /\ \A x \in Deps \ {o} : cdeps'[x] = cdeps[x]
  BY <1>1 DEF InformDep, Stores
<1>3. cdeps' \in Stores
  <2>1. deps \in Stores
    BY DEF SetTypeInv, SetTypeOK
  <2>2. QED
    BY <1>1, <2>1 DEF InformDep, Stores
<1>4. ~WakesSet(o, spec, cdeps') /\ ~queued
  BY <1>2 DEF SetAwake
<1>5. ~SetAwake
  <2>1. SUFFICES ASSUME SetAwake PROVE FALSE
    OBVIOUS
  <2>2. PICK n \in notes : WakesSet(n, spec, cdeps)
    BY <1>4, <2>1 DEF SetAwake
  <2>3. WakesSet(n, spec, cdeps')
    BY <1>1, <1>2, <1>4, <2>2, SetWokenStaysWoken
  <2>4. QED
    BY <1>2, <2>3 DEF SetAwake
<1>6. \A i \in Entries(spec) : \A g \in Gets(spec.flows[i], cdeps) : g[2] # o
  BY <1>1, <1>2, <1>4, SetReadersAreWoken
<1>7. cdeps \in Readings /\ cdeps' \in Readings
  BY <1>1, <1>3, StoresAreReadings
<1>8. ASSUME NEW i \in Entries(spec)
      PROVE  /\ old[i] = cdeps /\ new[i] = cdeps'
             /\ \A g \in Gets(spec.flows[i], cdeps) : cdeps[g[2]] = cdeps'[g[2]]
  <2>1. old[i] = cdeps /\ new[i] = cdeps'
    BY <1>8 DEF ForEvery
  <2>2. \A g \in Gets(spec.flows[i], cdeps) : g[2] \in Deps
    BY <1>1, <1>7, <1>8, FlowOfSet, AsFlowIsTheFlow, GetsType
  <2>3. QED
    BY <1>2, <1>6, <1>8, <2>1, <2>2
<1> HIDE DEF old, new, spec
<1>9. /\ SetOutcome(spec, new) = SetOutcome(spec, old)
      /\ SetOutcome(spec, old).reason = "Rendered" =>
           /\ SetHash(spec, new) = SetHash(spec, old)
           /\ \A s \in SetWanted(spec) : SetChild(s, spec, new) = SetChild(s, spec, old)
  <2>1. \A i \in Entries(spec) : old[i] \in Readings /\ new[i] \in Readings
    BY <1>7, <1>8
  <2>2. \A i \in Entries(spec) : \A g \in Gets(spec.flows[i], old[i]) : old[i][g[2]] = new[i][g[2]]
    BY <1>8
  <2>3. QED
    BY <1>1, <2>1, <2>2, SameSet
<1>10. QED
  BY <1>5, <1>6, <1>9 DEF old, new, spec

(* What a reconcile in progress relies on is what the caches hold.         *)
LEMMA SetRenderingIsOfTheCaches ==
  ASSUME SetTypeInv, rec # None, rec.pc \in {"apply", "list", "collect"}, rec.orig = cset,
         \A i \in Entries(cset.spec) : PartOf(rec.got[i], cdeps)
  PROVE  LET got == ForEvery(cset.spec, cdeps)
         IN  /\ cset # Absent /\ cset.spec \in FlowSetSpec
             /\ SetOutcome(cset.spec, got).reason = "Rendered"
             /\ SetHash(cset.spec, got) = SetHash(rec.orig.spec, rec.got)
             /\ \A s \in SetWanted(cset.spec) :
                  SetChild(s, cset.spec, got) = SetChild(s, rec.orig.spec, rec.got)
<1>1. SetRecOK /\ SetRenderableOK
  BY SetTypeParts DEF SetTypeInv
<1>2. /\ cset \in FlowSetObj /\ cset.spec \in FlowSetSpec
      /\ \A i \in Entries(cset.spec) : rec.got[i] \in Readings
  BY <1>1, RecParts
<1>3. cset # Absent /\ cdeps \in Stores
  BY <1>2, SetsAre, SetRecordsAssumption
<1>4. SetOutcome(cset.spec, rec.got).reason = "Rendered"
  BY <1>1 DEF SetRenderableOK
<1>5. \A i \in Entries(cset.spec) : ToRead(cset.spec.flows[i], rec.got[i]) = {}
  BY <1>2, <1>4, SetRenderedMeans
<1>6. LET got == ForEvery(cset.spec, cdeps)
      IN  /\ SetOutcome(cset.spec, got) = SetOutcome(cset.spec, rec.got)
          /\ SetHash(cset.spec, got) = SetHash(cset.spec, rec.got)
          /\ \A s \in SetWanted(cset.spec) :
               SetChild(s, cset.spec, got) = SetChild(s, cset.spec, rec.got)
  BY <1>2, <1>3, <1>4, <1>5, SetRenderingIsOf
<1>7. QED
  BY <1>2, <1>3, <1>4, <1>6

LEMMA InformDepKeeps ==
  ASSUME SetTypeInv, SetReadingOK, SetTracked, NEW o \in Deps, InformDep(o)
  PROVE  SetTracked'
<1>1. /\ cset' = cset /\ cdeploy' = cdeploy /\ cmaps' = cmaps /\ kids' = kids /\ set' = set
      /\ rec' = rec /\ cdeps \in Stores
      /\ \A x \in Deps \ {o} : cdeps'[x] = cdeps[x]
  BY SetsAre DEF InformDep, store, Stores
<1> DEFINE spec == cset.spec
           old == ForEvery(spec, cdeps)
           new == ForEvery(spec, cdeps')
<1>2. ASSUME ~SetAwake', cset # Absent, SetOutcome(spec, old).reason = "Rendered",
             NEW s \in SetWanted(spec), SetSentOK(s)
      PROVE  SetSentOK(s)'
  <2>1. SetChild(s, spec, new) = SetChild(s, spec, old)
    BY <1>2, SetUnreadDoesNotMatter
  <2>2. (SetRenderedFor(s))' = SetRenderedFor(s)
    BY <1>1, <2>1 DEF SetRenderedFor
  <2>3. QED
    BY <1>1, <1>2, <2>2 DEF SetSentOK
<1>3. \A orphans : CollectedBut(orphans) => CollectedBut(orphans)'
  BY <1>1 DEF CollectedBut, Owner, OwnerIn
<1>4. ASSUME ~SetAwake', cset # Absent, NEW st, SetEndsWith(st)
      PROVE  /\ SetFailedApply(st) \/ st = SetFinalStatus(cset.status, cset, new, cdeploy)
             /\ ~SetFailedApply(st) /\ SetOutcome(spec, new).reason = "Rendered" =>
                  /\ \A s \in SetWanted(spec) : SetSentOK(s)'
                  /\ "gc" \notin FaultKinds => CollectedBut({})'
  <2>1. /\ SetOutcome(spec, new) = SetOutcome(spec, old)
        /\ SetOutcome(spec, old).reason = "Rendered" => SetHash(spec, new) = SetHash(spec, old)
    BY <1>4, SetUnreadDoesNotMatter
  <2>2. SetFinalStatus(cset.status, cset, new, cdeploy) = SetFinalStatus(cset.status, cset, old, cdeploy)
    BY <2>1 DEF SetFinalStatus
  <2>3. SetFailedApply(st) \/ /\ st = SetFinalStatus(cset.status, cset, old, cdeploy)
                              /\ SetOutcome(spec, old).reason = "Rendered" =>
                                   /\ \A s \in SetWanted(spec) : SetSentOK(s)
                                   /\ "gc" \notin FaultKinds => CollectedBut({})
    BY <1>4 DEF SetEndsWith
  <2> HIDE DEF old, new
  <2>4. QED
    BY <1>2, <1>3, <1>4, <2>1, <2>2, <2>3
<1>5. SetInProgressOK'
  <2> SUFFICES ASSUME rec # None, ~SetAwake'
               PROVE  (/\ rec.orig = cset
                       /\ \A i \in Entries(cset.spec), x \in Deps : rec.got[i][x] \in {Unread, cdeps[x]}
                       /\ rec.pc = "apply" => \A k \in 1..(rec.next - 1) :
                                                SetSentOK(SetApplyOrder(cset.spec)[k])
                       /\ rec.pc \in {"list", "collect"} => \A s \in SetWanted(cset.spec) : SetSentOK(s)
                       /\ rec.pc = "collect" /\ "gc" \notin FaultKinds => CollectedBut(rec.orphans)
                       /\ rec.pc = "patch" => SetEndsWith(rec.upd))'
    BY <1>1 DEF SetInProgressOK
  <2>1. /\ rec.orig \in FlowSetObj /\ rec.orig.spec \in FlowSetSpec
        /\ rec.next \in DOMAIN SetApplyOrder(rec.orig.spec)
        /\ \A i \in Entries(rec.orig.spec) : rec.got[i] \in Readings
    <3>1. SetRecOK
      BY SetTypeParts DEF SetTypeInv
    <3>2. QED
      BY <3>1, RecParts
  <2>2. ~SetAwake
    <3>1. SUFFICES ASSUME SetAwake PROVE FALSE
      OBVIOUS
    <3>2. queued' = queued
      BY DEF InformDep
    <3>3. cset # Absent
      BY <3>1, <3>2 DEF SetAwake
    <3>4. QED
      BY <3>1, <3>3, SetUnreadDoesNotMatter
  <2>3. /\ rec.orig = cset
        /\ \A i \in Entries(cset.spec), x \in Deps : rec.got[i][x] \in {Unread, cdeps[x]}
        /\ rec.pc = "apply" => \A k \in 1..(rec.next - 1) : SetSentOK(SetApplyOrder(cset.spec)[k])
        /\ rec.pc \in {"list", "collect"} => \A s \in SetWanted(cset.spec) : SetSentOK(s)
        /\ rec.pc = "collect" /\ "gc" \notin FaultKinds => CollectedBut(rec.orphans)
        /\ rec.pc = "patch" => SetEndsWith(rec.upd)
    BY <2>2 DEF SetTracked, SetInProgressOK
  <2>4. cset # Absent /\ spec \in FlowSetSpec /\ \A i \in Entries(spec) : PartOf(rec.got[i], cdeps)
    BY <2>1, <2>3, SetRecordsAssumption DEF PartOf
  <2>5. \A i \in Entries(spec) : rec.got[i][o] = Unread
    <3> SUFFICES ASSUME NEW i \in Entries(spec), rec.got[i][o] # Unread PROVE FALSE
      OBVIOUS
    <3>1. InOrderOK(spec.flows[i], rec.got[i]) /\ rec.got[i] \in Readings
      BY <2>1, <2>3 DEF SetReadingOK
    <3>2. PICK g \in Gets(spec.flows[i], rec.got[i]) : g[2] = o
      BY <3>1 DEF InOrderOK
    <3>3. /\ AsFlow(spec, i) \in FlowSpec
          /\ Gets(AsFlow(spec, i), rec.got[i]) = Gets(spec.flows[i], rec.got[i])
          /\ Gets(AsFlow(spec, i), cdeps) = Gets(spec.flows[i], cdeps)
      BY <2>4, FlowOfSet, AsFlowIsTheFlow
    <3>4. g \in Gets(spec.flows[i], cdeps)
      BY <1>1, <2>4, <3>1, <3>2, <3>3, GetsGrow, StoresAreReadings
    <3>5. QED
      BY <2>4, <3>2, <3>4, SetUnreadDoesNotMatter
  <2>6. \A i \in Entries(spec), x \in Deps : rec.got[i][x] \in {Unread, cdeps'[x]}
    BY <1>1, <2>3, <2>5
  <2>7. rec.pc \in {"apply", "list", "collect"} => SetOutcome(spec, old).reason = "Rendered"
    BY <2>3, <2>4, SetRenderingIsOfTheCaches
  <2>8. \A k \in 1..(rec.next - 1) : SetApplyOrder(spec)[k] \in SetWanted(spec)
    <3> DEFINE order == SetApplyOrder(spec)
    <3>1. /\ Len(order) \in Nat /\ DOMAIN order = 1..Len(order)
          /\ \A k \in DOMAIN order : order[k] \in SetWanted(spec)
      BY <2>4, EverythingIsSent
    <3>2. rec.next \in DOMAIN order
      BY <2>1, <2>3
    <3> HIDE DEF order
    <3>3. \A k \in 1..(rec.next - 1) : k \in DOMAIN order
      BY <3>1, <3>2
    <3>4. QED
      BY <3>1, <3>3 DEF order
  <2>9. (rec.pc = "apply" => \A k \in 1..(rec.next - 1) : SetSentOK(SetApplyOrder(cset.spec)[k]))'
    <3> SUFFICES ASSUME rec.pc = "apply", NEW k \in 1..(rec.next - 1)
                 PROVE  SetSentOK(SetApplyOrder(cset.spec)[k])'
      BY <1>1
    <3>1. PICK s \in SetWanted(cset.spec) : s = SetApplyOrder(cset.spec)[k]
      BY <2>8
    <3>2. SetSentOK(s)
      BY <2>3, <3>1
    <3>3. SetSentOK(s)'
      BY <1>2, <2>4, <2>7, <3>2
    <3>4. QED
      BY <1>1, <3>1, <3>3 DEF SetSentOK, SetRenderedFor
  <2>10. (rec.pc \in {"list", "collect"} => \A s \in SetWanted(cset.spec) : SetSentOK(s))'
    BY <1>1, <1>2, <2>3, <2>4, <2>7
  <2>11. (rec.pc = "collect" /\ "gc" \notin FaultKinds => CollectedBut(rec.orphans))'
    <3>1. PICK orphans : orphans = rec.orphans
      OBVIOUS
    <3>2. rec.pc = "collect" /\ "gc" \notin FaultKinds => CollectedBut(orphans)
      BY <2>3, <3>1 DEF CollectedBut
    <3>3. QED
      BY <1>1, <1>3, <3>1, <3>2 DEF CollectedBut
  <2>12. (rec.pc = "patch" => SetEndsWith(rec.upd))'
    <3>1. PICK st : st = rec.upd
      OBVIOUS
    <3>2. rec.pc = "patch" => SetEndsWith(st)
      BY <2>3, <3>1 DEF SetEndsWith
    <3>3. rec.pc = "patch" =>
            /\ SetFailedApply(st) \/ st = SetFinalStatus(cset.status, cset, new, cdeploy)
            /\ ~SetFailedApply(st) /\ SetOutcome(spec, new).reason = "Rendered" =>
                 /\ \A s \in SetWanted(spec) : SetSentOK(s)'
                 /\ "gc" \notin FaultKinds => CollectedBut({})'
      BY <1>4, <2>4, <3>2
    <3>4. QED
      BY <1>1, <3>1, <3>3 DEF SetEndsWith
  <2>13. QED
    BY <1>1, <2>3, <2>6, <2>9, <2>10, <2>11, <2>12
<1>6. SetAtRestOK'
  <2> SUFFICES ASSUME rec = None, ~SetAwake', set # Absent, cset = set
               PROVE  SetEndsWith(set.status)'
    BY <1>1 DEF SetAtRestOK
  <2>1. ~SetAwake
    BY SetUnreadDoesNotMatter
  <2>2. SetEndsWith(set.status)
    BY <2>1 DEF SetTracked, SetAtRestOK
  <2>3. PICK st : st = set.status
    OBVIOUS
  <2>4. SetEndsWith(st)
    BY <2>2, <2>3 DEF SetEndsWith
  <2>5. /\ SetFailedApply(st) \/ st = SetFinalStatus(cset.status, cset, new, cdeploy)
        /\ ~SetFailedApply(st) /\ SetOutcome(spec, new).reason = "Rendered" =>
             /\ \A s \in SetWanted(spec) : SetSentOK(s)'
             /\ "gc" \notin FaultKinds => CollectedBut({})'
    BY <1>4, <2>4
  <2>6. QED
    BY <1>1, <2>3, <2>5 DEF SetEndsWith
<1>7. QED
  BY <1>5, <1>6 DEF SetTracked

LEMMA SetInformsKeep ==
  ASSUME SetTypeInv, SetReadingOK, SetTracked, Inform
  PROVE  SetTracked'
<1>1. ASSUME InformSet \/ InformDeploy \/ \E s \in MapSlots : InformMap(s) PROVE SetTracked'
  <2>1. SetAwake'
    BY <1>1 DEF InformSet, InformDeploy, InformMap, SetAwake
  <2>2. QED
    BY <2>1, AwakeAgain DEF SetTracked
<1>2. QED
  BY <1>1, InformDepKeeps DEF Inform

LEMMA SetHandleKeeps ==
  ASSUME SetTypeInv, SetTracked, NEW n, Handle(n)
  PROVE  SetTracked'
<1>1. UNCHANGED <<set, kids, caches, rec>>
  BY DEF Handle, store
<1>2. SetAwake => SetAwake'
  BY DEF Handle, SetAwake, caches
<1>3. \A s \in Slots : SetSentOK(s) => SetSentOK(s)'
  BY <1>1 DEF SetSentOK, SetRenderedFor, caches
<1>4. \A s \in MapSlots : Owner(s)' = Owner(s)
  BY <1>1 DEF Owner, OwnerIn
<1>5. SetUntouched
  BY <1>1, <1>2, <1>3, <1>4 DEF SetUntouched, caches
<1>6. QED
  BY <1>1, <1>5, SetUntouchedInProgress, SetUntouchedAtRest DEF SetTracked

LEMMA SetCrashKeeps == ASSUME Crash PROVE SetTracked'
<1>1. rec' = None /\ queued' = (set # Absent) /\ set' = set
  BY DEF Crash, store
<1>2. SetInProgressOK'
  BY <1>1 DEF SetInProgressOK
<1>3. SetAtRestOK'
  BY <1>1 DEF SetAtRestOK, SetAwake
<1>4. QED
  BY <1>2, <1>3 DEF SetTracked
-----------------------------------------------------------------------------
(* The reconcile.  A step that changes nothing but the reconcile leaves    *)
(* what it relies on as it was.                                            *)
LEMMA SetQuietStep ==
  ASSUME UNCHANGED <<kids, caches>>
  PROVE  /\ \A s : SetSentOK(s) => SetSentOK(s)'
         /\ \A orphans : CollectedBut(orphans) => CollectedBut(orphans)'
         /\ \A st : SetEndsWith(st) => SetEndsWith(st)'
<1>2. \A s : SetSentOK(s) => SetSentOK(s)'
  BY DEF SetSentOK, SetRenderedFor, caches
<1>3. \A orphans : CollectedBut(orphans) => CollectedBut(orphans)'
  BY DEF CollectedBut, Owner, OwnerIn, caches
<1>4. ASSUME NEW st, SetEndsWith(st) PROVE SetEndsWith(st)'
  BY <1>2, <1>3, <1>4 DEF SetEndsWith, caches
<1>5. QED
  BY <1>2, <1>3, <1>4

(* What a reconcile that nothing has overtaken relies on.                  *)
LEMMA SetReliesOn ==
  ASSUME SetTypeInv, SetInProgressOK, rec # None, ~SetAwake
  PROVE  /\ rec.orig = cset /\ cset # Absent /\ cset.spec \in FlowSetSpec /\ cset.uid \in Nat
         /\ \A i \in Entries(cset.spec) :
              /\ rec.got[i] \in Readings /\ PartOf(rec.got[i], cdeps)
         /\ rec.pc = "apply" => \A k \in 1..(rec.next - 1) : SetSentOK(SetApplyOrder(cset.spec)[k])
         /\ rec.pc \in {"list", "collect"} => \A s \in SetWanted(cset.spec) : SetSentOK(s)
         /\ rec.pc = "collect" /\ "gc" \notin FaultKinds => CollectedBut(rec.orphans)
         /\ rec.pc = "patch" => SetEndsWith(rec.upd)
<1>1. /\ rec.orig \in FlowSetObj /\ rec.orig.spec \in FlowSetSpec /\ rec.orig.uid \in Nat
      /\ \A i \in Entries(rec.orig.spec) : rec.got[i] \in Readings
  <2>1. SetRecOK
    BY SetTypeParts DEF SetTypeInv
  <2>2. QED
    BY <2>1, RecParts
<1>2. /\ rec.orig = cset
      /\ \A i \in Entries(cset.spec), o \in Deps : rec.got[i][o] \in {Unread, cdeps[o]}
  BY DEF SetInProgressOK
<1>3. \A i \in Entries(cset.spec) : PartOf(rec.got[i], cdeps)
  BY <1>2 DEF PartOf
<1>4. cset # Absent
  BY <1>1, <1>2, SetRecordsAssumption
<1>5. QED
  BY <1>1, <1>2, <1>3, <1>4 DEF SetInProgressOK

LEMMA SetStartKeeps ==
  ASSUME SetTypeInv, Start
  PROVE  SetTracked'
<1>1. CASE cset = Absent
  BY <1>1 DEF Start, SetTracked, SetInProgressOK, SetAtRestOK, store, caches
<1>2. CASE cset # Absent
  <2> DEFINE unread == [o \in Deps |-> Unread]
             got == ForEvery(cset.spec, unread)
  <2>1. cset \in FlowSetObj /\ cset.spec \in FlowSetSpec /\ cset.status \in SetStatus
    BY <1>2, SetsAre
  <2>2. rec' = [orig |-> cset, pc |-> "resolve", next |-> 1, orphans |-> {},
                got |-> got, upd |-> cset.status]
    BY <1>2 DEF Start
  <2>3. got \in Seq(Readings) /\ \A i \in Entries(cset.spec) : got[i] = unread
    <3>1. unread \in Readings
      BY DEF Readings
    <3>2. QED
      BY <2>1, <3>1, ForEveryIs
  <2>4. \A i \in Entries(cset.spec), o \in Deps : got[i][o] = Unread
    BY <2>3
  <2> HIDE DEF got, unread
  <2>5. rec' # None
    <3>1. rec' \in SetReconciles
      BY <2>1, <2>2, <2>3 DEF SetReconciles
    <3>2. QED
      BY <3>1, SetRecordsAssumption
  <2>6. rec'.orig = cset /\ rec'.got = got /\ rec'.pc = "resolve" /\ cset' = cset /\ cdeps' = cdeps
    BY <2>2 DEF Start, caches
  <2>7. QED
    BY <2>4, <2>5, <2>6 DEF SetTracked, SetInProgressOK, SetAtRestOK
<1>3. QED
  BY <1>1, <1>2

LEMMA SetReadDepKeeps ==
  ASSUME SetTypeInv, SetReadingOK, SetTracked, ReadDep
  PROVE  SetTracked'
<1> DEFINE c == Current(rec.orig.spec, rec.got)
<1>1. rec # None /\ rec' # None /\ rec.pc = "resolve" /\ c \in Entries(rec.orig.spec)
  BY ReadDepIs
<1>2. PICK got :
        /\ rec' = [orig |-> rec.orig, pc |-> "resolve", next |-> rec.next,
                   orphans |-> rec.orphans, got |-> got, upd |-> rec.upd]
        /\ \A i \in Entries(rec.orig.spec) \ {c} : got[i] = rec.got[i]
        /\ \A o \in Deps : got[c][o] \in {rec.got[c][o], cdeps[o]}
  BY ReadDepIs
<1> HIDE DEF c
<1>3. rec'.orig = rec.orig /\ rec'.pc = "resolve" /\ rec'.got = got
  BY <1>2
<1>4. UNCHANGED <<store, caches, notes, queued>> /\ cset' = cset /\ cdeps' = cdeps
  BY DEF ReadDep, caches
<1>5. ASSUME ~SetAwake'
      PROVE  /\ rec.orig = cset
             /\ \A i \in Entries(cset.spec), o \in Deps : got[i][o] \in {Unread, cdeps[o]}
  <2>1. ~SetAwake
    BY <1>4, <1>5 DEF SetAwake, caches
  <2>2. rec.orig = cset /\ \A i \in Entries(cset.spec) : PartOf(rec.got[i], cdeps)
    BY <1>1, <2>1, SetReliesOn DEF SetTracked
  <2>3. ASSUME NEW i \in Entries(cset.spec), NEW o \in Deps PROVE got[i][o] \in {Unread, cdeps[o]}
    <3>1. rec.got[i][o] \in {Unread, cdeps[o]}
      BY <2>2, <2>3 DEF PartOf
    <3>2. CASE i = c
      BY <1>2, <3>1, <3>2
    <3>3. CASE i # c
      BY <1>2, <2>2, <3>1, <3>3
    <3>4. QED
      BY <3>2, <3>3
  <2>4. QED
    BY <2>2, <2>3
<1>6. QED
  BY <1>1, <1>3, <1>4, <1>5 DEF SetTracked, SetInProgressOK, SetAtRestOK
(* A refused flow is refused by the caches too, with the same message.     *)
LEMMA SetRenderKeeps ==
  ASSUME SetTypeInv, SetReadingOK, SetTracked, Render
  PROVE  SetTracked'
<1> DEFINE o == SetOutcome(rec.orig.spec, rec.got)
           got == ForEvery(cset.spec, cdeps)
<1>1. /\ rec # None /\ rec.pc = "resolve" /\ rec' # None
      /\ rec'.orig = rec.orig /\ rec'.got = rec.got
      /\ rec'.next = rec.next /\ rec'.orphans = rec.orphans
      /\ \/ o.reason = "Rendered" /\ rec'.pc = "apply" /\ rec'.upd = rec.upd
         \/ /\ o.reason # "Rendered" /\ rec'.pc = "patch"
            /\ rec'.upd = SetRefusedStatus(rec.upd, rec.orig.spec, rec.orig.gen,
                                           o.reason, o.flow, o.about)
  BY RenderIs
<1>2. UNCHANGED <<kids, caches, notes, queued>> /\ cset' = cset /\ cdeps' = cdeps
  BY DEF Render, caches, store
<1>3. rec.next = 1 /\ rec.upd = rec.orig.status
  BY <1>1 DEF SetReadingOK
<1>4. ASSUME ~SetAwake' PROVE SetInProgressOK'
  <2>1. ~SetAwake
    BY <1>2, <1>4 DEF SetAwake, caches
  <2>2. /\ rec.orig = cset /\ cset # Absent /\ cset.spec \in FlowSetSpec
        /\ \A i \in Entries(cset.spec) :
             /\ rec.got[i] \in Readings /\ PartOf(rec.got[i], cdeps)
    BY <1>1, <2>1, SetReliesOn DEF SetTracked
  <2>3. \A i \in Entries(cset.spec), x \in Deps : rec.got[i][x] \in {Unread, cdeps[x]}
    BY <2>2 DEF PartOf
  <2>4. CASE rec'.pc = "apply"
    <3>1. 1..(rec'.next - 1) = {}
      BY <1>1, <1>3
    <3>2. rec'.orig = cset' /\ \A i \in Entries(cset'.spec), x \in Deps :
                                 rec'.got[i][x] \in {Unread, cdeps'[x]}
      BY <1>1, <1>2, <2>2, <2>3
    <3>3. QED
      BY <2>4, <3>1, <3>2 DEF SetInProgressOK
  <2>5. CASE rec'.pc = "patch"
    <3>1. SetOutcome(cset.spec, got) = o
      <4>1. LET i == Current(cset.spec, rec.got)
            IN  \/ cset.spec.image = NoImage
                \/ Unresolved(cset.spec, rec.got) = {}
                \/ FlowRefused(cset.spec.flows[i], rec.got[i])
        BY <2>2 DEF Render, Reading
      <4>2. cdeps \in Stores /\ \A i \in Entries(cset.spec) : InOrderOK(cset.spec.flows[i], rec.got[i])
        BY <1>1, <2>2, SetsAre DEF SetReadingOK
      <4>3. QED
        BY <2>2, <4>1, <4>2, SetSameConclusion
    <3>2. PICK st : st = rec'.upd
      OBVIOUS
    <3>3. SetEndsWith(st)
      <4>1. o.reason # "Rendered"
        BY <1>1, <2>5
      <4>2. st = SetRefusedStatus(cset.status, cset.spec, cset.gen, o.reason, o.flow, o.about)
        BY <1>1, <1>3, <2>2, <2>5, <3>2
      <4> HIDE DEF o
      <4>3. st = SetFinalStatus(cset.status, cset, got, cdeploy)
        BY <3>1, <4>1, <4>2 DEF SetFinalStatus
      <4>4. QED
        BY <3>1, <4>1, <4>3 DEF SetEndsWith
    <3>4. SetEndsWith(st)'
      BY <1>2, <3>3, SetQuietStep
    <3>5. SetEndsWith(rec.upd)'
      BY <3>2, <3>4 DEF SetEndsWith
    <3>6. rec'.orig = cset' /\ \A i \in Entries(cset'.spec), x \in Deps :
                                 rec'.got[i][x] \in {Unread, cdeps'[x]}
      BY <1>1, <1>2, <2>2, <2>3
    <3>7. QED
      BY <2>5, <3>5, <3>6 DEF SetInProgressOK
  <2>6. QED
    BY <1>1, <2>4, <2>5
<1>5. QED
  BY <1>1, <1>4, AwakeAgain DEF SetTracked, SetAtRestOK

(* The status a reconcile ends with.                                       *)
LEMMA SetObserveKeeps ==
  ASSUME SetTypeInv, SetReadingOK, SetTracked, ObserveDeploy
  PROVE  SetTracked'
<1> DEFINE got == ForEvery(cset.spec, cdeps)
<1>1. /\ rec # None /\ rec.pc = "collect" /\ rec' # None
      /\ rec'.orig = rec.orig /\ rec'.got = rec.got
      /\ rec'.pc = "patch"
      /\ rec'.upd = SetObservedStatus(rec.upd, rec.orig.spec, rec.orig.gen,
                                      SetHash(rec.orig.spec, rec.got), cdeploy)
  BY CollectIs
<1>2. UNCHANGED <<kids, caches, notes, queued>> /\ cset' = cset /\ cdeps' = cdeps
      /\ rec.orphans = {}
  BY DEF ObserveDeploy, caches, store
<1>3. rec.upd = rec.orig.status
  BY <1>1 DEF SetReadingOK
<1>4. ASSUME ~SetAwake' PROVE SetInProgressOK'
  <2>1. ~SetAwake
    BY <1>2, <1>4 DEF SetAwake, caches
  <2>2. /\ rec.orig = cset /\ cset # Absent /\ cset.spec \in FlowSetSpec
        /\ \A i \in Entries(cset.spec) :
             /\ rec.got[i] \in Readings /\ PartOf(rec.got[i], cdeps)
        /\ \A s \in SetWanted(cset.spec) : SetSentOK(s)
        /\ "gc" \notin FaultKinds => CollectedBut(rec.orphans)
    BY <1>1, <2>1, SetReliesOn DEF SetTracked
  <2>3. \A i \in Entries(cset.spec), x \in Deps : rec.got[i][x] \in {Unread, cdeps[x]}
    BY <2>2 DEF PartOf
  <2>4. /\ SetOutcome(cset.spec, got).reason = "Rendered"
        /\ SetHash(cset.spec, got) = SetHash(rec.orig.spec, rec.got)
    BY <1>1, <2>2, SetRenderingIsOfTheCaches
  <2>5. PICK st : st = rec'.upd
    OBVIOUS
  <2>6. SetEndsWith(st)
    <3>1. st = SetFinalStatus(cset.status, cset, got, cdeploy)
      BY <1>1, <1>3, <2>2, <2>4, <2>5 DEF SetFinalStatus
    <3>2. "gc" \notin FaultKinds => CollectedBut({})
      BY <1>2, <2>2
    <3>3. QED
      BY <2>2, <3>1, <3>2 DEF SetEndsWith
  <2>7. SetEndsWith(st)'
    BY <1>2, <2>6, SetQuietStep
  <2>8. SetEndsWith(rec.upd)'
    BY <2>5, <2>7 DEF SetEndsWith
  <2>9. rec'.orig = cset' /\ \A i \in Entries(cset'.spec), x \in Deps :
                               rec'.got[i][x] \in {Unread, cdeps'[x]}
    BY <1>1, <1>2, <2>2, <2>3
  <2>10. QED
    BY <1>1, <2>8, <2>9 DEF SetInProgressOK
<1>5. QED
  BY <1>1, <1>4, AwakeAgain DEF SetTracked, SetAtRestOK

(* A ConfigMap that gcOrphans does not find is one its cache is to learn of. *)
LEMMA SetListKeeps ==
  ASSUME SetTypeInv, SetTracked, ListOrphans
  PROVE  SetTracked'
<1>1. /\ rec # None /\ rec.pc = "list" /\ rec' # None
      /\ rec'.orig = rec.orig /\ rec'.got = rec.got /\ rec'.pc = "collect"
      /\ rec'.orphans = {s \in MapSlots \ WantedMaps(rec.orig.spec) : cmaps[s] = rec.orig.uid}
  BY CollectIs
<1>2. UNCHANGED <<kids, caches, notes, queued>> /\ cset' = cset /\ cdeps' = cdeps
  BY DEF ListOrphans, caches, store
<1>3. ASSUME ~SetAwake' PROVE SetInProgressOK'
  <2>1. ~SetAwake
    BY <1>2, <1>3 DEF SetAwake, caches
  <2>2. /\ rec.orig = cset
        /\ \A i \in Entries(cset.spec) : PartOf(rec.got[i], cdeps)
        /\ \A s \in SetWanted(cset.spec) : SetSentOK(s)
    BY <1>1, <2>1, SetReliesOn DEF SetTracked
  <2>3. \A i \in Entries(cset.spec), x \in Deps : rec.got[i][x] \in {Unread, cdeps[x]}
    BY <2>2 DEF PartOf
  <2>4. PICK orphans : orphans = rec'.orphans
    OBVIOUS
  <2>5. CollectedBut(orphans)
    BY <1>1, <2>2, <2>4 DEF CollectedBut
  <2>6. CollectedBut(orphans)' /\ \A s \in SetWanted(cset.spec) : SetSentOK(s)'
    BY <1>2, <2>2, <2>5, SetQuietStep
  <2>7. CollectedBut(rec.orphans)'
    BY <2>4, <2>6 DEF CollectedBut
  <2>8. rec'.orig = cset' /\ \A i \in Entries(cset'.spec), x \in Deps :
                               rec'.got[i][x] \in {Unread, cdeps'[x]}
    BY <1>1, <1>2, <2>2, <2>3
  <2>9. QED
    BY <1>1, <1>2, <2>6, <2>7, <2>8 DEF SetInProgressOK
<1>4. QED
  BY <1>1, <1>3, AwakeAgain DEF SetTracked, SetAtRestOK
(* What an apply sends is what the caches call for, and nothing else changes. *)
LEMMA SetAppliedIs ==
  ASSUME SetTypeInv, SetTracked, At("apply"), SetApplied, UNCHANGED <<set, deps, caches, notes>>,
         ~SetAwake'
  PROVE  /\ ~SetAwake /\ rec.orig = cset /\ cset # Absent
         /\ \A i \in Entries(cset.spec), x \in Deps : rec.got[i][x] \in {Unread, cdeps[x]}
         /\ \A k \in 1..rec.next : SetSentOK(SetApplyOrder(cset.spec)[k])'
<1>1. /\ SetStoreOK /\ SetRecOK /\ SetRenderableOK /\ SetQueuesOK /\ rec # None /\ rec.pc = "apply"
      /\ cset' = cset /\ cdeps' = cdeps /\ cmaps' = cmaps /\ cdeploy' = cdeploy
  BY SetTypeParts DEF SetTypeInv, At, caches
<1>2. ~SetAwake
  <2>1. queued => queued'
    BY DEF SetApplied, ChildEvent
  <2>2. QED
    BY <2>1 DEF SetAwake, caches
<1>3. /\ rec.orig = cset /\ cset # Absent /\ cset.spec \in FlowSetSpec
      /\ \A i \in Entries(cset.spec) :
           /\ rec.got[i] \in Readings /\ PartOf(rec.got[i], cdeps)
      /\ \A k \in 1..(rec.next - 1) : SetSentOK(SetApplyOrder(cset.spec)[k])
  BY <1>1, <1>2, SetReliesOn DEF SetTracked
<1>4. /\ Slot \in SetWanted(cset.spec) /\ Slot \in Slots
      /\ kids' = [kids EXCEPT ![Slot] =
                    [owner |-> rec.orig.uid, body |-> SetChild(Slot, rec.orig.spec, rec.got)]]
  BY <1>1, <1>3, SetAppliedType
<1>5. PICK slot \in Slots : slot = Slot
  BY <1>4
<1>6. kids'[slot] = (SetRenderedFor(slot))'
  <2>1. SetChild(slot, cset.spec, ForEvery(cset.spec, cdeps)) = SetChild(slot, rec.orig.spec, rec.got)
    BY <1>1, <1>3, <1>4, <1>5, SetRenderingIsOfTheCaches
  <2>2. DOMAIN kids = Slots
    BY <1>1 DEF SetStoreOK
  <2>3. kids'[slot] = [owner |-> rec.orig.uid, body |-> SetChild(slot, rec.orig.spec, rec.got)]
    BY <1>4, <1>5, <2>2
  <2>4. QED
    BY <1>1, <1>3, <2>1, <2>3 DEF SetRenderedFor
<1>7. ASSUME NEW s, SetSentOK(s) PROVE SetSentOK(s)'
  <2>1. CASE s = slot
    BY <1>6, <2>1 DEF SetSentOK
  <2>2. CASE s # slot
    <3>1. kids'[s] = kids[s]
      BY <1>1, <1>4, <1>5, <2>2 DEF SetStoreOK
    <3>2. QED
      BY <1>1, <1>7, <3>1 DEF SetSentOK, SetRenderedFor
  <2>3. QED
    BY <2>1, <2>2
<1>8. ASSUME NEW k \in 1..rec.next PROVE SetSentOK(SetApplyOrder(cset.spec)[k])'
  <2>1. rec.next \in Nat
    BY <1>1, RecParts
  <2>2. PICK s : s = SetApplyOrder(cset.spec)[k]
    OBVIOUS
  <2>3. CASE k = rec.next
    <3>1. s = slot
      BY <1>3, <1>5, <2>2, <2>3 DEF Slot
    <3>2. SetSentOK(s)'
      BY <1>6, <3>1 DEF SetSentOK
    <3>3. QED
      BY <1>1, <2>2, <3>2 DEF SetSentOK, SetRenderedFor
  <2>4. CASE k # rec.next
    <3>1. k \in 1..(rec.next - 1)
      BY <2>1, <2>4
    <3>2. SetSentOK(s)
      BY <1>3, <2>2, <3>1
    <3>3. SetSentOK(s)'
      BY <1>7, <3>2
    <3>4. QED
      BY <1>1, <2>2, <3>3 DEF SetSentOK, SetRenderedFor
  <2>5. QED
    BY <2>3, <2>4
<1>9. QED
  BY <1>2, <1>3, <1>8 DEF PartOf

LEMMA SetApplyChildKeeps ==
  ASSUME SetTypeInv, SetTracked, ApplyChild
  PROVE  SetTracked'
<1> DEFINE n == Len(SetApplyOrder(rec.orig.spec))
<1>1. /\ rec # None /\ rec.pc = "apply" /\ rec' # None
      /\ rec'.orig = rec.orig /\ rec'.got = rec.got
      /\ rec.next \in 1..n /\ n \in Nat
      /\ \/ rec.next = n /\ rec'.pc = "list"
         \/ rec.next # n /\ rec'.pc = "apply" /\ rec'.next = rec.next + 1
  BY ApplyIs
<1>2. /\ At("apply") /\ SetApplied /\ UNCHANGED <<set, deps, caches, notes>>
      /\ cset' = cset /\ cdeps' = cdeps
  BY DEF ApplyChild, caches
<1>3. ASSUME ~SetAwake' PROVE SetInProgressOK'
  <2>1. /\ rec.orig = cset /\ cset # Absent
        /\ \A i \in Entries(cset.spec), x \in Deps : rec.got[i][x] \in {Unread, cdeps[x]}
        /\ \A k \in 1..rec.next : SetSentOK(SetApplyOrder(cset.spec)[k])'
    BY <1>2, <1>3, SetAppliedIs
  <2>2. rec'.orig = cset' /\ \A i \in Entries(cset'.spec), x \in Deps :
                               rec'.got[i][x] \in {Unread, cdeps'[x]}
    BY <1>1, <1>2, <2>1
  <2>3. CASE rec.next = n /\ rec'.pc = "list"
    <3>1. cset.spec \in FlowSetSpec
      BY <2>1, SetsAre
    <3>2. \A s \in SetWanted(cset.spec) : \E k \in 1..rec.next : SetApplyOrder(cset.spec)[k] = s
      BY <2>1, <2>3, <3>1, EverythingIsSent
    <3>3. ASSUME NEW s \in SetWanted(cset.spec) PROVE SetSentOK(s)'
      <4>1. PICK k \in 1..rec.next : SetApplyOrder(cset.spec)[k] = s
        BY <3>2
      <4>2. SetSentOK(SetApplyOrder(cset.spec)[k])'
        BY <2>1
      <4>3. QED
        BY <1>2, <4>1, <4>2 DEF SetSentOK, SetRenderedFor
    <3>4. QED
      BY <1>2, <2>2, <2>3, <3>3 DEF SetInProgressOK
  <2>4. CASE rec'.pc = "apply" /\ rec'.next = rec.next + 1
    <3>1. rec'.next - 1 = rec.next
      BY <1>1, <2>4
    <3>2. (\A k \in 1..(rec.next - 1) : SetSentOK(SetApplyOrder(cset.spec)[k]))'
      BY <1>2, <2>1, <3>1
    <3>3. QED
      BY <2>2, <2>4, <3>2 DEF SetInProgressOK
  <2>5. QED
    BY <1>1, <2>3, <2>4
<1>4. QED
  BY <1>1, <1>3, AwakeAgain DEF SetTracked, SetAtRestOK

(* A failing apply is what the status then says.                           *)
LEMMA SetApplyFailsKeeps ==
  ASSUME SetTypeInv, SetTracked, ApplyFails
  PROVE  SetTracked'
<1> DEFINE upd == SetRefusedStatus(rec.upd, rec.orig.spec, rec.orig.gen, "Error", Slot[1], Slot[2])
<1>1. /\ rec # None /\ rec.pc = "apply" /\ rec' # None
      /\ rec'.orig = rec.orig /\ rec'.got = rec.got
      /\ rec'.pc = "patch" /\ rec'.upd = upd
  BY ApplyIs
<1>2. /\ At("apply") /\ (SetApplied \/ UNCHANGED <<kids, report, queued>>)
      /\ UNCHANGED <<set, deps, caches, notes>> /\ cset' = cset /\ cdeps' = cdeps
  BY DEF ApplyFails, caches
<1>3. SetFailedApply(upd)
  <2>1. SetRecOK
    BY SetTypeParts DEF SetTypeInv
  <2>2. rec.upd \in SetStatus /\ rec.orig.spec \in FlowSetSpec /\ rec.orig.gen \in Nat
        /\ rec.next \in DOMAIN SetApplyOrder(rec.orig.spec)
    BY <1>1, <2>1, RecParts
  <2>3. Slot \in Slots
    BY <2>2, EverythingIsSent, WantedSlots DEF Slot
  <2>4. Slot[1] \in Flows \cup {None} /\ Slot[2] \in {s[2] : s \in Slots}
    BY <2>3, PartsOfASlot
  <2>5. upd \in SetStatus
    BY <2>2, <2>4, SetRefusedStatusType
  <2> DEFINE msg == [NoMessage EXCEPT !.flow = Slot[1], !.about = Slot[2]]
             cond == [ready |-> FALSE, reason |-> "Error", gen |-> rec.orig.gen, msg |-> msg]
  <2>6. upd.cond = cond
    <3> HIDE DEF cond
    <3>1. upd = [rec.upd EXCEPT !.gen = rec.orig.gen, !.total = Len(rec.orig.spec.flows),
                   !.phase = "Failed", !.cond = cond]
      BY DEF SetRefusedStatus, cond
    <3> HIDE DEF upd
    <3>2. QED
      BY <2>2, <3>1 DEF SetStatus
  <2>7. msg.about = Slot[2]
    BY DEF NoMessage
  <2> HIDE DEF msg, upd
  <2>8. cond.reason = "Error" /\ cond.msg.about = Slot[2]
    BY <2>7
  <2>9. cond # None
    <3>1. msg \in SetMessages
      <4>1. NoMessage \in SetMessages
        BY DEF NoMessage, SetMessages, Phases
      <4>2. QED
        BY <2>4, <4>1 DEF SetMessages, msg
    <3>2. cond \in SetConditions
      BY <2>2, <3>1 DEF SetConditions
    <3>3. QED
      BY <3>2, SetRecordsAssumption
  <2>10. QED
    BY <2>4, <2>6, <2>8, <2>9 DEF SetFailedApply
<1> HIDE DEF upd
<1>4. SetEndsWith(rec.upd)'
  BY <1>1, <1>3 DEF SetEndsWith, SetFailedApply
<1>5. ASSUME ~SetAwake'
      PROVE  /\ rec.orig = cset
             /\ \A i \in Entries(cset.spec), x \in Deps : rec.got[i][x] \in {Unread, cdeps[x]}
  <2>1. queued => queued'
    BY <1>2 DEF SetApplied, ChildEvent
  <2>2. ~SetAwake
    BY <1>2, <1>5, <2>1 DEF SetAwake, caches
  <2>3. QED
    BY <1>1, <2>2 DEF SetTracked, SetInProgressOK
<1>6. QED
  BY <1>1, <1>2, <1>4, <1>5 DEF SetTracked, SetInProgressOK, SetAtRestOK
-----------------------------------------------------------------------------
(* Collecting.  A ConfigMap that is deleted, or was gone already, need not *)
(* be deleted any more.                                                    *)
LEMMA SetDeleteKeeps ==
  ASSUME SetTypeInv, SetTracked, NEW slot \in MapSlots, DeleteOrphan(slot)
  PROVE  SetTracked'
<1>1. /\ rec # None /\ rec.pc = "collect" /\ rec' # None
      /\ rec'.orig = rec.orig /\ rec'.got = rec.got
      /\ rec'.pc = "collect" /\ rec'.orphans = rec.orphans \ {slot}
  BY CollectIs
<1>2. /\ RemoveChild(slot) \/ (kids[slot] = Absent /\ UNCHANGED <<kids, report, queued, pod>>)
      /\ UNCHANGED <<set, deps, caches, notes, used>> /\ cset' = cset /\ cdeps' = cdeps
  BY DEF DeleteOrphan, caches
<1>3. slot \in Slots
  BY SlotsAreDistinct
<1>4. ASSUME ~SetAwake' PROVE SetInProgressOK'
  <2>1. queued => queued'
    BY <1>2 DEF RemoveChild, ChildEvent
  <2>2. ~SetAwake
    BY <1>2, <1>4, <2>1 DEF SetAwake, caches
  <2>3. /\ rec.orig = cset /\ cset # Absent /\ cset.uid \in Nat
        /\ \A i \in Entries(cset.spec) : PartOf(rec.got[i], cdeps)
        /\ \A s \in SetWanted(cset.spec) : SetSentOK(s)
        /\ "gc" \notin FaultKinds => CollectedBut(rec.orphans)
    BY <1>1, <2>2, SetReliesOn DEF SetTracked
  <2>4. \A i \in Entries(cset.spec), x \in Deps : rec.got[i][x] \in {Unread, cdeps[x]}
    BY <2>3 DEF PartOf
  <2>5. /\ Owner(slot)' = Absent
        /\ \A s \in SetWanted(cset.spec) : SetSentOK(s)'
        /\ \A orphans : CollectedBut(orphans) => CollectedBut(orphans)'
    <3>1. CASE RemoveChild(slot)
      <4>1. SetUntouched
        BY <1>2, <1>3, <1>4, <3>1, RemovedKeepsOrWakes
      <4>2. kids'[slot] = Absent
        <5>1. SetStoreOK /\ SetQueuesOK
          BY SetTypeParts DEF SetTypeInv
        <5>2. QED
          BY <1>3, <3>1, <5>1, RemoveChildType
      <4>3. QED
        BY <2>3, <4>1, <4>2, ChildrenStay DEF Owner, OwnerIn
    <3>2. CASE kids[slot] = Absent /\ kids' = kids
      BY <1>2, <2>3, <3>2, SetQuietStep DEF Owner, OwnerIn
    <3>3. QED
      BY <1>2, <3>1, <3>2
  <2>6. ("gc" \notin FaultKinds => CollectedBut(rec.orphans))'
    <3>1. PICK orphans : orphans = rec.orphans
      OBVIOUS
    <3>2. "gc" \notin FaultKinds => CollectedBut(orphans)'
      BY <2>3, <2>5, <3>1 DEF CollectedBut
    <3>3. cset.uid # Absent
      BY <2>3, SetRecordsAssumption
    <3>4. QED
      BY <1>1, <1>2, <2>5, <3>1, <3>2, <3>3 DEF CollectedBut
  <2>7. rec'.orig = cset' /\ \A i \in Entries(cset'.spec), x \in Deps :
                               rec'.got[i][x] \in {Unread, cdeps'[x]}
    BY <1>1, <1>2, <2>3, <2>4
  <2>8. QED
    BY <1>1, <1>2, <2>5, <2>6, <2>7 DEF SetInProgressOK
<1>5. QED
  BY <1>1, <1>4, AwakeAgain DEF SetTracked, SetAtRestOK

(* A failing delete leaves the others, whose absence is not claimed then.  *)
LEMMA SetDeleteFailsKeeps ==
  ASSUME SetTypeInv, SetTracked, DeleteFails
  PROVE  SetTracked'
<1>1. /\ rec # None /\ rec.pc = "collect" /\ rec' # None
      /\ rec'.orig = rec.orig /\ rec'.got = rec.got
      /\ rec'.pc = "collect" /\ rec'.orphans = {}
  BY CollectIs
<1>2. /\ UNCHANGED <<kids, report, queued, pod>> \/ \E s \in rec.orphans : RemoveChild(s)
      /\ UNCHANGED <<set, deps, caches, notes>> /\ cset' = cset /\ cdeps' = cdeps
      /\ "gc" \in FaultKinds
  BY DEF DeleteFails, Fault, caches
<1>3. rec.orphans \subseteq Slots
  <2>1. SetRecOK
    BY SetTypeParts DEF SetTypeInv
  <2>2. QED
    BY <1>1, <2>1, RecParts, SlotsAreDistinct
<1>4. ASSUME ~SetAwake' PROVE SetInProgressOK'
  <2>1. queued => queued'
    BY <1>2 DEF RemoveChild, ChildEvent
  <2>2. ~SetAwake
    BY <1>2, <1>4, <2>1 DEF SetAwake, caches
  <2>3. /\ rec.orig = cset /\ cset # Absent
        /\ \A i \in Entries(cset.spec) : PartOf(rec.got[i], cdeps)
        /\ \A s \in SetWanted(cset.spec) : SetSentOK(s)
    BY <1>1, <2>2, SetReliesOn DEF SetTracked
  <2>4. \A i \in Entries(cset.spec), x \in Deps : rec.got[i][x] \in {Unread, cdeps[x]}
    BY <2>3 DEF PartOf
  <2>5. \A s \in SetWanted(cset.spec) : SetSentOK(s)'
    <3>1. CASE kids' = kids
      BY <1>2, <2>3, <3>1, SetQuietStep
    <3>2. CASE \E s \in rec.orphans : RemoveChild(s)
      <4>1. PICK slot \in rec.orphans : RemoveChild(slot)
        BY <3>2
      <4>2. SetUntouched
        BY <1>2, <1>3, <1>4, <4>1, RemovedKeepsOrWakes
      <4>3. QED
        BY <2>3, <4>2, ChildrenStay
    <3>3. QED
      BY <1>2, <3>1, <3>2
  <2>6. rec'.orig = cset' /\ \A i \in Entries(cset'.spec), x \in Deps :
                               rec'.got[i][x] \in {Unread, cdeps'[x]}
    BY <1>1, <1>2, <2>3, <2>4
  <2>7. QED
    BY <1>1, <1>2, <2>5, <2>6 DEF SetInProgressOK
<1>5. QED
  BY <1>1, <1>4, AwakeAgain DEF SetTracked, SetAtRestOK

(* Patching.  If the cache shows the FlowSet as the patch leaves it, the   *)
(* patch changed nothing: its status was the one the reconcile ends with.  *)
LEMMA SetPatchKeeps ==
  ASSUME SetTypeInv, SetTracked, PatchStatus
  PROVE  SetTracked'
<1>1. /\ rec # None /\ rec.pc = "patch" /\ set # Absent /\ Patched /\ rec' = None
      /\ UNCHANGED <<kids, caches>> /\ cset' = cset
  BY DEF PatchStatus, At, caches
<1>2. SetInProgressOK'
  BY <1>1 DEF SetInProgressOK
<1>3. ASSUME ~SetAwake', cset' = set' PROVE SetEndsWith(set.status)'
  <2>1. ~SetAwake
    BY <1>3 DEF SetAwake, PatchStatus, caches
  <2>2. rec.orig = cset /\ SetEndsWith(rec.upd)
    BY <1>1, <2>1 DEF SetTracked, SetInProgressOK
  <2>3. set'.status = SetMerged(set.status, rec.orig.status, rec.upd)
    BY <1>1, PatchedIs
  <2>4. SetRecOK /\ set.status \in SetStatus
    BY <1>1, SetTypeParts, SetsAre DEF SetTypeInv
  <2>5. rec.orig.status \in SetStatus /\ rec.upd \in SetStatus
    BY <1>1, <2>4, RecParts
  <2>6. SetMerged(set.status, rec.orig.status, rec.upd) = rec.orig.status
    BY <1>1, <1>3, <2>2, <2>3
  <2>7. rec.upd = rec.orig.status
    BY <2>4, <2>5, <2>6, SetMergedIs
  <2>8. PICK st : st = rec.upd
    OBVIOUS
  <2>9. set'.status = st
    BY <2>3, <2>6, <2>7, <2>8
  <2>10. SetEndsWith(st)
    BY <2>2, <2>8 DEF SetEndsWith
  <2>11. SetEndsWith(st)'
    BY <1>1, <2>10, SetQuietStep
  <2>12. QED
    BY <2>9, <2>11 DEF SetEndsWith
<1>4. QED
  BY <1>2, <1>3 DEF SetTracked, SetAtRestOK

LEMMA SetPatchFailsKeeps ==
  ASSUME PatchStatusFails
  PROVE  SetTracked'
<1>1. SetAwake'
  BY DEF PatchStatusFails, SetAwake
<1>2. QED
  BY <1>1, AwakeAgain DEF SetTracked
-----------------------------------------------------------------------------
(* At the start the set is up, as a reconcile left it.                     *)
LEMMA SetTrackingInit == Init => SetTracking
<1> SUFFICES ASSUME Init PROVE SetTracking
  OBVIOUS
<1> DEFINE spec == plan.start
           got == ForEvery(spec, deps)
           obj == [uid |-> 0, spec |-> spec, gen |-> 1, status |-> NoSetStatus]
           status == SetFinalStatus(NoSetStatus, obj, got, cdeploy)
<1>1. SetTypeInv
  BY SetTypeInit
<1>2. plan \in Plans /\ deps = StartDeps /\ cdeps = deps /\ cset = set /\ rec = None /\ notes = {}
      /\ set = [obj EXCEPT !.status = status] /\ used["edits"] = 0
  BY DEF Init, Budgets
<1>3. spec \in FlowSetSpec /\ SetOutcome(spec, got).reason = "Rendered"
  BY <1>2, SetInputsAssumption
<1>4. set = [uid |-> 0, spec |-> spec, gen |-> 1, status |-> status]
  <2> HIDE DEF status
  <2>1. QED
    BY <1>2
<1>5. set.uid = 0 /\ set.gen = 1 /\ set.spec = spec /\ set.status = status
  <2> HIDE DEF status
  <2>1. QED
    BY <1>4
<1>6. cdeploy # Absent
  <2>1. DeploySlot \in Slots /\ SetStoreOK
    BY <1>1, SlotsAreDistinct, SetTypeParts DEF SetTypeInv
  <2>2. kids[DeploySlot] = [owner |-> 0, body |-> SetChild(DeploySlot, spec, got)]
    BY <2>1 DEF Init
  <2>3. kids[DeploySlot].owner = 0
    BY <2>2
  <2>4. cdeploy = [kid |-> kids[DeploySlot], status |-> report] /\ cdeploy \in CachedDeploys \cup {Absent}
    BY <1>1 DEF Init, SetTypeInv, SetTypeOK
  <2>5. CASE kids[DeploySlot] = Absent
    <3>1. \A s \in SetWanted(spec) : SetChild(s, spec, got) \in SetChildBody(s)
      <4>1. \A i \in Entries(spec) : got[i] \in Readings
        BY <1>1, <1>2, <1>3, ForEveryIs, StoresAreReadings, SetsAre
      <4>2. QED
        BY <1>3, <4>1, SetRenderingType
    <3>2. kids[DeploySlot] \in KidObj(DeploySlot)
      BY <2>2, <3>1 DEF KidObj, SetWanted
    <3>3. QED
      BY <2>1, <2>5, <3>2, SetRecordsAssumption
  <2>6. CASE kids[DeploySlot] # Absent
    <3>1. kids[DeploySlot] \in KidObj(DeploySlot)
      BY <2>1, <2>6 DEF SetStoreOK
    <3>2. cdeploy \in CachedDeploys
      BY <2>1, <2>4, <3>1 DEF CachedDeploys, SetStoreOK
    <3>3. QED
      BY <3>2, SetRecordsAssumption
  <2>7. QED
    BY <2>5, <2>6
<1>7. \A s \in Slots : kids[s] = IF s \notin SetWanted(spec) THEN Absent
                                 ELSE [owner |-> 0, body |-> SetChild(s, spec, got)]
  BY DEF Init, SetWanted
<1>8. SetVersionsOK
  BY <1>2, <1>5 DEF SetVersionsOK
<1>9. SetReadingOK /\ SetRenderableOK /\ SetInProgressOK
  BY <1>2 DEF SetReadingOK, SetRenderableOK, SetInProgressOK
<1>10. status = SetFinalStatus(cset.status, cset, got, cdeploy)
  <2>1. \A st : SetObservedStatus(st, spec, 1, SetHash(spec, got), cdeploy)
                  = SetObservedStatus(NoSetStatus, spec, 1, SetHash(spec, got), cdeploy)
    BY <1>6 DEF SetObservedStatus
  <2>2. status = SetObservedStatus(NoSetStatus, spec, 1, SetHash(spec, got), cdeploy)
    BY <1>3 DEF SetFinalStatus
  <2>3. \A st : SetFinalStatus(st, cset, got, cdeploy)
                  = SetObservedStatus(st, spec, 1, SetHash(spec, got), cdeploy)
    BY <1>2, <1>3, <1>5 DEF SetFinalStatus
  <2> HIDE DEF status
  <2>4. QED
    BY <2>1, <2>2, <2>3
<1> HIDE DEF status, got
<1>11. \A s \in SetWanted(spec) : SetSentOK(s)
  <2> SUFFICES ASSUME NEW s \in SetWanted(spec) PROVE kids[s] = SetRenderedFor(s)
    BY DEF SetSentOK
  <2>1. s \in Slots
    BY <1>3, WantedSlots
  <2>2. QED
    BY <1>2, <1>5, <1>7, <2>1 DEF SetRenderedFor, got
<1>12. CollectedBut({})
  <2> SUFFICES ASSUME NEW s \in MapSlots \ WantedMaps(cset.spec), Owner(s) = cset.uid PROVE FALSE
    BY DEF CollectedBut
  <2>1. s \in Slots /\ s \notin SetWanted(spec)
    BY <1>2, <1>5, SlotsAreDistinct DEF SetWanted
  <2>2. Owner(s) = Absent
    BY <1>7, <2>1 DEF Owner, OwnerIn
  <2>3. QED
    BY <1>2, <1>5, <2>2, SetRecordsAssumption
<1>13. SetEndsWith(set.status)
  BY <1>2, <1>5, <1>10, <1>11, <1>12 DEF SetEndsWith, got
<1>14. SetAtRestOK
  BY <1>13 DEF SetAtRestOK
<1>15. QED
  BY <1>8, <1>9, <1>14 DEF SetTracking

LEMMA SetTrackedStep ==
  ASSUME SetTypeInv, SetVersionsOK, SetReadingOK, SetTracked, [Next]_vars
  PROVE  SetTracked'
<1>1. CASE Worker
  BY <1>1, SetStartKeeps, SetReadDepKeeps, SetRenderKeeps, SetApplyChildKeeps, SetListKeeps,
     SetDeleteKeeps, SetObserveKeeps, SetPatchKeeps, SetPatchFailsKeeps
  DEF Worker
<1>2. CASE UNCHANGED vars
  <2>1. UNCHANGED <<set, kids, caches, notes, queued, rec>>
    BY <1>2 DEF vars, store
  <2>2. SetUntouched
    BY <2>1 DEF SetUntouched, SetSentOK, SetRenderedFor, Owner, OwnerIn, SetAwake, caches
  <2>3. QED
    BY <2>1, <2>2, SetUntouchedInProgress, SetUntouchedAtRest DEF SetTracked
<1>3. CASE HandleAny
  BY <1>3, SetHandleKeeps DEF HandleAny
<1>4. QED
  BY <1>1, <1>2, <1>3, SetOutsideSteps, SetInformsKeep, SetApplyFailsKeeps, SetDeleteFailsKeeps,
     SetCrashKeeps
  DEF Next, Step

(* The invariant: what a reconcile in progress has read, sent and          *)
(* collected, and what the last one left, are good until something wakes   *)
(* the FlowSet again.                                                      *)
THEOREM SetTrackingHolds == Spec => []SetTracking
<1> DEFINE Inv == SetTypeInv /\ SetTracking
<1>1. Init => Inv
  BY SetTypeInit, SetTrackingInit
<1>2. Inv /\ [Next]_vars => Inv'
  <2> SUFFICES ASSUME SetTypeInv, SetTracking, [Next]_vars PROVE SetTypeInv' /\ SetTracking'
    OBVIOUS
  <2>1. SetTypeInv' /\ SetVersionsOK' /\ SetReadingOK'
    BY SetTypeStep, SetVersionsStep, SetReadingStep DEF SetTracking
  <2>2. SetRenderableOK'
    BY <2>1 DEF SetTypeInv
  <2>3. SetTracked'
    BY SetTrackedStep DEF SetTracking, SetTracked
  <2>4. QED
    BY <2>1, <2>2, <2>3 DEF SetTracking, SetTracked
<1>3. Inv => SetTracking
  OBVIOUS
<1>4. QED
  BY <1>1, <1>2, <1>3, PTL DEF Spec

-----------------------------------------------------------------------------
(* What follows.                                                           *)
LEMMA SetAtRestMeans ==
  ASSUME SetTracking, AtRest
  PROVE  LET got == ForEvery(set.spec, cdeps)
         IN  /\ SetFinalStatus(set.status, set, got, cdeploy) = set.status
             /\ SetOutcome(set.spec, got).reason = "Rendered" =>
                  /\ \A s \in SetWanted(set.spec) : SetSentOK(s)
                  /\ "gc" \notin FaultKinds => CollectedBut({})
<1>1. rec = None /\ ~SetAwake /\ set # Absent /\ cset = set
  BY DEF AtRest, SetPending, SetAwake
<1>2. SetEndsWith(set.status)
  BY <1>1 DEF SetTracking, SetAtRestOK
<1>3. ~SetFailedApply(set.status)
  BY DEF AtRest, SetApplyFailed, SetFailedApply
<1>4. QED
  BY <1>1, <1>2, <1>3 DEF SetEndsWith

(* No wakeup is lost: whatever users edit, in whatever order informers and *)
(* handlers run, each flow's dependencies being read at moments of their   *)
(* own, and through failing calls and restarts, a FlowSet nothing is       *)
(* pending for has the status and the children its caches call for.        *)
THEOREM SetSettles == Spec => []SetSettled
<1>1. SetTracking => SetSettled
  <2> SUFFICES ASSUME SetTracking, AtRest PROVE SetSettled
    BY DEF SetSettled
  <2> DEFINE got == ForEvery(set.spec, cdeps)
  <2>1. ASSUME SetOutcome(set.spec, got).reason = "Rendered", CaughtUp, NEW s \in SetWanted(set.spec)
        PROVE  kids[s] = [owner |-> set.uid, body |-> SetChild(s, set.spec, got)]
    <3>1. SetSentOK(s) /\ cset = set
      BY <2>1, SetAtRestMeans DEF AtRest
    <3>2. kids[s] = SetRenderedFor(s)
      BY <2>1, <3>1 DEF SetSentOK, CaughtUp, DeployOf, DeployIn, Owner, OwnerIn
    <3>3. QED
      BY <3>1, <3>2 DEF SetRenderedFor
  <2>2. SetFinalStatus(set.status, set, got, cdeploy) = set.status
    BY SetAtRestMeans
  <2> HIDE DEF got
  <2>3. QED
    BY <2>1, <2>2 DEF SetSettled, SetWanted, got
<1>2. QED
  BY <1>1, SetTrackingHolds, PTL

(* No ConfigMap is left behind: the reconcile that removed a flow may have *)
(* listed a cache that did not show the flow's ConfigMaps yet, but then    *)
(* their events wake the set once more.  A delete that fails does leave    *)
(* its ConfigMap: nothing wakes the set then.                              *)
THEOREM OrphansAreCollected ==
  ASSUME "gc" \notin FaultKinds
  PROVE  Spec => []NoOrphans
<1>1. SetTracking => NoOrphans
  <2> SUFFICES ASSUME SetTracking, AtRest, CaughtUp,
                      SetOutcome(set.spec, ForEvery(set.spec, cdeps)).reason = "Rendered",
                      NEW s \in MapSlots \ WantedMaps(set.spec), Owner(s) = set.uid
               PROVE  FALSE
    BY DEF NoOrphans
  <2>1. CollectedBut({}) /\ cset = set
    BY SetAtRestMeans DEF AtRest
  <2>2. cmaps[s] # Owner(s)
    BY <2>1 DEF CollectedBut
  <2>3. QED
    BY <2>2 DEF CaughtUp
<1>2. QED
  BY <1>1, SetTrackingHolds, PTL
=============================================================================
