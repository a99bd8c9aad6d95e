------------------------------ MODULE AgingProofs ------------------------------
(***************************************************************************)
(* Lemmas about Aging: its orders are orders, and what is rendered of      *)
(* older objects is older content.                                         *)
(***************************************************************************)
EXTENDS Aging, FlowRenderProofs

(* Age.  Payloads of one object are ordered, and so are contents.          *)

LEMMA BeforeIsTransitive ==
  ASSUME NEW o, NEW x, NEW y, NEW z, Before(o, x, y), Before(o, y, z)
  PROVE  Before(o, x, z)
BY AgeAssumption DEF Before

LEMMA BeforeIsAntisymmetric ==
  ASSUME NEW o, NEW x, NEW y, Before(o, x, y), Before(o, y, x)
  PROVE  x = y
BY AgeAssumption DEF Before

LEMMA UpToIsTransitive ==
  ASSUME NEW o, NEW x, NEW y, NEW z, UpTo(o, x, y), UpTo(o, y, z)
  PROVE  UpTo(o, x, z)
BY BeforeIsTransitive DEF UpTo

LEMMA UpToIsReflexive ==
  ASSUME NEW o, NEW x
  PROVE  UpTo(o, x, x)
BY DEF UpTo, Before

LEMMA PieceIsReflexive ==
  ASSUME NEW m, NEW pc, NEW k \in Mounted, NEW x
  PROVE  PieceBefore(m, pc, k, x, x)
BY DEF PieceBefore, Before, Mounted

LEMMA PieceIsTransitive ==
  ASSUME NEW m, NEW pc, NEW k \in Mounted, NEW x, NEW y, NEW z,
         PieceBefore(m, pc, k, x, y), PieceBefore(m, pc, k, y, z)
  PROVE  PieceBefore(m, pc, k, x, z)
<1>1. CASE k = "prompts"
  BY <1>1, BeforeIsTransitive DEF PieceBefore
<1>2. CASE k = "tools"
  BY <1>2, BeforeIsTransitive DEF PieceBefore
<1>3. CASE k = "config"
  BY <1>3, BeforeIsTransitive DEF PieceBefore
<1>4. QED
  BY <1>1, <1>2, <1>3 DEF Mounted

LEMMA PieceIsAntisymmetric ==
  ASSUME NEW m, NEW pc, NEW k \in Mounted, NEW x \in ChildBody(k), NEW y \in ChildBody(k),
         PieceBefore(m, pc, k, x, y), PieceBefore(m, pc, k, y, x)
  PROVE  x = y
<1>1. CASE k = "prompts"
  <2>1. \A p \in Prompts : x[p] = y[p]
    BY <1>1, BeforeIsAntisymmetric DEF PieceBefore
  <2>2. QED
    BY <1>1, <2>1 DEF ChildBody
<1>2. CASE k = "tools"
  <2>1. \A t \in Tools : x[t] = y[t]
    BY <1>2, BeforeIsAntisymmetric DEF PieceBefore
  <2>2. QED
    BY <1>2, <2>1 DEF ChildBody
<1>3. CASE k = "config"
  <2>1. x.model = y.model /\ x.plugin = y.plugin
    BY <1>3, BeforeIsAntisymmetric DEF PieceBefore
  <2>2. QED
    BY <1>3, <2>1 DEF ChildBody
<1>4. QED
  BY <1>1, <1>2, <1>3 DEF Mounted

(* What is rendered of older objects is older content.                     *)
Whole(spec) == BadSources(spec) = {} /\ spec.model.kind # "both"

LEMMA SamePlugin ==
  ASSUME NEW spec \in FlowSpec, NEW d \in Stores, NEW e \in Stores,
         \A o \in Deps : UpTo(o, d[o], e[o]),
         spec.model.kind = "ref" => d[spec.model.name] # Absent
  PROVE  PluginOf(spec, e) = PluginOf(spec, d) /\ Sources(spec, e) = Sources(spec, d)
<1>1. CASE spec.model.kind = "ref"
  <2> DEFINE m == spec.model.name
  <2>1. m \in Models /\ m \in Deps
    BY <1>1 DEF FlowSpec, ModelSource, Deps
  <2>2. d[m] # Absent /\ e[m] # Absent /\ d[m].ref = e[m].ref
    BY <1>1, <2>1 DEF UpTo
  <2>3. d[m] # Unread /\ e[m] # Unread
    BY <2>1, NamesAssumption DEF Stores
  <2>4. PluginOf(spec, e) = PluginOf(spec, d)
    BY <1>1, <2>2, <2>3 DEF PluginOf, Present
  <2>5. QED
    BY <2>4 DEF Sources
<1>2. CASE spec.model.kind # "ref"
  BY <1>2 DEF PluginOf, Sources
<1>3. QED
  BY <1>1, <1>2

LEMMA OlderObjectsOlderContent ==
  ASSUME NEW spec \in FlowSpec, NEW d \in Stores, NEW e \in Stores,
         \A o \in Deps : UpTo(o, d[o], e[o]),
         \A o \in Sources(spec, d) : d[o] # Absent,
         NEW k \in Mounted
  PROVE  PieceBefore(spec.model.name, PluginOf(spec, d), k, Child(k, spec, d), Child(k, spec, e))
<1> DEFINE pc == PluginOf(spec, d)
<1>1. pc \in PluginConfigs \cup {None} /\ PluginOf(spec, e) = pc
  <2>1. spec.model.kind = "ref" => d[spec.model.name] # Absent
    BY DEF Sources
  <2>2. QED
    BY <2>1, GetsType, SamePlugin, StoresAreReadings
<1>2. \A o \in Deps : o \in Sources(spec, d) => Before(o, d[o].data, e[o].data)
  BY DEF UpTo
<1>3. CASE k = "prompts"
  <2>1. ASSUME NEW p \in Prompts PROVE Before(p, PromptFiles(spec, d)[p], PromptFiles(spec, e)[p])
    <3> DEFINE at == {i \in DOMAIN spec.prompts : spec.prompts[i].name = p}
               i == CHOOSE i \in at : \A j \in at : j <= i
    <3>1. at # {} => i \in at
      <4> HIDE DEF at
      <4>1. ASSUME at # {} PROVE (CHOOSE h \in at : \A j \in at : j <= h) \in at
        BY <4>1, LastPrompt DEF at
      <4>2. QED
        BY <4>1
    <3>2. /\ PromptFiles(spec, d)[p] = IF at = {} THEN Absent
                 ELSE IF spec.prompts[i].kind = "ref" THEN d[p].data ELSE spec.prompts[i].content
          /\ PromptFiles(spec, e)[p] = IF at = {} THEN Absent
                 ELSE IF spec.prompts[i].kind = "ref" THEN e[p].data ELSE spec.prompts[i].content
      BY DEF PromptFiles
    <3> HIDE DEF i
    <3>3. CASE at # {} /\ spec.prompts[i].kind = "ref"
      <4>1. p \in Sources(spec, d)
        BY <3>1, <3>3 DEF Sources
      <4>2. QED
        BY <1>2, <3>2, <3>3, <4>1 DEF Deps
    <3>4. CASE at = {} \/ spec.prompts[i].kind # "ref"
      BY <3>2, <3>4 DEF Before
    <3>5. QED
      BY <3>3, <3>4
  <2>2. QED
    BY <1>3, <2>1 DEF PieceBefore, Child
<1>4. CASE k = "tools"
  <2>1. ASSUME NEW t \in Tools PROVE Before(t, ToolFiles(spec, d)[t], ToolFiles(spec, e)[t])
    <3>1. CASE \E i \in DOMAIN spec.tools : spec.tools[i] = t
      <4>1. t \in Sources(spec, d)
        BY <3>1 DEF Sources
      <4>2. QED
        BY <1>2, <3>1, <4>1 DEF Deps, ToolFiles
    <3>2. CASE ~\E i \in DOMAIN spec.tools : spec.tools[i] = t
      BY <3>2 DEF Before, ToolFiles
    <3>3. QED
      BY <3>1, <3>2
  <2>2. QED
    BY <1>4, <2>1 DEF PieceBefore, Child
<1>5. CASE k = "config"
  <2> DEFINE m == spec.model.name
  <2>1. Before(m, ModelBody(spec, d), ModelBody(spec, e))
    <3>1. CASE spec.model.kind = "ref"
      <4>1. m \in Deps /\ m \in Sources(spec, d)
        BY <3>1 DEF FlowSpec, ModelSource, Deps, Sources
      <4>2. QED
        BY <1>2, <3>1, <4>1 DEF ModelBody
    <3>2. CASE spec.model.kind # "ref"
      BY <3>2 DEF Before, ModelBody
    <3>3. QED
      BY <3>1, <3>2
  <2>2. Before(pc, RuntimeConfig(spec, d).plugin, RuntimeConfig(spec, e).plugin)
    <3>1. CASE pc # None
      <4>1. pc \in Deps /\ pc \in Sources(spec, d)
        BY <1>1, <3>1 DEF Deps, Sources
      <4>2. Before(pc, d[pc].data, e[pc].data)
        BY <1>2, <4>1
      <4>3. QED
        BY <1>1, <3>1, <4>2 DEF RuntimeConfig
    <3>2. CASE pc = None
      BY <1>1, <3>2 DEF Before, RuntimeConfig
    <3>3. QED
      BY <3>1, <3>2
  <2>3. /\ RuntimeConfig(spec, d).model = ModelBody(spec, d)
        /\ RuntimeConfig(spec, e).model = ModelBody(spec, e)
    BY DEF RuntimeConfig
  <2>4. QED
    BY <1>5, <2>1, <2>2, <2>3 DEF PieceBefore, Child
<1>6. QED
  BY <1>3, <1>4, <1>5 DEF Mounted

(* A spec's content is of its prompts, tools and model only.               *)
LEMMA SameContentSameRendering ==
  ASSUME NEW s, NEW t, SameContent(s, t), NEW d
  PROVE  /\ PluginOf(t, d) = PluginOf(s, d) /\ Sources(t, d) = Sources(s, d)
         /\ Whole(s) => Whole(t)
         /\ \A k \in Mounted : Child(k, t, d) = Child(k, s, d)
<1>1. s.prompts = t.prompts /\ s.tools = t.tools /\ s.model = t.model
  BY DEF SameContent
<1>2. PluginOf(t, d) = PluginOf(s, d)
  BY <1>1 DEF PluginOf
<1>3. Sources(t, d) = Sources(s, d)
  BY <1>1, <1>2 DEF Sources
<1>4. Whole(s) => Whole(t)
  BY <1>1 DEF Whole, BadSources
<1>5. \A k \in Mounted : Child(k, t, d) = Child(k, s, d)
  <2>1. PromptFiles(t, d) = PromptFiles(s, d)
    BY <1>1 DEF PromptFiles
  <2>2. ToolFiles(t, d) = ToolFiles(s, d)
    BY <1>1 DEF ToolFiles
  <2>3. RuntimeConfig(t, d) = RuntimeConfig(s, d)
    BY <1>1, <1>2 DEF RuntimeConfig, ModelBody
  <2>4. QED
    BY <2>1, <2>2, <2>3 DEF Child, Mounted
<1>6. QED
  BY <1>2, <1>3, <1>4, <1>5

LEMMA SourcesType ==
  ASSUME NEW spec \in FlowSpec, NEW d \in Stores
  PROVE  Sources(spec, d) \subseteq Deps
<1>1. PluginOf(spec, d) \in PluginConfigs \cup {None}
  BY GetsType, StoresAreReadings
<1>2. \A i \in DOMAIN spec.prompts : spec.prompts[i].kind = "ref" => spec.prompts[i].name \in Prompts
  BY DEF FlowSpec, PromptSource
<1>3. \A i \in DOMAIN spec.tools : spec.tools[i] \in Tools
  BY DEF FlowSpec
<1>4. spec.model.kind = "ref" => spec.model.name \in Models
  BY DEF FlowSpec, ModelSource
<1>5. QED
  BY <1>1, <1>2, <1>3, <1>4 DEF Sources, Deps

(* What was no newer than a rendering stays no newer than the renderings   *)
(* of objects that moved forward.                                          *)
LEMMA RenderedStays ==
  ASSUME NEW spec \in FlowSpec, NEW d \in Stores, NEW e \in Stores,
         \A o \in Deps : UpTo(o, d[o], e[o]),
         NEW k \in Mounted, NEW x, RenderedBy(spec, k, x, d)
  PROVE  RenderedBy(spec, k, x, e) /\ PluginOf(spec, e) = PluginOf(spec, d)
<1>1. \A o \in Sources(spec, d) : d[o] # Absent
  BY DEF RenderedBy
<1>2. PluginOf(spec, e) = PluginOf(spec, d) /\ Sources(spec, e) = Sources(spec, d)
  <2>1. spec.model.kind = "ref" => d[spec.model.name] # Absent
    BY <1>1 DEF Sources
  <2>2. QED
    BY <2>1, SamePlugin
<1>3. \A o \in Sources(spec, e) : e[o] # Absent
  BY <1>1, <1>2, SourcesType DEF UpTo
<1>4. PieceBefore(spec.model.name, PluginOf(spec, d), k, Child(k, spec, d), Child(k, spec, e))
  BY <1>1, OlderObjectsOlderContent
<1>5. PieceBefore(spec.model.name, PluginOf(spec, d), k, x, Child(k, spec, d))
  BY DEF RenderedBy
<1>6. PieceBefore(spec.model.name, PluginOf(spec, d), k, x, Child(k, spec, e))
  BY <1>4, <1>5, PieceIsTransitive
<1>7. QED
  BY <1>2, <1>3, <1>6 DEF RenderedBy
=============================================================================
