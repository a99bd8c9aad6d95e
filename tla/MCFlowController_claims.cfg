\* Failing calls, a restart and a resync between any two steps, while replicas come and go.
SPECIFICATION Spec
CONSTANTS
  f1 = f1 p1 = p1 t1 = t1 m1 = m1 pc1 = pc1 pc2 = pc2 s1 = s1
  d1 = d1 d2 = d2 bad = bad img1 = img1 img2 = img2 port1 = port1
  none = none absent = absent unread = unread noImage = noImage
  Data = {d1, d2, bad}
  Malformed = bad
  NoImage = noImage
  Images = {img1, img2}
  Ports = {port1}
  None = none
  Absent = absent
  Unread = unread
  Flows = {f1}
  Prompts = {p1}
  Tools = {}
  Models = {}
  PluginConfigs = {}
  Secrets = {}
  FlowSpecs <- ScaleSpecs
  DepValues <- PromptValues
  StartFlows <- ScaleFlows
  StartDeps <- PromptStart
  EditKinds = {"edit"}
  MaxEdits = 1
  MaxApplyFaults = 1
  MaxPatchFaults = 1
  MaxCrashes = 1
  MaxReports = 1
  MaxResyncs = 1
INVARIANTS Tracking ReadyMatchesSpec ObservedGenerationSound
PROPERTIES HashFollowsContent ObservedGenerationMonotone ImplementsObservation
\* With no budget left and nothing to do, the system rightly stops.
CHECK_DEADLOCK FALSE
