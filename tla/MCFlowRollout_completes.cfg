\* Liveness, with one edit of any kind, of Flows that run and Flows whose runner exits.
SPECIFICATION RFairSpec
CONSTANTS
  f1 = f1 p1 = p1 healthz = healthz pc1 = pc1 s1 = s1
  d1 = d1 d2 = d2 bad = bad img1 = img1 img2 = img2 port1 = port1
  none = none absent = absent unread = unread noImage = noImage
  Data = {d1, d2, bad}
  Malformed = bad
  NoImage = noImage
  Images = {img1, img2}
  Ports = {port1}
  None = none
  Absent = absent
  Unread = unread
  Flows = {f1}
  Prompts = {p1, healthz}
  Tools = {}
  Models = {}
  PluginConfigs = {pc1}
  Secrets = {s1}
  FlowSpecs <- ScaleSpecs
  DepValues <- RiskyValues
  StartFlows <- RiskyFlows
  StartDeps <- PodStart0
  EditKinds = {"edit", "write"}
  MaxEdits = 1
  MaxApplyFaults = 0
  MaxPatchFaults = 1
  MaxCrashes = 1
  MaxReports = 0
  MaxResyncs = 0
  BuildsWith <- Built
  Reserved = {healthz}
  MaxRestarts = 0
  Age <- FreshAge
PROPERTIES Converges RolloutCompletes ImplementsFairObservation
\* With no budget left and nothing to do, the system rightly stops.
CHECK_DEADLOCK FALSE
