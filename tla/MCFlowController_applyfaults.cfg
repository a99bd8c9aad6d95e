\* Two failed applies in a row.
SPECIFICATION FairSpec
CONSTANTS
  f1 = f1 p1 = p1 t1 = t1 m1 = m1 pc1 = pc1 pc2 = pc2 s1 = s1
  d1 = d1 d2 = d2 bad = bad img1 = img1 img2 = img2 port1 = port1
  none = none absent = absent unread = unread noImage = noImage
  Data = {d1, d2, bad}
  Malformed = bad
  NoImage = noImage
  Images = {img1, img2}
  Ports = {port1}
  None = none
  Absent = absent
  Unread = unread
  Flows = {f1}
  Prompts = {p1}
  Tools = {}
  Models = {}
  PluginConfigs = {}
  Secrets = {}
  FlowSpecs <- ImageSpecs
  DepValues <- PromptValues
  StartFlows <- PromptFlows
  StartDeps <- PromptStart
  EditKinds = {"write"}
  MaxEdits = 1
  MaxApplyFaults = 2
  MaxPatchFaults = 0
  MaxCrashes = 0
  MaxReports = 0
  MaxResyncs = 0
PROPERTIES ConvergesDespiteFaults
\* With no budget left and nothing to do, the system rightly stops.
CHECK_DEADLOCK FALSE
