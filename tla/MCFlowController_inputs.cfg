\* Every input edited: specs, prompt, tool, model, plugin configuration and Secret; Flows and children deleted.
SPECIFICATION Spec
CONSTANTS
  f1 = f1 p1 = p1 t1 = t1 m1 = m1 pc1 = pc1 pc2 = pc2 s1 = s1
  d1 = d1 d2 = d2 bad = bad img1 = img1 img2 = img2 port1 = port1
  none = none absent = absent unread = unread noImage = noImage
  Data = {d1, d2, bad}
  Malformed = bad
  NoImage = noImage
  Images = {img1, img2}
  Ports = {port1}
  None = none
  Absent = absent
  Unread = unread
  Flows = {f1}
  Prompts = {p1}
  Tools = {t1}
  Models = {m1}
  PluginConfigs = {pc1, pc2}
  Secrets = {s1}
  FlowSpecs <- InputSpecs
  DepValues <- InputValues
  StartFlows <- InputFlows
  StartDeps <- InputStart
  EditKinds = {"edit", "write", "remove", "create", "delete", "child"}
  MaxEdits = 2
  MaxApplyFaults = 0
  MaxPatchFaults = 0
  MaxCrashes = 0
  MaxReports = 0
  MaxResyncs = 0
INVARIANTS TypeOK SettledStatus SettledChildren
\* With no budget left and nothing to do, the system rightly stops.
CHECK_DEADLOCK FALSE
