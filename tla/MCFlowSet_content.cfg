\* Flows refused in every way, shared dependencies that change or only move forward, a failing call or a restart.
SPECIFICATION Spec
CONSTANTS
  fa = fa fb = fb p1 = p1 p2 = p2 t1 = t1 m1 = m1 pc1 = pc1 s1 = s1
  d1 = d1 d2 = d2 bad = bad img1 = img1 port1 = port1
  none = none absent = absent unread = unread noImage = noImage
  Data = {d1, d2, bad}
  Malformed = bad
  NoImage = noImage
  Images = {img1}
  Ports = {port1}
  None = none
  Absent = absent
  Unread = unread
  Flows = {fa, fb}
  Prompts = {p1}
  Tools = {t1}
  Models = {m1}
  PluginConfigs = {pc1}
  Secrets = {s1}
  Plans <- RefusedAndForward
  DepValues <- FreshTools
  Age <- FreshAge
  StartDeps <- Store
  FaultKinds = {"apply", "gc", "patch", "crash"}
  Bounds <- Limits
  maxEdits = 1 maxFaults = 1 maxReports = 0 maxPods = 1
INVARIANTS SetTypeOK SetSettled ContentServed MountsExist ServingTracking
\* With no budget left and nothing to do, the system rightly stops.
CHECK_DEADLOCK FALSE
