\* Runners of Flows and FlowSets, with volumes that change while they start.
SPECIFICATION RunnerFairSpec
CONSTANTS
  fa = fa fb = fb rz = rz p1 = p1 p2 = p2 hz = hz pc1 = pc1 pc2 = pc2 s1 = s1
  s2 = s2 ka = ka kb = kb ke = ke kc = kc v1 = v1 v2 = v2 bad = bad
  google = google bedrock = bedrock custom = custom vertex = vertex
  ollama = ollama nowhere = nowhere azure = azure foundry = foundry
  other = other full = full first = first second = second empty = empty
  img1 = img1 port1 = port1 none = none absent = absent unread = unread
  noImage = noImage
  Data = {bad, google, bedrock, custom, vertex, ollama, nowhere, azure, foundry, other, full, first, second, empty}
  Malformed = bad
  NoImage = noImage
  Images = {img1}
  Ports = {port1}
  None = none
  Absent = absent
  Unread = unread
  Flows = {fa, fb, rz}
  Prompts = {p1, p2, hz}
  Tools = {}
  Models = {}
  PluginConfigs = {pc1, pc2}
  Secrets = {s1, s2}
  Keys = {ka, kb, ke, kc}
  EndpointKey = ke
  AdcKey = kc
  Values = {v1, v2}
  Types = {"googleai", "openai", "bedrock", "vertexai", "ollama", "azureaifoundry", "other"}
  PluginPayload <- Payloads
  SecretKeys <- Contents
  DefaultKeys <- Defaults
  Reserved = {hz, rz}
  Layouts <- AllLayouts
  MaxDeaths = 1
INVARIANTS RunnerTypeOK RoutesServeOwnPrompts OwnCredentials ListensIffStartable
PROPERTIES StartsEventually
\* A runner that listens rightly has nothing left to do.
CHECK_DEADLOCK FALSE
