\* Chains of supporting objects that come and go, an Eval and its Job, a failing call or a restart.
SPECIFICATION Spec
CONSTANTS
  pc1 = pc1 m1 = m1 t1 = t1 pr1 = pr1 ds1 = ds1 s1 = s1 f1 = f1 cm1 = cm1
  sink1 = sink1 e1 = e1 d1 = d1 d2 = d2
  malformed = malformed none = none absent = absent unread = unread failed = failed
  PluginConfigs = {pc1}
  Models = {m1}
  Tools = {t1}
  Prompts = {pr1}
  Datasets = {ds1}
  Secrets = {s1}
  Flows = {f1}
  ConfigMaps = {cm1, sink1}
  Evals = {e1}
  Data = {d1, d2}
  Texts <- SomeTexts
  Outputs <- Results
  Malformed = malformed
  None = none
  Absent = absent
  Unread = unread
  Failed = failed
  Plans <- SupportPlans
INVARIANTS SupportTypeOK StatusesSettle ChainAgrees SampleCountSound EvalSettled RunRecorded StatusTracking RunsInOrder EvalTracking
PROPERTIES LastRunMonotone
\* With no budget left and nothing to do, the system rightly stops.
CHECK_DEADLOCK FALSE
