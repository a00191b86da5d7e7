CONSTANTS
  File = {f1, f2, t}
  Temp = {t}
  Corrupt = {f1}
  Faults = {"readdir", "entry", "mkdir", "rename", "read", "persist", "opendir", "open", "metadata", "track", "remove", "sentinel", "stat"}
SPECIFICATION Spec
INVARIANTS TypeOK LossIsExplained SentinelMeansMigrated
