SPECIFICATION Spec
CONSTANTS
  Manifests <- MCManifests
  Templates = {"tas", "gas"}
  OldConfigs <- MCOldConfigs
  Invocations <- MCInvocations
  None = None
  Missing = Missing
  Partial = Partial
  Depth = 2
  MaxRuns = 3
  MaxFaults = 2
  MaxChanges = 1
INVARIANTS BackupsComplete DoneMeansConfigured DryRunPure
PROPERTIES ManifestLast Idempotent
CHECK_DEADLOCK FALSE
