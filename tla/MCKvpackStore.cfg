CONSTANTS
  LocalKeys = {"k1"}
  ImportKeys = {"i1"}
  Chunks = {"a"}
  Content <- MCContent
  ManifestOf <- MCManifestOf
  Deployments = {{"pin","demote"},{"lease"}}
  Quota = 6
  StagingQuota = 4
  MaxSalt = 2
  MaxBegins = 3
  MaxCrashes = 1
SPECIFICATION Spec
INVARIANTS
  
  RowsExact
  
CHECK_DEADLOCK FALSE
