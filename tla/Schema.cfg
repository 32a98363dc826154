SPECIFICATION Spec
INVARIANTS
  SchemaOfVersion
  LatestIsSound
  BlockedByRowsOnly
PROPERTIES
  RunsKeepData
