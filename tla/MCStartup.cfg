\* Every environment and flag combination against every Grafana.
SPECIFICATION FairSpec
INVARIANTS
  TypeOK
  SelectionFollowsTable
  ServesOnlyWhatWasFound
  ReadOnlyIsHonoured
  ProbesAreConfigured
PROPERTIES
  SelectionIsFinal
  StartupEnds
