\* Both environments, two signals, suites of up to two tests.
CONSTANTS
  Storage = storage
  Schema = graphql
  ServiceInfo = info
  Hooks <- MCHooks
  Group <- MCGroup
  Signals = {"SIGINT", "SIGTERM"}
  MaxTests = 2
SPECIFICATION FairSpec
INVARIANTS
  InOrder
  ServesCurrent
  CleanExit
  OnlyBundlesShare
PROPERTIES
  StartEnds
  ShutdownEnds
CHECK_DEADLOCK FALSE
