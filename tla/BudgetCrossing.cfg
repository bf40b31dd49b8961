SPECIFICATION PartsSpec
CONSTANTS
  Chosen = {"budget"}
  Ranks = {1, 2, 3}
  Configurations <- MCConfigurations
  Counts = {0, 1, 2}
  Budgets <- MCBudgets
  MaxSteps = 3
  Ancestors <- MCAncestors
  Transforms <- MCTransforms
  ProviderSets <- MCProviders
  Adapters <- MCAdapters
  RequestLists <- MCRequests
  Models <- MCModels
  Environments <- MCEnvironments
  HandlerSets <- MCHandlers
  Layouts <- MCLayouts
  TieGroups <- MCTies
  Defects <- MCDefects
  MaxUpdates = 2
  Transactions = {1, 2}
  WorldSize = 2
  Backends = {"a", "b"}
  MaxRetained = 1
  MaxSlips = 1
  Sessions <- MCSessions
  LoaderLength = 2
  Flaws <- MCFlaws
  MaxMicro = 3
  MaxSessions = 3
INVARIANT CrossingCompletes
CHECK_DEADLOCK FALSE
