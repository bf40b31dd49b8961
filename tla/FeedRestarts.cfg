SPECIFICATION Spec
CONSTANTS
  Datasets = {"web", "books"}
  Tokens <- MCTokens
  ShardOrder <- MCShardOrder
  BatchTokens = 2
  World = 2
  Rank = 1
  BatchSize = 2
  LoaderWorkers = 2
  Accumulation = 2
  Budgets = {2, 4}
  Loaders = {"cursor", "striped", "shuffled", "worker"}
  Swappable = {"cursor"}
  MaxTrainers = 3
INVARIANTS ExactResume PassesAreWhole ChangedDataRejected
PROPERTY ReplayReaches
CHECK_DEADLOCK FALSE
