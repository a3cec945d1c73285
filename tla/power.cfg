SPECIFICATION FairSpec
CONSTANTS
  Services = {backend, frontend}
  Replicas = 2
  Pipelines = {release}
  MaxFlips = 3
  MaxMishaps = 2
INVARIANTS TypeOK KnowledgeHolds
PROPERTIES StopFindsServicesDown RestoredOverDatabase OffSettles OnSettles
