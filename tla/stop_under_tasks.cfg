SPECIFICATION Spec
CONSTANTS
  Services = {backend, frontend}
  Replicas = 2
  Pipelines = {release}
  MaxFlips = 2
  MaxMishaps = 0
SYMMETRY Symmetry
PROPERTIES NeverStopsUnderTasks
