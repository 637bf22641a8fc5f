CONSTANTS
  r1 = r1
  r2 = r2
  m1 = m1
  cpu = cpu
  NoModel = NoModel
  Requests = {r1, r2}
  Models = {m1}
  Resources = {cpu}
  Policies <- SomePolicies
  EnvPolicy <- Guarded
  MinSamples = 2
  MaxSamples = 5
SYMMETRY Workers
SPECIFICATION Spec
INVARIANTS AdmittedByPolicy LockoutBound
PROPERTIES LockoutLasts
