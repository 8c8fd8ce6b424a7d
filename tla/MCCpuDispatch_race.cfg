SPECIFICATION Spec
CONSTANTS
  Threads = {t1, t2}
  Processors <- MCProcessors
  Builds <- MCBuilds
INVARIANTS
  TypeOK
  PublishedWhole
  DegreeAgrees
  KernelsUsable
