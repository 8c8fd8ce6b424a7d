SPECIFICATION EitherSpec
CONSTANTS
  Threads = {"t1", "t2", "t3"}
  FfmThreads = {"t1", "t2"}
  Variants = {"jvm", "android", "ffm"}
INVARIANTS
  OneAttempt
  MissingIsExplained
  SegmentHoldsHasher
PROPERTIES
  CallsEnd
  NativeCodeOnceLoaded
