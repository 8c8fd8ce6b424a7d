SPECIFICATION Spec
CONSTANT Inputs <- MCInputs
INVARIANTS
  KnownAnswers
  HalvesAgree
PROPERTY
  MixingLosesNothing
