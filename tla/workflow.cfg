SPECIFICATION WorkflowSpec
INVARIANTS
  Trichotomy
  DefaultsApart
PROPERTIES
  ValidCompiles
  OperatorsExact
