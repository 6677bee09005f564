SPECIFICATION Spec
CHECK_DEADLOCK FALSE
CONSTANTS
  Matching = {"a"}
  Listed = {"a", "b"}
  NewTasks <- Minted
  NewStatus = "s9"
  Cases <- Persons
PROPERTY DeletesWhatItAsked
