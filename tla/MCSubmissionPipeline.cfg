SPECIFICATION Spec
CONSTANTS
  Submissions = {s1, s2}
  Jobs = {j1, j2}
  Items = {rice}
  Unpriceable = {s2}
  MaxAttempts = 2
  MaxFaults = 1
  EarlyLapse = FALSE
  TornWrites = FALSE
  Null = Null
SYMMETRY PipelineSymmetry
CHECK_DEADLOCK FALSE
INVARIANTS
  TypeOK
  WorkerWritesPendingRow
  MachinePublishesItsMatch
  RejectedStaysOut
  ReopenedIsScreened
  SpentBudgetIsActedOn
PROPERTIES
  HumanVerdictStands
  ImplementsLifecycle
