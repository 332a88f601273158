SPECIFICATION Spec
CONSTANTS
  Tasks = {"t1", "t2"}
  Repetitions = 1
  Suffixed <- MCSuffixed
  FailureKindsKept = 1
  Kinds <- MCKinds
  RawNames = {"org/t1", "t2", "extra"}
  Floor <- MCFloor
  TimeoutIsZero = TRUE
  Purpose = "candidate"
  AilmentSets <- MCAilmentSets
  MaxEvaluations = 2
  MaxStops = 1
INVARIANTS ScoreIsCertified RecordFromContract BlameIsEarned OnlyTheKilledLeave HealthyIsScored
PROPERTIES EvidenceKept
CHECK_DEADLOCK FALSE
