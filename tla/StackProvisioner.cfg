SPECIFICATION Spec
CONSTANT MaxFaults = 3
INVARIANTS OkMeansComplete RollbackUndoes CreationTakesNothing DeletedMeansGone
PROPERTY RetriesConverge
