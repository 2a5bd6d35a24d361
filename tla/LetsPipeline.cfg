SPECIFICATION Spec
CONSTANTS
    Commands = {c1, c2}
    Files = {f1}
    MaxBatches = 2
    None = None
SYMMETRY Interchangeable
INVARIANTS TypeOK ProcessedIsIndexed StampedIsInArtefact
PROPERTY OkMeansLoaded
