CONSTANTS
    Thread = {t, u}
    Id = {i, j}
    Text <- ThreeTexts
    Dim = 2
    LogWeight <- Scaled
    Providers = {"bow", "bm25", "tfidf", "svd", "onnx"}
    MaxWrites = 3
    MaxCrashes = 1
SPECIFICATION Spec
SYMMETRY Symmetry
INVARIANTS StoredVectorsComparable RecoveryConverges QueryMeetsOneVocabulary LastWriteStands
CONSTRAINT Explored
