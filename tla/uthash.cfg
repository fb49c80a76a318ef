CONSTANTS
    Items <- MCItems
    KeyOf <- MCKeyOf
    HashOf <- MCHashOf
    Adders = {"c1"}
    NumBuckets = 1
    Threshold = 2
    MaxBuckets = 8
SPECIFICATION Spec
INVARIANTS FsckUnlessRaced WalkUnlessRaced FindUnlessRaced ChainsBounded
