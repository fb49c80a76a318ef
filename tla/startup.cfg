CONSTANTS
    MaxLines = 3
    MaxAccepts = 2
SPECIFICATION FairSpec
INVARIANTS NeverEarlier PeersInOrder
PROPERTIES ReadUnlessOverwritten
