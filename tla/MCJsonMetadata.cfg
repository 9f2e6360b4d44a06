SPECIFICATION MetadataSpec
CONSTANTS
    root = root
    middle = middle
    innermost = innermost
    Objects <- Nodes
    Root <- root
    Containers <- Built
    Keys <- NamesAndPositions
    Leaves <- Scalars
    MaxDepth = 2
    MaxBits = 2
    MaxBytes = 8
INVARIANTS
    RetryRecognized
    AcceptedExactly
