\* Every pair of lists of up to three positions, three hashes, two
\* quantities. The function returns: the last step is the end.
SPECIFICATION DiffSpec
CONSTANTS
    Hashes = {h1, h2, h3}
    Quantities = {1, 2}
    MaxPositions = 3
INVARIANTS NothingLost DiffIsExact
CHECK_DEADLOCK FALSE
