CONSTANTS
    Nodes = {n1}
    MaxRuns = 2
    Main = main
    Extra = {sync}
    MaxMoves = 2
    MaxVersion = 1
    MaxFailures = 1
SPECIFICATION FairSpec
INVARIANTS TypeOK EveryServiceListed NoDeadMailbox NewsRing
PROPERTIES NodesFollow NewsArrive
