SPECIFICATION LagrangeFairSpec
CONSTANT N = 8
INVARIANTS WriterAlone ErrorOfWholeRound
PROPERTIES EndsUnlessCoalesced
CHECK_DEADLOCK FALSE
