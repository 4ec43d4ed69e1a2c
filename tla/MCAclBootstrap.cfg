CONSTANT MaxTokens = 2
SPECIFICATION FairSpec
INVARIANTS TokenInSight NobodyElseAsks AgentTokenExists
PROPERTIES SetupEnds ImplementsFirstTokens
CHECK_DEADLOCK FALSE
