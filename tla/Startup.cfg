CONSTANTS
  Seed = {s1, s2}
  MaxHeight = 2
  MaxScore = 1
SPECIFICATION FairSpec
INVARIANTS TypeOK SeedKept ListenersTogether ScorerSurvives
PROPERTIES FollowsChain
