\* The sixteen labels and one that matches nothing; every pattern of hits and misses of
\* up to twelve results; k = 0; no limit, and one below the k values.
SPECIFICATION EvaluationSpec
CONSTANTS
  Ids <- MCIds
  Labels <- MCLabels
  Relevant <- MCRelevant
  HasTypo <- MCHasTypo
  KValueSets = {{1, 5, 10}, {0, 5}}
  MaxKs = {0, 3}
  Answers <- MCAnswers
  LongestAnswer = 12
  Iterations = 30
  Warmup = 7
INVARIANTS
  OnlyTheCapIsMissing
  RankAndPrecisionAgree
  OnlyTheLimitHides
  BenchSkusExist
  ReportedIsTheCeiling
\* The suite ends with the summary.
CHECK_DEADLOCK FALSE
