\* Three products, pages of one or two.
SPECIFICATION Spec
CONSTANTS
  Products = {1, 2, 3}
  FacetValues <- MCFacetValues
  Judgements <- MCJudgements
  WLex = 7
  WFuzzy = 3
  FuzzyMin = 60
  Limits = {1, 2}
  NoFilter = NoFilter
CHECK_DEADLOCK FALSE
INVARIANTS
  TypeOK
  PagesFollowRanking
  FacetsTellDrillDown
