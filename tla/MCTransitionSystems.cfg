SPECIFICATION Spec
CONSTANTS
  Size <- MCSize
  NumTags <- MCNumTags
  Corpus <- MCCorpus
  RootLabels <- MCRootLabels
INVARIANTS
  OracleRestoresAnnotation
  StepsFollowTheInput
  CharAndTokenAgree
  SegmentsKeepTheText
CHECK_DEADLOCK FALSE
