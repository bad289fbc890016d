\* Every analysis of up to four tokens, every tree of five, and batches of two documents.
SPECIFICATION Spec
CONSTANTS
  Corpora <- MCCorpora
  MaxTokens = 4
  batch_size_ = 2
INVARIANTS
  SinkHasTheFilteredCorpus
  OutputIsProjective
  HeadsAreLifted
PROPERTIES
  PreprocessingEnds
CHECK_DEADLOCK FALSE
