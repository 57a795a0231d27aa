SPECIFICATION Spec
CONSTANTS
  NUM_READS = 2
  PromptWEN = TRUE
INVARIANT ReadyMeansImage
