SPECIFICATION Spec
CONSTANTS
  Node <- MCNode
  KeyOf <- MCKeyOf
  RelayMode <- MCRelayMode
  Task = {t1, t2}
  ProcOf <- MCProcOf
  Session = {s1}
  Starts <- MCStarts
  WordsInput <- MCWordsInput
  EdgeInput <- MCEdgeInput
  RepoInput <- MCRepoInput
  BoardInput <- MCBoardInput
  PinInput <- MCPinInput
  PullInput <- MCPullInput
  Answering <- MCAnswering
  Term <- MCTerm
  Hops <- MCHops
  Timelines <- MCTimelines
  ShortTerms <- MCShort
  MaxSearchHops = 6
  MaxSeq = 3
  MaxCalls = 4
INVARIANTS ServedIsGenuine DiscoveryGrounded SearchFindsAll
PROPERTY PublishedAdvances
SYMMETRY TaskSymmetry
CHECK_DEADLOCK FALSE
