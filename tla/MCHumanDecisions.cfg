SPECIFICATION Spec
CONSTANTS
  Requested = FALSE
  Workers = {"worker"}
  Console = "console"
  Senders <- MCSenders
  Commands <- MCCommands
  MaxProposals = 2
  Executable = {1}
  MaxUpsets = 1
  MaxAttempts = 2
  MaxTapAttempts = 2
  MaxPresses = 2
  MaxSubmissions = 1
CHECK_DEADLOCK FALSE
INVARIANTS
  VerifyingMeansItRan
  OneRunPerProposal
  DecidesWhatChatShows
PROPERTY
  ChatSettles
