\* Two Ankers, of which one may be kicked, and the acknowledgement of one be
\* lost; a round of each kind can be repeated.
CONSTANTS
  NumAnkers = 2
  MaxToUpdate = 2
  DiscoverRounds = 2
  ApRetries = 2
  JoinRounds = 3
  ConfirmRounds = 4
SPECIFICATION Spec
INVARIANTS
  SessionInv
  CountsAreTrue
  EndsEarlyOnlyIfAllAnswered

  
