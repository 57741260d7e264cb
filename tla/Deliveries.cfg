CONSTANTS
  o1 = o1  a1 = a1
  None = None
  Opens <- OneOpen
  Actions <- OneAction
  Candidates <- NoRecords
  Withdrawals <- OneAction
  MaxFaults = 1
SPECIFICATION FairSpec
INVARIANTS DoneMeansTold
 
