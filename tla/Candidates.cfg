CONSTANTS
  a1 = a1  c1 = c1
  None = None
  Opens <- NoRecords
  Actions <- OneAction
  Candidates <- OneCandidate
  Withdrawals <- NoRecords
  MaxFaults = 2
  Reasons = {"down"}
  Strategies = {"s1"}
  Interruptible = {"r1"}
  Pause = 1  Repeat = 2  MaxAge = 1
  MaxFlips = 3
  NoticeFaults = 1
  Nobody = Nobody
  Deliverers = {"post", "recovery"}
  ReviewFaults = 3
SPECIFICATION BatchOrNotices
INVARIANTS ManualNeedsApproval RecordsAreTrue
PROPERTIES EverythingIsAnnounced CandidatesSettle OperatorIsTold
  ReviewIsDelivered
