CONSTANTS
  Last = 3
  Boot = 1
  Ignorable <- NothingIgnorable
  Slots = 1
  MaxFaults = 2
  Channels = {1}
  Accounts = {10, 20}
  Operator = 10
  NoUser = NoUser
  Retry = 1  AuthRetry = 2  ReadCheck = 1  Grace = 2  AlertEvery = 3
  SessionFaults = 3
  MaxLogins = 2
SPECIFICATION PostsOrSession
INVARIANTS NoPostSkipped DecidedOnce SessionIsAsShown
PROPERTIES EveryPostIsDecided ReaderSettles
