SPECIFICATION FairSpec
CONSTANTS
  Pool = Pool
  Settlement = Settlement
  Cash = Cash
  FrozenAcct = FrozenAcct
  s1 = s1
  s2 = s2
  k1 = k1
  Nobody = Nobody
  LedSequence = LedSequence
  Account <- MCAccount
  DebitNormal <- MCDebitNormal
  MayGoNegative <- MCMayGoNegative
  Usable <- MCUsable
  Position <- MCPosition
  Entries <- MCEntries
  Session = {s1, s2}
  CallerKey = {k1}
  MaxPostings = 3
INVARIANTS
  TypeOK
  NoDrift
  GuardedNonNegative
  NothingTwice
  GaplessReferences
  AcknowledgedIsPosted
  NoWaitCycle
PROPERTIES
  ImplementsBook
  EveryCallReturns
CHECK_DEADLOCK FALSE
