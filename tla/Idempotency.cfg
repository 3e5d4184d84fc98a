\* Functions may outlive their lease (MaxDuration > Lease) or die.
SPECIFICATION FairSpec
CONSTANTS
  r1 = r1
  r2 = r2
  r3 = r3
  bodyA = bodyA
  bodyB = bodyB
  NoRecord = NoRecord
  NoOne = NoOne
  Requests <- MCRequests
  Hashes <- MCHashes
  HashOf <- MCHashOf
  ResponseRetentions <- MCResponseRetentions
  Lease = 1
  Retention = 2
  MaxDuration = 4
  MaxTime = 2
INVARIANTS ExclusiveWhileLeased ReplayMatchesBody
PROPERTIES ImplementsRegister EventuallyAnswered
CHECK_DEADLOCK FALSE
