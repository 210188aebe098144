SPECIFICATION Spec
CONSTANTS
  Reports = {r1}
  Tabs = {t1, t2}
  Requests = {q1, q2, q3}
  MaxAttempts = 2
  MaxCloses = 1
  MaxForgets = 1
  Null = Null
SYMMETRY OutboxSymmetry
INVARIANTS
  TypeOK
  NothingIsLost
  SentIsStored
  CountedOncePerReporter
PROPERTIES
  ImplementsInbox
