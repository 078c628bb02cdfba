SPECIFICATION FairSpec
CONSTANTS
  t1 = t1
  t2 = t2
  t3 = t3
  c1 = c1
  c2 = c2
  Tasks = {t1, t2, t3}
  Clients = {c1, c2}
  Owner <- MCOwner
  Codes <- MCCodes
  NoTask = NoTask
  NoCode = NoCode
INVARIANTS
  TypeOK
  QueueIsAccepted
  LockExclusive
  TasksAccounted
  ShutdownDrained
PROPERTIES
  ImplementsTaskService
  SubmittedCompletes
  ShutdownReturns
