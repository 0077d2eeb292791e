SPECIFICATION FairServiceSpec
CONSTANTS
  films = films
  music = music
  t1 = t1
  t2 = t2
  account = account
  NoTx = NoTx
  Drive = {films, music}
  Trigger = {t1, t2}
  Account = {account}
  TriggerOf <- OwnTrigger
  AccountOf <- OneAccount
  SyncLimit = 1
  MaxRetries = 2
  Rejected = {2}
  MaxChanges = 3
  MaxFaults = 2
  Version = {1, 2, 3}
INVARIANTS
  TypeOK SlotsAccounted NothingSkipped HandedOnce FullSyncOnlyOnce GivenUpInTime
  SchemaIsRecorded JobsFindNewTables
PROPERTIES ChangesAreSettled
CHECK_DEADLOCK FALSE
