SPECIFICATION FairSpec
CONSTANTS
  Items <- MCItems
  LockKeys <- MCLockKeys
  LockKey <- MCNamespaceKey
  Threads = {t1, t2}
  NoItem = NoItem
  MaxVersion <- MCVersions
  MaxAttempts = 2
  MaxFailures = 1
  MaxRestarts = 1
CHECK_DEADLOCK FALSE
INVARIANTS TypeOK NoLostChange
PROPERTIES SyncedNeverRegresses SyncsAreSerial EventuallySynced
