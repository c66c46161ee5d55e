\* Two transfers compete for one permit, with retries and restarts.
SPECIFICATION Spec
CONSTANTS
  Ids = {t1, t2}
  Workers = {w1, w2}
  Clients = {}
  Servers = {sftp}
  InPlace = {sftp}
  MaxConns = 1
  MaxWorkers = 1
  MaxRetries = 1
  Size = 1
  MaxSpawned = 1
  NoServer = NoServer
  NoFile = NoFile
  NoWorker = NoWorker
  NoId = NoId
INVARIANT
  PermitsConserved
PROPERTIES
  Settles
  PoolSpec
