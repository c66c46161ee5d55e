\* One transfer, two commands at a time, every race between them.
SPECIFICATION SafetySpec
CONSTANTS
  Ids = {t1}
  Workers = {w1, w2}
  Clients = {c1, c2}
  Servers = {sftp}
  InPlace = {sftp}
  MaxConns = 1
  MaxWorkers = 1
  MaxRetries = 1
  Size = 2
  MaxSpawned = 1
  NoServer = NoServer
  NoFile = NoFile
  NoWorker = NoWorker
  NoId = NoId
SYMMETRY Symmetry
INVARIANTS
  TypeOK
  OneWorkerPerTransfer
  InflightIsExact
  ActiveRowIsAttended

  
