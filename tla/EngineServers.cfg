\* Two servers, connection ids that start again at 0.
SPECIFICATION SafetySpec
CONSTANTS
  Ids = {t1}
  Workers = {w1, w2}
  Clients = {c1}
  Servers = {s3, sftp}
  InPlace = {sftp}
  MaxConns = 2
  MaxWorkers = 1
  MaxRetries = 0
  Size = 2
  MaxSpawned = 2
  NoServer = NoServer
  NoFile = NoFile
  NoWorker = NoWorker
  NoId = NoId
SYMMETRY Symmetry
INVARIANT
  StreamsAtHome
