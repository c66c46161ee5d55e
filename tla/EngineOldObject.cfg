\* Cancel against an object that was there before, on a staged backend.
SPECIFICATION SafetySpec
CONSTANTS
  Ids = {t1}
  Workers = {w1, w2}
  Clients = {c1, c2}
  Servers = {s3}
  InPlace = {}
  MaxConns = 1
  MaxWorkers = 1
  MaxRetries = 0
  Size = 2
  MaxSpawned = 2
  NoServer = NoServer
  NoFile = NoFile
  NoWorker = NoWorker
  NoId = NoId
SYMMETRY Symmetry
PROPERTY
  CancelSparesTheOldObject
