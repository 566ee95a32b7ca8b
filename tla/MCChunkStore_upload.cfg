CONSTANTS
  Objects = {o1, o2, o3}
  Requests = {r1, r2}
  Data = {"x", "y"}
  Files <- MCFiles
  ChunkBytes = 2
  MaxUploadBytes = 3
  MaxObjectBytes = 3
  OrgBytes = 5
  UploadChunks = 2
  DerivedChunks = 2
  OpenUploads = 2
  DatasetLimit = 2
SPECIFICATION Spec
SYMMETRY RequestSymmetry
INVARIANTS
  FileArrives
  OneDataset
  StorageReserved
PROPERTIES
  ImplementsAtomicUpload
CHECK_DEADLOCK FALSE
