SPECIFICATION MCSpec
CONSTANTS
  Names = {n1, n2}
  Data = {d1}
  Zero = Zero
  Cleared = Cleared
  Garbage = Garbage
  NoFile = NoFile
  Corrupt = Corrupt
  MVHFS_MAX_FILES = 2
  ENTRIES_PER_SECTOR = 1
  MVHFS_DIRECTORY_SECTORS = 2
  MVHFS_SECTORS_PER_COPY = 2
  MaxGeneration = 4
  FailedWrite = {"lost", "torn"}
  ReadErrors = FALSE
INVARIANTS Recoverable Coherent
PROPERTIES CommitsSafe ImplementsStore
SYMMETRY NameSymmetry
