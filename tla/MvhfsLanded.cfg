SPECIFICATION MCSpec
CONSTANTS
  Names = {n1}
  Data = {d1, d2}
  Zero = Zero
  Cleared = Cleared
  Garbage = Garbage
  NoFile = NoFile
  Corrupt = Corrupt
  MVHFS_MAX_FILES = 2
  ENTRIES_PER_SECTOR = 1
  MVHFS_DIRECTORY_SECTORS = 2
  MVHFS_SECTORS_PER_COPY = 1
  MaxGeneration = 4
  FailedWrite = {"lost", "torn", "landed"}
  ReadErrors = FALSE
INVARIANT NoFileLost
