SPECIFICATION LoaderSpec
CONSTANTS
  Programs <- MakefilePrograms
  OtherNames = {"task_c"}
  KernelSectors = 3
  MaxEntries = 21
  Sectors = {0, 1, 2, 3, 4, 5, 6, 7}
  LbaModulus = 16
INVARIANTS
  KnownIsFound
