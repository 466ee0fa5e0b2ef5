SPECIFICATION MCSpec
CONSTANTS
  Programs <- MakefilePrograms
  OtherNames = {"task_c"}
  KernelSectors = 1
  MaxEntries = 21
  Sectors = {0, 1, 2, 3, 4, 5, 6}
  LbaModulus = 8
  MaxCount = 3
  FontSector = 5
  FontSectors = 2
  MAX_FONT_DIRS = 1
  MAX_FONTS = 2
  FontFiles <- FilesToLoad
  GlyphNumbers = {0, 1, 2, 3}
INVARIANTS
  AtaTypeOK
  LoaderTypeOK
  StoresWhatItCounts
  ShortOnlyOnFailure
  NothingLeftInDrive
  RunsNamedProgram
  FontTypeOK
  KernelGlyphIsTools
PROPERTIES
  ReadReturns
  CommandSpec
