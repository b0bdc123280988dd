SPECIFICATION LoadSpec
CONSTANTS
  Files <- MCFiles
  Images <- MCImages
  Starts = {32, 256}
  Extra = {0, 5}
  Word = 512
  TextVA = 16
  DataVA = 64
  ImportVA = 384
  Granule = 8
  Unit = 2
  Info = 4
  Spare = 28
  Front = 4
  Header = 1
INVARIANTS
  TypeOK
  Contained
  NothingOverwritten
  HeapSuffices
  WellFormedLoads
  SectionsAsBuilt
