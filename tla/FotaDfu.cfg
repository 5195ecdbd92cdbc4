SPECIFICATION Spec
CONSTANTS
  Images <- MCImages
  Size <- MCSize
  ChunkSize <- MCChunkSize
  ZeroCrc <- MCZeroCrc
  PageCells = 2
  BootCells = 4
  AppCell = 6
  StagingCell = 10
  FlashCells = 16
  EraseWrap = 8
  MaxResets = 2
INVARIANTS TypeOK OneImage WholeUnlessCut
PROPERTIES UpdateEntersWhole SessionEnds
CHECK_DEADLOCK FALSE
