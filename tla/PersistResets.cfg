SPECIFICATION Spec
CONSTANTS
  PageWords = 20
  BlobWords = 3
  Blobs <- MCBlobs
  Erased = 255
  Programs = {"calibrator", "reader", "library"}
INVARIANTS TypeOK PedalsAreLoaded SectionsGoToErasedFlash
PROPERTIES InitEnds
