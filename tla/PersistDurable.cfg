SPECIFICATION Safety
CONSTANTS
  PageWords = 20
  BlobWords = 3
  Blobs <- MCBlobs
  Erased = 255
  Programs = {"library"}
INVARIANT CommitIsLoaded
