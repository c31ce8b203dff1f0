SPECIFICATION MCQuietSpec
CONSTANTS
  t1 = t1
  t2 = t2
  src = src
  hdr = hdr
  obj = obj
  dep = dep
  Tasks = {t1, t2}
  Files = {src, hdr}
  Outputs = {obj, dep}
  Contents <- MCContents
  Blobs <- MCBlobs
  Reads <- MCReads
  Out <- MCOut
  Missing = Missing
  Removed = Removed
  NoOutput = NoOutput
  Garbage = Garbage
  NoManifest = NoManifest
  MaxEdits = 2
  MaxFaults = 1
SYMMETRY TaskSymmetry
INVARIANTS CacheInv NeverStale HitIsCurrent RecordingMakesHits
CHECK_DEADLOCK FALSE
