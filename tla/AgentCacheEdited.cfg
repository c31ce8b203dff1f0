SPECIFICATION MCSpec
CONSTANTS
  t1 = t1
  t2 = t2
  src = src
  hdr = hdr
  obj = obj
  dep = dep
  Tasks = {t1}
  Files = {src, hdr}
  Outputs = {obj, dep}
  Contents <- MCContents
  Blobs <- MCBlobs
  Reads <- MCReads
  Out <- MCOut
  Missing = Missing
  Removed = Removed
  NoOutput = NoOutput
  Garbage = Garbage
  NoManifest = NoManifest
  MaxEdits = 1
  MaxFaults = 0
INVARIANT NeverStale
CHECK_DEADLOCK FALSE
