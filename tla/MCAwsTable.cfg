\* One scan of at most four documents that other clients write and delete at
\* will, with pages of every length.
CONSTANTS
  K = 4
  Scanners = {s1}
  None = None
SPECIFICATION Spec
INVARIANT TypeOK
PROPERTIES Scans ScanEnds
