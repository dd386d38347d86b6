\* Two scans in one process over at most three entities that clients write
\* and delete at will, with pages of every length.
CONSTANTS
  K = 3
  Scanners = {s1, s2}
SPECIFICATION Spec
INVARIANT TypeOK
PROPERTIES Scans ScanEnds
