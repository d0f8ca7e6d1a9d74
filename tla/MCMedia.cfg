\* Four requests of any kind; three clip uploads, three photos.
SPECIFICATION Spec
CONSTANTS
  u1 = u1
  u2 = u2
  u3 = u3
  Uploads = {u1, u2, u3}
  Photos = {1, 2, 3}
  KeepEvidence = 1
  KeepTests = 1
  KeepPhotos = 1
  MaxRequests = 4
SYMMETRY Symmetry
INVARIANTS
  Inv
  AnsweredClipIsStored
  RowsHaveFiles
PROPERTIES
  RetentionKeepsNewest
  RequestSettledOnce
