SPECIFICATION Spec
CONSTANTS
  i1 = i1
  i2 = i2
  i3 = i3
  r1 = r1
  r2 = r2
  r3 = r3
  Images = {i1, i2, i3}
  Requests = {r1, r2, r3}
  Limit = 2
  MaxRevision = 4
  NoImage = NoImage
SYMMETRY Alike
INVARIANTS
  Ind
  GalleryBounded
  UsedNeverDeleted
PROPERTIES
  ArchivedReadOnly
  CurrentCommitsKeepGallery
CHECK_DEADLOCK FALSE
