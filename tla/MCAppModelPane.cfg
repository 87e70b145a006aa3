SPECIFICATION Spec
CONSTANTS
  s1 = s1
  s2 = s2
  s3 = s3
  pxar = pxar
  conf = conf
  t1 = t1
  t2 = t2
  Snapshots = {s1, s2, s3}
  Names = {pxar, conf}
  Browsable = {pxar}
  Slots = {t1, t2}
  None = None
  ArchivesOf <- MCArchivesOf
  Listings <- MCListings
INVARIANT NotBrowsableIsSaid
