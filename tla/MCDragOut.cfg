\* Two drags, of any rows of the two archives.
SPECIFICATION Spec
CONSTANTS
  None = None
  site = site
  draft = draft
  x = x
  y = y
  z = z
  Names = {x, y, z}
  Drags = {d1, d2}
  Archives = {site, draft}
  Entries <- MCEntries
INVARIANT DropIsWhole
