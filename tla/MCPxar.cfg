\* Every tree with every list of patterns.
SPECIFICATION Spec
CONSTANTS
  AnyDepth = {any}
  Names = {1, 2, 3}
  NameLen <- MCNameLen
  Hash <- MCHash
  Attrs = {5, 8}
  Trees <- MCTrees
  Excludes <- MCExcludes
INVARIANTS
  TypeOK
  LastLineDecides
  DecodesWhatWasThere
  TablesLead
