\* Three commands in any order, side by side or one after the other.
SPECIFICATION Spec
CONSTANTS
  None = None
  here = here
  there = there
  selfSigned = selfSigned
  signed = signed
  phrase = phrase
  Commands = {p1, p2, p3}
  Repos = {here, there}
  Certs = {selfSigned, signed}
  Trusted = {signed}
  Passphrases = {phrase}
  SpecLen <- MCSpecLen
  CertOf <- MCCertOf
  Jobs <- MCJobs
SYMMETRY Symmetry
INVARIANTS
  TypeOK
  KeyOfSnapshotKept
  ReportedKeyStands
  TokenForItsRepo
  PinBinds
  LoginTakesEffect
