SPECIFICATION Spec
CONSTANT MaxKeys = 4
INVARIANTS
  TypeOK
  CertificatesMatch
  CompleteUnlessCut
PROPERTY KeepsIssued
