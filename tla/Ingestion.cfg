CONSTANTS
  Requests <- MCRequests
  ContentOf <- MCContents
  Surfaces <- MCSurfaces
  Canonical <- MCCanonical
  Relations <- MCRelations
  Extractions <- MCExtractions
SPECIFICATION Spec
INVARIANTS
  TypeOK
  StoresAgree
  DuplicatesNeedOverlap
PROPERTIES
  ImplementsContentStore
