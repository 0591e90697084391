SPECIFICATION Spec
CONSTANTS
  Registries <- MCRegistries
  Questions = {"strong", "weak", "neutral"}
  Names <- MCNames
  Hints = {"azure", "open", "acme"}
  Suggests <- MCSuggests
  Overrides <- MCOverrides
  Pages <- MCPages
  Fixtures <- MCFixtures
  Relevance <- MCRelevance
  MaxResults = 2
INVARIANTS
  TypeOK
  WrongVendorAtWorst
  HintOutweighed
  BlocklistAbsolute
  AuthorityFirst
  FixtureMirrors
