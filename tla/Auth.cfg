SPECIFICATION Spec
CONSTANT Offers <- AllOffers
INVARIANTS
  TypeOK
  FewAttempts
PROPERTIES
  RightSecretGetsIn
  ForgetsOnlyRefused
  CallReturns
