SPECIFICATION Spec
CONSTANTS
    NKeys = 2
    MaxTrouble = 1
    DelayMin = 2
    DelayMax = 3
    Rate = 2
    Lifetimes = {4, 8, 400}
    UnavailLimit = 1
    AlignedUnavail = TRUE
    Signals = {"hup", "term"}
    MaxRespawns = 1
CHECK_DEADLOCK FALSE
INVARIANTS
  RegistrationTrue
  EndsTold
PROPERTIES
  SignalsActedOn
