CONSTANTS
  Scale = 10
  MaxRoster = 5
  TieBreak <- MCTieBreak
  Setups <- MCSetups
SPECIFICATION MCSpec
INVARIANTS
  EscrowAccounted
  WithinHardCap
  CertificateSound
