\* A cash deposit or a cash withdrawal, two handlers at a time.
SPECIFICATION PtSpec
CONSTANTS
  Refs = {deposit, withdrawal}
  CashDeposits = {deposit}
  Workers = {w1, w2}
  NoRef = NoRef
SYMMETRY WorkerSymmetry
CONSTRAINT OneRow
INVARIANTS SettlementBacked ReconciliationBacked
PROPERTIES OneResolution
