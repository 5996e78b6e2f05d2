CONSTANTS
  Clients = {c1, c2, c3}
  NoContext = NoContext
  MaxDrafts = 2
SPECIFICATION Spec
SYMMETRY ClientsSymmetry
INVARIANTS ServiceTypeOK DraftNeverRuns HandoffHasContext
PROPERTY ApprovalStays
