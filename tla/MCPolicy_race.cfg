SPECIFICATION Spec
CONSTANTS
  MaxVersion = 2
  Users = {u1}
  NoUser = NoUser
  Requests = {r1, r2}
  Nodes <- OnlyPlain
  Edges <- SelfLoop
  FinancialNodes <- None
  CleanContents <- CleanLoop
SYMMETRY UserSymmetry
VIEW RaceView
INVARIANTS OneActive FewLateEdits
