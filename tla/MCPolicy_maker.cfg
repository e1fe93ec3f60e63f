SPECIFICATION Spec
CONSTANTS
  MaxVersion = 1
  Users = {u1, u2}
  NoUser = NoUser
  Requests = {r1}
  Nodes <- PlainAndFin
  Edges <- None
  FinancialNodes <- OnlyFin
  CleanContents <- CleanPairs
SYMMETRY UserSymmetry
INVARIANT MakerChecker
