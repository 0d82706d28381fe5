CONSTANTS
  u1 = u1
  u2 = u2
  c1 = c1
  c2 = c2
  None = None
  Users <- MCUsers
  Calls <- MCCalls
  MaxWaiting = 1
  MaxDepth = 6
  MaxDepthOverlapped = 3
SPECIFICATION MCSpec
INVARIANTS
  TypeOK
  OwnerHasAccount
  KeychainFollows
  UsernameWhenSigningUp
  TableMeansLoggedIn
  Agreement
PROPERTIES
  SignInAnswered
