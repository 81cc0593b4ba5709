SPECIFICATION Spec
CONSTANTS
  Account = {a, b}
  Token = {t1, t2}
  User = {u, v}
  NoToken = NoToken
  Nobody = Nobody
  MaxRevision = 3
SYMMETRY Symmetry
INVARIANTS
  IdentityIsItsToken
  UsersAreApart
  StoreInv
PROPERTY FailsClosed
