SPECIFICATION Spec
CONSTANTS
  ann = ann
  bob = bob
  acme = acme
  k1 = k1
  Env = Env
  NoKey = NoKey
  Members = {ann, bob}
  OrgOf <- OneWorkspace
  OwnKeys = {k1}
  Limit <- Allowances
  PersonCap = 2
  Slices = 1
  SliceMax = 2
  Lengths = {2}
  Requests = {u1, u2}
  LastDay = 2
  MaxReads = 1
SYMMETRY Alike
CHECK_DEADLOCK FALSE
INVARIANTS
  TypeOK
  CountsAreKept
  OneUtteranceOver
  BilledIsCounted
 
