SPECIFICATION FairSpec
CONSTANTS
  ann = ann
  bob = bob
  lead = lead
  Nobody = Nobody
  People = {ann, bob, lead}
  Org = {}
  Manages <- Team
  Leads = {}
  Insiders = {bob}
  DefaultReviewer <- LeadChecks
  Holders = {ann, bob}
  Reviewers = {lead}
  Clients = {c1}
  MaxRevision = 1
  Blocks = {b1, b2}
CHECK_DEADLOCK FALSE
INVARIANTS
  TypeOK
  OneOpenBlock
PROPERTIES
  
  UntrueBlocksAreCleared
  ClosedOnce
