SPECIFICATION Spec
CONSTANTS
  ann = ann
  hr = hr
  Nobody = Nobody
  People = {ann, hr}
  Org = {hr}
  Manages <- NoTeam
  Leads = {}
  Insiders = {ann}
  DefaultReviewer <- HrChecks
  Holders = {ann}
  Reviewers = {}
  Clients = {c1}
  MaxRevision = 1
INVARIANT WorkCanBeReviewed
CHECK_DEADLOCK FALSE
