SPECIFICATION FairSpec
CONSTANTS
  ReconcileReads = 1
  ResendAttempts = 1
  MaxTabs = 1
  ShownPages = {"unknown", "consent", "account_deactivated"}
PROPERTIES
  ClosedPageEndsWait
CHECK_DEADLOCK FALSE
