SPECIFICATION FairSpec
CONSTANTS
  ReconcileReads = 1
  ResendAttempts = 1
  MaxTabs = 1
  ShownPages = {"unknown", "email", "password_choice", "email_otp", "consent", "blocked",
                "authenticator_totp", "credentials", "account_deactivated"}
INVARIANTS
  KnownChromeIsClosed
PROPERTIES
  CallsReturn
  ProgressIsNoticed
CHECK_DEADLOCK FALSE
