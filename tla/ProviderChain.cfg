\* The failover chain: three providers, attempts of up to four fragments.
CONSTANTS
  None     = "None"
  MapOrder <- MCThree
  Vendor   <- MCThreeVendor
  Vendors  <- MCVendors
  MaxFed   = 4
  MaxSent  = 4
SPECIFICATION FairSpec
INVARIANTS
  TypeOK
  OncePerProvider
  ExhaustionHonest
  FailoverLedger
  BufferingExact
  ToolOvertakesOneSentence
PROPERTIES
  ContractHolds
  AlwaysAnswers
\* The generator ends: nothing follows "done" or "closed".
CHECK_DEADLOCK FALSE
