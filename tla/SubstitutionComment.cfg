\* The comment on FAILOVER chunks.
CONSTANTS
  None     = "None"
  MapOrder <- MCThree
  Vendor   <- MCThreeVendor
  Vendors  <- MCVendors
  MaxFed   = 1
  MaxSent  = 3
SPECIFICATION Spec
INVARIANT SubstitutionAnnounced
\* The generator ends: nothing follows "done" or "closed".
CHECK_DEADLOCK FALSE
