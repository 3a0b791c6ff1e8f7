CONSTANTS
  zip = zip
  inner = inner
  tar = tar
  Local = Local
  Archives = {zip, inner, tar}
  Outer <- TwoInOne
  Tars = {tar}
  Writes = FALSE
  MaxUses = 2
  MaxLeaks = 1
SPECIFICATION FairSpec
INVARIANTS Consistent InUseStays SweepSafe
PROPERTIES CurrentStays LeftIsFreed
