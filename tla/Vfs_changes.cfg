CONSTANTS
  zip = zip
  inner = inner
  tar = tar
  Local = Local
  Archives = {zip, inner, tar}
  Outer <- TwoInOne
  Tars = {tar}
  Writes = TRUE
  MaxUses = 2
  MaxLeaks = 1
SPECIFICATION FairSpec
INVARIANTS ChangesKept
