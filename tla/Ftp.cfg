CONSTANTS
  home = home
  pub = pub
  NoDir = NoDir
  Dirs = {home, pub}
  Home = home
  Spaced = {}
  WithLinks = {home}
  MaxDrops = 1
SPECIFICATION Spec
INVARIANTS InStep ListedAsNamed Truthful RepairedSoon
