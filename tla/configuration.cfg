SPECIFICATION ConfSpec
CONSTANTS
  Ssids = {ssidA, ssidB, ssidC}
  Keys = {key}
  Servers = {addr, name}
  Addresses = {addr}
  Numbers = {3, 29, 30}
  MaxNetworks = 2
  Blank = blank
  Other = other
  NoUart = nouart
SYMMETRY SsidSymmetry
INVARIANTS
  ConfTypeOK
  AsTyped
  NotAskedAgain
  EraseRestartsWizard
