CONSTANTS
  k1 = k1
  k2 = k2
  s1 = s1
  s2 = s2
  Keys <- MC_Keys
  Ssrcs <- MC_Ssrcs
  Auths = {0, 2}
  Ciphers = {1, 3}
  NoKey = NoKey
  Default = Default
  MaxCalls = 4
SPECIFICATION Spec
INVARIANTS TypeOK ProbesTracked
PROPERTIES KeyStoreRefined
CHECK_DEADLOCK FALSE
