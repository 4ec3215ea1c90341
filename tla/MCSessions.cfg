SPECIFICATION SessionsSpec
CONSTANTS
 t1 = t1
 t2 = t2
 b1 = b1
 Tokens = {k1, k2, k3}
 Tabs = {t1, t2}
 Browsers = {b1}
 JarOf <- OneBrowser
 Requests = {r1, r2}
 NoToken = NoToken
 NoTab = NoTab
 MaxLost = 1
SYMMETRY Symmetry
INVARIANTS
 EndedStaysEnded
 SessionIsAChain
 AccusedForAReason
CHECK_DEADLOCK FALSE
