SPECIFICATION ServicesFairSpec
CONSTANTS
 alice = alice
 bob = bob
 a1 = a1
 b1 = b1
 s1 = s1
 e1 = e1
 Owners = {alice, bob}
 Papers = {a1, b1}
 OwnerOf <- TwoOwners
 Locked = {b1}
 Disposable = {b1}
 OrphanShare = 2
 Leavers = {bob}
 CutKinds = {"storage", "lost", "abort"}
 MaxCuts = 1
 Owner = own
 Addresses = {own, other}
 Limit = 2
 Window = 2
 MaxFailures = 2
 Lockout = 2
 MaxWrong = 4
 MaxHits = 3
 MaxOutages = 1
 Emails = {e1, e2}
 Subjects = {s1}
 EmailOf <- OneIdentity
 Accounts = {acc1, acc2, acc3}
 Forms = {f1, f2}
 Nobody = Nobody
 r1 = r1
 r2 = r2
 Runs = {r1, r2}
 Scripts <- ShortScripts
 FaultKinds = {"rollback", "redis", "close"}
 MaxFaults = 1
INVARIANTS
 ServicesTypeOK
 SettledFilesSurvive
 ErasureLeavesNothingKnown
 WindowHolds
 CountIsExact
 EnteredByItsOwn
 InOrder
 NeverBehind
PROPERTIES
 ExpiredGo
 OwnerGetsIn
 FinishIsTold
CHECK_DEADLOCK FALSE
