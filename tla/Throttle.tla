------------------------------ MODULE Throttle ------------------------------
(***************************************************************************)
(* What stands before a password: the sliding window of an address and the *)
(* lockout of the account.  The window is a sorted set of the times of     *)
(* attempts; here they are counted by age.  A sign in reads the account in *)
(* one transaction and writes its verdict in another.                      *)
(***************************************************************************)
EXTENDS Naturals, FiniteSets, FiniteSetsExt

CONSTANTS
    Addresses,          \* client addresses
    Owner,              \* the address of the user who knows the password
    Limit,              \* attempts a window lets through
    Window,             \* its length
    MaxFailures,        \* MAX_FAILED_LOGINS
    Lockout,            \* LOCKOUT_MINUTES
    MaxWrong,           \* wrong passwords that may be tried (bound)
    MaxHits,            \* attempts of one address at one moment (bound)
    MaxOutages          \* calls that may find Redis down (bound)

ASSUME ThrottleAssumption ==
    /\ Owner \in Addresses
    /\ {Limit, Window, MaxFailures, Lockout} \subseteq Nat \ {0}
    /\ {MaxWrong, MaxHits, MaxOutages} \subseteq Nat

VARIABLES
    hits,       \* attempts in the sorted set of an address, by age
    passed,     \* history: those of them that were let through
    count,      \* users.failed_login_count
    lockedFor,  \* time until users.locked_until
    attempt,    \* the sign in of each address, between its two transactions
    wait,       \* how long the owner has been told to wait
    tried,      \* wrong passwords tried so far
    wrongs,     \* history: wrong passwords written since the last success
    cooling,    \* history: what is left of LOCKOUT_MINUTES since the last failure
    overlapped, \* history: two sign ins have been under way at once
    outages,    \* calls that found Redis down
    entered     \* history: the owner has signed in

throttleHistory == <<wrongs, overlapped, entered>>
throttleVars == <<hits, passed, count, lockedFor, attempt, wait, tried, outages, cooling,
                  throttleHistory>>

Ages == 0..Window - 1
Attempt == [pc : {"idle", "right", "wrong"}, count : 0..MaxWrong]
Idle == [pc |-> "idle", count |-> 0]
NoHits == [i \in Ages |-> 0]

Used(record) == MapThenSumSet(LAMBDA i : record[i], Ages)

ThrottleTypeOK ==
    /\ hits \in [Addresses -> [Ages -> 0..MaxHits]]
    /\ passed \in [Addresses -> [Ages -> 0..MaxHits]]
    /\ count \in 0..MaxWrong
    /\ lockedFor \in 0..Lockout /\ cooling \in 0..Lockout
    /\ attempt \in [Addresses -> Attempt]
    /\ wait \in 0..Window
    /\ tried \in 0..MaxWrong /\ wrongs \in 0..MaxWrong
    /\ outages \in 0..MaxOutages
    /\ overlapped \in BOOLEAN /\ entered \in BOOLEAN
    \* What was let through was counted.
    /\ \A a \in Addresses, i \in Ages : passed[a][i] <= hits[a][i]

ThrottleInit ==
    /\ hits = [a \in Addresses |-> NoHits]
    /\ passed = [a \in Addresses |-> NoHits]
    /\ count = 0 /\ lockedFor = 0 /\ cooling = 0
    /\ attempt = [a \in Addresses |-> Idle]
    /\ wait = 0 /\ tried = 0 /\ outages = 0
    /\ wrongs = 0 /\ overlapped = FALSE /\ entered = FALSE

-----------------------------------------------------------------------------

\* Mutant: a window that starts afresh when it is over.
OlderFixed(record) == [i \in Ages |-> IF i = 0 \/ record[Window - 1] > 0 THEN 0 ELSE record[i - 1]]

\* What has reached the age of the window is trimmed.
Older(record) == [i \in Ages |-> IF i = 0 THEN 0 ELSE record[i - 1]]

OneLess(n) == IF n = 0 THEN 0 ELSE n - 1

Tick ==
    /\ hits' = [a \in Addresses |-> Older(hits[a])]
    /\ passed' = [a \in Addresses |-> [i \in Ages |-> IF i = 0 THEN 0 ELSE passed[a][i - 1]]]
    /\ lockedFor' = OneLess(lockedFor) /\ cooling' = OneLess(cooling)
    /\ wait' = OneLess(wait)
    /\ UNCHANGED <<count, attempt, tried, outages, throttleHistory>>

\* The owner respects retry_after; anyone else need not.
Ready(a) == attempt[a] = Idle /\ (a = Owner => wait = 0 /\ ~entered)

Counted(record) == [record EXCEPT ![0] = @ + 1]

\* check_rate_limit with cost 1.
Admits(a) == Used(hits[a]) + 1 <= Limit

\* Mutant: try again at once.
RetryAtOnce == 0

\* A refusal names the whole window.
RetryAfter == Window

\* The attempt is added to the window although it is refused.
TurnAway(a) ==
    /\ Ready(a) /\ hits[a][0] < MaxHits /\ ~Admits(a)
    /\ hits' = [hits EXCEPT ![a] = Counted(@)]
    /\ wait' = IF a = Owner THEN RetryAfter ELSE wait
    /\ UNCHANGED <<passed, count, lockedFor, cooling, attempt, tried, outages, throttleHistory>>

\* auth.login from its lookup to its verdict: a locked account is refused
\* before the password is looked at.
Enter(a, pc) ==
    /\ pc = "wrong" => tried < MaxWrong
    /\ IF lockedFor > 0
       THEN UNCHANGED <<attempt, tried, overlapped>>
       ELSE /\ attempt' = [attempt EXCEPT ![a] = [pc |-> pc, count |-> count]]
            /\ tried' = IF pc = "wrong" THEN tried + 1 ELSE tried
            /\ overlapped' = (overlapped \/ \E b \in Addresses : attempt[b] # Idle)

\* Mutant: only refused attempts are added.
LetInUncounted(a, pc) ==
    /\ Ready(a) /\ hits[a][0] < MaxHits /\ Admits(a)
    /\ passed' = [passed EXCEPT ![a] = Counted(@)]
    /\ Enter(a, pc)
    /\ UNCHANGED <<hits, count, lockedFor, cooling, wait, outages, wrongs, entered>>

\* An attempt that is let through, and its sign in up to the verdict.
LetIn(a, pc) ==
    /\ Ready(a) /\ hits[a][0] < MaxHits /\ Admits(a)
    /\ hits' = [hits EXCEPT ![a] = Counted(@)]
    /\ passed' = [passed EXCEPT ![a] = Counted(@)]
    /\ Enter(a, pc)
    /\ UNCHANGED <<count, lockedFor, cooling, wait, outages, wrongs, entered>>

\* Redis is down: the limit fails open, and the attempt is not on record.
LetInUnmetered(a, pc) ==
    /\ Ready(a) /\ outages < MaxOutages
    /\ outages' = outages + 1
    /\ Enter(a, pc)
    /\ UNCHANGED <<hits, passed, count, lockedFor, cooling, wait, wrongs, entered>>

\* Mutant: raised inside the transaction, which rolls it back.
FailRolledBack(a) ==
    /\ attempt[a].pc = "wrong"
    /\ attempt' = [attempt EXCEPT ![a] = Idle]
    /\ wrongs' = wrongs + 1 /\ cooling' = Lockout
    /\ UNCHANGED <<hits, passed, count, lockedFor, wait, tried, outages, overlapped, entered>>

\* The count that was read, plus one; it locks, or clears what it finds.
FailLogin(a) ==
    LET failures == attempt[a].count + 1 IN
    /\ attempt[a].pc = "wrong"
    /\ count' = failures
    /\ lockedFor' = IF failures >= MaxFailures THEN Lockout ELSE 0
    /\ attempt' = [attempt EXCEPT ![a] = Idle]
    /\ wrongs' = wrongs + 1 /\ cooling' = Lockout
    /\ UNCHANGED <<hits, passed, wait, tried, outages, overlapped, entered>>

\* The count and the lock are cleared, and the window of the address with
\* them (reset_rate_limit).
Succeed(a) ==
    /\ attempt[a].pc = "right"
    /\ count' = 0 /\ lockedFor' = 0
    /\ attempt' = [attempt EXCEPT ![a] = Idle]
    /\ hits' = [hits EXCEPT ![a] = NoHits]
    /\ passed' = [passed EXCEPT ![a] = NoHits]
    /\ wrongs' = 0 /\ cooling' = 0 /\ entered' = TRUE
    /\ UNCHANGED <<wait, tried, outages, overlapped>>

-----------------------------------------------------------------------------

Verdict == \E a \in Addresses : FailLogin(a) \/ Succeed(a)

\* Only the owner knows the password, and may still mistype it.
ThrottleNext ==
    \/ Tick \/ Verdict
    \/ \E a \in Addresses : TurnAway(a) \/ LetIn(a, "wrong") \/ LetInUnmetered(a, "wrong")
    \/ LetIn(Owner, "right") \/ LetInUnmetered(Owner, "right")

ThrottleSpec == ThrottleInit /\ [][ThrottleNext]_throttleVars

\* Time passes, a sign in that was let in is answered, and the owner tries
\* again when told to.
OwnerTries == LetIn(Owner, "right") \/ TurnAway(Owner)

ThrottleFairSpec ==
    ThrottleSpec /\ WF_throttleVars(Tick) /\ WF_throttleVars(Verdict) /\ WF_throttleVars(OwnerTries)

-----------------------------------------------------------------------------
(* Properties *)

\* No window of any position lets more than Limit attempts of an address
\* through, unless the address has proven itself in between or Redis was down
\* (rate_limit.py 3-6).
WindowHolds == \A a \in Addresses : Used(passed[a]) <= Limit

\* As long as no two sign ins overlap, the count is the number of consecutive
\* failures, which survive the errors they raise, and the account is locked
\* exactly while they have reached the limit and the last of them is younger
\* than the lockout: a lock that has run out leaves the count, and the next
\* failure locks again (auth.py 326-347).
CountIsExact ==
    ~overlapped =>
        /\ count = wrongs
        /\ lockedFor = IF wrongs >= MaxFailures THEN cooling ELSE 0

\* Whatever others try, and whatever window or lock it runs into, a user who
\* knows the password and waits when told to gets in once the others stop
\* (rate_limit.py 103-106, auth.py 310-313).
OwnerGetsIn == (tried > 0) ~> entered

=============================================================================
