----------------------------- MODULE Enrolment -----------------------------
(***************************************************************************)
(* How an account comes to be: registration with a password, sign in with  *)
(* Google, and erasure, each in transactions of its own and all at once.   *)
(* An account is a tenant of one, so its row stands for both.  Ids are     *)
(* never used again.                                                       *)
(***************************************************************************)
EXTENDS Naturals, FiniteSets

CONSTANTS
    Emails,         \* addresses
    Subjects,       \* Google identities
    EmailOf,        \* the verified address of each
    Accounts,       \* accounts that may ever be created (bound)
    Forms,          \* requests under way at once (bound)
    Nobody          \* no account, no subject, no address

ASSUME EnrolmentAssumption ==
    /\ EmailOf \in [Subjects -> Emails]
    /\ Nobody \notin Emails \union Subjects \union Accounts

VARIABLES
    account,        \* tenants and users
    form,           \* requests
    granted         \* history: who was given a session of which account

enrolmentVars == <<account, form, granted>>

AccountRow == [state : {"unborn", "here", "erased"}, email : Emails \union {Nobody},
               subject : Subjects \union {Nobody}]
Form == [pc : {"free", "register", "google", "create", "enter"},
         email : Emails \union {Nobody}, subject : Subjects \union {Nobody},
         found : Accounts \union {Nobody}]
FreeForm == [pc |-> "free", email |-> Nobody, subject |-> Nobody, found |-> Nobody]

Here == {a \in Accounts : account[a].state = "here"}
ByEmail(e) == {a \in Here : account[a].email = e}
BySubject(s) == {a \in Here : account[a].subject = s}

EnrolmentTypeOK ==
    /\ account \in [Accounts -> AccountRow]
    /\ form \in [Forms -> Form]
    /\ granted \subseteq [account : Accounts, email : Emails, subject : Subjects \union {Nobody}]
    /\ \A a \in Here : account[a].email # Nobody

EnrolmentInit ==
    /\ account = [a \in Accounts |-> [state |-> "unborn", email |-> Nobody, subject |-> Nobody]]
    /\ form = [f \in Forms |-> FreeForm]
    /\ granted = {}

Register(f, e) ==
    /\ form[f] = FreeForm
    /\ form' = [form EXCEPT ![f] = [FreeForm EXCEPT !.pc = "register", !.email = e]]
    /\ UNCHANGED <<account, granted>>

Free(f) == form' = [form EXCEPT ![f] = FreeForm]

\* The constraints of users: a row is refused when its address or its subject
\* is taken, whatever a lookup has said before.
Admissible(e, s) == ByEmail(e) = {} /\ (s # Nobody => BySubject(s) = {})

Insert(a, e, s) ==
    /\ account[a].state = "unborn" /\ Admissible(e, s)
    /\ account' = [account EXCEPT ![a] = [state |-> "here", email |-> e, subject |-> s]]

\* One transaction: lookup, tenant, user and tokens.  The lookup decides as
\* the constraint would, but for a row that commits in between.
RegisterCommit(f, a) ==
    LET e == form[f].email IN
    /\ form[f].pc = "register" /\ Insert(a, e, Nobody)
    /\ granted' = granted \union {[account |-> a, email |-> e, subject |-> Nobody]}
    /\ Free(f)

RegisterTaken(f) ==
    /\ form[f].pc = "register" /\ ~Admissible(form[f].email, Nobody)
    /\ Free(f) /\ UNCHANGED <<account, granted>>

GoogleReturns(f, s) ==
    /\ form[f] = FreeForm
    /\ form' = [form EXCEPT ![f] = [FreeForm EXCEPT !.pc = "google", !.subject = s,
                                                    !.email = EmailOf[s]]]
    /\ UNCHANGED <<account, granted>>

\* Mutant: the address is as good as the subject.
FoundByEither(f) == BySubject(form[f].subject) \union ByEmail(form[f].email)

\* The stable subject, never the address.
Found(f) == BySubject(form[f].subject)

\* One transaction of lookups: an account of this subject, an account that has
\* its address and is refused, or none.
GoogleLookup(f) ==
    /\ form[f].pc = "google"
    /\ \/ \E a \in Found(f) : form' = [form EXCEPT ![f].pc = "enter", ![f].found = a]
       \/ Found(f) = {} /\ ByEmail(form[f].email) # {} /\ Free(f)
       \/ Found(f) = {} /\ ByEmail(form[f].email) = {}
          /\ form' = [form EXCEPT ![f].pc = "create"]
    /\ UNCHANGED <<account, granted>>

GoogleCreate(f, a) ==
    /\ form[f].pc = "create" /\ Insert(a, form[f].email, form[f].subject)
    /\ form' = [form EXCEPT ![f].pc = "enter", ![f].found = a]
    /\ UNCHANGED granted

GoogleTaken(f) ==
    /\ form[f].pc = "create" /\ ~Admissible(form[f].email, form[f].subject)
    /\ Free(f) /\ UNCHANGED <<account, granted>>

\* The last transaction loads the user by its id, which fails once it is gone.
GoogleEnter(f) ==
    LET a == form[f].found IN
    /\ form[f].pc = "enter"
    /\ granted' = IF a \in Here
                  THEN granted \union {[account |-> a, email |-> form[f].email,
                                        subject |-> form[f].subject]}
                  ELSE granted
    /\ Free(f) /\ UNCHANGED account

\* The process is lost between two transactions.
FormLost(f) ==
    /\ form[f].pc \in {"create", "enter"}
    /\ Free(f) /\ UNCHANGED <<account, granted>>

Erase(a) ==
    /\ a \in Here
    /\ account' = [account EXCEPT ![a].state = "erased"]
    /\ UNCHANGED <<form, granted>>

EnrolmentNext ==
    \/ \E f \in Forms, e \in Emails : Register(f, e)
    \/ \E f \in Forms, s \in Subjects : GoogleReturns(f, s)
    \/ \E f \in Forms, a \in Accounts : RegisterCommit(f, a) \/ GoogleCreate(f, a)
    \/ \E f \in Forms : \/ RegisterTaken(f) \/ GoogleLookup(f) \/ GoogleTaken(f)
                        \/ GoogleEnter(f) \/ FormLost(f)
    \/ \E a \in Accounts : Erase(a)

EnrolmentSpec == EnrolmentInit /\ [][EnrolmentNext]_enrolmentVars

-----------------------------------------------------------------------------
(* Properties *)

\* However registrations, Google sign ins and erasures cross, whoever enters an
\* account is who created it: a Google identity never enters an account of the
\* same address that was made with a password, and no address has two accounts
\* (oauth.py 86-117).
EnteredByItsOwn ==
    /\ \A g \in granted : account[g.account].email = g.email /\ account[g.account].subject = g.subject
    /\ \A e \in Emails : Cardinality(ByEmail(e)) <= 1

=============================================================================
