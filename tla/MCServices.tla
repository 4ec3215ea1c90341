----------------------------- MODULE MCServices -----------------------------
(***************************************************************************)
(* Four modules that share no state, checked one at a time in one run: a   *)
(* behaviour is about the module of its focus, and the others stay in      *)
(* their initial states.                                                   *)
(***************************************************************************)
EXTENDS Maintenance, Throttle, Enrolment, MCJobStream, TLC

CONSTANTS alice, bob, a1, b1, s1, e1

VARIABLE focus

TwoOwners == (a1 :> alice) @@ (b1 :> bob)
OneIdentity == s1 :> e1

servicesVars == <<focus, maintVars, throttleVars, enrolmentVars, vars>>

ServicesInit ==
    /\ focus \in {"maintenance", "throttle", "enrolment", "stream"}
    /\ MaintenanceInit /\ ThrottleInit /\ EnrolmentInit /\ Init

On(name) == focus = name /\ UNCHANGED focus

ServicesNext ==
    \/ On("maintenance") /\ MaintenanceNext /\ UNCHANGED <<throttleVars, enrolmentVars, vars>>
    \/ On("throttle") /\ ThrottleNext /\ UNCHANGED <<maintVars, enrolmentVars, vars>>
    \/ On("enrolment") /\ EnrolmentNext /\ UNCHANGED <<maintVars, throttleVars, vars>>
    \/ On("stream") /\ Next /\ UNCHANGED <<maintVars, throttleVars, enrolmentVars>>

ServicesSpec == ServicesInit /\ [][ServicesNext]_servicesVars

\* The fairness of MaintenanceFairSpec, ThrottleFairSpec and FairSpec.
ServicesFairSpec ==
    /\ ServicesSpec
    /\ WF_maintVars(focus = "maintenance" /\ SweepStep)
    /\ WF_throttleVars(focus = "throttle" /\ Tick)
    /\ WF_throttleVars(focus = "throttle" /\ Verdict)
    /\ WF_throttleVars(focus = "throttle" /\ OwnerTries)
    /\ WF_vars(focus = "stream" /\ StreamStep)
    /\ \A r \in Runs : WF_vars(focus = "stream" /\ RunStep(r))

\* Every variable of the module in focus keeps its type.
ServicesTypeOK ==
    /\ focus = "maintenance" => MaintenanceTypeOK
    /\ focus = "throttle" => ThrottleTypeOK
    /\ focus = "enrolment" => EnrolmentTypeOK
    /\ focus = "stream" => TypeOK
=============================================================================
