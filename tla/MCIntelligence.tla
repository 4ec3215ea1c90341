--------------------------- MODULE MCIntelligence ---------------------------
(***************************************************************************)
(* The privacy gateway and the derived intelligence share no state and are *)
(* checked one at a time in one run: a behaviour is about the module of    *)
(* its focus, and the other stays in an initial state.                     *)
(***************************************************************************)
EXTENDS MCGateway, MCDerived

VARIABLE focus

intelligenceVars == <<focus, gatewayVars, derivedVars>>

IntelligenceInit ==
    /\ focus \in {"gateway", "derived"}
    /\ GatewayInit /\ DerivedInit
    /\ focus = "gateway" => role = CHOOSE r \in Roles : TRUE

On(name) == focus = name /\ UNCHANGED focus

IntelligenceNext ==
    \/ On("gateway") /\ GatewayNext /\ UNCHANGED derivedVars
    \/ On("derived") /\ DerivedNext /\ UNCHANGED gatewayVars

IntelligenceSpec == IntelligenceInit /\ [][IntelligenceNext]_intelligenceVars

\* Every variable of the module in focus keeps its type.
IntelligenceTypeOK ==
    /\ focus = "gateway" => GatewayTypeOK
    /\ focus = "derived" => DerivedTypeOK

\* Every surface shows the same money. That is a matter of the ledger alone, and
\* every ledger is reached while no worker is on duty: it is looked at there.
SurfacesAgreeAtRest ==
    focus = "derived" /\ (\A w \in Workers : shift[w] = OffDuty) => SurfacesAgree
=============================================================================
