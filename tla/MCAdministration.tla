-------------------------- MODULE MCAdministration --------------------------
(***************************************************************************)
(* What administrators, portal users and the billing of an account change, *)
(* checked in one run: the configuration handlers, portal access to        *)
(* downstream keys, model qualification and the account's cost budget.     *)
(*                                                                         *)
(* Each module already contains the edits of the others that reach its own *)
(* state, so "focus" picks the one that moves and the others keep their    *)
(* first state.                                                            *)
(***************************************************************************)
EXTENDS CostBudget, Configuration, PortalAccess, ModelQualification

CONSTANTS k1, k2, r1, r2, r3

(* One account with two keys, both cost billed.                            *)
TwoKeys == {k1, k2}
ThreeRequests == {r1, r2, r3}
KeyOfRequest == [r \in ThreeRequests |-> IF r = r2 THEN k2 ELSE k1]

VARIABLE focus
adminVars == <<vars, configVars, accessVars, qualVars, focus>>

(* Where a part that does not move is.                                     *)
AtRest ==
    /\ focus # "budget" => limit = 0
    /\ focus # "configuration" => backend = "file"
    /\ focus # "access" =>
          /\ policy[Migrated] = Denied(CHOOSE u \in Users : TRUE)
          /\ \A k \in AccessKeys \ {Migrated, Conflicted} : policy[k] = Absent
    /\ focus # "qualification" =>
          ~ portal /\ ring = UpKeys /\ \A d \in DOMAIN binding : binding[d] = "none"

AdminInit ==
    /\ focus \in {"budget", "configuration", "access", "qualification"}
    /\ Init /\ ConfigInit /\ AccessInit /\ QualInit
    /\ AtRest

AdminNext ==
    /\ UNCHANGED focus
    /\ \/ focus = "budget" /\ Next /\ UNCHANGED <<configVars, accessVars, qualVars>>
       \/ focus = "configuration" /\ ConfigNext /\ UNCHANGED <<vars, accessVars, qualVars>>
       \/ focus = "access" /\ AccessNext /\ UNCHANGED <<vars, configVars, qualVars>>
       \/ focus = "qualification" /\ QualNext /\ UNCHANGED <<vars, configVars, accessVars>>

AdminSpec == AdminInit /\ [][AdminNext]_adminVars
=============================================================================
