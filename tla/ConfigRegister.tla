---- MODULE ConfigRegister ----
(***************************************************************************)
(* What the configuration store promises to the rest of the gateway: the   *)
(* configuration requests are served from ("served") only ever becomes     *)
(* what the store holds ("stored"), whatever handlers are dropped, fail or  *)
(* run at the same time, and whenever the process restarts.                *)
(***************************************************************************)
CONSTANT Documents
VARIABLES served, stored
registerVars == <<served, stored>>

RegisterInit == served \in Documents /\ stored = served

(* An update reaches the store before anybody is served from it.           *)
Record == stored' \in Documents /\ UNCHANGED served

(* The update is published, or a restart loads the store.                  *)
Publish == served' = stored /\ UNCHANGED stored

RegisterNext == Record \/ Publish
RegisterSpec == RegisterInit /\ [][RegisterNext]_registerVars
====
