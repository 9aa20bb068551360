------------------------------ MODULE MCGateway ------------------------------
(***************************************************************************)
(* An instance for TLC of the parts of the gateway whose safety is         *)
(* checked, side by side: a behaviour runs one of them and the others,     *)
(* which share no state with it, stand still.                              *)
(*                                                                         *)
(* The fallback loop: two requests, two models of one platform behind two  *)
(* keys.  r1 and r2 share key k1, which may carry one request at a time;   *)
(* r1 may serve one request a minute and r2 one a day; k2, the key of r3,  *)
(* may serve one a month.  With limits of one, two requests can meet at    *)
(* each gate, and each gate is the only one that stops them somewhere.     *)
(***************************************************************************)
EXTENDS FallbackLoop, Membership, Secrets, ResponseCache, TLC

CONSTANTS r1, r2, r3, k1, k2, minute, daily

VARIABLE part  \* the part that runs

Key == [r \in Routes |-> IF r = r3 THEN k2 ELSE k1]
Model == [r \in Routes |-> IF r = r1 THEN 1 ELSE 2]
Platform == [r \in Routes |-> 1]
Scopes == [m \in Meters |-> IF m = minute THEN {r1} ELSE {r2}]
OneEach == [m \in Meters |-> 1]
Widths == [m \in Meters |-> IF m = minute THEN 1 ELSE Horizon]
OneOnK1 == [k \in Keys |-> IF k = k1 THEN 1 ELSE 0]
OneOnK2 == [k \in Keys |-> IF k = k2 THEN 1 ELSE 0]
RequestSymmetry == Permutations(Requests)
Budgets == [r \in Routes |-> IF r = r1 THEN 0 ELSE 1]

gatewayVars == <<part, vars, members, secrets, cache>>

(* What stands still starts in one state, and the server with its first key. *)
StandsStill ==
  /\ part # "secrets" => keyAt["env"] # Nothing
  /\ part # "cache" => persisting
  /\ \A p \in Places : keyAt[p] # k2

GatewayInit ==
  /\ part \in {"loop", "members", "secrets", "cache"}
  /\ Init /\ MembershipInit /\ SecretsInit /\ CacheInit
  /\ StandsStill

GatewayNext ==
  /\ UNCHANGED part
  /\ \/ part = "loop" /\ Next /\ UNCHANGED <<members, secrets, cache>>
     \/ part = "members" /\ MembershipNext /\ UNCHANGED <<vars, secrets, cache>>
     \/ part = "secrets" /\ SecretsNext /\ UNCHANGED <<vars, members, cache>>
     \/ part = "cache" /\ CacheNext /\ UNCHANGED <<vars, members, secrets>>

GatewaySpec == GatewayInit /\ [][GatewayNext]_gatewayVars

-----------------------------------------------------------------------------
(* Every variable of the part that runs has its type. *)
GatewayTypeOK ==
  CASE part = "loop" -> TypeOK
    [] part = "members" -> MembershipTypeOK
    [] part = "secrets" -> SecretsTypeOK
    [] OTHER -> CacheTypeOK
=============================================================================
