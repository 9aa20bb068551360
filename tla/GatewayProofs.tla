--------------------------- MODULE GatewayProofs ---------------------------
(***************************************************************************)
(* The parts of the gateway side by side: a behaviour of MCGateway is a    *)
(* behaviour of each of its parts, so that what is proved of a part holds  *)
(* of the whole.  Nothing here depends on the sizes a configuration gives. *)
(***************************************************************************)
EXTENDS MCGateway, FallbackLoopProofs, AdministrationProofs, CacheProofs

(* GatewaySpec runs one part and lets the others stand still: to each part *)
(* a step of the whole is a step of its own or none.                       *)
THEOREM GatewayRunsItsParts ==
  GatewaySpec => Spec /\ MembershipSpec /\ SecretsSpec /\ CacheSpec
<1>1. GatewayInit => Init /\ MembershipInit /\ SecretsInit /\ CacheInit
  BY DEF GatewayInit
<1>2. ASSUME [GatewayNext]_gatewayVars
      PROVE  [Next]_vars /\ [MembershipNext]_members /\ [SecretsNext]_secrets
             /\ [CacheNext]_cache
  <2>1. CASE part = "loop" /\ Next /\ UNCHANGED <<members, secrets, cache>>
    BY <2>1
  <2>2. CASE part = "members" /\ MembershipNext /\ UNCHANGED <<vars, secrets, cache>>
    BY <2>2
  <2>3. CASE part = "secrets" /\ SecretsNext /\ UNCHANGED <<vars, members, cache>>
    BY <2>3
  <2>4. CASE part = "cache" /\ CacheNext /\ UNCHANGED <<vars, members, secrets>>
    BY <2>4
  <2>5. CASE UNCHANGED gatewayVars
    BY <2>5 DEF gatewayVars
  <2> QED BY <1>2, <2>1, <2>2, <2>3, <2>4, <2>5 DEF GatewayNext
<1> QED
  BY <1>1, <1>2, PTL DEF GatewaySpec, Spec, MembershipSpec, SecretsSpec, CacheSpec

(* GatewayTypeOK (MCGateway): the state of every part has its type, those  *)
(* of the loop, of the administration and of the response caches whatever  *)
(* happens, that of the secrets where the rotation script is not run       *)
(* beside a live server.                                                   *)
THEOREM GatewayIsTyped == ASSUME ~Live PROVE GatewaySpec => []GatewayTypeOK
<1>1. MembershipInv => MembershipTypeOK
  BY DEF MembershipInv
<1>2. KeysInv /\ Apart => SecretsTypeOK
  BY DEF KeysInv
<1>3. TypeOK /\ MembershipTypeOK /\ SecretsTypeOK /\ CacheTypeOK => GatewayTypeOK
  BY DEF GatewayTypeOK
<1>4. SecretsSpec => [](KeysInv /\ Apart)
  BY SecretsIsInv
<1> QED
  BY <1>1, <1>2, <1>3, <1>4, GatewayRunsItsParts, TypeIsCorrect, MembershipIsInv,
     CacheTyped, PTL
=============================================================================
