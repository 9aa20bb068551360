---------------------------- MODULE MCCooldowns ----------------------------
(***************************************************************************)
(* Instances of Cooldowns for TLC.  Two routes are one model reached with  *)
(* two keys, or one key that serves two models; three routes are both.     *)
(* The second route has no daily limit.                                    *)
(***************************************************************************)
EXTENDS Cooldowns

CONSTANTS r1, r2, r3, k1, k2, m1, m2

KeyOfRoute == [r \in Routes |-> IF r = r2 THEN k2 ELSE k1]
ModelOfRoute == [r \in Routes |-> IF r = r3 THEN m2 ELSE m1]
=============================================================================
