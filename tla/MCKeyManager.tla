---------------------------- MODULE MCKeyManager ----------------------------
(* Two keys, two materials each, one short explicit cooldown: enough for a *)
(* key to be throttled, rotated while throttled, recovered and revoked     *)
(* while the other key is at any other point of its life.                  *)
EXTENDS KeyManager
=============================================================================
