-------------------------- MODULE MCUpgradeSession --------------------------
(* Instances of UpgradeSession for TLC.                                    *)
EXTENDS UpgradeSession
=============================================================================
