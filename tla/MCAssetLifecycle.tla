-------------------------- MODULE MCAssetLifecycle --------------------------
(* A small instance of AssetLifecycle for TLC. *)
EXTENDS AssetLifecycle, TLC

CONSTANTS a1, a2, p1, b1, b2, none

(***************************************************************************)
(* The website, a product, a second asset and a second backup are explored *)
(* in combinations, not all at once: Small cuts off what people and the    *)
(* environment would add, never a step of the collector, of a backup under *)
(* way, of the scheduler or of time, so that the fair actions stay fair.   *)
(***************************************************************************)
Website == working # {} \/ versions # {{}} \/ switch # NoSwitch
Public == published # {}
Second == file[a2] # "unused"
Backup == ledger[b1] # "none"
Twice == ledger[b2] # "none"
Small ==
  /\ Website => ~Second
  /\ Twice => Backup /\ ~Website /\ ~Public /\ ~Second
  /\ Public /\ Second => ~Backup
  /\ (Website \/ Public \/ Second) /\ Backup => root
=============================================================================
