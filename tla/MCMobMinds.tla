----------------------------- MODULE MCMobMinds ------------------------------
(***************************************************************************)
(* A fox and a hen in different shards of the map of mobs.                  *)
(***************************************************************************)
EXTENDS MobMinds, TLC

CONSTANTS fox, hen

TwoShards == hen :> 1 @@ fox :> 2
FoxAndHen == {<<"walker", "fox">>, <<"walker", "prey">>}

=============================================================================
