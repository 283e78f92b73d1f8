---------------------------- MODULE MCDungeonCrawl ----------------------------
(* Instance of DungeonCrawl for TLC: the third of the listed groups has a   *)
(* malformed row, the first two belong to different subscriptions (az can   *)
(* list what several role assignments show).                                *)
EXTENDS DungeonCrawl, TLC

MCMalformed == {3}
MCSubscriptionOf == [g \in 1..NGroups |-> CASE g = 1 -> "subA"
                                            [] g = 2 -> "subB"
                                            [] OTHER -> Unknown]
=============================================================================
