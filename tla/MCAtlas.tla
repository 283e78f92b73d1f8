------------------------------- MODULE MCAtlas -------------------------------
(* Instance of Atlas for TLC: three groups in two regions one wing apart, all *)
(* hashed to a corner of their wings, or all but the second; two resources.   *)
EXTENDS Render

MCGroupOf == [x \in {"a", "b"} |-> IF x = "a" THEN 1 ELSE 2]
MCStartGroups == [g \in 1..3 |-> IF g = 3 THEN "east" ELSE "west"]
MCStartResources == [x \in {"a", "b"} |-> "x"]
MCBias == [r \in {"west", "east"} |-> IF r = "west" THEN <<0, 0>> ELSE <<1, 0>>]
MCFines == {[p \in Groups \X Regions |-> <<0, 0>>],
            [p \in Groups \X Regions |-> IF p[1] = 2 THEN <<1, 0>> ELSE <<0, 0>>]}
=============================================================================
