------------------------------- MODULE MCWorld -------------------------------
(* Instance of World for TLC: launches with the hand-authored estate, with  *)
(* generated ones and with what az answers.  A name can be the prefix of    *)
(* another ("storage" and "storage-logs"), be met through a common prefix,  *)
(* and occur in two rooms.                                                  *)
EXTENDS World

\* An object of a generated estate, the j-th of its room.
Storage(j, safe) ==
  [Plain("storage-00" \o ToString(j)) EXCEPT !.public = ~safe, !.encrypted = safe]
Sql(j, safe) ==
  [Plain("sql-00" \o ToString(j)) EXCEPT !.locked = safe, !.monthly_cost = Cost(500)]

Draws(rooms, each) ==
  [1..rooms -> {row \in [1..each -> UNION {{Storage(j, b), Sql(j, b)} : j \in {0, 1}, b \in BOOLEAN}] :
                  \A j \in 1..each : row[j].name \in {"storage-00" \o ToString(j - 1),
                                                      "sql-00" \o ToString(j - 1)}}]

Launch(id, size, draw, listed, contents) ==
  [id |-> id, size |-> size, draw |-> draw, listed |-> listed, contents |-> contents]
Size(rooms, each) == [resource_groups |-> rooms, resources_per_group |-> each]

MCContents ==
  {[g \in {"a", "b", "c", "d"} |-> CASE g = "a" -> a [] g = "b" -> b [] OTHER -> <<"storage">>] :
     a \in {<<"storage-logs", "storage">>, Unavailable}, b \in {<<"storage">>, << >>}}

MCLaunches ==
  {Launch("mock", Unset, << >>, Unavailable, << >>),
   Launch("mcok", Invalid, << >>, Unavailable, << >>)}
  \cup {Launch("mock", Size(n, 0), [k \in 1..Max({n, 1}) |-> << >>], Unavailable, << >>) :
          n \in 0..11}
  \cup {Launch("mock", Size(2, 1), draw, Unavailable, << >>) : draw \in Draws(2, 1)}
  \cup {Launch("mock", Size(1, 2), draw, Unavailable, << >>) : draw \in Draws(1, 2)}
  \cup {Launch("az", Unset, << >>, listed, contents) :
          listed \in {Unavailable, << >>, <<"b">>, <<"b", "a", "c">>, <<"a", "b", "c", "d">>},
          contents \in MCContents}

MCPrefixesOf ==
  [name \in {"storage", "storage-logs", "storage-000", "storage-001", "sql-000", "sql-001",
             "portal", "appservice", "webstore", "sqlserver", "keyvault", "managed-identity",
             "orphan-vm"} |->
     {name} \cup CASE name \in {"storage-logs", "storage-000", "storage-001"} -> {"storage"}
                   [] name \in {"sql-000", "sql-001", "sqlserver"}            -> {"sql"}
                   [] name = "orphan-vm"                                      -> {"orphan"}
                   [] OTHER                                                   -> {}]
=============================================================================
