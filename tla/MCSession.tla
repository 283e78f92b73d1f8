------------------------------ MODULE MCSession ------------------------------
(* Instance of Session for TLC: two groups, one of which the canned help     *)
(* covers in part, as mock_learn_runner does.  The last path of "storage"    *)
(* can be cut to a path that az does not have.  The help texts have blank    *)
(* lines, other sections, a tag, a summary that wraps and has a colon after  *)
(* its wrap, and an entry without a summary.                                 *)
EXTENDS Session

In(words)    == [indented |-> TRUE, words |-> words]
Flush(words) == [indented |-> FALSE, words |-> words]
Blank        == Flush(<< >>)
Title(g)     == <<Blank, Flush(<<"Group">>), In(<<"az", g, ":", "Manage", g>>), Blank>>
Footer       == <<Blank, Flush(<<"To", "search", ":", "az find">>)>>
Wrapped      == <<In(<<"show", ":", "Show", "an">>), In(<<"account", "by", "name", ":", "one">>),
                  In(<<"at", "a", "time">>)>>

MCBare == ":" :> "" @@ "Commands:" :> "Commands" @@ "Subgroups:" :> "Subgroups"
            @@ "Arguments:" :> "Arguments" @@ "start:" :> "start"
MCTags == {"[Preview]"}

MCAzGroups == <<"vm", "storage">>
MCKeySeq == <<<<"storage", "list">>, <<"storage", "sh">>, <<"storage", "show">>, <<"vm", "start">>>>
MCCapsOf == [g \in {"vm", "storage"} |->
               IF g = "vm" THEN {<<"vm", "start">>}
               ELSE {<<"storage", "list">>, <<"storage", "show">>}]

MCRootHelp ==
  {<<Blank, Flush(<<"Group">>), In(<<"az">>), Blank,
     Flush(<<"Subgroups:">>), In(<<"vm", "[Preview]", ":", "Machines">>),
     In(<<"storage", ":", "Accounts">>), Blank,
     Flush(<<"Commands:">>), In(<<"login", ":", "Log", "in">>)>> \o Footer}

MCHelpOf ==
  [g \in {"vm", "storage"} |->
     IF g = "vm"
     THEN {Title(g) \o <<Flush(<<"Commands:">>), In(<<"start:">>)>> \o Footer,
           Title(g) \o <<Flush(<<"Commands:">>), In(<<"start", "[Preview]", ":", "Start">>),
                         Flush(<<"Arguments:">>), In(<<"name", ":", "Of", "it">>)>>}
     ELSE {Title(g) \o <<Flush(<<"Subgroups:">>), In(<<"account", ":", "Accounts">>), Blank,
                         Flush(<<"Commands:">>), In(<<"list", ":", "List">>)>> \o Wrapped \o Footer}]

MCCannedHelp ==
  [g \in {"storage"} |->
     Title(g) \o <<Flush(<<"Commands:">>), In(<<"list", ":", "List", "accounts">>)>>]

MCCutsOf == [k \in {MCKeySeq[i] : i \in 1..4} |->
               IF k = <<"storage", "show">> THEN {<<"storage", "sh">>} ELSE {}]
=============================================================================
