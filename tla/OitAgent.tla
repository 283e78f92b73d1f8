------------------------------ MODULE OitAgent ------------------------------
(***************************************************************************)
(* The live outside-in-testing agent, src/src/bin/azork-oit.rs with the    *)
(* guardrails of src/src/oit/guardrails.rs: preflight, the creation of a   *)
(* tagged resource group, and the teardown that lists the groups, reads    *)
(* the tags of each that carries the prefix, and deletes those that bear   *)
(* the agent's own.  Several agents run against one subscription, and      *)
(* other people own groups in it.  Any az call may fail, with or without   *)
(* its effect, and an agent may be killed at any moment.                   *)
(*                                                                         *)
(* `az group create` of a group that exists replaces its tags.  What the   *)
(* agent drives azork to do between creation and teardown only reads.      *)
(*                                                                         *)
(* Operators named Faulty... are no part of the model, see AimdLimiter.    *)
(***************************************************************************)
EXTENDS Naturals, FiniteSets

CONSTANTS
  Agents,        (* runs of azork-oit                                     *)
  Names,         (* names of resource groups                              *)
  OitName,       (* oit_rg_name("oit"), the name every run uses           *)
  Prefixed,      (* the names is_oit_rg accepts                           *)
  ForeignNames,  (* the names other people give their groups              *)
  Accounts,      (* the subscriptions az may be logged in to              *)
  Expected       (* expected_subscription()                                *)

ASSUME OitAssumption ==
  /\ OitName \in Prefixed /\ Prefixed \subseteq Names
  /\ ForeignNames \subseteq Names
  /\ Expected \in Accounts

VARIABLES
  tags,        (* per group: "own" (both tags), "other", or "absent"          *)
  account,     (* what az is logged in to                                     *)
  place,       (* where in its run an agent is                                *)
  listing,     (* the groups an agent has still to look at                    *)
  target,      (* the group whose tags it read last                           *)
  \* What a reader of the subscription's history would know:
  maker,       (* per group, who made it: "agent", "someone", "nobody"        *)
  lost,        (* groups of other people that an agent deleted                *)
  left,        (* own groups an agent's list showed, not gone since           *)
  clean        (* no call of this agent's teardown has failed so far          *)

azure   == <<tags, account, maker>>
run     == <<place, listing, target, clean>>
oitVars == <<azure, run, lost, left>>

OitInit ==
  /\ tags = [n \in Names |-> "absent"]
  /\ account \in Accounts
  /\ place = [a \in Agents |-> "off"]
  /\ listing = [a \in Agents |-> {}]
  /\ target = [a \in Agents |-> OitName]
  /\ maker = [n \in Names |-> "nobody"]
  /\ lost = {}
  /\ left = [a \in Agents |-> {}]
  /\ clean = [a \in Agents |-> TRUE]

Goto(a, l) == place' = [place EXCEPT ![a] = l]
Present == {n \in Names : tags[n] # "absent"}

-----------------------------------------------------------------------------
(* One run *)

Reset(a) ==
  /\ listing' = [listing EXCEPT ![a] = {}]
  /\ target' = [target EXCEPT ![a] = OitName]
  /\ left' = [left EXCEPT ![a] = {}]
  /\ clean' = [clean EXCEPT ![a] = TRUE]

Launch(a) ==
  /\ place[a] = "off"
  /\ Goto(a, "preflight")
  /\ Reset(a)
  /\ UNCHANGED <<azure, lost>>

\* The subscription is compared; the name of the account is only printed.
Preflight(a) ==
  /\ place[a] = "preflight"
  /\ \/ account = Expected /\ Goto(a, "create")
     \/ Goto(a, "off")           \* another subscription, or az failed
  /\ UNCHANGED <<azure, listing, target, lost, left, clean>>

\* create_resource_group; whatever came of it, the run goes on.
Create(a) ==
  /\ place[a] = "create"
  /\ \/ /\ tags' = [tags EXCEPT ![OitName] = "own"]
        /\ maker' = [maker EXCEPT ![OitName] = IF @ = "nobody" THEN "agent" ELSE @]
     \/ UNCHANGED <<tags, maker>>
  /\ Goto(a, "list")
  /\ UNCHANGED <<account, listing, target, lost, left, clean>>

\* is_oit_rg and guard_mutation, for the tags as they are now.
OwnGroups == {n \in Prefixed : tags[n] = "own"}

FaultyList(a) ==            \* reads the first page of the list
  /\ place[a] = "list"
  /\ \E page \in SUBSET Present : listing' = [listing EXCEPT ![a] = page]
  /\ left' = [left EXCEPT ![a] = OwnGroups]
  /\ Goto(a, "look")
  /\ UNCHANGED <<azure, target, lost, clean>>

\* teardown_all: no list, no teardown.
List(a) ==
  /\ place[a] = "list"
  /\ \/ /\ listing' = [listing EXCEPT ![a] = Present]
        /\ left' = [left EXCEPT ![a] = OwnGroups]
        /\ Goto(a, "look")
        /\ UNCHANGED clean
     \/ /\ Goto(a, "done")
        /\ clean' = [clean EXCEPT ![a] = FALSE]
        /\ UNCHANGED <<listing, left>>
  /\ UNCHANGED <<azure, target, lost>>

FaultyLook(a, n) ==         \* takes the prefix for ownership
  /\ place[a] = "look"
  /\ n \in listing[a]
  /\ listing' = [listing EXCEPT ![a] = @ \ {n}]
  /\ IF n \in Prefixed
     THEN Goto(a, "delete") /\ target' = [target EXCEPT ![a] = n]
     ELSE UNCHANGED <<place, target>>
  /\ UNCHANGED <<azure, lost, left, clean>>

\* One line of the list.  A name without the prefix is passed over, so is a
\* group that does not bear both tags, and one whose tags could not be read.
Look(a, n) ==
  /\ place[a] = "look"
  /\ n \in listing[a]
  /\ listing' = [listing EXCEPT ![a] = @ \ {n}]
  /\ \/ /\ n \in OwnGroups
        /\ Goto(a, "delete") /\ target' = [target EXCEPT ![a] = n]
        /\ UNCHANGED clean
     \/ n \notin OwnGroups /\ UNCHANGED <<place, target, clean>>
     \/ /\ n \in Prefixed
        /\ clean' = [clean EXCEPT ![a] = FALSE]
        /\ UNCHANGED <<place, target>>
  /\ UNCHANGED <<azure, lost, left>>

\* `az group delete --yes` on the name; confirm_absent only words the report.
\* A group that is gone already makes it fail.
Delete(a) ==
  /\ place[a] = "delete"
  /\ Goto(a, "look")
  /\ \/ /\ target[a] \in Present
        /\ tags' = [tags EXCEPT ![target[a]] = "absent"]
        /\ maker' = [maker EXCEPT ![target[a]] = "nobody"]
        /\ lost' = lost \cup IF maker[target[a]] = "someone" THEN {target[a]} ELSE {}
        /\ left' = [b \in Agents |-> left[b] \ {target[a]}]
        /\ clean' \in {clean, [clean EXCEPT ![a] = FALSE]}
     \/ /\ clean' = [clean EXCEPT ![a] = FALSE]
        /\ UNCHANGED <<tags, maker, lost, left>>
  /\ UNCHANGED <<account, listing, target>>

LookedAll(a) ==
  /\ place[a] = "look"
  /\ listing[a] = {}
  /\ Goto(a, "done")
  /\ UNCHANGED <<azure, listing, target, lost, left, clean>>

\* The run is over, or it is killed.
End(a) ==
  /\ place[a] # "off"
  /\ Goto(a, "off")
  /\ Reset(a)
  /\ UNCHANGED <<azure, lost>>

-----------------------------------------------------------------------------
(* Other people's groups *)

Found(n) ==
  /\ n \in ForeignNames /\ tags[n] = "absent"
  /\ tags' = [tags EXCEPT ![n] = "other"]
  /\ maker' = [maker EXCEPT ![n] = "someone"]
  /\ UNCHANGED <<account, run, lost, left>>

Remove(n) ==
  /\ maker[n] = "someone"
  /\ tags' = [tags EXCEPT ![n] = "absent"]
  /\ maker' = [maker EXCEPT ![n] = "nobody"]
  /\ left' = [b \in Agents |-> left[b] \ {n}]
  /\ UNCHANGED <<account, run, lost>>

-----------------------------------------------------------------------------

OitNext ==
  \/ \E a \in Agents :
       \/ Launch(a) \/ Preflight(a) \/ Create(a) \/ List(a)
       \/ \E n \in Names : Look(a, n)
       \/ Delete(a) \/ LookedAll(a) \/ End(a)
  \/ \E n \in Names : Found(n) \/ Remove(n)

OitSpec == OitInit /\ [][OitNext]_oitVars

-----------------------------------------------------------------------------
(* Properties *)

\* No agent deletes another person's group, prefixed or not, although groups
\* come and go between the reading of the tags and the deletion and several
\* agents tear down at once; it takes that nobody else uses the agents' name.
OthersKeepTheirGroups == lost = {}

\* A teardown in which no az call failed leaves none of the groups with the
\* agents' tags that its list showed, those that earlier runs were killed over
\* included.
CleanTeardown == \A a \in Agents : place[a] = "done" /\ clean[a] => left[a] = {}

\* "Non-destructive - the agent only ever touches resources bearing its own
\* tags" (guardrails.rs:10-12), when others may use any name.
NonDestructive == lost = {}
=============================================================================
