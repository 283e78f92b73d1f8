------------------------------ MODULE HelpText ------------------------------
(***************************************************************************)
(* src/src/capabilities/derive.rs: what is read out of the help texts of   *)
(* az.  A text is a sequence of lines, a line its words and whether it is  *)
(* indented; words are apart by white space, so that an entry              *)
(*                                                                         *)
(*     create [Preview] : Create a new resource group.                     *)
(*                                                                         *)
(* has the lone colon ":" as its third word.  An entry is abstracted to    *)
(* its name: lifecycle tags and summaries are told apart from it and then  *)
(* left out.  Scrubbing (run_help) is the subject of Scrub.                *)
(*                                                                         *)
(* Operators named Faulty... are no part of the model, see AimdLimiter.    *)
(***************************************************************************)
EXTENDS Naturals, Sequences, SequencesExt, FiniteSetsExt

CONSTANTS
  Bare,     (* the words that end in a colon, to what stands before it     *)
  Tags      (* the words in brackets                                       *)

ASSUME HelpTextAssumption ==
  /\ {":", "Commands:", "Subgroups:"} \subseteq DOMAIN Bare
  /\ Bare \in [DOMAIN Bare -> STRING]
  /\ Bare[":"] = "" /\ Bare["Commands:"] = "Commands" /\ Bare["Subgroups:"] = "Subgroups"
  /\ Tags \cap DOMAIN Bare = {}

Lines == [indented : BOOLEAN, words : Seq(STRING)]

Without(word) == IF word \in DOMAIN Bare THEN Bare[word] ELSE word

\* A header is a word at the margin.  The two that matter are known without
\* their colon, too; any other word with one heads a section to skip.
HeaderSection(line) ==
  IF line.indented \/ Len(line.words) # 1 THEN "none"
  ELSE LET word == line.words[1]
       IN  CASE Without(word) = "Subgroups" -> "subgroups"
             [] Without(word) = "Commands"  -> "commands"
             [] word \in DOMAIN Bare /\ Bare[word] \notin {"", "Subgroups", "Commands"} -> "other"
             [] OTHER -> "none"

\* Brackets that end the name part, and all from the first of them on, are the
\* status.
SplitStatus(part) ==
  LET opens == {i \in DOMAIN part : part[i] \in Tags}
  IN  IF opens # {} /\ Last(part) \in Tags THEN SubSeq(part, 1, Min(opens) - 1) ELSE part

\* What stands before the first lone colon, or else before a colon at the end.
NamePart(words) ==
  LET colons == {i \in 2..(Len(words) - 1) : words[i] = ":"}
  IN  CASE colons # {} -> SubSeq(words, 1, Min(colons) - 1)
        [] colons = {} /\ words # << >> /\ Last(words) \in DOMAIN Bare ->
             IF Bare[Last(words)] = "" THEN Front(words)
             ELSE Append(Front(words), Bare[Last(words)])
        [] OTHER -> << >>

FaultyEntryNames(line) ==       \* takes the first of several words for the name
  LET name == SplitStatus(NamePart(line.words))
  IN  IF line.indented /\ name # << >> THEN <<name[1]>> ELSE << >>

\* parse_entry: the name, if there is one of a single word.  Any other line
\* goes on with the summary of the entry before it.
EntryNames(line) ==
  LET name == SplitStatus(NamePart(line.words))
  IN  IF line.indented /\ Len(name) = 1 THEN name ELSE << >>

\* One line of parse_section.  A blank line ends the section.
Parsed(want, s, line) ==
  LET header == HeaderSection(line)
  IN  CASE header # "none" -> [s EXCEPT !.section = header]
        [] header = "none" /\ line.words = << >> -> [s EXCEPT !.section = "other"]
        [] OTHER -> IF s.section = want
                    THEN [s EXCEPT !.names = @ \o EntryNames(line)] ELSE s

ParseStart == [section |-> "other", names |-> << >>]

ParseSection(text, want) ==
  FoldLeft(LAMBDA s, line : Parsed(want, s, line), ParseStart, text).names

DeriveGroups(text) == ParseSection(text, "subgroups")

\* The command paths, which are the keys of the registry.
DeriveGroupCapabilities(group, text) ==
  {<<group, name>> : name \in ToSet(ParseSection(text, "commands"))}
=============================================================================
