--------------------------- MODULE Session_proofs ---------------------------
(***************************************************************************)
(* What is proved of an interactive session, for any groups, help texts    *)
(* and canned texts: registry, cache and graph memory agree at the prompt, *)
(* at most one result comes late, and, if az's help texts are read right,  *)
(* what is known of a group is all of it.                                  *)
(*                                                                         *)
(* HelpText reads a text by a fold over its lines, which is a recursion    *)
(* over sets of lines (IsReading); SectionsAreRead says, without a fold,   *)
(* which names it finds in any text.  Of the help texts of az, the last    *)
(* theorem supposes that they name what az has, where such names belong    *)
(* (HelpNamesAll).                                                         *)
(***************************************************************************)
EXTENDS Session, SequenceTheorems, WellFoundedInduction, TLAPS

Places == {"down", "drain", "save", "prompt", "learned", "turn_end", "exit"}

\* What the discovery thread may send.
Results == {NotLearned("")} \cup UNION {AzAnswers[g] : g \in Groups}

TypeOK ==
  /\ pc \in Places /\ backend \in {"mock", "az"}
  /\ scout \in {"off", "start", "listing", "next", "deriving", "done"}
  /\ channel \in Seq(Results)
  /\ cancel \in BOOLEAN /\ unsaved \in BOOLEAN /\ interrupted \in BOOLEAN
  /\ degraded \subseteq Groups
  /\ late \in {0, 1}

\* A result is late once the flag is up, and the thread reads the flag before
\* it does anything else.
LateOnce ==
  /\ ~cancel => late = 0
  /\ late = 1 => scout \in {"next", "done"}

\* Between two writes nothing is new; a launch finds what the last one left.
Agree ==
  /\ unsaved => interrupted
  /\ pc \notin {"down", "save", "learned"} => CacheFollowsRegistry
  /\ pc # "down" => InStepUninterrupted
  /\ pc = "down" /\ ~interrupted => cache = graph

\* Whatever is known is known of a group of az's.
OfGroups == \A k \in cache \cup registry : GroupOf(k) \in Groups

\* In a set of paths, the groups outside of d are as az has them.
Whole(caps, d) ==
  \A g \in GroupsIn(caps) \ d : {k \in caps : GroupOf(k) = g} = CapsOf[g]

\* Both, the cache since the next launch will believe it.
BothWhole == Whole(cache, degraded) /\ Whole(registry, degraded)

\* What az prints of a group is read as what it has, and silence as nothing.
HelpReadRight ==
  \A g \in Groups :
    /\ \A text \in HelpOf[g] : DeriveGroupCapabilities(g, text) = CapsOf[g]
    /\ DeriveGroupCapabilities(g, << >>) = {}

IInv == TypeOK /\ LateOnce /\ Agree /\ OfGroups

-----------------------------------------------------------------------------
(* How a help text is read *)

\* A line that is no header and does not end a section.
Inside(line) == HeaderSection(line) = "none" /\ line.words # << >>

\* After the first i lines a section is open: its header has been seen, and after
\* it neither another header nor a blank line.
Open(text, i, want) ==
  \E j \in 1..i : /\ HeaderSection(text[j]) = want
                  /\ \A k \in (j + 1)..i : Inside(text[k])

\* Of the first i lines, the names of the entries in a section of the kind.
NamesIn(text, i, want) ==
  {name \in STRING : \E k \in 1..i : /\ Inside(text[k]) /\ Open(text, k - 1, want)
                                     /\ EntryNames(text[k]) = <<name>>}

\* Every set of numbers has a least element.
LEMMA LeastElement ==
  ASSUME NEW T \in SUBSET Nat, T # {}
  PROVE  \E m \in T : \A k \in T : m <= k
<1>1. PICK m \in T : \A k \in T : <<k, m>> \notin OpToRel(<, Nat)
  BY NatLessThanWellFounded, WFMin
<1>2. \A k \in T : ~(k < m)
  BY <1>1 DEF OpToRel
<1> QED
  BY <1>2

\* A bounded one has a greatest.
LEMMA MaxIsIn ==
  ASSUME NEW T \in SUBSET Nat, T # {}, NEW n \in Nat, \A k \in T : k <= n
  PROVE  Max(T) \in T /\ \A k \in T : k <= Max(T)
<1> DEFINE below == {n - k : k \in T}
<1>1. below \in SUBSET Nat /\ below # {}
  <2>1. \A k \in T : n - k \in Nat
    OBVIOUS
  <2>2. \E k \in T : n - k \in below
    OBVIOUS
  <2> QED
    BY <2>1, <2>2
<1>2. PICK m \in below : \A k \in below : m <= k
  BY <1>1, LeastElement
<1>3. PICK x \in T : m = n - x
  OBVIOUS
<1>4. ASSUME NEW y \in T PROVE x >= y
  <2>1. n - y \in below
    OBVIOUS
  <2>2. m <= n - y
    BY <1>2, <2>1
  <2> QED
    BY <1>3, <2>2
<1> QED
  BY <1>4 DEF Max

\* A set of numbers has its minimum.
LEMMA MinIsIn ==
  ASSUME NEW T \in SUBSET Nat, T # {}
  PROVE  Min(T) \in T /\ \A k \in T : Min(T) <= k
BY LeastElement DEF Min

\* The name part of a line is part of its words, but for a colon at its end.
LEMMA NamePartTypes ==
  ASSUME NEW words \in Seq(STRING)
  PROVE  NamePart(words) \in Seq(STRING)
<1> DEFINE colons == {i \in 2..(Len(words) - 1) : words[i] = ":"}
<1>0. << >> \in Seq(STRING)
  OBVIOUS
<1>1. CASE colons # {}
  <2>1. colons \in SUBSET Nat
    OBVIOUS
  <2>2. Min(colons) \in colons
    <3> HIDE DEF colons
    <3> QED
      BY <1>1, <2>1, MinIsIn
  <2>3. Min(colons) \in 2..(Len(words) - 1)
    BY <2>2
  <2>4. NamePart(words) = SubSeq(words, 1, Min(colons) - 1)
    BY <1>1 DEF NamePart
  <2> HIDE DEF colons
  <2>5. SubSeq(words, 1, Min(colons) - 1) \in Seq(STRING)
    BY <2>3
  <2> QED
    BY <2>4, <2>5
<1>2. CASE colons = {} /\ words # << >> /\ Last(words) \in DOMAIN Bare
  <2>1. Bare[Last(words)] \in STRING
    BY <1>2, HelpTextAssumption
  <2>2. Front(words) \in Seq(STRING)
    BY <1>2 DEF Front
  <2>3. Append(Front(words), Bare[Last(words)]) \in Seq(STRING)
    BY <2>1, <2>2
  <2>4. NamePart(words) = IF Bare[Last(words)] = "" THEN Front(words)
                          ELSE Append(Front(words), Bare[Last(words)])
    BY <1>2 DEF NamePart
  <2> QED
    BY <2>2, <2>3, <2>4
<1>3. CASE colons = {} /\ ~(words # << >> /\ Last(words) \in DOMAIN Bare)
  BY <1>0, <1>3 DEF NamePart
<1> QED
  BY <1>1, <1>2, <1>3

\* A line gives one name or none.
LEMMA EntryTypes ==
  ASSUME NEW line \in Lines
  PROVE  \/ EntryNames(line) = << >>
         \/ \E name \in STRING : EntryNames(line) = <<name>>
<1> DEFINE part  == NamePart(line.words)
           opens == {i \in DOMAIN part : part[i] \in Tags}
           entry == SplitStatus(part)
<1>1. part \in Seq(STRING)
  BY NamePartTypes DEF Lines
<1>2. entry \in Seq(STRING)
  <2> HIDE DEF part
  <2>1. CASE opens # {} /\ Last(part) \in Tags
    <3>1. opens \in SUBSET Nat
      BY <1>1
    <3>2. Min(opens) \in opens
      <4> HIDE DEF opens
      <4> QED
        BY <2>1, <3>1, MinIsIn
    <3>3. Min(opens) \in 1..Len(part)
      BY <1>1, <3>2
    <3>4. entry = SubSeq(part, 1, Min(opens) - 1)
      BY <2>1 DEF SplitStatus
    <3> HIDE DEF opens, entry
    <3>5. SubSeq(part, 1, Min(opens) - 1) \in Seq(STRING)
      BY <1>1, <3>3
    <3> QED
      BY <3>4, <3>5
  <2>2. CASE ~(opens # {} /\ Last(part) \in Tags)
    BY <1>1, <2>2 DEF SplitStatus
  <2> QED
    BY <2>1, <2>2
<1>3. EntryNames(line) = IF line.indented /\ Len(entry) = 1 THEN entry ELSE << >>
  BY DEF EntryNames
<1> HIDE DEF entry
<1>4. Len(entry) = 1 => entry[1] \in STRING /\ entry = <<entry[1]>>
  BY <1>2
<1> QED
  BY <1>3, <1>4

\* The reading of a text, over sets of its lines, the last of each last.
IsReading(g, text, want, n) ==
  g = [s \in SUBSET (1..n) |->
         IF s = {} THEN ParseStart ELSE Parsed(want, g[s \ {Max(s)}], text[Max(s)])]

\* A set of lines has a last one.
LEMMA LastLine ==
  ASSUME NEW n \in Nat, NEW s \in SUBSET (1..n), s # {}
  PROVE  Max(s) \in s /\ \A k \in s : k <= Max(s)
<1>1. s \in SUBSET Nat /\ \A k \in s : k <= n
  OBVIOUS
<1> QED
  BY <1>1, MaxIsIn

\* There is one: it is made line by line.
LEMMA ReadingExists ==
  ASSUME NEW text, NEW want, NEW n \in Nat
  PROVE  \E g : IsReading(g, text, want, n)
<1> DEFINE step(s, line) == Parsed(want, s, line)
           upTo(k, g) == g = [s \in SUBSET (1..k) |->
                                IF s = {} THEN ParseStart ELSE step(g[s \ {Max(s)}], text[Max(s)])]
           bad == {k \in 0..n : ~ \E g : upTo(k, g)}
<1>0. \A g : IsReading(g, text, want, n) <=> upTo(n, g)
  BY DEF IsReading
<1> HIDE DEF step
<1>1. bad \in SUBSET Nat
  OBVIOUS
<1>2. 0 \notin bad
  <2> DEFINE g == [s \in SUBSET (1..0) |-> ParseStart]
  <2>1. \A s \in SUBSET (1..0) : s = {}
    OBVIOUS
  <2>2. upTo(0, g)
    BY <2>1
  <2> QED
    BY <2>2
<1>3. ASSUME NEW k \in 0..n, NEW g, upTo(k, g)
      PROVE  \E h : upTo(k + 1, h)
  <2> DEFINE b(s) == s \ {k + 1}
             h == [s \in SUBSET (1..(k + 1)) |->
                     IF k + 1 \in s THEN step(g[b(s)], text[k + 1]) ELSE g[s]]
  <2>1. \A s \in SUBSET (1..(k + 1)) : b(s) \in SUBSET (1..k) /\ (k + 1 \notin s => s \in SUBSET (1..k))
    OBVIOUS
  <2>2. \A s \in SUBSET (1..k) : s \in SUBSET (1..(k + 1)) /\ k + 1 \notin s /\ h[s] = g[s]
    OBVIOUS
  <2>3. \A s \in SUBSET (1..k) : g[s] = IF s = {} THEN ParseStart ELSE step(g[s \ {Max(s)}], text[Max(s)])
    BY <1>3
  <2>4. ASSUME NEW s \in SUBSET (1..(k + 1))
        PROVE  h[s] = IF s = {} THEN ParseStart ELSE step(h[s \ {Max(s)}], text[Max(s)])
    <3>1. CASE s = {}
      <4>1. {} \in SUBSET (1..k)
        OBVIOUS
      <4> HIDE DEF h
      <4> QED
        BY <3>1, <4>1, <2>2, <2>3
    <3>2. CASE s # {} /\ k + 1 \in s
      <4>1. k + 1 \in Nat
        OBVIOUS
      <4>2. Max(s) \in s /\ \A j \in s : j <= Max(s)
        BY <3>2, <4>1, LastLine
      <4>3. Max(s) = k + 1
        <5>1. Max(s) \in 1..(k + 1) /\ k + 1 <= Max(s)
          BY <3>2, <4>2
        <5> QED
          BY <5>1
      <4>4. h[s] = step(g[b(s)], text[k + 1]) /\ h[b(s)] = g[b(s)]
        BY <3>2, <2>1, <2>2
      <4> QED
        BY <3>2, <4>3, <4>4
    <3>3. CASE s # {} /\ k + 1 \notin s
      <4>1. s \in SUBSET (1..k) /\ s \ {Max(s)} \in SUBSET (1..k)
        BY <3>3, <2>1
      <4> HIDE DEF h
      <4> QED
        BY <3>3, <4>1, <2>2, <2>3
    <3> QED
      BY <3>1, <3>2, <3>3
  <2>5. h = [s \in SUBSET (1..(k + 1)) |-> h[s]]
    OBVIOUS
  <2> HIDE DEF h
  <2>6. upTo(k + 1, h)
    BY <2>4, <2>5
  <2> QED
    BY <2>6
<1>4. bad = {}
  <2> SUFFICES ASSUME bad # {} PROVE FALSE
    OBVIOUS
  <2>1. PICK m \in bad : \A k \in bad : m <= k
    <3> HIDE DEF bad
    <3> QED
      BY <1>1, LeastElement
  <2>2. m \in 0..n /\ m # 0 /\ m - 1 \in 0..n /\ m - 1 \notin bad /\ (m - 1) + 1 = m
    <3>1. m \in 0..n
      OBVIOUS
    <3> HIDE DEF bad
    <3> QED
      BY <1>2, <2>1, <3>1
  <2>3. PICK g : upTo(m - 1, g)
    BY <2>2
  <2>4. \E h : upTo(m, h)
    <3> HIDE DEF upTo, bad
    <3>1. \E h : upTo((m - 1) + 1, h)
      BY <1>3, <2>2, <2>3
    <3> QED
      BY <2>2, <3>1
  <2> QED
    BY <2>1, <2>4
<1>5. n \in 0..n
  OBVIOUS
<1>6. \E g : upTo(n, g)
  BY <1>4, <1>5
<1> HIDE DEF upTo
<1> QED
  BY <1>0, <1>6

\* The name a line gives, in an open section.
FoundIn(line, open) == {name \in STRING : Inside(line) /\ open /\ EntryNames(line) = <<name>>}

Sections == {"none", "other", "commands", "subgroups"}

Readings == [section : Sections, names : Seq(STRING)]

\* Where the reading stands after i lines.
Stands(s, text, i, want) ==
  /\ s \in Readings
  /\ s.section = want <=> Open(text, i, want)
  /\ ToSet(s.names) = NamesIn(text, i, want)

\* What a further line does to the sections: one stays open over lines inside it.
LEMMA OpenGrows ==
  ASSUME NEW text, NEW i \in Nat, NEW want
  PROVE  Open(text, i + 1, want) <=> \/ HeaderSection(text[i + 1]) = want
                                     \/ Inside(text[i + 1]) /\ Open(text, i, want)
<1>1. ASSUME HeaderSection(text[i + 1]) = want
      PROVE  Open(text, i + 1, want)
  <2>1. i + 1 \in 1..(i + 1) /\ ((i + 1) + 1)..(i + 1) = {}
    OBVIOUS
  <2> QED
    BY <1>1, <2>1 DEF Open
<1>2. ASSUME Inside(text[i + 1]), Open(text, i, want)
      PROVE  Open(text, i + 1, want)
  <2>1. PICK j \in 1..i : /\ HeaderSection(text[j]) = want
                          /\ \A k \in (j + 1)..i : Inside(text[k])
    BY <1>2 DEF Open
  <2>2. \A k \in (j + 1)..(i + 1) : k = i + 1 \/ k \in (j + 1)..i
    OBVIOUS
  <2>3. j \in 1..(i + 1)
    OBVIOUS
  <2> QED
    BY <1>2, <2>1, <2>2, <2>3 DEF Open
<1>3. ASSUME Open(text, i + 1, want), HeaderSection(text[i + 1]) # want
      PROVE  Inside(text[i + 1]) /\ Open(text, i, want)
  <2>1. PICK j \in 1..(i + 1) : /\ HeaderSection(text[j]) = want
                                /\ \A k \in (j + 1)..(i + 1) : Inside(text[k])
    BY <1>3 DEF Open
  <2>2. j # i + 1
    BY <1>3, <2>1
  <2>3. j \in 1..i /\ i + 1 \in (j + 1)..(i + 1) /\ \A k \in (j + 1)..i : k \in (j + 1)..(i + 1)
    BY <2>2
  <2> QED
    BY <2>1, <2>3 DEF Open
<1> QED
  BY <1>1, <1>2, <1>3

\* And to the names.
LEMMA NamesGrow ==
  ASSUME NEW text, NEW i \in Nat, NEW want
  PROVE  NamesIn(text, i + 1, want) =
           NamesIn(text, i, want) \cup FoundIn(text[i + 1], Open(text, i, want))
<1> DEFINE entry(k, name) == /\ Inside(text[k]) /\ Open(text, k - 1, want)
                             /\ EntryNames(text[k]) = <<name>>
<1>1. \A n, name : name \in NamesIn(text, n, want) <=> name \in STRING /\ \E k \in 1..n : entry(k, name)
  BY DEF NamesIn
<1>2. \A name : entry(i + 1, name) <=> /\ Inside(text[i + 1]) /\ Open(text, i, want)
                                       /\ EntryNames(text[i + 1]) = <<name>>
  <2>1. (i + 1) - 1 = i
    OBVIOUS
  <2> QED
    BY <2>1
<1>3. \A name : name \in FoundIn(text[i + 1], Open(text, i, want))
                   <=> name \in STRING /\ entry(i + 1, name)
  BY <1>2 DEF FoundIn
<1> HIDE DEF entry
<1>4. 1..(i + 1) = (1..i) \cup {i + 1}
  OBVIOUS
<1> QED
  BY <1>1, <1>3, <1>4

\* The names of two lists in a row.
LEMMA ConcatIsUnion ==
  ASSUME NEW S, NEW x \in Seq(S), NEW y \in Seq(S)
  PROVE  x \o y \in Seq(S) /\ ToSet(x \o y) = ToSet(x) \cup ToSet(y)
<1>1. /\ x \o y \in Seq(S) /\ Len(x \o y) = Len(x) + Len(y)
      /\ \A k \in 1..(Len(x) + Len(y)) : (x \o y)[k] = IF k <= Len(x) THEN x[k] ELSE y[k - Len(x)]
  BY ConcatProperties
<1>2. \A u : u \in ToSet(x \o y) <=> \E k \in 1..(Len(x) + Len(y)) : u = (x \o y)[k]
  BY <1>1 DEF ToSet
<1>3. /\ \A u : u \in ToSet(x) <=> \E k \in 1..Len(x) : u = x[k]
      /\ \A u : u \in ToSet(y) <=> \E k \in 1..Len(y) : u = y[k]
  BY DEF ToSet
<1>4. ASSUME NEW u \in ToSet(x \o y) PROVE u \in ToSet(x) \cup ToSet(y)
  BY <1>1, <1>2, <1>3
<1>5. ASSUME NEW u \in ToSet(x) PROVE u \in ToSet(x \o y)
  BY <1>1, <1>2, <1>3
<1>6. ASSUME NEW u \in ToSet(y) PROVE u \in ToSet(x \o y)
  <2>1. PICK k \in 1..Len(y) : u = y[k]
    BY <1>3
  <2>2. k + Len(x) \in 1..(Len(x) + Len(y)) /\ (x \o y)[k + Len(x)] = y[k]
    BY <1>1
  <2> QED
    BY <1>2, <2>1, <2>2
<1> QED
  BY <1>1, <1>4, <1>5, <1>6

\* A line that is read takes the reading on.
LEMMA LineIsRead ==
  ASSUME NEW text, NEW i \in Nat, NEW want \in {"commands", "subgroups"}, NEW s,
         text[i + 1] \in Lines, Stands(s, text, i, want)
  PROVE  Stands(Parsed(want, s, text[i + 1]), text, i + 1, want)
<1> DEFINE line == text[i + 1]
           header == HeaderSection(line)
           next == Parsed(want, s, line)
           found == FoundIn(line, Open(text, i, want))
<1>1. s \in Readings /\ s.section \in Sections /\ s.names \in Seq(STRING)
      /\ s = [section |-> s.section, names |-> s.names]
  BY DEF Stands, Readings
<1>2. header \in Sections
  BY DEF HeaderSection, Sections
<1>3. /\ Open(text, i + 1, want) <=> header = want \/ (Inside(line) /\ Open(text, i, want))
      /\ NamesIn(text, i + 1, want) = NamesIn(text, i, want) \cup found
  BY OpenGrows, NamesGrow
<1>4. Inside(line) <=> header = "none" /\ line.words # << >>
  BY DEF Inside
<1>5. /\ s.section = want <=> Open(text, i, want)
      /\ ToSet(s.names) = NamesIn(text, i, want)
  BY DEF Stands
<1>6. CASE header # "none"
  <2>1. next = [section |-> header, names |-> s.names]
    BY <1>1, <1>6 DEF Parsed
  <2>2. found = {}
    BY <1>4, <1>6 DEF FoundIn
  <2> HIDE DEF next, header, found, line
  <2> QED
    BY <1>1, <1>2, <1>3, <1>4, <1>5, <1>6, <2>1, <2>2 DEF Stands, Readings
<1>7. CASE header = "none" /\ line.words = << >>
  <2>1. next = [section |-> "other", names |-> s.names]
    BY <1>1, <1>7 DEF Parsed
  <2>2. found = {}
    BY <1>4, <1>7 DEF FoundIn
  <2> HIDE DEF next, header, found, line
  <2> QED
    BY <1>1, <1>2, <1>3, <1>4, <1>5, <1>7, <2>1, <2>2 DEF Stands, Readings, Sections
<1>8. CASE header = "none" /\ line.words # << >> /\ s.section # want
  <2>1. next = s
    BY <1>1, <1>8 DEF Parsed
  <2>2. found = {}
    BY <1>5, <1>8 DEF FoundIn
  <2> HIDE DEF next, header, found, line
  <2>3. ~Open(text, i + 1, want)
    BY <1>3, <1>4, <1>5, <1>8
  <2>4. Stands(s, text, i + 1, want)
    BY <1>1, <1>3, <1>5, <1>8, <2>2, <2>3 DEF Stands
  <2>5. Stands(next, text, i + 1, want)
    BY <2>1, <2>4
  <2> QED
    BY <2>5 DEF next, line
<1>9. CASE header = "none" /\ line.words # << >> /\ s.section = want
  <2>1. next = [section |-> want, names |-> s.names \o EntryNames(line)]
    BY <1>1, <1>9 DEF Parsed
  <2>2. EntryNames(line) = << >> \/ \E name \in STRING : EntryNames(line) = <<name>>
    BY EntryTypes
  <2>3. EntryNames(line) \in Seq(STRING) /\ ToSet(EntryNames(line)) = found
    <3>1. CASE EntryNames(line) = << >>
      <4>1. ToSet(<< >>) = {}
        BY DEF ToSet
      <4>2. \A name : EntryNames(line) # <<name>>
        BY <3>1
      <4> QED
        BY <3>1, <4>1, <4>2 DEF FoundIn
    <3>2. CASE \E name \in STRING : EntryNames(line) = <<name>>
      <4>1. PICK name \in STRING : EntryNames(line) = <<name>>
        BY <3>2
      <4>2. ToSet(<<name>>) = {name}
        BY DEF ToSet
      <4>3. \A other : <<name>> = <<other>> => other = name
        OBVIOUS
      <4> QED
        BY <1>4, <1>5, <1>9, <4>1, <4>2, <4>3 DEF FoundIn
    <3> QED
      BY <2>2, <3>1, <3>2
  <2> DEFINE entry == EntryNames(line)
  <2> HIDE DEF next, header, found, entry, line
  <2>4. entry \in Seq(STRING) /\ ToSet(entry) = found
    BY <2>3 DEF entry
  <2>5. s.names \o entry \in Seq(STRING) /\ ToSet(s.names \o entry) = ToSet(s.names) \cup ToSet(entry)
    BY <1>1, <2>4, ConcatIsUnion
  <2>6. next = [section |-> want, names |-> s.names \o entry]
    BY <2>1 DEF entry
  <2>7. Open(text, i + 1, want)
    BY <1>3, <1>4, <1>5, <1>9
  <2>8. ToSet(s.names \o entry) = NamesIn(text, i + 1, want)
    BY <1>3, <1>5, <2>4, <2>5
  <2>9. next \in Readings /\ next.section = want /\ next.names = s.names \o entry
    BY <2>5, <2>6 DEF Readings, Sections
  <2>10. Stands(next, text, i + 1, want)
    BY <2>7, <2>8, <2>9 DEF Stands
  <2> QED
    BY <2>10 DEF next, line
<1> QED
  BY <1>6, <1>7, <1>8, <1>9

\* parse_section finds the names of the entries in the sections it wants, and no
\* others, in any text: those below a header, as far as the next header or blank
\* line, continuation lines left out (derive.rs).
THEOREM SectionsAreRead ==
  ASSUME NEW text \in Seq(Lines), NEW want \in {"commands", "subgroups"}
  PROVE  ToSet(ParseSection(text, want)) = NamesIn(text, Len(text), want)
<1> DEFINE n == Len(text)
           g == CHOOSE h : IsReading(h, text, want, n)
<1>1. n \in Nat /\ DOMAIN text = 1..n /\ \A i \in 1..n : text[i] \in Lines
  OBVIOUS
<1>2. ParseSection(text, want) = g[1..n].names
  BY <1>1 DEF ParseSection, FoldLeft, MapThenFoldSet, IsReading
<1>3. IsReading(g, text, want, n)
  BY <1>1, ReadingExists
<1> HIDE DEF g
<1>4. g[{}] = ParseStart
  BY <1>3 DEF IsReading
<1>5. ASSUME NEW i \in 0..n, i + 1 <= n
      PROVE  g[1..(i + 1)] = Parsed(want, g[1..i], text[i + 1])
  <2>0. i \in Nat /\ i + 1 <= n /\ n \in Nat
    BY <1>1, <1>5
  <2> HIDE DEF n
  <2>1. 1..(i + 1) \in SUBSET (1..n) /\ i + 1 \in 1..(i + 1) /\ 1..(i + 1) # {}
    BY <2>0
  <2>2. Max(1..(i + 1)) \in 1..(i + 1) /\ \A k \in 1..(i + 1) : k <= Max(1..(i + 1))
    BY <1>1, <2>1, LastLine
  <2>3. Max(1..(i + 1)) = i + 1 /\ (1..(i + 1)) \ {i + 1} = 1..i
    BY <2>1, <2>2
  <2>4. g[1..(i + 1)] = Parsed(want, g[(1..(i + 1)) \ {Max(1..(i + 1))}], text[Max(1..(i + 1))])
    BY <1>3, <2>1 DEF IsReading
  <2> QED
    BY <2>3, <2>4
<1> DEFINE bad == {i \in 0..n : ~Stands(g[1..i], text, i, want)}
<1>6. 0 \notin bad
  <2>1. 1..0 = {} /\ \A i \in 1..0 : FALSE
    OBVIOUS
  <2>2. ToSet(<< >>) = {} /\ << >> \in Seq(STRING)
    BY DEF ToSet
  <2>3. ~Open(text, 0, want) /\ NamesIn(text, 0, want) = {}
    BY <2>1 DEF Open, NamesIn
  <2>4. g[1..0] = ParseStart
    BY <1>4, <2>1
  <2>5. ParseStart \in Readings /\ ParseStart.section # want /\ ParseStart.names = << >>
    BY <2>2 DEF ParseStart, Readings, Sections
  <2>6. Stands(g[1..0], text, 0, want)
    BY <2>2, <2>3, <2>4, <2>5 DEF Stands
  <2> QED
    BY <2>6
<1>7. bad \in SUBSET Nat
  OBVIOUS
<1>8. bad = {}
  <2> SUFFICES ASSUME bad # {} PROVE FALSE
    OBVIOUS
  <2>1. PICK m \in bad : \A k \in bad : m <= k
    <3> HIDE DEF bad
    <3> QED
      BY <1>7, LeastElement
  <2>2. m \in 0..n /\ m # 0 /\ m - 1 \in 0..n /\ m - 1 \notin bad /\ (m - 1) + 1 = m
    <3>1. m \in 0..n
      OBVIOUS
    <3> HIDE DEF bad
    <3> QED
      BY <1>1, <1>6, <2>1, <3>1
  <2> DEFINE i == m - 1
  <2>3. Stands(g[1..i], text, i, want)
    BY <2>2
  <2>4. i \in 0..n /\ i \in Nat /\ i + 1 = m /\ i + 1 <= n /\ i + 1 \in 1..n
    BY <1>1, <2>2
  <2> HIDE DEF i
  <2>5. Stands(Parsed(want, g[1..i], text[i + 1]), text, i + 1, want)
    BY <1>1, <2>3, <2>4, LineIsRead
  <2>6. Stands(g[1..m], text, m, want)
    BY <1>5, <2>4, <2>5
  <2> QED
    BY <2>1, <2>6
<1>9. Stands(g[1..n], text, n, want)
  <2>1. n \in 0..n
    BY <1>1
  <2> HIDE DEF n
  <2> QED
    BY <1>8, <2>1
<1> QED
  BY <1>2, <1>9 DEF Stands

\* What is supposed of az: each of its help texts of a group has, in its sections
\* of commands, an entry for every command that az has in the group, and no others.
HelpNamesAll ==
  \A g \in Groups : \A text \in HelpOf[g] :
    {<<g, name>> : name \in NamesIn(text, Len(text), "commands")} = CapsOf[g]

\* Such a text is read as what az has.
LEMMA HelpIsRead ==
  ASSUME HelpNamesAll
  PROVE  HelpReadRight
<1>1. ASSUME NEW g \in Groups, NEW text \in Seq(Lines)
      PROVE  DeriveGroupCapabilities(g, text) =
               {<<g, name>> : name \in NamesIn(text, Len(text), "commands")}
  BY SectionsAreRead DEF DeriveGroupCapabilities
<1>2. ASSUME NEW g \in Groups, NEW text \in HelpOf[g]
      PROVE  DeriveGroupCapabilities(g, text) = CapsOf[g]
  <2>1. text \in Seq(Lines)
    BY SessionAssumption
  <2> QED
    BY <1>1, <2>1 DEF HelpNamesAll
<1>3. ASSUME NEW g \in Groups
      PROVE  DeriveGroupCapabilities(g, << >>) = {}
  <2>1. << >> \in Seq(Lines) /\ Len(<< >>) = 0 /\ 1..0 = {}
    OBVIOUS
  <2>2. NamesIn(<< >>, 0, "commands") = {}
    BY <2>1 DEF NamesIn
  <2>3. DeriveGroupCapabilities(g, << >>) = {<<g, name>> : name \in NamesIn(<< >>, Len(<< >>), "commands")}
    BY <1>1, <2>1
  <2> QED
    BY <2>1, <2>2, <2>3
<1> QED
  BY <1>2, <1>3 DEF HelpReadRight

-----------------------------------------------------------------------------
(* What az and the canned texts say, and what a torn cache holds *)

\* What is learned of a group are paths of that group.
LEMMA LearnedOfGroup ==
  ASSUME NEW g, NEW text
  PROVE  \A k \in Learned(g, text).caps : GroupOf(k) = g
BY DEF Learned, DeriveGroupCapabilities, GroupOf

LEMMA AzAnswersOfGroup ==
  ASSUME NEW g \in Groups, NEW a \in AzAnswers[g], a.ok
  PROVE  a.group = g /\ \A k \in a.caps : GroupOf(k) = g
<1>1. PICK text : a = Learned(g, text)
  BY DEF AzAnswers, NotLearned
<1>2. a.group = g
  BY <1>1 DEF Learned
<1> QED
  BY <1>1, <1>2, LearnedOfGroup

LEMMA ResultsOfGroup ==
  ASSUME NEW r \in Results, r.ok
  PROVE  r.group \in Groups /\ r \in AzAnswers[r.group]
         /\ \A k \in r.caps : GroupOf(k) = r.group
<1>1. r # NotLearned("")
  <2>1. ~NotLearned("").ok
    BY DEF NotLearned
  <2> QED
    BY <2>1, Zenon
<1>2. PICK g \in Groups : r \in AzAnswers[g]
  BY <1>1 DEF Results
<1> QED
  BY <1>2, AzAnswersOfGroup

LEMMA AnswersOfGroup ==
  ASSUME NEW g \in Groups, NEW a \in LearnAnswers(g), a.ok
  PROVE  \A k \in a.caps : GroupOf(k) = g
<1>1. CASE a \in AzAnswers[g]
  BY <1>1, AzAnswersOfGroup
<1>2. CASE a = MockAnswer[g]
  <2>1. a = Learned(g, CannedHelp[g])
    BY <1>2 DEF MockAnswer, NotLearned
  <2> QED
    BY <2>1, LearnedOfGroup
<1> QED
  BY <1>1, <1>2 DEF LearnAnswers

\* A torn cache holds paths that were written, and one that may be cut.
LEMMA TornOfGroups ==
  ASSUME NEW caps, \A k \in caps : GroupOf(k) \in Groups,
         NEW torn \in TornCaches(caps)
  PROVE  \A k \in torn : GroupOf(k) \in Groups
<1> DEFINE written(n) == {KeySeq[i] : i \in 1..n} \cap caps
           cut(n) == IF n < Len(KeySeq) /\ KeySeq[n + 1] \in caps
                     THEN CutsOf[KeySeq[n + 1]] ELSE {}
<1>1. PICK n \in 0..Len(KeySeq) :
        torn \in {written(n)} \cup {written(n) \cup {c} : c \in cut(n)}
  BY DEF TornCaches
<1>2. \A k \in written(n) : GroupOf(k) \in Groups
  OBVIOUS
<1>3. \A k \in cut(n) : GroupOf(k) \in Groups
  <2> SUFFICES ASSUME n < Len(KeySeq), NEW k \in CutsOf[KeySeq[n + 1]]
               PROVE  GroupOf(k) \in Groups
    OBVIOUS
  <2>1. n + 1 \in DOMAIN KeySeq
    BY SessionAssumption
  <2>2. KeySeq[n + 1] \in Keys
    BY <2>1 DEF Keys
  <2>3. k \in Keys
    BY <2>2, SessionAssumption
  <2> QED
    BY <2>3, SessionAssumption DEF GroupOf
<1> HIDE DEF written, cut
<1> QED
  BY <1>1, <1>2, <1>3

-----------------------------------------------------------------------------
(* The steps *)

LEMMA NothingSent == << >> \in Seq(Results)
OBVIOUS

LEMMA InitIInv == Init => IInv
<1> SUFFICES ASSUME Init PROVE IInv
  OBVIOUS
<1>1. TypeOK
  BY NothingSent DEF Init, TypeOK, Places
<1> QED
  BY <1>1 DEF Init, IInv, LateOnce, Agree, OfGroups, CacheFollowsRegistry,
     InStepUninterrupted

LEMMA LaunchStep ==
  ASSUME IInv, Launch
  PROVE  IInv'
<1> USE DEF IInv, Launch, files
<1>1. TypeOK'
  BY NothingSent DEF TypeOK, Places
<1>2. LateOnce'
  BY DEF LateOnce
<1>3. Agree'
  BY DEF Agree, Down, CacheFollowsRegistry, InStepUninterrupted
<1>4. OfGroups'
  BY DEF OfGroups
<1> QED
  BY <1>1, <1>2, <1>3, <1>4

LEMMA ExitStep ==
  ASSUME IInv, Exit
  PROVE  IInv'
<1> USE DEF IInv, Exit, Gone
<1>1. TypeOK'
  BY NothingSent DEF TypeOK, Places
<1>2. LateOnce'
  BY DEF LateOnce
<1>3. Agree'
  BY DEF Agree, CacheFollowsRegistry, InStepUninterrupted, TypeOK
<1>4. OfGroups'
  BY DEF OfGroups
<1> QED
  BY <1>1, <1>2, <1>3, <1>4

LEMMA KillStep ==
  ASSUME IInv, Kill
  PROVE  IInv'
<1> USE DEF IInv, Kill, Gone
<1>1. TypeOK'
  BY NothingSent DEF TypeOK, Places
<1>2. LateOnce'
  BY DEF LateOnce
<1>3. Agree'
  BY DEF Agree
<1>4. OfGroups'
  BY TornOfGroups DEF OfGroups
<1> QED
  BY <1>1, <1>2, <1>3, <1>4

\* Every path that is new with the results is of a group that gained one.
LEMMA NewIsGained ==
  ASSUME IInv, NEW k \in Extended(registry, channel) \ registry
  PROVE  \E i \in DOMAIN channel :
           /\ channel[i] \in Results /\ channel[i].ok
           /\ k \in channel[i].caps /\ ~(channel[i].caps \subseteq registry)
           /\ GroupOf(k) = channel[i].group /\ GroupOf(k) \in Groups
<1>1. PICK i \in DOMAIN channel : channel[i].ok /\ k \in channel[i].caps
  BY DEF Extended
<1>2. channel[i] \in Results
  BY <1>1 DEF IInv, TypeOK
<1> QED
  BY <1>1, <1>2, ResultsOfGroup

LEMMA DrainStep ==
  ASSUME IInv, Drain
  PROVE  IInv'
<1> DEFINE gained == {channel[i].group : i \in
              {j \in DOMAIN channel : channel[j].ok /\ ~(channel[j].caps \subseteq registry)}}
           caps == Extended(registry, channel)
<1>1. /\ registry' = caps
      /\ remembered' = remembered \cup {k \in caps : GroupOf(k) \in gained}
      /\ pc' = IF gained # {} THEN "save" ELSE "prompt"
      /\ pc = "drain" /\ channel' = << >>
      /\ UNCHANGED <<files, backend, cancel, thread, history>>
  BY DEF Drain
<1>2. \A k \in caps \ registry : GroupOf(k) \in gained /\ GroupOf(k) \in Groups
  BY NewIsGained
<1>3. registry \subseteq caps
  BY DEF Extended
<1> HIDE DEF gained, caps
<1>4. gained = {} => caps = registry
  BY <1>2, <1>3
<1>5. registry = remembered => caps = remembered'
  BY <1>1, <1>2, <1>3
<1>6. TypeOK' /\ LateOnce'
  BY <1>1 DEF IInv, TypeOK, Places, LateOnce, thread, history
<1>7. Agree'
  BY <1>1, <1>4, <1>5
     DEF IInv, Agree, CacheFollowsRegistry, InStepUninterrupted, history, files
<1>8. OfGroups'
  BY <1>1, <1>2 DEF IInv, OfGroups, files
<1> QED
  BY <1>6, <1>7, <1>8 DEF IInv

LEMMA SaveStep ==
  ASSUME IInv, NEW next \in Places \ {"down", "save", "learned"},
         pc # "down", SaveCache \/ SaveCacheFailed, pc' = next,
         UNCHANGED <<graph, backend, registry, remembered, channel, cancel, thread>>
  PROVE  IInv'
<1> USE DEF IInv, thread
<1>1. TypeOK'
  BY DEF TypeOK, SaveCache, SaveCacheFailed
<1>2. LateOnce'
  BY DEF LateOnce
<1>3. Agree'
  BY DEF Agree, CacheFollowsRegistry, InStepUninterrupted, SaveCache, SaveCacheFailed
<1>4. OfGroups'
  BY TornOfGroups DEF OfGroups, SaveCache, SaveCacheFailed
<1> QED
  BY <1>1, <1>2, <1>3, <1>4

LEMMA LearnStep ==
  ASSUME IInv, NEW g \in Groups, Learn(g)
  PROVE  IInv'
<1>1. PICK a \in LearnAnswers(g) :
        IF a.ok
        THEN /\ registry' = registry \cup a.caps
             /\ remembered' = remembered \cup {k \in registry' : GroupOf(k) = g}
             /\ degraded' = IF backend = "mock" THEN degraded \cup {g} ELSE degraded
             /\ pc' = "learned"
        ELSE /\ pc' = "turn_end"
             /\ UNCHANGED <<registry, remembered, degraded>>
  BY DEF Learn
<1>2. /\ pc = "prompt" /\ cancel' = TRUE
      /\ UNCHANGED <<files, backend, channel, thread, unsaved, interrupted>>
  BY DEF Learn
<1>3. a.ok => \A k \in a.caps : GroupOf(k) = g
  BY AnswersOfGroup
<1>4. TypeOK' /\ LateOnce'
  BY <1>1, <1>2 DEF IInv, TypeOK, Places, LateOnce, thread
<1>5. Agree'
  BY <1>1, <1>2, <1>3 DEF IInv, Agree, CacheFollowsRegistry, InStepUninterrupted, files
<1>6. OfGroups'
  BY <1>1, <1>2, <1>3 DEF IInv, OfGroups, files
<1> QED
  BY <1>4, <1>5, <1>6 DEF IInv

\* The other lines of the player.
LEMMA LineStep ==
  ASSUME IInv, EndOfInput \/ OtherLine \/ Quit \/ TurnEnd
  PROVE  IInv'
<1> USE DEF IInv, EndOfInput, OtherLine, Quit, TurnEnd, files, thread, history
<1>1. TypeOK' /\ LateOnce'
  BY DEF TypeOK, Places, LateOnce
<1>2. Agree'
  BY DEF Agree, CacheFollowsRegistry, InStepUninterrupted
<1>3. OfGroups'
  BY DEF OfGroups
<1> QED
  BY <1>1, <1>2, <1>3

LEMMA ScoutStep ==
  ASSUME IInv, Scout
  PROVE  IInv'
<1> USE DEF IInv
<1>1. UNCHANGED <<files, main, cancel, history>>
  BY DEF Scout, ScoutStart, ScoutList, ScoutNext, ScoutDerive
<1>2. Agree' /\ OfGroups'
  BY <1>1 DEF files, main, history, Agree, CacheFollowsRegistry,
              InStepUninterrupted, OfGroups
<1>3. CASE \/ ScoutStart \/ ScoutNext
           \/ ScoutList /\ UNCHANGED <<channel, late>> /\ scout' = "next"
  <2>1. UNCHANGED <<channel, late>> /\ scout' \in {"listing", "next", "deriving", "done"}
    BY <1>3 DEF ScoutStart, ScoutNext
  <2>2. late = 1 => scout' \in {"next", "done"}
    BY <1>3 DEF ScoutStart, ScoutNext, LateOnce
  <2> QED
    BY <1>1, <1>2, <2>1, <2>2 DEF TypeOK, LateOnce, main, history
<1>4. ASSUME NEW r \in Results, Send(r), scout \in {"listing", "deriving"},
             scout' \in {"next", "done"}
      PROVE  IInv'
  <2>1. channel' \in Seq(Results)
    BY <1>4 DEF Send, TypeOK
  <2>2. late = 0
    BY <1>4 DEF LateOnce, TypeOK
  <2>3. late' \in {0, 1} /\ (~cancel => late' = 0)
    BY <1>4, <2>2 DEF Send
  <2> QED
    BY <1>1, <1>2, <1>4, <2>1, <2>3 DEF TypeOK, LateOnce, main, history
<1>5. CASE ScoutDerive
  <2>1. PICK g \in Groups : \E a \in AzAnswers[g] : Send(a)
    BY <1>5 DEF ScoutDerive
  <2> PICK a \in AzAnswers[g] : Send(a)
    BY <2>1
  <2>2. a \in Results
    BY DEF Results
  <2> QED
    BY <1>4, <1>5, <2>2 DEF ScoutDerive
<1>6. CASE ScoutList /\ Send(NotLearned("")) /\ scout' = "done"
  <2>1. NotLearned("") \in Results
    BY DEF Results
  <2> QED
    BY <1>4, <1>6, <2>1 DEF ScoutList
<1> QED
  BY <1>3, <1>5, <1>6 DEF Scout, ScoutList

LEMMA NextIInv == IInv /\ [Next]_vars => IInv'
<1> SUFFICES ASSUME IInv, [Next]_vars PROVE IInv'
  OBVIOUS
<1>1. CASE Launch
  BY <1>1, LaunchStep
<1>2. CASE Exit
  BY <1>2, ExitStep
<1>3. CASE Kill
  BY <1>3, KillStep
<1>4. CASE Drain
  BY <1>4, DrainStep
<1>5. CASE DrainSave
  BY <1>5, SaveStep DEF DrainSave, Places
<1>6. CASE LearnSave
  BY <1>6, SaveStep DEF LearnSave, Places
<1>7. ASSUME NEW g \in Groups, Learn(g) PROVE IInv'
  BY <1>7, LearnStep
<1>8. CASE EndOfInput \/ OtherLine \/ Quit \/ TurnEnd
  BY <1>8, LineStep
<1>9. CASE Scout
  BY <1>9, ScoutStep
<1>10. CASE UNCHANGED vars
  BY <1>10 DEF vars, files, main, thread, history, IInv, TypeOK, LateOnce, Agree,
     OfGroups, CacheFollowsRegistry, InStepUninterrupted
<1> QED
  BY <1>1, <1>2, <1>3, <1>4, <1>5, <1>6, <1>7, <1>8, <1>9, <1>10 DEF Next, Turn

LEMMA Invariance == Spec => []IInv
<1> QED
  BY InitIInv, NextIInv, PTL DEF Spec

-----------------------------------------------------------------------------
(* Whole groups *)

\* A set of whole groups stays one if what is added comes by whole groups, too.
LEMMA AddedWhole ==
  ASSUME NEW caps, NEW d, NEW e, d \subseteq e, Whole(caps, d), NEW added,
         \A k \in added : \/ GroupOf(k) \in e
                          \/ k \in CapsOf[GroupOf(k)] /\ CapsOf[GroupOf(k)] \subseteq added,
         \A k \in caps \cup added : GroupOf(k) \in Groups
  PROVE  Whole(caps \cup added, e)
<1> SUFFICES ASSUME NEW g \in GroupsIn(caps \cup added) \ e
             PROVE  {k \in caps \cup added : GroupOf(k) = g} = CapsOf[g]
  BY DEF Whole
<1>1. g \in Groups
  BY DEF GroupsIn
<1>2. \A k \in CapsOf[g] : GroupOf(k) = g
  BY <1>1, SessionAssumption DEF GroupOf
<1>3. g \in GroupsIn(caps) => {k \in caps : GroupOf(k) = g} = CapsOf[g]
  BY DEF Whole
<1>4. \A k \in added : GroupOf(k) = g => k \in CapsOf[g] /\ CapsOf[g] \subseteq added
  OBVIOUS
<1>5. \A k \in caps : GroupOf(k) = g => k \in CapsOf[g] /\ CapsOf[g] \subseteq caps
  BY <1>3 DEF GroupsIn
<1>6. \E k \in caps \cup added : GroupOf(k) = g
  BY DEF GroupsIn
<1>7. CapsOf[g] \subseteq caps \cup added
  BY <1>4, <1>5, <1>6
<1> QED
  BY <1>2, <1>4, <1>5, <1>7

\* Nothing is asked of a set of paths when every group is excused.
LEMMA AllExcused ==
  ASSUME NEW caps, \A k \in caps : GroupOf(k) \in Groups
  PROVE  Whole(caps, Groups)
BY DEF Whole, GroupsIn

\* What az says of a group is all of it, or nothing.
LEMMA AnswerWhole ==
  ASSUME HelpReadRight, NEW g \in Groups, NEW a \in AzAnswers[g], a.ok
  PROVE  a.caps = {} \/ a.caps = CapsOf[g]
<1>1. a # NotLearned(g)
  <2>1. ~NotLearned(g).ok
    BY DEF NotLearned
  <2> QED
    BY <2>1, Zenon
<1>2. PICK text \in HelpOf[g] \cup {<< >>} : a = Learned(g, text)
  BY <1>1 DEF AzAnswers
<1>3. a.caps = DeriveGroupCapabilities(g, text)
  BY <1>2 DEF Learned
<1> QED
  BY <1>3 DEF HelpReadRight

LEMMA DrainWhole ==
  ASSUME HelpReadRight, IInv, IInv', BothWhole, Drain
  PROVE  BothWhole'
<1> DEFINE added == UNION {channel[i].caps : i \in {j \in DOMAIN channel : channel[j].ok}}
<1>1. /\ registry' = registry \cup added
      /\ cache' = cache /\ degraded' = degraded
  BY DEF Drain, Extended, files, history
<1>2. ASSUME NEW k \in added
      PROVE  k \in CapsOf[GroupOf(k)] /\ CapsOf[GroupOf(k)] \subseteq added
  <2>1. PICK i \in DOMAIN channel : channel[i].ok /\ k \in channel[i].caps
    OBVIOUS
  <2>2. channel[i] \in Results
    BY DEF IInv, TypeOK
  <2>3. /\ channel[i].group \in Groups /\ channel[i] \in AzAnswers[channel[i].group]
        /\ GroupOf(k) = channel[i].group
    BY <2>1, <2>2, ResultsOfGroup
  <2>4. channel[i].caps = CapsOf[GroupOf(k)]
    BY <2>1, <2>3, AnswerWhole
  <2> QED
    BY <2>1, <2>4
<1> HIDE DEF added
<1>3. \A k \in registry \cup added : GroupOf(k) \in Groups
  BY <1>1 DEF IInv, OfGroups
<1>4. Whole(registry \cup added, degraded)
  BY <1>2, <1>3, AddedWhole DEF BothWhole
<1> QED
  BY <1>1, <1>4 DEF BothWhole

LEMMA LearnWhole ==
  ASSUME HelpReadRight, IInv, IInv', BothWhole, NEW g \in Groups, Learn(g)
  PROVE  BothWhole'
<1>1. PICK a \in LearnAnswers(g) :
        IF a.ok
        THEN /\ registry' = registry \cup a.caps
             /\ degraded' = IF backend = "mock" THEN degraded \cup {g} ELSE degraded
        ELSE UNCHANGED <<registry, degraded>>
  BY DEF Learn
<1>2. cache' = cache
  BY DEF Learn, files
<1>3. CASE ~a.ok
  BY <1>1, <1>2, <1>3 DEF BothWhole
<1>4. CASE a.ok
  <2>1. registry' = registry \cup a.caps /\ degraded \subseteq degraded'
    BY <1>1, <1>4
  <2>2. \A k \in a.caps : GroupOf(k) = g
    BY <1>4, AnswersOfGroup
  <2>3. g \in degraded' \/ a.caps = {} \/ a.caps = CapsOf[g]
    <3>1. CASE backend = "mock"
      BY <1>1, <1>4, <3>1
    <3>2. CASE backend = "az"
      BY <1>4, <3>2, AnswerWhole DEF LearnAnswers
    <3> QED
      BY <3>1, <3>2 DEF IInv, TypeOK
  <2>4. \A k \in registry \cup a.caps : GroupOf(k) \in Groups
    BY <2>1 DEF IInv, OfGroups
  <2> DEFINE added == a.caps
  <2>5. \A k \in added : \/ GroupOf(k) \in degraded'
                         \/ k \in CapsOf[GroupOf(k)] /\ CapsOf[GroupOf(k)] \subseteq added
    BY <2>2, <2>3
  <2> HIDE DEF added
  <2>6. Whole(registry \cup added, degraded')
    BY <2>1, <2>4, <2>5, AddedWhole DEF BothWhole, added
  <2>7. Whole(cache', degraded')
    BY <1>2, <2>1 DEF BothWhole, Whole
  <2> QED
    BY <2>1, <2>6, <2>7 DEF BothWhole, added
<1> QED
  BY <1>3, <1>4

LEMMA SaveWhole ==
  ASSUME IInv, IInv', BothWhole, SaveCache \/ SaveCacheFailed, registry' = registry
  PROVE  BothWhole'
<1>1. CASE degraded' = Groups
  BY <1>1, AllExcused DEF IInv, OfGroups, BothWhole
<1>2. CASE degraded' = degraded /\ cache' \in {cache, registry}
  BY <1>2 DEF BothWhole
<1> QED
  BY <1>1, <1>2 DEF SaveCache, SaveCacheFailed

LEMMA LeaveWhole ==
  ASSUME IInv, IInv', BothWhole, Exit \/ Kill
  PROVE  BothWhole'
<1>1. registry' = {}
  BY DEF Exit, Kill, Gone
<1>2. CASE degraded' = Groups
  BY <1>2, AllExcused DEF IInv, OfGroups, BothWhole
<1>3. CASE degraded' = degraded /\ cache' = cache
  BY <1>1, <1>3 DEF BothWhole, Whole, GroupsIn
<1> QED
  BY <1>2, <1>3 DEF Exit, Kill

LEMMA NextWhole ==
  ASSUME HelpReadRight, IInv, IInv', BothWhole, [Next]_vars
  PROVE  BothWhole'
<1>1. CASE Launch
  BY <1>1 DEF Launch, files, BothWhole
<1>2. CASE Exit \/ Kill
  BY <1>2, LeaveWhole
<1>3. CASE Drain
  BY <1>3, DrainWhole
<1>4. CASE DrainSave \/ LearnSave
  BY <1>4, SaveWhole DEF DrainSave, LearnSave
<1>5. ASSUME NEW g \in Groups, Learn(g) PROVE BothWhole'
  BY <1>5, LearnWhole
<1>6. CASE UNCHANGED <<cache, registry, degraded>>
  BY <1>6 DEF BothWhole
<1> QED
  BY <1>1, <1>2, <1>3, <1>4, <1>5, <1>6
     DEF Next, Turn, EndOfInput, OtherLine, Quit, TurnEnd, Scout, ScoutStart,
         ScoutList, ScoutNext, ScoutDerive, vars, files, main, history

-----------------------------------------------------------------------------
(* Theorems *)

\* Every variable of the two threads has its type; the channel holds answers of
\* az's only.
THEOREM SessionTypeOK == Spec => []TypeOK
<1> QED
  BY Invariance, PTL DEF IInv

\* Registry, cache and graph memory agree whenever the player may type, over any
\* number of launches, kills and failed writes, though discovery and `learn`
\* both extend the registry and each place is written on its own (main.rs).
THEOREM PromptsFindAgreement == Spec => []StoresAgree
<1>1. IInv => StoresAgree
  BY DEF IInv, Agree, StoresAgree
<1> QED
  BY <1>1, Invariance, PTL

\* After the player's first line at most one more result arrives: the flag is
\* up before it is read again (stream_startup_autodiscovery).
THEOREM OneResultIsLate == Spec => []OneLateResult
<1>1. IInv => OneLateResult
  BY DEF IInv, TypeOK, OneLateResult
<1> QED
  BY <1>1, Invariance, PTL

\* If the help texts of az name what az has, a group of which anything is known is
\* known as az has it, whatever was cancelled, killed or learned twice, unless a
\* torn cache or the canned help gave it (parse_section, drain_discovery, learn).
THEOREM KnownIsWhole ==
  ASSUME HelpNamesAll
  PROVE  Spec => []KnownGroupsWhole
<1>1. Init => BothWhole
  BY DEF Init, BothWhole, Whole, GroupsIn
<1>2. IInv /\ IInv' /\ BothWhole /\ [Next]_vars => BothWhole'
  BY NextWhole, HelpIsRead
<1>3. BothWhole => KnownGroupsWhole
  BY DEF BothWhole, Whole, KnownGroupsWhole
<1> QED
  BY <1>1, <1>2, <1>3, Invariance, PTL DEF Spec
=============================================================================
