---------------------------- MODULE Update_proofs ----------------------------
(***************************************************************************)
(* Proofs about Update, for every set of processes, every cooldown and any *)
(* number of versions.  Four parts make up the inductive invariant: what a *)
(* process knows by itself (Sound), what holds of the files while no two   *)
(* processes were in the updater at once (Alone), and what the recorded    *)
(* time and the stamp are worth as long as all were written (Recorded).    *)
(***************************************************************************)
EXTENDS Update, TLAPS

Steps == {"off", "game", "cooldown", "resolve", "confirm", "download", "locate",
          "swap", "misplace", "open", "write", "rename"}
Texts == [holds : Int, open : SUBSET Procs]
Processes == [pc : Steps, command : BOOLEAN, running : Nat, replaced : BOOLEAN,
              resolved : Nat, file : Files, value : Nat]

TypeOK ==
  /\ now \in Nat \ {0} /\ exe \in Nat /\ asked \in Nat
  /\ disk \in [Files -> [name : Texts, temp : Texts]]
  /\ azork \in [Procs -> Processes]
  /\ crowded \in BOOLEAN /\ failed \in BOOLEAN

Check == "last_update_check"
Stamp == ".installed-version"

Writing(p)  == azork[p].pc \in {"open", "write", "rename"}
Checking(p) == ~azork[p].command /\ azork[p].file = Check /\ (Writing(p) \/ At(p, "resolve"))

\* It knows the version it is going to install.
Committed(p) ==
  \/ azork[p].pc \in {"confirm", "download", "locate", "swap", "misplace"}
  \/ Writing(p) /\ azork[p].file = Check /\ azork[p].command

\* What p has found is newer than what it runs, which is what is installed
\* unless p was overtaken; what it writes is a value, and no later than now.
SoundOf(p) ==
  /\ Committed(p) => azork[p].resolved \in Versions /\ azork[p].resolved > azork[p].running
  /\ At(p, "cooldown") => ~azork[p].command
  /\ Updating(p) /\ azork[p].file = Check /\ ~azork[p].replaced => azork[p].running = exe
  /\ azork[p].file = Stamp => Writing(p)
  /\ Writing(p) => azork[p].value # Blank
  /\ Checking(p) => azork[p].value \in 1..now
  /\ At(p, "misplace") => azork[p].replaced

Sound == (\A p \in Procs : SoundOf(p)) /\ exe # 0 /\ asked <= now

\* One process at most is in the updater, and the temporary files are its own.
Alone ==
  ~crowded =>
    /\ \A p, q \in Procs : Updating(p) /\ Updating(q) => p = q
    /\ \A p \in Procs : ~azork[p].replaced
    /\ \A f \in Files : disk[f].name.open = {} /\ disk[f].name.holds # Blank
    /\ \A f \in Files : \A p \in disk[f].temp.open : At(p, "write") /\ azork[p].file = f
    /\ \A p \in Procs : At(p, "write") => p \in FileOf(p).temp.open
    /\ \A p \in Procs : At(p, "rename") => FileOf(p).temp.holds = azork[p].value

\* The file of the last check knows of every startup check, and who checks now
\* does so a cooldown later; the stamp is that of the executable, or is being
\* written.
RecordedOf(p) ==
  /\ Checking(p) /\ asked > 0 => azork[p].value - asked >= Cooldown
  /\ At(p, "resolve") /\ ~azork[p].command => LastCheck = azork[p].value
  /\ Writing(p) /\ azork[p].file = Check => asked <= azork[p].value
  /\ azork[p].file = Stamp => azork[p].value = exe

Recorded ==
  ~crowded /\ ~failed =>
    /\ asked > 0 => asked <= LastCheck
    /\ \A p \in Procs : RecordedOf(p)
    /\ (\A p \in Procs : azork[p].file = Check) /\ disk[Stamp].name.holds # -1 =>
         disk[Stamp].name.holds = exe

IInv == TypeOK /\ Sound /\ Alone /\ Recorded

-----------------------------------------------------------------------------

Kept(p) == \A q \in Procs \ {p} : azork'[q] = azork[q]

\* What Become does, for a process of the right type.
LEMMA Becomes ==
  ASSUME TypeOK, NEW p \in Procs, NEW x \in Processes, Become(p, x)
  PROVE  azork' \in [Procs -> Processes] /\ azork'[p] = x /\ Kept(p)
BY DEF TypeOK, Become, Kept

\* A step of p that neither installs nor turns time back keeps the rest sound.
LEMMA SoundKept ==
  ASSUME TypeOK, TypeOK', Sound, NEW p \in Procs, Kept(p), SoundOf(p)',
         exe' = exe, now' >= now, asked' <= now'
  PROVE  Sound'
<1>1. ASSUME NEW q \in Procs \ {p} PROVE SoundOf(q)'
  <2>1. azork'[q] = azork[q] /\ SoundOf(q)
    BY DEF Kept, Sound
  <2>2. azork[q].value \in 1..now => azork[q].value \in 1..now'
    BY DEF TypeOK, Processes
  <2> QED
    BY <2>1, <2>2 DEF SoundOf, At, Updating, Writing, Checking, Committed
<1> QED
  BY <1>1 DEF Sound

\* What it takes besides to keep them alone, when p leaves the files as they are.
LEMMA AloneKept ==
  ASSUME TypeOK, Alone, NEW p \in Procs, UNCHANGED disk,
         ~At(p, "write"), ~At(p, "write")', ~At(p, "rename")',
         ~crowded' => /\ ~crowded /\ Kept(p) /\ ~azork'[p].replaced
                      /\ Updating(p)' => Updating(p) \/ \A q \in Procs \ {p} : ~Updating(q)
  PROVE  Alone'
<1> SUFFICES ASSUME ~crowded' PROVE Alone'
  BY DEF Alone
<1> USE DEF Kept, At, Updating, FileOf
<1>1. \A q \in Procs : q # p => azork'[q] = azork[q]
  OBVIOUS
<1>2. \A q, r \in Procs : Updating(q)' /\ Updating(r)' => q = r
  BY <1>1 DEF Alone
<1>3. \A q \in Procs : ~azork'[q].replaced
  BY <1>1 DEF Alone
<1>4. ASSUME NEW f \in Files, NEW q \in disk[f].temp.open
      PROVE  At(q, "write")' /\ azork'[q].file = f
  <2>1. q \in Procs
    BY DEF TypeOK, Texts
  <2> QED
    BY <1>1, <2>1 DEF Alone
<1>5. \A q \in Procs : At(q, "write")' => q \in FileOf(q)'.temp.open
  BY <1>1 DEF Alone
<1>6. \A q \in Procs : At(q, "rename")' => FileOf(q)'.temp.holds = azork'[q].value
  BY <1>1 DEF Alone
<1>7. \A f \in Files : disk'[f].name.open = {} /\ disk'[f].name.holds # Blank
  BY DEF Alone
<1> QED
  BY <1>2, <1>3, <1>4, <1>5, <1>6, <1>7 DEF Alone

\* Who knows of no other in the updater knows what the others are not doing.
LEMMA Others ==
  ASSUME IInv, NEW p \in Procs, Updating(p), ~crowded, NEW q \in Procs, q # p
  PROVE  ~Updating(q) /\ ~Writing(q) /\ ~Checking(q) /\ ~Committed(q) /\ azork[q].file = Check
<1>1. ~Updating(q) /\ SoundOf(q)
  BY DEF IInv, Alone, Sound
<1>2. ~Writing(q) /\ azork[q].file \in Files
  BY <1>1 DEF Updating, Writing, IInv, TypeOK, Processes
<1> QED
  BY <1>1, <1>2 DEF SoundOf, Updating, Writing, Checking, Committed, At, Files, Check, Stamp

\* What it takes besides to keep the records true, when p changes no name's file.
LEMMA RecordedKept ==
  ASSUME IInv, NEW p \in Procs, UNCHANGED <<crowded, failed>>,
         ~crowded /\ ~failed =>
           /\ Kept(p)
           /\ Updating(p) \/ UNCHANGED <<exe, asked>>
           /\ \A f \in Files : disk'[f].name.holds = disk[f].name.holds
           /\ RecordedOf(p)'
           /\ asked' > 0 => asked' <= LastCheck
           /\ azork'[p].file = Check => azork[p].file = Check /\ UNCHANGED exe
  PROVE  Recorded'
<1> SUFFICES ASSUME ~crowded, ~failed PROVE Recorded'
  BY DEF Recorded
<1> USE DEF Files, Check, Stamp
<1>1. LastCheck' = LastCheck /\ disk'[Stamp].name.holds = disk[Stamp].name.holds
  BY DEF LastCheck
<1>2. ASSUME NEW q \in Procs, q # p
      PROVE  RecordedOf(q)' /\ azork'[q] = azork[q]
  <2>1. azork'[q] = azork[q]
    BY <1>2 DEF Kept
  <2>2. CASE Updating(p)
    <3>1. ~Updating(q) /\ azork[q].file = Check
      BY <1>2, <2>2, Others
    <3> QED
      BY <2>1, <3>1 DEF RecordedOf, Updating, Writing, Checking, At
  <2>3. CASE UNCHANGED <<exe, asked>>
    BY <1>1, <2>1, <2>3 DEF IInv, Recorded, RecordedOf, Writing, Checking, At
  <2> QED
    BY <2>1, <2>2, <2>3
<1>3. (\A q \in Procs : azork'[q].file = Check)
        => UNCHANGED exe /\ \A q \in Procs : azork[q].file = Check
  BY <1>2
<1> QED
  BY <1>1, <1>2, <1>3 DEF Recorded, IInv

-----------------------------------------------------------------------------

LEMMA InitInv == Init => IInv
<1> SUFFICES ASSUME Init PROVE IInv
  OBVIOUS
<1> USE UpdateAssumption DEF Init, Off, Absent, Blank, Files, Check, Stamp
<1>1. TypeOK
  <2>1. Absent \in Texts
    BY DEF Texts
  <2>2. Off \in Processes
    BY DEF Processes, Steps
  <2> HIDE DEF Off, Absent, Files
  <2>3. disk \in [Files -> [name : Texts, temp : Texts]]
    BY <2>1
  <2>4. azork \in [Procs -> Processes]
    BY <2>2
  <2>5. now \in Nat \ {0} /\ exe \in Nat /\ asked \in Nat
    OBVIOUS
  <2>6. crowded \in BOOLEAN /\ failed \in BOOLEAN
    OBVIOUS
  <2> HIDE DEF Init
  <2> QED
    BY <2>3, <2>4, <2>5, <2>6 DEF TypeOK
<1>2. Sound
  BY DEF Sound, SoundOf, At, Updating, Writing, Checking, Committed
<1>3. Alone
  <2>1. /\ \A p \in Procs : azork[p].pc = "off" /\ ~azork[p].replaced
        /\ \A f \in Files : disk[f].name = Absent /\ disk[f].temp = Absent
    OBVIOUS
  <2>2. Absent.open = {} /\ Absent.holds # Blank
    OBVIOUS
  <2> QED
    BY <2>1, <2>2 DEF Alone, At, Updating, FileOf
<1>4. Recorded
  <2>1. /\ \A p \in Procs : azork[p].pc = "off" /\ azork[p].file = Check
        /\ disk[Stamp].name.holds = -1 /\ asked = 0
    OBVIOUS
  <2> QED
    BY <2>1 DEF Recorded, RecordedOf, At, Writing, Checking
<1> QED
  BY <1>1, <1>2, <1>3, <1>4 DEF IInv

LEMMA LaunchInv ==
  ASSUME IInv, NEW p \in Procs, Launch(p)
  PROVE  IInv'
<1> USE UpdateAssumption DEF IInv, Files, Check, Stamp
<1>1. PICK l \in {"game", "cooldown", "resolve"} :
        Become(p, [Off EXCEPT !.pc = l, !.command = (l = "resolve"), !.running = exe])
  BY DEF Launch
<1> DEFINE x == [Off EXCEPT !.pc = l, !.command = (l = "resolve"), !.running = exe]
<1>2. /\ x \in Processes
      /\ x.pc = l /\ x.command = (l = "resolve") /\ x.running = exe /\ x.replaced = FALSE
      /\ x.file = Check
  BY DEF Off, Processes, TypeOK, Steps, Blank
<1> HIDE DEF x
<1>3. azork' \in [Procs -> Processes] /\ azork'[p] = x /\ Kept(p)
  BY <1>1, <1>2, Becomes DEF x
<1>4. UNCHANGED <<now, exe, disk, asked, failed>> /\ crowded' \in BOOLEAN
      /\ (~crowded' => ~crowded /\ \A q \in Procs \ {p} : ~Updating(q))
  BY DEF Launch, TypeOK
<1>5. TypeOK'
  BY <1>3, <1>4 DEF TypeOK
<1>6. SoundOf(p)'
  BY <1>2, <1>3, <1>4 DEF SoundOf, At, Updating, Writing, Checking, Committed
<1>7. Sound'
  BY <1>3, <1>4, <1>5, <1>6, SoundKept DEF Sound, TypeOK
<1>8. Alone'
  <2>1. ~At(p, "write") /\ ~At(p, "write")' /\ ~At(p, "rename")'
    BY <1>2, <1>3 DEF Launch, At
  <2> QED
    BY <1>2, <1>3, <1>4, <2>1, AloneKept
<1>9. Recorded'
  <2>1. \A q \in Procs : q # p => azork'[q] = azork[q]
    BY <1>3 DEF Kept
  <2>2. ~Writing(p)' /\ ~Checking(p)' /\ azork'[p].file = Check
        /\ ~(At(p, "resolve")' /\ ~azork'[p].command) /\ azork[p].file = Check
    BY <1>2, <1>3 DEF Writing, Checking, At, Launch, Sound, SoundOf, TypeOK, Processes
  <2> QED
    BY <1>4, <2>1, <2>2 DEF Recorded, RecordedOf, At, Writing, Checking, LastCheck
<1> QED
  BY <1>5, <1>7, <1>8, <1>9

\* Who is in the updater and writes nothing may leave it, having asked or not.
LEMMA LeaveInv ==
  ASSUME IInv, NEW p \in Procs, Updating(p), ~Writing(p), Play(p) \/ Exit(p),
         UNCHANGED <<now, exe, disk, crowded, failed>>, asked' \in Nat, asked' <= now,
         ~crowded /\ ~failed /\ asked' > 0 => asked' <= LastCheck
  PROVE  IInv'
<1> USE DEF IInv, Files, Check, Stamp
<1> DEFINE x == IF Play(p) THEN [Off EXCEPT !.pc = "game", !.running = azork[p].running] ELSE Off
<1>1. Become(p, x)
  BY DEF Play, Exit
<1>2. /\ x \in Processes
      /\ x.pc \in {"off", "game"} /\ x.command = FALSE /\ x.replaced = FALSE /\ x.file = Check
  BY DEF Off, Processes, TypeOK, Steps, Blank
<1> HIDE DEF x
<1>3. azork' \in [Procs -> Processes] /\ azork'[p] = x /\ Kept(p)
  BY <1>1, <1>2, Becomes
<1>4. TypeOK'
  BY <1>3 DEF TypeOK
<1>5. SoundOf(p)'
  BY <1>2, <1>3 DEF SoundOf, At, Updating, Writing, Checking, Committed
<1>6. Sound'
  BY <1>3, <1>4, <1>5, SoundKept DEF Sound, TypeOK
<1>7. Alone'
  BY <1>2, <1>3, AloneKept DEF Writing, At
<1>8. Recorded'
  <2>1. RecordedOf(p)'
    BY <1>2, <1>3 DEF RecordedOf, Writing, Checking, At
  <2>2. azork[p].file = Check
    BY DEF Sound, SoundOf, TypeOK, Processes
  <2> QED
    BY <1>3, <2>1, <2>2, RecordedKept
<1> QED
  BY <1>4, <1>6, <1>7, <1>8

\* ... or go on to a step that is not in the middle of writing.
LEMMA MoveInv ==
  ASSUME IInv, NEW p \in Procs, Updating(p), ~Writing(p),
         NEW x \in Processes, Become(p, x), x.pc \notin {"write", "rename"},
         x.replaced => azork[p].replaced,
         UNCHANGED <<now, exe, disk, crowded, failed>>, asked' \in Nat, asked' <= now,
         SoundOf(p)',
         ~crowded /\ ~failed => /\ RecordedOf(p)'
                                /\ asked' > 0 => asked' <= LastCheck
                                /\ x.file = Check => azork[p].file = Check
  PROVE  IInv'
<1>1. azork' \in [Procs -> Processes] /\ azork'[p] = x /\ Kept(p)
  BY Becomes DEF IInv
<1>2. TypeOK'
  BY <1>1 DEF IInv, TypeOK
<1>3. Sound'
  BY <1>1, <1>2, SoundKept DEF IInv, Sound, TypeOK
<1>4. Alone'
  <2>1. ~crowded => ~azork[p].replaced
    BY DEF IInv, Alone
  <2> QED
    BY <1>1, <2>1, AloneKept DEF IInv, Writing, At
<1>5. Recorded'
  BY <1>1, RecordedKept
<1> QED
  BY <1>2, <1>3, <1>4, <1>5 DEF IInv

LEMMA CheckCooldownInv ==
  ASSUME IInv, NEW p \in Procs, CheckCooldown(p)
  PROVE  IInv'
<1> USE DEF Files, Check, Stamp
<1>1. Updating(p) /\ ~Writing(p) /\ UNCHANGED <<now, exe, disk, crowded, failed, asked>>
  BY DEF CheckCooldown, Updating, Writing, At, history
<1>2. asked \in Nat /\ asked <= now /\ now \in Nat \ {0} /\ Cooldown \in Nat
      /\ azork[p] \in Processes /\ LastCheck \in Int
      /\ (~crowded /\ ~failed /\ asked > 0 => asked <= LastCheck)
  BY UpdateAssumption DEF IInv, Sound, TypeOK, Recorded, LastCheck, Texts
<1>3. CASE CoolingDown
  BY <1>1, <1>2, <1>3, LeaveInv DEF CheckCooldown
<1>4. CASE ~CoolingDown
  <2> DEFINE x == [azork[p] EXCEPT !.pc = "open", !.file = Check, !.value = now]
  <2>1. /\ x \in Processes
        /\ x.pc = "open" /\ x.file = Check /\ x.value = now
        /\ x.command = azork[p].command /\ x.replaced = azork[p].replaced
        /\ x.running = azork[p].running
    BY <1>2 DEF Processes, Steps
  <2>2. Become(p, x)
    BY <1>4 DEF CheckCooldown, WriteNext
  <2> HIDE DEF x
  <2>3. azork'[p] = x
    BY <2>1, <2>2, Becomes DEF IInv
  <2>4. ~azork[p].command /\ azork[p].file = Check
        /\ (~azork[p].replaced => azork[p].running = exe)
    BY <1>1, <1>2 DEF IInv, Sound, SoundOf, CheckCooldown, Processes
  <2>5. SoundOf(p)'
    BY <1>1, <1>2, <2>1, <2>3, <2>4 DEF SoundOf, At, Updating, Writing, Checking, Committed, Blank
  <2>6. ASSUME ~crowded, ~failed PROVE RecordedOf(p)'
    <3>1. asked > 0 => now - asked >= Cooldown
      BY <1>2, <1>4, <2>6 DEF CoolingDown, Blank
    <3> QED
      BY <1>1, <1>2, <2>1, <2>3, <3>1 DEF RecordedOf, At, Writing, Checking
  <2> QED
    BY <1>1, <1>2, <2>1, <2>2, <2>4, <2>5, <2>6, MoveInv
<1> QED
  BY <1>3, <1>4

LEMMA ConfirmInv ==
  ASSUME IInv, NEW p \in Procs, Confirm(p)
  PROVE  IInv'
<1> USE DEF Files, Check, Stamp
<1>1. Updating(p) /\ ~Writing(p) /\ UNCHANGED <<now, exe, disk, crowded, failed, asked>>
  BY DEF Confirm, Updating, Writing, At, history
<1>2. asked \in Nat /\ asked <= now /\ azork[p] \in Processes
      /\ (~crowded /\ ~failed /\ asked > 0 => asked <= LastCheck)
  BY DEF IInv, Sound, TypeOK, Recorded
<1>3. CASE Play(p)
  BY <1>1, <1>2, <1>3, LeaveInv
<1>4. CASE Goto(p, "download")
  <2> DEFINE x == [azork[p] EXCEPT !.pc = "download"]
  <2>1. /\ x \in Processes
        /\ x.pc = "download" /\ x.file = azork[p].file /\ x.resolved = azork[p].resolved
        /\ x.command = azork[p].command /\ x.replaced = azork[p].replaced
        /\ x.running = azork[p].running
    BY <1>2 DEF Processes, Steps
  <2>2. Become(p, x)
    BY <1>4 DEF Goto
  <2> HIDE DEF x
  <2>3. azork'[p] = x
    BY <2>1, <2>2, Becomes DEF IInv
  <2>4. SoundOf(p)
    BY DEF IInv, Sound
  <2>5. azork[p].file = Check
    BY <1>1, <1>2, <2>4 DEF SoundOf, Processes
  <2>6. SoundOf(p)'
    BY <1>1, <1>2, <2>1, <2>3, <2>4, <2>5
       DEF SoundOf, At, Updating, Writing, Checking, Committed, Confirm
  <2>7. RecordedOf(p)'
    BY <2>1, <2>3, <2>5 DEF RecordedOf, At, Writing, Checking
  <2> QED
    BY <1>1, <1>2, <2>1, <2>2, <2>5, <2>6, <2>7, MoveInv
<1> QED
  BY <1>3, <1>4 DEF Confirm

LEMMA ResolveInv ==
  ASSUME IInv, NEW p \in Procs, Resolve(p)
  PROVE  IInv'
<1> USE DEF Files, Check, Stamp
<1>1. Updating(p) /\ ~Writing(p) /\ At(p, "resolve")
      /\ UNCHANGED <<now, exe, disk, crowded, failed>>
  BY DEF Resolve, Updating, Writing, At
<1>2. azork[p] \in Processes /\ now \in Nat \ {0} /\ SoundOf(p)
      /\ (~azork[p].replaced => azork[p].running = exe) /\ azork[p].file = Check
  BY <1>1 DEF IInv, Sound, TypeOK, SoundOf, Processes
<1>3. asked' \in Nat /\ asked' <= now
      /\ (~azork[p].command => azork[p].value \in 1..now /\ asked' = azork[p].value)
      /\ (azork[p].command => asked' = asked)
  BY <1>1, <1>2 DEF Resolve, IInv, Sound, TypeOK, SoundOf, Checking, Processes
<1>4. ~crowded /\ ~failed /\ asked' > 0 => asked' <= LastCheck
  BY <1>1, <1>3 DEF IInv, Recorded, RecordedOf
<1>5. PICK latest \in FetchLatestRelease :
       \/ /\ latest \in Versions /\ Newer(azork[p].running, latest)
          /\ LET found == [azork[p] EXCEPT !.resolved = latest, !.value = Blank]
             IN  IF found.command THEN WriteNext(p, found, "last_update_check", now)
                                  ELSE Become(p, [found EXCEPT !.pc = "confirm"])
       \/ /\ latest \notin Versions \/ ~Newer(azork[p].running, latest)
          /\ Leave(p)
  BY DEF Resolve
<1>6. CASE Leave(p)
  BY <1>1, <1>3, <1>4, <1>6, LeaveInv DEF Leave
<1>7. CASE ~Leave(p)
  <2> DEFINE x == IF azork[p].command
                  THEN [azork[p] EXCEPT !.resolved = latest, !.value = now, !.pc = "open", !.file = Check]
                  ELSE [azork[p] EXCEPT !.resolved = latest, !.value = Blank, !.pc = "confirm"]
  <2>1. latest \in Versions /\ latest > azork[p].running
    BY <1>5, <1>7 DEF Newer
  <2>2. /\ x \in Processes
        /\ x.pc = IF azork[p].command THEN "open" ELSE "confirm"
        /\ azork[p].command => x.value = now
        /\ x.file = Check /\ x.resolved = latest
        /\ x.command = azork[p].command /\ x.replaced = azork[p].replaced
        /\ x.running = azork[p].running
    <3>1. latest \in Nat /\ now \in Nat /\ Blank \in Nat
      BY <1>2, <2>1, UpdateAssumption DEF Versions, Blank
    <3>2. CASE azork[p].command
      BY <1>2, <3>1, <3>2 DEF Processes, Steps
    <3>3. CASE ~azork[p].command
      BY <1>2, <3>1, <3>3 DEF Processes, Steps
    <3> QED
      BY <3>2, <3>3
  <2>3. Become(p, x)
    BY <1>2, <1>5, <1>7 DEF WriteNext, Become, Processes
  <2> HIDE DEF x
  <2>4. azork'[p] = x
    BY <2>2, <2>3, Becomes DEF IInv
  <2>5. SoundOf(p)'
    BY <1>1, <1>2, <2>1, <2>2, <2>4 DEF SoundOf, At, Updating, Writing, Checking, Committed, Blank
  <2>6. RecordedOf(p)'
    BY <1>1, <1>3, <2>2, <2>4 DEF RecordedOf, At, Writing, Checking
  <2> QED
    BY <1>1, <1>2, <1>3, <1>4, <2>2, <2>3, <2>5, <2>6, MoveInv
<1> QED
  BY <1>6, <1>7

\* Only what agrees with the digest of the version resolved is that version.
LEMMA VerifiedIsResolved ==
  ASSUME NEW version \in Versions, NEW archive \in HttpGet(version), NEW digest \in HttpGet(version),
         VerifySha256(archive, digest)
  PROVE  archive = version
BY UpdateAssumption DEF VerifySha256, HttpGet, Versions, Garbled, Failed

LEMMA DownloadInv ==
  ASSUME IInv, NEW p \in Procs, Download(p)
  PROVE  IInv'
<1> USE DEF Files, Check, Stamp
<1>1. Updating(p) /\ ~Writing(p) /\ Committed(p)
      /\ UNCHANGED <<now, exe, disk, crowded, failed, asked>>
  BY DEF Download, Updating, Writing, Committed, At, history
<1>2. asked \in Nat /\ asked <= now /\ azork[p] \in Processes /\ SoundOf(p)
      /\ (~crowded /\ ~failed /\ asked > 0 => asked <= LastCheck)
  BY DEF IInv, Sound, TypeOK, Recorded
<1>3. CASE Leave(p)
  BY <1>1, <1>2, <1>3, LeaveInv DEF Leave
<1>4. CASE ~Leave(p)
  <2> DEFINE x == [azork[p] EXCEPT !.pc = "locate"]
  <2>1. /\ x \in Processes
        /\ x.pc = "locate" /\ x.file = azork[p].file /\ x.resolved = azork[p].resolved
        /\ x.command = azork[p].command /\ x.replaced = azork[p].replaced
        /\ x.running = azork[p].running
    BY <1>2 DEF Processes, Steps
  <2>2. azork[p].resolved \in Versions
    BY <1>1, <1>2 DEF SoundOf
  <2>3. Become(p, x)
    <3>1. PICK archive \in HttpGet(azork[p].resolved), digest \in HttpGet(azork[p].resolved) :
            /\ VerifySha256(archive, digest)
            /\ \E binary \in ExtractBinary(archive) :
                 IF binary = Failed THEN Leave(p)
                 ELSE Become(p, [azork[p] EXCEPT !.pc = "locate", !.resolved = binary])
      BY <1>4 DEF Download
    <3>2. Become(p, [azork[p] EXCEPT !.pc = "locate", !.resolved = azork[p].resolved])
      BY <1>4, <2>2, <3>1, VerifiedIsResolved DEF ExtractBinary
    <3>3. [azork[p] EXCEPT !.pc = "locate", !.resolved = azork[p].resolved] = x
      BY <1>2 DEF Processes
    <3> QED
      BY <3>2, <3>3
  <2> HIDE DEF x
  <2>4. azork'[p] = x
    BY <2>1, <2>3, Becomes DEF IInv
  <2>5. azork[p].file = Check
    BY <1>1, <1>2 DEF SoundOf, Processes
  <2>6. SoundOf(p)'
    BY <1>1, <1>2, <2>1, <2>4, <2>5 DEF SoundOf, At, Updating, Writing, Checking, Committed
  <2>7. RecordedOf(p)'
    BY <2>1, <2>4, <2>5 DEF RecordedOf, At, Writing, Checking
  <2> QED
    BY <1>1, <1>2, <2>1, <2>3, <2>5, <2>6, <2>7, MoveInv
<1> QED
  BY <1>3, <1>4

LEMMA LocateInv ==
  ASSUME IInv, NEW p \in Procs, Locate(p)
  PROVE  IInv'
<1> USE DEF Files, Check, Stamp
<1>1. Updating(p) /\ ~Writing(p) /\ Committed(p)
      /\ UNCHANGED <<now, exe, disk, crowded, failed, asked>>
  BY DEF Locate, Updating, Writing, Committed, At, history
<1>2. asked \in Nat /\ asked <= now /\ azork[p] \in Processes /\ SoundOf(p)
      /\ (~crowded /\ ~failed /\ asked > 0 => asked <= LastCheck)
  BY DEF IInv, Sound, TypeOK, Recorded
<1>3. PICK l \in {"swap", "misplace"} : Goto(p, l) /\ (l = "misplace" => azork[p].replaced)
  BY DEF Locate
<1> DEFINE x == [azork[p] EXCEPT !.pc = l]
<1>4. /\ x \in Processes
      /\ x.pc = l /\ x.file = azork[p].file /\ x.resolved = azork[p].resolved
      /\ x.command = azork[p].command /\ x.replaced = azork[p].replaced
      /\ x.running = azork[p].running
  BY <1>2 DEF Processes, Steps
<1>5. Become(p, x)
  BY <1>3 DEF Goto
<1> HIDE DEF x
<1>6. azork'[p] = x
  BY <1>4, <1>5, Becomes DEF IInv
<1>7. azork[p].file = Check
  BY <1>1, <1>2 DEF SoundOf, Processes
<1>8. SoundOf(p)'
  BY <1>1, <1>2, <1>3, <1>4, <1>6, <1>7 DEF SoundOf, At, Updating, Writing, Checking, Committed
<1>9. RecordedOf(p)'
  BY <1>3, <1>4, <1>6, <1>7 DEF RecordedOf, At, Writing, Checking
<1> QED
  BY <1>1, <1>2, <1>3, <1>4, <1>5, <1>7, <1>8, <1>9, MoveInv

LEMMA SetReplaced ==
  ASSUME NEW r \in Processes, NEW b \in BOOLEAN
  PROVE  LET s == [r EXCEPT !.replaced = b]
         IN  /\ s \in Processes
             /\ s.pc = r.pc /\ s.command = r.command /\ s.running = r.running /\ s.replaced = b
             /\ s.resolved = r.resolved /\ s.file = r.file /\ s.value = r.value
             /\ b = r.replaced => s = r
BY DEF Processes

LEMMA SwapInv ==
  ASSUME IInv, NEW p \in Procs, Swap(p)
  PROVE  IInv'
<1> USE DEF Files, Check, Stamp
<1>1. Updating(p) /\ ~Writing(p) /\ Committed(p) /\ At(p, "swap")
      /\ UNCHANGED <<now, disk, crowded, failed, asked>>
  BY DEF Swap, Updating, Writing, Committed, At, history
<1>2. asked \in Nat /\ asked <= now /\ azork[p] \in Processes /\ SoundOf(p)
      /\ (~crowded /\ ~failed /\ asked > 0 => asked <= LastCheck)
  BY DEF IInv, Sound, TypeOK, Recorded
<1>3. CASE Leave(p) /\ UNCHANGED exe
  BY <1>1, <1>2, <1>3, LeaveInv DEF Leave
<1>4. CASE ~(Leave(p) /\ UNCHANGED exe)
  <2> DEFINE x == [Off EXCEPT !.pc = "open", !.file = ".installed-version", !.value = Stamped(p)]
  <2>1. azork[p].resolved \in Versions
    BY <1>1, <1>2 DEF SoundOf
  <2>2. /\ x \in Processes
        /\ x.pc = "open" /\ x.file = Stamp /\ x.value = azork[p].resolved
        /\ x.command = FALSE /\ x.replaced = FALSE
    <3>1. Stamped(p) \in Nat
      BY <2>1, UpdateAssumption DEF Stamped, Versions
    <3>2. Stamped(p) = azork[p].resolved
      BY DEF Stamped
    <3> HIDE DEF Stamped
    <3> QED
      BY <3>1, <3>2 DEF Off, Processes, Steps, Blank
  <2>3. /\ exe' = azork[p].resolved
        /\ azork' = [q \in Procs |-> IF q = p THEN x
                                     ELSE [azork[q] EXCEPT !.replaced = Updating(q)]]
    BY <1>4 DEF Swap
  <2> HIDE DEF x
  <2>4. exe' \in Nat /\ exe' # 0
    BY <2>1, <2>3, UpdateAssumption DEF Versions
  <2>5. azork'[p] = x
    BY <2>3
  <2>6. ASSUME NEW q \in Procs, q # p
        PROVE  /\ azork'[q] \in Processes
               /\ azork'[q].pc = azork[q].pc /\ azork'[q].command = azork[q].command
               /\ azork'[q].running = azork[q].running /\ azork'[q].resolved = azork[q].resolved
               /\ azork'[q].file = azork[q].file /\ azork'[q].value = azork[q].value
               /\ azork'[q].replaced <=> Updating(q)
               /\ Updating(q) = azork[q].replaced => azork'[q] = azork[q]
    <3>1. azork'[q] = [azork[q] EXCEPT !.replaced = Updating(q)]
      BY <2>3, <2>6
    <3>2. Updating(q) \in BOOLEAN /\ azork[q] \in Processes
      BY DEF Updating, IInv, TypeOK
    <3>3. PICK b \in BOOLEAN : b = Updating(q)
      BY <3>2, Zenon
    <3>4. azork'[q] = [azork[q] EXCEPT !.replaced = b]
      BY <3>1, <3>3, Zenon
    <3>5. b <=> Updating(q)
      BY <3>3, Zenon
    <3>6. Updating(q) = azork[q].replaced => b = azork[q].replaced
      BY <3>3, Zenon
    <3> QED
      BY <3>2, <3>4, <3>5, <3>6, SetReplaced
  <2>7. TypeOK'
    <3>1. azork' \in [Procs -> Processes]
      BY <2>2, <2>3, <2>5, <2>6
    <3> QED
      BY <1>1, <2>4, <3>1 DEF IInv, TypeOK
  <2>8. Sound'
    <3>1. SoundOf(p)'
      BY <2>1, <2>2, <2>5 DEF SoundOf, At, Updating, Writing, Checking, Committed, Versions, Blank
    <3>2. ASSUME NEW q \in Procs, q # p PROVE SoundOf(q)'
      <4>1. azork[q] \in Processes /\ SoundOf(q)
        BY DEF IInv, TypeOK, Sound
      <4>3. /\ Updating(q)' <=> Updating(q)
            /\ Committed(q)' <=> Committed(q)
            /\ Writing(q)' <=> Writing(q)
            /\ Checking(q)' <=> Checking(q)
            /\ \A l \in Steps : At(q, l)' <=> At(q, l)
        BY <2>6, <3>2 DEF At, Updating, Writing, Checking, Committed
      <4>4. At(q, "misplace") => Updating(q)
        BY DEF At, Updating
      <4> QED
        BY <1>1, <2>6, <3>2, <4>1, <4>3, <4>4 DEF SoundOf, Steps
    <3> QED
      BY <1>1, <1>2, <2>4, <3>1, <3>2 DEF Sound
  <2>9. ~crowded => Kept(p)
    <3> SUFFICES ASSUME ~crowded, NEW q \in Procs, q # p PROVE azork'[q] = azork[q]
      BY DEF Kept
    <3>1. ~Updating(q) /\ azork[q].replaced = FALSE /\ azork[q] \in Processes
      BY <1>1, Others DEF IInv, Alone, TypeOK, Processes
    <3>2. Updating(q) = azork[q].replaced
      BY <3>1 DEF Updating
    <3> QED
      BY <2>6, <3>2
  <2>10. Alone'
    BY <1>1, <2>2, <2>5, <2>9, AloneKept DEF IInv, Writing, At
  <2>11. RecordedOf(p)'
    BY <2>2, <2>3, <2>5 DEF RecordedOf, At, Writing, Checking
  <2>12. Recorded'
    BY <1>1, <1>2, <2>2, <2>5, <2>9, <2>11, RecordedKept
  <2> QED
    BY <2>7, <2>8, <2>10, <2>12 DEF IInv
<1> QED
  BY <1>3, <1>4

\* The executable of p was renamed over only if p was not alone.
LEMMA MisplaceInv ==
  ASSUME IInv, NEW p \in Procs, Misplace(p)
  PROVE  IInv'
<1> USE DEF Files, Check, Stamp
<1>1. Updating(p) /\ ~Writing(p) /\ Committed(p) /\ At(p, "misplace")
      /\ UNCHANGED <<now, exe, disk, crowded, failed, asked>>
  BY DEF Misplace, Updating, Writing, Committed, At, history
<1>2. asked \in Nat /\ asked <= now /\ azork[p] \in Processes /\ SoundOf(p)
      /\ (~crowded /\ ~failed /\ asked > 0 => asked <= LastCheck)
  BY DEF IInv, Sound, TypeOK, Recorded
<1>3. CASE Leave(p)
  BY <1>1, <1>2, <1>3, LeaveInv DEF Leave
<1>4. CASE WriteStamp(p)
  <2> DEFINE x == [Off EXCEPT !.pc = "open", !.file = ".installed-version", !.value = Stamped(p)]
  <2>1. azork[p].resolved \in Versions
    BY <1>1, <1>2 DEF SoundOf
  <2>2. /\ x \in Processes
        /\ x.pc = "open" /\ x.file = Stamp /\ x.value = azork[p].resolved
        /\ x.command = FALSE /\ x.replaced = FALSE
    <3>1. Stamped(p) \in Nat
      BY <2>1, UpdateAssumption DEF Stamped, Versions
    <3>2. Stamped(p) = azork[p].resolved
      BY DEF Stamped
    <3> HIDE DEF Stamped
    <3> QED
      BY <3>1, <3>2 DEF Off, Processes, Steps, Blank
  <2>3. Become(p, x)
    BY <1>4 DEF WriteStamp, WriteNext
  <2> HIDE DEF x
  <2>4. azork'[p] = x
    BY <2>2, <2>3, Becomes DEF IInv
  <2>5. SoundOf(p)'
    BY <2>1, <2>2, <2>4 DEF SoundOf, At, Updating, Writing, Checking, Committed, Versions, Blank
  <2>6. crowded
    BY <1>1, <1>2 DEF SoundOf, IInv, Alone
  <2> QED
    BY <1>1, <1>2, <2>2, <2>3, <2>5, <2>6, MoveInv
<1> QED
  BY <1>3, <1>4 DEF Misplace

-----------------------------------------------------------------------------
(* The steps of a write *)

\* Who is alone and not at its "write" finds both files closed.
LEMMA AllClosed ==
  ASSUME TypeOK, Alone, ~crowded, NEW p \in Procs, Updating(p), ~At(p, "write"), NEW f \in Files
  PROVE  disk[f].name.open = {} /\ disk[f].temp.open = {}
<1>1. disk[f].name.open = {} /\ disk[f].temp.open \subseteq Procs
  BY DEF TypeOK, Texts, Alone
<1>2. ASSUME NEW q \in disk[f].temp.open PROVE FALSE
  <2>1. q \in Procs /\ At(q, "write")
    BY <1>1 DEF Alone
  <2>2. Updating(q)
    BY <2>1 DEF At, Updating
  <2> QED
    BY <2>1, <2>2 DEF Alone
<1> QED
  BY <1>1, <1>2

LEMMA OpenInv ==
  ASSUME IInv, NEW p \in Procs, Open(p)
  PROVE  IInv'
<1> USE DEF Files, Check, Stamp
<1> DEFINE x == [azork[p] EXCEPT !.pc = "write"]
           f == azork[p].file
<1>1. /\ At(p, "open") /\ Updating(p) /\ Writing(p) /\ Become(p, x)
      /\ UNCHANGED <<now, exe, crowded, failed, asked>>
      /\ disk' = [disk EXCEPT ![f] = [FileOf(p) EXCEPT !.temp =
                    [holds |-> Blank, open |-> FileOf(p).temp.open \cup {p}]]]
  BY DEF Open, OnDisk, Goto, Updating, Writing, At, history, FileOf
<1>2. azork[p] \in Processes /\ SoundOf(p) /\ f \in Files
      /\ FileOf(p) \in [name : Texts, temp : Texts] /\ disk \in [Files -> [name : Texts, temp : Texts]]
  BY DEF IInv, Sound, TypeOK, FileOf, Processes
<1>3. /\ x \in Processes
      /\ x.pc = "write" /\ x.file = azork[p].file /\ x.resolved = azork[p].resolved
      /\ x.command = azork[p].command /\ x.replaced = azork[p].replaced
      /\ x.running = azork[p].running /\ x.value = azork[p].value
  BY <1>2 DEF Processes, Steps
<1> HIDE DEF x
<1>4. azork' \in [Procs -> Processes] /\ azork'[p] = x /\ Kept(p)
  BY <1>1, <1>3, Becomes DEF IInv
<1>5. /\ disk' \in [Files -> [name : Texts, temp : Texts]]
      /\ \A g \in Files : disk'[g].name = disk[g].name
      /\ \A g \in Files : g # f => disk'[g] = disk[g]
      /\ disk'[f].temp.open = disk[f].temp.open \cup {p}
  <2>1. [holds |-> Blank, open |-> FileOf(p).temp.open \cup {p}] \in Texts
    BY <1>2 DEF Texts, Blank
  <2> QED
    BY <1>1, <1>2, <2>1 DEF FileOf
<1> HIDE DEF Files
<1>6. TypeOK'
  BY <1>1, <1>4, <1>5 DEF IInv, TypeOK
<1>7. SoundOf(p)'
  BY <1>1, <1>2, <1>3, <1>4 DEF SoundOf, At, Updating, Writing, Checking, Committed
<1>8. Sound'
  BY <1>1, <1>4, <1>6, <1>7, SoundKept DEF IInv, Sound, TypeOK
<1>9. Alone'
  <2> SUFFICES ASSUME ~crowded PROVE Alone'
    BY <1>1 DEF Alone
  <2>1. \A g \in Files : disk[g].name.open = {} /\ disk[g].temp.open = {}
    BY <1>1, AllClosed DEF IInv, At
  <2>2. \A q \in Procs : q # p => azork'[q] = azork[q] /\ ~Updating(q)
    BY <1>1, <1>4, Others DEF Kept
  <2>3. \A q \in Procs : ~azork'[q].replaced
    BY <1>3, <1>4, <2>2 DEF IInv, Alone
  <2>4. \A g \in Files : disk'[g].name.open = {} /\ disk'[g].name.holds # Blank
    BY <1>5 DEF IInv, Alone
  <2>5. \A g \in Files : \A q \in disk'[g].temp.open : At(q, "write")' /\ azork'[q].file = g
    BY <1>2, <1>3, <1>4, <1>5, <2>1 DEF At
  <2>6. \A q \in Procs : At(q, "write")' => q \in FileOf(q)'.temp.open
    BY <1>2, <1>3, <1>4, <1>5, <2>2 DEF At, Updating, FileOf
  <2>7. \A q \in Procs : ~At(q, "rename")' /\ (Updating(q)' => q = p)
    BY <1>3, <1>4, <2>2 DEF At, Updating
  <2> QED
    BY <2>3, <2>4, <2>5, <2>6, <2>7 DEF Alone
<1>10. Recorded'
  <2>1. ~crowded /\ ~failed => RecordedOf(p)
    BY DEF IInv, Recorded
  <2>2. ~crowded /\ ~failed => RecordedOf(p)'
    BY <1>1, <1>2, <1>3, <1>4, <2>1 DEF RecordedOf, At, Writing, Checking
  <2>3. ~crowded /\ ~failed /\ asked > 0 => asked <= LastCheck
    BY DEF IInv, Recorded
  <2> QED
    BY <1>1, <1>3, <1>4, <1>5, <2>2, <2>3, RecordedKept
<1> QED
  BY <1>6, <1>8, <1>9, <1>10 DEF IInv

LEMMA WriteInv ==
  ASSUME IInv, NEW p \in Procs, Write(p)
  PROVE  IInv'
<1> USE DEF Files, Check, Stamp
<1> DEFINE x == [azork[p] EXCEPT !.pc = "rename"]
           f == azork[p].file
<1>1. /\ At(p, "write") /\ Updating(p) /\ Writing(p) /\ Become(p, x)
      /\ UNCHANGED <<now, exe, crowded, failed, asked>>
      /\ disk' = [disk EXCEPT ![f] = [name |-> Through(p, FileOf(p).name),
                                      temp |-> Through(p, FileOf(p).temp)]]
  BY DEF Write, OnDisk, Goto, Updating, Writing, At, history
<1>2. azork[p] \in Processes /\ SoundOf(p) /\ f \in Files
      /\ FileOf(p) \in [name : Texts, temp : Texts] /\ disk \in [Files -> [name : Texts, temp : Texts]]
  BY DEF IInv, Sound, TypeOK, FileOf, Processes
<1>3. /\ x \in Processes
      /\ x.pc = "rename" /\ x.file = azork[p].file /\ x.resolved = azork[p].resolved
      /\ x.command = azork[p].command /\ x.replaced = azork[p].replaced
      /\ x.running = azork[p].running /\ x.value = azork[p].value
  BY <1>2 DEF Processes, Steps
<1> HIDE DEF x
<1>4. azork' \in [Procs -> Processes] /\ azork'[p] = x /\ Kept(p)
  BY <1>1, <1>3, Becomes DEF IInv
<1>5. /\ disk' \in [Files -> [name : Texts, temp : Texts]]
      /\ \A g \in Files : g # f => disk'[g] = disk[g]
      /\ disk'[f].name = Through(p, FileOf(p).name)
      /\ disk'[f].temp = Through(p, FileOf(p).temp)
  <2>1. \A t \in Texts : Through(p, t) \in Texts
    BY <1>2 DEF Texts, Through, Processes
  <2> QED
    BY <1>1, <1>2, <2>1
<1> HIDE DEF Files
<1>6. TypeOK'
  BY <1>1, <1>4, <1>5 DEF IInv, TypeOK
<1>7. SoundOf(p)'
  BY <1>1, <1>2, <1>3, <1>4 DEF SoundOf, At, Updating, Writing, Checking, Committed
<1>8. Sound'
  BY <1>1, <1>4, <1>6, <1>7, SoundKept DEF IInv, Sound, TypeOK
<1>9. ~crowded => /\ \A g \in Files : disk'[g].name = disk[g].name
                  /\ p \in FileOf(p).temp.open
  BY <1>1, <1>2, <1>5 DEF IInv, Alone, FileOf, Through
<1>10. Alone'
  <2> SUFFICES ASSUME ~crowded PROVE Alone'
    BY <1>1 DEF Alone
  <2>1. \A g \in Files : \A q \in disk[g].temp.open : q \in Procs /\ q = p /\ g = f
    BY <1>1 DEF IInv, TypeOK, Texts, Alone, At, Updating
  <2>2. \A q \in Procs : q # p => azork'[q] = azork[q] /\ ~Updating(q)
    BY <1>1, <1>4, Others DEF Kept
  <2>3. \A q \in Procs : ~azork'[q].replaced
    BY <1>3, <1>4, <2>2 DEF IInv, Alone
  <2>4. \A g \in Files : disk'[g].name.open = {} /\ disk'[g].name.holds # Blank
    BY <1>9 DEF IInv, Alone
  <2>5. disk'[f].temp.open = disk[f].temp.open \ {p} /\ disk'[f].temp.holds = azork[p].value
    BY <1>5, <1>9 DEF FileOf, Through
  <2>6. \A g \in Files : disk'[g].temp.open = {}
    BY <1>5, <2>1, <2>5
  <2>7. \A q \in Procs : ~At(q, "write")' /\ (Updating(q)' => q = p)
    BY <1>3, <1>4, <2>2 DEF At, Updating
  <2>8. \A q \in Procs : At(q, "rename")' => FileOf(q)'.temp.holds = azork'[q].value
    BY <1>3, <1>4, <2>2, <2>5 DEF At, Updating, FileOf
  <2> QED
    BY <2>3, <2>4, <2>6, <2>7, <2>8 DEF Alone
<1>11. Recorded'
  <2>1. ~crowded /\ ~failed => RecordedOf(p)
    BY DEF IInv, Recorded
  <2>2. ~crowded /\ ~failed => RecordedOf(p)'
    BY <1>1, <1>2, <1>3, <1>4, <2>1 DEF RecordedOf, At, Writing, Checking
  <2>3. ~crowded /\ ~failed /\ asked > 0 => asked <= LastCheck
    BY DEF IInv, Recorded
  <2> QED
    BY <1>1, <1>3, <1>4, <1>9, <2>2, <2>3, RecordedKept
<1> QED
  BY <1>6, <1>8, <1>10, <1>11 DEF IInv

\* Where a process is that has written its file, or given up.
LEMMA AfterWriting ==
  ASSUME IInv, NEW p \in Procs, Writing(p), AfterWrite(p), UNCHANGED <<now, exe, asked>>
  PROVE  /\ azork' \in [Procs -> Processes] /\ Kept(p) /\ SoundOf(p)'
         /\ azork'[p].pc \in {"off", "download", "resolve"} /\ azork'[p].file = Check
         /\ azork'[p].replaced => azork[p].replaced
         /\ azork'[p].pc = "resolve" => /\ azork'[p].value = azork[p].value
                                        /\ ~azork[p].command /\ azork[p].file = Check
         /\ azork[p].file = Stamp => azork'[p].pc = "off"
<1> USE DEF Files, Check, Stamp
<1>1. azork[p] \in Processes /\ SoundOf(p) /\ now \in Nat
  BY DEF IInv, Sound, TypeOK
<1>2. CASE azork[p].file = Stamp
  <2>1. Off \in Processes /\ Off.pc = "off" /\ Off.file = Check /\ Off.replaced = FALSE
    BY DEF Off, Processes, Steps, Blank
  <2>2. Become(p, Off)
    BY <1>2 DEF AfterWrite, Exit
  <2> HIDE DEF Off
  <2>3. azork' \in [Procs -> Processes] /\ azork'[p] = Off /\ Kept(p)
    BY <2>1, <2>2, Becomes DEF IInv
  <2> QED
    BY <1>2, <2>1, <2>3 DEF SoundOf, At, Updating, Writing, Checking, Committed
<1>3. CASE azork[p].file = Check /\ azork[p].command
  <2> DEFINE x == [azork[p] EXCEPT !.pc = "download", !.value = Blank]
  <2>1. /\ x \in Processes
        /\ x.pc = "download" /\ x.file = Check /\ x.resolved = azork[p].resolved
        /\ x.command = TRUE /\ x.replaced = azork[p].replaced
        /\ x.running = azork[p].running
    BY <1>1, <1>3 DEF Processes, Steps, Blank
  <2>2. Become(p, x)
    BY <1>3 DEF AfterWrite
  <2> HIDE DEF x
  <2>3. azork' \in [Procs -> Processes] /\ azork'[p] = x /\ Kept(p)
    BY <2>1, <2>2, Becomes DEF IInv
  <2>4. SoundOf(p)'
    BY <1>1, <1>3, <2>1, <2>3 DEF SoundOf, At, Updating, Writing, Checking, Committed
  <2> QED
    BY <1>3, <2>1, <2>3, <2>4
<1>4. CASE azork[p].file = Check /\ ~azork[p].command
  <2> DEFINE x == [azork[p] EXCEPT !.pc = "resolve"]
  <2>1. /\ x \in Processes
        /\ x.pc = "resolve" /\ x.file = Check /\ x.resolved = azork[p].resolved
        /\ x.command = FALSE /\ x.replaced = azork[p].replaced
        /\ x.running = azork[p].running /\ x.value = azork[p].value
    BY <1>1, <1>4 DEF Processes, Steps
  <2>2. Become(p, x)
    BY <1>4 DEF AfterWrite, Goto
  <2> HIDE DEF x
  <2>3. azork' \in [Procs -> Processes] /\ azork'[p] = x /\ Kept(p)
    BY <2>1, <2>2, Becomes DEF IInv
  <2>4. SoundOf(p)'
    BY <1>1, <1>4, <2>1, <2>3 DEF SoundOf, At, Updating, Writing, Checking, Committed
  <2> QED
    BY <1>4, <2>1, <2>3, <2>4
<1> QED
  BY <1>1, <1>2, <1>3, <1>4 DEF Processes

LEMMA RenameInv ==
  ASSUME IInv, NEW p \in Procs, Rename(p)
  PROVE  IInv'
<1> USE DEF Files, Check, Stamp
<1> DEFINE f == azork[p].file
<1>1. /\ At(p, "rename") /\ Updating(p) /\ Writing(p) /\ AfterWrite(p)
      /\ UNCHANGED <<now, exe, crowded, failed, asked>>
      /\ disk' = [disk EXCEPT ![f] = [name |-> disk[f].temp, temp |-> Absent]]
  BY DEF Rename, OnDisk, Updating, Writing, At, history, FileOf
<1>2. azork[p] \in Processes /\ SoundOf(p) /\ f \in Files
      /\ disk \in [Files -> [name : Texts, temp : Texts]]
  BY DEF IInv, Sound, TypeOK, Processes
<1>3. /\ azork' \in [Procs -> Processes] /\ Kept(p) /\ SoundOf(p)'
      /\ azork'[p].pc \in {"off", "download", "resolve"} /\ azork'[p].file = Check
      /\ azork'[p].replaced => azork[p].replaced
      /\ azork'[p].pc = "resolve" => /\ azork'[p].value = azork[p].value
                                     /\ ~azork[p].command /\ f = Check
      /\ f = Stamp => azork'[p].pc = "off"
  BY <1>1, AfterWriting
<1>4. /\ disk' \in [Files -> [name : Texts, temp : Texts]]
      /\ \A g \in Files : g # f => disk'[g] = disk[g]
      /\ disk'[f].name = disk[f].temp /\ disk'[f].temp.open = {}
  <2>1. Absent \in Texts /\ Absent.open = {}
    BY DEF Texts, Absent
  <2> QED
    BY <1>1, <1>2, <2>1
<1> HIDE DEF Files
<1>5. TypeOK'
  BY <1>1, <1>3, <1>4 DEF IInv, TypeOK
<1>6. Sound'
  BY <1>1, <1>3, <1>5, SoundKept DEF IInv, Sound, TypeOK
<1>7. ASSUME ~crowded, NEW q \in Procs
      PROVE  /\ q # p => ~Writing(q)' /\ ~Checking(q)'
             /\ azork'[q].file = Check /\ (Updating(q)' => q = p) /\ ~azork'[q].replaced
  <2>1. CASE q = p
    BY <1>3, <1>7, <2>1 DEF IInv, Alone
  <2>2. CASE q # p
    <3>1. azork'[q] = azork[q] /\ ~Updating(q) /\ ~Writing(q) /\ azork[q].file = Check
      BY <1>1, <1>3, <1>7, <2>2, Others DEF Kept
    <3> QED
      BY <1>7, <2>2, <3>1 DEF IInv, Alone, Updating, Writing, Checking, At
  <2> QED
    BY <2>1, <2>2
<1>8. Alone'
  <2> SUFFICES ASSUME ~crowded PROVE Alone'
    BY <1>1 DEF Alone
  <2>1. \A g \in Files : disk[g].name.open = {} /\ disk[g].temp.open = {}
    BY <1>1, AllClosed DEF IInv, At
  <2>2. \A q \in Procs : ~At(q, "write")' /\ ~At(q, "rename")'
    BY <1>3, <1>7 DEF At, Updating
  <2>3. disk[f].temp.holds = azork[p].value /\ azork[p].value # Blank
    BY <1>1, <1>2 DEF IInv, Alone, SoundOf, FileOf
  <2>4. \A g \in Files : disk'[g].name.open = {} /\ disk'[g].name.holds # Blank
                         /\ disk'[g].temp.open = {}
    BY <1>4, <2>1, <2>3 DEF IInv, Alone
  <2>5. \A q, r \in Procs : Updating(q)' /\ Updating(r)' => q = r
    BY <1>7
  <2>6. \A q \in Procs : ~azork'[q].replaced
    BY <1>7
  <2> QED
    BY <2>2, <2>4, <2>5, <2>6 DEF Alone
<1>9. Recorded'
  <2> SUFFICES ASSUME ~crowded, ~failed PROVE Recorded'
    BY <1>1 DEF Recorded
  <2>1. disk'[f].name.holds = azork[p].value /\ RecordedOf(p)
    BY <1>1, <1>4 DEF IInv, Alone, Recorded, FileOf
  <2>2. asked > 0 => asked <= LastCheck'
    <3>1. CASE f = Check
      BY <1>1, <2>1, <3>1 DEF LastCheck, RecordedOf
    <3>2. CASE f # Check
      BY <1>4, <3>2 DEF IInv, Recorded, LastCheck, Files
    <3> QED
      BY <3>1, <3>2
  <2>3. ASSUME NEW q \in Procs PROVE RecordedOf(q)'
    <3>1. CASE q = p
      BY <1>1, <1>3, <2>1, <3>1 DEF RecordedOf, Writing, Checking, At, LastCheck
    <3>2. CASE q # p
      BY <1>1, <1>7, <3>2 DEF RecordedOf, Updating, Writing, At
    <3> QED
      BY <3>1, <3>2
  <2>4. disk'[Stamp].name.holds # -1 => disk'[Stamp].name.holds = exe
    <3>1. CASE f = Stamp
      BY <2>1, <3>1 DEF RecordedOf
    <3>2. CASE f # Stamp
      <4>1. \A q \in Procs : azork[q].file = Check
        BY <1>1, <1>2, <3>2, Others DEF Files
      <4> QED
        BY <1>4, <3>2, <4>1 DEF IInv, Recorded, Files
    <3> QED
      BY <3>1, <3>2
  <2> QED
    BY <1>1, <2>2, <2>3, <2>4 DEF Recorded
<1> QED
  BY <1>5, <1>6, <1>8, <1>9 DEF IInv

\* What becomes of the files when p goes on without having written, or ends.
LEMMA Abandoned ==
  ASSUME IInv, NEW p \in Procs,
         \/ disk' = ClosedAll(p)
         \/ At(p, "rename") /\ disk' = [disk EXCEPT ![".installed-version"].temp = Absent]
  PROVE  /\ disk' \in [Files -> [name : Texts, temp : Texts]]
         /\ \A f \in Files : /\ disk'[f].name.holds = disk[f].name.holds
                             /\ disk'[f].name.open \subseteq disk[f].name.open
                             /\ disk'[f].temp.open \subseteq disk[f].temp.open
                             /\ p \in disk'[f].temp.open => At(p, "rename")
         /\ disk' = ClosedAll(p) =>
              \A f \in Files : /\ disk'[f].temp.holds = disk[f].temp.holds
                              /\ disk[f].temp.open \ {p} \subseteq disk'[f].temp.open
<1>1. disk \in [Files -> [name : Texts, temp : Texts]]
  BY DEF IInv, TypeOK
<1>2. CASE disk' = ClosedAll(p)
  <2>1. \A t \in Texts : /\ Closed(p, t) \in Texts
                         /\ Closed(p, t).holds = t.holds /\ Closed(p, t).open = t.open \ {p}
    BY DEF Closed, Texts
  <2>2. disk' = [f \in Files |-> [name |-> Closed(p, disk[f].name), temp |-> Closed(p, disk[f].temp)]]
    BY <1>2 DEF ClosedAll
  <2> QED
    BY <1>1, <2>1, <2>2
<1>3. CASE /\ disk' # ClosedAll(p) /\ At(p, "rename")
           /\ disk' = [disk EXCEPT ![".installed-version"].temp = Absent]
  <2>1. Absent \in Texts /\ Absent.open = {}
    BY DEF Absent, Texts
  <2>2. \A f \in Files : /\ disk'[f].name = disk[f].name
                         /\ disk'[f].temp \in {disk[f].temp, Absent}
    BY <1>1, <1>3
  <2>3. disk' \in [Files -> [name : Texts, temp : Texts]]
    BY <1>1, <1>3, <2>1
  <2> QED
    BY <1>3, <2>1, <2>2, <2>3
<1> QED
  BY <1>2, <1>3

\* ... which leaves alone who is alone, if p is no longer writing.
LEMMA AbandonedAlone ==
  ASSUME IInv, NEW p \in Procs, Kept(p), UNCHANGED crowded,
         \/ disk' = ClosedAll(p)
         \/ At(p, "rename") /\ disk' = [disk EXCEPT ![".installed-version"].temp = Absent],
         azork'[p].replaced => azork[p].replaced, Updating(p)' => Updating(p),
         azork'[p].pc \notin {"write", "rename"}
  PROVE  Alone'
<1> SUFFICES ASSUME ~crowded PROVE Alone'
  BY DEF Alone
<1>1. ASSUME NEW q \in Procs, q # p PROVE azork'[q] = azork[q]
  BY <1>1 DEF Kept
<1>2. /\ \A q, r \in Procs : Updating(q)' /\ Updating(r)' => q = r
      /\ \A q \in Procs : ~azork'[q].replaced
      /\ \A f \in Files : disk'[f].name.open = {} /\ disk'[f].name.holds # Blank
  <2>1. \A q \in Procs : (Updating(q)' => Updating(q)) /\ ~azork'[q].replaced
    BY <1>1 DEF IInv, Alone, Updating
  <2> QED
    BY <2>1, Abandoned DEF IInv, Alone
<1>3. ASSUME NEW f \in Files, NEW q \in disk'[f].temp.open
      PROVE  At(q, "write")' /\ azork'[q].file = f
  <2>1. q \in Procs /\ At(q, "write") /\ azork[q].file = f
    BY Abandoned DEF IInv, TypeOK, Texts, Alone
  <2>2. q # p
    BY <2>1, Abandoned DEF At
  <2> QED
    BY <1>1, <2>1, <2>2 DEF At
<1>4. ASSUME NEW q \in Procs, azork'[q].pc \in {"write", "rename"}
      PROVE  /\ At(q, "write")' => q \in FileOf(q)'.temp.open
             /\ At(q, "rename")' => FileOf(q)'.temp.holds = azork'[q].value
  <2>1. q # p /\ azork'[q] = azork[q] /\ azork[q].file \in Files
    BY <1>1, <1>4 DEF IInv, TypeOK, Processes
  <2>2. ~Updating(p) /\ ~At(p, "rename")
    BY <1>4, <2>1, Others DEF Updating, At
  <2>3. disk' = ClosedAll(p)
    BY <2>2
  <2> QED
    BY <1>4, <2>1, <2>3, Abandoned DEF IInv, Alone, At, FileOf
<1> QED
  BY <1>2, <1>3, <1>4 DEF Alone, At

LEMMA WriteFailsInv ==
  ASSUME IInv, NEW p \in Procs, WriteFails(p)
  PROVE  IInv'
<1>1. /\ Updating(p) /\ Writing(p) /\ AfterWrite(p) /\ failed'
      /\ UNCHANGED <<now, exe, crowded, asked>> /\ failed' \in BOOLEAN
      /\ \/ disk' = ClosedAll(p)
         \/ At(p, "rename") /\ disk' = [disk EXCEPT ![".installed-version"].temp = Absent]
  BY DEF WriteFails, Updating, Writing, At
<1>2. /\ azork' \in [Procs -> Processes] /\ Kept(p) /\ SoundOf(p)'
      /\ azork'[p].pc \in {"off", "download", "resolve"}
      /\ azork'[p].replaced => azork[p].replaced
  BY <1>1, AfterWriting
<1>3. TypeOK'
  BY <1>1, <1>2, Abandoned DEF IInv, TypeOK
<1>4. Sound'
  BY <1>1, <1>2, <1>3, SoundKept DEF IInv, Sound, TypeOK
<1>5. Alone'
  BY <1>1, <1>2, AbandonedAlone
<1>6. Recorded'
  BY <1>1 DEF Recorded
<1> QED
  BY <1>3, <1>4, <1>5, <1>6 DEF IInv

LEMMA EndInv ==
  ASSUME IInv, NEW p \in Procs, End(p)
  PROVE  IInv'
<1> USE DEF Files, Check, Stamp
<1>1. /\ Become(p, Off) /\ disk' = ClosedAll(p) /\ ~At(p, "off")
      /\ UNCHANGED <<now, exe, crowded, asked>>
      /\ failed' = (failed \/ Writing(p)) /\ failed' \in BOOLEAN
  BY DEF End, Exit, Writing
<1>2. Off \in Processes /\ Off.pc = "off" /\ Off.file = Check /\ Off.replaced = FALSE
  BY DEF Off, Processes, Steps, Blank
<1> HIDE DEF Off
<1>3. azork' \in [Procs -> Processes] /\ azork'[p] = Off /\ Kept(p)
  BY <1>1, <1>2, Becomes DEF IInv
<1>4. TypeOK'
  BY <1>1, <1>3, Abandoned DEF IInv, TypeOK
<1>5. SoundOf(p)'
  BY <1>2, <1>3 DEF SoundOf, At, Updating, Writing, Checking, Committed
<1>6. Sound'
  BY <1>1, <1>3, <1>4, <1>5, SoundKept DEF IInv, Sound, TypeOK
<1>7. Alone'
  BY <1>1, <1>2, <1>3, AbandonedAlone DEF Updating
<1>8. Recorded'
  <2>1. CASE Writing(p)
    BY <1>1, <2>1 DEF Recorded
  <2>2. CASE ~Writing(p)
    <3>1. UNCHANGED failed
      BY <1>1, <2>2 DEF IInv, TypeOK
    <3>2. azork[p].file = Check
      BY <2>2 DEF IInv, Sound, SoundOf, TypeOK, Processes
    <3>3. RecordedOf(p)'
      BY <1>2, <1>3 DEF RecordedOf, At, Writing, Checking
    <3>4. ~crowded /\ ~failed /\ asked > 0 => asked <= LastCheck
      BY DEF IInv, Recorded
    <3>5. \A f \in Files : disk'[f].name.holds = disk[f].name.holds
      BY <1>1, Abandoned
    <3>6. asked' > 0 /\ ~crowded /\ ~failed => asked' <= LastCheck
      BY <1>1, <3>4
    <3> QED
      BY <1>1, <1>3, <3>1, <3>2, <3>3, <3>5, <3>6, RecordedKept
  <2> QED
    BY <2>1, <2>2
<1> QED
  BY <1>4, <1>6, <1>7, <1>8 DEF IInv

LEMMA TickInv ==
  ASSUME IInv, Tick
  PROVE  IInv'
<1>1. now' = now + 1 /\ UNCHANGED <<exe, disk, azork, asked, crowded, failed>> /\ now \in Nat \ {0}
  BY DEF Tick, history, IInv, TypeOK
<1>2. TypeOK'
  BY <1>1 DEF IInv, TypeOK
<1>3. Sound'
  <2>1. asked \in Nat /\ \A p \in Procs : SoundOf(p) /\ azork[p] \in Processes
    BY DEF IInv, Sound, TypeOK
  <2>2. ASSUME NEW p \in Procs PROVE SoundOf(p)'
    <3>1. Checking(p) => azork[p].value \in 1..now'
      BY <1>1, <2>1 DEF SoundOf, Processes
    <3> QED
      BY <1>1, <2>1, <3>1 DEF SoundOf, At, Updating, Writing, Checking, Committed
  <2> QED
    BY <1>1, <2>1, <2>2 DEF IInv, Sound
<1>4. Alone'
  BY <1>1 DEF IInv, Alone, At, Updating, FileOf
<1>5. Recorded'
  BY <1>1 DEF IInv, Recorded, RecordedOf, At, Writing, Checking, LastCheck
<1> QED
  BY <1>2, <1>3, <1>4, <1>5 DEF IInv

LEMMA NextInv == IInv /\ [Next]_vars => IInv'
<1> SUFFICES ASSUME IInv, [Next]_vars PROVE IInv'
  OBVIOUS
<1>1. CASE UNCHANGED vars
  BY <1>1 DEF vars, history, IInv, TypeOK, Sound, SoundOf, Alone, Recorded, RecordedOf,
             At, Updating, Writing, Checking, Committed, FileOf, LastCheck
<1>2. ASSUME NEW p \in Procs,
             \/ Launch(p) \/ CheckCooldown(p) \/ Resolve(p) \/ Confirm(p)
             \/ Download(p) \/ Locate(p) \/ Swap(p) \/ Misplace(p)
             \/ Open(p) \/ Write(p) \/ Rename(p) \/ WriteFails(p)
             \/ End(p)
      PROVE  IInv'
  BY <1>2, LaunchInv, CheckCooldownInv, ResolveInv, ConfirmInv, DownloadInv, LocateInv, SwapInv,
     MisplaceInv, OpenInv, WriteInv, RenameInv, WriteFailsInv, EndInv
<1> QED
  BY <1>1, <1>2, TickInv DEF Next

LEMMA Invariance == Spec => []IInv
BY InitInv, NextInv, PTL DEF Spec

-----------------------------------------------------------------------------

\* Every value is of its type.
THEOREM UpdateTypeOK == Spec => []TypeOK
<1>1. IInv => TypeOK
  BY DEF IInv
<1> QED
  BY <1>1, Invariance, PTL

\* Whatever is killed or fails at whatever moment, the install path holds an
\* executable that was verified (install_binary_atomic).
THEOREM InstalledCanRun == Spec => []ExeSound
<1>1. IInv => ExeSound
  BY DEF IInv, Sound, ExeSound
<1> QED
  BY <1>1, Invariance, PTL

\* The time of the last check and the stamp are whole at every moment, unless two
\* processes were in the updater at once (write_last_check, write_version_stamp).
THEOREM ReadersFindWholeValues == Spec => []FilesWhole
<1>1. IInv => FilesWhole
  BY DEF IInv, Alone, FilesWhole
<1> QED
  BY <1>1, Invariance, PTL

\* When the updaters that ran did so one by one and wrote what they meant to, the
\* stamp names the installed version (download_and_replace, post_install).
THEOREM StampNamesTheInstalled == Spec => []StampTrue
<1>1. ASSUME IInv PROVE StampTrue
  <2> SUFFICES ASSUME ~crowded, ~failed, \A p \in Procs : ~Updating(p),
                      disk[".installed-version"].name.holds # -1
               PROVE  disk[".installed-version"].name.holds = exe
    BY DEF StampTrue
  <2>1. \A p \in Procs : azork[p].file = Check
    BY <1>1 DEF IInv, Sound, SoundOf, TypeOK, Processes, Files, Check, Stamp, Updating, Writing
  <2> QED
    BY <1>1, <2>1 DEF IInv, Recorded, Stamp
<1> QED
  BY <1>1, Invariance, PTL

\* A version is replaced by an older one only by a process that was overtaken by
\* another between its look at the installed version and its rename (Swap).
THEOREM NoRollbackAlone == Spec => RollbackOnlyWhenOvertaken
<1>1. ASSUME IInv, [Next]_vars
      PROVE  [exe' < exe => \E p \in Procs : At(p, "swap") /\ azork[p].replaced]_vars
  <2> SUFFICES ASSUME exe' < exe PROVE \E p \in Procs : At(p, "swap") /\ azork[p].replaced
    OBVIOUS
  <2>1. exe \in Nat
    BY <1>1 DEF IInv, TypeOK
  <2>2. PICK p \in Procs : Swap(p) /\ exe' # exe
    <3>1. ASSUME NEW p \in Procs,
                 \/ Launch(p) \/ CheckCooldown(p) \/ Resolve(p) \/ Confirm(p)
                 \/ Download(p) \/ Locate(p) \/ Misplace(p)
          PROVE  exe' = exe
      BY <3>1 DEF Launch, CheckCooldown, Resolve, Confirm, Download, Locate, Misplace
    <3>2. ASSUME NEW p \in Procs, Open(p) \/ Write(p) \/ Rename(p) \/ WriteFails(p) \/ End(p)
          PROVE  exe' = exe
      BY <3>2 DEF Open, Write, Rename, WriteFails, End
    <3>3. Tick \/ UNCHANGED vars => exe' = exe
      BY DEF Tick, vars
    <3>4. exe' # exe
      BY <2>1
    <3> QED
      BY <1>1, <3>1, <3>2, <3>3, <3>4 DEF Next
  <2>3. At(p, "swap") /\ exe' = azork[p].resolved /\ SoundOf(p) /\ azork[p] \in Processes
    BY <1>1, <2>2 DEF Swap, IInv, Sound, TypeOK
  <2>4. azork[p].file = Check
    BY <2>3 DEF SoundOf, Processes, Files, Check, Stamp, Writing, At
  <2>5. exe' > azork[p].running /\ (~azork[p].replaced => azork[p].running = exe)
    BY <2>3, <2>4 DEF SoundOf, Committed, Updating, At
  <2> QED
    BY <2>1, <2>3, <2>5 DEF Processes
<1> QED
  BY <1>1, Invariance, PTL DEF Spec, RollbackOnlyWhenOvertaken

\* Two startup checks of the network are a cooldown apart, unless two processes
\* checked at once or the time was not written (should_check, write_last_check).
THEOREM ChecksKeepTheCooldown == Spec => OncePerCooldown
<1>1. ASSUME IInv, [Next]_vars
      PROVE  [\A p \in Procs : Resolve(p) /\ ~azork[p].command /\ asked > 0 =>
                crowded \/ failed \/ asked' - asked >= Cooldown]_vars
  <2> SUFFICES ASSUME NEW p \in Procs, Resolve(p), ~azork[p].command, asked > 0, ~crowded, ~failed
               PROVE  asked' - asked >= Cooldown
    OBVIOUS
  <2>1. At(p, "resolve") /\ asked' = azork[p].value
    BY DEF Resolve
  <2>2. azork[p].file = Check
    BY <1>1, <2>1 DEF IInv, Sound, SoundOf, TypeOK, Processes, Files, Check, Stamp, Writing, At
  <2> QED
    BY <1>1, <2>1, <2>2 DEF IInv, Recorded, RecordedOf, Checking
<1> QED
  BY <1>1, Invariance, PTL DEF Spec, OncePerCooldown
=============================================================================
