------------------------------- MODULE Update -------------------------------
(***************************************************************************)
(* Self-update: the startup check of src/src/update/check.rs and the       *)
(* command `azork update` of src/src/update/mod.rs, run by several azork   *)
(* processes of one installation, each killed at any moment: the 24 hours' *)
(* cooldown, the query for the newest release, the verified download, the  *)
(* swap of the executable (install.rs) and its stamp (post_install.rs).    *)
(*                                                                         *)
(* The stamp and the time of the last check are written alike: to a        *)
(* temporary file of a fixed name, which is then renamed.  A file is what  *)
(* it holds and who has it open, so that a write through a handle reaches  *)
(* the file wherever it has been renamed to.  Versions and times are       *)
(* numbers from 1 on.                                                      *)
(*                                                                         *)
(* Operators named Faulty... are no part of the model, see AimdLimiter.    *)
(***************************************************************************)
EXTENDS Integers, FiniteSets

CONSTANTS
  Procs,        (* the azork processes                                     *)
  Cooldown,     (* UPDATE_CHECK_COOLDOWN_SECS                              *)
  MaxVersion,   (* bound on the versions published, for TLC                *)
  MaxNow        (* bound on the time, for TLC                              *)

ASSUME UpdateAssumption ==
  /\ Cooldown \in Nat \ {0}
  /\ MaxVersion \in Nat \ {0} /\ MaxNow \in Nat \ {0}

VARIABLES
  now,
  exe,          (* the version at the install path, 0 if it cannot run     *)
  disk,         (* per small file, the file of that name and its temporary *)
  azork,        (* what each process does, see Off                         *)
  \* What a reader of the history would know:
  asked,        (* the recorded time of the last startup check, 0 if none  *)
  crowded,      (* two processes were in the updater at once               *)
  failed        (* a small file was not written, or its writer was killed  *)

history == <<asked, crowded, failed>>
vars    == <<now, exe, disk, azork, history>>

Files  == {"last_update_check", ".installed-version"}
Blank  == 0
Absent == [holds |-> -1, open |-> {}]

\* What the network brings: a version (the archive, the digest or the tag of it),
\* something that is none, or nothing.
Versions == 1..MaxVersion
Garbled  == 0
Failed   == -1

\* A process: where it is, whether it was started as `azork update`, its
\* CURRENT_VERSION, whether its executable was renamed over since it was
\* launched, ResolvedUpdate::version, and the file it writes with what.
Off == [pc |-> "off", command |-> FALSE, running |-> 0, replaced |-> FALSE,
        resolved |-> 0, file |-> "last_update_check", value |-> Blank]

Init ==
  /\ now = 1 /\ exe = 1
  /\ disk = [f \in Files |-> [name |-> Absent, temp |-> Absent]]
  /\ azork = [p \in Procs |-> Off]
  /\ asked = 0 /\ crowded = FALSE /\ failed = FALSE

At(p, l)    == azork[p].pc = l
Updating(p) == azork[p].pc \notin {"off", "game"}
Become(p, process) == azork' = [azork EXCEPT ![p] = process]
Goto(p, l)  == Become(p, [azork[p] EXCEPT !.pc = l])

\* The updater is left for the game, or for good.
Play(p) == Become(p, [Off EXCEPT !.pc = "game", !.running = azork[p].running])
Exit(p) == Become(p, Off)

\* ... after a check or an update that installed nothing.
Leave(p) == IF azork[p].command THEN Exit(p) ELSE Play(p)

-----------------------------------------------------------------------------
(* Launch *)

\* The game skips the check without a terminal, under CI and so on.
Launch(p) ==
  /\ At(p, "off") /\ exe # 0
  /\ \E l \in {"game", "cooldown", "resolve"} :
       Become(p, [Off EXCEPT !.pc = l, !.command = (l = "resolve"), !.running = exe])
  /\ crowded' = (crowded \/ \E q \in Procs \ {p} : Updating(q))
  /\ UNCHANGED <<now, exe, disk, asked, failed>>

WriteNext(p, process, f, value) ==
  Become(p, [process EXCEPT !.pc = "open", !.file = f, !.value = value])

\* read_last_check and should_check.  A missing or blank file is no check; a
\* time ahead of the clock is a recent one.
LastCheck == disk["last_update_check"].name.holds
CoolingDown == LastCheck > Blank /\ now - LastCheck < Cooldown

FaultyCheckCooldown(p) ==   \* leaves the time to be recorded by an update
  /\ At(p, "cooldown")
  /\ IF CoolingDown THEN Play(p)
                    ELSE Become(p, [azork[p] EXCEPT !.pc = "resolve", !.value = now])
  /\ UNCHANGED <<now, exe, disk, history>>

\* The check is recorded before it is made, so that its failure does not repeat
\* it at every launch.
CheckCooldown(p) ==
  /\ At(p, "cooldown")
  /\ IF CoolingDown THEN Play(p) ELSE WriteNext(p, azork[p], "last_update_check", now)
  /\ UNCHANGED <<now, exe, disk, history>>

FaultyNewer(current, candidate) == candidate # current

Newer(current, candidate) == candidate > current     \* is_newer

\* What a download of `content` may bring: it, something else, or an error.
HttpGet(content) == {content, Garbled, Failed}

\* Releases are published and withdrawn at any time; a draft, a prerelease or one
\* without an archive for this platform is as good as none.
FetchLatestRelease == UNION {HttpGet(version) : version \in Versions}

\* resolve_latest_update; `azork update` records the check now.
Resolve(p) ==
  /\ At(p, "resolve")
  /\ asked' = IF azork[p].command THEN asked ELSE azork[p].value
  /\ \E latest \in FetchLatestRelease :
       \/ /\ latest \in Versions /\ Newer(azork[p].running, latest)
          /\ LET found == [azork[p] EXCEPT !.resolved = latest, !.value = Blank]
             IN  IF found.command THEN WriteNext(p, found, "last_update_check", now)
                                  ELSE Become(p, [found EXCEPT !.pc = "confirm"])
       \/ /\ latest \notin Versions \/ ~Newer(azork[p].running, latest)
          /\ Leave(p)
  /\ UNCHANGED <<now, exe, disk, crowded, failed>>

Confirm(p) ==
  /\ At(p, "confirm")
  /\ Goto(p, "download") \/ Play(p)
  /\ UNCHANGED <<now, exe, disk, history>>

-----------------------------------------------------------------------------
(* download_and_replace *)

FaultyVerifySha256(bytes, digest) == bytes # Failed    \* a missing digest is as good

\* A digest that cannot be had or parsed agrees with nothing.
VerifySha256(bytes, digest) == bytes # Failed /\ digest \in Versions /\ bytes = digest

\* The archive may lack the binary or hold what is refused, and the scratch
\* directory may be full.
ExtractBinary(bytes) == {bytes, Failed}

\* Archive and checksum are fetched one after the other, each as it is published
\* then; nothing is unpacked that does not agree.
Download(p) ==
  /\ At(p, "download")
  /\ \E archive, digest \in HttpGet(azork[p].resolved) :
       \/ /\ VerifySha256(archive, digest)
          /\ \E binary \in ExtractBinary(archive) :
               IF binary = Failed THEN Leave(p)
               ELSE Become(p, [azork[p] EXCEPT !.pc = "locate", !.resolved = binary])
       \/ ~VerifySha256(archive, digest) /\ Leave(p)
  /\ UNCHANGED <<now, exe, disk, history>>

\* current_exe() names the file this process runs.  After another process
\* renamed over it, that is on Linux a name that does not exist ("azork
\* (deleted)"), and elsewhere still the install path.
Locate(p) ==
  /\ At(p, "locate")
  /\ \/ Goto(p, "swap")
     \/ azork[p].replaced /\ Goto(p, "misplace")
  /\ UNCHANGED <<now, exe, disk, history>>

FaultyStamped(p) == azork[p].running

Stamped(p) == azork[p].resolved

WriteStamp(p) == WriteNext(p, Off, ".installed-version", Stamped(p))

FaultySwap(p) ==            \* copies over the executable
  /\ At(p, "swap")
  /\ \/ exe' = azork[p].resolved /\ WriteStamp(p)
     \/ exe' = 0 /\ Exit(p)
  /\ UNCHANGED <<now, disk, history>>

\* install_binary_atomic: a copy under a name of its own, renamed over the
\* executable.  It may fail at either step, before the executable changes.
Swap(p) ==
  /\ At(p, "swap")
  /\ \/ /\ exe' = azork[p].resolved
        /\ azork' = [q \in Procs |->
             IF q = p
             THEN [Off EXCEPT !.pc = "open", !.file = ".installed-version", !.value = Stamped(p)]
             ELSE [azork[q] EXCEPT !.replaced = Updating(q)]]
     \/ Leave(p) /\ UNCHANGED exe
  /\ UNCHANGED <<now, disk, history>>

\* The same, into the file of the odd name: the update is reported a success.
Misplace(p) ==
  /\ At(p, "misplace")
  /\ WriteStamp(p) \/ Leave(p)
  /\ UNCHANGED <<now, exe, disk, history>>

-----------------------------------------------------------------------------
(* write_last_check and write_version_stamp *)

AfterWrite(p) ==
  \/ azork[p].file = ".installed-version" /\ Exit(p)
  \/ /\ azork[p].file = "last_update_check"
     /\ IF azork[p].command
        THEN Become(p, [azork[p] EXCEPT !.pc = "download", !.value = Blank])
        ELSE Goto(p, "resolve")

OnDisk(p, files) == disk' = [disk EXCEPT ![azork[p].file] = files]
FileOf(p) == disk[azork[p].file]

FaultyOpen(p) ==            \* truncates the file itself
  /\ At(p, "open")
  /\ OnDisk(p, [name |-> [holds |-> Blank, open |-> {p}], temp |-> [holds |-> Blank, open |-> {p}]])
  /\ Goto(p, "write")
  /\ UNCHANGED <<now, exe, history>>

\* fs::write opens the temporary file and truncates it, whoever's it is.
Open(p) ==
  /\ At(p, "open")
  /\ OnDisk(p, [FileOf(p) EXCEPT !.temp = [holds |-> Blank, open |-> @.open \cup {p}]])
  /\ Goto(p, "write")
  /\ UNCHANGED <<now, exe, history>>

\* Through its handle it writes the file it opened, which another process may
\* have renamed, or replaced, since.
Through(p, file) ==
  IF p \in file.open THEN [holds |-> azork[p].value, open |-> file.open \ {p}] ELSE file

Write(p) ==
  /\ At(p, "write")
  /\ OnDisk(p, [name |-> Through(p, FileOf(p).name), temp |-> Through(p, FileOf(p).temp)])
  /\ Goto(p, "rename")
  /\ UNCHANGED <<now, exe, history>>

Rename(p) ==
  /\ At(p, "rename")
  /\ FileOf(p).temp # Absent
  /\ OnDisk(p, [name |-> FileOf(p).temp, temp |-> Absent])
  /\ AfterWrite(p)
  /\ UNCHANGED <<now, exe, history>>

Closed(p, file) == [file EXCEPT !.open = @ \ {p}]
ClosedAll(p) == [f \in Files |-> [name |-> Closed(p, disk[f].name), temp |-> Closed(p, disk[f].temp)]]

\* Any of the three may fail (the rename does when another process was faster).
\* The updater goes on all the same; a temporary file that could not be renamed
\* is removed for the stamp and left for the time of the check.
WriteFails(p) ==
  /\ azork[p].pc \in {"open", "write", "rename"}
  /\ disk' = IF At(p, "rename") /\ azork[p].file = ".installed-version"
             THEN [disk EXCEPT ![".installed-version"].temp = Absent]
             ELSE ClosedAll(p)
  /\ AfterWrite(p)
  /\ failed' = TRUE
  /\ UNCHANGED <<now, exe, asked, crowded>>

-----------------------------------------------------------------------------
(* The rest of the world *)

\* The end of the game, or of the process at any moment.
End(p) ==
  /\ ~At(p, "off")
  /\ Exit(p)
  /\ disk' = ClosedAll(p)
  /\ failed' = (failed \/ azork[p].pc \in {"open", "write", "rename"})
  /\ UNCHANGED <<now, exe, asked, crowded>>

Tick ==
  /\ now < MaxNow
  /\ now' = now + 1
  /\ UNCHANGED <<exe, disk, azork, history>>

-----------------------------------------------------------------------------

Next ==
  \/ \E p \in Procs :
       \/ Launch(p) \/ CheckCooldown(p) \/ Resolve(p) \/ Confirm(p)
       \/ Download(p) \/ Locate(p) \/ Swap(p) \/ Misplace(p)
       \/ Open(p) \/ Write(p) \/ Rename(p) \/ WriteFails(p)
       \/ End(p)
  \/ Tick

Spec == Init /\ [][Next]_vars

-----------------------------------------------------------------------------
(* Properties *)

\* What is installed can run and was verified, whoever is killed when
\* (docs/UPDATING.md:270-272, 254-256).
ExeSound == exe # 0

\* An older version replaces a newer one only if another update got in between
\* this one's look at the installed version and its rename (mod.rs:20-22).
RollbackOnlyWhenOvertaken ==
  [][exe' < exe => \E p \in Procs : At(p, "swap") /\ azork[p].replaced]_vars

\* A reader of the stamp or of the time of the last check finds a whole value,
\* though writers are killed anywhere and leave their temporary file behind,
\* unless two processes ran the updater at once (mod.rs:296-297).
FilesWhole == crowded \/ \A f \in Files : disk[f].name.holds # Blank

\* Startup checks ask GitHub once in the cooldown, also if they fail, unless the
\* time could not be written or two processes checked at once.
OncePerCooldown ==
  [][\A p \in Procs : Resolve(p) /\ ~azork[p].command /\ asked > 0 =>
       crowded \/ failed \/ asked' - asked >= Cooldown]_vars

\* The stamp of the last install is the version that is installed, when nobody
\* is updating, no write failed and no two updates met.
StampTrue ==
  LET stamp == disk[".installed-version"].name.holds
  IN  ~crowded /\ ~failed /\ (\A p \in Procs : ~Updating(p)) /\ stamp # -1 => stamp = exe

\* "On the next run, AzZork compares the stamp against the running binary's
\* compiled version: [...] AzZork rewrites the stamp and continues"
\* (docs/UPDATING.md:176-182): in the game of the installed version, when nobody
\* is updating, the stamp does not name another version, whatever was killed
\* between the swap and the stamp before this launch.
StampHealed ==
  LET stamp == disk[".installed-version"].name.holds
  IN  \A p \in Procs : At(p, "game") /\ azork[p].running = exe =>
        (\E q \in Procs : Updating(q)) \/ stamp \notin Versions \ {exe}
=============================================================================
