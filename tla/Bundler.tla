------------------------------ MODULE Bundler -------------------------------
(***************************************************************************)
(* The bundle directory of one wallet type, and the calls that change it:  *)
(* crates/bundler/src/lib.rs (BundleManager::download and remove),         *)
(* download.rs (the asset is streamed to a temporary file, renamed and     *)
(* unpacked over what is installed) and storage.rs (the manifest).         *)
(*                                                                         *)
(* Both take &self and no lock, so calls of several tasks or processes may *)
(* overlap; all of them use the same temporary file, the same archive path *)
(* and the same directory.  A step is what happens between two awaits or   *)
(* file system calls that another call can come between.                   *)
(***************************************************************************)
EXTENDS Integers, Sequences, FiniteSets

CONSTANTS
    Tasks,        \* bound: calls of download or remove, one each
    Releases,     \* releases of the bundle
    Files,        \* names of the files bundles consist of
    Contents,     \* the files in the tarball of each release
    Shipped,      \* the binary its own manifest.json names, None without one
    Candidates,   \* the known binary names of the wallet, by preference
    Executables,  \* the files with an executable bit
    Faults,       \* faults this instance allows
    None          \* no file, no release

\* The faults: "network", the transfer fails; "extract", unpacking fails
\* half-way; "disk", a directory or the manifest cannot be written, or not
\* all of it removed; "unlink", the archive cannot be removed, an error that
\* is ignored; "drop", the future of a download is dropped; "kill", the
\* process of a call is killed.

\* A file that was being written when its writer failed, and the entry of the
\* tarball that unpacks to manifest.json.
Torn == "torn"
OwnManifest == "manifest.json"

ASSUME BundlerAssumption ==
    /\ Contents \in [Releases -> SUBSET Files]
    /\ Shipped \in [Releases -> Files \cup {None}]
    /\ Candidates \in Seq(Files) /\ Executables \subseteq Files
    /\ None \notin Tasks \cup Releases \cup Files
    /\ OwnManifest \notin Files

VARIABLES
    pc,         \* where each call is
    rel,        \* the release it downloads
    report,     \* the last progress it sent
    result,     \* what it returned, "gone" if it never will
    reading,    \* what the archive it opened turned out to be
    todo,       \* the entries it has yet to unpack
    found,      \* the binary it discovered
    tmp,        \* the calls that write the temporary file, {} if there is none
    archive,    \* the calls whose bytes are at the archive path
    stuck,      \* history: an archive could not be removed
    disk,       \* per file the release it is from, None or Torn
    manifest,   \* manifest.json, NoManifest if missing or not parsable
    touched,    \* history: the last call that changed disk or manifest
    raced       \* history: two calls were under way at once

taskVars    == <<pc, rel, report, result, reading, todo, found>>
installVars == <<disk, manifest, touched>>
archVars    == <<archive, stuck>>
vars == <<taskVars, tmp, archVars, installVars, raced>>

Unread == [release |-> None, sound |-> FALSE]
NoManifest == [version |-> None, binary |-> None]

Active(t) == pc[t] \notin {"idle", "done"}

Entries(r) ==
    Contents[r] \cup (IF Shipped[r] = None THEN {} ELSE {OwnManifest})

-----------------------------------------------------------------------------
(* What a reader sees: the daemon before it starts an instance.            *)

\* status and emulator_binary_path.
InstalledVersion == manifest.version
BinaryPath       == manifest.binary

Present == {f \in Files : disk[f] # None}

\* find_emulator_binary: the first known name that exists, else any
\* executable, else the name of the wallet, which is no file.
EmulatorBinaries ==
    LET known == {k \in DOMAIN Candidates : Candidates[k] \in Present}
    IN IF known # {}
       THEN {Candidates[k] : k \in {j \in known : \A l \in known : j <= l}}
       ELSE IF Present \cap Executables # {} THEN Present \cap Executables
       ELSE {None}

-----------------------------------------------------------------------------
(* How a call ends.                                                        *)

Move(t, to) == pc' = [pc EXCEPT ![t] = to]

\* Its locals are gone.
Forget(t) ==
    /\ reading' = [reading EXCEPT ![t] = Unread]
    /\ todo' = [todo EXCEPT ![t] = {}]
    /\ found' = [found EXCEPT ![t] = None]

End(t, res, rep) ==
    /\ Move(t, "done")
    /\ result' = [result EXCEPT ![t] = res]
    /\ report' = [report EXCEPT ![t] = rep]
    /\ Forget(t)

\* remove_file on the archive path, whoever wrote the file there; an error is
\* ignored.
UnlinkArchive ==
    \/ archive' = {} /\ UNCHANGED stuck
    \/ /\ "unlink" \in Faults
       /\ archive # {}
       /\ stuck' = TRUE
       /\ UNCHANGED archive

\* An error after the transfer began: Failed is sent and the archive removed.
Fail(t) ==
    /\ End(t, "err", "failed")
    /\ UnlinkArchive

-----------------------------------------------------------------------------
(* download                                                                *)

\* create_dir_all, then the request; the response is a success and the
\* temporary file is created or truncated.  A call still writing to it keeps
\* its handle on the same file.
Begin(t, r) ==
    /\ pc[t] = "idle"
    /\ Move(t, "fetch")
    /\ rel' = [rel EXCEPT ![t] = r]
    /\ report' = [report EXCEPT ![t] = "downloading"]
    /\ tmp' = {u \in tmp : pc[u] = "fetch"} \cup {t}
    /\ raced' = (raced \/ \E u \in Tasks : Active(u))
    /\ UNCHANGED <<result, reading, todo, found, archVars, installVars>>

\* create_dir_all fails: an error, and nothing is sent.
BeginFails(t) ==
    /\ "disk" \in Faults
    /\ pc[t] = "idle"
    /\ End(t, "err", "none")
    /\ UNCHANGED <<rel, tmp, archVars, installVars, raced>>

\* The stream ends and the temporary file, by then perhaps shared with other
\* calls, is renamed to the archive path; the unpacking is queued.
Fetched(t) ==
    /\ pc[t] = "fetch"
    /\ tmp # {}
    /\ Move(t, "queued")
    /\ archive' = tmp \cup {t}
    /\ tmp' = {}
    /\ UNCHANGED <<rel, report, result, reading, todo, found, stuck,
                   installVars, raced>>

\* The transfer fails, or another call has renamed or removed the file.  The
\* temporary file stays.
FetchFails(t) ==
    /\ pc[t] = "fetch"
    /\ "network" \in Faults \/ tmp = {}
    /\ Fail(t)
    /\ UNCHANGED <<rel, tmp, installVars, raced>>

\* The blocking thread opens the archive.  One that several calls wrote may
\* be unreadable from some point on.
OpenArchive(t) ==
    /\ pc[t] \in {"queued", "adrift"}
    /\ \E u \in archive :
          /\ reading' = [reading EXCEPT
                ![t] = [release |-> rel[u], sound |-> archive = {u}]]
          /\ todo' = [todo EXCEPT ![t] = Entries(rel[u])]
    /\ Move(t, IF pc[t] = "queued" THEN "extract" ELSE "detached")
    /\ UNCHANGED <<rel, report, result, found, tmp, archVars, installVars,
                   raced>>

OpenFails(t) ==
    /\ pc[t] = "queued"
    /\ archive = {}
    /\ Fail(t)
    /\ UNCHANGED <<rel, tmp, installVars, raced>>

\* manifest.json of the tarball, as the build scripts write it.
OwnManifestOf(r) == [version |-> r, binary |-> Shipped[r]]

\* One entry is unpacked over the installed file of that name.
Unpack(t) ==
    /\ pc[t] \in {"extract", "detached"}
    /\ \E e \in todo[t] :
          /\ todo' = [todo EXCEPT ![t] = @ \ {e}]
          /\ IF e = OwnManifest
             THEN /\ manifest' = OwnManifestOf(reading[t].release)
                  /\ UNCHANGED disk
             ELSE /\ disk' = [disk EXCEPT ![e] = reading[t].release]
                  /\ UNCHANGED manifest
    /\ touched' = t
    /\ UNCHANGED <<pc, rel, report, result, reading, found, tmp, archVars,
                   raced>>

\* Mutant: a manifest cut short is read with its fields missing.
TearManifest(t, e) ==
    /\ IF e = OwnManifest
       THEN manifest' = [version |-> Torn, binary |-> None] /\ UNCHANGED disk
       ELSE disk' = [disk EXCEPT ![e] = Torn] /\ UNCHANGED manifest
    /\ touched' = t

\* The writer of entry e stops in the middle of it.
TearEntry(t, e) ==
    /\ IF e = OwnManifest
       THEN manifest' = NoManifest /\ UNCHANGED disk
       ELSE disk' = [disk EXCEPT ![e] = Torn] /\ UNCHANGED manifest
    /\ touched' = t

\* Mutants: a failed extraction leaves the archive; it is not reported.
ExtractFailsKeeping(t) ==
    /\ pc[t] = "extract"
    /\ "extract" \in Faults \/ ~reading[t].sound
    /\ \E e \in todo[t] : TearEntry(t, e)
    /\ End(t, "err", "failed")
    /\ UNCHANGED <<rel, tmp, archVars, raced>>

ExtractFailsSilently(t) ==
    /\ pc[t] = "extract"
    /\ "extract" \in Faults \/ ~reading[t].sound
    /\ \E e \in todo[t] : TearEntry(t, e)
    /\ End(t, "err", report[t])
    /\ UnlinkArchive
    /\ UNCHANGED <<rel, tmp, raced>>

ExtractFails(t) ==
    /\ pc[t] = "extract"
    /\ "extract" \in Faults \/ ~reading[t].sound
    /\ \E e \in todo[t] : TearEntry(t, e)
    /\ Fail(t)
    /\ UNCHANGED <<rel, tmp, raced>>

\* Mutant: the search does not wait for the last entry.
DiscoverEarly(t) ==
    /\ pc[t] = "extract"
    /\ Cardinality(todo[t]) <= 1
    /\ \E b \in EmulatorBinaries : found' = [found EXCEPT ![t] = b]
    /\ todo' = [todo EXCEPT ![t] = {}]
    /\ UnlinkArchive
    /\ Move(t, "manifest")
    /\ UNCHANGED <<rel, report, result, reading, tmp, installVars, raced>>

\* Everything is unpacked: the archive is removed and the binary looked up.
Discover(t) ==
    /\ pc[t] = "extract"
    /\ todo[t] = {}
    /\ \E b \in EmulatorBinaries : found' = [found EXCEPT ![t] = b]
    /\ UnlinkArchive
    /\ Move(t, "manifest")
    /\ UNCHANGED <<rel, report, result, reading, todo, tmp, installVars,
                   raced>>

\* write_manifest: written aside and renamed; the directory is made again if
\* it is gone.  The version is that of the release asked for.
WriteManifest(t) ==
    /\ pc[t] = "manifest"
    /\ manifest' = [version |-> rel[t], binary |-> found[t]]
    /\ touched' = t
    /\ End(t, "ok", "installed")
    /\ UNCHANGED <<rel, tmp, archVars, disk, raced>>

WriteFails(t) ==
    /\ "disk" \in Faults
    /\ pc[t] = "manifest"
    /\ End(t, "err", "failed")
    /\ UNCHANGED <<rel, tmp, archVars, installVars, raced>>

-----------------------------------------------------------------------------
(* remove                                                                  *)

\* remove_dir_all takes everything in the directory, other calls' files too;
\* without a directory there is nothing to do.
Remove(t) ==
    /\ pc[t] = "idle"
    /\ End(t, "ok", "none")
    /\ disk' = [f \in Files |-> None]
    /\ manifest' = NoManifest
    /\ tmp' = {} /\ archive' = {}
    /\ touched' = t
    /\ raced' = (raced \/ \E u \in Tasks : Active(u))
    /\ UNCHANGED <<rel, stuck>>

\* It fails after some of them, in whatever order the directory lists them.
RemoveFails(t) ==
    /\ "disk" \in Faults
    /\ pc[t] = "idle"
    /\ End(t, "err", "none")
    /\ \E gone \in SUBSET Files :
          disk' = [f \in Files |-> IF f \in gone THEN None ELSE disk[f]]
    /\ manifest' \in {manifest, NoManifest}
    /\ tmp' \in {tmp, {}} /\ archive' \in {archive, {}}
    /\ touched' = t
    /\ raced' = (raced \/ \E u \in Tasks : Active(u))
    /\ UNCHANGED <<rel, stuck>>

-----------------------------------------------------------------------------
(* Calls that never return.                                                *)

\* The future is dropped at an await.  A transfer stops; an extraction goes
\* on in its blocking thread, or is started there when a thread is free, with
\* nobody to clean up after it.
Drop(t) ==
    /\ "drop" \in Faults
    /\ \/ pc[t] = "fetch" /\ Move(t, "done")
       \/ pc[t] = "queued" /\ Move(t, "adrift")
       \/ pc[t] = "extract" /\ Move(t, "detached")
    /\ result' = [result EXCEPT ![t] = "gone"]
    /\ UNCHANGED <<rel, report, reading, todo, found, tmp, archVars,
                   installVars, raced>>

\* The blocking thread comes to its end, or stops at an error nobody sees.
DetachedEnds(t) ==
    /\ Forget(t)
    /\ Move(t, "done")
    /\ \/ pc[t] = "adrift" /\ archive = {} /\ UNCHANGED installVars
       \/ pc[t] = "detached" /\ todo[t] = {} /\ UNCHANGED installVars
       \/ /\ pc[t] = "detached"
          /\ "extract" \in Faults \/ ~reading[t].sound
          /\ \E e \in todo[t] : TearEntry(t, e)
    /\ UNCHANGED <<rel, report, result, tmp, archVars, raced>>

\* The process is killed, between two entries or within one.
Kill(t) ==
    /\ "kill" \in Faults
    /\ Active(t)
    /\ result' = [result EXCEPT ![t] = "gone"]
    /\ Forget(t)
    /\ Move(t, "done")
    /\ \/ UNCHANGED installVars
       \/ \E e \in todo[t] : TearEntry(t, e)
    /\ UNCHANGED <<rel, report, tmp, archVars, raced>>

-----------------------------------------------------------------------------
Init ==
    /\ pc = [t \in Tasks |-> "idle"]
    /\ rel = [t \in Tasks |-> None]
    /\ report = [t \in Tasks |-> "none"]
    /\ result = [t \in Tasks |-> "none"]
    /\ reading = [t \in Tasks |-> Unread]
    /\ todo = [t \in Tasks |-> {}]
    /\ found = [t \in Tasks |-> None]
    /\ tmp = {} /\ archive = {} /\ stuck = FALSE
    /\ disk = [f \in Files |-> None]
    /\ manifest = NoManifest /\ touched = None /\ raced = FALSE

\* The steps of a download that has begun.
Step(t) ==
    \/ Fetched(t) \/ FetchFails(t) \/ OpenArchive(t) \/ OpenFails(t)
    \/ Unpack(t) \/ ExtractFails(t) \/ Discover(t)
    \/ WriteManifest(t) \/ WriteFails(t) \/ DetachedEnds(t)

Next ==
    \E t \in Tasks :
       \/ \E r \in Releases : Begin(t, r)
       \/ BeginFails(t) \/ Remove(t) \/ RemoveFails(t)
       \/ Step(t) \/ Drop(t) \/ Kill(t)

Spec == Init /\ [][Next]_vars

-----------------------------------------------------------------------------
(* Properties.                                                             *)

\* Every variable stays in its range.
BundlerTypeOK ==
    /\ pc \in [Tasks -> {"idle", "fetch", "queued", "extract", "adrift",
                         "detached", "manifest", "done"}]
    /\ rel \in [Tasks -> Releases \cup {None}]
    /\ report \in [Tasks -> {"none", "downloading", "installed", "failed"}]
    /\ result \in [Tasks -> {"none", "ok", "err", "gone"}]
    /\ reading \in [Tasks -> [release : Releases \cup {None},
                              sound : BOOLEAN]]
    /\ todo \in [Tasks -> SUBSET (Files \cup {OwnManifest})]
    /\ found \in [Tasks -> Files \cup {None}]
    /\ tmp \subseteq Tasks /\ archive \subseteq Tasks /\ stuck \in BOOLEAN
    /\ disk \in [Files -> Releases \cup {None, Torn}]
    /\ manifest \in [version : Releases \cup {None},
                    binary : Files \cup {None}]
    /\ touched \in Tasks \cup {None} /\ raced \in BOOLEAN

Quiet == \A t \in Tasks : ~Active(t)

\* The tarball of r has a file that a search takes for the emulator.  Those
\* of scripts/build have, Trezor's and BitBox02's under a known name, the
\* other four wallets' under names that only the fallback finds.
HasProgram(r) ==
    \E f \in Contents[r] :
       f \in Executables \/ \E k \in DOMAIN Candidates : Candidates[k] = f

\* The manifest describes what is on disk: every file of its release is
\* there, its binary is what a search of the directory finds, and if the
\* release has any program that binary exists.
Whole ==
    InstalledVersion # None =>
       /\ \A f \in Contents[InstalledVersion] : disk[f] = InstalledVersion
       /\ BinaryPath \in EmulatorBinaries
       /\ HasProgram(InstalledVersion) => BinaryPath \in Present

\* A success can be trusted so far (lib.rs:206-248): as long as calls take
\* turns, a call that returned Ok and was the last to touch the directory has
\* left it whole, with the release it was asked for or with nothing, whatever
\* state failed, dropped and killed calls before it had left behind.  For a
\* release without any program Ok and Installed say nothing of the binary: the
\* manifest then names the wallet, which is no file (lib.rs:302-303).
SuccessIsWhole ==
    ~raced /\ Quiet /\ touched # None /\ result[touched] = "ok"
    => InstalledVersion = rel[touched] /\ Whole

\* No archive is left behind (lib.rs:193-214): once every call has returned,
\* overlapping ones too, there is no archive in the bundle directory, unless
\* the system refused to remove one.
ArchiveRemoved ==
    Quiet /\ ~stuck /\ (\A t \in Tasks : result[t] # "gone") => archive = {}

\* A download that has ended by itself has said how.
EndReported ==
    \A t \in Tasks :
       pc[t] = "done" /\ rel[t] # None /\ result[t] # "gone"
       => report[t] = IF result[t] = "ok" THEN "installed" ELSE "failed"

\* No download hangs or ends without a word (lib.rs:169-171): whatever other
\* calls do to its archive and directory, one that has begun can always go on,
\* and when it ends by itself its last progress says how.
EndIsReported ==
    EndReported /\ \A t \in Tasks : Active(t) => ENABLED Step(t)

=============================================================================
