--------------------------- MODULE Bundler_proofs ---------------------------
(***************************************************************************)
(* Theorems about module Bundler, for any number of calls, releases and    *)
(* files: type correctness, that no archive is left behind, and that a     *)
(* success leaves the directory whole.                                     *)
(***************************************************************************)
EXTENDS Bundler, WellFoundedInduction, TLAPS

USE DEF archVars

-----------------------------------------------------------------------------
(* Types.  Contents and Shipped are indexed by the release of whoever wrote *)
(* the archive, so that has to be one.                                     *)

Released(t) == rel[t] \in Releases

CallInv ==
    \A t \in Tasks :
       /\ Active(t) \/ t \in tmp \cup archive => Released(t)
       /\ pc[t] \in {"extract", "detached"} => reading[t].release \in Releases
       /\ \A e \in todo[t] :
             /\ pc[t] \in {"extract", "detached"}
             /\ e = OwnManifest \/ e \in Contents[reading[t].release]
       /\ result[t] # "none" =>
             \/ pc[t] = "done"
             \/ pc[t] \in {"adrift", "detached"} /\ result[t] = "gone"

TypeInv == BundlerTypeOK /\ CallInv

\* What the search finds is a file or nothing.
LEMMA BinariesAreFiles ==
    ASSUME NEW b \in EmulatorBinaries
    PROVE  b \in Files \cup {None}
  BY BundlerAssumption DEF BundlerAssumption, EmulatorBinaries, Present

\* A torn entry leaves the installation in its types.
LEMMA TearTypes ==
    ASSUME TypeInv, NEW t \in Tasks, NEW e \in todo[t], TearEntry(t, e)
    PROVE  /\ disk' \in [Files -> Releases \cup {None, Torn}]
           /\ manifest' \in [version : Releases \cup {None},
                             binary : Files \cup {None}]
           /\ touched' \in Tasks \cup {None}
  BY DEF TypeInv, BundlerTypeOK, TearEntry, NoManifest

\* The types of what a call writes when it ends.
LocalTypes ==
    /\ pc \in [Tasks -> {"idle", "fetch", "queued", "extract", "adrift",
                         "detached", "manifest", "done"}]
    /\ report \in [Tasks -> {"none", "downloading", "installed", "failed"}]
    /\ result \in [Tasks -> {"none", "ok", "err", "gone"}]
    /\ reading \in [Tasks -> [release : Releases \cup {None},
                              sound : BOOLEAN]]
    /\ todo \in [Tasks -> SUBSET (Files \cup {OwnManifest})]
    /\ found \in [Tasks -> Files \cup {None}]

LEMMA EndTypes ==
    ASSUME TypeInv, NEW t \in Tasks,
           NEW res \in {"none", "ok", "err", "gone"},
           NEW rep \in {"none", "downloading", "installed", "failed"},
           End(t, res, rep)
    PROVE  LocalTypes'
  BY DEF TypeInv, BundlerTypeOK, End, Move, Forget, Unread, LocalTypes

LEMMA TypesInit == ASSUME Init PROVE TypeInv
  BY DEF Init, TypeInv, BundlerTypeOK, CallInv, Active, Unread, NoManifest

\* Every step keeps the types.
LEMMA TypesStep == ASSUME TypeInv, [Next]_vars PROVE TypeInv'
<1> USE DEF TypeInv
<1>1. CASE UNCHANGED vars
  BY <1>1 DEF vars, taskVars, installVars, BundlerTypeOK, CallInv, Active,
     Released
<1>2. ASSUME NEW t \in Tasks, NEW r \in Releases, Begin(t, r)
      PROVE  TypeInv'
  <2>1. BundlerTypeOK'
    BY <1>2 DEF Begin, Move, installVars, BundlerTypeOK
  <2>2. CallInv'
    BY <1>2 DEF Begin, Move, BundlerTypeOK, CallInv, Active, Released
  <2>. QED BY <2>1, <2>2
<1>3. ASSUME NEW t \in Tasks,
             \/ BeginFails(t) \/ FetchFails(t) \/ OpenFails(t)
             \/ WriteFails(t)
      PROVE  TypeInv'
  <2>1. BundlerTypeOK'
    <3>1. LocalTypes'
      BY <1>3, EndTypes DEF BeginFails, FetchFails, OpenFails, WriteFails, Fail
    <3>2. UNCHANGED <<rel, tmp, installVars, raced>>
      BY <1>3 DEF BeginFails, FetchFails, OpenFails, WriteFails
    <3>3. archive' \in {archive, {}} /\ stuck' \in {stuck, TRUE}
      BY <1>3 DEF BeginFails, FetchFails, OpenFails, WriteFails, Fail,
         UnlinkArchive
    <3>. QED
      BY <3>1, <3>2, <3>3 DEF LocalTypes, installVars, BundlerTypeOK
  <2>2. CallInv'
    BY <1>3
    DEF BeginFails, FetchFails, OpenFails, WriteFails, Fail, UnlinkArchive,
        End, Forget, Move, BundlerTypeOK, CallInv, Active, Released
  <2>. QED BY <2>1, <2>2
<1>4. ASSUME NEW t \in Tasks, Fetched(t)
      PROVE  TypeInv'
  BY <1>4 DEF Fetched, Move, installVars, BundlerTypeOK, CallInv, Active,
     Released
<1>5. ASSUME NEW t \in Tasks, OpenArchive(t)
      PROVE  TypeInv'
  <2>1. PICK u \in archive :
          /\ reading' = [reading EXCEPT
                ![t] = [release |-> rel[u], sound |-> archive = {u}]]
          /\ todo' = [todo EXCEPT ![t] = Entries(rel[u])]
    BY <1>5 DEF OpenArchive
  <2>2. rel[u] \in Releases /\ u \in Tasks
    BY DEF BundlerTypeOK, CallInv, Released
  <2>3. Entries(rel[u]) \subseteq Contents[rel[u]] \cup {OwnManifest}
    BY DEF Entries
  <2>4. Contents[rel[u]] \subseteq Files
    BY <2>2, BundlerAssumption DEF BundlerAssumption
  <2>5. BundlerTypeOK'
    BY <1>5, <2>1, <2>2, <2>3, <2>4 DEF OpenArchive, Move, installVars,
       BundlerTypeOK
  <2>6. CallInv'
    BY <1>5, <2>1, <2>2, <2>3 DEF OpenArchive, Move, BundlerTypeOK,
       CallInv, Active, Released
  <2>. QED BY <2>5, <2>6
<1>6. ASSUME NEW t \in Tasks, Unpack(t)
      PROVE  TypeInv'
  <2>1. PICK e \in todo[t] :
          /\ todo' = [todo EXCEPT ![t] = @ \ {e}]
          /\ IF e = OwnManifest
             THEN /\ manifest' = OwnManifestOf(reading[t].release)
                  /\ UNCHANGED disk
             ELSE /\ disk' = [disk EXCEPT ![e] = reading[t].release]
                  /\ UNCHANGED manifest
    BY <1>6 DEF Unpack
  <2>2. reading[t].release \in Releases
    BY <1>6 DEF Unpack, CallInv
  <2>3. Shipped[reading[t].release] \in Files \cup {None}
    BY <2>2, BundlerAssumption DEF BundlerAssumption
  <2>4. manifest' \in [version : Releases \cup {None},
                       binary : Files \cup {None}]
    BY <2>1, <2>2, <2>3 DEF OwnManifestOf, BundlerTypeOK
  <2>5. disk' \in [Files -> Releases \cup {None, Torn}]
    BY <2>1, <2>2 DEF BundlerTypeOK
  <2>6. BundlerTypeOK'
    BY <1>6, <2>1, <2>4, <2>5 DEF Unpack, BundlerTypeOK
  <2>7. CallInv'
    BY <1>6, <2>1 DEF Unpack, BundlerTypeOK, CallInv, Active, Released
  <2>. QED BY <2>6, <2>7
<1>7. ASSUME NEW t \in Tasks, ExtractFails(t)
      PROVE  TypeInv'
  <2>1. BundlerTypeOK'
    <3>1. LocalTypes'
      BY <1>7, EndTypes DEF ExtractFails, Fail, UnlinkArchive
    <3>. QED
      BY <1>7, <3>1, TearTypes
      DEF LocalTypes, ExtractFails, Fail, UnlinkArchive, BundlerTypeOK
  <2>2. CallInv'
    BY <1>7 DEF ExtractFails, Fail, UnlinkArchive, End, Forget, Move,
                BundlerTypeOK, CallInv, Active, Released
  <2>. QED BY <2>1, <2>2
<1>8. ASSUME NEW t \in Tasks, Discover(t)
      PROVE  TypeInv'
  <2>1. BundlerTypeOK'
    <3>1. found' \in [Tasks -> Files \cup {None}]
      BY <1>8, BinariesAreFiles DEF Discover, BundlerTypeOK
    <3>2. archive' \subseteq Tasks /\ stuck' \in BOOLEAN
      BY <1>8 DEF Discover, UnlinkArchive, BundlerTypeOK
    <3>3. pc' \in [Tasks -> {"idle", "fetch", "queued", "extract", "adrift",
                             "detached", "manifest", "done"}]
      BY <1>8 DEF Discover, Move, BundlerTypeOK
    <3>. QED
      BY <1>8, <3>1, <3>2, <3>3 DEF Discover, installVars, BundlerTypeOK
  <2>2. CallInv'
    BY <1>8 DEF Discover, UnlinkArchive, Move, BundlerTypeOK, CallInv, Active,
                Released
  <2>. QED BY <2>1, <2>2
<1>9. ASSUME NEW t \in Tasks, WriteManifest(t)
      PROVE  TypeInv'
  <2>1. rel[t] \in Releases
    BY <1>9 DEF WriteManifest, CallInv, Active, Released
  <2>2. BundlerTypeOK'
    <3>1. LocalTypes'
      BY <1>9, EndTypes DEF WriteManifest
    <3>. QED
      BY <1>9, <2>1, <3>1 DEF LocalTypes, WriteManifest, BundlerTypeOK
  <2>3. CallInv'
    BY <1>9 DEF WriteManifest, End, Forget, Move, BundlerTypeOK, CallInv,
       Active, Released
  <2>. QED BY <2>2, <2>3
<1>10. ASSUME NEW t \in Tasks, Remove(t) \/ RemoveFails(t)
       PROVE  TypeInv'
  <2>1. BundlerTypeOK'
    <3>1. LocalTypes'
      BY <1>10, EndTypes DEF Remove, RemoveFails
    <3>2. /\ disk' \in [Files -> Releases \cup {None, Torn}]
          /\ manifest' \in [version : Releases \cup {None},
                            binary : Files \cup {None}]
      BY <1>10 DEF Remove, RemoveFails, NoManifest, BundlerTypeOK
    <3>3. rel' = rel /\ tmp' \subseteq Tasks /\ archive' \subseteq Tasks
          /\ touched' \in Tasks \cup {None} /\ raced' \in BOOLEAN
          /\ stuck' = stuck
      BY <1>10 DEF Remove, RemoveFails, BundlerTypeOK
    <3>. QED BY <3>1, <3>2, <3>3 DEF LocalTypes, BundlerTypeOK
  <2>2. CallInv'
    <3>1. /\ pc' = [pc EXCEPT ![t] = "done"]
          /\ reading' = [reading EXCEPT ![t] = Unread]
          /\ todo' = [todo EXCEPT ![t] = {}]
          /\ \E res \in {"ok", "err"} :
                result' = [result EXCEPT ![t] = res]
          /\ rel' = rel /\ tmp' \subseteq tmp /\ archive' \subseteq archive
      BY <1>10 DEF Remove, RemoveFails, End, Forget, Move
    <3>. QED BY <3>1 DEF BundlerTypeOK, CallInv, Active, Released
  <2>. QED BY <2>1, <2>2
<1>11. ASSUME NEW t \in Tasks, Drop(t)
       PROVE  TypeInv'
  <2>1. /\ pc' = [pc EXCEPT ![t] = pc'[t]]
        /\ pc[t] \in {"fetch", "queued", "extract"}
        /\ pc'[t] \in {"done", "adrift", "detached"}
        /\ result' = [result EXCEPT ![t] = "gone"]
        /\ UNCHANGED <<rel, report, reading, todo, found, tmp, archVars,
                       installVars, raced>>
    BY <1>11 DEF Drop, Move, BundlerTypeOK
  <2>2. BundlerTypeOK'
    BY <2>1 DEF installVars, BundlerTypeOK
  <2>3. CallInv'
    BY <1>11, <2>1 DEF Drop, Move, BundlerTypeOK, CallInv, Active, Released
  <2>. QED BY <2>2, <2>3
<1>12. ASSUME NEW t \in Tasks, DetachedEnds(t) \/ Kill(t)
       PROVE  TypeInv'
  <2>1. BundlerTypeOK'
    <3>1. LocalTypes'
      <4>1. CASE DetachedEnds(t)
        BY <4>1 DEF DetachedEnds, Move, Forget, Unread, BundlerTypeOK,
           LocalTypes
      <4>2. CASE Kill(t)
        BY <4>2 DEF Kill, Move, Forget, Unread, BundlerTypeOK, LocalTypes
      <4>. QED BY <1>12, <4>1, <4>2
    <3>2. UNCHANGED installVars \/ \E e \in todo[t] : TearEntry(t, e)
      BY <1>12 DEF DetachedEnds, Kill
    <3>3. /\ disk' \in [Files -> Releases \cup {None, Torn}]
          /\ manifest' \in [version : Releases \cup {None},
                            binary : Files \cup {None}]
          /\ touched' \in Tasks \cup {None}
      BY <3>2, TearTypes DEF installVars, BundlerTypeOK
    <3>. QED
      BY <1>12, <3>1, <3>3 DEF DetachedEnds, Kill, LocalTypes, BundlerTypeOK
  <2>2. CallInv'
    BY <1>12 DEF DetachedEnds, Kill, Forget, Move, BundlerTypeOK, CallInv,
       Active, Released
  <2>. QED BY <2>1, <2>2
<1>. QED
  BY <1>1, <1>2, <1>3, <1>4, <1>5, <1>6, <1>7, <1>8, <1>9, <1>10, <1>11,
     <1>12 DEF Next, Step

\* Type correctness, for any calls, releases and files.
THEOREM BundlerTypes == Spec => []BundlerTypeOK
<1>1. Spec => []TypeInv
  BY TypesInit, TypesStep, PTL DEF Spec
<1>. QED BY <1>1, PTL DEF TypeInv

-----------------------------------------------------------------------------
(* The archive.  Whoever renames a file to the archive path goes on to     *)
(* remove what is there.                                                   *)

Cleaner(t) == pc[t] \in {"queued", "extract"} \/ result[t] = "gone"

ArchiveHasCleaner == archive # {} /\ ~stuck => \E t \in Tasks : Cleaner(t)

\* A call that does not touch the archive and is not its cleaner leaves it
\* one; a step that ends a cleaner empties the path.
LEMMA CleanerStep ==
    ASSUME TypeInv, ArchiveHasCleaner, [Next]_vars
    PROVE  ArchiveHasCleaner'
<1> USE DEF TypeInv, BundlerTypeOK
<1>1. CASE UNCHANGED vars
  BY <1>1 DEF vars, taskVars, ArchiveHasCleaner, Cleaner
<1>2. ASSUME NEW t \in Tasks,
             \/ \E r \in Releases : Begin(t, r)
             \/ BeginFails(t) \/ WriteManifest(t) \/ WriteFails(t)
             \/ RemoveFails(t)
      PROVE  ArchiveHasCleaner'
  <2>1. archive' \in {archive, {}} /\ stuck' = stuck
    BY <1>2 DEF Begin, BeginFails, WriteManifest, WriteFails, RemoveFails
  <2>2. ASSUME NEW u \in Tasks, Cleaner(u), u # t
        PROVE  Cleaner(u)'
    BY <1>2, <2>2 DEF Begin, BeginFails, WriteManifest, WriteFails,
       RemoveFails, End, Move, Cleaner
  <2>3. Cleaner(t) => Cleaner(t)'
    BY <1>2 DEF CallInv, Begin, BeginFails, WriteManifest, WriteFails,
       RemoveFails, End, Move, Cleaner
  <2>. QED BY <2>1, <2>2, <2>3 DEF ArchiveHasCleaner
<1>3. ASSUME NEW t \in Tasks, OpenArchive(t) \/ Unpack(t) \/ Fetched(t)
      PROVE  ArchiveHasCleaner'
  BY <1>3 DEF OpenArchive, Unpack, Fetched, Move, ArchiveHasCleaner, Cleaner
<1>4. ASSUME NEW t \in Tasks, Drop(t) \/ DetachedEnds(t) \/ Kill(t)
      PROVE  ArchiveHasCleaner'
  BY <1>4 DEF Drop, DetachedEnds, Kill, Move, ArchiveHasCleaner, Cleaner
<1>5. ASSUME NEW t \in Tasks,
             \/ FetchFails(t) \/ OpenFails(t) \/ ExtractFails(t)
             \/ Discover(t) \/ Remove(t)
      PROVE  ArchiveHasCleaner'
  BY <1>5 DEF FetchFails, OpenFails, ExtractFails, Fail, UnlinkArchive,
              Discover, Remove, ArchiveHasCleaner
<1>. QED BY <1>1, <1>2, <1>3, <1>4, <1>5 DEF Next, Step

\* Once every call has returned there is no archive in the directory, for any
\* number of calls, however they overlap and fail.
THEOREM ArchivesGo == Spec => []ArchiveRemoved
<1>1. Init => TypeInv /\ ArchiveHasCleaner
  BY TypesInit DEF Init, ArchiveHasCleaner
<1>2. TypeInv /\ ArchiveHasCleaner /\ [Next]_vars
      => TypeInv' /\ ArchiveHasCleaner'
  BY TypesStep, CleanerStep
<1>3. TypeInv /\ ArchiveHasCleaner => ArchiveRemoved
  BY DEF ArchiveHasCleaner, ArchiveRemoved, Cleaner, Quiet, Active
<1>. QED BY <1>1, <1>2, <1>3, PTL DEF Spec

-----------------------------------------------------------------------------
(* Calls that take turns.  The one under way owns the temporary file and   *)
(* the archive, what it has unpacked is of its release, and what the last  *)
(* success left is whole until the next call touches the directory.        *)

Alone == \A t, u \in Tasks : Active(t) /\ Active(u) => t = u

OnItsWay(t) ==
    /\ pc[t] = "fetch" => tmp = {t}
    /\ pc[t] = "queued" => archive = {t}
    /\ pc[t] = "extract" =>
          /\ reading[t].release = rel[t]
          /\ \A f \in Contents[rel[t]] : f \in todo[t] \/ disk[f] = rel[t]
    /\ pc[t] = "manifest" =>
          /\ \A f \in Contents[rel[t]] : disk[f] = rel[t]
          /\ found[t] \in EmulatorBinaries

LastIsGood ==
    touched # None /\ result[touched] = "ok"
    => InstalledVersion = rel[touched] /\ Whole

TurnInv ==
    /\ \A t \in Tasks : pc[t] = "idle" => rel[t] = None
    /\ ~raced => Alone /\ LastIsGood /\ \A t \in Tasks : OnItsWay(t)

\* While t is under way, a step of t leaves the others at rest.
LEMMA OthersRest ==
    ASSUME TypeInv, Alone, NEW t \in Tasks, Active(t), NEW to,
           pc' = [pc EXCEPT ![t] = to]
    PROVE  Alone' /\ \A u \in Tasks \ {t} : OnItsWay(u)'
<1>1. \A u \in Tasks \ {t} : ~Active(u)'
  BY DEF TypeInv, BundlerTypeOK, Alone, Active
<1>. QED BY <1>1 DEF Alone, OnItsWay, Active

\* What a search finds depends on the directory only.
LEMMA SameDirectory ==
    ASSUME disk' = disk PROVE EmulatorBinaries' = EmulatorBinaries
  BY DEF EmulatorBinaries, Present

\* A step that changes nothing installed and succeeds in nothing keeps the
\* promise of the last success.
LEMMA GoodKept ==
    ASSUME TypeInv, LastIsGood, UNCHANGED installVars,
           \A u \in Tasks : result'[u] = "ok" => /\ result[u] = "ok"
                                               /\ rel'[u] = rel[u]
    PROVE  LastIsGood'
<1>1. EmulatorBinaries' = EmulatorBinaries
  BY SameDirectory DEF installVars
<1>. QED
  BY <1>1 DEF TypeInv, BundlerTypeOK, LastIsGood, installVars,
     InstalledVersion, BinaryPath, Whole, Present

\* A search of a directory with a whole release that has a program finds a
\* file that exists.
LEMMA BinaryIsThere ==
    ASSUME NEW r \in Releases, HasProgram(r),
           \A f \in Contents[r] : disk[f] = r, NEW b \in EmulatorBinaries
    PROVE  b \in Present
<1>1. PICK f \in Contents[r] :
         f \in Executables \/ \E k \in DOMAIN Candidates : Candidates[k] = f
  BY DEF HasProgram
<1>2. f \in Present
  BY <1>1, BundlerAssumption DEF BundlerAssumption, Present
<1>3. CASE f \in Executables
  BY <1>2, <1>3 DEF EmulatorBinaries
<1>4. CASE \E k \in DOMAIN Candidates : Candidates[k] = f
  BY <1>2, <1>4 DEF EmulatorBinaries
<1>. QED BY <1>1, <1>3, <1>4

LEMMA TurnInit == ASSUME Init PROVE TurnInv
  BY DEF Init, TurnInv, Alone, OnItsWay, LastIsGood, Active

LEMMA TurnStep == ASSUME TypeInv, TurnInv, [Next]_vars PROVE TurnInv'
<1> USE DEF TypeInv
<1>1. CASE UNCHANGED vars
  BY <1>1, SameDirectory DEF vars, taskVars, installVars, TurnInv, Alone,
     OnItsWay, Active, LastIsGood, InstalledVersion, BinaryPath, Whole, Present
<1>2. ASSUME NEW t \in Tasks, NEW r \in Releases, Begin(t, r)
      PROVE  TurnInv'
  <2>1. \A u \in Tasks : pc'[u] = "idle" => rel'[u] = None
    BY <1>2 DEF Begin, Move, BundlerTypeOK, TurnInv
  <2>2. SUFFICES ASSUME ~raced'
                 PROVE  /\ Alone' /\ LastIsGood'
                        /\ \A u \in Tasks : OnItsWay(u)'
    BY <2>1 DEF TurnInv
  <2>3. ~raced /\ \A u \in Tasks : ~Active(u)
    BY <1>2, <2>2 DEF Begin
  <2>4. tmp' = {t}
    BY <1>2, <2>3 DEF Begin, Active, BundlerTypeOK
  <2>5. pc' = [pc EXCEPT ![t] = "fetch"]
    BY <1>2 DEF Begin, Move
  <2>6. Alone' /\ \A u \in Tasks : OnItsWay(u)'
    BY <2>3, <2>4, <2>5 DEF Alone, OnItsWay, Active, BundlerTypeOK
  <2>7. LastIsGood'
    BY <1>2, <2>3, GoodKept DEF Begin, TurnInv, CallInv, BundlerTypeOK
  <2>. QED BY <2>6, <2>7
<1>3. ASSUME NEW t \in Tasks, Remove(t) \/ RemoveFails(t) \/ BeginFails(t)
      PROVE  TurnInv'
  <2>1. pc[t] = "idle" /\ rel' = rel /\ pc' = [pc EXCEPT ![t] = "done"]
    BY <1>3 DEF Remove, RemoveFails, BeginFails, End, Move
  <2>2. \A u \in Tasks : pc'[u] = "idle" => rel'[u] = None
    BY <2>1 DEF BundlerTypeOK, TurnInv
  <2>3. SUFFICES ASSUME ~raced'
                 PROVE  /\ Alone' /\ LastIsGood'
                        /\ \A u \in Tasks : OnItsWay(u)'
    BY <2>2 DEF TurnInv
  <2>4. ~raced /\ Alone /\ LastIsGood /\ \A u \in Tasks : OnItsWay(u)
    <3>1. raced' = raced \/ raced' = (raced \/ \E u \in Tasks : Active(u))
      BY <1>3 DEF Remove, RemoveFails, BeginFails
    <3>2. ~raced
      BY <2>3, <3>1
    <3>. QED BY <3>2 DEF TurnInv
  <2>5. Alone'
    BY <2>1, <2>4 DEF Alone, Active, BundlerTypeOK
  <2>6. CASE BeginFails(t)
    <3>1. LastIsGood'
      BY <2>4, <2>6, GoodKept DEF BeginFails, End, BundlerTypeOK
    <3>2. \A u \in Tasks : OnItsWay(u)'
      BY <2>1, <2>4, <2>6, SameDirectory DEF BeginFails, End, Forget,
         installVars, OnItsWay, BundlerTypeOK
    <3>. QED BY <2>5, <3>1, <3>2
  <2>7. CASE Remove(t) \/ RemoveFails(t)
    <3>1. \A u \in Tasks : ~Active(u)
      BY <2>3, <2>7 DEF Remove, RemoveFails
    <3>2. \A u \in Tasks : OnItsWay(u)'
      BY <2>1, <3>1 DEF OnItsWay, Active, BundlerTypeOK
    <3>3. LastIsGood'
      <4>1. CASE Remove(t)
        BY <2>1, <4>1 DEF Remove, NoManifest, LastIsGood, InstalledVersion,
           Whole, TurnInv
      <4>2. CASE RemoveFails(t)
        BY <4>2 DEF RemoveFails, End, LastIsGood, BundlerTypeOK
      <4>. QED BY <2>7, <4>1, <4>2
    <3>. QED BY <2>5, <3>2, <3>3
  <2>. QED BY <1>3, <2>6, <2>7
<1>4. ASSUME NEW t \in Tasks, Active(t), Step(t) \/ Drop(t) \/ Kill(t)
      PROVE  TurnInv'
  <2>1. rel' = rel /\ raced' = raced
    BY <1>4 DEF Step, Fetched, FetchFails, OpenArchive, OpenFails, Unpack,
       ExtractFails, Discover, WriteManifest, WriteFails, DetachedEnds, Drop,
       Kill
  <2>2. \E to \in {"queued", "extract", "adrift", "detached", "manifest",
                 "done"} :
           pc' = [pc EXCEPT ![t] = to]
    BY <1>4 DEF Step, Fetched, FetchFails, OpenArchive, OpenFails, Unpack,
       ExtractFails, Discover, WriteManifest, WriteFails, DetachedEnds, Drop,
       Kill, Fail, End, Move, BundlerTypeOK
  <2>3. \A u \in Tasks : pc'[u] = "idle" => rel'[u] = None
    BY <2>1, <2>2 DEF BundlerTypeOK, TurnInv
  <2>4. SUFFICES ASSUME ~raced
                 PROVE  LastIsGood' /\ OnItsWay(t)'
    BY <2>1, <2>2, <2>3, OthersRest, <1>4 DEF TurnInv
  <2>5. Alone /\ LastIsGood /\ OnItsWay(t) /\ Released(t)
    BY <1>4, <2>4 DEF TurnInv, CallInv
  <2>6. result[t] # "ok"
    BY <1>4 DEF CallInv, Active
  <2>7. CASE Fetched(t) \/ OpenArchive(t)
    <3>1. LastIsGood'
      BY <2>5, <2>7, GoodKept DEF Fetched, OpenArchive
    <3>2. OnItsWay(t)'
      BY <2>5, <2>7 DEF Fetched, OpenArchive, Entries, Move, OnItsWay,
         BundlerTypeOK
    <3>. QED BY <3>1, <3>2
  <2>8. CASE Unpack(t)
    <3>1. LastIsGood'
      BY <2>6, <2>8 DEF Unpack, LastIsGood
    <3>2. OnItsWay(t)'
      BY <2>5, <2>8, BundlerAssumption DEF Unpack, OnItsWay, BundlerTypeOK,
         BundlerAssumption, Released
    <3>. QED BY <3>1, <3>2
  <2>9. CASE Discover(t)
    <3>1. LastIsGood'
      BY <2>5, <2>9, GoodKept DEF Discover
    <3>2. \A f \in Contents[rel[t]] : disk[f] = rel[t]
      BY <2>5, <2>9 DEF Discover, OnItsWay
    <3>3. found'[t] \in EmulatorBinaries'
      BY <2>9, SameDirectory DEF Discover, installVars, BundlerTypeOK
    <3>. QED
      BY <2>9, <3>1, <3>2, <3>3 DEF Discover, Move, installVars, OnItsWay,
         BundlerTypeOK
  <2>10. CASE WriteManifest(t)
    <3>1. /\ \A f \in Contents[rel[t]] : disk[f] = rel[t]
          /\ found[t] \in EmulatorBinaries
      BY <2>5, <2>10 DEF WriteManifest, OnItsWay
    <3>2. HasProgram(rel[t]) => found[t] \in Present
      BY <2>5, <3>1, BinaryIsThere DEF Released
    <3>3. EmulatorBinaries' = EmulatorBinaries /\ Present' = Present
      BY <2>10, SameDirectory DEF WriteManifest, Present
    <3>4. /\ touched' = t /\ disk' = disk
          /\ manifest' = [version |-> rel[t], binary |-> found[t]]
      BY <2>10 DEF WriteManifest
    <3>5. LastIsGood'
      BY <2>1, <3>1, <3>2, <3>3, <3>4 DEF LastIsGood, InstalledVersion,
         BinaryPath, Whole, HasProgram
    <3>6. pc'[t] = "done"
      BY <2>10 DEF WriteManifest, End, Move, BundlerTypeOK
    <3>. QED BY <3>5, <3>6 DEF OnItsWay
  <2>11. CASE \/ FetchFails(t) \/ OpenFails(t) \/ ExtractFails(t)
              \/ WriteFails(t)
    <3>1. pc'[t] = "done" /\ result' = [result EXCEPT ![t] = "err"]
      BY <2>11 DEF FetchFails, OpenFails, ExtractFails, WriteFails, Fail, End,
         Move, BundlerTypeOK
    <3>2. UNCHANGED installVars \/ touched' = t
      BY <2>11 DEF FetchFails, OpenFails, ExtractFails, WriteFails, TearEntry
    <3>3. LastIsGood'
      <4>1. CASE touched' = t
        BY <3>1, <4>1 DEF LastIsGood, BundlerTypeOK
      <4>2. CASE UNCHANGED installVars
        BY <2>1, <2>5, <3>1, <4>2, GoodKept DEF BundlerTypeOK
      <4>. QED BY <3>2, <4>1, <4>2
    <3>. QED BY <3>1, <3>3 DEF OnItsWay
  <2>12. CASE DetachedEnds(t) \/ Drop(t) \/ Kill(t)
    <3>1. pc'[t] \in {"done", "adrift", "detached"}
          /\ result' \in {result, [result EXCEPT ![t] = "gone"]}
      BY <2>12 DEF DetachedEnds, Drop, Kill, Move, BundlerTypeOK
    <3>2. UNCHANGED installVars \/ touched' = t
      BY <2>12 DEF DetachedEnds, Drop, Kill, TearEntry
    <3>3. LastIsGood'
      <4>1. CASE touched' = t
        BY <2>6, <3>1, <4>1 DEF LastIsGood, BundlerTypeOK
      <4>2. CASE UNCHANGED installVars
        BY <2>1, <2>5, <3>1, <4>2, GoodKept DEF BundlerTypeOK
      <4>. QED BY <3>2, <4>1, <4>2
    <3>. QED BY <3>1, <3>3 DEF OnItsWay
  <2>. QED
    BY <1>4, <2>7, <2>8, <2>9, <2>10, <2>11, <2>12 DEF Step
<1>5. \A t \in Tasks : Step(t) \/ Drop(t) \/ Kill(t) => Active(t)
  BY DEF Step, Fetched, FetchFails, OpenArchive, OpenFails, Unpack,
     ExtractFails, Discover, WriteManifest, WriteFails, DetachedEnds, Drop,
     Kill, Active
<1>. QED BY <1>1, <1>2, <1>3, <1>4, <1>5 DEF Next

\* While calls take turns, one that succeeded and was the last to touch the
\* directory has left it whole, for any releases and files and whatever calls
\* before it broke.
THEOREM SuccessesAreWhole == Spec => []SuccessIsWhole
<1>1. Init => TypeInv /\ TurnInv
  BY TypesInit, TurnInit
<1>2. TypeInv /\ TurnInv /\ [Next]_vars => TypeInv' /\ TurnInv'
  BY TypesStep, TurnStep
<1>3. TurnInv => SuccessIsWhole
  BY DEF TurnInv, LastIsGood, SuccessIsWhole
<1>. QED BY <1>1, <1>2, <1>3, PTL DEF Spec

-----------------------------------------------------------------------------
(* A download that has ended by itself has said how.                       *)

\* Only a download has a release, and a detached thread reports to nobody.
ReportInv ==
    /\ EndReported
    /\ \A t \in Tasks : /\ pc[t] = "idle" => rel[t] = None
                        /\ pc[t] \in {"adrift", "detached"}
                           => result[t] = "gone"

LEMMA ReportInit == ASSUME Init PROVE ReportInv
  BY DEF Init, ReportInv, EndReported

\* A call that ends with a result and a report that go together.
LEMMA EndSaysHow ==
    ASSUME TypeInv, ReportInv, NEW t \in Tasks, NEW res, NEW rep,
           End(t, res, rep), UNCHANGED rel,
           rel[t] = None \/ rep = IF res = "ok" THEN "installed" ELSE "failed"
    PROVE  ReportInv'
  <1>1. /\ pc \in [Tasks -> {"idle", "fetch", "queued", "extract", "adrift",
                             "detached", "manifest", "done"}]
        /\ report \in [Tasks -> {"none", "downloading", "installed",
                                 "failed"}]
        /\ result \in [Tasks -> {"none", "ok", "err", "gone"}]
    BY DEF TypeInv, BundlerTypeOK
  <1>2. /\ pc'[t] = "done" /\ result'[t] = res /\ report'[t] = rep
        /\ \A u \in Tasks \ {t} : /\ pc'[u] = pc[u] /\ result'[u] = result[u]
                                  /\ report'[u] = report[u]
        /\ rel' = rel
    BY <1>1 DEF End, Move
  <1>3. ASSUME NEW u \in Tasks
        PROVE  /\ pc'[u] = "idle" => rel'[u] = None
               /\ pc'[u] \in {"adrift", "detached"} => result'[u] = "gone"
               /\ pc'[u] = "done" /\ rel'[u] # None /\ result'[u] # "gone"
                  => report'[u] = IF result'[u] = "ok" THEN "installed"
                                  ELSE "failed"
    <2>1. CASE u = t
      BY <1>2, <2>1
    <2>2. CASE u # t
      BY <1>2, <2>2 DEF ReportInv, EndReported
    <2> QED BY <2>1, <2>2
  <1> QED BY <1>3 DEF ReportInv, EndReported

LEMMA ReportStep == ASSUME TypeInv, ReportInv, [Next]_vars PROVE ReportInv'
  <1>1. /\ pc \in [Tasks -> {"idle", "fetch", "queued", "extract", "adrift",
                             "detached", "manifest", "done"}]
        /\ rel \in [Tasks -> Releases \cup {None}]
        /\ report \in [Tasks -> {"none", "downloading", "installed",
                                 "failed"}]
        /\ result \in [Tasks -> {"none", "ok", "err", "gone"}]
    BY DEF TypeInv, BundlerTypeOK
  <1>2. CASE UNCHANGED vars
    BY <1>2 DEF vars, taskVars, ReportInv, EndReported
  <1>3. ASSUME NEW t \in Tasks,
               \/ BeginFails(t) \/ Remove(t) \/ RemoveFails(t)
        PROVE  ReportInv'
    <2>1. rel[t] = None /\ UNCHANGED rel
      BY <1>3 DEF BeginFails, Remove, RemoveFails, ReportInv
    <2>2. End(t, "err", "none") \/ End(t, "ok", "none")
      BY <1>3 DEF BeginFails, Remove, RemoveFails
    <2> QED BY <2>1, <2>2, EndSaysHow
  <1>4. ASSUME NEW t \in Tasks,
               \/ FetchFails(t) \/ OpenFails(t) \/ ExtractFails(t)
               \/ WriteFails(t) \/ WriteManifest(t)
        PROVE  ReportInv'
    <2>1. UNCHANGED rel
      BY <1>4 DEF FetchFails, OpenFails, ExtractFails, WriteFails,
         WriteManifest
    <2>2. End(t, "err", "failed") \/ End(t, "ok", "installed")
      BY <1>4 DEF FetchFails, OpenFails, ExtractFails, WriteFails,
         WriteManifest, Fail
    <2>3. CASE End(t, "err", "failed")
      BY <2>1, <2>3, EndSaysHow
    <2>4. CASE End(t, "ok", "installed")
      BY <2>1, <2>4, EndSaysHow
    <2> QED BY <2>2, <2>3, <2>4
  <1>5. ASSUME NEW t \in Tasks, NEW r \in Releases, Begin(t, r)
        PROVE  ReportInv'
    BY <1>1, <1>5 DEF Begin, Move, ReportInv, EndReported
  <1>6. ASSUME NEW t \in Tasks,
               \/ Fetched(t) \/ OpenArchive(t) \/ Discover(t) \/ Unpack(t)
        PROVE  ReportInv'
    <2>1. UNCHANGED <<rel, report, result>>
      BY <1>6 DEF Fetched, OpenArchive, Discover, Unpack
    <2>2. \/ UNCHANGED pc
          \/ \E to \in {"queued", "extract", "manifest"} : Move(t, to)
          \/ pc[t] = "adrift" /\ Move(t, "detached")
      BY <1>6 DEF Fetched, OpenArchive, Discover, Unpack
    <2> QED BY <1>1, <2>1, <2>2 DEF Move, ReportInv, EndReported
  <1>7. ASSUME NEW t \in Tasks, Drop(t) \/ Kill(t)
        PROVE  ReportInv'
    <2>1. /\ result' = [result EXCEPT ![t] = "gone"] /\ UNCHANGED rel
          /\ UNCHANGED report
          /\ \E to \in {"done", "adrift", "detached"} :
                pc' = [pc EXCEPT ![t] = to]
      BY <1>7 DEF Drop, Kill, Move
    <2> QED BY <1>1, <2>1 DEF ReportInv, EndReported
  <1>8. ASSUME NEW t \in Tasks, DetachedEnds(t)
        PROVE  ReportInv'
    <2>1. /\ result[t] = "gone" /\ UNCHANGED <<rel, report, result>>
          /\ pc' = [pc EXCEPT ![t] = "done"]
      BY <1>8 DEF DetachedEnds, Move, ReportInv
    <2> QED BY <1>1, <2>1 DEF ReportInv, EndReported
  <1> QED BY <1>2, <1>3, <1>4, <1>5, <1>6, <1>7, <1>8 DEF Next, Step

\* Ends are reported (the report part of EndIsReported, lib.rs:169-171): the
\* last progress of a download that ended by itself says how it ended.
THEOREM EndsAreReported == Spec => []EndReported
  <1>1. Init => TypeInv /\ ReportInv
    BY TypesInit, ReportInit
  <1>2. (TypeInv /\ ReportInv) /\ [Next]_vars => (TypeInv /\ ReportInv)'
    BY TypesStep, ReportStep
  <1>3. TypeInv /\ ReportInv => EndReported
    BY DEF ReportInv
  <1> QED BY <1>1, <1>2, <1>3, PTL DEF Spec

-----------------------------------------------------------------------------
(* The search for the binary.                                              *)

\* A non-empty set of indices has a least one: otherwise the well-founded
\* order of the natural numbers would have an infinite descent.
LEMMA LeastBy ==
    ASSUME NEW R, IsWellFoundedOn(R, Nat),
           \A x, y \in Nat : y < x => <<y, x>> \in R,
           NEW T \in SUBSET Nat, T # {}
    PROVE  \E m \in T : \A k \in T : m <= k
  <1>1. PICK x \in T : \A y \in T : ~ (<<y, x>> \in R)
    BY WFMin
  <1>2. \A y \in T : ~(y < x)
    BY <1>1
  <1> QED BY <1>2

LEMMA Least ==
    ASSUME NEW T \in SUBSET Nat, T # {}
    PROVE  \E m \in T : \A k \in T : m <= k
  <1>1. IsWellFoundedOn(OpToRel(<, Nat), Nat)
    BY NatLessThanWellFounded
  <1>2. \A x, y \in Nat : y < x => <<y, x>> \in OpToRel(<, Nat)
    BY DEF OpToRel
  <1> QED BY <1>1, <1>2, LeastBy

\* find_emulator_binary (lib.rs:272-304) answers on every directory, torn
\* and mixed ones too, so that an extraction that is through can always go on
\* to the manifest; and as long as one of the known names is there, it answers
\* with the first of them and with nothing else.
THEOREM SearchFinds ==
    /\ EmulatorBinaries # {}
    /\ \A k \in DOMAIN Candidates : Candidates[k] \in Present =>
          \E m \in 1..k : /\ EmulatorBinaries = {Candidates[m]}
                          /\ Candidates[m] \in Present
                          /\ \A j \in 1..m - 1 : Candidates[j] \notin Present
  <1> DEFINE known == {k \in DOMAIN Candidates : Candidates[k] \in Present}
             first == {Candidates[k] : k \in {j \in known :
                                              \A l \in known : j <= l}}
  <1>1. /\ Candidates \in Seq(Files) /\ DOMAIN Candidates = 1..Len(Candidates)
        /\ Len(Candidates) \in Nat
    BY BundlerAssumption DEF BundlerAssumption
  <1>2. ASSUME known # {}
        PROVE  \E m \in known : /\ EmulatorBinaries = {Candidates[m]}
                                /\ \A l \in known : m <= l
    <2>1. known \in SUBSET Nat
      BY <1>1
    <2>2. PICK m \in known : \A l \in known : m <= l
      BY <1>2, <2>1, Least
    <2>3. ASSUME NEW j \in known, \A l \in known : j <= l PROVE j = m
      <3>1. j \in Nat /\ m \in Nat /\ j <= m /\ m <= j
        BY <2>1, <2>2, <2>3
      <3> QED BY <3>1
    <2>4. {j \in known : \A l \in known : j <= l} = {m}
      BY <2>2, <2>3
    <2>5. EmulatorBinaries = first
      BY <1>2 DEF EmulatorBinaries
    <2>6. first = {Candidates[m]}
      BY <2>4
    <2> QED BY <2>2, <2>5, <2>6
  <1>3. ASSUME known = {} PROVE EmulatorBinaries # {}
    BY <1>3 DEF EmulatorBinaries
  <1>4. ASSUME NEW k \in DOMAIN Candidates, Candidates[k] \in Present
        PROVE  \E m \in 1..k :
                  /\ EmulatorBinaries = {Candidates[m]}
                  /\ Candidates[m] \in Present
                  /\ \A j \in 1..m - 1 : Candidates[j] \notin Present
    <2>1. k \in known
      BY <1>4
    <2>2. PICK m \in known : /\ EmulatorBinaries = {Candidates[m]}
                             /\ \A l \in known : m <= l
      BY <1>2, <2>1
    <2>3. m \in 1..Len(Candidates) /\ Candidates[m] \in Present /\ m <= k
      BY <1>1, <2>1, <2>2
    <2>4. m \in 1..k
      BY <1>1, <1>4, <2>3
    <2>5. ASSUME NEW j \in 1..m - 1 PROVE Candidates[j] \notin Present
      <3>1. j \in DOMAIN Candidates /\ ~(m <= j)
        BY <1>1, <2>3
      <3> QED BY <2>2, <3>1
    <2> QED BY <2>2, <2>3, <2>4, <2>5
  <1> QED BY <1>2, <1>3, <1>4

-----------------------------------------------------------------------------
(* A download is a bounded piece of work.                                  *)

StageRank == [idle |-> 6, fetch |-> 5, queued |-> 4, extract |-> 3,
              adrift |-> 3, manifest |-> 2, detached |-> 2, done |-> 0]

Locals(t) == <<pc[t], rel[t], report[t], result[t], reading[t], todo[t],
               found[t]>>

\* No download goes on for ever, and none is set back by another
\* (lib.rs:175-256): a step leaves all that a call knows as it is, or brings
\* that call to a later stage, or leaves it fewer entries to unpack; the
\* release it was asked for stays.  The calls share files, never progress.
GoesOn(t) ==
    /\ rel'[t] = rel[t]
    /\ \/ UNCHANGED Locals(t)
       \/ StageRank[pc'[t]] < StageRank[pc[t]]
       \/ /\ pc'[t] = pc[t]
          /\ todo'[t] \subseteq todo[t] /\ todo'[t] # todo[t]

DownloadsProgress == [][\A t \in Tasks : Active(t) => GoesOn(t)]_vars

LEMMA DownloadStep ==
    ASSUME TypeInv, [Next]_vars, NEW t \in Tasks, Active(t)
    PROVE  GoesOn(t)
  <1> USE DEF TypeInv, BundlerTypeOK, GoesOn
  <1>1. CASE UNCHANGED vars
    BY <1>1 DEF vars, taskVars, Locals
  <1>2. ASSUME NEW u \in Tasks, NEW r \in Releases, Begin(u, r)
        PROVE  rel'[t] = rel[t] /\ UNCHANGED Locals(t)
    <2>1. u # t
      BY <1>2 DEF Begin, Active
    <2> QED BY <1>2, <2>1 DEF Begin, Move, Locals
  <1>3. ASSUME NEW u \in Tasks, BeginFails(u) \/ Remove(u) \/ RemoveFails(u)
        PROVE  rel'[t] = rel[t] /\ UNCHANGED Locals(t)
    <2>1. u # t
      BY <1>3 DEF BeginFails, Remove, RemoveFails, Active
    <2> QED
      BY <1>3, <2>1 DEF BeginFails, Remove, RemoveFails, End, Forget, Move,
         Locals
  <1>4. ASSUME NEW u \in Tasks, u # t, Step(u) \/ Drop(u) \/ Kill(u)
        PROVE  rel'[t] = rel[t] /\ UNCHANGED Locals(t)
    <2>1. CASE \/ FetchFails(u) \/ OpenFails(u) \/ ExtractFails(u)
               \/ WriteManifest(u) \/ WriteFails(u)
      BY <1>4, <2>1 DEF FetchFails, OpenFails, ExtractFails, WriteManifest,
         WriteFails, Fail, End, Forget, Move, Locals
    <2>2. CASE \/ Fetched(u) \/ OpenArchive(u) \/ Unpack(u) \/ Discover(u)
               \/ Drop(u)
      BY <1>4, <2>2 DEF Fetched, OpenArchive, Unpack, Discover, Drop, Move,
         Locals
    <2>3. CASE DetachedEnds(u) \/ Kill(u)
      BY <1>4, <2>3 DEF DetachedEnds, Kill, Forget, Move, Locals
    <2> QED BY <1>4, <2>1, <2>2, <2>3 DEF Step
  <1>5. CASE Unpack(t)
    BY <1>5 DEF Unpack
  <1>6. CASE \/ FetchFails(t) \/ OpenFails(t) \/ ExtractFails(t)
             \/ WriteManifest(t) \/ WriteFails(t) \/ DetachedEnds(t)
             \/ Kill(t)
    <2>1. pc'[t] = "done" /\ rel'[t] = rel[t]
      BY <1>6 DEF FetchFails, OpenFails, ExtractFails, WriteManifest,
         WriteFails, DetachedEnds, Kill, Fail, End, Move
    <2> QED BY <2>1 DEF StageRank, Active
  <1>7. CASE Fetched(t) \/ OpenArchive(t) \/ Discover(t) \/ Drop(t)
    BY <1>7 DEF Fetched, OpenArchive, Discover, Drop, Move, StageRank
  <1> QED
    BY <1>1, <1>2, <1>3, <1>4, <1>5, <1>6, <1>7 DEF Next, Step

\* Every download ends within boundedly many of its own steps, whatever other
\* calls do to its archive and directory.
THEOREM DownloadsAreBounded == Spec => DownloadsProgress
  <1>1. ASSUME TypeInv, [Next]_vars
        PROVE  [\A t \in Tasks : Active(t) => GoesOn(t)]_vars
    BY <1>1, DownloadStep
  <1>2. Spec => []TypeInv
    BY TypesInit, TypesStep, PTL DEF Spec
  <1> QED BY <1>1, <1>2, PTL DEF Spec, DownloadsProgress
=============================================================================
