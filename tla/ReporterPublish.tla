---------------------------- MODULE ReporterPublish ----------------------------
(***************************************************************************)
(* publish and _atomic_swap of agents/reporter/registry.py: the bundles of *)
(* an invocation are rendered and verified into a staging directory, the   *)
(* registry follows with its manifest last, and the directory then takes   *)
(* the place of the published one, which is set aside as a backup.         *)
(*                                                                         *)
(* One invocation runs at a time.  It may die between any two steps, and   *)
(* any removal or renaming of a directory may raise.  A directory is what  *)
(* it holds: the outputs (a run, and the invocation that rendered it), the *)
(* rows of its registry files, and whether its manifest.json is there.     *)
(***************************************************************************)
EXTENDS Naturals, Sequences, FiniteSets

CONSTANTS
    Runs,         \* reporter_run_ids
    MaxBundles,   \* bound: bundles of one invocation
    MaxEditions,  \* bound: invocations
    NoDirectory   \* an absent directory

Editions == 1 .. MaxEditions

\* A bundle: its run and whether its note renders and verifies.
Bundles == [run : Runs, sound : BOOLEAN]

BundleLists == UNION {[1 .. n -> Bundles] : n \in 1 .. MaxBundles}

Rows == UNION {[1 .. n -> Runs] : n \in 0 .. MaxBundles}

Dirs == [outputs : SUBSET (Runs \X Editions), registry : Rows, manifest : BOOLEAN]

ASSUME PublishAssumption ==
    MaxBundles \in Nat /\ MaxEditions \in Nat /\ NoDirectory \notin Dirs

Empty == [outputs |-> {}, registry |-> <<>>, manifest |-> FALSE]

VARIABLES
    target,     \* out_root, the published directory
    backup,     \* out_root with the suffix .prev
    staging,    \* out_root with the suffix .staging
    step,       \* the step the invocation is about to take, or "idle"
    edition,    \* the number of this invocation, or of the last one
    bundles,    \* its bundles
    rendered,   \* how many of them are in staging
    \* History.
    ending,     \* how the last invocation ended
    before      \* the published directory when it began

dirs == <<target, backup, staging>>
history == <<ending, before>>
publishVars == <<dirs, step, edition, bundles, rendered, history>>

PublishInit ==
    /\ target = NoDirectory /\ backup = NoDirectory /\ staging = NoDirectory
    /\ step = "idle"
    /\ edition = 0 /\ bundles = <<>> /\ rendered = 0
    /\ ending = "not yet" /\ before = NoDirectory

\* What a removal that stops half way may leave of a directory.
Remnants(d) ==
    [outputs : SUBSET d.outputs, registry : {<<>>, d.registry},
     manifest : {FALSE, d.manifest}]

End(how) == step' = "idle" /\ ending' = how

Goto(next) == step' = next /\ UNCHANGED ending

-------------------------------------------------------------------------------
(* Building the staging directory.                                         *)

(* publish with no bundles raises at once and is no step.                  *)
Begin(list) ==
    /\ step = "idle"
    /\ edition < MaxEditions
    /\ edition' = edition + 1
    /\ bundles' = list
    /\ rendered' = 0
    /\ before' = target
    /\ ending' = "not yet"
    /\ step' = "clear"
    /\ UNCHANGED dirs

\* Wrong: what is in the staging directory stays there.
ClearStagingKept ==
    /\ step = "clear"
    /\ staging' = IF staging = NoDirectory THEN Empty ELSE staging
    /\ Goto("render")
    /\ UNCHANGED <<target, backup, edition, bundles, rendered, before>>

ClearStaging ==
    /\ step = "clear"
    /\ staging' = Empty
    /\ Goto("render")
    /\ UNCHANGED <<target, backup, edition, bundles, rendered, before>>

ClearStagingRaises ==
    /\ step = "clear"
    /\ staging # NoDirectory
    /\ staging' \in Remnants(staging)
    /\ End("raised")
    /\ UNCHANGED <<target, backup, edition, bundles, rendered, before>>

NextBundle == bundles[rendered + 1]

(* render_note, assert_verified, _write_run_outputs.                       *)
Render ==
    /\ step = "render"
    /\ rendered < Len(bundles)
    /\ NextBundle.sound
    /\ staging' = [staging EXCEPT !.outputs = @ \cup {<<NextBundle.run, edition>>}]
    /\ rendered' = rendered + 1
    /\ UNCHANGED <<target, backup, step, edition, bundles, history>>

RenderRaises ==
    /\ step = "render"
    /\ rendered < Len(bundles)
    /\ ~NextBundle.sound
    /\ End("raised")
    /\ UNCHANGED <<dirs, edition, bundles, rendered, before>>

RowsOf(list) == [i \in DOMAIN list |-> list[i].run]

DuplicateRun(list) == \E i, j \in DOMAIN list : i # j /\ list[i].run = list[j].run

(* build_registry, then the six JSONL files.                               *)
WriteRegistry ==
    /\ step = "render"
    /\ rendered = Len(bundles)
    /\ ~DuplicateRun(bundles)
    /\ staging' = [staging EXCEPT !.registry = RowsOf(bundles)]
    /\ Goto("manifest")
    /\ UNCHANGED <<target, backup, edition, bundles, rendered, before>>

BuildRegistryRaises ==
    /\ step = "render"
    /\ rendered = Len(bundles)
    /\ DuplicateRun(bundles)
    /\ End("raised")
    /\ UNCHANGED <<dirs, edition, bundles, rendered, before>>

WriteManifest ==
    /\ step = "manifest"
    /\ staging' = [staging EXCEPT !.manifest = TRUE]
    /\ Goto("swap")
    /\ UNCHANGED <<target, backup, edition, bundles, rendered, before>>

-------------------------------------------------------------------------------
(* _atomic_swap.                                                           *)

InvocationKept == UNCHANGED <<edition, bundles, rendered, before>>

SwapInFirst ==
    /\ step = "swap"
    /\ target = NoDirectory
    /\ target' = staging
    /\ staging' = NoDirectory
    /\ End("returned")
    /\ UNCHANGED backup /\ InvocationKept

ClearBackup ==
    /\ step = "swap"
    /\ target # NoDirectory /\ backup # NoDirectory
    /\ backup' = NoDirectory
    /\ UNCHANGED <<target, staging, step, ending>> /\ InvocationKept

ClearBackupRaises ==
    /\ step = "swap"
    /\ target # NoDirectory /\ backup # NoDirectory
    /\ backup' \in Remnants(backup)
    /\ End("raised")
    /\ UNCHANGED <<target, staging>> /\ InvocationKept

SetAside ==
    /\ step = "swap"
    /\ target # NoDirectory /\ backup = NoDirectory
    /\ backup' = target
    /\ target' = NoDirectory
    /\ Goto("promote")
    /\ UNCHANGED staging /\ InvocationKept

\* Either renaming raises while the published directory is in its place.
RenameRaises ==
    /\ step = "swap"
    /\ target = NoDirectory \/ backup = NoDirectory
    /\ End("raised")
    /\ UNCHANGED dirs /\ InvocationKept

Promote ==
    /\ step = "promote"
    /\ target' = staging
    /\ staging' = NoDirectory
    /\ Goto("drop backup")
    /\ UNCHANGED backup /\ InvocationKept

PromoteRaises ==
    /\ step = "promote"
    /\ Goto("roll back")
    /\ UNCHANGED dirs /\ InvocationKept

\* Wrong: the backup is cleared away, not put back.
RollBackToNothing ==
    /\ step = "roll back"
    /\ backup' = NoDirectory
    /\ End("raised")
    /\ UNCHANGED <<target, staging>> /\ InvocationKept

(* This renaming is taken to succeed: the directory was renamed a moment   *)
(* ago.                                                                    *)
RollBack ==
    /\ step = "roll back"
    /\ target' = backup
    /\ backup' = NoDirectory
    /\ End("raised")
    /\ UNCHANGED staging /\ InvocationKept

\* shutil.rmtree(backup, ignore_errors=True).
DropBackup ==
    /\ step = "drop backup"
    /\ backup' \in {NoDirectory} \cup Remnants(backup)
    /\ End("returned")
    /\ UNCHANGED <<target, staging>> /\ InvocationKept

-------------------------------------------------------------------------------

Die ==
    /\ step # "idle"
    /\ End("crashed")
    /\ UNCHANGED dirs /\ InvocationKept

CrashInRemoval ==
    /\ \/ /\ step = "clear"
          /\ staging # NoDirectory
          /\ staging' \in Remnants(staging)
          /\ UNCHANGED backup
       \/ /\ step = "drop backup" \/ (step = "swap" /\ target # NoDirectory)
          /\ backup # NoDirectory
          /\ backup' \in Remnants(backup)
          /\ UNCHANGED staging
    /\ End("crashed")
    /\ UNCHANGED target /\ InvocationKept

PublishNext ==
    \/ \E list \in BundleLists : Begin(list)
    \/ ClearStaging \/ ClearStagingRaises \/ Render \/ RenderRaises
    \/ WriteRegistry \/ BuildRegistryRaises \/ WriteManifest
    \/ SwapInFirst \/ ClearBackup \/ ClearBackupRaises \/ SetAside \/ RenameRaises
    \/ Promote \/ PromoteRaises \/ RollBack \/ DropBackup
    \/ Die \/ CrashInRemoval

PublishSpec == PublishInit /\ [][PublishNext]_publishVars

-------------------------------------------------------------------------------
(* Properties.                                                             *)

PublicationOf(list, e) ==
    [outputs |-> {<<list[i].run, e>> : i \in DOMAIN list},
     registry |-> RowsOf(list), manifest |-> TRUE]

\* Every note verified (INV-8), every run in the registry once (INV-9).
Publishable(list) ==
    /\ \A i \in DOMAIN list : list[i].sound
    /\ \A i, j \in DOMAIN list : list[i].run = list[j].run => i = j

Whole == {PublicationOf(list, e) : list \in {l \in BundleLists : Publishable(l)},
                                   e \in Editions}

(* publish as a whole is the atomic step AtomicPublication takes: what a   *)
(* reader who falls back on the backup finds is, from the first            *)
(* publication on, one whole publication, of one invocation, verified and  *)
(* without the remains of an earlier one, through every crash and error.   *)
Promise == INSTANCE AtomicPublication
             WITH published <- IF target # NoDirectory THEN target ELSE backup,
                  None <- NoDirectory

PublicationIsAtomic == Promise!Spec

(* publish does what it tells its caller: an invocation that raises, at    *)
(* any step, has left the published directory as it found it (INV-12), and *)
(* one that returns has published its own bundles and nothing else.        *)
OutcomeIsTrue ==
    /\ ending = "raised" => target = before
    /\ ending = "returned" => target = PublicationOf(bundles, edition)

===============================================================================
