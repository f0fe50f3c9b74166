----------------------------- MODULE Configurator -----------------------------
(***************************************************************************)
(* The configurator: a command that an operator runs, once or repeatedly,  *)
(* to make the kube-scheduler of a control plane use the extenders.  It     *)
(* edits the scheduler's static pod manifest, installs a scheduler config   *)
(* and certificates, and changes the extenders' deployment files for old    *)
(* clusters.                                                                *)
(*                                                                         *)
(* os.WriteFile truncates a file and then fills it, so a write is two      *)
(* steps, and a run may die, or fail and panic, before and after each step. *)
(* Files hold what the configurator tells apart.  A file that was truncated *)
(* is taken for one that does not parse.                                    *)
(***************************************************************************)
EXTENDS Integers, Sequences, SequencesExt

CONSTANTS
    Manifests,   \* manifests that an installer writes: [minor, command, mounts,
                 \* volumes, dnsPolicy, marshalled]; minor None: no version in the
                 \* image name; command None: the container has none
    Templates,   \* scheduler configurations that may be installed
    OldConfigs,  \* what may be at the destination of the config before
    Invocations, \* flags of a run: [dryRun, backup, deployments]
    None, Missing, Partial,
    Depth,       \* folders on the path of certDir that may be missing, certDir included
    MaxRuns, MaxFaults,
    MaxChanges   \* bound: changes the operator makes between runs

\* The configurator's volumes, and the flags that it drops.
SchedulerConfigID == "schedulerconfig"
CertDirID == "certdir"
Ours == {SchedulerConfigID, CertDirID}
Dropped == {"config", "policy-configmap", "policy-configmap-namespace"}

\* Arguments of the scheduler's command, and names of volumes, some of which are
\* missing.
Args == [name : Dropped \cup STRING, equals : BOOLEAN]
Names == Ours \cup STRING \cup {None}

AllManifests ==
    [minor : Nat \cup {None}, command : Seq(Args) \cup {None}, mounts : Seq(Names),
     volumes : Seq(Names), dnsPolicy : BOOLEAN, marshalled : BOOLEAN]
AllConfigs == [template : Templates, version : {"v1beta1", "v1beta2", "v1"}]

ASSUME ConfiguratorAssumption ==
    /\ Manifests \subseteq AllManifests
    /\ \A f \in Invocations : f.dryRun \in BOOLEAN /\ f.backup \in BOOLEAN
    /\ None \notin Nat /\ None \notin Seq(Args)
    /\ \A x \in {Missing, Partial} : x \notin AllManifests /\ x \notin AllConfigs
    /\ Missing \notin {Partial, "ca.key", "ca.crt"}
    /\ Depth \in Nat \ {0}
    /\ MaxRuns \in Nat /\ MaxFaults \in Nat /\ MaxChanges \in Nat

VARIABLES
    files,        \* what is at each path
    certDirs,     \* how many folders of the path of certDir there are
    folders,      \* backup folders
    run,          \* the run that is going on
    template,     \* what is at configPath
    overwritten,  \* history: contents that runs with backups have replaced
    settled,      \* history: None, or the backup folders there were when a real run
                  \* came to its end, if nothing failed or was changed since
    last,         \* history: the run that ended last, if it was a dry one and nothing
                  \* was changed since, else Idle
    runs, changes, faults

operatorVars == <<template, changes>>
vars == <<files, certDirs, folders, run, operatorVars, overwritten, settled, last, runs, faults>>

Places == {"manifest", "config", "key", "crt", "tas", "gas"}
Idle == [step |-> "idle"]
NoWrite == [file |-> "none"]

-----------------------------------------------------------------------------
(* The manifest. *)

ConfigArg == [name |-> "config", equals |-> TRUE]

\* Mutant: a flag is dropped, its value is not.
SetCommandKeepsValues(command) ==
    Append(SelectSeq(command, LAMBDA a : a.name \notin Dropped), ConfigArg)

\* SetCommand: a flag without '=' takes the next argument with it.
TakeArg(acc, a) ==
    IF acc.skipNext THEN [acc EXCEPT !.skipNext = FALSE]
    ELSE IF a.name \in Dropped THEN [acc EXCEPT !.skipNext = ~a.equals]
    ELSE [acc EXCEPT !.kept = Append(@, a)]
NoArgs == [skipNext |-> FALSE, kept |-> <<>>]
SetCommand(command) == Append(FoldLeft(TakeArg, NoArgs, command).kept, ConfigArg)

\* SetContainerVolumeMounts and setVolumes; an entry without a name is dropped.
TakeName(kept, x) == IF x = None \/ x \in Ours THEN kept ELSE Append(kept, x)
SetVolumes(names) == FoldLeft(TakeName, <<>>, names) \o <<SchedulerConfigID, CertDirID>>

\* What run makes of the manifest, marshalled.
Modified(m) ==
    [m EXCEPT !.command = SetCommand(@), !.mounts = SetVolumes(@), !.volumes = SetVolumes(@),
              !.dnsPolicy = TRUE, !.marshalled = TRUE]

getSchedulerAPIVersion(minor) ==
    CASE minor < 22 -> "v1beta1" [] minor \in 22..24 -> "v1beta2" [] minor > 24 -> "v1"

ConfigFor(minor) == [template |-> template, version |-> getSchedulerAPIVersion(minor)]

-----------------------------------------------------------------------------
Init ==
    /\ template \in Templates
    /\ \E m \in Manifests, c \in OldConfigs :
          files = [p \in Places |-> CASE p = "manifest" -> m
                                      [] p = "config"   -> c
                                      [] p \in {"key", "crt"} -> Missing
                                      [] p \in {"tas", "gas"} -> "control-plane"]
    /\ certDirs \in 0..Depth
    /\ folders = [i \in {} |-> None]
    /\ run = Idle /\ last = Idle
    /\ overwritten = {} /\ settled = None
    /\ runs = 0 /\ changes = 0 /\ faults = 0

(* The operator. *)

Start(f) ==
    /\ run = Idle /\ runs < MaxRuns
    /\ runs' = runs + 1
    /\ run' = [step |-> "check", flags |-> f, orig |-> None, new |-> None, folder |-> None,
               numChanges |-> FALSE, writing |-> NoWrite, failed |-> FALSE,
               before |-> [files |-> files, certDirs |-> certDirs, faults |-> faults]]
    /\ last' = Idle
    /\ UNCHANGED <<files, certDirs, folders, operatorVars, overwritten, settled, faults>>

\* What was said of earlier runs no longer holds.
Forget == settled' = None /\ last' = Idle

Between == run = Idle /\ changes < MaxChanges /\ changes' = changes + 1 /\ Forget

\* The cluster is upgraded: the installer writes the manifest again.
ReplaceManifest(m) ==
    /\ Between
    /\ files' = [files EXCEPT !["manifest"] = m]
    /\ UNCHANGED <<certDirs, folders, run, template, overwritten, runs, faults>>

ChangeTemplate(t) ==
    /\ Between /\ t # template
    /\ template' = t
    /\ UNCHANGED <<files, certDirs, folders, run, overwritten, runs, faults>>

\* A manifest that was destroyed is taken from a backup.
RestoreManifest(i) ==
    /\ run = Idle /\ files["manifest"] = Partial
    /\ folders[i]["manifest"] \notin {Missing, Partial}
    /\ files' = [files EXCEPT !["manifest"] = folders[i]["manifest"]]
    /\ Forget
    /\ UNCHANGED <<certDirs, folders, run, operatorVars, overwritten, runs, faults>>

-----------------------------------------------------------------------------
(* Steps of a run. *)

At(step) == run.step = step /\ run.writing = NoWrite
GoTo(step) == run' = [run EXCEPT !.step = step]
\* The variables that only some steps change, and those that a run never changes.
fixedVars == <<operatorVars, runs>>
OnlyRun ==
    UNCHANGED <<files, certDirs, folders, overwritten, settled, last, faults, fixedVars>>

\* The process ends.
End == run' = Idle /\ last' = IF run.flags.dryRun THEN run ELSE Idle

\* An error: run recovers from the panic and returns.
Panic == End /\ settled' = None

\* os.WriteFile of a file in its place, up to the truncation.
Truncate(p, content, r) ==
    /\ files' = [files EXCEPT ![p] = Partial]
    /\ run' = [r EXCEPT !.writing = [file |-> p, content |-> content, saved |-> FALSE]]
    /\ overwritten' =
          IF run.flags.backup /\ p \in {"manifest", "config"} /\ files[p] \notin {Missing, Partial}
          THEN overwritten \cup {<<p, files[p]>>} ELSE overwritten
    /\ UNCHANGED <<certDirs, folders, settled, last, faults, fixedVars>>

\* os.WriteFile in the backup folder, up to the truncation.
Save(p, next) ==
    /\ folders' = [folders EXCEPT ![run.folder][p] = Partial]
    /\ run' = [run EXCEPT !.step = next,
                          !.writing = [file |-> p, content |-> files[p], saved |-> TRUE]]
    /\ UNCHANGED <<files, certDirs, overwritten, settled, last, faults, fixedVars>>

FinishWrite ==
    /\ run # Idle /\ run.writing # NoWrite
    /\ LET w == run.writing
       IN IF w.saved
          THEN folders' = [folders EXCEPT ![run.folder][w.file] = w.content] /\ UNCHANGED files
          ELSE files' = [files EXCEPT ![w.file] = w.content] /\ UNCHANGED folders
    /\ run' = [run EXCEPT !.writing = NoWrite]
    /\ UNCHANGED <<certDirs, overwritten, settled, last, faults, fixedVars>>

\* checkFileAccesses: a config that is not there is created to see if it can be,
CheckFileAccesses ==
    /\ At("check")
    /\ IF files["config"] = Missing
       THEN GoTo("remove") /\ files' = [files EXCEPT !["config"] = Partial]
       ELSE GoTo("certDir") /\ UNCHANGED files
    /\ UNCHANGED <<certDirs, folders, overwritten, settled, last, faults, fixedVars>>

\* and removed again;
RemoveCreated ==
    /\ At("remove")
    /\ files' = [files EXCEPT !["config"] = Missing]
    /\ GoTo("certDir")
    /\ UNCHANGED <<certDirs, folders, overwritten, settled, last, faults, fixedVars>>

\* os.MkdirAll(certDir), one folder at a time: the next step depends on whether certDir
\* was there or has been made.
MkdirAll(step, there, made) ==
    /\ At(step)
    /\ IF certDirs = Depth
       THEN GoTo(there) /\ UNCHANGED certDirs
       ELSE /\ certDirs' = certDirs + 1
            /\ run' = IF certDirs + 1 = Depth THEN [run EXCEPT !.step = made] ELSE run
    /\ UNCHANGED <<files, folders, overwritten, settled, last, faults, fixedVars>>

\* Mutant: a certDir that was there is removed too.
ProbeAnyCertDir == MkdirAll("certDir", "removeDir", "removeDir")

\* so is certDir, with the folders above it,
ProbeCertDir == MkdirAll("certDir", "read", "removeDir")

\* and os.RemoveAll takes it away with what is in it, but not the folders above it.
RemoveCertDir ==
    /\ At("removeDir")
    /\ certDirs' = certDirs - 1
    /\ files' = [files EXCEPT !["key"] = Missing, !["crt"] = Missing]
    /\ GoTo("read")
    /\ UNCHANGED <<folders, overwritten, settled, last, faults, fixedVars>>

\* An access that is refused is put down and the checks go on: with the next file after
\* one that is only opened, or with certDir after the config.  An error of RemoveAll
\* is ignored.
Checks == {<<"check", "check">>, <<"check", "certDir">>, <<"remove", "certDir">>,
           <<"certDir", "read">>, <<"removeDir", "read">>}
CheckFails ==
    /\ run # Idle /\ run.writing = NoWrite /\ faults < MaxFaults
    /\ faults' = faults + 1
    /\ \E c \in Checks :
          /\ run.step = c[1]
          /\ run' = [run EXCEPT !.step = c[2],
                                !.failed = IF c[1] = "removeDir" THEN @ ELSE TRUE]
    /\ UNCHANGED <<files, certDirs, folders, overwritten, settled, last, fixedVars>>

\* What was put down is an error now.
Readable == ~run.failed /\ files["manifest"] # Partial /\ files["manifest"].minor # None

\* readManifest and readSchedulerMinorVersion
ReadManifest ==
    /\ At("read") /\ Readable
    /\ run' = [run EXCEPT !.orig = files["manifest"],
                          !.step = IF run.flags.dryRun THEN "set" ELSE "backup"]
    /\ OnlyRun

ReadFails ==
    /\ At("read") /\ ~Readable
    /\ Panic
    /\ UNCHANGED <<files, certDirs, folders, overwritten, faults, fixedVars>>

\* createBackups: a new folder, unless the destination is /dev/null,
MakeFolder ==
    /\ At("backup")
    /\ \/ /\ run.flags.backup
          /\ folders' = [i \in DOMAIN folders \cup {runs} |->
                             IF i = runs THEN [manifest |-> Missing, config |-> Missing]
                             ELSE folders[i]]
          /\ run' = [run EXCEPT !.step = "saveManifest", !.folder = runs]
       \/ ~run.flags.backup /\ GoTo("mkdir") /\ UNCHANGED folders
    /\ UNCHANGED <<files, certDirs, overwritten, settled, last, faults, fixedVars>>

\* Mutant: a config that exists is not saved.
SaveManifestOnly == At("saveManifest") /\ Save("manifest", "mkdir")

\* with a copy of the manifest and of the config, if there is one.
SaveManifest ==
    /\ At("saveManifest")
    /\ Save("manifest", IF files["config"] = Missing THEN "mkdir" ELSE "saveConfig")

SaveConfig == At("saveConfig") /\ Save("config", "mkdir")

\* copyCerts
MakeCertDir == MkdirAll("mkdir", "key", "key")
CopyKey == At("key") /\ Truncate("key", "ca.key", [run EXCEPT !.step = "crt"])
CopyCrt == At("crt") /\ Truncate("crt", "ca.crt", [run EXCEPT !.step = "set"])

\* SetCommand, SetContainerVolumeMounts, setVolumes and dnsPolicy, in memory.
SetManifest ==
    /\ At("set") /\ run.orig.command # None
    /\ run' = [run EXCEPT !.new = Modified(run.orig), !.step = "config"]
    /\ OnlyRun

SetFails ==
    /\ At("set") /\ run.orig.command = None
    /\ Panic
    /\ UNCHANGED <<files, certDirs, folders, overwritten, faults, fixedVars>>

NewConfig == ConfigFor(run.orig.minor)

\* Mutant: a config that exists is taken for the right one.
CreateConfigOnce ==
    /\ At("config") /\ run.orig.minor >= 19
    /\ \/ (run.flags.dryRun \/ files["config"] # Missing) /\ GoTo("tas") /\ OnlyRun
       \/ /\ ~run.flags.dryRun /\ files["config"] = Missing
          /\ Truncate("config", NewConfig, [run EXCEPT !.step = "tas", !.numChanges = TRUE])

\* createConfig, for a supported version; an equal config is not written.
CreateConfig ==
    /\ At("config") /\ run.orig.minor >= 19
    /\ \/ (run.flags.dryRun \/ files["config"] = NewConfig) /\ GoTo("tas") /\ OnlyRun
       \/ /\ ~run.flags.dryRun /\ files["config"] # NewConfig
          /\ Truncate("config", NewConfig, [run EXCEPT !.step = "tas", !.numChanges = TRUE])

CreateConfigFails ==
    /\ At("config") /\ run.orig.minor < 19
    /\ Panic
    /\ UNCHANGED <<files, certDirs, folders, overwritten, faults, fixedVars>>

\* strings.ReplaceAll of what can be read; a truncated file stays one.
Renamed(content) == IF content = Partial THEN Partial ELSE "master"

\* modifyDeployments: written whether or not they change, and not counted.
ModifyDeployment(p, next) ==
    /\ At(p)
    /\ \/ /\ run.orig.minor >= 24 \/ p \notin run.flags.deployments \/ run.flags.dryRun
          /\ GoTo(next) /\ OnlyRun
       \/ /\ run.orig.minor < 24 /\ p \in run.flags.deployments /\ ~run.flags.dryRun
          /\ Truncate(p, Renamed(files[p]), [run EXCEPT !.step = next])

\* writeManifest
WriteManifest ==
    /\ At("manifest")
    /\ \/ (run.flags.dryRun \/ run.new = run.orig) /\ GoTo("finish") /\ OnlyRun
       \/ /\ ~run.flags.dryRun /\ run.new # run.orig
          /\ Truncate("manifest", run.new, [run EXCEPT !.step = "finish", !.numChanges = TRUE])

\* Mutant: the folder stays.
KeepFolder == folders

\* os.RemoveAll of the backup of files that were not changed: file by file,
Removable == run.folder # None /\ ~run.numChanges

RemoveBackup(p) ==
    /\ At("finish") /\ Removable
    /\ folders[run.folder][p] # Missing
    /\ folders' = [folders EXCEPT ![run.folder][p] = Missing]
    /\ UNCHANGED <<files, certDirs, run, overwritten, settled, last, faults, fixedVars>>

\* and then the folder.
FoldersLeft ==
    IF Removable THEN [i \in DOMAIN folders \ {run.folder} |-> folders[i]] ELSE folders

Finish ==
    /\ At("finish")
    /\ Removable => \A p \in {"manifest", "config"} : folders[run.folder][p] = Missing
    /\ folders' = FoldersLeft
    /\ End
    /\ settled' = IF run.flags.dryRun \/ settled # None THEN settled ELSE DOMAIN folders'
    /\ UNCHANGED <<files, certDirs, overwritten, faults, fixedVars>>

\* An I/O error, or the end of the process, anywhere.  At the step "finish" it is also
\* an error of RemoveAll, which run ignores.
Fail ==
    /\ run # Idle /\ faults < MaxFaults
    /\ faults' = faults + 1
    /\ Panic
    /\ UNCHANGED <<files, certDirs, folders, overwritten, fixedVars>>

-----------------------------------------------------------------------------
Next ==
    \/ \E f \in Invocations : Start(f)
    \/ (\E m \in Manifests : ReplaceManifest(m)) \/ (\E t \in Templates : ChangeTemplate(t))
    \/ \E i \in DOMAIN folders : RestoreManifest(i)
    \/ CheckFileAccesses \/ RemoveCreated \/ ProbeCertDir \/ RemoveCertDir \/ CheckFails
    \/ ReadManifest \/ ReadFails \/ MakeFolder \/ SaveManifest \/ SaveConfig
    \/ MakeCertDir \/ CopyKey \/ CopyCrt
    \/ SetManifest \/ SetFails \/ CreateConfig \/ CreateConfigFails
    \/ ModifyDeployment("tas", "gas") \/ ModifyDeployment("gas", "manifest")
    \/ WriteManifest \/ FinishWrite \/ (\E p \in {"manifest", "config"} : RemoveBackup(p))
    \/ Finish \/ Fail

Spec == Init /\ [][Next]_vars

-----------------------------------------------------------------------------
(* Properties *)

Saved(p, content) == \E i \in DOMAIN folders : folders[i][p] = content

\* "By default the configurator creates backups of the scheduler deployment yaml
\* and config file before writing to them": whatever failed, was repeated or was
\* found unchanged, all that runs with backups replaced is in some folder.
BackupsComplete == \A o \in overwritten : Saved(o[1], o[2])

\* The manifest makes the scheduler read its config, with the volumes for it.
UsesConfig(m) ==
    /\ {k \in DOMAIN m.command : m.command[k].name \in Dropped} = {Len(m.command)}
    /\ Last(m.command) = ConfigArg
    /\ \A v \in Ours, names \in {m.mounts, m.volumes} :
          \E k \in DOMAIN names : \A x \in DOMAIN names : names[x] = v <=> x = k

\* Config and certificates for a scheduler of this version.
InPlace(minor) ==
    files["config"] = ConfigFor(minor) /\ files["key"] = "ca.key" /\ files["crt"] = "ca.crt"

ManifestWritten == run # Idle /\ files'["manifest"] \notin {Partial, files["manifest"]}

\* The kubelet restarts the scheduler as soon as the manifest changes: a run writes
\* it last, when the certificates and the config in the version of the scheduler
\* are in their places.
ManifestLast ==
    [][ManifestWritten =>
        UsesConfig(files'["manifest"]) /\ InPlace(files'["manifest"].minor)]_vars

\* After a run that came to its end ("Done.") everything is in place, whatever
\* earlier runs left behind, and no argument of the scheduler is left whose flag
\* was dropped.
DoneMeansConfigured ==
    settled # None =>
        LET m == files["manifest"]
        IN /\ m # Partial /\ UsesConfig(m) /\ m.dnsPolicy
           /\ \A k \in DOMAIN m.command : m.command[k].name # "value"
           /\ files["config"] = ConfigFor(m.minor)
           /\ files["key"] # Missing /\ files["crt"] # Missing

\* Running it again changes neither manifest nor config and leaves no folder.
Idempotent ==
    [][settled # None /\ settled' # None =>
        /\ files'["manifest"] = files["manifest"] /\ files'["config"] = files["config"]
        /\ run' = Idle => DOMAIN folders' = settled]_vars

\* Something failed in run r, or ended it.
Disturbed(r) == r.before.faults < faults

\* The traces that the access check may leave.  Each file is what it was before run r,
\* except that there is an empty config where there was none if the check was kept from
\* removing it - and then the run did not come past the check.  No folder is gone; the
\* missing folders above certDir stay, and certDir too if something kept the check from
\* removing it.
OnlyTraces(r) ==
    /\ \A p \in Places : files[p] # r.before.files[p] =>
          /\ p = "config" /\ r.before.files[p] = Missing /\ files[p] = Partial
          /\ r.step \in {"remove", "certDir", "removeDir", "read"}
          /\ r.step = "remove" \/ Disturbed(r)
    /\ r.before.certDirs <= certDirs
    /\ r.before.certDirs < Depth /\ certDirs = Depth => r.step = "removeDir" \/ Disturbed(r)

\* "Trial run ... but no real changes" holds but for those traces, during a dry run and
\* after it, whichever way it ended.
DryRunPure ==
    LET r == IF run # Idle THEN run ELSE last
    IN r # Idle /\ r.flags.dryRun => OnlyTraces(r)
=============================================================================
