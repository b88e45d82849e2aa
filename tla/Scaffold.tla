------------------------------ MODULE Scaffold ------------------------------
(* The command line of cja (cli/src/main.rs): new, init and sync-migrations,  *)
(* run one after the other in a directory somebody also works in. A command   *)
(* is a list of file operations that stops at the first error; a kill may cut *)
(* a write short. cargo is external. The text of the generated files is left  *)
(* out but for the modules a main file has and refers to.                     *)
EXTENDS Naturals, Sequences, SequencesExt, FiniteSets

CONSTANTS MaxCommands, MaxUserEdits     \* bounds

ASSUME ScaffoldAssumption == {MaxCommands, MaxUserEdits} \subseteq Nat

Features == {"jobs", "cron", "sessions"}
CargoToml == "Cargo.toml"
BuildRs == "build.rs"
MainRs == "src/main.rs"
BinRs == "src/bin/app.rs"
JobsSql == <<"AddJobsTable", "AddJobErrorTracking">>
CronSql == <<"AddCrons.up", "AddCrons.down">>
SessionSql == <<"AddSessions.up", "AddSessions.down">>
\* The migrations directory of the installed crate.
CrateSql == JobsSql \o CronSql \o SessionSql \o <<"AddDeadLetterJobs">>
ProjectFiles == {CargoToml, BuildRs, MainRs, BinRs} \cup Range(CrateSql)

VARIABLES
  files,        \* each file: none, whose it is, or torn
  dirs,         \* directories that are there
  binSection,   \* Cargo.toml has the [[bin]] section of the app
  depends,      \* and cja among its dependencies
  command,      \* the command that runs or ran last, its flags and how it ended
  plan,         \* the operations it has left
  lost,         \* history: files of the user that were overwritten
  commands, userEdits

scaffoldVars == <<files, dirs, binSection, depends, command, plan, lost, commands, userEdits>>

NoCommand == [name |-> "none", without |-> {}, end |-> "none"]
Op(kind, on) == [kind |-> kind, on |-> on]
Each(kind, names) == [i \in 1..Len(names) |-> Op(kind, names[i])]

ScaffoldInit ==
  /\ \E mine \in {{}, {CargoToml}, {CargoToml, BuildRs, MainRs}} :
       /\ files = [f \in ProjectFiles |-> IF f \in mine THEN "user" ELSE "none"]
       /\ dirs = IF mine = {} THEN {} ELSE {"project", "src"}
  /\ binSection = FALSE /\ depends = FALSE
  /\ command = NoCommand
  /\ plan = <<>> /\ lost = {} /\ commands = 0 /\ userEdits = 0
-----------------------------------------------------------------------------
(* What is generated, given the features that flags leave out *)

\* generate_spawn_tasks spawns the tasks, generate_main_rs adds the modules.
GenerateSpawnTasks(without) == {"jobs", "cron"} \ without
GenerateMainRs(without) ==
  (IF "jobs" \notin without THEN {"jobs"} ELSE {})
    \cup (IF {"cron", "jobs"} \cap without = {} THEN {"cron"} ELSE {})

\* The migrations both new and init write.
CopyMigrations(without) ==
  Each("write", IF "jobs" \notin without THEN JobsSql ELSE <<>>)
    \o Each("write", IF {"cron", "jobs"} \cap without = {} THEN CronSql ELSE <<>>)
    \o Each("write", IF "sessions" \notin without THEN SessionSql ELSE <<>>)

CreateProject(without) ==
  Each("create_dir", <<"project", "src", "migrations">>)
    \o Each("write", <<CargoToml, MainRs, BuildRs>>)
    \o CopyMigrations(without)

WriteBuildRs_Always == Op("write", BuildRs)
WriteBuildRs == Op("write_if_missing", BuildRs)

InitProject(without) ==
  <<Op("need", CargoToml), Op("no_bin_section", CargoToml), Op("ensure_dir", "bin"),
    Op("need_absent", BinRs), Op("ensure_dir", "migrations"), Op("cargo_add", CargoToml),
    Op("update_bin", CargoToml), Op("write", BinRs), WriteBuildRs>>
    \o CopyMigrations(without)

\* A dry run makes nothing.
SyncMigrations(dryRun) ==
  <<Op("need", CargoToml)>>
    \o (IF dryRun THEN <<>> ELSE <<Op("ensure_dir", "migrations")>>)
    \o <<Op("metadata", CargoToml)>>
    \o (IF dryRun THEN <<>> ELSE Each("write_if_missing", CrateSql))
-----------------------------------------------------------------------------
Idle == plan = <<>>

Begin(name, without, ops) ==
  /\ Idle /\ commands < MaxCommands
  /\ commands' = commands + 1
  /\ command' = [name |-> name, without |-> without, end |-> "running"]
  /\ plan' = ops
  /\ UNCHANGED <<files, dirs, binSection, depends, lost, userEdits>>

Main ==
  \/ \E without \in SUBSET Features :
       Begin("new", without, CreateProject(without)) \/ Begin("init", without, InitProject(without))
  \/ Begin("sync", {}, SyncMigrations(FALSE)) \/ Begin("dry_run", {}, SyncMigrations(TRUE))

Written(f, how) ==
  /\ files' = [files EXCEPT ![f] = how]
  /\ lost' = IF files[f] = "user" THEN lost \cup {<<f, how>>} ELSE lost

\* One operation of the command takes effect; it may also fail instead.
Perform ==
  /\ ~Idle
  /\ LET op == Head(plan)
     IN \/ /\ op.kind \in {"create_dir", "ensure_dir"}
           /\ op.kind = "create_dir" => op.on \notin dirs
           /\ dirs' = dirs \cup {op.on} /\ UNCHANGED <<files, binSection, depends, lost>>
        \/ /\ \/ op.kind = "need" /\ files[op.on] # "none"
              \/ op.kind = "need_absent" /\ files[op.on] = "none"
              \/ op.kind = "no_bin_section" /\ ~binSection /\ files[op.on] # "torn"
              \/ op.kind = "metadata" /\ depends /\ files[op.on] # "torn"
              \/ op.kind = "write_if_missing" /\ files[op.on] # "none"
           /\ UNCHANGED <<files, dirs, binSection, depends, lost>>
        \/ /\ op.kind = "cargo_add" /\ depends' = TRUE
           /\ UNCHANGED <<files, dirs, binSection, lost>>
        \/ /\ op.kind = "update_bin" /\ binSection' = TRUE
           /\ UNCHANGED <<files, dirs, depends, lost>>
        \/ /\ \/ op.kind = "write"
              \/ op.kind = "write_if_missing" /\ files[op.on] = "none"
           /\ Written(op.on, "cja")
           /\ binSection' = (binSection /\ op.on # CargoToml)
           /\ depends' = (depends \/ op.on = CargoToml)
           /\ UNCHANGED dirs
  /\ plan' = Tail(plan)
  /\ command' = [command EXCEPT !.end = IF Len(plan) = 1 THEN "ok" ELSE @]
  /\ UNCHANGED <<commands, userEdits>>

\* A condition that does not hold or an error ends the command with what it has done:
\* cja may be among the dependencies already when a later one cannot be added.
Bail ==
  /\ ~Idle
  /\ plan' = <<>> /\ command' = [command EXCEPT !.end = "error"]
  /\ depends' \in {depends, depends \/ Head(plan).kind = "cargo_add"}
  /\ UNCHANGED <<files, dirs, binSection, lost, commands, userEdits>>

\* Killed in the middle of a write. Cargo.toml is rewritten in place.
Cut ==
  /\ ~Idle /\ Head(plan).kind \in {"write", "write_if_missing", "update_bin"}
  /\ Head(plan).kind = "write_if_missing" => files[Head(plan).on] = "none"
  /\ Written(Head(plan).on, "torn")
  /\ plan' = <<>> /\ command' = [command EXCEPT !.end = "killed"]
  /\ UNCHANGED <<dirs, binSection, depends, commands, userEdits>>

\* Between commands somebody writes or removes a file.
UserEdits ==
  /\ Idle /\ userEdits < MaxUserEdits /\ userEdits' = userEdits + 1
  /\ "project" \in dirs
  /\ \E f \in ProjectFiles, how \in {"user", "none"} :
       /\ how # files[f] /\ (f = CargoToml => how = "user")
       /\ files' = [files EXCEPT ![f] = how]
  /\ command' = NoCommand
  /\ UNCHANGED <<dirs, binSection, depends, plan, lost, commands>>

ScaffoldNext == Main \/ Perform \/ Bail \/ Cut \/ UserEdits

ScaffoldSpec == ScaffoldInit /\ [][ScaffoldNext]_scaffoldVars
-----------------------------------------------------------------------------
(* Properties *)

ScaffoldTypeOK ==
  /\ files \in [ProjectFiles -> {"none", "user", "cja", "torn"}]
  /\ dirs \subseteq {"project", "src", "bin", "migrations"}
  /\ binSection \in BOOLEAN /\ depends \in BOOLEAN
  /\ command.end \in {"none", "running", "ok", "error", "killed"} /\ command.without \subseteq Features
  /\ lost \subseteq ProjectFiles \X {"cja", "torn"} /\ commands \in 0..MaxCommands /\ userEdits \in 0..MaxUserEdits

\* What somebody wrote survives every sequence of commands, completed or cut short,
\* but for a migration under one of cja's own names, which init writes without
\* looking, and a Cargo.toml that init was killed in the middle of rewriting.
UserFilesKept ==
  \A l \in lost : l[1] \in Range(JobsSql \o CronSql \o SessionSql) \/ l = <<CargoToml, "torn">>

\* A command that reports success has left the files it stands for, whatever earlier
\* commands had begun, completed or not: the dependency, the main file, build.rs and
\* the migrations of the features that were not left out.
ReportedWhole ==
  command.end = "ok" /\ command.name # "dry_run" =>
    /\ depends /\ files[CargoToml] # "none"
    /\ command.name = "sync" => \A f \in Range(CrateSql) : files[f] # "none"
    /\ command.name \in {"new", "init"} =>
         /\ \A op \in Range(CopyMigrations(command.without)) : files[op.on] = "cja"
         /\ files[BuildRs] # "none" /\ files[IF command.name = "new" THEN MainRs ELSE BinRs] = "cja"

\* What the documentation of the command line says of --no-jobs: it leaves cron out as
\* well, in the main file that a successful new or init has written.
NoJobsNoCron ==
  command.end = "ok" /\ command.name \in {"new", "init"} /\ "jobs" \in command.without =>
    "cron" \notin GenerateSpawnTasks(command.without) \cup GenerateMainRs(command.without)
=============================================================================
