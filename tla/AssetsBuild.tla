----------------------------- MODULE AssetsBuild -----------------------------
(* AssetsBuilder::build of cja-build/src/lib.rs, run by cargo whenever a path *)
(* it asked to watch has changed, while somebody edits the sources. Cargo,    *)
(* tsc, Rolldown and the Tailwind CLI are external: tsc accepts or refuses    *)
(* what it reads, the others turn what they read into bytes.                  *)
EXTENDS Naturals, Sequences, SequencesExt, FiniteSets

CONSTANTS
  Statics, Later,       \* files of the static directory; those not there at first
  Entry, Lib,           \* the entry and a module it imports, in the frontend root
  Ambient,              \* a declaration that tsc lists, outside the frontend root
  Config, BaseConfig,   \* tsconfig.json and the config it extends
  Sheet, Part,          \* the Tailwind input and another style sheet
  Stray,                \* a declaration only an include pattern of BaseConfig selects
  View,                 \* what lies in the @source directory
  Ignore,               \* an ignore file in a directory above it
  Legacy,               \* tailwind.config.js, or another of its names, beside the input
  Env,                  \* the environment that selects and finds the tools
  Logical(_),           \* a file's logical output name
  MapName,              \* that of the entry's source map
  Extends(_, _),        \* the configs a config of a given version extends
  Css(_, _),            \* what directives finds in a style sheet of a given version
  TypeChecks(_, _), Bundles(_, _),  \* what tsc, and Rolldown with its plugin, accept
  Odd,                  \* versions of a static file that is no regular file with an
                        \* allowed name, and of a @source directory with a symlink in it
  MaxContent, MaxEdits, MaxRuns     \* bounds

Sources == {Entry, Lib}
Listed == Sources \cup {Ambient}
Configs == {Config, BaseConfig}
Sheets == {Sheet, Part}
Tracked == Statics \cup Listed \cup Configs \cup Sheets \cup {View, Env}
Sometimes == {Stray, Ignore, Legacy}
Files == Tracked \cup Sometimes
Absent == 0
Versions == Absent..MaxContent

ASSUME AssetsAssumption ==
  /\ IsFiniteSet(Statics)
  /\ Tracked \cap Sometimes = {} /\ Stray # Ignore /\ Stray # Legacy /\ Ignore # Legacy
  /\ MaxContent \in Nat \ {0} /\ {MaxEdits, MaxRuns} \subseteq Nat
  /\ \A f \in Configs, v \in Versions : Extends(f, v) \subseteq Configs
  /\ \A f \in Sheets, v \in Versions : Css(f, v).imports \in Seq(Sheets)

VARIABLES
  content,      \* the version of each file now
  at,           \* the step the build script is at; idle between runs
  todo,         \* the files left for that step
  outputs,      \* AssetsBuilder's records
  watched,      \* the files whose changes cargo was asked to look for
  seenCss,      \* VisitState.seen
  disk,         \* OUT_DIR/cja-assets: hashed name and bytes
  tmp,          \* OUT_DIR/cja_assets.rs.tmp
  manifest,     \* OUT_DIR/cja_assets.rs
  verdict,      \* how the last run ended
  dirty,        \* files edited since the last run began
  edits, runs   \* counters for the bounds

build == <<at, todo, outputs, watched, seenCss>>
outDir == <<disk, tmp, manifest>>
assetsVars == <<content, build, outDir, verdict, dirty, edits, runs>>

NoList == <<"no list">>

AssetsInit ==
  /\ content = [f \in Files |-> IF f \in Later THEN Absent ELSE 1]
  /\ at = "idle" /\ todo = <<>> /\ outputs = <<>>
  /\ watched = {} /\ seenCss = {}
  /\ disk = {} /\ tmp = NoList /\ manifest = NoList
  /\ verdict = "never ran" /\ dirty = {} /\ edits = 0 /\ runs = 0
-----------------------------------------------------------------------------
(* Sources and cargo *)

Edit(f, v) ==
  /\ edits < MaxEdits /\ v # content[f]
  /\ content' = [content EXCEPT ![f] = v]
  /\ dirty' = dirty \cup {f}
  /\ edits' = edits + 1
  /\ UNCHANGED <<build, outDir, verdict, runs>>

\* Cargo starts the script unless its last run ended well and no watched path has
\* changed since that run began.
UpToDate == verdict = "ok" /\ watched \cap dirty = {}

\* build_in begins by removing OUT_DIR/cja-assets ...
CargoRuns ==
  /\ at = "idle" /\ ~UpToDate /\ runs < MaxRuns
  /\ runs' = runs + 1
  /\ dirty' = {} /\ watched' = {} /\ outputs' = <<>> /\ seenCss' = {}
  /\ disk' = {} /\ verdict' = "running"
  /\ at' = "unlist" /\ todo' = <<>>
  /\ UNCHANGED <<content, tmp, manifest, edits>>

ToStep(step, files) == at' = step /\ todo' = files

\* An I/O error, a refused watch, a tool that cannot be found or run, or an input
\* that the next step does not allow ends build with an error wherever it is; and
\* the script can be killed.
Stopped ==
  /\ at # "idle"
  /\ ToStep("idle", <<>>) /\ verdict' \in {"error", "killed"}
  /\ UNCHANGED <<content, outputs, watched, seenCss, outDir, dirty, edits, runs>>

Continue == UNCHANGED <<content, outDir, verdict, dirty, edits, runs>>

\* env_watch_keys, and watch_dir for paths.
EnvWatchKeys == {Env}
WatchDir(files) == watched' = watched \cup files

\* ... and then the manifest, and asks for the environment to be watched.
RemoveManifest ==
  /\ at = "unlist"
  /\ manifest' = NoList
  /\ WatchDir(EnvWatchKeys) /\ ToStep("static", <<>>)
  /\ UNCHANGED <<content, outputs, seenCss, disk, tmp, verdict, dirty, edits, runs>>
-----------------------------------------------------------------------------
(* Records *)

\* What an output is made of. Two contents have different hashes.
Bytes(c, kind, files, link) ==
  [kind |-> kind, of |-> {<<f, c[f]>> : f \in files}, link |-> link]

Record(name, bytes) == [logical |-> name, hashed |-> <<name, bytes>>, bytes |-> bytes]

Clashes(recs, new) ==
  \E i \in 1..Len(recs) : recs[i].logical = new.logical \/ recs[i].hashed = new.hashed

AddOutput(new) == ~Clashes(outputs, new) /\ outputs' = Append(outputs, new)
-----------------------------------------------------------------------------
(* The static directory *)

Present(files) == {f \in files : content[f] # Absent}
Regular(f) == content[f] \notin Odd

\* The whole directory is watched; collect_files refuses what is not a regular file.
CollectFiles ==
  /\ at = "static" /\ todo = <<>>
  /\ WatchDir(Statics)
  /\ \A f \in Present(Statics) : Regular(f)
  /\ IF Present(Statics) = {} THEN ToStep("config", <<>>)
     ELSE ToStep("read", SetToSeq(Present(Statics)))
  /\ UNCHANGED <<outputs, seenCss>> /\ Continue

ReadStatic ==
  /\ at = "read"
  /\ content[Head(todo)] # Absent
  /\ AddOutput(Record(Logical(Head(todo)), Bytes(content, "file", {Head(todo)}, {})))
  /\ IF Len(todo) = 1 THEN ToStep("config", <<>>) ELSE ToStep("read", Tail(todo))
  /\ UNCHANGED <<watched, seenCss>> /\ Continue
-----------------------------------------------------------------------------
(* The TypeScript entry *)

\* watch_config follows extends; seen ends a cycle. Of the include patterns only those
\* of the first config are watched, and they select nothing that tsc does not list.
ConfigChain(c) == {Config} \cup Extends(Config, c[Config]) \cup
                  UNION {Extends(g, c[g]) : g \in Extends(Config, c[Config])}

WatchConfig ==
  /\ at = "config" /\ content[Config] # Absent
  /\ \A g \in ConfigChain(content) : content[g] # Absent
  /\ WatchDir(Sources \cup {Config} \cup ConfigChain(content))
  /\ ToStep("types", <<>>)
  /\ UNCHANGED <<outputs, seenCss>> /\ Continue

\* validate_entries: neither name is taken by a static file.
ValidEntries ==
  \A i \in 1..Len(outputs) : outputs[i].logical \notin {Logical(Entry), MapName}

\* The program tsc reads: an include pattern selects what is there.
Program(c) ==
  Listed \cup IF BaseConfig \in ConfigChain(c) /\ c[Stray] # Absent THEN {Stray} ELSE {}

WellTyped(c) == \A f \in Program(c) : c[f] # Absent /\ TypeChecks(f, c[f])

CheckTypes_Unwatched ==
  /\ at = "types" /\ ValidEntries
  /\ content[Env] # Absent
  /\ WellTyped(content)
  /\ ToStep("bundle", <<>>)
  /\ UNCHANGED <<watched, outputs, seenCss>> /\ Continue

\* tsc reads the whole program; its verdict and its list of files come together.
CheckTypes ==
  /\ at = "types" /\ ValidEntries
  /\ content[Env] # Absent
  /\ WellTyped(content)
  /\ WatchDir(Program(content))
  /\ ToStep("bundle", <<>>)
  /\ UNCHANGED <<outputs, seenCss>> /\ Continue

\* RelativeImports: every import is static, relative, there and inside the frontend
\* root.
Resolves(c) == \A f \in Sources : c[f] # Absent /\ Bundles(f, c[f])

\* parse_outputs leaves one chunk and its map. The map is hashed first, for the
\* JavaScript names it.
Bundle(c) ==
  LET map == Record(MapName, Bytes(c, "map", Sources, {}))
      js == Record(Logical(Entry), Bytes(c, "js", Sources, {map.hashed}))
  IN <<map, js>>

\* Rolldown reads the sources again.
BundleEntry ==
  /\ at = "bundle"
  /\ Resolves(content)
  /\ WatchDir(Sources)
  /\ LET made == Bundle(content)
     IN /\ ~Clashes(outputs, made[1]) /\ ~Clashes(Append(outputs, made[1]), made[2])
        /\ outputs' = Append(Append(outputs, made[1]), made[2])
  /\ ToStep("validate", <<>>)
  /\ UNCHANGED seenCss /\ Continue
-----------------------------------------------------------------------------
(* The Tailwind input *)

\* confined: a regular file, or a directory, of the app.
Confined(f) == content[f] # Absent

\* validate_css_with_watches: a config of earlier versions beside the input is refused.
\* It is looked for and not watched. Then the sheets are visited from the root.
ValidateCss ==
  /\ at = "validate"
  /\ Confined(Sheet)
  /\ content[Legacy] = Absent
  /\ ToStep("visit", <<Sheet>>)
  /\ UNCHANGED <<watched, outputs, seenCss>> /\ Continue

\* The @source directory is watched, with the ignore files above it that exist.
SourceWatches(f) == IF f = Sheet THEN {View} \cup Present({Ignore}) ELSE {}

\* The root has the Tailwind import and names its sources, the others do neither.
InPlace(f, rules) ==
  /\ rules.ok
  /\ IF f = Sheet THEN rules.roots = 1 /\ rules.sources > 0
     ELSE rules.roots = 0 /\ rules.sources = 0

\* visit: depth first, the imports of a sheet in their order. What comes twice is a
\* cycle or a duplicate. A @source directory holds no symlinks.
Visit ==
  /\ at = "visit"
  /\ LET f == Head(todo)
         rules == Css(f, content[f])
     IN /\ f \notin seenCss
        /\ Confined(f) /\ InPlace(f, rules)
        /\ seenCss' = seenCss \cup {f}
        /\ f = Sheet => Confined(View) /\ Regular(View)
        /\ WatchDir({f} \cup SourceWatches(f))
        /\ LET next == rules.imports \o Tail(todo)
           IN IF next = <<>> THEN ToStep("tailwind", <<>>) ELSE ToStep("visit", next)
  /\ UNCHANGED outputs /\ Continue

\* The sheets Tailwind reads from the root, when it runs: the least set that has the
\* root and what its members import.
Imports(c, f) == Range(Css(f, c[f]).imports)
Closed(c, S) == Sheet \in S /\ \A f \in S : Imports(c, f) \subseteq S
Reach(c) == {f \in Sheets : \A S \in SUBSET Sheets : Closed(c, S) => f \in S}

\* What the style sheet is made of: Tailwind heeds the ignore files there are.
CssInputs(c) == Reach(c) \cup {View, Ignore}

RunTailwind ==
  /\ at = "tailwind"
  /\ content[Env] # Absent
  /\ \A f \in Reach(content) : content[f] # Absent
  /\ AddOutput(Record(Logical(Sheet), Bytes(content, "css", CssInputs(content), {})))
  /\ ToStep("write", <<>>)
  /\ UNCHANGED <<watched, seenCss>> /\ Continue
-----------------------------------------------------------------------------
(* OUT_DIR *)

\* One record after the other, then the list under a name of its own, then rename.
WriteRecord ==
  /\ at = "write"
  /\ \E i \in 1..Len(outputs) :
       /\ Cardinality(disk) = i - 1
       /\ disk' = disk \cup {<<outputs[i].hashed, outputs[i].bytes>>}
  /\ UNCHANGED <<content, build, tmp, manifest, verdict, dirty, edits, runs>>

WritePending_Early ==
  /\ at = "write"
  /\ tmp' = outputs /\ ToStep("rename", <<>>)
  /\ UNCHANGED <<content, outputs, watched, seenCss, disk, manifest, verdict, dirty, edits, runs>>

WritePending ==
  /\ at = "write" /\ Cardinality(disk) = Len(outputs)
  /\ tmp' = outputs /\ ToStep("rename", <<>>)
  /\ UNCHANGED <<content, outputs, watched, seenCss, disk, manifest, verdict, dirty, edits, runs>>

RenameManifest ==
  /\ at = "rename"
  /\ manifest' = tmp /\ tmp' = NoList
  /\ verdict' = "ok" /\ ToStep("idle", <<>>)
  /\ UNCHANGED <<content, outputs, watched, seenCss, disk, dirty, edits, runs>>

BuildStep ==
  \/ RemoveManifest \/ CollectFiles \/ ReadStatic \/ WatchConfig \/ CheckTypes
  \/ BundleEntry \/ ValidateCss \/ Visit \/ RunTailwind \/ WriteRecord \/ WritePending \/ RenameManifest

AssetsNext ==
  \/ CargoRuns \/ BuildStep \/ Stopped
  \/ \E f \in Files, v \in Versions : Edit(f, v)

AssetsSpec == AssetsInit /\ [][AssetsNext]_assetsVars
-----------------------------------------------------------------------------
(* Properties *)

AssetsTypeOK ==
  /\ content \in [Files -> Versions] /\ todo \in Seq(Files)
  /\ at \in {"idle", "unlist", "static", "read", "config", "types", "bundle", "validate",
             "visit", "tailwind", "write", "rename"}
  /\ watched \subseteq Files /\ seenCss \subseteq Sheets /\ dirty \subseteq Files
  /\ disk \subseteq {<<outputs[i].hashed, outputs[i].bytes>> : i \in 1..Len(outputs)}
  /\ verdict \in {"never ran", "running", "ok", "error", "killed"}
  /\ edits \in 0..MaxEdits /\ runs \in 0..MaxRuns

\* A manifest names files that are there with the bytes it was made from, each name
\* once, and every link from one output to another leads to a listed file. The only
\* exception is the moment after a new run has emptied cja-assets, and a run that
\* was stopped right then: cargo does not compile against that.
ManifestWhole ==
  manifest # NoList /\ at # "unlist" /\ ~(verdict \in {"error", "killed"} /\ watched = {}) =>
    /\ \A r \in ToSet(manifest) : <<r.hashed, r.bytes>> \in disk
    /\ \A r \in ToSet(manifest) :
         \A h \in r.bytes.link : \E s \in ToSet(manifest) : s.hashed = h
    /\ Cardinality({r.logical : r \in ToSet(manifest)}) = Len(manifest)

\* What a build of these files from nothing makes, and whether it accepts them.
Expected(c) ==
  {Record(Logical(f), Bytes(c, "file", {f}, {})) : f \in {g \in Statics : c[g] # Absent}}
    \cup ToSet(Bundle(c))
    \cup {Record(Logical(Sheet), Bytes(c, "css", CssInputs(c), {}))}

Imported(c, g) ==
  UNION {{<<f, i>> : i \in {j \in DOMAIN Css(f, c[f]).imports : Css(f, c[f]).imports[j] = g}} : f \in Reach(c)}

Acceptable(c) ==
  /\ WellTyped(c) /\ Resolves(c) /\ c[Legacy] = Absent /\ c[View] # Absent /\ c[View] \notin Odd
  /\ c[Config] # Absent /\ \A g \in ConfigChain(c) : c[g] # Absent
  /\ \A f \in Statics : c[f] # Absent => c[f] \notin Odd
  /\ \A f \in Statics : c[f] # Absent => Logical(f) \notin {Logical(Entry), MapName, Logical(Sheet)}
  /\ \A f, g \in Statics : c[f] # Absent /\ c[g] # Absent /\ Logical(f) = Logical(g) => f = g
  /\ \A f \in Reach(c) : c[f] # Absent /\ InPlace(f, Css(f, c[f]))
  /\ \A f \in Reach(c) : Cardinality(Imported(c, f)) = IF f = Sheet THEN 0 ELSE 1
  /\ c[Env] # Absent

\* The files as they are now, but for the three that cargo may not have been asked to
\* look for: an unwatched declaration or Tailwind config counts as not there, an
\* unwatched ignore file is of version v.
AsNoticed(v) ==
  [f \in Files |-> IF f \notin Sometimes \ watched THEN content[f] ELSE IF f = Ignore THEN v ELSE Absent]

\* When cargo sees no reason to run the script again, the manifest is what a clean
\* build of the files as they are now would make, and that build would succeed:
\* every file that was read was watched before its version could be missed, however
\* the edits fell between the type check, the bundle and the style sheets. There are
\* three exceptions, files that have come since and that the script does not watch
\* while they are missing: a tailwind.config.* beside the input, an ignore file above
\* the @source directory (its change takes effect at the next rerun), and a
\* declaration that only an extended config includes.
NeverStale ==
  at = "idle" /\ UpToDate =>
    \E v \in Versions : Acceptable(AsNoticed(v)) /\ ToSet(manifest) = Expected(AsNoticed(v))
=============================================================================
