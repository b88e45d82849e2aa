----------------------------- MODULE ToolCache ------------------------------
(***************************************************************************)
(* The shared cache of build tools, crates/cja-build/src/tool_cache.rs:    *)
(* builds of several processes resolve one tool through one lock file, one *)
(* entry (a directory for tsc, a file for Tailwind), the entries moved     *)
(* aside and, for a file, the marker that saves hashing it again.          *)
(*                                                                         *)
(* A build may end in an error at every file operation and may die at any  *)
(* time (the kernel releases its lock).  People and other programs may put *)
(* something else at the entry's place whenever they like, lock or not.    *)
(* The content of a file is good (it has the pinned digest) or not.        *)
(***************************************************************************)
EXTENDS Integers

CONSTANTS
  Builds,      \* processes
  NoBuild,     \* nobody has the lock
  Absent,      \* no entry
  NoStamp,     \* no marker, or one that was only begun
  MaxBuilds,   \* bound: calls of resolve
  MaxOutside   \* bound: changes from outside

Dirs == [shape : {"dir"}, complete : BOOLEAN, marked : BOOLEAN, good : BOOLEAN, mtime : Nat, ours : BOOLEAN]
Files == [shape : {"file"}, complete : {TRUE}, marked : {FALSE}, good : BOOLEAN, mtime : Nat, ours : BOOLEAN]
Entries == Dirs \cup Files

ASSUME CacheAssumption ==
  /\ NoBuild \notin Builds
  /\ Absent \notin Entries
  /\ NoStamp \notin Nat
  /\ MaxBuilds \in Nat /\ MaxOutside \in Nat

VARIABLES
  tool,        \* "tsc" (an archive) or "tailwind" (a single file)
  entry,       \* what is at root; `ours` remembers that a build put it there
  verified,    \* the stamp in <key>.verified
  aside,       \* what was moved to <key>.stale-...
  holder,      \* who has <key>.lock
  clock,       \* the next mtime: every write has its own
  cachePc,     \* where the call stands
  offline,     \* CARGO_NET_OFFLINE
  stamp,       \* valid_file_cache: the mtime read before the content
  bytes,       \* install: the download is good
  staged,      \* what is in the staging directory
  staleEntry,  \* resolve_locked: what this call moved aside
  touched,     \* history: a change from outside since this call got the lock
  calls, outs

cacheVars == <<tool, entry, verified, aside, holder, clock, cachePc, offline, stamp,
               bytes, staged, staleEntry, touched, calls, outs>>

Ended == {"off", "ok", "err", "override"}
Locked == {"check", "hash", "mark", "marking", "invalid", "fetch", "verify", "unpack", "digest",
           "rename", "clean"}

CacheInit ==
  /\ tool \in {"tsc", "tailwind"}
  /\ entry = Absent /\ verified = NoStamp /\ aside = {} /\ holder = NoBuild /\ clock = 0
  /\ cachePc = [b \in Builds |-> "off"]
  /\ offline = [b \in Builds |-> FALSE]
  /\ stamp = [b \in Builds |-> 0]
  /\ bytes = [b \in Builds |-> FALSE]
  /\ staged = [b \in Builds |-> Absent]
  /\ staleEntry = [b \in Builds |-> Absent]
  /\ touched = [b \in Builds |-> FALSE]
  /\ calls = 0 /\ outs = 0

GoTo(b, l) == cachePc' = [cachePc EXCEPT ![b] = l]

Return_Locked(b, result) ==
  /\ GoTo(b, result) /\ UNCHANGED holder
  /\ stamp' = [stamp EXCEPT ![b] = 0]
  /\ bytes' = [bytes EXCEPT ![b] = FALSE]
  /\ staged' = [staged EXCEPT ![b] = Absent]
  /\ staleEntry' = [staleEntry EXCEPT ![b] = Absent]

\* resolve_locked returns: the lock is released, the staging directory is dropped.
Return(b, result) ==
  /\ GoTo(b, result) /\ holder' = NoBuild
  /\ stamp' = [stamp EXCEPT ![b] = 0]
  /\ bytes' = [bytes EXCEPT ![b] = FALSE]
  /\ staged' = [staged EXCEPT ![b] = Absent]
  /\ staleEntry' = [staleEntry EXCEPT ![b] = Absent]

\* What a call has in memory.
local == <<stamp, bytes, staged, staleEntry>>
-----------------------------------------------------------------------------
\* resolve, up to the lock; the cache directory or the lock file may not open.
Resolve(b) ==
  /\ cachePc[b] \in Ended /\ calls < MaxBuilds
  /\ calls' = calls + 1
  /\ \E o \in BOOLEAN : offline' = [offline EXCEPT ![b] = o]
  /\ GoTo(b, "lock") \/ GoTo(b, "err")
  /\ touched' = [touched EXCEPT ![b] = FALSE]
  /\ UNCHANGED <<tool, entry, verified, aside, holder, clock, local, outs>>

\* resolve_override: an executable file of the user's, or an error; no cache.
ResolveOverride(b) ==
  /\ cachePc[b] \in Ended /\ calls < MaxBuilds
  /\ calls' = calls + 1
  /\ GoTo(b, "override") \/ GoTo(b, "err")
  /\ UNCHANGED <<tool, entry, verified, aside, holder, clock, offline, local, touched, outs>>

LockFree_Always == TRUE

LockFree == holder = NoBuild

Lock(b) ==
  /\ cachePc[b] = "lock" /\ LockFree
  /\ holder' = b /\ GoTo(b, "check")
  /\ touched' = [touched EXCEPT ![b] = FALSE]
  /\ UNCHANGED <<tool, entry, verified, aside, clock, offline, local, calls, outs>>

LockError(b) ==
  /\ cachePc[b] = "lock"
  /\ GoTo(b, "err")
  /\ UNCHANGED <<tool, entry, verified, aside, holder, clock, offline, local, touched, calls, outs>>
-----------------------------------------------------------------------------
(* valid_cache *)

IsFile(e) == e # Absent /\ e.shape = "file"
IsDir(e) == e # Absent /\ e.shape = "dir"

\* What an archive's entry must have.
Whole(e) == IsDir(e) /\ e.complete /\ e.marked

CheckArchive(b) ==
  /\ cachePc[b] = "check" /\ tool = "tsc"
  /\ \/ Whole(entry) /\ Return(b, "ok")
     \/ ~Whole(entry) /\ GoTo(b, "invalid") /\ UNCHANGED <<holder, local>>
  /\ UNCHANGED <<tool, entry, verified, aside, clock, offline, touched, calls, outs>>

\* valid_file_cache: the stamp, then the marker.
CheckFile(b) ==
  /\ cachePc[b] = "check" /\ tool = "tailwind"
  /\ \/ /\ ~IsFile(entry)
        /\ GoTo(b, "invalid") /\ UNCHANGED <<holder, local>>
     \/ /\ IsFile(entry) /\ verified = entry.mtime
        /\ Return(b, "ok")
     \/ /\ IsFile(entry) /\ verified # entry.mtime
        /\ stamp' = [stamp EXCEPT ![b] = entry.mtime]
        /\ GoTo(b, "hash") /\ UNCHANGED <<holder, bytes, staged, staleEntry>>
  /\ UNCHANGED <<tool, entry, verified, aside, clock, offline, touched, calls, outs>>

Hash(b) ==
  /\ cachePc[b] = "hash"
  /\ \/ ~IsFile(entry) /\ Return(b, "err")
     \/ /\ IsFile(entry)
        /\ GoTo(b, IF entry.good THEN "mark" ELSE "invalid")
        /\ UNCHANGED <<holder, local>>
  /\ UNCHANGED <<tool, entry, verified, aside, clock, offline, touched, calls, outs>>

\* fs::write truncates the marker, then fills it.
Mark(b) ==
  /\ cachePc[b] = "mark"
  /\ verified' = NoStamp /\ GoTo(b, "marking")
  /\ UNCHANGED <<tool, entry, aside, holder, clock, offline, local, touched, calls, outs>>

FillMarker(b) == verified' = stamp[b]

Marked(b) ==
  /\ cachePc[b] = "marking"
  /\ FillMarker(b)
  /\ Return(b, "ok")
  /\ UNCHANGED <<tool, entry, aside, clock, offline, touched, calls, outs>>
-----------------------------------------------------------------------------
(* resolve_locked, when the entry is not valid *)

Rename_Remove(b) == UNCHANGED <<aside, staleEntry>>

\* The entry is renamed, not removed.
Rename(b) == aside' = aside \cup {entry} /\ staleEntry' = [staleEntry EXCEPT ![b] = entry]

MoveAside(b) ==
  /\ cachePc[b] = "invalid"
  /\ \/ /\ offline[b]
        /\ Return(b, "err") /\ UNCHANGED <<entry, aside>>
     \/ /\ ~offline[b] /\ entry = Absent
        /\ GoTo(b, "fetch") /\ UNCHANGED <<entry, aside, holder, local>>
     \/ /\ ~offline[b] /\ entry # Absent
        /\ Rename(b) /\ entry' = Absent
        /\ GoTo(b, "fetch") /\ UNCHANGED <<holder, stamp, bytes, staged>>
  /\ UNCHANGED <<tool, verified, clock, offline, touched, calls, outs>>

\* fetch_https and read_capped: the download, cut short or replaced on its way.
Fetch(b) ==
  /\ cachePc[b] = "fetch"
  /\ \E good \in BOOLEAN : bytes' = [bytes EXCEPT ![b] = good]
  /\ GoTo(b, "verify")
  /\ UNCHANGED <<tool, entry, verified, aside, holder, clock, offline, stamp, staged, staleEntry, touched, calls, outs>>

VerifyDigest_Skip(b) == TRUE

VerifyDigest(b) == bytes[b]

Verify(b) ==
  /\ cachePc[b] = "verify"
  /\ \/ VerifyDigest(b) /\ GoTo(b, "unpack") /\ UNCHANGED <<holder, local>>
     \/ ~VerifyDigest(b) /\ Return(b, "err")
  /\ UNCHANGED <<tool, entry, verified, aside, clock, offline, touched, calls, outs>>

\* unpack_archive, without its marker; or the file of install_single_file.
Unpack(b) ==
  /\ cachePc[b] = "unpack"
  /\ staged' = [staged EXCEPT ![b] =
       [shape |-> IF tool = "tsc" THEN "dir" ELSE "file", complete |-> TRUE, marked |-> FALSE,
        good |-> bytes[b], mtime |-> clock, ours |-> TRUE]]
  /\ clock' = clock + 1
  /\ GoTo(b, IF tool = "tsc" THEN "digest" ELSE "rename")
  /\ UNCHANGED <<tool, entry, verified, aside, holder, offline, stamp, bytes, staleEntry, touched, calls, outs>>

WriteDigest(b) ==
  /\ cachePc[b] = "digest"
  /\ staged' = [staged EXCEPT ![b].marked = TRUE]
  /\ GoTo(b, "rename")
  /\ UNCHANGED <<tool, entry, verified, aside, holder, clock, offline, stamp, bytes, staleEntry, touched, calls, outs>>

\* The rename of the staged directory does not replace a directory; one that
\* somebody else put there is taken if it is valid.
InstallArchive(b) ==
  /\ cachePc[b] = "rename" /\ tool = "tsc"
  /\ \/ /\ entry = Absent
        /\ entry' = staged[b] /\ staged' = [staged EXCEPT ![b] = Absent]
        /\ GoTo(b, "clean") /\ UNCHANGED <<holder, stamp, bytes, staleEntry>>
     \/ /\ Whole(entry)
        /\ staged' = [staged EXCEPT ![b] = Absent]
        /\ GoTo(b, "clean") /\ UNCHANGED <<entry, holder, stamp, bytes, staleEntry>>
     \/ /\ entry # Absent /\ ~Whole(entry)
        /\ Return(b, "err") /\ UNCHANGED entry
  /\ UNCHANGED <<tool, verified, aside, clock, offline, touched, calls, outs>>

\* The rename of the staged file replaces a file, and fails on a directory.
InstallFile(b) ==
  /\ cachePc[b] = "rename" /\ tool = "tailwind"
  /\ \/ /\ ~IsDir(entry)
        /\ entry' = staged[b] /\ staged' = [staged EXCEPT ![b] = Absent]
        /\ GoTo(b, "clean") /\ UNCHANGED <<holder, stamp, bytes, staleEntry>>
     \/ /\ IsDir(entry)
        /\ Return(b, "err") /\ UNCHANGED entry
  /\ UNCHANGED <<tool, verified, aside, clock, offline, touched, calls, outs>>

Clean(b) ==
  /\ cachePc[b] = "clean"
  /\ aside' = aside \ {staleEntry[b]}
  /\ Return(b, "ok")
  /\ UNCHANGED <<tool, entry, verified, clock, offline, touched, calls, outs>>
-----------------------------------------------------------------------------
\* A file operation or the download fails: every `?` under the lock.
IoError(b) ==
  /\ cachePc[b] \in Locked
  /\ Return(b, "err")
  /\ UNCHANGED <<tool, entry, verified, aside, clock, offline, touched, calls, outs>>

\* The process is killed.
BuildDies(b) ==
  /\ cachePc[b] \in Locked \cup {"lock"}
  /\ GoTo(b, "off")
  /\ holder' = IF holder = b THEN NoBuild ELSE holder
  /\ stamp' = [stamp EXCEPT ![b] = 0]
  /\ bytes' = [bytes EXCEPT ![b] = FALSE]
  /\ staged' = [staged EXCEPT ![b] = Absent]
  /\ staleEntry' = [staleEntry EXCEPT ![b] = Absent]
  /\ UNCHANGED <<tool, entry, verified, aside, clock, offline, touched, calls, outs>>

\* Somebody populates the cache, removes the entry or writes over it.
Outside ==
  /\ outs < MaxOutside /\ outs' = outs + 1
  /\ \/ entry' = Absent
     \/ \E c, m, g \in BOOLEAN :
          entry' = [shape |-> "dir", complete |-> c, marked |-> m, good |-> g, mtime |-> clock, ours |-> FALSE]
     \/ \E g \in BOOLEAN :
          entry' = [shape |-> "file", complete |-> TRUE, marked |-> FALSE, good |-> g, mtime |-> clock, ours |-> FALSE]
  /\ clock' = clock + 1
  /\ touched' = [b \in Builds |-> TRUE]
  /\ UNCHANGED <<tool, verified, aside, holder, cachePc, offline, local, calls>>

Step(b) ==
  \/ Lock(b) \/ CheckArchive(b) \/ CheckFile(b) \/ Hash(b) \/ Mark(b) \/ Marked(b)
  \/ MoveAside(b) \/ Fetch(b) \/ Verify(b) \/ Unpack(b) \/ WriteDigest(b)
  \/ InstallArchive(b) \/ InstallFile(b) \/ Clean(b)

CacheFailure(b) == LockError(b) \/ IoError(b) \/ BuildDies(b)

CacheNext ==
  \/ \E b \in Builds : Resolve(b) \/ ResolveOverride(b) \/ Step(b) \/ CacheFailure(b)
  \/ Outside

CacheSpec == CacheInit /\ [][CacheNext]_cacheVars

\* A build goes on: it is a process of its own, and reads of a download time out.
CacheFairness == \A b \in Builds : WF_cacheVars(Step(b))
-----------------------------------------------------------------------------
DiskOK ==
  /\ tool \in {"tsc", "tailwind"}
  /\ entry \in Entries \cup {Absent}
  /\ verified \in Nat \cup {NoStamp}
  /\ aside \subseteq Entries
  /\ clock \in Nat

LockOK ==
  /\ holder \in Builds \cup {NoBuild}
  /\ cachePc \in [Builds -> Ended \cup Locked \cup {"lock"}]
  /\ \A b \in Builds : cachePc[b] \in Locked <=> holder = b

CallsOK ==
  /\ offline \in [Builds -> BOOLEAN]
  /\ stamp \in [Builds -> Nat]
  /\ bytes \in [Builds -> BOOLEAN]
  /\ staged \in [Builds -> Entries \cup {Absent}]
  /\ staleEntry \in [Builds -> Entries \cup {Absent}]
  /\ touched \in [Builds -> BOOLEAN]
  /\ \A b \in Builds : cachePc[b] = "digest" => staged[b] \in Dirs
  /\ calls \in 0..MaxBuilds /\ outs \in 0..MaxOutside

\* Every variable has its type, and exactly the call between lock and unlock has
\* the lock.
CacheTypeOK == DiskOK /\ LockOK /\ CallsOK

\* What a build may rely on: a whole directory, or a file with the pinned digest.
Sound(e) == IF tool = "tsc" THEN Whole(e) ELSE IsFile(e) /\ e.good

\* The path that resolve returned stays sound until somebody outside changes it:
\* no other build, no failure and no death moves a good entry away or replaces it.
ResolvedStaysSound == \A b \in Builds : cachePc[b] = "ok" /\ ~touched[b] => Sound(entry)

\* What a build put in place is all of a verified download, whoever died when.
InstalledIsWhole == entry # Absent /\ entry.ours => Sound(entry) /\ entry.good

\* The marker never vouches for a file that was not hashed as it is, even if it
\* changed while it was being hashed.
MarkerSound == tool = "tailwind" /\ IsFile(entry) /\ verified = entry.mtime => entry.good

\* A call destroys what it found in the cache only after a sound entry is in place
\* (or somebody else interfered): a failed install preserves the previous one.
PreviousPreserved ==
  [][\A e \in (aside \cup {entry}) \ (aside' \cup {entry'}) :
       e = Absent \/ outs' # outs \/ Sound(entry) \/ touched[holder]]_cacheVars

\* Every build that waits for the lock returns: no death, error or hand-over
\* leaves the lock taken.
ResolveReturns == \A b \in Builds : cachePc[b] = "lock" ~> cachePc[b] \in Ended
=============================================================================
