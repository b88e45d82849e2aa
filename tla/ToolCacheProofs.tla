-------------------------- MODULE ToolCacheProofs ---------------------------
(***************************************************************************)
(* The safety of the tool cache, for every set of builds and any number of *)
(* calls, deaths, errors and changes from outside.                         *)
(***************************************************************************)
EXTENDS ToolCache, TLAPS

\* No file and no stamp is from the future.
Past ==
  /\ entry # Absent => entry.mtime < clock
  /\ verified # NoStamp => verified < clock
  /\ \A b \in Builds : cachePc[b] \in {"hash", "mark", "marking"} => stamp[b] < clock

\* A call that hashed the file and found it good is about to write a stamp that no
\* other content has.
StampEarned ==
  \A b \in Builds :
    cachePc[b] \in {"mark", "marking"} /\ IsFile(entry) /\ entry.mtime = stamp[b] => entry.good

\* What a call has staged is verified, and whole when it is renamed.
StagedWhole ==
  \A b \in Builds :
    /\ cachePc[b] = "unpack" => bytes[b]
    /\ cachePc[b] \in {"digest", "rename"} =>
         /\ staged[b] # Absent /\ staged[b].good /\ staged[b].complete /\ staged[b].mtime < clock
         /\ staged[b].shape = IF tool = "tsc" THEN "dir" ELSE "file"
         /\ cachePc[b] = "digest" => tool = "tsc"
    /\ cachePc[b] = "rename" => Sound(staged[b])

\* What the call with the lock knows of the entry, as long as nobody interferes.
Knows ==
  \A b \in Builds : ~touched[b] =>
    /\ cachePc[b] = "hash" => IsFile(entry)
    /\ cachePc[b] \in {"hash", "mark", "marking"} => tool = "tailwind"
    /\ cachePc[b] \in {"mark", "marking", "clean"} => Sound(entry)
    /\ cachePc[b] = "invalid" => ~Sound(entry)
    /\ cachePc[b] \in {"fetch", "verify", "unpack", "digest", "rename"} => entry = Absent

\* Nobody interfered with the call that has the lock since a call that was not
\* interfered with returned.
Untouched ==
  \A b, c \in Builds : cachePc[b] = "ok" /\ ~touched[b] /\ holder = c => ~touched[c]

Inv ==
  /\ CacheTypeOK /\ Past /\ StampEarned /\ StagedWhole /\ Knows /\ Untouched
  /\ MarkerSound /\ InstalledIsWhole /\ ResolvedStaysSound
-----------------------------------------------------------------------------
LEMMA TypeInit == CacheInit => CacheTypeOK
  BY CacheAssumption DEF CacheInit, CacheTypeOK, DiskOK, LockOK, CallsOK, Ended, Locked

\* A call that returns leaves the lock and its locals in order.
LEMMA ReturnTypes ==
  ASSUME CacheTypeOK, NEW b \in Builds, cachePc[b] \in Locked, NEW r \in {"ok", "err"}, Return(b, r)
  PROVE  /\ LockOK'
         /\ stamp' \in [Builds -> Nat] /\ bytes' \in [Builds -> BOOLEAN]
         /\ staged' \in [Builds -> Entries \cup {Absent}]
         /\ staleEntry' \in [Builds -> Entries \cup {Absent}]
         /\ \A c \in Builds : cachePc'[c] = "digest" => staged'[c] \in Dirs
<1>1. LockOK'
  BY CacheAssumption DEF CacheTypeOK, LockOK, Return, GoTo, Ended, Locked
<1>2. \A c \in Builds : cachePc'[c] = "digest" => staged'[c] \in Dirs
  BY DEF CacheTypeOK, LockOK, CallsOK, Return, GoTo
<1> QED
  BY <1>1, <1>2 DEF CacheTypeOK, CallsOK, Return

\* A call that goes on keeps the lock.
LEMMA GoTypes ==
  ASSUME CacheTypeOK, NEW b \in Builds, cachePc[b] \in Locked, NEW l \in Locked, GoTo(b, l), UNCHANGED holder
  PROVE  LockOK'
  BY DEF CacheTypeOK, LockOK, GoTo, Ended, Locked

LEMMA TypeNext == CacheTypeOK /\ [CacheNext]_cacheVars => CacheTypeOK'
<1> SUFFICES ASSUME CacheTypeOK, [CacheNext]_cacheVars PROVE CacheTypeOK'
  OBVIOUS
<1> USE CacheAssumption
<1>1. ASSUME NEW b \in Builds, Resolve(b) PROVE CacheTypeOK'
  BY <1>1 DEF CacheTypeOK, DiskOK, LockOK, CallsOK, Resolve, GoTo, local, Ended, Locked
<1>2. ASSUME NEW b \in Builds, ResolveOverride(b) PROVE CacheTypeOK'
  BY <1>2 DEF CacheTypeOK, DiskOK, LockOK, CallsOK, ResolveOverride, GoTo, local, Ended, Locked
<1>3. ASSUME NEW b \in Builds, Lock(b) PROVE CacheTypeOK'
  BY <1>3 DEF CacheTypeOK, DiskOK, LockOK, CallsOK, Lock, LockFree, GoTo, local, Ended, Locked
<1>4. ASSUME NEW b \in Builds, LockError(b) PROVE CacheTypeOK'
  BY <1>4 DEF CacheTypeOK, DiskOK, LockOK, CallsOK, LockError, GoTo, local, Ended, Locked
<1>5. ASSUME NEW b \in Builds, CheckArchive(b) PROVE CacheTypeOK'
  <2>1. cachePc[b] \in Locked /\ UNCHANGED <<tool, entry, verified, aside, clock, offline, touched, calls, outs>>
    BY <1>5 DEF CheckArchive, Locked
  <2>2. CASE Return(b, "ok")
    BY <2>1, <2>2, ReturnTypes DEF CacheTypeOK, DiskOK, CallsOK
  <2>3. CASE GoTo(b, "invalid") /\ UNCHANGED <<holder, local>>
    <3>1. LockOK'
      BY <2>1, <2>3, GoTypes DEF Locked
    <3> QED
      BY <2>1, <2>3, <3>1 DEF CacheTypeOK, DiskOK, CallsOK, local, GoTo, LockOK
  <2> QED
    BY <1>5, <2>2, <2>3 DEF CheckArchive
<1>6. ASSUME NEW b \in Builds, CheckFile(b) PROVE CacheTypeOK'
  <2>1. cachePc[b] \in Locked /\ UNCHANGED <<tool, entry, verified, aside, clock, offline, touched, calls, outs>>
    BY <1>6 DEF CheckFile, Locked
  <2>2. CASE Return(b, "ok")
    BY <2>1, <2>2, ReturnTypes DEF CacheTypeOK, DiskOK, CallsOK
  <2>3. CASE GoTo(b, "invalid") /\ UNCHANGED <<holder, local>>
    <3>1. LockOK'
      BY <2>1, <2>3, GoTypes DEF Locked
    <3> QED
      BY <2>1, <2>3, <3>1 DEF CacheTypeOK, DiskOK, CallsOK, local, GoTo, LockOK
  <2>4. CASE /\ IsFile(entry) /\ stamp' = [stamp EXCEPT ![b] = entry.mtime]
             /\ GoTo(b, "hash") /\ UNCHANGED <<holder, bytes, staged, staleEntry>>
    <3>1. LockOK'
      BY <2>1, <2>4, GoTypes DEF Locked
    <3>2. entry.mtime \in Nat
      BY <2>4 DEF CacheTypeOK, DiskOK, IsFile, Entries, Files, Dirs
    <3> QED
      BY <2>1, <2>4, <3>1, <3>2 DEF CacheTypeOK, DiskOK, CallsOK, GoTo, LockOK
  <2> QED
    BY <1>6, <2>2, <2>3, <2>4 DEF CheckFile
<1>7. ASSUME NEW b \in Builds, Hash(b) PROVE CacheTypeOK'
  <2>1. cachePc[b] \in Locked /\ UNCHANGED <<tool, entry, verified, aside, clock, offline, touched, calls, outs>>
    BY <1>7 DEF Hash, Locked
  <2>2. CASE Return(b, "err")
    BY <2>1, <2>2, ReturnTypes DEF CacheTypeOK, DiskOK, CallsOK
  <2>3. CASE GoTo(b, IF entry.good THEN "mark" ELSE "invalid") /\ UNCHANGED <<holder, local>>
    <3>1. LockOK'
      BY <2>1, <2>3, GoTypes DEF Locked
    <3> QED
      BY <2>1, <2>3, <3>1 DEF CacheTypeOK, DiskOK, CallsOK, local, GoTo, LockOK
  <2> QED
    BY <1>7, <2>2, <2>3 DEF Hash
<1>8. ASSUME NEW b \in Builds, Mark(b) PROVE CacheTypeOK'
  BY <1>8 DEF CacheTypeOK, DiskOK, LockOK, CallsOK, Mark, GoTo, local, Ended, Locked
<1>9. ASSUME NEW b \in Builds, Marked(b) PROVE CacheTypeOK'
  BY <1>9, ReturnTypes DEF CacheTypeOK, DiskOK, CallsOK, Marked, FillMarker, Locked
<1>10. ASSUME NEW b \in Builds, MoveAside(b) PROVE CacheTypeOK'
  <2>1. cachePc[b] \in Locked /\ UNCHANGED <<tool, verified, clock, offline, touched, calls, outs>>
    BY <1>10 DEF MoveAside, Locked
  <2>2. CASE Return(b, "err") /\ UNCHANGED <<entry, aside>>
    BY <2>1, <2>2, ReturnTypes DEF CacheTypeOK, DiskOK, CallsOK
  <2>3. CASE GoTo(b, "fetch") /\ UNCHANGED <<entry, aside, holder, local>>
    <3>1. LockOK'
      BY <2>1, <2>3, GoTypes DEF Locked
    <3> QED
      BY <2>1, <2>3, <3>1 DEF CacheTypeOK, DiskOK, CallsOK, local, GoTo, LockOK
  <2>4. CASE /\ entry # Absent /\ Rename(b) /\ entry' = Absent
             /\ GoTo(b, "fetch") /\ UNCHANGED <<holder, stamp, bytes, staged>>
    <3>1. LockOK'
      BY <2>1, <2>4, GoTypes DEF Locked
    <3> QED
      BY <2>1, <2>4, <3>1 DEF CacheTypeOK, DiskOK, CallsOK, Rename, GoTo, LockOK
  <2> QED
    BY <1>10, <2>2, <2>3, <2>4 DEF MoveAside
<1>11. ASSUME NEW b \in Builds, Fetch(b) PROVE CacheTypeOK'
  BY <1>11 DEF CacheTypeOK, DiskOK, LockOK, CallsOK, Fetch, GoTo, Ended, Locked
<1>12. ASSUME NEW b \in Builds, Verify(b) PROVE CacheTypeOK'
  <2>1. cachePc[b] \in Locked /\ UNCHANGED <<tool, entry, verified, aside, clock, offline, touched, calls, outs>>
    BY <1>12 DEF Verify, Locked
  <2>2. CASE Return(b, "err")
    BY <2>1, <2>2, ReturnTypes DEF CacheTypeOK, DiskOK, CallsOK
  <2>3. CASE GoTo(b, "unpack") /\ UNCHANGED <<holder, local>>
    <3>1. LockOK'
      BY <2>1, <2>3, GoTypes DEF Locked
    <3> QED
      BY <2>1, <2>3, <3>1 DEF CacheTypeOK, DiskOK, CallsOK, local, GoTo, LockOK
  <2> QED
    BY <1>12, <2>2, <2>3 DEF Verify
<1>13. ASSUME NEW b \in Builds, Unpack(b) PROVE CacheTypeOK'
  <2> DEFINE new == [shape |-> IF tool = "tsc" THEN "dir" ELSE "file", complete |-> TRUE, marked |-> FALSE,
                     good |-> bytes[b], mtime |-> clock, ours |-> TRUE]
  <2>1. new \in Entries /\ (tool = "tsc" => new \in Dirs)
    BY DEF CacheTypeOK, DiskOK, CallsOK, Entries, Dirs, Files
  <2>2. /\ staged' = [staged EXCEPT ![b] = new] /\ clock' = clock + 1
        /\ GoTo(b, IF tool = "tsc" THEN "digest" ELSE "rename") /\ cachePc[b] \in Locked
        /\ UNCHANGED <<tool, entry, verified, aside, holder, offline, stamp, bytes, staleEntry, touched, calls, outs>>
    BY <1>13 DEF Unpack, Locked
  <2>3. LockOK'
    BY <2>2, GoTypes DEF Locked
  <2>4. DiskOK'
    BY <2>2 DEF CacheTypeOK, DiskOK
  <2> HIDE DEF new
  <2>5. CallsOK'
    BY <2>1, <2>2 DEF CacheTypeOK, LockOK, CallsOK, GoTo
  <2> QED
    BY <2>3, <2>4, <2>5 DEF CacheTypeOK
<1>14. ASSUME NEW b \in Builds, WriteDigest(b) PROVE CacheTypeOK'
  <2>1. /\ staged' = [staged EXCEPT ![b].marked = TRUE] /\ GoTo(b, "rename") /\ cachePc[b] = "digest"
        /\ UNCHANGED <<tool, entry, verified, aside, holder, clock, offline, stamp, bytes, staleEntry,
                       touched, calls, outs>>
    BY <1>14 DEF WriteDigest
  <2>2. LockOK' /\ DiskOK'
    BY <2>1, GoTypes DEF CacheTypeOK, DiskOK, Locked
  <2>3. [staged[b] EXCEPT !.marked = TRUE] \in Entries
    BY <2>1 DEF CacheTypeOK, CallsOK, Entries, Dirs
  <2>4. staged' = [staged EXCEPT ![b] = [staged[b] EXCEPT !.marked = TRUE]]
    BY <2>1
  <2>5. staged' \in [Builds -> Entries \cup {Absent}]
    BY <2>3, <2>4 DEF CacheTypeOK, CallsOK
  <2>6. \A c \in Builds : cachePc'[c] = "digest" => staged'[c] \in Dirs
    BY <2>1, <2>4 DEF CacheTypeOK, LockOK, CallsOK, GoTo
  <2> QED
    BY <2>1, <2>2, <2>5, <2>6 DEF CacheTypeOK, CallsOK
<1>15. ASSUME NEW b \in Builds, InstallArchive(b) PROVE CacheTypeOK'
  <2>1. cachePc[b] \in Locked /\ UNCHANGED <<tool, verified, aside, clock, offline, touched, calls, outs>>
    BY <1>15 DEF InstallArchive, Locked
  <2>2. CASE Return(b, "err") /\ UNCHANGED entry
    BY <2>1, <2>2, ReturnTypes DEF CacheTypeOK, DiskOK, CallsOK
  <2>3. CASE /\ entry' \in {entry, staged[b]} /\ staged' = [staged EXCEPT ![b] = Absent]
             /\ GoTo(b, "clean") /\ UNCHANGED <<holder, stamp, bytes, staleEntry>>
    <3>1. LockOK'
      BY <2>1, <2>3, GoTypes DEF Locked
    <3> QED
      BY <2>1, <2>3, <3>1 DEF CacheTypeOK, DiskOK, CallsOK, GoTo, LockOK
  <2> QED
    BY <1>15, <2>2, <2>3 DEF InstallArchive
<1>16. ASSUME NEW b \in Builds, InstallFile(b) PROVE CacheTypeOK'
  <2>1. cachePc[b] \in Locked /\ UNCHANGED <<tool, verified, aside, clock, offline, touched, calls, outs>>
    BY <1>16 DEF InstallFile, Locked
  <2>2. CASE Return(b, "err") /\ UNCHANGED entry
    BY <2>1, <2>2, ReturnTypes DEF CacheTypeOK, DiskOK, CallsOK
  <2>3. CASE /\ entry' = staged[b] /\ staged' = [staged EXCEPT ![b] = Absent]
             /\ GoTo(b, "clean") /\ UNCHANGED <<holder, stamp, bytes, staleEntry>>
    <3>1. LockOK'
      BY <2>1, <2>3, GoTypes DEF Locked
    <3> QED
      BY <2>1, <2>3, <3>1 DEF CacheTypeOK, DiskOK, CallsOK, GoTo, LockOK
  <2> QED
    BY <1>16, <2>2, <2>3 DEF InstallFile
<1>17. ASSUME NEW b \in Builds, Clean(b) PROVE CacheTypeOK'
  BY <1>17, ReturnTypes DEF CacheTypeOK, DiskOK, CallsOK, Clean, Locked
<1>18. ASSUME NEW b \in Builds, IoError(b) PROVE CacheTypeOK'
  BY <1>18, ReturnTypes DEF CacheTypeOK, DiskOK, CallsOK, IoError
<1>19. ASSUME NEW b \in Builds, BuildDies(b) PROVE CacheTypeOK'
  BY <1>19 DEF CacheTypeOK, DiskOK, LockOK, CallsOK, BuildDies, GoTo, Ended, Locked
<1>20. CASE Outside
  <2>1. clock \in Nat
    BY DEF CacheTypeOK, DiskOK
  <2>2. ASSUME NEW c \in BOOLEAN, NEW m \in BOOLEAN, NEW g \in BOOLEAN
        PROVE  /\ [shape |-> "dir", complete |-> c, marked |-> m, good |-> g, mtime |-> clock,
                   ours |-> FALSE] \in Entries
               /\ [shape |-> "file", complete |-> TRUE, marked |-> FALSE, good |-> g, mtime |-> clock,
                   ours |-> FALSE] \in Entries
    BY <2>1 DEF Entries, Files, Dirs
  <2>3. entry' \in Entries \cup {Absent}
    BY <1>20, <2>2 DEF Outside
  <2> QED
    BY <1>20, <2>3 DEF CacheTypeOK, DiskOK, LockOK, CallsOK, Outside, local
<1>21. CASE UNCHANGED cacheVars
  BY <1>21 DEF CacheTypeOK, DiskOK, LockOK, CallsOK, cacheVars
<1> QED
  BY <1>1, <1>2, <1>3, <1>4, <1>5, <1>6, <1>7, <1>8, <1>9, <1>10, <1>11, <1>12, <1>13, <1>14,
     <1>15, <1>16, <1>17, <1>18, <1>19, <1>20, <1>21 DEF CacheNext, Step, CacheFailure
-----------------------------------------------------------------------------
(* The rest of the invariant *)

Rest ==
  /\ Past /\ StampEarned /\ StagedWhole /\ Knows /\ Untouched
  /\ MarkerSound /\ InstalledIsWhole /\ ResolvedStaysSound

\* A call that returns without a change of the cache breaks nothing, if what it
\* returns is sound.
LEMMA ReturnKeeps ==
  ASSUME Inv, NEW b \in Builds, cachePc[b] \in Locked, NEW r \in {"ok", "err"}, Return(b, r),
         UNCHANGED <<tool, entry, verified, clock, touched>>,
         r = "ok" /\ ~touched[b] => Sound(entry)
  PROVE  Rest'
<1> USE CacheAssumption
<1>1. /\ cachePc' = [cachePc EXCEPT ![b] = r] /\ cachePc \in [Builds -> Ended \cup Locked \cup {"lock"}]
      /\ \A c \in Builds \ {b} : cachePc'[c] = cachePc[c]
      /\ cachePc'[b] = r
      /\ holder' = NoBuild
  BY DEF Return, GoTo, Inv, CacheTypeOK, LockOK
<1>2. /\ \A c \in Builds \ {b} : stamp'[c] = stamp[c] /\ bytes'[c] = bytes[c] /\ staged'[c] = staged[c]
  BY DEF Return, Inv, CacheTypeOK, CallsOK
<1>3. Past' /\ StampEarned'
  BY <1>1, <1>2 DEF Inv, Past, StampEarned, IsFile
<1>4. StagedWhole'
  BY <1>1, <1>2 DEF Inv, StagedWhole, Sound, Whole, IsDir, IsFile
<1>5. Knows'
  BY <1>1 DEF Inv, Knows, Sound, Whole, IsDir, IsFile
<1>6. Untouched'
  BY <1>1 DEF Untouched
<1>7. MarkerSound' /\ InstalledIsWhole'
  BY DEF Inv, MarkerSound, InstalledIsWhole, Sound, Whole, IsDir, IsFile
<1>8. ResolvedStaysSound'
  BY <1>1, SMTT(30) DEF Inv, ResolvedStaysSound, Sound, Whole, IsDir, IsFile
<1> QED
  BY <1>3, <1>4, <1>5, <1>6, <1>7, <1>8 DEF Rest

LEMMA RestNext == Inv /\ [CacheNext]_cacheVars => Rest'
<1> SUFFICES ASSUME Inv, [CacheNext]_cacheVars PROVE Rest'
  OBVIOUS
<1>0. entry # Absent => entry.mtime \in Nat /\ entry.good \in BOOLEAN
  BY DEF Inv, CacheTypeOK, DiskOK, Entries, Files, Dirs
<1> USE CacheAssumption DEF Inv, Rest
<1> USE DEF Past, StampEarned, StagedWhole, Knows, Untouched, MarkerSound, InstalledIsWhole, ResolvedStaysSound
<1> USE DEF Sound, Whole, IsDir, IsFile, CacheTypeOK, DiskOK, LockOK, CallsOK, Ended, Locked
<1>1. ASSUME NEW b \in Builds, Resolve(b) PROVE Rest'
  BY <1>1 DEF Resolve, GoTo, local
<1>2. ASSUME NEW b \in Builds, ResolveOverride(b) PROVE Rest'
  BY <1>2 DEF ResolveOverride, GoTo, local
<1>3. ASSUME NEW b \in Builds, Lock(b) PROVE Rest'
  BY <1>3 DEF Lock, LockFree, GoTo, local
<1>4. ASSUME NEW b \in Builds, LockError(b) PROVE Rest'
  BY <1>4 DEF LockError, GoTo, local
\* A call that holds the lock returns without a change of the cache.
<1>5. ASSUME NEW b \in Builds, cachePc[b] \in Locked, NEW r \in {"ok", "err"}, Return(b, r),
             UNCHANGED <<tool, entry, verified, clock, touched>>,
             r = "ok" /\ ~touched[b] => Sound(entry)
      PROVE  Rest'
  BY <1>5, ReturnKeeps
\* A check of the entry fails.
<1>6. ASSUME NEW b \in Builds, cachePc[b] = "check", GoTo(b, "invalid"), ~Sound(entry),
             UNCHANGED <<holder, local, tool, entry, verified, clock, touched>>
      PROVE  Rest'
  BY <1>6 DEF GoTo, local
<1>7. ASSUME NEW b \in Builds, CheckArchive(b) PROVE Rest'
  BY <1>5, <1>6, <1>7 DEF CheckArchive
<1>8. ASSUME NEW b \in Builds, CheckFile(b) PROVE Rest'
  <2>1. CASE /\ GoTo(b, "hash") /\ UNCHANGED <<holder, bytes, staged, staleEntry>>
             /\ stamp' = [stamp EXCEPT ![b] = entry.mtime] /\ IsFile(entry)
    BY <1>0, <1>8, <2>1 DEF CheckFile, GoTo
  <2> QED
    BY <1>5, <1>6, <1>8, <2>1 DEF CheckFile
<1>9. ASSUME NEW b \in Builds, Hash(b) PROVE Rest'
  <2>1. CASE /\ IsFile(entry) /\ GoTo(b, IF entry.good THEN "mark" ELSE "invalid")
             /\ UNCHANGED <<holder, local>>
    BY <1>9, <2>1 DEF Hash, GoTo, local
  <2> QED
    BY <1>5, <1>9, <2>1 DEF Hash
<1>10. ASSUME NEW b \in Builds, Mark(b) PROVE Rest'
  <2>1. MarkerSound' /\ Past'
    BY <1>0, <1>10 DEF Mark, GoTo, local
  <2>2. StampEarned' /\ StagedWhole'
    BY <1>10 DEF Mark, GoTo, local
  <2>3. Knows' /\ Untouched'
    BY <1>10 DEF Mark, GoTo, local
  <2>4. InstalledIsWhole' /\ ResolvedStaysSound'
    BY <1>10 DEF Mark, GoTo, local
  <2> QED
    BY <2>1, <2>2, <2>3, <2>4
<1>11. ASSUME NEW b \in Builds, Marked(b) PROVE Rest'
  BY <1>11 DEF Marked, FillMarker, Return, GoTo
<1>12. ASSUME NEW b \in Builds, MoveAside(b) PROVE Rest'
  <2>1. CASE GoTo(b, "fetch") /\ entry' = Absent /\ UNCHANGED <<holder, stamp, bytes, staged>>
    BY <1>12, <2>1 DEF MoveAside, GoTo
  <2> QED
    BY <1>5, <1>12, <2>1 DEF MoveAside, local
<1>13. ASSUME NEW b \in Builds, Fetch(b) PROVE Rest'
  BY <1>13 DEF Fetch, GoTo
<1>14. ASSUME NEW b \in Builds, Verify(b) PROVE Rest'
  <2>1. CASE VerifyDigest(b) /\ GoTo(b, "unpack") /\ UNCHANGED <<holder, local>>
    BY <1>14, <2>1 DEF Verify, VerifyDigest, GoTo, local
  <2> QED
    BY <1>5, <1>14, <2>1 DEF Verify
<1>15. ASSUME NEW b \in Builds, Unpack(b) PROVE Rest'
  <2>1. /\ cachePc[b] = "unpack" /\ bytes[b] /\ clock' = clock + 1
        /\ cachePc' = [cachePc EXCEPT ![b] = IF tool = "tsc" THEN "digest" ELSE "rename"]
        /\ \A c \in Builds \ {b} : staged'[c] = staged[c]
        /\ UNCHANGED <<tool, entry, verified, holder, stamp, bytes, touched>>
    BY <1>15 DEF Unpack, GoTo
  <2>2. /\ staged'[b].good /\ staged'[b].complete /\ staged'[b].mtime = clock
        /\ staged'[b].shape = IF tool = "tsc" THEN "dir" ELSE "file"
    BY <1>15, <2>1 DEF Unpack
  <2>3. staged'[b] # Absent
    <3> DEFINE new == [shape |-> IF tool = "tsc" THEN "dir" ELSE "file", complete |-> TRUE,
                       marked |-> FALSE, good |-> bytes[b], mtime |-> clock, ours |-> TRUE]
    <3>1. new \in Entries
      BY DEF Entries, Dirs, Files
    <3>2. staged'[b] = new
      BY <1>15 DEF Unpack
    <3> QED
      BY <3>1, <3>2
  <2>4. Past' /\ StampEarned'
    BY <1>0, <2>1
  <2>5. StagedWhole'
    BY <2>1, <2>2, <2>3
  <2>6. Knows' /\ Untouched' /\ MarkerSound' /\ InstalledIsWhole' /\ ResolvedStaysSound'
    BY <2>1
  <2> QED
    BY <2>4, <2>5, <2>6
<1>16. ASSUME NEW b \in Builds, WriteDigest(b) PROVE Rest'
  <2>1. /\ cachePc[b] = "digest" /\ tool = "tsc" /\ cachePc' = [cachePc EXCEPT ![b] = "rename"]
        /\ staged' = [staged EXCEPT ![b].marked = TRUE]
        /\ UNCHANGED <<tool, entry, verified, holder, clock, stamp, bytes, touched>>
    BY <1>16 DEF WriteDigest, GoTo
  <2>2. staged[b] \in Dirs /\ staged'[b] = [staged[b] EXCEPT !.marked = TRUE]
    BY <2>1
  <2>3. /\ staged'[b] \in Dirs /\ staged'[b].marked
        /\ staged'[b].good = staged[b].good /\ staged'[b].complete = staged[b].complete
        /\ staged'[b].mtime = staged[b].mtime /\ staged'[b].shape = "dir"
    BY <2>2 DEF Dirs
  <2>4. staged'[b] # Absent /\ \A c \in Builds \ {b} : staged'[c] = staged[c]
    BY <2>1, <2>3 DEF Entries
  <2>5. StagedWhole'
    BY <2>1, <2>3, <2>4
  <2>6. Past' /\ StampEarned' /\ Knows' /\ Untouched' /\ MarkerSound' /\ InstalledIsWhole' /\ ResolvedStaysSound'
    BY <2>1
  <2> QED
    BY <2>5, <2>6
<1>17. ASSUME NEW b \in Builds, cachePc[b] = "rename", entry' = staged[b], GoTo(b, "clean"),
              staged' = [staged EXCEPT ![b] = Absent],
              UNCHANGED <<tool, verified, clock, touched, holder, stamp, bytes>>
       PROVE  Rest'
  <2>1. Past' /\ StampEarned' /\ MarkerSound' /\ InstalledIsWhole'
    BY <1>17 DEF GoTo
  <2>2. StagedWhole'
    BY <1>17 DEF GoTo
  <2>3. Knows' /\ Untouched' /\ ResolvedStaysSound'
    BY <1>17 DEF GoTo
  <2> QED
    BY <2>1, <2>2, <2>3
<1>18. ASSUME NEW b \in Builds, InstallArchive(b) PROVE Rest'
  <2>1. CASE /\ Whole(entry) /\ staged' = [staged EXCEPT ![b] = Absent]
             /\ GoTo(b, "clean") /\ UNCHANGED <<entry, holder, stamp, bytes, staleEntry>>
    BY <1>18, <2>1 DEF InstallArchive, GoTo
  <2> QED
    BY <1>5, <1>17, <1>18, <2>1 DEF InstallArchive
<1>19. ASSUME NEW b \in Builds, InstallFile(b) PROVE Rest'
  BY <1>5, <1>17, <1>19 DEF InstallFile
<1>20. ASSUME NEW b \in Builds, Clean(b) PROVE Rest'
  BY <1>5, <1>20 DEF Clean
<1>21. ASSUME NEW b \in Builds, IoError(b) PROVE Rest'
  BY <1>5, <1>21 DEF IoError
<1>22. ASSUME NEW b \in Builds, BuildDies(b) PROVE Rest'
  BY <1>22 DEF BuildDies, GoTo
<1>23. CASE Outside
  <2>1. /\ clock' = clock + 1 /\ \A b \in Builds : touched'[b]
        /\ entry' # Absent => entry'.mtime = clock /\ ~entry'.ours
        /\ UNCHANGED <<tool, verified, holder, cachePc, stamp, bytes, staged>>
    BY <1>23 DEF Outside, local
  <2>2. \A b \in Builds : staged[b] # Absent => staged[b].mtime \in Nat
    BY DEF Entries, Dirs, Files
  <2>3. Past' /\ StampEarned'
    BY <2>1
  <2>4. StagedWhole'
    BY <2>1, <2>2
  <2>5. Knows' /\ Untouched' /\ MarkerSound' /\ InstalledIsWhole' /\ ResolvedStaysSound'
    BY <2>1
  <2> QED
    BY <2>3, <2>4, <2>5
<1>24. CASE UNCHANGED cacheVars
  BY <1>24 DEF cacheVars
<1> QED
  BY <1>1, <1>2, <1>3, <1>4, <1>7, <1>8, <1>9, <1>10, <1>11, <1>12, <1>13, <1>14, <1>15, <1>16,
     <1>18, <1>19, <1>20, <1>21, <1>22, <1>23, <1>24 DEF CacheNext, Step, CacheFailure
-----------------------------------------------------------------------------
\* Type correctness: every variable has its type, and the lock is with exactly
\* the call between lock() and unlock() of resolve.
THEOREM TypeCorrect == CacheSpec => []CacheTypeOK
<1>1. CacheInit => CacheTypeOK
  BY TypeInit
<1>2. CacheTypeOK /\ [CacheNext]_cacheVars => CacheTypeOK'
  BY TypeNext
<1> QED
  BY <1>1, <1>2, PTL DEF CacheSpec

LEMMA InvInit == CacheInit => Inv
  BY TypeInit, CacheAssumption
  DEF CacheInit, Inv, Past, StampEarned, StagedWhole, Knows, Untouched, MarkerSound, InstalledIsWhole,
      ResolvedStaysSound, IsFile, IsDir

LEMMA InvHolds == CacheSpec => []Inv
<1>1. Inv /\ [CacheNext]_cacheVars => Inv'
  BY TypeNext, RestNext DEF Inv, Rest
<1> QED
  BY InvInit, <1>1, PTL DEF CacheSpec

\* The path that resolve hands out stays sound until somebody outside the builds
\* changes the cache, for any number of builds that check, repair, fail or die.
THEOREM ResolvedPathsSound == CacheSpec => []ResolvedStaysSound
<1>1. Inv => ResolvedStaysSound
  BY DEF Inv
<1> QED
  BY <1>1, InvHolds, PTL

\* What install puts in place is whole and verified at every instant.
THEOREM InstallIsAtomic == CacheSpec => []InstalledIsWhole
<1>1. Inv => InstalledIsWhole
  BY DEF Inv
<1> QED
  BY <1>1, InvHolds, PTL

\* The .verified marker of valid_file_cache vouches only for content that was
\* hashed, even if the file is replaced while it is being hashed.
THEOREM MarkerIsSound == CacheSpec => []MarkerSound
<1>1. Inv => MarkerSound
  BY DEF Inv
<1> QED
  BY <1>1, InvHolds, PTL

\* resolve_locked removes what it found in the cache only after a sound entry is
\* in its place.
THEOREM FailurePreserves == CacheSpec => PreviousPreserved
<1> DEFINE A == \A e \in (aside \cup {entry}) \ (aside' \cup {entry'}) :
                  e = Absent \/ outs' # outs \/ Sound(entry) \/ touched[holder]
<1>1. ASSUME Inv, [CacheNext]_cacheVars PROVE [A]_cacheVars
  <2>1. ASSUME NEW b \in Builds, Clean(b) PROVE A
    BY <1>1, <2>1 DEF Clean, Inv, CacheTypeOK, LockOK, Knows, Locked
  <2>2. ASSUME NEW b \in Builds, InstallFile(b) PROVE A
    BY <1>1, <2>2 DEF InstallFile, Inv, CacheTypeOK, LockOK, Knows, Locked
  <2>3. ASSUME NEW b \in Builds, InstallArchive(b) PROVE A
    BY <2>3 DEF InstallArchive
  <2>4. ASSUME NEW b \in Builds, MoveAside(b) PROVE A
    BY <2>4 DEF MoveAside, Rename
  <2>5. CASE Outside
    BY <1>1, <2>5 DEF Outside, Inv, CacheTypeOK, CallsOK
  <2>6. ASSUME NEW b \in Builds,
               Resolve(b) \/ ResolveOverride(b) \/ Lock(b) \/ CheckArchive(b) \/ CheckFile(b) \/ Hash(b)
                 \/ Mark(b) \/ Marked(b) \/ Fetch(b) \/ Verify(b) \/ Unpack(b) \/ WriteDigest(b) \/ CacheFailure(b)
        PROVE  UNCHANGED <<aside, entry>>
    BY <2>6 DEF Resolve, ResolveOverride, Lock, CheckArchive, CheckFile, Hash, Mark, Marked, Fetch,
                Verify, Unpack, WriteDigest, CacheFailure, LockError, IoError, BuildDies
  <2>7. CASE UNCHANGED cacheVars
    BY <2>7
  <2> QED
    BY <1>1, <2>1, <2>2, <2>3, <2>4, <2>5, <2>6, <2>7 DEF CacheNext, Step
<1> QED
  BY <1>1, InvHolds, PTL DEF CacheSpec, PreviousPreserved
=============================================================================
