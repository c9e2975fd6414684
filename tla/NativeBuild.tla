----------------------------- MODULE NativeBuild -----------------------------
(***************************************************************************)
(* The native libraries that a Python host builds on first use (_build.py):*)
(* the process host, libsqlite_fire with its vendored sources, and the     *)
(* Mojo extension, for callers in several processes of the operating       *)
(* system that share one checkout whose sources may be edited.             *)
(*                                                                         *)
(* A source tree is abstracted to the stage it is in, a source hash to     *)
(* what was hashed, a compiled file to what it was compiled from and       *)
(* whether it is whole.  Modification times are editions of the sources.   *)
(* Missing tools and platforms are left out.                               *)
(***************************************************************************)
EXTENDS Integers, FiniteSets

CONSTANTS
    Caller,       \* threads that call, once each
    Home,         \* processes of the operating system
    Settings,     \* what may be the case: the home of each caller, the callers
                  \* that share the turn, whether the vendored sources are there
    Nobody,
    MayFail,      \* whether git, make and the compilers may fail by themselves
    MaxEdition    \* editions of the checkout's own sources

ASSUME CallerAssumption ==
    /\ Nobody \notin Caller
    /\ Settings # {}
    /\ Settings \subseteq [home : [Caller -> Home], sharing : SUBSET Caller, fetched : BOOLEAN]

ASSUME EditionAssumption ==
    MaxEdition \in Nat \ {0} /\ MayFail \in BOOLEAN

VARIABLES
    setting,  \* the one of Settings that is the case
    pos,      \* where each caller stands, and what it remembers
    edition,  \* of the checkout's own sources
    trees,    \* vendor/EmberJson and vendor/sqlite.fire
    hostlib, hosttmp,  \* libfala_process_host and its temporary
    sqlib,    \* libsqlite_fire, which lies inside the tree of sqlite.fire
    cache,    \* __mojocache__
    lock,     \* holder of ensure_native.lock
    loaded    \* sys.modules["fala._native"] of each home

disk == <<setting, edition, trees, hostlib, hosttmp, sqlib, cache>>
buildVars == <<setting, pos, edition, trees, hostlib, hosttmp, sqlib, cache, lock, loaded>>

-----------------------------------------------------------------------------
Ember == "EmberJson"
Sqlite == "sqlite.fire"

Start == [pc |-> "idle", dep |-> "none", for |-> "none", name |-> <<>>]

NoFile == [by |-> Nobody, whole |-> FALSE, stamp |-> 0]

\* A clone that is not checked out has no files to hash.
Hash == <<edition, [d \in {Ember, Sqlite} |-> IF trees[d] = "cloned" THEN "absent" ELSE trees[d]]>>

Compiles == trees[Ember] = "patched" /\ trees[Sqlite] = "pinned"

Found(name) == \E so \in cache : so.name = name

HomeOf(c) == setting.home[c]

Goto(c, pc) == pos' = [pos EXCEPT ![c].pc = pc]

\* The caller leaves the build and forgets what it found.
Leave(c, pc) == pos' = [pos EXCEPT ![c] = [Start EXCEPT !.pc = pc]]

\* Slip: the lock is not released when the build raises.
LockKept(c) == lock

\* A lock is left with the block that took it.
LockLeft(c) == IF lock = c THEN Nobody ELSE lock

Raise(c) == Leave(c, "raised") /\ lock' = LockLeft(c)

-----------------------------------------------------------------------------
(* ensure_process_host_library: no lock, one name for the temporary file.  *)

HostCheck(c) ==
    /\ pos[c].pc = "host"
    /\ IF hostlib # NoFile /\ hostlib.stamp >= edition
       THEN Goto(c, "lib") /\ UNCHANGED hosttmp
       ELSE Goto(c, "host_cc") /\ hosttmp' = NoFile
    /\ UNCHANGED <<setting, edition, trees, hostlib, sqlib, cache, lock, loaded>>

HostCompile(c) ==
    /\ pos[c].pc = "host_cc"
    /\ hosttmp' = [by |-> c, whole |-> FALSE, stamp |-> edition]
    /\ Goto(c, "host_end")
    /\ UNCHANGED <<setting, edition, trees, hostlib, sqlib, cache, lock, loaded>>

\* The compiler completes the file it opened, wherever it was moved meanwhile.
Completed(file, c) ==
    IF file.by = c THEN [file EXCEPT !.whole = TRUE, !.stamp = edition] ELSE file

HostCompiled(c) ==
    /\ pos[c].pc = "host_end"
    /\ \/ /\ hosttmp' = Completed(hosttmp, c) /\ hostlib' = Completed(hostlib, c)
          /\ Goto(c, "host_move") /\ UNCHANGED lock
       \/ MayFail /\ hosttmp' = NoFile /\ UNCHANGED hostlib /\ Raise(c)
    /\ UNCHANGED <<setting, edition, trees, sqlib, cache, loaded>>

HostMove(c) ==
    /\ pos[c].pc = "host_move"
    /\ IF hosttmp # NoFile
       THEN hostlib' = hosttmp /\ hosttmp' = NoFile /\ Goto(c, "lib") /\ UNCHANGED lock
       ELSE Raise(c) /\ UNCHANGED <<hostlib, hosttmp>>
    /\ UNCHANGED <<setting, edition, trees, sqlib, cache, loaded>>

-----------------------------------------------------------------------------
(* ensure_sqlite_fire_library.                                             *)

\* A file that is there is loaded; a torn one does not load.
LibCheck(c) ==
    /\ pos[c].pc = "lib"
    /\ \/ sqlib.whole /\ Leave(c, "look") /\ UNCHANGED lock
       \/ sqlib # NoFile /\ ~sqlib.whole /\ Raise(c)
       \/ /\ sqlib = NoFile
          /\ pos' = [pos EXCEPT ![c].pc = "fetch", ![c].dep = Sqlite, ![c].for = "lib"]
          /\ UNCHANGED lock
    /\ UNCHANGED <<disk, loaded>>

\* make leaves a target alone that another make has begun.
Make(c) ==
    /\ pos[c].pc = "make"
    /\ \/ /\ trees[Sqlite] = "pinned" /\ Goto(c, "made") /\ UNCHANGED lock
          /\ sqlib' = IF sqlib = NoFile THEN [by |-> c, whole |-> FALSE, stamp |-> edition]
                      ELSE sqlib
       \/ trees[Sqlite] # "pinned" /\ Raise(c) /\ UNCHANGED sqlib
    /\ UNCHANGED <<setting, edition, trees, hostlib, hosttmp, cache, loaded>>

Made(c) ==
    /\ pos[c].pc = "made"
    /\ \/ sqlib' = Completed(sqlib, c) /\ Goto(c, "lib_load") /\ UNCHANGED lock
       \/ /\ MayFail /\ Raise(c)
          /\ sqlib' = IF sqlib.by = c THEN NoFile ELSE sqlib
    /\ UNCHANGED <<setting, edition, trees, hostlib, hosttmp, cache, loaded>>

LibLoad(c) ==
    /\ pos[c].pc = "lib_load"
    /\ IF sqlib.whole THEN Leave(c, "look") /\ UNCHANGED lock ELSE Raise(c)
    /\ UNCHANGED <<disk, loaded>>

-----------------------------------------------------------------------------
(* Vendored sources, fetched by whoever misses them.                       *)

\* Where a caller goes on once the sources of its dependency are pinned.
AfterFetch(c) ==
    CASE pos[c].dep = Ember -> "patch"
      [] pos[c].for = "lib" -> "make"
      [] OTHER -> "hash"

\* rmtree takes the library with the tree it lies in.
Removed(d) ==
    /\ trees' = [trees EXCEPT ![d] = "absent"]
    /\ sqlib' = IF d = Sqlite THEN NoFile ELSE sqlib

FetchCheck(c) ==
    /\ pos[c].pc = "fetch"
    /\ Goto(c, IF trees[pos[c].dep] \in {"pinned", "patched"} THEN AfterFetch(c) ELSE "clear")
    /\ UNCHANGED <<disk, lock, loaded>>

FetchClear(c) ==
    /\ pos[c].pc = "clear"
    /\ Removed(pos[c].dep)
    /\ Goto(c, "clone")
    /\ UNCHANGED <<setting, edition, hostlib, hosttmp, cache, lock, loaded>>

\* git refuses a directory that is not empty.
FetchClone(c) ==
    LET d == pos[c].dep
    IN  /\ pos[c].pc = "clone"
        /\ \/ /\ trees[d] = "absent"
              /\ trees' = [trees EXCEPT ![d] = "cloned"]
              /\ Goto(c, "checkout")
           \/ (MayFail \/ trees[d] # "absent") /\ Goto(c, "discard") /\ UNCHANGED trees
        /\ UNCHANGED <<setting, edition, hostlib, hosttmp, sqlib, cache, lock, loaded>>

FetchCheckout(c) ==
    LET d == pos[c].dep
    IN  /\ pos[c].pc = "checkout"
        /\ \/ /\ trees[d] # "absent"
              /\ trees' = [trees EXCEPT ![d] = IF @ = "cloned" THEN "pinned" ELSE @]
              /\ Goto(c, AfterFetch(c))
           \/ (MayFail \/ trees[d] = "absent") /\ Goto(c, "discard") /\ UNCHANGED trees
        /\ UNCHANGED <<setting, edition, hostlib, hosttmp, sqlib, cache, lock, loaded>>

\* The failure handler removes the tree, whoever cloned it.
FetchDiscard(c) ==
    /\ pos[c].pc = "discard"
    /\ Removed(pos[c].dep)
    /\ Raise(c)
    /\ UNCHANGED <<setting, edition, hostlib, hosttmp, cache, loaded>>

PatchCheck(c) ==
    /\ pos[c].pc = "patch"
    /\ pos' = [pos EXCEPT
          ![c].pc = IF trees[Ember] = "patched" THEN "fetch" ELSE "apply",
          ![c].dep = IF trees[Ember] = "patched" THEN Sqlite ELSE @]
    /\ UNCHANGED <<disk, lock, loaded>>

PatchApply(c) ==
    /\ pos[c].pc = "apply"
    /\ \/ /\ trees[Ember] = "pinned"
          /\ trees' = [trees EXCEPT ![Ember] = "patched"]
          /\ pos' = [pos EXCEPT ![c].pc = "fetch", ![c].dep = Sqlite]
          /\ UNCHANGED lock
       \/ trees[Ember] # "pinned" /\ Raise(c) /\ UNCHANGED trees
    /\ UNCHANGED <<setting, edition, hostlib, hosttmp, sqlib, cache, loaded>>

-----------------------------------------------------------------------------
(* ensure_native.                                                          *)

\* The sources are hashed, before and after they are fetched.
Look(c) ==
    /\ pos[c].pc = "look"
    /\ pos' = [pos EXCEPT ![c].name = Hash,
                          ![c].pc = IF Found(Hash) THEN "load" ELSE "fetch",
                          ![c].dep = Ember, ![c].for = "native"]
    /\ UNCHANGED <<disk, lock, loaded>>

LookAgain(c) ==
    /\ pos[c].pc = "hash"
    /\ pos' = [pos EXCEPT ![c].name = Hash, ![c].pc = IF Found(Hash) THEN "load" ELSE "lock"]
    /\ UNCHANGED <<disk, lock, loaded>>

\* _cross_process_lock, across threads and processes.
TakeLock(c) ==
    /\ pos[c].pc = "lock"
    /\ lock = Nobody
    /\ lock' = c
    /\ Goto(c, "recheck")
    /\ UNCHANGED <<disk, loaded>>

\* Slip: the artifact is not looked for again under the lock.
BuildsAlways(name) == TRUE

MustBuild(name) == ~Found(name)

Recheck(c) ==
    /\ pos[c].pc = "recheck"
    /\ Goto(c, IF MustBuild(pos[c].name) THEN "compile" ELSE "prune")
    /\ UNCHANGED <<disk, lock, loaded>>

\* Slip: the compiler writes under the final name.
OutputInPlace(c) == cache \cup {[name |-> pos[c].name, whole |-> FALSE]}

\* What the cache shows while the compiler writes its temporary file.
Output(c) == cache

CompileStart(c) ==
    /\ pos[c].pc = "compile"
    /\ cache' = Output(c)
    /\ Goto(c, "compiling")
    /\ UNCHANGED <<setting, edition, trees, hostlib, hosttmp, sqlib, lock, loaded>>

CompileEnd(c) ==
    /\ pos[c].pc = "compiling"
    /\ \/ Compiles /\ Goto(c, "publish") /\ UNCHANGED lock
       \/ (MayFail \/ ~Compiles) /\ Raise(c)
    /\ UNCHANGED <<disk, loaded>>

Publish(c) ==
    /\ pos[c].pc = "publish"
    /\ cache' = {so \in cache : so.name # pos[c].name} \cup {[name |-> pos[c].name, whole |-> TRUE]}
    /\ Goto(c, "prune")
    /\ UNCHANGED <<setting, edition, trees, hostlib, hosttmp, sqlib, lock, loaded>>

Prune(c) ==
    /\ pos[c].pc = "prune"
    /\ cache' = {so \in cache : so.name = pos[c].name}
    /\ lock' = LockLeft(c)
    /\ Goto(c, "load")
    /\ UNCHANGED <<setting, edition, trees, hostlib, hosttmp, sqlib, loaded>>

\* A module that the home has loaded is used, whatever it was built from.
Load(c) ==
    LET h == HomeOf(c)
    IN  /\ pos[c].pc = "load"
        /\ \/ loaded[h] /\ Leave(c, "ready") /\ UNCHANGED <<lock, loaded>>
           \/ /\ ~loaded[h] /\ Found(pos[c].name)
              /\ loaded' = [loaded EXCEPT ![h] = TRUE]
              /\ Leave(c, "ready") /\ UNCHANGED lock
           \/ ~loaded[h] /\ ~Found(pos[c].name) /\ Raise(c) /\ UNCHANGED loaded
        /\ UNCHANGED disk

-----------------------------------------------------------------------------
EditSources ==
    /\ edition < MaxEdition
    /\ edition' = edition + 1
    /\ UNCHANGED <<setting, pos, trees, hostlib, hosttmp, sqlib, cache, lock, loaded>>

BuildInit ==
    /\ setting \in Settings
    /\ pos = [c \in Caller |-> Start]
    /\ edition = 1
    /\ trees = [d \in {Ember, Sqlite} |->
                  IF ~setting.fetched THEN "absent" ELSE IF d = Ember THEN "patched" ELSE "pinned"]
    /\ hostlib = NoFile /\ hosttmp = NoFile /\ sqlib = NoFile
    /\ cache = {}
    /\ lock = Nobody
    /\ loaded = [h \in Home |-> FALSE]

BuildStep(c) ==
    \/ HostCheck(c) \/ HostCompile(c) \/ HostCompiled(c) \/ HostMove(c)
    \/ LibCheck(c) \/ Make(c) \/ Made(c) \/ LibLoad(c)
    \/ FetchCheck(c) \/ FetchClear(c) \/ FetchClone(c) \/ FetchCheckout(c) \/ FetchDiscard(c)
    \/ PatchCheck(c) \/ PatchApply(c)
    \/ Look(c) \/ LookAgain(c) \/ TakeLock(c) \/ Recheck(c)
    \/ CompileStart(c) \/ CompileEnd(c) \/ Publish(c) \/ Prune(c) \/ Load(c)

-----------------------------------------------------------------------------
(* Properties.                                                             *)

\* "publishes with os.replace": what the cache shows under its final name is
\* whole, whoever died or failed while building it.
ArtifactsWhole == \A so \in cache : so.whole

\* "losers never rebuild": nobody publishes over an artifact that is there, not
\* even a caller that missed it before it waited for the lock.
LosersNeverRebuild ==
    [][\A c \in Caller :
          pos[c].pc = "publish" /\ pos'[c].pc = "prune" => ~Found(pos[c].name)]_buildVars
=============================================================================
