------------------------------ MODULE HostRunProofs ------------------------------
(***************************************************************************)
(* Theorems about HostRun and NativeBuild, for every set of callers and    *)
(* homes, every setting and every bound: what the build lock, the section  *)
(* and the turn protect.                                                   *)
(*                                                                         *)
(* The build steps and the steps of the entry touch each other through     *)
(* pos alone; BuildEffect and EntryFrame say so, and the invariant of each *)
(* lock is proved from its own steps.                                      *)
(***************************************************************************)
EXTENDS HostRun, TLAPS

-----------------------------------------------------------------------------
(* Types.                                                                  *)

Stage == {"absent", "cloned", "pinned", "patched"}

Name == {<<>>} \cup (Nat \X [{Ember, Sqlite} -> Stage])

\* Places under the build lock, and places past the build.
Locked == {"recheck", "compile", "compiling", "publish", "prune"}
Entered == {"section", "native", "restore", "unturn"}

Place == {"idle", "host", "host_cc", "host_end", "host_move", "lib", "make", "made",
          "lib_load", "fetch", "clear", "clone", "checkout", "discard", "patch", "apply",
          "look", "hash", "lock", "load", "ready", "returned", "raised", "dead"}
         \cup Locked \cup Entered

Position == [pc : Place, dep : {"none", Ember, Sqlite}, for : {"none", "lib", "native"},
             name : Name]

File == [by : Caller \cup {Nobody}, whole : BOOLEAN, stamp : Nat]

Environment == [root : Caller \cup {Nobody}, library : BOOLEAN]

Kept == [since : Nat, cwd : {"user", "vendor"}, env : Environment, ok : BOOLEAN]

BuildTypeOK ==
    /\ setting \in Settings
    /\ pos \in [Caller -> Position]
    /\ edition \in Nat
    /\ trees \in [{Ember, Sqlite} -> Stage]
    /\ hostlib \in File /\ hosttmp \in File /\ sqlib \in File
    /\ cache \subseteq [name : Name, whole : BOOLEAN]
    /\ lock \in Caller \cup {Nobody}
    /\ loaded \in [Home -> BOOLEAN]

EntryTypeOK ==
    /\ now \in Nat /\ ended \in Nat
    /\ turn \in Caller \cup {Nobody}
    /\ section \in [Home -> Caller \cup {Nobody}]
    /\ cwd \in [Home -> {"user", "vendor"}]
    /\ env \in [Home -> Environment]
    /\ roots \subseteq Caller /\ jammed \subseteq Home
    /\ call \in [Caller -> Kept]

RunTypeOK == BuildTypeOK /\ EntryTypeOK

-----------------------------------------------------------------------------
(* The inductive invariant.                                                *)

\* The lock serialises what it should: only its holder is under it, and what
\* the holder is about to publish is still missing.
LockInv ==
    \A c \in Caller :
        /\ pos[c].pc \in Locked => lock = c
        /\ pos[c].pc \in {"compile", "compiling", "publish"} => ~ Found(pos[c].name)

\* A caller in the section remembers how the application left its process.
SectionInv ==
    /\ \A c \in Caller :
          pos[c].pc \in {"native", "restore"} =>
              /\ section[HomeOf(c)] = c
              /\ cwd[HomeOf(c)] = "vendor"
              /\ env[HomeOf(c)].root = c /\ c \in roots
              /\ call[c].env = Unset
              /\ call[c].cwd = "user" \/ HomeOf(c) \in jammed
    /\ \A h \in Home :
          section[h] = Nobody => env[h] = Unset /\ (cwd[h] = "user" \/ h \in jammed)

\* The turn is held from before the stamp until after the restore.
TurnInv ==
    /\ ended <= now
    /\ \A c \in Caller :
          Shares(c) /\ pos[c].pc \in Entered =>
              turn = c /\ (pos[c].pc \in {"section", "native"} => call[c].since >= ended)

RunInv == RunTypeOK /\ ArtifactsWhole /\ LockInv /\ SectionInv /\ TurnInv

-----------------------------------------------------------------------------
(* What a build step does to pos, the lock and the cache.                  *)

\* Places of the build outside the lock.
Free == Place \ (Locked \cup Entered)

\* Only c moves, to a place of S.
Goes(c, S) ==
    /\ pos' \in [Caller -> Position]
    /\ pos'[c].pc \in S
    /\ \A d \in Caller \ {c} : pos'[d] = pos[d]

\* A source hash is a name of the cache.
LEMMA HashType == BuildTypeOK => Hash \in Name
BY DEF BuildTypeOK, Hash, Name, Stage, Ember, Sqlite

\* Goto moves one caller, and forgets nothing.
LEMMA GotoMoves ==
    ASSUME BuildTypeOK, NEW c \in Caller, NEW pc \in Place, Goto(c, pc)
    PROVE  Goes(c, {pc}) /\ pos'[c].name = pos[c].name
BY DEF BuildTypeOK, Goto, Position, Goes

\* Leave moves one caller to the start of its next stage.
LEMMA LeaveMoves ==
    ASSUME BuildTypeOK, NEW c \in Caller, NEW pc \in Place, Leave(c, pc)
    PROVE  Goes(c, {pc})
<1>1. [Start EXCEPT !.pc = pc] \in Position
  BY DEF Start, Position, Name
<1>. QED  BY <1>1 DEF BuildTypeOK, Leave, Start, Goes

\* So does a step that sets what the caller remembers, one field after another.
LEMMA FieldMoves ==
    ASSUME NEW c \in Caller, NEW p, p \in [Caller -> Position], p[c].pc \in Free,
           \A d \in Caller \ {c} : p[d] = pos[d],
           \/ \E dep \in {"none", Ember, Sqlite} : pos' = [p EXCEPT ![c].dep = dep]
           \/ \E for \in {"none", "lib", "native"} : pos' = [p EXCEPT ![c].for = for]
    PROVE  Goes(c, Free)
BY DEF Goes, Position

\* The combinations of fields the code sets in one step.
LEMMA PlaceMoves ==
    ASSUME BuildTypeOK, NEW c \in Caller, NEW pc \in Free,
           NEW dep \in {"none", Ember, Sqlite}, NEW for \in {"none", "lib", "native"},
           NEW name \in Name
    PROVE  /\ pos' = [pos EXCEPT ![c].pc = pc, ![c].dep = dep] => Goes(c, Free)
           /\ pos' = [pos EXCEPT ![c].pc = pc, ![c].dep = dep, ![c].for = for] => Goes(c, Free)
           /\ pos' = [pos EXCEPT ![c].name = name, ![c].pc = pc] => Goes(c, Free)
           /\ pos' = [pos EXCEPT ![c].name = name, ![c].pc = pc, ![c].dep = dep, ![c].for = for]
              => Goes(c, Free)
<1>1. PICK p : p = [pos EXCEPT ![c].pc = pc]
  OBVIOUS
<1>2. p \in [Caller -> Position] /\ p[c].pc \in Free /\ \A d \in Caller \ {c} : p[d] = pos[d]
  BY <1>1 DEF BuildTypeOK, Position, Free
<1>3. PICK q : q = [p EXCEPT ![c].dep = dep]
  OBVIOUS
<1>4. q \in [Caller -> Position] /\ q[c].pc \in Free /\ \A d \in Caller \ {c} : q[d] = pos[d]
  BY <1>2, <1>3 DEF Position
<1>5. PICK n : n = [pos EXCEPT ![c].name = name]
  OBVIOUS
<1>6. n \in [Caller -> Position] /\ \A d \in Caller \ {c} : n[d] = pos[d]
  BY <1>5 DEF BuildTypeOK, Position
<1>7. PICK r : r = [n EXCEPT ![c].pc = pc]
  OBVIOUS
<1>8. r \in [Caller -> Position] /\ r[c].pc \in Free /\ \A d \in Caller \ {c} : r[d] = pos[d]
  BY <1>6, <1>7 DEF Position, Free
<1>9. PICK t : t = [r EXCEPT ![c].dep = dep]
  OBVIOUS
<1>10. t \in [Caller -> Position] /\ t[c].pc \in Free /\ \A d \in Caller \ {c} : t[d] = pos[d]
  BY <1>8, <1>9 DEF Position
<1>11. ASSUME pos' = [pos EXCEPT ![c].pc = pc, ![c].dep = dep] PROVE Goes(c, Free)
  <2>1. pos' = [p EXCEPT ![c].dep = dep]
    BY <1>1, <1>11
  <2>. QED  BY <1>2, <2>1, FieldMoves
<1>12. ASSUME pos' = [pos EXCEPT ![c].pc = pc, ![c].dep = dep, ![c].for = for]
       PROVE  Goes(c, Free)
  <2>1. pos' = [q EXCEPT ![c].for = for]
    BY <1>1, <1>3, <1>12
  <2>. QED  BY <1>4, <2>1, FieldMoves
<1>13. ASSUME pos' = [pos EXCEPT ![c].name = name, ![c].pc = pc] PROVE Goes(c, Free)
  <2>1. pos' = r
    BY <1>5, <1>7, <1>13
  <2>. QED  BY <1>8, <2>1 DEF Goes
<1>14. ASSUME pos' = [pos EXCEPT ![c].name = name, ![c].pc = pc, ![c].dep = dep, ![c].for = for]
       PROVE  Goes(c, Free)
  <2>1. pos' = [t EXCEPT ![c].for = for]
    BY <1>5, <1>7, <1>9, <1>14
  <2>. QED  BY <1>10, <2>1, FieldMoves
<1>. QED  BY <1>11, <1>12, <1>13, <1>14

\* What a step away from the lock keeps to: it moves its own caller, among the
\* places of the build, and never the setting; it may give the lock up.
Outside(c) ==
    /\ Goes(c, Free) /\ pos[c].pc \notin Entered
    /\ UNCHANGED <<setting, cache>>
    /\ lock' \in {lock, LockLeft(c)}

\* A step under the lock.
Under(c, from, to) ==
    /\ Goes(c, {to}) /\ pos[c].pc = from /\ pos'[c].name = pos[c].name
    /\ UNCHANGED <<setting, lock>>

FileTypeOK ==
    /\ edition \in Nat
    /\ trees \in [{Ember, Sqlite} -> Stage]
    /\ hostlib \in File /\ hosttmp \in File /\ sqlib \in File
    /\ loaded \in [Home -> BOOLEAN]

\* A caller that stops at a place, leaves for one or raises is outside the lock.
LEMMA OutsideStep ==
    ASSUME BuildTypeOK, NEW c \in Caller, pos[c].pc \notin Entered,
           UNCHANGED <<setting, cache>>,
           \/ lock' = lock /\ \E pc \in Free : Goto(c, pc) \/ Leave(c, pc)
           \/ lock' = lock /\ Goes(c, Free)
           \/ Raise(c)
    PROVE  Outside(c)
<1>1. CASE lock' = lock /\ \E pc \in Free : Goto(c, pc) \/ Leave(c, pc)
  <2>1. PICK pc \in Free : Goto(c, pc) \/ Leave(c, pc)
    BY <1>1
  <2>2. Goes(c, {pc})
    BY <2>1, GotoMoves, LeaveMoves DEF Free
  <2>. QED  BY <1>1, <2>2 DEF Outside, Goes
<1>2. CASE Raise(c)
  <2>1. Leave(c, "raised") /\ lock' = LockLeft(c) /\ "raised" \in Place /\ "raised" \in Free
    BY <1>2 DEF Raise, Free, Place, Locked, Entered
  <2>2. Goes(c, {"raised"})
    BY <2>1, LeaveMoves
  <2>. QED  BY <2>1, <2>2 DEF Outside, Goes
<1>3. CASE lock' = lock /\ Goes(c, Free)
  BY <1>3 DEF Outside
<1>. QED  BY <1>1, <1>2, <1>3

\* A file of the build is no file, or one somebody writes or has written.
LEMMA Files ==
    ASSUME BuildTypeOK, NEW c \in Caller
    PROVE  /\ NoFile \in File
           /\ \A f \in File : Completed(f, c) \in File
           /\ [by |-> c, whole |-> FALSE, stamp |-> edition] \in File
           /\ FileTypeOK
BY DEF NoFile, File, Completed, BuildTypeOK, FileTypeOK

\* The process host is built outside the lock.
LEMMA HostSteps ==
    ASSUME BuildTypeOK, NEW c \in Caller,
           HostCheck(c) \/ HostCompile(c) \/ HostCompiled(c) \/ HostMove(c)
    PROVE  Outside(c) /\ FileTypeOK'
<1>1. FileTypeOK'
  BY Files DEF FileTypeOK, HostCheck, HostCompile, HostCompiled, HostMove
<1>2. pos[c].pc \in {"host", "host_cc", "host_end", "host_move"}
  BY DEF HostCheck, HostCompile, HostCompiled, HostMove
<1>3. \/ lock' = lock /\ \E pc \in {"lib", "host_cc", "host_end", "host_move"} : Goto(c, pc)
      \/ Raise(c)
  BY DEF HostCheck, HostCompile, HostCompiled, HostMove
<1>4. UNCHANGED <<setting, cache>>
  BY DEF HostCheck, HostCompile, HostCompiled, HostMove
<1>5. {"lib", "host_cc", "host_end", "host_move"} \subseteq Free /\ pos[c].pc \notin Entered
  BY <1>2 DEF Free, Place, Locked, Entered
<1>. QED  BY <1>1, <1>3, <1>4, <1>5, OutsideStep

\* So is libsqlite_fire.
LEMMA LibSteps ==
    ASSUME BuildTypeOK, NEW c \in Caller,
           LibCheck(c) \/ Make(c) \/ Made(c) \/ LibLoad(c)
    PROVE  Outside(c) /\ FileTypeOK'
<1>1. FileTypeOK'
  BY Files DEF FileTypeOK, LibCheck, Make, Made, LibLoad, disk
<1>2. pos[c].pc \in {"lib", "make", "made", "lib_load"}
  BY DEF LibCheck, Make, Made, LibLoad
<1>3. UNCHANGED <<setting, cache>>
  BY DEF LibCheck, Make, Made, LibLoad, disk
<1>4. {"look", "fetch", "made", "lib_load"} \subseteq Free /\ pos[c].pc \notin Entered
  BY <1>2 DEF Free, Place, Locked, Entered
<1>5. ASSUME pos' = [pos EXCEPT ![c].pc = "fetch", ![c].dep = Sqlite, ![c].for = "lib"]
      PROVE  Goes(c, Free)
  <2>1. "fetch" \in Free /\ "lib" \in {"none", "lib", "native"} /\ <<>> \in Name
    BY <1>4 DEF Name
  <2>. QED  BY <1>5, <2>1, PlaceMoves
<1>6. \/ lock' = lock /\ \E pc \in {"look", "fetch", "made", "lib_load"} :
            Goto(c, pc) \/ Leave(c, pc)
      \/ lock' = lock /\ pos' = [pos EXCEPT ![c].pc = "fetch", ![c].dep = Sqlite, ![c].for = "lib"]
      \/ Raise(c)
  BY DEF LibCheck, Make, Made, LibLoad
<1>. QED  BY <1>1, <1>3, <1>4, <1>5, <1>6, OutsideStep

\* The vendored sources are fetched and thrown away outside the lock as well.
LEMMA FetchSteps ==
    ASSUME BuildTypeOK, NEW c \in Caller,
           FetchCheck(c) \/ FetchClear(c) \/ FetchClone(c) \/ FetchCheckout(c) \/ FetchDiscard(c)
    PROVE  Outside(c) /\ FileTypeOK'
<1>1. FileTypeOK'
  <2>. USE Files DEF FileTypeOK, Stage
  <2>1. CASE FetchCheck(c)
    BY <2>1 DEF FetchCheck, disk
  <2>2. CASE FetchClear(c) \/ FetchDiscard(c)
    BY <2>2 DEF FetchClear, FetchDiscard, Removed
  <2>3. CASE FetchClone(c)
    BY <2>3 DEF FetchClone
  <2>4. CASE FetchCheckout(c)
    BY <2>4 DEF FetchCheckout
  <2>. QED  BY <2>1, <2>2, <2>3, <2>4
<1>2. pos[c].pc \in {"fetch", "clear", "clone", "checkout", "discard"}
  BY DEF FetchCheck, FetchClear, FetchClone, FetchCheckout, FetchDiscard
<1>3. UNCHANGED <<setting, cache>>
  BY DEF FetchCheck, FetchClear, FetchClone, FetchCheckout, FetchDiscard, disk
<1>4. {"patch", "make", "hash", "clear", "clone", "checkout", "discard"} \subseteq Free
      /\ pos[c].pc \notin Entered
  BY <1>2 DEF Free, Place, Locked, Entered
<1>5. AfterFetch(c) \in {"patch", "make", "hash"}
  BY DEF AfterFetch
<1>6. \/ lock' = lock /\ \E pc \in {"patch", "make", "hash", "clear", "clone", "checkout", "discard"} :
            Goto(c, pc)
      \/ Raise(c)
  BY <1>5 DEF FetchCheck, FetchClear, FetchClone, FetchCheckout, FetchDiscard
<1>. QED  BY <1>1, <1>3, <1>4, <1>6, OutsideStep

\* Patching, hashing and loading too.
LEMMA PatchSteps ==
    ASSUME BuildTypeOK, NEW c \in Caller,
           PatchCheck(c) \/ PatchApply(c) \/ Look(c) \/ LookAgain(c) \/ Load(c)
    PROVE  Outside(c) /\ FileTypeOK'
<1>1. FileTypeOK'
  <2>. USE Files DEF FileTypeOK, Stage
  <2>1. CASE PatchCheck(c) \/ Look(c) \/ LookAgain(c)
    BY <2>1 DEF PatchCheck, Look, LookAgain, disk
  <2>2. CASE PatchApply(c)
    BY <2>2 DEF PatchApply
  <2>3. CASE Load(c)
    BY <2>3 DEF Load, disk
  <2>. QED  BY <2>1, <2>2, <2>3
<1>2. pos[c].pc \in {"patch", "apply", "look", "hash", "load"}
  BY DEF PatchCheck, PatchApply, Look, LookAgain, Load
<1>3. UNCHANGED <<setting, cache>>
  BY DEF PatchCheck, PatchApply, Look, LookAgain, Load, disk
<1>4. {"fetch", "apply", "load", "lock", "ready"} \subseteq Free /\ pos[c].pc \notin Entered
  BY <1>2 DEF Free, Place, Locked, Entered
<1>5. ASSUME PatchCheck(c) \/ PatchApply(c), ~ Raise(c)
      PROVE  lock' = lock /\ Goes(c, Free)
  <2>1. \E pc \in {"fetch", "apply"}, dep \in {pos[c].dep, Sqlite} :
           pos' = [pos EXCEPT ![c].pc = pc, ![c].dep = dep]
    BY <1>5 DEF PatchCheck, PatchApply
  <2>2. PICK pc \in {"fetch", "apply"}, dep \in {pos[c].dep, Sqlite} :
             pos' = [pos EXCEPT ![c].pc = pc, ![c].dep = dep]
    BY <2>1
  <2>3. Goes(c, Free)
    <3>1. pc \in Free /\ dep \in {"none", Ember, Sqlite} /\ <<>> \in Name /\ "none" \in {"none", "lib", "native"}
      BY <1>4 DEF BuildTypeOK, Position, Name
    <3>. QED  BY <2>2, <3>1, PlaceMoves
  <2>. QED  BY <1>5, <2>3 DEF PatchCheck, PatchApply
<1>6. ASSUME Look(c) \/ LookAgain(c)
      PROVE  lock' = lock /\ Goes(c, Free)
  <2>1. Hash \in Name
    BY HashType
  <2>2. CASE Look(c)
    <3>1. PICK pc \in {"load", "fetch"} :
               pos' = [pos EXCEPT ![c].name = Hash, ![c].pc = pc,
                                  ![c].dep = Ember, ![c].for = "native"]
      BY <2>2 DEF Look
    <3>2. Goes(c, Free)
      BY <1>4, <2>1, <3>1, PlaceMoves
    <3>. QED  BY <2>2, <3>2 DEF Look
  <2>3. CASE LookAgain(c)
    <3>1. PICK pc \in {"load", "lock"} : pos' = [pos EXCEPT ![c].name = Hash, ![c].pc = pc]
      BY <2>3 DEF LookAgain
    <3>2. Goes(c, Free)
      BY <1>4, <2>1, <3>1, PlaceMoves
    <3>. QED  BY <2>3, <3>2 DEF LookAgain
  <2>. QED  BY <1>6, <2>2, <2>3
<1>7. ASSUME Load(c)
      PROVE  (lock' = lock /\ \E pc \in Free : Goto(c, pc) \/ Leave(c, pc)) \/ Raise(c)
  BY <1>4, <1>7 DEF Load
<1>. QED  BY <1>1, <1>3, <1>4, <1>5, <1>6, <1>7, OutsideStep

\* What a build step may do to the lock and the cache.
LockOutcome(c) ==
    \/ Outside(c)
    \/ /\ lock = Nobody /\ lock' = c /\ UNCHANGED <<setting, cache>>
       /\ Goes(c, {"recheck"}) /\ pos[c].pc \notin Entered
    \/ Under(c, "recheck", "compile") /\ ~ Found(pos[c].name) /\ cache' = cache
    \/ Under(c, "recheck", "prune") /\ cache' = cache
    \/ Under(c, "compile", "compiling") /\ cache' = cache
    \/ Under(c, "compiling", "publish") /\ cache' = cache
    \/ /\ Under(c, "publish", "prune")
       /\ cache' = {so \in cache : so.name # pos[c].name}
                   \cup {[name |-> pos[c].name, whole |-> TRUE]}
    \/ /\ Goes(c, {"load"}) /\ pos[c].pc = "prune" /\ setting' = setting
       /\ cache' \subseteq cache /\ lock' = LockLeft(c)

\* What a step to, under or from the lock does.
LEMMA LockSteps ==
    ASSUME BuildTypeOK, NEW c \in Caller,
           \/ TakeLock(c) \/ Recheck(c) \/ CompileStart(c) \/ CompileEnd(c)
           \/ Publish(c) \/ Prune(c)
    PROVE  /\ FileTypeOK'
           /\ LockOutcome(c)
<1>. USE DEF LockOutcome
<1>1. FileTypeOK'
  BY Files DEF FileTypeOK, TakeLock, Recheck, CompileStart, CompileEnd, Publish, Prune, disk
<1>2. /\ Locked \subseteq Place /\ Locked \cap Entered = {}
      /\ "lock" \notin Entered /\ "load" \in Place
  BY DEF Locked, Place, Entered
<1>3. {"recheck", "compile", "compiling", "publish", "prune"} \subseteq Place
  BY DEF Place, Locked
<1>4. CASE TakeLock(c)
  <2>1. Goes(c, {"recheck"})
    BY <1>3, <1>4, GotoMoves DEF TakeLock
  <2>. QED  BY <1>1, <1>2, <1>4, <2>1 DEF TakeLock, disk
<1>5. CASE Recheck(c)
  <2>1. CASE Found(pos[c].name)
    <3>1. Goto(c, "prune")
      BY <1>5, <2>1 DEF Recheck, MustBuild
    <3>2. Under(c, "recheck", "prune")
      BY <1>3, <1>5, <3>1, GotoMoves DEF Recheck, Under, disk
    <3>. QED  BY <1>1, <1>5, <3>2 DEF Recheck, disk
  <2>2. CASE ~ Found(pos[c].name)
    <3>1. Goto(c, "compile")
      BY <1>5, <2>2 DEF Recheck, MustBuild
    <3>2. Under(c, "recheck", "compile")
      BY <1>3, <1>5, <3>1, GotoMoves DEF Recheck, Under, disk
    <3>. QED  BY <1>1, <1>5, <2>2, <3>2 DEF Recheck, disk
  <2>. QED  BY <2>1, <2>2
<1>6. CASE CompileStart(c)
  <2>1. Under(c, "compile", "compiling")
    BY <1>3, <1>6, GotoMoves DEF CompileStart, Under
  <2>. QED  BY <1>1, <1>6, <2>1 DEF CompileStart, Output
<1>7. CASE CompileEnd(c)
  <2>1. UNCHANGED <<setting, cache>> /\ pos[c].pc = "compiling"
    BY <1>7 DEF CompileEnd, disk
  <2>2. CASE Goto(c, "publish") /\ lock' = lock
    BY <1>1, <1>3, <2>1, <2>2, GotoMoves DEF Under
  <2>3. CASE Raise(c)
    <3>1. pos[c].pc \notin Entered
      BY <2>1 DEF Entered
    <3>. QED  BY <1>1, <2>1, <2>3, <3>1, OutsideStep
  <2>. QED  BY <1>7, <2>2, <2>3 DEF CompileEnd
<1>8. CASE Publish(c)
  <2>1. Under(c, "publish", "prune")
    BY <1>3, <1>8, GotoMoves DEF Publish, Under
  <2>. QED  BY <1>1, <1>8, <2>1 DEF Publish
<1>9. CASE Prune(c)
  <2>1. Goes(c, {"load"})
    BY <1>2, <1>9, GotoMoves DEF Prune
  <2>2. cache' \subseteq cache
    BY <1>9 DEF Prune
  <2>. QED  BY <1>1, <1>9, <2>1, <2>2 DEF Prune
<1>. QED  BY <1>4, <1>5, <1>6, <1>7, <1>8, <1>9

\* Every build step keeps the types and has one of these outcomes.
LEMMA BuildEffect ==
    ASSUME BuildTypeOK, NEW c \in Caller, BuildStep(c)
    PROVE  BuildTypeOK' /\ LockOutcome(c)
<1>1. FileTypeOK' /\ LockOutcome(c)
  <2>1. ASSUME Outside(c) PROVE LockOutcome(c)
    BY <2>1 DEF LockOutcome
  <2>. QED  BY <2>1, HostSteps, LibSteps, FetchSteps, PatchSteps, LockSteps DEF BuildStep
<1>2. pos[c].name \in Name
  BY DEF BuildTypeOK, Position
<1>3. setting' \in Settings /\ pos' \in [Caller -> Position]
  BY <1>1 DEF LockOutcome, Outside, Under, Goes, BuildTypeOK
<1>4. lock' \in Caller \cup {Nobody}
  BY <1>1 DEF LockOutcome, Outside, Under, LockLeft, BuildTypeOK
<1>5. cache' \subseteq [name : Name, whole : BOOLEAN]
  <2>1. [name |-> pos[c].name, whole |-> TRUE] \in [name : Name, whole : BOOLEAN]
    BY <1>2
  <2>2. \/ cache' \subseteq cache
        \/ cache' = {so \in cache : so.name # pos[c].name}
                    \cup {[name |-> pos[c].name, whole |-> TRUE]}
    BY <1>1 DEF LockOutcome, Outside
  <2>. QED  BY <2>1, <2>2 DEF BuildTypeOK
<1>. QED  BY <1>1, <1>3, <1>4, <1>5 DEF BuildTypeOK, FileTypeOK

-----------------------------------------------------------------------------
(* The build lock.                                                         *)

\* A build step keeps the lock's promises.
LEMMA LockByBuild ==
    ASSUME BuildTypeOK, LockInv, ArtifactsWhole, NEW c \in Caller, BuildStep(c)
    PROVE  LockInv' /\ ArtifactsWhole'
<1>. DEFINE Safe(d) == /\ pos'[d].pc \in Locked => lock' = d
                       /\ pos'[d].pc \in {"compile", "compiling", "publish"}
                          => ~ \E so \in cache' : so.name = pos'[d].name
<1>1. LockOutcome(c)
  BY BuildEffect
<1>2. ArtifactsWhole'
  BY <1>1 DEF LockOutcome, Outside, ArtifactsWhole
<1>3. {"compile", "compiling", "publish"} \subseteq Locked /\ "prune" \in Locked
      /\ "recheck" \in Locked /\ Free \cap Locked = {} /\ "load" \notin Locked
  BY DEF Free, Locked
<1>4. \A d \in Caller : /\ pos[d].pc \in Locked => lock = d
                        /\ pos[d].pc \in {"compile", "compiling", "publish"}
                           => ~ \E so \in cache : so.name = pos[d].name
  BY DEF LockInv, Found
<1>5. ASSUME NEW d \in Caller, d # c PROVE Safe(d)
  <2>1. pos'[d] = pos[d]
    BY <1>1, <1>5 DEF LockOutcome, Outside, Under, Goes
  <2>2. CASE pos[d].pc \notin Locked
    BY <1>3, <2>1, <2>2
  <2>3. CASE pos[d].pc \in Locked
    <3>1. lock = d /\ d # Nobody
      BY <1>4, <2>3, CallerAssumption
    <3>2. pos[c].pc \notin Locked
      BY <1>4, <1>5, <3>1
    <3>3. Outside(c)
      BY <1>1, <1>3, <3>1, <3>2 DEF LockOutcome, Under
    <3>4. lock' = d /\ cache' = cache
      BY <1>5, <3>1, <3>3 DEF Outside, LockLeft
    <3>. QED  BY <1>4, <2>1, <3>4
  <2>. QED  BY <2>2, <2>3
<1>6. Safe(c)
  <2>1. CASE Outside(c) \/ Goes(c, {"load"})
    BY <1>3, <2>1 DEF Outside, Goes
  <2>2. CASE lock' = c /\ Goes(c, {"recheck"})
    BY <2>2 DEF Goes
  <2>3. CASE Under(c, "recheck", "compile") /\ ~ Found(pos[c].name) /\ cache' = cache
    BY <1>3, <1>4, <2>3 DEF Under, Goes, Found
  <2>4. CASE Under(c, "recheck", "prune") \/ Under(c, "publish", "prune")
    BY <1>3, <1>4, <2>4 DEF Under, Goes
  <2>5. CASE (Under(c, "compile", "compiling") \/ Under(c, "compiling", "publish"))
             /\ cache' = cache
    BY <1>3, <1>4, <2>5 DEF Under, Goes
  <2>. QED  BY <1>1, <2>1, <2>2, <2>3, <2>4, <2>5 DEF LockOutcome
<1>7. LockInv'
  BY <1>5, <1>6 DEF LockInv, Found
<1>. QED  BY <1>2, <1>7

\* What the steps of the entry leave alone, and where they go.
EntryMoves(c) ==
    /\ Goes(c, Place \ Locked) /\ pos[c].pc \notin Locked
    /\ UNCHANGED <<disk, lock, loaded>>

\* The entry touches neither the lock nor anything the build makes.
LEMMA EntryFrame ==
    ASSUME BuildTypeOK, NEW c \in Caller, Enter(c) \/ EntryStep(c)
    PROVE  EntryMoves(c) /\ BuildTypeOK'
<1>1. UNCHANGED <<disk, lock, loaded>>
  BY DEF EntryStep, Enter, TakeTurn, EnterSection, Native, Restore, EndTurn
<1>2. \E pc \in {"lib", "host", "section", "native", "restore", "unturn", "returned", "raised"} :
         Goto(c, pc)
  BY DEF EntryStep, Enter, TakeTurn, EnterSection, Native, Restore, EndTurn
<1>3. pos[c].pc \in {"idle", "ready", "section", "native", "restore", "unturn"}
  BY DEF EntryStep, Enter, TakeTurn, EnterSection, Native, Restore, EndTurn
<1>4. {"lib", "host", "section", "native", "restore", "unturn", "returned", "raised"}
      \subseteq Place \ Locked
  BY DEF Place, Locked, Entered
<1>5. pos[c].pc \notin Locked
  BY <1>3 DEF Locked
<1>6. PICK pc \in Place \ Locked : Goto(c, pc)
  BY <1>2, <1>4
<1>7. Goes(c, {pc})
  BY <1>6, GotoMoves
<1>8. Goes(c, Place \ Locked)
  BY <1>6, <1>7 DEF Goes
<1>. QED  BY <1>1, <1>5, <1>8 DEF EntryMoves, BuildTypeOK, Goes, disk

\* Neither does the death of a home: what was locked for its callers is free,
\* and nobody of it is under the lock.
LEMMA CrashFrame ==
    ASSUME BuildTypeOK, NEW h \in Home, Crash(h)
    PROVE  /\ BuildTypeOK' /\ UNCHANGED <<disk, loaded>>
           /\ \A d \in Caller : \/ HomeOf(d) = h /\ pos'[d].pc = "dead"
                                \/ HomeOf(d) # h /\ pos'[d] = pos[d]
           /\ \A d \in Caller : HomeOf(d) # h /\ lock = d => lock' = d
<1>1. [Start EXCEPT !.pc = "dead"] \in Position
  BY DEF Start, Position, Place, Name
<1>2. /\ pos' = [c \in Caller |-> IF HomeOf(c) = h THEN [Start EXCEPT !.pc = "dead"] ELSE pos[c]]
      /\ lock' = IF lock \in {c \in Caller : HomeOf(c) = h} THEN Nobody ELSE lock
      /\ UNCHANGED <<disk, loaded>>
  BY DEF Crash
<1>3. pos' \in [Caller -> Position] /\ lock' \in Caller \cup {Nobody}
  BY <1>1, <1>2 DEF BuildTypeOK
<1>4. BuildTypeOK'
  BY <1>2, <1>3 DEF BuildTypeOK, disk
<1>5. [Start EXCEPT !.pc = "dead"].pc = "dead"
  BY DEF Start
<1>. QED  BY <1>2, <1>4, <1>5

\* The lock's promises outlive every step: of a builder, of a caller past the
\* build, of a dying home, of an editor.
LEMMA LockInduction ==
    ASSUME BuildTypeOK, LockInv, ArtifactsWhole, [RunNext]_runVars
    PROVE  BuildTypeOK' /\ LockInv' /\ ArtifactsWhole'
<1>1. ASSUME NEW c \in Caller, BuildStep(c)
      PROVE  BuildTypeOK' /\ LockInv' /\ ArtifactsWhole'
  BY <1>1, BuildEffect, LockByBuild
<1>2. ASSUME NEW c \in Caller, Enter(c) \/ EntryStep(c)
      PROVE  BuildTypeOK' /\ LockInv' /\ ArtifactsWhole'
  <2>1. EntryMoves(c) /\ BuildTypeOK'
    BY <1>2, EntryFrame
  <2>2. cache' = cache /\ lock' = lock
    BY <2>1 DEF EntryMoves, disk
  <2>3. {"compile", "compiling", "publish"} \subseteq Locked
    BY DEF Locked
  <2>4. \A d \in Caller : pos'[d].pc \in Locked => pos'[d] = pos[d]
    BY <2>1 DEF EntryMoves, Goes
  <2>5. LockInv'
    BY <2>2, <2>3, <2>4 DEF LockInv, Found
  <2>. QED  BY <2>1, <2>2, <2>5 DEF ArtifactsWhole
<1>3. ASSUME NEW h \in Home, Crash(h)
      PROVE  BuildTypeOK' /\ LockInv' /\ ArtifactsWhole'
  <2>1. cache' = cache /\ BuildTypeOK'
    BY <1>3, CrashFrame DEF disk
  <2>2. "dead" \notin Locked /\ {"compile", "compiling", "publish"} \subseteq Locked
    BY DEF Locked
  <2>3. \A d \in Caller : pos'[d].pc \in Locked =>
           pos'[d] = pos[d] /\ (lock = d => lock' = d)
    BY <1>3, <2>2, CrashFrame
  <2>4. LockInv'
    BY <2>1, <2>2, <2>3 DEF LockInv, Found
  <2>. QED  BY <2>1, <2>4 DEF ArtifactsWhole
<1>4. CASE EditSources
  <2>1. BuildTypeOK'
    BY <1>4 DEF EditSources, BuildTypeOK
  <2>. QED  BY <1>4, <2>1 DEF EditSources, LockInv, Found, ArtifactsWhole
<1>5. CASE UNCHANGED runVars
  BY <1>5 DEF runVars, buildVars, BuildTypeOK, LockInv, Found, ArtifactsWhole
<1>. QED  BY <1>1, <1>2, <1>3, <1>4, <1>5 DEF RunNext, RunStep

-----------------------------------------------------------------------------
(* The section and the turn.                                               *)

\* The home of a caller is a home.
LEMMA HomeType == ASSUME BuildTypeOK, NEW c \in Caller PROVE HomeOf(c) \in Home
BY CallerAssumption DEF BuildTypeOK, HomeOf

\* Who does not enter, and changes nothing of the entry, disturbs nobody in it.
LEMMA EntryUndisturbed ==
    ASSUME EntryTypeOK, SectionInv, TurnInv, UNCHANGED entryVars, setting' = setting,
           \A d \in Caller : pos'[d] = pos[d] \/ pos'[d].pc \notin Entered
    PROVE  EntryTypeOK' /\ SectionInv' /\ TurnInv'
<1>. USE DEF entryVars
<1>1. EntryTypeOK'
  BY DEF EntryTypeOK
<1>2. {"section", "native", "restore"} \subseteq Entered
  BY DEF Entered
<1>3. SectionInv'
  BY <1>2 DEF SectionInv, HomeOf
<1>4. TurnInv'
  BY <1>2 DEF TurnInv, Shares
<1>. QED  BY <1>1, <1>3, <1>4

\* No build step enters.
LEMMA EntryByBuild ==
    ASSUME BuildTypeOK, EntryTypeOK, SectionInv, TurnInv,
           NEW c \in Caller, BuildStep(c), UNCHANGED entryVars
    PROVE  EntryTypeOK' /\ SectionInv' /\ TurnInv'
<1>1. LockOutcome(c)
  BY BuildEffect
<1>2. setting' = setting /\ \A d \in Caller \ {c} : pos'[d] = pos[d]
  BY <1>1 DEF LockOutcome, Outside, Under, Goes
<1>3. pos'[c].pc \in Free \cup Locked \cup {"load"}
  BY <1>1 DEF LockOutcome, Outside, Under, Goes, Locked
<1>4. pos'[c].pc \notin Entered
  BY <1>3 DEF Free, Locked, Entered
<1>. QED  BY <1>2, <1>4, EntryUndisturbed

\* Goto, with all that the entry needs to know of it.
LEMMA EntryGoto ==
    ASSUME BuildTypeOK, NEW c \in Caller, NEW pc \in Place, Goto(c, pc),
           UNCHANGED disk
    PROVE  /\ pos'[c].pc = pc /\ \A d \in Caller \ {c} : pos'[d] = pos[d]
           /\ setting' = setting
BY GotoMoves DEF Goes, disk

\* Asking for a run changes nothing that others hold.
LEMMA EnterKeeps ==
    ASSUME BuildTypeOK, EntryTypeOK, SectionInv, TurnInv, NEW c \in Caller, Enter(c)
    PROVE  EntryTypeOK' /\ SectionInv' /\ TurnInv'
<1>1. PICK pc \in {"lib", "host"} : Goto(c, pc)
  BY DEF Enter
<1>2. pc \in Place /\ pc \notin Entered /\ {"section", "native", "restore"} \subseteq Entered
  BY DEF Place, Entered
<1>3. pos'[c].pc = pc /\ setting' = setting /\ \A d \in Caller \ {c} : pos'[d] = pos[d]
  BY <1>1, <1>2, EntryGoto DEF Enter
<1>4. UNCHANGED <<now, turn, ended, section, cwd, env, roots, jammed>>
      /\ call' = [call EXCEPT ![c].since = now]
  BY DEF Enter
<1>5. EntryTypeOK'
  BY <1>4 DEF EntryTypeOK, Kept
<1>6. \A d \in Caller \ {c} : call'[d] = call[d]
  BY <1>4 DEF EntryTypeOK
<1>7. SectionInv'
  BY <1>2, <1>3, <1>4, <1>6 DEF SectionInv, HomeOf
<1>8. TurnInv'
  BY <1>2, <1>3, <1>4, <1>6 DEF TurnInv, Shares
<1>. QED  BY <1>5, <1>7, <1>8

\* The turn is taken from nobody, and the run is stamped inside it.
LEMMA TakeTurnKeeps ==
    ASSUME BuildTypeOK, EntryTypeOK, SectionInv, TurnInv, NEW c \in Caller, TakeTurn(c)
    PROVE  EntryTypeOK' /\ SectionInv' /\ TurnInv'
<1>1. "section" \in Place /\ Entered = {"section", "native", "restore", "unturn"}
  BY DEF Place, Entered
<1>2. pos'[c].pc = "section" /\ setting' = setting /\ \A d \in Caller \ {c} : pos'[d] = pos[d]
  BY <1>1, EntryGoto DEF TakeTurn
<1>3. UNCHANGED <<now, ended, section, cwd, env, roots, jammed>>
      /\ call' = [call EXCEPT ![c].since = now]
  BY DEF TakeTurn, StampOf
<1>4. EntryTypeOK'
  BY <1>3 DEF TakeTurn, EntryTypeOK, Kept
<1>5. call'[c].since = now /\ \A d \in Caller \ {c} : call'[d] = call[d]
  BY <1>3 DEF EntryTypeOK, Kept
<1>6. SectionInv'
  BY <1>2, <1>3, <1>5 DEF SectionInv, HomeOf
<1>7. TurnInv'
  <2>1. now' >= ended' /\ ended' <= now'
    BY <1>3 DEF TurnInv, EntryTypeOK
  <2>2. ASSUME Shares(c) PROVE turn' = c /\ call'[c].since >= ended'
    BY <1>3, <1>5, <2>1, <2>2 DEF TakeTurn
  <2>3. ASSUME NEW d \in Caller, d # c, Shares(d), pos[d].pc \in Entered
        PROVE  turn' = d
    <3>1. turn = d /\ d # Nobody
      BY <2>3, CallerAssumption DEF TurnInv
    <3>. QED  BY <3>1 DEF TakeTurn
  <2>. QED  BY <1>1, <1>2, <1>3, <1>5, <2>1, <2>2, <2>3 DEF TurnInv, Shares
<1>. QED  BY <1>4, <1>6, <1>7

\* The section is entered when nobody is in it, so that what the caller finds,
\* and will restore, is what the application left.
LEMMA EnterSectionKeeps ==
    ASSUME BuildTypeOK, EntryTypeOK, SectionInv, TurnInv, NEW c \in Caller, EnterSection(c)
    PROVE  EntryTypeOK' /\ SectionInv' /\ TurnInv'
<1>1. "native" \in Place /\ Entered = {"section", "native", "restore", "unturn"}
  BY DEF Place, Entered
<1>2. pos'[c].pc = "native" /\ setting' = setting /\ \A d \in Caller \ {c} : pos'[d] = pos[d]
  BY <1>1, EntryGoto DEF EnterSection
<1>3. PICK h \in Home : h = HomeOf(c)
  BY HomeType
<1>4. section[h] = Nobody /\ env[h] = Unset /\ (cwd[h] = "user" \/ h \in jammed)
  BY <1>3 DEF EnterSection, SectionFree, SectionInv
<1>5. env[h].root = Nobody
  BY <1>4 DEF Unset
<1>6. /\ section' = [section EXCEPT ![h] = c]
      /\ cwd' = [cwd EXCEPT ![h] = "vendor"]
      /\ env' = [env EXCEPT ![h] = [root |-> c, library |-> TRUE]]
      /\ roots' = roots \cup {c}
      /\ UNCHANGED <<now, turn, ended, jammed>>
  BY <1>3, <1>5 DEF EnterSection, EntryTypeOK
<1>7. /\ call' \in [Caller -> Kept]
      /\ call'[c].cwd = cwd[h] /\ call'[c].env = env[h] /\ call'[c].since = call[c].since
      /\ \A d \in Caller \ {c} : call'[d] = call[d]
  <2>1. PICK k : k = [call EXCEPT ![c].cwd = cwd[h]]
    OBVIOUS
  <2>2. /\ k \in [Caller -> Kept] /\ k[c].cwd = cwd[h] /\ k[c].since = call[c].since
        /\ \A d \in Caller \ {c} : k[d] = call[d]
    BY <2>1 DEF EntryTypeOK, Kept
  <2>3. call' = [k EXCEPT ![c].env = env[h]]
    BY <1>3, <2>1 DEF EnterSection
  <2>. QED  BY <2>2, <2>3 DEF EntryTypeOK, Kept
<1>8. EntryTypeOK'
  <2>1. [root |-> c, library |-> TRUE] \in Environment
    BY DEF Environment
  <2>. QED  BY <1>6, <1>7, <2>1 DEF EntryTypeOK
<1>9. SectionInv'
  <2>1. ASSUME NEW d \in Caller, d # c, pos[d].pc \in {"native", "restore"}
        PROVE  /\ HomeOf(d) # h /\ HomeOf(d) \in Home
    <3>1. section[HomeOf(d)] = d /\ d # Nobody
      BY <2>1, CallerAssumption DEF SectionInv
    <3>. QED  BY <1>4, <3>1, HomeType
  <2>2. \A d \in Caller : pos'[d].pc \in {"native", "restore"} =>
              /\ section'[HomeOf(d)] = d
              /\ cwd'[HomeOf(d)] = "vendor"
              /\ env'[HomeOf(d)].root = d /\ d \in roots'
              /\ call'[d].env = Unset
              /\ call'[d].cwd = "user" \/ HomeOf(d) \in jammed'
    <3>1. /\ section'[h] = c /\ cwd'[h] = "vendor" /\ env'[h].root = c /\ c \in roots'
          /\ call'[c].env = Unset /\ (call'[c].cwd = "user" \/ h \in jammed')
      BY <1>4, <1>6, <1>7 DEF EntryTypeOK
    <3>2. ASSUME NEW d \in Caller, d # c, pos'[d].pc \in {"native", "restore"}
          PROVE  /\ section'[HomeOf(d)] = d
                 /\ cwd'[HomeOf(d)] = "vendor"
                 /\ env'[HomeOf(d)].root = d /\ d \in roots'
                 /\ call'[d].env = Unset
                 /\ call'[d].cwd = "user" \/ HomeOf(d) \in jammed'
      <4>1. pos[d].pc \in {"native", "restore"}
        BY <1>2, <3>2
      <4>2. /\ section'[HomeOf(d)] = section[HomeOf(d)]
            /\ cwd'[HomeOf(d)] = cwd[HomeOf(d)]
            /\ env'[HomeOf(d)] = env[HomeOf(d)] /\ call'[d] = call[d]
        BY <1>6, <1>7, <2>1, <3>2, <4>1 DEF EntryTypeOK
      <4>. QED  BY <1>6, <3>2, <4>1, <4>2 DEF SectionInv
    <3>. QED  BY <1>3, <3>1, <3>2
  <2>3. \A g \in Home : section'[g] = Nobody =>
           env'[g] = Unset /\ (cwd'[g] = "user" \/ g \in jammed')
    BY <1>6, CallerAssumption DEF SectionInv, EntryTypeOK
  <2>4. \A d \in Caller : HomeOf(d)' = HomeOf(d)
    BY <1>2 DEF HomeOf
  <2>. QED  BY <2>2, <2>3, <2>4 DEF SectionInv
<1>10. TurnInv'
  BY <1>1, <1>2, <1>6, <1>7 DEF EnterSection, TurnInv, Shares
<1>. QED  BY <1>8, <1>9, <1>10

\* The drive takes time inside the section and the turn.
LEMMA NativeKeeps ==
    ASSUME BuildTypeOK, EntryTypeOK, SectionInv, TurnInv, NEW c \in Caller, Native(c)
    PROVE  EntryTypeOK' /\ SectionInv' /\ TurnInv'
<1>1. "restore" \in Place /\ Entered = {"section", "native", "restore", "unturn"}
  BY DEF Place, Entered
<1>2. pos[c].pc = "native" /\ pos'[c].pc = "restore" /\ setting' = setting
      /\ \A d \in Caller \ {c} : pos'[d] = pos[d]
  BY <1>1, EntryGoto DEF Native
<1>3. UNCHANGED <<turn, ended, section, cwd, env, roots, jammed>>
  BY DEF Native
<1>4. now' \in Nat /\ now' >= now
  BY DEF Native, EntryTypeOK
<1>5. PICK ok \in BOOLEAN : call' = [call EXCEPT ![c].ok = ok]
  BY DEF Native
<1>6. EntryTypeOK'
  BY <1>3, <1>4, <1>5 DEF EntryTypeOK, Kept
<1>7. /\ call'[c].env = call[c].env /\ call'[c].cwd = call[c].cwd
      /\ \A d \in Caller \ {c} : call'[d] = call[d]
  BY <1>5 DEF EntryTypeOK, Kept
<1>8. SectionInv'
  BY <1>2, <1>3, <1>7 DEF SectionInv, HomeOf
<1>9. TurnInv'
  BY <1>1, <1>2, <1>3, <1>4, <1>7 DEF TurnInv, Shares, EntryTypeOK
<1>. QED  BY <1>6, <1>8, <1>9

\* Whoever leaves the section gives back what it found, and takes away no root
\* but its own; where it cannot, it says so.
LEMMA RestoreKeeps ==
    ASSUME BuildTypeOK, EntryTypeOK, SectionInv, TurnInv, NEW c \in Caller, Restore(c)
    PROVE  EntryTypeOK' /\ SectionInv' /\ TurnInv'
<1>1. "unturn" \in Place /\ Entered = {"section", "native", "restore", "unturn"}
  BY DEF Place, Entered
<1>2. pos[c].pc = "restore" /\ pos'[c].pc = "unturn" /\ setting' = setting
      /\ \A d \in Caller \ {c} : pos'[d] = pos[d]
  BY <1>1, EntryGoto DEF Restore
<1>3. PICK h \in Home : h = HomeOf(c)
  BY HomeType
<1>4. /\ section[h] = c /\ call[c].env = Unset
      /\ call[c].cwd = "user" \/ h \in jammed
  BY <1>2, <1>3 DEF SectionInv
<1>5. /\ section' = [section EXCEPT ![h] = Nobody]
      /\ env' = [env EXCEPT ![h] = Unset]
      /\ UNCHANGED <<now, turn, ended>>
  BY <1>3, <1>4 DEF Restore, Restored
<1>6. /\ cwd' \in [Home -> {"user", "vendor"}] /\ \A g \in Home \ {h} : cwd'[g] = cwd[g]
      /\ jammed \subseteq jammed' /\ jammed' \subseteq Home
      /\ cwd'[h] = "user" \/ h \in jammed'
      /\ roots' \in {roots, roots \ {c}}
  <2>1. CASE cwd' = [cwd EXCEPT ![h] = call[c].cwd] /\ roots' = roots \ {c} /\ jammed' = jammed
    BY <1>4, <2>1 DEF EntryTypeOK, Kept
  <2>2. CASE cwd' = cwd /\ roots' = roots /\ jammed' = jammed \cup {h}
    BY <2>2 DEF EntryTypeOK
  <2>. QED  BY <1>3, <2>1, <2>2 DEF Restore
<1>7. call' \in [Caller -> Kept] /\ \A d \in Caller \ {c} : call'[d] = call[d]
  <2>1. CASE call' = call
    BY <2>1 DEF EntryTypeOK
  <2>2. CASE call' = [call EXCEPT ![c].ok = FALSE]
    BY <2>2 DEF EntryTypeOK, Kept
  <2>. QED  BY <2>1, <2>2 DEF Restore
<1>8. EntryTypeOK'
  <2>1. Unset \in Environment
    BY DEF Unset, Environment
  <2>. QED  BY <1>5, <1>6, <1>7, <2>1 DEF EntryTypeOK
<1>9. SectionInv'
  <2>1. ASSUME NEW d \in Caller, pos'[d].pc \in {"native", "restore"}
        PROVE  /\ d # c /\ HomeOf(d) \in Home \ {h} /\ pos[d].pc \in {"native", "restore"}
    <3>1. d # c /\ pos'[d] = pos[d]
      BY <1>2, <2>1
    <3>2. section[HomeOf(d)] = d
      BY <2>1, <3>1 DEF SectionInv
    <3>. QED  BY <1>4, <2>1, <3>1, <3>2, HomeType
  <2>2. ASSUME NEW d \in Caller, pos'[d].pc \in {"native", "restore"}
        PROVE  /\ section'[HomeOf(d)] = d
               /\ cwd'[HomeOf(d)] = "vendor"
               /\ env'[HomeOf(d)].root = d /\ d \in roots'
               /\ call'[d].env = Unset
               /\ call'[d].cwd = "user" \/ HomeOf(d) \in jammed'
    <3>1. /\ d # c /\ HomeOf(d) \in Home \ {h} /\ pos[d].pc \in {"native", "restore"}
      BY <2>1, <2>2
    <3>2. /\ section'[HomeOf(d)] = section[HomeOf(d)]
          /\ cwd'[HomeOf(d)] = cwd[HomeOf(d)]
          /\ env'[HomeOf(d)] = env[HomeOf(d)] /\ call'[d] = call[d]
      BY <1>5, <1>6, <1>7, <3>1 DEF EntryTypeOK
    <3>. QED  BY <1>6, <3>1, <3>2 DEF SectionInv
  <2>3. \A g \in Home : section'[g] = Nobody =>
           env'[g] = Unset /\ (cwd'[g] = "user" \/ g \in jammed')
    BY <1>5, <1>6 DEF SectionInv, EntryTypeOK
  <2>4. \A d \in Caller : HomeOf(d)' = HomeOf(d)
    BY <1>2 DEF HomeOf
  <2>. QED  BY <2>2, <2>3, <2>4 DEF SectionInv
<1>10. TurnInv'
  BY <1>1, <1>2, <1>5, <1>7 DEF TurnInv, Shares
<1>. QED  BY <1>8, <1>9, <1>10

\* Only the holder ends the turn.
LEMMA EndTurnKeeps ==
    ASSUME BuildTypeOK, EntryTypeOK, SectionInv, TurnInv, NEW c \in Caller, EndTurn(c)
    PROVE  EntryTypeOK' /\ SectionInv' /\ TurnInv'
<1>1. Entered = {"section", "native", "restore", "unturn"}
      /\ "returned" \in Place /\ "raised" \in Place
  BY DEF Place, Entered
<1>2. pos'[c].pc \in {"returned", "raised"} /\ setting' = setting
      /\ \A d \in Caller \ {c} : pos'[d] = pos[d]
  <2>1. PICK pc \in {"returned", "raised"} : Goto(c, pc)
    BY DEF EndTurn
  <2>. QED  BY <1>1, <2>1, EntryGoto DEF EndTurn
<1>3. UNCHANGED <<now, section, cwd, env, roots, jammed>>
  BY DEF EndTurn
<1>4. call' \in [Caller -> Kept] /\ \A d \in Caller \ {c} : call'[d] = call[d]
  <2>1. NoCall \in Kept
    BY DEF NoCall, Kept, Unset, Environment
  <2>. QED  BY <2>1 DEF EndTurn, EntryTypeOK
<1>5. \/ turn = c /\ turn' = Nobody /\ ended' = now
      \/ turn # c /\ turn' = turn /\ ended' = ended
  BY DEF EndTurn
<1>6. EntryTypeOK'
  BY <1>3, <1>4, <1>5 DEF EntryTypeOK
<1>7. SectionInv'
  BY <1>2, <1>3, <1>4 DEF SectionInv, HomeOf
<1>8. TurnInv'
  <2>1. ended' <= now'
    BY <1>3, <1>5 DEF TurnInv, EntryTypeOK
  <2>2. ASSUME NEW d \in Caller, Shares(d)', pos'[d].pc \in Entered
        PROVE  turn' = d /\ (pos'[d].pc \in {"section", "native"} => call'[d].since >= ended')
    <3>1. d # c /\ pos'[d] = pos[d] /\ Shares(d)
      BY <1>1, <1>2, <2>2 DEF Shares
    <3>2. turn = d
      BY <2>2, <3>1 DEF TurnInv
    <3>. QED  BY <1>4, <1>5, <2>2, <3>1, <3>2 DEF TurnInv
  <2>. QED  BY <2>1, <2>2 DEF TurnInv
<1>. QED  BY <1>6, <1>7, <1>8

\* When a home dies, so do its locks; nobody else's are touched.
LEMMA CrashKeeps ==
    ASSUME BuildTypeOK, EntryTypeOK, SectionInv, TurnInv, NEW h \in Home, Crash(h)
    PROVE  EntryTypeOK' /\ SectionInv' /\ TurnInv'
<1>1. /\ \A d \in Caller : \/ HomeOf(d) = h /\ pos'[d].pc = "dead"
                           \/ HomeOf(d) # h /\ pos'[d] = pos[d]
      /\ setting' = setting
  BY CrashFrame DEF disk
<1>2. Entered = {"section", "native", "restore", "unturn"}
  BY DEF Entered
<1>3. /\ section' = [section EXCEPT ![h] = Nobody]
      /\ cwd' = [cwd EXCEPT ![h] = "user"]
      /\ env' = [env EXCEPT ![h] = Unset]
      /\ UNCHANGED <<now, ended, roots, jammed>>
      /\ turn' = IF turn \in {c \in Caller : HomeOf(c) = h} THEN Nobody ELSE turn
  BY DEF Crash
<1>4. call' \in [Caller -> Kept] /\ \A d \in Caller : HomeOf(d) # h => call'[d] = call[d]
  <2>1. NoCall \in Kept
    BY DEF NoCall, Kept, Unset, Environment
  <2>. QED  BY <2>1 DEF Crash, EntryTypeOK
<1>5. EntryTypeOK'
  <2>1. Unset \in Environment
    BY DEF Unset, Environment
  <2>. QED  BY <1>3, <1>4, <2>1 DEF EntryTypeOK
<1>6. SectionInv'
  <2>1. ASSUME NEW d \in Caller, pos'[d].pc \in {"native", "restore"}
        PROVE  /\ section'[HomeOf(d)] = d
               /\ cwd'[HomeOf(d)] = "vendor"
               /\ env'[HomeOf(d)].root = d /\ d \in roots'
               /\ call'[d].env = Unset
               /\ call'[d].cwd = "user" \/ HomeOf(d) \in jammed'
    <3>1. HomeOf(d) # h /\ pos'[d] = pos[d] /\ HomeOf(d) \in Home
      BY <1>1, <2>1, HomeType
    <3>2. /\ section'[HomeOf(d)] = section[HomeOf(d)]
          /\ cwd'[HomeOf(d)] = cwd[HomeOf(d)]
          /\ env'[HomeOf(d)] = env[HomeOf(d)] /\ call'[d] = call[d]
      BY <1>3, <1>4, <3>1 DEF EntryTypeOK
    <3>. QED  BY <1>3, <2>1, <3>1, <3>2 DEF SectionInv
  <2>2. \A g \in Home : section'[g] = Nobody =>
           env'[g] = Unset /\ (cwd'[g] = "user" \/ g \in jammed')
    BY <1>3 DEF SectionInv, EntryTypeOK
  <2>3. \A d \in Caller : HomeOf(d)' = HomeOf(d)
    BY <1>1 DEF HomeOf
  <2>. QED  BY <2>1, <2>2, <2>3 DEF SectionInv
<1>7. TurnInv'
  BY <1>1, <1>2, <1>3, <1>4 DEF TurnInv, Shares
<1>. QED  BY <1>5, <1>6, <1>7

-----------------------------------------------------------------------------
(* The invariant.                                                          *)

\* Nothing is built, locked or entered at first.
LEMMA RunInitially == RunInit => RunInv
<1>. SUFFICES ASSUME RunInit PROVE RunInv
  OBVIOUS
<1>. USE DEF RunInit, BuildInit
<1>1. Start \in Position /\ NoFile \in File
  BY DEF Start, Position, Place, Name, NoFile, File
<1>2. BuildTypeOK
  BY <1>1 DEF BuildTypeOK, Stage
<1>3. EntryTypeOK
  BY DEF EntryTypeOK, Unset, Environment, NoCall, Kept
<1>4. \A c \in Caller : pos[c].pc = "idle"
  BY DEF Start
<1>5. LockInv
  BY <1>4 DEF LockInv, Locked
<1>6. SectionInv
  BY <1>4 DEF SectionInv
<1>7. TurnInv
  BY <1>4 DEF TurnInv, Entered
<1>. QED  BY <1>2, <1>3, <1>5, <1>6, <1>7 DEF RunInv, RunTypeOK, ArtifactsWhole

\* Every step of a builder, a caller, a dying home and an editor keeps it.
LEMMA RunInduction == RunInv /\ [RunNext]_runVars => RunInv'
<1>. SUFFICES ASSUME RunInv, [RunNext]_runVars PROVE RunInv'
  OBVIOUS
<1>. USE DEF RunInv, RunTypeOK
<1>1. BuildTypeOK' /\ LockInv' /\ ArtifactsWhole'
  BY LockInduction
<1>2. ASSUME NEW c \in Caller, Enter(c) \/ EntryStep(c)
      PROVE  EntryTypeOK' /\ SectionInv' /\ TurnInv'
  BY <1>2, EnterKeeps, TakeTurnKeeps, EnterSectionKeeps, NativeKeeps, RestoreKeeps, EndTurnKeeps
     DEF EntryStep
<1>3. ASSUME NEW c \in Caller, BuildStep(c), UNCHANGED entryVars
      PROVE  EntryTypeOK' /\ SectionInv' /\ TurnInv'
  BY <1>3, EntryByBuild
<1>4. ASSUME NEW h \in Home, Crash(h)
      PROVE  EntryTypeOK' /\ SectionInv' /\ TurnInv'
  BY <1>4, CrashKeeps
<1>5. ASSUME (EditSources /\ UNCHANGED entryVars) \/ UNCHANGED runVars
      PROVE  EntryTypeOK' /\ SectionInv' /\ TurnInv'
  <2>1. UNCHANGED entryVars /\ setting' = setting /\ pos' = pos
    BY <1>5 DEF EditSources, runVars, buildVars
  <2>. QED  BY <2>1, EntryUndisturbed
<1>6. EntryTypeOK' /\ SectionInv' /\ TurnInv'
  BY <1>2, <1>3, <1>4, <1>5 DEF RunNext, RunStep
<1>. QED  BY <1>1, <1>6

\* The build lock, the section and the turn hold in every state.
THEOREM RunInvariant == RunSpec => []RunInv
<1>. QED  BY RunInitially, RunInduction, PTL DEF RunSpec

\* "publishes with os.replace" (_build.py): what ensure_native shows under its
\* final name is whole.
THEOREM ArtifactsAreWhole == RunSpec => []ArtifactsWhole
<1>1. RunInv => ArtifactsWhole
  BY DEF RunInv
<1>. QED  BY <1>1, RunInvariant, PTL

\* _SQLITE_CWD_LOCK of host.py: while a drive runs, its process stands in the
\* library's directory and its effector root exists; and once nobody is in the
\* section, the process is as its application left it, or a root is jammed.
THEOREM SectionIsHeld == RunSpec => []SectionHolds
<1>1. RunInv => SectionHolds
  BY DEF RunInv, SectionInv, SectionHolds
<1>. QED  BY <1>1, RunInvariant, PTL

\* The execution lock of host_run_package: a drive that shares the turn is
\* stamped no earlier than the end of the turn before it.
THEOREM StampsAreInTurn == RunSpec => []StampsFollowTurns
<1>1. {"section", "native"} \subseteq Entered
  BY DEF Entered
<1>2. RunInv => StampsFollowTurns
  BY <1>1 DEF RunInv, TurnInv, StampsFollowTurns
<1>. QED  BY <1>2, RunInvariant, PTL

\* "losers never rebuild" (ensure_native): nobody publishes over an artifact
\* that is there.
THEOREM LosersRebuildNever == RunSpec => LosersNeverRebuild
<1>1. RunInv /\ [RunNext]_runVars =>
         [\A c \in Caller : pos[c].pc = "publish" /\ pos'[c].pc = "prune" =>
             ~ Found(pos[c].name)]_buildVars
  BY DEF RunInv, LockInv
<1>. QED  BY <1>1, RunInvariant, PTL DEF RunSpec, LosersNeverRebuild

=============================================================================
