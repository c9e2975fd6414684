------------------------------- MODULE HostRun -------------------------------
(***************************************************************************)
(* host_run_package of python/fala/host.py: resolve the paths, build and   *)
(* load the native libraries (NativeBuild), wait for the execution turn    *)
(* that callers of several processes share, and run the native drive with  *)
(* the working directory and the environment of the whole process changed  *)
(* under _SQLITE_CWD_LOCK.  open_sqlite and the other durable calls are    *)
(* callers without a turn.                                                 *)
(*                                                                         *)
(* What the drive does in the journal is HostJournal's; here it takes time *)
(* and returns or raises.                                                  *)
(***************************************************************************)
EXTENDS NativeBuild

CONSTANT MaxTime   \* seconds of the clock

ASSUME TimeAssumption == MaxTime \in Nat

VARIABLES
    now,
    turn,     \* holder of the execution lock, a file
    ended,    \* when the last turn ended
    section,  \* holder of _SQLITE_CWD_LOCK of each home
    cwd,      \* working directory of each home
    env,      \* its FALA_EFFECTOR_ROOT and FALA_PROCESS_HOST_LIBRARY
    roots,    \* callers whose temporary effector root exists
    jammed,   \* homes in which such a root could not be removed
    call      \* what a caller keeps: request timestamp, what to restore, how it ends

entryVars == <<now, turn, ended, section, cwd, env, roots, jammed, call>>
runVars == <<buildVars, entryVars>>

-----------------------------------------------------------------------------
\* The callers that name the execution lock.
Shares(c) == c \in setting.sharing

Unset == [root |-> Nobody, library |-> FALSE]

NoCall == [since |-> 0, cwd |-> "user", env |-> Unset, ok |-> TRUE]

\* Paths are resolved and the environment is read; a process host that the
\* environment names, as another caller's section does, is not built again.
Enter(c) ==
    LET h == HomeOf(c)
    IN  /\ pos[c].pc = "idle"
        /\ Goto(c, IF env[h].library THEN "lib" ELSE "host")
        /\ call' = [call EXCEPT ![c].since = now]
        /\ UNCHANGED <<disk, lock, loaded, now, turn, ended, section, cwd, env, roots, jammed>>

\* Slip: the request is stamped as it is made.
StampOfRequest(c) == call[c].since

\* created_at and now are set inside the turn.
StampOf(c) == now

TakeTurn(c) ==
    /\ pos[c].pc = "ready"
    /\ Shares(c) => turn = Nobody
    /\ turn' = IF Shares(c) THEN c ELSE turn
    /\ call' = [call EXCEPT ![c].since = StampOf(c)]
    /\ Goto(c, "section")
    /\ UNCHANGED <<disk, lock, loaded, now, ended, section, cwd, env, roots, jammed>>

\* Slip: nobody waits for the section.
AlwaysFree(h) == TRUE

SectionFree(h) == section[h] = Nobody

\* chdir to vendor/sqlite.fire, a temporary effector root, the process host.
EnterSection(c) ==
    LET h == HomeOf(c)
    IN  /\ pos[c].pc = "section"
        /\ SectionFree(h)
        /\ section' = [section EXCEPT ![h] = c]
        /\ call' = [call EXCEPT ![c].cwd = cwd[h], ![c].env = env[h]]
        /\ cwd' = [cwd EXCEPT ![h] = "vendor"]
        /\ env' = [env EXCEPT ![h] = [root |-> IF @.root = Nobody THEN c ELSE @.root,
                                      library |-> TRUE]]
        /\ roots' = IF env[h].root = Nobody THEN roots \cup {c} ELSE roots
        /\ Goto(c, "native")
        /\ UNCHANGED <<disk, lock, loaded, now, turn, ended, jammed>>

\* The drive takes time; the clock moves nowhere else, as only drives are long.
Native(c) ==
    /\ pos[c].pc = "native"
    /\ \E ok \in BOOLEAN : call' = [call EXCEPT ![c].ok = ok]
    /\ now' \in {now, now + 1} \cap 0 .. MaxTime
    /\ Goto(c, "restore")
    /\ UNCHANGED <<disk, lock, loaded, turn, ended, section, cwd, env, roots, jammed>>

Restored(c) == call[c].env

\* The finally clause: environment, then root, then directory.  A root that
\* cannot be removed, as something still writes into it, ends it early.
Restore(c) ==
    LET h == HomeOf(c)
    IN  /\ pos[c].pc = "restore"
        /\ env' = [env EXCEPT ![h] = Restored(c)]
        /\ \/ /\ cwd' = [cwd EXCEPT ![h] = call[c].cwd]
              /\ roots' = roots \ {c}
              /\ UNCHANGED <<jammed, call>>
           \/ /\ MayFail /\ c \in roots
              /\ jammed' = jammed \cup {h}
              /\ call' = [call EXCEPT ![c].ok = FALSE]
              /\ UNCHANGED <<cwd, roots>>
        /\ section' = [section EXCEPT ![h] = Nobody]
        /\ Goto(c, "unturn")
        /\ UNCHANGED <<disk, lock, loaded, now, turn, ended>>

EndTurn(c) ==
    /\ pos[c].pc = "unturn"
    /\ IF turn = c THEN turn' = Nobody /\ ended' = now ELSE UNCHANGED <<turn, ended>>
    /\ Goto(c, IF call[c].ok THEN "returned" ELSE "raised")
    /\ call' = [call EXCEPT ![c] = NoCall]
    /\ UNCHANGED <<disk, lock, loaded, now, section, cwd, env, roots, jammed>>

\* A home dies: its file locks go, its directories and what it built stay.
Crash(h) ==
    LET dying == {c \in Caller : HomeOf(c) = h}
    IN  /\ \E c \in dying : pos[c].pc \notin {"idle", "returned", "raised", "dead"}
        /\ pos' = [c \in Caller |-> IF c \in dying THEN [Start EXCEPT !.pc = "dead"] ELSE pos[c]]
        /\ lock' = IF lock \in dying THEN Nobody ELSE lock
        /\ turn' = IF turn \in dying THEN Nobody ELSE turn
        /\ section' = [section EXCEPT ![h] = Nobody]
        /\ cwd' = [cwd EXCEPT ![h] = "user"]
        /\ env' = [env EXCEPT ![h] = Unset]
        /\ call' = [c \in Caller |-> IF c \in dying THEN NoCall ELSE call[c]]
        /\ UNCHANGED <<disk, loaded, now, ended, roots, jammed>>

-----------------------------------------------------------------------------
RunInit ==
    /\ BuildInit
    /\ now = 0 /\ turn = Nobody /\ ended = 0
    /\ section = [h \in Home |-> Nobody]
    /\ cwd = [h \in Home |-> "user"]
    /\ env = [h \in Home |-> Unset]
    /\ roots = {} /\ jammed = {}
    /\ call = [c \in Caller |-> NoCall]

EntryStep(c) ==
    \/ TakeTurn(c) \/ EnterSection(c) \/ Native(c) \/ Restore(c) \/ EndTurn(c)

RunStep(c) == EntryStep(c) \/ (BuildStep(c) /\ UNCHANGED entryVars)

RunNext ==
    \/ \E c \in Caller : Enter(c) \/ RunStep(c)
    \/ \E h \in Home : Crash(h)
    \/ EditSources /\ UNCHANGED entryVars

\* Threads go on; nobody must call, die, or edit the sources.
RunSpec == RunInit /\ [][RunNext]_runVars /\ \A c \in Caller : WF_runVars(RunStep(c))

-----------------------------------------------------------------------------
(* Properties.                                                             *)

\* "cannot restore another thread's previous cwd before relative dylib dlopen
\* completes": while a drive runs, its home stands in the library's directory
\* and its effector root exists; and once nobody is in the section, the process
\* is as its application left it, unless a root could not be removed.
SectionHolds ==
    \A h \in Home :
        /\ \A c \in Caller :
              HomeOf(c) = h /\ pos[c].pc = "native" => cwd[h] = "vendor" /\ env[h].root \in roots
        /\ section[h] = Nobody => env[h] = Unset /\ (cwd[h] = "user" \/ h \in jammed)

\* "keeps queue wait outside Fala's execution budgets": a drive that shares the
\* turn is stamped no earlier than the end of the turn before it.
StampsFollowTurns ==
    \A c \in Caller : Shares(c) /\ pos[c].pc \in {"section", "native"} =>
        turn = c /\ call[c].since >= ended

\* Every call returns, raises or dies with its home, whatever locks it meets.
EveryCallReturns ==
    \A c \in Caller : pos[c].pc # "idle" ~> pos[c].pc \in {"returned", "raised", "dead"}
=============================================================================
