---------------------------- MODULE PathRunProofs ----------------------------
(***************************************************************************)
(* Theorems about PathRun, for every plan and condition, any callers and   *)
(* whatever the bounds.                                                    *)
(***************************************************************************)
EXTENDS PathRun, FiniteSetTheorems, TLAPS

-----------------------------------------------------------------------------
(* Types.                                                                  *)

\* The constant rows, gates, inputs and callers are of their types.
LEMMA BlankTypes ==
    /\ NoInput \in Input /\ NoInput \in Inputs
    /\ \A status \in Status \cup {"absent"} : Row(status) \in RowType
    /\ NoGate \in GateType
    /\ Idle \in CallerType
<1>1. NoInput \in [{} -> Outcome] /\ NoInput \in [{} -> Input] /\ {} \in SUBSET Plan
  BY DEF NoInput
<1>2. NoInput \in Input /\ NoInput \in Inputs
  BY <1>1 DEF Input, Inputs
<1>3. 0 \in 0..MaxAttempts
  BY PathAssumption
<1>4. \A status \in Status \cup {"absent"} : Row(status) \in RowType
  BY <1>2, <1>3 DEF Row, RowType
<1>5. NoGate \in GateType
  BY <1>3 DEF NoGate, GateType
<1>6. Idle \in CallerType
  <2>1. 1 \in Plan
    BY PathAssumption DEF Plan
  <2>. QED  BY <1>2, <1>4, <2>1 DEF Idle, CallerType, Places
<1>. QED  BY <1>2, <1>4, <1>5, <1>6

\* What is merged for a dependent is of the type of inputs.
LEMMA MergedTypes ==
    ASSUME PathTypeOK
    PROVE  /\ \A p \in Plan : InputOf(p) \in Input
           /\ \A S \in SUBSET Plan : [p \in S |-> InputOf(p)] \in Inputs
<1>1. ASSUME NEW p \in Plan PROVE InputOf(p) \in Input
  <2>1. Upstream[p] \in SUBSET Plan
    BY PathAssumption
  <2>2. \A u \in Plan : Payload(u) \in Outcome
    BY DEF PathTypeOK, Payload, Outcome, RowType, GateType
  <2>3. InputOf(p) \in [Upstream[p] -> Outcome]
    BY <2>1, <2>2 DEF InputOf
  <2>. QED  BY <2>1, <2>3 DEF Input
<1>2. ASSUME NEW S \in SUBSET Plan PROVE [p \in S |-> InputOf(p)] \in Inputs
  <2>1. [p \in S |-> InputOf(p)] \in [S -> Input]
    BY <1>1
  <2>. QED  BY <2>1 DEF Inputs
<1>. QED  BY <1>1, <1>2

\* A row that moves, or is claimed, stays a row.
LEMMA RowUpdates ==
    ASSUME NEW row \in RowType
    PROVE  /\ \A to \in Status, result \in {"none", "yes", "no"} :
                 Moved(row, to, result) \in RowType
           /\ \A fed \in Input : [row EXCEPT !.status = "ready", !.fed = fed] \in RowType
           /\ [row EXCEPT !.status = "pending"] \in RowType
           /\ [row EXCEPT !.up = TRUE] \in RowType
           /\ \A d \in Caller : row.attempt < MaxAttempts =>
                 [row EXCEPT !.status = "running", !.attempt = @ + 1, !.owner = d, !.up = FALSE]
                     \in RowType
<1>1. \A to \in Status, result \in {"none", "yes", "no"} : Moved(row, to, result) \in RowType
  BY DEF Moved, RowType
<1>2. \A fed \in Input : [row EXCEPT !.status = "ready", !.fed = fed] \in RowType
  BY DEF RowType, Status, OpenStatus
<1>3. /\ [row EXCEPT !.status = "pending"] \in RowType
      /\ [row EXCEPT !.up = TRUE] \in RowType
  BY DEF RowType, Status, OpenStatus
<1>4. ASSUME NEW d \in Caller, row.attempt < MaxAttempts
      PROVE  [row EXCEPT !.status = "running", !.attempt = @ + 1, !.owner = d, !.up = FALSE]
                 \in RowType
  <2>1. row.attempt + 1 \in 0..MaxAttempts
    BY <1>4, PathAssumption DEF RowType
  <2>. QED  BY <2>1 DEF RowType, Status, OpenStatus
<1>. QED  BY <1>1, <1>2, <1>3, <1>4

\* The empty journal, and a persisted plan, are well typed.
LEMMA TypeInit == PathInit => PathTypeOK
<1>. SUFFICES ASSUME PathInit PROVE PathTypeOK
  OBVIOUS
<1>1. rows \in [Plan -> RowType]
  <2>1. \A status \in {"absent", "ready", "pending"} : Row(status) \in RowType
    BY BlankTypes DEF Status, OpenStatus
  <2>. QED  BY <2>1 DEF PathInit
<1>2. gates \in [Plan -> GateType] /\ drv \in [Caller -> CallerType]
  BY BlankTypes DEF PathInit
<1>3. /\ run \in RunStatuses \cup {"absent"}
      /\ bound \in BOOLEAN /\ crashes \in 0..MaxCrashes
  BY PathAssumption DEF PathInit, RunStatuses, RunOpen
<1>. QED  BY <1>1, <1>2, <1>3 DEF PathTypeOK

\* A caller that goes on, or gives up, is a caller.
LEMMA CallerUpdates ==
    ASSUME NEW d \in Caller, PathTypeOK
    PROVE  /\ \A c \in CallerType : [drv EXCEPT ![d] = c] \in [Caller -> CallerType]
           /\ Raise(d) => drv' \in [Caller -> CallerType]
           /\ \A pc \in Places : Goto(d, pc) => drv' \in [Caller -> CallerType]
           /\ Ticked(d) \in CallerType
           /\ NextRound(d) \in CallerType
           /\ NextPass(d) \in CallerType
           /\ AfterAdvance(d) \in CallerType
<1>1. drv \in [Caller -> CallerType] /\ drv[d] \in CallerType /\ Idle \in CallerType
      /\ Row("absent") \in RowType /\ NoInput \in Inputs
  BY BlankTypes DEF PathTypeOK
<1>2. \A c \in CallerType : [drv EXCEPT ![d] = c] \in [Caller -> CallerType]
  BY <1>1
<1>3. Raise(d) => drv' \in [Caller -> CallerType]
  BY <1>1 DEF Raise
<1>4. ASSUME NEW pc \in Places, Goto(d, pc) PROVE drv' \in [Caller -> CallerType]
  <2>1. [drv[d] EXCEPT !.pc = pc] \in CallerType
    BY <1>1 DEF CallerType
  <2>. QED  BY <1>1, <1>4, <2>1 DEF Goto
<1>5. Ticked(d) \in CallerType
  <2>1. ASSUME NEW c \in CallerType, NEW then \in {"drive", "final"}, NEW seen \in RowType,
               NEW n \in Nat
        PROVE  [c EXCEPT !.pc = "advance", !.round = 1, !.tick = n, !.p = 1,
                         !.seen = seen, !.then = then] \in CallerType
    <3>1. 1 \in Plan
      BY PathAssumption DEF Plan
    <3>. QED  BY <3>1 DEF CallerType, Places
  <2>2. drv[d].tick + 1 \in Nat
    BY <1>1 DEF CallerType
  <2>. QED  BY <1>1, <2>1, <2>2 DEF Ticked
<1>6. NextRound(d) \in CallerType
  <2>1. ASSUME NEW c \in CallerType, NEW n \in Nat
        PROVE  [c EXCEPT !.pc = "advance", !.round = n, !.todo = {}, !.inputs = NoInput]
                   \in CallerType
    BY <1>1 DEF CallerType, Places
  <2>2. drv[d].round + 1 \in Nat
    BY <1>1 DEF CallerType
  <2>. QED  BY <1>1, <2>1, <2>2 DEF NextRound
<1>7. NextPass(d) \in CallerType
  <2>1. ASSUME NEW c \in CallerType
        PROVE  [c EXCEPT !.pc = "finalize", !.pass = 2, !.from = "absent", !.target = "absent"]
                   \in CallerType
    BY DEF CallerType, Places
  <2>. QED  BY <1>1, <2>1 DEF NextPass
<1>8. AfterAdvance(d) \in CallerType
  <2>1. drv[d].then \in {"drive", "final", "close"}
    BY <1>1 DEF CallerType
  <2>2. /\ [drv[d] EXCEPT !.pc = "select", !.round = 0] \in CallerType
        /\ [drv[d] EXCEPT !.pc = "stop", !.round = 0] \in CallerType
    BY <1>1 DEF CallerType, Places
  <2>. QED  BY <1>1, <2>1, <2>2 DEF AfterAdvance
<1>. QED  BY <1>2, <1>3, <1>4, <1>5, <1>6, <1>7, <1>8

\* The inputs that a caller holds are inputs.
LEMMA HeldInputs ==
    ASSUME PathTypeOK, NEW d \in Caller, NEW p \in DOMAIN drv[d].inputs
    PROVE  drv[d].inputs[p] \in Input
<1>1. drv[d].inputs \in Inputs
  BY DEF PathTypeOK, CallerType
<1>. QED  BY <1>1 DEF Inputs

\* Persisting and binding the plan keep the types.
LEMMA PersistTypes ==
    ASSUME PathTypeOK, NEW d \in Caller,
           Enter(d) \/ Schedule(d) \/ MarkPending(d) \/ Refresh(d) \/ Promote(d) \/ Bind(d)
    PROVE  PathTypeOK'
<1>0. /\ run \in RunStatuses \cup {"absent"} /\ rows \in [Plan -> RowType]
      /\ gates \in [Plan -> GateType] /\ drv \in [Caller -> CallerType] /\ drv[d] \in CallerType
      /\ bound \in BOOLEAN /\ crashes \in 0..MaxCrashes
  BY DEF PathTypeOK
<1>1. CASE Enter(d)
  <2>. DEFINE missing == {p \in Plan : rows[p].status = "absent"}
              c == [Idle EXCEPT !.pc = IF missing = {} THEN "refresh" ELSE "schedule",
                                !.from = run, !.todo = missing, !.created = missing]
  <2>1. missing \in SUBSET Plan
    OBVIOUS
  <2>2. c \in CallerType
    <3>1. ASSUME NEW pc \in Places, NEW S \in SUBSET Plan, NEW status \in RunStatuses \cup {"absent"}
          PROVE  [Idle EXCEPT !.pc = pc, !.from = status, !.todo = S, !.created = S]
                     \in CallerType
      BY BlankTypes DEF CallerType
    <3>2. (IF missing = {} THEN "refresh" ELSE "schedule") \in Places
      BY DEF Places
    <3>. QED  BY <1>0, <2>1, <3>1, <3>2
  <2>3. drv' \in [Caller -> CallerType]
    BY <1>1, <2>2, CallerUpdates DEF Enter
  <2>4. run' \in RunStatuses \cup {"absent"}
    BY <1>0, <1>1 DEF Enter, RunStatuses, RunOpen
  <2>. QED  BY <1>0, <1>1, <2>3, <2>4 DEF Enter, PathTypeOK
<1>2. CASE Schedule(d)
  <2>1. Row("ready") \in RowType
    BY BlankTypes DEF Status, OpenStatus
  <2>2. rows' \in [Plan -> RowType]
    BY <1>0, <1>2, <2>1 DEF Schedule
  <2>3. ASSUME NEW rest \in SUBSET Plan, NEW pc \in {"mark", "schedule"}
        PROVE  [drv[d] EXCEPT !.todo = rest, !.pc = pc] \in CallerType
    BY <1>0 DEF CallerType, Places
  <2>4. drv[d].todo \ {First(drv[d].todo)} \in SUBSET Plan
    BY <1>0 DEF CallerType
  <2>5. drv' \in [Caller -> CallerType]
    BY <1>0, <1>2, <2>3, <2>4 DEF Schedule
  <2>. QED  BY <1>0, <1>2, <2>2, <2>5 DEF Schedule, PathTypeOK
<1>3. CASE MarkPending(d)
  <2>1. rows' \in [Plan -> RowType]
    BY <1>0, <1>3, RowUpdates DEF MarkPending
  <2>2. [drv[d] EXCEPT !.pc = "refresh", !.created = {}] \in CallerType
    BY <1>0 DEF CallerType, Places
  <2>3. drv' \in [Caller -> CallerType]
    BY <1>0, <1>3, <2>2 DEF MarkPending
  <2>. QED  BY <1>0, <1>3, <2>1, <2>3 DEF MarkPending, PathTypeOK
<1>4. CASE Refresh(d)
  <2>1. Settled \in SUBSET Plan
    BY DEF Settled, Pending
  <2>2. [p \in Settled |-> InputOf(p)] \in Inputs
    BY <2>1, MergedTypes
  <2>3. ASSUME NEW pc \in {"promote", "advance", "bind"}, NEW inputs \in Inputs
        PROVE  [drv[d] EXCEPT !.pc = pc, !.inputs = inputs, !.round = 1, !.then = "drive"]
                   \in CallerType
    BY <1>0 DEF CallerType, Places
  <2>4. (IF Settled = {} THEN AfterRefresh ELSE "promote") \in {"promote", "advance", "bind"}
    BY DEF AfterRefresh
  <2>. DEFINE c == [drv[d] EXCEPT !.pc = IF Settled = {} THEN AfterRefresh ELSE "promote",
                                  !.inputs = [p \in Settled |-> InputOf(p)],
                                  !.round = 1, !.then = "drive"]
  <2>5. c \in CallerType
    BY <2>2, <2>3, <2>4
  <2>6. drv' = [drv EXCEPT ![d] = c] \/ Raise(d)
    BY <1>4 DEF Refresh
  <2>7. drv' \in [Caller -> CallerType]
    <3>. HIDE DEF c
    <3>. QED  BY <2>5, <2>6, CallerUpdates
  <2>. QED  BY <1>0, <1>4, <2>7 DEF Refresh, PathTypeOK, tables
<1>5. CASE Promote(d)
  <2>1. \A p \in DOMAIN drv[d].inputs : drv[d].inputs[p] \in Input
    BY HeldInputs
  <2>2. rows' \in [Plan -> RowType]
    <3>1. ASSUME NEW p \in Plan PROVE rows'[p] \in RowType
      BY <1>0, <1>5, <2>1, RowUpdates DEF Promote
    <3>. QED  BY <1>5, <3>1 DEF Promote
  <2>3. ASSUME NEW pc \in {"advance", "bind"}
        PROVE  [drv[d] EXCEPT !.pc = pc, !.inputs = NoInput] \in CallerType
    BY <1>0, BlankTypes DEF CallerType, Places
  <2>4. drv' \in [Caller -> CallerType]
    BY <1>0, <1>5, <2>3 DEF Promote, AfterRefresh
  <2>. QED  BY <1>0, <1>5, <2>2, <2>4 DEF Promote, PathTypeOK
<1>6. CASE Bind(d)
  <2>1. drv' \in [Caller -> CallerType]
    BY <1>6, CallerUpdates DEF Bind, Places
  <2>2. bound' \in BOOLEAN
    BY <1>0, <1>6 DEF Bind
  <2>. QED  BY <1>0, <1>6, <2>1, <2>2 DEF Bind, PathTypeOK
<1>. QED  BY <1>1, <1>2, <1>3, <1>4, <1>5, <1>6

\* A round of an advance keeps the types.
LEMMA AdvanceTypes ==
    ASSUME PathTypeOK, NEW d \in Caller, AdvanceRead(d) \/ AdvanceSkip(d) \/ AdvanceApply(d)
    PROVE  PathTypeOK'
<1>0. /\ run \in RunStatuses \cup {"absent"} /\ rows \in [Plan -> RowType]
      /\ gates \in [Plan -> GateType] /\ drv \in [Caller -> CallerType] /\ drv[d] \in CallerType
      /\ bound \in BOOLEAN /\ crashes \in 0..MaxCrashes
  BY DEF PathTypeOK
<1>1. CASE AdvanceRead(d)
  <2>. DEFINE skips == {p \in Readied : ~Matches(p)}
              inputs == [p \in Readied \ skips |-> InputOf(p)]
              c == IF Readied = {} THEN AfterAdvance(d)
                   ELSE [drv[d] EXCEPT !.pc = IF skips = {} THEN "apply" ELSE "skip",
                                       !.todo = skips, !.inputs = inputs]
  <2>1. skips \in SUBSET Plan /\ Readied \ skips \in SUBSET Plan
    BY DEF Readied, Pending
  <2>2. inputs \in Inputs
    <3>. HIDE DEF skips
    <3>. QED  BY <2>1, MergedTypes
  <2>3. ASSUME NEW pc \in {"apply", "skip"}, NEW S \in SUBSET Plan, NEW f \in Inputs
        PROVE  [drv[d] EXCEPT !.pc = pc, !.todo = S, !.inputs = f] \in CallerType
    BY <1>0 DEF CallerType, Places
  <2>4. c \in CallerType
    <3>. HIDE DEF skips, inputs
    <3>. QED  BY <2>1, <2>2, <2>3, CallerUpdates
  <2>5. drv' = [drv EXCEPT ![d] = c]
    BY <1>1 DEF AdvanceRead
  <2>6. drv' \in [Caller -> CallerType]
    <3>. HIDE DEF c
    <3>. QED  BY <2>4, <2>5, CallerUpdates
  <2>. QED  BY <1>0, <1>1, <2>6 DEF AdvanceRead, PathTypeOK, tables
<1>2. CASE AdvanceSkip(d)
  <2>1. rows' \in [Plan -> RowType]
    <3>1. \A p \in Plan : Moved(rows[p], "skipped", "none") \in RowType
      BY <1>0, RowUpdates DEF Status, TerminalStatus
    <3>. QED  BY <1>0, <1>2, <3>1 DEF AdvanceSkip
  <2>. DEFINE rest == drv[d].todo \ {First(drv[d].todo)}
              c == IF rest # {} THEN [drv[d] EXCEPT !.todo = rest]
                   ELSE IF DOMAIN drv[d].inputs # {}
                        THEN [drv[d] EXCEPT !.todo = {}, !.pc = "apply"]
                   ELSE NextRound(d)
  <2>2. rest \in SUBSET Plan
    BY <1>0 DEF CallerType
  <2>3. ASSUME NEW S \in SUBSET Plan
        PROVE  /\ [drv[d] EXCEPT !.todo = S] \in CallerType
               /\ [drv[d] EXCEPT !.todo = {}, !.pc = "apply"] \in CallerType
    BY <1>0 DEF CallerType, Places
  <2>4. c \in CallerType
    <3>. HIDE DEF rest
    <3>. QED  BY <2>2, <2>3, CallerUpdates
  <2>5. drv' = [drv EXCEPT ![d] = c] \/ Raise(d)
    BY <1>2 DEF AdvanceSkip
  <2>6. drv' \in [Caller -> CallerType]
    <3>. HIDE DEF c
    <3>. QED  BY <2>4, <2>5, CallerUpdates
  <2>. QED  BY <1>0, <1>2, <2>1, <2>6 DEF AdvanceSkip, PathTypeOK
<1>3. CASE AdvanceApply(d)
  <2>1. \A p \in DOMAIN drv[d].inputs : drv[d].inputs[p] \in Input
    BY HeldInputs
  <2>2. rows' \in [Plan -> RowType]
    <3>1. ASSUME NEW p \in Plan
          PROVE  \/ rows'[p] = rows[p]
                 \/ /\ p \in DOMAIN drv[d].inputs
                    /\ rows'[p] = [rows[p] EXCEPT !.status = "ready", !.fed = drv[d].inputs[p]]
      BY <1>0, <1>3 DEF AdvanceApply
    <3>2. ASSUME NEW p \in Plan PROVE rows'[p] \in RowType
      <4>1. rows[p] \in RowType
        BY <1>0
      <4>2. \A fed \in Input : [rows[p] EXCEPT !.status = "ready", !.fed = fed] \in RowType
        BY <4>1, RowUpdates
      <4>. QED  BY <2>1, <3>1, <4>1, <4>2
    <3>3. rows' = [p \in Plan |-> rows'[p]]
      BY <1>0, <1>3 DEF AdvanceApply
    <3>. QED  BY <3>2, <3>3
  <2>3. drv' = [drv EXCEPT ![d] = NextRound(d)] \/ Raise(d)
    BY <1>3 DEF AdvanceApply
  <2>4. drv' \in [Caller -> CallerType]
    BY <2>3, CallerUpdates
  <2>. QED  BY <1>0, <1>3, <2>2, <2>4 DEF AdvanceApply, PathTypeOK
<1>. QED  BY <1>1, <1>2, <1>3

\* A transition of the row in hand keeps the types.
LEMMA FinishTypes ==
    ASSUME PathTypeOK, NEW d \in Caller, NEW to \in Status,
           NEW result \in {"none", "yes", "no"}, Finish(d, to, result)
    PROVE  PathTypeOK'
<1>0. /\ rows \in [Plan -> RowType] /\ drv[d].p \in Plan
  BY DEF PathTypeOK, CallerType
<1>1. rows' \in [Plan -> RowType]
  <2>1. Moved(rows[drv[d].p], to, result) \in RowType
    BY <1>0, RowUpdates
  <2>. QED  BY <1>0, <2>1 DEF Finish
<1>2. drv' \in [Caller -> CallerType]
  BY CallerUpdates DEF Finish
<1>. QED  BY <1>1, <1>2 DEF Finish, PathTypeOK

\* A tick keeps the types.
LEMMA TickTypes ==
    ASSUME PathTypeOK, NEW d \in Caller,
           Select(d) \/ Maintain(d) \/ Claim(d) \/ Succeed(d) \/ Fail(d) \/ Park(d)
    PROVE  PathTypeOK'
<1>0. /\ run \in RunStatuses \cup {"absent"} /\ rows \in [Plan -> RowType]
      /\ gates \in [Plan -> GateType] /\ drv \in [Caller -> CallerType] /\ drv[d] \in CallerType
      /\ bound \in BOOLEAN /\ crashes \in 0..MaxCrashes
      /\ drv[d].p \in Plan
  BY DEF PathTypeOK, CallerType
<1>1. CASE Select(d)
  <2>1. ASSUME NEW p \in Plan, NEW pc \in {"maintain", "claim"}
        PROVE  [drv[d] EXCEPT !.p = p, !.seen = rows[p], !.pc = pc] \in CallerType
    BY <1>0 DEF CallerType, Places
  <2>2. [drv[d] EXCEPT !.pc = "advance", !.round = 1, !.then = "final"] \in CallerType
    BY <1>0 DEF CallerType, Places
  <2>3. ASSUME NEW p \in Plan,
               drv' = [drv EXCEPT ![d].p = p, ![d].seen = rows[p],
                         ![d].pc = IF rows[p].status = "running" THEN "maintain" ELSE "claim"]
        PROVE  drv' \in [Caller -> CallerType]
    <3>. DEFINE pc == IF rows[p].status = "running" THEN "maintain" ELSE "claim"
                c == [drv[d] EXCEPT !.p = p, !.seen = rows[p], !.pc = pc]
    <3>1. pc \in {"maintain", "claim"} /\ drv' = [drv EXCEPT ![d] = c]
      BY <2>3
    <3>2. c \in CallerType
      <4>. HIDE DEF pc
      <4>. QED  BY <2>1, <3>1
    <3>. HIDE DEF c
    <3>. QED  BY <3>1, <3>2, CallerUpdates
  <2>4. ASSUME drv' = [drv EXCEPT ![d].pc = "advance", ![d].round = 1, ![d].then = "final"]
        PROVE  drv' \in [Caller -> CallerType]
    <3>1. drv' = [drv EXCEPT ![d] = [drv[d] EXCEPT !.pc = "advance", !.round = 1,
                                                   !.then = "final"]]
      BY <2>4
    <3>. QED  BY <2>2, <3>1, CallerUpdates
  <2>5. drv' \in [Caller -> CallerType]
    <3>1. CASE \E p \in Plan : /\ RowClaimable(p)
                              /\ drv' = [drv EXCEPT ![d].p = p, ![d].seen = rows[p],
                                           ![d].pc = IF rows[p].status = "running"
                                                     THEN "maintain" ELSE "claim"]
      BY <2>3, <3>1
    <3>2. CASE drv' = [drv EXCEPT ![d].pc = "advance", ![d].round = 1, ![d].then = "final"]
      BY <2>4, <3>2
    <3>. QED  BY <1>1, <3>1, <3>2 DEF Select
  <2>. QED  BY <1>0, <1>1, <2>5 DEF Select, PathTypeOK, tables
<1>2. CASE Maintain(d)
  <2>1. drv' \in [Caller -> CallerType]
    BY <1>2, CallerUpdates DEF Maintain, Places
  <2>2. /\ [Moved(rows[drv[d].p], "retry_wait", "none") EXCEPT !.up = TRUE] \in RowType
        /\ Moved(rows[drv[d].p], "failed", "none") \in RowType
    <3>1. /\ Moved(rows[drv[d].p], "retry_wait", "none") \in RowType
          /\ Moved(rows[drv[d].p], "failed", "none") \in RowType
      BY <1>0, RowUpdates DEF Status, OpenStatus, TerminalStatus
    <3>. QED  BY <3>1, RowUpdates
  <2>3. rows' \in [Plan -> RowType]
    BY <1>0, <1>2, <2>2 DEF Maintain
  <2>. QED  BY <1>0, <1>2, <2>1, <2>3 DEF Maintain, PathTypeOK
<1>3. CASE Claim(d)
  <2>. DEFINE p == drv[d].p
  <2>1. CASE Raise(d) /\ UNCHANGED rows
    <3>1. drv' \in [Caller -> CallerType]
      BY <2>1, CallerUpdates
    <3>. QED  BY <1>0, <1>3, <2>1, <3>1 DEF Claim, PathTypeOK
  <2>2. CASE ~(Raise(d) /\ UNCHANGED rows)
    <3>1. /\ rows[p].attempt < MaxAttempts
          /\ rows' = [rows EXCEPT ![p] = [rows[p] EXCEPT !.status = "running", !.attempt = @ + 1,
                                                        !.owner = d, !.up = FALSE]]
          /\ drv' = [drv EXCEPT ![d] = [drv[d] EXCEPT !.pc = "run",
                        !.seen = [Row("running") EXCEPT !.attempt = rows[p].attempt + 1]]]
      BY <1>0, <1>3, <2>2 DEF Claim
    <3>2. rows[p].attempt + 1 \in 0..MaxAttempts
      BY <1>0, <3>1, PathAssumption DEF RowType
    <3>3. [Row("running") EXCEPT !.attempt = rows[p].attempt + 1] \in RowType
      <4>1. Row("running") \in RowType
        BY BlankTypes DEF Status, OpenStatus
      <4>. QED  BY <3>2, <4>1 DEF RowType
    <3>4. ASSUME NEW seen \in RowType
          PROVE  [drv[d] EXCEPT !.pc = "run", !.seen = seen] \in CallerType
      BY <1>0 DEF CallerType, Places
    <3>5. drv' \in [Caller -> CallerType]
      BY <1>0, <3>1, <3>3, <3>4
    <3>6. [rows[p] EXCEPT !.status = "running", !.attempt = @ + 1, !.owner = d, !.up = FALSE]
              \in RowType
      BY <1>0, <3>1, RowUpdates
    <3>7. rows' \in [Plan -> RowType]
      BY <1>0, <3>1, <3>6
    <3>. QED  BY <1>0, <1>3, <3>5, <3>7 DEF Claim, PathTypeOK
  <2>. QED  BY <2>1, <2>2
<1>4. CASE Succeed(d)
  <2>1. PICK result \in Results(drv[d].p) : Finish(d, "succeeded", result)
    BY <1>4 DEF Succeed
  <2>2. result \in {"none", "yes", "no"} /\ "succeeded" \in Status
    BY <2>1 DEF Results, Status, TerminalStatus
  <2>. QED  BY <2>1, <2>2, FinishTypes
<1>5. CASE Fail(d)
  <2>1. PICK to \in {"retry_wait", "failed", "timed_out"} : Finish(d, to, "none")
    BY <1>5 DEF Fail
  <2>2. to \in Status
    BY <2>1 DEF Status, OpenStatus, TerminalStatus
  <2>. QED  BY <2>1, <2>2, FinishTypes
<1>6. CASE Park(d)
  <2>1. drv' \in [Caller -> CallerType]
    BY <1>6, CallerUpdates DEF Park
  <2>2. /\ Moved(rows[drv[d].p], "waiting", "none") \in RowType
        /\ [status |-> "open", attempt |-> rows[drv[d].p].attempt] \in GateType
    <3>1. Moved(rows[drv[d].p], "waiting", "none") \in RowType
      BY <1>0, RowUpdates DEF Status, OpenStatus
    <3>2. rows[drv[d].p].attempt \in 0..MaxAttempts
      BY <1>0 DEF RowType
    <3>. QED  BY <3>1, <3>2 DEF GateType
  <2>3. rows' \in [Plan -> RowType] /\ gates' \in [Plan -> GateType]
    BY <1>0, <1>6, <2>2 DEF Park
  <2>. QED  BY <1>0, <1>6, <2>1, <2>3 DEF Park, PathTypeOK
<1>. QED  BY <1>1, <1>2, <1>3, <1>4, <1>5, <1>6

\* Finalizing keeps the types.
LEMMA EndTypes ==
    ASSUME PathTypeOK, NEW d \in Caller,
           Stop(d) \/ FinalizeRun(d) \/ FinalizeRows(d) \/ FinalizeWrite(d)
    PROVE  PathTypeOK'
<1>0. /\ run \in RunStatuses \cup {"absent"} /\ drv \in [Caller -> CallerType]
      /\ drv[d] \in CallerType /\ TargetOf(d) \in RunStatuses
  BY DEF PathTypeOK, TargetOf, RunStatuses, RunOpen, RunTerminal
<1>1. CASE Stop(d)
  <2>1. ASSUME NEW e \in BOOLEAN
        PROVE  [drv[d] EXCEPT !.pc = "finalize", !.exhausted = e] \in CallerType
    BY <1>0 DEF CallerType, Places
  <2>2. drv' \in [Caller -> CallerType]
    BY <1>0, <1>1, <2>1 DEF Stop
  <2>. QED  BY <1>1, <2>2 DEF Stop, PathTypeOK, tables
<1>2. CASE FinalizeRun(d)
  <2>1. ASSUME NEW status \in RunStatuses \cup {"absent"}
        PROVE  [drv[d] EXCEPT !.pc = "rows", !.from = status] \in CallerType
    BY <1>0 DEF CallerType, Places
  <2>2. drv' \in [Caller -> CallerType]
    BY <1>0, <1>2, <2>1, CallerUpdates DEF FinalizeRun
  <2>. QED  BY <1>2, <2>2 DEF FinalizeRun, PathTypeOK, tables
<1>3. CASE FinalizeRows(d)
  <2>1. ASSUME NEW status \in RunStatuses
        PROVE  [drv[d] EXCEPT !.pc = "decide", !.target = status] \in CallerType
    BY <1>0 DEF CallerType, Places
  <2>2. drv' \in [Caller -> CallerType]
    BY <1>0, <1>3, <2>1, CallerUpdates DEF FinalizeRows
  <2>. QED  BY <1>3, <2>2 DEF FinalizeRows, PathTypeOK, tables
<1>4. CASE FinalizeWrite(d)
  <2>1. drv' \in [Caller -> CallerType]
    BY <1>4, CallerUpdates DEF FinalizeWrite
  <2>2. drv[d].target \in RunStatuses \cup {"absent"}
    BY <1>0 DEF CallerType
  <2>3. run' \in RunStatuses \cup {"absent"}
    BY <1>0, <1>4, <2>2 DEF FinalizeWrite
  <2>. QED  BY <1>4, <2>1, <2>3 DEF FinalizeWrite, PathTypeOK
<1>. QED  BY <1>1, <1>2, <1>3, <1>4

\* Operators, deaths and time keep the types.
LEMMA OutsideTypes ==
    ASSUME PathTypeOK
    PROVE  /\ \A d \in Caller : Operate(d) \/ Crash(d) => PathTypeOK'
           /\ \A p \in Plan : Rearm(p) \/ TimeUp(p) => PathTypeOK'
<1>0. /\ rows \in [Plan -> RowType] /\ gates \in [Plan -> GateType]
      /\ drv \in [Caller -> CallerType] /\ crashes \in 0..MaxCrashes
  BY DEF PathTypeOK
<1>1. ASSUME NEW d \in Caller
      PROVE  [drv EXCEPT ![d] = [Idle EXCEPT !.pc = "advance", !.round = 1]]
                 \in [Caller -> CallerType]
  <2>1. [Idle EXCEPT !.pc = "advance", !.round = 1] \in CallerType
    BY BlankTypes DEF CallerType, Places
  <2>. QED  BY <2>1, CallerUpdates
<1>2. ASSUME NEW d \in Caller, NEW p \in Plan, NEW end \in DOMAIN RowEnd,
             NEW advance \in BOOLEAN, Close(d, p, end, advance)
      PROVE  PathTypeOK'
  <2>1. drv' \in [Caller -> CallerType]
    BY <1>0, <1>1, <1>2 DEF Close
  <2>2. [gates[p] EXCEPT !.status = end] \in GateType
    BY <1>0 DEF GateType
  <2>3. RowEnd[end] \in Status
    BY DEF RowEnd, Status, TerminalStatus
  <2>4. \A result \in Results(p) \cup {"none"} : Moved(rows[p], RowEnd[end], result) \in RowType
    BY <1>0, <2>3, RowUpdates DEF Results
  <2>5. PICK result \in Results(p) \cup {"none"} :
            rows' = [rows EXCEPT ![p] = Moved(rows[p], RowEnd[end], result)]
    BY <1>2 DEF Close
  <2>6. rows' \in [Plan -> RowType]
    BY <1>0, <2>4, <2>5
  <2>7. gates' \in [Plan -> GateType]
    BY <1>0, <1>2, <2>2 DEF Close
  <2>. QED  BY <1>2, <2>1, <2>6, <2>7 DEF Close, PathTypeOK
<1>3. ASSUME NEW d \in Caller, NEW p \in Plan, Repeat(d, p)
      PROVE  PathTypeOK'
  <2>1. drv' \in [Caller -> CallerType]
    BY <1>1, <1>3 DEF Repeat
  <2>. QED  BY <1>3, <2>1 DEF Repeat, PathTypeOK, tables
<1>4. ASSUME NEW d \in Caller, Crash(d)
      PROVE  PathTypeOK'
  <2>1. drv' \in [Caller -> CallerType]
    BY <1>4, CallerUpdates DEF Crash
  <2>2. crashes' \in 0..MaxCrashes
    BY <1>0, <1>4, PathAssumption DEF Crash
  <2>. QED  BY <1>4, <2>1, <2>2 DEF Crash, PathTypeOK, tables
<1>5. ASSUME NEW p \in Plan, Rearm(p)
      PROVE  PathTypeOK'
  <2>1. gates[p].attempt + 1 \in 0..MaxAttempts
    BY <1>0, <1>5, PathAssumption DEF Rearm, GateType
  <2>2. [gates[p] EXCEPT !.status = "open", !.attempt = @ + 1] \in GateType
    BY <1>0, <2>1 DEF GateType
  <2>3. Reopened(p) \in RowType
    BY <1>0, RowUpdates DEF Reopened, Status, OpenStatus
  <2>4. rows' \in [Plan -> RowType] /\ gates' \in [Plan -> GateType]
    BY <1>0, <1>5, <2>2, <2>3 DEF Rearm
  <2>. QED  BY <1>5, <2>4 DEF Rearm, PathTypeOK
<1>6. ASSUME NEW p \in Plan, TimeUp(p)
      PROVE  PathTypeOK'
  <2>1. rows' \in [Plan -> RowType]
    <3>1. [rows[p] EXCEPT !.up = TRUE] \in RowType
      BY <1>0, RowUpdates
    <3>. QED  BY <1>0, <1>6, <3>1 DEF TimeUp
  <2>. QED  BY <1>6, <2>1 DEF TimeUp, PathTypeOK
<1>. QED  BY <1>2, <1>3, <1>4, <1>5, <1>6 DEF Operate

\* Whatever the plan, the callers and the faults: the tables hold what their
\* columns may hold, and callers remember rows, inputs and statuses.
THEOREM PathTypeCorrect == PathSpec => []PathTypeOK
<1>1. PathTypeOK /\ [PathNext]_pathVars => PathTypeOK'
  <2>. SUFFICES ASSUME PathTypeOK, [PathNext]_pathVars PROVE PathTypeOK'
    OBVIOUS
  <2>1. ASSUME NEW d \in Caller, PathStep(d) PROVE PathTypeOK'
    BY <2>1, PersistTypes, AdvanceTypes, TickTypes, EndTypes DEF PathStep
  <2>2. CASE UNCHANGED pathVars
    BY <2>2 DEF pathVars, PathTypeOK
  <2>. QED  BY <2>1, <2>2, OutsideTypes DEF PathNext
<1>. QED  BY TypeInit, <1>1, PTL DEF PathSpec

-----------------------------------------------------------------------------
(* The end of a run.                                                       *)

\* A run that has ended keeps its end: every write of its status is checked
\* against the status it replaces.
THEOREM EndsAreFinal == PathSpec => EndIsFinal
<1>1. [PathNext]_pathVars => [(run \in RunTerminal) => run' = run]_pathVars
  <2>. SUFFICES ASSUME PathNext, run \in RunTerminal PROVE run' = run
    OBVIOUS
  <2>1. ASSUME NEW d \in Caller, PathStep(d) PROVE run' = run
    <3>1. ~Enter(d)
      BY DEF Enter
    <3>2. CASE FinalizeWrite(d)
      BY <3>2 DEF FinalizeWrite, RunLegal, CanTransitionRun, RunTerminal, RunOpen
    <3>3. CASE \/ Schedule(d) \/ MarkPending(d) \/ Refresh(d) \/ Promote(d) \/ Bind(d)
               \/ AdvanceRead(d) \/ AdvanceSkip(d) \/ AdvanceApply(d)
      BY <3>3 DEF Schedule, MarkPending, Refresh, Promote, Bind, AdvanceRead, AdvanceSkip,
                  AdvanceApply, tables
    <3>4. CASE \/ Select(d) \/ Maintain(d) \/ Claim(d) \/ Succeed(d) \/ Fail(d) \/ Park(d)
               \/ Stop(d) \/ FinalizeRun(d) \/ FinalizeRows(d)
      BY <3>4 DEF Select, Maintain, Claim, Succeed, Fail, Finish, Park, Stop, FinalizeRun,
                  FinalizeRows, tables
    <3>. QED  BY <2>1, <3>1, <3>2, <3>3, <3>4 DEF PathStep
  <2>2. ASSUME NEW d \in Caller, Operate(d) \/ Crash(d) PROVE run' = run
    BY <2>2 DEF Operate, Close, Repeat, Crash, tables
  <2>3. ASSUME NEW p \in Plan, Rearm(p) \/ TimeUp(p) PROVE run' = run
    BY <2>3 DEF Rearm, TimeUp
  <2>. QED  BY <2>1, <2>2, <2>3 DEF PathNext
<1>. QED  BY <1>1, PTL DEF PathSpec, EndIsFinal

-----------------------------------------------------------------------------
(* Conduction.  ConductedInOrder is not inductive: a row is fed from what a *)
(* caller read some steps before, and it is readied before it is started.   *)
(* The invariant says of every row that is due, and of every input a caller *)
(* still holds, what ConductedInOrder says of the started ones.             *)

Outcomes == [u \in Plan |-> Payload(u)]

\* `fed` tells p of settled upstreams, as they are in `out` unless rearmed since.
Fed(fed, p, out) ==
    /\ DOMAIN fed = Upstream[p]
    /\ \A u \in Upstream[p] :
          /\ fed[u].status \in TerminalStatus
          /\ fed[u].gen <= out[u].gen
          /\ fed[u].gen = out[u].gen => fed[u] = out[u]

Due(p) == rows[p].status \in {"ready", "running", "retry_wait"} \/ rows[p].attempt > 0

Conduction ==
    /\ \A p \in Plan : rows[p].status # "absent"
    /\ \A p \in Plan : Due(p) => Fed(rows[p].fed, p, Outcomes)
    /\ \A d \in Caller :
          /\ drv[d].pc \notin {"schedule", "mark"}
          /\ drv[d].pc = "maintain" => drv[d].seen.status = "running"
          /\ \A p \in DOMAIN drv[d].inputs : p \in Plan /\ Fed(drv[d].inputs[p], p, Outcomes)

\* What a step may do to the row and the homeostat of p.
RowMoves(p) ==
    /\ rows'[p].status # "absent"
    /\ Due(p)' => \/ Due(p) /\ rows'[p].fed = rows[p].fed
                  \/ \E d \in Caller : /\ p \in DOMAIN drv[d].inputs
                                       /\ rows'[p].fed = drv[d].inputs[p]
    /\ \/ Payload(p)' = Payload(p)
       \/ rows[p].status \notin TerminalStatus /\ gates[p].attempt <= gates'[p].attempt
       \/ gates[p].attempt < gates'[p].attempt

\* And to the caller d.
CallerMoves(d) ==
    /\ drv'[d].pc \notin {"schedule", "mark"}
    /\ drv'[d].pc = "maintain" => drv'[d].seen.status = "running"
    /\ \A p \in DOMAIN drv'[d].inputs :
          \/ p \in DOMAIN drv[d].inputs /\ drv'[d].inputs[p] = drv[d].inputs[p]
          \/ p \in Plan /\ AllSettled(p) /\ drv'[d].inputs[p] = InputOf(p)

\* What was fed stands while outcomes do, or are rearmed.
LEMMA FedStands ==
    ASSUME NEW p \in Plan, NEW fed \in Input, NEW out \in [Plan -> Outcome],
           NEW out2 \in [Plan -> Outcome], Fed(fed, p, out),
           \A u \in Plan : \/ out2[u] = out[u]
                           \/ out[u].status \notin TerminalStatus /\ out[u].gen <= out2[u].gen
                           \/ out[u].gen < out2[u].gen
    PROVE  Fed(fed, p, out2)
<1>1. DOMAIN fed = Upstream[p] /\ Upstream[p] \subseteq Plan
  BY PathAssumption DEF Fed
<1>2. ASSUME NEW u \in Upstream[p]
      PROVE  /\ fed[u].status \in TerminalStatus
             /\ fed[u].gen <= out2[u].gen
             /\ fed[u].gen = out2[u].gen => fed[u] = out2[u]
  <2>1. u \in Plan
    BY <1>1
  <2>2. fed[u] \in Outcome
    BY <1>1 DEF Input
  <2>3. fed[u].gen \in Nat /\ out[u].gen \in Nat /\ out2[u].gen \in Nat
    BY <2>1, <2>2 DEF Outcome
  <2>4. /\ fed[u].status \in TerminalStatus
        /\ fed[u].gen <= out[u].gen
        /\ fed[u].gen = out[u].gen => fed[u] = out[u]
    BY DEF Fed
  <2>. QED  BY <2>1, <2>3, <2>4
<1>. QED  BY <1>1, <1>2 DEF Fed

\* Outcomes are of their type, and what is merged from settled upstreams is fed.
LEMMA MergedFeeds ==
    ASSUME PathTypeOK
    PROVE  /\ Outcomes \in [Plan -> Outcome]
           /\ \A p \in Plan : AllSettled(p) => Fed(InputOf(p), p, Outcomes)
<1>1. \A u \in Plan : Payload(u) \in Outcome
  BY DEF PathTypeOK, Payload, Outcome, RowType, GateType
<1>2. ASSUME NEW p \in Plan, AllSettled(p) PROVE Fed(InputOf(p), p, Outcomes)
  <2>1. Upstream[p] \subseteq Plan
    BY PathAssumption
  <2>2. ASSUME NEW u \in Upstream[p]
        PROVE  /\ InputOf(p)[u] = Outcomes[u]
               /\ Outcomes[u].status \in TerminalStatus
               /\ Outcomes[u].gen <= Outcomes[u].gen
    <3>1. InputOf(p)[u] = Payload(u) /\ Outcomes[u] = Payload(u)
      BY <2>1 DEF InputOf, Outcomes
    <3>2. Payload(u).status \in TerminalStatus
      BY <1>2 DEF AllSettled, Payload
    <3>3. Payload(u).gen \in Nat
      BY <1>1, <2>1 DEF Outcome
    <3>. QED  BY <3>1, <3>2, <3>3
  <2>3. DOMAIN InputOf(p) = Upstream[p]
    BY DEF InputOf
  <2>. QED  BY <2>2, <2>3 DEF Fed
<1>. QED  BY <1>1, <1>2 DEF Outcomes

\* Steps that move rows and callers like this keep the invariant.
LEMMA MovesConduct ==
    ASSUME PathTypeOK, PathTypeOK', Conduction,
           \A p \in Plan : RowMoves(p), \A d \in Caller : CallerMoves(d)
    PROVE  Conduction'
<1>. DEFINE out == Outcomes
            out2 == Outcomes'
<1>1. out \in [Plan -> Outcome] /\ out2 \in [Plan -> Outcome]
  <2>1. Outcomes' \in [Plan -> Outcome]
    <3>1. \A u \in Plan : Payload(u)' \in Outcome
      BY DEF PathTypeOK, Payload, Outcome, RowType, GateType
    <3>. QED  BY <3>1 DEF Outcomes
  <2>. QED  BY <2>1, MergedFeeds
<1>2. \A u \in Plan : \/ out2[u] = out[u]
                      \/ out[u].status \notin TerminalStatus /\ out[u].gen <= out2[u].gen
                      \/ out[u].gen < out2[u].gen
  BY DEF RowMoves, Outcomes, Payload
<1>. HIDE DEF out, out2
<1>3. ASSUME NEW p \in Plan, NEW fed \in Input, Fed(fed, p, out) PROVE Fed(fed, p, out2)
  BY <1>1, <1>2, <1>3, FedStands
<1>4. ASSUME NEW d \in Caller, NEW p \in DOMAIN drv[d].inputs
      PROVE  p \in Plan /\ drv[d].inputs[p] \in Input /\ Fed(drv[d].inputs[p], p, out2)
  BY <1>3, HeldInputs DEF Conduction, out
<1>5. ASSUME NEW p \in Plan, Due(p)' PROVE Fed(rows'[p].fed, p, out2)
  <2>1. CASE Due(p) /\ rows'[p].fed = rows[p].fed
    <3>1. rows[p].fed \in Input
      BY DEF PathTypeOK, RowType
    <3>. QED  BY <1>3, <2>1, <3>1 DEF Conduction, out
  <2>2. CASE \E d \in Caller : p \in DOMAIN drv[d].inputs /\ rows'[p].fed = drv[d].inputs[p]
    BY <1>4, <2>2
  <2>. QED  BY <1>5, <2>1, <2>2 DEF RowMoves
<1>6. ASSUME NEW d \in Caller, NEW p \in DOMAIN drv'[d].inputs
      PROVE  p \in Plan /\ Fed(drv'[d].inputs[p], p, out2)
  <2>1. CASE p \in DOMAIN drv[d].inputs /\ drv'[d].inputs[p] = drv[d].inputs[p]
    BY <1>4, <2>1
  <2>2. CASE p \in Plan /\ AllSettled(p) /\ drv'[d].inputs[p] = InputOf(p)
    BY <1>3, <2>2, MergedFeeds, MergedTypes DEF out
  <2>. QED  BY <1>6, <2>1, <2>2 DEF CallerMoves
<1>. QED  BY <1>5, <1>6 DEF Conduction, RowMoves, CallerMoves, out2

\* Rows, homeostats and callers that stay as they are move like this.
LEMMA StillMoves ==
    ASSUME PathTypeOK, Conduction
    PROVE  /\ \A p \in Plan : rows'[p] = rows[p] /\ gates'[p] = gates[p] => RowMoves(p)
           /\ \A d \in Caller : drv'[d] = drv[d] => CallerMoves(d)
BY DEF Conduction, RowMoves, CallerMoves, Due, Payload

\* A caller that goes on, in the ways that actions share.
LEMMA CallerGoesOn ==
    ASSUME PathTypeOK, Conduction, NEW d \in Caller
    PROVE  /\ \A c \in CallerType :
                 /\ drv' = [drv EXCEPT ![d] = c]
                 /\ c.pc \notin {"schedule", "mark"}
                 /\ c.pc = "maintain" => c.seen.status = "running"
                 /\ c.inputs \in {drv[d].inputs, NoInput}
                 => \A e \in Caller : CallerMoves(e)
           /\ Raise(d) => \A e \in Caller : CallerMoves(e)
           /\ \A pc \in Places \ {"schedule", "mark", "maintain"} :
                 Goto(d, pc) => \A e \in Caller : CallerMoves(e)
           /\ drv' = [drv EXCEPT ![d] = Ticked(d)] => \A e \in Caller : CallerMoves(e)
           /\ drv' = [drv EXCEPT ![d] = NextRound(d)] => \A e \in Caller : CallerMoves(e)
           /\ drv' = [drv EXCEPT ![d] = NextPass(d)] => \A e \in Caller : CallerMoves(e)
           /\ drv' = [drv EXCEPT ![d] = AfterAdvance(d)] => \A e \in Caller : CallerMoves(e)
<1>0. /\ drv \in [Caller -> CallerType] /\ drv[d] \in CallerType
      /\ Idle \in CallerType /\ Idle.pc = "idle" /\ Idle.inputs = NoInput
      /\ DOMAIN NoInput = {}
  BY BlankTypes DEF PathTypeOK, Idle, NoInput
<1>1. ASSUME NEW c \in CallerType, drv' = [drv EXCEPT ![d] = c],
             c.pc \notin {"schedule", "mark"}, c.pc = "maintain" => c.seen.status = "running",
             c.inputs \in {drv[d].inputs, NoInput}
      PROVE  \A e \in Caller : CallerMoves(e)
  <2>1. CallerMoves(d)
    BY <1>0, <1>1 DEF CallerMoves
  <2>2. \A e \in Caller \ {d} : CallerMoves(e)
    BY <1>0, <1>1, StillMoves
  <2>. QED  BY <2>1, <2>2
<1>2. Raise(d) => \A e \in Caller : CallerMoves(e)
  BY <1>0, <1>1 DEF Raise
<1>3. ASSUME NEW pc \in Places \ {"schedule", "mark", "maintain"}, Goto(d, pc)
      PROVE  \A e \in Caller : CallerMoves(e)
  <2>1. [drv[d] EXCEPT !.pc = pc] \in CallerType
    BY <1>0 DEF CallerType
  <2>2. drv[d] \in CallerType => [drv[d] EXCEPT !.pc = pc].pc = pc
                                 /\ [drv[d] EXCEPT !.pc = pc].inputs = drv[d].inputs
    BY DEF CallerType
  <2>3. drv' = [drv EXCEPT ![d] = [drv[d] EXCEPT !.pc = pc]]
    BY <1>0, <1>3 DEF Goto
  <2>. QED  BY <1>0, <1>1, <2>1, <2>2, <2>3
<1>4. ASSUME NEW c \in {Ticked(d), NextRound(d), NextPass(d), AfterAdvance(d)},
             drv' = [drv EXCEPT ![d] = c]
      PROVE  \A e \in Caller : CallerMoves(e)
  <2>1. c \in CallerType
    BY CallerUpdates
  <2>2. /\ Ticked(d).pc = "advance" /\ Ticked(d).inputs = drv[d].inputs
        /\ NextRound(d).pc \in {"idle", "advance"} /\ NextRound(d).inputs = NoInput
        /\ NextPass(d).pc \in {"idle", "finalize"}
        /\ NextPass(d).inputs \in {drv[d].inputs, NoInput}
    BY <1>0 DEF Ticked, NextRound, NextPass, CallerType
  <2>3. /\ AfterAdvance(d).pc \in {"idle", "select", "stop"}
        /\ AfterAdvance(d).inputs \in {drv[d].inputs, NoInput}
    <3>1. drv[d].then \in {"drive", "final", "close"}
      BY <1>0 DEF CallerType
    <3>. QED  BY <1>0, <3>1 DEF AfterAdvance, CallerType
  <2>. QED  BY <1>1, <1>4, <2>1, <2>2, <2>3
<1>. QED  BY <1>1, <1>2, <1>3, <1>4

\* Reading, binding and finalizing move no row, and what is read for a dependent
\* is fed.
LEMMA ReadsConduct ==
    ASSUME PathTypeOK, PathTypeOK', Conduction, NEW d \in Caller,
           \/ Enter(d) \/ Refresh(d) \/ Bind(d) \/ AdvanceRead(d) \/ Select(d)
           \/ Stop(d) \/ FinalizeRun(d) \/ FinalizeRows(d) \/ FinalizeWrite(d) \/ Crash(d)
           \/ \E p \in Plan : Repeat(d, p)
    PROVE  Conduction'
<1>0. /\ drv \in [Caller -> CallerType] /\ drv[d] \in CallerType
      /\ drv' \in [Caller -> CallerType] /\ drv'[d] \in CallerType
      /\ Idle \in CallerType /\ Idle.pc = "idle" /\ Idle.inputs = NoInput
      /\ DOMAIN NoInput = {}
  BY BlankTypes DEF PathTypeOK, Idle, NoInput
<1>1. rows' = rows /\ gates' = gates
  BY DEF Enter, Refresh, Bind, AdvanceRead, Select, Stop, FinalizeRun, FinalizeRows,
         FinalizeWrite, Crash, Repeat, tables
<1>2. \A p \in Plan : RowMoves(p)
  BY <1>1, StillMoves
<1>3. \A e \in Caller \ {d} : CallerMoves(e)
  <2>1. \A e \in Caller \ {d} : drv'[e] = drv[e]
    BY <1>0 DEF Enter, Refresh, Bind, AdvanceRead, Select, Stop, FinalizeRun, FinalizeRows,
                FinalizeWrite, Crash, Repeat, Raise, Goto
  <2>. QED  BY <2>1, StillMoves
<1>4. CallerMoves(d)
  <2>1. CASE Enter(d)
    <3>1. {p \in Plan : rows[p].status = "absent"} = {}
      BY DEF Conduction
    <3>2. drv'[d].pc = "refresh" /\ drv'[d].inputs = NoInput
      BY <1>0, <2>1, <3>1 DEF Enter, CallerType
    <3>. QED  BY <1>0, <3>2 DEF CallerMoves
  <2>2. CASE Refresh(d)
    <3>1. CASE Raise(d)
      BY <3>1, CallerGoesOn
    <3>2. CASE ~Raise(d)
      <4>1. drv'[d].pc \in {"advance", "bind", "promote"}
            /\ drv'[d].inputs = [p \in Settled |-> InputOf(p)]
        <5>. DEFINE pc == IF Settled = {} THEN AfterRefresh ELSE "promote"
                    inputs == [p \in Settled |-> InputOf(p)]
        <5>1. drv' = [drv EXCEPT ![d].pc = pc, ![d].inputs = inputs, ![d].round = 1,
                                 ![d].then = "drive"]
          BY <2>2, <3>2 DEF Refresh
        <5>2. pc \in {"advance", "bind", "promote"}
          BY DEF AfterRefresh
        <5>. HIDE DEF pc, inputs
        <5>3. drv'[d].pc = pc /\ drv'[d].inputs = inputs
          BY <1>0, <5>1 DEF CallerType
        <5>. QED  BY <5>2, <5>3 DEF inputs
      <4>2. \A p \in Settled : p \in Plan /\ AllSettled(p)
        BY DEF Settled, Pending
      <4>. QED  BY <4>1, <4>2 DEF CallerMoves
    <3>. QED  BY <3>1, <3>2
  <2>3. CASE Bind(d)
    BY <2>3, CallerGoesOn DEF Bind, Places
  <2>4. CASE AdvanceRead(d)
    <3>1. CASE Readied = {}
      BY <2>4, <3>1, CallerGoesOn DEF AdvanceRead
    <3>2. CASE Readied # {}
      <4>. DEFINE skips == {p \in Readied : ~Matches(p)}
      <4>1. drv'[d].pc \in {"apply", "skip"}
            /\ drv'[d].inputs = [p \in Readied \ skips |-> InputOf(p)]
        BY <1>0, <2>4, <3>2 DEF AdvanceRead, CallerType
      <4>2. \A p \in Readied \ skips : p \in Plan /\ AllSettled(p)
        BY DEF Readied, Pending
      <4>. HIDE DEF skips
      <4>. QED  BY <4>1, <4>2 DEF CallerMoves
    <3>. QED  BY <3>1, <3>2
  <2>5. CASE Select(d)
    <3>. DEFINE next == /\ drv'[d].pc \in {"advance", "maintain", "claim"}
                        /\ drv'[d].pc = "maintain" => drv'[d].seen.status = "running"
                        /\ drv'[d].inputs = drv[d].inputs
    <3>1. next
      <4>1. CASE drv' = [drv EXCEPT ![d].pc = "advance", ![d].round = 1, ![d].then = "final"]
        BY <1>0, <4>1 DEF CallerType
      <4>2. ASSUME NEW p \in Plan, NEW pc \in {"maintain", "claim"},
                   pc = "maintain" => rows[p].status = "running",
                   drv' = [drv EXCEPT ![d].p = p, ![d].seen = rows[p], ![d].pc = pc]
            PROVE  next
        BY <1>0, <4>2 DEF CallerType
      <4>3. CASE \E p \in Plan :
                   drv' = [drv EXCEPT ![d].p = p, ![d].seen = rows[p],
                             ![d].pc = IF rows[p].status = "running" THEN "maintain" ELSE "claim"]
        <5>1. PICK p \in Plan :
                   drv' = [drv EXCEPT ![d].p = p, ![d].seen = rows[p],
                             ![d].pc = IF rows[p].status = "running" THEN "maintain" ELSE "claim"]
          BY <4>3
        <5>. QED  BY <4>2, <5>1
      <4>. QED  BY <2>5, <4>1, <4>3 DEF Select
    <3>. QED  BY <3>1 DEF CallerMoves
  <2>6. CASE Stop(d)
    <3>1. drv'[d].pc = "finalize" /\ drv'[d].inputs = drv[d].inputs
      BY <1>0, <2>6 DEF Stop, CallerType
    <3>. QED  BY <3>1 DEF CallerMoves
  <2>7. CASE FinalizeRun(d)
    <3>1. CASE run \in RunTerminal
      BY <2>7, <3>1, CallerGoesOn DEF FinalizeRun
    <3>2. CASE run \notin RunTerminal
      <4>1. drv'[d].pc = "rows" /\ drv'[d].inputs = drv[d].inputs
        BY <1>0, <2>7, <3>2 DEF FinalizeRun, CallerType
      <4>. QED  BY <4>1 DEF CallerMoves
    <3>. QED  BY <3>1, <3>2
  <2>8. CASE FinalizeRows(d)
    <3>1. CASE TargetOf(d) = drv[d].from
      BY <2>8, <3>1, CallerGoesOn DEF FinalizeRows
    <3>2. CASE TargetOf(d) # drv[d].from
      <4>1. drv'[d].pc = "decide" /\ drv'[d].inputs = drv[d].inputs
        BY <1>0, <2>8, <3>2 DEF FinalizeRows, CallerType
      <4>. QED  BY <4>1 DEF CallerMoves
    <3>. QED  BY <3>1, <3>2
  <2>9. CASE FinalizeWrite(d)
    BY <2>9, CallerGoesOn DEF FinalizeWrite
  <2>10. CASE Crash(d)
    BY <2>10, CallerGoesOn DEF Crash
  <2>11. CASE \E p \in Plan : Repeat(d, p)
    <3>1. drv'[d].pc = "advance" /\ drv'[d].inputs = NoInput
      BY <1>0, <2>11 DEF Repeat, CallerType
    <3>. QED  BY <1>0, <3>1 DEF CallerMoves
  <2>. QED  BY <2>1, <2>2, <2>3, <2>4, <2>5, <2>6, <2>7, <2>8, <2>9, <2>10, <2>11
<1>. QED  BY <1>2, <1>3, <1>4, MovesConduct

\* An open row that moves keeps its input.
LEMMA OpenRowMoves ==
    ASSUME PathTypeOK, Conduction, NEW p \in Plan, NEW to \in Status \ {"ready", "running"},
           to = "retry_wait" => rows[p].status = "running",
           rows[p].status \notin TerminalStatus, gates[p].attempt <= gates'[p].attempt,
           rows'[p].status = to, rows'[p].fed = rows[p].fed, rows'[p].attempt = rows[p].attempt
    PROVE  RowMoves(p)
<1>1. to # "absent"
  BY DEF Status, OpenStatus, TerminalStatus
<1>. QED  BY <1>1 DEF RowMoves, Due

\* The table lets only open rows move, and only running ones wait for a retry.
LEMMA TableMoves ==
    ASSUME NEW p \in Plan, NEW to, NEW d \in Caller, MayMove(p, to, d)
    PROVE  /\ rows[p].status \notin TerminalStatus
           /\ to = "retry_wait" => rows[p].status = "running"
<1>1. rows[p].status \in OpenStatus
      /\ to \in {"cancelled", "timed_out", "skipped"} \cup OwnTargets[rows[p].status]
  BY DEF MayMove, CanTransition
<1>. QED  BY <1>1 DEF OpenStatus, TerminalStatus, OwnTargets

\* Readying from held inputs, skipping, and every step of a tick conduct.
LEMMA WritesConduct ==
    ASSUME PathTypeOK, PathTypeOK', Conduction, NEW d \in Caller,
           \/ Promote(d) \/ AdvanceSkip(d) \/ AdvanceApply(d)
           \/ Maintain(d) \/ Claim(d) \/ Succeed(d) \/ Fail(d) \/ Park(d)
    PROVE  Conduction'
<1>0. /\ drv \in [Caller -> CallerType] /\ drv[d] \in CallerType /\ drv[d].p \in Plan
      /\ rows \in [Plan -> RowType] /\ gates \in [Plan -> GateType]
      /\ \A p \in Plan : gates[p].attempt \in Nat /\ rows[p].attempt \in Nat
      /\ NoInput \in Inputs
  BY BlankTypes DEF PathTypeOK, CallerType, RowType, GateType
<1>1. CASE Promote(d)
  <2>1. ASSUME NEW p \in Plan PROVE RowMoves(p)
    <3>1. CASE p \in DOMAIN drv[d].inputs /\ rows[p].status = "pending"
      <4>1. rows'[p].status = "ready" /\ rows'[p].fed = drv[d].inputs[p] /\ gates' = gates
        BY <1>0, <1>1, <3>1 DEF Promote, RowType
      <4>. QED  BY <1>0, <3>1, <4>1 DEF RowMoves, TerminalStatus
    <3>2. CASE ~(p \in DOMAIN drv[d].inputs /\ rows[p].status = "pending")
      BY <1>1, <3>2, StillMoves DEF Promote
    <3>. QED  BY <3>1, <3>2
  <2>2. \A e \in Caller : CallerMoves(e)
    <3>1. ASSUME NEW pc \in {"advance", "bind"}
          PROVE  /\ [drv[d] EXCEPT !.pc = pc, !.inputs = NoInput] \in CallerType
                 /\ [drv[d] EXCEPT !.pc = pc, !.inputs = NoInput].pc = pc
                 /\ [drv[d] EXCEPT !.pc = pc, !.inputs = NoInput].inputs = NoInput
      BY <1>0 DEF CallerType, Places
    <3>2. drv' = [drv EXCEPT ![d] = [drv[d] EXCEPT !.pc = AfterRefresh, !.inputs = NoInput]]
      BY <1>0, <1>1 DEF Promote
    <3>3. AfterRefresh \in {"advance", "bind"}
      BY DEF AfterRefresh
    <3>. QED  BY <3>1, <3>2, <3>3, CallerGoesOn
  <2>. QED  BY <2>1, <2>2, MovesConduct
<1>2. CASE AdvanceSkip(d)
  <2>1. CASE Raise(d) /\ UNCHANGED rows
    BY <1>2, <2>1, CallerGoesOn, StillMoves, MovesConduct DEF AdvanceSkip
  <2>2. CASE ~(Raise(d) /\ UNCHANGED rows)
    <3>. DEFINE rest == drv[d].todo \ {First(drv[d].todo)}
                c == IF rest # {} THEN [drv[d] EXCEPT !.todo = rest]
                     ELSE [drv[d] EXCEPT !.todo = {}, !.pc = "apply"]
    <3>1. \A e \in Caller : CallerMoves(e)
      <4>1. drv' = [drv EXCEPT ![d] = NextRound(d)] \/ drv' = [drv EXCEPT ![d] = c]
        BY <1>2, <2>2 DEF AdvanceSkip
      <4>2. drv[d].pc = "skip"
        BY <1>2 DEF AdvanceSkip
      <4>3. c \in CallerType /\ c.pc \in {"skip", "apply"} /\ c.inputs = drv[d].inputs
        <5>1. rest \in SUBSET Plan
          BY <1>0 DEF CallerType
        <5>. HIDE DEF rest
        <5>. QED  BY <1>0, <4>2, <5>1 DEF CallerType, Places
      <4>. HIDE DEF c
      <4>. QED  BY <4>1, <4>3, CallerGoesOn
    <3>. DEFINE q == First(drv[d].todo)
    <3>2. \/ rows' = rows
          \/ MayMove(q, "skipped", d) /\ rows' = [rows EXCEPT ![q] = Moved(rows[q], "skipped", "none")]
      BY <1>2, <2>2 DEF AdvanceSkip
    <3>3. gates' = gates
      BY <1>2 DEF AdvanceSkip
    <3>. HIDE DEF q
    <3>4. ASSUME NEW p \in Plan PROVE RowMoves(p)
      <4>1. CASE rows'[p] = rows[p]
        BY <3>3, <4>1, StillMoves
      <4>2. CASE rows'[p] # rows[p]
        <5>1. p = q /\ MayMove(p, "skipped", d) /\ rows'[p] = Moved(rows[p], "skipped", "none")
          BY <1>0, <3>2, <4>2
        <5>2. /\ rows'[p].status = "skipped" /\ rows'[p].fed = rows[p].fed
              /\ rows'[p].attempt = rows[p].attempt
          BY <1>0, <5>1 DEF Moved, RowType
        <5>3. "skipped" \in Status \ {"ready", "running"}
          BY DEF Status, TerminalStatus
        <5>4. gates[p].attempt <= gates'[p].attempt
          BY <1>0, <3>3
        <5>. QED  BY <5>1, <5>2, <5>3, <5>4, OpenRowMoves, TableMoves
      <4>. QED  BY <4>1, <4>2
    <3>. QED  BY <3>1, <3>4, MovesConduct
  <2>. QED  BY <2>1, <2>2
<1>3. CASE AdvanceApply(d)
  <2>1. \A e \in Caller : CallerMoves(e)
    BY <1>3, CallerGoesOn DEF AdvanceApply
  <2>2. ASSUME NEW p \in Plan PROVE RowMoves(p)
    <3>1. gates' = gates
      BY <1>3 DEF AdvanceApply
    <3>2. CASE rows'[p] = rows[p]
      BY <3>1, <3>2, StillMoves
    <3>3. CASE rows'[p] # rows[p]
      <4>1. /\ p \in DOMAIN drv[d].inputs /\ p \in Pending
            /\ rows'[p] = [rows[p] EXCEPT !.status = "ready", !.fed = drv[d].inputs[p]]
        BY <1>0, <1>3, <3>3 DEF AdvanceApply
      <4>2. rows[p].status = "pending" /\ rows'[p].status = "ready"
            /\ rows'[p].fed = drv[d].inputs[p]
        BY <1>0, <4>1 DEF Pending, RowType
      <4>. QED  BY <1>0, <3>1, <4>1, <4>2 DEF RowMoves, TerminalStatus
    <3>. QED  BY <3>2, <3>3
  <2>. QED  BY <2>1, <2>2, MovesConduct
<1>. DEFINE q == drv[d].p
<1>4. CASE Maintain(d)
  <2>1. \A e \in Caller : CallerMoves(e)
    <3>1. "claim" \in Places \ {"schedule", "mark", "maintain"}
      BY DEF Places
    <3>. QED  BY <1>4, <3>1, CallerGoesOn DEF Maintain
  <2>2. ASSUME NEW p \in Plan PROVE RowMoves(p)
    <3>1. gates' = gates
      BY <1>4 DEF Maintain
    <3>2. CASE rows'[p] = rows[p]
      BY <3>1, <3>2, StillMoves
    <3>3. CASE rows'[p] # rows[p]
      <4>1. /\ p = q /\ rows[p] = drv[d].seen
            /\ \/ rows'[p] = [Moved(rows[p], "retry_wait", "none") EXCEPT !.up = TRUE]
               \/ rows'[p] = Moved(rows[p], "failed", "none")
        BY <1>0, <1>4, <3>3 DEF Maintain
      <4>2. rows[p].status = "running"
        BY <1>4, <4>1 DEF Conduction, Maintain
      <4>3. /\ rows'[p].status \in {"retry_wait", "failed"} /\ rows'[p].fed = rows[p].fed
            /\ rows'[p].attempt = rows[p].attempt
        BY <1>0, <4>1 DEF Moved, RowType
      <4>4. {"retry_wait", "failed"} \subseteq Status \ {"ready", "running"}
        BY DEF Status, OpenStatus, TerminalStatus
      <4>5. gates[p].attempt <= gates'[p].attempt /\ "running" \notin TerminalStatus
        BY <1>0, <3>1 DEF TerminalStatus
      <4>. QED  BY <4>2, <4>3, <4>4, <4>5, OpenRowMoves
    <3>. QED  BY <3>2, <3>3
  <2>. QED  BY <2>1, <2>2, MovesConduct
<1>5. CASE Claim(d)
  <2>1. CASE Raise(d) /\ UNCHANGED rows
    BY <1>5, <2>1, CallerGoesOn, StillMoves, MovesConduct DEF Claim
  <2>2. CASE ~(Raise(d) /\ UNCHANGED rows)
    <3>1. /\ RowClaimable(q) /\ gates' = gates
          /\ rows' = [rows EXCEPT ![q] = [rows[q] EXCEPT !.status = "running", !.attempt = @ + 1,
                                                        !.owner = d, !.up = FALSE]]
          /\ drv' = [drv EXCEPT ![d] = [drv[d] EXCEPT !.pc = "run",
                        !.seen = [Row("running") EXCEPT !.attempt = rows[q].attempt + 1]]]
      BY <1>0, <1>5, <2>2 DEF Claim
    <3>2. \A e \in Caller : CallerMoves(e)
      <4>1. drv'[d].pc = "run" /\ drv'[d].inputs = drv[d].inputs
        BY <1>0, <3>1 DEF CallerType
      <4>2. \A e \in Caller \ {d} : CallerMoves(e)
        BY <1>0, <3>1, StillMoves
      <4>. QED  BY <4>1, <4>2 DEF CallerMoves
    <3>3. ASSUME NEW p \in Plan PROVE RowMoves(p)
      <4>1. CASE p # q
        BY <1>0, <3>1, <4>1, StillMoves
      <4>2. CASE p = q
        <5>1. rows'[p].status = "running" /\ rows'[p].fed = rows[p].fed
          BY <1>0, <3>1, <4>2 DEF RowType
        <5>2. rows[p].status \in {"ready", "running", "retry_wait"}
          BY <3>1, <4>2 DEF RowClaimable
        <5>3. gates[p].attempt <= gates'[p].attempt
          BY <1>0, <3>1
        <5>. QED  BY <5>1, <5>2, <5>3 DEF RowMoves, Due, TerminalStatus
      <4>. QED  BY <4>1, <4>2
    <3>. QED  BY <3>2, <3>3, MovesConduct
  <2>. QED  BY <2>1, <2>2
<1>6. ASSUME NEW to \in {"succeeded", "failed", "timed_out", "retry_wait"}, NEW result,
             Finish(d, to, result)
      PROVE  Conduction'
  <2>1. \A e \in Caller : CallerMoves(e)
    BY <1>6, CallerGoesOn DEF Finish
  <2>2. ASSUME NEW p \in Plan PROVE RowMoves(p)
    <3>1. gates' = gates
      BY <1>6 DEF Finish
    <3>2. CASE rows'[p] = rows[p]
      BY <3>1, <3>2, StillMoves
    <3>3. CASE rows'[p] # rows[p]
      <4>1. p = q /\ MayMove(p, to, d) /\ rows'[p] = Moved(rows[p], to, result)
        BY <1>0, <1>6, <3>3 DEF Finish
      <4>2. /\ rows'[p].status = to /\ rows'[p].fed = rows[p].fed
            /\ rows'[p].attempt = rows[p].attempt
        BY <1>0, <4>1 DEF Moved, RowType
      <4>3. to \in Status \ {"ready", "running"}
        BY DEF Status, OpenStatus, TerminalStatus
      <4>4. gates[p].attempt <= gates'[p].attempt
        BY <1>0, <3>1
      <4>. QED  BY <4>1, <4>2, <4>3, <4>4, OpenRowMoves, TableMoves
    <3>. QED  BY <3>2, <3>3
  <2>. QED  BY <2>1, <2>2, MovesConduct
<1>7. CASE Succeed(d)
  BY <1>6, <1>7 DEF Succeed
<1>8. CASE Fail(d)
  <2>1. PICK to \in {"retry_wait", "failed", "timed_out"} : Finish(d, to, "none")
    BY <1>8 DEF Fail
  <2>. QED  BY <1>6, <2>1
<1>9. CASE Park(d)
  <2>1. \A e \in Caller : CallerMoves(e)
    BY <1>9, CallerGoesOn DEF Park
  <2>2. ASSUME NEW p \in Plan PROVE RowMoves(p)
    <3>1. CASE rows'[p] = rows[p] /\ gates'[p] = gates[p]
      BY <3>1, StillMoves
    <3>2. CASE ~(rows'[p] = rows[p] /\ gates'[p] = gates[p])
      <4>1. /\ p = q /\ Owns(d) /\ gates[p] = NoGate
            /\ rows'[p] = Moved(rows[p], "waiting", "none")
            /\ gates'[p] = [status |-> "open", attempt |-> rows[p].attempt]
        BY <1>0, <1>9, <3>2 DEF Park
      <4>2. /\ rows'[p].status = "waiting" /\ rows'[p].fed = rows[p].fed
            /\ rows'[p].attempt = rows[p].attempt
        BY <1>0, <4>1 DEF Moved, RowType
      <4>3. "waiting" \in Status \ {"ready", "running"}
        BY DEF Status, OpenStatus
      <4>4. rows[p].status = "running" /\ "running" \notin TerminalStatus
        BY <4>1 DEF Owns, TerminalStatus
      <4>5. gates[p].attempt <= gates'[p].attempt
        BY <1>0, <4>1 DEF NoGate
      <4>. QED  BY <4>2, <4>3, <4>4, <4>5, OpenRowMoves
    <3>. QED  BY <3>1, <3>2
  <2>. QED  BY <2>1, <2>2, MovesConduct
<1>. QED  BY <1>1, <1>2, <1>3, <1>4, <1>5, <1>7, <1>8, <1>9

\* Operators and time conduct: an outcome is replaced only by a rearm that counts.
LEMMA OperatorsConduct ==
    ASSUME PathTypeOK, PathTypeOK', Conduction, NEW p \in Plan,
           \/ \E d \in Caller, end \in DOMAIN RowEnd, advance \in BOOLEAN :
                 Close(d, p, end, advance)
           \/ Rearm(p) \/ TimeUp(p)
    PROVE  Conduction'
<1>0. /\ drv \in [Caller -> CallerType] /\ rows \in [Plan -> RowType]
      /\ gates \in [Plan -> GateType]
      /\ \A u \in Plan : gates[u].attempt \in Nat /\ rows[u].attempt \in Nat
      /\ DOMAIN NoInput = {}
  BY DEF PathTypeOK, RowType, GateType, NoInput
<1>1. \A u \in Plan \ {p} : RowMoves(u)
  <2>1. \A u \in Plan \ {p} : rows'[u] = rows[u] /\ gates'[u] = gates[u]
    BY <1>0 DEF Close, Rearm, TimeUp
  <2>. QED  BY <2>1, StillMoves
<1>2. ASSUME NEW d \in Caller, NEW end \in DOMAIN RowEnd, NEW advance \in BOOLEAN,
             Close(d, p, end, advance)
      PROVE  Conduction'
  <2>1. PICK result : rows' = [rows EXCEPT ![p] = Moved(rows[p], RowEnd[end], result)]
    BY <1>2 DEF Close
  <2>2. /\ rows'[p].status = RowEnd[end] /\ rows'[p].fed = rows[p].fed
        /\ rows'[p].attempt = rows[p].attempt
    BY <1>0, <2>1 DEF Moved, RowType
  <2>3. /\ RowEnd[end] \in Status \ {"ready", "running", "retry_wait"}
        /\ rows[p].status = "waiting" /\ "waiting" \notin TerminalStatus
    BY <1>2 DEF RowEnd, Status, OpenStatus, TerminalStatus, Close
  <2>4. gates[p].attempt <= gates'[p].attempt
    <3>1. gates'[p].attempt = gates[p].attempt
      BY <1>0, <1>2 DEF Close, GateType
    <3>. QED  BY <1>0, <3>1
  <2>5. RowMoves(p)
    BY <2>2, <2>3, <2>4, OpenRowMoves
  <2>6. ASSUME NEW e \in Caller PROVE CallerMoves(e)
    <3>1. CASE drv'[e] = drv[e]
      BY <3>1, StillMoves
    <3>2. CASE drv'[e] # drv[e]
      <4>1. drv'[e] = [Idle EXCEPT !.pc = "advance", !.round = 1]
        BY <1>0, <1>2, <3>2 DEF Close
      <4>2. drv'[e].pc = "advance" /\ drv'[e].inputs = NoInput
        BY <4>1 DEF Idle
      <4>. QED  BY <1>0, <4>2 DEF CallerMoves
    <3>. QED  BY <3>1, <3>2
  <2>. QED  BY <1>1, <2>5, <2>6, MovesConduct
<1>3. ASSUME Rearm(p) PROVE Conduction'
  <2>1. RowMoves(p)
    <3>1. rows'[p] = Moved(rows[p], "waiting", "none")
      BY <1>0, <1>3 DEF Rearm, Reopened
    <3>2. rows'[p].status = "waiting" /\ rows'[p].fed = rows[p].fed
          /\ rows'[p].attempt = rows[p].attempt
      BY <1>0, <3>1 DEF Moved, RowType
    <3>3. gates'[p].attempt = gates[p].attempt + 1
      BY <1>0, <1>3 DEF Rearm, GateType
    <3>. QED  BY <1>0, <3>2, <3>3 DEF RowMoves, Due
  <2>2. \A e \in Caller : CallerMoves(e)
    BY <1>3, StillMoves DEF Rearm
  <2>. QED  BY <1>1, <2>1, <2>2, MovesConduct
<1>4. ASSUME TimeUp(p) PROVE Conduction'
  <2>1. RowMoves(p)
    <3>1. /\ rows'[p].status = rows[p].status /\ rows'[p].fed = rows[p].fed
          /\ rows'[p].attempt = rows[p].attempt /\ rows'[p].result = rows[p].result
          /\ gates' = gates
      BY <1>0, <1>4 DEF TimeUp, RowType
    <3>. QED  BY <3>1 DEF RowMoves, Due, Payload, Conduction
  <2>2. \A e \in Caller : CallerMoves(e)
    BY <1>4, StillMoves DEF TimeUp
  <2>. QED  BY <1>1, <2>1, <2>2, MovesConduct
<1>. QED  BY <1>2, <1>3, <1>4

\* The first processes of a persisted plan depend on nothing; the others are not due.
LEMMA ConductionInit == Persisted /\ PathInit => Conduction
<1>. SUFFICES ASSUME Persisted, PathInit PROVE Conduction
  OBVIOUS
<1>1. ASSUME NEW p \in Plan
      PROVE  /\ rows[p].status # "absent"
             /\ Due(p) => Fed(rows[p].fed, p, Outcomes)
  <2>1. /\ rows[p].status = IF Upstream[p] = {} THEN "ready" ELSE "pending"
        /\ rows[p].attempt = 0 /\ rows[p].fed = NoInput
    BY DEF PathInit, Row
  <2>2. DOMAIN NoInput = {}
    BY DEF NoInput
  <2>. QED  BY <2>1, <2>2 DEF Due, Fed
<1>2. ASSUME NEW d \in Caller
      PROVE  drv[d].pc = "idle" /\ DOMAIN drv[d].inputs = {}
  BY DEF PathInit, Idle, NoInput
<1>. QED  BY <1>1, <1>2 DEF Conduction

\* Every step keeps the invariant.
LEMMA ConductionKept ==
    PathTypeOK /\ PathTypeOK' /\ Conduction /\ [PathNext]_pathVars => Conduction'
<1>. SUFFICES ASSUME PathTypeOK, PathTypeOK', Conduction, [PathNext]_pathVars
             PROVE  Conduction'
  OBVIOUS
<1>1. ASSUME NEW d \in Caller, PathStep(d) PROVE Conduction'
  <2>1. ~Schedule(d) /\ ~MarkPending(d)
    BY DEF Conduction, Schedule, MarkPending
  <2>. QED  BY <1>1, <2>1, ReadsConduct, WritesConduct DEF PathStep
<1>2. ASSUME NEW d \in Caller, Operate(d) PROVE Conduction'
  BY <1>2, OperatorsConduct, ReadsConduct DEF Operate
<1>3. ASSUME NEW d \in Caller, Crash(d) PROVE Conduction'
  BY <1>3, ReadsConduct
<1>4. ASSUME NEW p \in Plan, Rearm(p) \/ TimeUp(p) PROVE Conduction'
  BY <1>4, OperatorsConduct
<1>5. CASE UNCHANGED pathVars
  BY <1>5, StillMoves, MovesConduct DEF pathVars
<1>. QED  BY <1>1, <1>2, <1>3, <1>4, <1>5 DEF PathNext

\* Once the plan is persisted, every process that runs was fed the outcome of
\* everything upstream, whatever callers read before others wrote, and whoever died.
THEOREM ConductedCorrect == Persisted /\ PathSpec => []ConductedInOrder
<1>1. PathTypeOK /\ Conduction => ConductedInOrder
  <2>. SUFFICES ASSUME PathTypeOK, Conduction, NEW p \in Plan, Started(p)
               PROVE  /\ DOMAIN rows[p].fed = Upstream[p]
                      /\ \A u \in Upstream[p] :
                            /\ rows[p].fed[u].status \in TerminalStatus
                            /\ rows[p].fed[u].gen = gates[u].attempt
                                  => rows[p].fed[u] = Payload(u)
    BY DEF ConductedInOrder
  <2>1. Fed(rows[p].fed, p, Outcomes) /\ Upstream[p] \subseteq Plan
    BY PathAssumption DEF Conduction, Due, Started
  <2>2. \A u \in Upstream[p] : Outcomes[u] = Payload(u) /\ Payload(u).gen = gates[u].attempt
    BY <2>1 DEF Outcomes, Payload
  <2>. QED  BY <2>1, <2>2 DEF Fed
<1>. QED  BY <1>1, ConductionInit, ConductionKept, PathTypeCorrect, PTL DEF PathSpec

-----------------------------------------------------------------------------
(* What every step does to a row with its homeostat, and to a caller: the   *)
(* invariants after this are proved from these alone.                       *)

\* Nothing but, it may be, that its time is up.
Rests(p) ==
    /\ rows'[p].status = rows[p].status /\ rows'[p].attempt = rows[p].attempt
    /\ rows'[p].owner = rows[p].owner /\ rows'[p].result = rows[p].result
    /\ gates'[p] = gates[p]

\* A caller moves it in an advance, or an attempt that is going on ends.
MovedBy(d, p) ==
    /\ gates'[p] = gates[p] /\ rows'[p].attempt = rows[p].attempt
    /\ \/ /\ drv[d].pc = "mark"
          /\ rows[p].status = "ready" /\ rows'[p].status = "pending"
       \/ /\ drv[d].pc \in {"promote", "apply"} /\ p \in DOMAIN drv[d].inputs
          /\ rows[p].status = "pending" /\ rows'[p].status = "ready"
       \/ /\ drv[d].pc = "skip" /\ p = First(drv[d].todo)
          /\ MayMove(p, "skipped", d) /\ rows'[p].status = "skipped"
       \/ /\ drv[d].pc = "maintain" /\ rows[p] = drv[d].seen
          /\ rows'[p].status \in {"retry_wait", "failed"}
       \/ /\ drv[d].pc = "run" /\ p = drv[d].p /\ MayMove(p, rows'[p].status, d)
          /\ \/ rows'[p].status = "succeeded" /\ p \notin Manual
             \/ rows'[p].status = "retry_wait"
             \/ /\ rows'[p].status \in {"failed", "timed_out"}
                /\ drv[d].seen.attempt >= MaxAttempts

InsertedBy(d, p) ==
    /\ drv[d].pc = "schedule" /\ gates'[p] = gates[p]
    /\ rows[p].status = "absent" /\ rows'[p] = Row("ready")

ClaimedBy(d, p) ==
    /\ gates'[p] = gates[p]
    /\ rows[p].status \in {"ready", "running", "retry_wait"}
    /\ rows'[p].status = "running" /\ rows'[p].attempt = rows[p].attempt + 1

ParkedBy(d, p) ==
    /\ drv[d].pc = "run" /\ drv'[d].pc # "run" /\ p = drv[d].p /\ p \in Manual
    /\ Owns(d) /\ gates[p] = NoGate
    /\ gates'[p] = [status |-> "open", attempt |-> rows[p].attempt]
    /\ rows'[p].status = "waiting" /\ rows'[p].attempt = rows[p].attempt

Closed(p) ==
    /\ gates[p].status = "open" /\ rows[p].status = "waiting"
    /\ gates'[p].status \in DOMAIN RowEnd /\ gates'[p].attempt = gates[p].attempt
    /\ rows'[p].status = RowEnd[gates'[p].status] /\ rows'[p].attempt = rows[p].attempt

Rearmed(p) ==
    /\ gates[p].status \in DOMAIN RowEnd /\ gates[p].attempt < MaxAttempts
    /\ rows[p].status \in {"succeeded", "cancelled", "timed_out"}
    /\ gates'[p].status = "open" /\ gates'[p].attempt = gates[p].attempt + 1
    /\ rows'[p].status = "waiting" /\ rows'[p].attempt = rows[p].attempt

RowStep(p) ==
    \/ Rests(p) \/ Closed(p) \/ Rearmed(p)
    \/ \E d \in Caller : MovedBy(d, p) \/ InsertedBy(d, p) \/ ClaimedBy(d, p) \/ ParkedBy(d, p)

\* Where a caller goes with what it remembers.
CallerStep(d) ==
    \/ drv'[d] = drv[d]
    \/ /\ drv'[d].pc = "maintain" => drv'[d].seen.status = "running"
       /\ drv'[d].pc = "decide" => /\ drv'[d].target = "completed" => AllDone
                                   /\ drv'[d].target = "failed" => AnyFailed
       /\ drv'[d].pc = "run" =>
             /\ rows[drv'[d].p].status \in {"ready", "running", "retry_wait"}
             /\ gates'[drv'[d].p] = gates[drv'[d].p]
             /\ rows'[drv'[d].p].status = "running"
             /\ rows'[drv'[d].p].attempt = drv'[d].seen.attempt
             /\ rows'[drv'[d].p].owner = d
       /\ drv'[d].pc = "promote" => DOMAIN drv'[d].inputs \cap DOMAIN When = {}
       /\ drv'[d].pc = "skip" =>
             /\ drv'[d].todo # {}
             /\ \A p \in drv'[d].todo :
                   \/ drv[d].pc = "skip" /\ p \in drv[d].todo
                   \/ UNCHANGED <<rows, gates>> /\ p \in Readied /\ ~Matches(p)
       /\ drv'[d].pc \in {"skip", "apply"} =>
             \A p \in DOMAIN drv'[d].inputs :
                \/ drv[d].pc \in {"skip", "apply"} /\ p \in DOMAIN drv[d].inputs
                \/ UNCHANGED <<rows, gates>> /\ p \in Readied /\ Matches(p)

\* The run changes when it is created, and from what a caller derived.
RunMoves ==
    \/ run' = run \/ run' = "created"
    \/ \E d \in Caller : drv[d].pc = "decide" /\ run' = drv[d].target

Moves ==
    /\ \A p \in Plan : RowStep(p)
    /\ \A d \in Caller : CallerStep(d)
    /\ RunMoves

\* The rows that an action does not touch rest, and so do the other callers.
LEMMA RestsOrNot ==
    /\ \A p \in Plan : rows'[p] = rows[p] /\ gates'[p] = gates[p] => RowStep(p)
    /\ \A d \in Caller : drv'[d] = drv[d] => CallerStep(d)
    /\ run' = run => RunMoves
BY DEF RowStep, Rests, CallerStep, RunMoves

\* A caller that goes where it remembers nothing of the rows.
LEMMA CallerLeaves ==
    ASSUME PathTypeOK, NEW d \in Caller
    PROVE  /\ \A c \in CallerType :
                 /\ drv' = [drv EXCEPT ![d] = c]
                 /\ c.pc \notin {"maintain", "decide", "run", "promote", "skip", "apply"}
                 => drv'[d].pc # "run" /\ \A e \in Caller : CallerStep(e)
           /\ Raise(d) => drv'[d].pc # "run" /\ \A e \in Caller : CallerStep(e)
           /\ \A pc \in {"claim", "advance"} :
                 Goto(d, pc) => drv'[d].pc # "run" /\ \A e \in Caller : CallerStep(e)
           /\ \A c \in {Ticked(d), NextRound(d), NextPass(d), AfterAdvance(d)} :
                 drv' = [drv EXCEPT ![d] = c]
                 => drv'[d].pc # "run" /\ \A e \in Caller : CallerStep(e)
<1>0. drv \in [Caller -> CallerType] /\ drv[d] \in CallerType
      /\ Idle \in CallerType /\ Idle.pc = "idle"
  BY BlankTypes DEF PathTypeOK, Idle
<1>1. ASSUME NEW c \in CallerType, drv' = [drv EXCEPT ![d] = c],
             c.pc \notin {"maintain", "decide", "run", "promote", "skip", "apply"}
      PROVE  drv'[d].pc # "run" /\ \A e \in Caller : CallerStep(e)
  <2>1. drv'[d] = c /\ \A e \in Caller \ {d} : drv'[e] = drv[e]
    BY <1>0, <1>1
  <2>2. CallerStep(d)
    BY <1>1, <2>1 DEF CallerStep
  <2>. QED  BY <1>1, <2>1, <2>2, RestsOrNot
<1>2. Raise(d) => drv'[d].pc # "run" /\ \A e \in Caller : CallerStep(e)
  BY <1>0, <1>1 DEF Raise
<1>3. ASSUME NEW pc \in {"claim", "advance"}, Goto(d, pc)
      PROVE  drv'[d].pc # "run" /\ \A e \in Caller : CallerStep(e)
  <2>1. [drv[d] EXCEPT !.pc = pc] \in CallerType /\ [drv[d] EXCEPT !.pc = pc].pc = pc
    BY <1>0 DEF CallerType, Places
  <2>2. drv' = [drv EXCEPT ![d] = [drv[d] EXCEPT !.pc = pc]]
    BY <1>0, <1>3 DEF Goto
  <2>. QED  BY <1>1, <2>1, <2>2
<1>4. ASSUME NEW c \in {Ticked(d), NextRound(d), NextPass(d), AfterAdvance(d)},
             drv' = [drv EXCEPT ![d] = c]
      PROVE  drv'[d].pc # "run" /\ \A e \in Caller : CallerStep(e)
  <2>1. c \in CallerType
    BY CallerUpdates
  <2>2. /\ Ticked(d).pc = "advance" /\ NextRound(d).pc \in {"idle", "advance"}
        /\ NextPass(d).pc \in {"idle", "finalize"}
    BY <1>0 DEF Ticked, NextRound, NextPass, CallerType
  <2>3. AfterAdvance(d).pc \in {"idle", "select", "stop"}
    <3>1. drv[d].then \in {"drive", "final", "close"}
      BY <1>0 DEF CallerType
    <3>. QED  BY <1>0, <3>1 DEF AfterAdvance, CallerType
  <2>. QED  BY <1>1, <1>4, <2>1, <2>2, <2>3
<1>. QED  BY <1>1, <1>2, <1>3, <1>4

\* Reading the tables, binding and finalizing.
LEMMA ReadsMove ==
    ASSUME PathTypeOK, NEW d \in Caller,
           \/ Enter(d) \/ Refresh(d) \/ Bind(d) \/ AdvanceRead(d) \/ Select(d)
           \/ Stop(d) \/ FinalizeRun(d) \/ FinalizeRows(d) \/ FinalizeWrite(d) \/ Crash(d)
           \/ \E p \in Plan : Repeat(d, p)
    PROVE  Moves
<1>0. /\ drv \in [Caller -> CallerType] /\ drv[d] \in CallerType
      /\ Idle \in CallerType /\ Idle.pc = "idle"
  BY BlankTypes DEF PathTypeOK, Idle
<1>1. rows' = rows /\ gates' = gates
  BY DEF Enter, Refresh, Bind, AdvanceRead, Select, Stop, FinalizeRun, FinalizeRows,
         FinalizeWrite, Crash, Repeat, tables
<1>2. \A p \in Plan : RowStep(p)
  BY <1>1, RestsOrNot
<1>3. \A e \in Caller \ {d} : CallerStep(e)
  <2>1. \A e \in Caller \ {d} : drv'[e] = drv[e]
    BY <1>0 DEF Enter, Refresh, Bind, AdvanceRead, Select, Stop, FinalizeRun, FinalizeRows,
                FinalizeWrite, Crash, Repeat, Raise, Goto
  <2>. QED  BY <2>1, RestsOrNot
<1>4. RunMoves
  BY DEF Enter, Refresh, Bind, AdvanceRead, Select, Stop, FinalizeRun, FinalizeRows,
         FinalizeWrite, Crash, Repeat, tables, RunMoves
<1>5. ASSUME drv'[d].pc \notin {"maintain", "decide", "run", "promote", "skip", "apply"}
      PROVE  CallerStep(d)
  BY <1>5 DEF CallerStep
<1>6. CallerStep(d)
  <2>1. CASE Enter(d)
    <3>1. drv'[d].pc \in {"refresh", "schedule"}
      BY <1>0, <2>1 DEF Enter, CallerType
    <3>. QED  BY <1>5, <3>1
  <2>2. CASE Refresh(d)
    <3>1. CASE Raise(d)
      BY <3>1, CallerLeaves
    <3>2. CASE ~Raise(d)
      <4>. DEFINE pc == IF Settled = {} THEN AfterRefresh ELSE "promote"
                  inputs == [p \in Settled |-> InputOf(p)]
      <4>1. drv' = [drv EXCEPT ![d].pc = pc, ![d].inputs = inputs, ![d].round = 1,
                               ![d].then = "drive"]
        BY <2>2, <3>2 DEF Refresh
      <4>2. pc \in {"advance", "bind", "promote"} /\ DOMAIN inputs = Settled
        BY DEF AfterRefresh
      <4>3. Settled \cap DOMAIN When = {}
        BY <2>2, <3>2 DEF Refresh, RefreshRaises
      <4>. HIDE DEF pc, inputs
      <4>4. drv'[d].pc = pc /\ drv'[d].inputs = inputs
        BY <1>0, <4>1 DEF CallerType
      <4>. QED  BY <4>2, <4>3, <4>4 DEF CallerStep
    <3>. QED  BY <3>1, <3>2
  <2>3. CASE Bind(d)
    BY <2>3, CallerLeaves DEF Bind
  <2>4. CASE AdvanceRead(d)
    <3>1. CASE Readied = {}
      BY <2>4, <3>1, CallerLeaves DEF AdvanceRead
    <3>2. CASE Readied # {}
      <4>1. PICK skips : skips = {p \in Readied : ~Matches(p)}
        OBVIOUS
      <4>2. PICK inputs : inputs = [p \in Readied \ skips |-> InputOf(p)]
        OBVIOUS
      <4>3. drv' = [drv EXCEPT ![d] = [drv[d] EXCEPT !.pc = IF skips = {} THEN "apply" ELSE "skip",
                                                     !.todo = skips, !.inputs = inputs]]
        BY <2>4, <3>2, <4>1, <4>2 DEF AdvanceRead
      <4>4. /\ drv'[d].pc = IF skips = {} THEN "apply" ELSE "skip"
            /\ drv'[d].todo = skips /\ drv'[d].inputs = inputs
        BY <1>0, <4>3 DEF CallerType
      <4>5. DOMAIN inputs = Readied \ skips
        BY <4>2
      <4>6. \A p \in skips : p \in Readied /\ ~Matches(p)
        BY <4>1
      <4>7. \A p \in Readied \ skips : p \in Readied /\ Matches(p)
        BY <4>1
      <4>. QED  BY <1>1, <4>4, <4>5, <4>6, <4>7 DEF CallerStep
    <3>. QED  BY <3>1, <3>2
  <2>5. CASE Select(d)
    <3>1. CASE drv' = [drv EXCEPT ![d].pc = "advance", ![d].round = 1, ![d].then = "final"]
      <4>1. drv'[d].pc = "advance"
        BY <1>0, <3>1 DEF CallerType
      <4>. QED  BY <1>5, <4>1
    <3>2. CASE \E p \in Plan :
                 drv' = [drv EXCEPT ![d].p = p, ![d].seen = rows[p],
                           ![d].pc = IF rows[p].status = "running" THEN "maintain" ELSE "claim"]
      <4>1. PICK p \in Plan :
                 drv' = [drv EXCEPT ![d].p = p, ![d].seen = rows[p],
                           ![d].pc = IF rows[p].status = "running" THEN "maintain" ELSE "claim"]
        BY <3>2
      <4>2. /\ drv'[d].seen = rows[p]
            /\ drv'[d].pc = IF rows[p].status = "running" THEN "maintain" ELSE "claim"
        BY <1>0, <4>1 DEF CallerType
      <4>. QED  BY <4>2 DEF CallerStep
    <3>. QED  BY <2>5, <3>1, <3>2 DEF Select
  <2>6. CASE Stop(d)
    <3>1. drv'[d].pc = "finalize"
      BY <1>0, <2>6 DEF Stop, CallerType
    <3>. QED  BY <1>5, <3>1
  <2>7. CASE FinalizeRun(d)
    <3>1. CASE run \in RunTerminal
      BY <2>7, <3>1, CallerLeaves DEF FinalizeRun
    <3>2. CASE run \notin RunTerminal
      <4>1. drv'[d].pc = "rows"
        BY <1>0, <2>7, <3>2 DEF FinalizeRun, CallerType
      <4>. QED  BY <1>5, <4>1
    <3>. QED  BY <3>1, <3>2
  <2>8. CASE FinalizeRows(d)
    <3>1. CASE TargetOf(d) = drv[d].from
      BY <2>8, <3>1, CallerLeaves DEF FinalizeRows
    <3>2. CASE TargetOf(d) # drv[d].from
      <4>1. drv'[d].pc = "decide" /\ drv'[d].target = TargetOf(d)
        BY <1>0, <2>8, <3>2 DEF FinalizeRows, CallerType
      <4>2. /\ TargetOf(d) = "completed" => AllDone
            /\ TargetOf(d) = "failed" => AnyFailed
        BY DEF TargetOf
      <4>. QED  BY <4>1, <4>2 DEF CallerStep
    <3>. QED  BY <3>1, <3>2
  <2>9. CASE FinalizeWrite(d)
    BY <2>9, CallerLeaves DEF FinalizeWrite
  <2>10. CASE Crash(d)
    BY <2>10, CallerLeaves DEF Crash
  <2>11. CASE \E p \in Plan : Repeat(d, p)
    <3>1. drv'[d].pc = "advance"
      BY <1>0, <2>11 DEF Repeat, CallerType
    <3>. QED  BY <1>5, <3>1
  <2>. QED  BY <2>1, <2>2, <2>3, <2>4, <2>5, <2>6, <2>7, <2>8, <2>9, <2>10, <2>11
<1>. QED  BY <1>2, <1>3, <1>4, <1>6 DEF Moves

\* Scheduling, marking and readying.
LEMMA PersistMoves ==
    ASSUME PathTypeOK, NEW d \in Caller, Schedule(d) \/ MarkPending(d) \/ Promote(d)
    PROVE  Moves
<1>0. /\ drv \in [Caller -> CallerType] /\ drv[d] \in CallerType
      /\ rows \in [Plan -> RowType]
  BY DEF PathTypeOK
<1>1. gates' = gates /\ run' = run
  BY DEF Schedule, MarkPending, Promote
<1>2. ASSUME NEW p \in Plan PROVE RowStep(p)
  <2>1. CASE rows'[p] = rows[p]
    BY <1>1, <2>1, RestsOrNot
  <2>2. CASE rows'[p] # rows[p] /\ Schedule(d)
    <3>1. /\ rows[p].status = "absent" /\ rows'[p] = Row("ready") /\ drv[d].pc = "schedule"
      BY <1>0, <2>2 DEF Schedule
    <3>. QED  BY <1>1, <3>1 DEF RowStep, InsertedBy
  <2>3. CASE rows'[p] # rows[p] /\ MarkPending(d)
    <3>1. /\ rows[p].status = "ready" /\ rows'[p] = [rows[p] EXCEPT !.status = "pending"]
          /\ drv[d].pc = "mark"
      BY <1>0, <2>3 DEF MarkPending
    <3>2. rows'[p].status = "pending" /\ rows'[p].attempt = rows[p].attempt
      BY <1>0, <3>1 DEF RowType
    <3>. QED  BY <1>1, <3>1, <3>2 DEF RowStep, MovedBy
  <2>4. CASE rows'[p] # rows[p] /\ Promote(d)
    <3>1. /\ rows[p].status = "pending" /\ p \in DOMAIN drv[d].inputs /\ drv[d].pc = "promote"
          /\ rows'[p] = [rows[p] EXCEPT !.status = "ready", !.fed = drv[d].inputs[p]]
      BY <1>0, <2>4 DEF Promote
    <3>2. rows'[p].status = "ready" /\ rows'[p].attempt = rows[p].attempt
      BY <1>0, <3>1 DEF RowType
    <3>. QED  BY <1>1, <3>1, <3>2 DEF RowStep, MovedBy
  <2>. QED  BY <2>1, <2>2, <2>3, <2>4
<1>3. drv'[d].pc \in {"mark", "schedule", "refresh", "advance", "bind"}
  <2>1. CASE Schedule(d)
    <3>1. PICK rest : rest = drv[d].todo \ {First(drv[d].todo)}
      OBVIOUS
    <3>2. drv' = [drv EXCEPT ![d].todo = rest,
                             ![d].pc = IF rest = {} THEN "mark" ELSE "schedule"]
      BY <2>1, <3>1 DEF Schedule
    <3>. QED  BY <1>0, <3>2 DEF CallerType
  <2>2. CASE MarkPending(d)
    BY <1>0, <2>2 DEF MarkPending, CallerType
  <2>3. CASE Promote(d)
    BY <1>0, <2>3 DEF Promote, AfterRefresh, CallerType
  <2>. QED  BY <2>1, <2>2, <2>3
<1>4. \A e \in Caller \ {d} : drv'[e] = drv[e]
  BY <1>0 DEF Schedule, MarkPending, Promote
<1>5. CallerStep(d)
  BY <1>3 DEF CallerStep
<1>. QED  BY <1>1, <1>2, <1>4, <1>5, RestsOrNot DEF Moves

\* What a round of an advance writes.
LEMMA AdvanceMoves ==
    ASSUME PathTypeOK, NEW d \in Caller, AdvanceSkip(d) \/ AdvanceApply(d)
    PROVE  Moves
<1>0. /\ drv \in [Caller -> CallerType] /\ drv[d] \in CallerType
      /\ rows \in [Plan -> RowType]
  BY DEF PathTypeOK
<1>1. gates' = gates /\ run' = run
  BY DEF AdvanceSkip, AdvanceApply
<1>2. ASSUME NEW p \in Plan PROVE RowStep(p)
  <2>1. CASE rows'[p] = rows[p]
    BY <1>1, <2>1, RestsOrNot
  <2>2. CASE rows'[p] # rows[p] /\ AdvanceSkip(d)
    <3>. DEFINE q == First(drv[d].todo)
    <3>1. MayMove(q, "skipped", d) /\ rows' = [rows EXCEPT ![q] = Moved(rows[q], "skipped", "none")]
      BY <2>2 DEF AdvanceSkip
    <3>. HIDE DEF q
    <3>2. p = q /\ rows'[p] = Moved(rows[p], "skipped", "none")
      BY <1>0, <2>2, <3>1
    <3>3. rows'[p].status = "skipped" /\ rows'[p].attempt = rows[p].attempt
      BY <1>0, <3>2 DEF Moved, RowType
    <3>4. drv[d].pc = "skip"
      BY <2>2 DEF AdvanceSkip
    <3>. QED  BY <1>1, <3>1, <3>2, <3>3, <3>4 DEF RowStep, MovedBy, q
  <2>3. CASE rows'[p] # rows[p] /\ AdvanceApply(d)
    <3>1. /\ p \in DOMAIN drv[d].inputs /\ p \in Pending /\ drv[d].pc = "apply"
          /\ rows'[p] = [rows[p] EXCEPT !.status = "ready", !.fed = drv[d].inputs[p]]
      BY <1>0, <2>3 DEF AdvanceApply
    <3>2. /\ rows[p].status = "pending" /\ rows'[p].status = "ready"
          /\ rows'[p].attempt = rows[p].attempt
      BY <1>0, <3>1 DEF Pending, RowType
    <3>. QED  BY <1>1, <3>1, <3>2 DEF RowStep, MovedBy
  <2>. QED  BY <2>1, <2>2, <2>3
<1>3. ASSUME NEW e \in Caller PROVE CallerStep(e)
  <2>1. CASE AdvanceSkip(d)
    <3>1. PICK rest : rest = drv[d].todo \ {First(drv[d].todo)}
      OBVIOUS
    <3>2. CASE rest # {} /\ drv' = [drv EXCEPT ![d] = [drv[d] EXCEPT !.todo = rest]]
      <4>1. drv'[d].pc = "skip" /\ drv'[d].todo = rest /\ drv'[d].inputs = drv[d].inputs
        BY <1>0, <2>1, <3>2 DEF CallerType, AdvanceSkip
      <4>2. drv[d].pc = "skip" /\ rest \subseteq drv[d].todo
        BY <2>1, <3>1 DEF AdvanceSkip
      <4>3. CallerStep(d)
        BY <3>2, <4>1, <4>2 DEF CallerStep
      <4>4. e # d => drv'[e] = drv[e]
        BY <1>0, <3>2
      <4>. QED  BY <4>3, <4>4, RestsOrNot
    <3>3. CASE drv' = [drv EXCEPT ![d] = [drv[d] EXCEPT !.todo = {}, !.pc = "apply"]]
      <4>1. drv'[d].pc = "apply" /\ drv'[d].inputs = drv[d].inputs
        BY <1>0, <3>3 DEF CallerType
      <4>2. drv[d].pc = "skip"
        BY <2>1 DEF AdvanceSkip
      <4>3. CallerStep(d)
        BY <4>1, <4>2 DEF CallerStep
      <4>4. e # d => drv'[e] = drv[e]
        BY <1>0, <3>3
      <4>. QED  BY <4>3, <4>4, RestsOrNot
    <3>4. CASE Raise(d) \/ drv' = [drv EXCEPT ![d] = NextRound(d)]
      BY <3>4, CallerLeaves
    <3>. QED  BY <2>1, <3>1, <3>2, <3>3, <3>4 DEF AdvanceSkip
  <2>2. CASE AdvanceApply(d)
    BY <2>2, CallerLeaves DEF AdvanceApply
  <2>. QED  BY <2>1, <2>2
<1>. QED  BY <1>1, <1>2, <1>3, RestsOrNot DEF Moves

\* A tick.
LEMMA TickMoves ==
    ASSUME PathTypeOK, NEW d \in Caller,
           Maintain(d) \/ Claim(d) \/ Succeed(d) \/ Fail(d) \/ Park(d)
    PROVE  Moves
<1>0. /\ drv \in [Caller -> CallerType] /\ drv[d] \in CallerType /\ drv[d].p \in Plan
      /\ rows \in [Plan -> RowType] /\ gates \in [Plan -> GateType]
  BY DEF PathTypeOK, CallerType
<1>. DEFINE q == drv[d].p
<1>1. CASE Maintain(d)
  <2>1. \A e \in Caller : CallerStep(e)
    BY <1>1, CallerLeaves DEF Maintain
  <2>2. gates' = gates /\ run' = run
    BY <1>1 DEF Maintain
  <2>3. ASSUME NEW p \in Plan PROVE RowStep(p)
    <3>1. CASE rows'[p] = rows[p]
      BY <2>2, <3>1, RestsOrNot
    <3>2. CASE rows'[p] # rows[p]
      <4>1. /\ p = q /\ rows[p] = drv[d].seen /\ drv[d].pc = "maintain"
            /\ \/ rows'[p] = [Moved(rows[p], "retry_wait", "none") EXCEPT !.up = TRUE]
               \/ rows'[p] = Moved(rows[p], "failed", "none")
        BY <1>0, <1>1, <3>2 DEF Maintain
      <4>2. rows'[p].status \in {"retry_wait", "failed"} /\ rows'[p].attempt = rows[p].attempt
        BY <1>0, <4>1 DEF Moved, RowType
      <4>. QED  BY <2>2, <4>1, <4>2 DEF RowStep, MovedBy
    <3>. QED  BY <3>1, <3>2
  <2>. QED  BY <2>1, <2>2, <2>3, RestsOrNot DEF Moves
<1>2. CASE Claim(d)
  <2>1. gates' = gates /\ run' = run
    BY <1>2 DEF Claim
  <2>2. CASE Raise(d) /\ UNCHANGED rows
    BY <2>1, <2>2, CallerLeaves, RestsOrNot DEF Moves
  <2>3. CASE ~(Raise(d) /\ UNCHANGED rows)
    <3>1. /\ RowClaimable(q)
          /\ rows' = [rows EXCEPT ![q] = [rows[q] EXCEPT !.status = "running", !.attempt = @ + 1,
                                                        !.owner = d, !.up = FALSE]]
          /\ drv' = [drv EXCEPT ![d] = [drv[d] EXCEPT !.pc = "run",
                        !.seen = [Row("running") EXCEPT !.attempt = rows[q].attempt + 1]]]
      BY <1>0, <1>2, <2>3 DEF Claim
    <3>2. rows[q].status \in {"ready", "running", "retry_wait"}
      BY <3>1 DEF RowClaimable
    <3>3. /\ rows'[q].status = "running" /\ rows'[q].attempt = rows[q].attempt + 1
          /\ rows'[q].owner = d
      BY <1>0, <3>1 DEF RowType
    <3>4. ASSUME NEW p \in Plan PROVE RowStep(p)
      <4>1. CASE p # q
        BY <1>0, <2>1, <3>1, <4>1, RestsOrNot
      <4>2. CASE p = q
        BY <2>1, <3>2, <3>3, <4>2 DEF RowStep, ClaimedBy
      <4>. QED  BY <4>1, <4>2
    <3>5. /\ drv'[d].pc = "run" /\ drv'[d].p = q
          /\ drv'[d].seen.attempt = rows[q].attempt + 1
      BY <1>0, <3>1 DEF CallerType, Row
    <3>6. CallerStep(d)
      <4>. HIDE DEF q
      <4>. QED  BY <2>1, <3>2, <3>3, <3>5 DEF CallerStep
    <3>7. \A e \in Caller \ {d} : drv'[e] = drv[e]
      BY <1>0, <3>1
    <3>. QED  BY <2>1, <3>4, <3>6, <3>7, RestsOrNot DEF Moves
  <2>. QED  BY <2>2, <2>3
<1>3. ASSUME NEW to \in {"succeeded", "failed", "timed_out", "retry_wait"}, NEW result,
             Finish(d, to, result), drv[d].pc = "run",
             to = "succeeded" => q \notin Manual,
             to \in {"failed", "timed_out"} => drv[d].seen.attempt >= MaxAttempts
      PROVE  Moves
  <2>1. \A e \in Caller : CallerStep(e)
    BY <1>3, CallerLeaves DEF Finish
  <2>2. gates' = gates /\ run' = run
    BY <1>3 DEF Finish
  <2>3. ASSUME NEW p \in Plan PROVE RowStep(p)
    <3>1. CASE rows'[p] = rows[p]
      BY <2>2, <3>1, RestsOrNot
    <3>2. CASE rows'[p] # rows[p]
      <4>1. p = q /\ MayMove(p, to, d) /\ rows'[p] = Moved(rows[p], to, result)
        BY <1>0, <1>3, <3>2 DEF Finish
      <4>2. rows'[p].status = to /\ rows'[p].attempt = rows[p].attempt
        BY <1>0, <4>1 DEF Moved, RowType
      <4>3. MovedBy(d, p)
        BY <1>3, <2>2, <4>1, <4>2 DEF MovedBy
      <4>. QED  BY <4>3 DEF RowStep
    <3>. QED  BY <3>1, <3>2
  <2>. QED  BY <2>1, <2>2, <2>3, RestsOrNot DEF Moves
<1>4. CASE Succeed(d)
  BY <1>3, <1>4 DEF Succeed
<1>5. CASE Fail(d)
  <2>1. PICK to \in IF drv[d].seen.attempt < MaxAttempts THEN {"retry_wait"}
                    ELSE {"failed", "timed_out"} : Finish(d, to, "none")
    BY <1>5 DEF Fail
  <2>2. drv[d].seen.attempt < MaxAttempts \/ drv[d].seen.attempt >= MaxAttempts
    <3>1. drv[d].seen.attempt \in Nat /\ MaxAttempts \in Nat
      BY <1>0, PathAssumption DEF CallerType, RowType
    <3>. QED  BY <3>1
  <2>3. drv[d].pc = "run"
    BY <1>5 DEF Fail
  <2>. QED  BY <1>3, <2>1, <2>2, <2>3
<1>6. CASE Park(d)
  <2>1. drv'[d].pc # "run" /\ \A e \in Caller : CallerStep(e)
    BY <1>6, CallerLeaves DEF Park
  <2>2. run' = run
    BY <1>6 DEF Park
  <2>3. ASSUME NEW p \in Plan PROVE RowStep(p)
    <3>1. CASE rows'[p] = rows[p] /\ gates'[p] = gates[p]
      BY <3>1, RestsOrNot
    <3>2. CASE ~(rows'[p] = rows[p] /\ gates'[p] = gates[p])
      <4>1. /\ p = q /\ Owns(d) /\ gates[p] = NoGate /\ p \in Manual /\ drv[d].pc = "run"
            /\ rows'[p] = Moved(rows[p], "waiting", "none")
            /\ gates'[p] = [status |-> "open", attempt |-> rows[p].attempt]
        BY <1>0, <1>6, <3>2 DEF Park
      <4>2. rows'[p].status = "waiting" /\ rows'[p].attempt = rows[p].attempt
        BY <1>0, <4>1 DEF Moved, RowType
      <4>3. ParkedBy(d, p)
        BY <2>1, <4>1, <4>2 DEF ParkedBy
      <4>. QED  BY <4>3 DEF RowStep
    <3>. QED  BY <3>1, <3>2
  <2>. QED  BY <2>1, <2>2, <2>3, RestsOrNot DEF Moves
<1>. QED  BY <1>1, <1>2, <1>4, <1>5, <1>6

\* Operators and time.
LEMMA OutsideMoves ==
    ASSUME PathTypeOK, NEW p \in Plan,
           \/ \E d \in Caller, end \in DOMAIN RowEnd, advance \in BOOLEAN :
                 Close(d, p, end, advance)
           \/ Rearm(p) \/ TimeUp(p)
    PROVE  Moves
<1>0. /\ drv \in [Caller -> CallerType] /\ rows \in [Plan -> RowType]
      /\ gates \in [Plan -> GateType]
  BY DEF PathTypeOK
<1>1. \A u \in Plan \ {p} : RowStep(u)
  <2>1. \A u \in Plan \ {p} : rows'[u] = rows[u] /\ gates'[u] = gates[u]
    BY <1>0 DEF Close, Rearm, TimeUp
  <2>. QED  BY <2>1, RestsOrNot
<1>2. run' = run
  BY DEF Close, Rearm, TimeUp
<1>3. ASSUME NEW d \in Caller, NEW end \in DOMAIN RowEnd, NEW advance \in BOOLEAN,
             Close(d, p, end, advance)
      PROVE  Moves
  <2>1. PICK result : rows' = [rows EXCEPT ![p] = Moved(rows[p], RowEnd[end], result)]
    BY <1>3 DEF Close
  <2>2. rows'[p].status = RowEnd[end] /\ rows'[p].attempt = rows[p].attempt
    BY <1>0, <2>1 DEF Moved, RowType
  <2>3. gates'[p].status = end /\ gates'[p].attempt = gates[p].attempt
    BY <1>0, <1>3 DEF Close, GateType
  <2>4. RowStep(p)
    BY <1>3, <2>2, <2>3 DEF RowStep, Closed, Close
  <2>5. ASSUME NEW e \in Caller PROVE CallerStep(e)
    <3>1. CASE drv'[e] = drv[e]
      BY <3>1, RestsOrNot
    <3>2. CASE drv'[e] # drv[e]
      <4>1. drv'[e] = [Idle EXCEPT !.pc = "advance", !.round = 1]
        BY <1>0, <1>3, <3>2 DEF Close
      <4>2. drv'[e].pc = "advance"
        BY <4>1 DEF Idle
      <4>. QED  BY <4>2 DEF CallerStep
    <3>. QED  BY <3>1, <3>2
  <2>. QED  BY <1>1, <1>2, <2>4, <2>5, RestsOrNot DEF Moves
<1>4. ASSUME Rearm(p) PROVE Moves
  <2>1. rows'[p] = Moved(rows[p], "waiting", "none")
    BY <1>0, <1>4 DEF Rearm, Reopened
  <2>2. rows'[p].status = "waiting" /\ rows'[p].attempt = rows[p].attempt
    BY <1>0, <2>1 DEF Moved, RowType
  <2>3. gates'[p].status = "open" /\ gates'[p].attempt = gates[p].attempt + 1
    BY <1>0, <1>4 DEF Rearm, GateType
  <2>4. RowStep(p)
    BY <1>4, <2>2, <2>3 DEF RowStep, Rearmed, Rearm
  <2>. QED  BY <1>1, <1>2, <1>4, <2>4, RestsOrNot DEF Moves, Rearm
<1>5. ASSUME TimeUp(p) PROVE Moves
  <2>1. Rests(p)
    BY <1>0, <1>5 DEF TimeUp, RowType, Rests
  <2>. QED  BY <1>1, <1>2, <1>5, <2>1, RestsOrNot DEF Moves, RowStep, TimeUp
<1>. QED  BY <1>3, <1>4, <1>5

\* Every step.
LEMMA EveryStepMoves == PathTypeOK /\ [PathNext]_pathVars => Moves
<1>. SUFFICES ASSUME PathTypeOK, [PathNext]_pathVars PROVE Moves
  OBVIOUS
<1>1. ASSUME NEW d \in Caller, PathStep(d) PROVE Moves
  BY <1>1, ReadsMove, PersistMoves, AdvanceMoves, TickMoves DEF PathStep
<1>2. ASSUME NEW d \in Caller, Operate(d) \/ Crash(d) PROVE Moves
  BY <1>2, ReadsMove, OutsideMoves DEF Operate
<1>3. CASE UNCHANGED pathVars
  BY <1>3, RestsOrNot DEF pathVars, Moves
<1>. QED  BY <1>1, <1>2, <1>3, OutsideMoves DEF PathNext

-----------------------------------------------------------------------------
(* What holds of any plan: rows and homeostats, and conditions.             *)

\* A row that runs was claimed and one that did not run yet was not, only processes
\* that may park have a homeostat, and only running rows are maintained.
Basics ==
    /\ \A p \in Plan :
          /\ rows[p].status \in {"absent", "pending", "ready"} => rows[p].attempt = 0
          /\ rows[p].status = "running" => rows[p].attempt > 0
          /\ gates[p] # NoGate => /\ gates[p].status # "none" /\ gates[p].attempt > 0
                                  /\ p \in Manual
    /\ \A d \in Caller :
          /\ drv[d].pc = "maintain" => drv[d].seen.status = "running"
          /\ drv[d].pc = "run" => rows[drv[d].p].attempt > 0

\* A process that has ended stays so, but for a homeostat that is opened again;
\* a homeostat is never taken away.
LEMMA EndedRests ==
    ASSUME PathTypeOK, Basics, Moves, NEW p \in Plan
    PROVE  /\ rows[p].status \in TerminalStatus => Rests(p) \/ Rearmed(p)
           /\ gates'[p] = NoGate => gates[p] = NoGate
           /\ rows[p].attempt <= rows'[p].attempt
<1>0. rows[p].attempt \in Nat
  BY DEF PathTypeOK, RowType
<1>1. CASE Rests(p)
  BY <1>0, <1>1 DEF Rests
<1>2. CASE Closed(p)
  BY <1>0, <1>2 DEF Closed, TerminalStatus, NoGate, RowEnd
<1>3. CASE Rearmed(p)
  BY <1>0, <1>3 DEF Rearmed, NoGate
<1>4. ASSUME NEW d \in Caller, MovedBy(d, p)
      PROVE  /\ rows[p].status \notin TerminalStatus /\ gates'[p] = gates[p]
             /\ rows'[p].attempt = rows[p].attempt
  <2>1. CASE \E to : MayMove(p, to, d)
    <3>1. rows[p].status \notin TerminalStatus
      BY <2>1, TableMoves
    <3>. QED  BY <1>4, <3>1 DEF MovedBy
  <2>2. CASE \A to : ~MayMove(p, to, d)
    BY <1>4, <2>2 DEF MovedBy, Basics, TerminalStatus
  <2>. QED  BY <2>1, <2>2
<1>5. ASSUME NEW d \in Caller, InsertedBy(d, p)
      PROVE  /\ rows[p].status \notin TerminalStatus /\ gates'[p] = gates[p]
             /\ rows[p].attempt = 0 /\ rows'[p].attempt = 0
  BY <1>5 DEF InsertedBy, Basics, TerminalStatus, Row
<1>6. ASSUME NEW d \in Caller, ClaimedBy(d, p)
      PROVE  /\ rows[p].status \notin TerminalStatus /\ gates'[p] = gates[p]
             /\ rows'[p].attempt = rows[p].attempt + 1
  BY <1>6 DEF ClaimedBy, TerminalStatus
<1>7. ASSUME NEW d \in Caller, ParkedBy(d, p)
      PROVE  /\ rows[p].status \notin TerminalStatus /\ gates'[p] # NoGate
             /\ rows'[p].attempt = rows[p].attempt
  BY <1>7 DEF ParkedBy, Owns, TerminalStatus, NoGate
<1>. QED  BY <1>0, <1>1, <1>2, <1>3, <1>4, <1>5, <1>6, <1>7 DEF Moves, RowStep

\* Every step keeps them.
LEMMA BasicsKept == PathTypeOK /\ PathTypeOK' /\ Basics /\ Moves => Basics'
<1>. SUFFICES ASSUME PathTypeOK, PathTypeOK', Basics, Moves PROVE Basics'
  OBVIOUS
<1>1. ASSUME NEW p \in Plan
      PROVE  /\ rows'[p].status \in {"absent", "pending", "ready"} => rows'[p].attempt = 0
             /\ rows'[p].status = "running" => rows'[p].attempt > 0
             /\ gates'[p] # NoGate => /\ gates'[p].status # "none" /\ gates'[p].attempt > 0
                                      /\ p \in Manual
  <2>0. rows[p].attempt \in Nat /\ rows'[p].attempt \in Nat /\ gates[p].attempt \in Nat
    BY DEF PathTypeOK, RowType, GateType
  <2>1. CASE Rests(p)
    BY <2>1 DEF Rests, Basics
  <2>2. CASE Closed(p)
    <3>1. RowEnd[gates'[p].status] \notin {"absent", "pending", "ready", "running"} /\ gates'[p].status # "none"
      BY <2>2 DEF Closed, RowEnd
    <3>2. gates[p] # NoGate
      BY <2>2 DEF Closed, NoGate
    <3>. QED  BY <2>2, <3>1, <3>2 DEF Closed, Basics
  <2>3. CASE Rearmed(p)
    <3>1. gates[p] # NoGate
      BY <2>3 DEF Rearmed, NoGate, RowEnd
    <3>2. gates[p].attempt > 0 /\ p \in Manual
      BY <3>1 DEF Basics
    <3>. QED  BY <2>0, <2>3, <3>2 DEF Rearmed
  <2>4. ASSUME NEW d \in Caller, MovedBy(d, p)
        PROVE  /\ rows'[p].status \notin {"absent", "running"} /\ gates'[p] = gates[p]
               /\ rows'[p].status \in {"pending", "ready"} => rows'[p].attempt = 0
    BY <2>4 DEF MovedBy, Basics
  <2>5. ASSUME NEW d \in Caller, InsertedBy(d, p)
        PROVE  rows'[p].status = "ready" /\ rows'[p].attempt = 0 /\ gates'[p] = gates[p]
    BY <2>5 DEF InsertedBy, Row
  <2>6. ASSUME NEW d \in Caller, ClaimedBy(d, p)
        PROVE  /\ rows'[p].status = "running" /\ rows'[p].attempt > 0
               /\ gates'[p] = gates[p]
    BY <2>0, <2>6 DEF ClaimedBy
  <2>7. ASSUME NEW d \in Caller, ParkedBy(d, p)
        PROVE  /\ rows'[p].status = "waiting" /\ p \in Manual
               /\ gates'[p].status = "open" /\ gates'[p].attempt > 0
    BY <2>7 DEF ParkedBy, Owns, Basics
  <2>. QED  BY <2>1, <2>2, <2>3, <2>4, <2>5, <2>6, <2>7 DEF Moves, RowStep, Basics
<1>2. ASSUME NEW d \in Caller, drv'[d].pc = "maintain" PROVE drv'[d].seen.status = "running"
  BY <1>2 DEF Moves, CallerStep, Basics
<1>3. ASSUME NEW d \in Caller, drv'[d].pc = "run" PROVE rows'[drv'[d].p].attempt > 0
  <2>0. drv[d].p \in Plan /\ drv'[d].p \in Plan
    BY DEF PathTypeOK, CallerType
  <2>1. CASE drv'[d] = drv[d]
    <3>1. /\ rows[drv[d].p].attempt > 0 /\ rows[drv[d].p].attempt <= rows'[drv[d].p].attempt
          /\ rows[drv[d].p].attempt \in Nat /\ rows'[drv[d].p].attempt \in Nat
      BY <1>3, <2>0, <2>1, EndedRests DEF Basics, PathTypeOK, RowType
    <3>. QED  BY <2>1, <3>1
  <2>2. CASE drv'[d] # drv[d]
    <3>1. rows'[drv'[d].p].status = "running"
      BY <1>3, <2>2 DEF Moves, CallerStep
    <3>. QED  BY <1>1, <2>0, <3>1
  <2>. QED  BY <2>1, <2>2
<1>. QED  BY <1>1, <1>2, <1>3 DEF Basics

\* In a family of sets of processes some set includes no other.
LEMMA LeastProcesses ==
    ASSUME NEW Q \in SUBSET SUBSET Plan, Q # {}
    PROVE  \E x \in Q : \A y \in Q : y \subseteq x => y = x
<1>1. IsFiniteSet(Plan)
  BY PathAssumption, FS_Interval DEF Plan
<1>2. IsWellFoundedOn(StrictSubsetOrdering(Plan), SUBSET Plan)
  BY <1>1, FS_StrictSubsetOrderingWellFounded, FS_FiniteSubsetsOfFinite
<1>3. PICK x \in Q : \A y \in Q : <<y, x>> \notin StrictSubsetOrdering(Plan)
  BY <1>2, WFMin
<1>. QED  BY <1>3 DEF StrictSubsetOrdering

\* First is one of the processes it is taken from.
LEMMA FirstIsIn ==
    ASSUME NEW S \in SUBSET Plan, S # {}
    PROVE  First(S) \in S
<1>1. S \subseteq Nat /\ Size \in Nat
  BY PathAssumption DEF Plan
<1>. DEFINE Q == {1..n : n \in S}
<1>2. Q \in SUBSET SUBSET Plan /\ Q # {}
  <2>1. ASSUME NEW n \in S PROVE 1..n \subseteq Plan
    <3>1. n \in Nat /\ n <= Size
      BY <1>1 DEF Plan
    <3>. QED  BY <1>1, <3>1 DEF Plan
  <2>. QED  BY <2>1
<1>. HIDE DEF Q
<1>3. PICK x \in Q : \A y \in Q : y \subseteq x => y = x
  BY <1>2, LeastProcesses
<1>4. PICK p \in S : x = 1..p
  BY DEF Q
<1>5. ASSUME NEW q \in S PROVE p <= q
  <2>1. CASE q < p
    <3>1. 1..q \in Q /\ 1..q \subseteq 1..p
      <4>1. p \in Nat /\ q \in Nat
        BY <1>1
      <4>2. 1..q \subseteq 1..p
        BY <2>1, <4>1
      <4>. QED  BY <4>2 DEF Q
    <3>2. 1..q = 1..p
      BY <1>3, <1>4, <3>1
    <3>3. p \in 1..p /\ p \notin 1..q
      BY <1>1, <2>1 DEF Plan
    <3>. QED  BY <3>2, <3>3
  <2>. QED  BY <1>1, <2>1
<1>. QED  BY <1>5 DEF First

\* Initially nothing has run.
LEMMA BasicsInit == PathInit => Basics
BY DEF PathInit, Basics, Row, Idle, NoGate

-----------------------------------------------------------------------------
(* The end of the run and its rows.  RunFollowsRows is not inductive:       *)
(* finalize_run writes what it derived from rows it read before, so the     *)
(* invariant says that what a caller derived still follows from the rows.   *)

\* No homeostat is ever opened again.
NoRearm == Manual = {} \/ MaxAttempts = 1

Ends ==
    /\ \A d \in Caller :
          drv[d].pc = "decide" => /\ drv[d].target = "completed" => AllDone
                                  /\ drv[d].target = "failed" => AnyFailed
    /\ RunFollowsRows

\* Where no homeostat is opened again, an end that followed from the rows still does.
LEMMA EndsKept == NoRearm /\ PathTypeOK /\ Basics /\ Ends /\ Moves => Ends'
<1>. SUFFICES ASSUME NoRearm, PathTypeOK, Basics, Ends, Moves PROVE Ends'
  OBVIOUS
<1>1. ASSUME NEW p \in Plan, rows[p].status \in TerminalStatus
      PROVE  rows'[p].status = rows[p].status
  <2>1. ~Rearmed(p)
    <3>1. ASSUME Rearmed(p) PROVE FALSE
      <4>1. gates[p] # NoGate
        BY <3>1 DEF Rearmed, NoGate, RowEnd
      <4>2. gates[p].attempt > 0 /\ p \in Manual /\ gates[p].attempt \in Nat
        BY <4>1 DEF Basics, PathTypeOK, GateType
      <4>. QED  BY <3>1, <4>2 DEF NoRearm, Rearmed
    <3>. QED  BY <3>1
  <2>. QED  BY <1>1, <2>1, EndedRests DEF Rests
<1>2. Done \subseteq TerminalStatus /\ Failed \subseteq TerminalStatus
  BY DEF Done, Failed, TerminalStatus
<1>3. (AllDone => AllDone') /\ (AnyFailed => AnyFailed')
  BY <1>1, <1>2 DEF AllDone, AnyFailed
<1>4. ASSUME NEW d \in Caller, drv'[d].pc = "decide"
      PROVE  /\ drv'[d].target = "completed" => AllDone'
             /\ drv'[d].target = "failed" => AnyFailed'
  BY <1>3, <1>4 DEF Moves, CallerStep, Ends
<1>5. RunFollowsRows'
  <2>1. /\ run' = "completed" => AllDone
        /\ run' = "failed" => AnyFailed
    BY DEF Moves, RunMoves, Ends, RunFollowsRows
  <2>. QED  BY <1>3, <2>1 DEF RunFollowsRows
<1>. QED  BY <1>4, <1>5 DEF Ends

\* Where no homeostat is opened again, a run is completed only when every process
\* is done and failed only when one failed, whatever callers read before others
\* wrote: what a caller derived from the rows cannot be overtaken (finalize_run).
THEOREM RunEndsWithRows == NoRearm /\ PathSpec => []RunFollowsRows
<1>. SUFFICES ASSUME NoRearm PROVE PathSpec => []RunFollowsRows
  OBVIOUS
<1>1. PathInit => Ends
  <2>. SUFFICES ASSUME PathInit PROVE Ends
    OBVIOUS
  <2>1. run \notin {"completed", "failed"} /\ \A d \in Caller : drv[d].pc # "decide"
    BY DEF PathInit, Idle
  <2>. QED  BY <2>1 DEF Ends, RunFollowsRows
<1>2. PathTypeOK /\ Basics /\ Ends /\ Moves => Ends'
  BY EndsKept
<1>3. Ends => RunFollowsRows
  BY DEF Ends
<1>. QED  BY <1>1, <1>2, <1>3, BasicsInit, BasicsKept, EveryStepMoves, PathTypeCorrect, PTL
          DEF PathSpec

-----------------------------------------------------------------------------
(* Conditions.  An advance decides on rows it has read and writes in later  *)
(* transactions, so what it holds has to be decided for good: the source    *)
(* has ended, and only a homeostat changes that.                            *)

Approved(s) == rows[s].status = "succeeded" /\ rows[s].result = "yes"

\* A conditional process that a caller holds to skip or to ready.
Decided(p) ==
    gates[When[p]] = NoGate =>
        \A d \in Caller :
            /\ drv[d].pc = "skip" /\ p \in drv[d].todo =>
                  /\ rows[When[p]].status \in TerminalStatus /\ ~Approved(When[p])
                  /\ rows[p].status \in {"pending", "skipped"}
            /\ drv[d].pc \in {"skip", "apply"} /\ p \in DOMAIN drv[d].inputs =>
                  Approved(When[p])

Conditions ==
    /\ \A p \in DOMAIN When : Decided(p)
    /\ \A d \in Caller :
          /\ drv[d].pc = "skip" => drv[d].todo # {} /\ drv[d].todo \subseteq DOMAIN When
          /\ drv[d].pc = "promote" => DOMAIN drv[d].inputs \cap DOMAIN When = {}

\* The answer of a source without a homeostat stands.
LEMMA AnswersStand ==
    ASSUME PathTypeOK, Basics, Moves, NEW s \in Plan, gates'[s] = NoGate,
           rows[s].status \in TerminalStatus
    PROVE  gates[s] = NoGate /\ rows'[s].status = rows[s].status /\ Approved(s)' = Approved(s)
<1>1. ~Rearmed(s)
  BY DEF Rearmed, NoGate
<1>2. Rests(s) /\ gates[s] = NoGate
  BY <1>1, EndedRests
<1>. QED  BY <1>2 DEF Rests, Approved

\* What is skipped has a condition that does not hold, and what is readied one
\* that does, or none.
LEMMA DecidedMoves ==
    ASSUME PathTypeOK, Conditions, NEW p \in DOMAIN When, gates[When[p]] = NoGate,
           NEW d \in Caller, MovedBy(d, p)
    PROVE  /\ rows[p].status = "pending" /\ rows'[p].status = "ready" => Approved(When[p])
           /\ rows'[p].status = "skipped" => /\ rows[When[p]].status \in TerminalStatus
                                             /\ ~Approved(When[p])
                                             /\ rows[p].status = "pending"
<1>1. Decided(p)
  BY DEF Conditions
<1>2. ASSUME rows[p].status = "pending", rows'[p].status = "ready" PROVE Approved(When[p])
  <2>1. /\ drv[d].pc \in {"promote", "apply"} /\ p \in DOMAIN drv[d].inputs
    BY <1>2 DEF MovedBy
  <2>2. drv[d].pc # "promote"
    BY <2>1 DEF Conditions
  <2>. QED  BY <1>1, <2>1, <2>2 DEF Decided
<1>3. ASSUME rows'[p].status = "skipped"
      PROVE  /\ rows[When[p]].status \in TerminalStatus /\ ~Approved(When[p])
             /\ rows[p].status = "pending"
  <2>1. drv[d].pc = "skip" /\ p = First(drv[d].todo) /\ MayMove(p, "skipped", d)
    BY <1>3 DEF MovedBy
  <2>2. drv[d].todo \in SUBSET Plan /\ drv[d].todo # {}
    BY <2>1 DEF Conditions, PathTypeOK, CallerType
  <2>3. p \in drv[d].todo
    BY <2>1, <2>2, FirstIsIn
  <2>4. rows[p].status \notin TerminalStatus
    <3>1. p \in Plan
      BY PathAssumption
    <3>. QED  BY <2>1, <3>1, TableMoves
  <2>. QED  BY <1>1, <2>1, <2>3, <2>4 DEF Decided, TerminalStatus
<1>. QED  BY <1>2, <1>3

\* Every step keeps what callers hold decided.
LEMMA ConditionsKept == PathTypeOK /\ Basics /\ Conditions /\ Moves => Conditions'
<1>. SUFFICES ASSUME PathTypeOK, Basics, Conditions, Moves PROVE Conditions'
  OBVIOUS
<1>1. ASSUME NEW d \in Caller
      PROVE  /\ drv'[d].pc = "skip" => drv'[d].todo # {} /\ drv'[d].todo \subseteq DOMAIN When
             /\ drv'[d].pc = "promote" => DOMAIN drv'[d].inputs \cap DOMAIN When = {}
  <2>1. CASE drv'[d] = drv[d]
    BY <2>1 DEF Conditions
  <2>2. CASE drv'[d] # drv[d]
    <3>1. ASSUME drv'[d].pc = "skip", NEW p \in drv'[d].todo PROVE p \in DOMAIN When
      <4>1. \/ drv[d].pc = "skip" /\ p \in drv[d].todo
            \/ ~Matches(p)
        BY <2>2, <3>1 DEF Moves, CallerStep
      <4>. QED  BY <4>1 DEF Conditions, Matches
    <3>2. drv'[d].pc = "skip" => drv'[d].todo # {}
      BY <2>2 DEF Moves, CallerStep
    <3>3. drv'[d].pc = "promote" => DOMAIN drv'[d].inputs \cap DOMAIN When = {}
      BY <2>2 DEF Moves, CallerStep
    <3>. QED  BY <3>1, <3>2, <3>3
  <2>. QED  BY <2>1, <2>2
<1>2. ASSUME NEW p \in DOMAIN When, gates'[When[p]] = NoGate, NEW d \in Caller
      PROVE  /\ drv'[d].pc = "skip" /\ p \in drv'[d].todo =>
                   /\ rows'[When[p]].status \in TerminalStatus /\ ~Approved(When[p])'
                   /\ rows'[p].status \in {"pending", "skipped"}
             /\ drv'[d].pc \in {"skip", "apply"} /\ p \in DOMAIN drv'[d].inputs =>
                   Approved(When[p])'
  <2>0. p \in Plan /\ When[p] \in Plan /\ gates[When[p]] = NoGate /\ Decided(p)
        /\ When[p] \in Upstream[p]
    <3>1. p \in Plan /\ When[p] \in Plan /\ When[p] \in Upstream[p]
      BY PathAssumption
    <3>. QED  BY <1>2, <3>1, EndedRests DEF Conditions
  <2>1. ASSUME rows[When[p]].status \in TerminalStatus, ~Approved(When[p]),
               rows[p].status \in {"pending", "skipped"}
        PROVE  /\ rows'[When[p]].status \in TerminalStatus /\ ~Approved(When[p])'
               /\ rows'[p].status \in {"pending", "skipped"}
    <3>1. rows'[When[p]].status \in TerminalStatus /\ ~Approved(When[p])'
      BY <1>2, <2>0, <2>1, AnswersStand
    <3>2. rows'[p].status \in {"pending", "skipped"}
      <4>0. SUFFICES ASSUME rows[p].status = "pending"
                     PROVE  rows'[p].status \in {"pending", "skipped"}
        <5>1. "skipped" \in TerminalStatus
          BY DEF TerminalStatus
        <5>2. rows[p].status = "skipped" => ~Rearmed(p)
          BY DEF Rearmed
        <5>. QED  BY <2>0, <2>1, <5>1, <5>2, EndedRests DEF Rests
      <4>1. CASE Rests(p)
        BY <4>0, <4>1 DEF Rests
      <4>2. CASE \E e \in Caller : MovedBy(e, p)
        <5>1. PICK e \in Caller : MovedBy(e, p)
          BY <4>2
        <5>2. ~(rows[p].status = "pending" /\ rows'[p].status = "ready")
          BY <2>0, <2>1, <5>1, DecidedMoves
        <5>3. ~(drv[e].pc = "maintain" /\ rows[p] = drv[e].seen)
          BY <4>0 DEF Basics
        <5>4. rows[p].attempt = 0
          BY <2>0, <4>0 DEF Basics
        <5>5. ~(drv[e].pc = "run" /\ p = drv[e].p)
          BY <5>4 DEF Basics
        <5>. QED  BY <4>0, <5>1, <5>2, <5>3, <5>5 DEF MovedBy
      <4>3. CASE Closed(p)
        BY <4>0, <4>3 DEF Closed
      <4>4. CASE Rearmed(p)
        BY <4>0, <4>4 DEF Rearmed
      <4>5. CASE \E e \in Caller : InsertedBy(e, p) \/ ClaimedBy(e, p) \/ ParkedBy(e, p)
        BY <4>0, <4>5 DEF InsertedBy, ClaimedBy, ParkedBy, Owns
      <4>. QED  BY <2>0, <4>1, <4>2, <4>3, <4>4, <4>5 DEF Moves, RowStep
    <3>. QED  BY <3>1, <3>2
  <2>2. ASSUME Approved(When[p]) PROVE Approved(When[p])'
    <3>1. rows[When[p]].status \in TerminalStatus
      BY <2>2 DEF Approved, TerminalStatus
    <3>. QED  BY <1>2, <2>0, <2>2, <3>1, AnswersStand
  <2>3. ASSUME drv'[d].pc = "skip", p \in drv'[d].todo
        PROVE  /\ rows[When[p]].status \in TerminalStatus /\ ~Approved(When[p])
               /\ rows[p].status \in {"pending", "skipped"}
    <3>1. CASE drv[d].pc = "skip" /\ p \in drv[d].todo
      BY <2>0, <3>1 DEF Decided
    <3>2. CASE p \in Readied /\ ~Matches(p)
      BY <2>0, <3>2 DEF Readied, Pending, AllSettled, Matches, Approved
    <3>. QED  BY <2>3, <3>1, <3>2 DEF Moves, CallerStep
  <2>4. ASSUME drv'[d].pc \in {"skip", "apply"}, p \in DOMAIN drv'[d].inputs
        PROVE  Approved(When[p])
    <3>1. CASE drv[d].pc \in {"skip", "apply"} /\ p \in DOMAIN drv[d].inputs
      BY <2>0, <3>1 DEF Decided
    <3>2. CASE Matches(p)
      BY <3>2 DEF Matches, Approved
    <3>. QED  BY <2>4, <3>1, <3>2 DEF Moves, CallerStep
  <2>. QED  BY <2>1, <2>2, <2>3, <2>4
<1>. QED  BY <1>1, <1>2 DEF Conditions, Decided

\* Initially no caller decides.
LEMMA ConditionsInit == PathInit => Conditions
BY DEF PathInit, Conditions, Decided, Idle

\* A conditional process is due only once its source has approved it, and skipped
\* before it ran.
Answered ==
    \A p \in DOMAIN When :
        gates[When[p]] = NoGate =>
            /\ Due(p) => Approved(When[p])
            /\ rows[p].status = "skipped" => /\ ~Started(p) /\ ~Approved(When[p])
                                             /\ rows[When[p]].status \in TerminalStatus

\* Once the plan is persisted, every step keeps that.
LEMMA AnsweredKept ==
    ASSUME PathTypeOK, PathTypeOK', Basics, Conduction, Conditions, Answered, Moves
    PROVE  Answered'
<1>. SUFFICES ASSUME NEW p \in DOMAIN When, gates'[When[p]] = NoGate
              PROVE  /\ Due(p)' => Approved(When[p])'
                     /\ rows'[p].status = "skipped" =>
                            /\ ~Started(p)' /\ ~Approved(When[p])'
                            /\ rows'[When[p]].status \in TerminalStatus
  BY DEF Answered
<1>0. /\ p \in Plan /\ When[p] \in Plan /\ gates[When[p]] = NoGate
      /\ rows[p].attempt \in Nat /\ rows'[p].attempt \in Nat
  <2>1. p \in Plan /\ When[p] \in Plan
    BY PathAssumption
  <2>. QED  BY <2>1, EndedRests DEF PathTypeOK, RowType
<1>1. Due(p) => Approved(When[p])
  BY <1>0 DEF Answered
<1>2. Approved(When[p]) => Approved(When[p])'
  <2>1. Approved(When[p]) => rows[When[p]].status \in TerminalStatus
    BY DEF Approved, TerminalStatus
  <2>. QED  BY <1>0, <2>1, AnswersStand
<1>3. ASSUME Due(p)' PROVE Due(p) \/ Approved(When[p])
  <2>1. CASE Rests(p)
    BY <1>3, <2>1 DEF Due, Rests
  <2>2. CASE Closed(p)
    BY <1>3, <2>2 DEF Due, Closed, RowEnd
  <2>3. CASE Rearmed(p)
    BY <1>3, <2>3 DEF Due, Rearmed
  <2>4. ASSUME NEW d \in Caller, MovedBy(d, p) PROVE Due(p) \/ Approved(When[p])
    <3>1. CASE rows[p].status = "pending" /\ rows'[p].status = "ready"
      BY <1>0, <2>4, <3>1, DecidedMoves
    <3>2. CASE rows'[p].status \in {"ready", "running", "retry_wait"} /\ ~Due(p)
      <4>1. CASE drv[d].pc = "maintain" /\ rows[p] = drv[d].seen
        BY <4>1 DEF Basics, Due
      <4>2. CASE drv[d].pc = "run" /\ p = drv[d].p
        BY <4>2 DEF Basics, Due
      <4>. QED  BY <2>4, <3>1, <3>2, <4>1, <4>2 DEF MovedBy
    <3>3. rows'[p].attempt = rows[p].attempt
      BY <2>4 DEF MovedBy
    <3>. QED  BY <1>3, <3>1, <3>2, <3>3 DEF Due
  <2>5. ASSUME NEW d \in Caller, InsertedBy(d, p) \/ ClaimedBy(d, p) \/ ParkedBy(d, p)
        PROVE  Due(p)
    BY <1>0, <2>5 DEF InsertedBy, ClaimedBy, ParkedBy, Owns, Due, Conduction
  <2>. QED  BY <1>0, <2>1, <2>2, <2>3, <2>4, <2>5 DEF Moves, RowStep
<1>4. ASSUME rows'[p].status = "skipped"
      PROVE  /\ rows'[p].attempt = rows[p].attempt /\ ~Started(p) /\ ~Approved(When[p])
             /\ rows[When[p]].status \in TerminalStatus
  <2>1. CASE Rests(p)
    BY <1>0, <1>4, <2>1 DEF Rests, Answered
  <2>2. ASSUME NEW d \in Caller, MovedBy(d, p)
        PROVE  /\ rows'[p].attempt = rows[p].attempt /\ ~Started(p) /\ ~Approved(When[p])
               /\ rows[When[p]].status \in TerminalStatus
    <3>1. /\ rows[When[p]].status \in TerminalStatus /\ ~Approved(When[p])
          /\ rows'[p].attempt = rows[p].attempt
      BY <1>0, <1>4, <2>2, DecidedMoves DEF MovedBy
    <3>. QED  BY <1>1, <3>1 DEF Due, Started
  <2>3. ~Closed(p) /\ ~Rearmed(p)
    BY <1>4 DEF Closed, Rearmed, RowEnd
  <2>4. ASSUME NEW d \in Caller PROVE ~InsertedBy(d, p) /\ ~ClaimedBy(d, p) /\ ~ParkedBy(d, p)
    BY <1>4 DEF InsertedBy, ClaimedBy, ParkedBy, Row
  <2>. QED  BY <1>0, <2>1, <2>2, <2>3, <2>4 DEF Moves, RowStep
<1>5. ASSUME rows'[p].status = "skipped"
      PROVE  /\ ~Started(p)' /\ ~Approved(When[p])' /\ rows'[When[p]].status \in TerminalStatus
  <2>1. ~Approved(When[p])' /\ rows'[When[p]].status \in TerminalStatus
    BY <1>0, <1>4, <1>5, AnswersStand
  <2>. QED  BY <1>4, <1>5, <2>1 DEF Started
<1>. QED  BY <1>1, <1>2, <1>3, <1>5

\* Once the plan is persisted: a conditional process runs only if its source has
\* approved it, and is skipped only if that ended otherwise and it never ran,
\* whatever several advances read and write in between (_condition_matches).
THEOREM ConditionsDecide == Persisted /\ PathSpec => []ConditionDecides
<1>1. Persisted /\ PathInit => Answered
  <2>. SUFFICES ASSUME Persisted, PathInit, NEW p \in DOMAIN When
               PROVE  ~Due(p) /\ rows[p].status # "skipped"
    BY DEF Answered
  <2>1. p \in Plan /\ Upstream[p] # {}
    BY PathAssumption
  <2>2. rows[p].status = "pending" /\ rows[p].attempt = 0
    BY <2>1 DEF PathInit, Row
  <2>. QED  BY <2>2 DEF Due
<1>2. PathTypeOK /\ Answered => ConditionDecides
  <2>. SUFFICES ASSUME PathTypeOK, Answered, NEW p \in DOMAIN When, gates[When[p]] = NoGate
               PROVE  /\ Started(p) => Approved(When[p])
                      /\ rows[p].status = "skipped" => ~Started(p) /\ ~Approved(When[p])
    BY DEF ConditionDecides, Approved
  <2>. QED  BY DEF Answered, Due, Started
<1>. QED  BY <1>1, <1>2, AnsweredKept, BasicsInit, BasicsKept, ConditionsInit, ConditionsKept,
             ConductionInit, ConductionKept, EveryStepMoves, PathTypeCorrect, PTL DEF PathSpec

-----------------------------------------------------------------------------
(* Homeostats.  A caller that ran into the end of its lease may still       *)
(* record a failure of the process, and one that holds it to skip may still *)
(* skip it.  The invariant says why neither reaches a process that waits:   *)
(* the attempt of the first is an earlier one, for which only a retry is    *)
(* recorded, and what the second holds has not been started.                *)

\* What decides a condition is not answered at a homeostat.
PlainSources == \A p \in DOMAIN When : When[p] \notin Manual

Gated(p) ==
    IF gates[p] = NoGate THEN rows[p].status # "waiting"
    ELSE \/ gates[p].status = "open" /\ rows[p].status = "waiting"
         \/ gates[p].status \in DOMAIN RowEnd /\ rows[p].status = RowEnd[gates[p].status]

\* The attempt that d runs: once another has taken the process over, or it has a
\* homeostat, it is an earlier one.
Attempted(d) ==
    drv[d].pc = "run" =>
        LET row == rows[drv[d].p]
        IN  /\ drv[d].seen.attempt <= row.attempt
            /\ drv[d].seen.attempt = row.attempt =>
                  /\ gates[drv[d].p] = NoGate
                  /\ row.status = "running" => row.owner = d

Gates ==
    /\ \A p \in Plan : Gated(p)
    /\ \A d \in Caller : Attempted(d)

\* A process that waits is moved by operators only.
LEMMA WaitingStays ==
    ASSUME PlainSources, PathTypeOK, Basics, Conditions, Gates, NEW p \in Plan, NEW d \in Caller,
           gates[p] # NoGate
    PROVE  ~MovedBy(d, p)
<1>1. /\ \/ gates[p].status = "open" /\ rows[p].status = "waiting"
         \/ gates[p].status \in DOMAIN RowEnd /\ rows[p].status = RowEnd[gates[p].status]
      /\ p \in Manual
  BY DEF Gates, Gated, Basics
<1>2. rows[p].status \in {"waiting"} \cup TerminalStatus
  BY <1>1 DEF RowEnd, TerminalStatus
<1>3. ~(drv[d].pc = "skip" /\ p = First(drv[d].todo) /\ MayMove(p, "skipped", d))
  <2>. SUFFICES ASSUME drv[d].pc = "skip", p = First(drv[d].todo), MayMove(p, "skipped", d)
                PROVE  FALSE
    OBVIOUS
  <2>1. drv[d].todo \in SUBSET Plan /\ drv[d].todo # {} /\ drv[d].todo \subseteq DOMAIN When
    BY DEF Conditions, PathTypeOK, CallerType
  <2>2. p \in drv[d].todo /\ p \in DOMAIN When
    BY <2>1, FirstIsIn
  <2>3. When[p] \in Plan /\ gates[When[p]] = NoGate
    BY <2>2, PathAssumption DEF PlainSources, Basics
  <2>4. rows[p].status \in {"pending", "skipped"}
    BY <2>2, <2>3 DEF Conditions, Decided
  <2>5. rows[p].status \notin TerminalStatus
    BY TableMoves
  <2>. QED  BY <1>2, <2>4, <2>5 DEF TerminalStatus
<1>4. ~(/\ drv[d].pc = "run" /\ p = drv[d].p /\ MayMove(p, rows'[p].status, d)
        /\ \/ rows'[p].status = "succeeded" /\ p \notin Manual
           \/ rows'[p].status = "retry_wait"
           \/ /\ rows'[p].status \in {"failed", "timed_out"}
              /\ drv[d].seen.attempt >= MaxAttempts)
  <2>. SUFFICES ASSUME drv[d].pc = "run", p = drv[d].p, MayMove(p, rows'[p].status, d),
                       rows'[p].status # "succeeded",
                       rows'[p].status = "retry_wait" \/ drv[d].seen.attempt >= MaxAttempts
                PROVE  FALSE
    BY <1>1
  <2>1. rows[p].status = "waiting"
    BY <1>2, TableMoves
  <2>2. rows'[p].status # "retry_wait"
    BY <2>1, TableMoves
  <2>3. drv[d].seen.attempt <= rows[p].attempt /\ drv[d].seen.attempt # rows[p].attempt
    BY DEF Gates, Attempted
  <2>4. /\ drv[d].seen.attempt \in Nat /\ rows[p].attempt \in 0..MaxAttempts
        /\ MaxAttempts \in Nat
    BY PathAssumption DEF PathTypeOK, CallerType, RowType
  <2>. QED  BY <2>2, <2>3, <2>4
<1>5. ~(drv[d].pc = "maintain" /\ rows[p] = drv[d].seen)
  BY <1>2 DEF Basics, TerminalStatus
<1>. QED  BY <1>2, <1>3, <1>4, <1>5 DEF MovedBy, TerminalStatus

\* Every step keeps the homeostats with their processes.
LEMMA GatesKept ==
    ASSUME PlainSources, PathTypeOK, PathTypeOK', Basics, Conditions, Gates, Moves
    PROVE  Gates'
<1>1. ASSUME NEW p \in Plan PROVE Gated(p)'
  <2>0. /\ Gated(p) /\ gates[p].status \in {"none", "open"} \cup DOMAIN RowEnd
        /\ \A status \in DOMAIN RowEnd : RowEnd[status] \in TerminalStatus
    BY DEF Gates, PathTypeOK, GateType, RowEnd, TerminalStatus
  <2>1. CASE Rests(p)
    BY <2>0, <2>1 DEF Rests, Gated
  <2>2. CASE Closed(p)
    BY <2>2 DEF Closed, Gated, NoGate, RowEnd
  <2>3. CASE Rearmed(p)
    BY <2>3 DEF Rearmed, Gated, NoGate
  <2>4. ASSUME NEW d \in Caller, MovedBy(d, p) PROVE Gated(p)'
    <3>1. gates[p] = NoGate /\ gates'[p] = gates[p]
      BY <2>4, WaitingStays DEF MovedBy
    <3>2. rows'[p].status # "waiting"
      BY <2>4 DEF MovedBy
    <3>. QED  BY <3>1, <3>2 DEF Gated
  <2>5. ASSUME NEW d \in Caller, InsertedBy(d, p) \/ ClaimedBy(d, p) PROVE Gated(p)'
    <3>1. /\ rows[p].status \in {"absent", "ready", "running", "retry_wait"}
          /\ gates'[p] = gates[p] /\ rows'[p].status # "waiting"
      BY <2>5 DEF InsertedBy, ClaimedBy, Row
    <3>2. gates[p] = NoGate
      BY <2>0, <3>1 DEF Gated, TerminalStatus
    <3>. QED  BY <3>1, <3>2 DEF Gated
  <2>6. ASSUME NEW d \in Caller, ParkedBy(d, p) PROVE Gated(p)'
    BY <2>6 DEF ParkedBy, Gated, NoGate
  <2>. QED  BY <2>1, <2>2, <2>3, <2>4, <2>5, <2>6 DEF Moves, RowStep
<1>2. ASSUME NEW d \in Caller, drv'[d].pc = "run"
      PROVE  /\ drv'[d].seen.attempt <= rows'[drv'[d].p].attempt
             /\ drv'[d].seen.attempt = rows'[drv'[d].p].attempt =>
                   /\ gates'[drv'[d].p] = NoGate
                   /\ rows'[drv'[d].p].status = "running" => rows'[drv'[d].p].owner = d
  <2>1. PICK p \in Plan : p = drv'[d].p
    BY DEF PathTypeOK, CallerType
  <2>0. /\ rows[p].attempt \in Nat /\ rows'[p].attempt \in Nat
        /\ drv[d].seen.attempt \in Nat /\ drv'[d].seen.attempt \in Nat
    BY DEF PathTypeOK, RowType, CallerType
  <2>2. CASE drv'[d] # drv[d]
    <3>1. /\ rows[p].status \in {"ready", "running", "retry_wait"} /\ gates'[p] = gates[p]
          /\ rows'[p].attempt = drv'[d].seen.attempt /\ rows'[p].owner = d
      BY <1>2, <2>1, <2>2 DEF Moves, CallerStep
    <3>2. gates[p] = NoGate
      BY <3>1 DEF Gates, Gated, RowEnd
    <3>. QED  BY <2>0, <2>1, <3>1, <3>2
  <2>3. CASE drv'[d] = drv[d]
    <3>1. /\ drv[d].seen.attempt <= rows[p].attempt
          /\ drv[d].seen.attempt = rows[p].attempt =>
                /\ gates[p] = NoGate
                /\ rows[p].status = "running" => rows[p].owner = d
      BY <1>2, <2>1, <2>3 DEF Gates, Attempted
    <3>2. rows[p].attempt <= rows'[p].attempt
      BY EndedRests
    <3>3. ASSUME drv[d].seen.attempt = rows'[p].attempt
          PROVE  /\ gates'[p] = NoGate
                 /\ rows'[p].status = "running" => rows'[p].owner = d
      <4>1. /\ rows[p].attempt = rows'[p].attempt /\ gates[p] = NoGate
            /\ rows[p].status = "running" => rows[p].owner = d
        BY <2>0, <3>1, <3>2, <3>3
      <4>2. CASE Rests(p)
        BY <4>1, <4>2 DEF Rests
      <4>3. ~Closed(p) /\ ~Rearmed(p)
        BY <4>1 DEF Closed, Rearmed, NoGate, RowEnd
      <4>4. ASSUME NEW e \in Caller PROVE ~ClaimedBy(e, p)
        BY <2>0, <4>1 DEF ClaimedBy
      <4>5. ASSUME NEW e \in Caller PROVE ~ParkedBy(e, p)
        BY <1>2, <2>1, <2>3, <4>1 DEF ParkedBy, Owns
      <4>6. ASSUME NEW e \in Caller, MovedBy(e, p) \/ InsertedBy(e, p)
            PROVE  gates'[p] = gates[p] /\ rows'[p].status # "running"
        BY <4>6 DEF MovedBy, InsertedBy, Row
      <4>. QED  BY <4>1, <4>2, <4>3, <4>4, <4>5, <4>6 DEF Moves, RowStep
    <3>. QED  BY <2>0, <2>1, <2>3, <3>1, <3>2, <3>3
  <2>. QED  BY <2>2, <2>3
<1>. QED  BY <1>1, <1>2 DEF Gates, Attempted

\* Where no condition is decided at a homeostat: a homeostat is open exactly while
\* its process waits and ends as it does, whatever late failures, expired leases
\* and overlapping advances do to the row (park_homeostat_process and the verbs of
\* the operators).
THEOREM GatesFollow == PlainSources /\ PathSpec => []GateFollowsProcess
<1>. SUFFICES ASSUME PlainSources PROVE PathSpec => []GateFollowsProcess
  OBVIOUS
<1>1. PathInit => Gates
  <2>. SUFFICES ASSUME PathInit PROVE Gates
    OBVIOUS
  <2>1. \A p \in Plan : gates[p] = NoGate /\ rows[p].status # "waiting"
    BY DEF PathInit, Row
  <2>2. \A d \in Caller : drv[d].pc # "run"
    BY DEF PathInit, Idle
  <2>. QED  BY <2>1, <2>2 DEF Gates, Gated, Attempted
<1>2. PathTypeOK /\ PathTypeOK' /\ Basics /\ Conditions /\ Gates /\ Moves => Gates'
  BY GatesKept
<1>3. PathTypeOK /\ Gates => GateFollowsProcess
  <2>. SUFFICES ASSUME PathTypeOK, Gates, NEW p \in Plan
                PROVE  /\ rows[p].status = "waiting" <=> gates[p].status = "open"
                       /\ gates[p].status \in DOMAIN RowEnd =>
                             rows[p].status = RowEnd[gates[p].status]
    BY DEF GateFollowsProcess
  <2>1. Gated(p)
    BY DEF Gates
  <2>2. CASE gates[p] = NoGate
    BY <2>1, <2>2 DEF Gated, NoGate, RowEnd
  <2>3. CASE gates[p] # NoGate
    BY <2>1, <2>3 DEF Gated, RowEnd
  <2>. QED  BY <2>2, <2>3
<1>. QED  BY <1>1, <1>2, <1>3, BasicsInit, BasicsKept, ConditionsInit, ConditionsKept,
             EveryStepMoves, PathTypeCorrect, PTL DEF PathSpec

=============================================================================
