--------------------------- MODULE HostJournalProofs ---------------------------
(***************************************************************************)
(* Theorems about HostJournal, for any runs, processes, homes, threads,    *)
(* workers and documents and whatever the bounds; whatever statuses the    *)
(* callers ask for, but for CallbacksEnd.                                  *)
(***************************************************************************)
EXTENDS HostJournal, TLAPS

-----------------------------------------------------------------------------
(* Types.                                                                  *)

\* A thread that is recording knows the row it records, and then its status.
KeysKnown ==
    \A t \in Thread :
        /\ rec[t].pc # "idle" => rec[t].key \in Key
        /\ rec[t].pc = "finish" => rec[t].to \in {"succeeded", "failed"}

\* The constant rows, gates and records are of their types.
LEMMA BlankTypes ==
    /\ NoRow \in HostRow
    /\ NoGate \in [status : GateTerminal \cup {"open", "absent"}, out : Docs]
    /\ \A status \in Status, attempt \in Nat, out \in Docs :
          InsertedRow(status, attempt, out) \in HostRow
BY DEF NoRow, HostRow, NoGate, Docs, InsertedRow

\* A row with another status, output, owner, lease end or attempt is a row.
LEMMA RowUpdates ==
    ASSUME NEW row \in HostRow, NEW status \in Status, NEW out \in Docs,
           NEW w \in Worker \cup {Nobody}, NEW n \in Nat, NEW attempt \in Nat
    PROVE  /\ [row EXCEPT !.status = status] \in HostRow
           /\ [row EXCEPT !.status = status, !.out = out] \in HostRow
           /\ [row EXCEPT !.owner = w, !.expires = n] \in HostRow
           /\ [row EXCEPT !.status = status, !.owner = w, !.expires = n] \in HostRow
           /\ [row EXCEPT !.status = status, !.owner = w, !.expires = n, !.out = out]
                 \in HostRow
           /\ [row EXCEPT !.status = status, !.owner = w, !.expires = n, !.attempt = attempt]
                 \in HostRow
<1>. USE DEF HostRow
<1>1. [row EXCEPT !.status = status] \in HostRow
  OBVIOUS
<1>2. [row EXCEPT !.status = status, !.out = out] \in HostRow
  OBVIOUS
<1>3. [row EXCEPT !.owner = w, !.expires = n] \in HostRow
  OBVIOUS
<1>4. [row EXCEPT !.status = status, !.owner = w, !.expires = n] \in HostRow
  OBVIOUS
<1>5. [row EXCEPT !.status = status, !.owner = w, !.expires = n, !.out = out] \in HostRow
  OBVIOUS
<1>6. [row EXCEPT !.status = status, !.owner = w, !.expires = n, !.attempt = attempt]
         \in HostRow
  OBVIOUS
<1>. QED  BY <1>1, <1>2, <1>3, <1>4, <1>5, <1>6

\* An empty database is well typed.
LEMMA HostTypeInit == HostInit => HostTypeOK /\ KeysKnown
<1>. SUFFICES ASSUME HostInit PROVE HostTypeOK /\ KeysKnown
  OBVIOUS
<1>1. /\ now \in Nat /\ rows \in [Key -> HostRow]
      /\ gates \in [Key -> [status : GateTerminal \cup {"open", "absent"}, out : Docs]]
      /\ runs \in [Run -> [status : RunStatuses \cup {"absent"}, born : Nat]]
  BY BlankTypes DEF HostInit
<1>2. /\ flight \in [Home -> Thread \cup {Nobody}]
      /\ rec \in [Thread -> [pc : {"idle", "start", "call", "finish"}, key : Key \cup {<<>>},
                             born : Nat, to : {"none", "succeeded", "failed"}]]
      /\ KeysKnown
  BY DEF HostInit, Idle, KeysKnown
<1>3. /\ rcv \in [worker : Worker \cup {Nobody}, at : Nat, todo : SUBSET (Key \X HostRow),
                   sure : SUBSET (Key \X {"failed", "retry_wait"})]
      /\ view.at \in Int /\ view.expired \subseteq Key
  BY DEF HostInit, NoRecovery, NoView
<1>4. /\ called \in [Run \X Process \X (1..MaxBirths) -> Nat]
      /\ lost \subseteq Ticket
      /\ acks \subseteq [at : Ticket, status : Status, out : Docs]
  BY DEF HostInit
<1>. QED  BY <1>1, <1>2, <1>3, <1>4 DEF HostTypeOK

\* The calls of the application, whichever name they are made by.
LEMMA LifecycleCases ==
    ASSUME Lifecycle
    PROVE  \/ \E r \in Run, status \in RunAsked :
                 UpsertRunMetadata(r, status) \/ TransitionRun(r, status) \/ FinalizeRun(r, status)
           \/ \E k \in Key, status \in Status, attempt \in 1..Budget, out \in Docs :
                 UpsertProcess(k, status, attempt, out)
           \/ \E k \in Key, b \in GateTerminal, out \in Docs, blocked \in BOOLEAN :
                 CompleteWaitingProcess(k, b, out, blocked)
           \/ \E r \in Run : DeleteTerminalRun(r)
<1>1. "waiting" \in Status /\ Asked \subseteq Status
  BY AskedAssumption DEF Status, OpenStatus
<1>2. CASE \E k \in Key, attempt \in 1..Budget, out \in Docs :
              \/ \E status \in Asked : UpsertProcess(k, status, attempt, out)
              \/ ParkProcess(k, attempt, out)
  <2>1. PICK k \in Key, attempt \in 1..Budget, out \in Docs :
              \/ \E status \in Asked : UpsertProcess(k, status, attempt, out)
              \/ ParkProcess(k, attempt, out)
    BY <1>2
  <2>2. \E status \in Status : UpsertProcess(k, status, attempt, out)
    BY <1>1, <2>1 DEF ParkProcess
  <2>. QED  BY <2>2
<1>. QED  BY <1>2 DEF Lifecycle

\* Writing runs and rows keeps the types.
LEMMA LifecycleTypes ==
    ASSUME HostTypeOK, KeysKnown, Lifecycle
    PROVE  HostTypeOK' /\ KeysKnown'
<1>. DEFINE GateType == [status : GateTerminal \cup {"open", "absent"}, out : Docs]
            RunType == [status : RunStatuses \cup {"absent"}, born : Nat]
<1>0. /\ runs \in [Run -> RunType] /\ rows \in [Key -> HostRow]
      /\ gates \in [Key -> GateType]
      /\ acks \subseteq [at : Ticket, status : Status, out : Docs]
  BY DEF HostTypeOK
<1>1. ASSUME NEW r \in Run, NEW status \in RunAsked,
             UpsertRunMetadata(r, status) \/ TransitionRun(r, status) \/ FinalizeRun(r, status)
      PROVE  HostTypeOK' /\ KeysKnown'
  <2>1. status \in RunStatuses
    BY AskedAssumption
  <2>2. CASE InsertRun(r, status) /\ UpsertRunMetadata(r, status)
    <3>1. runs' \in [Run -> RunType]
      BY <1>0, <2>1, <2>2 DEF InsertRun
    <3>. QED  BY <2>2, <3>1 DEF UpsertRunMetadata, HostTypeOK, KeysKnown
  <2>3. CASE MoveRun(r, status) /\ (UpsertRunMetadata(r, status) \/ TransitionRun(r, status))
    <3>1. runs' = [runs EXCEPT ![r].status = status]
      BY <1>0, <2>3 DEF MoveRun
    <3>2. runs[r] \in RunType /\ [runs[r] EXCEPT !.status = status] \in RunType
      BY <1>0, <2>1
    <3>3. runs' \in [Run -> RunType]
      BY <1>0, <3>1, <3>2
    <3>. QED  BY <2>3, <3>3 DEF UpsertRunMetadata, TransitionRun, HostTypeOK, KeysKnown
  <2>. QED  BY <1>1, <2>2, <2>3 DEF UpsertRunMetadata, TransitionRun, FinalizeRun
<1>2. ASSUME NEW k \in Key, NEW status \in Status, NEW attempt \in 1..Budget,
             NEW out \in Docs, UpsertProcess(k, status, attempt, out)
      PROVE  HostTypeOK' /\ KeysKnown'
  <2>1. rows[k] \in HostRow /\ attempt \in Nat
    BY <1>0, HostBoundsAssumption
  <2>2. PICK row \in HostRow : rows' = [rows EXCEPT ![k] = row]
    <3>1. InsertedRow(status, attempt, out) \in HostRow
      BY <1>0, <2>1, BlankTypes
    <3>2. /\ [rows[k] EXCEPT !.owner = Nobody, !.expires = 0] \in HostRow
          /\ [[rows[k] EXCEPT !.owner = Nobody, !.expires = 0]
                EXCEPT !.status = status, !.attempt = attempt, !.out = out] \in HostRow
      BY <1>0, <2>1 DEF HostRow
    <3>. QED  BY <1>2, <3>1, <3>2 DEF UpsertProcess
  <2>3. rows' \in [Key -> HostRow]
    BY <1>0, <2>2
  <2>. QED  BY <1>2, <2>3 DEF UpsertProcess, HostTypeOK, KeysKnown
<1>3. ASSUME NEW k \in Key, NEW b \in GateTerminal, NEW out \in Docs,
             NEW blocked \in BOOLEAN, CompleteWaitingProcess(k, b, out, blocked)
      PROVE  HostTypeOK' /\ KeysKnown'
  <2>1. rows[k] \in HostRow /\ gates[k] \in GateType /\ k[1] \in Run /\ k[2] \in Process
    BY <1>0 DEF Key
  <2>2. ProcessFor[b] \in Status /\ RunFor[b] \in RunStatuses
    BY DEF ProcessFor, RunFor, GateTerminal, Status, TerminalStatus, RunStatuses, RunTerminal
  <2>3. rows' \in [Key -> HostRow]
    <3>1. CASE CompleteReplayed(k, b, out, blocked)
      BY <1>0, <2>1, <3>1 DEF CompleteReplayed, HostRow
    <3>2. CASE CompleteWaiting(k, b, out, blocked)
      BY <1>0, <2>1, <2>2, <3>2 DEF CompleteWaiting, HostRow
    <3>. QED  BY <1>3, <3>1, <3>2 DEF CompleteWaitingProcess
  <2>4. runs' \in [Run -> RunType]
    <3>1. runs' = runs \/ runs' = [runs EXCEPT ![k[1]].status = RunFor[b]]
      BY <1>3 DEF CompleteWaitingProcess, CompleteReplayed, CompleteWaiting
    <3>2. runs \in [Run -> RunType]
      BY <1>0
    <3>3. [runs[k[1]] EXCEPT !.status = RunFor[b]] \in RunType
      BY <1>0, <2>1, <2>2, <3>2
    <3>. HIDE DEF RunType
    <3>4. [runs EXCEPT ![k[1]] = [runs[k[1]] EXCEPT !.status = RunFor[b]]] \in [Run -> RunType]
      BY ONLY <3>2, <3>3
    <3>. QED  BY <1>0, <3>1, <3>2, <3>4
  <2>5. gates' \in [Key -> GateType]
    <3>1. ClosedGate(gates[k], b, out) \in GateType
      BY <1>0, <2>1 DEF ClosedGate
    <3>2. gates' = gates \/ gates' = [gates EXCEPT ![k] = ClosedGate(gates[k], b, out)]
      BY <1>3 DEF CompleteWaitingProcess, CompleteReplayed, CompleteWaiting
    <3>. QED  BY <1>0, <3>1, <3>2
  <2>6. acks' \subseteq [at : Ticket, status : Status, out : Docs]
    <3>1. Incarnation(k) \in Ticket
      BY <1>0, <2>1 DEF Incarnation, Ticket
    <3>2. acks' = acks \cup {[at |-> Incarnation(k), status |-> ProcessFor[b], out |-> out]}
      BY <1>3 DEF CompleteWaitingProcess
    <3>. QED  BY <1>0, <2>2, <3>1, <3>2
  <2>. QED  BY <1>3, <2>3, <2>4, <2>5, <2>6 DEF CompleteWaitingProcess, HostTypeOK, KeysKnown
<1>4. ASSUME NEW r \in Run, DeleteTerminalRun(r)
      PROVE  HostTypeOK' /\ KeysKnown'
  <2>1. rows' \in [Key -> HostRow] /\ gates' \in [Key -> GateType] /\ runs' \in [Run -> RunType]
    BY <1>0, <1>4, BlankTypes DEF DeleteTerminalRun
  <2>. QED  BY <1>4, <2>1 DEF DeleteTerminalRun, HostTypeOK, KeysKnown
<1>. QED  BY ONLY Lifecycle, LifecycleCases, <1>1, <1>2, <1>3, <1>4

\* Callbacks and their records keep the types.
LEMMA RecordTypes ==
    ASSUME HostTypeOK, KeysKnown, Record \/ \E h \in Home : Crash(h)
    PROVE  HostTypeOK' /\ KeysKnown'
<1>. DEFINE RecType == [pc : {"idle", "start", "call", "finish"}, key : Key \cup {<<>>},
                        born : Nat, to : {"none", "succeeded", "failed"}]
            Flights == [Home -> Thread \cup {Nobody}]
<1>0. /\ Idle \in RecType /\ \A t \in Thread : HomeOf[t] \in Home
      /\ rec \in [Thread -> RecType] /\ flight \in Flights /\ KeysKnown
      /\ runs \in [Run -> [status : RunStatuses \cup {"absent"}, born : Nat]]
      /\ rows \in [Key -> HostRow] /\ lost \subseteq Ticket
      /\ called \in [Run \X Process \X (1..MaxBirths) -> Nat]
  BY HomeAssumption DEF Idle, HostTypeOK
<1>l. ASSUME NEW t \in Thread, Leave(t)
      PROVE  flight' \in Flights /\ rec' \in [Thread -> RecType] /\ KeysKnown'
  BY <1>0, <1>l DEF Leave, Idle, KeysKnown
<1>1. ASSUME NEW t \in Thread, NEW k \in Key, RecordEnter(t, k)
      PROVE  HostTypeOK' /\ KeysKnown'
  <2>1. flight' \in Flights
    BY <1>0, <1>1 DEF RecordEnter
  <2>2. [Idle EXCEPT !.pc = "start", !.key = k] \in RecType
    BY <1>0 DEF Idle
  <2>3. rec' \in [Thread -> RecType] /\ KeysKnown'
    BY <1>0, <1>1, <2>2 DEF RecordEnter, Idle, KeysKnown
  <2>. QED  BY <1>1, <2>1, <2>3 DEF RecordEnter, HostTypeOK, KeysKnown
<1>2. ASSUME NEW t \in Thread, RecordStart(t)
      PROVE  HostTypeOK' /\ KeysKnown'
  <2>1. rec[t].key \in Key /\ rec[t].key[1] \in Run /\ rec[t] \in RecType
    BY <1>0, <1>2 DEF RecordStart, Key, KeysKnown
  <2>2. CASE MayStart(rec[t].key)
    <3>1. InsertedRow("running", 1, NoDoc) \in HostRow
      BY BlankTypes DEF Status, OpenStatus, Docs
    <3>2. rows' \in [Key -> HostRow]
      BY <1>0, <1>2, <2>2, <3>1 DEF RecordStart, MayStart, Leave
    <3>3. runs[rec[t].key[1]].born \in Nat
      BY <1>0, <2>1
    <3>4. rec' = [rec EXCEPT ![t] = [rec[t] EXCEPT !.pc = "call",
                                        !.born = runs[rec[t].key[1]].born]]
      BY <1>0, <1>2, <2>2 DEF RecordStart
    <3>5. rec' \in [Thread -> RecType] /\ KeysKnown'
      BY <1>0, <2>1, <3>3, <3>4 DEF KeysKnown
    <3>. QED  BY <1>2, <2>2, <3>2, <3>5 DEF RecordStart, HostTypeOK, KeysKnown
  <2>3. CASE ~MayStart(rec[t].key)
    <3>1. Leave(t) /\ UNCHANGED rows
      BY <1>0, <1>2, <2>3 DEF RecordStart
    <3>. QED  BY <1>2, <1>l, <3>1 DEF RecordStart, HostTypeOK, KeysKnown
  <2>. QED  BY <2>2, <2>3
<1>3. ASSUME NEW t \in Thread, NEW to \in {"succeeded", "failed"}, RecordCall(t, to)
      PROVE  HostTypeOK' /\ KeysKnown'
  <2>1. rec[t] \in RecType /\ [rec[t] EXCEPT !.pc = "finish", !.to = to] \in RecType
    BY <1>0
  <2>2. rec' = [rec EXCEPT ![t] = [rec[t] EXCEPT !.pc = "finish", !.to = to]]
    BY <1>0, <1>3 DEF RecordCall
  <2>4. rec[t].key \in Key
    BY <1>0, <1>3 DEF RecordCall, KeysKnown
  <2>5. rec' \in [Thread -> RecType] /\ KeysKnown'
    BY <1>0, <2>1, <2>2, <2>4 DEF KeysKnown
  <2>3. called' \in [Run \X Process \X (1..MaxBirths) -> Nat]
    <3>1. ASSUME NEW S, NEW f \in [S -> Nat], NEW c
          PROVE  [f EXCEPT ![c] = f[c] + 1] \in [S -> Nat]
      <4>1. CASE c \in S
        BY ONLY <3>1, <4>1
      <4>2. CASE c \notin S
        <5>1. [f EXCEPT ![c] = f[c] + 1] = f
          BY ONLY <3>1, <4>2
        <5>. QED  BY ONLY <3>1, <5>1
      <4>. QED  BY <4>1, <4>2
    <3>2. called' = [called EXCEPT ![<<rec[t].key[1], rec[t].key[2], rec[t].born>>] = @ + 1]
      BY <1>0, <1>3 DEF RecordCall
    <3>. QED  BY <1>0, <3>1, <3>2
  <2>. QED  BY <1>3, <2>5, <2>3 DEF RecordCall, HostTypeOK, KeysKnown
<1>4. ASSUME NEW t \in Thread, NEW out \in Docs, RecordFinish(t, out)
      PROVE  HostTypeOK' /\ KeysKnown'
  <2>1. rec[t] \in RecType /\ rec[t].key \in Key
    BY <1>0, <1>4 DEF RecordFinish, KeysKnown
  <2>2. rows' \in [Key -> HostRow]
    <3>. DEFINE k == rec[t].key
                new == [rows[k] EXCEPT !.status = rec[t].to,
                                       !.out = IF rec[t].to = "failed" THEN NoDoc ELSE out]
    <3>1. rec[t].to \in Status /\ NoDoc \in Docs
      BY <1>0, <1>4 DEF KeysKnown, RecordFinish, Status, TerminalStatus, Docs
    <3>2. new \in HostRow
      <4>1. rows[k] \in HostRow
        BY <1>0, <2>1
      <4>. QED  BY <1>0, <3>1, <4>1, RowUpdates
    <3>3. rows' = rows \/ rows' = [rows EXCEPT ![k] = new]
      BY ONLY <1>4 DEF RecordFinish
    <3>. QED  BY <1>0, <2>1, <3>2, <3>3
  <2>. QED  BY <1>4, <1>l, <2>2 DEF RecordFinish, HostTypeOK, KeysKnown
<1>5. ASSUME NEW t \in Thread, RecordFails(t)
      PROVE  HostTypeOK' /\ KeysKnown'
  <2>1. lost' \subseteq Ticket
    BY <1>0, <1>5 DEF KeysKnown, RecordFails, Ticket, Key
  <2>. QED  BY <1>5, <1>l, <2>1 DEF RecordFails, HostTypeOK, KeysKnown
<1>6. ASSUME NEW h \in Home, Crash(h)
      PROVE  HostTypeOK' /\ KeysKnown'
  <2>1. lost' \subseteq Ticket
    <3>1. \A t \in Thread : rec[t].pc \in {"call", "finish"} =>
              <<rec[t].key[1], rec[t].key[2], rec[t].born>> \in Ticket
      BY <1>0 DEF KeysKnown, Ticket, Key
    <3>. QED  BY <1>0, <1>6, <3>1 DEF Crash
  <2>2. rec' \in [Thread -> RecType] /\ KeysKnown' /\ flight' \in Flights
    BY <1>0, <1>6 DEF Crash, Idle, KeysKnown
  <2>. QED  BY <1>6, <2>1, <2>2 DEF Crash, HostTypeOK, KeysKnown
<1>. QED  BY <1>1, <1>2, <1>3, <1>4, <1>5, <1>6 DEF Record

\* So do the steps of native drivers, the clock, recovery and inspection.
LEMMA OtherTypes ==
    ASSUME HostTypeOK, KeysKnown, Native \/ Upkeep \/ Tick
    PROVE  HostTypeOK' /\ KeysKnown'
<1>. DEFINE GateType == [status : GateTerminal \cup {"open", "absent"}, out : Docs]
            RecoveryType == [worker : Worker \cup {Nobody}, at : Nat,
                             todo : SUBSET (Key \X HostRow),
                             sure : SUBSET (Key \X {"failed", "retry_wait"})]
<1>0. /\ rows \in [Key -> HostRow] /\ gates \in [Key -> GateType] /\ now \in Nat
      /\ rcv \in RecoveryType
  BY DEF HostTypeOK
<1>s. {"ready", "running", "waiting", "retry_wait", "succeeded", "failed"} \subseteq Status
      /\ NoDoc \in Docs /\ 0 \in Nat /\ Nobody \in Worker \cup {Nobody}
  BY DEF Status, OpenStatus, TerminalStatus, Docs
<1>r. ASSUME NEW k \in Key, NEW row \in HostRow, rows' = [rows EXCEPT ![k] = row],
             UNCHANGED <<now, runs, gates, flight, rec, rcv, view, called, lost, acks>>
      PROVE  HostTypeOK' /\ KeysKnown'
  <2>1. rows' \in [Key -> HostRow]
    BY <1>0, <1>r
  <2>. QED  BY <1>r, <2>1 DEF HostTypeOK, KeysKnown
<1>1. ASSUME NEW k \in Key, ScheduleRow(k)
      PROVE  HostTypeOK' /\ KeysKnown'
  <2>1. [NoRow EXCEPT !.status = "ready", !.max = Budget] \in HostRow
    BY <1>s, HostBoundsAssumption DEF NoRow, HostRow
  <2>. QED  BY <1>1, <1>r, <2>1 DEF ScheduleRow
<1>2. ASSUME NEW k \in Key, RetryRow(k)
      PROVE  HostTypeOK' /\ KeysKnown'
  <2>1. [rows[k] EXCEPT !.status = "retry_wait"] \in HostRow
    BY <1>0, <1>s, RowUpdates
  <2>. QED  BY <1>2, <1>r, <2>1 DEF RetryRow
<1>3. ASSUME NEW w \in Worker, NEW k \in Key, NEW until \in (now + 1)..(now + MaxLease),
             ClaimRow(w, k, until)
      PROVE  HostTypeOK' /\ KeysKnown'
  <2>1. until \in Nat /\ rows[k].attempt + 1 \in Nat
    BY <1>0, HostBoundsAssumption DEF HostRow
  <2>2. [rows[k] EXCEPT !.status = "running", !.owner = w, !.expires = until,
                        !.attempt = rows[k].attempt + 1] \in HostRow
    BY <1>0, <1>s, <2>1, RowUpdates
  <2>. QED  BY <1>3, <1>r, <2>2 DEF ClaimRow
<1>4. ASSUME NEW w \in Worker, NEW k \in Key, ParkRow(w, k)
      PROVE  HostTypeOK' /\ KeysKnown'
  <2>1. [rows[k] EXCEPT !.status = "waiting", !.owner = Nobody, !.expires = 0] \in HostRow
    BY <1>0, <1>s, RowUpdates
  <2>2. rows' \in [Key -> HostRow]
    BY <1>0, <1>4, <2>1 DEF ParkRow
  <2>3. [NoGate EXCEPT !.status = "open"] \in GateType
    BY <1>s DEF NoGate
  <2>4. gates' \in [Key -> GateType]
    BY <1>0, <1>4, <2>3 DEF ParkRow
  <2>. QED  BY <1>4, <2>2, <2>4 DEF ParkRow, HostTypeOK, KeysKnown
<1>5. ASSUME NEW w \in Worker, NEW k \in Key, NEW to \in {"succeeded", "failed"},
             NEW out \in Docs, SettleRow(w, k, to, out)
      PROVE  HostTypeOK' /\ KeysKnown'
  <2>. DEFINE new == [rows[k] EXCEPT !.status = to, !.owner = Nobody, !.expires = 0,
                                     !.out = IF to = "failed" THEN NoDoc ELSE out]
  <2>1. new \in HostRow
    <3>1. rows[k] \in HostRow /\ to \in Status
          /\ (IF to = "failed" THEN NoDoc ELSE out) \in Docs
      BY <1>0, <1>s
    <3>. QED  BY <1>s, <3>1, RowUpdates
  <2>2. rows' = [rows EXCEPT ![k] = new]
    BY <1>5 DEF SettleRow
  <2>. QED  BY <1>5, <1>r, <2>1, <2>2 DEF SettleRow
<1>6. ASSUME NEW w \in Worker, NEW at \in 0..now, RecoverSelect(w, at)
      PROVE  HostTypeOK' /\ KeysKnown'
  <2>1. rcv' \in RecoveryType
    BY <1>0, <1>6 DEF RecoverSelect
  <2>. QED  BY <1>6, <2>1 DEF RecoverSelect, HostTypeOK, KeysKnown
<1>7. CASE RecoverCheck
  <2>1. PICK item \in rcv.todo :
          /\ rcv' = NoRecovery \/ (\E to \in Resolutions(rows[item[1]]) :
               rcv' = [rcv EXCEPT !.todo = @ \ {item}, !.sure = {<<item[1], to>>}])
          /\ UNCHANGED <<now, runs, rows, gates, flight, rec, view, called, lost, acks>>
    BY <1>7 DEF RecoverCheck
  <2>2. rcv' \in RecoveryType
    <3>1. CASE rcv' = NoRecovery
      BY <1>s, <3>1 DEF NoRecovery
    <3>2. ASSUME NEW to \in Resolutions(rows[item[1]]),
                 rcv' = [rcv EXCEPT !.todo = @ \ {item}, !.sure = {<<item[1], to>>}]
          PROVE  rcv' \in RecoveryType
      <4>1. item[1] \in Key /\ to \in {"failed", "retry_wait"}
        BY <1>0 DEF Resolutions
      <4>2. {<<item[1], to>>} \subseteq Key \X {"failed", "retry_wait"}
        BY <4>1
      <4>3. rcv.todo \ {item} \subseteq Key \X HostRow
        BY <1>0
      <4>. HIDE DEF Key, HostRow
      <4>. QED  BY <1>0, <3>2, <4>2, <4>3
    <3>. QED  BY <2>1, <3>1, <3>2
  <2>. QED  BY <2>1, <2>2 DEF HostTypeOK, KeysKnown
<1>10. CASE RecoverResolve
  <2>1. PICK item \in rcv.sure :
          /\ \/ rows' = rows
             \/ rows' = [rows EXCEPT ![item[1]] = [rows[item[1]] EXCEPT !.status = item[2],
                           !.owner = Nobody, !.expires = 0,
                           !.out = IF item[2] = "failed" THEN NoDoc ELSE rows[item[1]].out]]
          /\ rcv' \in {NoRecovery, [rcv EXCEPT !.sure = {}]}
          /\ UNCHANGED <<now, runs, gates, flight, rec, view, called, lost, acks>>
    BY <1>10 DEF RecoverResolve
  <2>2. item[1] \in Key /\ rows[item[1]] \in HostRow /\ item[2] \in Status
    BY <1>0, <1>s
  <2>. DEFINE new == [rows[item[1]] EXCEPT !.status = item[2], !.owner = Nobody, !.expires = 0,
                            !.out = IF item[2] = "failed" THEN NoDoc ELSE rows[item[1]].out]
  <2>3. new \in HostRow
    <3>1. (IF item[2] = "failed" THEN NoDoc ELSE rows[item[1]].out) \in Docs
      BY <1>s, <2>2 DEF HostRow
    <3>. QED  BY <1>s, <2>2, <3>1, RowUpdates
  <2>4. rows' \in [Key -> HostRow]
    BY <1>0, <2>1, <2>3
  <2>5. rcv' \in RecoveryType
    BY <1>0, <1>s, <2>1 DEF NoRecovery
  <2>. QED  BY <2>1, <2>4, <2>5 DEF HostTypeOK, KeysKnown
<1>11. CASE RecoverStops
  <2>1. rcv' \in RecoveryType
    BY <1>s, <1>11 DEF RecoverStops, NoRecovery
  <2>. QED  BY <1>11, <2>1 DEF RecoverStops, HostTypeOK, KeysKnown
<1>8. CASE InspectLeases
  BY <1>0, <1>8 DEF InspectLeases, HostTypeOK, KeysKnown
<1>9. CASE Tick
  BY <1>9 DEF Tick, HostTypeOK, KeysKnown
<1>. QED
  <2>1. CASE Native
    BY <1>1, <1>2, <1>3, <1>4, <1>5, <2>1 DEF Native
  <2>2. CASE Upkeep
    BY <1>6, <1>7, <1>8, <1>10, <1>11, <2>2 DEF Upkeep
  <2>. QED  BY <1>9, <2>1, <2>2

\* Every step keeps the types.
LEMMA HostTypeInduction ==
    HostTypeOK /\ KeysKnown /\ [HostNext]_hostVars => HostTypeOK' /\ KeysKnown'
<1>. SUFFICES ASSUME HostTypeOK, KeysKnown, [HostNext]_hostVars
              PROVE  HostTypeOK' /\ KeysKnown'
  OBVIOUS
<1>1. CASE UNCHANGED hostVars
  BY <1>1 DEF hostVars, HostTypeOK, KeysKnown
<1>. QED  BY <1>1, LifecycleTypes, RecordTypes, OtherTypes DEF HostNext

\* HostTypeOK is an invariant: every call of every application leaves the tables,
\* the locks and the callbacks of the shapes that the code writes.
THEOREM HostTypeCorrect == HostSpec => []HostTypeOK
<1>. QED  BY HostTypeInit, HostTypeInduction, PTL DEF HostSpec

-----------------------------------------------------------------------------
(* What a step may do to one run, one row and one blocker.                 *)

\* recover_incomplete selects running rows only.
SelectedRunning == \A item \in rcv.todo : item[2].status = "running"

\* A run that exists has been created, at most MaxBirths times.
BirthsCounted ==
    \A r \in Run : /\ runs[r].born \in 0..MaxBirths
                   /\ RunExists(r) => runs[r].born # 0

\* A recovery selects, looks at one of the rows it selected, resolves, or ends.
LEMMA RecoveryMoves ==
    ASSUME HostTypeOK, [HostNext]_hostVars
    PROVE  \/ rcv' = rcv
           \/ \E w \in Worker, at \in 0..now : RecoverSelect(w, at)
           \/ rcv'.todo = {} /\ rcv'.sure = {}
           \/ rcv'.todo = rcv.todo /\ rcv'.at = rcv.at /\ rcv'.sure = {}
           \/ /\ rcv'.todo \subseteq rcv.todo /\ rcv'.at = rcv.at
              /\ \E item \in rcv.todo : \E to \in Resolutions(rows[item[1]]) :
                    StillSame(item[1], item[2]) /\ rcv'.sure = {<<item[1], to>>}
<1>. DEFINE Moved ==
           \/ rcv' = rcv
           \/ \E w \in Worker, at \in 0..now : RecoverSelect(w, at)
           \/ rcv'.todo = {} /\ rcv'.sure = {}
           \/ rcv'.todo = rcv.todo /\ rcv'.at = rcv.at /\ rcv'.sure = {}
           \/ /\ rcv'.todo \subseteq rcv.todo /\ rcv'.at = rcv.at
              /\ \E item \in rcv.todo : \E to \in Resolutions(rows[item[1]]) :
                    StillSame(item[1], item[2]) /\ rcv'.sure = {<<item[1], to>>}
<1>. SUFFICES Moved
  OBVIOUS
<1>0. rcv \in [worker : Worker \cup {Nobody}, at : Nat, todo : SUBSET (Key \X HostRow),
               sure : SUBSET (Key \X {"failed", "retry_wait"})]
  BY DEF HostTypeOK
<1>e. rcv' = NoRecovery => rcv'.todo = {} /\ rcv'.sure = {}
  BY DEF NoRecovery
<1>1. CASE RecoverCheck
  <2>1. PICK item \in rcv.todo :
          IF StillSame(item[1], item[2])
          THEN \E to \in Resolutions(rows[item[1]]) :
                  rcv' = [rcv EXCEPT !.todo = @ \ {item}, !.sure = {<<item[1], to>>}]
          ELSE rcv' = NoRecovery
    BY <1>1 DEF RecoverCheck
  <2>2. ASSUME NEW to \in Resolutions(rows[item[1]]),
               rcv' = [rcv EXCEPT !.todo = @ \ {item}, !.sure = {<<item[1], to>>}]
        PROVE  /\ rcv'.todo \subseteq rcv.todo /\ rcv'.at = rcv.at
               /\ rcv'.sure = {<<item[1], to>>}
    BY <1>0, <2>2
  <2>. QED  BY <1>e, <2>1, <2>2
<1>2. CASE RecoverResolve \/ RecoverStops
  <2>1. rcv' = NoRecovery \/ rcv' = [rcv EXCEPT !.sure = {}]
    BY <1>2 DEF RecoverResolve, RecoverStops
  <2>2. rcv' = [rcv EXCEPT !.sure = {}] =>
            rcv'.todo = rcv.todo /\ rcv'.at = rcv.at /\ rcv'.sure = {}
    BY <1>0
  <2>. QED  BY <1>e, <2>1, <2>2
<1>4. CASE Lifecycle
  <2>1. ASSUME NEW k \in Key, NEW status \in Status, NEW attempt \in 1..Budget,
               NEW out \in Docs, UpsertProcess(k, status, attempt, out)
        PROVE  rcv' = rcv
    BY <2>1 DEF UpsertProcess
  <2>2. ASSUME NEW k \in Key, NEW b \in GateTerminal, NEW out \in Docs,
               NEW blocked \in BOOLEAN, CompleteWaitingProcess(k, b, out, blocked)
        PROVE  rcv' = rcv
    BY <2>2 DEF CompleteWaitingProcess
  <2>3. ASSUME NEW q \in Run, NEW status \in RunAsked,
               UpsertRunMetadata(q, status) \/ TransitionRun(q, status)
                 \/ FinalizeRun(q, status)
        PROVE  rcv' = rcv
    BY <2>3 DEF UpsertRunMetadata, TransitionRun, FinalizeRun
  <2>4. ASSUME NEW q \in Run, DeleteTerminalRun(q) PROVE rcv' = rcv
    BY <2>4 DEF DeleteTerminalRun
  <2>. QED  BY <1>4, <2>1, <2>2, <2>3, <2>4, LifecycleCases
<1>5. CASE Record \/ \E h \in Home : Crash(h)
  BY <1>5 DEF Record, RecordEnter, RecordStart, RecordCall, RecordFinish, RecordFails, Crash
<1>6. CASE Native \/ Tick \/ InspectLeases \/ UNCHANGED hostVars
  BY <1>6 DEF Native, ScheduleRow, RetryRow, ClaimRow, ParkRow, SettleRow, Tick,
              InspectLeases, hostVars
<1>. QED  BY <1>1, <1>2, <1>4, <1>5, <1>6 DEF HostNext, Upkeep

LEMMA SelectionInduction ==
    HostTypeOK /\ SelectedRunning /\ [HostNext]_hostVars => SelectedRunning'
<1>. SUFFICES ASSUME HostTypeOK, SelectedRunning, [HostNext]_hostVars PROVE SelectedRunning'
  OBVIOUS
<1>1. CASE rcv'.todo \subseteq rcv.todo
  BY <1>1 DEF SelectedRunning
<1>2. ASSUME NEW w \in Worker, NEW at \in 0..now, RecoverSelect(w, at)
      PROVE  SelectedRunning'
  <2>1. PICK due \in SUBSET Key : /\ \A k \in due : rows[k].status = "running"
                                 /\ rcv'.todo = {<<k, rows[k]>> : k \in due}
    BY <1>2 DEF RecoverSelect
  <2>. QED  BY <2>1 DEF SelectedRunning
<1>. QED  BY <1>1, <1>2, RecoveryMoves

\* A run is created, moved or deleted; nothing else happens to its incarnation.
LEMMA RunMoves ==
    ASSUME HostTypeOK, [HostNext]_hostVars, NEW r \in Run
    PROVE  \/ /\ RunExists(r) /\ RunExists(r)' /\ runs'[r].born = runs[r].born
              /\ runs[r].status \in RunTerminal => runs'[r].status = runs[r].status
           \/ ~RunExists(r) /\ ~RunExists(r)' /\ runs'[r].born = runs[r].born
           \/ /\ ~RunExists(r) /\ RunExists(r)' /\ runs'[r].born = runs[r].born + 1
              /\ runs[r].born < MaxBirths
              /\ UNCHANGED <<rows, gates, rec, called, acks>>
           \/ DeleteTerminalRun(r) /\ ~RunExists(r)' /\ runs'[r].born = runs[r].born
<1>. DEFINE Moved(q) ==
              \/ /\ RunExists(q) /\ RunExists(q)' /\ runs'[q].born = runs[q].born
                 /\ runs[q].status \in RunTerminal => runs'[q].status = runs[q].status
              \/ ~RunExists(q) /\ ~RunExists(q)' /\ runs'[q].born = runs[q].born
              \/ /\ ~RunExists(q) /\ RunExists(q)' /\ runs'[q].born = runs[q].born + 1
                 /\ runs[q].born < MaxBirths
                 /\ UNCHANGED <<rows, gates, rec, called, acks>>
              \/ DeleteTerminalRun(q) /\ ~RunExists(q)' /\ runs'[q].born = runs[q].born
<1>. SUFFICES Moved(r)
  OBVIOUS
<1>0. runs \in [Run -> [status : RunStatuses \cup {"absent"}, born : Nat]]
      /\ "absent" \notin RunStatuses
  BY DEF HostTypeOK, RunStatuses, RunOpen, RunTerminal
<1>1. CASE runs' = runs
  BY <1>1 DEF RunExists
<1>2. ASSUME NEW q \in Run, NEW status \in RunAsked,
             UpsertRunMetadata(q, status) \/ TransitionRun(q, status) \/ FinalizeRun(q, status)
      PROVE  Moved(r)
  <2>1. status # "absent" /\ status \in RunStatuses
    BY <1>0, AskedAssumption
  <2>2. InsertRun(q, status) \/ MoveRun(q, status)
    BY <1>2 DEF UpsertRunMetadata, TransitionRun, FinalizeRun
  <2>3. UNCHANGED <<rows, gates, rec, called, acks>>
    BY <1>2 DEF UpsertRunMetadata, TransitionRun, FinalizeRun
  <2>4. CASE InsertRun(q, status)
    BY <1>0, <2>1, <2>3, <2>4 DEF InsertRun, RunExists
  <2>5. CASE MoveRun(q, status)
    <3>1. runs[q].status \in RunOpen /\ runs' = [runs EXCEPT ![q].status = status]
      BY <2>5 DEF MoveRun
    <3>2. runs[q].status \notin RunTerminal /\ runs[q].status # "absent"
      BY <3>1 DEF RunOpen, RunTerminal
    <3>. QED  BY <1>0, <2>1, <3>1, <3>2 DEF RunExists
  <2>. QED  BY <2>2, <2>4, <2>5
<1>3. ASSUME NEW k \in Key, NEW b \in GateTerminal, NEW out \in Docs,
             NEW blocked \in BOOLEAN, CompleteWaitingProcess(k, b, out, blocked)
      PROVE  Moved(r)
  <2>1. CASE CompleteReplayed(k, b, out, blocked)
    BY <1>1, <2>1 DEF CompleteReplayed
  <2>2. CASE CompleteWaiting(k, b, out, blocked)
    <3>1. /\ runs[k[1]].status \in RunTerminal => runs[k[1]].status = RunFor[b]
          /\ runs' = [runs EXCEPT ![k[1]].status = RunFor[b]]
          /\ RunExists(k[1]) /\ k[1] \in Run
      BY <1>3, <2>2 DEF CompleteWaiting, CompleteWaitingProcess, Key
    <3>2. RunFor[b] # "absent"
      BY DEF RunFor, GateTerminal
    <3>. QED  BY <1>0, <3>1, <3>2 DEF RunExists
  <2>. QED  BY <1>3, <2>1, <2>2 DEF CompleteWaitingProcess
<1>4. ASSUME NEW q \in Run, DeleteTerminalRun(q)
      PROVE  Moved(r)
  BY <1>0, <1>4 DEF DeleteTerminalRun, RunExists
<1>9. ASSUME NEW k \in Key, NEW status \in Status, NEW attempt \in 1..Budget,
             NEW out \in Docs, UpsertProcess(k, status, attempt, out)
      PROVE  Moved(r)
  BY <1>1, <1>9 DEF UpsertProcess
<1>5. CASE Lifecycle
  <2>. HIDE DEF Moved
  <2>. QED  BY ONLY <1>5, <1>2, <1>3, <1>4, <1>9, LifecycleCases
<1>6. CASE Record \/ \E h \in Home : Crash(h)
  BY <1>1, <1>6 DEF Record, RecordEnter, RecordStart, RecordCall, RecordFinish, RecordFails, Crash
<1>7. CASE Native \/ Upkeep \/ Tick \/ UNCHANGED hostVars
  BY <1>1, <1>7 DEF Native, ScheduleRow, RetryRow, ClaimRow, ParkRow, SettleRow, Tick,
                    Upkeep, RecoverSelect, RecoverCheck, RecoverResolve, RecoverStops,
                    InspectLeases, hostVars
<1>. QED  BY <1>5, <1>6, <1>7 DEF HostNext

\* What becomes of a row while its run stays: it keeps its status and output, it
\* is retried, or it was open or absent and is written.
RowMove(k, old, new) ==
    \/ new.status = old.status /\ new.out = old.out
    \/ old.status = "failed" /\ new.status = "retry_wait" /\ old.attempt < old.max
    \/ old.status \in OpenStatus /\ new.status \in Status
    \/ old.status = "absent" /\ new.status \in Status /\ RunExists(k[1])

LEMMA OneRow ==
    ASSUME HostTypeOK, NEW k \in Key, NEW j \in Key, NEW row,
           rows' = [rows EXCEPT ![j] = row], RowMove(j, rows[j], row)
    PROVE  RowMove(k, rows[k], rows'[k])
<1>1. rows \in [Key -> HostRow]
  BY DEF HostTypeOK
<1>2. CASE k = j
  BY <1>1, <1>2
<1>3. CASE k # j
  BY <1>1, <1>3 DEF RowMove
<1>. QED  BY <1>2, <1>3

\* A row moves as RowMove says, or its run is deleted.
LEMMA RowMoves ==
    ASSUME HostTypeOK, KeysKnown, SelectedRunning, [HostNext]_hostVars, NEW k \in Key
    PROVE  RowMove(k, rows[k], rows'[k]) \/ DeleteTerminalRun(k[1])
<1>. DEFINE Moved == RowMove(k, rows[k], rows'[k]) \/ DeleteTerminalRun(k[1])
<1>. SUFFICES Moved
  OBVIOUS
<1>0. /\ rows \in [Key -> HostRow]
      /\ \A j \in Key : j[1] \in Run
  BY DEF HostTypeOK, Key
<1>s. /\ {"ready", "running", "waiting", "retry_wait", "succeeded", "failed"} \subseteq Status
      /\ {"ready", "running", "waiting", "retry_wait"} \subseteq OpenStatus
      /\ \A b \in GateTerminal : ProcessFor[b] \in Status
  BY DEF Status, OpenStatus, TerminalStatus, ProcessFor, GateTerminal
<1>u. CASE rows' = rows
  BY <1>u DEF RowMove
<1>1. ASSUME NEW j \in Key, NEW status \in Status, NEW attempt \in 1..Budget,
             NEW out \in Docs, UpsertProcess(j, status, attempt, out)
      PROVE  Moved
  <2>1. CASE rows[j].status = "absent"
             /\ rows' = [rows EXCEPT ![j] = InsertedRow(status, attempt, out)]
    <3>1. RowMove(j, rows[j], InsertedRow(status, attempt, out))
      BY <1>1, <2>1 DEF RowMove, UpsertProcess, InsertedRow, NoRow
    <3>. QED  BY <2>1, <3>1, OneRow
  <2>2. CASE rows' = [rows EXCEPT ![j] = [rows[j] EXCEPT !.owner = Nobody, !.expires = 0]]
    <3>. DEFINE new == [rows[j] EXCEPT !.owner = Nobody, !.expires = 0]
    <3>1. RowMove(j, rows[j], new)
      <4>1. rows[j] \in HostRow
        BY <1>0
      <4>. QED  BY <4>1 DEF RowMove, HostRow
    <3>2. rows' = [rows EXCEPT ![j] = new]
      BY <2>2
    <3>. HIDE DEF new
    <3>. QED  BY <3>1, <3>2, OneRow
  <2>3. CASE MayOverwrite(rows[j], status)
             /\ rows' = [rows EXCEPT ![j] = [[rows[j] EXCEPT !.owner = Nobody, !.expires = 0]
                            EXCEPT !.status = status, !.attempt = attempt, !.out = out]]
    <3>. DEFINE new == [[rows[j] EXCEPT !.owner = Nobody, !.expires = 0]
                            EXCEPT !.status = status, !.attempt = attempt, !.out = out]
    <3>1. RowMove(j, rows[j], new)
      <4>1. rows[j] \in HostRow
        BY <1>0
      <4>2. new.status = status
        BY <4>1 DEF HostRow
      <4>. QED  BY <2>3, <4>2 DEF RowMove, MayOverwrite
    <3>2. rows' = [rows EXCEPT ![j] = new]
      BY <2>3
    <3>. HIDE DEF new
    <3>. QED  BY <3>1, <3>2, OneRow
  <2>. QED  BY <1>1, <2>1, <2>2, <2>3 DEF UpsertProcess
<1>2. ASSUME NEW j \in Key, NEW b \in GateTerminal, NEW out \in Docs,
             NEW blocked \in BOOLEAN, CompleteWaitingProcess(j, b, out, blocked)
      PROVE  Moved
  <2>0. rows[j] \in HostRow
    BY <1>0
  <2>1. CASE CompleteReplayed(j, b, out, blocked)
    <3>. DEFINE new == [rows[j] EXCEPT !.owner = Nobody, !.expires = 0]
    <3>1. RowMove(j, rows[j], new)
      BY <2>0 DEF RowMove, HostRow
    <3>2. rows' = [rows EXCEPT ![j] = new]
      BY <2>1 DEF CompleteReplayed
    <3>. HIDE DEF new
    <3>. QED  BY <3>1, <3>2, OneRow
  <2>2. CASE CompleteWaiting(j, b, out, blocked)
    <3>. DEFINE new == [rows[j] EXCEPT !.status = ProcessFor[b], !.out = out]
    <3>1. new.status = ProcessFor[b] /\ rows[j].status = "waiting"
      BY <2>0, <2>2 DEF CompleteWaiting, HostRow
    <3>2. RowMove(j, rows[j], new)
      BY <1>s, <3>1 DEF RowMove
    <3>3. rows' = [rows EXCEPT ![j] = new]
      BY <2>2 DEF CompleteWaiting
    <3>. HIDE DEF new
    <3>. QED  BY <3>2, <3>3, OneRow
  <2>. QED  BY <1>2, <2>1, <2>2 DEF CompleteWaitingProcess
<1>3. ASSUME NEW r \in Run, DeleteTerminalRun(r)
      PROVE  Moved
  <2>1. k[1] # r => rows'[k] = rows[k]
    BY <1>3 DEF DeleteTerminalRun
  <2>. QED  BY <1>3, <2>1 DEF RowMove
<1>4. ASSUME NEW r \in Run, NEW status \in RunAsked,
             UpsertRunMetadata(r, status) \/ TransitionRun(r, status) \/ FinalizeRun(r, status)
      PROVE  Moved
  BY <1>4, <1>u DEF UpsertRunMetadata, TransitionRun, FinalizeRun
<1>5. CASE Lifecycle
  <2>. HIDE DEF Moved
  <2>. QED  BY ONLY <1>5, <1>1, <1>2, <1>3, <1>4, LifecycleCases
<1>6. ASSUME NEW t \in Thread, RecordStart(t)
      PROVE  Moved
  <2>. DEFINE j == rec[t].key
              new == InsertedRow("running", 1, NoDoc)
  <2>1. CASE MayStart(j) /\ rows' = [rows EXCEPT ![j] = new]
    <3>1. j \in Key
      BY <1>6 DEF RecordStart, KeysKnown
    <3>2. RowMove(j, rows[j], new)
      BY <1>s, <2>1 DEF RowMove, MayStart, InsertedRow, NoRow
    <3>. QED  BY <2>1, <3>1, <3>2, OneRow
  <2>. QED  BY <1>6, <1>u, <2>1 DEF RecordStart
<1>7. ASSUME NEW t \in Thread, NEW out \in Docs, RecordFinish(t, out)
      PROVE  Moved
  <2>. DEFINE j == rec[t].key
              new == [rows[j] EXCEPT !.status = rec[t].to,
                                     !.out = IF rec[t].to = "failed" THEN NoDoc ELSE out]
  <2>1. CASE MayFinish(j) /\ rows' = [rows EXCEPT ![j] = new]
    <3>1. j \in Key /\ rec[t].to \in Status
      BY <1>s, <1>7 DEF RecordFinish, KeysKnown
    <3>2. new.status = rec[t].to
      BY <1>0, <3>1 DEF HostRow
    <3>3. RowMove(j, rows[j], new)
      BY <1>s, <2>1, <3>1, <3>2 DEF RowMove, MayFinish
    <3>. HIDE DEF j, new
    <3>. QED  BY <2>1, <3>1, <3>3, OneRow
  <2>2. rows' = rows \/ (MayFinish(j) /\ rows' = [rows EXCEPT ![j] = new])
    BY ONLY <1>7 DEF RecordFinish
  <2>. HIDE DEF Moved, j, new
  <2>. QED  BY <1>u, <2>1, <2>2
<1>8. CASE \/ \E t \in Thread : \/ \E j \in Key : RecordEnter(t, j)
                               \/ \E to \in {"succeeded", "failed"} : RecordCall(t, to)
                               \/ RecordFails(t)
           \/ \E h \in Home : Crash(h)
  BY <1>8, <1>u DEF RecordEnter, RecordCall, RecordFails, Crash
<1>9. CASE Record
  <2>. HIDE DEF Moved
  <2>. QED  BY <1>6, <1>7, <1>8, <1>9 DEF Record
<1>10. ASSUME NEW j \in Key, ScheduleRow(j)
       PROVE  Moved
  <2>. DEFINE new == [NoRow EXCEPT !.status = "ready", !.max = Budget]
  <2>1. RowMove(j, rows[j], new)
    BY <1>s, <1>10 DEF RowMove, ScheduleRow, NoRow
  <2>. QED  BY <1>10, <2>1, OneRow DEF ScheduleRow
<1>11. ASSUME NEW j \in Key, RetryRow(j)
       PROVE  Moved
  <2>. DEFINE new == [rows[j] EXCEPT !.status = "retry_wait"]
  <2>1. new.status = "retry_wait"
    BY <1>0 DEF HostRow
  <2>2. RowMove(j, rows[j], new)
    BY <1>11, <2>1 DEF RowMove, RetryRow
  <2>3. rows' = [rows EXCEPT ![j] = new]
    BY <1>11 DEF RetryRow
  <2>. HIDE DEF new
  <2>. QED  BY <2>2, <2>3, OneRow
<1>12. ASSUME NEW w \in Worker, NEW j \in Key, NEW until \in (now + 1)..(now + MaxLease),
              ClaimRow(w, j, until)
       PROVE  Moved
  <2>. DEFINE new == [rows[j] EXCEPT !.status = "running", !.owner = w, !.expires = until,
                                     !.attempt = @ + 1]
  <2>1. new.status = "running" /\ rows[j].status \in OpenStatus
    BY <1>0, <1>s, <1>12 DEF HostRow, ClaimRow
  <2>2. RowMove(j, rows[j], new)
    BY <1>s, <2>1 DEF RowMove
  <2>3. rows' = [rows EXCEPT ![j] = new]
    BY <1>12 DEF ClaimRow
  <2>. HIDE DEF new
  <2>. QED  BY <2>2, <2>3, OneRow
<1>13. ASSUME NEW w \in Worker, NEW j \in Key, ParkRow(w, j)
       PROVE  Moved
  <2>. DEFINE new == [rows[j] EXCEPT !.status = "waiting", !.owner = Nobody, !.expires = 0]
  <2>1. new.status = "waiting" /\ rows[j].status \in OpenStatus
    BY <1>0, <1>s, <1>13 DEF HostRow, ParkRow
  <2>2. RowMove(j, rows[j], new)
    BY <1>s, <2>1 DEF RowMove
  <2>3. rows' = [rows EXCEPT ![j] = new]
    BY <1>13 DEF ParkRow
  <2>. HIDE DEF new
  <2>. QED  BY <2>2, <2>3, OneRow
<1>14. ASSUME NEW w \in Worker, NEW j \in Key, NEW to \in {"succeeded", "failed"},
              NEW out \in Docs, SettleRow(w, j, to, out)
       PROVE  Moved
  <2>. DEFINE new == [rows[j] EXCEPT !.status = to, !.owner = Nobody, !.expires = 0,
                                     !.out = IF to = "failed" THEN NoDoc ELSE out]
  <2>1. new.status = to /\ rows[j].status \in OpenStatus
    BY <1>0, <1>s, <1>14 DEF HostRow, SettleRow
  <2>2. RowMove(j, rows[j], new)
    BY <1>s, <2>1 DEF RowMove
  <2>3. rows' = [rows EXCEPT ![j] = new]
    BY <1>14 DEF SettleRow
  <2>. HIDE DEF new
  <2>. QED  BY <2>2, <2>3, OneRow
<1>15. CASE RecoverResolve
  <2>1. PICK item \in rcv.sure :
          \/ rows' = rows
          \/ /\ MayResolve(rows[item[1]], item[2])
             /\ rows' = [rows EXCEPT ![item[1]] = [rows[item[1]] EXCEPT !.status = item[2],
                           !.owner = Nobody, !.expires = 0,
                           !.out = IF item[2] = "failed" THEN NoDoc ELSE rows[item[1]].out]]
    BY <1>15 DEF RecoverResolve
  <2>2. item \in Key \X {"failed", "retry_wait"}
    BY DEF HostTypeOK
  <2>. DEFINE j == item[1]
              new == [rows[j] EXCEPT !.status = item[2], !.owner = Nobody, !.expires = 0,
                                     !.out = IF item[2] = "failed" THEN NoDoc ELSE rows[j].out]
  <2>3. CASE MayResolve(rows[j], item[2]) /\ rows' = [rows EXCEPT ![j] = new]
    <3>1. j \in Key /\ rows[j] \in HostRow /\ item[2] \in Status
      BY <1>0, <1>s, <2>2
    <3>2. new.status = item[2]
      BY <3>1 DEF HostRow
    <3>3. \/ rows[j].status \in OpenStatus
          \/ rows[j].status = "failed" /\ item[2] = "retry_wait" /\ rows[j].attempt < rows[j].max
      BY <2>3 DEF MayResolve, CanTransition
    <3>4. RowMove(j, rows[j], new)
      BY <3>1, <3>2, <3>3 DEF RowMove
    <3>. HIDE DEF j, new
    <3>. QED  BY <2>3, <3>1, <3>4, OneRow
  <2>. QED  BY <1>u, <2>1, <2>3
<1>16. CASE Tick \/ InspectLeases \/ (\E w \in Worker, at \in 0..now : RecoverSelect(w, at))
            \/ RecoverCheck \/ RecoverStops \/ UNCHANGED hostVars
  BY <1>16, <1>u DEF Tick, InspectLeases, RecoverSelect, RecoverCheck, RecoverStops, hostVars
<1>17. CASE Native \/ Upkeep
  <2>. HIDE DEF Moved
  <2>. QED  BY <1>10, <1>11, <1>12, <1>13, <1>14, <1>15, <1>16, <1>17 DEF Native, Upkeep
<1>. HIDE DEF Moved
<1>19. CASE \E h \in Home : Crash(h)
  BY <1>8, <1>19
<1>. QED  BY <1>5, <1>9, <1>16, <1>17, <1>19 DEF HostNext

\* What becomes of a blocker while its run stays: nothing, it opens, or it is
\* completed together with its row.
GateMove(k) ==
    \/ gates'[k] = gates[k]
    \/ /\ gates[k].status = "absent" /\ gates'[k].status = "open"
       /\ rows[k].status # "absent"
    \/ /\ gates[k].status = "open" /\ gates'[k].status \in GateTerminal
       /\ rows'[k].status = ProcessFor[gates'[k].status]
       /\ rows'[k].out = gates'[k].out

LEMMA GateMoves ==
    ASSUME HostTypeOK, [HostNext]_hostVars, NEW k \in Key
    PROVE  GateMove(k) \/ DeleteTerminalRun(k[1])
<1>. DEFINE Moved == GateMove(k) \/ DeleteTerminalRun(k[1])
<1>. SUFFICES Moved
  OBVIOUS
<1>0. /\ rows \in [Key -> HostRow]
      /\ gates \in [Key -> [status : GateTerminal \cup {"open", "absent"}, out : Docs]]
  BY DEF HostTypeOK
<1>u. CASE gates' = gates
  BY <1>u DEF GateMove
<1>1. ASSUME NEW j \in Key, NEW status \in Status, NEW attempt \in 1..Budget,
             NEW out \in Docs, UpsertProcess(j, status, attempt, out)
      PROVE  Moved
  BY <1>1, <1>u DEF UpsertProcess
<1>2. ASSUME NEW j \in Key, NEW b \in GateTerminal, NEW out \in Docs,
             NEW blocked \in BOOLEAN, CompleteWaitingProcess(j, b, out, blocked)
      PROVE  Moved
  <2>1. CASE CompleteReplayed(j, b, out, blocked)
    BY <1>u, <2>1 DEF CompleteReplayed
  <2>2. CASE CompleteWaiting(j, b, out, blocked)
    <3>1. gates' = gates \/ gates' = [gates EXCEPT ![j] = ClosedGate(@, b, out)]
      BY <2>2 DEF CompleteWaiting
    <3>2. CASE gates' = [gates EXCEPT ![j] = ClosedGate(@, b, out)]
      <4>1. CASE k = j /\ gates[k].status = "open"
        <5>1. gates'[k] = [status |-> b, out |-> out]
          BY <1>0, <3>2, <4>1 DEF ClosedGate
        <5>2. rows' = [rows EXCEPT ![j] = [rows[j] EXCEPT !.status = ProcessFor[b], !.out = out]]
          BY <2>2 DEF CompleteWaiting
        <5>3. rows'[k].status = ProcessFor[b] /\ rows'[k].out = out
          BY <1>0, <4>1, <5>2 DEF HostRow
        <5>. QED  BY <4>1, <5>1, <5>3 DEF GateMove
      <4>2. CASE ~(k = j /\ gates[k].status = "open")
        <5>1. gates'[k] = gates[k]
          BY <1>0, <3>2, <4>2 DEF ClosedGate
        <5>. QED  BY <5>1 DEF GateMove
      <4>. QED  BY <4>1, <4>2
    <3>. QED  BY <1>u, <3>1, <3>2
  <2>. QED  BY <1>2, <2>1, <2>2 DEF CompleteWaitingProcess
<1>3. ASSUME NEW r \in Run, DeleteTerminalRun(r)
      PROVE  Moved
  <2>1. k[1] # r => gates'[k] = gates[k]
    BY <1>3 DEF DeleteTerminalRun
  <2>. QED  BY <1>3, <2>1 DEF GateMove
<1>4. ASSUME NEW r \in Run, NEW status \in RunAsked,
             UpsertRunMetadata(r, status) \/ TransitionRun(r, status) \/ FinalizeRun(r, status)
      PROVE  Moved
  BY <1>4, <1>u DEF UpsertRunMetadata, TransitionRun, FinalizeRun
<1>5. CASE Lifecycle
  <2>. HIDE DEF Moved
  <2>. QED  BY ONLY <1>5, <1>1, <1>2, <1>3, <1>4, LifecycleCases
<1>6. CASE Record \/ \E h \in Home : Crash(h)
  BY <1>6, <1>u DEF Record, RecordEnter, RecordStart, RecordCall, RecordFinish, RecordFails, Crash
<1>7. ASSUME NEW w \in Worker, NEW j \in Key, ParkRow(w, j)
      PROVE  Moved
  <2>1. CASE k = j
    <3>1. gates[k].status = "absent" /\ rows[k].status = "running"
      BY <1>7, <2>1 DEF ParkRow
    <3>2. gates'[k].status = "open"
      BY <1>0, <1>7, <2>1 DEF ParkRow, NoGate
    <3>. QED  BY <3>1, <3>2 DEF GateMove
  <2>2. CASE k # j
    BY <1>0, <1>7, <2>2 DEF ParkRow, GateMove
  <2>. QED  BY <2>1, <2>2
<1>8. CASE Native \/ Upkeep \/ Tick \/ UNCHANGED hostVars
  <2>. HIDE DEF Moved
  <2>. QED  BY <1>8, <1>7, <1>u DEF Native, ScheduleRow, RetryRow, ClaimRow, SettleRow, Tick,
                    Upkeep, RecoverSelect, RecoverCheck, RecoverResolve, RecoverStops,
                    InspectLeases, hostVars
<1>. HIDE DEF Moved
<1>. QED  BY <1>5, <1>6, <1>8 DEF HostNext

-----------------------------------------------------------------------------
(* Rows, blockers and runs together.                                       *)

\* Rows and blockers are stored under runs that exist.
NoOrphans ==
    \A k \in Key : ~RunExists(k[1]) => rows[k].status = "absent" /\ gates[k].status = "absent"

\* No run was acknowledged before it was created, and every acknowledgement names
\* one of the outcomes of a completion.
AcksKnown ==
    \A a \in acks : /\ a.at[3] <= runs[a.at[1]].born
                    /\ a.status \in {"succeeded", "cancelled", "timed_out"}

\* The inductive invariant of GateMatchesRow and AcknowledgedIsStored.
TablesAgree ==
    /\ HostTypeOK /\ KeysKnown /\ SelectedRunning /\ BirthsCounted
    /\ NoOrphans /\ GateMatchesRow /\ AcksKnown /\ AcknowledgedIsStored

\* What a deletion leaves of a run's rows and blockers.
LEMMA Deleted ==
    ASSUME NEW k \in Key, DeleteTerminalRun(k[1])
    PROVE  rows'[k] = NoRow /\ gates'[k] = NoGate
BY DEF DeleteTerminalRun

\* A row that is terminal and not failed keeps its status and output.
LEMMA RowFrozen ==
    ASSUME HostTypeOK, KeysKnown, SelectedRunning, [HostNext]_hostVars, NEW k \in Key,
           rows[k].status \in {"succeeded", "cancelled", "timed_out"},
           ~DeleteTerminalRun(k[1])
    PROVE  rows'[k].status = rows[k].status /\ rows'[k].out = rows[k].out
<1>1. RowMove(k, rows[k], rows'[k])
  BY RowMoves
<1>. QED  BY <1>1 DEF RowMove, OpenStatus

LEMMA BirthsInduction ==
    HostTypeOK /\ BirthsCounted /\ [HostNext]_hostVars => BirthsCounted'
<1>. SUFFICES ASSUME HostTypeOK, BirthsCounted, [HostNext]_hostVars, NEW r \in Run
              PROVE  runs'[r].born \in 0..MaxBirths /\ (RunExists(r)' => runs'[r].born # 0)
  BY DEF BirthsCounted, RunExists
<1>1. /\ runs[r].born \in 0..MaxBirths /\ (RunExists(r) => runs[r].born # 0)
      /\ MaxBirths \in Nat
  BY HostBoundsAssumption DEF BirthsCounted
<1>2. \/ runs'[r].born = runs[r].born /\ (RunExists(r)' => RunExists(r))
      \/ runs'[r].born = runs[r].born + 1 /\ runs[r].born < MaxBirths
  BY RunMoves
<1>. QED  BY <1>1, <1>2

LEMMA OrphansInduction ==
    HostTypeOK /\ KeysKnown /\ SelectedRunning /\ NoOrphans /\ [HostNext]_hostVars => NoOrphans'
<1>. SUFFICES ASSUME HostTypeOK, KeysKnown, SelectedRunning, NoOrphans, [HostNext]_hostVars,
                     NEW k \in Key, ~RunExists(k[1])'
              PROVE  rows'[k].status = "absent" /\ gates'[k].status = "absent"
  BY DEF NoOrphans, RunExists
<1>1. CASE DeleteTerminalRun(k[1])
  BY <1>1, Deleted DEF NoRow, NoGate
<1>2. CASE ~DeleteTerminalRun(k[1])
  <2>1. ~RunExists(k[1])
    <3>1. k[1] \in Run
      BY DEF Key
    <3>. QED  BY <1>2, <3>1, RunMoves
  <2>2. rows[k].status = "absent" /\ gates[k].status = "absent"
    BY <2>1 DEF NoOrphans
  <2>3. rows'[k].status = "absent"
    <3>1. RowMove(k, rows[k], rows'[k])
      BY <1>2, RowMoves
    <3>. QED  BY <2>1, <2>2, <3>1 DEF RowMove, OpenStatus
  <2>4. gates'[k].status = "absent"
    <3>1. GateMove(k)
      BY <1>2, GateMoves
    <3>. QED  BY <2>2, <3>1 DEF GateMove
  <2>. QED  BY <2>3, <2>4
<1>. QED  BY <1>1, <1>2

LEMMA GateInduction ==
    HostTypeOK /\ KeysKnown /\ SelectedRunning /\ GateMatchesRow /\ [HostNext]_hostVars
        => GateMatchesRow'
<1>. SUFFICES ASSUME HostTypeOK, KeysKnown, SelectedRunning, GateMatchesRow,
                     [HostNext]_hostVars, NEW k \in Key, gates'[k].status \in GateTerminal
              PROVE  /\ rows'[k].status = ProcessFor[gates'[k].status]
                     /\ rows'[k].out = gates'[k].out
  BY DEF GateMatchesRow
<1>1. ~DeleteTerminalRun(k[1])
  BY Deleted DEF NoGate, GateTerminal
<1>2. GateMove(k)
  BY <1>1, GateMoves
<1>3. CASE gates'[k] = gates[k]
  <2>1. rows[k].status = ProcessFor[gates[k].status] /\ rows[k].out = gates[k].out
    BY <1>3 DEF GateMatchesRow
  <2>2. rows[k].status \in {"succeeded", "cancelled", "timed_out"}
    BY <1>3, <2>1 DEF GateTerminal, ProcessFor
  <2>. QED  BY <1>1, <1>3, <2>1, <2>2, RowFrozen
<1>. QED  BY <1>2, <1>3 DEF GateMove, GateTerminal

\* A step that acknowledges something is a completion.
LEMMA AcksMove ==
    ASSUME [HostNext]_hostVars
    PROVE  \/ acks' = acks
           \/ \E k \in Key, b \in GateTerminal, out \in Docs, blocked \in BOOLEAN :
                 CompleteWaitingProcess(k, b, out, blocked)
<1>1. CASE Lifecycle
  <2>1. \A k \in Key, status \in Status, attempt \in 1..Budget, out \in Docs :
           UpsertProcess(k, status, attempt, out) => acks' = acks
    BY DEF UpsertProcess
  <2>2. \A r \in Run, status \in RunAsked :
           UpsertRunMetadata(r, status) \/ TransitionRun(r, status) \/ FinalizeRun(r, status)
             => acks' = acks
    BY DEF UpsertRunMetadata, TransitionRun, FinalizeRun
  <2>3. \A r \in Run : DeleteTerminalRun(r) => acks' = acks
    BY DEF DeleteTerminalRun
  <2>. QED  BY <1>1, <2>1, <2>2, <2>3, LifecycleCases
<1>2. CASE Record \/ \E h \in Home : Crash(h)
  BY <1>2 DEF Record, RecordEnter, RecordStart, RecordCall, RecordFinish, RecordFails, Crash
<1>3. CASE Native \/ Upkeep \/ Tick \/ UNCHANGED hostVars
  BY <1>3 DEF Native, ScheduleRow, RetryRow, ClaimRow, ParkRow, SettleRow, Tick,
              Upkeep, RecoverSelect, RecoverCheck, RecoverResolve, RecoverStops,
              InspectLeases, hostVars
<1>. QED  BY <1>1, <1>2, <1>3 DEF HostNext

\* A completion stores what it acknowledges.
LEMMA CompletionStores ==
    ASSUME HostTypeOK, NEW k \in Key, NEW b \in GateTerminal, NEW out \in Docs,
           NEW blocked \in BOOLEAN, CompleteWaitingProcess(k, b, out, blocked)
    PROVE  rows'[k].status = ProcessFor[b] /\ rows'[k].out = out
<1>0. rows \in [Key -> HostRow] /\ rows[k] \in HostRow
  BY DEF HostTypeOK
<1>1. CASE CompleteReplayed(k, b, out, blocked)
  <2>1. rows[k].status = ProcessFor[b] /\ rows[k].out = out
        /\ rows' = [rows EXCEPT ![k] = [rows[k] EXCEPT !.owner = Nobody, !.expires = 0]]
    BY <1>1 DEF CompleteReplayed, Exact
  <2>. QED  BY <1>0, <2>1 DEF HostRow
<1>2. CASE CompleteWaiting(k, b, out, blocked)
  <2>1. rows' = [rows EXCEPT ![k] = [rows[k] EXCEPT !.status = ProcessFor[b], !.out = out]]
    BY <1>2 DEF CompleteWaiting
  <2>. QED  BY <1>0, <2>1 DEF HostRow
<1>. QED  BY <1>1, <1>2 DEF CompleteWaitingProcess

LEMMA AcksInduction == TablesAgree /\ [HostNext]_hostVars => AcksKnown' /\ AcknowledgedIsStored'
<1>. SUFFICES ASSUME TablesAgree, [HostNext]_hostVars
              PROVE  AcksKnown' /\ AcknowledgedIsStored'
  OBVIOUS
<1>t. /\ HostTypeOK /\ KeysKnown /\ SelectedRunning /\ BirthsCounted
      /\ NoOrphans /\ GateMatchesRow /\ AcksKnown /\ AcknowledgedIsStored
  BY DEF TablesAgree
<1>0. /\ runs \in [Run -> [status : RunStatuses \cup {"absent"}, born : Nat]]
      /\ acks \subseteq [at : Ticket, status : Status, out : Docs]
  BY <1>t DEF HostTypeOK
<1>n. \A r \in Run : runs[r].born \in Nat
  BY <1>0
<1>b. \A r \in Run : /\ runs'[r].born \in {runs[r].born, runs[r].born + 1}
                     /\ RunExists(r)' => runs'[r].born = runs[r].born + 1 \/ RunExists(r)
  <2>. SUFFICES ASSUME NEW r \in Run
                PROVE  /\ runs'[r].born \in {runs[r].born, runs[r].born + 1}
                       /\ RunExists(r)' => runs'[r].born = runs[r].born + 1 \/ RunExists(r)
    OBVIOUS
  <2>. QED  BY <1>t, RunMoves
<1>1. ASSUME NEW a \in acks
      PROVE  /\ a.at[3] <= runs'[a.at[1]].born
             /\ a.status \in {"succeeded", "cancelled", "timed_out"}
             /\ \A k \in Key : RunExists(k[1])' /\ a.at = Incarnation(k)'
                                 => rows'[k].status = a.status /\ rows'[k].out = a.out
  <2>1. /\ a.at[1] \in Run /\ a.at[3] \in Nat /\ a.at[3] <= runs[a.at[1]].born
        /\ a.status \in {"succeeded", "cancelled", "timed_out"}
    BY <1>0, <1>t DEF AcksKnown, Ticket
  <2>2. a.at[3] <= runs'[a.at[1]].born
    BY <1>b, <1>n, <2>1
  <2>3. ASSUME NEW k \in Key, RunExists(k[1])', a.at = Incarnation(k)'
        PROVE  rows'[k].status = a.status /\ rows'[k].out = a.out
    <3>1. k[1] \in Run /\ a.at[1] = k[1] /\ a.at[3] = runs'[k[1]].born
      BY <2>3 DEF Key, Incarnation
    <3>2. RunExists(k[1]) /\ runs'[k[1]].born = runs[k[1]].born
      BY <1>b, <1>n, <2>1, <2>3, <3>1
    <3>3. a.at = Incarnation(k)
      BY <2>3, <3>2 DEF Incarnation
    <3>4. rows[k].status = a.status /\ rows[k].out = a.out
      BY <1>t, <3>2, <3>3 DEF AcknowledgedIsStored
    <3>5. ~DeleteTerminalRun(k[1])
      <4>1. DeleteTerminalRun(k[1]) => ~RunExists(k[1])'
        BY <1>0, <3>1 DEF DeleteTerminalRun, RunExists
      <4>. QED  BY <2>3, <4>1
    <3>. QED  BY <1>t, <2>1, <3>4, <3>5, RowFrozen
  <2>. QED  BY <2>1, <2>2, <2>3
<1>2. CASE acks' = acks
  BY <1>1, <1>2 DEF AcksKnown, AcknowledgedIsStored
<1>3. ASSUME NEW j \in Key, NEW b \in GateTerminal, NEW out \in Docs,
             NEW blocked \in BOOLEAN, CompleteWaitingProcess(j, b, out, blocked)
      PROVE  AcksKnown' /\ AcknowledgedIsStored'
  <2>. DEFINE new == [at |-> Incarnation(j), status |-> ProcessFor[b], out |-> out]
  <2>1. acks' = acks \cup {new}
    BY <1>3 DEF CompleteWaitingProcess
  <2>2. new.at[1] = j[1] /\ new.at[3] = runs[j[1]].born /\ j[1] \in Run
    BY DEF Incarnation, Key
  <2>3. new.at[3] <= runs'[new.at[1]].born
    BY <1>b, <1>n, <2>2
  <2>4. new.status \in {"succeeded", "cancelled", "timed_out"}
    BY DEF ProcessFor, GateTerminal
  <2>5. ASSUME NEW k \in Key, new.at = Incarnation(k)'
        PROVE  rows'[k].status = new.status /\ rows'[k].out = new.out
    <3>1. j = k
      <4>1. j[1] = k[1] /\ j[2] = k[2]
        BY <2>5 DEF Incarnation
      <4>. QED  BY <4>1 DEF Key
    <3>. QED  BY <1>3, <1>t, <3>1, CompletionStores
  <2>. HIDE DEF new
  <2>. QED  BY <1>1, <2>1, <2>3, <2>4, <2>5 DEF AcksKnown, AcknowledgedIsStored
<1>. QED  BY <1>2, <1>3, AcksMove

LEMMA TablesInit == HostInit => TablesAgree
<1>. SUFFICES ASSUME HostInit PROVE TablesAgree
  OBVIOUS
<1>1. HostTypeOK /\ KeysKnown
  BY HostTypeInit
<1>2. SelectedRunning /\ BirthsCounted
  <2>1. rcv.todo = {}
    BY DEF HostInit, NoRecovery
  <2>2. \A r \in Run : runs[r].status = "absent" /\ runs[r].born = 0
    BY DEF HostInit
  <2>. QED  BY <2>1, <2>2, HostBoundsAssumption DEF SelectedRunning, BirthsCounted, RunExists
<1>3. NoOrphans /\ GateMatchesRow
  <2>1. \A k \in Key : rows[k] = NoRow /\ gates[k] = NoGate
    BY DEF HostInit
  <2>. QED  BY <2>1 DEF NoOrphans, GateMatchesRow, NoRow, NoGate, GateTerminal
<1>4. AcksKnown /\ AcknowledgedIsStored
  BY DEF HostInit, AcksKnown, AcknowledgedIsStored
<1>. QED  BY <1>1, <1>2, <1>3, <1>4 DEF TablesAgree

LEMMA TablesInduction == TablesAgree /\ [HostNext]_hostVars => TablesAgree'
<1>. SUFFICES ASSUME TablesAgree, [HostNext]_hostVars PROVE TablesAgree'
  OBVIOUS
<1>1. /\ HostTypeOK /\ KeysKnown /\ SelectedRunning /\ BirthsCounted
      /\ NoOrphans /\ GateMatchesRow
  BY DEF TablesAgree
<1>2. (HostTypeOK /\ KeysKnown)'
  BY <1>1, HostTypeInduction
<1>3. (SelectedRunning /\ BirthsCounted /\ NoOrphans /\ GateMatchesRow)'
  BY <1>1, SelectionInduction, BirthsInduction, OrphansInduction, GateInduction
<1>. QED  BY <1>2, <1>3, AcksInduction DEF TablesAgree

\* The tables always agree: the invariant that the following theorems need.
THEOREM TablesAlwaysAgree == HostSpec => []TablesAgree
<1>. QED  BY TablesInit, TablesInduction, PTL DEF HostSpec

\* GateMatchesRow is an invariant: a completed blocker tells the end and the output
\* of its process (complete_waiting_process and every other writer of rows).
THEOREM GatesMatchRows == HostSpec => []GateMatchesRow
<1>1. TablesAgree => GateMatchesRow
  BY DEF TablesAgree
<1>. QED  BY <1>1, TablesAlwaysAgree, PTL

\* AcknowledgedIsStored is an invariant: complete_waiting_process never answers
\* "stored" to a caller whose outcome is not the row's.
THEOREM AcknowledgementsHold == HostSpec => []AcknowledgedIsStored
<1>1. TablesAgree => AcknowledgedIsStored
  BY DEF TablesAgree
<1>. QED  BY <1>1, TablesAlwaysAgree, PTL

\* Every step freezes what is terminal (the guards of journal.mojo that the Python
\* callers rely on).
LEMMA TerminalStep ==
    TablesAgree /\ [HostNext]_hostVars =>
       /\ \A r \in Run : runs[r].status \in RunTerminal =>
             runs'[r].status \in {runs[r].status, "absent"}
       /\ \A k \in Key : RunExists(k[1])' =>
             /\ rows[k].status \in TerminalStatus =>
                   \/ rows'[k].status = rows[k].status /\ rows'[k].out = rows[k].out
                   \/ /\ rows[k].status = "failed" /\ rows'[k].status = "retry_wait"
                      /\ rows[k].attempt < rows[k].max
             /\ gates[k].status \in GateTerminal => gates'[k] = gates[k]
<1>. SUFFICES ASSUME TablesAgree, [HostNext]_hostVars
              PROVE  /\ \A r \in Run : runs[r].status \in RunTerminal =>
                           runs'[r].status \in {runs[r].status, "absent"}
                     /\ \A k \in Key : RunExists(k[1])' =>
                           /\ rows[k].status \in TerminalStatus =>
                                 \/ rows'[k].status = rows[k].status /\ rows'[k].out = rows[k].out
                                 \/ /\ rows[k].status = "failed" /\ rows'[k].status = "retry_wait"
                                    /\ rows[k].attempt < rows[k].max
                           /\ gates[k].status \in GateTerminal => gates'[k] = gates[k]
  OBVIOUS
<1>t. HostTypeOK /\ KeysKnown /\ SelectedRunning
  BY DEF TablesAgree
<1>1. ASSUME NEW r \in Run, runs[r].status \in RunTerminal
      PROVE  runs'[r].status \in {runs[r].status, "absent"}
  <2>1. RunExists(r)
    BY <1>1 DEF RunExists, RunTerminal
  <2>2. \/ RunExists(r)' /\ runs'[r].status = runs[r].status
        \/ ~RunExists(r)'
    BY <1>1, <1>t, <2>1, RunMoves
  <2>. QED  BY <2>2 DEF RunExists
<1>2. ASSUME NEW k \in Key, RunExists(k[1])'
      PROVE  /\ rows[k].status \in TerminalStatus =>
                   \/ rows'[k].status = rows[k].status /\ rows'[k].out = rows[k].out
                   \/ /\ rows[k].status = "failed" /\ rows'[k].status = "retry_wait"
                      /\ rows[k].attempt < rows[k].max
             /\ gates[k].status \in GateTerminal => gates'[k] = gates[k]
  <2>1. ~DeleteTerminalRun(k[1])
    <3>1. k[1] \in Run /\ runs \in [Run -> [status : RunStatuses \cup {"absent"}, born : Nat]]
      BY <1>t DEF Key, HostTypeOK
    <3>2. DeleteTerminalRun(k[1]) => ~RunExists(k[1])'
      BY <3>1 DEF DeleteTerminalRun, RunExists
    <3>. QED  BY <1>2, <3>2
  <2>2. RowMove(k, rows[k], rows'[k]) /\ GateMove(k)
    BY <1>t, <2>1, RowMoves, GateMoves
  <2>. QED  BY <2>2 DEF RowMove, GateMove, OpenStatus, TerminalStatus, GateTerminal
<1>. QED  BY <1>1, <1>2

\* TerminalFrozen holds of every step: nothing terminal is overwritten or reopened,
\* but for the retry of a failed row.
THEOREM TerminalsFrozen == HostSpec => TerminalFrozen
<1>1. TablesAgree /\ [HostNext]_hostVars =>
        [/\ \A r \in Run : runs[r].status \in RunTerminal =>
              runs'[r].status \in {runs[r].status, "absent"}
         /\ \A k \in Key : RunExists(k[1])' =>
              /\ rows[k].status \in TerminalStatus =>
                    \/ rows'[k].status = rows[k].status /\ rows'[k].out = rows[k].out
                    \/ /\ rows[k].status = "failed" /\ rows'[k].status = "retry_wait"
                       /\ rows[k].attempt < rows[k].max
              /\ gates[k].status \in GateTerminal => gates'[k] = gates[k]]_hostVars
  BY TerminalStep
<1>. QED  BY <1>1, TablesAlwaysAgree, PTL DEF HostSpec, TerminalFrozen

-----------------------------------------------------------------------------
(* Callbacks.                                                              *)

\* The callback of the row's b-th incarnation has run, or a thread is about to.
Spent(k, b) ==
    \/ called[<<k[1], k[2], b>>] # 0
    \/ \E t \in Thread : rec[t].pc = "call" /\ rec[t].key = k /\ rec[t].born = b

\* Nothing is spent of a run's future incarnations, and of the present one only
\* with a row.
SpentHasRow ==
    \A k \in Key, b \in 1..MaxBirths : Spent(k, b) =>
        /\ b <= runs[k[1]].born
        /\ RunExists(k[1]) /\ b = runs[k[1]].born => rows[k].status # "absent"

\* Threads about to run a callback have tickets of their own, all unused.
TicketsUnused ==
    \A t \in Thread : rec[t].pc = "call" =>
        /\ rec[t].born \in 1..MaxBirths
        /\ called[<<rec[t].key[1], rec[t].key[2], rec[t].born>>] = 0
        /\ \A u \in Thread : /\ rec[u].pc = "call" /\ rec[u].key = rec[t].key
                             /\ rec[u].born = rec[t].born
                             => u = t

\* The inductive invariant of CallbackOnce.
CallsCounted == TablesAgree /\ SpentHasRow /\ TicketsUnused /\ CallbackOnce

\* A step begins a callback's row, runs a callback, or does neither.
LEMMA CallMoves ==
    ASSUME HostTypeOK, KeysKnown, [HostNext]_hostVars
    PROVE  \/ /\ called' = called
              /\ \A t \in Thread : rec'[t] = rec[t] \/ rec'[t].pc # "call"
           \/ \E t \in Thread, to \in {"succeeded", "failed"} : RecordCall(t, to)
           \/ \E t \in Thread : RecordStart(t) /\ MayStart(rec[t].key)
<1>0. rec \in [Thread -> [pc : {"idle", "start", "call", "finish"}, key : Key \cup {<<>>},
                          born : Nat, to : {"none", "succeeded", "failed"}]]
  BY DEF HostTypeOK
<1>1. CASE Lifecycle
  <2>1. \A k \in Key, status \in Status, attempt \in 1..Budget, out \in Docs :
           UpsertProcess(k, status, attempt, out) => UNCHANGED <<called, rec>>
    BY DEF UpsertProcess
  <2>2. \A r \in Run, status \in RunAsked :
           UpsertRunMetadata(r, status) \/ TransitionRun(r, status) \/ FinalizeRun(r, status)
             => UNCHANGED <<called, rec>>
    BY DEF UpsertRunMetadata, TransitionRun, FinalizeRun
  <2>3. \A r \in Run : DeleteTerminalRun(r) => UNCHANGED <<called, rec>>
    BY DEF DeleteTerminalRun
  <2>4. \A k \in Key, b \in GateTerminal, out \in Docs, blocked \in BOOLEAN :
           CompleteWaitingProcess(k, b, out, blocked) => UNCHANGED <<called, rec>>
    BY DEF CompleteWaitingProcess
  <2>. QED  BY <1>1, <2>1, <2>2, <2>3, <2>4, LifecycleCases
<1>2. CASE Native \/ Upkeep \/ Tick \/ UNCHANGED hostVars
  BY <1>2 DEF Native, ScheduleRow, RetryRow, ClaimRow, ParkRow, SettleRow, Tick,
              Upkeep, RecoverSelect, RecoverCheck, RecoverResolve, RecoverStops,
              InspectLeases, hostVars
<1>3. ASSUME NEW t \in Thread, Leave(t), called' = called
      PROVE  \A u \in Thread : rec'[u] = rec[u] \/ rec'[u].pc # "call"
  BY <1>0, <1>3 DEF Leave, Idle
<1>4. ASSUME NEW t \in Thread, NEW k \in Key, RecordEnter(t, k)
      PROVE  called' = called
             /\ \A u \in Thread : rec'[u] = rec[u] \/ rec'[u].pc # "call"
  BY <1>0, <1>4 DEF RecordEnter, Idle
<1>5. ASSUME NEW h \in Home, Crash(h)
      PROVE  called' = called
             /\ \A u \in Thread : rec'[u] = rec[u] \/ rec'[u].pc # "call"
  BY <1>0, <1>5 DEF Crash, Idle
<1>6. CASE Record
  <2>1. ASSUME NEW t \in Thread, NEW out \in Docs, RecordFinish(t, out)
        PROVE  Leave(t) /\ called' = called
    BY <2>1 DEF RecordFinish
  <2>2. ASSUME NEW t \in Thread, RecordFails(t)
        PROVE  Leave(t) /\ called' = called
    BY <2>2 DEF RecordFails
  <2>3. ASSUME NEW t \in Thread, RecordStart(t), ~MayStart(rec[t].key)
        PROVE  Leave(t) /\ called' = called
    BY <2>3 DEF RecordStart
  <2>. QED  BY <1>3, <1>4, <1>6, <2>1, <2>2, <2>3 DEF Record
<1>. QED  BY <1>1, <1>2, <1>5, <1>6 DEF HostNext

\* What is no more spent after a step than before it still has its row.
LEMMA SpentKept ==
    ASSUME TablesAgree, SpentHasRow, [HostNext]_hostVars,
           NEW k \in Key, NEW b \in 1..MaxBirths, Spent(k, b)
    PROVE  /\ b <= runs'[k[1]].born
           /\ RunExists(k[1])' /\ b = runs'[k[1]].born => rows'[k].status # "absent"
<1>t. HostTypeOK /\ KeysKnown /\ SelectedRunning
  BY DEF TablesAgree
<1>0. /\ k[1] \in Run /\ runs[k[1]].born \in Nat /\ b \in Nat
      /\ "absent" \notin Status
  BY <1>t, HostBoundsAssumption DEF HostTypeOK, Key, Status, OpenStatus, TerminalStatus
<1>1. /\ b <= runs[k[1]].born
      /\ RunExists(k[1]) /\ b = runs[k[1]].born => rows[k].status # "absent"
  BY DEF SpentHasRow
<1>2. /\ runs'[k[1]].born \in {runs[k[1]].born, runs[k[1]].born + 1}
      /\ RunExists(k[1])' => runs'[k[1]].born = runs[k[1]].born + 1 \/ RunExists(k[1])
  BY <1>0, <1>t, RunMoves
<1>3. ASSUME RunExists(k[1])', b = runs'[k[1]].born
      PROVE  rows'[k].status # "absent"
  <2>1. rows[k].status # "absent"
    BY <1>0, <1>1, <1>2, <1>3
  <2>2. ~DeleteTerminalRun(k[1])
    <3>1. runs \in [Run -> [status : RunStatuses \cup {"absent"}, born : Nat]]
      BY <1>t DEF HostTypeOK
    <3>2. DeleteTerminalRun(k[1]) => ~RunExists(k[1])'
      BY <1>0, <3>1 DEF DeleteTerminalRun, RunExists
    <3>. QED  BY <1>3, <3>2
  <2>3. RowMove(k, rows[k], rows'[k])
    BY <1>t, <2>2, RowMoves
  <2>. QED  BY <1>0, <2>1, <2>3 DEF RowMove
<1>. QED  BY <1>0, <1>1, <1>2, <1>3

LEMMA CallsInduction == CallsCounted /\ [HostNext]_hostVars => CallsCounted'
<1>. SUFFICES ASSUME CallsCounted, [HostNext]_hostVars PROVE CallsCounted'
  OBVIOUS
<1>t. /\ TablesAgree /\ SpentHasRow /\ TicketsUnused /\ CallbackOnce
      /\ HostTypeOK /\ KeysKnown /\ BirthsCounted
  BY DEF CallsCounted, TablesAgree
<1>0. /\ rec \in [Thread -> [pc : {"idle", "start", "call", "finish"}, key : Key \cup {<<>>},
                             born : Nat, to : {"none", "succeeded", "failed"}]]
      /\ called \in [Run \X Process \X (1..MaxBirths) -> Nat]
      /\ rows \in [Key -> HostRow]
  BY <1>t DEF HostTypeOK
<1>1. TablesAgree'
  BY <1>t, TablesInduction
<1>2. CASE /\ called' = called
           /\ \A t \in Thread : rec'[t] = rec[t] \/ rec'[t].pc # "call"
  <2>1. \A k \in Key, b \in 1..MaxBirths : Spent(k, b)' => Spent(k, b)
    BY <1>2 DEF Spent
  <2>2. SpentHasRow'
    BY <1>t, <2>1, SpentKept DEF SpentHasRow, RunExists
  <2>3. TicketsUnused' /\ CallbackOnce'
    BY <1>2, <1>t DEF TicketsUnused, CallbackOnce
  <2>. QED  BY <1>1, <2>2, <2>3 DEF CallsCounted
<1>3. ASSUME NEW t \in Thread, NEW to \in {"succeeded", "failed"}, RecordCall(t, to)
      PROVE  CallsCounted'
  <2>. DEFINE c == <<rec[t].key[1], rec[t].key[2], rec[t].born>>
  <2>1. /\ rec[t].pc = "call" /\ rec[t].key \in Key /\ rec[t].born \in 1..MaxBirths
        /\ called[c] = 0 /\ called' = [called EXCEPT ![c] = @ + 1]
        /\ rec' = [rec EXCEPT ![t] = [rec[t] EXCEPT !.pc = "finish", !.to = to]]
    BY <1>3, <1>t DEF RecordCall, KeysKnown, TicketsUnused
  <2>2. c \in DOMAIN called
    BY <1>0, <2>1 DEF Key
  <2>3. /\ called'[c] = 1
        /\ \A d \in DOMAIN called : d # c => called'[d] = called[d]
        /\ DOMAIN called' = DOMAIN called
    BY <1>0, <2>1, <2>2
  <2>4. /\ rec'[t].pc = "finish"
        /\ \A u \in Thread : u # t => rec'[u] = rec[u]
    BY <1>0, <2>1
  <2>5. CallbackOnce'
    BY <1>t, <2>3 DEF CallbackOnce
  <2>6. TicketsUnused'
    <3>. SUFFICES ASSUME NEW u \in Thread, rec'[u].pc = "call"
                  PROVE  /\ rec'[u].born \in 1..MaxBirths
                         /\ called'[<<rec'[u].key[1], rec'[u].key[2], rec'[u].born>>] = 0
                         /\ \A v \in Thread : /\ rec'[v].pc = "call" /\ rec'[v].key = rec'[u].key
                                              /\ rec'[v].born = rec'[u].born
                                              => v = u
      BY DEF TicketsUnused
    <3>1. u # t /\ rec'[u] = rec[u]
      BY <2>4
    <3>2. rec[u].key \in Key /\ rec[u].born \in 1..MaxBirths
      BY <1>t, <3>1 DEF KeysKnown, TicketsUnused
    <3>. DEFINE d == <<rec[u].key[1], rec[u].key[2], rec[u].born>>
    <3>3. d # c
      <4>1. d = c => rec[u].key = rec[t].key /\ rec[u].born = rec[t].born
        BY <2>1, <3>2 DEF Key
      <4>. QED  BY <1>t, <2>1, <3>1, <4>1 DEF TicketsUnused
    <3>4. d \in DOMAIN called
      BY <1>0, <3>2 DEF Key
    <3>5. called'[d] = 0
      BY <1>t, <2>3, <3>1, <3>3, <3>4 DEF TicketsUnused
    <3>6. \A v \in Thread : /\ rec'[v].pc = "call" /\ rec'[v].key = rec'[u].key
                            /\ rec'[v].born = rec'[u].born
                            => v = u
      BY <1>t, <2>4, <3>1 DEF TicketsUnused
    <3>. QED  BY <3>1, <3>2, <3>5, <3>6
  <2>7. \A k \in Key, b \in 1..MaxBirths : Spent(k, b)' => Spent(k, b)
    <3>. SUFFICES ASSUME NEW k \in Key, NEW b \in 1..MaxBirths, Spent(k, b)'
                  PROVE  Spent(k, b)
      OBVIOUS
    <3>1. CASE called'[<<k[1], k[2], b>>] # 0
      <4>1. <<k[1], k[2], b>> \in DOMAIN called
        BY <1>0 DEF Key
      <4>2. CASE <<k[1], k[2], b>> = c
        <5>1. k = rec[t].key /\ b = rec[t].born
          BY <2>1, <4>2 DEF Key
        <5>. QED  BY <2>1, <5>1 DEF Spent
      <4>. QED  BY <2>3, <3>1, <4>1, <4>2 DEF Spent
    <3>2. CASE \E u \in Thread : rec'[u].pc = "call" /\ rec'[u].key = k /\ rec'[u].born = b
      BY <2>4, <3>2 DEF Spent
    <3>. QED  BY <3>1, <3>2 DEF Spent
  <2>8. SpentHasRow'
    BY <1>t, <2>7, SpentKept DEF SpentHasRow, RunExists
  <2>. QED  BY <1>1, <2>5, <2>6, <2>8 DEF CallsCounted
<1>4. ASSUME NEW t \in Thread, RecordStart(t), MayStart(rec[t].key)
      PROVE  CallsCounted'
  <2>. DEFINE k == rec[t].key
              n == runs[k[1]].born
  <2>1. /\ rec[t].pc = "start" /\ k \in Key /\ RunExists(k[1]) /\ rows[k].status = "absent"
        /\ rows' = [rows EXCEPT ![k] = InsertedRow("running", 1, NoDoc)]
        /\ rec' = [rec EXCEPT ![t] = [rec[t] EXCEPT !.pc = "call", !.born = n]]
        /\ runs' = runs /\ called' = called
    BY <1>4, <1>t DEF RecordStart, MayStart, KeysKnown
  <2>2. n \in 1..MaxBirths
    BY <1>t, <2>1, HostBoundsAssumption DEF BirthsCounted, Key
  <2>3. ~Spent(k, n)
    BY <1>t, <2>1, <2>2 DEF SpentHasRow
  <2>4. /\ rec'[t].pc = "call" /\ rec'[t].key = k /\ rec'[t].born = n
        /\ \A u \in Thread : u # t => rec'[u] = rec[u]
    BY <1>0, <2>1
  <2>5. rows'[k].status = "running" /\ \A j \in Key : j # k => rows'[j] = rows[j]
    BY <1>0, <2>1 DEF InsertedRow, NoRow
  <2>. HIDE DEF k, n
  <2>6. CallbackOnce'
    BY <1>t, <2>1 DEF CallbackOnce
  <2>7. TicketsUnused'
    <3>. SUFFICES ASSUME NEW u \in Thread, rec'[u].pc = "call"
                  PROVE  /\ rec'[u].born \in 1..MaxBirths
                         /\ called'[<<rec'[u].key[1], rec'[u].key[2], rec'[u].born>>] = 0
                         /\ \A v \in Thread : /\ rec'[v].pc = "call" /\ rec'[v].key = rec'[u].key
                                              /\ rec'[v].born = rec'[u].born
                                              => v = u
      BY DEF TicketsUnused
    <3>1. CASE u = t
      <4>1. called[<<k[1], k[2], n>>] = 0
        BY <2>3 DEF Spent
      <4>2. \A v \in Thread : rec'[v].pc = "call" /\ rec'[v].key = k /\ rec'[v].born = n => v = t
        BY <2>3, <2>4 DEF Spent
      <4>. QED  BY <2>1, <2>2, <2>4, <3>1, <4>1, <4>2
    <3>2. CASE u # t
      <4>1. rec'[u] = rec[u]
        BY <2>4, <3>2
      <4>2. ~(rec[u].key = k /\ rec[u].born = n)
        BY <2>3, <4>1 DEF Spent
      <4>. QED  BY <1>t, <2>1, <2>4, <4>1, <4>2 DEF TicketsUnused
    <3>. QED  BY <3>1, <3>2
  <2>8. SpentHasRow'
    <3>. SUFFICES ASSUME NEW j \in Key, NEW b \in 1..MaxBirths, Spent(j, b)'
                  PROVE  /\ b <= runs'[j[1]].born
                         /\ RunExists(j[1])' /\ b = runs'[j[1]].born => rows'[j].status # "absent"
      BY DEF SpentHasRow, RunExists
    <3>1. CASE Spent(j, b)
      BY <1>t, <3>1, SpentKept
    <3>2. CASE ~Spent(j, b)
      <4>1. j = k /\ b = n
        BY <2>1, <2>4, <3>2 DEF Spent
      <4>2. b <= runs'[j[1]].born
        BY <2>1, <2>2, <4>1 DEF n
      <4>. QED  BY <2>5, <4>1, <4>2
    <3>. QED  BY <3>1, <3>2
  <2>. QED  BY <1>1, <2>6, <2>7, <2>8 DEF CallsCounted
<1>. QED  BY <1>2, <1>3, <1>4, <1>t, CallMoves

LEMMA CallsInit == HostInit => CallsCounted
<1>. SUFFICES ASSUME HostInit PROVE CallsCounted
  OBVIOUS
<1>1. \A t \in Thread : rec[t].pc = "idle"
  BY DEF HostInit, Idle
<1>2. \A c \in DOMAIN called : called[c] = 0
  BY DEF HostInit
<1>3. \A k \in Key, b \in 1..MaxBirths : called[<<k[1], k[2], b>>] = 0
  BY DEF HostInit, Key
<1>. QED  BY <1>1, <1>2, <1>3, TablesInit
            DEF CallsCounted, SpentHasRow, Spent, TicketsUnused, CallbackOnce

\* CallbackOnce is an invariant: record_in_process runs the callback of a row at
\* most once, in whatever thread and home, and whatever dies.
THEOREM CallbacksRunOnce == HostSpec => []CallbackOnce
<1>1. CallsCounted => CallbackOnce
  BY DEF CallsCounted
<1>. QED  BY CallsInit, <1>1, CallsInduction, PTL DEF HostSpec

-----------------------------------------------------------------------------
(* Rows that run.                                                          *)

\* How a row comes to run: it ran already, a driver leases it beyond this
\* instant, or a callback or the application writes it without a lease.
RunningMove(k) ==
    \/ rows'[k] = rows[k]
    \/ rows'[k].owner \in Worker /\ rows'[k].expires > now
    \/ rows'[k].owner = Nobody /\ rows'[k].expires = 0

LEMMA RunningRows ==
    ASSUME HostTypeOK, KeysKnown, [HostNext]_hostVars, NEW k \in Key,
           rows'[k].status = "running"
    PROVE  RunningMove(k)
<1>0. rows \in [Key -> HostRow]
  BY DEF HostTypeOK
<1>s. \A b \in GateTerminal : ProcessFor[b] # "running"
  BY DEF ProcessFor, GateTerminal
<1>u. CASE rows' = rows
  BY <1>u DEF RunningMove
<1>r. ASSUME NEW j \in Key, NEW row, rows' = [rows EXCEPT ![j] = row],
             row.status # "running"
      PROVE  RunningMove(k)
  <2>1. k # j
    BY <1>0, <1>r
  <2>. QED  BY <1>0, <1>r, <2>1 DEF RunningMove
<1>n. ASSUME NEW j \in Key, NEW row, rows' = [rows EXCEPT ![j] = row],
             row.owner = Nobody, row.expires = 0
      PROVE  RunningMove(k)
  BY <1>0, <1>n DEF RunningMove
<1>1. ASSUME NEW j \in Key, NEW status \in Status, NEW attempt \in 1..Budget,
             NEW out \in Docs, UpsertProcess(j, status, attempt, out)
      PROVE  RunningMove(k)
  <2>0. rows[j] \in HostRow
    BY <1>0
  <2>. DEFINE inserted == InsertedRow(status, attempt, out)
              unleased == [rows[j] EXCEPT !.owner = Nobody, !.expires = 0]
              written == [unleased EXCEPT !.status = status, !.attempt = attempt, !.out = out]
  <2>1. /\ inserted.owner = Nobody /\ inserted.expires = 0
        /\ unleased.owner = Nobody /\ unleased.expires = 0
        /\ written.owner = Nobody /\ written.expires = 0
    BY <2>0 DEF HostRow, InsertedRow, NoRow
  <2>2. \/ rows' = [rows EXCEPT ![j] = inserted]
        \/ rows' = [rows EXCEPT ![j] = unleased]
        \/ rows' = [rows EXCEPT ![j] = written]
    BY <1>1 DEF UpsertProcess
  <2>. HIDE DEF inserted, unleased, written
  <2>. QED  BY <1>n, <2>1, <2>2
<1>2. ASSUME NEW j \in Key, NEW b \in GateTerminal, NEW out \in Docs,
             NEW blocked \in BOOLEAN, CompleteWaitingProcess(j, b, out, blocked)
      PROVE  RunningMove(k)
  <2>0. rows[j] \in HostRow
    BY <1>0
  <2>1. PICK row : rows' = [rows EXCEPT ![j] = row] /\ row.status = ProcessFor[b]
    <3>1. CASE CompleteReplayed(j, b, out, blocked)
      <4>1. /\ rows' = [rows EXCEPT ![j] = [rows[j] EXCEPT !.owner = Nobody, !.expires = 0]]
            /\ rows[j].status = ProcessFor[b]
        BY <3>1 DEF CompleteReplayed, Exact
      <4>2. [rows[j] EXCEPT !.owner = Nobody, !.expires = 0].status = rows[j].status
        BY <2>0 DEF HostRow
      <4>. QED  BY <4>1, <4>2
    <3>2. CASE CompleteWaiting(j, b, out, blocked)
      <4>1. rows' = [rows EXCEPT ![j] = [rows[j] EXCEPT !.status = ProcessFor[b], !.out = out]]
        BY <3>2 DEF CompleteWaiting
      <4>2. [rows[j] EXCEPT !.status = ProcessFor[b], !.out = out].status = ProcessFor[b]
        BY <2>0 DEF HostRow
      <4>. QED  BY <4>1, <4>2
    <3>. QED  BY <1>2, <3>1, <3>2 DEF CompleteWaitingProcess
  <2>. QED  BY <1>r, <1>s, <2>1
<1>3. ASSUME NEW r \in Run, DeleteTerminalRun(r)
      PROVE  RunningMove(k)
  <2>1. rows'[k] = IF k[1] = r THEN NoRow ELSE rows[k]
    BY <1>3 DEF DeleteTerminalRun
  <2>. QED  BY <2>1 DEF RunningMove, NoRow
<1>4. ASSUME NEW r \in Run, NEW status \in RunAsked,
             UpsertRunMetadata(r, status) \/ TransitionRun(r, status) \/ FinalizeRun(r, status)
      PROVE  RunningMove(k)
  BY <1>4, <1>u DEF UpsertRunMetadata, TransitionRun, FinalizeRun
<1>5. CASE Lifecycle
  BY ONLY <1>5, <1>1, <1>2, <1>3, <1>4, LifecycleCases
<1>6. ASSUME NEW t \in Thread, RecordStart(t)
      PROVE  RunningMove(k)
  <2>. DEFINE j == rec[t].key
              new == InsertedRow("running", 1, NoDoc)
  <2>1. CASE MayStart(j) /\ rows' = [rows EXCEPT ![j] = new]
    <3>1. j \in Key
      BY <1>6 DEF RecordStart, KeysKnown
    <3>2. new.owner = Nobody /\ new.expires = 0
      BY DEF InsertedRow, NoRow
    <3>. HIDE DEF j, new
    <3>. QED  BY <1>n, <2>1, <3>1, <3>2
  <2>2. rows' = rows \/ (MayStart(j) /\ rows' = [rows EXCEPT ![j] = new])
    BY ONLY <1>6 DEF RecordStart
  <2>. QED  BY <1>u, <2>1, <2>2
<1>7. ASSUME NEW t \in Thread, NEW out \in Docs, RecordFinish(t, out)
      PROVE  RunningMove(k)
  <2>. DEFINE j == rec[t].key
              new == [rows[j] EXCEPT !.status = rec[t].to,
                                     !.out = IF rec[t].to = "failed" THEN NoDoc ELSE out]
  <2>1. j \in Key /\ rec[t].to # "running"
    BY <1>7 DEF RecordFinish, KeysKnown
  <2>2. new.status = rec[t].to
    BY <1>0, <2>1 DEF HostRow
  <2>3. rows' = rows \/ rows' = [rows EXCEPT ![j] = new]
    BY ONLY <1>7 DEF RecordFinish
  <2>. HIDE DEF j, new
  <2>. QED  BY <1>r, <1>u, <2>1, <2>2, <2>3
<1>8. CASE \/ \E t \in Thread : \/ \E j \in Key : RecordEnter(t, j)
                               \/ \E to \in {"succeeded", "failed"} : RecordCall(t, to)
                               \/ RecordFails(t)
           \/ \E h \in Home : Crash(h)
  BY <1>8, <1>u DEF RecordEnter, RecordCall, RecordFails, Crash
<1>9. CASE Record
  BY <1>6, <1>7, <1>8, <1>9 DEF Record
<1>10. ASSUME NEW j \in Key, ScheduleRow(j)
       PROVE  RunningMove(k)
  <2>. DEFINE new == [NoRow EXCEPT !.status = "ready", !.max = Budget]
  <2>1. rows' = [rows EXCEPT ![j] = new]
    BY <1>10 DEF ScheduleRow
  <2>2. new.status # "running"
    BY DEF NoRow
  <2>. HIDE DEF new
  <2>. QED  BY <1>r, <2>1, <2>2
<1>11. ASSUME NEW j \in Key, RetryRow(j)
       PROVE  RunningMove(k)
  <2>. DEFINE new == [rows[j] EXCEPT !.status = "retry_wait"]
  <2>1. rows' = [rows EXCEPT ![j] = new]
    BY <1>11 DEF RetryRow
  <2>2. new.status # "running"
    BY <1>0 DEF HostRow
  <2>. HIDE DEF new
  <2>. QED  BY <1>r, <2>1, <2>2
<1>12. ASSUME NEW w \in Worker, NEW j \in Key, NEW until \in (now + 1)..(now + MaxLease),
              ClaimRow(w, j, until)
       PROVE  RunningMove(k)
  <2>. DEFINE new == [rows[j] EXCEPT !.status = "running", !.owner = w, !.expires = until,
                                     !.attempt = @ + 1]
  <2>1. rows' = [rows EXCEPT ![j] = new] /\ until > now
    BY <1>12 DEF ClaimRow
  <2>2. new.owner = w /\ new.expires = until
    BY <1>0 DEF HostRow
  <2>. HIDE DEF new
  <2>. QED  BY <1>0, <2>1, <2>2 DEF RunningMove
<1>13. ASSUME NEW w \in Worker, NEW j \in Key, ParkRow(w, j)
       PROVE  RunningMove(k)
  <2>. DEFINE new == [rows[j] EXCEPT !.status = "waiting", !.owner = Nobody, !.expires = 0]
  <2>1. rows' = [rows EXCEPT ![j] = new]
    BY <1>13 DEF ParkRow
  <2>2. new.status # "running"
    BY <1>0 DEF HostRow
  <2>. HIDE DEF new
  <2>. QED  BY <1>r, <2>1, <2>2
<1>14. ASSUME NEW w \in Worker, NEW j \in Key, NEW to \in {"succeeded", "failed"},
              NEW out \in Docs, SettleRow(w, j, to, out)
       PROVE  RunningMove(k)
  <2>. DEFINE new == [rows[j] EXCEPT !.status = to, !.owner = Nobody, !.expires = 0,
                                     !.out = IF to = "failed" THEN NoDoc ELSE out]
  <2>1. rows' = [rows EXCEPT ![j] = new]
    BY <1>14 DEF SettleRow
  <2>2. new.status # "running"
    BY <1>0 DEF HostRow
  <2>. HIDE DEF new
  <2>. QED  BY <1>r, <2>1, <2>2
<1>15. CASE RecoverResolve
  <2>1. PICK item \in rcv.sure :
          \/ rows' = rows
          \/ rows' = [rows EXCEPT ![item[1]] = [rows[item[1]] EXCEPT !.status = item[2],
                        !.owner = Nobody, !.expires = 0,
                        !.out = IF item[2] = "failed" THEN NoDoc ELSE rows[item[1]].out]]
    BY <1>15 DEF RecoverResolve
  <2>2. item \in Key \X {"failed", "retry_wait"}
    BY DEF HostTypeOK
  <2>. DEFINE j == item[1]
              new == [rows[j] EXCEPT !.status = item[2], !.owner = Nobody, !.expires = 0,
                                     !.out = IF item[2] = "failed" THEN NoDoc ELSE rows[j].out]
  <2>3. j \in Key /\ new.status # "running"
    BY <1>0, <2>2 DEF HostRow
  <2>4. rows' = rows \/ rows' = [rows EXCEPT ![j] = new]
    BY <2>1
  <2>. HIDE DEF j, new
  <2>. QED  BY <1>r, <1>u, <2>3, <2>4
<1>16. CASE Tick \/ InspectLeases \/ (\E w \in Worker, at \in 0..now : RecoverSelect(w, at))
            \/ RecoverCheck \/ RecoverStops \/ UNCHANGED hostVars
  BY <1>16, <1>u DEF Tick, InspectLeases, RecoverSelect, RecoverCheck, RecoverStops, hostVars
<1>17. CASE Native \/ Upkeep
  BY <1>10, <1>11, <1>12, <1>13, <1>14, <1>15, <1>16, <1>17 DEF Native, Upkeep
<1>. QED  BY <1>5, <1>8, <1>9, <1>16, <1>17 DEF HostNext

-----------------------------------------------------------------------------
(* Recoveries and inspections.                                             *)

\* What a recovery selected was running and expired by its own deadline.
SelectedExpired ==
    \A item \in rcv.todo :
        /\ item[2].status = "running"
        /\ item[2].expires # 0 /\ item[2].expires <= rcv.at

\* Every claim that had expired at the inspection, then or since, is one of it:
\* a lease taken later ends later.
ViewKnows ==
    /\ view.at <= now
    /\ \A k \in Key : /\ rows[k].status = "running" /\ rows[k].expires # 0
                      /\ rows[k].expires <= view.at
                      => k \in view.expired

\* The inductive invariant behind RecoveryForetold.
UpkeepKnows == HostTypeOK /\ KeysKnown /\ SelectedExpired /\ ViewKnows

LEMMA ExpiredInduction == HostTypeOK /\ SelectedExpired /\ [HostNext]_hostVars => SelectedExpired'
<1>. SUFFICES ASSUME HostTypeOK, SelectedExpired, [HostNext]_hostVars PROVE SelectedExpired'
  OBVIOUS
<1>1. CASE rcv' = rcv \/ rcv'.todo = {} \/ (rcv'.todo \subseteq rcv.todo /\ rcv'.at = rcv.at)
  BY <1>1 DEF SelectedExpired
<1>2. ASSUME NEW w \in Worker, NEW at \in 0..now, RecoverSelect(w, at)
      PROVE  SelectedExpired'
  <2>. DEFINE due == {k \in Key : /\ rows[k].status = "running" /\ rows[k].owner = w
                                  /\ rows[k].expires # 0 /\ rows[k].expires <= at}
  <2>1. \A k \in due : rows[k].status = "running" /\ rows[k].expires # 0 /\ rows[k].expires <= at
    OBVIOUS
  <2>2. rcv'.todo = {<<k, rows[k]>> : k \in due} /\ rcv'.at = at
    BY <1>2 DEF RecoverSelect
  <2>. HIDE DEF due
  <2>. QED  BY <2>1, <2>2 DEF SelectedExpired
<1>. QED  BY <1>1, <1>2, RecoveryMoves

\* Only an inspection makes a view, and only the clock moves the clock.
LEMMA ViewMoves ==
    ASSUME HostTypeOK, [HostNext]_hostVars
    PROVE  now' \in {now, now + 1} /\ (view' = view \/ InspectLeases)
<1>1. CASE Lifecycle
  <2>1. \A k \in Key, status \in Status, attempt \in 1..Budget, out \in Docs :
           UpsertProcess(k, status, attempt, out) => UNCHANGED <<now, view>>
    BY DEF UpsertProcess
  <2>2. \A r \in Run, status \in RunAsked :
           UpsertRunMetadata(r, status) \/ TransitionRun(r, status) \/ FinalizeRun(r, status)
             => UNCHANGED <<now, view>>
    BY DEF UpsertRunMetadata, TransitionRun, FinalizeRun
  <2>3. \A r \in Run : DeleteTerminalRun(r) => UNCHANGED <<now, view>>
    BY DEF DeleteTerminalRun
  <2>4. \A k \in Key, b \in GateTerminal, out \in Docs, blocked \in BOOLEAN :
           CompleteWaitingProcess(k, b, out, blocked) => UNCHANGED <<now, view>>
    BY DEF CompleteWaitingProcess
  <2>. QED  BY <1>1, <2>1, <2>2, <2>3, <2>4, LifecycleCases
<1>2. CASE Record \/ \E h \in Home : Crash(h)
  BY <1>2 DEF Record, RecordEnter, RecordStart, RecordCall, RecordFinish, RecordFails, Crash
<1>3. CASE Native \/ Upkeep \/ Tick \/ UNCHANGED hostVars
  BY <1>3 DEF Native, ScheduleRow, RetryRow, ClaimRow, ParkRow, SettleRow, Tick,
              Upkeep, RecoverSelect, RecoverCheck, RecoverResolve, RecoverStops,
              InspectLeases, hostVars
<1>. QED  BY <1>1, <1>2, <1>3 DEF HostNext

LEMMA ViewInduction == UpkeepKnows /\ [HostNext]_hostVars => ViewKnows'
<1>. SUFFICES ASSUME UpkeepKnows, [HostNext]_hostVars PROVE ViewKnows'
  OBVIOUS
<1>t. /\ HostTypeOK /\ KeysKnown /\ ViewKnows
      /\ now \in Nat /\ view.at \in Int /\ rows \in [Key -> HostRow]
  BY DEF UpkeepKnows, HostTypeOK
<1>1. CASE InspectLeases
  <2>1. /\ now' = now /\ rows' = rows /\ view'.at = now
        /\ view'.expired = {k \in {j \in Key : rows[j].status # "absent"} :
                               rows[k].status = "running" /\ HasExpired(rows[k], now)}
    BY <1>1 DEF InspectLeases
  <2>. QED  BY <1>t, <2>1 DEF ViewKnows, HasExpired
<1>2. CASE view' = view
  <2>1. view'.at <= now'
    BY <1>2, <1>t, ViewMoves DEF ViewKnows
  <2>. SUFFICES ASSUME NEW k \in Key, rows'[k].status = "running", rows'[k].expires # 0,
                       rows'[k].expires <= view.at
                PROVE  k \in view.expired
    BY <1>2, <2>1 DEF ViewKnows
  <2>2. rows'[k].expires \in Nat
    <3>1. HostTypeOK'
      BY <1>t, HostTypeInduction
    <3>. QED  BY <3>1 DEF HostTypeOK, HostRow
  <2>3. ~(rows'[k].expires > now)
    BY <1>t, <2>2 DEF ViewKnows
  <2>4. rows'[k] = rows[k]
    BY <1>t, <2>3, RunningRows DEF RunningMove
  <2>. QED  BY <1>t, <2>4 DEF ViewKnows
<1>. QED  BY <1>1, <1>2, <1>t, ViewMoves

LEMMA UpkeepKnown == HostSpec => []UpkeepKnows
<1>1. HostInit => UpkeepKnows
  <2>. SUFFICES ASSUME HostInit PROVE UpkeepKnows
    OBVIOUS
  <2>1. SelectedExpired
    BY DEF HostInit, NoRecovery, SelectedExpired
  <2>2. ViewKnows
    BY DEF HostInit, NoView, NoRow, ViewKnows
  <2>. QED  BY <2>1, <2>2, HostTypeInit DEF UpkeepKnows
<1>2. UpkeepKnows /\ [HostNext]_hostVars => UpkeepKnows'
  BY HostTypeInduction, ExpiredInduction, ViewInduction DEF UpkeepKnows
<1>. QED  BY <1>1, <1>2, PTL DEF HostSpec

\* RecoveryForetold is an action property: recover_incomplete decides on a row
\* only if every complete inspection as late as its deadline shows it expired,
\* whatever happened to the row and to the clock since either was taken.
THEOREM RecoveryIsForetold == HostSpec => RecoveryForetold
<1>1. ASSUME UpkeepKnows, [HostNext]_hostVars, NEW k \in Key,
             NEW to \in {"failed", "retry_wait"},
             <<k, to>> \in rcv'.sure \ rcv.sure, rcv.at <= view.at
      PROVE  k \in view.expired
  <2>0. /\ HostTypeOK /\ SelectedExpired /\ ViewKnows
        /\ view.at \in Int /\ rcv.at \in Nat /\ rcv.todo \subseteq Key \X HostRow
    BY <1>1 DEF UpkeepKnows, HostTypeOK
  <2>1. ASSUME NEW w \in Worker, NEW at \in 0..now
        PROVE  ~RecoverSelect(w, at)
    BY <1>1 DEF RecoverSelect
  <2>2. PICK item \in rcv.todo : StillSame(item[1], item[2]) /\ item[1] = k
    BY <1>1, <2>0, <2>1, RecoveryMoves
  <2>3. /\ item[2].status = "running" /\ item[2].expires # 0 /\ item[2].expires <= rcv.at
        /\ item[2].expires \in Nat
    BY <2>0, <2>2 DEF SelectedExpired, HostRow
  <2>4. rows[k].status = "running" /\ rows[k].expires # 0 /\ rows[k].expires <= view.at
    BY <1>1, <2>0, <2>2, <2>3 DEF StillSame
  <2>. QED  BY <2>0, <2>4 DEF ViewKnows
<1>2. UpkeepKnows /\ [HostNext]_hostVars =>
        [\A k \in Key, to \in {"failed", "retry_wait"} :
            /\ <<k, to>> \in rcv'.sure \ rcv.sure
            /\ rcv.at <= view.at
            => k \in view.expired]_hostVars
  BY <1>1
<1>. QED  BY <1>2, UpkeepKnown, PTL DEF HostSpec, RecoveryForetold

-----------------------------------------------------------------------------
(* How callbacks end.                                                      *)

\* A thread at work on a row goes on, records its result, or loses the row.
LEMMA ThreadMoves ==
    ASSUME HostTypeOK, KeysKnown, [HostNext]_hostVars, NEW t \in Thread,
           rec[t].pc \in {"call", "finish"}
    PROVE  \/ /\ rec'[t].pc \in {"call", "finish"} /\ rec'[t].key = rec[t].key
              /\ rec'[t].born = rec[t].born
           \/ \E out \in Docs : RecordFinish(t, out)
           \/ <<rec[t].key[1], rec[t].key[2], rec[t].born>> \in lost'
<1>. DEFINE Moved ==
           \/ /\ rec'[t].pc \in {"call", "finish"} /\ rec'[t].key = rec[t].key
              /\ rec'[t].born = rec[t].born
           \/ \E out \in Docs : RecordFinish(t, out)
           \/ <<rec[t].key[1], rec[t].key[2], rec[t].born>> \in lost'
<1>. SUFFICES Moved
  OBVIOUS
<1>0. rec \in [Thread -> [pc : {"idle", "start", "call", "finish"}, key : Key \cup {<<>>},
                          born : Nat, to : {"none", "succeeded", "failed"}]]
  BY DEF HostTypeOK
<1>u. CASE rec'[t] = rec[t]
  BY <1>u
<1>1. CASE Lifecycle
  <2>1. rec' = rec
    <3>1. \A k \in Key, status \in Status, attempt \in 1..Budget, out \in Docs :
             UpsertProcess(k, status, attempt, out) => rec' = rec
      BY DEF UpsertProcess
    <3>2. \A r \in Run, status \in RunAsked :
             UpsertRunMetadata(r, status) \/ TransitionRun(r, status) \/ FinalizeRun(r, status)
               => rec' = rec
      BY DEF UpsertRunMetadata, TransitionRun, FinalizeRun
    <3>3. \A r \in Run : DeleteTerminalRun(r) => rec' = rec
      BY DEF DeleteTerminalRun
    <3>4. \A k \in Key, b \in GateTerminal, out \in Docs, blocked \in BOOLEAN :
             CompleteWaitingProcess(k, b, out, blocked) => rec' = rec
      BY DEF CompleteWaitingProcess
    <3>. QED  BY <1>1, <3>1, <3>2, <3>3, <3>4, LifecycleCases
  <2>. QED  BY <1>u, <2>1
<1>2. CASE Native \/ Upkeep \/ Tick \/ UNCHANGED hostVars
  BY <1>2, <1>u DEF Native, ScheduleRow, RetryRow, ClaimRow, ParkRow, SettleRow, Tick,
              Upkeep, RecoverSelect, RecoverCheck, RecoverResolve, RecoverStops,
              InspectLeases, hostVars
<1>3. ASSUME NEW u \in Thread, NEW k \in Key, RecordEnter(u, k)
      PROVE  Moved
  <2>1. u # t
    BY <1>3 DEF RecordEnter
  <2>2. rec'[t] = rec[t]
    BY <1>0, <1>3, <2>1 DEF RecordEnter
  <2>. QED  BY <1>u, <2>2
<1>4. ASSUME NEW u \in Thread, RecordStart(u)
      PROVE  Moved
  <2>1. u # t
    BY <1>4 DEF RecordStart
  <2>2. \/ \E n : rec' = [rec EXCEPT ![u] = n]
        \/ Leave(u)
    BY <1>0, <1>4 DEF RecordStart
  <2>3. rec'[t] = rec[t]
    BY <1>0, <2>1, <2>2 DEF Leave
  <2>. QED  BY <1>u, <2>3
<1>5. ASSUME NEW u \in Thread, NEW to \in {"succeeded", "failed"}, RecordCall(u, to)
      PROVE  Moved
  <2>1. rec' = [rec EXCEPT ![u] = [rec[u] EXCEPT !.pc = "finish", !.to = to]]
    BY <1>0, <1>5 DEF RecordCall
  <2>. QED  BY <1>0, <2>1
<1>6. ASSUME NEW u \in Thread, NEW out \in Docs, RecordFinish(u, out)
      PROVE  Moved
  <2>1. CASE u # t
    <3>1. rec'[t] = rec[t]
      BY <1>0, <1>6, <2>1 DEF RecordFinish, Leave
    <3>. QED  BY <1>u, <3>1
  <2>. QED  BY <1>6, <2>1
<1>7. ASSUME NEW u \in Thread, RecordFails(u)
      PROVE  Moved
  <2>1. CASE u # t
    <3>1. rec'[t] = rec[t]
      BY <1>0, <1>7, <2>1 DEF RecordFails, Leave
    <3>. QED  BY <1>u, <3>1
  <2>2. CASE u = t
    BY <1>7, <2>2 DEF RecordFails
  <2>. QED  BY <2>1, <2>2
<1>8. ASSUME NEW h \in Home, Crash(h)
      PROVE  Moved
  <2>1. CASE HomeOf[t] = h
    BY <1>8, <2>1 DEF Crash
  <2>2. CASE HomeOf[t] # h
    <3>1. rec'[t] = rec[t]
      BY <1>8, <2>2 DEF Crash
    <3>. QED  BY <1>u, <3>1
  <2>. QED  BY <2>1, <2>2
<1>9. CASE Record
  <2>. HIDE DEF Moved
  <2>. QED  BY <1>3, <1>4, <1>5, <1>6, <1>7, <1>9 DEF Record
<1>. HIDE DEF Moved
<1>. QED  BY <1>1, <1>2, <1>8, <1>9 DEF HostNext

\* What is lost stays lost.
LEMMA LostStays == HostTypeOK /\ [HostNext]_hostVars => lost \subseteq lost'
<1>. SUFFICES ASSUME HostTypeOK, [HostNext]_hostVars PROVE lost \subseteq lost'
  OBVIOUS
<1>1. CASE Lifecycle
  <2>1. \A k \in Key, status \in Status, attempt \in 1..Budget, out \in Docs :
           UpsertProcess(k, status, attempt, out) => lost' = lost
    BY DEF UpsertProcess
  <2>2. \A r \in Run, status \in RunAsked :
           UpsertRunMetadata(r, status) \/ TransitionRun(r, status) \/ FinalizeRun(r, status)
             => lost' = lost
    BY DEF UpsertRunMetadata, TransitionRun, FinalizeRun
  <2>3. \A r \in Run : DeleteTerminalRun(r) => lost' = lost
    BY DEF DeleteTerminalRun
  <2>4. \A k \in Key, b \in GateTerminal, out \in Docs, blocked \in BOOLEAN :
           CompleteWaitingProcess(k, b, out, blocked) => lost' = lost
    BY DEF CompleteWaitingProcess
  <2>. QED  BY <1>1, <2>1, <2>2, <2>3, <2>4, LifecycleCases
<1>2. CASE Record \/ \E h \in Home : Crash(h)
  BY <1>2 DEF Record, RecordEnter, RecordStart, RecordCall, RecordFinish, RecordFails, Crash
<1>3. CASE Native \/ Upkeep \/ Tick \/ UNCHANGED hostVars
  BY <1>3 DEF Native, ScheduleRow, RetryRow, ClaimRow, ParkRow, SettleRow, Tick,
              Upkeep, RecoverSelect, RecoverCheck, RecoverResolve, RecoverStops,
              InspectLeases, hostVars
<1>. QED  BY <1>1, <1>2, <1>3 DEF HostNext

\* The application does not lead a row from running over retry_wait and ready
\* back to running: upsert_process allows each of these writes.
NoWayBack == ~({"running", "retry_wait", "ready"} \subseteq Asked)

\* A row whose one attempt is made, which no driver can claim.
Used(row) == row.max = 1 /\ row.attempt # 0 /\ ~Leased(row)

\* What a callback's row may be: it runs only while a thread is at work on it or
\* it is lost, and waits for another attempt only if the application said so.
CallbackRow(k) ==
    /\ Used(rows[k])
    /\ rows[k].status \notin {"absent", "pending"}
    /\ rows[k].status \in {"retry_wait", "ready"} => "retry_wait" \in Asked
    /\ rows[k].status = "ready" => "ready" \in Asked
    /\ rows[k].status = "running" =>
          \/ Incarnation(k) \in lost
          \/ \E t \in Thread : /\ rec[t].pc \in {"call", "finish"} /\ rec[t].key = k
                               /\ rec[t].born = runs[k[1]].born

CallbackRows ==
    \A k \in Key : RunExists(k[1]) /\ Spent(k, runs[k[1]].born) => CallbackRow(k)

\* What becomes of a row whose attempt is made: it ends, or the application moves it.
UsedMove(old, new) ==
    /\ Used(new)
    /\ \/ new.status = old.status
       \/ new.status \in TerminalStatus
       \/ CanTransition(old.status, new.status) /\ new.status \in Asked \cup {"waiting"}

LEMMA UsedMoves ==
    ASSUME HostTypeOK, KeysKnown, [HostNext]_hostVars, NEW k \in Key,
           Used(rows[k]), rows[k].status # "absent"
    PROVE  UsedMove(rows[k], rows'[k]) \/ DeleteTerminalRun(k[1])
<1>. DEFINE Moved == UsedMove(rows[k], rows'[k]) \/ DeleteTerminalRun(k[1])
<1>. SUFFICES Moved
  OBVIOUS
<1>0. /\ rows \in [Key -> HostRow] /\ rows[k] \in HostRow
      /\ rows[k].attempt >= rows[k].max /\ rows[k].owner = Nobody /\ rows[k].expires = 0
  BY DEF HostTypeOK, HostRow, Used, Leased
<1>s. /\ {"succeeded", "failed"} \subseteq TerminalStatus
      /\ \A b \in GateTerminal : ProcessFor[b] \in TerminalStatus
  BY DEF TerminalStatus, ProcessFor, GateTerminal
<1>u. CASE rows'[k] = rows[k]
  BY <1>u DEF UsedMove
<1>r. ASSUME NEW j \in Key, NEW row, rows' = [rows EXCEPT ![j] = row],
             j = k => UsedMove(rows[k], row)
      PROVE  Moved
  <2>1. CASE j # k
    BY <1>0, <1>r, <1>u, <2>1
  <2>2. CASE j = k
    BY <1>0, <1>r, <2>2
  <2>. QED  BY <2>1, <2>2
<1>1. ASSUME NEW j \in Key, NEW status \in Asked \cup {"waiting"}, NEW attempt \in 1..Budget,
             NEW out \in Docs, UpsertProcess(j, status, attempt, out)
      PROVE  Moved
  <2>. DEFINE inserted == InsertedRow(status, attempt, out)
              unleased == [rows[j] EXCEPT !.owner = Nobody, !.expires = 0]
              written == [unleased EXCEPT !.status = status, !.attempt = attempt, !.out = out]
  <2>0. rows[j] \in HostRow /\ attempt # 0
    BY <1>0, HostBoundsAssumption
  <2>1. /\ unleased.status = rows[j].status /\ unleased.max = rows[j].max
        /\ unleased.attempt = rows[j].attempt
        /\ written.status = status /\ written.max = rows[j].max /\ written.attempt = attempt
        /\ ~Leased(unleased) /\ ~Leased(written)
    BY <2>0 DEF HostRow, Leased
  <2>2. \/ rows[j].status = "absent" /\ rows' = [rows EXCEPT ![j] = inserted]
        \/ rows' = [rows EXCEPT ![j] = unleased]
        \/ MayOverwrite(rows[j], status) /\ rows' = [rows EXCEPT ![j] = written]
    BY <1>1 DEF UpsertProcess
  <2>. HIDE DEF Moved, inserted, unleased, written
  <2>3. CASE rows[j].status = "absent" /\ rows' = [rows EXCEPT ![j] = inserted]
    BY <1>r, <2>3
  <2>4. CASE rows' = [rows EXCEPT ![j] = unleased]
    BY <1>r, <2>1, <2>4 DEF UsedMove, Used
  <2>5. CASE MayOverwrite(rows[j], status) /\ rows' = [rows EXCEPT ![j] = written]
    <3>1. status = rows[j].status \/ CanTransition(rows[j].status, status)
      BY <2>5 DEF MayOverwrite
    <3>2. j = k => UsedMove(rows[k], written)
      BY <2>0, <2>1, <3>1 DEF UsedMove, Used
    <3>. QED  BY <1>r, <2>5, <3>2
  <2>. QED  BY <2>2, <2>3, <2>4, <2>5
<1>2. ASSUME NEW j \in Key, NEW b \in GateTerminal, NEW out \in Docs,
             NEW blocked \in BOOLEAN, CompleteWaitingProcess(j, b, out, blocked)
      PROVE  Moved
  <2>. DEFINE unleased == [rows[j] EXCEPT !.owner = Nobody, !.expires = 0]
              closed == [rows[j] EXCEPT !.status = ProcessFor[b], !.out = out]
  <2>1. rows' = [rows EXCEPT ![j] = unleased] \/ rows' = [rows EXCEPT ![j] = closed]
    BY <1>2 DEF CompleteWaitingProcess, CompleteReplayed, CompleteWaiting
  <2>2. j = k => UsedMove(rows[k], unleased) /\ UsedMove(rows[k], closed)
    <3>. SUFFICES ASSUME j = k
                  PROVE  UsedMove(rows[k], unleased) /\ UsedMove(rows[k], closed)
      OBVIOUS
    <3>1. /\ unleased.status = rows[k].status /\ unleased.max = rows[k].max
          /\ unleased.attempt = rows[k].attempt /\ ~Leased(unleased)
          /\ closed.status = ProcessFor[b] /\ closed.max = rows[k].max
          /\ closed.attempt = rows[k].attempt /\ ~Leased(closed)
      BY <1>0 DEF HostRow, Leased
    <3>. HIDE DEF unleased, closed
    <3>. QED  BY <1>s, <3>1 DEF UsedMove, Used
  <2>. HIDE DEF Moved, unleased, closed
  <2>. QED  BY <1>r, <2>1, <2>2
<1>3. ASSUME NEW r \in Run, DeleteTerminalRun(r)
      PROVE  Moved
  <2>1. k[1] # r => rows'[k] = rows[k]
    BY <1>3 DEF DeleteTerminalRun
  <2>. QED  BY <1>3, <1>u, <2>1
<1>4. ASSUME NEW r \in Run, NEW status \in RunAsked,
             UpsertRunMetadata(r, status) \/ TransitionRun(r, status) \/ FinalizeRun(r, status)
      PROVE  Moved
  BY <1>4, <1>u DEF UpsertRunMetadata, TransitionRun, FinalizeRun
<1>5. CASE Lifecycle
  <2>1. ASSUME NEW j \in Key, NEW attempt \in 1..Budget, NEW out \in Docs,
               ParkProcess(j, attempt, out)
        PROVE  Moved
    BY <1>1, <2>1 DEF ParkProcess
  <2>. HIDE DEF Moved
  <2>. QED  BY <1>5, <1>1, <1>2, <1>3, <1>4, <2>1 DEF Lifecycle
<1>6. ASSUME NEW t \in Thread, RecordStart(t)
      PROVE  Moved
  <2>. DEFINE j == rec[t].key
              new == InsertedRow("running", 1, NoDoc)
  <2>1. j \in Key
    BY <1>6 DEF RecordStart, KeysKnown
  <2>2. rows' = rows \/ (rows[j].status = "absent" /\ rows' = [rows EXCEPT ![j] = new])
    BY ONLY <1>6 DEF RecordStart, MayStart
  <2>. HIDE DEF Moved, j, new
  <2>. QED  BY <1>r, <1>u, <2>1, <2>2
<1>7. ASSUME NEW t \in Thread, NEW out \in Docs, RecordFinish(t, out)
      PROVE  Moved
  <2>. DEFINE j == rec[t].key
              new == [rows[j] EXCEPT !.status = rec[t].to,
                                     !.out = IF rec[t].to = "failed" THEN NoDoc ELSE out]
  <2>1. j \in Key /\ rec[t].to \in TerminalStatus
    BY <1>7, <1>s DEF RecordFinish, KeysKnown
  <2>2. j = k => UsedMove(rows[k], new)
    <3>. SUFFICES ASSUME j = k PROVE UsedMove(rows[k], new)
      OBVIOUS
    <3>1. /\ new.status = rec[t].to /\ new.max = rows[k].max /\ new.attempt = rows[k].attempt
          /\ ~Leased(new)
      BY <1>0 DEF HostRow, Leased
    <3>. HIDE DEF new
    <3>. QED  BY <2>1, <3>1 DEF UsedMove, Used
  <2>3. rows' = rows \/ rows' = [rows EXCEPT ![j] = new]
    BY ONLY <1>7 DEF RecordFinish
  <2>. HIDE DEF Moved, j, new
  <2>. QED  BY <1>r, <1>u, <2>1, <2>2, <2>3
<1>8. CASE \/ \E t \in Thread : \/ \E j \in Key : RecordEnter(t, j)
                               \/ \E to \in {"succeeded", "failed"} : RecordCall(t, to)
                               \/ RecordFails(t)
           \/ \E h \in Home : Crash(h)
  BY <1>8, <1>u DEF RecordEnter, RecordCall, RecordFails, Crash
<1>9. CASE Record
  <2>. HIDE DEF Moved
  <2>. QED  BY <1>6, <1>7, <1>8, <1>9 DEF Record
<1>10. ASSUME NEW j \in Key, j # k, NEW row, rows' = [rows EXCEPT ![j] = row]
       PROVE  Moved
  BY <1>0, <1>10, <1>u
<1>11. CASE Native
  <2>1. ASSUME NEW j \in Key, ScheduleRow(j)
        PROVE  Moved
    BY <1>10, <2>1 DEF ScheduleRow
  <2>2. ASSUME NEW j \in Key, RetryRow(j)
        PROVE  Moved
    <3>1. j # k
      BY <1>0, <2>2 DEF RetryRow, HostRow
    <3>2. rows' = [rows EXCEPT ![j] = [rows[j] EXCEPT !.status = "retry_wait"]]
      BY <2>2 DEF RetryRow
    <3>. HIDE DEF Moved
    <3>. QED  BY <1>10, <3>1, <3>2
  <2>3. ASSUME NEW w \in Worker, NEW j \in Key, NEW until \in (now + 1)..(now + MaxLease),
               ClaimRow(w, j, until)
        PROVE  Moved
    <3>1. j # k
      BY <1>0, <2>3 DEF ClaimRow, HostRow
    <3>. HIDE DEF Moved
    <3>. QED  BY <1>10, <2>3, <3>1 DEF ClaimRow
  <2>4. ASSUME NEW w \in Worker, NEW j \in Key, ParkRow(w, j)
        PROVE  Moved
    <3>1. j # k
      BY <1>0, <2>4, NobodyAssumption DEF ParkRow
    <3>. HIDE DEF Moved
    <3>. QED  BY <1>10, <2>4, <3>1 DEF ParkRow
  <2>5. ASSUME NEW w \in Worker, NEW j \in Key, NEW to \in {"succeeded", "failed"},
               NEW out \in Docs, SettleRow(w, j, to, out)
        PROVE  Moved
    <3>1. j # k
      BY <1>0, <2>5, NobodyAssumption DEF SettleRow
    <3>. HIDE DEF Moved
    <3>. QED  BY <1>10, <2>5, <3>1 DEF SettleRow
  <2>. HIDE DEF Moved
  <2>. QED  BY <1>11, <2>1, <2>2, <2>3, <2>4, <2>5 DEF Native
<1>12. CASE RecoverResolve
  <2>1. PICK item \in rcv.sure :
          \/ rows' = rows
          \/ /\ MayResolve(rows[item[1]], item[2])
             /\ rows' = [rows EXCEPT ![item[1]] = [rows[item[1]] EXCEPT !.status = item[2],
                           !.owner = Nobody, !.expires = 0,
                           !.out = IF item[2] = "failed" THEN NoDoc ELSE rows[item[1]].out]]
    BY <1>12 DEF RecoverResolve
  <2>2. item \in Key \X {"failed", "retry_wait"}
    BY DEF HostTypeOK
  <2>. DEFINE j == item[1]
              new == [rows[j] EXCEPT !.status = item[2], !.owner = Nobody, !.expires = 0,
                                     !.out = IF item[2] = "failed" THEN NoDoc ELSE rows[j].out]
  <2>3. j \in Key
    BY <2>2
  <2>4. MayResolve(rows[j], item[2]) /\ j = k => UsedMove(rows[k], new)
    <3>. SUFFICES ASSUME MayResolve(rows[j], item[2]), j = k PROVE UsedMove(rows[k], new)
      OBVIOUS
    <3>1. item[2] \in TerminalStatus
      BY <1>0, <1>s, <2>2 DEF MayResolve, HostRow
    <3>2. /\ new.status = item[2] /\ new.max = rows[k].max /\ new.attempt = rows[k].attempt
          /\ ~Leased(new)
      BY <1>0 DEF HostRow, Leased
    <3>. HIDE DEF new
    <3>. QED  BY <3>1, <3>2 DEF UsedMove, Used
  <2>5. rows' = rows \/ (MayResolve(rows[j], item[2]) /\ rows' = [rows EXCEPT ![j] = new])
    BY <2>1
  <2>. HIDE DEF Moved, j, new
  <2>. QED  BY <1>r, <1>u, <2>3, <2>4, <2>5
<1>13. CASE Tick \/ InspectLeases \/ (\E w \in Worker, at \in 0..now : RecoverSelect(w, at))
            \/ RecoverCheck \/ RecoverStops \/ UNCHANGED hostVars
  BY <1>13, <1>u DEF Tick, InspectLeases, RecoverSelect, RecoverCheck, RecoverStops, hostVars
<1>. HIDE DEF Moved
<1>14. CASE Upkeep
  BY <1>12, <1>13, <1>14 DEF Upkeep
<1>. QED  BY <1>5, <1>8, <1>9, <1>11, <1>13, <1>14 DEF HostNext

\* A callback is spent by the thread that starts it.
LEMMA SpentSince ==
    ASSUME HostTypeOK, KeysKnown, [HostNext]_hostVars, NEW k \in Key, NEW b \in 1..MaxBirths,
           Spent(k, b)'
    PROVE  \/ Spent(k, b)
           \/ \E t \in Thread : RecordStart(t) /\ MayStart(k) /\ rec[t].key = k
<1>0. /\ rec \in [Thread -> [pc : {"idle", "start", "call", "finish"}, key : Key \cup {<<>>},
                             born : Nat, to : {"none", "succeeded", "failed"}]]
      /\ called \in [Run \X Process \X (1..MaxBirths) -> Nat]
      /\ k = <<k[1], k[2]>>
  BY DEF HostTypeOK, Key
<1>1. CASE /\ called' = called
           /\ \A t \in Thread : rec'[t] = rec[t] \/ rec'[t].pc # "call"
  BY <1>1 DEF Spent
<1>2. ASSUME NEW t \in Thread, NEW to \in {"succeeded", "failed"}, RecordCall(t, to)
      PROVE  Spent(k, b)
  <2>1. /\ rec[t].pc = "call" /\ rec[t].key \in Key
        /\ rec' = [rec EXCEPT ![t] = [rec[t] EXCEPT !.pc = "finish", !.to = to]]
        /\ called' = [called EXCEPT ![<<rec[t].key[1], rec[t].key[2], rec[t].born>>] = @ + 1]
    BY <1>0, <1>2 DEF RecordCall, KeysKnown
  <2>2. CASE <<k[1], k[2], b>> = <<rec[t].key[1], rec[t].key[2], rec[t].born>>
    <3>1. rec[t].key = <<rec[t].key[1], rec[t].key[2]>>
      BY <2>1 DEF Key
    <3>2. rec[t].key = k /\ rec[t].born = b
      BY <1>0, <2>2, <3>1
    <3>. QED  BY <2>1, <3>2 DEF Spent
  <2>3. CASE <<k[1], k[2], b>> # <<rec[t].key[1], rec[t].key[2], rec[t].born>>
    <3>1. called'[<<k[1], k[2], b>>] = called[<<k[1], k[2], b>>]
      BY <1>0, <2>1, <2>3 DEF Key
    <3>2. \A u \in Thread : rec'[u] = rec[u] \/ rec'[u].pc # "call"
      BY <1>0, <2>1
    <3>. QED  BY <3>1, <3>2 DEF Spent
  <2>. QED  BY <2>2, <2>3
<1>3. ASSUME NEW t \in Thread, RecordStart(t), MayStart(rec[t].key), rec[t].key # k
      PROVE  Spent(k, b)
  <2>1. /\ rec' = [rec EXCEPT ![t] = [rec[t] EXCEPT !.pc = "call",
                                         !.born = runs[rec[t].key[1]].born]]
        /\ called' = called
    BY <1>0, <1>3 DEF RecordStart
  <2>2. rec'[t].key # k /\ \A u \in Thread : u = t \/ rec'[u] = rec[u]
    BY <1>0, <1>3, <2>1
  <2>. QED  BY <2>1, <2>2 DEF Spent
<1>. QED  BY <1>1, <1>2, <1>3, CallMoves

\* The row of a spent callback stays a callback's row.
LEMMA CallbackRowStays ==
    ASSUME NoWayBack, TablesAgree, [HostNext]_hostVars, NEW k \in Key,
           CallbackRow(k), RunExists(k[1]), RunExists(k[1])'
    PROVE  CallbackRow(k)'
<1>t. /\ HostTypeOK /\ KeysKnown
      /\ k[1] \in Run /\ k = <<k[1], k[2]>>
      /\ runs \in [Run -> [status : RunStatuses \cup {"absent"}, born : Nat]]
      /\ rows \in [Key -> HostRow]
  BY DEF TablesAgree, HostTypeOK, Key
<1>1. UsedMove(rows[k], rows'[k])
  <2>1. DeleteTerminalRun(k[1]) => ~RunExists(k[1])'
    BY <1>t DEF DeleteTerminalRun, RunExists
  <2>. QED  BY <1>t, <2>1, UsedMoves DEF CallbackRow
<1>2. /\ Used(rows'[k])
      /\ rows'[k].status \notin {"absent", "pending"}
      /\ rows'[k].status \in {"retry_wait", "ready"} => "retry_wait" \in Asked
      /\ rows'[k].status = "ready" => "ready" \in Asked
  BY <1>1 DEF UsedMove, CallbackRow, CanTransition, OwnTargets, OpenStatus, TerminalStatus
<1>3. rows'[k].status = "running" => rows[k].status = "running"
  <2>. SUFFICES ASSUME rows'[k].status = "running", rows[k].status # "running" PROVE FALSE
    OBVIOUS
  <2>1. CanTransition(rows[k].status, "running") /\ "running" \in Asked
    BY <1>1 DEF UsedMove, TerminalStatus
  <2>2. rows[k].status = "ready"
    BY <2>1 DEF CanTransition, OwnTargets, OpenStatus
  <2>. QED  BY <2>1, <2>2 DEF CallbackRow, NoWayBack
<1>4. ASSUME rows'[k].status = "running"
      PROVE  \/ Incarnation(k)' \in lost'
             \/ \E t \in Thread : /\ rec'[t].pc \in {"call", "finish"} /\ rec'[t].key = k
                                  /\ rec'[t].born = runs'[k[1]].born
  <2>1. Incarnation(k)' = Incarnation(k) /\ runs'[k[1]].born = runs[k[1]].born
    BY <1>t, RunMoves DEF Incarnation
  <2>2. CASE Incarnation(k) \in lost
    BY <1>t, <2>1, <2>2, LostStays
  <2>3. ASSUME NEW t \in Thread, rec[t].pc \in {"call", "finish"}, rec[t].key = k,
               rec[t].born = runs[k[1]].born
        PROVE  \/ Incarnation(k)' \in lost'
               \/ /\ rec'[t].pc \in {"call", "finish"} /\ rec'[t].key = k
                  /\ rec'[t].born = runs'[k[1]].born
    <3>1. ASSUME NEW out \in Docs
          PROVE  ~RecordFinish(t, out)
      <4>. SUFFICES ASSUME RecordFinish(t, out) PROVE FALSE
        OBVIOUS
      <4>. DEFINE new == [rows[k] EXCEPT !.status = rec[t].to,
                                         !.out = IF rec[t].to = "failed" THEN NoDoc ELSE out]
      <4>1. rows' = [rows EXCEPT ![k] = new] /\ rec[t].pc = "finish"
        BY <1>3, <1>4, <2>3 DEF RecordFinish, MayFinish
      <4>2. new.status = rec[t].to
        BY <1>t DEF HostRow
      <4>3. rec[t].to # "running"
        BY <1>t, <4>1 DEF KeysKnown
      <4>. HIDE DEF new
      <4>. QED  BY <1>4, <1>t, <4>1, <4>2, <4>3
    <3>. QED  BY <1>t, <2>1, <2>3, <3>1, ThreadMoves DEF Incarnation
  <2>. QED  BY <1>3, <1>4, <2>2, <2>3 DEF CallbackRow
<1>. QED  BY <1>2, <1>4 DEF CallbackRow, Used, Leased

LEMMA CallbackRowsInduction ==
    NoWayBack /\ CallsCounted /\ CallbackRows /\ [HostNext]_hostVars => CallbackRows'
<1>. SUFFICES ASSUME NoWayBack, CallsCounted, CallbackRows, [HostNext]_hostVars
              PROVE  CallbackRows'
  OBVIOUS
<1>n. \A k \in Key : runs'[k[1]].born \in Nat
  <2>1. HostTypeOK'
    BY HostTypeInduction DEF CallsCounted, TablesAgree
  <2>. QED  BY <2>1 DEF HostTypeOK, Key
<1>. SUFFICES ASSUME NEW k \in Key, RunExists(k[1])',
                     NEW b \in Nat, b = runs'[k[1]].born, Spent(k, b)'
              PROVE  CallbackRow(k)'
  BY <1>n DEF CallbackRows, Spent, RunExists
<1>t. /\ TablesAgree /\ SpentHasRow /\ HostTypeOK /\ KeysKnown /\ BirthsCounted
      /\ k[1] \in Run
      /\ runs \in [Run -> [status : RunStatuses \cup {"absent"}, born : Nat]]
      /\ rows \in [Key -> HostRow]
      /\ rec \in [Thread -> [pc : {"idle", "start", "call", "finish"}, key : Key \cup {<<>>},
                             born : Nat, to : {"none", "succeeded", "failed"}]]
  BY DEF CallsCounted, TablesAgree, HostTypeOK, Key
<1>1. b \in 1..MaxBirths
  <2>1. BirthsCounted'
    BY <1>t, BirthsInduction
  <2>. QED  BY <1>t, <2>1, HostBoundsAssumption DEF BirthsCounted, RunExists
<1>2. ASSUME NEW t \in Thread, RecordStart(t), MayStart(k), rec[t].key = k
      PROVE  CallbackRow(k)'
  <2>1. /\ rec' = [rec EXCEPT ![t] = [rec[t] EXCEPT !.pc = "call", !.born = runs[k[1]].born]]
        /\ runs' = runs
        /\ rows' = [rows EXCEPT ![k] = InsertedRow("running", 1, NoDoc)]
    BY <1>t, <1>2 DEF RecordStart
  <2>2. /\ rec'[t].pc = "call" /\ rec'[t].key = k /\ rec'[t].born = runs'[k[1]].born
    BY <1>t, <1>2, <2>1
  <2>3. rows'[k] = InsertedRow("running", 1, NoDoc)
    BY <1>t, <2>1
  <2>4. /\ rows'[k].status = "running" /\ rows'[k].max = 1 /\ rows'[k].attempt = 1
        /\ rows'[k].owner = Nobody /\ rows'[k].expires = 0
    BY <2>3 DEF InsertedRow, NoRow
  <2>. QED  BY <2>2, <2>4 DEF CallbackRow, Used, Leased
<1>3. CASE Spent(k, b)
  <2>1. RunExists(k[1]) /\ b = runs[k[1]].born
    BY <1>1, <1>3, <1>t, RunMoves DEF SpentHasRow
  <2>2. CallbackRow(k)
    BY <1>3, <2>1 DEF CallbackRows
  <2>. QED  BY <1>t, <2>1, <2>2, CallbackRowStays
<1>. QED  BY <1>1, <1>2, <1>3, <1>t, SpentSince

\* CallbackEnds is an invariant unless the application itself leads rows back to
\* running: a callback's row stops running with its call, or its home died or its
\* record failed, whatever recoveries, completions and deletions came between.
THEOREM CallbacksEnd == NoWayBack => (HostSpec => []CallbackEnds)
<1>. SUFFICES ASSUME NoWayBack PROVE HostSpec => []CallbackEnds
  OBVIOUS
<1>1. HostInit => CallsCounted /\ CallbackRows
  <2>1. HostInit => CallbackRows
    BY DEF HostInit, RunExists, CallbackRows, Key
  <2>. QED  BY <2>1, CallsInit
<1>2. CallsCounted /\ CallbackRows /\ [HostNext]_hostVars => (CallsCounted /\ CallbackRows)'
  BY CallsInduction, CallbackRowsInduction
<1>3. CallsCounted /\ CallbackRows => CallbackEnds
  <2>. SUFFICES ASSUME CallsCounted, CallbackRows, NEW k \in Key,
                       RunExists(k[1]), called[Incarnation(k)] # 0,
                       rows[k].status = "running",
                       Incarnation(k) \notin lost
                PROVE  \E t \in Thread : /\ rec[t].pc = "finish" /\ rec[t].key = k
                                         /\ rec[t].born = runs[k[1]].born
    BY DEF CallbackEnds
  <2>1. CallbackRow(k)
    BY DEF CallbackRows, Spent, Incarnation
  <2>2. PICK t \in Thread : /\ rec[t].pc \in {"call", "finish"} /\ rec[t].key = k
                            /\ rec[t].born = runs[k[1]].born
    BY <2>1 DEF CallbackRow
  <2>3. rec[t].pc # "call"
    BY <2>2 DEF CallsCounted, TicketsUnused, Incarnation
  <2>. QED  BY <2>2, <2>3
<1>. QED  BY <1>1, <1>2, <1>3, PTL DEF HostSpec

=============================================================================
