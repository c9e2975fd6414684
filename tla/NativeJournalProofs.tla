-------------------------- MODULE NativeJournalProofs --------------------------
(***************************************************************************)
(* Theorems about NativeJournal, for every set of processes, callers,      *)
(* documents and keys and for every bound: its invariants and its step     *)
(* properties, that it implements ProcessLifecycle, and what its log says  *)
(* of the queue.                                                           *)
(***************************************************************************)
EXTENDS NativeJournal, FiniteSetTheorems, SequenceTheorems, TLAPS

-----------------------------------------------------------------------------
(* Types.                                                                  *)

\* Each helper returns a row, an entry or a sequence of entries when its
\* arguments are what the journal hands it.
LEMMA ClaimedTypes ==
    ASSUME NEW row \in Row, NEW w \in Actor, NEW until \in Nat
    PROVE  ClaimedRow(row, w, until) \in Row
<1>1. "running" \in Status
  BY DEF Status, OpenStatus
<1>2. row.attempt + 1 \in Nat
  BY DEF Row
<1>. QED  BY <1>1, <1>2 DEF ClaimedRow, Row

\* The row claim_next_ready gives up on is still a row.
LEMMA ReapedTypes ==
    ASSUME NEW row \in Row
    PROVE  ReapedRow(row) \in Row
BY DEF ReapedRow, Row, Status, TerminalStatus, Doc

\* The row either UPDATE writes for a target of _transition_process is a row.
LEMMA MovedTypes ==
    ASSUME NEW row \in Row, NEW to \in Target, NEW data \in Doc, NEW due \in Nat
    PROVE  /\ MovedRow(row, to, data, due) \in Row
           /\ CommandRow(row, to, data, due) \in Row
           /\ RecordedData(row, to, data) \in Doc
<1>1. to \in Status
  BY DEF Target, Status, OpenStatus, TerminalStatus
<1>2. RecordedData(row, to, data) \in Doc
  BY DEF RecordedData, Row
<1>3. NoDatum \in Doc
  BY DEF Doc, Offered
<1>4. MovedRow(row, to, data, due) \in Row
  BY <1>1, <1>2, <1>3 DEF MovedRow, Row, Target
<1>5. CommandRow(row, to, data, due) \in Row
  BY <1>4 DEF CommandRow, Row, Target
<1>. QED  BY <1>2, <1>4, <1>5

\* So is the row a process.ready command promotes.
LEMMA ReadyTypes ==
    ASSUME NEW row \in Row, NEW data, NEW due
    PROVE  CommandRow(row, "ready", data, due) \in Row
BY DEF CommandRow, Row, Status, OpenStatus

\* The command and event of a claim or of a reap are entries of the log.
LEMMA EntryTypes ==
    ASSUME TypeOK, NEW p \in Process, NEW w \in Actor, NEW at \in Nat, NEW until \in Nat,
           NEW key \in ClaimKeys(p)
    PROVE  /\ ClaimEntry(p, w, at, until, key) \in Entry
           /\ ReapEntry(p, w, at) \in Entry
<1>1. proc[p].attempt \in Nat
  BY DEF TypeOK, Row
<1>2. key \in DefaultKey \cup ClientKey
  BY <1>1 DEF ClaimKeys, ClaimKey, DefaultKey
<1>3. ReapKey(p, proc[p].attempt) \in DefaultKey
  BY <1>1 DEF ReapKey, DefaultKey
<1>4. NoDatum \in Doc /\ LeaseExpired \in Doc
  BY DEF Doc, Offered
<1>5. "running" \in Status /\ "failed" \in Status
  BY DEF Status, OpenStatus, TerminalStatus
<1>6. ClaimEntry(p, w, at, until, key) \in Entry
  BY <1>1, <1>2, <1>4, <1>5 DEF ClaimEntry, Entry
<1>7. ReapEntry(p, w, at) \in Entry
  BY <1>1, <1>3, <1>4, <1>5 DEF ReapEntry, Entry
<1>. QED  BY <1>6, <1>7

\* The reaper lists finitely many rows, so it appends a sequence of entries.
LEMMA ListingTypes ==
    ASSUME TypeOK, NEW S \in SUBSET Process, NEW order \in Listings(S),
           NEW w \in Actor, NEW at \in Nat
    PROVE  ReapEntries(order, w, at) \in Seq(Entry)
<1>1. IsFiniteSet(S)
  BY ProcessAssumption, FS_Subset
<1>2. Cardinality(S) \in Nat
  BY <1>1, FS_CardinalityType
<1>3. order \in [1..Cardinality(S) -> S]
  BY DEF Listings
<1>4. \A i \in 1..Cardinality(S) : ReapEntry(order[i], w, at) \in Entry
  <2>. TAKE i \in 1..Cardinality(S)
  <2>1. order[i] \in Process
    BY <1>3
  <2>2. ClaimKey(order[i], proc[order[i]].attempt + 1) \in ClaimKeys(order[i])
    BY DEF ClaimKeys
  <2>. QED  BY <2>1, <2>2, EntryTypes
<1>5. ReapEntries(order, w, at) = [i \in 1..Cardinality(S) |-> ReapEntry(order[i], w, at)]
  BY <1>3 DEF ReapEntries
<1>6. ReapEntries(order, w, at) \in [1..Cardinality(S) -> Entry]
  BY <1>4, <1>5
<1>. QED  BY <1>2, <1>6, SeqDef

\* The clock readings, due times and lease ends of the callers are seconds.
LEMMA InputTypes ==
    ASSUME TypeOK, NEW at \in Readings
    PROVE  /\ at \in Nat /\ at <= now
           /\ Due(at) \subseteq Nat
           /\ Lease(at) \subseteq Nat
<1>1. at \in Nat /\ at <= now
  BY DEF TypeOK, Readings
<1>. QED  BY <1>1, BoundsAssumption DEF Due, Lease

\* An empty journal is well typed.
LEMMA TypeInit == Init => TypeOK
<1>. SUFFICES ASSUME Init PROVE TypeOK
  OBVIOUS
<1>1. NoDatum \in Doc
  BY DEF Doc, Offered
<1>2. AbsentRow \in Row
  BY <1>1 DEF AbsentRow, Row
<1>. QED  BY <1>2 DEF Init, TypeOK

\* Every action keeps the types.
LEMMA TypeInduction == TypeOK /\ [Next]_vars => TypeOK'
<1>. SUFFICES ASSUME TypeOK, [Next]_vars PROVE TypeOK'
  OBVIOUS
<1>. USE DEF TypeOK
<1>1. CASE Schedule
  <2>0. PICK p \in Process, at \in Readings :
             \/ \E due \in Due(at) : ScheduleProcess(p, at, due)
             \/ \E status \in {"pending", "ready"}, due \in Due(at), key \in ClientKey :
                   ScheduleProcessWithCommand(p, status, at, due, key)
    BY <1>1 DEF Schedule
  <2>. DEFINE type == "schedule"
  <2>1. PICK status \in {"pending", "ready"}, due \in Due(at), key \in DefaultKey \cup ClientKey :
             InsertRow(p, status, at, due, type, key)
    BY <2>0 DEF ScheduleProcess, ScheduleProcessWithCommand, ScheduleKey, DefaultKey
  <2>2. at \in Nat /\ due \in Nat
    BY InputTypes
  <2>3. NoDatum \in Doc /\ {"pending", "ready"} \subseteq Status
    BY DEF Doc, Offered, Status, OpenStatus
  <2>4. [AbsentRow EXCEPT !.status = status, !.due = due, !.created = at] \in Row
    BY <2>2, <2>3 DEF AbsentRow, Row
  <2>5. proc' \in [Process -> Row]
    BY <2>1, <2>4 DEF InsertRow
  <2>6. [key |-> key, type |-> type, to |-> status, process |-> p, attempt |-> 0,
         actor |-> NoActor, at |-> at, data |-> NoDatum, until |-> 0] \in Entry
    BY <2>2, <2>3 DEF Entry
  <2>7. log' \in Seq(Entry)
    BY <2>1, <2>6 DEF InsertRow
  <2>. QED  BY <2>1, <2>5, <2>7 DEF InsertRow
<1>2. CASE Claim
  <2>0. PICK w \in Actor, at \in Readings : \E until \in Lease(at) :
             \/ ClaimNextReady(w, at, until)
             \/ \E p \in Process : ClaimProcess(p, w, at, until)
    BY <1>2 DEF Claim
  <2>1. PICK until \in Lease(at) :
             \/ ClaimNextReady(w, at, until)
             \/ \E p \in Process : ClaimProcess(p, w, at, until)
    BY <2>0
  <2>2. at \in Nat /\ until \in Nat
    BY InputTypes
  <2>3. CASE ClaimNextReady(w, at, until)
    <3>. DEFINE reaped == {p \in Process : Exhausted(p, at)}
                Reaped(p) == IF p \in reaped THEN ReapedRow(proc[p]) ELSE proc[p]
    <3>1. PICK order \in Listings(reaped) :
             \/ /\ proc' = [p \in Process |-> Reaped(p)]
                /\ log' = log \o ReapEntries(order, w, at)
             \/ \E p \in Process : \E key \in ClaimKeys(p) :
                /\ proc' = [q \in Process |-> IF q = p THEN ClaimedRow(proc[p], w, until)
                                                       ELSE Reaped(q)]
                /\ log' = log \o ReapEntries(order, w, at)
                              \o <<ClaimEntry(p, w, at, until, key)>>
      BY <2>3 DEF ClaimNextReady
    <3>2. \A p \in Process : Reaped(p) \in Row /\ ClaimedRow(proc[p], w, until) \in Row
      BY <2>2, ClaimedTypes, ReapedTypes
    <3>3. ReapEntries(order, w, at) \in Seq(Entry)
      BY <2>2, ListingTypes
    <3>4. \A p \in Process : \A key \in ClaimKeys(p) : ClaimEntry(p, w, at, until, key) \in Entry
      BY <2>2, EntryTypes
    <3>. HIDE DEF Reaped, reaped
    <3>5. proc' \in [Process -> Row]
      BY <3>1, <3>2
    <3>6. log' \in Seq(Entry)
      <4>1. log \o ReapEntries(order, w, at) \in Seq(Entry)
        BY <3>3, ConcatProperties
      <4>2. \A e \in Entry : (log \o ReapEntries(order, w, at)) \o <<e>> \in Seq(Entry)
        BY <4>1
      <4>. QED  BY <3>1, <3>4, <4>1, <4>2
    <3>7. UNCHANGED <<now, inflight>>
      BY <2>3 DEF ClaimNextReady
    <3>. QED  BY <3>5, <3>6, <3>7
  <2>4. CASE \E p \in Process : ClaimProcess(p, w, at, until)
    <3>1. PICK p \in Process : ClaimProcess(p, w, at, until)
      BY <2>4
    <3>2. PICK key \in ClaimKeys(p) : log' = Append(log, ClaimEntry(p, w, at, until, key))
      BY <3>1 DEF ClaimProcess
    <3>3. ClaimEntry(p, w, at, until, key) \in Entry
      BY <2>2, EntryTypes
    <3>4. ClaimedRow(proc[p], w, until) \in Row
      BY <2>2, ClaimedTypes
    <3>. QED  BY <3>1, <3>2, <3>3, <3>4 DEF ClaimProcess
  <2>. QED  BY <2>1, <2>3, <2>4
<1>3. CASE Begin
  <2>0. PICK c \in Client, p \in Process, to \in Target, actor \in Actor, at \in Readings :
             \E data \in Offered, due \in Due(at),
                key \in {TransitionKey(p, to, at)} \cup ClientKey :
                BeginTransition(c, p, to, actor, at, data, due, key)
    BY <1>3 DEF Begin
  <2>1. PICK data \in Offered, due \in Due(at),
             key \in {TransitionKey(p, to, at)} \cup ClientKey :
             BeginTransition(c, p, to, actor, at, data, due, key)
    BY <2>0
  <2>2. at \in Nat /\ due \in Nat
    BY InputTypes
  <2>3. key \in DefaultKey \cup ClientKey
    BY <2>2 DEF TransitionKey, DefaultKey
  <2>4. [client |-> c, process |-> p, to |-> to, actor |-> actor, at |-> at, data |-> data,
         due |-> due, key |-> key, seen |-> proc[p]] \in Calls
    BY <2>2, <2>3 DEF Calls, Doc
  <2>. QED  BY <2>1, <2>4 DEF BeginTransition
<1>4. CASE Finish
  <2>1. PICK call \in inflight : CommitTransition(call) \/ AbandonTransition(call)
    BY <1>4 DEF Finish
  <2>2. CASE CommitTransition(call)
    <3>1. call \in Calls
      OBVIOUS
    <3>2. /\ call.process \in Process /\ call.to \in Target /\ call.actor \in Actor
          /\ call.at \in Nat /\ call.data \in Doc /\ call.due \in Nat
          /\ call.key \in DefaultKey \cup ClientKey /\ call.seen \in Row
      BY <3>1 DEF Calls
    <3>3. MovedRow(proc[call.process], call.to, call.data, call.due) \in Row
      BY <3>2, MovedTypes
    <3>4. RecordedData(call.seen, call.to, call.data) \in Doc
      BY <3>2, MovedTypes
    <3>5. call.to \in Status /\ call.seen.attempt \in Nat
      BY <3>2 DEF Target, Status, OpenStatus, TerminalStatus, Row
    <3>6. [key |-> call.key, type |-> call.to, to |-> call.to, process |-> call.process,
           attempt |-> call.seen.attempt, actor |-> call.actor, at |-> call.at,
           data |-> RecordedData(call.seen, call.to, call.data),
           until |-> IF call.to = "retry_wait" THEN call.due ELSE 0] \in Entry
      BY <3>2, <3>4, <3>5 DEF Entry
    <3>7. proc' \in [Process -> Row]
      BY <2>2, <3>2, <3>3 DEF CommitTransition
    <3>8. log' \in Seq(Entry)
      BY <2>2, <3>6 DEF CommitTransition
    <3>. QED  BY <2>2, <3>7, <3>8 DEF CommitTransition
  <2>3. CASE AbandonTransition(call)
    BY <2>3 DEF AbandonTransition
  <2>. QED  BY <2>1, <2>2, <2>3
<1>5. CASE Command
  <2>0. PICK p \in Process, to \in Target \cup {"ready"}, actor \in Actor, at \in Readings,
             key \in ClientKey :
             \E fence \in -1..MaxAttempts[p], data \in Offered, due \in Due(at) :
                TransitionWithCommand(p, to, actor, at, fence, data, due, key)
    BY <1>5 DEF Command
  <2>1. PICK fence \in -1..MaxAttempts[p], data \in Offered, due \in Due(at) :
             TransitionWithCommand(p, to, actor, at, fence, data, due, key)
    BY <2>0
  <2>2. at \in Nat /\ due \in Nat
    BY InputTypes
  <2>3. data \in Doc
    BY DEF Doc
  <2>4. CommandRow(proc[p], to, data, due) \in Row
    <3>1. CASE to \in Target
      BY <3>1, <2>2, <2>3, MovedTypes
    <3>2. CASE to = "ready"
      BY <3>2, <2>2, <2>3, ReadyTypes
    <3>. QED  BY <3>1, <3>2
  <2>5. to \in Status /\ proc[p].attempt \in Nat
    BY DEF Target, Status, OpenStatus, TerminalStatus, Row
  <2>6. [key |-> key, type |-> to, to |-> to, process |-> p, attempt |-> proc[p].attempt,
         actor |-> actor, at |-> at, data |-> data,
         until |-> IF to = "retry_wait" THEN due ELSE 0] \in Entry
    BY <2>2, <2>3, <2>5 DEF Entry
  <2>. QED  BY <2>1, <2>4, <2>6 DEF TransitionWithCommand
<1>6. CASE Tick
  BY <1>6 DEF Tick
<1>7. CASE UNCHANGED vars
  BY <1>7 DEF vars
<1>. QED  BY <1>1, <1>2, <1>3, <1>4, <1>5, <1>6, <1>7 DEF Next

\* TypeOK: every row, log entry and call in flight has the shape the code
\* gives it, whoever calls the journal and however often.
THEOREM TypeCorrect == Spec => []TypeOK
BY TypeInit, TypeInduction, PTL DEF Spec

-----------------------------------------------------------------------------
(* What one step may do to one row.                                        *)

RowInserted(p) ==
    /\ proc[p].status = "absent"
    /\ \E status \in {"pending", "ready"}, due, created \in Nat :
          proc'[p] = [AbsentRow EXCEPT !.status = status, !.due = due, !.created = created]

RowClaimed(p) ==
    \E w \in Actor, at, until \in Nat :
        /\ at <= now /\ until > at /\ Claimable(p, at)
        /\ proc'[p] = ClaimedRow(proc[p], w, until)

RowReaped(p) ==
    \E at \in Nat : at <= now /\ Exhausted(p, at) /\ proc'[p] = ReapedRow(proc[p])

RowMoved(p) ==
    \E call \in inflight :
        /\ call.process = p
        /\ Unchanged(p, call.seen)
        /\ proc'[p] = MovedRow(proc[p], call.to, call.data, call.due)
        /\ log'[Len(log')].type = call.to

RowCommanded(p) ==
    \E to \in Target \cup {"ready"}, actor \in Actor, data \in Doc, due \in Nat :
        /\ CommandLegal(p, proc[p], to, actor)
        /\ proc'[p] = CommandRow(proc[p], to, data, due)
        /\ log'[Len(log')].type = to

\* The last entry of a log is the one appended last.
LEMMA LastAppended ==
    ASSUME NEW s \in Seq(Entry), NEW e, Append(s, e) \in Seq(Entry)
    PROVE  Append(s, e)[Len(Append(s, e))] = e
OBVIOUS

\* A row that changes is inserted, claimed, reaped, moved by a call in flight
\* or moved by a command.
LEMMA RowStep ==
    ASSUME TypeOK, [Next]_vars, NEW p \in Process, proc'[p] # proc[p]
    PROVE  RowInserted(p) \/ RowClaimed(p) \/ RowReaped(p) \/ RowMoved(p) \/ RowCommanded(p)
<1>. USE DEF TypeOK
<1>0. TypeOK'
  BY TypeInduction
<1>1. CASE Schedule
  <2>1. PICK q \in Process, at \in Readings :
             \/ \E due \in Due(at) : ScheduleProcess(q, at, due)
             \/ \E status \in {"pending", "ready"}, due \in Due(at), key \in ClientKey :
                   ScheduleProcessWithCommand(q, status, at, due, key)
    BY <1>1 DEF Schedule
  <2>2. PICK status \in {"pending", "ready"}, due \in Due(at), key \in DefaultKey \cup ClientKey :
             InsertRow(q, status, at, due, "schedule", key)
    BY <2>1 DEF ScheduleProcess, ScheduleProcessWithCommand, ScheduleKey, DefaultKey
  <2>3. at \in Nat /\ due \in Nat
    BY InputTypes
  <2>4. q = p
    BY <2>2 DEF InsertRow
  <2>. QED  BY <2>2, <2>3, <2>4 DEF InsertRow, RowInserted
<1>2. CASE Claim
  <2>1. PICK w \in Actor, at \in Readings : \E until \in Lease(at) :
             \/ ClaimNextReady(w, at, until)
             \/ \E q \in Process : ClaimProcess(q, w, at, until)
    BY <1>2 DEF Claim
  <2>2. PICK until \in Lease(at) :
             \/ ClaimNextReady(w, at, until)
             \/ \E q \in Process : ClaimProcess(q, w, at, until)
    BY <2>1
  <2>3. at \in Nat /\ until \in Nat /\ at <= now
    BY InputTypes
  <2>4. CASE ClaimNextReady(w, at, until)
    <3>. DEFINE reaped == {q \in Process : Exhausted(q, at)}
                ready == {q \in Process : Claimable(q, at)}
                Reaped(q) == IF q \in reaped THEN ReapedRow(proc[q]) ELSE proc[q]
    <3>1. until > at
      BY <2>4 DEF ClaimNextReady
    <3>2. \/ proc' = [q \in Process |-> Reaped(q)]
          \/ \E r \in ready : proc' = [q \in Process |->
                 IF q = r THEN ClaimedRow(proc[r], w, until) ELSE Reaped(q)]
      BY <2>4 DEF ClaimNextReady
    <3>3. \/ proc'[p] = Reaped(p)
          \/ p \in ready /\ proc'[p] = ClaimedRow(proc[p], w, until)
      BY <3>2
    <3>4. CASE proc'[p] = Reaped(p)
      BY <2>3, <3>4 DEF RowReaped
    <3>5. CASE p \in ready /\ proc'[p] = ClaimedRow(proc[p], w, until)
      BY <2>3, <3>1, <3>5 DEF RowClaimed
    <3>. QED  BY <3>3, <3>4, <3>5
  <2>5. CASE \E q \in Process : ClaimProcess(q, w, at, until)
    <3>1. PICK q \in Process : ClaimProcess(q, w, at, until)
      BY <2>5
    <3>2. q = p
      BY <3>1 DEF ClaimProcess
    <3>. QED  BY <2>3, <3>1, <3>2 DEF ClaimProcess, RowClaimed
  <2>. QED  BY <2>2, <2>4, <2>5
<1>3. CASE Begin
  BY <1>3 DEF Begin, BeginTransition
<1>4. CASE Finish
  <2>1. PICK call \in inflight : CommitTransition(call)
    BY <1>4 DEF Finish, AbandonTransition
  <2>2. call.process = p
    BY <2>1 DEF CommitTransition
  <2>3. log'[Len(log')].type = call.to
    BY <1>0, <2>1, LastAppended DEF CommitTransition
  <2>. QED  BY <2>1, <2>2, <2>3 DEF CommitTransition, RowMoved
<1>5. CASE Command
  <2>1. PICK q \in Process, to \in Target \cup {"ready"}, actor \in Actor, at \in Readings,
             key \in ClientKey :
             \E fence \in -1..MaxAttempts[q], data \in Offered, due \in Due(at) :
                TransitionWithCommand(q, to, actor, at, fence, data, due, key)
    BY <1>5 DEF Command
  <2>2. PICK fence \in -1..MaxAttempts[q], data \in Offered, due \in Due(at) :
             TransitionWithCommand(q, to, actor, at, fence, data, due, key)
    BY <2>1
  <2>3. due \in Nat /\ data \in Doc
    BY InputTypes DEF Doc
  <2>4. q = p
    BY <2>2 DEF TransitionWithCommand
  <2>5. log'[Len(log')].type = to
    BY <1>0, <2>2, LastAppended DEF TransitionWithCommand
  <2>6. CommandLegal(p, proc[p], to, actor)
    BY <2>2, <2>4 DEF TransitionWithCommand
  <2>7. proc'[p] = CommandRow(proc[p], to, data, due)
    BY <2>2, <2>4 DEF TransitionWithCommand
  <2>. QED  BY <2>3, <2>5, <2>6, <2>7 DEF RowCommanded
<1>6. CASE Tick
  BY <1>6 DEF Tick
<1>7. CASE UNCHANGED vars
  BY <1>7 DEF vars
<1>. QED  BY <1>1, <1>2, <1>3, <1>4, <1>5, <1>6, <1>7 DEF Next

-----------------------------------------------------------------------------
(* The inductive invariant: types, leases, and the fact the transaction of *)
(* a transition rests on: what a call in flight has read was a row the     *)
(* transition is legal for.                                                *)

InFlightLegal ==
    \A call \in inflight :
        Legal(call.process, call.seen, call.to, call.actor)

IInv == TypeOK /\ LeasedWhileRunning /\ InFlightLegal

\* No step leaves a running row without a lease, or another row with one.
LEMMA LeaseInduction ==
    ASSUME TypeOK, LeasedWhileRunning, [Next]_vars
    PROVE  LeasedWhileRunning'
<1>. DEFINE Sound(row) == /\ row.status = "running" <=> row.owner # NoActor
                          /\ row.status = "running" <=> row.expires # 0
<1>. SUFFICES ASSUME NEW p \in Process PROVE Sound(proc'[p])
  BY DEF LeasedWhileRunning
<1>1. proc[p] \in Row /\ Sound(proc[p])
  BY DEF TypeOK, LeasedWhileRunning
<1>2. CASE proc'[p] = proc[p]
  BY <1>1, <1>2
<1>3. CASE RowInserted(p)
  BY <1>3 DEF RowInserted, AbsentRow
<1>4. CASE RowClaimed(p)
  BY <1>1, <1>4, ActorAssumption DEF RowClaimed, ClaimedRow, Row
<1>5. CASE RowReaped(p)
  BY <1>1, <1>5 DEF RowReaped, ReapedRow, Row
<1>6. CASE RowMoved(p)
  <2>1. PICK call \in inflight : proc'[p] = MovedRow(proc[p], call.to, call.data, call.due)
    BY <1>6 DEF RowMoved
  <2>2. call.to \in Target
    BY DEF TypeOK, Calls
  <2>3. /\ proc'[p].status = call.to /\ proc'[p].owner = NoActor
        /\ proc'[p].expires = 0
    BY <1>1, <2>1 DEF MovedRow, Row
  <2>. QED  BY <2>2, <2>3 DEF Target
<1>7. CASE RowCommanded(p)
  <2>1. PICK to \in Target \cup {"ready"}, data \in Doc, due \in Nat :
             proc'[p] = CommandRow(proc[p], to, data, due)
    BY <1>7 DEF RowCommanded
  <2>2. /\ proc'[p].status = to /\ proc'[p].owner = NoActor
        /\ proc'[p].expires = 0
    BY <1>1, <2>1 DEF CommandRow, MovedRow, Row
  <2>. QED  BY <2>2 DEF Target
<1>. QED  BY <1>2, <1>3, <1>4, <1>5, <1>6, <1>7, RowStep

\* A call in flight keeps the lawful row it has read, whatever others commit.
LEMMA CallInduction ==
    ASSUME InFlightLegal, [Next]_vars
    PROVE  InFlightLegal'
<1>. SUFFICES ASSUME NEW call \in inflight', call \notin inflight
              PROVE  Legal(call.process, call.seen, call.to, call.actor)
  BY DEF InFlightLegal, Legal
<1>1. Begin
  <2>1. CASE Schedule
    BY <2>1 DEF Schedule, ScheduleProcess, ScheduleProcessWithCommand, InsertRow
  <2>2. CASE Claim
    BY <2>2 DEF Claim, ClaimNextReady, ClaimProcess
  <2>3. CASE Finish
    BY <2>3 DEF Finish, CommitTransition, AbandonTransition
  <2>4. CASE Command
    BY <2>4 DEF Command, TransitionWithCommand
  <2>5. CASE Tick \/ UNCHANGED vars
    BY <2>5 DEF Tick, vars
  <2>. QED  BY <2>1, <2>2, <2>3, <2>4, <2>5 DEF Next
<1>2. PICK c \in Client, p \in Process, to \in Target, actor \in Actor, at \in Readings :
           \E data \in Offered, due \in Due(at),
              key \in {TransitionKey(p, to, at)} \cup ClientKey :
              BeginTransition(c, p, to, actor, at, data, due, key)
  BY <1>1 DEF Begin
<1>. QED  BY <1>2 DEF BeginTransition

\* The inductive invariant of the queue: types, leases exactly on running rows,
\* and calls in flight that were legal when _transition_process read the row.
THEOREM InductiveInvariant == Spec => []IInv
<1>1. Init => IInv
  <2>. SUFFICES ASSUME Init PROVE LeasedWhileRunning /\ InFlightLegal
    BY TypeInit DEF IInv
  <2>. QED  BY DEF Init, LeasedWhileRunning, InFlightLegal, AbsentRow
<1>2. IInv /\ [Next]_vars => IInv'
  BY TypeInduction, LeaseInduction, CallInduction DEF IInv
<1>. QED  BY <1>1, <1>2, PTL DEF Spec

\* LeasedWhileRunning: every transition out of "running", by its worker, by the
\* operator or by the reaper, drops the lease, and no other row ever has one.
THEOREM LeaseCorrect == Spec => []LeasedWhileRunning
BY InductiveInvariant, PTL DEF IInv

\* NoTerminalRewrite: the six-column comparison inside the transaction makes
\* the check on the row read before it good enough for a terminal row.
THEOREM TerminalCorrect == Spec => NoTerminalRewrite
<1>. DEFINE Kept(p) ==
       proc[p].status \in TerminalStatus /\ proc'[p] # proc[p] =>
          /\ proc[p].status = "failed" /\ proc'[p].status = "retry_wait"
          /\ proc'[p].attempt < MaxAttempts[p]
<1>1. ASSUME IInv, [Next]_vars, NEW p \in Process PROVE Kept(p)
  <2>. SUFFICES ASSUME proc[p].status \in TerminalStatus, proc'[p] # proc[p]
                PROVE  Kept(p)
    OBVIOUS
  <2>. USE DEF TerminalStatus
  <2>1. proc[p] \in Row
    BY <1>1 DEF IInv, TypeOK
  <2>2. CASE RowInserted(p) \/ RowClaimed(p) \/ RowReaped(p)
    BY <2>2 DEF RowInserted, RowClaimed, RowReaped, Claimable, Exhausted
  <2>3. CASE RowMoved(p)
    <3>1. PICK call \in inflight :
               /\ call.process = p /\ Unchanged(p, call.seen)
               /\ proc'[p] = MovedRow(proc[p], call.to, call.data, call.due)
      BY <2>3 DEF RowMoved
    <3>2. Legal(p, call.seen, call.to, call.actor)
      BY <1>1, <3>1 DEF IInv, InFlightLegal
    <3>3. call.seen.status = proc[p].status /\ call.seen.attempt = proc[p].attempt
      BY <3>1 DEF Unchanged
    <3>4. proc[p].status = "failed" /\ call.to = "retry_wait"
          /\ proc[p].attempt < MaxAttempts[p]
      BY <3>2, <3>3 DEF Legal, CanTransition, OpenStatus
    <3>. QED  BY <2>1, <3>1, <3>4 DEF MovedRow, Row
  <2>4. CASE RowCommanded(p)
    <3>1. PICK to \in Target \cup {"ready"}, actor \in Actor, data \in Doc, due \in Nat :
               /\ CommandLegal(p, proc[p], to, actor)
               /\ proc'[p] = CommandRow(proc[p], to, data, due)
      BY <2>4 DEF RowCommanded
    <3>2. proc[p].status = "failed" /\ to = "retry_wait"
          /\ proc[p].attempt < MaxAttempts[p]
      BY <3>1 DEF CommandLegal, CanTransition, OpenStatus
    <3>. QED  BY <2>1, <3>1, <3>2 DEF CommandRow, MovedRow, Row
  <2>. QED  BY <1>1, <2>2, <2>3, <2>4, RowStep DEF IInv
<1>2. IInv /\ [Next]_vars => [\A p \in Process : Kept(p)]_vars
  BY <1>1
<1>. QED  BY <1>2, InductiveInvariant, PTL DEF Spec, NoTerminalRewrite

\* LiveLeaseNotStolen: a claim or a reap compares the lease with a reading of
\* the clock that is never ahead of it, so it cannot touch a live one.
THEOREM LiveLeaseCorrect == Spec => LiveLeaseNotStolen
<1>. DEFINE Held(p) ==
       proc[p].status = "running" /\ now < proc[p].expires /\ proc'[p] # proc[p] =>
          /\ proc'[p].attempt = proc[p].attempt
          /\ log'[Len(log')].type \notin {"claim", "reap"}
<1>1. ASSUME IInv, [Next]_vars, NEW p \in Process PROVE Held(p)
  <2>. SUFFICES ASSUME proc[p].status = "running", now < proc[p].expires, proc'[p] # proc[p]
                PROVE  Held(p)
    OBVIOUS
  <2>1. proc[p] \in Row /\ now \in Nat
    BY <1>1 DEF IInv, TypeOK
  <2>2. ~ RowInserted(p)
    BY DEF RowInserted
  <2>3. ~ RowClaimed(p) /\ ~ RowReaped(p)
    BY <2>1 DEF RowClaimed, RowReaped, Claimable, Exhausted, Row
  <2>4. CASE RowMoved(p)
    <3>1. PICK call \in inflight :
               /\ proc'[p] = MovedRow(proc[p], call.to, call.data, call.due)
               /\ log'[Len(log')].type = call.to
      BY <2>4 DEF RowMoved
    <3>2. call.to \in Target
      BY <1>1 DEF IInv, TypeOK, Calls
    <3>. QED  BY <2>1, <3>1, <3>2 DEF MovedRow, Row, Target
  <2>5. CASE RowCommanded(p)
    <3>1. PICK to \in Target \cup {"ready"}, data \in Doc, due \in Nat :
               /\ proc'[p] = CommandRow(proc[p], to, data, due)
               /\ log'[Len(log')].type = to
      BY <2>5 DEF RowCommanded
    <3>2. proc'[p].attempt = proc[p].attempt
      BY <2>1, <3>1 DEF CommandRow, MovedRow, Row
    <3>. QED  BY <3>1, <3>2 DEF Target
  <2>. QED  BY <1>1, <2>2, <2>3, <2>4, <2>5, RowStep DEF IInv
<1>2. IInv /\ [Next]_vars => [\A p \in Process : Held(p)]_vars
  BY <1>1
<1>. QED  BY <1>2, InductiveInvariant, PTL DEF Spec, LiveLeaseNotStolen

-----------------------------------------------------------------------------
(* The journal implements the lifecycle: each step, seen through the       *)
(* mapping of Lifecycle, moves every process by at most one step of        *)
(* ProcessLifecycle.                                                       *)

-----------------------------------------------------------------------------
(* A row that has not been inserted carries nothing.                       *)

AbsentIsEmpty ==
    \A p \in Process : proc[p].status = "absent" => proc[p] = AbsentRow

\* No step takes a row back to "absent".
LEMMA AbsentInduction ==
    ASSUME TypeOK, AbsentIsEmpty, [Next]_vars
    PROVE  AbsentIsEmpty'
<1>. SUFFICES ASSUME NEW p \in Process, proc'[p] # proc[p]
              PROVE  proc'[p].status # "absent"
  BY DEF AbsentIsEmpty
<1>1. proc[p] \in Row
  BY DEF TypeOK
<1>2. CASE RowInserted(p)
  BY <1>2 DEF RowInserted, AbsentRow
<1>3. CASE RowClaimed(p)
  BY <1>1, <1>3 DEF RowClaimed, ClaimedRow, Row
<1>4. CASE RowReaped(p)
  BY <1>1, <1>4 DEF RowReaped, ReapedRow, Row
<1>5. CASE RowMoved(p)
  <2>1. PICK call \in inflight : proc'[p] = MovedRow(proc[p], call.to, call.data, call.due)
    BY <1>5 DEF RowMoved
  <2>2. call.to \in Target
    BY DEF TypeOK, Calls
  <2>. QED  BY <1>1, <2>1, <2>2 DEF MovedRow, Row, Target
<1>6. CASE RowCommanded(p)
  BY <1>1, <1>6 DEF RowCommanded, CommandRow, MovedRow, Row, Target
<1>. QED  BY <1>2, <1>3, <1>4, <1>5, <1>6, RowStep

-----------------------------------------------------------------------------
(* One row.                                                                *)

Image(row) == [status |-> row.status, attempt |-> row.attempt,
               owner |-> row.owner, expires |-> row.expires, due |-> row.due]

\* A status the table allows, from a row of the journal.
LEMMA MovedStep ==
    ASSUME NEW p \in Process, NEW row \in Row, NEW to \in Target \cup {"ready"}, NEW due \in Nat,
           NEW data \in Doc, NEW new \in Row,
           \/ new = MovedRow(row, to, data, due) /\ to # "ready"
           \/ new = CommandRow(row, to, data, due),
           \/ CanTransition(row.status, to)
           \/ to = "retry_wait" /\ row.status = "failed",
           to = "retry_wait" => row.attempt < MaxAttempts[p]
    PROVE  Lifecycle!Step(p, Image(row), Image(new))
<1>1. /\ new.status = to /\ new.owner = NoActor /\ new.expires = 0
      /\ new.attempt = row.attempt
      /\ new.due = IF to = "retry_wait" THEN due ELSE row.due
  BY DEF MovedRow, CommandRow, Row, Target
<1>2. CASE to = "retry_wait"
  <2>1. row.status \in {"running", "failed"}
    BY <1>2 DEF CanTransition, OwnTargets, OpenStatus
  <2>2. Lifecycle!Retry(p, Image(row), Image(new))
    BY <1>1, <1>2, <2>1 DEF Lifecycle!Retry, Lifecycle!Unleased, Image
  <2>. QED  BY <2>2 DEF Lifecycle!Step
<1>3. CASE to # "retry_wait"
  <2>1. to # "running"
    BY DEF Target
  <2>2. Lifecycle!Transition(Image(row), Image(new))
    BY <1>1, <1>3, <2>1 DEF Lifecycle!Transition, Lifecycle!Unleased, Lifecycle!CanTransition,
        CanTransition, Lifecycle!OwnTargets, OwnTargets, Lifecycle!OpenStatus, OpenStatus, Image
  <2>. QED  BY <2>2 DEF Lifecycle!Step
<1>. QED  BY <1>2, <1>3

\* Each way a row can change is one step of the lifecycle.
LEMMA RowRefines ==
    ASSUME IInv, AbsentIsEmpty, [Next]_vars, NEW p \in Process, proc'[p] # proc[p]
    PROVE  Lifecycle!Step(p, Image(proc[p]), Image(proc'[p]))
<1>. USE DEF IInv
<1>0. proc[p] \in Row /\ proc'[p] \in Row /\ now \in Nat
  BY TypeInduction DEF TypeOK
<1>1. CASE RowInserted(p)
  <2>1. PICK status \in {"pending", "ready"}, due, created \in Nat :
             proc'[p] = [AbsentRow EXCEPT !.status = status, !.due = due, !.created = created]
    BY <1>1 DEF RowInserted
  <2>2. proc[p] = AbsentRow
    BY <1>1 DEF RowInserted, AbsentIsEmpty
  <2>3. Image(proc[p]) = Lifecycle!AbsentRecord
    BY <2>2 DEF Lifecycle!AbsentRecord, AbsentRow, Image
  <2>4. Lifecycle!Schedule(Image(proc[p]), Image(proc'[p]))
    BY <2>1, <2>3 DEF Lifecycle!Schedule, Lifecycle!Unleased, AbsentRow, Image
  <2>. QED  BY <2>4 DEF Lifecycle!Step
<1>2. CASE RowClaimed(p)
  <2>1. PICK w \in Actor, at, until \in Nat :
             /\ at <= now /\ until > at /\ Claimable(p, at)
             /\ proc'[p] = ClaimedRow(proc[p], w, until)
    BY <1>2 DEF RowClaimed
  <2>2. proc[p].status = "running" => proc[p].owner # NoActor
    BY DEF LeasedWhileRunning
  <2>3. Lifecycle!IsClaimable(p, Image(proc[p]))
    BY <1>0, <2>1, <2>2 DEF Claimable, Row, Lifecycle!IsClaimable, Lifecycle!HasLease, Image
  <2>4. Lifecycle!Claim(p, Image(proc[p]), Image(proc'[p]))
    BY <1>0, <2>1, <2>3, ActorAssumption DEF ClaimedRow, Row, Image, Lifecycle!Claim, Lifecycle!HasLease
  <2>. QED  BY <2>4 DEF Lifecycle!Step
<1>3. CASE RowReaped(p)
  <2>1. proc[p].status = "running" /\ proc'[p] = ReapedRow(proc[p])
    BY <1>3 DEF RowReaped, Exhausted
  <2>2. Lifecycle!Transition(Image(proc[p]), Image(proc'[p]))
    BY <1>0, <2>1 DEF ReapedRow, Row, Image, Lifecycle!Transition, Lifecycle!Unleased,
        Lifecycle!CanTransition, Lifecycle!OwnTargets, Lifecycle!OpenStatus
  <2>. QED  BY <2>2 DEF Lifecycle!Step
<1>4. CASE RowMoved(p)
  <2>1. PICK call \in inflight :
             /\ call.process = p
             /\ Unchanged(p, call.seen)
             /\ proc'[p] = MovedRow(proc[p], call.to, call.data, call.due)
    BY <1>4 DEF RowMoved
  <2>2. call.to \in Target /\ call.data \in Doc /\ call.due \in Nat
    BY DEF TypeOK, Calls
  <2>3. Legal(p, call.seen, call.to, call.actor)
    BY <2>1 DEF InFlightLegal
  <2>4. /\ \/ CanTransition(proc[p].status, call.to)
           \/ call.to = "retry_wait" /\ proc[p].status = "failed"
        /\ call.to = "retry_wait" => proc[p].attempt < MaxAttempts[p]
    BY <2>1, <2>3 DEF Legal, Unchanged
  <2>5. call.to # "ready"
    BY <2>2 DEF Target
  <2>. QED  BY <1>0, <2>1, <2>2, <2>4, <2>5, MovedStep
<1>5. CASE RowCommanded(p)
  <2>1. PICK to \in Target \cup {"ready"}, actor \in Actor, data \in Doc, due \in Nat :
             /\ CommandLegal(p, proc[p], to, actor)
             /\ proc'[p] = CommandRow(proc[p], to, data, due)
    BY <1>5 DEF RowCommanded
  <2>2. /\ \/ CanTransition(proc[p].status, to)
           \/ to = "retry_wait" /\ proc[p].status = "failed"
        /\ to = "retry_wait" => proc[p].attempt < MaxAttempts[p]
    BY <2>1 DEF CommandLegal, CanTransition, OwnTargets, OpenStatus
  <2>. QED  BY <1>0, <2>1, <2>2, MovedStep
<1>. QED  BY <1>1, <1>2, <1>3, <1>4, <1>5, RowStep

-----------------------------------------------------------------------------
(* The whole table.                                                        *)

\* LifecycleSpec: whatever order connections commit in, a process is claimed at
\* most max_attempts times, a lease is taken over only once it has expired, and
\* every transition follows can_transition_process.
THEOREM LifecycleImplemented == Spec => LifecycleSpec
<1>. DEFINE Safe == IInv /\ AbsentIsEmpty
            Table == [p \in Process |-> Image(proc[p])]
<1>1. Init => AbsentIsEmpty /\ Lifecycle!Init
  BY DEF Init, AbsentIsEmpty, AbsentRow, Lifecycle!Init, Lifecycle!AbsentRecord
<1>2. AbsentIsEmpty /\ IInv /\ [Next]_vars => AbsentIsEmpty'
  BY AbsentInduction DEF IInv
<1>3. Safe /\ [Next]_vars => [Lifecycle!Next]_<<now, Table>>
  <2>. SUFFICES ASSUME Safe, [Next]_vars PROVE Lifecycle!Next
    OBVIOUS
  <2>1. now' \in {now, now + 1}
    <3>1. CASE Schedule
      BY <3>1 DEF Schedule, ScheduleProcess, ScheduleProcessWithCommand, InsertRow
    <3>2. CASE Claim
      BY <3>2 DEF Claim, ClaimNextReady, ClaimProcess
    <3>3. CASE Begin
      BY <3>3 DEF Begin, BeginTransition
    <3>4. CASE Finish
      BY <3>4 DEF Finish, CommitTransition, AbandonTransition
    <3>5. CASE Command
      BY <3>5 DEF Command, TransitionWithCommand
    <3>6. CASE Tick
      BY <3>6 DEF Tick
    <3>7. CASE UNCHANGED vars
      BY <3>7 DEF vars
    <3>. QED  BY <3>1, <3>2, <3>3, <3>4, <3>5, <3>6, <3>7 DEF Next
  <2>2. ASSUME NEW p \in Process
        PROVE  Image(proc'[p]) = Image(proc[p])
                  \/ Lifecycle!Step(p, Image(proc[p]), Image(proc'[p]))
    BY RowRefines
  <2>3. Table' \in [Process -> Lifecycle!Record]
    <3>1. proc' \in [Process -> Row]
      BY TypeInduction DEF IInv, TypeOK
    <3>. QED  BY <3>1 DEF Row, Image, Status, OpenStatus, TerminalStatus, Lifecycle!Record,
                Lifecycle!Status, Lifecycle!OpenStatus, Lifecycle!TerminalStatus
  <2>. QED  BY <2>1, <2>2, <2>3 DEF Lifecycle!Next, Image
<1>4. Spec => []Safe
  BY <1>1, <1>2, InductiveInvariant, PTL DEF Spec
<1>. QED  BY <1>1, <1>3, <1>4, PTL DEF Spec, LifecycleSpec, Lifecycle!Spec, Image

-----------------------------------------------------------------------------
(* What the log says of the queue: rows and events agree, attempts are     *)
(* claims, results come from the claimant, turns do not overlap and the    *)
(* derived keys stay free.                                                 *)
(*                                                                         *)
(* A step may append several entries (a claim that also reaps), but at     *)
(* most one of each process.  LogStep says so, and with what relation      *)
(* between the row and its entry; every invariant is proved from it.       *)

-----------------------------------------------------------------------------
(* What a step records of a process.                                       *)

\* The positions of the entries the step appends.
Appended == DOMAIN log' \ DOMAIN log

LogGrows ==
    /\ Len(log) <= Len(log')
    /\ \A i \in DOMAIN log : i \in DOMAIN log' /\ log'[i] = log[i]

\* A key a caller chose, or the one derived from the entry itself.
KeyFits(e) ==
    \/ e.key \in ClientKey
    \/ /\ e.key.kind = e.type
       /\ e.key.process = e.process
       /\ e.type \in {"claim", "reap"} => e.key.n = e.attempt

Schedules(p, e) ==
    /\ e.type = "schedule" /\ e.attempt = 0
    /\ proc[p].status = "absent"
    /\ proc'[p].status = e.to /\ proc'[p].attempt = 0
    /\ e.to \in {"pending", "ready"}

Claims(p, e) ==
    /\ e.type = "claim" /\ e.to = "running" /\ e.attempt = proc[p].attempt + 1
    /\ Claimable(p, e.at)
    /\ proc'[p] = ClaimedRow(proc[p], e.actor, e.until)

Reaps(p, e) ==
    /\ e.type = "reap" /\ e.to = "failed" /\ e.attempt = proc[p].attempt
    /\ Exhausted(p, e.at)
    /\ proc'[p] = ReapedRow(proc[p])

Moves(p, e) ==
    /\ e.type \in Target \cup {"ready"} /\ e.to = e.type
    /\ e.attempt = proc[p].attempt
    /\ proc[p].status # "absent"
    /\ e.type \in {"succeeded", "failed", "retry_wait"} => OwnedBy(proc[p], e.actor)
    /\ proc'[p].status = e.to /\ proc'[p].attempt = proc[p].attempt
    /\ e.type = "retry_wait" => proc'[p].due = e.until

Records(p, e) ==
    /\ e.process = p /\ KeyFits(e)
    /\ Schedules(p, e) \/ Claims(p, e) \/ Reaps(p, e) \/ Moves(p, e)

Undisturbed(p) ==
    /\ proc'[p] = proc[p]
    /\ \A k \in Appended : log'[k].process # p

\* Position k holds the one entry the step appends for p.
RecordedAt(p, k) ==
    /\ Records(p, log'[k])
    /\ \A j \in Appended : log'[j].process = p => j = k

KeysNew ==
    \A k \in Appended :
        /\ log'[k].key \notin UsedKeys
        /\ \A j \in Appended : log'[j].key = log'[k].key => j = k

HistoryStep ==
    /\ LogGrows
    /\ KeysNew
    /\ \A p \in Process : Undisturbed(p) \/ \E k \in Appended : RecordedAt(p, k)

-----------------------------------------------------------------------------
(* The inductive invariant.                                                *)

\* A call in flight has the key of its process and its target.
CallsNamed ==
    \A call \in inflight :
        \/ call.key \in ClientKey
        \/ call.key.kind = call.to /\ call.key.process = call.process

\* A row not yet inserted has made no attempt.
AbsentUntried ==
    \A p \in Process : proc[p].status = "absent" => proc[p].attempt = 0

EntriesFit ==
    \A i \in DOMAIN log :
        /\ KeyFits(log[i])
        /\ log[i].type = "claim" => log[i].to = "running"
        /\ log[i].type = "retry_wait" => log[i].to = "retry_wait"

KeysOnce == \A i, j \in DOMAIN log : log[i].key = log[j].key => i = j

\* The reap of an attempt ends it for good.
ReapsPast ==
    \A p \in Process, i \in DOMAIN log :
        log[i].type = "reap" /\ log[i].process = p =>
            /\ log[i].attempt <= proc[p].attempt
            /\ log[i].attempt = proc[p].attempt => proc[p].status # "running"

HistoryInv ==
    /\ IInv /\ CallsNamed /\ AbsentUntried
    /\ EntriesFit /\ KeysOnce /\ ReapsPast
    /\ RowIsLastEvent /\ AttemptsAreClaims
    /\ ResultsFromClaimant /\ TurnsDoNotOverlap

-----------------------------------------------------------------------------
(* One step, seen from the log.                                            *)

\* One entry appended: the old ones stay where they are.
LEMMA OneEntry ==
    ASSUME log \in Seq(Entry), NEW e \in Entry, log' = Append(log, e)
    PROVE  /\ LogGrows
           /\ Appended = {Len(log) + 1}
           /\ log'[Len(log) + 1] = e
<1>1. /\ log' \in Seq(Entry) /\ Len(log') = Len(log) + 1
      /\ \A i \in 1..Len(log) : log'[i] = log[i]
      /\ log'[Len(log) + 1] = e
  BY AppendProperties
<1>2. DOMAIN log = 1..Len(log) /\ DOMAIN log' = 1..Len(log') /\ Len(log) \in Nat
  BY <1>1, LenProperties
<1>. QED  BY <1>1, <1>2 DEF LogGrows, Appended

\* A step that changes one row and appends its one entry under a free key is a
\* history step.
LEMMA OneEntryStep ==
    ASSUME TypeOK, NEW p \in Process, NEW e \in Entry, Records(p, e),
           log' = Append(log, e), e.key \notin UsedKeys,
           \A q \in Process \ {p} : proc'[q] = proc[q]
    PROVE  HistoryStep
<1>. DEFINE k == Len(log) + 1
<1>1. LogGrows /\ Appended = {k} /\ log'[k] = e
  BY OneEntry DEF TypeOK
<1>2. KeysNew
  BY <1>1 DEF KeysNew
<1>3. RecordedAt(p, k)
  BY <1>1 DEF RecordedAt
<1>4. \A q \in Process \ {p} : Undisturbed(q)
  BY <1>1 DEF Undisturbed, Records
<1>. QED  BY <1>1, <1>2, <1>3, <1>4 DEF HistoryStep

\* A step that leaves the rows and the log alone is a history step.
LEMMA NoEntryStep ==
    ASSUME TypeOK, UNCHANGED <<proc, log>>
    PROVE  HistoryStep
<1>1. Appended = {}
  BY DEF Appended
<1>2. LogGrows
  BY LenProperties DEF LogGrows, TypeOK
<1>. QED  BY <1>1, <1>2 DEF HistoryStep, KeysNew, Undisturbed

\* A row comes before itself in no queue order, so a listing lists each of its
\* rows once.
LEMMA ListedOnce ==
    ASSUME TypeOK, NEW S \in SUBSET Process, NEW order \in Listings(S)
    PROVE  /\ DOMAIN order = 1..Cardinality(S) /\ Cardinality(S) \in Nat
           /\ S = {order[i] : i \in DOMAIN order}
           /\ \A i, j \in DOMAIN order : order[i] = order[j] => i = j
<1>1. IsFiniteSet(S)
  BY ProcessAssumption, FS_Subset
<1>2. Cardinality(S) \in Nat
  BY <1>1, FS_CardinalityType
<1>3. order \in [1..Cardinality(S) -> S] /\ S = {order[i] : i \in DOMAIN order}
      /\ \A i, j \in DOMAIN order : i < j => Before(order[i], order[j])
  BY DEF Listings
<1>4. \A q \in Process : ~ Before(q, q)
  <2>. TAKE q \in Process
  <2>1. q \in Nat /\ Priority[q] \in Int /\ proc[q].due \in Nat /\ proc[q].created \in Nat
    BY ProcessAssumption, AttemptsAssumption DEF TypeOK, Row
  <2>. QED  BY <2>1 DEF Before
<1>5. ASSUME NEW i \in DOMAIN order, NEW j \in DOMAIN order, order[i] = order[j]
      PROVE  i = j
  <2>1. order[i] \in Process /\ i \in Nat /\ j \in Nat
    BY <1>2, <1>3
  <2>2. ~ (i < j) /\ ~ (j < i)
    BY <1>3, <1>4, <1>5, <2>1
  <2>. QED  BY <2>1, <2>2
<1>. QED  BY <1>2, <1>3, <1>5

\* Entries appended in one transaction, one of each process they are about and
\* each under a free key of its own, make a history step.
LEMMA BatchStep ==
    ASSUME TypeOK, NEW s \in Seq(Entry), log' = log \o s,
           \A i \in 1..Len(s) : Records(s[i].process, s[i]) /\ s[i].key \notin UsedKeys,
           \A i, j \in 1..Len(s) : s[i].process = s[j].process => i = j,
           \A i, j \in 1..Len(s) : s[i].key = s[j].key => i = j,
           \A q \in Process :
              (\A i \in 1..Len(s) : s[i].process # q) => proc'[q] = proc[q]
    PROVE  HistoryStep
<1>. DEFINE n == Len(log)
<1>1. /\ n \in Nat /\ Len(s) \in Nat
      /\ log' \in Seq(Entry) /\ Len(log') = n + Len(s)
      /\ \A i \in 1..(n + Len(s)) : log'[i] = IF i <= n THEN log[i] ELSE s[i - n]
  BY ConcatProperties, LenProperties DEF TypeOK
<1>2. DOMAIN log = 1..n /\ DOMAIN log' = 1..(n + Len(s))
  BY <1>1, LenProperties DEF TypeOK
<1>3. LogGrows
  BY <1>1, <1>2 DEF LogGrows
<1>4. \A k \in Appended : \E i \in 1..Len(s) : k = n + i /\ log'[k] = s[i]
  <2>1. ASSUME NEW k \in Appended
        PROVE  k \in Nat /\ k - n \in 1..Len(s) /\ k = n + (k - n) /\ log'[k] = s[k - n]
    BY <1>1, <1>2 DEF Appended
  <2>. QED  BY <2>1
<1>5. \A i \in 1..Len(s) : n + i \in Appended /\ log'[n + i] = s[i]
  BY <1>1, <1>2 DEF Appended
<1>6. KeysNew
  <2>. SUFFICES ASSUME NEW k \in Appended
                PROVE  /\ log'[k].key \notin UsedKeys
                       /\ \A j \in Appended : log'[j].key = log'[k].key => j = k
    BY DEF KeysNew
  <2>1. PICK i \in 1..Len(s) : k = n + i /\ log'[k] = s[i]
    BY <1>4
  <2>2. ASSUME NEW j \in Appended, log'[j].key = log'[k].key PROVE j = k
    <3>1. PICK h \in 1..Len(s) : j = n + h /\ log'[j] = s[h]
      BY <1>4
    <3>. QED  BY <2>1, <2>2, <3>1
  <2>. QED  BY <2>1, <2>2
<1>7. ASSUME NEW q \in Process
      PROVE  Undisturbed(q) \/ \E k \in Appended : RecordedAt(q, k)
  <2>1. CASE \A i \in 1..Len(s) : s[i].process # q
    <3>1. ASSUME NEW k \in Appended PROVE log'[k].process # q
      <4>1. PICK i \in 1..Len(s) : log'[k] = s[i]
        BY <1>4
      <4>. QED  BY <2>1, <4>1
    <3>2. proc'[q] = proc[q]
      BY <2>1
    <3>. QED  BY <3>1, <3>2 DEF Undisturbed
  <2>2. CASE \E i \in 1..Len(s) : s[i].process = q
    <3>1. PICK i \in 1..Len(s) : s[i].process = q
      BY <2>2
    <3>2. n + i \in Appended /\ Records(q, log'[n + i])
      BY <1>5, <3>1
    <3>3. ASSUME NEW j \in Appended, log'[j].process = q
          PROVE  j = n + i
      <4>1. PICK h \in 1..Len(s) : j = n + h /\ log'[j] = s[h]
        BY <1>4
      <4>. QED  BY <3>1, <3>3, <4>1
    <3>. QED  BY <3>2, <3>3 DEF RecordedAt
  <2>. QED  BY <2>1, <2>2
<1>. QED  BY <1>3, <1>6, <1>7 DEF HistoryStep

\* What claim_next_ready records of a row it reaps and of the row it claims.
LEMMA ClaimRecords ==
    ASSUME TypeOK, NEW p \in Process, NEW w \in Actor, NEW at \in Nat, NEW until \in Nat
    PROVE  /\ Exhausted(p, at) /\ proc'[p] = ReapedRow(proc[p])
              => Records(p, ReapEntry(p, w, at))
           /\ \A key \in ClaimKeys(p) :
                 Claimable(p, at) /\ proc'[p] = ClaimedRow(proc[p], w, until)
                 => Records(p, ClaimEntry(p, w, at, until, key))
BY DEF Records, Reaps, Claims, ReapEntry, ClaimEntry, KeyFits, ReapKey, ClaimKey, ClaimKeys

\* es is what the reaper appends for the rows of S, one entry each.
ReapBatch(es, S, w, at) ==
    /\ es \in Seq(Entry) /\ Len(es) \in Nat
    /\ \A i \in 1..Len(es) : es[i].process \in S /\ es[i] = ReapEntry(es[i].process, w, at)
    /\ \A p \in S : \E i \in 1..Len(es) : es[i].process = p
    /\ \A i, j \in 1..Len(es) : es[i].process = es[j].process => i = j

\* The reaper appends one entry for each row of its listing.
LEMMA ReaperEntries ==
    ASSUME TypeOK, NEW S \in SUBSET Process, NEW order \in Listings(S),
           NEW w \in Actor, NEW at \in Nat
    PROVE  ReapBatch(ReapEntries(order, w, at), S, w, at)
<1>. DEFINE es == ReapEntries(order, w, at)
<1>1. es \in Seq(Entry)
  BY ListingTypes
<1>2. DOMAIN es = DOMAIN order /\ \A i \in DOMAIN order : es[i] = ReapEntry(order[i], w, at)
  BY DEF ReapEntries
<1>. HIDE DEF es
<1>3. \A i \in DOMAIN order : es[i].process = order[i]
  BY <1>2 DEF ReapEntry
<1>4. DOMAIN es = 1..Len(es) /\ Len(es) \in Nat
  BY <1>1, LenProperties
<1>5. S = {order[i] : i \in DOMAIN order}
      /\ \A i, j \in DOMAIN order : order[i] = order[j] => i = j
  BY ListedOnce
<1>6. ReapBatch(es, S, w, at)
  BY <1>1, <1>2, <1>3, <1>4, <1>5 DEF ReapBatch
<1>. QED  BY <1>6 DEF es

\* Each entry of a batch has a key of its own, of an attempt not reaped before.
LEMMA BatchKeys ==
    ASSUME TypeOK, NEW w, NEW at, NEW reaped \in SUBSET Process, NEW es,
           ReapBatch(es, reaped, w, at),
           \A p \in reaped : ReapKey(p, proc[p].attempt) \notin UsedKeys
    PROVE  /\ \A i \in 1..Len(es) : /\ es[i].key \in DefaultKey /\ es[i].key \notin UsedKeys
                                    /\ es[i].key.kind = "reap"
           /\ \A i, j \in 1..Len(es) : es[i].key = es[j].key => i = j
<1>1. ASSUME NEW i \in 1..Len(es)
      PROVE  /\ es[i].key \in DefaultKey /\ es[i].key \notin UsedKeys
             /\ es[i].key.kind = "reap" /\ es[i].key.process = es[i].process
  <2>. DEFINE q == es[i].process
  <2>1. q \in reaped /\ es[i] = ReapEntry(q, w, at)
    BY DEF ReapBatch
  <2>2. es[i].key = ReapKey(q, proc[q].attempt)
    BY <2>1 DEF ReapEntry
  <2>3. q \in Process /\ proc[q].attempt \in Nat
    BY <2>1 DEF TypeOK, Row
  <2>4. ReapKey(q, proc[q].attempt) \notin UsedKeys
    BY <2>1
  <2>. QED  BY <2>2, <2>3, <2>4 DEF ReapKey, DefaultKey
<1>2. \A i, j \in 1..Len(es) : es[i].key = es[j].key => es[i].process = es[j].process
  BY <1>1
<1>. QED  BY <1>1, <1>2 DEF ReapBatch

\* What a batch records of the rows it reaps.
LEMMA BatchRecords ==
    ASSUME TypeOK, NEW w \in Actor, NEW at \in Nat,
           NEW reaped \in SUBSET Process, \A p \in reaped : Exhausted(p, at),
           NEW es, ReapBatch(es, reaped, w, at),
           \A p \in reaped : proc'[p] = ReapedRow(proc[p])
    PROVE  \A i \in 1..Len(es) : Records(es[i].process, es[i])
<1>. TAKE i \in 1..Len(es)
<1>1. es[i].process \in reaped /\ es[i] = ReapEntry(es[i].process, w, at)
  BY DEF ReapBatch
<1>2. es[i].process \in Process /\ Exhausted(es[i].process, at)
      /\ proc'[es[i].process] = ReapedRow(proc[es[i].process])
  BY <1>1
<1>. QED  BY <1>1, <1>2, ClaimRecords

\* A batch of reaps alone is a history step.
LEMMA ReapStep ==
    ASSUME TypeOK, NEW w \in Actor, NEW at \in Nat,
           NEW reaped \in SUBSET Process, \A p \in reaped : Exhausted(p, at),
           \A p \in reaped : ReapKey(p, proc[p].attempt) \notin UsedKeys,
           NEW es, ReapBatch(es, reaped, w, at),
           \A q \in Process : proc'[q] = IF q \in reaped THEN ReapedRow(proc[q]) ELSE proc[q],
           log' = log \o es
    PROVE  HistoryStep
<1>1. es \in Seq(Entry) /\ \A i, j \in 1..Len(es) : es[i].process = es[j].process => i = j
  BY DEF ReapBatch
<1>2. /\ \A i \in 1..Len(es) : es[i].key \notin UsedKeys
      /\ \A i, j \in 1..Len(es) : es[i].key = es[j].key => i = j
  BY BatchKeys
<1>3. \A i \in 1..Len(es) : Records(es[i].process, es[i])
  BY BatchRecords
<1>4. ASSUME NEW q \in Process, \A i \in 1..Len(es) : es[i].process # q
      PROVE  proc'[q] = proc[q]
  BY <1>4 DEF ReapBatch
<1>. QED  BY <1>1, <1>2, <1>3, <1>4, BatchStep

\* A batch of reaps followed by a claim is a history step.
LEMMA ReapClaimStep ==
    ASSUME TypeOK, NEW w \in Actor, NEW at \in Nat, NEW until \in Nat,
           NEW reaped \in SUBSET Process, \A p \in reaped : Exhausted(p, at),
           \A p \in reaped : ReapKey(p, proc[p].attempt) \notin UsedKeys,
           NEW es, ReapBatch(es, reaped, w, at),
           NEW p \in Process \ reaped, Claimable(p, at), NEW key \in ClaimKeys(p) \ UsedKeys,
           \A q \in Process :
              proc'[q] = IF q = p THEN ClaimedRow(proc[p], w, until)
                         ELSE IF q \in reaped THEN ReapedRow(proc[q]) ELSE proc[q],
           log' = log \o es \o <<ClaimEntry(p, w, at, until, key)>>
    PROVE  HistoryStep
<1>1. /\ es \in Seq(Entry) /\ Len(es) \in Nat
      /\ \A i \in 1..Len(es) : es[i].process \in reaped
      /\ \A i, j \in 1..Len(es) : es[i].process = es[j].process => i = j
  BY DEF ReapBatch
<1>2. /\ \A i \in 1..Len(es) : /\ es[i].key \in DefaultKey /\ es[i].key \notin UsedKeys
                               /\ es[i].key.kind = "reap"
      /\ \A i, j \in 1..Len(es) : es[i].key = es[j].key => i = j
  BY BatchKeys
<1>3. \A i \in 1..Len(es) : Records(es[i].process, es[i])
  <2>1. \A q \in reaped : proc'[q] = ReapedRow(proc[q])
    OBVIOUS
  <2>. QED  BY <2>1, BatchRecords
<1>4. PICK c : c = ClaimEntry(p, w, at, until, key)
  OBVIOUS
<1>5. c \in Entry /\ c.process = p /\ c.key = key
  BY <1>4, EntryTypes DEF ClaimEntry
<1>6. PICK s : s = Append(es, c)
  OBVIOUS
<1>7. /\ s \in Seq(Entry) /\ Len(s) = Len(es) + 1
      /\ \A i \in 1..Len(es) : s[i] = es[i]
      /\ s[Len(es) + 1] = c
  BY <1>1, <1>5, <1>6, AppendProperties
<1>8. log' = log \o s
  <2>1. log \in Seq(Entry) /\ <<c>> \in Seq(Entry) /\ s = es \o <<c>>
    BY <1>1, <1>5, <1>6, AppendIsConcat DEF TypeOK
  <2>. QED  BY <1>1, <1>4, <2>1, ConcatAssociative
<1>9. \A i \in 1..Len(s) : i \in 1..Len(es) \/ i = Len(es) + 1
  BY <1>1, <1>7
<1>10. ASSUME NEW i \in 1..Len(es) PROVE es[i].process # p /\ es[i].key # key
  <2>1. key \in ClientKey \/ key.kind = "claim"
    BY DEF ClaimKeys, ClaimKey
  <2>. QED  BY <1>1, <1>2, <2>1, KeyAssumption
<1>11. Records(p, c)
  <2>1. proc'[p] = ClaimedRow(proc[p], w, until)
    OBVIOUS
  <2>. QED  BY <1>4, <2>1, ClaimRecords
<1>12. ASSUME NEW i \in 1..Len(s)
       PROVE  Records(s[i].process, s[i]) /\ s[i].key \notin UsedKeys
  BY <1>2, <1>3, <1>5, <1>7, <1>9, <1>11
<1>13. ASSUME NEW i \in 1..Len(s), NEW j \in 1..Len(s)
       PROVE  /\ s[i].process = s[j].process => i = j
              /\ s[i].key = s[j].key => i = j
  <2>1. CASE i \in 1..Len(es) /\ j \in 1..Len(es)
    BY <1>1, <1>2, <1>7, <2>1
  <2>2. CASE i \in 1..Len(es) /\ j = Len(es) + 1
    BY <1>5, <1>7, <1>10, <2>2
  <2>3. CASE i = Len(es) + 1 /\ j \in 1..Len(es)
    BY <1>5, <1>7, <1>10, <2>3
  <2>. QED  BY <1>9, <2>1, <2>2, <2>3
<1>14. ASSUME NEW q \in Process, \A i \in 1..Len(s) : s[i].process # q
       PROVE  proc'[q] = proc[q]
  <2>1. Len(es) + 1 \in 1..Len(s) /\ \A i \in 1..Len(es) : i \in 1..Len(s)
    BY <1>1, <1>7
  <2>2. q # p
    BY <1>5, <1>7, <1>14, <2>1
  <2>3. \A i \in 1..Len(es) : es[i].process # q
    BY <1>7, <1>14, <2>1
  <2>4. q \notin reaped
    BY <2>3 DEF ReapBatch
  <2>. QED  BY <2>2, <2>4
<1>. QED  BY <1>7, <1>8, <1>12, <1>13, <1>14, BatchStep

\* claim_next_ready, with every row it reaps, is a history step.
LEMMA ClaimNextReadyStep ==
    ASSUME TypeOK, NEW w \in Actor, NEW at \in Nat, NEW until \in Nat,
           ClaimNextReady(w, at, until)
    PROVE  HistoryStep
<1>1. PICK reaped : reaped = {p \in Process : Exhausted(p, at)}
  OBVIOUS
<1>2. PICK order \in Listings(reaped) :
           \/ /\ \A q \in Process :
                    proc'[q] = IF q \in reaped THEN ReapedRow(proc[q]) ELSE proc[q]
              /\ log' = log \o ReapEntries(order, w, at)
           \/ \E p \in Process : \E key \in ClaimKeys(p) \ UsedKeys :
              /\ Claimable(p, at)
              /\ \A q \in Process :
                    proc'[q] = IF q = p THEN ClaimedRow(proc[p], w, until)
                               ELSE IF q \in reaped THEN ReapedRow(proc[q]) ELSE proc[q]
              /\ log' = log \o ReapEntries(order, w, at)
                            \o <<ClaimEntry(p, w, at, until, key)>>
  BY <1>1 DEF ClaimNextReady
<1>3. \A p \in reaped : ReapKey(p, proc[p].attempt) \notin UsedKeys
  BY <1>1 DEF ClaimNextReady
<1>4. ASSUME NEW p \in Process, Claimable(p, at) PROVE p \notin reaped
  <2>1. proc[p].attempt \in Nat /\ MaxAttempts[p] \in Nat
    BY AttemptsAssumption DEF TypeOK, Row
  <2>. QED  BY <1>1, <1>4, <2>1 DEF Exhausted, Claimable
<1>5. reaped \in SUBSET Process /\ \A p \in reaped : Exhausted(p, at)
  BY <1>1
<1>6. PICK es : es = ReapEntries(order, w, at)
  OBVIOUS
<1>7. ReapBatch(es, reaped, w, at)
  BY <1>5, <1>6, ReaperEntries
<1>8. CASE /\ \A q \in Process :
                 proc'[q] = IF q \in reaped THEN ReapedRow(proc[q]) ELSE proc[q]
           /\ log' = log \o ReapEntries(order, w, at)
  BY <1>3, <1>5, <1>6, <1>7, <1>8, ReapStep
<1>9. ASSUME NEW p \in Process, NEW key \in ClaimKeys(p) \ UsedKeys, Claimable(p, at),
             \A q \in Process :
                proc'[q] = IF q = p THEN ClaimedRow(proc[p], w, until)
                           ELSE IF q \in reaped THEN ReapedRow(proc[q]) ELSE proc[q],
             log' = log \o ReapEntries(order, w, at) \o <<ClaimEntry(p, w, at, until, key)>>
      PROVE  HistoryStep
  <2>1. p \in Process \ reaped
    BY <1>4, <1>9
  <2>2. log' = log \o es \o <<ClaimEntry(p, w, at, until, key)>>
    BY <1>6, <1>9
  <2>3. Claimable(p, at)
    BY <1>9
  <2>4. \A q \in Process :
           proc'[q] = IF q = p THEN ClaimedRow(proc[p], w, until)
                      ELSE IF q \in reaped THEN ReapedRow(proc[q]) ELSE proc[q]
    BY <1>9
  <2>. QED  BY <1>3, <1>5, <1>7, <2>1, <2>2, <2>3, <2>4, ReapClaimStep
<1>. QED  BY <1>2, <1>8, <1>9

\* A transition is taken from a row that exists, and keeps its attempt.
LEMMA MoveRecords ==
    ASSUME NEW row \in Row, NEW to \in Target \cup {"ready"}, NEW data, NEW due
    PROVE  /\ CommandRow(row, to, data, due).status = to
           /\ CommandRow(row, to, data, due).attempt = row.attempt
           /\ to = "retry_wait" => CommandRow(row, to, data, due).due = due
           /\ MovedRow(row, to, data, due).status = to
           /\ MovedRow(row, to, data, due).attempt = row.attempt
           /\ to = "retry_wait" => MovedRow(row, to, data, due).due = due
BY DEF CommandRow, MovedRow, Row

\* Every step is a history step: it appends nothing, or one entry for each row
\* it changes, related to the row as the code relates the event to the UPDATE.
LEMMA LogStep ==
    ASSUME IInv, CallsNamed, [Next]_vars
    PROVE  HistoryStep
<1>. TypeOK /\ TypeOK'
  BY TypeInduction DEF IInv
<1>1. CASE Schedule
  <2>1. PICK p \in Process, at \in Readings :
             \/ \E due \in Due(at) : ScheduleProcess(p, at, due)
             \/ \E status \in {"pending", "ready"}, due \in Due(at), key \in ClientKey :
                   ScheduleProcessWithCommand(p, status, at, due, key)
    BY <1>1 DEF Schedule
  <2>. DEFINE type == "schedule"
  <2>2. PICK status \in {"pending", "ready"}, due \in Due(at),
             key \in {ScheduleKey(p)} \cup ClientKey :
             InsertRow(p, status, at, due, type, key)
    BY <2>1 DEF ScheduleProcess, ScheduleProcessWithCommand
  <2>3. at \in Nat /\ due \in Nat
    BY InputTypes
  <2>4. PICK e : e = [key |-> key, type |-> type, to |-> status, process |-> p,
                      attempt |-> 0, actor |-> NoActor, at |-> at, data |-> NoDatum,
                      until |-> 0]
    OBVIOUS
  <2>5. e \in Entry
    <3>1. NoDatum \in Doc /\ {"pending", "ready"} \subseteq Status
      BY DEF Doc, Offered, Status, OpenStatus
    <3>2. key \in DefaultKey \cup ClientKey
      BY DEF ScheduleKey, DefaultKey
    <3>. QED  BY <2>3, <2>4, <3>1, <3>2 DEF Entry
  <2>6. log' = Append(log, e) /\ e.key \notin UsedKeys
        /\ \A q \in Process \ {p} : proc'[q] = proc[q]
    BY <2>2, <2>4 DEF InsertRow, TypeOK
  <2>7. KeyFits(e)
    BY <2>4 DEF KeyFits, ScheduleKey
  <2>8. Schedules(p, e)
    BY <2>2, <2>4 DEF Schedules, InsertRow, TypeOK, AbsentRow
  <2>9. Records(p, e)
    BY <2>4, <2>7, <2>8 DEF Records
  <2>. QED  BY <2>5, <2>6, <2>9, OneEntryStep
<1>2. CASE Claim
  <2>1. PICK w \in Actor, at \in Readings : \E until \in Lease(at) :
             \/ ClaimNextReady(w, at, until)
             \/ \E p \in Process : ClaimProcess(p, w, at, until)
    BY <1>2 DEF Claim
  <2>2. PICK until \in Lease(at) :
             \/ ClaimNextReady(w, at, until)
             \/ \E p \in Process : ClaimProcess(p, w, at, until)
    BY <2>1
  <2>3. at \in Nat /\ until \in Nat
    BY InputTypes
  <2>4. CASE ClaimNextReady(w, at, until)
    BY <2>3, <2>4, ClaimNextReadyStep
  <2>5. CASE \E p \in Process : ClaimProcess(p, w, at, until)
    <3>1. PICK p \in Process : ClaimProcess(p, w, at, until)
      BY <2>5
    <3>2. PICK key \in ClaimKeys(p) \ UsedKeys :
               log' = Append(log, ClaimEntry(p, w, at, until, key))
      BY <3>1 DEF ClaimProcess
    <3>3. PICK e : e = ClaimEntry(p, w, at, until, key)
      OBVIOUS
    <3>4. e \in Entry
      BY <2>3, <3>3, EntryTypes
    <3>5. proc'[p] = ClaimedRow(proc[p], w, until) /\ Claimable(p, at)
          /\ \A q \in Process \ {p} : proc'[q] = proc[q]
      BY <3>1 DEF ClaimProcess, TypeOK
    <3>6. Records(p, e)
      BY <2>3, <3>3, <3>5, ClaimRecords
    <3>7. e.key \notin UsedKeys
      BY <3>3 DEF ClaimEntry
    <3>. QED  BY <3>2, <3>3, <3>4, <3>5, <3>6, <3>7, OneEntryStep
  <2>. QED  BY <2>2, <2>4, <2>5
<1>3. CASE Begin
  BY <1>3, NoEntryStep DEF Begin, BeginTransition
<1>4. CASE Finish
  <2>1. PICK call \in inflight : CommitTransition(call) \/ AbandonTransition(call)
    BY <1>4 DEF Finish
  <2>2. CASE AbandonTransition(call)
    BY <2>2, NoEntryStep DEF AbandonTransition
  <2>3. CASE CommitTransition(call)
    <3>1. /\ call.process \in Process /\ call.to \in Target /\ call.actor \in Actor
          /\ call.at \in Nat /\ call.data \in Doc /\ call.due \in Nat
          /\ call.key \in DefaultKey \cup ClientKey /\ call.seen \in Row
      BY DEF TypeOK, Calls
    <3>2. PICK p \in Process : p = call.process
      BY <3>1
    <3>3. PICK e : e = [key |-> call.key, type |-> call.to, to |-> call.to, process |-> p,
               attempt |-> call.seen.attempt, actor |-> call.actor, at |-> call.at,
               data |-> RecordedData(call.seen, call.to, call.data),
               until |-> IF call.to = "retry_wait" THEN call.due ELSE 0]
      OBVIOUS
    <3>4. e \in Entry
      <4>1. RecordedData(call.seen, call.to, call.data) \in Doc
        BY <3>1, MovedTypes
      <4>2. call.to \in Status /\ call.seen.attempt \in Nat
        BY <3>1 DEF Target, Status, OpenStatus, TerminalStatus, Row
      <4>. QED  BY <3>1, <3>3, <4>1, <4>2 DEF Entry
    <3>5. log' = Append(log, e) /\ e.key \notin UsedKeys
          /\ proc'[p] = MovedRow(proc[p], call.to, call.data, call.due)
          /\ \A q \in Process \ {p} : proc'[q] = proc[q]
      BY <2>3, <3>2, <3>3 DEF CommitTransition, TypeOK
    <3>6. Unchanged(p, call.seen) /\ Legal(p, call.seen, call.to, call.actor)
      BY <2>3, <3>2 DEF CommitTransition, IInv, InFlightLegal
    <3>7. KeyFits(e)
      BY <3>1, <3>2, <3>3 DEF KeyFits, CallsNamed, Target
    <3>8. proc[p].status # "absent"
      BY <3>6 DEF Unchanged, Legal, CanTransition, OpenStatus
    <3>9. e.type \in {"succeeded", "failed", "retry_wait"} => OwnedBy(proc[p], e.actor)
      BY <3>3, <3>6 DEF Unchanged, Legal, OwnedBy
    <3>10. e.attempt = proc[p].attempt
      BY <3>3, <3>6 DEF Unchanged
    <3>11. /\ proc'[p].status = e.to /\ proc'[p].attempt = proc[p].attempt
           /\ e.type = "retry_wait" => proc'[p].due = e.until
      <4>1. proc[p] \in Row
        BY DEF TypeOK
      <4>. QED  BY <3>1, <3>3, <3>5, <4>1, MoveRecords
    <3>12. Moves(p, e)
      BY <3>1, <3>3, <3>8, <3>9, <3>10, <3>11 DEF Moves
    <3>13. Records(p, e)
      BY <3>3, <3>7, <3>12 DEF Records
    <3>. QED  BY <3>4, <3>5, <3>13, OneEntryStep
  <2>. QED  BY <2>1, <2>2, <2>3
<1>5. CASE Command
  <2>1. PICK p \in Process, to \in Target \cup {"ready"}, actor \in Actor, at \in Readings,
             key \in ClientKey :
             \E fence \in -1..MaxAttempts[p], data \in Offered, due \in Due(at) :
                TransitionWithCommand(p, to, actor, at, fence, data, due, key)
    BY <1>5 DEF Command
  <2>2. PICK fence \in -1..MaxAttempts[p], data \in Offered, due \in Due(at) :
             TransitionWithCommand(p, to, actor, at, fence, data, due, key)
    BY <2>1
  <2>3. at \in Nat /\ due \in Nat /\ data \in Doc /\ proc[p] \in Row
    BY InputTypes DEF Doc, TypeOK
  <2>4. PICK e : e = [key |-> key, type |-> to, to |-> to, process |-> p,
             attempt |-> proc[p].attempt, actor |-> actor, at |-> at, data |-> data,
             until |-> IF to = "retry_wait" THEN due ELSE 0]
    OBVIOUS
  <2>5. e \in Entry
    <3>1. to \in Status /\ proc[p].attempt \in Nat
      BY <2>3 DEF Target, Status, OpenStatus, TerminalStatus, Row
    <3>. QED  BY <2>3, <2>4, <3>1 DEF Entry
  <2>6. log' = Append(log, e) /\ e.key \notin UsedKeys
        /\ proc'[p] = CommandRow(proc[p], to, data, due)
        /\ \A q \in Process \ {p} : proc'[q] = proc[q]
    BY <2>2, <2>4 DEF TransitionWithCommand, TypeOK
  <2>7. CommandLegal(p, proc[p], to, actor)
    BY <2>2 DEF TransitionWithCommand
  <2>8. proc[p].status # "absent"
    BY <2>7 DEF CommandLegal, CanTransition, OpenStatus
  <2>9. e.type \in {"succeeded", "failed", "retry_wait"} => OwnedBy(proc[p], e.actor)
    BY <2>4, <2>7 DEF CommandLegal
  <2>10. /\ proc'[p].status = e.to /\ proc'[p].attempt = proc[p].attempt
         /\ e.type = "retry_wait" => proc'[p].due = e.until
    BY <2>3, <2>4, <2>6, MoveRecords
  <2>11. Moves(p, e)
    BY <2>4, <2>8, <2>9, <2>10 DEF Moves
  <2>12. Records(p, e)
    BY <2>4, <2>11 DEF Records, KeyFits
  <2>. QED  BY <2>5, <2>6, <2>12, OneEntryStep
<1>6. CASE Tick
  BY <1>6, NoEntryStep DEF Tick
<1>7. CASE UNCHANGED vars
  BY <1>7, NoEntryStep DEF vars
<1>. QED  BY <1>1, <1>2, <1>3, <1>4, <1>5, <1>6, <1>7 DEF Next

-----------------------------------------------------------------------------
(* The parts of the invariant, each from the history step.                 *)

\* The old entries come first, the appended ones after them.
LEMMA Positions ==
    ASSUME TypeOK, TypeOK', HistoryStep
    PROVE  /\ DOMAIN log = 1..Len(log) /\ Len(log) \in Nat
           /\ \A i \in DOMAIN log : i \in DOMAIN log' /\ log'[i] = log[i] /\ i \in Nat
           /\ \A k \in DOMAIN log' : k \in Nat /\ (k \in DOMAIN log \/ k \in Appended)
           /\ \A i \in DOMAIN log, k \in Appended : i < k
           /\ Appended \subseteq DOMAIN log'
           /\ \A k \in DOMAIN log' : log'[k] \in Entry
<1>1. /\ DOMAIN log = 1..Len(log) /\ DOMAIN log' = 1..Len(log')
      /\ Len(log) \in Nat /\ Len(log') \in Nat
  BY LenProperties DEF TypeOK
<1>2. \A k \in DOMAIN log' : log'[k] \in Entry
  BY <1>1, ElementOfSeq DEF TypeOK
<1>. QED  BY <1>1, <1>2 DEF HistoryStep, LogGrows, Appended

\* What the entry appended for a row says of the row after the step.
LEMMA RecordedRow ==
    ASSUME TypeOK, NEW p \in Process, NEW e, Records(p, e)
    PROVE  /\ proc'[p].status = e.to /\ proc'[p].status # "absent"
           /\ proc'[p].attempt \in {proc[p].attempt, proc[p].attempt + 1, 0}
           /\ e.type # "claim" /\ proc[p].status # "absent" => proc'[p].attempt = proc[p].attempt
           /\ e.attempt = proc'[p].attempt
           /\ e.type = "claim" => /\ proc'[p].owner = e.actor /\ proc'[p].expires = e.until
                                  /\ e.to = "running"
           /\ e.type = "retry_wait" => proc'[p].due = e.until /\ e.to = "retry_wait"
<1>1. proc[p] \in Row
  BY DEF TypeOK
<1>2. CASE Schedules(p, e)
  BY <1>2 DEF Schedules
<1>3. CASE Claims(p, e)
  BY <1>1, <1>3 DEF Claims, ClaimedRow, Row
<1>4. CASE Reaps(p, e)
  BY <1>1, <1>4 DEF Reaps, ReapedRow, Row
<1>5. CASE Moves(p, e)
  BY <1>1, <1>5 DEF Moves, Target
<1>. QED  BY <1>2, <1>3, <1>4, <1>5 DEF Records

\* _transition_process derives its key from the process and the target.
LEMMA CallsNamedInduction ==
    ASSUME TypeOK, CallsNamed, [Next]_vars
    PROVE  CallsNamed'
<1>. SUFFICES ASSUME NEW call \in inflight', call \notin inflight
              PROVE  \/ call.key \in ClientKey
                     \/ call.key.kind = call.to /\ call.key.process = call.process
  BY DEF CallsNamed
<1>1. Begin
  <2>1. CASE Schedule
    BY <2>1 DEF Schedule, ScheduleProcess, ScheduleProcessWithCommand, InsertRow
  <2>2. CASE Claim
    BY <2>2 DEF Claim, ClaimNextReady, ClaimProcess
  <2>3. CASE Finish
    BY <2>3 DEF Finish, CommitTransition, AbandonTransition
  <2>4. CASE Command
    BY <2>4 DEF Command, TransitionWithCommand
  <2>5. CASE Tick \/ UNCHANGED vars
    BY <2>5 DEF Tick, vars
  <2>. QED  BY <2>1, <2>2, <2>3, <2>4, <2>5 DEF Next
<1>2. PICK c \in Client, p \in Process, to \in Target, actor \in Actor, at \in Readings :
           \E data \in Offered, due \in Due(at),
              key \in {TransitionKey(p, to, at)} \cup ClientKey :
              BeginTransition(c, p, to, actor, at, data, due, key)
  BY <1>1 DEF Begin
<1>. QED  BY <1>2 DEF BeginTransition, TransitionKey

\* No row is left absent after an attempt.
LEMMA UntriedInduction ==
    ASSUME TypeOK, AbsentUntried, HistoryStep
    PROVE  AbsentUntried'
<1>. SUFFICES ASSUME NEW p \in Process, proc'[p].status = "absent"
              PROVE  proc'[p].attempt = 0
  BY DEF AbsentUntried
<1>1. CASE Undisturbed(p)
  BY <1>1 DEF Undisturbed, AbsentUntried
<1>2. CASE \E k \in Appended : RecordedAt(p, k)
  BY <1>2, RecordedRow DEF RecordedAt
<1>. QED  BY <1>1, <1>2 DEF HistoryStep

\* Every appended entry is one of the four records of its process.
LEMMA AppendedRecords ==
    ASSUME TypeOK, TypeOK', HistoryStep, NEW k \in Appended
    PROVE  log'[k].process \in Process /\ RecordedAt(log'[k].process, k)
<1>1. log'[k].process \in Process
  BY Positions DEF Entry
<1>2. PICK p \in Process : p = log'[k].process
  BY <1>1
<1>3. ~ Undisturbed(p)
  BY <1>2 DEF Undisturbed
<1>4. PICK j \in Appended : RecordedAt(p, j)
  BY <1>3 DEF HistoryStep
<1>5. j = k
  BY <1>2, <1>4 DEF RecordedAt
<1>. QED  BY <1>2, <1>4, <1>5

\* Every entry's key is its caller's or its own.
LEMMA FitInduction ==
    ASSUME TypeOK, TypeOK', EntriesFit, HistoryStep
    PROVE  EntriesFit'
<1>. SUFFICES ASSUME NEW i \in DOMAIN log'
              PROVE  /\ KeyFits(log'[i])
                     /\ log'[i].type = "claim" => log'[i].to = "running"
                     /\ log'[i].type = "retry_wait" => log'[i].to = "retry_wait"
  BY DEF EntriesFit, KeyFits
<1>1. CASE i \in DOMAIN log
  BY <1>1, Positions DEF EntriesFit
<1>2. CASE i \in Appended
  <2>1. log'[i].process \in Process /\ Records(log'[i].process, log'[i])
    BY <1>2, AppendedRecords DEF RecordedAt
  <2>. QED  BY <2>1, RecordedRow DEF Records
<1>. QED  BY <1>1, <1>2, Positions

\* No key is used twice, by one step or by two.
LEMMA KeysInduction ==
    ASSUME TypeOK, TypeOK', KeysOnce, HistoryStep
    PROVE  KeysOnce'
<1>. SUFFICES ASSUME NEW i \in DOMAIN log', NEW j \in DOMAIN log', log'[i].key = log'[j].key
              PROVE  i = j
  BY DEF KeysOnce
<1>1. KeysNew
  BY DEF HistoryStep
<1>2. CASE i \in DOMAIN log /\ j \in DOMAIN log
  BY <1>2, Positions DEF KeysOnce
<1>3. CASE i \in Appended /\ j \in Appended
  BY <1>1, <1>3 DEF KeysNew
<1>4. CASE i \in DOMAIN log /\ j \in Appended
  BY <1>1, <1>4, Positions DEF KeysNew, UsedKeys
<1>5. CASE i \in Appended /\ j \in DOMAIN log
  BY <1>1, <1>5, Positions DEF KeysNew, UsedKeys
<1>. QED  BY <1>2, <1>3, <1>4, <1>5, Positions

\* The reap of an attempt is the last thing that happens to it: the row is not
\* "running" again before a claim has made the next one.
LEMMA ReapsInduction ==
    ASSUME TypeOK, TypeOK', AbsentUntried, ReapsPast, HistoryStep
    PROVE  ReapsPast'
<1>. SUFFICES ASSUME NEW p \in Process, NEW i \in DOMAIN log',
                     log'[i].type = "reap", log'[i].process = p
              PROVE  /\ log'[i].attempt <= proc'[p].attempt
                     /\ log'[i].attempt = proc'[p].attempt => proc'[p].status # "running"
  BY DEF ReapsPast
<1>1. proc[p].attempt \in Nat /\ proc'[p].attempt \in Nat /\ log'[i].attempt \in Nat
  BY Positions DEF TypeOK, Row, Entry
<1>2. CASE i \in Appended
  <2>1. Records(p, log'[i])
    BY <1>2, AppendedRecords DEF RecordedAt
  <2>2. log'[i].attempt = proc'[p].attempt /\ proc'[p].status = log'[i].to
    BY <2>1, RecordedRow
  <2>3. log'[i].to = "failed"
    BY <2>1 DEF Records, Schedules, Claims, Reaps, Moves, Target
  <2>. QED  BY <1>1, <2>2, <2>3
<1>3. CASE i \in DOMAIN log
  <2>1. /\ log[i].attempt = log'[i].attempt /\ log[i].attempt <= proc[p].attempt
        /\ log[i].attempt = proc[p].attempt => proc[p].status # "running"
    BY <1>3, Positions DEF ReapsPast
  <2>2. CASE Undisturbed(p)
    BY <2>1, <2>2 DEF Undisturbed
  <2>3. ASSUME NEW k \in Appended, RecordedAt(p, k)
        PROVE  /\ log'[i].attempt <= proc'[p].attempt
               /\ log'[i].attempt = proc'[p].attempt => proc'[p].status # "running"
    <3>. DEFINE e == log'[k]
    <3>1. Records(p, e)
      BY <2>3 DEF RecordedAt
    <3>2. CASE Schedules(p, e)
      BY <1>1, <2>1, <3>2 DEF Schedules, AbsentUntried
    <3>3. CASE Claims(p, e)
      <4>1. proc'[p].attempt = proc[p].attempt + 1
        BY <3>3 DEF Claims, ClaimedRow, TypeOK, Row
      <4>. QED  BY <1>1, <2>1, <4>1
    <3>4. CASE Reaps(p, e) \/ Moves(p, e)
      <4>1. proc'[p].attempt = proc[p].attempt
        BY <3>4 DEF Reaps, ReapedRow, Moves, TypeOK, Row
      <4>2. proc'[p].status # "running"
        BY <3>4 DEF Reaps, ReapedRow, Moves, Target, TypeOK, Row
      <4>. QED  BY <1>1, <2>1, <4>1, <4>2
    <3>. QED  BY <3>1, <3>2, <3>3, <3>4 DEF Records
  <2>. QED  BY <2>2, <2>3 DEF HistoryStep
<1>. QED  BY <1>2, <1>3, Positions

\* The row of a process and the last entry about it move together.
LEMMA RowInduction ==
    ASSUME TypeOK, TypeOK', RowIsLastEvent, HistoryStep
    PROVE  RowIsLastEvent'
<1>. DEFINE Agrees(p, e) ==
       /\ e.process = p
       /\ proc'[p].status = e.to
       /\ proc'[p].attempt = e.attempt
       /\ e.type = "claim" => proc'[p].owner = e.actor /\ proc'[p].expires = e.until
       /\ e.type = "retry_wait" => proc'[p].due = e.until
<1>. SUFFICES ASSUME NEW p \in Process, proc'[p].status # "absent"
              PROVE  \E i \in DOMAIN log' : Latest(i)' /\ Agrees(p, log'[i])
  BY DEF RowIsLastEvent
<1>1. CASE Undisturbed(p)
  <2>1. proc[p].status # "absent"
    BY <1>1 DEF Undisturbed
  <2>2. PICK i \in DOMAIN log :
             /\ Latest(i) /\ log[i].process = p
             /\ proc[p].status = log[i].to
             /\ proc[p].attempt = log[i].attempt
             /\ log[i].type = "claim" => /\ proc[p].owner = log[i].actor
                                         /\ proc[p].expires = log[i].until
             /\ log[i].type = "retry_wait" => proc[p].due = log[i].until
    BY <2>1 DEF RowIsLastEvent
  <2>3. i \in DOMAIN log' /\ log'[i] = log[i]
    BY Positions
  <2>4. ASSUME NEW j \in DOMAIN log', j > i PROVE log'[j].process # p
    <3>1. CASE j \in DOMAIN log
      BY <2>2, <2>4, <3>1, Positions DEF Latest
    <3>2. CASE j \in Appended
      BY <1>1, <3>2 DEF Undisturbed
    <3>. QED  BY <3>1, <3>2, Positions
  <2>5. Latest(i)'
    BY <2>2, <2>3, <2>4 DEF Latest
  <2>6. Agrees(p, log'[i])
    BY <1>1, <2>2, <2>3 DEF Undisturbed
  <2>. QED  BY <2>3, <2>5, <2>6
<1>2. ASSUME NEW k \in Appended, RecordedAt(p, k)
      PROVE  \E i \in DOMAIN log' : Latest(i)' /\ Agrees(p, log'[i])
  <2>1. Records(p, log'[k]) /\ k \in DOMAIN log'
    BY <1>2, Positions DEF RecordedAt
  <2>2. Agrees(p, log'[k])
    BY <2>1, RecordedRow DEF Records
  <2>3. ASSUME NEW j \in DOMAIN log', j > k PROVE log'[j].process # p
    <3>1. j \in Appended /\ j # k
      BY <2>3, Positions
    <3>. QED  BY <1>2, <3>1 DEF RecordedAt
  <2>4. Latest(k)'
    BY <2>1, <2>3 DEF Latest, Records
  <2>. QED  BY <2>1, <2>2, <2>4
<1>. QED  BY <1>1, <1>2 DEF HistoryStep

\* A claim adds the next attempt and the one claim of it; nothing else touches
\* the count.
LEMMA AttemptsInduction ==
    ASSUME TypeOK, TypeOK', AbsentUntried, AttemptsAreClaims, HistoryStep
    PROVE  AttemptsAreClaims'
<1>. DEFINE ClaimOf(e, p) == e.type = "claim" /\ e.process = p
<1>. SUFFICES ASSUME NEW p \in Process
              PROVE  /\ proc'[p].attempt <= MaxAttempts[p]
                     /\ \A n \in 1..proc'[p].attempt : \E i \in DOMAIN log' :
                           ClaimOf(log'[i], p) /\ log'[i].attempt = n
                     /\ \A i, j \in DOMAIN log' :
                           ClaimOf(log'[i], p) /\ ClaimOf(log'[j], p)
                           => /\ log'[i].attempt <= proc'[p].attempt
                              /\ i < j => log'[i].attempt < log'[j].attempt
  BY DEF AttemptsAreClaims
<1>1. /\ proc[p].attempt \in Nat /\ proc'[p].attempt \in Nat /\ MaxAttempts[p] \in Nat
      /\ \A i \in DOMAIN log' : log'[i].attempt \in Nat
  BY AttemptsAssumption, Positions DEF TypeOK, Row, Entry
<1>2. /\ proc[p].attempt <= MaxAttempts[p]
      /\ \A n \in 1..proc[p].attempt : \E i \in DOMAIN log :
            ClaimOf(log[i], p) /\ log[i].attempt = n
      /\ \A i, j \in DOMAIN log :
            ClaimOf(log[i], p) /\ ClaimOf(log[j], p)
            => /\ log[i].attempt <= proc[p].attempt
               /\ i < j => log[i].attempt < log[j].attempt
  BY DEF AttemptsAreClaims
<1>3. /\ \A n \in 1..proc[p].attempt : \E i \in DOMAIN log' :
            ClaimOf(log'[i], p) /\ log'[i].attempt = n
      /\ \A i, j \in DOMAIN log :
            ClaimOf(log'[i], p) /\ ClaimOf(log'[j], p)
            => /\ log'[i].attempt <= proc[p].attempt
               /\ i < j => log'[i].attempt < log'[j].attempt
  <2>1. \A i \in DOMAIN log : i \in DOMAIN log' /\ log'[i] = log[i]
    BY Positions
  <2>. HIDE DEF ClaimOf
  <2>. QED  BY <1>2, <2>1
<1>4. CASE /\ proc'[p].attempt = proc[p].attempt
           /\ \A k \in Appended : ~ ClaimOf(log'[k], p)
  <2>1. \A i \in DOMAIN log' : ClaimOf(log'[i], p) => i \in DOMAIN log
    BY <1>4, Positions
  <2>. HIDE DEF ClaimOf
  <2>. QED  BY <1>2, <1>3, <1>4, <2>1
<1>5. CASE Undisturbed(p)
  BY <1>4, <1>5 DEF Undisturbed
<1>6. ASSUME NEW k \in Appended, RecordedAt(p, k)
      PROVE  /\ proc'[p].attempt <= MaxAttempts[p]
             /\ \A n \in 1..proc'[p].attempt : \E i \in DOMAIN log' :
                   ClaimOf(log'[i], p) /\ log'[i].attempt = n
             /\ \A i, j \in DOMAIN log' :
                   ClaimOf(log'[i], p) /\ ClaimOf(log'[j], p)
                   => /\ log'[i].attempt <= proc'[p].attempt
                      /\ i < j => log'[i].attempt < log'[j].attempt
  <2>. DEFINE e == log'[k]
  <2>1. Records(p, e) /\ \A j \in Appended : log'[j].process = p => j = k
    BY <1>6 DEF RecordedAt
  <2>2. CASE ~ Claims(p, e)
    <3>1. e.type # "claim"
      BY <2>1, <2>2 DEF Records, Schedules, Reaps, Moves, Target
    <3>2. \A j \in Appended : ~ ClaimOf(log'[j], p)
      BY <2>1, <3>1
    <3>3. proc'[p].attempt = proc[p].attempt
      <4>1. CASE Schedules(p, e)
        BY <4>1 DEF Schedules, AbsentUntried
      <4>2. CASE Reaps(p, e) \/ Moves(p, e)
        BY <4>2 DEF Reaps, ReapedRow, Moves, TypeOK, Row
      <4>. QED  BY <2>1, <2>2, <4>1, <4>2 DEF Records
    <3>. QED  BY <1>4, <3>2, <3>3
  <2>3. CASE Claims(p, e)
    <3>1. proc'[p].attempt = proc[p].attempt + 1 /\ e.attempt = proc[p].attempt + 1
      BY <2>3 DEF Claims, ClaimedRow, TypeOK, Row
    <3>2. ClaimOf(e, p) /\ k \in DOMAIN log' /\ k \in Nat
      BY <2>1, <2>3, Positions DEF Claims, Records
    <3>3. proc[p].attempt < MaxAttempts[p]
      BY <2>3 DEF Claims, Claimable
    <3>4. \A i \in DOMAIN log' : ClaimOf(log'[i], p) => i \in DOMAIN log \/ i = k
      BY <2>1, Positions
    <3>5. \A i \in DOMAIN log : i < k /\ i \in Nat
      BY Positions
    <3>6. ASSUME NEW n \in 1..proc'[p].attempt
          PROVE  \E i \in DOMAIN log' : ClaimOf(log'[i], p) /\ log'[i].attempt = n
      <4>1. CASE n = proc[p].attempt + 1
        BY <3>1, <3>2, <4>1
      <4>2. CASE n \in 1..proc[p].attempt
        BY <1>3, <4>2
      <4>. QED  BY <1>1, <3>1, <4>1, <4>2
    <3>7. ASSUME NEW i \in DOMAIN log', NEW j \in DOMAIN log',
                 ClaimOf(log'[i], p), ClaimOf(log'[j], p)
          PROVE  /\ log'[i].attempt <= proc'[p].attempt
                 /\ i < j => log'[i].attempt < log'[j].attempt
      <4>. HIDE DEF ClaimOf
      <4>1. log'[i].attempt <= proc'[p].attempt
        BY <1>1, <1>3, <3>1, <3>4, <3>7
      <4>2. ASSUME i < j PROVE log'[i].attempt < log'[j].attempt
        <5>1. i \in DOMAIN log
          BY <3>4, <3>5, <3>7, <4>2, <3>2
        <5>2. CASE j \in DOMAIN log
          BY <1>3, <3>7, <4>2, <5>1, <5>2
        <5>3. CASE j = k
          BY <1>1, <1>3, <3>1, <3>7, <5>1, <5>3
        <5>. QED  BY <3>4, <3>7, <5>2, <5>3
      <4>. QED  BY <4>1, <4>2
    <3>8. proc'[p].attempt <= MaxAttempts[p]
      BY <1>1, <3>1, <3>3
    <3>. QED  BY <3>6, <3>7, <3>8
  <2>. QED  BY <2>2, <2>3
<1>. QED  BY <1>5, <1>6 DEF HistoryStep

\* The row agrees with its latest entry, whichever way that one is named.
LEMMA LatestRow ==
    ASSUME TypeOK, RowIsLastEvent, NEW p \in Process, proc[p].status # "absent",
           NEW k \in DOMAIN log, log[k].process = p, Latest(k)
    PROVE  /\ proc[p].status = log[k].to /\ proc[p].attempt = log[k].attempt
           /\ log[k].type = "claim" => /\ proc[p].owner = log[k].actor
                                       /\ proc[p].expires = log[k].until
           /\ log[k].type = "retry_wait" => proc[p].due = log[k].until
<1>1. PICK i \in DOMAIN log :
           /\ Latest(i) /\ log[i].process = p
           /\ proc[p].status = log[i].to
           /\ proc[p].attempt = log[i].attempt
           /\ log[i].type = "claim" => /\ proc[p].owner = log[i].actor
                                       /\ proc[p].expires = log[i].until
           /\ log[i].type = "retry_wait" => proc[p].due = log[i].until
  BY DEF RowIsLastEvent
<1>2. i \in Nat /\ k \in Nat
  BY LenProperties DEF TypeOK
<1>3. i = k
  BY <1>1, <1>2 DEF Latest
<1>. QED  BY <1>1, <1>3

\* Between old entries nothing is inserted, and an appended entry follows the
\* latest one of its process.
LEMMA FollowsStep ==
    ASSUME TypeOK, TypeOK', HistoryStep,
           NEW i \in DOMAIN log', NEW k \in DOMAIN log', Follows(i, k)'
    PROVE  /\ k \in DOMAIN log /\ log'[k] = log[k]
           /\ i \in DOMAIN log => Follows(i, k) /\ log'[i] = log[i]
           /\ i \in Appended => /\ Latest(k) /\ log[k].process = log'[i].process
                                /\ log'[i].process \in Process
                                /\ Records(log'[i].process, log'[i])
<1>1. k < i /\ log'[k].process = log'[i].process
      /\ \A j \in DOMAIN log' : (k < j /\ j < i) => log'[j].process # log'[i].process
  BY DEF Follows
<1>2. k \in Nat /\ i \in Nat
  BY Positions
<1>3. CASE i \in DOMAIN log
  <2>1. k \in DOMAIN log
    BY <1>1, <1>2, <1>3, Positions
  <2>. QED  BY <1>1, <1>3, <2>1, Positions DEF Follows, Appended
<1>4. CASE i \in Appended
  <2>1. log'[i].process \in Process /\ RecordedAt(log'[i].process, i)
    BY <1>4, AppendedRecords
  <2>2. k \notin Appended
    BY <1>1, <1>2, <2>1 DEF RecordedAt
  <2>3. k \in DOMAIN log /\ log'[k] = log[k]
    BY <2>2, Positions
  <2>4. ASSUME NEW j \in DOMAIN log, j > k PROVE log[j].process # log[k].process
    <3>1. j < i /\ j \in DOMAIN log' /\ log'[j] = log[j] /\ j \in Nat
      BY <1>4, Positions
    <3>. QED  BY <1>1, <1>2, <2>3, <2>4, <3>1
  <2>5. Latest(k)
    BY <2>3, <2>4 DEF Latest
  <2>6. i \notin DOMAIN log
    BY <1>4 DEF Appended
  <2>. QED  BY <1>1, <2>1, <2>3, <2>5, <2>6 DEF RecordedAt
<1>. QED  BY <1>3, <1>4, Positions

\* A row whose latest entry is a claim runs under it; one whose latest entry is
\* a retry waits for its due time.
LEMMA RowAfter ==
    ASSUME TypeOK, EntriesFit, RowIsLastEvent, NEW p \in Process,
           proc[p].status # "absent",
           NEW k \in DOMAIN log, log[k].process = p, Latest(k)
    PROVE  /\ log[k].type = "claim" =>
                 /\ proc[p].status = "running" /\ proc[p].attempt = log[k].attempt
                 /\ proc[p].owner = log[k].actor /\ proc[p].expires = log[k].until
           /\ log[k].type = "retry_wait" =>
                 proc[p].status = "retry_wait" /\ proc[p].due = log[k].until
BY LatestRow DEF EntriesFit

\* The worker that claimed the row is its owner until the next entry, and a
\* result is accepted from the owner alone.
LEMMA ResultsInduction ==
    ASSUME TypeOK, TypeOK', LeasedWhileRunning, EntriesFit, RowIsLastEvent,
           ResultsFromClaimant, HistoryStep
    PROVE  ResultsFromClaimant'
<1>. SUFFICES ASSUME NEW i \in DOMAIN log', NEW k \in DOMAIN log',
                     Follows(i, k)', log'[k].type = "claim",
                     log'[i].type \in {"succeeded", "failed", "retry_wait"}
              PROVE  log'[i].actor = log'[k].actor /\ log'[i].attempt = log'[k].attempt
  BY DEF ResultsFromClaimant
<1>1. k \in DOMAIN log /\ log'[k] = log[k]
  BY FollowsStep
<1>2. CASE i \in DOMAIN log
  <2>1. Follows(i, k) /\ log'[i] = log[i]
    BY <1>2, FollowsStep
  <2>. QED  BY <1>1, <1>2, <2>1 DEF ResultsFromClaimant
<1>3. CASE i \in Appended
  <2>1. PICK p \in Process : p = log'[i].process
    BY <1>3, FollowsStep
  <2>2. Records(p, log'[i]) /\ Latest(k) /\ log[k].process = p
    BY <1>3, <2>1, FollowsStep
  <2>3. Moves(p, log'[i])
    BY <2>2 DEF Records, Schedules, Claims, Reaps
  <2>4. /\ proc[p].status = "running" /\ proc[p].attempt = log[k].attempt
        /\ proc[p].owner = log[k].actor
    BY <1>1, <2>2, <2>3, RowAfter DEF Moves
  <2>5. proc[p].owner # NoActor
    BY <2>4 DEF LeasedWhileRunning
  <2>. QED  BY <1>1, <2>3, <2>4, <2>5 DEF Moves, OwnedBy
<1>. QED  BY <1>2, <1>3, Positions

\* The WHERE clause compares the row's lease and due time, and those are the
\* latest entry's, with the reading the entry records.
LEMMA TurnsInduction ==
    ASSUME TypeOK, TypeOK', EntriesFit, RowIsLastEvent, TurnsDoNotOverlap, HistoryStep
    PROVE  TurnsDoNotOverlap'
<1>. SUFFICES ASSUME NEW i \in DOMAIN log', NEW k \in DOMAIN log',
                     Follows(i, k)', log'[k].type \in {"claim", "retry_wait"},
                     log'[i].type \in {"claim", "reap"}
              PROVE  log'[k].until <= log'[i].at
  BY DEF TurnsDoNotOverlap
<1>1. k \in DOMAIN log /\ log'[k] = log[k]
  BY FollowsStep
<1>2. CASE i \in DOMAIN log
  <2>1. Follows(i, k) /\ log'[i] = log[i]
    BY <1>2, FollowsStep
  <2>. QED  BY <1>1, <1>2, <2>1 DEF TurnsDoNotOverlap
<1>3. CASE i \in Appended
  <2>1. PICK p \in Process : p = log'[i].process
    BY <1>3, FollowsStep
  <2>2. Records(p, log'[i]) /\ Latest(k) /\ log[k].process = p
    BY <1>3, <2>1, FollowsStep
  <2>3. Claims(p, log'[i]) \/ Reaps(p, log'[i])
    BY <2>2 DEF Records, Schedules, Moves, Target
  <2>4. Claimable(p, log'[i].at) \/ Exhausted(p, log'[i].at)
    BY <2>3 DEF Claims, Reaps
  <2>5. proc[p].status # "absent"
    BY <2>4 DEF Claimable, Exhausted
  <2>6. /\ log[k].type = "claim" => proc[p].status = "running" /\ proc[p].expires = log[k].until
        /\ log[k].type = "retry_wait" =>
              proc[p].status = "retry_wait" /\ proc[p].due = log[k].until
    BY <1>1, <2>2, <2>5, RowAfter
  <2>. QED  BY <1>1, <2>4, <2>6 DEF Claimable, Exhausted
<1>. QED  BY <1>2, <1>3, Positions

\* An empty journal satisfies every part.
LEMMA HistoryInit == Init => HistoryInv
<1>. SUFFICES ASSUME Init PROVE HistoryInv
  OBVIOUS
<1>1. IInv
  BY TypeInit DEF Init, IInv, LeasedWhileRunning, InFlightLegal, AbsentRow
<1>2. DOMAIN log = {}
  BY DEF Init
<1>3. CallsNamed /\ AbsentUntried /\ RowIsLastEvent
  BY DEF Init, CallsNamed, AbsentUntried, RowIsLastEvent, AbsentRow
<1>4. EntriesFit /\ KeysOnce /\ ReapsPast /\ ResultsFromClaimant /\ TurnsDoNotOverlap
  BY <1>2 DEF EntriesFit, KeysOnce, ReapsPast, ResultsFromClaimant, TurnsDoNotOverlap
<1>5. AttemptsAreClaims
  <2>1. \A p \in Process : proc[p].attempt = 0 /\ MaxAttempts[p] \in Nat
    BY AttemptsAssumption DEF Init, AbsentRow
  <2>2. \A p \in Process : 1..proc[p].attempt = {}
    BY <2>1
  <2>. QED  BY <1>2, <2>1, <2>2 DEF AttemptsAreClaims
<1>. QED  BY <1>1, <1>3, <1>4, <1>5 DEF HistoryInv

\* The invariant that ties rows, log, keys and calls in flight together: every
\* part is kept by every step of every caller.
THEOREM HistoryInvariant == Spec => []HistoryInv
<1>1. HistoryInv /\ [Next]_vars => HistoryInv'
  <2>. SUFFICES ASSUME HistoryInv, [Next]_vars PROVE HistoryInv'
    OBVIOUS
  <2>. USE DEF HistoryInv
  <2>1. IInv'
    BY TypeInduction, LeaseInduction, CallInduction DEF IInv
  <2>2. TypeOK /\ TypeOK' /\ LeasedWhileRunning
    BY <2>1 DEF IInv
  <2>3. HistoryStep
    BY LogStep
  <2>4. CallsNamed' /\ AbsentUntried'
    BY <2>2, <2>3, CallsNamedInduction, UntriedInduction
  <2>5. EntriesFit' /\ KeysOnce' /\ ReapsPast'
    BY <2>2, <2>3, FitInduction, KeysInduction, ReapsInduction
  <2>6. RowIsLastEvent' /\ AttemptsAreClaims'
    BY <2>2, <2>3, RowInduction, AttemptsInduction
  <2>7. ResultsFromClaimant' /\ TurnsDoNotOverlap'
    BY <2>2, <2>3, ResultsInduction, TurnsInduction
  <2>. QED  BY <2>1, <2>4, <2>5, <2>6, <2>7
<1>. QED  BY <1>1, HistoryInit, PTL DEF Spec

-----------------------------------------------------------------------------
(* What follows from it.                                                   *)

\* RowIsLastEvent: the event stream alone rebuilds the queue, since no call
\* writes a row without its event or an event without its row.
THEOREM ProjectionCorrect == Spec => []RowIsLastEvent
BY HistoryInvariant, PTL DEF HistoryInv

\* AttemptsAreClaims: the attempt column counts the claims, one each, in order
\* and never beyond the budget, however many workers claim and reap.
THEOREM AttemptsCorrect == Spec => []AttemptsAreClaims
BY HistoryInvariant, PTL DEF HistoryInv

\* ResultsFromClaimant: a result or retry that ends a claim is the claimant's
\* and carries its attempt, although _transition_process reads the row before
\* its transaction.
THEOREM ResultsCorrect == Spec => []ResultsFromClaimant
BY HistoryInvariant, PTL DEF HistoryInv

\* TurnsDoNotOverlap: a turn begins no earlier than the lease before it ends,
\* whatever clock readings the callers hand in.
THEOREM TurnsCorrect == Spec => []TurnsDoNotOverlap
BY HistoryInvariant, PTL DEF HistoryInv

\* The next claim's and the next reap's key are free: a used key of that kind
\* belongs to an earlier attempt.
LEMMA NextKeysFree == HistoryInv => QueueKeysFree
<1>. SUFFICES ASSUME HistoryInv PROVE QueueKeysFree
  OBVIOUS
<1>. USE DEF HistoryInv
<1>1. TypeOK
  BY DEF IInv
<1>2. ASSUME NEW p \in Process, NEW i \in DOMAIN log,
             log[i].key = ClaimKey(p, proc[p].attempt + 1)
      PROVE  FALSE
  <2>1. proc[p].attempt \in Nat
    BY <1>1 DEF TypeOK, Row
  <2>2. ClaimKey(p, proc[p].attempt + 1) \in DefaultKey
    BY <2>1 DEF ClaimKey, DefaultKey
  <2>3. log[i].type = "claim" /\ log[i].process = p /\ log[i].attempt = proc[p].attempt + 1
    BY <1>2, <2>2, KeyAssumption DEF EntriesFit, KeyFits, ClaimKey
  <2>4. log[i].attempt <= proc[p].attempt
    BY <2>3 DEF AttemptsAreClaims
  <2>. QED  BY <2>1, <2>3, <2>4
<1>3. ASSUME NEW p \in Process, NEW i \in DOMAIN log, proc[p].status = "running",
             log[i].key = ReapKey(p, proc[p].attempt)
      PROVE  FALSE
  <2>1. proc[p].attempt \in Nat
    BY <1>1 DEF TypeOK, Row
  <2>2. ReapKey(p, proc[p].attempt) \in DefaultKey
    BY <2>1 DEF ReapKey, DefaultKey
  <2>3. log[i].type = "reap" /\ log[i].process = p /\ log[i].attempt = proc[p].attempt
    BY <1>3, <2>2, KeyAssumption DEF EntriesFit, KeyFits, ReapKey
  <2>. QED  BY <1>3, <2>3 DEF ReapsPast
<1>. QED  BY <1>2, <1>3 DEF QueueKeysFree, KeysOnce, UsedKeys

\* QueueKeysFree: no caller can take the key of the next claim or reap, so
\* claim_next_ready is never refused for a key of its own.
THEOREM QueueKeysCorrect == Spec => []QueueKeysFree
BY HistoryInvariant, NextKeysFree, PTL

=============================================================================
