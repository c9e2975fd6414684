-------------------------- MODULE NativeDriverProofs --------------------------
(***************************************************************************)
(* Every step of the drivers is a step that the journal offers to any      *)
(* caller.  What is proved of NativeJournal so holds whatever the drivers  *)
(* do, for every number of drivers and processes.                          *)
(*                                                                         *)
(* DriverMoves then says what one step does to rows, log, calls and each   *)
(* driver's memory; from it follow the drivers' own promises: answers are  *)
(* recorded for their own attempt, contract errors have their violation,   *)
(* and an attempt has ended when its driver goes on.                       *)
(***************************************************************************)
EXTENDS NativeDriver, NativeJournalProofs

\* The transitions that drivers and the operator ask for.
Verdicts == {"succeeded", "failed", "retry_wait", "cancelled", "timed_out"}

\* The journal's bounds leave room for the drivers' calls: a drive may be stamped
\* with its start to the end, and no lease or backoff is longer than the journal
\* is given callers for.
RoomForDrivers ==
    /\ MaxTime <= MaxAge
    /\ LeaseLen <= MaxLease
    /\ \A p \in Process, n \in Nat : n \in 1..MaxAttempts[p] => Delay(p, n) \in 0..MaxDelay
    /\ Verdicts \cup {"cancel_requested"} \subseteq Asked

-----------------------------------------------------------------------------
(* What a driver remembers fits the call it will make.                     *)

DriverFits(d) ==
    /\ drv[d].tick \in Nat /\ drv[d].tick <= now
    /\ drv[d].until \in Nat /\ drv[d].until <= drv[d].tick + LeaseLen
    /\ drv[d].pc \notin {"stopped", "select"} => drv[d].p \in Process
    /\ drv[d].pc \in {"maintain", "resolve"} => drv[d].seen.owner \in Actor
    /\ drv[d].pc = "resolve" =>
          drv[d].to \in {"failed", "retry_wait"} /\ drv[d].data = ExpiryError
    /\ drv[d].pc \in {"execute", "violation", "settle"} =>
          drv[d].att \in 1..MaxAttempts[drv[d].p]
    /\ drv[d].pc \in {"violation", "settle"} =>
          drv[d].to \in Verdicts /\ drv[d].data \in Datum

\* A connection has one call in flight.
OneCallEach == \A x, y \in inflight : x.client = y.client => x = y

DrvShape ==
    drv \in [Driver -> [pc : PC, p : Process \cup {0}, seen : Row, att : Nat,
                        tick : Nat, until : Nat, to : Target \cup {"none"}, data : Doc]]

DriverInv ==
    /\ IInv
    /\ now <= MaxTime
    /\ OneCallEach
    /\ DrvShape
    /\ \A d \in Driver : DriverFits(d)

\* A driver that is given the wall clock, or the now of its drive, stamps its
\* calls with a reading that is never ahead of the clock.
LEMMA StampReading ==
    ASSUME RoomForDrivers, DriverInv, NEW d \in Driver
    PROVE  /\ drv[d].tick \in Readings
           /\ Stamp(d) \in Readings /\ Stamp(d) \in Nat
           /\ drv[d].tick <= Stamp(d) /\ Stamp(d) <= now
           /\ now \in Readings /\ now \in Nat
<1>1. now \in Nat
  BY DEF DriverInv, IInv, TypeOK
<1>2. drv[d].tick \in Nat /\ drv[d].tick <= now
  BY DEF DriverInv, DriverFits
<1>3. now - MaxAge <= 0
  BY <1>1, BoundsAssumption DEF RoomForDrivers, DriverInv
<1>. QED  BY <1>1, <1>2, <1>3, BoundsAssumption DEF Readings, Stamp

\* A call of _transition_process that a driver makes is one of Begin's, is
\* answered from the log, or raises.
LEMMA AskIsACall ==
    ASSUME NEW d \in Driver, NEW p \in Process, NEW to \in Target \cap Asked,
           NEW actor \in Actor, NEW at \in Readings, NEW data \in Offered, NEW due \in Due(at),
           NEW pending, NEW answered,
           Ask(d, p, to, actor, at, data, due, pending, answered)
    PROVE  Begin \/ UNCHANGED vars
<1>1. d \in Client
  BY DriverAssumption
<1>2. CASE BeginTransition(d, p, to, actor, at, data, due, TransitionKey(p, to, at))
  BY <1>1, <1>2 DEF Begin
<1>. QED  BY <1>2 DEF Ask

\* A transaction that ends, either way, is one of Finish.
LEMMA SettledIsFinish ==
    ASSUME NEW d \in Driver, NEW next, Settled(d, next)
    PROVE  Finish
BY DEF Settled, InFlight, Finish

-----------------------------------------------------------------------------
(* Steps.                                                                  *)

\* A step of a driver is a step of the journal, or none.
LEMMA StepImplements ==
    ASSUME RoomForDrivers, DriverInv, NEW d \in Driver, DriverStep(d)
    PROVE  [Next]_vars
<1>. USE StampReading
<1>0. /\ DriverFits(d)
      /\ WorkerId[d] \in Actor /\ LeaseLen \in Nat
  BY DriverAssumption DEF DriverInv
<1>1. CASE StartDrive(d) \/ Select(d) \/ EndDrive(d) \/ Maintain(d) \/ Resolved(d)
           \/ Execute(d) \/ RecordViolation(d)
  BY <1>1 DEF StartDrive, Select, EndDrive, Maintain, Resolved, Execute, RecordViolation
<1>2. CASE Resolve(d)
  <2>1. drv[d].to \in Target \cap Asked /\ drv[d].data \in Offered
    BY <1>0, <1>2, DocumentAssumption
    DEF Resolve, DriverFits, Target, RoomForDrivers, Verdicts, Offered
  <2>2. drv[d].p \in Process /\ drv[d].seen.owner \in Actor
    BY <1>0, <1>2 DEF Resolve, DriverFits
  <2>3. drv[d].tick \in Due(drv[d].tick)
    BY <1>0, BoundsAssumption DEF Due, DriverFits
  <2>. QED  BY <1>2, <2>1, <2>2, <2>3, AskIsACall DEF Resolve, Next
<1>3. CASE Resolving(d) \/ Settling(d)
  BY <1>3, SettledIsFinish DEF Resolving, Settling, Next
<1>4. CASE ClaimRow(d)
  <2>1. drv[d].p \in Process
    BY <1>0, <1>4 DEF ClaimRow, DriverFits
  <2>2. CASE drv[d].until > Stamp(d)
    <3>1. drv[d].until \in Lease(Stamp(d))
      BY <1>0, <2>2, BoundsAssumption DEF Lease, DriverFits, RoomForDrivers
    <3>. QED  BY <1>0, <1>4, <2>1, <3>1 DEF ClaimRow, Claim, Next
  <2>. QED  BY <1>4, <2>2 DEF ClaimRow
<1>5. CASE Settle(d)
  <2>1. drv[d].to \in Target \cap Asked /\ drv[d].data \in Offered
    BY <1>0, <1>5 DEF Settle, DriverFits, Target, RoomForDrivers, Verdicts, Offered
  <2>2. drv[d].p \in Process /\ drv[d].att \in 1..MaxAttempts[drv[d].p]
    BY <1>0, <1>5 DEF Settle, DriverFits
  <2>3. drv[d].att \in Nat
    BY <2>2, AttemptsAssumption
  <2>4. Delay(drv[d].p, drv[d].att) \in 0..MaxDelay
    BY <2>2, <2>3 DEF RoomForDrivers
  <2>5. DueOf(d) \in Due(drv[d].tick)
    BY <1>0, <2>4, BoundsAssumption DEF DueOf, Due, DriverFits
  <2>6. CASE Ask(d, drv[d].p, drv[d].to, WorkerId[d], drv[d].tick, drv[d].data,
                 DueOf(d), "settling", "select")
    BY <1>0, <2>1, <2>2, <2>5, <2>6, AskIsACall DEF Next
  <2>. QED  BY <1>5, <2>6 DEF Settle
<1>. QED  BY <1>1, <1>2, <1>3, <1>4, <1>5 DEF DriverStep

\* So is the death of a driver, which takes its one call in flight with it, and
\* whatever the operator, the host and the clock do.
LEMMA OthersImplement ==
    ASSUME RoomForDrivers, DriverInv,
           (\E d \in Driver : Crash(d)) \/ Submit \/ RequestCancel \/ FinishCancel \/ DriverTick
    PROVE  [Next]_vars
<1>0. now \in Nat /\ now \in Readings /\ now \in Due(now)
  <2>1. now \in Nat /\ now <= MaxTime
    BY DEF DriverInv, IInv, TypeOK
  <2>. QED  BY <2>1, BoundsAssumption DEF RoomForDrivers, Readings, Due
<1>1. ASSUME NEW d \in Driver, Crash(d) PROVE [Next]_vars
  <2>1. CASE InFlight(d) = {}
    BY <1>1, <2>1 DEF Crash, vars
  <2>2. CASE InFlight(d) # {}
    <3>1. PICK call \in InFlight(d) : TRUE
      BY <2>2
    <3>2. InFlight(d) = {call} /\ call \in inflight
      BY <3>1 DEF InFlight, DriverInv, OneCallEach
    <3>3. AbandonTransition(call)
      BY <1>1, <3>2 DEF Crash, AbandonTransition
    <3>. QED  BY <3>2, <3>3 DEF Finish, Next
  <2>. QED  BY <2>1, <2>2
<1>2. CASE Submit
  BY <1>0, <1>2 DEF Submit, Schedule, Next
<1>3. CASE RequestCancel
  <2>1. "cancel_requested" \in Target \cap Asked /\ NoDatum \in Offered
        /\ Operator \in Client /\ Operator \in Actor /\ Cancellable \subseteq Process
    BY DriverAssumption DEF RoomForDrivers, Target, Offered
  <2>. QED  BY <1>0, <1>3, <2>1 DEF RequestCancel, Begin, Next
<1>4. CASE FinishCancel
  BY <1>4 DEF FinishCancel, InFlight, Finish, Next
<1>5. CASE DriverTick
  BY <1>5 DEF DriverTick, Next
<1>. QED  BY <1>1, <1>2, <1>3, <1>4, <1>5

-----------------------------------------------------------------------------
(* The invariant.                                                          *)

\* Before the first drive nothing is in flight and nothing is remembered.
LEMMA DriverInvInit == DriverInit => DriverInv
<1>. SUFFICES ASSUME DriverInit PROVE DriverInv
  OBVIOUS
<1>1. IInv
  BY TypeInit DEF DriverInit, IInv, Init, LeasedWhileRunning, InFlightLegal, AbsentRow
<1>2. now <= MaxTime /\ OneCallEach
  BY BoundsAssumption DEF DriverInit, Init, OneCallEach
<1>3. Stopped \in [pc : PC, p : Process \cup {0}, seen : Row, att : Nat,
                   tick : Nat, until : Nat, to : Target \cup {"none"}, data : Doc]
  BY DEF Stopped, PC, AbsentRow, Row, Doc, Offered
<1>4. DrvShape
  BY <1>3 DEF DriverInit, DrvShape
<1>5. \A d \in Driver : DriverFits(d)
  BY DriverAssumption DEF DriverInit, Init, DriverFits, Stopped
<1>. QED  BY <1>1, <1>2, <1>4, <1>5 DEF DriverInv

\* The clock stops at its bound, and a connection with a call in flight begins
\* no other.
LEMMA CallsInduction ==
    ASSUME DriverInv, [Next]_vars
    PROVE  (now <= MaxTime)' /\ OneCallEach'
<1>. USE DEF DriverInv, OneCallEach
<1>1. now \in Nat
  BY DEF IInv, TypeOK
<1>2. CASE Tick
  BY <1>1, <1>2, BoundsAssumption DEF Tick
<1>3. CASE Schedule
  BY <1>3 DEF Schedule, ScheduleProcess, ScheduleProcessWithCommand, InsertRow
<1>4. CASE Claim
  BY <1>4 DEF Claim, ClaimNextReady, ClaimProcess
<1>5. CASE Begin
  <2>1. PICK c \in Client : /\ \A other \in inflight : other.client # c
                            /\ \E call : call.client = c /\ inflight' = inflight \cup {call}
                            /\ now' = now
    <3>1. PICK c \in Client, p \in Process, to \in Target \cap Asked, actor \in Actor,
               at \in Readings : \E data \in Offered, due \in Due(at),
                                    key \in {TransitionKey(p, to, at)} \cup ClientKey :
                  BeginTransition(c, p, to, actor, at, data, due, key)
      BY <1>5 DEF Begin
    <3>2. PICK data, due, key : BeginTransition(c, p, to, actor, at, data, due, key)
      BY <3>1
    <3>. QED  BY <3>2 DEF BeginTransition
  <2>. QED  BY <2>1
<1>6. CASE Finish
  BY <1>6 DEF Finish, CommitTransition, AbandonTransition
<1>7. CASE Command
  BY <1>7 DEF Command, TransitionWithCommand
<1>8. CASE UNCHANGED vars
  BY <1>8 DEF vars
<1>. QED  BY <1>2, <1>3, <1>4, <1>5, <1>6, <1>7, <1>8 DEF Next

\* What a driver remembers after a step of its own fits its next call.
LEMMA OwnStepFits ==
    ASSUME RoomForDrivers, DriverInv, NEW d \in Driver, DriverStep(d)
    PROVE  DriverFits(d)' /\ DrvShape'
<1>. DEFINE Shape == [pc : PC, p : Process \cup {0}, seen : Row, att : Nat,
                      tick : Nat, until : Nat, to : Target \cup {"none"}, data : Doc]
<1>. SUFFICES ASSUME TRUE
              PROVE  /\ drv' \in [Driver -> Shape]
                     /\ DriverFits(d)'
  BY DEF DrvShape
<1>. USE StampReading
<1>0. /\ DriverFits(d) /\ drv \in [Driver -> Shape] /\ drv[d] \in Shape
      /\ proc \in [Process -> Row] /\ LeaseLen \in Nat /\ now \in Nat
  BY DriverAssumption DEF DriverInv, DrvShape, IInv, TypeOK
<1>1. Stopped \in Shape
  BY DEF Stopped, PC, AbsentRow, Row, Doc, Offered
<1>r. CASE drv' = [drv EXCEPT ![d] = Stopped] /\ now' = now
  BY <1>0, <1>1, <1>r DEF DriverFits, Stopped
<1>u. ASSUME NEW new \in Shape, drv' = [drv EXCEPT ![d] = new]
      PROVE  drv' \in [Driver -> Shape] /\ drv'[d] = new
  BY <1>0, <1>u
<1>2. CASE StartDrive(d)
  <2>. DEFINE new == [Stopped EXCEPT !.pc = "select", !.tick = now, !.until = now + LeaseLen]
  <2>1. drv' = [drv EXCEPT ![d] = new] /\ now' = now
    BY <1>2 DEF StartDrive, vars
  <2>2. new \in Shape
    <3>1. "select" \in PC /\ now \in Nat /\ now + LeaseLen \in Nat
      BY <1>0 DEF PC
    <3>2. ASSUME NEW s \in Shape
          PROVE  [s EXCEPT !.pc = "select", !.tick = now, !.until = now + LeaseLen] \in Shape
      BY <3>1
    <3>. QED  BY <1>1, <3>2
  <2>4. new.pc = "select" /\ new.tick = now /\ new.until = now + LeaseLen
    BY DEF Stopped
  <2>3. drv' \in [Driver -> Shape] /\ drv'[d] = new
    BY <1>u, <2>1, <2>2
  <2>. QED  BY <1>0, <2>1, <2>2, <2>3, <2>4 DEF DriverFits
<1>3. CASE Select(d)
  <2>1. PICK p \in Process :
          /\ RowClaimable(p, Stamp(d))
          /\ drv' = [drv EXCEPT ![d] =
                [@ EXCEPT !.pc = IF proc[p].status = "running" THEN "maintain" ELSE "claim",
                          !.p = p, !.seen = proc[p], !.att = 0, !.tick = Stamp(d)]]
          /\ now' = now
    BY <1>3 DEF Select, vars
  <2>2. proc[p] \in Row
    BY <1>0
  <2>3. proc[p].status = "running" => proc[p].owner \in Actor
    BY <2>1, <2>2 DEF RowClaimable, Row
  <2>. DEFINE new == [drv[d] EXCEPT
                       !.pc = IF proc[p].status = "running" THEN "maintain" ELSE "claim",
                       !.p = p, !.seen = proc[p], !.att = 0, !.tick = Stamp(d)]
  <2>4. drv' = [drv EXCEPT ![d] = new]
    BY <2>1
  <2>5. /\ new \in Shape /\ new.p = p /\ new.seen = proc[p] /\ new.tick = Stamp(d)
        /\ new.until = drv[d].until
        /\ new.pc \in {"maintain", "claim"}
        /\ new.pc = "maintain" => proc[p].status = "running"
    BY <1>0, <2>2 DEF PC
  <2>6. drv' \in [Driver -> Shape] /\ drv'[d] = new
    BY <1>u, <2>4, <2>5
  <2>. HIDE DEF new
  <2>7. drv[d].tick \in Nat /\ drv[d].until \in Nat /\ drv[d].until <= drv[d].tick + LeaseLen
    BY <1>0 DEF DriverFits
  <2>8. new.tick \in Nat /\ new.tick <= now' /\ new.until <= new.tick + LeaseLen
    BY <1>0, <2>1, <2>5, <2>7
  <2>. QED  BY <2>3, <2>5, <2>6, <2>7, <2>8 DEF DriverFits
<1>4. CASE EndDrive(d)
  BY <1>4, <1>r DEF EndDrive, Raise, vars
<1>5. CASE Maintain(d)
  <2>1. ExpiryError \in Doc /\ {"failed", "retry_wait"} \subseteq Target
    BY DocumentAssumption DEF Doc, Offered, Target
  <2>2. drv[d].pc = "maintain" /\ now' = now
    BY <1>5 DEF Maintain, vars
  <2>3. CASE Raise(d)
    BY <1>r, <2>2, <2>3 DEF Raise
  <2>4. CASE ~Raise(d)
    <3>1. PICK to \in {"failed", "retry_wait"} :
            drv' = [drv EXCEPT ![d] = [drv[d] EXCEPT !.pc = "resolve", !.data = ExpiryError,
                                                     !.to = to]]
      BY <1>5, <2>4 DEF Maintain
    <3>. DEFINE new == [drv[d] EXCEPT !.pc = "resolve", !.data = ExpiryError, !.to = to]
    <3>2. /\ new \in Shape /\ new.pc = "resolve" /\ new.to = to /\ new.data = ExpiryError
          /\ new.p = drv[d].p /\ new.seen = drv[d].seen /\ new.tick = drv[d].tick
          /\ new.until = drv[d].until
      BY <1>0, <2>1 DEF PC
    <3>3. drv' \in [Driver -> Shape] /\ drv'[d] = new
      BY <1>u, <3>1, <3>2
    <3>. HIDE DEF new
    <3>. QED  BY <1>0, <2>2, <3>2, <3>3 DEF DriverFits
  <2>. QED  BY <2>3, <2>4
<1>6. ASSUME NEW pc \in PC \ {"maintain", "resolve", "execute", "violation", "settle"},
             Goto(d, pc), now' = now, drv[d].pc \notin {"stopped", "select"}
      PROVE  drv' \in [Driver -> Shape] /\ DriverFits(d)'
  BY <1>0, <1>6 DEF Goto, DriverFits, PC
<1>7. CASE Resolve(d)
  <2>1. \/ Goto(d, "resolving") /\ now' = now
        \/ Goto(d, "resolved") /\ now' = now
        \/ Raise(d) /\ now' = now
    BY <1>7 DEF Resolve, Ask, BeginTransition, vars
  <2>2. drv[d].pc = "resolve" /\ {"resolving", "resolved"} \subseteq PC
    BY <1>7 DEF Resolve, PC
  <2>. QED  BY <1>6, <1>r, <2>1, <2>2 DEF Raise
<1>8. CASE Resolving(d) \/ Settling(d)
  <2>1. \/ Goto(d, "resolved") /\ now' = now
        \/ Goto(d, "select") /\ now' = now
        \/ Raise(d) /\ now' = now
    BY <1>8 DEF Resolving, Settling, Settled, CommitTransition, AbandonTransition
  <2>2. drv[d].pc \in {"resolving", "settling"} /\ {"resolved", "select"} \subseteq PC
    BY <1>8 DEF Resolving, Settling, PC
  <2>. QED  BY <1>6, <1>r, <2>1, <2>2 DEF Raise
<1>9. CASE Resolved(d)
  <2>1. drv[d].pc = "resolved" /\ {"select", "claim"} \subseteq PC
    BY <1>9 DEF Resolved, PC
  <2>. QED  BY <1>6, <1>9, <2>1 DEF Resolved, vars
<1>10. CASE ClaimRow(d)
  <2>1. CASE drv[d].until > Stamp(d) /\ Claimable(drv[d].p, Stamp(d))
    <3>1. /\ now' = now
          /\ drv' = [drv EXCEPT ![d].pc = "execute", ![d].tick = Stamp(d),
                                ![d].att = proc[drv[d].p].attempt + 1]
      BY <1>10, <2>1 DEF ClaimRow, ClaimProcess
    <3>2. drv[d].p \in Process /\ drv[d].pc = "claim"
      BY <1>0, <1>10 DEF ClaimRow, DriverFits
    <3>3. proc[drv[d].p].attempt + 1 \in 1..MaxAttempts[drv[d].p]
      BY <1>0, <2>1, <3>2, AttemptsAssumption DEF Claimable, Row
    <3>. DEFINE new == [drv[d] EXCEPT !.pc = "execute", !.tick = Stamp(d),
                                      !.att = proc[drv[d].p].attempt + 1]
    <3>4. /\ new \in Shape /\ new.pc = "execute" /\ new.p = drv[d].p
          /\ new.tick = Stamp(d) /\ new.until = drv[d].until
          /\ new.att = proc[drv[d].p].attempt + 1
      <4>1. proc[drv[d].p].attempt + 1 \in Nat
        BY <3>3
      <4>. QED  BY <1>0, <3>2, <4>1 DEF PC
    <3>5. drv' = [drv EXCEPT ![d] = new]
      BY <1>0, <3>1
    <3>6. drv' \in [Driver -> Shape] /\ drv'[d] = new
      BY <1>u, <3>4, <3>5
    <3>. HIDE DEF new
    <3>7. drv[d].tick \in Nat /\ drv[d].until \in Nat /\ drv[d].until <= drv[d].tick + LeaseLen
      BY <1>0 DEF DriverFits
    <3>8. new.tick \in Nat /\ new.tick <= now' /\ new.until <= new.tick + LeaseLen
      BY <1>0, <3>1, <3>4, <3>7
    <3>. QED  BY <3>2, <3>3, <3>4, <3>6, <3>7, <3>8 DEF DriverFits
  <2>2. CASE ~(drv[d].until > Stamp(d) /\ Claimable(drv[d].p, Stamp(d)))
    BY <1>10, <1>r, <2>2 DEF ClaimRow, Raise, vars
  <2>. QED  BY <2>1, <2>2
<1>11. CASE Execute(d)
  <2>0. drv[d].p \in Process /\ drv[d].att \in 1..MaxAttempts[drv[d].p] /\ drv[d].pc = "execute"
    BY <1>0, <1>11 DEF Execute, DriverFits
  <2>1. PICK outcome \in Outcome \cup {"cancelled"} :
          drv' = [drv EXCEPT ![d] =
             [drv[d] EXCEPT !.pc = AfterEffector(outcome), !.to = Verdict(d, outcome),
                    !.data = Document(d, outcome),
                    !.tick = IF outcome = "unsupported" THEN drv[d].tick ELSE Stamp(d)]]
    BY <1>11 DEF Execute
  <2>. DEFINE tick == IF outcome = "unsupported" THEN drv[d].tick ELSE Stamp(d)
  <2>9. now' = now /\ tick \in {drv[d].tick, Stamp(d)}
    BY <1>11 DEF Execute, vars
  <2>2. Verdict(d, outcome) \in Verdicts /\ Verdict(d, outcome) \in Target
    BY DEF Verdict, Verdicts, Target
  <2>3. Document(d, outcome) \in Datum /\ Document(d, outcome) \in Doc
    BY <2>0, DocumentAssumption DEF Document, Doc, Offered
  <2>4. AfterEffector(outcome) \in {"violation", "settle"}
    BY DEF AfterEffector
  <2>. DEFINE new == [drv[d] EXCEPT !.pc = AfterEffector(outcome), !.to = Verdict(d, outcome),
                                    !.data = Document(d, outcome), !.tick = tick]
  <2>5. /\ new \in Shape /\ new.pc = AfterEffector(outcome) /\ new.to = Verdict(d, outcome)
        /\ new.data = Document(d, outcome) /\ new.tick = tick
        /\ new.p = drv[d].p /\ new.att = drv[d].att /\ new.until = drv[d].until
    BY <1>0, <2>9, <2>2, <2>3, <2>4 DEF PC
  <2>6. drv' \in [Driver -> Shape] /\ drv'[d] = new
    BY <1>u, <2>1, <2>5
  <2>. HIDE DEF new
  <2>7. drv[d].tick \in Nat /\ drv[d].until \in Nat /\ drv[d].until <= drv[d].tick + LeaseLen
    BY <1>0 DEF DriverFits
  <2>8. new.tick \in Nat /\ new.tick <= now' /\ new.until <= new.tick + LeaseLen
    BY <1>0, <2>9, <2>5, <2>7
  <2>. QED  BY <2>0, <2>2, <2>3, <2>4, <2>5, <2>6, <2>7, <2>8 DEF DriverFits
<1>12. CASE RecordViolation(d)
  BY <1>0, <1>12 DEF RecordViolation, Goto, DriverFits, PC, vars
<1>13. CASE Settle(d)
  <2>1. \/ Goto(d, "settling") /\ now' = now
        \/ Goto(d, "select") /\ now' = now
        \/ Raise(d) /\ now' = now
    BY <1>13 DEF Settle, Ask, BeginTransition, vars
  <2>2. drv[d].pc = "settle" /\ {"settling", "select"} \subseteq PC
    BY <1>13 DEF Settle, PC
  <2>. QED  BY <1>6, <1>r, <2>1, <2>2 DEF Raise
<1>. QED  BY <1>2, <1>3, <1>4, <1>5, <1>7, <1>8, <1>9, <1>10, <1>11, <1>12, <1>13 DEF DriverStep

\* A driver that takes no step still fits, as the clock only goes on.
LEMMA OthersFit ==
    ASSUME DriverInv, NEW d \in Driver, drv'[d] = drv[d], now' \in {now, now + 1}
    PROVE  DriverFits(d)'
<1>1. now \in Nat /\ DriverFits(d)
  BY DEF DriverInv, IInv, TypeOK
<1>. QED  BY <1>1 DEF DriverFits

\* Every step keeps the invariant.
LEMMA DriverInduction ==
    ASSUME RoomForDrivers, DriverInv, [DriverNext]_driverVars
    PROVE  DriverInv' /\ [Next]_vars
<1>1. [Next]_vars
  <2>1. CASE UNCHANGED driverVars
    BY <2>1 DEF driverVars, vars
  <2>. QED  BY <2>1, StepImplements, OthersImplement DEF DriverNext
<1>2. IInv'
  BY <1>1, TypeInduction, LeaseInduction, CallInduction DEF DriverInv, IInv
<1>3. (now <= MaxTime)' /\ OneCallEach'
  BY <1>1, CallsInduction
<1>4. DrvShape' /\ \A d \in Driver : DriverFits(d)'
  <2>0. DrvShape
    BY DEF DriverInv
  <2>1. ASSUME NEW d \in Driver, DriverStep(d) PROVE DrvShape' /\ \A e \in Driver : DriverFits(e)'
    <3>1. now' = now /\ \A e \in Driver \ {d} : drv'[e] = drv[e]
      <4>1. drv \in [Driver -> [pc : PC, p : Process \cup {0}, seen : Row, att : Nat,
                       tick : Nat, until : Nat, to : Target \cup {"none"}, data : Doc]]
        BY <2>0 DEF DrvShape
      <4>. QED  BY <2>1, <4>1 DEF DriverStep, StartDrive, Select, EndDrive, Maintain, Resolve,
                  Resolving, Resolved, ClaimRow, Execute, RecordViolation, Settle, Settling,
                  Ask, Settled, Raise, Goto, BeginTransition, CommitTransition,
                  AbandonTransition, ClaimProcess, vars
    <3>. QED  BY <2>1, <3>1, OwnStepFits, OthersFit
  <2>2. ASSUME NEW d \in Driver, Crash(d) PROVE DrvShape' /\ \A e \in Driver : DriverFits(e)'
    <3>1. Stopped \in [pc : PC, p : Process \cup {0}, seen : Row, att : Nat,
                       tick : Nat, until : Nat, to : Target \cup {"none"}, data : Doc]
      BY DEF Stopped, PC, AbsentRow, Row, Doc, Offered
    <3>2. now' = now /\ drv' = [drv EXCEPT ![d] = Stopped]
      BY <2>2 DEF Crash, Raise
    <3>3. now \in Nat /\ LeaseLen \in Nat
      BY DriverAssumption DEF DriverInv, IInv, TypeOK
    <3>4. DriverFits(d)'
      BY <2>0, <3>2, <3>3 DEF DriverFits, Stopped, DrvShape
    <3>5. \A e \in Driver \ {d} : drv'[e] = drv[e]
      BY <2>0, <3>2 DEF DrvShape
    <3>6. DrvShape'
      BY <2>0, <3>1, <3>2 DEF DrvShape
    <3>. QED  BY <3>2, <3>4, <3>5, <3>6, OthersFit
  <2>3. CASE Submit \/ RequestCancel \/ FinishCancel \/ DriverTick \/ UNCHANGED driverVars
    <3>1. drv' = drv /\ now' \in {now, now + 1}
      BY <2>3 DEF Submit, RequestCancel, FinishCancel, DriverTick, driverVars, ScheduleProcess,
            InsertRow, BeginTransition, CommitTransition, AbandonTransition, Tick
    <3>. QED  BY <2>0, <3>1, OthersFit DEF DrvShape
  <2>. QED  BY <2>1, <2>2, <2>3 DEF DriverNext
<1>. QED  BY <1>1, <1>2, <1>3, <1>4 DEF DriverInv

\* Spec, as the drivers have it: with room for their calls, drivers that race,
\* die, answer late and retry never do what the journal offers no caller.
THEOREM DriversImplement == RoomForDrivers => (DriverSpec => Spec)
<1>. SUFFICES ASSUME RoomForDrivers PROVE DriverSpec => Spec
  OBVIOUS
<1>1. DriverInit => Init /\ DriverInv
  BY DriverInvInit DEF DriverInit
<1>2. DriverInv /\ [DriverNext]_driverVars => DriverInv' /\ [Next]_vars
  BY DriverInduction
<1>. QED  BY <1>1, <1>2, PTL DEF DriverSpec, Spec

-----------------------------------------------------------------------------
(* What one step of the drivers does to rows, log, calls and memories.     *)

\* The places where a driver holds an attempt it has claimed and not settled.
Turn == {"execute", "violation", "settle"}

\* The call that driver d hands to the journal.
Hands(d, call) ==
    /\ call.process = drv[d].p /\ call.to = drv[d].to
    /\ call.at = drv[d].tick /\ call.data = drv[d].data
    /\ \/ drv[d].pc = "settle" /\ call.actor = WorkerId[d] /\ call.due = DueOf(d)
       \/ drv[d].pc = "resolve" /\ call.actor = drv[d].seen.owner /\ call.due = drv[d].tick

\* The call that the operator hands to it.
Cancels(call) == call.to = "cancel_requested" /\ call.data = NoDatum

\* A call that has read its row in this step.
Begun(call) ==
    /\ call.process \in Process /\ call.seen = proc[call.process]
    /\ Legal(call.process, call.seen, call.to, call.actor)
    /\ (\E d \in Driver : Hands(d, call)) \/ Cancels(call)
    /\ UNCHANGED <<now, proc, log, violations>>

\* The row p after a step.
RowGoes(p) ==
    \/ proc'[p] = proc[p]
    \/ /\ proc[p].status = "absent"
       /\ proc'[p] = [AbsentRow EXCEPT !.status = "ready", !.due = now, !.created = now]
    \/ \E d \in Driver :
          /\ drv[d].pc = "claim" /\ drv[d].p = p /\ Claimable(p, Stamp(d))
          /\ proc'[p] = ClaimedRow(proc[p], WorkerId[d], drv[d].until)
          /\ UNCHANGED now
    \/ \E call \in inflight :
          /\ call.process = p /\ Unchanged(p, call.seen)
          /\ proc'[p] = MovedRow(proc[p], call.to, call.data, call.due)
          /\ UNCHANGED now

\* The entry e, written in this step.
Written(e) ==
    \/ e.type = "schedule" /\ e.data = NoDatum
    \/ \E d \in Driver :
          e.type = "claim" /\ e.data = NoDatum /\ e.process = drv[d].p
    \/ \E call \in inflight :
          /\ Unchanged(call.process, call.seen)
          /\ proc'[call.process] =
                MovedRow(proc[call.process], call.to, call.data, call.due)
          /\ e.type = call.to /\ e.process = call.process /\ e.at = call.at
          /\ e.attempt = call.seen.attempt
          /\ e.data = RecordedData(call.seen, call.to, call.data)
          /\ e.until = IF call.to = "retry_wait" THEN call.due ELSE 0

\* What driver d remembers after a step.
MemoryGoes(d) ==
    \/ drv'[d] = drv[d]
    \/ /\ drv'[d].pc \notin Turn \cup {"maintain", "resolve"}
       /\ \/ drv'[d].att = 0
          \/ drv'[d].att = drv[d].att /\ drv'[d].p = drv[d].p
    \/ /\ drv[d].pc = "select" /\ drv'[d].pc = "maintain" /\ drv'[d].att = 0
       /\ drv'[d].p \in Process /\ drv'[d].seen = proc[drv'[d].p]
       /\ UNCHANGED proc
    \/ /\ drv[d].pc = "maintain" /\ drv'[d].pc = "resolve"
       /\ drv'[d].p = drv[d].p /\ drv'[d].att = drv[d].att
       /\ drv'[d].to = "failed" \/ drv[d].p \in RetryAllowed
       /\ drv'[d].to = "failed" =>
             proc[drv[d].p].attempt >= MaxAttempts[drv[d].p] \/ drv[d].p \notin RetryAllowed
       /\ UNCHANGED proc
    \/ /\ drv[d].pc = "claim" /\ drv'[d].pc = "execute" /\ drv'[d].p = drv[d].p
       /\ drv'[d].att = proc[drv[d].p].attempt + 1 /\ drv'[d].tick = Stamp(d)
       /\ proc'[drv[d].p] = ClaimedRow(proc[drv[d].p], WorkerId[d], drv[d].until)
       /\ UNCHANGED now
    \/ /\ drv[d].pc = "execute" /\ drv'[d].p = drv[d].p /\ drv'[d].att = drv[d].att
       /\ drv'[d].tick \in {drv[d].tick, Stamp(d)}
       /\ \E outcome \in Outcome \cup {"cancelled"} :
             /\ drv'[d].pc = AfterEffector(outcome)
             /\ drv'[d].to = Verdict(d, outcome) /\ drv'[d].data = Document(d, outcome)
       /\ UNCHANGED proc
    \/ /\ drv[d].pc = "violation" /\ drv'[d].pc = "settle"
       /\ drv'[d].p = drv[d].p /\ drv'[d].att = drv[d].att /\ drv'[d].tick = drv[d].tick
       /\ drv'[d].to = drv[d].to /\ drv'[d].data = drv[d].data
       /\ <<drv[d].p, drv[d].att>> \in violations'
       /\ UNCHANGED proc

\* The rows and the log after a step.
TablesGo ==
    /\ \A p \in Process : RowGoes(p)
    /\ \A k \in DOMAIN log' : (k \in DOMAIN log /\ log'[k] = log[k]) \/ Written(log'[k])
    /\ now' \in {now, now + 1}

\* The calls in flight after a step.
CallsGo == \A call \in inflight' : call \in inflight \/ Begun(call)

\* Everything a step does, by table and by actor.
DriverMoves ==
    /\ TablesGo /\ CallsGo
    /\ \A d \in Driver : MemoryGoes(d)
    /\ violations \subseteq violations'

\* A step that only reads moves no table.
LEMMA ReadGoes ==
    ASSUME UNCHANGED <<proc, log, inflight>>, now' \in {now, now + 1}
    PROVE  TablesGo /\ CallsGo
BY DEF TablesGo, CallsGo, RowGoes

\* One entry appended: the old ones stay, and the last is the new one.
LEMMA EntryGoes ==
    ASSUME TypeOK, NEW e \in Entry, log' = Append(log, e), Written(e)
    PROVE  \A k \in DOMAIN log' : (k \in DOMAIN log /\ log'[k] = log[k]) \/ Written(log'[k])
<1>1. LogGrows /\ Appended = {Len(log) + 1} /\ log'[Len(log) + 1] = e
  BY OneEntry DEF TypeOK
<1>. QED  BY <1>1 DEF LogGrows, Appended

\* schedule_process inserts a ready row with its event.
LEMMA SubmitGoes ==
    ASSUME TypeOK, NEW p \in Process, ScheduleProcess(p, now, now)
    PROVE  TablesGo /\ CallsGo
<1>1. PICK key \in {ScheduleKey(p)} \cup ClientKey : InsertRow(p, "ready", now, now, "schedule", key)
  BY DEF ScheduleProcess
<1>. DEFINE e == [key |-> key, type |-> "schedule", to |-> "ready",
                  process |-> p, attempt |-> 0, actor |-> NoActor,
                  at |-> now, data |-> NoDatum, until |-> 0]
<1>2. /\ proc[p].status = "absent" /\ log' = Append(log, e)
      /\ proc' = [proc EXCEPT ![p] = [AbsentRow EXCEPT !.status = "ready", !.due = now,
                                                        !.created = now]]
      /\ UNCHANGED <<now, inflight>>
  BY <1>1 DEF InsertRow
<1>3. e \in Entry
  BY DEF TypeOK, Entry, DefaultKey, ScheduleKey, Doc, Offered, Status, OpenStatus
<1>4. Written(e)
  BY DEF Written
<1>5. \A q \in Process : RowGoes(q)
  BY <1>2 DEF RowGoes, TypeOK
<1>. QED  BY <1>2, <1>3, <1>4, <1>5, EntryGoes DEF TablesGo, CallsGo

\* claim_process takes the row over, with its event.
LEMMA ClaimGoes ==
    ASSUME RoomForDrivers, DriverInv, NEW d \in Driver, drv[d].pc = "claim",
           ClaimProcess(drv[d].p, WorkerId[d], Stamp(d), drv[d].until)
    PROVE  /\ TablesGo /\ CallsGo
           /\ proc'[drv[d].p] = ClaimedRow(proc[drv[d].p], WorkerId[d], drv[d].until)
<1>. DEFINE p == drv[d].p
<1>1. /\ p \in Process /\ WorkerId[d] \in Actor /\ drv[d].until \in Nat /\ Stamp(d) \in Nat
      /\ TypeOK
  BY StampReading, DriverAssumption DEF DriverInv, DriverFits, IInv
<1>2. PICK key \in ClaimKeys(p) :
         log' = Append(log, ClaimEntry(p, WorkerId[d], Stamp(d), drv[d].until, key))
  BY DEF ClaimProcess
<1>. DEFINE e == ClaimEntry(p, WorkerId[d], Stamp(d), drv[d].until, key)
<1>3. e \in Entry
  BY <1>1, EntryTypes
<1>4. Written(e)
  BY DEF Written, ClaimEntry
<1>5. /\ Claimable(p, Stamp(d)) /\ UNCHANGED <<now, inflight>>
      /\ proc' = [proc EXCEPT ![p] = ClaimedRow(proc[p], WorkerId[d], drv[d].until)]
  BY DEF ClaimProcess
<1>6. \A q \in Process : RowGoes(q)
  BY <1>1, <1>5 DEF RowGoes, TypeOK
<1>7. proc'[p] = ClaimedRow(proc[p], WorkerId[d], drv[d].until)
  BY <1>1, <1>5 DEF TypeOK
<1>. HIDE DEF e
<1>8. \A k \in DOMAIN log' : (k \in DOMAIN log /\ log'[k] = log[k]) \/ Written(log'[k])
  BY <1>1, <1>2, <1>3, <1>4, EntryGoes DEF e
<1>. QED  BY <1>5, <1>6, <1>7, <1>8 DEF TablesGo, CallsGo

\* The transaction of a call moves the row it read, with its event.
LEMMA CommitGoes ==
    ASSUME DriverInv, NEW call \in inflight, CommitTransition(call)
    PROVE  TablesGo /\ CallsGo
<1>1. call \in Calls /\ TypeOK /\ call.process \in Process
  BY DEF DriverInv, IInv, TypeOK, Calls
<1>. DEFINE e ==
       [key |-> call.key, type |-> call.to, to |-> call.to, process |-> call.process,
        attempt |-> call.seen.attempt, actor |-> call.actor, at |-> call.at,
        data |-> RecordedData(call.seen, call.to, call.data),
        until |-> IF call.to = "retry_wait" THEN call.due ELSE 0]
<1>2. /\ log' = Append(log, e) /\ Unchanged(call.process, call.seen)
      /\ proc' = [proc EXCEPT ![call.process] =
                     MovedRow(proc[call.process], call.to, call.data, call.due)]
      /\ inflight' \subseteq inflight /\ UNCHANGED now
  BY DEF CommitTransition
<1>3. proc'[call.process] = MovedRow(proc[call.process], call.to, call.data, call.due)
  BY <1>1, <1>2 DEF TypeOK
<1>4. e \in Entry
  <2>1. /\ call.to \in Target /\ call.actor \in Actor /\ call.at \in Nat /\ call.due \in Nat
        /\ call.key \in DefaultKey \cup ClientKey /\ call.seen.attempt \in Nat
        /\ call.data \in Doc /\ call.seen.error \in Doc
    BY <1>1 DEF Calls, Row
  <2>2. call.to \in Status
    BY <2>1 DEF Target, Status, OpenStatus, TerminalStatus
  <2>3. RecordedData(call.seen, call.to, call.data) \in Doc
    BY <2>1 DEF RecordedData
  <2>. HIDE DEF Target, DefaultKey
  <2>. QED  BY <1>1, <2>1, <2>2, <2>3 DEF Entry
<1>5. Written(e)
  BY <1>2, <1>3 DEF Written
<1>6. \A q \in Process : RowGoes(q)
  BY <1>1, <1>2 DEF RowGoes, TypeOK
<1>. HIDE DEF e
<1>7. \A k \in DOMAIN log' : (k \in DOMAIN log /\ log'[k] = log[k]) \/ Written(log'[k])
  BY <1>1, <1>2, <1>4, <1>5, EntryGoes
<1>. QED  BY <1>2, <1>6, <1>7 DEF TablesGo, CallsGo

\* A call that ends without its transaction moves nothing.
LEMMA AbandonGoes ==
    ASSUME NEW call \in inflight, AbandonTransition(call)
    PROVE  TablesGo /\ CallsGo
BY DEF AbandonTransition, TablesGo, CallsGo, RowGoes

\* A driver that asks for what it remembers begins a call of its own, or none.
LEMMA AskGoes ==
    ASSUME NEW d \in Driver, drv[d].p \in Process, NEW actor, NEW due, NEW pending, NEW answered,
           \/ drv[d].pc = "settle" /\ actor = WorkerId[d] /\ due = DueOf(d)
           \/ drv[d].pc = "resolve" /\ actor = drv[d].seen.owner /\ due = drv[d].tick,
           Ask(d, drv[d].p, drv[d].to, actor, drv[d].tick, drv[d].data, due, pending, answered),
           UNCHANGED violations
    PROVE  /\ TablesGo /\ CallsGo
           /\ Raise(d) \/ Goto(d, pending) \/ Goto(d, answered)
<1>. DEFINE key == TransitionKey(drv[d].p, drv[d].to, drv[d].tick)
<1>1. CASE UNCHANGED vars
  BY <1>1, ReadGoes DEF Ask, vars
<1>2. CASE /\ BeginTransition(d, drv[d].p, drv[d].to, actor, drv[d].tick, drv[d].data, due, key)
           /\ Goto(d, pending)
  <2>1. UNCHANGED <<now, proc, log>>
    BY <1>2 DEF BeginTransition
  <2>2. ASSUME NEW call \in inflight', call \notin inflight
        PROVE  Begun(call)
    <3>1. /\ Legal(drv[d].p, proc[drv[d].p], drv[d].to, actor)
          /\ call = [client |-> d, process |-> drv[d].p, to |-> drv[d].to, actor |-> actor,
                     at |-> drv[d].tick, data |-> drv[d].data, due |-> due, key |-> key,
                     seen |-> proc[drv[d].p]]
      BY <1>2, <2>2 DEF BeginTransition
    <3>2. Hands(d, call)
      BY <3>1 DEF Hands
    <3>. QED  BY <2>1, <3>1, <3>2 DEF Begun
  <2>. QED  BY <1>2, <2>1, <2>2 DEF TablesGo, CallsGo, RowGoes
<1>. QED  BY <1>1, <1>2 DEF Ask

\* A driver that lays down what it held, or goes where it holds nothing.
LEMMA LeavesTurn ==
    ASSUME DriverInv, NEW d \in Driver,
           \/ Raise(d)
           \/ Goto(d, "select") \/ Goto(d, "claim")
           \/ Goto(d, "resolving") \/ Goto(d, "resolved") \/ Goto(d, "settling")
    PROVE  MemoryGoes(d)
<1>1. d \in DOMAIN drv
  BY DEF DriverInv, DrvShape
<1>2. CASE Raise(d)
  BY <1>1, <1>2 DEF Raise, Stopped, MemoryGoes, Turn
<1>3. ASSUME NEW pc, Goto(d, pc), pc \notin Turn \cup {"maintain", "resolve"}
      PROVE  MemoryGoes(d)
  <2>1. drv'[d].pc = pc /\ drv'[d].att = drv[d].att /\ drv'[d].p = drv[d].p
    <3>1. drv'[d] = [drv[d] EXCEPT !.pc = pc] /\ "pc" \in DOMAIN drv[d]
      BY <1>1, <1>3 DEF Goto, DriverInv, DrvShape
    <3>. QED  BY <3>1
  <2>. QED  BY <1>3, <2>1 DEF MemoryGoes
<1>. QED  BY <1>2, <1>3 DEF Turn

\* What a driver's step does to the tables, the calls and its own memory.
LEMMA OwnStepGoes ==
    ASSUME RoomForDrivers, DriverInv, NEW d \in Driver, DriverStep(d)
    PROVE  TablesGo /\ CallsGo /\ MemoryGoes(d) /\ violations \subseteq violations'
<1>0. /\ DriverFits(d) /\ DrvShape /\ d \in DOMAIN drv /\ drv[d] \in
            [pc : PC, p : Process \cup {0}, seen : Row, att : Nat,
             tick : Nat, until : Nat, to : Target \cup {"none"}, data : Doc]
  BY DEF DriverInv, DrvShape
<1>q. ASSUME UNCHANGED vars PROVE TablesGo /\ CallsGo
  BY <1>q, ReadGoes DEF vars
<1>1. CASE StartDrive(d)
  <2>1. drv'[d] = [Stopped EXCEPT !.pc = "select", !.tick = now, !.until = now + LeaseLen]
    BY <1>0, <1>1 DEF StartDrive
  <2>2. drv'[d].pc = "select" /\ drv'[d].att = 0
    BY <2>1 DEF Stopped
  <2>. QED  BY <1>1, <1>q, <2>2 DEF StartDrive, MemoryGoes, Turn
<1>2. CASE Select(d)
  <2>1. PICK p \in Process :
          drv'[d] = [drv[d] EXCEPT
             !.pc = IF proc[p].status = "running" THEN "maintain" ELSE "claim",
             !.p = p, !.seen = proc[p], !.att = 0, !.tick = Stamp(d)]
    BY <1>0, <1>2 DEF Select
  <2>2. /\ drv'[d].pc \in {"maintain", "claim"} /\ drv'[d].p = p /\ drv'[d].seen = proc[p]
        /\ drv'[d].att = 0
    BY <1>0, <2>1
  <2>. QED  BY <1>2, <1>q, <2>2 DEF Select, MemoryGoes, Turn, vars
<1>3. CASE EndDrive(d)
  BY <1>3, <1>q, LeavesTurn DEF EndDrive
<1>4. CASE Maintain(d)
  <2>1. CASE Raise(d)
    BY <1>4, <1>q, <2>1, LeavesTurn DEF Maintain
  <2>2. CASE ~Raise(d)
    <3>. DEFINE over == proc[drv[d].p].attempt >= MaxAttempts[drv[d].p]
                        \/ drv[d].p \notin RetryAllowed
    <3>1. drv'[d] = [drv[d] EXCEPT !.pc = "resolve", !.data = ExpiryError,
                                   !.to = IF over THEN "failed" ELSE "retry_wait"]
      BY <1>0, <1>4, <2>2 DEF Maintain
    <3>2. /\ drv'[d].pc = "resolve" /\ drv'[d].p = drv[d].p /\ drv'[d].att = drv[d].att
          /\ drv'[d].to = IF over THEN "failed" ELSE "retry_wait"
      BY <1>0, <3>1
    <3>. QED  BY <1>4, <1>q, <3>2 DEF Maintain, MemoryGoes, vars
  <2>. QED  BY <2>1, <2>2
<1>5. CASE Resolve(d)
  <2>1. /\ drv[d].p \in Process /\ drv[d].pc = "resolve" /\ UNCHANGED violations
        /\ Ask(d, drv[d].p, drv[d].to, drv[d].seen.owner, drv[d].tick, drv[d].data,
               drv[d].tick, "resolving", "resolved")
    BY <1>0, <1>5 DEF Resolve, DriverFits
  <2>2. TablesGo /\ CallsGo /\ (Raise(d) \/ Goto(d, "resolving") \/ Goto(d, "resolved"))
    BY <2>1, AskGoes
  <2>. QED  BY <2>1, <2>2, LeavesTurn
<1>6. CASE Resolving(d) \/ Settling(d)
  <2>1. /\ UNCHANGED violations
        /\ Raise(d) \/ Goto(d, "resolved") \/ Goto(d, "select")
        /\ \E call \in inflight : CommitTransition(call) \/ AbandonTransition(call)
    BY <1>6 DEF Resolving, Settling, Settled, InFlight
  <2>. QED  BY <2>1, LeavesTurn, CommitGoes, AbandonGoes
<1>7. CASE Resolved(d)
  <2>1. Goto(d, "select") \/ Goto(d, "claim")
    BY <1>7 DEF Resolved
  <2>. QED  BY <1>7, <1>q, <2>1, LeavesTurn DEF Resolved
<1>8. CASE ClaimRow(d)
  <2>1. CASE Raise(d) /\ UNCHANGED vars
    BY <1>8, <1>q, <2>1, LeavesTurn DEF ClaimRow
  <2>2. CASE ~(Raise(d) /\ UNCHANGED vars)
    <3>1. /\ drv[d].pc = "claim" /\ UNCHANGED violations
          /\ ClaimProcess(drv[d].p, WorkerId[d], Stamp(d), drv[d].until)
          /\ drv' = [drv EXCEPT ![d].pc = "execute", ![d].tick = Stamp(d),
                                ![d].att = proc[drv[d].p].attempt + 1]
      BY <1>8, <2>2 DEF ClaimRow
    <3>2. /\ TablesGo /\ CallsGo /\ UNCHANGED now
          /\ proc'[drv[d].p] = ClaimedRow(proc[drv[d].p], WorkerId[d], drv[d].until)
      BY <3>1, ClaimGoes DEF ClaimProcess
    <3>3. /\ drv'[d].pc = "execute" /\ drv'[d].p = drv[d].p /\ drv'[d].tick = Stamp(d)
          /\ drv'[d].att = proc[drv[d].p].attempt + 1
      <4>1. drv'[d] = [drv[d] EXCEPT !.pc = "execute", !.tick = Stamp(d),
                                     !.att = proc[drv[d].p].attempt + 1]
        BY <1>0, <3>1
      <4>. QED  BY <1>0, <4>1
    <3>. QED  BY <3>1, <3>2, <3>3 DEF MemoryGoes
  <2>. QED  BY <2>1, <2>2
<1>9. CASE Execute(d)
  <2>1. PICK outcome \in Outcome \cup {"cancelled"} :
          drv'[d] = [drv[d] EXCEPT !.pc = AfterEffector(outcome), !.to = Verdict(d, outcome),
                    !.data = Document(d, outcome),
                    !.tick = IF outcome = "unsupported" THEN drv[d].tick ELSE Stamp(d)]
    BY <1>0, <1>9 DEF Execute
  <2>2. /\ drv'[d].pc = AfterEffector(outcome) /\ drv'[d].to = Verdict(d, outcome)
        /\ drv'[d].data = Document(d, outcome) /\ drv'[d].p = drv[d].p
        /\ drv'[d].att = drv[d].att /\ drv'[d].tick \in {drv[d].tick, Stamp(d)}
    BY <1>0, <2>1
  <2>. QED  BY <1>9, <1>q, <2>2 DEF Execute, MemoryGoes, vars
<1>10. CASE RecordViolation(d)
  <2>1. /\ drv[d].pc = "violation" /\ drv'[d] = [drv[d] EXCEPT !.pc = "settle"]
        /\ violations' = violations \cup {<<drv[d].p, drv[d].att>>} /\ UNCHANGED vars
    BY <1>0, <1>10 DEF RecordViolation, Goto
  <2>2. /\ drv'[d].pc = "settle" /\ drv'[d].p = drv[d].p /\ drv'[d].att = drv[d].att
        /\ drv'[d].tick = drv[d].tick /\ drv'[d].to = drv[d].to /\ drv'[d].data = drv[d].data
    BY <1>0, <2>1
  <2>. QED  BY <1>q, <2>1, <2>2 DEF MemoryGoes, vars
<1>11. CASE Settle(d)
  <2>0. drv[d].p \in Process /\ drv[d].pc = "settle" /\ UNCHANGED violations
    BY <1>0, <1>11 DEF Settle, DriverFits
  <2>1. CASE Goto(d, "select") /\ UNCHANGED vars
    BY <1>q, <2>0, <2>1, LeavesTurn
  <2>2. CASE Ask(d, drv[d].p, drv[d].to, WorkerId[d], drv[d].tick, drv[d].data,
                 DueOf(d), "settling", "select")
    <3>1. TablesGo /\ CallsGo /\ (Raise(d) \/ Goto(d, "settling") \/ Goto(d, "select"))
      BY <2>0, <2>2, AskGoes
    <3>. QED  BY <2>0, <3>1, LeavesTurn
  <2>. QED  BY <1>11, <2>1, <2>2 DEF Settle
<1>. QED  BY <1>1, <1>2, <1>3, <1>4, <1>5, <1>6, <1>7, <1>8, <1>9, <1>10, <1>11 DEF DriverStep

\* Every step moves what DriverMoves lets it.
LEMMA EveryStepGoes ==
    ASSUME RoomForDrivers, DriverInv, [DriverNext]_driverVars
    PROVE  DriverMoves
<1>0. DrvShape /\ TypeOK
  BY DEF DriverInv, IInv
<1>s. ASSUME drv' = drv PROVE \A d \in Driver : MemoryGoes(d)
  BY <1>s DEF MemoryGoes
<1>1. ASSUME NEW d \in Driver, DriverStep(d) PROVE DriverMoves
  <2>1. \A e \in Driver \ {d} : drv'[e] = drv[e]
    <3>1. drv \in [Driver -> [pc : PC, p : Process \cup {0}, seen : Row, att : Nat,
                     tick : Nat, until : Nat, to : Target \cup {"none"}, data : Doc]]
      BY <1>0 DEF DrvShape
    <3>. QED  BY <1>1, <3>1 DEF DriverStep, StartDrive, Select, EndDrive, Maintain, Resolve,
                Resolving, Resolved, ClaimRow, Execute, RecordViolation, Settle, Settling,
                Ask, Settled, Raise, Goto
  <2>2. \A e \in Driver \ {d} : MemoryGoes(e)
    BY <2>1 DEF MemoryGoes
  <2>. QED  BY <1>1, <2>2, OwnStepGoes DEF DriverMoves
<1>2. ASSUME NEW d \in Driver, Crash(d) PROVE DriverMoves
  <2>1. Raise(d) /\ UNCHANGED <<now, proc, log, violations>> /\ inflight' \subseteq inflight
    BY <1>2 DEF Crash
  <2>2. \A e \in Driver \ {d} : drv'[e] = drv[e]
    BY <1>0, <2>1 DEF Raise, DrvShape
  <2>3. \A e \in Driver : MemoryGoes(e)
    BY <2>1, <2>2, LeavesTurn DEF MemoryGoes
  <2>. QED  BY <2>1, <2>3 DEF DriverMoves, TablesGo, CallsGo, RowGoes
<1>3. CASE Submit
  BY <1>0, <1>3, <1>s, SubmitGoes DEF Submit, DriverMoves
<1>4. CASE RequestCancel
  <2>1. PICK p \in Process :
           BeginTransition(Operator, p, "cancel_requested", Operator, now, NoDatum, now,
                           TransitionKey(p, "cancel_requested", now))
    BY <1>4, DriverAssumption DEF RequestCancel
  <2>2. UNCHANGED <<now, proc, log, drv, violations>>
    BY <1>4, <2>1 DEF RequestCancel, BeginTransition
  <2>3. ASSUME NEW call \in inflight', call \notin inflight
        PROVE  Begun(call)
    <3>1. /\ Legal(p, proc[p], "cancel_requested", Operator)
          /\ call.process = p /\ call.seen = proc[p] /\ call.actor = Operator
          /\ call.to = "cancel_requested" /\ call.data = NoDatum
      BY <2>1, <2>3 DEF BeginTransition
    <3>. QED  BY <2>2, <3>1 DEF Begun, Cancels
  <2>. QED  BY <1>s, <2>2, <2>3 DEF DriverMoves, TablesGo, CallsGo, RowGoes
<1>5. CASE FinishCancel
  BY <1>5, <1>s, CommitGoes, AbandonGoes DEF FinishCancel, InFlight, DriverMoves
<1>6. CASE DriverTick
  BY <1>6, <1>s, ReadGoes DEF DriverTick, Tick, DriverMoves
<1>7. CASE UNCHANGED driverVars
  BY <1>7, <1>s, ReadGoes DEF driverVars, DriverMoves
<1>. QED  BY <1>1, <1>2, <1>3, <1>4, <1>5, <1>6, <1>7 DEF DriverNext

-----------------------------------------------------------------------------
(* "claim -> ask -> record under one worker lease".                        *)

\* Every driver was given a name of its own.
OwnNames == \A d, e \in Driver : WorkerId[d] = WorkerId[e] => d = e

\* No driver parks a process or leaves it pending.
NeverWaits ==
    /\ \A p \in Process : proc[p].status # "waiting"
    /\ \A call \in inflight : call.to \in Verdicts \cup {"cancel_requested"}

\* A row that is leased in a driver's name while it holds an attempt of the row
\* is at that attempt.
OwnTurn ==
    \A d \in Driver :
        drv[d].pc \in Turn /\ proc[drv[d].p].owner = WorkerId[d] =>
            proc[drv[d].p].attempt = drv[d].att

\* The success that is asked for is the answer of the attempt it ends.
OwnAnswer ==
    /\ \A d \in Driver :
          drv[d].pc \in {"violation", "settle"} /\ drv[d].to = "succeeded" =>
              drv[d].data = drv[d].att
    /\ \A call \in inflight : call.to = "succeeded" => call.data = call.seen.attempt

AnswerInv == NeverWaits /\ OwnTurn /\ OwnAnswer /\ ResultOfOwnAttempt

\* No driver asks to park, so no row waits.
LEMMA NeverWaitsKept ==
    ASSUME DriverInv, NeverWaits, DriverMoves
    PROVE  NeverWaits'
<1>1. ASSUME NEW p \in Process PROVE proc'[p].status # "waiting"
  <2>1. proc[p] \in Row /\ proc[p].status # "waiting" /\ RowGoes(p)
    BY DEF DriverInv, IInv, TypeOK, NeverWaits, DriverMoves, TablesGo
  <2>2. ASSUME NEW d \in Driver, proc'[p] = ClaimedRow(proc[p], WorkerId[d], drv[d].until)
        PROVE  proc'[p].status # "waiting"
    BY <2>1, <2>2 DEF ClaimedRow, Row
  <2>3. ASSUME NEW call \in inflight, proc'[p] = MovedRow(proc[p], call.to, call.data, call.due)
        PROVE  proc'[p].status # "waiting"
    <3>1. proc'[p].status = call.to
      BY <2>1, <2>3 DEF MovedRow, Row
    <3>. QED  BY <2>3, <3>1 DEF NeverWaits, Verdicts
  <2>4. [AbsentRow EXCEPT !.status = "ready", !.due = now, !.created = now].status = "ready"
    BY DEF AbsentRow
  <2>. QED  BY <2>1, <2>2, <2>3, <2>4 DEF RowGoes
<1>2. ASSUME NEW call \in inflight' PROVE call.to \in Verdicts \cup {"cancel_requested"}
  <2>1. CASE call \in inflight
    BY <2>1 DEF NeverWaits
  <2>2. ASSUME NEW d \in Driver, Hands(d, call)
        PROVE  call.to \in Verdicts
    BY <2>2 DEF Hands, DriverInv, DriverFits, Verdicts
  <2>. QED  BY <1>2, <2>1, <2>2 DEF DriverMoves, CallsGo, Begun, Cancels
<1>. QED  BY <1>1, <1>2 DEF NeverWaits

\* A move or an insertion leaves the row to nobody, and only a driver itself
\* claims in its name.
LEMMA OwnTurnKept ==
    ASSUME OwnNames, DriverInv, OwnTurn, DriverMoves
    PROVE  OwnTurn'
<1>. SUFFICES ASSUME NEW d \in Driver, drv'[d].pc \in Turn,
                     proc'[drv'[d].p].owner = WorkerId[d]
              PROVE  proc'[drv'[d].p].attempt = drv'[d].att
  BY DEF OwnTurn
<1>. DEFINE p == drv[d].p
<1>0. /\ MemoryGoes(d) /\ DriverFits(d) /\ proc \in [Process -> Row]
      /\ WorkerId \in [Driver -> Actor] /\ NoActor \notin Actor
      /\ LeasedWhileRunning
  BY DriverAssumption, ActorAssumption DEF DriverMoves, DriverInv, IInv, TypeOK
<1>1. CASE drv'[d] = drv[d]
  <2>1. p \in Process /\ RowGoes(p) /\ proc[p] \in Row
    BY <1>0, <1>1 DEF DriverFits, Turn, DriverMoves, TablesGo
  <2>2. CASE proc'[p] = proc[p]
    BY <1>1, <2>2 DEF OwnTurn
  <2>3. CASE proc'[p] = [AbsentRow EXCEPT !.status = "ready", !.due = now, !.created = now]
    <3>1. proc'[p].owner = NoActor
      BY <2>3 DEF AbsentRow
    <3>. QED  BY <1>0, <1>1, <3>1
  <2>4. ASSUME NEW e \in Driver, drv[e].pc = "claim",
               proc'[p] = ClaimedRow(proc[p], WorkerId[e], drv[e].until)
        PROVE  FALSE
    <3>1. proc'[p].owner = WorkerId[e]
      BY <2>1, <2>4 DEF ClaimedRow, Row
    <3>. QED  BY <1>1, <2>4, <3>1 DEF OwnNames, Turn
  <2>5. ASSUME NEW call \in inflight,
               proc'[p] = MovedRow(proc[p], call.to, call.data, call.due)
        PROVE  FALSE
    <3>1. proc'[p].owner = NoActor
      BY <2>1, <2>5 DEF MovedRow, Row
    <3>. QED  BY <1>0, <1>1, <3>1
  <2>. QED  BY <2>1, <2>2, <2>3, <2>4, <2>5 DEF RowGoes
<1>2. CASE /\ drv[d].pc = "claim" /\ drv'[d].p = p
           /\ drv'[d].att = proc[p].attempt + 1
           /\ proc'[p] = ClaimedRow(proc[p], WorkerId[d], drv[d].until)
  <2>1. proc[p] \in Row
    BY <1>0, <1>2 DEF DriverFits
  <2>. QED  BY <1>2, <2>1 DEF ClaimedRow, Row
<1>3. CASE /\ drv[d].pc \in {"execute", "violation"} /\ drv'[d].p = p
           /\ drv'[d].att = drv[d].att /\ UNCHANGED proc
  BY <1>3 DEF OwnTurn, Turn
<1>. QED  BY <1>0, <1>1, <1>2, <1>3 DEF MemoryGoes, Turn

\* A success is asked for only by drive_once, from a row that runs in the
\* driver's name.
LEMMA OwnAnswerKept ==
    ASSUME DriverInv, NeverWaits, OwnTurn, OwnAnswer, DriverMoves
    PROVE  OwnAnswer'
<1>1. ASSUME NEW d \in Driver, drv'[d].pc \in {"violation", "settle"}, drv'[d].to = "succeeded"
      PROVE  drv'[d].data = drv'[d].att
  <2>1. MemoryGoes(d)
    BY DEF DriverMoves
  <2>2. CASE drv'[d] = drv[d]
    BY <1>1, <2>2 DEF OwnAnswer
  <2>3. ASSUME NEW outcome, drv'[d].to = Verdict(d, outcome), drv'[d].data = Document(d, outcome),
               drv'[d].att = drv[d].att
        PROVE  drv'[d].data = drv'[d].att
    <3>1. outcome = "success"
      BY <1>1, <2>3 DEF Verdict
    <3>. QED  BY <2>3, <3>1 DEF Document
  <2>4. CASE /\ drv[d].pc = "violation" /\ drv'[d].att = drv[d].att
             /\ drv'[d].to = drv[d].to /\ drv'[d].data = drv[d].data
    BY <1>1, <2>4 DEF OwnAnswer
  <2>. QED  BY <1>1, <2>1, <2>2, <2>3, <2>4 DEF MemoryGoes, Turn
<1>2. ASSUME NEW call \in inflight', call.to = "succeeded"
      PROVE  call.data = call.seen.attempt
  <2>1. CASE call \in inflight
    BY <1>2, <2>1 DEF OwnAnswer
  <2>2. ASSUME Begun(call), NEW d \in Driver, Hands(d, call)
        PROVE  call.data = call.seen.attempt
    <3>1. drv[d].pc = "settle" /\ call.actor = WorkerId[d] /\ DriverFits(d)
      BY <1>2, <2>2 DEF Hands, DriverInv, DriverFits
    <3>2. call.process \in Process /\ call.process = drv[d].p /\ call.seen = proc[drv[d].p]
      BY <2>2 DEF Begun, Hands
    <3>3. /\ CanTransition(call.seen.status, "succeeded")
          /\ OwnedBy(call.seen, WorkerId[d])
      BY <1>2, <2>2, <3>1 DEF Begun, Legal
    <3>4. call.seen.status = "running"
      <4>1. call.seen.status \in {"running", "waiting"}
        BY <3>3 DEF CanTransition, OwnTargets, OpenStatus
      <4>. QED  BY <3>2, <4>1 DEF NeverWaits
    <3>5. proc[drv[d].p].owner = WorkerId[d]
      BY <3>2, <3>3, <3>4 DEF OwnedBy, DriverInv, IInv, LeasedWhileRunning
    <3>. QED  BY <1>2, <2>2, <3>1, <3>2, <3>5 DEF Hands, OwnTurn, OwnAnswer, Turn
  <2>. QED  BY <1>2, <2>1, <2>2 DEF DriverMoves, CallsGo, Begun, Cancels
<1>. QED  BY <1>1, <1>2 DEF OwnAnswer

\* What the transaction writes is what the call was begun with.
LEMMA ResultKept ==
    ASSUME OwnAnswer, ResultOfOwnAttempt, DriverMoves
    PROVE  ResultOfOwnAttempt'
<1>. SUFFICES ASSUME NEW k \in DOMAIN log', log'[k].type = "succeeded"
              PROVE  log'[k].data = log'[k].attempt
  BY DEF ResultOfOwnAttempt
<1>1. CASE k \in DOMAIN log /\ log'[k] = log[k]
  BY <1>1 DEF ResultOfOwnAttempt
<1>2. CASE Written(log'[k])
  BY <1>2 DEF Written, OwnAnswer, RecordedData
<1>. QED  BY <1>1, <1>2 DEF DriverMoves, TablesGo

\* An answer that comes late is never recorded for a later attempt: the success
\* of an attempt carries the answer of its own execution, provided that drivers
\* work under names of their own.
THEOREM ResultsAreOwn == RoomForDrivers /\ OwnNames => (DriverSpec => []ResultOfOwnAttempt)
<1>. SUFFICES ASSUME RoomForDrivers, OwnNames PROVE DriverSpec => []ResultOfOwnAttempt
  OBVIOUS
<1>1. DriverInit => DriverInv /\ AnswerInv
  <2>. SUFFICES ASSUME DriverInit PROVE AnswerInv
    BY DriverInvInit
  <2>1. /\ \A p \in Process : proc[p] = AbsentRow
        /\ log = <<>> /\ inflight = {} /\ \A d \in Driver : drv[d].pc = "stopped"
    BY DEF DriverInit, Init, Stopped
  <2>. QED  BY <2>1 DEF AnswerInv, NeverWaits, OwnTurn, OwnAnswer, ResultOfOwnAttempt,
                AbsentRow, Turn
<1>2. DriverInv /\ AnswerInv /\ [DriverNext]_driverVars => (DriverInv /\ AnswerInv)'
  BY DriverInduction, EveryStepGoes, NeverWaitsKept, OwnTurnKept, OwnAnswerKept, ResultKept
  DEF AnswerInv
<1>3. AnswerInv => ResultOfOwnAttempt
  BY DEF AnswerInv
<1>. QED  BY <1>1, <1>2, <1>3, PTL DEF DriverSpec

-----------------------------------------------------------------------------
(* "Persist one attributed contract lie".                                  *)

\* The error of a broken contract is no other document: neither another error
\* nor the answer of an attempt.
DistinctErrors ==
    /\ ContractError \notin {EffectorError, ExpiryError, CancelError, NoDatum}
    /\ \A p \in Process : ContractError \notin 1..MaxAttempts[p]

\* An attempt that a driver has claimed is an attempt of its row.
Tried ==
    \A d \in Driver :
        drv[d].att # 0 =>
            drv[d].p \in Process /\ drv[d].att <= proc[drv[d].p].attempt

\* A violation of an attempt of p, the n-th or an earlier one, is on record.
Attributed(p, n) == \E m \in 1..n : <<p, m>> \in violations

\* A contract error that is held, in flight or stored has its violation.
ErrorsAttributed ==
    /\ \A d \in Driver :
          drv[d].pc = "settle" /\ drv[d].data = ContractError =>
              <<drv[d].p, drv[d].att>> \in violations
    /\ \A call \in inflight :
          call.data = ContractError => Attributed(call.process, call.seen.attempt)
    /\ \A p \in Process :
          proc[p].error = ContractError => Attributed(p, proc[p].attempt)

\* The attempts of a row only grow.
LEMMA AttemptsGrow ==
    ASSUME DriverInv, AbsentUntried, DriverMoves, NEW p \in Process
    PROVE  /\ proc[p].attempt \in Nat /\ proc'[p].attempt \in Nat
           /\ proc'[p].attempt >= proc[p].attempt
<1>1. proc[p] \in Row /\ RowGoes(p)
  BY DEF DriverInv, IInv, TypeOK, DriverMoves, TablesGo
<1>2. CASE proc'[p] = [AbsentRow EXCEPT !.status = "ready", !.due = now, !.created = now]
           /\ proc[p].status = "absent"
  BY <1>1, <1>2 DEF AbsentRow, AbsentUntried
<1>3. ASSUME NEW d \in Driver, proc'[p] = ClaimedRow(proc[p], WorkerId[d], drv[d].until)
      PROVE  proc'[p].attempt = proc[p].attempt + 1
  BY <1>1, <1>3 DEF ClaimedRow, Row
<1>4. ASSUME NEW call \in inflight, proc'[p] = MovedRow(proc[p], call.to, call.data, call.due)
      PROVE  proc'[p].attempt = proc[p].attempt
  BY <1>1, <1>4 DEF MovedRow, Row
<1>5. proc[p].attempt \in Nat
  BY <1>1 DEF Row
<1>. QED  BY <1>1, <1>2, <1>3, <1>4, <1>5 DEF RowGoes

\* Claims raise the attempt of the row and of the driver alike.
LEMMA TriedKept ==
    ASSUME DriverInv, AbsentUntried, Tried, DriverMoves
    PROVE  Tried'
<1>. SUFFICES ASSUME NEW d \in Driver, drv'[d].att # 0
              PROVE  /\ drv'[d].p \in Process
                     /\ drv'[d].att <= proc'[drv'[d].p].attempt
  BY DEF Tried
<1>0. MemoryGoes(d) /\ drv[d].att \in Nat
  BY DEF DriverMoves, DriverInv, DrvShape
<1>1. CASE drv'[d].p = drv[d].p /\ drv'[d].att = drv[d].att
  <2>1. drv[d].p \in Process /\ drv[d].att <= proc[drv[d].p].attempt
    BY <1>1 DEF Tried
  <2>. QED  BY <1>0, <1>1, <2>1, AttemptsGrow
<1>2. CASE /\ drv[d].pc = "claim" /\ drv'[d].p = drv[d].p
           /\ drv'[d].att = proc[drv[d].p].attempt + 1
           /\ proc'[drv[d].p] = ClaimedRow(proc[drv[d].p], WorkerId[d], drv[d].until)
  <2>1. drv[d].p \in Process /\ proc[drv[d].p] \in Row
    BY <1>2 DEF DriverInv, DriverFits, IInv, TypeOK
  <2>. QED  BY <1>2, <2>1 DEF ClaimedRow, Row
<1>. QED  BY <1>0, <1>1, <1>2 DEF MemoryGoes

\* What is attributed stays so, and is of every later attempt.
LEMMA AttributedStays ==
    ASSUME NEW p, NEW m \in Nat, NEW n \in Nat, m <= n, Attributed(p, m),
           violations \subseteq violations'
    PROVE  Attributed(p, n)'
BY DEF Attributed

\* record_violation comes before the failure it explains, and a call in flight
\* is of the attempt or of a later one.
LEMMA HeldErrorsAttributed ==
    ASSUME DistinctErrors, DriverInv, ErrorsAttributed, DriverMoves,
           NEW d \in Driver, drv'[d].pc = "settle", drv'[d].data = ContractError
    PROVE  <<drv'[d].p, drv'[d].att>> \in violations'
<1>0. MemoryGoes(d) /\ violations \subseteq violations' /\ DriverFits(d)
  BY DEF DriverMoves, DriverInv
<1>1. CASE drv'[d] = drv[d]
  BY <1>0, <1>1 DEF ErrorsAttributed
<1>2. ASSUME drv[d].pc = "execute", NEW outcome, drv'[d].pc = AfterEffector(outcome),
             drv'[d].data = Document(d, outcome)
      PROVE  FALSE
  <2>1. outcome \notin {"invalid", "breach"}
    BY <1>2 DEF AfterEffector
  <2>2. Document(d, outcome) \in {drv[d].att, CancelError, EffectorError}
    BY <2>1 DEF Document
  <2>3. drv[d].p \in Process /\ drv[d].att \in 1..MaxAttempts[drv[d].p]
    BY <1>0, <1>2 DEF DriverFits
  <2>. QED  BY <1>2, <2>2, <2>3 DEF DistinctErrors
<1>3. CASE /\ drv'[d].p = drv[d].p /\ drv'[d].att = drv[d].att
           /\ <<drv[d].p, drv[d].att>> \in violations'
  BY <1>3
<1>. QED  BY <1>0, <1>1, <1>2, <1>3 DEF MemoryGoes, Turn

\* The calls that drivers begin are of attempts of the row they read.
LEMMA CallErrorsAttributed ==
    ASSUME DistinctErrors, DriverInv, Tried, ErrorsAttributed, DriverMoves,
           NEW call \in inflight', call.data = ContractError
    PROVE  Attributed(call.process, call.seen.attempt)'
<1>0. violations \subseteq violations' /\ (call \in inflight \/ Begun(call))
  BY DEF DriverMoves, CallsGo
<1>1. CASE call \in inflight
  <2>1. call.seen.attempt \in Nat
    BY <1>1 DEF DriverInv, IInv, TypeOK, Calls, Row
  <2>. QED  BY <1>0, <1>1, <2>1, AttributedStays DEF ErrorsAttributed
<1>2. ASSUME Begun(call), NEW d \in Driver, Hands(d, call)
      PROVE  Attributed(call.process, call.seen.attempt)'
  <2>1. /\ call.process = drv[d].p /\ drv[d].p \in Process /\ call.seen = proc[drv[d].p]
        /\ proc[drv[d].p].attempt \in Nat
    BY <1>2 DEF Begun, Hands, DriverInv, IInv, TypeOK, Row
  <2>2. drv[d].pc = "settle" /\ drv[d].data = ContractError /\ DriverFits(d)
    BY <1>2 DEF Hands, DriverInv, DriverFits, DistinctErrors
  <2>3. drv[d].att \in Nat /\ 1 <= drv[d].att /\ drv[d].att <= proc[drv[d].p].attempt
    BY <2>1, <2>2, AttemptsAssumption DEF DriverFits, Tried
  <2>4. <<drv[d].p, drv[d].att>> \in violations
    BY <2>2 DEF ErrorsAttributed
  <2>. QED  BY <1>0, <2>1, <2>3, <2>4 DEF Attributed
<1>3. ~ Cancels(call)
  BY DEF Cancels, DistinctErrors
<1>. QED  BY <1>0, <1>1, <1>2, <1>3 DEF Begun

\* A row's error is the document of a call, and stays through later attempts.
LEMMA RowErrorsAttributed ==
    ASSUME DistinctErrors, DriverInv, AbsentUntried, ErrorsAttributed, DriverMoves,
           NEW p \in Process, proc'[p].error = ContractError
    PROVE  Attributed(p, proc[p].attempt)'
<1>0. /\ proc[p] \in Row /\ RowGoes(p) /\ violations \subseteq violations'
      /\ proc[p].attempt \in Nat /\ proc'[p].attempt \in Nat
      /\ proc[p].attempt <= proc'[p].attempt
  BY AttemptsGrow DEF DriverInv, IInv, TypeOK, DriverMoves, TablesGo
<1>1. ASSUME Attributed(p, proc[p].attempt)
      PROVE  Attributed(p, proc[p].attempt)'
  BY <1>0, <1>1 DEF Attributed
<1>2. CASE proc'[p].error = proc[p].error
  BY <1>1, <1>2 DEF ErrorsAttributed
<1>3. CASE proc'[p] = [AbsentRow EXCEPT !.status = "ready", !.due = now, !.created = now]
  BY <1>3 DEF AbsentRow, DistinctErrors
<1>4. ASSUME NEW d \in Driver, proc'[p] = ClaimedRow(proc[p], WorkerId[d], drv[d].until)
      PROVE  proc'[p].error = proc[p].error
  BY <1>0, <1>4 DEF ClaimedRow, Row
<1>5. ASSUME NEW call \in inflight, call.process = p, Unchanged(p, call.seen),
             proc'[p] = MovedRow(proc[p], call.to, call.data, call.due)
      PROVE  Attributed(p, proc[p].attempt)
  <2>1. proc'[p].error \in {NoDatum, proc[p].error, call.data}
    BY <1>0, <1>5 DEF MovedRow, RecordedData, Row
  <2>2. call.seen.attempt = proc[p].attempt
    BY <1>5 DEF Unchanged
  <2>. QED  BY <1>5, <2>1, <2>2 DEF ErrorsAttributed, DistinctErrors
<1>. QED  BY <1>0, <1>1, <1>2, <1>3, <1>4, <1>5 DEF RowGoes

\* The three together.
LEMMA ErrorsKept ==
    ASSUME DistinctErrors, DriverInv, AbsentUntried, Tried, ErrorsAttributed, DriverMoves
    PROVE  ErrorsAttributed'
<1>1. \A d \in Driver : drv'[d].pc = "settle" /\ drv'[d].data = ContractError =>
          <<drv'[d].p, drv'[d].att>> \in violations'
  BY HeldErrorsAttributed
<1>2. \A call \in inflight' :
          call.data = ContractError => Attributed(call.process, call.seen.attempt)'
  BY CallErrorsAttributed
<1>3. \A p \in Process :
          proc'[p].error = ContractError => Attributed(p, proc[p].attempt)'
  BY RowErrorsAttributed
<1>. QED  BY <1>1, <1>2, <1>3 DEF ErrorsAttributed

\* The entry of a call has its document, or the error of the row it read.
LEMMA EntryErrorsAttributed ==
    ASSUME DistinctErrors, DriverInv, ErrorsAttributed, ContractErrorsAttributed, DriverMoves
    PROVE  ContractErrorsAttributed'
<1>. SUFFICES ASSUME NEW k \in DOMAIN log', log'[k].data = ContractError
              PROVE  \E n \in 1..log'[k].attempt : <<log'[k].process, n>> \in violations'
  BY DEF ContractErrorsAttributed
<1>0. violations \subseteq violations'
  BY DEF DriverMoves
<1>1. CASE k \in DOMAIN log /\ log'[k] = log[k]
  BY <1>0, <1>1 DEF ContractErrorsAttributed
<1>2. CASE Written(log'[k])
  <2>1. PICK call \in inflight :
          /\ Unchanged(call.process, call.seen)
          /\ log'[k].process = call.process /\ log'[k].attempt = call.seen.attempt
          /\ RecordedData(call.seen, call.to, call.data) = ContractError
    BY <1>2 DEF Written, DistinctErrors
  <2>2. call.process \in Process
    BY DEF DriverInv, IInv, TypeOK, Calls
  <2>3. call.data = ContractError \/ proc[call.process].error = ContractError
    BY <2>1 DEF RecordedData, Unchanged
  <2>4. Attributed(call.process, call.seen.attempt)
    BY <2>1, <2>2, <2>3 DEF ErrorsAttributed, Unchanged
  <2>. QED  BY <1>0, <2>1, <2>4 DEF Attributed
<1>. QED  BY <1>1, <1>2 DEF DriverMoves, TablesGo

\* Every contract error on record has its violation on record, of that attempt
\* or of an earlier one, whoever died between the two commands.
THEOREM ErrorsAreAttributed ==
    RoomForDrivers /\ DistinctErrors => (DriverSpec => []ContractErrorsAttributed)
<1>. DEFINE Inv == DriverInv /\ Tried /\ ErrorsAttributed /\ ContractErrorsAttributed
<1>. SUFFICES ASSUME RoomForDrivers, DistinctErrors
              PROVE  DriverSpec => []ContractErrorsAttributed
  OBVIOUS
<1>1. DriverInit => Inv
  <2>. SUFFICES ASSUME DriverInit PROVE Tried /\ ErrorsAttributed /\ ContractErrorsAttributed
    BY DriverInvInit
  <2>1. /\ \A p \in Process : proc[p].error = NoDatum
        /\ log = <<>> /\ inflight = {}
        /\ \A d \in Driver : drv[d].pc = "stopped" /\ drv[d].att = 0
    BY DEF DriverInit, Init, Stopped, AbsentRow
  <2>. QED  BY <2>1 DEF Tried, ErrorsAttributed, ContractErrorsAttributed, DistinctErrors
<1>2. HistoryInv /\ Inv /\ [DriverNext]_driverVars => Inv'
  <2>. SUFFICES ASSUME HistoryInv, Inv, [DriverNext]_driverVars PROVE Inv'
    OBVIOUS
  <2>1. AbsentUntried /\ DriverMoves /\ DriverInv'
    BY DriverInduction, EveryStepGoes DEF HistoryInv
  <2>2. Tried' /\ ContractErrorsAttributed'
    BY <2>1, TriedKept, EntryErrorsAttributed
  <2>3. ErrorsAttributed'
    BY <2>1, ErrorsKept
  <2>. QED  BY <2>1, <2>2, <2>3
<1>3. DriverSpec => []HistoryInv
  BY DriversImplement, HistoryInvariant, PTL
<1>4. Inv => ContractErrorsAttributed
  OBVIOUS
<1>. QED  BY <1>1, <1>2, <1>3, <1>4, PTL DEF DriverSpec

-----------------------------------------------------------------------------
(* "Failed attempts retry while attempts remain".                          *)

\* Every step is stamped with the wall clock, and a retry is due in a later
\* second than the failure it follows.
RetriesWait ==
    /\ Realtime
    /\ \A p \in Process, n \in Nat :
          p \in RetryAllowed /\ n \in 1..MaxAttempts[p] => Delay(p, n) # 0

\* No effector of a process with attempts to retry fails its preflight or its
\* schema, which fails an attempt for good although attempts remain.
FailuresRetry ==
    Outcome \cap {"unsupported", "invalid"} = {}
        \/ \A p \in Process : p \in RetryAllowed => MaxAttempts[p] = 1

\* No further attempt of p follows a failure.
Spent(p) == p \notin RetryAllowed \/ proc[p].attempt >= MaxAttempts[p]

\* Only an attempt without a successor fails, and only others are retried.
FailedForGood ==
    /\ \A d \in Driver :
          drv[d].pc \in {"resolve", "violation", "settle"} =>
              /\ drv[d].to = "failed" => Spent(drv[d].p)
              /\ drv[d].to = "retry_wait" => drv[d].p \in RetryAllowed
    /\ \A call \in inflight :
          /\ call.to = "failed" => \/ call.process \notin RetryAllowed
                                   \/ call.seen.attempt >= MaxAttempts[call.process]
          /\ call.to = "retry_wait" => call.process \in RetryAllowed
    /\ \A p \in Process : proc[p].status = "failed" => Spent(p)

\* What a recorded end says of the row: it is final, or the row waits for the
\* time the entry names, or a later attempt began at that time or after.
EndsStand ==
    \A i \in DOMAIN log :
        /\ log[i].type \in TerminalStatus => proc[log[i].process].status = log[i].type
        /\ log[i].type = "retry_wait" =>
              /\ log[i].attempt <= proc[log[i].process].attempt
              /\ log[i].attempt = proc[log[i].process].attempt =>
                    \/ /\ proc[log[i].process].status = "retry_wait"
                       /\ proc[log[i].process].due = log[i].until
                    \/ proc[log[i].process].status \in {"cancel_requested"} \cup TerminalStatus
              /\ log[i].attempt < proc[log[i].process].attempt => log[i].until <= now

\* A driver's attempt began after the retries it follows were due.
TurnsFollowRetries ==
    \A i \in DOMAIN log, d \in Driver :
        /\ log[i].type = "retry_wait" /\ log[i].process = drv[d].p
        /\ drv[d].pc \in Turn /\ log[i].attempt < drv[d].att
        => log[i].until <= drv[d].tick

\* A driver that has not claimed holds no attempt, and one that settles has its
\* call in flight for the row it holds.
Ordered ==
    \A d \in Driver :
        /\ drv[d].pc \in {"maintain", "resolve", "resolving", "resolved", "claim"} =>
              drv[d].att = 0
        /\ \A call \in inflight :
              call.client = d /\ drv[d].pc = "settling" => call.process = drv[d].p

\* A spent row stays spent.
LEMMA SpentStays ==
    ASSUME DriverInv, AbsentUntried, DriverMoves, NEW p \in Process, Spent(p)
    PROVE  Spent(p)'
<1>1. MaxAttempts[p] \in Nat
  BY AttemptsAssumption
<1>. QED  BY <1>1, AttemptsGrow DEF Spent

\* The failures that drivers ask for are final.
LEMMA VerdictsForGood ==
    ASSUME FailuresRetry, DriverInv, AbsentUntried, Tried, FailedForGood, DriverMoves,
           NEW d \in Driver, drv'[d].pc \in {"resolve", "violation", "settle"}
    PROVE  /\ (drv[d].to = "failed" => Spent(drv[d].p))'
           /\ drv'[d].to = "retry_wait" => drv'[d].p \in RetryAllowed
<1>0. /\ MemoryGoes(d) /\ DriverFits(d) /\ drv[d].att \in Nat
      /\ drv[d].pc \notin {"stopped", "select"} => drv[d].p \in Process
  BY DEF DriverMoves, DriverInv, DriverFits, DrvShape
<1>1. drv'[d].p = drv[d].p /\ drv[d].p \in Process
  <2>1. CASE drv'[d] = drv[d]
    BY <1>0, <2>1
  <2>2. CASE drv[d].pc \in {"maintain", "execute", "violation"} /\ drv'[d].p = drv[d].p
    BY <1>0, <2>2
  <2>. QED  BY <1>0, <2>1, <2>2 DEF MemoryGoes, Turn
<1>2. PICK p \in Process : p = drv[d].p /\ p = drv'[d].p
  BY <1>1
<1>g. SUFFICES ASSUME TRUE
               PROVE  /\ drv'[d].to = "failed" => Spent(p)'
                      /\ drv'[d].to = "retry_wait" => p \in RetryAllowed
  BY <1>2 DEF Spent
<1>3. Spent(p) => Spent(p)'
  BY <1>2, SpentStays
<1>4. CASE drv'[d].to = drv[d].to /\ drv[d].pc \in {"resolve", "violation", "settle"}
  BY <1>2, <1>3, <1>4 DEF FailedForGood
<1>5. CASE /\ drv'[d].to = "failed" \/ drv[d].p \in RetryAllowed
           /\ drv'[d].to = "failed" =>
                 proc[drv[d].p].attempt >= MaxAttempts[drv[d].p] \/ drv[d].p \notin RetryAllowed
           /\ drv'[d].pc = "resolve"
  BY <1>2, <1>3, <1>5 DEF Spent
<1>6. ASSUME drv[d].pc = "execute", NEW outcome \in Outcome \cup {"cancelled"},
             drv'[d].to = Verdict(d, outcome)
      PROVE  /\ drv'[d].to = "failed" => Spent(p)
             /\ drv'[d].to = "retry_wait" => p \in RetryAllowed
  <2>1. /\ drv'[d].to = "failed" => \/ ~ Retryable(d)
                                    \/ outcome \in {"unsupported", "invalid"}
        /\ drv'[d].to = "retry_wait" => Retryable(d)
    BY <1>6 DEF Verdict
  <2>2. outcome \in {"unsupported", "invalid"} => p \notin RetryAllowed \/ MaxAttempts[p] = 1
    BY DEF FailuresRetry
  <2>3. drv[d].att # 0 /\ drv[d].att <= proc[p].attempt
    <3>1. drv[d].att \in 1..MaxAttempts[p]
      BY <1>0, <1>2, <1>6 DEF DriverFits
    <3>2. drv[d].att # 0
      BY <1>0, <3>1
    <3>. QED  BY <1>2, <3>2 DEF Tried
  <2>4. proc[p].attempt \in Nat /\ MaxAttempts[p] \in Nat
    BY <1>2, AttemptsAssumption DEF DriverInv, IInv, TypeOK, Row
  <2>. QED  BY <1>0, <1>2, <2>1, <2>2, <2>3, <2>4 DEF Retryable, Spent
<1>. QED  BY <1>0, <1>1, <1>2, <1>3, <1>4, <1>5, <1>6 DEF MemoryGoes, Turn

\* So are those in flight and those recorded.
LEMMA FailedForGoodKept ==
    ASSUME FailuresRetry, DriverInv, AbsentUntried, Tried, FailedForGood, DriverMoves
    PROVE  FailedForGood'
<1>1. ASSUME NEW d \in Driver, drv'[d].pc \in {"resolve", "violation", "settle"}
      PROVE  /\ (drv[d].to = "failed" => Spent(drv[d].p))'
             /\ drv'[d].to = "retry_wait" => drv'[d].p \in RetryAllowed
  BY <1>1, VerdictsForGood
<1>2. ASSUME NEW call \in inflight'
      PROVE  /\ call.to = "failed" => \/ call.process \notin RetryAllowed
                                      \/ call.seen.attempt >= MaxAttempts[call.process]
             /\ call.to = "retry_wait" => call.process \in RetryAllowed
  <2>1. CASE call \in inflight
    BY <2>1 DEF FailedForGood
  <2>2. ASSUME Begun(call), NEW d \in Driver, Hands(d, call)
        PROVE  /\ call.to = "failed" => \/ call.process \notin RetryAllowed
                                        \/ call.seen.attempt >= MaxAttempts[call.process]
               /\ call.to = "retry_wait" => call.process \in RetryAllowed
    BY <2>2 DEF Begun, Hands, FailedForGood, Spent
  <2>. QED  BY <2>1, <2>2 DEF DriverMoves, CallsGo, Begun, Cancels
<1>3. ASSUME NEW p \in Process, proc'[p].status = "failed"
      PROVE  Spent(p)'
  <2>0. RowGoes(p) /\ proc[p] \in Row
    BY DEF DriverMoves, TablesGo, DriverInv, IInv, TypeOK
  <2>1. CASE proc'[p] = proc[p]
    BY <1>3, <2>1 DEF FailedForGood, Spent
  <2>2. CASE proc'[p] = [AbsentRow EXCEPT !.status = "ready", !.due = now, !.created = now]
    BY <1>3, <2>2 DEF AbsentRow
  <2>3. ASSUME NEW d \in Driver, proc'[p] = ClaimedRow(proc[p], WorkerId[d], drv[d].until)
        PROVE  FALSE
    BY <1>3, <2>0, <2>3 DEF ClaimedRow, Row
  <2>4. ASSUME NEW call \in inflight, call.process = p, Unchanged(p, call.seen),
               proc'[p] = MovedRow(proc[p], call.to, call.data, call.due)
        PROVE  Spent(p)'
    <3>1. call.to = "failed" /\ proc'[p].attempt = call.seen.attempt
      BY <1>3, <2>0, <2>4 DEF MovedRow, Row, Unchanged
    <3>. QED  BY <2>4, <3>1 DEF FailedForGood, Spent
  <2>. QED  BY <2>0, <2>1, <2>2, <2>3, <2>4 DEF RowGoes
<1>. QED  BY <1>1, <1>2, <1>3 DEF FailedForGood

\* A call that commits ends what ran, waited for its retry or was asked to stop.
LEMMA MovesEnd ==
    ASSUME DriverInv, NeverWaits, FailedForGood, DriverMoves,
           NEW p \in Process, NEW call \in inflight, call.process = p, Unchanged(p, call.seen),
           proc'[p] = MovedRow(proc[p], call.to, call.data, call.due)
    PROVE  /\ proc'[p].status = call.to /\ proc'[p].attempt = proc[p].attempt
           /\ proc[p].status \notin TerminalStatus
           /\ call.to \in TerminalStatus \cup {"retry_wait", "cancel_requested"}
           /\ call.to = "retry_wait" => proc[p].status = "running" /\ proc'[p].due = call.due
           /\ call.seen.attempt = proc[p].attempt
<1>0. /\ proc[p] \in Row /\ Legal(p, call.seen, call.to, call.actor)
      /\ call.seen.status = proc[p].status /\ call.seen.attempt = proc[p].attempt
      /\ call.to \in Verdicts \cup {"cancel_requested"}
      /\ proc[p].attempt \in Nat /\ MaxAttempts[p] \in Nat
  BY AttemptsAssumption DEF DriverInv, IInv, TypeOK, InFlightLegal, Unchanged, NeverWaits, Row
<1>1. proc'[p].status = call.to /\ proc'[p].attempt = proc[p].attempt
      /\ (call.to = "retry_wait" => proc'[p].due = call.due)
  BY <1>0 DEF MovedRow, Row
<1>2. ~ (call.to = "retry_wait" /\ proc[p].status = "failed")
  <2>. SUFFICES ASSUME call.to = "retry_wait", proc[p].status = "failed" PROVE FALSE
    OBVIOUS
  <2>1. p \in RetryAllowed /\ Spent(p)
    BY DEF FailedForGood
  <2>2. proc[p].attempt < MaxAttempts[p]
    BY <1>0 DEF Legal
  <2>. QED  BY <1>0, <2>1, <2>2 DEF Spent
<1>3. CanTransition(proc[p].status, call.to)
  BY <1>0, <1>2 DEF Legal
<1>4. proc[p].status \notin TerminalStatus
  BY <1>3 DEF CanTransition, OpenStatus, TerminalStatus
<1>5. call.to = "retry_wait" => proc[p].status = "running"
  BY <1>3 DEF CanTransition, OpenStatus, OwnTargets
<1>. QED  BY <1>0, <1>1, <1>4, <1>5 DEF Verdicts, TerminalStatus

\* What stands of an end before a step stands after it.
LEMMA EndStands ==
    ASSUME RoomForDrivers, DriverInv, AbsentUntried, NeverWaits, FailedForGood, DriverMoves,
           NEW p \in Process, NEW n \in Nat, NEW until \in Nat, n <= proc[p].attempt,
           n = proc[p].attempt =>
               \/ proc[p].status = "retry_wait" /\ proc[p].due = until
               \/ proc[p].status \in {"cancel_requested"} \cup TerminalStatus,
           n < proc[p].attempt => until <= now
    PROVE  /\ n <= proc'[p].attempt
           /\ n = proc'[p].attempt =>
               \/ proc'[p].status = "retry_wait" /\ proc'[p].due = until
               \/ proc'[p].status \in {"cancel_requested"} \cup TerminalStatus
           /\ n < proc'[p].attempt => until <= now'
<1>0. /\ proc[p] \in Row /\ RowGoes(p) /\ now \in Nat /\ now' \in {now, now + 1}
      /\ proc[p].attempt \in Nat /\ proc'[p].attempt \in Nat /\ proc'[p].attempt >= proc[p].attempt
  BY AttemptsGrow DEF DriverInv, IInv, TypeOK, DriverMoves, TablesGo
<1>1. CASE proc'[p] = proc[p]
  BY <1>0, <1>1
<1>2. CASE proc[p].status = "absent"
           /\ proc'[p] = [AbsentRow EXCEPT !.status = "ready", !.due = now, !.created = now]
  <2>1. proc[p].attempt = 0
    BY <1>2 DEF AbsentUntried
  <2>. QED  BY <1>2, <2>1 DEF TerminalStatus
<1>3. ASSUME NEW d \in Driver, Claimable(p, Stamp(d)),
             proc'[p] = ClaimedRow(proc[p], WorkerId[d], drv[d].until)
      PROVE  proc'[p].attempt = proc[p].attempt + 1 /\ until <= now
  <2>1. proc'[p].attempt = proc[p].attempt + 1
    BY <1>0, <1>3 DEF ClaimedRow, Row
  <2>2. CASE n = proc[p].attempt
    <3>1. proc[p].status = "retry_wait" /\ proc[p].due = until /\ until <= Stamp(d)
      BY <1>3, <2>2 DEF Claimable, TerminalStatus
    <3>. QED  BY <1>0, <2>1, <3>1, StampReading
  <2>. QED  BY <1>0, <2>1, <2>2
<1>4. ASSUME NEW call \in inflight, call.process = p, Unchanged(p, call.seen),
             proc'[p] = MovedRow(proc[p], call.to, call.data, call.due)
      PROVE  /\ proc'[p].attempt = proc[p].attempt
             /\ n = proc[p].attempt =>
                    proc'[p].status \in {"cancel_requested"} \cup TerminalStatus
  BY <1>4, MovesEnd DEF TerminalStatus
<1>. QED  BY <1>0, <1>1, <1>2, <1>3, <1>4 DEF RowGoes

\* A terminal row moves no more, while no failure is retried.
LEMMA TerminalStands ==
    ASSUME DriverInv, NeverWaits, FailedForGood, DriverMoves,
           NEW p \in Process, proc[p].status \in TerminalStatus
    PROVE  proc'[p].status = proc[p].status
<1>1. RowGoes(p)
  BY DEF DriverMoves, TablesGo
<1>. QED  BY <1>1, MovesEnd DEF RowGoes, Claimable, TerminalStatus

\* Entries are of processes.
LEMMA EntryShape ==
    ASSUME TypeOK, NEW i \in DOMAIN log
    PROVE  log[i].process \in Process /\ log[i].attempt \in Nat /\ log[i].until \in Nat
<1>1. log[i] \in Entry
  BY LenProperties, ElementOfSeq DEF TypeOK
<1>. QED  BY <1>1 DEF Entry

\* What the log says of ends goes on to hold.
LEMMA EndsStandKept ==
    ASSUME RoomForDrivers, DriverInv, AbsentUntried, NeverWaits, FailedForGood, EndsStand,
           DriverMoves
    PROVE  EndsStand'
<1>. SUFFICES ASSUME NEW k \in DOMAIN log', NEW e, e = log'[k]
     PROVE /\ e.type \in TerminalStatus => proc'[e.process].status = e.type
           /\ e.type = "retry_wait" =>
              /\ e.attempt <= proc'[e.process].attempt
              /\ e.attempt = proc'[e.process].attempt =>
                    \/ proc'[e.process].status = "retry_wait" /\ proc'[e.process].due = e.until
                    \/ proc'[e.process].status \in {"cancel_requested"} \cup TerminalStatus
              /\ e.attempt < proc'[e.process].attempt => e.until <= now'
  BY DEF EndsStand
<1>0. TypeOK /\ now' \in {now, now + 1}
  BY DEF DriverInv, IInv, DriverMoves, TablesGo
<1>1. CASE k \in DOMAIN log /\ log'[k] = log[k]
  <2>1. e = log[k] /\ e.process \in Process /\ e.attempt \in Nat /\ e.until \in Nat
    BY <1>0, <1>1, EntryShape
  <2>2. CASE e.type \in TerminalStatus
    <3>1. proc[e.process].status = e.type
      BY <1>1, <2>1, <2>2 DEF EndsStand
    <3>. QED  BY <2>1, <2>2, <3>1, TerminalStands DEF TerminalStatus
  <2>3. CASE e.type = "retry_wait"
    <3>1. /\ e.attempt <= proc[e.process].attempt
          /\ e.attempt = proc[e.process].attempt =>
               \/ proc[e.process].status = "retry_wait" /\ proc[e.process].due = e.until
               \/ proc[e.process].status \in {"cancel_requested"} \cup TerminalStatus
          /\ e.attempt < proc[e.process].attempt => e.until <= now
      BY <1>1, <2>1, <2>3 DEF EndsStand
    <3>2. PICK p \in Process, n \in Nat, until \in Nat :
             p = e.process /\ n = e.attempt /\ until = e.until
      BY <2>1
    <3>3. /\ n <= proc'[p].attempt
          /\ n = proc'[p].attempt =>
               \/ proc'[p].status = "retry_wait" /\ proc'[p].due = until
               \/ proc'[p].status \in {"cancel_requested"} \cup TerminalStatus
          /\ n < proc'[p].attempt => until <= now'
      BY <3>1, <3>2, EndStands
    <3>. QED  BY <2>3, <3>2, <3>3 DEF TerminalStatus
  <2>. QED  BY <2>2, <2>3
<1>2. ASSUME NEW call \in inflight, Unchanged(call.process, call.seen),
             proc'[call.process] = MovedRow(proc[call.process], call.to, call.data, call.due),
             e.type = call.to, e.process = call.process, e.attempt = call.seen.attempt,
             e.until = IF call.to = "retry_wait" THEN call.due ELSE 0
      PROVE  /\ proc'[e.process].status = e.type
             /\ e.attempt = proc'[e.process].attempt /\ e.attempt \in Nat
             /\ e.type = "retry_wait" => proc'[e.process].due = e.until
  <2>1. call.process \in Process /\ proc[call.process].attempt \in Nat
    BY <1>0 DEF TypeOK, Calls, Row
  <2>2. PICK p \in Process : p = call.process
    BY <2>1
  <2>. QED  BY <1>2, <2>1, <2>2, MovesEnd
<1>3. CASE Written(e)
  <2>1. CASE e.type \in {"schedule", "claim"}
    BY <2>1 DEF TerminalStatus
  <2>. QED  BY <1>2, <1>3, <2>1 DEF Written
<1>. QED  BY <1>1, <1>3 DEF DriverMoves, TablesGo

\* A retry recorded in this step is of an attempt that no driver is past.
LEMMA NoneIsPast ==
    ASSUME DriverInv, Tried, NEW d \in Driver, drv[d].pc \in Turn,
           NEW e, Written(e), e.type = "retry_wait", e.process = drv[d].p
    PROVE  ~ e.attempt < drv[d].att
<1>1. PICK call \in inflight :
        /\ Unchanged(call.process, call.seen)
        /\ e.process = call.process /\ e.attempt = call.seen.attempt
  BY DEF Written
<1>2. /\ drv[d].p \in Process /\ drv[d].att \in 1..MaxAttempts[drv[d].p]
      /\ proc[drv[d].p].attempt \in Nat
  BY DEF DriverInv, DriverFits, Turn, IInv, TypeOK, Row
<1>3. drv[d].att \in Nat /\ drv[d].att # 0
  BY <1>2, AttemptsAssumption
<1>4. drv[d].att <= proc[drv[d].p].attempt
  BY <1>3 DEF Tried
<1>. QED  BY <1>1, <1>2, <1>3, <1>4 DEF Unchanged

\* A claim is stamped with the wall clock, and what is recorded while its turn
\* lasts is recorded of its attempt or of a later one.
LEMMA TurnsFollowRetriesKept ==
    ASSUME RoomForDrivers, RetriesWait, DriverInv, Tried, TurnsFollowRetries, DriverMoves,
           EndsStand'
    PROVE  TurnsFollowRetries'
<1>. SUFFICES ASSUME NEW k \in DOMAIN log', NEW d \in Driver, NEW e, e = log'[k],
                     e.type = "retry_wait", e.process = drv'[d].p,
                     drv'[d].pc \in Turn, e.attempt < drv'[d].att
              PROVE  e.until <= drv'[d].tick
  BY DEF TurnsFollowRetries
<1>0. /\ MemoryGoes(d)
      /\ (k \in DOMAIN log /\ log'[k] = log[k]) \/ Written(e)
      /\ drv[d].tick \in Nat /\ Stamp(d) = now /\ Stamp(d) \in Nat /\ drv[d].tick <= Stamp(d)
  BY StampReading DEF DriverMoves, TablesGo, DriverInv, DriverFits, RetriesWait, Stamp
<1>1. ASSUME drv[d].pc \in Turn, drv'[d].p = drv[d].p, drv'[d].att = drv[d].att,
             drv'[d].tick \in {drv[d].tick, Stamp(d)}
      PROVE  e.until <= drv'[d].tick
  <2>1. k \in DOMAIN log /\ e = log[k]
    BY <1>0, <1>1, NoneIsPast
  <2>2. e.until \in Nat
    BY <2>1, EntryShape DEF DriverInv, IInv
  <2>3. e.until <= drv[d].tick
    BY <1>1, <2>1 DEF TurnsFollowRetries
  <2>. QED  BY <1>0, <1>1, <2>2, <2>3
<1>2. CASE /\ drv[d].pc = "claim" /\ drv'[d].p = drv[d].p
           /\ drv'[d].att = proc[drv[d].p].attempt + 1 /\ drv'[d].tick = Stamp(d)
           /\ proc'[drv[d].p] = ClaimedRow(proc[drv[d].p], WorkerId[d], drv[d].until)
           /\ UNCHANGED now
  <2>1. drv[d].p \in Process /\ proc[drv[d].p] \in Row
    BY <1>2 DEF DriverInv, DriverFits, IInv, TypeOK
  <2>2. proc'[e.process].attempt = drv'[d].att
    BY <1>2, <2>1 DEF ClaimedRow, Row
  <2>3. e.until <= now'
    BY <2>2 DEF EndsStand
  <2>. QED  BY <1>0, <1>2, <2>3
<1>3. CASE drv'[d] = drv[d]
  BY <1>1, <1>3
<1>4. CASE /\ drv[d].pc = "violation" /\ drv'[d].p = drv[d].p /\ drv'[d].att = drv[d].att
           /\ drv'[d].tick = drv[d].tick
  BY <1>1, <1>4 DEF Turn
<1>5. CASE /\ drv[d].pc = "execute" /\ drv'[d].p = drv[d].p /\ drv'[d].att = drv[d].att
           /\ drv'[d].tick \in {drv[d].tick, Stamp(d)}
  BY <1>1, <1>5 DEF Turn
<1>. QED  BY <1>0, <1>2, <1>3, <1>4, <1>5 DEF MemoryGoes, Turn

\* A jump moves the place alone.
LEMMA JumpGoes ==
    ASSUME DriverInv, NEW d \in Driver, NEW pc, Goto(d, pc)
    PROVE  /\ drv'[d].pc = pc
           /\ drv'[d].p = drv[d].p /\ drv'[d].att = drv[d].att
<1>1. drv'[d] = [drv[d] EXCEPT !.pc = pc] /\ "pc" \in DOMAIN drv[d]
  BY DEF Goto, DriverInv, DrvShape
<1>. QED  BY <1>1

\* A driver's step changes its own memory and begins calls of its own alone.
LEMMA OthersRest ==
    ASSUME DriverInv, NEW e \in Driver, DriverStep(e)
    PROVE  /\ \A d \in Driver \ {e} : drv'[d] = drv[d]
           /\ \A call \in inflight' : call \in inflight \/ call.client = e
<1>1. \A d \in Driver \ {e} : drv'[d] = drv[d]
  <2>1. drv \in [Driver -> [pc : PC, p : Process \cup {0}, seen : Row, att : Nat,
                   tick : Nat, until : Nat, to : Target \cup {"none"}, data : Doc]]
    BY DEF DriverInv, DrvShape
  <2>. QED  BY <2>1 DEF DriverStep, StartDrive, Select, EndDrive, Maintain, Resolve,
              Resolving, Resolved, ClaimRow, Execute, RecordViolation, Settle, Settling,
              Ask, Settled, Raise, Goto
<1>2. CASE Resolve(e) \/ Settle(e)
  BY <1>1, <1>2 DEF Resolve, Settle, Ask, BeginTransition, vars
<1>3. CASE Resolving(e) \/ Settling(e)
  BY <1>1, <1>3 DEF Resolving, Settling, Settled, CommitTransition, AbandonTransition
<1>4. CASE ClaimRow(e)
  BY <1>1, <1>4 DEF ClaimRow, ClaimProcess, vars
<1>5. CASE UNCHANGED vars
  BY <1>1, <1>5 DEF vars
<1>. QED  BY <1>2, <1>3, <1>4, <1>5 DEF DriverStep, StartDrive, Select, EndDrive, Maintain,
            Resolved, Execute, RecordViolation

\* The places before a claim hold no attempt.
LEMMA UnclaimedKept ==
    ASSUME DriverInv, Ordered, NEW d \in Driver, DriverStep(d),
           drv'[d].pc \in {"maintain", "resolve", "resolving", "resolved", "claim"}
    PROVE  drv'[d].att = 0
<1>0. /\ d \in DOMAIN drv
      /\ drv[d] \in [pc : PC, p : Process \cup {0}, seen : Row, att : Nat,
                     tick : Nat, until : Nat, to : Target \cup {"none"}, data : Doc]
      /\ drv[d].pc \in {"maintain", "resolve", "resolving", "resolved", "claim"} => drv[d].att = 0
  BY DEF DriverInv, DrvShape, Ordered
<1>1. CASE StartDrive(d) \/ Select(d)
  <2>1. CASE StartDrive(d)
    BY <1>0, <2>1 DEF StartDrive, Stopped
  <2>2. CASE Select(d)
    <3>1. PICK p \in Process : drv'[d] =
             [drv[d] EXCEPT !.pc = IF proc[p].status = "running" THEN "maintain" ELSE "claim",
                            !.p = p, !.seen = proc[p], !.att = 0, !.tick = Stamp(d)]
      BY <1>0, <2>2 DEF Select
    <3>. QED  BY <1>0, <3>1
  <2>. QED  BY <1>1, <2>1, <2>2
<1>2. ~ Raise(d)
  BY <1>0 DEF Raise, Stopped
<1>3. CASE Maintain(d)
  <2>1. PICK to : drv'[d] = [drv[d] EXCEPT !.pc = "resolve", !.data = ExpiryError, !.to = to]
    BY <1>0, <1>2, <1>3 DEF Maintain
  <2>2. drv'[d].att = drv[d].att
    BY <1>0, <2>1
  <2>. QED  BY <1>0, <1>3, <2>2 DEF Maintain
<1>4. CASE Resolve(d) \/ Resolving(d) \/ Resolved(d)
  <2>1. Goto(d, "resolving") \/ Goto(d, "resolved") \/ Goto(d, "select") \/ Goto(d, "claim")
    BY <1>2, <1>4 DEF Resolve, Resolving, Resolved, Ask, Settled
  <2>2. drv'[d].att = drv[d].att
    BY <2>1, JumpGoes
  <2>. QED  BY <1>0, <1>4, <2>2 DEF Resolve, Resolving, Resolved
<1>5. CASE ClaimRow(d)
  <2>1. drv'[d] = [drv[d] EXCEPT !.pc = "execute", !.tick = Stamp(d),
                                 !.att = proc[drv[d].p].attempt + 1]
    BY <1>0, <1>2, <1>5 DEF ClaimRow
  <2>. QED  BY <1>0, <2>1
<1>6. CASE Execute(d)
  <2>1. PICK outcome \in Outcome \cup {"cancelled"} : drv'[d] =
             [drv[d] EXCEPT !.pc = AfterEffector(outcome), !.to = Verdict(d, outcome),
                    !.data = Document(d, outcome),
                    !.tick = IF outcome = "unsupported" THEN drv[d].tick ELSE Stamp(d)]
    BY <1>0, <1>6 DEF Execute
  <2>2. drv'[d].pc = AfterEffector(outcome)
    BY <1>0, <2>1
  <2>. QED  BY <2>2 DEF AfterEffector
<1>7. CASE RecordViolation(d) \/ Settle(d) \/ Settling(d)
  <2>1. Goto(d, "settle") \/ Goto(d, "settling") \/ Goto(d, "select")
    BY <1>2, <1>7 DEF RecordViolation, Settle, Settling, Ask, Settled
  <2>. QED  BY <2>1, JumpGoes
<1>8. ~ EndDrive(d)
  BY <1>2 DEF EndDrive
<1>. QED  BY <1>1, <1>3, <1>4, <1>5, <1>6, <1>7, <1>8 DEF DriverStep

\* The call of a settling driver is for the row it holds.
LEMMA SettlingKept ==
    ASSUME DriverInv, NEW d \in Driver, DriverStep(d), drv'[d].pc = "settling",
           NEW call \in inflight', call.client = d
    PROVE  call.process = drv'[d].p
<1>0. /\ d \in DOMAIN drv
      /\ drv[d] \in [pc : PC, p : Process \cup {0}, seen : Row, att : Nat,
                     tick : Nat, until : Nat, to : Target \cup {"none"}, data : Doc]
  BY DEF DriverInv, DrvShape
<1>2. ~ Raise(d)
  BY <1>0 DEF Raise, Stopped
<1>j. ASSUME NEW pc, Goto(d, pc) PROVE pc = "settling"
  BY <1>j, JumpGoes
<1>1. ~ (StartDrive(d) \/ Select(d) \/ EndDrive(d))
  <2>1. ~ StartDrive(d)
    BY <1>0 DEF StartDrive, Stopped
  <2>2. ~ Select(d)
    <3>. SUFFICES ASSUME Select(d) PROVE FALSE
      OBVIOUS
    <3>1. PICK p \in Process : drv'[d] =
             [drv[d] EXCEPT !.pc = IF proc[p].status = "running" THEN "maintain" ELSE "claim",
                            !.p = p, !.seen = proc[p], !.att = 0, !.tick = Stamp(d)]
      BY <1>0 DEF Select
    <3>2. drv'[d].pc \in {"maintain", "claim"}
      BY <1>0, <3>1
    <3>. QED  BY <3>2
  <2>. QED  BY <1>2, <2>1, <2>2 DEF EndDrive
<1>3. ~ Maintain(d)
  <2>. SUFFICES ASSUME Maintain(d) PROVE FALSE
    OBVIOUS
  <2>1. PICK to : drv'[d] = [drv[d] EXCEPT !.pc = "resolve", !.data = ExpiryError, !.to = to]
    BY <1>0, <1>2 DEF Maintain
  <2>. QED  BY <1>0, <2>1
<1>4. ~ (Resolve(d) \/ Resolving(d) \/ Resolved(d) \/ RecordViolation(d) \/ Settling(d))
  BY <1>2, <1>j DEF Resolve, Resolving, Resolved, RecordViolation, Settling, Ask, Settled
<1>5. ~ ClaimRow(d)
  <2>. SUFFICES ASSUME ClaimRow(d) PROVE FALSE
    OBVIOUS
  <2>1. drv'[d] = [drv[d] EXCEPT !.pc = "execute", !.tick = Stamp(d),
                                 !.att = proc[drv[d].p].attempt + 1]
    BY <1>0, <1>2 DEF ClaimRow
  <2>. QED  BY <1>0, <2>1
<1>6. ~ Execute(d)
  <2>. SUFFICES ASSUME Execute(d) PROVE FALSE
    OBVIOUS
  <2>1. PICK outcome \in Outcome \cup {"cancelled"} : drv'[d] =
             [drv[d] EXCEPT !.pc = AfterEffector(outcome), !.to = Verdict(d, outcome),
                    !.data = Document(d, outcome),
                    !.tick = IF outcome = "unsupported" THEN drv[d].tick ELSE Stamp(d)]
    BY <1>0 DEF Execute
  <2>2. drv'[d].pc = AfterEffector(outcome)
    BY <1>0, <2>1
  <2>. QED  BY <2>2 DEF AfterEffector
<1>7. Settle(d)
  BY <1>1, <1>3, <1>4, <1>5, <1>6 DEF DriverStep
<1>8. /\ BeginTransition(d, drv[d].p, drv[d].to, WorkerId[d], drv[d].tick, drv[d].data,
                         DueOf(d), TransitionKey(drv[d].p, drv[d].to, drv[d].tick))
      /\ Goto(d, "settling")
  BY <1>2, <1>7, <1>j DEF Settle, Ask
<1>. QED  BY <1>8, JumpGoes DEF BeginTransition

\* The program counter tells what is held.
LEMMA OrderedKept ==
    ASSUME DriverInv, Ordered, [DriverNext]_driverVars
    PROVE  Ordered'
<1>1. ASSUME NEW d \in Driver, drv'[d] = drv[d],
             \A call \in inflight' : call \in inflight \/ call.client # d
      PROVE  /\ drv'[d].pc \in {"maintain", "resolve", "resolving", "resolved", "claim"} =>
                    drv'[d].att = 0
             /\ \A call \in inflight' :
                    call.client = d /\ drv'[d].pc = "settling" => call.process = drv'[d].p
  BY <1>1 DEF Ordered
<1>2. ASSUME NEW e \in Driver, DriverStep(e) PROVE Ordered'
  BY <1>1, <1>2, OthersRest, UnclaimedKept, SettlingKept DEF Ordered
<1>3. ASSUME NEW e \in Driver, Crash(e) PROVE Ordered'
  <2>1. /\ \A d \in Driver \ {e} : drv'[d] = drv[d]
        /\ drv'[e].pc = "stopped" /\ inflight' \subseteq inflight
    BY <1>3 DEF Crash, Raise, Stopped, DriverInv, DrvShape
  <2>. QED  BY <1>1, <2>1 DEF Ordered
<1>4. CASE Submit \/ RequestCancel \/ FinishCancel \/ DriverTick \/ UNCHANGED driverVars
  <2>1. drv' = drv
    BY <1>4 DEF Submit, RequestCancel, FinishCancel, DriverTick, driverVars
  <2>2. \A call \in inflight' : call \in inflight \/ call.client = Operator
    <3>1. CASE Submit
      BY <3>1 DEF Submit, ScheduleProcess, InsertRow
    <3>2. CASE RequestCancel
      BY <3>2 DEF RequestCancel, BeginTransition
    <3>3. CASE FinishCancel
      BY <3>3 DEF FinishCancel, CommitTransition, AbandonTransition
    <3>. QED  BY <1>4, <3>1, <3>2, <3>3 DEF DriverTick, Tick, driverVars
  <2>. QED  BY <1>1, <2>1, <2>2, DriverAssumption DEF Ordered
<1>. QED  BY <1>2, <1>3, <1>4 DEF DriverNext

\* The attempt that driver d holds is still running.
Runs(d) == proc[drv[d].p].status = "running" /\ proc[drv[d].p].attempt = drv[d].att

\* A settlement that is answered from the log was recorded for this attempt, not
\* for an earlier one whose retry fell in the same second.
LEMMA ReplaysAreOver ==
    ASSUME RoomForDrivers, RetriesWait, DriverInv, EntriesFit, FailedForGood, EndsStand,
           TurnsFollowRetries, NEW d \in Driver, drv[d].pc = "settle",
           Replays(TransitionKey(drv[d].p, drv[d].to, drv[d].tick), WorkerId[d], drv[d].tick,
                   drv[d].data, DueOf(d))
    PROVE  ~ Runs(d)
<1>0. /\ drv[d].p \in Process /\ drv[d].tick \in Nat /\ drv[d].to \in Verdicts
      /\ drv[d].att \in 1..MaxAttempts[drv[d].p]
  BY DEF DriverInv, DriverFits
<1>1. PICK i \in DOMAIN log :
        /\ log[i].key = TransitionKey(drv[d].p, drv[d].to, drv[d].tick)
        /\ log[i].type = "retry_wait" => log[i].until = DueOf(d)
  BY DEF Replays
<1>2. log[i].type = drv[d].to /\ log[i].process = drv[d].p
  <2>1. log[i].key \in DefaultKey
    BY <1>0, <1>1 DEF TransitionKey, DefaultKey, Verdicts, Target
  <2>2. log[i].key.kind = log[i].type /\ log[i].key.process = log[i].process
    BY <2>1, KeyAssumption DEF EntriesFit, KeyFits
  <2>. QED  BY <1>1, <2>2 DEF TransitionKey
<1>3. CASE drv[d].to # "retry_wait"
  <2>1. drv[d].to \in TerminalStatus
    BY <1>0, <1>3 DEF Verdicts, TerminalStatus
  <2>2. proc[drv[d].p].status = drv[d].to
    BY <1>2, <2>1 DEF EndsStand
  <2>. QED  BY <2>1, <2>2 DEF Runs, TerminalStatus
<1>4. CASE drv[d].to = "retry_wait"
  <2>. SUFFICES ASSUME Runs(d) PROVE FALSE
    OBVIOUS
  <2>1. log[i].attempt <= drv[d].att /\ log[i].attempt # drv[d].att
    BY <1>2, <1>4 DEF EndsStand, Runs, TerminalStatus
  <2>2. log[i].attempt \in Nat /\ drv[d].att \in Nat
    BY <1>0, EntryShape, AttemptsAssumption DEF DriverInv, IInv
  <2>3. log[i].until <= drv[d].tick
    BY <1>2, <1>4, <2>1, <2>2 DEF TurnsFollowRetries, Turn
  <2>4. Delay(drv[d].p, drv[d].att) \in 0..MaxDelay /\ Delay(drv[d].p, drv[d].att) # 0
    BY <1>0, <1>4, <2>2 DEF RoomForDrivers, RetriesWait, FailedForGood
  <2>5. log[i].until = drv[d].tick + Delay(drv[d].p, drv[d].att)
    BY <1>1, <1>2, <1>4 DEF DueOf
  <2>. QED  BY <1>0, <2>3, <2>4, <2>5, BoundsAssumption
<1>. QED  BY <1>3, <1>4

\* The row of an attempt that runs no more does not run it again.
LEMMA OverStays ==
    ASSUME DriverInv, AbsentUntried, NeverWaits, FailedForGood, DriverMoves,
           NEW p \in Process, NEW n \in Nat, n <= proc[p].attempt,
           ~ (proc[p].status = "running" /\ proc[p].attempt = n)
    PROVE  ~ (proc'[p].status = "running" /\ proc'[p].attempt = n)
<1>0. RowGoes(p) /\ proc[p] \in Row /\ proc[p].attempt \in Nat
  BY DEF DriverMoves, TablesGo, DriverInv, IInv, TypeOK, Row
<1>1. CASE proc'[p] = proc[p]
  BY <1>1
<1>2. CASE proc'[p] = [AbsentRow EXCEPT !.status = "ready", !.due = now, !.created = now]
  BY <1>2 DEF AbsentRow
<1>3. ASSUME NEW d \in Driver, proc'[p] = ClaimedRow(proc[p], WorkerId[d], drv[d].until)
      PROVE  proc'[p].attempt = proc[p].attempt + 1
  BY <1>0, <1>3 DEF ClaimedRow, Row
<1>4. ASSUME NEW call \in inflight, call.process = p, Unchanged(p, call.seen),
             proc'[p] = MovedRow(proc[p], call.to, call.data, call.due)
      PROVE  proc'[p].status # "running"
  BY <1>4, MovesEnd DEF TerminalStatus
<1>. QED  BY <1>0, <1>1, <1>2, <1>3, <1>4 DEF RowGoes

\* A driver comes back to select with its attempt ended: by its own call, by a
\* cancellation, or by the stored command it is answered from.
LEMMA OwnAttemptEnds ==
    ASSUME RoomForDrivers, RetriesWait, DriverInv, EntriesFit, NeverWaits, FailedForGood,
           EndsStand, TurnsFollowRetries, Ordered, DriverMoves,
           NEW d \in Driver, DriverStep(d), drv'[d].pc = "select", drv'[d].att # 0
    PROVE  ~ Runs(d)'
<1>0. /\ d \in DOMAIN drv /\ DriverFits(d)
      /\ drv[d] \in [pc : PC, p : Process \cup {0}, seen : Row, att : Nat,
                     tick : Nat, until : Nat, to : Target \cup {"none"}, data : Doc]
      /\ drv[d].pc \in {"maintain", "resolve", "resolving", "resolved", "claim"} => drv[d].att = 0
  BY DEF DriverInv, DrvShape, Ordered
<1>1. ~ Raise(d)
  BY <1>0 DEF Raise, Stopped
<1>2. ~ (StartDrive(d) \/ Select(d) \/ EndDrive(d) \/ Maintain(d) \/ Resolve(d) \/ Resolving(d)
         \/ Resolved(d) \/ ClaimRow(d))
  <2>1. ~ StartDrive(d)
    BY <1>0 DEF StartDrive, Stopped
  <2>2. drv[d].pc = "select" => ~ Select(d) /\ ~ EndDrive(d)
    <3>. SUFFICES ASSUME Select(d) PROVE FALSE
      BY <1>1 DEF EndDrive
    <3>1. PICK p \in Process : drv'[d] =
             [drv[d] EXCEPT !.pc = IF proc[p].status = "running" THEN "maintain" ELSE "claim",
                            !.p = p, !.seen = proc[p], !.att = 0, !.tick = Stamp(d)]
      BY <1>0 DEF Select
    <3>. QED  BY <1>0, <3>1
  <2>3. ASSUME drv[d].pc \in {"maintain", "resolve", "resolving", "resolved"},
               Maintain(d) \/ Resolve(d) \/ Resolving(d) \/ Resolved(d)
        PROVE  FALSE
    <3>1. drv[d].att = 0
      BY <1>0, <2>3
    <3>2. CASE Maintain(d)
      <4>1. PICK to : drv'[d] =
               [drv[d] EXCEPT !.pc = "resolve", !.data = ExpiryError, !.to = to]
        BY <1>0, <1>1, <3>2 DEF Maintain
      <4>. QED  BY <1>0, <3>1, <4>1
    <3>3. CASE Resolve(d) \/ Resolving(d) \/ Resolved(d)
      <4>1. Goto(d, "resolving") \/ Goto(d, "resolved") \/ Goto(d, "select") \/ Goto(d, "claim")
        BY <1>1, <3>3 DEF Resolve, Resolving, Resolved, Ask, Settled
      <4>. QED  BY <3>1, <4>1, JumpGoes
    <3>. QED  BY <2>3, <3>2, <3>3
  <2>4. ~ ClaimRow(d)
    <3>. SUFFICES ASSUME ClaimRow(d) PROVE FALSE
      OBVIOUS
    <3>1. drv'[d] = [drv[d] EXCEPT !.pc = "execute", !.tick = Stamp(d),
                                   !.att = proc[drv[d].p].attempt + 1]
      BY <1>0, <1>1 DEF ClaimRow
    <3>. QED  BY <1>0, <3>1
  <2>. QED  BY <2>1, <2>2, <2>3, <2>4 DEF Select, EndDrive, Maintain, Resolve, Resolving, Resolved
<1>3. ~ Execute(d)
  <2>. SUFFICES ASSUME Execute(d) PROVE FALSE
    OBVIOUS
  <2>1. PICK outcome \in Outcome \cup {"cancelled"} : drv'[d] =
             [drv[d] EXCEPT !.pc = AfterEffector(outcome), !.to = Verdict(d, outcome),
                    !.data = Document(d, outcome),
                    !.tick = IF outcome = "unsupported" THEN drv[d].tick ELSE Stamp(d)]
    BY <1>0 DEF Execute
  <2>2. drv'[d].pc = AfterEffector(outcome)
    BY <1>0, <2>1
  <2>. QED  BY <2>2 DEF AfterEffector
<1>4. ~ RecordViolation(d)
  BY JumpGoes DEF RecordViolation
<1>5. CASE Settling(d)
  <2>1. PICK call \in InFlight(d) : CommitTransition(call) /\ Goto(d, "select")
    BY <1>1, <1>5 DEF Settling, Settled
  <2>2. call \in inflight /\ call.client = d /\ drv[d].pc = "settling"
    BY <1>5, <2>1 DEF InFlight, Settling
  <2>3. PICK p \in Process : p = drv[d].p /\ p = call.process
    BY <1>0, <2>2 DEF Ordered, DriverFits
  <2>4. proc'[p] = MovedRow(proc[p], call.to, call.data, call.due) /\ Unchanged(p, call.seen)
    BY <2>1, <2>3 DEF CommitTransition, DriverInv, IInv, TypeOK
  <2>5. proc'[p].status # "running"
    BY <2>2, <2>3, <2>4, MovesEnd DEF TerminalStatus
  <2>. QED  BY <2>1, <2>3, <2>5, JumpGoes DEF Runs
<1>6. CASE Settle(d)
  <2>1. UNCHANGED proc /\ Goto(d, "select") /\ drv[d].pc = "settle"
    <3>1. ~ Goto(d, "settling")
      BY JumpGoes
    <3>. QED  BY <1>1, <1>6, <3>1 DEF Settle, Ask, vars
  <2>2. Runs(d)' <=> Runs(d)
    BY <2>1, JumpGoes DEF Runs
  <2>3. CASE proc[drv[d].p].status = "cancelled"
    BY <2>2, <2>3 DEF Runs
  <2>4. CASE Replays(TransitionKey(drv[d].p, drv[d].to, drv[d].tick), WorkerId[d], drv[d].tick,
                     drv[d].data, DueOf(d))
    BY <2>1, <2>2, <2>4, ReplaysAreOver
  <2>5. ~ Goto(d, "settling")
    BY JumpGoes
  <2>. QED  BY <1>1, <1>6, <2>3, <2>4, <2>5 DEF Settle, Ask
<1>. QED  BY <1>2, <1>3, <1>4, <1>5, <1>6 DEF DriverStep

\* An attempt that has ended stays ended while its driver goes on to select.
LEMMA AttemptEndsKept ==
    ASSUME RoomForDrivers, RetriesWait, DriverInv, AbsentUntried, EntriesFit, NeverWaits, Tried,
           FailedForGood, EndsStand, TurnsFollowRetries, Ordered, AttemptEnds, DriverMoves,
           [DriverNext]_driverVars
    PROVE  AttemptEnds'
<1>. SUFFICES ASSUME NEW d \in Driver, drv'[d].pc = "select", drv'[d].att # 0
              PROVE  ~ Runs(d)'
  BY DEF AttemptEnds, Runs
<1>1. CASE drv'[d] = drv[d]
  <2>1. /\ drv[d].p \in Process /\ drv[d].att <= proc[drv[d].p].attempt
        /\ drv[d].att \in Nat /\ ~ Runs(d)
    BY <1>1 DEF Tried, AttemptEnds, Runs, DriverInv, DrvShape
  <2>2. PICK p \in Process, n \in Nat : p = drv[d].p /\ n = drv[d].att
    BY <2>1
  <2>3. ~ (proc'[p].status = "running" /\ proc'[p].attempt = n)
    BY <2>1, <2>2, OverStays DEF Runs
  <2>. QED  BY <1>1, <2>2, <2>3 DEF Runs
<1>2. CASE DriverStep(d)
  BY <1>2, OwnAttemptEnds
<1>3. ASSUME NEW e \in Driver, e # d, DriverStep(e)
      PROVE  drv'[d] = drv[d]
  BY <1>3, OthersRest
<1>4. ASSUME NEW e \in Driver, Crash(e)
      PROVE  drv'[d] = drv[d]
  BY <1>4 DEF Crash, Raise, Stopped, DriverInv, DrvShape
<1>5. CASE Submit \/ RequestCancel \/ FinishCancel \/ DriverTick \/ UNCHANGED driverVars
  <2>. drv' = drv
    BY <1>5 DEF Submit, RequestCancel, FinishCancel, DriverTick, driverVars
  <2>. QED  BY <1>1
<1>. QED  BY <1>1, <1>2, <1>3, <1>4, <1>5 DEF DriverNext

\* When drive_once has returned, the attempt it executed is not still running,
\* although its settlement may be answered from the log instead of written:
\* provided that the stamps are the wall clock's, that a retry waits at least
\* a second, and that no failure leaves attempts to be retried behind.
THEOREM AttemptsEnd ==
    RoomForDrivers /\ RetriesWait /\ FailuresRetry => (DriverSpec => []AttemptEnds)
<1>. DEFINE Inv == /\ DriverInv /\ NeverWaits /\ Tried /\ FailedForGood
                   /\ EndsStand /\ TurnsFollowRetries /\ Ordered /\ AttemptEnds
<1>. SUFFICES ASSUME RoomForDrivers, RetriesWait, FailuresRetry
              PROVE  DriverSpec => []AttemptEnds
  OBVIOUS
<1>1. DriverInit => Inv
  <2>. SUFFICES ASSUME DriverInit
                PROVE  /\ NeverWaits /\ Tried /\ FailedForGood
                       /\ EndsStand /\ TurnsFollowRetries /\ Ordered /\ AttemptEnds
    BY DriverInvInit
  <2>1. /\ \A p \in Process : proc[p].status = "absent"
        /\ log = <<>> /\ inflight = {}
        /\ \A d \in Driver : drv[d].pc = "stopped" /\ drv[d].att = 0
    BY DEF DriverInit, Init, Stopped, AbsentRow
  <2>. QED  BY <2>1 DEF NeverWaits, Tried, FailedForGood, EndsStand, TurnsFollowRetries,
                Ordered, AttemptEnds
<1>2. HistoryInv /\ Inv /\ [DriverNext]_driverVars => Inv'
  <2>. SUFFICES ASSUME HistoryInv, Inv, [DriverNext]_driverVars PROVE Inv'
    OBVIOUS
  <2>1. AbsentUntried /\ EntriesFit /\ DriverMoves /\ DriverInv'
    BY DriverInduction, EveryStepGoes DEF HistoryInv
  <2>2. NeverWaits' /\ Tried' /\ FailedForGood'
    BY <2>1, NeverWaitsKept, TriedKept, FailedForGoodKept
  <2>3. EndsStand'
    BY <2>1, EndsStandKept
  <2>4. TurnsFollowRetries'
    BY <2>1, <2>3, TurnsFollowRetriesKept
  <2>5. Ordered' /\ AttemptEnds'
    BY <2>1, OrderedKept, AttemptEndsKept
  <2>. QED  BY <2>1, <2>2, <2>3, <2>4, <2>5
<1>3. DriverSpec => []HistoryInv
  BY DriversImplement, HistoryInvariant, PTL
<1>4. Inv => AttemptEnds
  OBVIOUS
<1>. QED  BY <1>1, <1>2, <1>3, <1>4, PTL DEF DriverSpec

=============================================================================
