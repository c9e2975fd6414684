-------------------------- MODULE JournalPortProofs --------------------------
(***************************************************************************)
(* What keeps a memory journal: the JSONL sink, the tee, and the memory    *)
(* runtime with its driver, for every set of runs, processes, workers,     *)
(* keys and batches, and for every path and bound.                         *)
(***************************************************************************)
EXTENDS JsonlJournal, TeeJournal, MemoryRuntime, MemoryJournalProofs

-----------------------------------------------------------------------------
(* The JSONL sink.                                                         *)

LineSound(line) == UnitsOnce(line.units) /\ UnitsRise(line.units)

\* What an earlier line of the file is to a later one.
PairSound(line, other) ==
    /\ CommandsOf(line) \cap CommandsOf(other) = {}
    /\ Garbage \notin {line, other} => line.seq < other.seq /\ NumbersPrecede(line, other)

TextSound(text) ==
    /\ \A i \in DOMAIN text : LineSound(text[i])
    /\ \A i, j \in DOMAIN text : i < j => PairSound(text[i], text[j])

\* The index would answer every line, and writes above all of them.
KnowsText(ix, text) ==
    \A i \in DOMAIN text : text[i] # Garbage => Known(ix, text[i])

\* A batch in the index that the file does not have yet.
IsPending(ix, text, batch) ==
    /\ batch # Garbage
    /\ LineSound(batch)
    /\ Known(ix, batch)
    /\ \A i \in DOMAIN text : PairSound(text[i], batch)

\* Every line of the file follows from the index that wrote it: the lines are in
\* order and without repetitions, a living index knows them all, and the batch
\* about to be written continues them.  Only a failed write leaves text behind
\* that a later line runs into.
JsonlInv ==
    /\ JsonlTypeOK
    /\ TextSound(lines)
    /\ phase \in {"open", "writing"} => KnowsText(index, lines)
    /\ \/ pending = <<>>
       \/ \E batch \in StoredBatch : pending = <<batch>> /\ IsPending(index, lines, batch)
    /\ phase = "writing" \/ pending = <<>>
    /\ errors = 0 => /\ Garbage \notin Range(lines)
                     /\ torn => phase = "closed"
                     /\ phase # "refused"

LEMMA EmptyIsIndex == EmptyIndex \in Index
<1>1. [r \in Run |-> <<>>] \in [Run -> Seq([key : Key, sequence : Nat])]
  OBVIOUS
<1>2. [p \in Process |-> AbsentRecord] \in [Process -> Record]
  BY DEF AbsentRecord, Record
<1>3. <<>> \in Seq(StoredBatch) /\ {} \in SUBSET (Run \X Key)
  OBVIOUS
<1>4. [r \in Run |-> 0] \in [Run -> Nat]
  OBVIOUS
<1>. QED  BY <1>1, <1>2, <1>3, <1>4 DEF EmptyIndex, Index

LEMMA GarbageSound ==
    /\ Garbage \in StoredBatch /\ LineSound(Garbage)
    /\ CommandsOf(Garbage) = {}
<1>1. Garbage = [seq |-> 0, run |-> NoRun, units |-> <<>>]
  BY DEF Garbage, Batch
<1>2. <<>> \in Seq(StoredUnit) /\ DOMAIN <<>> = {}
  OBVIOUS
<1>3. Garbage.units = <<>>
  BY <1>1
<1>4. Garbage \in StoredBatch
  BY <1>1, <1>2 DEF StoredBatch
<1>. QED  BY <1>2, <1>3, <1>4 DEF LineSound, UnitsOnce, UnitsRise, CommandsOf

\* What the file keeps of a text after a crash is sound as well.
LEMMA PrefixSound ==
    ASSUME NEW text \in Seq(StoredBatch), NEW n \in 0..Len(text), TextSound(text)
    PROVE  /\ SubSeq(text, 1, n) \in Seq(StoredBatch)
           /\ TextSound(SubSeq(text, 1, n))
           /\ Range(SubSeq(text, 1, n)) \subseteq Range(text)
           /\ \A ix : KnowsText(ix, text) => KnowsText(ix, SubSeq(text, 1, n))
<1>. DEFINE some == SubSeq(text, 1, n)
<1>1. n \in Nat /\ Len(text) \in Nat /\ n <= Len(text) /\ DOMAIN text = 1..Len(text)
  OBVIOUS
<1>2. some \in Seq(StoredBatch) /\ Len(some) = n /\ \A i \in 1..n : some[i] = text[i]
  <2>1. \A i \in 1..n : i \in 1..Len(text)
    BY <1>1
  <2>2. /\ some \in Seq(StoredBatch)
        /\ Len(some) = n
        /\ \A i \in 1..n : some[i] = text[i]
    <3>1. \A i \in 1..n : text[i] \in StoredBatch
      BY <1>1, <2>1
    <3>2. some = [i \in 1..n |-> text[i]]
      BY <1>1
    <3>. HIDE DEF some
    <3>3. some \in [1..n -> StoredBatch]
      BY <3>1, <3>2
    <3>4. some \in Seq(StoredBatch) /\ Len(some) = n
      BY <1>1, <3>3
    <3>. QED  BY <3>2, <3>4
  <2>. QED  BY <2>2
<1>. HIDE DEF some
<1>3. DOMAIN some = 1..n /\ \A i \in DOMAIN some : i \in DOMAIN text /\ some[i] = text[i]
  BY <1>1, <1>2
<1>4. TextSound(some)
  BY <1>3 DEF TextSound
<1>5. Range(some) \subseteq Range(text)
  BY <1>3 DEF Range
<1>6. \A ix : KnowsText(ix, text) => KnowsText(ix, some)
  BY <1>3 DEF KnowsText
<1>. QED  BY <1>2, <1>4, <1>5, <1>6 DEF some

\* A text is sound with one more line that continues it.
LEMMA AppendSound ==
    ASSUME NEW text \in Seq(StoredBatch), NEW line \in StoredBatch, TextSound(text),
           LineSound(line), \A i \in DOMAIN text : PairSound(text[i], line)
    PROVE  /\ Append(text, line) \in Seq(StoredBatch)
           /\ TextSound(Append(text, line))
           /\ Range(Append(text, line)) = Range(text) \cup {line}
           /\ \A ix : KnowsText(ix, text) /\ (line # Garbage => Known(ix, line))
                               => KnowsText(ix, Append(text, line))
<1>. DEFINE more == Append(text, line)
            n == Len(text)
<1>1. n \in Nat /\ DOMAIN text = 1..n
  OBVIOUS
<1>2. /\ more \in Seq(StoredBatch) /\ Len(more) = n + 1
      /\ more[n + 1] = line /\ \A i \in 1..n : more[i] = text[i]
  BY AppendProperties
<1>. HIDE DEF more, n
<1>3. DOMAIN more = 1..(n + 1)
  BY <1>2
<1>4. /\ \A i \in DOMAIN more : \/ i \in DOMAIN text /\ more[i] = text[i]
                                \/ i = n + 1 /\ more[i] = line
      /\ \A i \in DOMAIN text : i \in DOMAIN more /\ more[i] = text[i]
      /\ n + 1 \in DOMAIN more
  <2>1. \A i \in 1..(n + 1) : i \in 1..n \/ i = n + 1
    BY <1>1
  <2>2. n + 1 \in 1..(n + 1) /\ \A i \in 1..n : i \in 1..(n + 1)
    BY <1>1
  <2>. QED  BY <1>1, <1>2, <1>3, <2>1, <2>2
<1>5. TextSound(more)
  <2>1. \A i \in DOMAIN more : LineSound(more[i])
    BY <1>4 DEF TextSound
  <2>2. ASSUME NEW i \in DOMAIN more, NEW j \in DOMAIN more, i < j
        PROVE  PairSound(more[i], more[j])
    <3>1. i \in 1..n
      BY <1>1, <1>3, <2>2
    <3>2. CASE j \in DOMAIN text
      BY <1>1, <1>2, <2>2, <3>1, <3>2 DEF TextSound
    <3>3. CASE j = n + 1
      BY <1>1, <1>2, <3>1, <3>3
    <3>. QED  BY <1>4, <3>2, <3>3
  <2>. QED  BY <2>1, <2>2 DEF TextSound
<1>6. Range(more) = Range(text) \cup {line}
  BY <1>2, <1>4 DEF Range
<1>7. \A ix : KnowsText(ix, text) /\ (line # Garbage => Known(ix, line))
                       => KnowsText(ix, more)
  BY <1>4 DEF KnowsText
<1>. QED  BY <1>2, <1>5, <1>6, <1>7 DEF more

\* Torn text makes a line without commands, which every text may end with.
LEMMA GarbageFollows ==
    ASSUME NEW line PROVE PairSound(line, Garbage)
BY GarbageSound DEF PairSound

LEMMA KnowsMore ==
    ASSUME NEW ix \in Index, NEW later \in Index, NEW text \in Seq(StoredBatch),
           Grows(ix, later), KnowsText(ix, text)
    PROVE  KnowsText(later, text)
<1>. SUFFICES ASSUME NEW i \in DOMAIN text, text[i] # Garbage PROVE Known(later, text[i])
  BY DEF KnowsText
<1>1. PICK line \in StoredBatch : line = text[i]
  OBVIOUS
<1>2. Known(ix, line)
  BY <1>1 DEF KnowsText
<1>. QED  BY <1>1, <1>2, StaysKnown

\* A batch accepted by an index that knows the text continues the text.
LEMMA AddedFollows ==
    ASSUME NEW ix \in Index, NEW later \in Index, NEW text \in Seq(StoredBatch),
           NEW batch \in StoredBatch, KnowsText(ix, text),
           BatchAdded(ix, later, batch)
    PROVE  IsPending(later, text, batch)
<1>1. batch # Garbage
  <2>1. Garbage.seq = 0
    BY DEF Garbage, Batch
  <2>2. ix.seq \in Nat /\ batch.seq = ix.seq + 1
    BY DEF Index, BatchAdded
  <2>. QED  BY <2>1, <2>2
<1>2. LineSound(batch) /\ Known(later, batch)
  BY AddedKnown DEF LineSound, BatchAdded
<1>3. ASSUME NEW i \in DOMAIN text PROVE PairSound(text[i], batch)
  <2>1. PICK line \in StoredBatch : line = text[i]
    OBVIOUS
  <2>2. CASE line = Garbage
    BY <2>1, <2>2, GarbageSound DEF PairSound
  <2>3. CASE line # Garbage
    <3>1. Known(ix, line)
      BY <2>1, <2>3 DEF KnowsText
    <3>2. CommandsOf(line) \cap CommandsOf(batch) = {}
      BY <3>1 DEF Known, UnitKnown, BatchAdded, UnitAdded, CommandsOf
    <3>3. line.seq < batch.seq
      <4>1. ix.seq \in Nat /\ line.seq \in Nat /\ line.seq <= ix.seq
        BY <3>1 DEF Index, StoredBatch, Known
      <4>. QED  BY <4>1 DEF BatchAdded
    <3>4. NumbersPrecede(line, batch)
      <4>. SUFFICES ASSUME NEW u \in DOMAIN line.units, NEW v \in DOMAIN batch.units,
                           line.units[u].run = batch.units[v].run,
                           NEW m \in Range(line.units[u].events),
                           NEW o \in Range(batch.units[v].events)
                    PROVE  m < o
        BY DEF NumbersPrecede
      <4>1. PICK old \in StoredUnit : old = line.units[u]
        BY DEF StoredBatch
      <4>2. PICK new \in StoredUnit : new = batch.units[v]
        BY DEF StoredBatch
      <4>3. UnitKnown(ix, old) /\ UnitAdded(ix, later, new)
        BY <3>1, <4>1, <4>2 DEF Known, BatchAdded
      <4>4. PICK e \in DOMAIN old.events : m = old.events[e]
        BY <4>1 DEF Range
      <4>5. PICK f \in DOMAIN new.events : o = new.events[f]
        BY <4>2 DEF Range
      <4>6. old.run \in Run /\ old.events[e] \in Nat /\ new.events[f] \in Nat
        BY DEF StoredUnit
      <4>7. ix.last[old.run] \in Nat
        BY <4>6 DEF Index
      <4>8. m <= ix.last[old.run] /\ ix.last[new.run] < o /\ old.run = new.run
        BY <4>1, <4>2, <4>3, <4>4, <4>5 DEF UnitKnown, UnitAdded
      <4>. QED  BY <4>4, <4>5, <4>6, <4>7, <4>8
    <3>. QED  BY <2>1, <3>2, <3>3, <3>4 DEF PairSound
  <2>. QED  BY <2>2, <2>3
<1>. QED  BY <1>1, <1>2, <1>3 DEF IsPending

\* Whatever the sink writes is sound, and known to the index that writes it.
LEMMA RewrittenSound ==
    ASSUME JsonlInv
    PROVE  /\ Rewritten \in Seq(StoredBatch) /\ TextSound(Rewritten)
           /\ phase = "writing" => KnowsText(index, Rewritten)
           /\ phase = "writing" /\ errors = 0 => Garbage \notin Range(Rewritten)
<1>1. PICK text \in Seq(StoredBatch) : text = lines
  BY DEF JsonlInv, JsonlTypeOK
<1>2. PICK ix \in Index : ix = index
  BY DEF JsonlInv, JsonlTypeOK
<1>3. TextSound(text) /\ (phase = "writing" => KnowsText(ix, text))
  BY <1>1, <1>2 DEF JsonlInv
<1>4. errors = 0 => Garbage \notin Range(text)
  BY <1>1 DEF JsonlInv
<1>5. CASE torn
  <2>1. Rewritten = Append(text, Garbage)
    BY <1>1, <1>5 DEF Rewritten
  <2>2. \A i \in DOMAIN text : PairSound(text[i], Garbage)
    BY GarbageFollows
  <2>3. /\ Append(text, Garbage) \in Seq(StoredBatch)
        /\ TextSound(Append(text, Garbage))
        /\ KnowsText(ix, text) => KnowsText(ix, Append(text, Garbage))
    BY <1>3, <2>2, GarbageSound, AppendSound
  <2>4. phase = "writing" => errors # 0
    BY <1>5 DEF JsonlInv
  <2>. QED  BY <1>2, <1>3, <2>1, <2>3, <2>4
<1>6. CASE ~torn
  <2>1. CASE pending = <<>>
    <3>1. Rewritten = text
      BY <1>1, <1>6, <2>1 DEF Rewritten
    <3>. QED  BY <1>2, <1>3, <1>4, <3>1
  <2>2. CASE \E batch \in StoredBatch : pending = <<batch>> /\ IsPending(index, lines, batch)
    <3>1. PICK batch \in StoredBatch : pending = <<batch>> /\ IsPending(ix, text, batch)
      BY <1>1, <1>2, <2>2
    <3>2. Rewritten = Append(text, batch)
      BY <1>1, <1>6, <3>1 DEF Rewritten
    <3>3. /\ Append(text, batch) \in Seq(StoredBatch)
          /\ TextSound(Append(text, batch))
          /\ Range(Append(text, batch)) = Range(text) \cup {batch}
          /\ KnowsText(ix, text) /\ Known(ix, batch)
                 => KnowsText(ix, Append(text, batch))
      BY <1>3, <3>1, AppendSound DEF IsPending
    <3>. QED  BY <1>2, <1>3, <1>4, <3>1, <3>2, <3>3 DEF IsPending
  <2>. QED  BY <2>1, <2>2 DEF JsonlInv
<1>. QED  BY <1>5, <1>6

LEMMA JsonlStart == JsonlInit => JsonlInv
<1>. SUFFICES ASSUME JsonlInit PROVE JsonlInv
  OBVIOUS
<1>1. EmptyIndex \in Index
  BY EmptyIsIndex
<1>2. <<>> \in Seq(StoredBatch) /\ DOMAIN <<>> = {} /\ Range(<<>>) = {}
  BY DEF Range
<1>3. JsonlTypeOK
  <2>1. 0 \in 0..MaxErrors
    BY JsonlAssumption
  <2>2. /\ index \in Index /\ lines \in Seq(StoredBatch) /\ pending \in Seq(StoredBatch)
        /\ torn \in BOOLEAN
    BY <1>1, <1>2 DEF JsonlInit
  <2>. QED  BY <2>1, <2>2 DEF JsonlInit, JsonlTypeOK
<1>. QED  BY <1>2, <1>3 DEF JsonlInit, JsonlInv, TextSound, KnowsText

LEMMA AppendToIndexKeeps ==
    ASSUME JsonlInv, NEW batch \in Batches, AppendToIndex(batch) PROVE JsonlInv'
<1>1. PICK ix \in Index : ix = index
  BY DEF JsonlInv, JsonlTypeOK
<1>2. PICK text \in Seq(StoredBatch) : text = lines /\ text = lines'
  BY DEF JsonlInv, JsonlTypeOK, AppendToIndex
<1>3. batch \in StoredBatch
  BY BatchesAssumption
<1>4. PICK done : done = AppendBatch(ix, batch)
  OBVIOUS
<1>5. /\ done.index \in Index /\ Grows(ix, done.index)
      /\ done.answer = "accepted" =>
             done.batch \in StoredBatch /\ BatchAdded(ix, done.index, done.batch)
  BY <1>3, <1>4, Appending
<1>6. PICK later \in Index : later = done.index /\ later = index'
  BY <1>1, <1>4, <1>5 DEF AppendToIndex
<1>7. /\ phase = "open" /\ lines' = lines /\ torn' = torn /\ errors' = errors
      /\ IF done.answer = "accepted" THEN phase' = "writing" /\ pending' = <<done.batch>>
         ELSE phase' = phase /\ pending' = pending
  BY <1>1, <1>4 DEF AppendToIndex
<1>8. KnowsText(ix, text) /\ pending = <<>> /\ TextSound(text)
  BY <1>1, <1>2, <1>7 DEF JsonlInv
<1>9. KnowsText(later, text)
  BY <1>5, <1>6, <1>8, KnowsMore
<1>10. torn \in BOOLEAN /\ errors \in 0..MaxErrors
       /\ (errors = 0 => Garbage \notin Range(text) /\ ~torn)
  BY <1>2, <1>7 DEF JsonlInv, JsonlTypeOK
<1>11. CASE done.answer = "accepted"
  <2>1. PICK stored \in StoredBatch : stored = done.batch
    BY <1>5, <1>11
  <2>2. IsPending(later, text, stored)
    BY <1>5, <1>6, <1>8, <1>11, <2>1, AddedFollows
  <2>3. pending' = <<stored>> /\ phase' = "writing" /\ pending' \in Seq(StoredBatch)
    <3>1. <<stored>> \in Seq(StoredBatch)
      OBVIOUS
    <3>. QED  BY <1>7, <1>11, <2>1, <3>1
  <2>4. JsonlTypeOK'
    BY <1>2, <1>6, <1>7, <1>10, <2>3 DEF JsonlTypeOK
  <2>. QED  BY <1>2, <1>6, <1>7, <1>8, <1>9, <1>10, <2>2, <2>3, <2>4 DEF JsonlInv
<1>12. CASE done.answer # "accepted"
  <2>1. pending' = <<>> /\ phase' = "open" /\ pending' \in Seq(StoredBatch)
    BY <1>7, <1>8, <1>12
  <2>2. JsonlTypeOK'
    BY <1>2, <1>6, <1>7, <1>10, <2>1 DEF JsonlTypeOK
  <2>. QED  BY <1>2, <1>6, <1>7, <1>8, <1>9, <1>10, <2>1, <2>2 DEF JsonlInv
<1>. QED  BY <1>11, <1>12

LEMMA WriteLineKeeps == ASSUME JsonlInv, WriteLine PROVE JsonlInv'
<1>1. PICK text \in Seq(StoredBatch) : text = Rewritten
  BY RewrittenSound
<1>2. PICK ix \in Index : ix = index /\ ix = index'
  BY DEF JsonlInv, JsonlTypeOK, WriteLine
<1>3. /\ phase = "writing" /\ lines' = text /\ torn' = FALSE
      /\ phase' = "open" /\ pending' = <<>> /\ errors' = errors
  BY <1>1 DEF WriteLine
<1>4. TextSound(text) /\ KnowsText(ix, text) /\ (errors = 0 => Garbage \notin Range(text))
  BY <1>1, <1>2, <1>3, RewrittenSound
<1>5. errors \in 0..MaxErrors /\ <<>> \in Seq(StoredBatch)
  BY DEF JsonlInv, JsonlTypeOK
<1>6. JsonlTypeOK'
  BY <1>2, <1>3, <1>5 DEF JsonlTypeOK
<1>. QED  BY <1>2, <1>3, <1>4, <1>6 DEF JsonlInv

\* A beginning of a sound text is sound.
LEMMA CutOffSound ==
    ASSUME NEW text \in Seq(StoredBatch), TextSound(text), CutOff(text)
    PROVE  \E some \in Seq(StoredBatch) :
               /\ lines' = some /\ torn' \in BOOLEAN
               /\ TextSound(some) /\ Range(some) \subseteq Range(text)
               /\ \A ix : KnowsText(ix, text) => KnowsText(ix, some)
<1>1. PICK n \in 0..Len(text) : lines' = SubSeq(text, 1, n)
  BY DEF CutOff
<1>2. torn' \in BOOLEAN
  BY ONLY CutOff(text) DEF CutOff
<1>3. PICK some : some = SubSeq(text, 1, n)
  OBVIOUS
<1>4. /\ some \in Seq(StoredBatch) /\ TextSound(some) /\ Range(some) \subseteq Range(text)
      /\ \A ix : KnowsText(ix, text) => KnowsText(ix, some)
  BY <1>3, PrefixSound
<1>. QED  BY <1>1, <1>2, <1>3, <1>4

LEMMA WriteErrorKeeps == ASSUME JsonlInv, WriteError PROVE JsonlInv'
<1>1. PICK text \in Seq(StoredBatch) : text = Rewritten
  BY RewrittenSound
<1>2. PICK ix \in Index : ix = index /\ ix = index'
  BY DEF JsonlInv, JsonlTypeOK, WriteError
<1>3. /\ phase = "writing" /\ errors < MaxErrors /\ CutOff(text)
      /\ phase' = "open" /\ pending' = <<>> /\ errors' = errors + 1
  BY <1>1 DEF WriteError, CutOff
<1>4. TextSound(text) /\ KnowsText(ix, text)
  BY <1>1, <1>2, <1>3, RewrittenSound
<1>5. PICK some \in Seq(StoredBatch) :
          /\ lines' = some /\ torn' \in BOOLEAN /\ TextSound(some)
          /\ KnowsText(ix, some)
  BY <1>3, <1>4, CutOffSound
<1>6. errors' \in 0..MaxErrors /\ errors' # 0 /\ <<>> \in Seq(StoredBatch)
  <2>1. errors \in Nat /\ errors <= MaxErrors /\ MaxErrors \in Nat
    BY JsonlAssumption DEF JsonlInv, JsonlTypeOK
  <2>. QED  BY <1>3, <2>1
<1>7. JsonlTypeOK'
  BY <1>2, <1>3, <1>5, <1>6 DEF JsonlTypeOK
<1>. QED  BY <1>2, <1>3, <1>5, <1>6, <1>7 DEF JsonlInv

\* Claims and seeds move the index only, and it forgets nothing.
LEMMA IndexMoves ==
    ASSUME JsonlInv, phase = "open", UNCHANGED <<lines, torn, phase, pending, errors>>,
           NEW ix \in Index, ix = index,
           NEW later \in Index, later = index', Grows(ix, later)
    PROVE  JsonlInv'
<1>1. PICK text \in Seq(StoredBatch) : text = lines /\ text = lines'
  BY DEF JsonlInv, JsonlTypeOK
<1>2. KnowsText(ix, text) /\ pending = <<>> /\ TextSound(text)
  BY <1>1 DEF JsonlInv
<1>3. KnowsText(later, text)
  BY <1>2, KnowsMore
<1>4. JsonlTypeOK'
  BY <1>1 DEF JsonlInv, JsonlTypeOK
<1>5. errors' = 0 => Garbage \notin Range(text) /\ ~torn'
  BY <1>1 DEF JsonlInv
<1>. QED  BY <1>1, <1>2, <1>3, <1>4, <1>5 DEF JsonlInv

LEMMA ClaimKeeps ==
    ASSUME JsonlInv, NEW w \in Worker, NEW which, NEW at \in 0..MaxTime, Claim(w, which, at)
    PROVE  JsonlInv'
<1>1. PICK ix \in Index : ix = index
  BY DEF JsonlInv, JsonlTypeOK
<1>2. PICK until \in Nat : until = at + Lease
  BY ClaimsAssumption
<1>3. PICK chosen \in ReadyChoices(ix, which, at) :
          index' = ClaimNext(ix, w, which, at, until, chosen).index
  BY <1>1, <1>2 DEF Claim
<1>4. PICK done : done = ClaimNext(ix, w, which, at, until, chosen)
  OBVIOUS
<1>5. PICK rows, units : ClaimAnswer(ix, done, rows, units)
  BY <1>4, Claiming
<1>6. done.index \in Index /\ Grows(ix, done.index)
  BY <1>5, ClaimGrows
<1>7. PICK later \in Index : later = done.index /\ later = index'
  BY <1>3, <1>4, <1>6
<1>8. Grows(ix, later)
  BY <1>6, <1>7
<1>9. phase = "open" /\ UNCHANGED <<lines, torn, phase, pending, errors>>
  BY DEF Claim
<1>. QED  BY <1>1, <1>7, <1>8, <1>9, IndexMoves

LEMMA SeedKeeps ==
    ASSUME JsonlInv, NEW p \in Process, Seed(p) PROVE JsonlInv'
<1>1. PICK ix \in Index : ix = index
  BY DEF JsonlInv, JsonlTypeOK
<1>2. PICK record \in Record : record = [AbsentRecord EXCEPT !.status = "ready"]
  BY DEF AbsentRecord, Record, Status, OpenStatus
<1>3. PICK later \in Index : later = Seeded(ix, p, record)
  BY Seeding
<1>4. later = index'
  BY <1>1, <1>2, <1>3 DEF Seed
<1>5. Grows(ix, later)
  <2>1. SameHistory(ix, later)
    BY <1>3, Seeding
  <2>2. Grows(ix, ix)
    BY GrowsItself
  <2>. QED  BY <2>1, <2>2 DEF SameHistory, Grows
<1>6. phase = "open" /\ UNCHANGED <<lines, torn, phase, pending, errors>>
  BY DEF Seed
<1>. QED  BY <1>1, <1>4, <1>5, <1>6, IndexMoves

LEMMA CrashKeeps == ASSUME JsonlInv, Crash PROVE JsonlInv'
<1>1. /\ phase \in {"open", "writing"} /\ phase' = "closed" /\ pending' = <<>>
      /\ index' = EmptyIndex /\ errors' = errors
  BY DEF Crash
<1>2. PICK text \in Seq(StoredBatch) : text = IF phase = "writing" THEN Rewritten ELSE lines
  BY RewrittenSound DEF JsonlInv, JsonlTypeOK
<1>3. TextSound(text) /\ (errors = 0 => Garbage \notin Range(text))
  BY <1>2, RewrittenSound DEF JsonlInv
<1>4. PICK some \in Seq(StoredBatch) :
          /\ lines' = some /\ torn' \in BOOLEAN
          /\ TextSound(some) /\ Range(some) \subseteq Range(text)
  <2>1. CASE phase = "writing"
    <3>1. CutOff(text)
      BY <1>2, <2>1 DEF Crash, CutOff
    <3>. QED  BY <1>3, <3>1, CutOffSound
  <2>2. CASE phase # "writing"
    BY <1>2, <1>3, <2>2 DEF Crash, JsonlInv, JsonlTypeOK
  <2>. QED  BY <2>1, <2>2
<1>5. JsonlTypeOK'
  <2>1. errors \in 0..MaxErrors /\ <<>> \in Seq(StoredBatch)
    BY DEF JsonlInv, JsonlTypeOK
  <2>. QED  BY <1>1, <1>4, <2>1, EmptyIsIndex DEF JsonlTypeOK
<1>. QED  BY <1>1, <1>3, <1>4, <1>5 DEF JsonlInv

LEMMA OpenKeeps == ASSUME JsonlInv, Open PROVE JsonlInv'
<1>1. /\ phase = "closed" /\ torn' = FALSE /\ pending' = pending /\ errors' = errors
  BY DEF Open, TornAfterOpen
<1>2. PICK text \in Seq(StoredBatch) : text = lines /\ text = lines'
  BY DEF JsonlInv, JsonlTypeOK, Open
<1>3. /\ TextSound(text) /\ pending' = <<>> /\ (errors = 0 => Garbage \notin Range(text))
      /\ errors \in 0..MaxErrors /\ pending' \in Seq(StoredBatch)
  BY <1>1, <1>2 DEF JsonlInv, JsonlTypeOK
<1>4. CASE Garbage \in Range(text)
  <2>1. phase' = "refused" /\ index' = index /\ errors # 0
    BY <1>2, <1>3, <1>4 DEF Open
  <2>2. JsonlTypeOK'
    BY <1>1, <1>2, <1>3, <2>1 DEF JsonlInv, JsonlTypeOK
  <2>. QED  BY <1>1, <1>2, <1>3, <2>1, <2>2 DEF JsonlInv
<1>5. CASE Garbage \notin Range(text)
  <2>1. PICK base \in Index : base = EmptyIndex
    BY EmptyIsIndex
  <2>2. PICK ix \in Index : ix = Importing(base, text)
    BY LoadKnows
  <2>3. phase' = "open" /\ index' = ix
    BY <1>2, <1>5, <2>1, <2>2 DEF Open, Importing
  <2>4. KnowsText(ix, text)
    BY <2>2, LoadKnows DEF KnowsText
  <2>5. JsonlTypeOK'
    BY <1>1, <1>2, <1>3, <2>3 DEF JsonlTypeOK
  <2>. QED  BY <1>1, <1>2, <1>3, <1>5, <2>3, <2>4, <2>5 DEF JsonlInv
<1>. QED  BY <1>4, <1>5

LEMMA CrashInOpenKeeps == ASSUME JsonlInv, CrashInOpen PROVE JsonlInv'
<1>1. /\ phase = "closed" /\ UNCHANGED <<index, phase, pending, errors>>
  BY DEF CrashInOpen
<1>2. PICK text \in Seq(StoredBatch) : text = lines
  BY DEF JsonlInv, JsonlTypeOK
<1>3. TextSound(text) /\ CutOff(text) /\ (errors = 0 => Garbage \notin Range(text))
  BY <1>2 DEF JsonlInv, CrashInOpen, CutOff
<1>4. PICK some \in Seq(StoredBatch) :
          /\ lines' = some /\ torn' \in BOOLEAN
          /\ TextSound(some) /\ Range(some) \subseteq Range(text)
  BY <1>3, CutOffSound
<1>5. JsonlTypeOK'
  BY <1>1, <1>4 DEF JsonlInv, JsonlTypeOK
<1>. QED  BY <1>1, <1>3, <1>4, <1>5 DEF JsonlInv

LEMMA JsonlStep == JsonlInv /\ [JsonlNext]_jsonlVars => JsonlInv'
<1>. SUFFICES ASSUME JsonlInv, [JsonlNext]_jsonlVars PROVE JsonlInv'
  OBVIOUS
<1>1. ASSUME NEW batch \in Batches, AppendToIndex(batch) PROVE JsonlInv'
  BY <1>1, AppendToIndexKeeps
<1>2. CASE WriteLine
  BY <1>2, WriteLineKeeps
<1>3. CASE WriteError
  BY <1>3, WriteErrorKeeps
<1>4. ASSUME NEW w \in Worker, NEW which \in {{r} : r \in Run} \cup {Run},
             NEW at \in 0..MaxTime, Claim(w, which, at)
      PROVE  JsonlInv'
  BY <1>4, ClaimKeeps
<1>5. ASSUME NEW p \in Process, Seed(p) PROVE JsonlInv'
  BY <1>5, SeedKeeps
<1>6. CASE Crash
  BY <1>6, CrashKeeps
<1>7. CASE Open
  BY <1>7, OpenKeeps
<1>8. CASE CrashInOpen
  BY <1>8, CrashInOpenKeeps
<1>9. CASE UNCHANGED jsonlVars
  BY <1>9 DEF jsonlVars, JsonlInv, JsonlTypeOK
<1>. QED  BY <1>1, <1>2, <1>3, <1>4, <1>5, <1>6, <1>7, <1>8, <1>9 DEF JsonlNext

\* JsonlInv holds in every state of the sink, whatever crashed or failed: its
\* parts keep their shape, and the file and a living index belong together.
THEOREM JsonlInvariant == JsonlSpec => []JsonlInv
<1>. QED  BY JsonlStart, JsonlStep, PTL DEF JsonlSpec

\* No key of a run is on two units of the file: append_batch refuses what the
\* index knows, and a living index knows every line it will be written after.
THEOREM FileKeysAreOnce == JsonlSpec => []FileKeysOnce
<1>1. JsonlInv => FileKeysOnce
  <2>. SUFFICES ASSUME JsonlInv PROVE FileKeysOnce
    OBVIOUS
  <2>1. PICK text \in Seq(StoredBatch) : text = lines /\ TextSound(text)
    BY DEF JsonlInv, JsonlTypeOK
  <2>2. ASSUME NEW i \in DOMAIN text
        PROVE  IsInjective([u \in DOMAIN text[i].units |-> Command(text[i].units[u])])
    BY <2>1 DEF TextSound, LineSound, UnitsOnce, IsInjective
  <2>3. ASSUME NEW i \in DOMAIN text, NEW j \in DOMAIN text, i # j
        PROVE  CommandsOf(text[i]) \cap CommandsOf(text[j]) = {}
    <3>1. i \in Nat /\ j \in Nat
      OBVIOUS
    <3>2. CASE i < j
      BY <2>1, <3>2 DEF TextSound, PairSound
    <3>3. CASE j < i
      BY <2>1, <3>3 DEF TextSound, PairSound
    <3>. QED  BY <2>3, <3>1, <3>2, <3>3
  <2>. QED  BY <2>1, <2>2, <2>3 DEF FileKeysOnce
<1>. QED  BY <1>1, JsonlInvariant, PTL

\* Read from top to bottom, the file has the events of each run, and the batches,
\* in the order of their numbers: an index that is opened again numbers on above
\* every line, although claims it has lost leave gaps.
THEOREM FileIsInOrder == JsonlSpec => []FileInOrder
<1>1. JsonlInv => FileInOrder
  <2>. SUFFICES ASSUME JsonlInv PROVE FileInOrder
    OBVIOUS
  <2>1. PICK text \in Seq(StoredBatch) : text = lines /\ TextSound(text)
    BY DEF JsonlInv, JsonlTypeOK
  <2>2. ASSUME NEW i \in DOMAIN text PROVE NumbersRise(text[i])
    <3>1. UnitsRise(text[i].units)
      BY <2>1 DEF TextSound, LineSound
    <3>. QED  BY <3>1 DEF UnitsRise, NumbersRise
  <2>3. ASSUME NEW i \in DOMAIN text, NEW j \in DOMAIN text, i < j,
               Garbage \notin {text[i], text[j]}
        PROVE  text[i].seq < text[j].seq /\ NumbersPrecede(text[i], text[j])
    BY <2>1, <2>3 DEF TextSound, PairSound
  <2>. QED  BY <2>1, <2>2, <2>3 DEF FileInOrder
<1>. QED  BY <1>1, JsonlInvariant, PTL

\* load and the replay check of an open journal know every line of its file, the
\* lines that were written before a crash included.
THEOREM IndexKnowsItsFile == JsonlSpec => []IndexKnowsFile
<1>1. JsonlInv => IndexKnowsFile
  <2>. SUFFICES ASSUME JsonlInv, phase = "open", NEW line \in Range(lines) \ {Garbage}
                PROVE  line \in Range(index.batches) /\ CommandsOf(line) \subseteq index.commands
    BY DEF IndexKnowsFile
  <2>1. PICK i \in DOMAIN lines : line = lines[i]
    BY DEF Range
  <2>2. Known(index, line)
    BY <2>1 DEF JsonlInv, KnowsText
  <2>. QED  BY <2>2 DEF Known, UnitKnown, CommandsOf
<1>. QED  BY <1>1, JsonlInvariant, PTL

\* Torn text is dropped by every open that succeeds, so without a failed write no
\* line runs into it, and the journal opens after every crash.
THEOREM CrashesNeverRefuseOpen == JsonlSpec => []CrashesNeverRefuse
<1>1. JsonlInv => CrashesNeverRefuse
  BY DEF JsonlInv, CrashesNeverRefuse
<1>. QED  BY <1>1, JsonlInvariant, PTL

-----------------------------------------------------------------------------
(* The tee.                                                                *)

\* No batch of the callers repeats a key.  One that does is an error which the
\* primary raises half way, with the units before it recorded, and the secondary
\* never sees: the two then differ.
CallersRepeatNoKey == \A batch \in Batches : UnitsOnce(batch.units)

TeeInv == TeeTypeOK /\ SameHistory(primary, secondary)

\* The secondary after a call of the primary that appended a batch.
LEMMA MirrorKeeps ==
    ASSUME NEW moved \in Index, NEW other \in Index, SameHistory(moved, other),
           NEW batch \in StoredBatch, batch.units # <<>>, UnitsOnce(batch.units)
    PROVE  LET done == AppendBatch(moved, batch)
           IN  /\ done.index \in Index /\ Mirrored(other, done) \in Index
               /\ SameHistory(done.index, Mirrored(other, done))
<1>1. PICK done : done = AppendBatch(moved, batch)
  OBVIOUS
<1>2. done.index \in Index /\ (done.answer = "accepted" => done.batch \in StoredBatch)
  BY <1>1, Appending
<1>3. IF done.answer = "accepted"
      THEN SameHistory(done.index, AppendBatch(other, done.batch).index)
      ELSE SameHistory(done.index, other)
  BY <1>1, AppendMirrored
<1>4. CASE done.answer = "accepted"
  <2>1. PICK stored \in StoredBatch : stored = done.batch
    BY <1>2, <1>4
  <2>2. AppendBatch(other, stored).index \in Index
    BY Appending
  <2>. QED  BY <1>1, <1>2, <1>3, <1>4, <2>1, <2>2 DEF Mirrored
<1>5. CASE done.answer # "accepted"
  BY <1>1, <1>2, <1>3, <1>5 DEF Mirrored
<1>. QED  BY <1>4, <1>5

LEMMA TeeStart == TeeInit => TeeInv
BY EmptyIsIndex DEF TeeInit, TeeInv, TeeTypeOK, SameHistory

LEMMA TeeAppendKeeps ==
    ASSUME CallersRepeatNoKey, TeeInv, NEW batch \in Batches, TeeAppend(batch) PROVE TeeInv'
<1>1. PICK ix \in Index : ix = primary
  BY DEF TeeInv, TeeTypeOK
<1>2. PICK other \in Index : other = secondary
  BY DEF TeeInv, TeeTypeOK
<1>3. PICK done : done = AppendBatch(ix, batch)
  OBVIOUS
<1>4. batch \in StoredBatch /\ batch.units # <<>> /\ UnitsOnce(batch.units)
  BY BatchesAssumption DEF CallersRepeatNoKey
<1>5. SameHistory(ix, other)
  BY <1>1, <1>2 DEF TeeInv
<1>6. /\ done.index \in Index /\ Mirrored(other, done) \in Index
      /\ SameHistory(done.index, Mirrored(other, done))
  BY <1>3, <1>4, <1>5, MirrorKeeps
<1>7. primary' = done.index /\ secondary' = Mirrored(other, done)
  BY <1>1, <1>2, <1>3 DEF TeeAppend
<1>. QED  BY <1>6, <1>7 DEF TeeInv, TeeTypeOK

LEMMA TeeClaimKeeps ==
    ASSUME TeeInv, NEW w \in Worker, NEW which, NEW at \in 0..MaxTime, TeeClaim(w, which, at)
    PROVE  TeeInv'
<1>1. PICK ix \in Index : ix = primary
  BY DEF TeeInv, TeeTypeOK
<1>2. PICK other \in Index : other = secondary
  BY DEF TeeInv, TeeTypeOK
<1>3. PICK until \in Nat : until = at + Lease
  BY ClaimsAssumption
<1>4. PICK chosen \in ReadyChoices(ix, which, at) :
          LET done == ClaimNext(ix, w, which, at, until, chosen)
          IN  primary' = done.index /\ secondary' = Mirrored(other, done)
  BY <1>1, <1>2, <1>3 DEF TeeClaim
<1>5. PICK done : done = ClaimNext(ix, w, which, at, until, chosen)
  OBVIOUS
<1>6. primary' = done.index /\ secondary' = Mirrored(other, done)
  BY <1>4, <1>5
<1>7. PICK rows, units : ClaimAnswer(ix, done, rows, units)
  BY <1>5, Claiming
<1>8. SameHistory(ix, other)
  BY <1>1, <1>2 DEF TeeInv
<1>9. CASE units = <<>>
  <2>1. done.index = ix /\ done.answer = "empty"
    BY <1>7, <1>9 DEF ClaimAnswer
  <2>. QED  BY <1>6, <1>8, <2>1 DEF Mirrored, TeeInv, TeeTypeOK
<1>10. CASE units # <<>>
  <2>1. PICK moved \in Index, batch \in StoredBatch :
                /\ SameHistory(ix, moved)
                /\ batch.units # <<>> /\ UnitsOnce(batch.units)
                /\ done = AppendBatch(moved, batch)
    BY <1>7, <1>10 DEF ClaimAnswer
  <2>2. SameHistory(moved, other)
    BY <1>8, <2>1 DEF SameHistory
  <2>3. /\ done.index \in Index /\ Mirrored(other, done) \in Index
        /\ SameHistory(done.index, Mirrored(other, done))
    BY <2>1, <2>2, MirrorKeeps
  <2>. QED  BY <1>6, <2>3 DEF TeeInv, TeeTypeOK
<1>. QED  BY <1>9, <1>10

LEMMA TeeSeedKeeps ==
    ASSUME TeeInv, NEW p \in Process, TeeSeed(p) PROVE TeeInv'
<1>1. PICK ix \in Index : ix = primary
  BY DEF TeeInv, TeeTypeOK
<1>2. PICK other \in Index : other = secondary
  BY DEF TeeInv, TeeTypeOK
<1>3. PICK record \in Record : record = [AbsentRecord EXCEPT !.status = "ready"]
  BY DEF AbsentRecord, Record, Status, OpenStatus
<1>4. primary' = Seeded(ix, p, record) /\ secondary' = Seeded(other, p, record)
  BY <1>1, <1>2, <1>3 DEF TeeSeed
<1>5. /\ Seeded(ix, p, record) \in Index /\ Seeded(other, p, record) \in Index
      /\ SameHistory(ix, Seeded(ix, p, record))
      /\ SameHistory(other, Seeded(other, p, record))
  BY Seeding
<1>6. SameHistory(ix, other)
  BY <1>1, <1>2 DEF TeeInv
<1>7. SameHistory(Seeded(ix, p, record), Seeded(other, p, record))
  BY <1>5, <1>6 DEF SameHistory
<1>. QED  BY <1>4, <1>5, <1>7 DEF TeeInv, TeeTypeOK

\* As long as callers repeat no key within a batch, both journals keep the same
\* history: the secondary numbers what it is given as the primary did.
THEOREM SecondaryIsMirror == CallersRepeatNoKey => (TeeSpec => []SecondaryMirrors)
<1>. SUFFICES ASSUME CallersRepeatNoKey PROVE TeeSpec => []SecondaryMirrors
  OBVIOUS
<1>1. TeeInv /\ [TeeNext]_teeVars => TeeInv'
  <2>. SUFFICES ASSUME TeeInv, [TeeNext]_teeVars PROVE TeeInv'
    OBVIOUS
  <2>1. ASSUME NEW batch \in Batches, TeeAppend(batch) PROVE TeeInv'
    BY <2>1, TeeAppendKeeps
  <2>2. ASSUME NEW w \in Worker, NEW which \in {{r} : r \in Run} \cup {Run},
               NEW at \in 0..MaxTime, TeeClaim(w, which, at)
        PROVE  TeeInv'
    BY <2>2, TeeClaimKeeps
  <2>3. ASSUME NEW p \in Process, TeeSeed(p) PROVE TeeInv'
    BY <2>3, TeeSeedKeeps
  <2>4. CASE UNCHANGED teeVars
    BY <2>4 DEF teeVars, TeeInv, TeeTypeOK
  <2>. QED  BY <2>1, <2>2, <2>3, <2>4 DEF TeeNext
<1>2. TeeInv => SecondaryMirrors
  BY DEF TeeInv, SameHistory, SecondaryMirrors, History
<1>. QED  BY <1>1, <1>2, TeeStart, PTL DEF TeeSpec

-----------------------------------------------------------------------------
(* The memory runtime.  Whatever one of its calls does to the processes,   *)
(* it does by telling events one after the other: each under a new key of  *)
(* one process, whose record is written with it.                           *)

\* Where the events of p are among those of its run.
Positions(ix, p) ==
    {i \in DOMAIN ix.events[RunOf[p]] :
        LET key == ix.events[RunOf[p]][i].key
        IN  key[1] \notin {"run.create", "run.status.set"} /\ key[2] = p}

KeyUsed(ix, p, key) == <<RunOf[p], key>> \in ix.commands

\* The used keys of p follow from its record, so that of what may come next is free.
KeysFit(ix, p) ==
    LET row == ix.processes[p]
    IN  /\ KeyUsed(ix, p, ScheduleKey(p)) <=> row.status # "absent"
        /\ KeyUsed(ix, p, ReadyKey(p)) => row.status \notin {"absent", "pending"}
        /\ \A n \in Nat :
            /\ KeyUsed(ix, p, ClaimKey(p, n)) => row.status # "absent" /\ n <= row.attempt
            /\ KeyUsed(ix, p, CompleteKey(p, n)) => row.status = "succeeded"
            /\ KeyUsed(ix, p, FailKey(p, n)) => row.status = "failed"

\* The last event of p is the one its record was written with.
LastTold(ix, p) ==
    LET status == ix.processes[p].status
        told == Positions(ix, p)
    IN  IF told = {} THEN status = "absent"
        ELSE /\ status # "absent"
             /\ status = Says(p, ix.events[RunOf[p]][Max(told)].key[1])

\* A process that is due has all its upstreams settled.
Conducted(ix, p) ==
    ix.processes[p].status \notin {"absent", "pending"} =>
        \A q \in Upstream[p] : ix.processes[q].status \in TerminalStatus

RowSound(ix, p) ==
    /\ ix.processes[p].attempt <= MaxAttempts[p]
    /\ KeysFit(ix, p)
    /\ LastTold(ix, p)
    /\ Conducted(ix, p)

Sound(ix) == \A p \in Process : RowSound(ix, p)

\* Between two calls a path is in the journal as a whole or not at all.
AllOrNone(ix) ==
    \A p, q \in Process :
        RunOf[p] = RunOf[q] =>
            (ix.processes[p].status = "absent" <=> ix.processes[q].status = "absent")

\* A drive is some worker's.
DriveKnown == drive.at # "none" => drive.worker \in Worker

RuntimeInv == RuntimeTypeOK /\ DriveKnown /\ Sound(journal) /\ AllOrNone(journal)

\* A command of a run with its one event.
Said(ix, new, run, key) ==
    /\ new.commands = ix.commands \cup {<<run, key>>}
    /\ \E e : e.key = key /\ new.events = [ix.events EXCEPT ![run] = Append(@, e)]

LEMMA Journaling ==
    ASSUME NEW ix \in Index, NEW run \in Run, NEW key \in Key
    PROVE  /\ Journaled(ix, run, key) \in Index
           /\ Journaled(ix, run, key).processes = ix.processes
           /\ <<run, key>> \in ix.commands => Journaled(ix, run, key) = ix
           /\ <<run, key>> \notin ix.commands => Said(ix, Journaled(ix, run, key), run, key)
<1>1. PICK unit : unit = Unit(run, key, 1)
  OBVIOUS
<1>2. /\ unit \in StoredUnit /\ unit.run = run /\ unit.key = key /\ Len(unit.events) = 1
      /\ Command(unit) = <<run, key>>
  <2>1. [i \in 1..1 |-> 0] \in Seq(Nat) /\ Len([i \in 1..1 |-> 0]) = 1
    <3>1. [i \in 1..1 |-> 0] \in [1..1 -> Nat]
      OBVIOUS
    <3>. QED  BY <3>1
  <2>. QED  BY <1>1, <2>1 DEF Unit, StoredUnit, Command
<1>3. PICK batch : batch = Batch(run, <<unit>>)
  OBVIOUS
<1>4. /\ batch \in StoredBatch /\ batch.units = <<unit>> /\ <<unit>> \in Seq(StoredUnit)
      /\ DOMAIN <<unit>> = 1..1 /\ Len(<<unit>>) = 1 /\ <<unit>>[1] = unit
      /\ \A i \in 1..1 : i = 1
  BY <1>2, <1>3 DEF Batch, StoredBatch
<1>5. PICK done : done = AppendBatch(ix, batch)
  OBVIOUS
<1>6. Journaled(ix, run, key) = done.index
  BY <1>1, <1>3, <1>5 DEF Journaled
<1>7. done.index \in Index /\ done.index.processes = ix.processes
  BY <1>4, <1>5, Appending
<1>8. ASSUME <<run, key>> \in ix.commands PROVE done.index = ix
  <2>1. Replays(ix, batch)
    BY <1>2, <1>4, <1>8 DEF Replays
  <2>. QED  BY <1>4, <1>5, <2>1, Refusing
<1>9. ASSUME <<run, key>> \notin ix.commands PROVE Said(ix, done.index, run, key)
  <2>1. UnitsOnce(batch.units) /\ batch.units # <<>>
    BY <1>4 DEF UnitsOnce
  <2>2. \A i \in DOMAIN batch.units : Command(batch.units[i]) \notin ix.commands
    BY <1>2, <1>4, <1>9
  <2>3. PICK h, out : AppendsAll(ix, batch, h, out)
    BY <1>4, <2>1, <2>2, AppendingAll
  <2>4. /\ WholeLoop(h, ix, <<unit>>, out)
        /\ done.index.commands = h[1].index.commands /\ done.index.events = h[1].index.events
    BY <1>4, <1>5, <2>3 DEF AppendsAll
  <2>5. PICK k : k = 1 /\ k - 1 = 0 /\ k \in 1..Len(<<unit>>)
    BY <1>4
  <2>6. PICK units \in Seq(StoredUnit) : units = <<unit>> /\ unit = units[k] /\ k \in 1..Len(units)
    BY <1>4, <2>5
  <2>7. Turned(h, k, run, key)
    <3>1. WholeLoop(h, ix, units, out)
      BY <2>4, <2>6
    <3>2. Turned(h, k, unit.run, unit.key)
      BY <1>2, <2>6, <3>1, LoopTurn
    <3>. QED  BY <1>2, <3>2
  <2>8. h[0].index = ix
    BY <2>4 DEF WholeLoop, Start
  <2>. QED  BY <2>4, <2>5, <2>7, <2>8 DEF Said, Turned
<1>. QED  BY <1>6, <1>7, <1>8, <1>9

\* The loop of instantiate_path, and that of advance over its plan.
Scheduling(b, s) == FoldLeft(Scheduled, b, s)

IsScheduling(h, D, b, s) ==
    /\ h \in [0..Len(s) -> D]
    /\ h[0] = b /\ h[Len(s)] = Scheduling(b, s)
    /\ \A i \in 1..Len(s) : h[i] = Scheduled(h[i-1], s[i])

LEMMA ScheduleSteps ==
    ASSUME NEW D, NEW E, \A d \in D, e \in E : Scheduled(d, e) \in D,
           NEW b \in D, NEW s \in Seq(E)
    PROVE  \E h : IsScheduling(h, D, b, s)
<1>. DEFINE n == Len(s)
            G == [x \in D \X E |-> Scheduled(x[1], x[2])]
            Is(g) == g = [T \in SUBSET DOMAIN s |->
                            IF T = {} THEN b
                            ELSE Scheduled(g[T \ {Max(T)}], s[Max(T)])]
            f == CHOOSE g : Is(g)
<1>1. n \in Nat /\ DOMAIN s = 1..n /\ s \in [1..n -> E] /\ G \in [D \X E -> D]
  OBVIOUS
<1>2. \A d \in D, e \in E : G[<<d, e>>] = Scheduled(d, e)
  OBVIOUS
<1>3. Scheduling(b, s) = f[DOMAIN s]
  BY DEF Scheduling, FoldLeft, MapThenFoldSet
<1>. HIDE DEF G, n
<1>4. \E g : Is(g)
  <2>1. PICK g : IsFold(g, D, G, b, s, n)
    BY <1>1, FoldExists
  <2>2. /\ g \in [SUBSET (1..n) -> D] /\ g[{}] = b
        /\ \A T \in SUBSET (1..n) : T # {} => g[T] = G[<<g[T \ {Max(T)}], s[Max(T)]>>]
    BY <2>1 DEF IsFold
  <2>3. ASSUME NEW T \in SUBSET (1..n), T # {}
        PROVE  g[T] = Scheduled(g[T \ {Max(T)}], s[Max(T)])
    <3>1. Max(T) \in 1..n /\ T \ {Max(T)} \in SUBSET (1..n)
      BY <1>1, <2>3, SubsetsUpTo
    <3>. QED  BY <1>1, <1>2, <2>2, <2>3, <3>1
  <2>4. g = [T \in SUBSET (1..n) |-> g[T]]
    BY <2>2
  <2>5. Is(g)
    BY <1>1, <2>2, <2>3, <2>4
  <2>. QED  BY <2>5
<1>5. Is(f)
  <2>. HIDE DEF Is
  <2>. QED  BY <1>4
<1>. HIDE DEF f
<1>6. f[{}] = b
  BY <1>1, <1>5
<1>7. ASSUME NEW T \in SUBSET (1..n), T # {}, f[T \ {Max(T)}] \in D
      PROVE  f[T] = G[<<f[T \ {Max(T)}], s[Max(T)]>>]
  <2>1. Max(T) \in 1..n
    BY <1>1, <1>7, SubsetsUpTo
  <2>2. f[T] = Scheduled(f[T \ {Max(T)}], s[Max(T)])
    BY <1>1, <1>5, <1>7
  <2>. QED  BY <1>1, <1>2, <1>7, <2>1, <2>2
<1>8. PICK h : IsChain(h, f, D, G, b, s, n)
  <2>1. Recurses(f, D, G, b, s, n)
    BY <1>6, <1>7 DEF Recurses
  <2>. QED  BY <1>1, <2>1, FoldChain
<1>9. /\ h \in [0..n -> D] /\ h[0] = b /\ h[n] = f[1..n]
      /\ \A i \in 1..n : h[i] = G[<<h[i-1], s[i]>>]
  BY <1>8 DEF IsChain
<1>10. \A i \in 1..n : h[i] = Scheduled(h[i-1], s[i])
  <2>. SUFFICES ASSUME NEW i \in 1..n PROVE h[i] = Scheduled(h[i-1], s[i])
    OBVIOUS
  <2>1. h[i-1] \in D /\ s[i] \in E
    BY <1>1, <1>9, FirstNumbers
  <2>. QED  BY <1>2, <1>9, <2>1
<1>. QED  BY <1>1, <1>3, <1>9, <1>10 DEF n, IsScheduling

Readying(b, s) == FoldLeft(MadeReady, b, s)

IsReadying(h, D, b, s) ==
    /\ h \in [0..Len(s) -> D]
    /\ h[0] = b /\ h[Len(s)] = Readying(b, s)
    /\ \A i \in 1..Len(s) : h[i] = MadeReady(h[i-1], s[i])

LEMMA ReadySteps ==
    ASSUME NEW D, NEW E, \A d \in D, e \in E : MadeReady(d, e) \in D,
           NEW b \in D, NEW s \in Seq(E)
    PROVE  \E h : IsReadying(h, D, b, s)
<1>. DEFINE n == Len(s)
            G == [x \in D \X E |-> MadeReady(x[1], x[2])]
            Is(g) == g = [T \in SUBSET DOMAIN s |->
                            IF T = {} THEN b
                            ELSE MadeReady(g[T \ {Max(T)}], s[Max(T)])]
            f == CHOOSE g : Is(g)
<1>1. n \in Nat /\ DOMAIN s = 1..n /\ s \in [1..n -> E] /\ G \in [D \X E -> D]
  OBVIOUS
<1>2. \A d \in D, e \in E : G[<<d, e>>] = MadeReady(d, e)
  OBVIOUS
<1>3. Readying(b, s) = f[DOMAIN s]
  BY DEF Readying, FoldLeft, MapThenFoldSet
<1>. HIDE DEF G, n
<1>4. \E g : Is(g)
  <2>1. PICK g : IsFold(g, D, G, b, s, n)
    BY <1>1, FoldExists
  <2>2. /\ g \in [SUBSET (1..n) -> D] /\ g[{}] = b
        /\ \A T \in SUBSET (1..n) : T # {} => g[T] = G[<<g[T \ {Max(T)}], s[Max(T)]>>]
    BY <2>1 DEF IsFold
  <2>3. ASSUME NEW T \in SUBSET (1..n), T # {}
        PROVE  g[T] = MadeReady(g[T \ {Max(T)}], s[Max(T)])
    <3>1. Max(T) \in 1..n /\ T \ {Max(T)} \in SUBSET (1..n)
      BY <1>1, <2>3, SubsetsUpTo
    <3>. QED  BY <1>1, <1>2, <2>2, <2>3, <3>1
  <2>4. g = [T \in SUBSET (1..n) |-> g[T]]
    BY <2>2
  <2>5. Is(g)
    BY <1>1, <2>2, <2>3, <2>4
  <2>. QED  BY <2>5
<1>5. Is(f)
  <2>. HIDE DEF Is
  <2>. QED  BY <1>4
<1>. HIDE DEF f
<1>6. f[{}] = b
  BY <1>1, <1>5
<1>7. ASSUME NEW T \in SUBSET (1..n), T # {}, f[T \ {Max(T)}] \in D
      PROVE  f[T] = G[<<f[T \ {Max(T)}], s[Max(T)]>>]
  <2>1. Max(T) \in 1..n
    BY <1>1, <1>7, SubsetsUpTo
  <2>2. f[T] = MadeReady(f[T \ {Max(T)}], s[Max(T)])
    BY <1>1, <1>5, <1>7
  <2>. QED  BY <1>1, <1>2, <1>7, <2>1, <2>2
<1>8. PICK h : IsChain(h, f, D, G, b, s, n)
  <2>1. Recurses(f, D, G, b, s, n)
    BY <1>6, <1>7 DEF Recurses
  <2>. QED  BY <1>1, <2>1, FoldChain
<1>9. /\ h \in [0..n -> D] /\ h[0] = b /\ h[n] = f[1..n]
      /\ \A i \in 1..n : h[i] = G[<<h[i-1], s[i]>>]
  BY <1>8 DEF IsChain
<1>10. \A i \in 1..n : h[i] = MadeReady(h[i-1], s[i])
  <2>. SUFFICES ASSUME NEW i \in 1..n PROVE h[i] = MadeReady(h[i-1], s[i])
    OBVIOUS
  <2>1. h[i-1] \in D /\ s[i] \in E
    BY <1>1, <1>9, FirstNumbers
  <2>. QED  BY <1>2, <1>9, <2>1
<1>. QED  BY <1>1, <1>3, <1>9, <1>10 DEF n, IsReadying

\* The keys of a process, all of which have it in second place.
IsOf(key, p) == key[1] \notin {"run.create", "run.status.set"} /\ key[2] = p

LEMMA KeysAreOf ==
    ASSUME NEW p, NEW n
    PROVE  /\ IsOf(ScheduleKey(p), p) /\ IsOf(ReadyKey(p), p)
           /\ IsOf(ClaimKey(p, n), p) /\ IsOf(CompleteKey(p, n), p) /\ IsOf(FailKey(p, n), p)
BY DEF IsOf, ScheduleKey, ReadyKey, ClaimKey, CompleteKey, FailKey

\* What one more event of a run does to the positions of a process: it adds one at
\* the end, or none.
LEMMA SaidPositions ==
    ASSUME NEW ix \in Index, NEW new \in Index, NEW run \in Run, NEW key,
           Said(ix, new, run, key), NEW p \in Process
    PROVE  LET n == Len(ix.events[RunOf[p]])
           IN  /\ n \in Nat /\ Positions(ix, p) \in SUBSET (1..n)
               /\ \A i \in Positions(ix, p) : new.events[RunOf[p]][i] = ix.events[RunOf[p]][i]
               /\ RunOf[p] # run \/ ~ IsOf(key, p) => Positions(new, p) = Positions(ix, p)
               /\ RunOf[p] = run /\ IsOf(key, p) =>
                      /\ Positions(new, p) = Positions(ix, p) \cup {n + 1}
                      /\ new.events[run][n + 1].key = key
<1>1. PICK e : e.key = key /\ new.events = [ix.events EXCEPT ![run] = Append(@, e)]
  BY DEF Said
<1>2. RunOf[p] \in Run
  BY RunOfAssumption
<1>3. PICK Row : Row = [key : Key, sequence : Nat]
  OBVIOUS
<1>4. ix.events \in [Run -> Seq(Row)] /\ new.events \in [Run -> Seq(Row)]
  BY <1>3 DEF Index
<1>5. PICK old \in Seq(Row) : old = ix.events[RunOf[p]]
  BY <1>2, <1>4
<1>6. PICK n \in Nat : n = Len(old) /\ DOMAIN old = 1..n
  BY <1>5
<1>7. \A i \in Positions(ix, p) : i \in 1..n /\ IsOf(old[i].key, p)
  BY <1>5, <1>6 DEF Positions, IsOf
<1>8. CASE RunOf[p] # run
  <2>1. new.events[RunOf[p]] = old
    BY <1>1, <1>2, <1>4, <1>5, <1>8
  <2>2. Positions(new, p) = Positions(ix, p)
    BY <1>5, <2>1 DEF Positions
  <2>. QED  BY <1>5, <1>6, <1>7, <1>8, <2>1, <2>2
<1>9. CASE RunOf[p] = run
  <2>1. PICK later \in Seq(Row) : later = new.events[run]
    BY <1>4
  <2>2. later = Append(old, e)
    BY <1>1, <1>4, <1>5, <1>9, <2>1
  <2>3. Len(later) = n + 1 /\ later[n + 1] = e /\ \A i \in 1..n : later[i] = old[i]
    <3>1. /\ Len(Append(old, e)) = Len(old) + 1 /\ Append(old, e)[Len(old) + 1] = e
          /\ \A i \in 1..Len(old) : Append(old, e)[i] = old[i]
      OBVIOUS
    <3>. QED  BY <1>6, <2>2, <3>1
  <2>4. DOMAIN later = 1..(n + 1)
    BY <2>1, <2>3
  <2>5. \A i \in 1..(n + 1) : i \in 1..n \/ i = n + 1
    BY <1>6
  <2>6. n + 1 \in 1..(n + 1) /\ \A i \in 1..n : i \in 1..(n + 1)
    BY <1>6
  <2>7. Positions(new, p) = {i \in 1..(n + 1) : IsOf(later[i].key, p)}
    BY <1>9, <2>1, <2>4 DEF Positions, IsOf
  <2>8. Positions(ix, p) = {i \in 1..n : IsOf(old[i].key, p)}
    BY <1>5, <1>6 DEF Positions, IsOf
  <2>9. CASE IsOf(key, p)
    <3>1. Positions(new, p) = Positions(ix, p) \cup {n + 1}
      BY <1>1, <2>3, <2>5, <2>6, <2>7, <2>8, <2>9
    <3>. QED  BY <1>1, <1>5, <1>6, <1>7, <1>9, <2>1, <2>3, <2>9, <3>1
  <2>10. CASE ~ IsOf(key, p)
    <3>1. Positions(new, p) = Positions(ix, p)
      BY <1>1, <2>3, <2>5, <2>6, <2>7, <2>8, <2>10
    <3>. QED  BY <1>5, <1>6, <1>7, <1>9, <2>1, <2>3, <2>10, <3>1
  <2>. QED  BY <2>9, <2>10
<1>. QED  BY <1>8, <1>9

\* An event that is not of p leaves what is told of it.
LEMMA LastStays ==
    ASSUME NEW ix \in Index, NEW new \in Index, NEW run \in Run, NEW key,
           Said(ix, new, run, key), NEW p \in Process, ~ IsOf(key, p),
           new.processes[p].status = ix.processes[p].status, LastTold(ix, p)
    PROVE  LastTold(new, p)
<1>1. PICK n \in Nat : n = Len(ix.events[RunOf[p]])
  BY SaidPositions
<1>2. /\ Positions(ix, p) \in SUBSET (1..n) /\ Positions(new, p) = Positions(ix, p)
      /\ \A i \in Positions(ix, p) : new.events[RunOf[p]][i] = ix.events[RunOf[p]][i]
  BY <1>1, SaidPositions
<1>3. PICK told \in SUBSET (0..n) : told = Positions(ix, p)
  BY <1>2
<1>4. told # {} => Max(told) \in told
  BY <1>3, MaxOfBounded
<1>. QED  BY <1>2, <1>3, <1>4 DEF LastTold

\* An event of p is its last.
LEMMA LastIsNew ==
    ASSUME NEW ix \in Index, NEW new \in Index, NEW p \in Process, NEW key,
           Said(ix, new, RunOf[p], key), IsOf(key, p),
           new.processes[p].status = Says(p, key[1]), new.processes[p].status # "absent"
    PROVE  LastTold(new, p)
<1>0. PICK run \in Run : run = RunOf[p]
  BY RunOfAssumption
<1>1. PICK n \in Nat : n = Len(ix.events[RunOf[p]])
  BY <1>0, SaidPositions
<1>2. /\ Positions(ix, p) \in SUBSET (1..n) /\ Positions(new, p) = Positions(ix, p) \cup {n + 1}
      /\ new.events[RunOf[p]][n + 1].key = key
  BY <1>0, <1>1, SaidPositions
<1>3. PICK told : told = Positions(new, p)
  OBVIOUS
<1>4. \A i \in told : i \in 0..(n + 1)
  BY <1>2, <1>3
<1>5. n + 1 \in told /\ told # {} /\ told \in SUBSET (0..(n + 1)) /\ n + 1 \in Nat
  BY <1>2, <1>3, <1>4
<1>6. Max(told) \in told /\ \A i \in told : i <= Max(told)
  BY <1>5, MaxOfBounded
<1>7. Max(told) = n + 1
  <2>1. PICK m \in 0..(n + 1) : m = Max(told)
    BY <1>4, <1>6
  <2>2. n + 1 <= m
    BY <1>5, <1>6, <2>1
  <2>. QED  BY <2>1, <2>2
<1>. QED  BY <1>2, <1>3, <1>5, <1>7 DEF LastTold

\* What may come next of p: an event with this key, and this record with it.
IsNext(ix, p, key, row) ==
    LET old == ix.processes[p]
    IN  /\ row \in Record
        /\ \/ /\ key = ScheduleKey(p) /\ old.status = "absent"
              /\ row.status = Says(p, "process.schedule") /\ row.attempt = 0
           \/ /\ key = ReadyKey(p) /\ old.status = "pending"
              /\ \A q \in Upstream[p] : ix.processes[q].status \in TerminalStatus
              /\ row.status = "ready" /\ row.attempt = old.attempt
           \/ /\ key = ClaimKey(p, old.attempt + 1)
              /\ old.status \in {"ready", "retry_wait", "running"}
              /\ old.attempt < MaxAttempts[p]
              /\ row.status = "running" /\ row.attempt = old.attempt + 1
           \/ /\ key = CompleteKey(p, old.attempt) /\ CanTransition(old.status, "succeeded")
              /\ row.status = "succeeded" /\ row.attempt = old.attempt
           \/ /\ key = FailKey(p, old.attempt) /\ CanTransition(old.status, "failed")
              /\ row.status = "failed" /\ row.attempt = old.attempt

\* The event told, and the record written.
Told(ix, new, p, key, row) ==
    /\ Said(ix, new, RunOf[p], key)
    /\ new.processes = [ix.processes EXCEPT ![p] = row]

LEMMA NextIsNew ==
    ASSUME NEW ix \in Index, NEW p \in Process, NEW key, NEW row,
           RowSound(ix, p), IsNext(ix, p, key, row)
    PROVE  ~ KeyUsed(ix, p, key)
<1>1. PICK old \in Record : old = ix.processes[p]
  BY DEF Index
<1>2. PICK n \in Nat : n = old.attempt
  BY DEF Record
<1>3. n + 1 \in Nat /\ ~ (n + 1 <= n)
  OBVIOUS
<1>4. KeysFit(ix, p)
  BY DEF RowSound
<1>5. CASE key = ScheduleKey(p) /\ old.status = "absent"
  BY <1>1, <1>4, <1>5 DEF KeysFit
<1>6. CASE key = ReadyKey(p) /\ old.status = "pending"
  BY <1>1, <1>4, <1>6 DEF KeysFit
<1>7. CASE key = ClaimKey(p, n + 1)
  BY <1>1, <1>2, <1>3, <1>4, <1>7 DEF KeysFit
<1>8. CASE key = CompleteKey(p, n) /\ CanTransition(old.status, "succeeded")
  <2>1. old.status # "succeeded"
    BY <1>8 DEF CanTransition, OpenStatus
  <2>. QED  BY <1>1, <1>2, <1>4, <1>8, <2>1 DEF KeysFit
<1>9. CASE key = FailKey(p, n) /\ CanTransition(old.status, "failed")
  <2>1. old.status # "failed"
    BY <1>9 DEF CanTransition, OpenStatus
  <2>. QED  BY <1>1, <1>2, <1>4, <1>9, <2>1 DEF KeysFit
<1>. QED  BY <1>1, <1>2, <1>5, <1>6, <1>7, <1>8, <1>9 DEF IsNext

\* What comes next leaves from an open status, and is due only after the upstreams.
LEMMA NextStatus ==
    ASSUME NEW ix \in Index, NEW p \in Process, NEW key, NEW row, IsNext(ix, p, key, row),
           RowSound(ix, p)
    PROVE  /\ IsOf(key, p) /\ row.status = Says(p, key[1]) /\ row.status # "absent"
           /\ ix.processes[p].status \notin TerminalStatus
           /\ row.attempt <= MaxAttempts[p]
           /\ row.status # "pending" =>
                  \A q \in Upstream[p] : ix.processes[q].status \in TerminalStatus
<1>1. PICK old \in Record : old = ix.processes[p]
  BY DEF Index
<1>2. PICK n \in Nat, m \in Nat : n = old.attempt /\ m = MaxAttempts[p] /\ n <= m
  BY <1>1, MemoryAttemptsAssumption DEF Record, RowSound
<1>3. old.status \notin {"absent", "pending"} =>
          \A q \in Upstream[p] : ix.processes[q].status \in TerminalStatus
  BY <1>1 DEF RowSound, Conducted
<1>4. CASE /\ key = ScheduleKey(p) /\ old.status = "absent"
           /\ row.status = Says(p, "process.schedule") /\ row.attempt = 0
  <2>1. IsOf(key, p) /\ key[1] = "process.schedule"
    BY <1>4, KeysAreOf DEF ScheduleKey
  <2>2. row.status = IF Upstream[p] = {} THEN "ready" ELSE "pending"
    BY <1>4 DEF Says
  <2>. QED  BY <1>1, <1>2, <1>4, <2>1, <2>2 DEF TerminalStatus
<1>5. CASE /\ key = ReadyKey(p) /\ old.status = "pending"
           /\ \A q \in Upstream[p] : ix.processes[q].status \in TerminalStatus
           /\ row.status = "ready" /\ row.attempt = n
  <2>1. IsOf(key, p) /\ key[1] = "process.ready"
    BY <1>5, KeysAreOf DEF ReadyKey
  <2>2. row.status = Says(p, key[1])
    BY <1>5, <2>1 DEF Says
  <2>. QED  BY <1>1, <1>2, <1>5, <2>1, <2>2 DEF TerminalStatus
<1>6. CASE /\ key = ClaimKey(p, n + 1) /\ old.status \in {"ready", "retry_wait", "running"}
           /\ n < m /\ row.status = "running" /\ row.attempt = n + 1
  <2>1. IsOf(key, p) /\ key[1] = "process.claim"
    BY <1>6, KeysAreOf DEF ClaimKey
  <2>2. row.status = Says(p, key[1])
    BY <1>6, <2>1 DEF Says
  <2>3. row.attempt <= m
    BY <1>6
  <2>. QED  BY <1>1, <1>2, <1>3, <1>6, <2>1, <2>2, <2>3 DEF TerminalStatus
<1>7. CASE /\ key = CompleteKey(p, n) /\ CanTransition(old.status, "succeeded")
           /\ row.status = "succeeded" /\ row.attempt = n
  <2>1. IsOf(key, p) /\ key[1] = "process.complete"
    BY <1>7, KeysAreOf DEF CompleteKey
  <2>2. row.status = Says(p, key[1])
    BY <1>7, <2>1 DEF Says
  <2>3. old.status \notin TerminalStatus \cup {"absent", "pending"}
    BY <1>7 DEF CanTransition, OpenStatus, OwnTargets, TerminalStatus
  <2>. QED  BY <1>1, <1>2, <1>3, <1>7, <2>1, <2>2, <2>3
<1>8. CASE /\ key = FailKey(p, n) /\ CanTransition(old.status, "failed")
           /\ row.status = "failed" /\ row.attempt = n
  <2>1. IsOf(key, p) /\ key[1] = "process.fail"
    BY <1>8, KeysAreOf DEF FailKey
  <2>2. row.status = Says(p, key[1])
    BY <1>8, <2>1 DEF Says
  <2>3. old.status \notin TerminalStatus \cup {"absent", "pending"}
    BY <1>8 DEF CanTransition, OpenStatus, OwnTargets, TerminalStatus
  <2>. QED  BY <1>1, <1>2, <1>3, <1>8, <2>1, <2>2, <2>3
<1>. QED  BY <1>1, <1>2, <1>4, <1>5, <1>6, <1>7, <1>8 DEF IsNext

\* An event that is not of p uses none of its keys.
LEMMA KeysStay ==
    ASSUME NEW ix, NEW new, NEW run, NEW key, Said(ix, new, run, key),
           NEW p, ~ IsOf(key, p), new.processes[p] = ix.processes[p], KeysFit(ix, p)
    PROVE  KeysFit(new, p)
<1>1. \A k : IsOf(k, p) => k # key
  OBVIOUS
<1>2. \A k : IsOf(k, p) => (KeyUsed(new, p, k) <=> KeyUsed(ix, p, k))
  BY <1>1 DEF KeyUsed, Said
<1>3. /\ KeyUsed(new, p, ScheduleKey(p)) <=> KeyUsed(ix, p, ScheduleKey(p))
      /\ KeyUsed(new, p, ReadyKey(p)) <=> KeyUsed(ix, p, ReadyKey(p))
  BY <1>2, KeysAreOf
<1>4. \A n \in Nat : /\ KeyUsed(new, p, ClaimKey(p, n)) <=> KeyUsed(ix, p, ClaimKey(p, n))
                     /\ KeyUsed(new, p, CompleteKey(p, n)) <=> KeyUsed(ix, p, CompleteKey(p, n))
                     /\ KeyUsed(new, p, FailKey(p, n)) <=> KeyUsed(ix, p, FailKey(p, n))
  BY <1>2, KeysAreOf
<1>. QED  BY <1>3, <1>4 DEF KeysFit

\* What comes next of p uses one key more, which fits its record.
LEMMA KeysGrow ==
    ASSUME NEW ix \in Index, NEW new \in Index, NEW p \in Process, NEW key, NEW row,
           IsNext(ix, p, key, row), Told(ix, new, p, key, row), KeysFit(ix, p)
    PROVE  KeysFit(new, p)
<1>1. PICK old \in Record : old = ix.processes[p]
  BY DEF Index
<1>2. row \in Record /\ row = new.processes[p]
  BY DEF IsNext, Told, Index
<1>3. PICK n \in Nat : n = old.attempt
  BY DEF Record
<1>4. \A k : KeyUsed(new, p, k) <=> KeyUsed(ix, p, k) \/ k = key
  BY DEF KeyUsed, Told, Said
<1>5. /\ KeyUsed(ix, p, ScheduleKey(p)) <=> old.status # "absent"
      /\ KeyUsed(ix, p, ReadyKey(p)) => old.status \notin {"absent", "pending"}
      /\ \A i \in Nat :
            /\ KeyUsed(ix, p, ClaimKey(p, i)) => old.status # "absent" /\ i <= n
            /\ KeyUsed(ix, p, CompleteKey(p, i)) => old.status = "succeeded"
            /\ KeyUsed(ix, p, FailKey(p, i)) => old.status = "failed"
  BY <1>1, <1>3 DEF KeysFit
<1>. SUFFICES /\ KeyUsed(new, p, ScheduleKey(p)) <=> row.status # "absent"
              /\ KeyUsed(new, p, ReadyKey(p)) => row.status \notin {"absent", "pending"}
              /\ \A i \in Nat :
                    /\ KeyUsed(new, p, ClaimKey(p, i)) =>
                           row.status # "absent" /\ i <= row.attempt
                    /\ KeyUsed(new, p, CompleteKey(p, i)) => row.status = "succeeded"
                    /\ KeyUsed(new, p, FailKey(p, i)) => row.status = "failed"
  BY <1>2 DEF KeysFit
<1>6. ASSUME NEW i
      PROVE  /\ key = ScheduleKey(p) => key[1] = "process.schedule"
             /\ key = ReadyKey(p) => key[1] = "process.ready"
             /\ key = ClaimKey(p, i) => key[1] = "process.claim" /\ key[3] = i
             /\ key = CompleteKey(p, i) => key[1] = "process.complete"
             /\ key = FailKey(p, i) => key[1] = "process.fail"
  BY DEF ScheduleKey, ReadyKey, ClaimKey, CompleteKey, FailKey
<1>7. CASE /\ key = ScheduleKey(p) /\ old.status = "absent"
           /\ row.status = Says(p, "process.schedule")
  <2>1. row.status # "absent"
    BY <1>7 DEF Says
  <2>. QED  BY <1>4, <1>5, <1>6, <1>7, <2>1
<1>8. CASE /\ key = ReadyKey(p) /\ old.status = "pending"
           /\ row.status = "ready" /\ row.attempt = n
  BY <1>4, <1>5, <1>6, <1>8
<1>9. CASE /\ key = ClaimKey(p, n + 1) /\ old.status \in {"ready", "retry_wait", "running"}
           /\ row.status = "running" /\ row.attempt = n + 1
  <2>1. \A i \in Nat : i <= n \/ i = n + 1 => i <= n + 1
    OBVIOUS
  <2>. QED  BY <1>4, <1>5, <1>6, <1>9, <2>1
<1>10. CASE /\ key = CompleteKey(p, n) /\ CanTransition(old.status, "succeeded")
            /\ row.status = "succeeded" /\ row.attempt = n
  <2>1. old.status \notin {"absent", "pending", "succeeded", "failed"}
    BY <1>10 DEF CanTransition, OpenStatus, OwnTargets
  <2>. QED  BY <1>4, <1>5, <1>6, <1>10, <2>1
<1>11. CASE /\ key = FailKey(p, n) /\ CanTransition(old.status, "failed")
            /\ row.status = "failed" /\ row.attempt = n
  <2>1. old.status \notin {"absent", "pending", "succeeded", "failed"}
    BY <1>11 DEF CanTransition, OpenStatus, OwnTargets
  <2>. QED  BY <1>4, <1>5, <1>6, <1>11, <2>1
<1>. QED  BY <1>1, <1>3, <1>7, <1>8, <1>9, <1>10, <1>11 DEF IsNext

\* Telling what comes next keeps every row sound.
LEMMA TellingKeeps ==
    ASSUME NEW ix \in Index, NEW new \in Index, NEW p \in Process, NEW key, NEW row,
           Sound(ix), IsNext(ix, p, key, row), Told(ix, new, p, key, row)
    PROVE  Sound(new)
<1>1. RunOf[p] \in Run /\ Said(ix, new, RunOf[p], key) /\ RowSound(ix, p)
  BY RunOfAssumption DEF Told, Sound
<1>2. /\ IsOf(key, p) /\ row.status = Says(p, key[1]) /\ row.status # "absent"
      /\ ix.processes[p].status \notin TerminalStatus
      /\ row.attempt <= MaxAttempts[p]
      /\ row.status # "pending" =>
             \A q \in Upstream[p] : ix.processes[q].status \in TerminalStatus
  BY <1>1, NextStatus
<1>3. /\ new.processes[p] = row
      /\ \A q \in Process : q # p => new.processes[q] = ix.processes[q]
  BY DEF Told, Index
<1>4. \A q \in Process : ix.processes[q].status \in TerminalStatus =>
                             new.processes[q].status \in TerminalStatus
  BY <1>2, <1>3
<1>5. \A q \in Process : Upstream[q] \subseteq Process
  BY RuntimeAssumption
<1>6. RowSound(new, p)
  <2>1. KeysFit(new, p)
    BY <1>1, KeysGrow DEF RowSound
  <2>2. LastTold(new, p)
    BY <1>1, <1>2, <1>3, LastIsNew
  <2>3. Conducted(new, p)
    BY <1>2, <1>3, <1>4, <1>5 DEF Conducted
  <2>. QED  BY <1>2, <1>3, <2>1, <2>2, <2>3 DEF RowSound
<1>7. ASSUME NEW q \in Process, q # p PROVE RowSound(new, q)
  <2>1. ~ IsOf(key, q) /\ new.processes[q] = ix.processes[q] /\ RowSound(ix, q)
    BY <1>2, <1>3, <1>7 DEF IsOf, Sound
  <2>2. KeysFit(new, q)
    BY <1>1, <2>1, KeysStay DEF RowSound
  <2>3. LastTold(new, q)
    BY <1>1, <2>1, LastStays DEF RowSound
  <2>4. Conducted(new, q)
    BY <1>4, <1>5, <2>1 DEF Conducted, RowSound
  <2>. QED  BY <2>1, <2>2, <2>3, <2>4 DEF RowSound
<1>. QED  BY <1>6, <1>7 DEF Sound

LEMMA NextIsKey ==
    ASSUME NEW ix \in Index, NEW p \in Process, NEW key, NEW row,
           RowSound(ix, p), IsNext(ix, p, key, row)
    PROVE  key \in Key
<1>1. PICK old \in Record : old = ix.processes[p]
  BY DEF Index
<1>2. PICK n \in Nat, m \in Nat \ {0} : n = old.attempt /\ m = MaxAttempts[p] /\ n <= m
  BY <1>1, MemoryAttemptsAssumption DEF Record, RowSound
<1>3. 0 \in 0..m /\ n \in 0..m /\ n + 1 \in Nat
  BY <1>2
<1>4. \A i \in 0..m : {ScheduleKey(p), ReadyKey(p), CompleteKey(p, i)} \subseteq CallerKey
  BY <1>2, RuntimeKeyAssumption
<1>5. \A i \in Nat : ClaimKey(p, i) \in Key /\ FailKey(p, i) \in Key
  BY DEF ClaimKey, FailKey, Key
<1>6. CallerKey \subseteq Key
  BY DEF Key
<1>7. /\ ScheduleKey(p) \in Key /\ ReadyKey(p) \in Key /\ CompleteKey(p, n) \in Key
      /\ ClaimKey(p, n + 1) \in Key /\ FailKey(p, n) \in Key
  BY <1>3, <1>4, <1>5, <1>6
<1>. QED  BY <1>1, <1>2, <1>7 DEF IsNext

\* No process comes or goes.
SameAbsent(ix, new) ==
    \A p \in Process :
        new.processes[p].status = "absent" <=> ix.processes[p].status = "absent"

LEMMA SameIsAll ==
    ASSUME NEW ix, NEW new, AllOrNone(ix), SameAbsent(ix, new) PROVE AllOrNone(new)
BY DEF AllOrNone, SameAbsent

\* A call that tells what comes next, whether it journals it before it writes the
\* record or after.
LEMMA Telling ==
    ASSUME NEW ix \in Index, Sound(ix), NEW p \in Process, NEW key, NEW row,
           IsNext(ix, p, key, row),
           NEW new, \/ new = Seeded(Journaled(ix, RunOf[p], key), p, row)
                    \/ new = Journaled(Seeded(ix, p, row), RunOf[p], key)
    PROVE  new \in Index /\ Told(ix, new, p, key, row) /\ Sound(new)
<1>1. RunOf[p] \in Run /\ RowSound(ix, p) /\ row \in Record
  BY RunOfAssumption DEF Sound, IsNext
<1>2. key \in Key /\ <<RunOf[p], key>> \notin ix.commands
  BY <1>1, NextIsKey, NextIsNew DEF KeyUsed
<1>3. ASSUME new = Seeded(Journaled(ix, RunOf[p], key), p, row)
      PROVE  new \in Index /\ Told(ix, new, p, key, row)
  <2>1. PICK mid \in Index : mid = Journaled(ix, RunOf[p], key)
    BY <1>1, <1>2, Journaling
  <2>2. mid.processes = ix.processes /\ Said(ix, mid, RunOf[p], key)
    BY <1>1, <1>2, <2>1, Journaling
  <2>3. /\ new \in Index /\ SameHistory(mid, new)
        /\ new.processes = [mid.processes EXCEPT ![p] = row]
    BY <1>1, <1>3, <2>1, Seeding
  <2>. QED  BY <2>2, <2>3 DEF Told, Said, SameHistory
<1>4. ASSUME new = Journaled(Seeded(ix, p, row), RunOf[p], key)
      PROVE  new \in Index /\ Told(ix, new, p, key, row)
  <2>1. PICK mid \in Index : mid = Seeded(ix, p, row)
    BY <1>1, Seeding
  <2>2. SameHistory(ix, mid) /\ mid.processes = [ix.processes EXCEPT ![p] = row]
    BY <1>1, <2>1, Seeding
  <2>3. <<RunOf[p], key>> \notin mid.commands
    BY <1>2, <2>2 DEF SameHistory
  <2>4. /\ new \in Index /\ new.processes = mid.processes
        /\ Said(mid, new, RunOf[p], key)
    BY <1>1, <1>2, <1>4, <2>1, <2>3, Journaling
  <2>. QED  BY <2>2, <2>4 DEF Told, Said, SameHistory
<1>5. new \in Index /\ Told(ix, new, p, key, row)
  BY <1>3, <1>4
<1>. QED  BY <1>5, TellingKeeps

\* A process that is there when something is told of it is there afterwards.
LEMMA TellingStays ==
    ASSUME NEW ix \in Index, Sound(ix), NEW p \in Process, NEW key, NEW row, NEW new,
           IsNext(ix, p, key, row), Told(ix, new, p, key, row),
           ix.processes[p].status # "absent"
    PROVE  SameAbsent(ix, new)
<1>1. row.status # "absent"
  BY NextStatus DEF Sound
<1>2. /\ new.processes[p] = row
      /\ \A q \in Process : q # p => new.processes[q] = ix.processes[q]
  BY DEF Told, Index
<1>. QED  BY <1>1, <1>2 DEF SameAbsent

\* A row as complete and fail leave it.
RowEnded(old, new) ==
    \E to \in {"succeeded", "failed"} :
        CanTransition(old.status, to) /\ new = [Unleased(old) EXCEPT !.status = to]

\* transition_process, by complete and by fail.
LEMMA EndingKeeps ==
    ASSUME NEW ix \in Index, Sound(ix), NEW p \in Process,
           NEW new, \/ /\ CanTransition(ix.processes[p].status, "succeeded")
                       /\ new = Completed(ix, p)
                    \/ /\ CanTransition(ix.processes[p].status, "failed")
                       /\ new = Failed(ix, p)
    PROVE  /\ new \in Index /\ Sound(new) /\ SameAbsent(ix, new)
           /\ RowEnded(ix.processes[p], new.processes[p])
           /\ \A q \in Process : q # p => new.processes[q] = ix.processes[q]
<1>1. PICK old \in Record : old = ix.processes[p]
  BY DEF Index
<1>2. \A to \in {"succeeded", "failed"} :
          /\ [Unleased(old) EXCEPT !.status = to] \in Record
          /\ [Unleased(old) EXCEPT !.status = to].status = to
          /\ [Unleased(old) EXCEPT !.status = to].attempt = old.attempt
  BY DEF Unleased, Record, Status, TerminalStatus
<1>3. PICK key, row : /\ IsNext(ix, p, key, row) /\ RowEnded(old, row)
                      /\ new = Seeded(Journaled(ix, RunOf[p], key), p, row)
  <2>1. CASE CanTransition(old.status, "succeeded") /\ new = Completed(ix, p)
    <3>1. PICK key : key = CompleteKey(p, old.attempt)
      OBVIOUS
    <3>2. PICK row \in Record : /\ row = [Unleased(old) EXCEPT !.status = "succeeded"]
                                /\ row.status = "succeeded" /\ row.attempt = old.attempt
      BY <1>2
    <3>3. IsNext(ix, p, key, row)
      BY <1>1, <2>1, <3>1, <3>2 DEF IsNext
    <3>4. new = Seeded(Journaled(ix, RunOf[p], key), p, row)
      BY <1>1, <2>1, <3>1, <3>2 DEF Completed, Ended
    <3>5. RowEnded(old, row)
      BY <2>1, <3>2 DEF RowEnded
    <3>. QED  BY <3>3, <3>4, <3>5
  <2>2. CASE CanTransition(old.status, "failed") /\ new = Failed(ix, p)
    <3>1. PICK key : key = FailKey(p, old.attempt)
      OBVIOUS
    <3>2. PICK row \in Record : /\ row = [Unleased(old) EXCEPT !.status = "failed"]
                                /\ row.status = "failed" /\ row.attempt = old.attempt
      BY <1>2
    <3>3. IsNext(ix, p, key, row)
      BY <1>1, <2>2, <3>1, <3>2 DEF IsNext
    <3>4. new = Seeded(Journaled(ix, RunOf[p], key), p, row)
      BY <1>1, <2>2, <3>1, <3>2 DEF Failed, Ended
    <3>5. RowEnded(old, row)
      BY <2>2, <3>2 DEF RowEnded
    <3>. QED  BY <3>3, <3>4, <3>5
  <2>. QED  BY <1>1, <2>1, <2>2
<1>4. new \in Index /\ Told(ix, new, p, key, row) /\ Sound(new)
  BY <1>3, Telling
<1>5. ix.processes[p].status # "absent"
  BY DEF CanTransition, OpenStatus
<1>6. new.processes[p] = row /\ \A q \in Process : q # p => new.processes[q] = ix.processes[q]
  BY <1>4 DEF Told, Index
<1>. QED  BY <1>1, <1>3, <1>4, <1>5, <1>6, TellingStays

\* A command of a run, new or repeated, is of no process.
LEMMA RunKeeps ==
    ASSUME NEW ix \in Index, Sound(ix), NEW r \in Run, NEW key \in CallerKey,
           key[1] \in {"run.create", "run.status.set"}, NEW new, new = Journaled(ix, r, key)
    PROVE  new \in Index /\ Sound(new) /\ SameAbsent(ix, new)
<1>1. key \in Key
  BY DEF Key
<1>2. new \in Index /\ new.processes = ix.processes
  BY <1>1, Journaling
<1>3. CASE <<r, key>> \in ix.commands
  <2>1. new = ix
    BY <1>1, <1>3, Journaling
  <2>. QED  BY <2>1 DEF SameAbsent
<1>4. CASE <<r, key>> \notin ix.commands
  <2>1. Said(ix, new, r, key)
    BY <1>1, <1>4, Journaling
  <2>2. ASSUME NEW p \in Process PROVE RowSound(new, p)
    <3>1. ~ IsOf(key, p) /\ RowSound(ix, p) /\ new.processes[p] = ix.processes[p]
      BY <1>2 DEF IsOf, Sound
    <3>2. KeysFit(new, p)
      BY <2>1, <3>1, KeysStay DEF RowSound
    <3>3. LastTold(new, p)
      BY <1>2, <2>1, <3>1, LastStays DEF RowSound
    <3>. QED  BY <1>2, <3>1, <3>2, <3>3 DEF RowSound, Conducted
  <2>. QED  BY <1>2, <2>2 DEF Sound, SameAbsent
<1>. QED  BY <1>3, <1>4

\* A row that is there stays, and one that is not is written as it is scheduled.
RowScheduled(p, old, new) ==
    \/ new = old
    \/ /\ old.status = "absent"
       /\ new = [AbsentRecord EXCEPT !.status = IF Upstream[p] = {} THEN "ready" ELSE "pending"]

\* schedule_process_plan leaves every other process alone, and its own in place.
LEMMA ScheduleKeeps ==
    ASSUME NEW ix \in Index, Sound(ix), NEW p \in Process,
           NEW new, new = Scheduled(ix, p)
    PROVE  /\ new \in Index /\ Sound(new)
           /\ new.processes[p].status # "absent"
           /\ RowScheduled(p, ix.processes[p], new.processes[p])
           /\ \A q \in Process : q # p => new.processes[q] = ix.processes[q]
<1>1. KeysFit(ix, p)
  BY DEF Sound, RowSound
<1>2. CASE KeyUsed(ix, p, ScheduleKey(p))
  BY <1>1, <1>2 DEF KeyUsed, KeysFit, Scheduled, RowScheduled
<1>3. CASE ~ KeyUsed(ix, p, ScheduleKey(p))
  <2>1. PICK key : key = ScheduleKey(p)
    OBVIOUS
  <2>2. PICK to : to = IF Upstream[p] = {} THEN "ready" ELSE "pending"
    OBVIOUS
  <2>3. PICK row : row = [AbsentRecord EXCEPT !.status = to]
    OBVIOUS
  <2>4. row \in Record /\ row.status = to /\ row.attempt = 0
    BY <2>2, <2>3 DEF AbsentRecord, Record, Status, OpenStatus
  <2>5. ix.processes[p].status = "absent" /\ to = Says(p, "process.schedule")
    BY <1>1, <1>3, <2>2 DEF KeysFit, Says
  <2>6. IsNext(ix, p, key, row)
    BY <2>1, <2>4, <2>5 DEF IsNext
  <2>7. new = Seeded(Journaled(ix, RunOf[p], key), p, row)
    BY <1>3, <2>1, <2>2, <2>3 DEF Scheduled, KeyUsed
  <2>8. new \in Index /\ Told(ix, new, p, key, row) /\ Sound(new)
    BY <2>6, <2>7, Telling
  <2>9. new.processes[p] = row /\ \A q \in Process : q # p => new.processes[q] = ix.processes[q]
    BY <2>8 DEF Told, Index
  <2>10. RowScheduled(p, ix.processes[p], row)
    BY <2>2, <2>3, <2>5 DEF RowScheduled
  <2>. QED  BY <2>2, <2>4, <2>8, <2>9, <2>10
<1>. QED  BY <1>2, <1>3

\* instantiate_path schedules every process of the run, and nothing else.
LEMMA InstantiateKeeps ==
    ASSUME NEW ix \in Index, Sound(ix), AllOrNone(ix), NEW r \in Run,
           NEW new, new = FoldLeft(Scheduled, ix, SetToSeq({p \in Process : RunOf[p] = r}))
    PROVE  /\ new \in Index /\ Sound(new) /\ AllOrNone(new)
           /\ \A p \in Process : RowScheduled(p, ix.processes[p], new.processes[p])
<1>. DEFINE mine == {p \in Process : RunOf[p] = r}
            s == SetToSeq(mine)
            n == Len(s)
            D == {x \in Index : Sound(x)}
<1>1. IsFiniteSet(mine)
  BY ProcessAssumption, FS_Subset
<1>2. /\ s \in Seq(mine) /\ n \in Nat /\ s \in [1..n -> mine]
      /\ \A p \in mine : \E i \in 1..n : s[i] = p
  <2>. HIDE DEF mine
  <2>. QED  BY <1>1, SetAsSequence
<1>3. \A x \in D, p \in mine : Scheduled(x, p) \in D
  BY ScheduleKeeps
<1>4. ix \in D /\ new = Scheduling(ix, s)
  BY DEF Scheduling
<1>5. mine \subseteq Process
  OBVIOUS
<1>. HIDE DEF s, mine
<1>6. PICK h : IsScheduling(h, D, ix, s)
  <2>. HIDE DEF D, n
  <2>. QED  BY <1>2, <1>3, <1>4, ScheduleSteps
<1>7. /\ h \in [0..n -> D] /\ h[0] = ix /\ h[n] = new
      /\ \A k \in 1..n : h[k] = Scheduled(h[k-1], s[k])
  BY <1>4, <1>6 DEF IsScheduling
<1>. HIDE DEF n
<1>. DEFINE S == {k \in 0..n :
                    /\ \A p \in Process : p \notin mine => h[k].processes[p] = ix.processes[p]
                    /\ \A i \in 1..k : h[k].processes[s[i]].status # "absent"
                    /\ \A p \in Process :
                           RowScheduled(p, ix.processes[p], h[k].processes[p])}
<1>8. 0 \in S
  <2>1. 0 \in 0..n /\ 1..0 = {}
    BY <1>2
  <2>. QED  BY <1>7, <2>1 DEF RowScheduled
<1>9. ASSUME NEW k \in 1..n, k - 1 \in S PROVE k \in S
  <2>1. k \in 0..n /\ k - 1 \in 0..n /\ \A i \in 1..k : i \in 1..(k-1) \/ i = k
    BY <1>2
  <2>2. PICK before \in Index : before = h[k-1] /\ Sound(before)
    BY <1>7, <2>1
  <2>3. PICK p \in mine : p = s[k]
    BY <1>2
  <2>4. PICK after : after = h[k] /\ after = Scheduled(before, p)
    BY <1>7, <2>2, <2>3
  <2>5. /\ after.processes[p].status # "absent"
        /\ RowScheduled(p, before.processes[p], after.processes[p])
        /\ \A q \in Process : q # p => after.processes[q] = before.processes[q]
    BY <1>5, <2>2, <2>4, ScheduleKeeps
  <2>6. \A q \in Process : q \notin mine => after.processes[q] = ix.processes[q]
    BY <1>9, <2>2, <2>3, <2>5
  <2>7. ASSUME NEW i \in 1..k PROVE after.processes[s[i]].status # "absent"
    <3>1. i \in 1..n
      BY <1>2
    <3>2. PICK q \in Process : q = s[i]
      BY <1>2, <1>5, <3>1
    <3>3. CASE i = k
      BY <2>3, <2>5, <3>3
    <3>4. CASE i \in 1..(k-1)
      <4>1. before.processes[q].status # "absent"
        BY <1>9, <2>2, <3>2, <3>4
      <4>. QED  BY <2>5, <3>2, <4>1
    <3>. QED  BY <2>1, <3>3, <3>4
  <2>8. ASSUME NEW q \in Process
        PROVE  RowScheduled(q, ix.processes[q], after.processes[q])
    <3>1. RowScheduled(q, ix.processes[q], before.processes[q])
      BY <1>9, <2>2
    <3>2. CASE q # p
      BY <2>5, <3>1, <3>2
    <3>3. CASE q = p
      BY <2>5, <3>1, <3>3 DEF RowScheduled, AbsentRecord
    <3>. QED  BY <3>2, <3>3
  <2>. QED  BY <2>1, <2>4, <2>6, <2>7, <2>8
<1>10. n \in S
  <2>. HIDE DEF S
  <2>1. \A k \in 0..n : k \in S
    BY <1>2, <1>8, <1>9, UpTo
  <2>. QED  BY <1>2, <2>1
<1>11. new \in Index /\ Sound(new)
  <2>1. n \in 0..n
    BY <1>2
  <2>. QED  BY <1>7, <2>1
<1>12. \A p \in Process : RowScheduled(p, ix.processes[p], new.processes[p])
  BY <1>7, <1>10
<1>13. \A p \in mine : new.processes[p].status # "absent"
  <2>. SUFFICES ASSUME NEW p \in mine PROVE new.processes[p].status # "absent"
    OBVIOUS
  <2>1. PICK i \in 1..n : s[i] = p
    BY <1>2
  <2>. QED  BY <1>7, <1>10, <2>1
<1>14. \A p \in Process : p \notin mine => new.processes[p] = ix.processes[p]
  BY <1>7, <1>10
<1>15. \A p, q \in Process : RunOf[p] = RunOf[q] => (p \in mine <=> q \in mine)
  BY DEF mine
<1>16. AllOrNone(new)
  BY <1>13, <1>14, <1>15 DEF AllOrNone
<1>. QED  BY <1>11, <1>12, <1>16

\* A row as an advance leaves it.
RowReadied(old, new) ==
    new = old \/ (old.status = "pending" /\ new = [old EXCEPT !.status = "ready"])

\* An advance readies what its plan names, each once, from upstreams that stay settled.
LEMMA AdvanceKeeps ==
    ASSUME NEW ix \in Index, Sound(ix), AllOrNone(ix), NEW r,
           NEW new, new = Advanced(ix, r)
    PROVE  /\ new \in Index /\ Sound(new) /\ SameAbsent(ix, new)
           /\ Readiable(ix, r) = {} => new = ix
           /\ \A p \in Process : RowReadied(ix.processes[p], new.processes[p])
<1>. DEFINE plan == Readiable(ix, r)
            s == SetToSeq(plan)
            n == Len(s)
<1>1. plan \in SUBSET Process /\ IsFiniteSet(plan)
  <2>1. plan \subseteq Process
    BY DEF Readiable
  <2>. QED  BY <2>1, ProcessAssumption, FS_Subset
<1>2. /\ s \in Seq(plan) /\ s \in Seq(Process) /\ n \in Nat /\ s \in [1..n -> plan]
      /\ \A i, j \in 1..n : s[i] = s[j] => i = j
  <2>. HIDE DEF plan
  <2>. QED  BY <1>1, SetAsSequence
<1>3. \A p \in plan : /\ ix.processes[p].status = "pending"
                      /\ \A q \in Upstream[p] : Settled(ix, q)
  BY DEF Readiable
<1>4. new = Readying(ix, s)
  BY DEF Advanced, Readying
<1>. HIDE DEF plan, s
<1>5. \A p \in plan : \A q \in Upstream[p] :
          q \in Process /\ ix.processes[q].status \in TerminalStatus
  <2>. SUFFICES ASSUME NEW p \in plan, NEW q \in Upstream[p]
                PROVE  q \in Process /\ ix.processes[q].status \in TerminalStatus
    OBVIOUS
  <2>1. p \in Process /\ q \in Process /\ RunOf[q] = RunOf[p]
    BY <1>1, RuntimeAssumption
  <2>2. ix.processes[q].status # "absent"
    BY <1>3, <2>1 DEF AllOrNone
  <2>. QED  BY <1>3, <2>1, <2>2 DEF Settled
<1>6. ASSUME NEW x \in Index, NEW p \in Process
      PROVE  [x.processes[p] EXCEPT !.status = "ready"] \in Record /\ MadeReady(x, p) \in Index
  <2>1. PICK old \in Record : old = x.processes[p]
    BY DEF Index
  <2>2. PICK row \in Record : row = [old EXCEPT !.status = "ready"]
    BY DEF Record, Status, OpenStatus
  <2>3. PICK mid \in Index : mid = Seeded(x, p, row)
    BY Seeding
  <2>4. RunOf[p] \in Run /\ ReadyKey(p) \in Key
    <3>1. 0 \in 0..MaxAttempts[p]
      BY MemoryAttemptsAssumption
    <3>. QED  BY <3>1, RunOfAssumption, RuntimeKeyAssumption DEF Key
  <2>5. Journaled(mid, RunOf[p], ReadyKey(p)) \in Index
    BY <2>4, Journaling
  <2>. QED  BY <2>1, <2>2, <2>3, <2>5 DEF MadeReady
<1>7. PICK h : IsReadying(h, Index, ix, s)
  <2>1. \A x \in Index, p \in Process : MadeReady(x, p) \in Index
    BY <1>6
  <2>. HIDE DEF n
  <2>. QED  BY <1>2, <2>1, ReadySteps
<1>8. /\ h \in [0..n -> Index] /\ h[0] = ix /\ h[n] = new
      /\ \A k \in 1..n : h[k] = MadeReady(h[k-1], s[k])
  BY <1>4, <1>7 DEF IsReadying
<1>. HIDE DEF n
<1>. DEFINE S == {k \in 0..n :
                    /\ Sound(h[k]) /\ SameAbsent(ix, h[k])
                    /\ \A p \in Process :
                           /\ (\A i \in 1..k : s[i] # p) => h[k].processes[p] = ix.processes[p]
                           /\ RowReadied(ix.processes[p], h[k].processes[p])}
<1>9. 0 \in S
  <2>1. 0 \in 0..n
    BY <1>2
  <2>. QED  BY <1>8, <2>1 DEF SameAbsent, RowReadied
<1>10. ASSUME NEW k \in 1..n, k - 1 \in S PROVE k \in S
  <2>1. /\ k \in 0..n /\ k - 1 \in 0..n /\ k \in 1..k
        /\ \A i \in 1..(k-1) : i \in 1..k /\ i \in 1..n /\ i # k
    BY <1>2
  <2>2. PICK before \in Index : before = h[k-1]
    BY <1>8, <2>1
  <2>3. /\ Sound(before) /\ SameAbsent(ix, before)
        /\ \A p \in Process :
               /\ (\A i \in 1..(k-1) : s[i] # p) => before.processes[p] = ix.processes[p]
               /\ RowReadied(ix.processes[p], before.processes[p])
    BY <1>10, <2>2
  <2>4. PICK p \in Process : p = s[k] /\ p \in plan
    BY <1>1, <1>2
  <2>5. PICK old \in Record : old = before.processes[p]
    BY <2>2 DEF Index
  <2>6. old.status = "pending" /\ ix.processes[p] = old
    <3>1. \A i \in 1..(k-1) : s[i] # p
      BY <1>2, <2>1, <2>4
    <3>. QED  BY <1>3, <2>3, <2>4, <2>5, <3>1
  <2>7. \A q \in Upstream[p] : before.processes[q].status \in TerminalStatus
    <3>. SUFFICES ASSUME NEW q \in Upstream[p]
                  PROVE  before.processes[q].status \in TerminalStatus
      OBVIOUS
    <3>1. q \in Process /\ ix.processes[q].status \in TerminalStatus
      BY <1>5, <2>4
    <3>2. q \notin plan
      BY <1>3, <3>1 DEF TerminalStatus
    <3>3. \A i \in 1..(k-1) : s[i] # q
      BY <1>2, <2>1, <3>2
    <3>. QED  BY <2>3, <3>1, <3>3
  <2>8. PICK row \in Record : /\ row = [old EXCEPT !.status = "ready"]
                              /\ row.status = "ready" /\ row.attempt = old.attempt
    <3>1. [old EXCEPT !.status = "ready"] \in Record
      BY <1>6, <2>5
    <3>. QED  BY <3>1 DEF Record
  <2>9. PICK key : key = ReadyKey(p)
    OBVIOUS
  <2>10. IsNext(before, p, key, row)
    BY <2>5, <2>6, <2>7, <2>8, <2>9 DEF IsNext
  <2>11. PICK after : after = h[k] /\ after = Journaled(Seeded(before, p, row), RunOf[p], key)
    BY <1>8, <2>2, <2>4, <2>5, <2>8, <2>9 DEF MadeReady
  <2>12. after \in Index /\ Told(before, after, p, key, row) /\ Sound(after)
    BY <2>3, <2>10, <2>11, Telling
  <2>13. SameAbsent(before, after)
    BY <2>3, <2>5, <2>6, <2>10, <2>12, TellingStays
  <2>14. SameAbsent(ix, after)
    BY <2>3, <2>13 DEF SameAbsent
  <2>15. ASSUME NEW q \in Process, \A i \in 1..k : s[i] # q
         PROVE  after.processes[q] = ix.processes[q]
    <3>1. q # p /\ \A i \in 1..(k-1) : s[i] # q
      BY <2>1, <2>4, <2>15
    <3>2. after.processes[q] = before.processes[q]
      BY <2>12, <3>1 DEF Told, Index
    <3>. QED  BY <2>3, <3>1, <3>2
  <2>16. ASSUME NEW q \in Process
         PROVE  RowReadied(ix.processes[q], after.processes[q])
    <3>1. CASE q = p
      <4>1. after.processes[p] = row
        BY <2>12 DEF Told, Index
      <4>. QED  BY <2>6, <2>8, <3>1, <4>1 DEF RowReadied
    <3>2. CASE q # p
      <4>1. after.processes[q] = before.processes[q]
        BY <2>12, <3>2 DEF Told, Index
      <4>. QED  BY <2>3, <4>1
    <3>. QED  BY <3>1, <3>2
  <2>. QED  BY <2>1, <2>11, <2>12, <2>14, <2>15, <2>16
<1>11. n \in S
  <2>. HIDE DEF S
  <2>1. \A k \in 0..n : k \in S
    BY <1>2, <1>9, <1>10, UpTo
  <2>. QED  BY <1>2, <2>1
<1>12. new \in Index
  <2>1. n \in 0..n
    BY <1>2
  <2>. QED  BY <1>8, <2>1
<1>13. plan = {} => new = ix
  <2>1. plan = {} => n = 0
    <3>. SUFFICES ASSUME plan = {}, n # 0 PROVE FALSE
      OBVIOUS
    <3>1. 1 \in 1..n
      BY <1>2
    <3>. QED  BY <1>2, <3>1
  <2>. QED  BY <1>8, <2>1
<1>. QED  BY <1>8, <1>11, <1>12, <1>13 DEF plan

\* Soundness is of the commands, the events and the processes.
LEMMA SoundAlike ==
    ASSUME NEW ix, NEW new, Sound(ix), new.commands = ix.commands, new.events = ix.events,
           new.processes = ix.processes
    PROVE  Sound(new)
<1>. SUFFICES ASSUME NEW p \in Process PROVE RowSound(new, p)
  BY DEF Sound
<1>1. RowSound(ix, p)
  BY DEF Sound
<1>2. Positions(new, p) = Positions(ix, p)
  BY DEF Positions
<1>3. KeysFit(new, p)
  BY <1>1 DEF RowSound, KeysFit, KeyUsed
<1>4. LastTold(new, p)
  BY <1>1, <1>2 DEF RowSound, LastTold
<1>5. Conducted(new, p)
  BY <1>1 DEF RowSound, Conducted
<1>. QED  BY <1>1, <1>3, <1>4, <1>5 DEF RowSound

\* What a claim tells of p: that it took it, or that it reaped it.
IsTouched(old, p, key, row) ==
    /\ row \in Record
    /\ \/ /\ key = ClaimKey(p, old.attempt + 1)
          /\ old.status \in {"ready", "retry_wait", "running"}
          /\ old.attempt < MaxAttempts[p]
          /\ row.status = "running" /\ row.attempt = old.attempt + 1
       \/ /\ key = FailKey(p, old.attempt) /\ old.status = "running"
          /\ row.status = "failed" /\ row.attempt = old.attempt

LEMMA TouchedIsNext ==
    ASSUME NEW ix, NEW p, NEW key, NEW row, IsTouched(ix.processes[p], p, key, row)
    PROVE  IsNext(ix, p, key, row) /\ ix.processes[p].status # "absent"
<1>1. PICK old : old = ix.processes[p]
  OBVIOUS
<1>2. CanTransition("running", "failed")
  BY DEF CanTransition, OwnTargets, OpenStatus
<1>. QED  BY <1>1, <1>2 DEF IsTouched, IsNext

\* Units that tell of the processes in "of", each of another, and the records that
\* are written with them.
UnitsTell(ix, processes, units, of, keys) ==
    /\ processes \in [Process -> Record]
    /\ of \in [1..Len(units) -> Process]
    /\ \A i \in 1..Len(units) :
           /\ units[i] = Unit(RunOf[of[i]], keys[i], 1)
           /\ IsTouched(ix.processes[of[i]], of[i], keys[i], processes[of[i]])
    /\ \A i, j \in 1..Len(units) : of[i] = of[j] => i = j
    /\ \A p \in Process :
           (\A i \in 1..Len(units) : of[i] # p) => processes[p] = ix.processes[p]

\* The records after the first k of them.
RowsAfter(ix, processes, of, k) ==
    [p \in Process |-> IF \E i \in 1..k : of[i] = p THEN processes[p] ELSE ix.processes[p]]

\* The loop's index with these records.
IndexAfter(ix, processes, of, h, k) ==
    [h[k].index EXCEPT !.processes = RowsAfter(ix, processes, of, k)]

\* The k-th of them is p's.
RowFollows(ix, processes, of, k, p) ==
    LET old == RowsAfter(ix, processes, of, k - 1)
    IN  /\ old[p] = ix.processes[p]
        /\ RowsAfter(ix, processes, of, k) = [old EXCEPT ![p] = processes[p]]

LEMMA RowsAfterUnit ==
    ASSUME NEW ix \in Index, NEW processes, NEW units \in Seq(StoredUnit), NEW of, NEW keys,
           UnitsTell(ix, processes, units, of, keys), NEW k \in 1..Len(units),
           NEW p \in Process, p = of[k]
    PROVE  RowFollows(ix, processes, of, k, p)
<1>1. /\ k \in 1..k
      /\ \A i \in 1..(k-1) : i \in 1..k /\ i \in 1..Len(units) /\ i # k
      /\ \A i \in 1..k : i \in 1..(k-1) \/ i = k
  OBVIOUS
<1>2. \A i \in 1..(k-1) : of[i] # p
  BY <1>1 DEF UnitsTell
<1>3. ASSUME NEW q \in Process, q # p
      PROVE  (\E i \in 1..k : of[i] = q) <=> (\E i \in 1..(k-1) : of[i] = q)
  BY <1>1, <1>3
<1>4. \E i \in 1..k : of[i] = p
  BY <1>1
<1>. QED  BY <1>2, <1>3, <1>4 DEF RowsAfter, RowFollows

\* An index with other records.
IsRewritten(x, rows, new) ==
    /\ new \in Index /\ new.processes = rows
    /\ new.commands = x.commands /\ new.events = x.events

LEMMA Rewriting ==
    ASSUME NEW x \in Index, NEW rows \in [Process -> Record],
           NEW new, new = [x EXCEPT !.processes = rows]
    PROVE  IsRewritten(x, rows, new)
BY DEF Index, IsRewritten

\* One turn of the loop tells one of them.
TurnTells(ix, processes, of, keys, h, k, p) ==
    LET before == IndexAfter(ix, processes, of, h, k - 1)
        after == IndexAfter(ix, processes, of, h, k)
    IN  /\ before \in Index /\ after \in Index
        /\ before.processes[p] = ix.processes[p]
        /\ Told(before, after, p, keys[k], processes[p])

LEMMA UnitTold ==
    ASSUME NEW ix \in Index, NEW processes, NEW units \in Seq(StoredUnit), NEW of, NEW keys,
           UnitsTell(ix, processes, units, of, keys), NEW k \in 1..Len(units),
           NEW moved \in Index, NEW h, NEW out, WholeLoop(h, moved, units, out),
           NEW p \in Process, p = of[k]
    PROVE  TurnTells(ix, processes, of, keys, h, k, p)
<1>. DEFINE before == IndexAfter(ix, processes, of, h, k - 1)
            after == IndexAfter(ix, processes, of, h, k)
<1>1. \A j : RowsAfter(ix, processes, of, j) \in [Process -> Record]
  BY DEF RowsAfter, UnitsTell, Index
<1>2. PICK unit \in StoredUnit : unit = units[k] /\ unit = Unit(RunOf[p], keys[k], 1)
  BY DEF UnitsTell
<1>3. unit.run = RunOf[p] /\ unit.key = keys[k] /\ Len(unit.events) = 1
  <2>1. [i \in 1..1 |-> 0] \in Seq(Nat) /\ Len([i \in 1..1 |-> 0]) = 1
    <3>1. [i \in 1..1 |-> 0] \in [1..1 -> Nat]
      OBVIOUS
    <3>. QED  BY <3>1
  <2>. QED  BY <1>2, <2>1 DEF Unit
<1>4. Turned(h, k, RunOf[p], keys[k])
  <2>1. Turned(h, k, unit.run, unit.key)
    BY <1>2, <1>3, LoopTurn
  <2>. QED  BY <1>3, <2>1
<1>5. PICK x \in Index, y \in Index : x = h[k-1].index /\ y = h[k].index
  BY <1>4 DEF Turned
<1>6. PICK old \in [Process -> Record], new \in [Process -> Record] :
          old = RowsAfter(ix, processes, of, k - 1) /\ new = RowsAfter(ix, processes, of, k)
  BY <1>1
<1>7. before = [x EXCEPT !.processes = old] /\ after = [y EXCEPT !.processes = new]
  BY <1>5, <1>6 DEF IndexAfter
<1>. HIDE DEF before, after
<1>8. IsRewritten(x, old, before) /\ IsRewritten(y, new, after)
  BY <1>7, Rewriting
<1>9. old[p] = ix.processes[p] /\ new = [old EXCEPT ![p] = processes[p]]
  <2>1. RowFollows(ix, processes, of, k, p)
    BY RowsAfterUnit
  <2>. QED  BY <1>6, <2>1 DEF RowFollows
<1>10. Said(before, after, RunOf[p], keys[k])
  BY <1>4, <1>5, <1>8 DEF Said, Turned, IsRewritten
<1>11. /\ before \in Index /\ after \in Index
       /\ before.processes[p] = ix.processes[p]
       /\ Told(before, after, p, keys[k], processes[p])
  BY <1>8, <1>9, <1>10 DEF Told, IsRewritten
<1>. QED  BY <1>11 DEF TurnTells, before, after

\* Where every unit tells what comes next of a process of its own, a claim cannot be
\* refused, and leaves a sound journal.
LEMMA TellingAll ==
    ASSUME NEW ix \in Index, Sound(ix), NEW processes, NEW units, NEW of, NEW keys,
           UnitsTell(ix, processes, units, of, keys),
           NEW done, ClaimAnswer(ix, done, processes, units)
    PROVE  /\ done.answer # "raised" /\ done.index \in Index
           /\ done.index.processes = processes
           /\ Sound(done.index) /\ SameAbsent(ix, done.index)
<1>1. units \in Seq(StoredUnit) /\ UnitsOnce(units) /\ Len(units) \in Nat
      /\ DOMAIN units = 1..Len(units)
  BY DEF ClaimAnswer
<1>. DEFINE n == Len(units)
<1>2. CASE units = <<>>
  <2>1. n = 0 /\ \A i \in 1..n : FALSE
    BY <1>2, EmptySeq
  <2>2. ix.processes \in [Process -> Record] /\ processes \in [Process -> Record]
    BY DEF Index, UnitsTell
  <2>3. \A p \in Process : processes[p] = ix.processes[p]
    BY <2>1 DEF UnitsTell
  <2>4. processes = ix.processes
    BY <2>2, <2>3
  <2>5. done.index = ix /\ done.answer = "empty"
    BY <1>2 DEF ClaimAnswer
  <2>. QED  BY <2>4, <2>5 DEF SameAbsent
<1>3. CASE units # <<>>
  <2>1. PICK moved \in Index, batch \in StoredBatch :
               /\ SameHistory(ix, moved) /\ moved.processes = processes
               /\ batch.units = units /\ done = AppendBatch(moved, batch)
    BY <1>3 DEF ClaimAnswer
  <2>2. \A i \in DOMAIN batch.units : Command(batch.units[i]) \notin moved.commands
    <3>. SUFFICES ASSUME NEW i \in 1..n PROVE Command(units[i]) \notin moved.commands
      BY <1>1, <2>1
    <3>1. PICK p \in Process : p = of[i]
      BY DEF UnitsTell
    <3>2. /\ units[i] = Unit(RunOf[p], keys[i], 1)
          /\ IsTouched(ix.processes[p], p, keys[i], processes[p])
      BY <3>1 DEF UnitsTell
    <3>3. IsNext(ix, p, keys[i], processes[p])
      BY <3>2, TouchedIsNext
    <3>4. RowSound(ix, p)
      BY DEF Sound
    <3>5. ~ KeyUsed(ix, p, keys[i])
      BY <3>3, <3>4, NextIsNew
    <3>6. Command(units[i]) = <<RunOf[p], keys[i]>>
      BY <3>2 DEF Unit, Command
    <3>. QED  BY <2>1, <3>5, <3>6 DEF KeyUsed, SameHistory
  <2>3. PICK h, out : AppendsAll(moved, batch, h, out)
    BY <1>1, <1>3, <2>1, <2>2, AppendingAll
  <2>4. /\ WholeLoop(h, moved, units, out) /\ done.answer = "accepted" /\ done.index \in Index
        /\ done.index.commands = h[n].index.commands /\ done.index.events = h[n].index.events
        /\ done.index.processes = processes
    BY <2>1, <2>3 DEF AppendsAll
  <2>5. h \in [0..n -> Loop] /\ h[0].index = moved
    BY <2>4 DEF WholeLoop, Start
  <2>. DEFINE g(k) == IndexAfter(ix, processes, of, h, k)
              S == {k \in 0..n : g(k) \in Index /\ Sound(g(k)) /\ SameAbsent(ix, g(k))}
  <2>6. \A k \in 0..n : IsRewritten(h[k].index, RowsAfter(ix, processes, of, k), g(k))
    <3>. SUFFICES ASSUME NEW k \in 0..n
                  PROVE  IsRewritten(h[k].index, RowsAfter(ix, processes, of, k), g(k))
      OBVIOUS
    <3>1. RowsAfter(ix, processes, of, k) \in [Process -> Record]
      BY DEF RowsAfter, UnitsTell, Index
    <3>2. h[k].index \in Index
      BY <2>5 DEF Loop
    <3>3. g(k) = [h[k].index EXCEPT !.processes = RowsAfter(ix, processes, of, k)]
      BY DEF IndexAfter
    <3>. HIDE DEF g
    <3>. QED  BY <3>1, <3>2, <3>3, Rewriting
  <2>7. 0 \in S
    <3>1. PICK x : x = g(0)
      OBVIOUS
    <3>2. 0 \in 0..n
      BY <1>1
    <3>3. IsRewritten(h[0].index, RowsAfter(ix, processes, of, 0), x)
      BY <2>6, <3>1, <3>2
    <3>4. RowsAfter(ix, processes, of, 0) = ix.processes
      <4>1. \A i \in 1..0 : FALSE
        OBVIOUS
      <4>2. RowsAfter(ix, processes, of, 0) = [p \in Process |-> ix.processes[p]]
        BY <4>1 DEF RowsAfter
      <4>. QED  BY <4>2 DEF Index
    <3>5. /\ x \in Index /\ x.processes = ix.processes
          /\ x.commands = ix.commands /\ x.events = ix.events
      BY <2>1, <2>5, <3>3, <3>4 DEF IsRewritten, SameHistory
    <3>6. Sound(x) /\ SameAbsent(ix, x)
      BY <3>5, SoundAlike DEF SameAbsent
    <3>. QED  BY <3>1, <3>2, <3>5, <3>6
  <2>8. ASSUME NEW k \in 1..n, k - 1 \in S PROVE k \in S
    <3>1. PICK before : before = g(k-1)
      OBVIOUS
    <3>2. PICK after : after = g(k)
      OBVIOUS
    <3>3. k \in 0..n /\ before \in Index /\ Sound(before) /\ SameAbsent(ix, before)
      BY <1>1, <2>8, <3>1
    <3>4. PICK p \in Process : p = of[k]
      BY DEF UnitsTell
    <3>5. IsTouched(ix.processes[p], p, keys[k], processes[p])
      BY <3>4 DEF UnitsTell
    <3>6. /\ after \in Index /\ before.processes[p] = ix.processes[p]
          /\ Told(before, after, p, keys[k], processes[p])
      <4>1. TurnTells(ix, processes, of, keys, h, k, p)
        <5>. HIDE DEF g, S
        <5>. QED  BY <1>1, <2>4, <3>4, UnitTold
      <4>. QED  BY <3>1, <3>2, <4>1 DEF TurnTells
    <3>7. IsNext(before, p, keys[k], processes[p]) /\ before.processes[p].status # "absent"
      BY <3>5, <3>6, TouchedIsNext
    <3>8. Sound(after) /\ SameAbsent(before, after)
      <4>. HIDE DEF n, g, S
      <4>. QED  BY <3>3, <3>6, <3>7, TellingKeeps, TellingStays
    <3>9. SameAbsent(ix, after)
      BY <3>3, <3>8 DEF SameAbsent
    <3>. QED  BY <3>2, <3>3, <3>6, <3>8, <3>9
  <2>9. n \in S
    <3>. HIDE DEF S
    <3>1. \A k \in 0..n : k \in S
      BY <1>1, <2>7, <2>8, UpTo
    <3>. QED  BY <1>1, <3>1
  <2>10. PICK x \in Index : x = g(n) /\ Sound(x) /\ SameAbsent(ix, x)
    BY <2>9
  <2>11. RowsAfter(ix, processes, of, n) = processes
    <3>1. ASSUME NEW p \in Process
          PROVE  RowsAfter(ix, processes, of, n)[p] = processes[p]
      BY <3>1 DEF RowsAfter, UnitsTell
    <3>2. /\ processes \in [Process -> Record]
          /\ RowsAfter(ix, processes, of, n) \in [Process -> Record]
      BY DEF RowsAfter, UnitsTell, Index
    <3>. QED  BY <3>1, <3>2
  <2>12. /\ done.index.processes = x.processes
         /\ done.index.commands = x.commands /\ done.index.events = x.events
    <3>1. n \in 0..n
      BY <1>1
    <3>2. IsRewritten(h[n].index, processes, x)
      BY <2>6, <2>10, <2>11, <3>1
    <3>. QED  BY <2>4, <3>2 DEF IsRewritten
  <2>13. Sound(done.index)
    BY <2>10, <2>12, SoundAlike
  <2>. QED  BY <2>4, <2>10, <2>12, <2>13 DEF SameAbsent
<1>. QED  BY <1>2, <1>3

\* A claim's units tell what comes next of the rows it reaps and of the one it takes.
LEMMA ClaimTells ==
    ASSUME NEW ix \in Index, NEW w \in Worker, NEW which, NEW at, NEW until \in Nat,
           NEW chosen \in ReadyChoices(ix, which, at), NEW units, units \in Seq(StoredUnit),
           UnitsOnce(units),
           UnitsTouch(ix, Reaped(ix, which, at) \cup chosen, chosen, units)
    PROVE  \E of, keys : UnitsTell(ix, Moved(ix, w, which, at, until, chosen), units, of, keys)
<1>. DEFINE touched == Reaped(ix, which, at) \cup chosen
            processes == Moved(ix, w, which, at, until, chosen)
            n == Len(units)
            of == [i \in 1..n |-> CHOOSE p \in touched :
                                      units[i] = Unit(RunOf[p], TouchKey(ix, chosen, p), 1)]
            keys == [i \in 1..n |-> TouchKey(ix, chosen, of[i])]
<1>1. n \in Nat /\ DOMAIN units = 1..n
  OBVIOUS
<1>2. /\ \A p \in chosen : p \in Process /\ IsClaimable(ix, p, at)
      /\ \A p \in touched : p \in Process
      /\ chosen \in SUBSET Process
  BY DEF ReadyChoices, Reaped
<1>3. processes \in [Process -> Record]
  BY <1>2, MovedRows
<1>4. ASSUME NEW p \in touched
      PROVE  IsTouched(ix.processes[p], p, TouchKey(ix, chosen, p), processes[p])
  <2>1. p \in Process /\ RowMoved(ix, w, which, at, until, chosen, p)
    BY <1>2, MovedRow
  <2>2. PICK old \in Record : old = ix.processes[p]
    BY <2>1 DEF Index
  <2>3. PICK row \in Record : row = processes[p]
    BY <1>3, <2>1
  <2>4. MaxAttempts[p] \in Nat /\ old.attempt \in Nat
    BY <2>1, MemoryAttemptsAssumption DEF Record
  <2>. HIDE DEF processes
  <2>5. ASSUME p \in chosen
        PROVE  IsTouched(old, p, TouchKey(ix, chosen, p), row)
    <3>1. IsClaimable(ix, p, at)
      BY <1>2, <2>5
    <3>2. p \notin Reaped(ix, which, at)
      BY <2>2, <2>4, <3>1 DEF Reaped, Reapable, IsClaimable
    <3>3. row = Claimed(old, w, until)
      BY <2>1, <2>2, <2>3, <2>5, <3>2 DEF RowMoved, processes
    <3>4. row.status = "running" /\ row.attempt = old.attempt + 1
      BY <3>3 DEF Claimed, Record
    <3>. QED  BY <2>2, <2>5, <3>1, <3>4 DEF IsTouched, TouchKey, IsClaimable
  <2>6. ASSUME p \notin chosen
        PROVE  IsTouched(old, p, TouchKey(ix, chosen, p), row)
    <3>1. p \in Reaped(ix, which, at)
      BY <2>6
    <3>2. row = [Unleased(old) EXCEPT !.status = "failed"]
      BY <2>1, <2>2, <2>3, <2>6, <3>1 DEF RowMoved, processes
    <3>3. row.status = "failed" /\ row.attempt = old.attempt
      BY <3>2 DEF Unleased, Record
    <3>4. old.status = "running"
      BY <2>2, <3>1 DEF Reaped, Reapable
    <3>. QED  BY <2>2, <2>6, <3>3, <3>4 DEF IsTouched, TouchKey
  <2>. QED  BY <2>2, <2>3, <2>5, <2>6
<1>5. ASSUME NEW p \in Process, p \notin touched PROVE processes[p] = ix.processes[p]
  <2>1. RowMoved(ix, w, which, at, until, chosen, p)
    BY MovedRow
  <2>. QED  BY <1>5, <2>1 DEF RowMoved
<1>. HIDE DEF processes
<1>6. ASSUME NEW i \in 1..n
      PROVE  of[i] \in touched /\ units[i] = Unit(RunOf[of[i]], TouchKey(ix, chosen, of[i]), 1)
  <2>1. \E p \in touched : units[i] = Unit(RunOf[p], TouchKey(ix, chosen, p), 1)
    BY <1>1 DEF UnitsTouch
  <2>. HIDE DEF touched, n
  <2>. QED  BY <2>1
<1>. HIDE DEF of, touched, n
<1>7. \A i, j \in 1..n : of[i] = of[j] => i = j
  BY <1>1, <1>6 DEF UnitsOnce
<1>8. ASSUME NEW p \in Process, \A i \in 1..n : of[i] # p PROVE p \notin touched
  <2>. SUFFICES ASSUME p \in touched PROVE FALSE
    OBVIOUS
  <2>1. PICK i \in 1..n : units[i] = Unit(RunOf[p], TouchKey(ix, chosen, p), 1)
    BY <1>1 DEF UnitsTouch, touched
  <2>2. PICK q \in touched : q = of[i] /\ q # p
    BY <1>6, <1>8
  <2>3. Unit(RunOf[q], TouchKey(ix, chosen, q), 1) = Unit(RunOf[p], TouchKey(ix, chosen, p), 1)
    BY <1>6, <2>1, <2>2
  <2>4. TouchKey(ix, chosen, q) = TouchKey(ix, chosen, p)
    BY <2>3 DEF Unit
  <2>5. TouchKey(ix, chosen, q)[2] = q /\ TouchKey(ix, chosen, p)[2] = p
    BY DEF TouchKey, ClaimKey, FailKey
  <2>. QED  BY <2>2, <2>4, <2>5
<1>9. of \in [1..n -> Process] /\ \A i \in 1..n : keys[i] = TouchKey(ix, chosen, of[i])
  <2>1. \A i \in 1..n : of[i] \in Process
    BY <1>2, <1>6
  <2>. QED  BY <2>1 DEF of
<1>. HIDE DEF keys
<1>10. UnitsTell(ix, processes, units, of, keys)
  BY <1>3, <1>4, <1>5, <1>6, <1>7, <1>8, <1>9 DEF UnitsTell, n
<1>. QED  BY <1>10 DEF processes

\* claim_next of the runtime's journal.
LEMMA ClaimSound ==
    ASSUME NEW ix \in Index, Sound(ix), NEW w \in Worker, NEW which, NEW at, NEW until \in Nat,
           NEW chosen \in ReadyChoices(ix, which, at),
           NEW done, done = ClaimNext(ix, w, which, at, until, chosen)
    PROVE  /\ done.answer # "raised" /\ done.index \in Index
           /\ done.index.processes = Moved(ix, w, which, at, until, chosen)
           /\ Sound(done.index) /\ SameAbsent(ix, done.index)
<1>1. PICK processes : processes = Moved(ix, w, which, at, until, chosen)
  OBVIOUS
<1>2. PICK units : /\ UnitsTouch(ix, Reaped(ix, which, at) \cup chosen, chosen, units)
                   /\ ClaimAnswer(ix, done, processes, units)
  BY <1>1, Claiming
<1>3. units \in Seq(StoredUnit) /\ UnitsOnce(units)
  BY <1>2 DEF ClaimAnswer
<1>4. PICK of, keys : UnitsTell(ix, processes, units, of, keys)
  BY <1>1, <1>2, <1>3, ClaimTells
<1>. QED  BY <1>1, <1>2, <1>4, TellingAll

LEMMA RuntimeStart == RuntimeInit => RuntimeInv
<1>. SUFFICES ASSUME RuntimeInit PROVE RuntimeInv
  OBVIOUS
<1>1. PICK ix \in Index : ix = EmptyIndex /\ ix = journal
  BY EmptyIsIndex DEF RuntimeInit
<1>2. /\ \A p \in Process : ix.processes[p] = AbsentRecord
      /\ \A r \in Run : ix.events[r] = <<>>
      /\ ix.commands = {}
  BY <1>1 DEF EmptyIndex
<1>3. ASSUME NEW p \in Process PROVE RowSound(ix, p)
  <2>1. ix.processes[p].status = "absent" /\ ix.processes[p].attempt = 0
    BY <1>2 DEF AbsentRecord
  <2>2. RunOf[p] \in Run
    BY RunOfAssumption
  <2>3. Positions(ix, p) = {}
    BY <1>2, <2>2 DEF Positions
  <2>4. KeysFit(ix, p)
    BY <1>2, <2>1 DEF KeysFit, KeyUsed
  <2>. QED  BY <2>1, <2>3, <2>4, MemoryAttemptsAssumption DEF RowSound, LastTold, Conducted
<1>4. Sound(journal) /\ AllOrNone(journal)
  BY <1>1, <1>2, <1>3 DEF Sound, AllOrNone
<1>5. RuntimeTypeOK
  BY <1>1, RuntimeAssumption, FS_EmptySet DEF RuntimeInit, RuntimeTypeOK, NoDrive, NoProcess
<1>6. DriveKnown
  BY DEF RuntimeInit, DriveKnown, NoDrive
<1>. QED  BY <1>4, <1>5, <1>6 DEF RuntimeInv

\* A call of the owner, between two drives.
LEMMA CallerKeeps == ASSUME RuntimeInv, CallerStep PROVE RuntimeInv'
<1>1. PICK ix \in Index : ix = journal /\ Sound(ix) /\ AllOrNone(ix)
  BY DEF RuntimeInv, RuntimeTypeOK
<1>2. ASSUME NEW r \in Run, CreateRun(r), UNCHANGED <<clock, drive, moves>> PROVE RuntimeInv'
  <2>1. PICK key \in CallerKey : key = <<"run.create", r>> /\ key[1] = "run.create"
    <3>1. "created" \in RunStatuses
      BY DEF RunStatuses, RunOpen
    <3>. QED  BY <3>1, RuntimeKeyAssumption
  <2>2. journal' = Journaled(ix, r, key) /\ runs' = [runs EXCEPT ![r] = "created"]
    BY <1>1, <1>2, <2>1 DEF CreateRun
  <2>3. journal' \in Index /\ Sound(journal') /\ AllOrNone(journal')
    BY <1>1, <2>1, <2>2, RunKeeps, SameIsAll
  <2>4. runs' \in [Run -> RunStatuses \cup {"absent"}]
    BY <2>2 DEF RuntimeInv, RuntimeTypeOK, RunStatuses, RunOpen
  <2>. QED  BY <1>2, <2>3, <2>4 DEF RuntimeInv, RuntimeTypeOK, DriveKnown, Sound, AllOrNone
<1>3. ASSUME NEW r \in Run, NEW to \in RunStatuses, SetRunStatus(r, to),
             UNCHANGED <<clock, drive>>
      PROVE  RuntimeInv'
  <2>1. PICK key \in CallerKey : key = <<"run.status.set", r, to>> /\ key[1] = "run.status.set"
    BY RuntimeKeyAssumption
  <2>2. /\ journal' = Journaled(ix, r, key) /\ runs' = [runs EXCEPT ![r] = to]
        /\ moves' = moves + 1 /\ moves < MaxMoves
    BY <1>1, <1>3, <2>1 DEF SetRunStatus
  <2>3. journal' \in Index /\ Sound(journal') /\ AllOrNone(journal')
    BY <1>1, <2>1, <2>2, RunKeeps, SameIsAll
  <2>4. runs' \in [Run -> RunStatuses \cup {"absent"}]
    BY <2>2 DEF RuntimeInv, RuntimeTypeOK
  <2>5. moves' \in 0..MaxMoves
    BY <2>2, RuntimeAssumption DEF RuntimeInv, RuntimeTypeOK
  <2>. QED  BY <1>3, <2>3, <2>4, <2>5 DEF RuntimeInv, RuntimeTypeOK, DriveKnown
<1>4. ASSUME journal' \in Index, Sound(journal'), AllOrNone(journal'),
             UNCHANGED <<runs, clock, drive, moves>>
      PROVE  RuntimeInv'
  BY <1>4 DEF RuntimeInv, RuntimeTypeOK, DriveKnown
<1>5. ASSUME NEW r \in Run, InstantiatePath(r), UNCHANGED <<runs, clock, drive, moves>>
      PROVE  RuntimeInv'
  <2>1. journal' = FoldLeft(Scheduled, ix, SetToSeq({p \in Process : RunOf[p] = r}))
    BY <1>1, <1>5 DEF InstantiatePath
  <2>2. journal' \in Index /\ Sound(journal') /\ AllOrNone(journal')
    BY <1>1, <2>1, InstantiateKeeps
  <2>. QED  BY <1>4, <1>5, <2>2
<1>6. ASSUME NEW p \in Process, NEW w \in Worker, UNCHANGED <<runs, clock, drive, moves>>,
             \/ MayEnd(journal, p, w, "succeeded") /\ journal' = Completed(journal, p)
             \/ MayEnd(journal, p, w, "failed") /\ journal' = Failed(journal, p)
      PROVE  RuntimeInv'
  <2>1. \/ CanTransition(ix.processes[p].status, "succeeded") /\ journal' = Completed(ix, p)
        \/ CanTransition(ix.processes[p].status, "failed") /\ journal' = Failed(ix, p)
    BY <1>1, <1>6 DEF MayEnd
  <2>2. journal' \in Index /\ Sound(journal') /\ AllOrNone(journal')
    BY <1>1, <2>1, EndingKeeps, SameIsAll
  <2>. QED  BY <1>4, <1>6, <2>2
<1>. QED  BY <1>2, <1>3, <1>5, <1>6 DEF CallerStep

\* A claim, and the advance after an empty one.
LEMMA DriveClaimKeeps == ASSUME RuntimeInv, DriveClaim PROVE RuntimeInv'
<1>1. PICK ix \in Index : ix = journal /\ Sound(ix) /\ AllOrNone(ix)
  BY DEF RuntimeInv, RuntimeTypeOK
<1>2. PICK w \in Worker : w = drive.worker
  BY DEF RuntimeInv, DriveKnown, DriveClaim
<1>3. PICK which, at : which = {drive.run} /\ at = clock
  OBVIOUS
<1>4. PICK until \in Nat : until = clock + Lease
  BY ClaimsAssumption DEF RuntimeInv, RuntimeTypeOK
<1>5. PICK chosen, done :
          /\ chosen \in ReadyChoices(ix, which, at)
          /\ done = ClaimNext(ix, w, which, at, until, chosen)
          /\ IF done.answer = "raised" THEN journal' = done.index /\ drive' = NoDrive
             ELSE IF chosen # {}
             THEN /\ journal' = done.index
                  /\ drive' = [drive EXCEPT !.at = "execute", !.process = chosen]
             ELSE /\ journal' = Advanced(done.index, drive.run)
                  /\ drive' = IF Returns(done.index, drive.run) THEN NoDrive
                              ELSE [drive EXCEPT !.at = "tick"]
  BY <1>1, <1>2, <1>3, <1>4 DEF DriveClaim
<1>6. PICK claimed \in Index : /\ claimed = done.index /\ done.answer # "raised"
                               /\ Sound(claimed) /\ AllOrNone(claimed)
  BY <1>1, <1>5, ClaimSound, SameIsAll
<1>7. journal' \in Index /\ Sound(journal') /\ AllOrNone(journal')
  <2>1. CASE chosen # {}
    BY <1>5, <1>6, <2>1
  <2>2. CASE chosen = {}
    <3>1. journal' = Advanced(claimed, drive.run)
      BY <1>5, <1>6, <2>2
    <3>. QED  BY <1>6, <3>1, AdvanceKeeps, SameIsAll
  <2>. QED  BY <2>1, <2>2
<1>8. chosen = {} \/ \E p \in Process : chosen = {p}
  BY <1>5 DEF ReadyChoices
<1>9. /\ drive' \in [at : {"none", "tick", "claim", "execute"}, worker : Worker \cup {NoWorker},
                     run : Run \cup {NoRun}, ticks : 0..MaxTicks, process : SUBSET Process]
      /\ Cardinality(drive.process)' = (IF drive'.at = "execute" THEN 1 ELSE 0)
      /\ drive'.at # "none" => drive'.worker \in Worker
  <2>1. PICK dr \in [at : {"none", "tick", "claim", "execute"}, worker : Worker \cup {NoWorker},
                     run : Run \cup {NoRun}, ticks : 0..MaxTicks, process : SUBSET Process] :
            dr = drive /\ dr.at = "claim" /\ dr.worker \in Worker /\ Cardinality(dr.process) = 0
    BY <1>2 DEF RuntimeInv, RuntimeTypeOK, DriveClaim
  <2>2. CASE chosen # {}
    <3>1. drive' = [dr EXCEPT !.at = "execute", !.process = chosen]
      BY <1>5, <1>6, <2>1, <2>2
    <3>2. PICK p \in Process : chosen = {p}
      BY <1>8, <2>2
    <3>3. Cardinality({p}) = 1
      BY FS_Singleton
    <3>. QED  BY <2>1, <3>1, <3>2, <3>3
  <2>3. CASE chosen = {}
    <3>1. drive' = NoDrive \/ drive' = [dr EXCEPT !.at = "tick"]
      BY <1>5, <1>6, <2>1, <2>3
    <3>2. 0 \in 0..MaxTicks
      BY RuntimeAssumption
    <3>3. CASE drive' = NoDrive
      BY <3>2, <3>3, FS_EmptySet DEF NoDrive, NoProcess
    <3>4. CASE drive' = [dr EXCEPT !.at = "tick"]
      BY <2>1, <3>4
    <3>. QED  BY <3>1, <3>3, <3>4
  <2>. QED  BY <2>2, <2>3
<1>. QED  BY <1>7, <1>9 DEF DriveClaim, RuntimeInv, RuntimeTypeOK, DriveKnown

\* The process that was claimed is completed, and the run advanced.
LEMMA ExecuteKeeps == ASSUME RuntimeInv, ExecuteAndComplete PROVE RuntimeInv'
<1>1. PICK ix \in Index : ix = journal /\ Sound(ix) /\ AllOrNone(ix)
  BY DEF RuntimeInv, RuntimeTypeOK
<1>2. PICK p \in Process : /\ CanTransition(ix.processes[p].status, "succeeded")
                           /\ journal' = Advanced(Completed(ix, p), drive.run)
  BY <1>1 DEF ExecuteAndComplete, MayEnd, RuntimeInv, RuntimeTypeOK
<1>3. PICK completed : completed = Completed(ix, p)
  OBVIOUS
<1>4. completed \in Index /\ Sound(completed) /\ AllOrNone(completed)
  BY <1>1, <1>2, <1>3, EndingKeeps, SameIsAll
<1>5. journal' \in Index /\ Sound(journal') /\ AllOrNone(journal')
  BY <1>2, <1>3, <1>4, AdvanceKeeps, SameIsAll
<1>6. /\ drive' \in [at : {"none", "tick", "claim", "execute"}, worker : Worker \cup {NoWorker},
                     run : Run \cup {NoRun}, ticks : 0..MaxTicks, process : SUBSET Process]
      /\ Cardinality(drive.process)' = 0 /\ drive'.at = "tick" /\ drive'.worker \in Worker
  BY FS_EmptySet DEF ExecuteAndComplete, RuntimeInv, RuntimeTypeOK, DriveKnown, NoProcess
<1>. QED  BY <1>5, <1>6 DEF ExecuteAndComplete, RuntimeInv, RuntimeTypeOK, DriveKnown

\* The steps of a drive that leave the journal alone.
LEMMA DriveKeeps ==
    ASSUME RuntimeInv,
           \/ \E w \in Worker, r \in Run : StartDrive(w, r)
           \/ Tick \/ EffectorRaises
    PROVE  RuntimeInv'
<1>1. PICK dr \in [at : {"none", "tick", "claim", "execute"}, worker : Worker \cup {NoWorker},
                   run : Run \cup {NoRun}, ticks : 0..MaxTicks, process : SUBSET Process] :
          /\ dr = drive /\ Cardinality(dr.process) = (IF dr.at = "execute" THEN 1 ELSE 0)
          /\ dr.at # "none" => dr.worker \in Worker
  BY DEF RuntimeInv, RuntimeTypeOK, DriveKnown
<1>2. 0 \in 0..MaxTicks /\ MaxTicks \in Nat /\ Cardinality({}) = 0
  BY RuntimeAssumption, FS_EmptySet
<1>3. /\ drive' \in [at : {"none", "tick", "claim", "execute"}, worker : Worker \cup {NoWorker},
                     run : Run \cup {NoRun}, ticks : 0..MaxTicks, process : SUBSET Process]
      /\ Cardinality(drive'.process) = (IF drive'.at = "execute" THEN 1 ELSE 0)
      /\ drive'.at # "none" => drive'.worker \in Worker
      /\ clock' \in Nat /\ UNCHANGED <<journal, runs, moves>>
  <2>1. ASSUME NEW w \in Worker, NEW r \in Run, StartDrive(w, r)
        PROVE  /\ drive' \in [at : {"none", "tick", "claim", "execute"},
                              worker : Worker \cup {NoWorker}, run : Run \cup {NoRun},
                              ticks : 0..MaxTicks, process : SUBSET Process]
               /\ drive'.at = "tick" /\ drive'.process = {} /\ drive'.worker \in Worker
               /\ UNCHANGED <<journal, runs, clock, moves>>
    BY <1>2, <2>1 DEF StartDrive, NoDrive, NoProcess
  <2>2. CASE \E w \in Worker, r \in Run : StartDrive(w, r)
    BY <1>2, <2>1, <2>2 DEF RuntimeInv, RuntimeTypeOK
  <2>3. CASE Tick
    <3>1. dr.at = "tick" /\ UNCHANGED <<journal, runs, moves>>
      BY <1>1, <2>3 DEF Tick
    <3>2. CASE drive.ticks < MaxTicks
      <4>1. clock' = clock + 1 /\ drive' = [dr EXCEPT !.at = "claim", !.ticks = dr.ticks + 1]
        BY <1>1, <2>3, <3>2 DEF Tick
      <4>2. PICK t \in 0..MaxTicks : t = dr.ticks + 1
        BY <1>1, <1>2, <3>2
      <4>3. PICK new \in [at : {"none", "tick", "claim", "execute"},
                          worker : Worker \cup {NoWorker}, run : Run \cup {NoRun},
                          ticks : 0..MaxTicks, process : SUBSET Process] :
                /\ new = [dr EXCEPT !.at = "claim", !.ticks = t]
                /\ new.at = "claim" /\ new.process = dr.process /\ new.worker = dr.worker
        <5>. DEFINE Shape(S) == [at : {"none", "tick", "claim", "execute"},
                                 worker : Worker \cup {NoWorker}, run : Run \cup {NoRun},
                                 ticks : S, process : SUBSET Process]
                    Ticked(x, y) == [x EXCEPT !.at = "claim", !.ticks = y]
                    Is(x, y) == /\ Ticked(x, y).at = "claim"
                                /\ Ticked(x, y).process = x.process
                                /\ Ticked(x, y).worker = x.worker
        <5>1. ASSUME NEW S, NEW x \in Shape(S), NEW y \in S
              PROVE  Ticked(x, y) \in Shape(S) /\ Is(x, y)
          OBVIOUS
        <5>2. dr \in Shape(0..MaxTicks)
          OBVIOUS
        <5>3. Ticked(dr, t) \in Shape(0..MaxTicks) /\ Is(dr, t)
          <6>. HIDE DEF Shape, Ticked, Is
          <6>. QED  BY <5>1, <5>2
        <5>. QED  BY <5>3
      <4>4. clock' \in Nat
        BY <4>1 DEF RuntimeInv, RuntimeTypeOK
      <4>. QED  BY <1>1, <3>1, <4>1, <4>2, <4>3, <4>4
    <3>3. CASE ~ (drive.ticks < MaxTicks)
      BY <1>2, <2>3, <3>1, <3>3 DEF Tick, NoDrive, NoProcess, RuntimeInv, RuntimeTypeOK
    <3>. QED  BY <3>2, <3>3
  <2>4. CASE EffectorRaises
    BY <1>2, <2>4 DEF EffectorRaises, NoDrive, NoProcess, RuntimeInv, RuntimeTypeOK
  <2>. QED  BY <2>2, <2>3, <2>4
<1>. QED  BY <1>3 DEF RuntimeInv, RuntimeTypeOK, DriveKnown

LEMMA RuntimeStep == RuntimeInv /\ [RuntimeNext]_runtimeVars => RuntimeInv'
<1>. SUFFICES ASSUME RuntimeInv, [RuntimeNext]_runtimeVars PROVE RuntimeInv'
  OBVIOUS
<1>1. CASE UNCHANGED runtimeVars
  BY <1>1 DEF runtimeVars, RuntimeInv, RuntimeTypeOK, DriveKnown
<1>. QED  BY <1>1, CallerKeeps, DriveClaimKeeps, ExecuteKeeps, DriveKeeps DEF RuntimeNext

\* The runtime keeps its journal sound: what may come next of a process has a key
\* that is free, and so no call it makes is refused or taken for a replay.
THEOREM RuntimeInvariant == RuntimeSpec => []RuntimeInv
BY RuntimeStart, RuntimeStep, PTL DEF RuntimeSpec

\* Whether by a claim, a reap, a call or an advance, a row is written with an event
\* that says so: the last event of a process gives its status.
THEOREM LastEventIsStatus == RuntimeSpec => []StatusIsLastEvent
<1>1. RuntimeInv => StatusIsLastEvent
  <2>. SUFFICES ASSUME RuntimeInv, NEW p \in Process
                PROVE  journal.processes[p].status =
                           IF EventsOfProcess(p) = {} THEN "absent"
                           ELSE Says(p, journal.events[RunOf[p]][Max(EventsOfProcess(p))].key[1])
    BY DEF StatusIsLastEvent
  <2>1. EventsOfProcess(p) = Positions(journal, p)
    BY DEF EventsOfProcess, Positions
  <2>2. LastTold(journal, p)
    BY DEF RuntimeInv, Sound, RowSound
  <2>. QED  BY <2>1, <2>2 DEF LastTold
<1>. QED  BY <1>1, RuntimeInvariant, PTL

\* No process leaves pending before all its upstreams are settled, whichever call
\* instantiates, completes, fails, reaps or advances, and they stay settled.
THEOREM ConductionIsInOrder == RuntimeSpec => []ConductedInOrder
<1>1. RuntimeInv => ConductedInOrder
  BY DEF RuntimeInv, Sound, RowSound, Conducted, ConductedInOrder
<1>. QED  BY <1>1, RuntimeInvariant, PTL

\* A drive that returns leaves nothing it could have done: the last claim found no
\* row, what it reaped cannot be claimed again, and the advance readied nothing.
THEOREM ReturningDriveIsIdle == RuntimeSpec => DriveReturnsIdle
<1>. DEFINE Idle == /\ Readiable(journal', drive.run) = {}
                    /\ \A p \in Process :
                           RunOf[p] = drive.run => ~ IsClaimable(journal', p, clock)
<1>1. ASSUME RuntimeInv, RuntimeNext, drive.at = "claim", drive'.at = "none" PROVE Idle
  <2>1. DriveClaim
    BY <1>1 DEF RuntimeNext, CallerStep, StartDrive, Tick, ExecuteAndComplete, EffectorRaises
  <2>2. PICK ix \in Index : ix = journal /\ Sound(ix) /\ AllOrNone(ix)
    BY <1>1 DEF RuntimeInv, RuntimeTypeOK
  <2>3. PICK w \in Worker : w = drive.worker
    BY <1>1 DEF RuntimeInv, DriveKnown
  <2>4. PICK which, at : which = {drive.run} /\ at = clock
    OBVIOUS
  <2>5. PICK until \in Nat : until = clock + Lease
    BY <1>1, ClaimsAssumption DEF RuntimeInv, RuntimeTypeOK
  <2>6. PICK chosen, done :
            /\ chosen \in ReadyChoices(ix, which, at)
            /\ done = ClaimNext(ix, w, which, at, until, chosen)
            /\ IF done.answer = "raised" THEN journal' = done.index /\ drive' = NoDrive
               ELSE IF chosen # {}
               THEN /\ journal' = done.index
                    /\ drive' = [drive EXCEPT !.at = "execute", !.process = chosen]
               ELSE /\ journal' = Advanced(done.index, drive.run)
                    /\ drive' = IF Returns(done.index, drive.run) THEN NoDrive
                                ELSE [drive EXCEPT !.at = "tick"]
    BY <2>1, <2>2, <2>3, <2>4, <2>5 DEF DriveClaim
  <2>7. PICK claimed \in Index :
            /\ claimed = done.index /\ done.answer # "raised"
            /\ claimed.processes = Moved(ix, w, which, at, until, chosen)
            /\ Sound(claimed) /\ AllOrNone(claimed)
    BY <2>2, <2>6, ClaimSound, SameIsAll
  <2>8. chosen = {} /\ Returns(claimed, drive.run) /\ journal' = Advanced(claimed, drive.run)
    <3>1. /\ [drive EXCEPT !.at = "execute", !.process = chosen].at = "execute"
          /\ [drive EXCEPT !.at = "tick"].at = "tick"
      BY <1>1 DEF RuntimeInv, RuntimeTypeOK
    <3>. QED  BY <1>1, <2>6, <2>7, <3>1
  <2>9. Readiable(claimed, drive.run) = {} /\ journal' = claimed
    BY <2>7, <2>8, AdvanceKeeps DEF Returns
  <2>10. ASSUME NEW p \in Process, RunOf[p] = drive.run PROVE ~ IsClaimable(claimed, p, at)
    <3>1. ~ IsClaimable(ix, p, at)
      <4>1. {q \in Process : RunOf[q] \in which /\ IsClaimable(ix, q, at)} = {}
        BY <2>6, <2>8 DEF ReadyChoices
      <4>. QED  BY <2>4, <2>10, <4>1
    <3>2. RowMoved(ix, w, which, at, until, chosen, p)
      BY MovedRow
    <3>3. PICK old \in Record : old = ix.processes[p]
      BY DEF Index
    <3>4. CASE p \in Reaped(ix, which, at)
      <4>1. claimed.processes[p] = [Unleased(old) EXCEPT !.status = "failed"]
        BY <2>7, <2>8, <3>2, <3>3, <3>4 DEF RowMoved
      <4>2. [Unleased(old) EXCEPT !.status = "failed"].status = "failed"
        BY DEF Unleased, Record
      <4>. QED  BY <4>1, <4>2 DEF IsClaimable
    <3>5. CASE p \notin Reaped(ix, which, at)
      <4>1. claimed.processes[p] = ix.processes[p]
        BY <2>7, <2>8, <3>2, <3>5 DEF RowMoved
      <4>. QED  BY <3>1, <4>1 DEF IsClaimable
    <3>. QED  BY <3>4, <3>5
  <2>. QED  BY <2>4, <2>9, <2>10
<1>2. RuntimeInv /\ [RuntimeNext]_runtimeVars =>
          [drive.at = "claim" /\ drive'.at = "none" => Idle]_runtimeVars
  BY <1>1
<1>. QED  BY <1>2, RuntimeInvariant, PTL DEF RuntimeSpec, DriveReturnsIdle

-----------------------------------------------------------------------------
(* The runtime implements the lifecycle: each of its steps, an advance of  *)
(* several processes included, moves every process by at most one step of  *)
(* ProcessLifecycle.                                                       *)

\* A row that is not there carries nothing, and one that waits has no lease.
LeaseFits(row) ==
    /\ row.status = "absent" => row = AbsentRecord
    /\ row.status = "pending" => row.owner = NoWorker /\ row.expires = 0

LeasesFit == \A p \in Process : LeaseFits(journal.processes[p])

RowMoves(p, old, new) == new = old \/ Lifecycle!Step(p, old, new)

LEMMA AbsentIsAbsent == AbsentRecord = Lifecycle!AbsentRecord
BY DEF AbsentRecord, Lifecycle!AbsentRecord

\* A transition of the table that drops the lease.
LEMMA TransitionMoves ==
    ASSUME NEW p \in Process, NEW old \in Record, NEW new \in Record,
           CanTransition(old.status, new.status), new.status \notin {"running", "retry_wait"},
           new.attempt = old.attempt, new.due = old.due, new.owner = NoWorker, new.expires = 0
    PROVE  Lifecycle!Step(p, old, new)
<1>1. Lifecycle!CanTransition(old.status, new.status)
  BY DEF CanTransition, OwnTargets, OpenStatus, Lifecycle!CanTransition, Lifecycle!OwnTargets,
      Lifecycle!OpenStatus
<1>2. Lifecycle!Transition(old, new)
  BY <1>1 DEF Lifecycle!Transition, Lifecycle!Unleased
<1>. QED  BY <1>2 DEF Lifecycle!Step

LEMMA ScheduledMoves ==
    ASSUME NEW p \in Process, NEW old \in Record, NEW new, LeaseFits(old),
           RowScheduled(p, old, new)
    PROVE  RowMoves(p, old, new)
<1>1. CASE new = old
  BY <1>1 DEF RowMoves
<1>2. CASE new # old
  <2>1. old = Lifecycle!AbsentRecord
    BY <1>2, AbsentIsAbsent DEF RowScheduled, LeaseFits
  <2>2. /\ new.status \in {"pending", "ready"} /\ new.attempt = 0
        /\ new.owner = NoWorker /\ new.expires = 0
    BY <1>2 DEF RowScheduled, AbsentRecord
  <2>3. Lifecycle!Schedule(old, new)
    BY <2>1, <2>2 DEF Lifecycle!Schedule, Lifecycle!Unleased
  <2>. QED  BY <2>3 DEF RowMoves, Lifecycle!Step
<1>. QED  BY <1>1, <1>2

LEMMA EndedMoves ==
    ASSUME NEW p \in Process, NEW old \in Record, NEW new, RowEnded(old, new)
    PROVE  RowMoves(p, old, new) /\ new.status # "pending"
<1>1. PICK to \in {"succeeded", "failed"} :
          CanTransition(old.status, to) /\ new = [Unleased(old) EXCEPT !.status = to]
  BY DEF RowEnded
<1>2. /\ new \in Record /\ new.status = to /\ new.attempt = old.attempt /\ new.due = old.due
      /\ new.owner = NoWorker /\ new.expires = 0
  BY <1>1 DEF Unleased, Record, Status, TerminalStatus
<1>3. Lifecycle!Step(p, old, new)
  BY <1>1, <1>2, TransitionMoves
<1>. QED  BY <1>2, <1>3 DEF RowMoves

LEMMA ReadiedMoves ==
    ASSUME NEW p \in Process, NEW old \in Record, NEW new, LeaseFits(old), RowReadied(old, new)
    PROVE  RowMoves(p, old, new)
<1>1. CASE new = old
  BY <1>1 DEF RowMoves
<1>2. CASE old.status = "pending" /\ new = [old EXCEPT !.status = "ready"]
  <2>1. /\ new \in Record /\ new.status = "ready" /\ new.attempt = old.attempt
        /\ new.due = old.due /\ new.owner = NoWorker /\ new.expires = 0
    BY <1>2 DEF LeaseFits, Record, Status, OpenStatus
  <2>2. CanTransition("pending", "ready")
    BY DEF CanTransition, OwnTargets, OpenStatus
  <2>3. Lifecycle!Step(p, old, new)
    BY <1>2, <2>1, <2>2, TransitionMoves
  <2>. QED  BY <2>3 DEF RowMoves
<1>. QED  BY <1>1, <1>2 DEF RowReadied

\* What a claim at the clock's reading makes of a row.
LEMMA ClaimMoves ==
    ASSUME NEW ix \in Index, NEW w \in Worker, NEW which, NEW until \in Nat, until # 0,
           NEW chosen \in ReadyChoices(ix, which, clock), NEW p \in Process,
           NEW new, new = Moved(ix, w, which, clock, until, chosen)[p]
    PROVE  \/ new = ix.processes[p]
           \/ Lifecycle!Step(p, ix.processes[p], new) /\ new.status # "pending"
<1>1. PICK old \in Record : old = ix.processes[p]
  BY DEF Index
<1>2. RowMoved(ix, w, which, clock, until, chosen, p)
  BY MovedRow
<1>3. \A q \in chosen : IsClaimable(ix, q, clock)
  BY DEF ReadyChoices
<1>4. p \in chosen => p \notin Reaped(ix, which, clock)
  <2>1. MaxAttempts[p] \in Nat /\ old.attempt \in Nat
    BY MemoryAttemptsAssumption DEF Record
  <2>. QED  BY <1>1, <1>3, <2>1 DEF Reaped, Reapable, IsClaimable
<1>5. CASE p \in chosen
  <2>1. new = Claimed(old, w, until)
    BY <1>1, <1>2, <1>4, <1>5 DEF RowMoved
  <2>2. /\ new.status = "running" /\ new.attempt = old.attempt + 1 /\ new.owner = w
        /\ new.expires = until /\ new.due = old.due
    BY <2>1 DEF Claimed, Record
  <2>3. Lifecycle!IsClaimable(p, old)
    BY <1>1, <1>3, <1>5 DEF IsClaimable, Expired, Lifecycle!IsClaimable, Lifecycle!HasLease
  <2>4. Lifecycle!Claim(p, old, new)
    BY <2>2, <2>3, WorkerAssumption DEF Lifecycle!Claim, Lifecycle!HasLease
  <2>. QED  BY <1>1, <2>2, <2>4 DEF Lifecycle!Step
<1>6. CASE p \notin chosen /\ p \in Reaped(ix, which, clock)
  <2>1. new = [Unleased(old) EXCEPT !.status = "failed"] /\ old.status = "running"
    BY <1>1, <1>2, <1>6 DEF RowMoved, Reaped, Reapable
  <2>2. CanTransition("running", "failed")
    BY DEF CanTransition, OwnTargets, OpenStatus
  <2>3. RowEnded(old, new)
    BY <2>1, <2>2 DEF RowEnded
  <2>4. new # old
    BY <2>1 DEF Unleased, Record
  <2>. QED  BY <1>1, <2>3, <2>4, EndedMoves DEF RowMoves
<1>7. CASE p \notin chosen /\ p \notin Reaped(ix, which, clock)
  BY <1>2, <1>7 DEF RowMoved
<1>. QED  BY <1>5, <1>6, <1>7

\* Every step of the runtime, row by row.
LEMMA RowsMove ==
    ASSUME RuntimeInv, LeasesFit, RuntimeNext, NEW p \in Process
    PROVE  RowMoves(p, journal.processes[p], journal'.processes[p])
<1>1. PICK ix \in Index : ix = journal /\ Sound(ix) /\ AllOrNone(ix)
  BY DEF RuntimeInv, RuntimeTypeOK
<1>2. PICK old \in Record : old = ix.processes[p] /\ LeaseFits(old)
  BY <1>1 DEF Index, LeasesFit
<1>3. PICK new : new = journal'.processes[p]
  OBVIOUS
<1>4. CASE UNCHANGED journal
  BY <1>4 DEF RowMoves
<1>5. ASSUME NEW r \in Run, NEW key \in CallerKey, journal' = Journaled(ix, r, key)
      PROVE  RowMoves(p, old, new)
  <2>1. key \in Key
    BY DEF Key
  <2>2. new = old
    BY <1>2, <1>3, <1>5, <2>1, Journaling
  <2>. QED  BY <2>2 DEF RowMoves
<1>6. ASSUME NEW r \in Run, CreateRun(r) PROVE RowMoves(p, old, new)
  <2>1. PICK key \in CallerKey : key = <<"run.create", r>>
    <3>1. "created" \in RunStatuses
      BY DEF RunStatuses, RunOpen
    <3>. QED  BY <3>1, RuntimeKeyAssumption
  <2>. QED  BY <1>1, <1>5, <1>6, <2>1 DEF CreateRun
<1>7. ASSUME NEW r \in Run, NEW to \in RunStatuses, SetRunStatus(r, to)
      PROVE  RowMoves(p, old, new)
  <2>1. PICK key \in CallerKey : key = <<"run.status.set", r, to>>
    BY RuntimeKeyAssumption
  <2>. QED  BY <1>1, <1>5, <1>7, <2>1 DEF SetRunStatus
<1>8. ASSUME NEW r \in Run, InstantiatePath(r) PROVE RowMoves(p, old, new)
  <2>1. PICK after : after = journal'
    OBVIOUS
  <2>2. after = FoldLeft(Scheduled, ix, SetToSeq({q \in Process : RunOf[q] = r}))
    BY <1>1, <1>8, <2>1 DEF InstantiatePath
  <2>3. RowScheduled(p, old, new)
    BY <1>1, <1>2, <1>3, <2>1, <2>2, InstantiateKeeps
  <2>. QED  BY <1>2, <2>3, ScheduledMoves
<1>9. ASSUME NEW mid \in Index, Sound(mid), AllOrNone(mid), NEW r,
              journal' = Advanced(mid, r),
              \/ mid.processes[p] = old
              \/ /\ Lifecycle!Step(p, old, mid.processes[p])
                 /\ mid.processes[p].status # "pending"
       PROVE  RowMoves(p, old, new)
  <2>1. PICK after : after = journal'
    OBVIOUS
  <2>2. RowReadied(mid.processes[p], new)
    BY <1>3, <1>9, <2>1, AdvanceKeeps
  <2>3. CASE mid.processes[p] = old
    BY <1>2, <2>2, <2>3, ReadiedMoves
  <2>4. CASE /\ Lifecycle!Step(p, old, mid.processes[p])
             /\ mid.processes[p].status # "pending"
    BY <2>2, <2>4 DEF RowReadied, RowMoves
  <2>. QED  BY <1>9, <2>3, <2>4
<1>10. CASE CallerStep
  <2>1. ASSUME NEW q \in Process, NEW w \in Worker,
               \/ MayEnd(journal, q, w, "succeeded") /\ journal' = Completed(journal, q)
               \/ MayEnd(journal, q, w, "failed") /\ journal' = Failed(journal, q)
        PROVE  RowMoves(p, old, new)
    <3>1. PICK after : after = journal'
      OBVIOUS
    <3>2. \/ CanTransition(ix.processes[q].status, "succeeded") /\ after = Completed(ix, q)
          \/ CanTransition(ix.processes[q].status, "failed") /\ after = Failed(ix, q)
      BY <1>1, <2>1, <3>1 DEF MayEnd
    <3>3. /\ RowEnded(ix.processes[q], after.processes[q])
          /\ \A x \in Process : x # q => after.processes[x] = ix.processes[x]
      BY <1>1, <3>2, EndingKeeps
    <3>4. CASE p = q
      BY <1>2, <1>3, <3>1, <3>3, <3>4, EndedMoves
    <3>5. CASE p # q
      BY <1>2, <1>3, <3>1, <3>3, <3>5 DEF RowMoves
    <3>. QED  BY <3>4, <3>5
  <2>. QED  BY <1>1, <1>2, <1>3, <1>6, <1>7, <1>8, <1>10, <2>1 DEF CallerStep
<1>11. CASE DriveClaim
  <2>1. PICK w \in Worker : w = drive.worker
    BY <1>11 DEF RuntimeInv, DriveKnown, DriveClaim
  <2>2. PICK which : which = {drive.run}
    OBVIOUS
  <2>3. PICK until \in Nat : until = clock + Lease /\ until # 0
    BY ClaimsAssumption DEF RuntimeInv, RuntimeTypeOK
  <2>4. PICK chosen, done :
            /\ chosen \in ReadyChoices(ix, which, clock)
            /\ done = ClaimNext(ix, w, which, clock, until, chosen)
            /\ journal' = done.index \/ journal' = Advanced(done.index, drive.run)
    BY <1>1, <1>11, <2>1, <2>2, <2>3 DEF DriveClaim
  <2>5. PICK claimed \in Index :
            /\ claimed = done.index /\ Sound(claimed) /\ AllOrNone(claimed)
            /\ claimed.processes = Moved(ix, w, which, clock, until, chosen)
    BY <1>1, <2>4, ClaimSound, SameIsAll
  <2>6. \/ claimed.processes[p] = old
        \/ /\ Lifecycle!Step(p, old, claimed.processes[p])
           /\ claimed.processes[p].status # "pending"
    BY <1>2, <2>3, <2>4, <2>5, ClaimMoves
  <2>7. CASE journal' = done.index
    BY <1>1, <1>2, <1>3, <2>5, <2>6, <2>7 DEF RowMoves
  <2>8. CASE journal' = Advanced(done.index, drive.run)
    BY <1>1, <1>2, <1>3, <1>9, <2>5, <2>6, <2>8
  <2>. QED  BY <2>4, <2>7, <2>8
<1>12. CASE ExecuteAndComplete
  <2>1. PICK q \in Process : /\ CanTransition(ix.processes[q].status, "succeeded")
                             /\ journal' = Advanced(Completed(ix, q), drive.run)
    BY <1>1, <1>12 DEF ExecuteAndComplete, MayEnd, RuntimeInv, RuntimeTypeOK
  <2>2. PICK mid : mid = Completed(ix, q)
    OBVIOUS
  <2>3. /\ mid \in Index /\ Sound(mid) /\ AllOrNone(mid)
        /\ RowEnded(ix.processes[q], mid.processes[q])
        /\ \A x \in Process : x # q => mid.processes[x] = ix.processes[x]
    BY <1>1, <2>1, <2>2, EndingKeeps, SameIsAll
  <2>4. \/ mid.processes[p] = old
        \/ /\ Lifecycle!Step(p, old, mid.processes[p])
           /\ mid.processes[p].status # "pending"
    <3>1. CASE p = q
      BY <1>2, <2>3, <3>1, EndedMoves DEF RowMoves
    <3>2. CASE p # q
      BY <1>2, <2>3, <3>2
    <3>. QED  BY <3>1, <3>2
  <2>. QED  BY <1>1, <1>2, <1>3, <1>9, <2>1, <2>2, <2>3, <2>4
<1>. QED  BY <1>1, <1>2, <1>3, <1>4, <1>10, <1>11, <1>12
          DEF RuntimeNext, StartDrive, Tick, EffectorRaises

\* No step takes a row back, and none leaves a lease on one that waits.
LEMMA LeaseFitsAfter ==
    ASSUME NEW p, NEW old, NEW new, LeaseFits(old), RowMoves(p, old, new)
    PROVE  LeaseFits(new)
<1>1. CASE new = old
  BY <1>1
<1>2. CASE Lifecycle!Schedule(old, new)
  BY <1>2 DEF Lifecycle!Schedule, Lifecycle!Unleased, LeaseFits
<1>3. CASE Lifecycle!Claim(p, old, new)
  BY <1>3 DEF Lifecycle!Claim, LeaseFits
<1>4. CASE Lifecycle!Transition(old, new)
  <2>1. new.status \notin {"absent", "pending"}
    BY <1>4 DEF Lifecycle!Transition, Lifecycle!CanTransition, Lifecycle!OwnTargets,
        Lifecycle!OpenStatus
  <2>. QED  BY <2>1 DEF LeaseFits
<1>5. CASE Lifecycle!Retry(p, old, new)
  BY <1>5 DEF Lifecycle!Retry, LeaseFits
<1>. QED  BY <1>1, <1>2, <1>3, <1>4, <1>5 DEF RowMoves, Lifecycle!Step

\* RuntimeLifecycle: whatever the owner's calls and the drives do, and in whatever
\* order, a process is claimed at most max_attempts times, a lease is taken over only
\* once it has expired, and every transition follows the status table.
THEOREM LifecycleOfRuntime == RuntimeSpec => RuntimeLifecycle
<1>. DEFINE Safe == RuntimeInv /\ LeasesFit
            table == journal.processes
<1>1. RuntimeInit => LeasesFit /\ Lifecycle!Init
  <2>. SUFFICES ASSUME RuntimeInit PROVE LeasesFit /\ Lifecycle!Init
    OBVIOUS
  <2>1. table = [p \in Process |-> AbsentRecord] /\ clock = 0
    BY DEF RuntimeInit, EmptyIndex
  <2>2. LeasesFit
    BY <2>1 DEF LeasesFit, LeaseFits, AbsentRecord
  <2>. QED  BY <2>1, <2>2, AbsentIsAbsent DEF Lifecycle!Init
<1>2. Safe /\ [RuntimeNext]_runtimeVars => LeasesFit' /\ [Lifecycle!Next]_<<clock, table>>
  <2>. SUFFICES ASSUME Safe, [RuntimeNext]_runtimeVars
                PROVE  LeasesFit' /\ [Lifecycle!Next]_<<clock, table>>
    OBVIOUS
  <2>1. CASE UNCHANGED runtimeVars
    BY <2>1 DEF runtimeVars, LeasesFit
  <2>2. CASE RuntimeNext
    <3>1. \A p \in Process : RowMoves(p, table[p], table'[p])
      BY <2>2, RowsMove
    <3>2. LeasesFit'
      BY <3>1, LeaseFitsAfter DEF LeasesFit
    <3>3. RuntimeInv'
      BY <2>2, RuntimeStep
    <3>4. table' \in [Process -> Lifecycle!Record]
      BY <3>3 DEF RuntimeInv, RuntimeTypeOK, Index, Record, Lifecycle!Record, Status, OpenStatus,
          TerminalStatus, Lifecycle!Status, Lifecycle!OpenStatus, Lifecycle!TerminalStatus
    <3>5. clock' \in {clock, clock + 1}
      BY <2>2 DEF RuntimeNext, CallerStep, StartDrive, Tick, DriveClaim, ExecuteAndComplete,
          EffectorRaises
    <3>6. Lifecycle!Next
      BY <3>1, <3>4, <3>5 DEF RowMoves, Lifecycle!Next
    <3>. QED  BY <3>2, <3>6
  <2>. QED  BY <2>1, <2>2
<1>. QED  BY <1>1, <1>2, RuntimeInvariant, PTL DEF RuntimeSpec, RuntimeLifecycle, Lifecycle!Spec

=============================================================================
