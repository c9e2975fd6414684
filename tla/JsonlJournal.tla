---------------------------- MODULE JsonlJournal ----------------------------
(***************************************************************************)
(* The JSONL sink of mojo/fala/jsonl_journal.mojo: a memory index, and a   *)
(* file with one accepted batch per line.  append_batch puts a batch into  *)
(* the index first and then rewrites the whole file with the new line at   *)
(* its end; claims and seeds reach the index only.  The process may crash  *)
(* between any two steps and inside a rewrite, which leaves any beginning  *)
(* of the text, and a rewrite may fail while the process lives on.         *)
(***************************************************************************)
EXTENDS JournalCallers

CONSTANT MaxErrors \* bound on the writes that fail without a crash

ASSUME JsonlAssumption == MaxErrors \in Nat

VARIABLES
    index,    \* self.index
    lines,    \* the complete lines of the file
    torn,     \* whether text without a newline follows them
    phase,    \* "open", "writing", "closed", or "refused" by an invalid line
    pending,  \* the batches of the call that is writing, none or one
    errors    \* writes that have failed without a crash

jsonlVars == <<index, lines, torn, phase, pending, errors>>

\* A line that decode_journal_line refuses: torn text run into a later line.
Garbage == Batch(NoRun, <<>>)

JsonlInit ==
    /\ index = EmptyIndex
    /\ lines = <<>> /\ torn = FALSE
    /\ phase = "open" /\ pending = <<>> /\ errors = 0

\* The text append_batch writes: what it has read, with the new line.
Rewritten ==
    IF torn THEN Append(lines, Garbage) ELSE lines \o pending

\* What a rewrite that is cut off leaves: a beginning of the text.
CutOff(text) ==
    /\ \E n \in 0..Len(text) : lines' = SubSeq(text, 1, n)
    /\ torn' \in IF lines' = text THEN {FALSE} ELSE BOOLEAN

-----------------------------------------------------------------------------
(* The calls.                                                              *)

\* append_batch up to its write.  A replay and an error end the call here.
AppendToIndex(batch) ==
    /\ phase = "open"
    /\ LET done == AppendBatch(index, batch)
       IN  /\ index' = done.index
           /\ IF done.answer = "accepted"
              THEN phase' = "writing" /\ pending' = <<done.batch>>
              ELSE UNCHANGED <<phase, pending>>
    /\ UNCHANGED <<lines, torn, errors>>

\* p.write_text(existing + line), and the return of append_batch.
WriteLine ==
    /\ phase = "writing"
    /\ lines' = Rewritten /\ torn' = FALSE
    /\ phase' = "open" /\ pending' = <<>>
    /\ UNCHANGED <<index, errors>>

\* write_text raises: the caller gets the error, the index keeps the batch.
WriteError ==
    /\ phase = "writing" /\ errors < MaxErrors
    /\ CutOff(Rewritten)
    /\ phase' = "open" /\ pending' = <<>>
    /\ errors' = errors + 1
    /\ UNCHANGED index

\* claim_next goes to the index and not to the file.
Claim(w, runs, at) ==
    /\ phase = "open"
    /\ \E chosen \in ReadyChoices(index, runs, at) :
        index' = ClaimNext(index, w, runs, at, at + Lease, chosen).index
    /\ UNCHANGED <<lines, torn, phase, pending, errors>>

\* The caller seeds each of its rows once after it has opened the journal.
Seed(p) ==
    /\ phase = "open"
    /\ index.processes[p].status = "absent"
    /\ index' = Seeded(index, p, [AbsentRecord EXCEPT !.status = "ready"])
    /\ UNCHANGED <<lines, torn, phase, pending, errors>>

-----------------------------------------------------------------------------
(* Crashes and reopening.                                                  *)

\* The process is gone, with its index; a rewrite is cut off.
Crash ==
    /\ phase \in {"open", "writing"}
    /\ IF phase = "writing" THEN CutOff(Rewritten) ELSE UNCHANGED <<lines, torn>>
    /\ index' = EmptyIndex
    /\ phase' = "closed" /\ pending' = <<>>
    /\ UNCHANGED errors

\* Slip: torn text is skipped over and stays on the file.
TornIsKept == torn

TornAfterOpen == FALSE

\* _load: the torn text is dropped, every complete line is imported, and one
\* that cannot be decoded closes the journal for good.
Open ==
    /\ phase = "closed"
    /\ torn' = TornAfterOpen
    /\ IF Garbage \in Range(lines)
       THEN phase' = "refused" /\ UNCHANGED index
       ELSE phase' = "open" /\ index' = FoldLeft(Import, EmptyIndex, lines)
    /\ UNCHANGED <<lines, pending, errors>>

\* Dropping the torn text rewrites the file as well, and may be cut off.
CrashInOpen ==
    /\ phase = "closed" /\ torn
    /\ CutOff(lines)
    /\ UNCHANGED <<index, phase, pending, errors>>

JsonlNext ==
    \/ \E batch \in Batches : AppendToIndex(batch)
    \/ WriteLine
    \/ WriteError
    \/ \E w \in Worker, runs \in {{r} : r \in Run} \cup {Run}, at \in 0..MaxTime :
        Claim(w, runs, at)
    \/ \E p \in Process : Seed(p)
    \/ Crash
    \/ Open
    \/ CrashInOpen

JsonlSpec == JsonlInit /\ [][JsonlNext]_jsonlVars

-----------------------------------------------------------------------------
(* Properties.                                                             *)

\* Every part of the sink keeps its shape: in particular every stored event has
\* the key of a command and every batch a run or none.
JsonlTypeOK ==
    /\ index \in Index
    /\ lines \in Seq(StoredBatch) /\ pending \in Seq(StoredBatch)
    /\ torn \in BOOLEAN /\ phase \in {"open", "writing", "closed", "refused"}
    /\ errors \in 0..MaxErrors

\* The commands of a line.
CommandsOf(line) == {Command(line.units[i]) : i \in DOMAIN line.units}

\* Whatever crashed or failed, no command is on two units of the file, so a
\* replay is answered by one line only.
FileKeysOnce ==
    /\ \A i \in DOMAIN lines : IsInjective([u \in DOMAIN lines[i].units |->
                                             Command(lines[i].units[u])])
    /\ \A i, j \in DOMAIN lines :
           i # j => CommandsOf(lines[i]) \cap CommandsOf(lines[j]) = {}

\* Within a line the events of each run are numbered upwards.
NumbersRise(line) ==
    \A u, v \in DOMAIN line.units :
        line.units[u].run = line.units[v].run =>
            \A e \in DOMAIN line.units[u].events, f \in DOMAIN line.units[v].events :
                u < v \/ (u = v /\ e < f) => line.units[u].events[e] < line.units[v].events[f]

\* Every event of a line has a lower number than those of its run on another.
NumbersPrecede(line, other) ==
    \A u \in DOMAIN line.units, v \in DOMAIN other.units :
        line.units[u].run = other.units[v].run =>
            \A m \in Range(line.units[u].events), n \in Range(other.units[v].events) : m < n

\* Lost claims leave gaps, but on the file the events of a run are in the
\* order of their numbers, and so are the batches.
FileInOrder ==
    /\ \A i \in DOMAIN lines : NumbersRise(lines[i])
    /\ \A i, j \in DOMAIN lines :
           i < j /\ Garbage \notin {lines[i], lines[j]} =>
               lines[i].seq < lines[j].seq /\ NumbersPrecede(lines[i], lines[j])

\* An open journal knows every line of its file: load returns its batch, and
\* its commands are answered as replays.
IndexKnowsFile ==
    phase = "open" =>
        \A line \in Range(lines) \ {Garbage} :
            line \in Range(index.batches) /\ CommandsOf(line) \subseteq index.commands

\* "On open: truncate torn last line": crashes alone, wherever in a rewrite or in
\* an open they come, never leave a file that cannot be opened.
CrashesNeverRefuse == errors = 0 => phase # "refused"

=============================================================================
