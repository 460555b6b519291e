---------------------------- MODULE RuntimeTrace ----------------------------
(***************************************************************************)
(* RuntimeTraceRecorder (runtime_trace.py): a bounded, lossy trace log.    *)
(* Any thread calls emit(); one daemon thread writes the JSONL file; one   *)
(* or more threads call close() and read summary().  The lock protects     *)
(* only the sequence number, the closed flag and the drop counter: the     *)
(* put on the queue, the invalid counter and everything the writer does    *)
(* happen outside it, so each is a step of its own here.                   *)
(*                                                                         *)
(* The FIFO queue.Queue is kept as the sequence of everything ever put on  *)
(* it and the number of items the writer has taken, so its content is      *)
(* puts[gets+1 .. Len(puts)].  A record is its sequence number.  Only the  *)
(* enabled recorder is modelled: the disabled one has no thread, its emit  *)
(* returns False first thing and its file does not exist.                  *)
(***************************************************************************)
EXTENDS Naturals, Sequences, FiniteSets

CONSTANTS
    Emitters,     \* threads that call emit()
    Closers,      \* threads that call close(), each once
    MaxQueue,     \* maximum_queue_size
    MaxSequence,  \* bound of the model: records whose emit() got a number
    MaxInvalid    \* bound of the model: no further call is refused after these

ASSUME RuntimeTraceAssumption ==
    /\ MaxQueue \in Nat \ {0}
    /\ MaxSequence \in Nat
    /\ MaxInvalid \in Nat

SENTINEL == 0     \* the item that ends the writer; records count from 1

NoError == "none"
Errors == {NoError, "exception", "close-timeout", "writer-timeout"}

VARIABLES
    sequence,     \* _sequence
    closed,       \* _closed
    dropped,      \* _dropped
    invalid,      \* _invalid
    refused,      \* history: calls that have counted their refusal and raised
    written,      \* _written
    writerError,  \* _writer_error
    puts, gets,   \* the queue: all items put, and how many were taken
    file,         \* records whose line reached the file, in file order
    wpc,          \* the writer thread
    epc, elocal,  \* the emitters: where they are, and the number they hold
    cpc, result   \* the closers: where they are, and what close() returned

emitVars  == <<epc, elocal>>
closeVars == <<cpc, result>>
writeVars == <<gets, file, written, wpc>>
vars == <<sequence, closed, dropped, invalid, refused, writerError, puts,
          emitVars, closeVars, writeVars>>

NoResult == [recorded |-> 0, dropped |-> 0, invalid |-> 0, error |-> "pending"]
Results == [recorded : Nat, dropped : Nat, invalid : Nat,
            error : Errors \union {"pending"}]

Pending == Len(puts) - gets          \* qsize()
WriterEnded == wpc \in {"stopped", "failed"}

TypeOK ==
    /\ sequence \in Nat
    /\ closed \in BOOLEAN
    /\ dropped \in Nat
    /\ invalid \in Nat
    /\ refused \in Nat
    /\ written \in Nat
    /\ writerError \in Errors
    /\ puts \in Seq(Nat)
    /\ gets \in Nat
    /\ file \in Seq(Nat)
    /\ wpc \in {"opening", "getting", "writing", "counting", "stopped", "failed"}
    /\ epc \in [Emitters -> {"ready", "reserved", "dropping", "refusing"}]
    /\ elocal \in [Emitters -> Nat]
    /\ cpc \in [Closers -> {"idle", "sealing", "joining", "summing", "done",
                       "asking", "told"}]
    /\ result \in [Closers -> Results]

Init ==
    /\ sequence = 0 /\ closed = FALSE
    /\ dropped = 0 /\ invalid = 0 /\ refused = 0 /\ written = 0
    /\ writerError = NoError
    /\ puts = <<>> /\ gets = 0 /\ file = <<>>
    /\ wpc = "opening"
    /\ epc = [t \in Emitters |-> "ready"]
    /\ elocal = [t \in Emitters |-> 0]
    /\ cpc = [c \in Closers |-> "idle"]
    /\ result = [c \in Closers |-> NoResult]

(***************************************************************************)
(* emit()                                                                  *)
(***************************************************************************)

\* A malformed event, outcome, duration or field: self._invalid += 1 is a
\* load and a store without the lock, and the call raises.
RefuseLoad(t) ==
    /\ epc[t] = "ready"
    /\ refused < MaxInvalid
    /\ elocal' = [elocal EXCEPT ![t] = invalid]
    /\ epc' = [epc EXCEPT ![t] = "refusing"]
    /\ UNCHANGED <<sequence, closed, dropped, invalid, refused, writerError, puts,
                   closeVars, writeVars>>

RefuseStore(t) ==
    /\ epc[t] = "refusing"
    /\ invalid' = elocal[t] + 1
    /\ refused' = refused + 1
    /\ epc' = [epc EXCEPT ![t] = "ready"]
    /\ UNCHANGED <<sequence, closed, dropped, writerError, puts, elocal,
                   closeVars, writeVars>>

\* Under the lock: refuse when closed (no state changes, so no step here),
\* otherwise take the next sequence number.
Reserve(t) ==
    /\ epc[t] = "ready"
    /\ ~closed
    /\ sequence < MaxSequence
    /\ sequence' = sequence + 1
    /\ elocal' = [elocal EXCEPT ![t] = sequence']
    /\ epc' = [epc EXCEPT ![t] = "reserved"]
    /\ UNCHANGED <<closed, dropped, invalid, refused, writerError, puts,
                   closeVars, writeVars>>

\* put_nowait() succeeds and emit returns True.
Put(t) ==
    /\ epc[t] = "reserved"
    /\ Pending < MaxQueue
    /\ puts' = Append(puts, elocal[t])
    /\ epc' = [epc EXCEPT ![t] = "ready"]
    /\ UNCHANGED <<sequence, closed, dropped, invalid, refused, writerError, elocal,
                   closeVars, writeVars>>

\* Mutant: put() without nowait, the emitter waits for room.
PutFullBlocks(t) == FALSE /\ UNCHANGED vars

\* put_nowait() raises queue.Full ...
PutFull(t) ==
    /\ epc[t] = "reserved"
    /\ Pending >= MaxQueue
    /\ epc' = [epc EXCEPT ![t] = "dropping"]
    /\ UNCHANGED <<sequence, closed, dropped, invalid, refused, writerError, puts,
                   elocal, closeVars, writeVars>>

\* Mutant: the full queue is ignored and the drop is not counted.
CountDropForgotten(t) ==
    /\ epc[t] = "dropping"
    /\ epc' = [epc EXCEPT ![t] = "ready"]
    /\ UNCHANGED <<sequence, closed, dropped, invalid, refused, writerError, puts,
                   elocal, closeVars, writeVars>>

\* ... and the drop is counted under the lock; emit returns False.
CountDrop(t) ==
    /\ epc[t] = "dropping"
    /\ dropped' = dropped + 1
    /\ epc' = [epc EXCEPT ![t] = "ready"]
    /\ UNCHANGED <<sequence, closed, invalid, refused, writerError, puts, elocal,
                   closeVars, writeVars>>

(***************************************************************************)
(* _writer()                                                               *)
(***************************************************************************)

WriterOpen ==
    /\ wpc = "opening"
    /\ wpc' = "getting"
    /\ UNCHANGED <<sequence, closed, dropped, invalid, refused, writerError, puts,
                   gets, file, written, emitVars, closeVars>>

\* Mutant: the sentinel is taken for a record.
WriterGetAll ==
    /\ wpc = "getting"
    /\ gets < Len(puts)
    /\ gets' = gets + 1
    /\ wpc' = "writing"
    /\ UNCHANGED <<sequence, closed, dropped, invalid, refused, writerError, puts,
                   file, written, emitVars, closeVars>>

WriterGet ==
    /\ wpc = "getting"
    /\ gets < Len(puts)
    /\ gets' = gets + 1
    /\ wpc' = IF puts[gets'] = SENTINEL THEN "stopped" ELSE "writing"
    /\ UNCHANGED <<sequence, closed, dropped, invalid, refused, writerError, puts,
                   file, written, emitVars, closeVars>>

\* handle.write() and handle.flush().
WriterFlush ==
    /\ wpc = "writing"
    /\ file' = Append(file, puts[gets])
    /\ wpc' = "counting"
    /\ UNCHANGED <<sequence, closed, dropped, invalid, refused, writerError, puts,
                   gets, written, emitVars, closeVars>>

WriterCount ==
    /\ wpc = "counting"
    /\ written' = written + 1
    /\ wpc' = "getting"
    /\ UNCHANGED <<sequence, closed, dropped, invalid, refused, writerError, puts,
                   gets, file, emitVars, closeVars>>

\* Mutants: the writer swallows the exception and goes on with the next item;
\* the error is kept in a form the summary does not know.
WriterFailSwallowed ==
    /\ wpc \in {"opening", "writing"}
    /\ wpc' = "getting"
    /\ UNCHANGED <<sequence, closed, dropped, invalid, refused, writerError, puts,
                   gets, file, written, emitVars, closeVars>>

WriterFailUntyped ==
    /\ wpc \in {"opening", "writing"}
    /\ wpc' = "failed"
    /\ writerError' = "object"
    /\ UNCHANGED <<sequence, closed, dropped, invalid, refused, puts, gets,
                   file, written, emitVars, closeVars>>

\* open(), write() or flush() raises: the thread records the exception's type
\* and dies.  A flush that fails may have left its line in the file.
WriterFail ==
    /\ wpc \in {"opening", "writing"}
    /\ wpc' = "failed"
    /\ writerError' = "exception"
    /\ \/ file' = file
       \/ wpc = "writing" /\ file' = Append(file, puts[gets])
    /\ UNCHANGED <<sequence, closed, dropped, invalid, refused, puts, gets, written,
                   emitVars, closeVars>>

(***************************************************************************)
(* close(timeout_seconds)                                                  *)
(***************************************************************************)

\* Mutant: the closed flag is not looked at.
CloseFirstTwice(c) ==
    /\ cpc[c] = "idle"
    /\ closed' = TRUE
    /\ cpc' = [cpc EXCEPT ![c] = "sealing"]
    /\ UNCHANGED <<sequence, dropped, invalid, refused, writerError, puts, result,
                   emitVars, writeVars>>

\* The first caller closes the recorder and goes on to end the writer.
CloseFirst(c) ==
    /\ cpc[c] = "idle"
    /\ ~closed
    /\ closed' = TRUE
    /\ cpc' = [cpc EXCEPT ![c] = "sealing"]
    /\ UNCHANGED <<sequence, dropped, invalid, refused, writerError, puts, result,
                   emitVars, writeVars>>

\* A later caller returns the summary at once.
CloseAgain(c) ==
    /\ cpc[c] = "idle"
    /\ closed
    /\ cpc' = [cpc EXCEPT ![c] = "asking"]
    /\ UNCHANGED <<sequence, closed, dropped, invalid, refused, writerError, puts,
                   result, emitVars, writeVars>>

\* put(_SENTINEL, timeout) finds room in time ...
Seal(c) ==
    /\ cpc[c] = "sealing"
    /\ Pending < MaxQueue
    /\ puts' = Append(puts, SENTINEL)
    /\ cpc' = [cpc EXCEPT ![c] = "joining"]
    /\ UNCHANGED <<sequence, closed, dropped, invalid, refused, writerError, result,
                   emitVars, writeVars>>

\* ... or the queue is still full when it expires.
SealTimeout(c) ==
    /\ cpc[c] = "sealing"
    /\ Pending >= MaxQueue
    /\ writerError' = "close-timeout"
    /\ cpc' = [cpc EXCEPT ![c] = "joining"]
    /\ UNCHANGED <<sequence, closed, dropped, invalid, refused, puts, result,
                   emitVars, writeVars>>

\* Mutant: the writer is not joined before the summary is read.
JoinSkipped(c) ==
    /\ cpc[c] = "joining"
    /\ cpc' = [cpc EXCEPT ![c] = "summing"]
    /\ UNCHANGED <<sequence, closed, dropped, invalid, refused, writerError, puts,
                   result, emitVars, writeVars>>

\* join(timeout) returns because the thread has ended ...
JoinReturn(c) ==
    /\ cpc[c] = "joining"
    /\ WriterEnded
    /\ cpc' = [cpc EXCEPT ![c] = "summing"]
    /\ UNCHANGED <<sequence, closed, dropped, invalid, refused, writerError, puts,
                   result, emitVars, writeVars>>

\* Mutant: join() without a timeout.
JoinForever(c) == FALSE /\ UNCHANGED vars

\* ... or because the timeout expired and is_alive() still holds.
JoinTimeout(c) ==
    /\ cpc[c] = "joining"
    /\ ~WriterEnded
    /\ writerError' = "writer-timeout"
    /\ cpc' = [cpc EXCEPT ![c] = "summing"]
    /\ UNCHANGED <<sequence, closed, dropped, invalid, refused, puts, result,
                   emitVars, writeVars>>

\* Mutant: summary() starts the counters over once it has reported them.
SummariseAndReset(c) ==
    /\ cpc[c] \in {"summing", "asking"}
    /\ result' = [result EXCEPT ![c] = [recorded |-> written,
                                        dropped |-> dropped,
                                        invalid |-> invalid,
                                        error |-> writerError]]
    /\ dropped' = 0
    /\ invalid' = 0
    /\ cpc' = [cpc EXCEPT ![c] = IF @ = "summing" THEN "done" ELSE "told"]
    /\ UNCHANGED <<sequence, closed, refused, writerError, puts, emitVars, writeVars>>

\* summary(), under the lock the emitters and the writer mostly do not take.
Summarise(c) ==
    /\ cpc[c] \in {"summing", "asking"}
    /\ result' = [result EXCEPT ![c] = [recorded |-> written,
                                        dropped |-> dropped,
                                        invalid |-> invalid,
                                        error |-> writerError]]
    /\ cpc' = [cpc EXCEPT ![c] = IF @ = "summing" THEN "done" ELSE "told"]
    /\ UNCHANGED <<sequence, closed, dropped, invalid, refused, writerError, puts,
                   emitVars, writeVars>>

(***************************************************************************)
(* The specification                                                       *)
(***************************************************************************)

Emit(t) == RefuseLoad(t) \/ RefuseStore(t) \/ Reserve(t)
           \/ Put(t) \/ PutFull(t) \/ CountDrop(t)
Writer  == WriterOpen \/ WriterGet \/ WriterFlush \/ WriterCount \/ WriterFail
Close(c) == CloseFirst(c) \/ CloseAgain(c) \/ Seal(c) \/ SealTimeout(c)
            \/ JoinReturn(c) \/ JoinTimeout(c) \/ Summarise(c)

Next == \/ \E t \in Emitters : Emit(t)
        \/ Writer
        \/ \E c \in Closers : Close(c)

Spec == Init /\ [][Next]_vars

\* A thread that is inside a call goes on with it: the operating system
\* schedules every runnable thread, and a timed wait ends.  Nothing makes a
\* thread start a call, and nothing makes the disk fail.
EmitGoesOn(t) == RefuseStore(t) \/ Put(t) \/ PutFull(t) \/ CountDrop(t)
CloseGoesOn(c) == Seal(c) \/ SealTimeout(c) \/ JoinReturn(c)
                  \/ JoinTimeout(c) \/ Summarise(c)
Fairness == /\ \A t \in Emitters : WF_vars(EmitGoesOn(t))
            /\ \A c \in Closers : WF_vars(CloseGoesOn(c))

\* Every thread is scheduled except the writer, which may hang in a write.
FairSpec == Spec /\ Fairness

(***************************************************************************)
(* Properties                                                              *)
(***************************************************************************)

InFlight == {t \in Emitters : epc[t] \in {"reserved", "dropping"}}
SealedAt == {i \in 1..Len(puts) : puts[i] = SENTINEL}

\* Every number emit() handed out is in exactly one place: counted as written,
\* counted as dropped, still in a thread that has neither put nor dropped it,
\* in the queue (the sentinel is no record), or in the writer's hands.  No
\* interleaving of emitters, writer and closers loses or doubles one.
Conservation ==
    sequence = written + dropped + Cardinality(InFlight)
               + Pending - Cardinality({i \in SealedAt : i > gets})
               + (IF wpc \in {"writing", "counting"} \/ (wpc = "failed" /\ gets > 0)
                  THEN 1 ELSE 0)

\* The file holds what was put on the queue, in the order it was put, with
\* nothing twice and nothing skipped: a failed writer leaves a prefix, and a
\* writer that met the sentinel wrote everything before it and nothing after.
FileIsPutOrder ==
    /\ Len(file) <= gets
    /\ gets <= Len(puts)
    /\ \A i \in 1..Len(file) : file[i] = puts[i]
    /\ wpc = "stopped" => /\ Len(file) = gets - 1
                          /\ puts[gets] = SENTINEL

\* When the first caller of close() gets a summary without a writer error, the
\* summary is that of a complete file: the writer met the sentinel, and every
\* record put before it was flushed and counted before the summary was read.
CleanSummary ==
    \A c \in Closers :
        (cpc[c] = "done" /\ result[c].error = NoError)
            => /\ wpc = "stopped"
               /\ result[c].recorded = Len(file)
               /\ result[c].recorded = gets - 1

\* What makes the two inductive: the writer's place in its loop fixes how far
\* the file and the counter are behind the cursor ...
WriterCursor ==
    /\ gets <= Len(puts)
    /\ wpc \in {"opening", "getting", "counting"} => Len(file) = gets
    /\ wpc \in {"writing", "stopped"} => gets >= 1 /\ Len(file) = gets - 1
    /\ wpc = "writing" => puts[gets] # SENTINEL
    /\ wpc = "stopped" => puts[gets] = SENTINEL
    /\ wpc = "failed" => Len(file) <= gets
    /\ \A i \in 1..Len(file) : file[i] = puts[i]

WriterCounter ==
    /\ wpc \in {"opening", "getting", "writing", "stopped"} => written = Len(file)
    /\ wpc = "counting" => written + 1 = Len(file)
    /\ wpc = "failed" => writerError # NoError

\* ... and a closer past the join without an error has met a stopped writer.
CloserPlace ==
    \A c \in Closers :
        (cpc[c] = "summing" /\ writerError = NoError) => wpc = "stopped"

\* What makes OneSentinel inductive: at most one closer ever goes past the
\* closed flag, none does while the recorder is open, and the sentinel comes
\* from that closer after it left the "sealing" place.  Records count from 1.
Ending == {"sealing", "joining", "summing", "done"}

FirstCloser ==
    /\ \A c, d \in Closers : (cpc[c] \in Ending /\ cpc[d] \in Ending) => c = d
    /\ ~closed => /\ \A c \in Closers : cpc[c] = "idle"
                  /\ SealedAt = {}
    /\ \A c \in Closers : cpc[c] = "sealing" => SealedAt = {}
    /\ \A t \in Emitters : epc[t] = "reserved" => elocal[t] # SENTINEL

\* One sentinel at most is put, however many threads call close().
OneSentinel == \A i, j \in SealedAt : i = j

\* What makes the next one inductive: no thread that is being refused has read
\* more than was counted, and without a drop every number is held or was put.
RefusalCount ==
    /\ invalid <= refused
    /\ refused > 0 => invalid > 0
    /\ \A t \in Emitters : epc[t] = "refusing" => elocal[t] <= refused

NothingDropped ==
    dropped = 0 =>
        \A n \in 1..sequence : \/ \E t \in InFlight : elocal[t] = n
                               \/ \E i \in 1..Len(puts) : puts[i] = n

\* Where a record that is not lost may be: its line is in the file, its thread
\* still holds it, or it is on the queue and the writer has not passed it.
InFile(n) == \E i \in 1..Len(file) : file[i] = n
OnItsWay(n) ==
    \/ \E t \in InFlight : elocal[t] = n
    \/ \E i \in 1..Len(puts) : i >= gets /\ puts[i] = n

\* "A nominal pass is downgraded if the bounded trace dropped or rejected any
\* record" (docs/runtime-foundation.md), so a summary must not hide that it
\* did, whichever thread closes and whatever is under way as it is read.  The
\* refusals it tells were counted without the lock: updates may be lost, and
\* the counter may even step back, but it is never above the refusals there
\* were, and zero only if there was none.  And a summary that tells of no
\* drop, no refusal and no writer error is not the summary of a lossy trace:
\* every number given out is in the file or on its way.
LossIsTold ==
    [][\A c \in Closers :
        (cpc[c] \in {"summing", "asking"} /\ cpc'[c] # cpc[c])
            => LET told == result'[c]
               IN  /\ told.invalid <= refused
                   /\ refused > 0 => told.invalid > 0
                   /\ (told.dropped = 0 /\ told.invalid = 0 /\ told.error = NoError)
                         => \A n \in 1..sequence : InFile(n) \/ OnItsWay(n)]_vars

\* "A full queue drops telemetry instead of blocking ALAS": an emit() that has
\* its number returns even if the writer hangs or died with the queue full.
EmitReturns == \A t \in Emitters : (epc[t] = "reserved") ~> (epc[t] = "ready")

\* close() returns even if the writer hangs, or the queue never has room.
CloseReturns == \A c \in Closers : (cpc[c] = "sealing") ~> (cpc[c] = "done")

\* A writer that does not hang comes to the sentinel, and its thread ends.
SealEndsWriter == WF_vars(Writer) => ((SealedAt # {}) ~> WriterEnded)

\* What docs/runtime-foundation.md says of the summary: with the recorder
\* closed, its writer ended without error and no call still inside emit(),
\* every record is reported as recorded or as dropped.
EveryRecordReported ==
    (closed /\ wpc = "stopped" /\ InFlight = {}) => sequence = written + dropped
=============================================================================
