------------------------- MODULE RuntimeTraceProofs -------------------------
(***************************************************************************)
(* For any number of emitting and closing threads and any queue size, the  *)
(* trace file holds the records in the order they were put, one sentinel   *)
(* ends it, a summary without a writer error is that of a complete file,   *)
(* every number that was handed out is in one place, and a summary tells   *)
(* of a loss if there was one.  The invariant that carries the first part  *)
(* relates the writer's place in its loop to its cursor, the file and the  *)
(* counter of written records, and a closer's place in close() to the      *)
(* writer.                                                                 *)
(***************************************************************************)
EXTENDS RuntimeTrace, FiniteSetTheorems, TLAPS


\* A record taken from the queue is one of the items put on it.
LEMMA ItemType ==
    ASSUME NEW s \in Seq(Nat), NEW n \in Nat, n >= 1, n <= Len(s)
    PROVE  s[n] \in Nat
OBVIOUS

\* Appending leaves the items before as they are.
LEMMA AppendFacts ==
    ASSUME NEW s \in Seq(Nat), NEW x \in Nat
    PROVE  /\ Append(s, x) \in Seq(Nat)
           /\ Len(Append(s, x)) = Len(s) + 1
           /\ \A i \in 1..Len(s) : Append(s, x)[i] = s[i]
           /\ Append(s, x)[Len(s) + 1] = x
OBVIOUS

TypedCursor == TypeOK /\ WriterCursor

LEMMA TypedCursorInit == Init => TypedCursor
<1> SUFFICES ASSUME Init PROVE TypedCursor
  OBVIOUS
<1>1. NoResult \in Results
  BY DEF NoResult, Results, Errors, NoError
<1>2. TypeOK
  <2>1. result \in [Closers -> Results]
    BY <1>1 DEF Init
  <2>2. puts \in Seq(Nat) /\ file \in Seq(Nat)
    BY DEF Init
  <2> QED BY <2>1, <2>2 DEF Init, TypeOK, Errors, NoError
<1>3. WriterCursor
  BY DEF Init, WriterCursor
<1> QED BY <1>2, <1>3 DEF TypedCursor

LEMMA TypedCursorEmit ==
    ASSUME TypedCursor, NEW t \in Emitters, Emit(t)
    PROVE  TypedCursor'
<1> USE DEF TypedCursor, TypeOK, WriterCursor, emitVars, closeVars, writeVars
<1>1. CASE RefuseLoad(t) BY <1>1 DEF RefuseLoad
<1>2. CASE RefuseStore(t) BY <1>2 DEF RefuseStore
<1>3. CASE Reserve(t) BY <1>3 DEF Reserve
<1>4. CASE Put(t)
  <2>1. elocal[t] \in Nat
    OBVIOUS
  <2>2. puts' = Append(puts, elocal[t]) /\ UNCHANGED <<gets, file, wpc>>
    BY <1>4 DEF Put
  <2>3. TypeOK'
    BY <1>4, <2>1, AppendFacts DEF Put
  <2>4. WriterCursor'
    BY <2>1, <2>2, AppendFacts
  <2> QED BY <2>3, <2>4
<1>5. CASE PutFull(t) BY <1>5 DEF PutFull
<1>6. CASE CountDrop(t) BY <1>6 DEF CountDrop
<1> QED BY <1>1, <1>2, <1>3, <1>4, <1>5, <1>6 DEF Emit

LEMMA TypedCursorWriter ==
    ASSUME TypedCursor, Writer
    PROVE  TypedCursor'
<1> USE DEF TypedCursor, TypeOK, WriterCursor, emitVars, closeVars, writeVars
<1>1. CASE WriterOpen BY <1>1 DEF WriterOpen
<1>2. CASE WriterGet BY <1>2 DEF WriterGet
<1>3. CASE WriterFlush
  <2>1. puts[gets] \in Nat
    BY <1>3, ItemType DEF WriterFlush
  <2> QED BY <1>3, <2>1, AppendFacts DEF WriterFlush
<1>4. CASE WriterCount BY <1>4 DEF WriterCount
<1>5. CASE WriterFail
  <2>1. CASE file' = file
    BY <1>5, <2>1 DEF WriterFail, Errors
  <2>2. CASE wpc = "writing" /\ file' = Append(file, puts[gets])
    <3>1. puts[gets] \in Nat
      BY <2>2, ItemType
    <3> QED BY <1>5, <2>2, <3>1, AppendFacts DEF WriterFail, Errors
  <2> QED BY <1>5, <2>1, <2>2 DEF WriterFail
<1> QED BY <1>1, <1>2, <1>3, <1>4, <1>5 DEF Writer

LEMMA TypedCursorClose ==
    ASSUME TypedCursor, NEW c \in Closers, Close(c)
    PROVE  TypedCursor'
<1> USE DEF TypedCursor, TypeOK, WriterCursor, emitVars, closeVars, writeVars
<1>1. CASE CloseFirst(c) BY <1>1 DEF CloseFirst
<1>2. CASE CloseAgain(c) BY <1>2 DEF CloseAgain
<1>3. CASE Seal(c)
  <2>1. SENTINEL \in Nat
    BY DEF SENTINEL
  <2>2. puts' = Append(puts, SENTINEL) /\ UNCHANGED <<gets, file, wpc>>
    BY <1>3 DEF Seal
  <2>3. TypeOK'
    BY <1>3, <2>1, AppendFacts DEF Seal
  <2>4. WriterCursor'
    BY <2>1, <2>2, AppendFacts
  <2> QED BY <2>3, <2>4
<1>4. CASE SealTimeout(c) BY <1>4 DEF SealTimeout, Errors
<1>5. CASE JoinReturn(c) BY <1>5 DEF JoinReturn
<1>6. CASE JoinTimeout(c) BY <1>6 DEF JoinTimeout, Errors
<1>7. CASE Summarise(c) BY <1>7 DEF Summarise, Results
<1> QED BY <1>1, <1>2, <1>3, <1>4, <1>5, <1>6, <1>7 DEF Close

LEMMA TypedCursorNext == TypedCursor /\ [Next]_vars => TypedCursor'
<1> SUFFICES ASSUME TypedCursor, [Next]_vars PROVE TypedCursor'
  OBVIOUS
<1>1. CASE UNCHANGED vars
  BY <1>1 DEF TypedCursor, TypeOK, WriterCursor, vars, emitVars, closeVars, writeVars
<1> QED
  BY <1>1, TypedCursorEmit, TypedCursorWriter, TypedCursorClose DEF Next

\* Type correctness: every step leaves every field of the recorder, and what
\* each thread holds, in its range.
THEOREM TypeCorrect == Spec => []TypeOK
<1>1. TypedCursor => TypeOK
  BY DEF TypedCursor
<1> QED BY <1>1, TypedCursorInit, TypedCursorNext, PTL DEF Spec

\* The file is a prefix of what was put, in put order, and all of it up to the
\* sentinel once the writer stopped: no record is written twice, skipped,
\* reordered or written after the sentinel, whatever fails.
THEOREM FileOrder == Spec => []FileIsPutOrder
<1>1. ASSUME TypedCursor PROVE FileIsPutOrder
  <2>1. gets \in Nat /\ Len(file) \in Nat /\ wpc \in {"opening", "getting", "writing",
                                                     "counting", "stopped", "failed"}
    BY <1>1 DEF TypedCursor, TypeOK
  <2>2. WriterCursor
    BY <1>1 DEF TypedCursor
  <2>3. Len(file) <= gets
    BY <2>1, <2>2 DEF WriterCursor
  <2> QED BY <2>2, <2>3 DEF WriterCursor, FileIsPutOrder
<1> QED BY <1>1, TypedCursorInit, TypedCursorNext, PTL DEF Spec

(***************************************************************************)
(* The summary of the first closer                                         *)
(***************************************************************************)

SummaryInv == TypedCursor /\ WriterCounter /\ CloserPlace /\ CleanSummary

LEMMA SummaryInit == Init => SummaryInv
<1> SUFFICES ASSUME Init PROVE SummaryInv
  OBVIOUS
<1>1. TypedCursor
  BY TypedCursorInit
<1>2. WriterCounter /\ CloserPlace /\ CleanSummary
  BY DEF Init, WriterCounter, CloserPlace, CleanSummary
<1> QED BY <1>1, <1>2 DEF SummaryInv

\* emit() touches nothing a summary without error depends on.
LEMMA SummaryEmit ==
    ASSUME SummaryInv, NEW t \in Emitters, Emit(t)
    PROVE  WriterCounter' /\ CloserPlace' /\ CleanSummary'
<1>1. UNCHANGED <<writerError, closeVars, writeVars>>
  BY DEF Emit, RefuseLoad, RefuseStore, Reserve, Put, PutFull, CountDrop, emitVars
<1> QED
  BY <1>1 DEF SummaryInv, WriterCounter, CloserPlace, CleanSummary, closeVars, writeVars

LEMMA SummaryWriter ==
    ASSUME SummaryInv, Writer
    PROVE  WriterCounter' /\ CloserPlace' /\ CleanSummary'
<1> USE DEF SummaryInv, TypedCursor, TypeOK, WriterCounter, CloserPlace, CleanSummary
<1>0. UNCHANGED closeVars /\ wpc \notin {"stopped", "failed"}
  BY DEF Writer, WriterOpen, WriterGet, WriterFlush, WriterCount, WriterFail
<1>1. CASE WriterOpen BY <1>0, <1>1 DEF WriterOpen, closeVars
<1>2. CASE WriterGet BY <1>0, <1>2 DEF WriterGet, closeVars
<1>3. CASE WriterFlush
  <2>1. puts[gets] \in Nat
    BY <1>3, ItemType DEF WriterFlush, WriterCursor
  <2>2. Len(file') = Len(file) + 1 /\ UNCHANGED <<written, writerError>>
    BY <1>3, <2>1, AppendFacts DEF WriterFlush
  <2> QED BY <1>0, <1>3, <2>2 DEF WriterFlush, closeVars
<1>4. CASE WriterCount BY <1>0, <1>4 DEF WriterCount, closeVars
<1>5. CASE WriterFail
  BY <1>0, <1>5 DEF WriterFail, closeVars, NoError
<1> QED BY <1>1, <1>2, <1>3, <1>4, <1>5 DEF Writer

LEMMA SummaryClose ==
    ASSUME SummaryInv, NEW c \in Closers, Close(c)
    PROVE  WriterCounter' /\ CloserPlace' /\ CleanSummary'
<1> USE DEF SummaryInv, TypedCursor, TypeOK, WriterCounter, CloserPlace, CleanSummary
<1>1. CASE CloseFirst(c) BY <1>1 DEF CloseFirst, emitVars, writeVars
<1>2. CASE CloseAgain(c) BY <1>2 DEF CloseAgain, emitVars, writeVars
<1>3. CASE Seal(c) BY <1>3 DEF Seal, emitVars, writeVars
<1>4. CASE SealTimeout(c) BY <1>4 DEF SealTimeout, emitVars, writeVars, NoError
<1>5. CASE JoinReturn(c) BY <1>5 DEF JoinReturn, WriterEnded, emitVars, writeVars
<1>6. CASE JoinTimeout(c) BY <1>6 DEF JoinTimeout, emitVars, writeVars, NoError
<1>7. CASE Summarise(c)
  <2>1. WriterCounter' /\ CloserPlace'
    BY <1>7 DEF Summarise, emitVars, writeVars
  <2>2. ASSUME NEW d \in Closers, cpc'[d] = "done", result'[d].error = NoError
        PROVE  /\ wpc' = "stopped"
               /\ result'[d].recorded = Len(file')
               /\ result'[d].recorded = gets' - 1
    <3>1. CASE d = c
      BY <1>7, <2>2, <3>1 DEF Summarise, writeVars, WriterCursor
    <3>2. CASE d # c
      BY <1>7, <2>2, <3>2 DEF Summarise, writeVars
    <3> QED BY <3>1, <3>2
  <2> QED BY <2>1, <2>2
<1> QED BY <1>1, <1>2, <1>3, <1>4, <1>5, <1>6, <1>7 DEF Close

LEMMA SummaryNext == SummaryInv /\ [Next]_vars => SummaryInv'
<1> SUFFICES ASSUME SummaryInv, [Next]_vars PROVE SummaryInv'
  OBVIOUS
<1>1. TypedCursor'
  BY TypedCursorNext DEF SummaryInv
<1>2. WriterCounter' /\ CloserPlace' /\ CleanSummary'
  <2>1. CASE UNCHANGED vars
    BY <2>1 DEF SummaryInv, WriterCounter, CloserPlace, CleanSummary, vars,
                closeVars, writeVars
  <2> QED BY <2>1, SummaryEmit, SummaryWriter, SummaryClose DEF Next
<1> QED BY <1>1, <1>2 DEF SummaryInv

\* A first close() whose summary carries no writer error reports a complete
\* file: the count it returns is that of every record put before the sentinel.
THEOREM CleanSummaryIsComplete == Spec => []CleanSummary
<1>1. SummaryInv => CleanSummary
  BY DEF SummaryInv
<1> QED BY <1>1, SummaryInit, SummaryNext, PTL DEF Spec

(***************************************************************************)
(* One sentinel                                                            *)
(***************************************************************************)

SealInv == TypedCursor /\ FirstCloser /\ OneSentinel

LEMMA SealInit == Init => SealInv
<1> SUFFICES ASSUME Init PROVE SealInv
  OBVIOUS
<1>1. TypedCursor
  BY TypedCursorInit
<1>2. FirstCloser /\ OneSentinel
  BY DEF Init, FirstCloser, OneSentinel, SealedAt, Ending
<1> QED BY <1>1, <1>2 DEF SealInv

LEMMA SealEmit ==
    ASSUME SealInv, NEW t \in Emitters, Emit(t)
    PROVE  FirstCloser' /\ OneSentinel'
<1> USE DEF SealInv, TypedCursor, TypeOK, FirstCloser, OneSentinel, SealedAt,
            SENTINEL, closeVars, writeVars
<1>1. CASE RefuseLoad(t) BY <1>1 DEF RefuseLoad
<1>2. CASE RefuseStore(t) BY <1>2 DEF RefuseStore
<1>3. CASE Reserve(t) BY <1>3 DEF Reserve
<1>4. CASE Put(t)
  <2>1. elocal[t] \in Nat /\ elocal[t] # SENTINEL
    BY <1>4 DEF Put
  <2>2. puts' = Append(puts, elocal[t])
    BY <1>4 DEF Put
  <2>3. SealedAt' = SealedAt
    BY <2>1, <2>2, AppendFacts
  <2> QED BY <1>4, <2>3 DEF Put
<1>5. CASE PutFull(t) BY <1>5 DEF PutFull
<1>6. CASE CountDrop(t) BY <1>6 DEF CountDrop
<1> QED BY <1>1, <1>2, <1>3, <1>4, <1>5, <1>6 DEF Emit

LEMMA SealClose ==
    ASSUME SealInv, NEW c \in Closers, Close(c)
    PROVE  FirstCloser' /\ OneSentinel'
<1> USE DEF SealInv, TypedCursor, TypeOK, FirstCloser, OneSentinel, Ending, emitVars
<1>1. CASE CloseFirst(c) BY <1>1 DEF CloseFirst, SealedAt
<1>2. CASE CloseAgain(c) BY <1>2 DEF CloseAgain, SealedAt
<1>3. CASE Seal(c)
  <2>1. SealedAt = {} /\ closed
    BY <1>3 DEF Seal
  <2>2. puts' = Append(puts, SENTINEL) /\ SENTINEL \in Nat
    BY <1>3 DEF Seal, SENTINEL
  <2>3. \A i \in SealedAt' : i = Len(puts) + 1
    BY <2>1, <2>2, AppendFacts DEF SealedAt
  <2>4. \A d \in Closers : cpc'[d] # "sealing"
    BY <1>3 DEF Seal
  <2> QED BY <1>3, <2>1, <2>3, <2>4 DEF Seal
<1>4. CASE SealTimeout(c) BY <1>4 DEF SealTimeout, SealedAt
<1>5. CASE JoinReturn(c) BY <1>5 DEF JoinReturn, SealedAt
<1>6. CASE JoinTimeout(c) BY <1>6 DEF JoinTimeout, SealedAt
<1>7. CASE Summarise(c) BY <1>7 DEF Summarise, SealedAt
<1> QED BY <1>1, <1>2, <1>3, <1>4, <1>5, <1>6, <1>7 DEF Close

LEMMA SealNext == SealInv /\ [Next]_vars => SealInv'
<1> SUFFICES ASSUME SealInv, [Next]_vars PROVE SealInv'
  OBVIOUS
<1>1. TypedCursor'
  BY TypedCursorNext DEF SealInv
<1>2. FirstCloser' /\ OneSentinel'
  <2>1. CASE Writer
    <3>1. UNCHANGED <<closed, puts, emitVars, closeVars>>
      BY <2>1 DEF Writer, WriterOpen, WriterGet, WriterFlush, WriterCount, WriterFail
    <3> QED
      BY <3>1 DEF SealInv, FirstCloser, OneSentinel, SealedAt, Ending, emitVars, closeVars
  <2>2. CASE UNCHANGED vars
    BY <2>2 DEF SealInv, FirstCloser, OneSentinel, SealedAt, Ending, vars, emitVars, closeVars
  <2> QED BY <2>1, <2>2, SealEmit, SealClose DEF Next
<1> QED BY <1>1, <1>2 DEF SealInv

\* However many threads call close(), the queue gets at most one sentinel.
THEOREM AtMostOneSentinel == Spec => []OneSentinel
<1>1. SealInv => OneSentinel
  BY DEF SealInv
<1> QED BY <1>1, SealInit, SealNext, PTL DEF Spec

(***************************************************************************)
(* Nothing is lost or doubled                                              *)
(***************************************************************************)

\* Sentinels the writer has not taken, and what it holds in its hands.
SealsAhead == {i \in SealedAt : i > gets}
InHand == IF wpc \in {"writing", "counting"} \/ (wpc = "failed" /\ gets > 0)
          THEN 1 ELSE 0

\* Before it has opened the file the writer takes nothing, and the threads that
\* hold a number are finitely many, whatever the number of threads.
Countable == /\ wpc = "opening" => gets = 0
             /\ IsFiniteSet(InFlight)

CountInv == SealInv /\ Countable /\ Conservation

LEMMA ConservationCounts ==
    /\ Conservation <=> sequence = written + dropped + Cardinality(InFlight)
                                   + Pending - Cardinality(SealsAhead) + InHand
    /\ Conservation' <=> sequence' = written' + dropped' + Cardinality(InFlight')
                                     + Pending' - Cardinality(SealsAhead') + InHand'
BY DEF Conservation, SealsAhead, InHand

LEMMA SealsAheadFinite ==
    ASSUME TypeOK
    PROVE  IsFiniteSet(SealsAhead) /\ Cardinality(SealsAhead) \in Nat
<1>1. IsFiniteSet(1..Len(puts))  BY FS_Interval DEF TypeOK
<1>2. SealsAhead \in SUBSET (1..Len(puts))  BY DEF SealsAhead, SealedAt
<1> QED  BY <1>1, <1>2, FS_Subset, FS_CardinalityType

\* The sum of the right side, with everything but the sets named.
LEMMA CountTypes ==
    ASSUME CountInv
    PROVE  /\ sequence \in Nat /\ written \in Nat /\ dropped \in Nat
           /\ Cardinality(InFlight) \in Nat /\ Cardinality(SealsAhead) \in Nat
           /\ Len(puts) \in Nat /\ gets \in Nat /\ gets <= Len(puts)
           /\ Pending \in Nat /\ InHand \in {0, 1}
<1>1. TypeOK /\ WriterCursor  BY DEF CountInv, SealInv, TypedCursor
<1>2. Cardinality(InFlight) \in Nat
    BY FS_CardinalityType DEF CountInv, Countable
<1> QED  BY <1>1, <1>2, SealsAheadFinite DEF TypeOK, WriterCursor, InHand, Pending

LEMMA CountSum ==
    ASSUME CountInv
    PROVE  sequence = written + dropped + Cardinality(InFlight)
                      + Pending - Cardinality(SealsAhead) + InHand
BY ConservationCounts DEF CountInv

LEMMA CountInit == Init => CountInv
<1> SUFFICES ASSUME Init PROVE CountInv  OBVIOUS
<1>1. SealInv  BY SealInit
<1>2. InFlight = {} /\ SealsAhead = {}
    BY DEF Init, InFlight, SealsAhead, SealedAt
<1>3. Cardinality({}) = 0 /\ IsFiniteSet({})  BY FS_EmptySet
<1>4. Pending = 0 /\ InHand = 0  BY DEF Init, Pending, InHand
<1>5. sequence = 0 /\ written = 0 /\ dropped = 0  BY DEF Init
<1>6. Conservation
    BY <1>2, <1>3, <1>4, <1>5, ConservationCounts
<1> QED  BY <1>1, <1>2, <1>3, <1>6 DEF CountInv, Countable, Init

\* A thread that starts or stops holding a number changes the count by one.
LEMMA FlightMoves ==
    ASSUME IsFiniteSet(InFlight), NEW t \in Emitters
    PROVE  /\ InFlight' = InFlight \union {t} /\ t \notin InFlight =>
                 IsFiniteSet(InFlight') /\ Cardinality(InFlight') = Cardinality(InFlight) + 1
           /\ InFlight' = InFlight \ {t} /\ t \in InFlight =>
                 IsFiniteSet(InFlight') /\ Cardinality(InFlight') = Cardinality(InFlight) - 1
BY FS_AddElement, FS_RemoveElement

LEMMA CountEmit ==
    ASSUME CountInv, NEW t \in Emitters, Emit(t)
    PROVE  Countable' /\ Conservation'
<1>1. IsFiniteSet(InFlight) /\ TypeOK  BY DEF CountInv, Countable, SealInv, TypedCursor
<1>2. epc \in [Emitters -> {"ready", "reserved", "dropping", "refusing"}]
    BY <1>1 DEF TypeOK
<1>3. UNCHANGED <<wpc, gets, written>> /\ InHand' = InHand
    BY DEF Emit, RefuseLoad, RefuseStore, Reserve, Put, PutFull, CountDrop, writeVars, InHand
<1>4. CASE RefuseLoad(t) \/ RefuseStore(t) \/ PutFull(t)
    <2>1. UNCHANGED <<sequence, dropped, puts>>
        BY <1>4 DEF RefuseLoad, RefuseStore, PutFull
    <2>2. InFlight' = InFlight
        BY <1>2, <1>4 DEF RefuseLoad, RefuseStore, PutFull, InFlight
    <2>3. SealsAhead' = SealsAhead  BY <1>3, <2>1 DEF SealsAhead, SealedAt
    <2> QED  BY <1>3, <2>1, <2>2, <2>3, ConservationCounts
             DEF CountInv, Countable, Pending
<1>5. CASE Reserve(t)
    <2>1. sequence' = sequence + 1 /\ UNCHANGED <<dropped, puts>>
        BY <1>5 DEF Reserve
    <2>2. InFlight' = InFlight \union {t} /\ t \notin InFlight
        BY <1>2, <1>5 DEF Reserve, InFlight
    <2>3. IsFiniteSet(InFlight') /\ Cardinality(InFlight') = Cardinality(InFlight) + 1
        BY <1>1, <2>2, FlightMoves
    <2>4. SealsAhead' = SealsAhead  BY <1>3, <2>1 DEF SealsAhead, SealedAt
    <2>5. Conservation'
        <3>1. Pending' = Pending  BY <1>3, <2>1 DEF Pending
        <3>2. sequence + 1 = written + dropped + (Cardinality(InFlight) + 1)
                       + Pending - Cardinality(SealsAhead) + InHand
            BY CountTypes, CountSum, SMTT(30)
        <3> QED
            BY <3>1, <1>3, <2>1, <2>3, <2>4, <3>2, ConservationCounts, Zenon
    <2> QED  BY <1>3, <2>3, <2>5 DEF CountInv, Countable
<1>6. CASE Put(t)
    <2>1. puts' = Append(puts, elocal[t]) /\ UNCHANGED <<sequence, dropped>>
        BY <1>6 DEF Put
    <2>2. elocal[t] \in Nat /\ elocal[t] # SENTINEL /\ puts \in Seq(Nat)
        BY <1>1, <1>6 DEF Put, TypeOK, CountInv, SealInv, FirstCloser
    <2>3. InFlight' = InFlight \ {t} /\ t \in InFlight
        BY <1>2, <1>6 DEF Put, InFlight
    <2>4. IsFiniteSet(InFlight') /\ Cardinality(InFlight') = Cardinality(InFlight) - 1
        BY <1>1, <2>3, FlightMoves
    <2>5. SealedAt' = SealedAt  BY <2>1, <2>2, AppendFacts DEF SealedAt
    <2>6. SealsAhead' = SealsAhead  BY <1>3, <2>5 DEF SealsAhead
    <2>7. Pending' = Pending + 1
        BY <1>3, <2>1, <2>2, AppendFacts, CountTypes DEF Pending
    <2>8. Conservation'
        <3>1. sequence = written + dropped + (Cardinality(InFlight) - 1)
                       + (Pending + 1) - Cardinality(SealsAhead) + InHand
            BY CountTypes, CountSum
        <3> QED
            BY <1>3, <2>1, <2>4, <2>6, <2>7, <3>1, ConservationCounts, Zenon
    <2> QED  BY <1>3, <2>4, <2>8 DEF CountInv, Countable
<1>7. CASE CountDrop(t)
    <2>1. dropped' = dropped + 1 /\ UNCHANGED <<sequence, puts>>
        BY <1>7 DEF CountDrop
    <2>2. InFlight' = InFlight \ {t} /\ t \in InFlight
        BY <1>2, <1>7 DEF CountDrop, InFlight
    <2>3. IsFiniteSet(InFlight') /\ Cardinality(InFlight') = Cardinality(InFlight) - 1
        BY <1>1, <2>2, FlightMoves
    <2>4. SealsAhead' = SealsAhead  BY <1>3, <2>1 DEF SealsAhead, SealedAt
    <2>5. Conservation'
        <3>1. Pending' = Pending  BY <1>3, <2>1 DEF Pending
        <3>2. sequence = written + (dropped + 1) + (Cardinality(InFlight) - 1)
                       + Pending - Cardinality(SealsAhead) + InHand
            BY CountTypes, CountSum, SMTT(30)
        <3> QED
            BY <3>1, <1>3, <2>1, <2>3, <2>4, <3>2, ConservationCounts, Zenon
    <2> QED  BY <1>3, <2>3, <2>5 DEF CountInv, Countable
<1> QED  BY <1>4, <1>5, <1>6, <1>7 DEF Emit

LEMMA CountWriter ==
    ASSUME CountInv, Writer
    PROVE  Countable' /\ Conservation'
<1>1. TypeOK /\ WriterCursor  BY DEF CountInv, SealInv, TypedCursor
<1>2. UNCHANGED <<sequence, dropped, puts, epc>> /\ InFlight' = InFlight
    BY DEF Writer, WriterOpen, WriterGet, WriterFlush, WriterCount, WriterFail, emitVars,
           InFlight
<1>3. CASE WriterOpen \/ WriterFlush \/ WriterFail
    <2>1. UNCHANGED <<gets, written>> /\ InHand' = InHand /\ wpc' # "opening"
        BY <1>1, <1>3 DEF WriterOpen, WriterFlush, WriterFail, InHand, WriterCursor,
                          CountInv, Countable, TypeOK
    <2>2. SealsAhead' = SealsAhead  BY <1>2, <2>1 DEF SealsAhead, SealedAt
    <2> QED  BY <1>2, <2>1, <2>2, ConservationCounts
             DEF CountInv, Countable, Pending
<1>4. CASE WriterCount
    <2>1. /\ written' = written + 1 /\ gets' = gets /\ wpc' = "getting"
          /\ InHand = 1 /\ InHand' = 0
        BY <1>4 DEF WriterCount, InHand
    <2>2. SealsAhead' = SealsAhead  BY <1>2, <2>1 DEF SealsAhead, SealedAt
    <2>3. Conservation'
        <3>1. Pending' = Pending  BY <1>2, <2>1 DEF Pending
        <3>2. sequence = written + dropped + Cardinality(InFlight)
                       + Pending - Cardinality(SealsAhead) + 1
            BY <2>1, CountSum
        <3>3. sequence = (written + 1) + dropped + Cardinality(InFlight)
                       + Pending - Cardinality(SealsAhead) + 0
            BY <3>2, CountTypes, SMTT(30)
        <3> QED
            BY <3>1, <1>2, <2>1, <2>2, <3>3, ConservationCounts, Zenon
    <2> QED  BY <1>2, <2>1, <2>3 DEF CountInv, Countable
<1>5. CASE WriterGet
    <2>1. gets' = gets + 1 /\ gets < Len(puts) /\ written' = written /\ InHand = 0
        BY <1>5 DEF WriterGet, InHand
    <2>2. gets + 1 \in 1..Len(puts) /\ Pending' = Pending - 1
        BY <1>1, <1>2, <2>1 DEF TypeOK, Pending
    <2>3. CASE puts[gets + 1] = SENTINEL
        <3>1. wpc' = "stopped" /\ InHand' = 0
            BY <1>5, <2>1, <2>3 DEF WriterGet, InHand
        <3>2. SealsAhead' = SealsAhead \ {gets + 1} /\ gets + 1 \in SealsAhead
            BY <1>1, <1>2, <2>1, <2>2, <2>3 DEF SealsAhead, SealedAt, TypeOK
        <3>3. Cardinality(SealsAhead') = Cardinality(SealsAhead) - 1
            BY <1>1, <3>2, SealsAheadFinite, FS_RemoveElement
        <3>4. Conservation'
            <4>1. sequence = written + dropped + Cardinality(InFlight)
                           + (Pending - 1) - (Cardinality(SealsAhead) - 1) + 0
                BY <2>1, CountTypes, CountSum
            <4> QED
                BY <1>2, <2>1, <2>2, <3>1, <3>3, <4>1, ConservationCounts, Zenon
        <3> QED  BY <1>2, <3>1, <3>4 DEF CountInv, Countable
    <2>4. CASE puts[gets + 1] # SENTINEL
        <3>1. wpc' = "writing" /\ InHand' = 1
            BY <1>5, <2>1, <2>4 DEF WriterGet, InHand
        <3>2. SealsAhead' = SealsAhead
            BY <1>1, <1>2, <2>1, <2>4 DEF SealsAhead, SealedAt, TypeOK
        <3>3. Conservation'
            <4>1. sequence = written + dropped + Cardinality(InFlight)
                           + (Pending - 1) - Cardinality(SealsAhead) + 1
                BY <2>1, CountTypes, CountSum
            <4> QED
                BY <1>2, <2>1, <2>2, <3>1, <3>2, <4>1, ConservationCounts, Zenon
        <3> QED  BY <1>2, <3>1, <3>3 DEF CountInv, Countable
    <2> QED  BY <2>3, <2>4
<1> QED  BY <1>3, <1>4, <1>5 DEF Writer

LEMMA CountClose ==
    ASSUME CountInv, NEW c \in Closers, Close(c)
    PROVE  Countable' /\ Conservation'
<1>1. TypeOK /\ WriterCursor  BY DEF CountInv, SealInv, TypedCursor
<1>2. /\ UNCHANGED <<sequence, dropped, written, gets, wpc, epc>>
      /\ InFlight' = InFlight /\ InHand' = InHand
    BY DEF Close, CloseFirst, CloseAgain, Seal, SealTimeout, JoinReturn, JoinTimeout,
           Summarise, emitVars, writeVars, InFlight, InHand
<1>3. CASE Seal(c)
    <2>1. puts' = Append(puts, SENTINEL) /\ puts \in Seq(Nat) /\ SENTINEL \in Nat
        BY <1>1, <1>3 DEF Seal, TypeOK, SENTINEL
    <2>2. SealedAt' = SealedAt \union {Len(puts) + 1}
        BY <2>1, AppendFacts DEF SealedAt
    <2>3. /\ SealsAhead' = SealsAhead \union {Len(puts) + 1}
          /\ Len(puts) + 1 \notin SealsAhead
        BY <1>1, <1>2, <2>2 DEF SealsAhead, SealedAt, TypeOK, WriterCursor
    <2>4. Cardinality(SealsAhead') = Cardinality(SealsAhead) + 1
        BY <1>1, <2>3, SealsAheadFinite, FS_AddElement
    <2>5. Pending' = Pending + 1
        BY <1>2, <2>1, AppendFacts, CountTypes DEF Pending
    <2>6. Conservation'
        <3>1. sequence = written + dropped + Cardinality(InFlight)
                       + (Pending + 1) - (Cardinality(SealsAhead) + 1) + InHand
            BY CountTypes, CountSum
        <3> QED
            BY <1>2, <2>4, <2>5, <3>1, ConservationCounts, Zenon
    <2> QED  BY <1>2, <2>6 DEF CountInv, Countable
<1>4. CASE ~Seal(c)
    <2>1. puts' = puts
        BY <1>4 DEF Close, CloseFirst, CloseAgain, SealTimeout, JoinReturn, JoinTimeout,
                    Summarise
    <2>2. SealsAhead' = SealsAhead  BY <1>2, <2>1 DEF SealsAhead, SealedAt
    <2> QED  BY <1>2, <2>1, <2>2, ConservationCounts
             DEF CountInv, Countable, Pending
<1> QED  BY <1>3, <1>4

LEMMA CountNext == CountInv /\ [Next]_vars => CountInv'
<1> SUFFICES ASSUME CountInv, [Next]_vars PROVE CountInv'  OBVIOUS
<1>1. SealInv'  BY SealNext DEF CountInv
<1>2. CASE UNCHANGED vars
    BY <1>1, <1>2 DEF CountInv, Countable, Conservation, InFlight, SealedAt, Pending, vars,
                      emitVars, writeVars
<1> QED  BY <1>1, <1>2, CountEmit, CountWriter, CountClose DEF Next, CountInv

\* Every number that emit() handed out is counted, held, queued or in the
\* writer's hands, once: for any number of threads and any queue, however the
\* writer ends.
THEOREM NothingIsLost == Spec => []Conservation
<1>1. CountInv => Conservation  BY DEF CountInv
<1> QED  BY <1>1, CountInit, CountNext, PTL DEF Spec

(***************************************************************************)
(* What a summary tells of losses                                          *)
(***************************************************************************)

LossInv == SummaryInv /\ RefusalCount /\ NothingDropped

\* Where a number is that was neither dropped nor lost by a failed put.
Held(n) == \E t \in InFlight : elocal[t] = n
WasPut(n) == \E i \in 1..Len(puts) : puts[i] = n

LEMMA LossInit == Init => LossInv
<1> SUFFICES ASSUME Init PROVE LossInv  OBVIOUS
<1>1. SummaryInv  BY SummaryInit
<1>2. RefusalCount  BY DEF Init, RefusalCount
<1>3. NothingDropped  BY DEF Init, NothingDropped
<1> QED  BY <1>1, <1>2, <1>3 DEF LossInv

\* A thread stores one more than it has read, which the others may have passed:
\* the counter steps back, but stays between one and the number of refusals.
LEMMA RefusalsCounted ==
    ASSUME TypeOK, RefusalCount, [Next]_vars
    PROVE  RefusalCount'
<1> USE DEF TypeOK, RefusalCount
<1>1. ASSUME NEW t \in Emitters, RefuseLoad(t)  PROVE RefusalCount'
    BY <1>1 DEF RefuseLoad
<1>2. ASSUME NEW t \in Emitters, RefuseStore(t)  PROVE RefusalCount'
    <2>1. invalid' = elocal[t] + 1 /\ refused' = refused + 1 /\ elocal[t] <= refused
        BY <1>2 DEF RefuseStore
    <2>2. invalid' <= refused' /\ invalid' > 0  BY <2>1
    <2>3. ASSUME NEW u \in Emitters, epc'[u] = "refusing"  PROVE elocal'[u] <= refused'
        <3>1. epc[u] = "refusing" /\ elocal'[u] = elocal[u]
            BY <1>2, <2>3 DEF RefuseStore
        <3> QED  BY <2>1, <3>1
    <2> QED  BY <2>2, <2>3
<1>3. ASSUME NEW t \in Emitters, Reserve(t)  PROVE RefusalCount'
    BY <1>3 DEF Reserve
<1>4. ASSUME NEW t \in Emitters, Put(t) \/ PutFull(t) \/ CountDrop(t)  PROVE RefusalCount'
    BY <1>4 DEF Put, PutFull, CountDrop
<1>5. ASSUME \/ Writer
             \/ \E c \in Closers : Close(c)
             \/ UNCHANGED vars
      PROVE  RefusalCount'
    <2>1. UNCHANGED <<invalid, refused, emitVars>>
        BY <1>5 DEF Writer, WriterOpen, WriterGet, WriterFlush, WriterCount, WriterFail, Close,
                    CloseFirst, CloseAgain, Seal, SealTimeout, JoinReturn, JoinTimeout,
                    Summarise, vars
    <2> QED  BY <2>1 DEF emitVars
<1> QED  BY <1>1, <1>2, <1>3, <1>4, <1>5 DEF Next, Emit

LEMMA DroppedIsCounted ==
    ASSUME TypeOK, NothingDropped, [Next]_vars
    PROVE  NothingDropped'
<1> USE DEF NothingDropped
<1>1. ASSUME NEW t \in Emitters, RefuseLoad(t)  PROVE NothingDropped'
    BY <1>1 DEF RefuseLoad, InFlight, TypeOK
<1>2. ASSUME NEW t \in Emitters, RefuseStore(t) \/ PutFull(t)  PROVE NothingDropped'
    <2>1. UNCHANGED <<dropped, sequence, puts, elocal>> /\ InFlight' = InFlight
        BY <1>2 DEF RefuseStore, PutFull, InFlight, TypeOK
    <2> QED  BY <2>1
<1>3. ASSUME NEW t \in Emitters, Reserve(t)  PROVE NothingDropped'
    <2> SUFFICES ASSUME dropped' = 0, NEW n \in 1..sequence'
                 PROVE  Held(n)' \/ WasPut(n)'
        BY DEF Held, WasPut
    <2>1. CASE n = sequence + 1
        <3>1. t \in InFlight' /\ elocal'[t] = n
            BY <1>3, <2>1 DEF Reserve, InFlight, TypeOK
        <3> QED  BY <3>1 DEF Held
    <2>2. CASE n # sequence + 1
        <3>1. n \in 1..sequence /\ dropped = 0  BY <1>3, <2>2 DEF Reserve, TypeOK
        <3>2. CASE Held(n)
            <4>1. PICK u \in InFlight : elocal[u] = n  BY <3>2 DEF Held
            <4>2. u # t  BY <1>3, <4>1 DEF Reserve, InFlight
            <4>3. u \in InFlight' /\ elocal'[u] = n
                BY <1>3, <4>1, <4>2 DEF Reserve, InFlight, TypeOK
            <4> QED  BY <4>3 DEF Held
        <3>3. CASE WasPut(n)  BY <1>3, <3>3 DEF Reserve, WasPut
        <3> QED  BY <3>1, <3>2, <3>3 DEF Held, WasPut
    <2> QED  BY <2>1, <2>2
<1>4. ASSUME NEW t \in Emitters, Put(t)  PROVE NothingDropped'
    <2> SUFFICES ASSUME dropped' = 0, NEW n \in 1..sequence'
                 PROVE  Held(n)' \/ WasPut(n)'
        BY DEF Held, WasPut
    <2>1. n \in 1..sequence /\ dropped = 0 /\ elocal' = elocal  BY <1>4 DEF Put
    <2>2. /\ Len(puts') = Len(puts) + 1 /\ Len(puts) \in Nat
          /\ puts'[Len(puts) + 1] = elocal[t]
          /\ \A i \in 1..Len(puts) : puts'[i] = puts[i]
        BY <1>4, AppendFacts DEF Put, TypeOK
    <2>3. CASE WasPut(n)
        BY <2>2, <2>3 DEF WasPut
    <2>4. CASE Held(n)
        <3>1. PICK u \in InFlight : elocal[u] = n  BY <2>4 DEF Held
        <3>2. CASE u = t
            <4>1. Len(puts) + 1 \in 1..Len(puts') /\ puts'[Len(puts) + 1] = n
                BY <2>2, <3>1, <3>2
            <4> QED  BY <4>1 DEF WasPut
        <3>3. CASE u # t
            <4>1. u \in InFlight' /\ elocal'[u] = n
                BY <1>4, <2>1, <3>1, <3>3 DEF Put, InFlight, TypeOK
            <4> QED  BY <4>1 DEF Held
        <3> QED  BY <3>2, <3>3
    <2> QED  BY <2>1, <2>3, <2>4 DEF Held, WasPut
<1>5. ASSUME NEW t \in Emitters, CountDrop(t)  PROVE NothingDropped'
    BY <1>5 DEF CountDrop, TypeOK
<1>6. ASSUME Writer \/ UNCHANGED vars  PROVE NothingDropped'
    <2>1. UNCHANGED <<dropped, sequence, puts, emitVars>>
        BY <1>6 DEF Writer, WriterOpen, WriterGet, WriterFlush, WriterCount, WriterFail, vars
    <2> QED  BY <2>1 DEF InFlight, emitVars
<1>7. ASSUME NEW c \in Closers, Close(c)  PROVE NothingDropped'
    <2>1. UNCHANGED <<dropped, sequence, emitVars>>
        BY <1>7 DEF Close, CloseFirst, CloseAgain, Seal, SealTimeout, JoinReturn, JoinTimeout,
                    Summarise
    <2>2. \A i \in 1..Len(puts) : i \in 1..Len(puts') /\ puts'[i] = puts[i]
        <3>1. CASE Seal(c)
            <4>1. puts' = Append(puts, SENTINEL) /\ SENTINEL \in Nat /\ puts \in Seq(Nat)
                BY <3>1 DEF Seal, SENTINEL, TypeOK
            <4> QED  BY <4>1, AppendFacts
        <3>2. CASE ~Seal(c)
            BY <1>7, <3>2 DEF Close, CloseFirst, CloseAgain, SealTimeout, JoinReturn,
                              JoinTimeout, Summarise
        <3> QED  BY <3>1, <3>2
    <2> QED  BY <2>1, <2>2 DEF InFlight, emitVars
<1> QED  BY <1>1, <1>2, <1>3, <1>4, <1>5, <1>6, <1>7 DEF Next, Emit

LEMMA LossNext == LossInv /\ [Next]_vars => LossInv'
<1> SUFFICES ASSUME LossInv, [Next]_vars PROVE LossInv'  OBVIOUS
<1>1. TypeOK  BY DEF LossInv, SummaryInv, TypedCursor
<1>2. SummaryInv'  BY SummaryNext DEF LossInv
<1> QED  BY <1>1, <1>2, RefusalsCounted, DroppedIsCounted DEF LossInv

\* Without a writer error the writer is at most one record behind its cursor,
\* so what was put is in the file or at the cursor or behind it.
LEMMA PutIsNotLost ==
    ASSUME TypedCursor, WriterCounter, writerError = NoError,
           NEW i \in 1..Len(puts)
    PROVE  InFile(puts[i]) \/ OnItsWay(puts[i])
<1>1. wpc # "failed"  BY DEF WriterCounter
<1>2. Len(file) \in Nat /\ gets \in Nat /\ Len(file) >= gets - 1
    BY <1>1 DEF TypedCursor, TypeOK, WriterCursor
<1>3. CASE i <= Len(file)
    <2>1. i \in 1..Len(file) /\ file[i] = puts[i]
        BY <1>2, <1>3 DEF TypedCursor, WriterCursor
    <2> QED  BY <2>1 DEF InFile
<1>4. CASE i > Len(file)
    <2>1. i >= gets  BY <1>2, <1>4
    <2> QED  BY <2>1 DEF OnItsWay
<1> QED  BY <1>2, <1>3, <1>4

\* Whichever close() reads the summary, and whatever threads are in the middle
\* of, it tells of a loss if there was one: refusals whose unlocked updates
\* overwrote each other are never told as none, nor as more than there were,
\* and a summary without drop, refusal and error leaves no number out.
THEOREM LossesAreTold == Spec => LossIsTold
<1> DEFINE Told(c) ==
        LET told == result'[c]
        IN  /\ told.invalid <= refused
            /\ refused > 0 => told.invalid > 0
            /\ (told.dropped = 0 /\ told.invalid = 0 /\ told.error = NoError)
                  => \A n \in 1..sequence : InFile(n) \/ OnItsWay(n)
<1>1. ASSUME LossInv, Next, NEW c \in Closers,
             cpc[c] \in {"summing", "asking"}, cpc'[c] # cpc[c]
      PROVE  Told(c)
    <2>1. /\ TypedCursor /\ TypeOK /\ WriterCounter
          /\ RefusalCount /\ NothingDropped
        BY <1>1 DEF LossInv, SummaryInv, TypedCursor
    <2>2. Summarise(c)
        <3>1. cpc' # cpc  BY <1>1
        <3>2. \A t \in Emitters : ~Emit(t)
            BY <3>1 DEF Emit, RefuseLoad, RefuseStore, Reserve, Put, PutFull, CountDrop,
                        closeVars
        <3>3. ~Writer
            BY <3>1 DEF Writer, WriterOpen, WriterGet, WriterFlush, WriterCount, WriterFail,
                        closeVars
        <3>4. PICK d \in Closers : Close(d)  BY <1>1, <3>2, <3>3 DEF Next
        <3>5. d = c
            BY <1>1, <2>1, <3>4
            DEF Close, CloseFirst, CloseAgain, Seal, SealTimeout, JoinReturn, JoinTimeout,
                Summarise, TypeOK
        <3> QED
            BY <1>1, <3>4, <3>5
            DEF Close, CloseFirst, CloseAgain, Seal, SealTimeout, JoinReturn, JoinTimeout
    <2>3. /\ result'[c].invalid = invalid
          /\ result'[c].dropped = dropped
          /\ result'[c].error = writerError
        BY <2>1, <2>2 DEF Summarise, TypeOK
    <2>4. ASSUME dropped = 0, writerError = NoError, NEW n \in 1..sequence
          PROVE  InFile(n) \/ OnItsWay(n)
        <3>1. CASE Held(n)  BY <3>1 DEF Held, OnItsWay
        <3>2. CASE WasPut(n)
            <4>1. PICK i \in 1..Len(puts) : puts[i] = n  BY <3>2 DEF WasPut
            <4> QED  BY <2>1, <2>4, <4>1, PutIsNotLost
        <3> QED  BY <2>1, <2>4, <3>1, <3>2 DEF NothingDropped, Held, WasPut
    <2> QED  BY <2>1, <2>3, <2>4 DEF RefusalCount
<1>2. LossInv /\ [Next]_vars =>
        [\A c \in Closers :
            (cpc[c] \in {"summing", "asking"} /\ cpc'[c] # cpc[c]) => Told(c)]_vars
    BY <1>1
<1> QED  BY <1>2, LossInit, LossNext, PTL DEF Spec, LossIsTold
=============================================================================
