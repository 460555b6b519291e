--------------------------- MODULE ObserverProofs ---------------------------
(***************************************************************************)
(* Theorems about Observer: publications move forward, the halves of an    *)
(* accepted view belong together, and a build that serves the combined     *)
(* endpoint implements AtomicView.                                         *)
(***************************************************************************)
EXTENDS Observer, TLAPS

(***************************************************************************)
(* The inductive invariant                                                 *)
(***************************************************************************)

\* The three globals are one publication, of the running process, and no later
\* than the last generation that was taken.
Published ==
    /\ buttons = snapshot /\ ui = snapshot
    /\ snapshot # Nothing => snapshot.pid = pid /\ snapshot.gen <= generation

\* A tick under way is that of the registered thread; it has the last generation
\* taken, which is not published yet.
TicksFit ==
    \A t \in Threads :
        /\ tick[t].gen = 0 => tick[t] = Idle
        /\ tick[t].gen > 0 =>
              /\ mainTid = t /\ tick[t].gen = generation
              /\ snapshot # Nothing => snapshot.gen < generation
        /\ tick[t].saw # Nothing => tick[t].saw.pid = pid /\ tick[t].saw.gen = tick[t].gen

\* What a read of the publication would get is in the window of the read.
WindowFits == request # "idle" /\ snapshot # Nothing => snapshot \in window

\* A connection whose client still waits serves the request it made, and has
\* only seen what the window has.  An older half with the generation of the
\* current publication is the current publication.
ServingFits ==
    /\ serving.live => /\ serving.kind = request /\ answer = Nothing
                       /\ request # "idle"
                       /\ serving.got # Nothing => serving.got \in window
    /\ request = "state" /\ serving.live => combined
    /\ serving.got # Nothing =>
          /\ snapshot # Nothing
          /\ serving.got.gen <= snapshot.gen
          /\ serving.got.gen = snapshot.gen => serving.got = snapshot

\* A good answer is one publication of the window; a build that serves the
\* combined endpoint never sends the client to the older ones.
AnswerFits ==
    /\ answer # Nothing => request # "idle"
    /\ answer # Nothing /\ answer.status = "ok" =>
          answer.snapshot = answer.buttons /\ answer.snapshot \in window
    /\ answer # Nothing /\ answer.status = "bad-request" => ~combined
    /\ combined => request \in {"idle", "state", "ui"}

IInv == TypeOK /\ Published /\ TicksFit /\ WindowFits /\ ServingFits /\ AnswerFits

(***************************************************************************)
(* Types                                                                   *)
(***************************************************************************)

Answers == {Nothing} \union [status : {"ok", "unavailable", "bad-request", "broken"},
                             snapshot : Maybe(Publication), buttons : Maybe(Publication)]
Servings == [kind : Kinds \union {"idle"}, attempt : 0..(Attempts - 1),
             got : Maybe(Publication), live : BOOLEAN]
Ticks == [gen : 0..MaxGeneration, saw : Maybe(Publication)]

\* A publication is a record, so Nothing differs from it and from its fields' record.
LEMMA PublicationShape ==
    ASSUME NEW p \in Publication
    PROVE  p # Nothing /\ p.pid \in 1..MaxPid /\ p.gen \in 1..MaxGeneration
           /\ p.gen \in Nat /\ p.fault \in Faults
BY ObserverAssumption, NothingAssumption DEF Publication

LEMMA ReplyType ==
    ASSUME NEW s \in Maybe(Publication), NEW b \in Maybe(Publication),
           NEW status \in {"ok", "unavailable", "bad-request", "broken"}
    PROVE  Reply(status, s, b) \in Answers
BY DEF Reply, Answers

LEMMA SendType ==
    ASSUME TypeOK, NEW r \in Answers, Send(r)
    PROVE  answer' \in Answers /\ serving' \in Servings
BY DEF TypeOK, Send, Answers, Servings, NotServing, Attempts, Kinds, Maybe

LEMMA OneType ==
    ASSUME NEW p \in Maybe(Publication)
    PROVE  One(p) \in Answers
BY ReplyType DEF One, Maybe

LEMMA EndReadType ==
    ASSUME TypeOK, EndRead
    PROVE  /\ request' = "idle" /\ answer' = Nothing /\ first' = Nothing /\ window' = {}
           /\ serving' \in Servings
BY DEF TypeOK, EndRead, Servings

LEMMA InitTyped == Init => TypeOK
BY ObserverAssumption
   DEF Init, TypeOK, Idle, NotServing, Maybe, Kinds, Attempts

LEMMA GameTyped ==
    ASSUME TypeOK, Game, UNCHANGED combined
    PROVE  TypeOK'
<1> USE ObserverAssumption
<1>1. CASE GameRestart
    BY <1>1 DEF GameRestart, TypeOK, Idle, NotServing, Maybe, Kinds, Attempts, cliVars
<1>2. ASSUME NEW t \in Threads, FrameTick(t)  PROVE TypeOK'
    <2>1. mainTid' \in Maybe(Threads)
        BY <1>2 DEF FrameTick, Register, TypeOK, Maybe
    <2>2. /\ generation' \in 0..MaxGeneration
          /\ tick' \in [Threads -> Ticks]
        BY <1>2 DEF FrameTick, TypeOK, Ticks
    <2> QED  BY <1>2, <2>1, <2>2 DEF FrameTick, TypeOK, pubVars, cliVars, Ticks
<1>3. ASSUME NEW t \in Threads, ProbeRefused(t)  PROVE TypeOK'
    BY <1>3 DEF ProbeRefused, TypeOK, pubVars, cliVars, Idle, Maybe
<1>4. ASSUME NEW t \in Threads, Probe(t)  PROVE TypeOK'
    <2>1. PICK f \in Faults :
              tick' = [tick EXCEPT ![t].saw = [pid |-> pid, gen |-> tick[t].gen, fault |-> f]]
        BY <1>4 DEF Probe
    <2>2. [pid |-> pid, gen |-> tick[t].gen, fault |-> f] \in Publication
        BY <1>4 DEF Probe, TypeOK, Publication
    <2>3. tick' \in [Threads -> Ticks]
        BY <2>1, <2>2 DEF TypeOK, Ticks, Maybe
    <2> QED  BY <1>4, <2>3 DEF Probe, TypeOK, pubVars, cliVars, Ticks
<1>5. ASSUME NEW t \in Threads, Publish(t)  PROVE TypeOK'
    <2>1. tick[t].saw \in Publication  BY <1>5 DEF Publish, TypeOK, Maybe
    <2>2. window' \subseteq Publication
        BY <1>5, <2>1 DEF Publish, Remember, TypeOK
    <2> QED  BY <1>5, <2>1, <2>2 DEF Publish, TypeOK, cliVars, Idle, Maybe
<1> QED  BY <1>1, <1>2, <1>3, <1>4, <1>5 DEF Game

LEMMA ServerTyped ==
    ASSUME TypeOK, Server, UNCHANGED combined
    PROVE  TypeOK'
<1>1. answer' \in Answers /\ serving' \in Servings
    <2>1. CASE Accept
        <3>1. Reply("bad-request", Nothing, Nothing) \in Answers
            BY ReplyType DEF Maybe
        <3>2. [kind |-> request, attempt |-> 0, got |-> Nothing, live |-> TRUE] \in Servings
            BY DEF TypeOK, Servings, Attempts, Maybe
        <3>3. answer \in Answers /\ serving \in Servings
            BY DEF TypeOK, Answers, Servings
        <3> QED  BY <2>1, <3>1, <3>2, <3>3 DEF Accept
    <2>2. CASE ServeOne
        BY <2>2, SendType, OneType DEF ServeOne, TypeOK
    <2>3. Reply("unavailable", Nothing, Nothing) \in Answers
        BY ReplyType DEF Maybe
    <2>4. CASE StateFirst
        <3>1. CASE snapshot = Nothing  BY <2>3, <2>4, <3>1, SendType DEF StateFirst
        <3>2. CASE snapshot # Nothing
            <4>1. answer \in Answers /\ serving \in Servings /\ snapshot \in Maybe(Publication)
                BY DEF TypeOK, Answers, Servings
            <4> QED  BY <2>4, <3>2, <4>1 DEF StateFirst, Servings
        <3> QED  BY <3>1, <3>2
    <2>5. CASE StateSecond
        <3>1. Reply("ok", serving.got, buttons) \in Answers
            BY ReplyType DEF TypeOK
        <3>2. CASE buttons.gen = serving.got.gen
            BY <2>5, <3>1, <3>2, SendType DEF StateSecond
        <3>3. CASE buttons.gen # serving.got.gen /\ serving.attempt + 1 < Attempts
            <4>1. answer \in Answers /\ serving \in Servings /\ Nothing \in Maybe(Publication)
                BY DEF TypeOK, Answers, Servings, Maybe
            <4>2. serving.attempt + 1 \in 0..(Attempts - 1)
                BY <3>3, <4>1 DEF Servings, Attempts
            <4> QED  BY <2>5, <3>3, <4>1, <4>2 DEF StateSecond, Servings
        <3>4. CASE buttons.gen # serving.got.gen /\ ~(serving.attempt + 1 < Attempts)
            BY <2>5, <2>3, <3>4, SendType DEF StateSecond
        <3> QED  BY <3>2, <3>3, <3>4
    <2> QED  BY <2>1, <2>2, <2>4, <2>5 DEF Server
<1>2. UNCHANGED <<gameVars, pubVars, request, cliVars, window, combined>>
    BY DEF Server, Accept, ServeOne, StateFirst, StateSecond
<1> QED  BY <1>1, <1>2 DEF TypeOK, Answers, Servings, gameVars, pubVars, cliVars

\* The two halves of a complete read are publications.
LEMMA HalvesTyped ==
    ASSUME TypeOK, AnswerFits, Complete
    PROVE  Left \in Publication /\ Right \in Publication
<1>1. answer.snapshot \in Publication /\ answer.buttons \in Publication
    BY DEF Complete, AnswerFits, TypeOK
<1> QED  BY <1>1 DEF Complete, TypeOK, Left, Right, Maybe

LEMMA ClientTyped ==
    ASSUME TypeOK, AnswerFits, Client, UNCHANGED combined
    PROVE  TypeOK'
<1> USE DEF gameVars, pubVars, cliVars
<1>1. ASSUME NEW kind \in {"state", "ui"}, BeginRead(kind)  PROVE TypeOK'
    BY <1>1 DEF BeginRead, TypeOK, Kinds, Maybe
<1>2. CASE TransportError
    BY <1>2, EndReadType DEF TransportError, TypeOK, Servings, Maybe
<1>3. CASE Fallback  BY <1>3 DEF Fallback, TypeOK, Kinds
<1>4. CASE SecondHalf  BY <1>4 DEF SecondHalf, TypeOK, Kinds
<1>5. CASE AcceptRead
    <2>1. Left \in Publication /\ Right \in Publication
        BY <1>5, HalvesTyped DEF AcceptRead
    <2>2. Left.gen \in 0..MaxGeneration  BY <2>1, ObserverAssumption DEF Publication
    <2> QED  BY <1>5, <2>1, <2>2, EndReadType DEF AcceptRead, TypeOK, Servings, Maybe
<1>6. CASE RefuseRead
    <2>1. lastGeneration' \in 0..MaxGeneration
        <3>1. CASE UNCHANGED lastGeneration  BY <3>1 DEF TypeOK
        <3>2. CASE Complete /\ lastGeneration' = Left.gen
            BY <3>2, HalvesTyped, ObserverAssumption DEF Publication
        <3> QED  BY <1>6, <3>1, <3>2 DEF RefuseRead
    <2>2. EndRead  BY <1>6 DEF RefuseRead
    <2> QED  BY <1>6, <2>1, <2>2, EndReadType DEF RefuseRead, TypeOK, Servings, Maybe
<1>7. CASE Reopen  BY <1>7, ObserverAssumption DEF Reopen, TypeOK
<1> QED  BY <1>1, <1>2, <1>3, <1>4, <1>5, <1>6, <1>7 DEF Client

(***************************************************************************)
(* The game                                                                *)
(***************************************************************************)

\* Nothing but the game touches what is published and what is sampled.
LEMMA PublishedStays ==
    ASSUME Published, TicksFit, UNCHANGED <<gameVars, pubVars>>
    PROVE  Published' /\ TicksFit'
BY DEF Published, TicksFit, gameVars, pubVars

LEMMA GamePublishes ==
    ASSUME TypeOK, Published, TicksFit, Game
    PROVE  Published' /\ TicksFit'
<1> USE ObserverAssumption
<1>1. CASE GameRestart
    BY <1>1 DEF GameRestart, Published, TicksFit, Idle
<1>2. ASSUME NEW t \in Threads, FrameTick(t)  PROVE Published' /\ TicksFit'
    <2>1. UNCHANGED <<pid, snapshot, buttons, ui>>  BY <1>2 DEF FrameTick, pubVars
    <2>2. mainTid # Nothing => mainTid' = mainTid
        BY <1>2 DEF FrameTick, Register
    <2>3. CASE UNCHANGED <<generation, tick>>
        BY <2>1, <2>2, <2>3, NothingAssumption DEF Published, TicksFit
    <2>4. CASE /\ mainTid' = t /\ generation' = generation + 1
               /\ tick' = [tick EXCEPT ![t].gen = generation']
        <3>1. /\ generation \in Nat /\ tick[t] = Idle
              /\ snapshot # Nothing => snapshot.gen \in Nat
            BY <1>2, PublicationShape DEF FrameTick, TypeOK, Maybe
        <3>2. \A u \in Threads : u # t => tick[u].gen = 0 /\ tick[u] = Idle
            <4> SUFFICES ASSUME NEW u \in Threads, u # t, tick[u].gen # 0 PROVE FALSE
                BY DEF TicksFit
            <4>1. tick[u].gen > 0  BY DEF TypeOK
            <4> QED  BY <2>2, <2>4, <4>1, NothingAssumption DEF TicksFit
        <3>3. Published'
            BY <2>1, <2>4, <3>1 DEF Published
        <3>4. tick'[t] = [gen |-> generation + 1, saw |-> Nothing]
              /\ \A u \in Threads : u # t => tick'[u] = Idle
            BY <2>4, <3>1, <3>2 DEF TypeOK, Idle
        <3>5. snapshot # Nothing => snapshot.gen < generation + 1
            BY <3>1 DEF Published
        <3> QED  BY <2>1, <2>4, <3>1, <3>3, <3>4, <3>5 DEF TicksFit, Idle
    <2> QED  BY <1>2, <2>3, <2>4 DEF FrameTick
<1>3. ASSUME NEW t \in Threads, ProbeRefused(t)  PROVE Published' /\ TicksFit'
    <2>1. tick'[t] = Idle /\ \A u \in Threads : u # t => tick'[u] = tick[u]
        BY <1>3 DEF ProbeRefused, TypeOK
    <2> QED  BY <1>3, <2>1 DEF ProbeRefused, Published, TicksFit, pubVars, Idle
<1>4. ASSUME NEW t \in Threads, Probe(t)  PROVE Published' /\ TicksFit'
    <2>1. PICK f \in Faults :
              tick' = [tick EXCEPT ![t].saw = [pid |-> pid, gen |-> tick[t].gen, fault |-> f]]
        BY <1>4 DEF Probe
    <2>2. /\ tick'[t].gen = tick[t].gen /\ tick[t].gen > 0
          /\ tick'[t].saw = [pid |-> pid, gen |-> tick[t].gen, fault |-> f]
          /\ tick[t].gen \in Nat
          /\ \A u \in Threads : u # t => tick'[u] = tick[u]
        BY <1>4, <2>1 DEF Probe, TypeOK
    <2> QED  BY <1>4, <2>2 DEF Probe, Published, TicksFit, pubVars
<1>5. ASSUME NEW t \in Threads, Publish(t)  PROVE Published' /\ TicksFit'
    <2>1. /\ tick[t].saw \in Publication
          /\ tick[t].saw.pid = pid /\ tick[t].saw.gen = tick[t].gen
        BY <1>5 DEF Publish, TypeOK, TicksFit, Maybe
    <2>2. tick[t].gen > 0 /\ mainTid = t /\ tick[t].gen = generation
        BY <2>1, PublicationShape DEF TicksFit
    <2>3. \A u \in Threads : u # t => tick[u].gen = 0 /\ tick[u] = Idle
        <3> SUFFICES ASSUME NEW u \in Threads, u # t, tick[u].gen # 0 PROVE FALSE
            BY DEF TicksFit
        <3>1. tick[u].gen > 0  BY DEF TypeOK
        <3> QED  BY <2>2, <3>1 DEF TicksFit
    <2>4. tick'[t] = Idle /\ \A u \in Threads : u # t => tick'[u] = Idle
        BY <1>5, <2>3 DEF Publish, TypeOK
    <2>5. Published'
        BY <1>5, <2>1, <2>2 DEF Publish, Published, TypeOK
    <2> QED  BY <2>4, <2>5 DEF TicksFit, Idle
<1> QED  BY <1>1, <1>2, <1>3, <1>4, <1>5 DEF Game

\* A publication takes the place of an older one of its process.
LEMMA PublishMoves ==
    ASSUME TypeOK, Published, TicksFit, NEW t \in Threads, Publish(t)
    PROVE  /\ snapshot' \in Publication /\ snapshot'.pid = pid
           /\ snapshot # Nothing => snapshot'.gen > snapshot.gen /\ snapshot'.pid = snapshot.pid
<1>1. tick[t].saw \in Publication /\ snapshot' = tick[t].saw
    BY DEF Publish, TypeOK, Maybe
<1>2. tick[t].saw.pid = pid /\ tick[t].saw.gen = tick[t].gen /\ tick[t].gen > 0
    BY <1>1, PublicationShape DEF TicksFit
<1> QED  BY <1>1, <1>2, PublicationShape DEF TicksFit, Published, TypeOK, Maybe

(***************************************************************************)
(* Reads                                                                   *)
(***************************************************************************)

Reads == WindowFits /\ ServingFits /\ AnswerFits

LEMMA EndReadClears ==
    ASSUME TypeOK, ServingFits, EndRead, UNCHANGED <<gameVars, pubVars, combined>>
    PROVE  Reads'
<1>1. /\ request' = "idle" /\ answer' = Nothing /\ snapshot' = snapshot
      /\ serving'.live = FALSE /\ serving'.got = serving.got
    BY DEF EndRead, TypeOK, pubVars
<1> QED  BY <1>1 DEF Reads, WindowFits, ServingFits, AnswerFits

LEMMA GameReads ==
    ASSUME TypeOK, Published, TicksFit, Reads, Game, UNCHANGED combined
    PROVE  Reads'
<1>1. CASE GameRestart
    BY <1>1 DEF GameRestart, Reads, WindowFits, ServingFits, AnswerFits, NotServing
<1>2. ASSUME NEW t \in Threads, FrameTick(t) \/ ProbeRefused(t) \/ Probe(t)
      PROVE  Reads'
    <2>1. UNCHANGED <<pubVars, serving, request, answer, window>>
        BY <1>2 DEF FrameTick, ProbeRefused, Probe
    <2> QED  BY <2>1 DEF Reads, WindowFits, ServingFits, AnswerFits, pubVars
<1>3. ASSUME NEW t \in Threads, Publish(t)
      PROVE  Reads'
    <2>1. /\ UNCHANGED <<serving, request, answer>>
          /\ snapshot' \in Publication
          /\ window' = IF request # "idle" THEN window \union {snapshot'} ELSE window
        BY <1>3, PublishMoves DEF Publish, Remember
    <2>2. WindowFits'  BY <2>1 DEF WindowFits
    <2>3. ServingFits'
        <3>1. serving.got # Nothing => /\ serving.got \in Publication
                                       /\ snapshot # Nothing /\ snapshot \in Publication
                                       /\ serving.got.gen <= snapshot.gen
            BY DEF Reads, ServingFits, TypeOK, Maybe
        <3>2. snapshot # Nothing => snapshot'.gen > snapshot.gen
            BY <1>3, PublishMoves
        <3>3. serving.got # Nothing => /\ snapshot' # Nothing
                                       /\ serving.got.gen < snapshot'.gen
            BY <2>1, <3>1, <3>2, PublicationShape
        <3>4. serving.got # Nothing => /\ serving.got.gen <= snapshot'.gen
                                       /\ serving.got.gen # snapshot'.gen
            BY <2>1, <3>1, <3>3, PublicationShape
        <3> QED  BY <2>1, <3>3, <3>4 DEF Reads, ServingFits
    <2>4. AnswerFits'  BY <2>1 DEF Reads, AnswerFits
    <2> QED  BY <2>2, <2>3, <2>4 DEF Reads
<1> QED  BY <1>1, <1>2, <1>3 DEF Game

\* What the server may send: nothing good that the window has not.
Sendable(r) ==
    /\ r.status \in {"ok", "unavailable"}
    /\ r.status = "ok" /\ serving.live => r.snapshot = r.buttons /\ r.snapshot \in window

LEMMA SendReads ==
    ASSUME TypeOK, Reads, NEW r, Sendable(r), Send(r),
           UNCHANGED <<gameVars, pubVars, request, cliVars, window, combined>>
    PROVE  Reads'
<1>1. serving' = NotServing /\ UNCHANGED <<snapshot, request, window, combined>>
    BY DEF Send, pubVars
<1>2. answer' = IF serving.live THEN r ELSE answer  BY DEF Send
<1>3. WindowFits' /\ ServingFits'
    BY <1>1 DEF Reads, WindowFits, ServingFits, NotServing
<1>4. CASE serving.live
    <2>1. request # "idle"  BY <1>4 DEF Reads, ServingFits
    <2> QED  BY <1>1, <1>2, <1>3, <1>4, <2>1 DEF Reads, AnswerFits, Sendable
<1>5. CASE ~serving.live
    BY <1>1, <1>2, <1>3, <1>5 DEF Reads, AnswerFits
<1> QED  BY <1>4, <1>5

LEMMA OneSendable ==
    ASSUME TypeOK, Published, Reads, NEW p \in {snapshot, buttons, ui}
    PROVE  Sendable(One(p))
<1>1. p = snapshot  BY DEF Published
<1>2. CASE p = Nothing  BY <1>2 DEF One, Reply, Sendable
<1>3. CASE p # Nothing
    <2>1. serving.live => snapshot \in window
        BY <1>1, <1>3 DEF Reads, WindowFits, ServingFits
    <2> QED  BY <1>1, <1>3, <2>1 DEF One, Reply, Sendable
<1> QED  BY <1>2, <1>3

LEMMA ServerReads ==
    ASSUME TypeOK, Published, Reads, Server, UNCHANGED combined
    PROVE  Reads'
<1>1. UNCHANGED <<gameVars, pubVars, request, cliVars, window, combined>>
    BY DEF Server, Accept, ServeOne, StateFirst, StateSecond
<1>2. UNCHANGED <<snapshot, request, window, combined>>  BY <1>1 DEF pubVars
<1>3. Sendable(Reply("unavailable", Nothing, Nothing))
    BY DEF Sendable, Reply
<1>4. CASE Accept
    <2>1. CASE request = "state" /\ ~combined
        <3>1. /\ answer' = Reply("bad-request", Nothing, Nothing) /\ serving' = NotServing
              /\ request # "idle"
            BY <1>4, <2>1 DEF Accept
        <3> QED  BY <1>2, <2>1, <3>1 DEF Reads, WindowFits, ServingFits, AnswerFits, Reply,
                                         NotServing
    <2>2. CASE ~(request = "state" /\ ~combined)
        <3>1. /\ serving' = [kind |-> request, attempt |-> 0, got |-> Nothing, live |-> TRUE]
              /\ request # "idle" /\ answer = Nothing /\ answer' = answer
            BY <1>4, <2>2 DEF Accept
        <3> QED  BY <1>2, <2>2, <3>1 DEF Reads, WindowFits, ServingFits, AnswerFits, TypeOK
    <2> QED  BY <2>1, <2>2
<1>5. CASE ServeOne
    <2>1. PICK p \in {snapshot, buttons, ui} : Send(One(p))  BY <1>5 DEF ServeOne
    <2> QED  BY <1>1, <2>1, OneSendable, SendReads
<1>6. CASE StateFirst
    <2>1. CASE snapshot = Nothing
        BY <1>1, <1>3, <1>6, <2>1, SendReads DEF StateFirst
    <2>2. CASE snapshot # Nothing
        <3>1. serving' = [serving EXCEPT !.got = snapshot] /\ answer' = answer
            BY <1>6, <2>2 DEF StateFirst
        <3>2. /\ serving'.kind = serving.kind /\ serving'.live = serving.live
              /\ serving'.got = snapshot
            BY <3>1 DEF TypeOK
        <3>3. snapshot.gen \in Nat  BY <2>2, PublicationShape DEF TypeOK, Maybe
        <3>4. serving.live => snapshot \in window
            BY <2>2 DEF Reads, WindowFits, ServingFits
        <3> QED  BY <1>2, <2>2, <3>1, <3>2, <3>3, <3>4
                 DEF Reads, WindowFits, ServingFits, AnswerFits
    <2> QED  BY <2>1, <2>2
<1>7. CASE StateSecond
    <2>1. CASE buttons.gen = serving.got.gen
        <3>1. serving.got = snapshot /\ buttons = snapshot
            BY <1>7, <2>1 DEF StateSecond, Reads, ServingFits, Published
        <3>2. serving.live => serving.got \in window
            BY <1>7 DEF StateSecond, Reads, ServingFits
        <3>3. Sendable(Reply("ok", serving.got, buttons))
            BY <3>1, <3>2 DEF Sendable, Reply
        <3> QED  BY <1>1, <1>7, <2>1, <3>3, SendReads DEF StateSecond
    <2>2. CASE buttons.gen # serving.got.gen /\ serving.attempt + 1 < Attempts
        <3>1. /\ serving' = [serving EXCEPT !.got = Nothing, !.attempt = @ + 1]
              /\ answer' = answer
            BY <1>7, <2>2 DEF StateSecond
        <3>2. /\ serving'.kind = serving.kind /\ serving'.live = serving.live
              /\ serving'.got = Nothing
            BY <3>1 DEF TypeOK
        <3> QED  BY <1>2, <3>1, <3>2 DEF Reads, WindowFits, ServingFits, AnswerFits
    <2>3. CASE buttons.gen # serving.got.gen /\ ~(serving.attempt + 1 < Attempts)
        BY <1>1, <1>3, <1>7, <2>3, SendReads DEF StateSecond
    <2> QED  BY <2>1, <2>2, <2>3
<1> QED  BY <1>4, <1>5, <1>6, <1>7 DEF Server

LEMMA ClientReads ==
    ASSUME TypeOK, Reads, Client, UNCHANGED combined
    PROVE  Reads'
<1>1. ASSUME NEW kind \in {"state", "ui"}, BeginRead(kind)  PROVE Reads'
    <2>1. /\ answer = Nothing /\ serving.live = FALSE
        BY <1>1 DEF BeginRead, Reads, AnswerFits, ServingFits, TypeOK
    <2> QED  BY <1>1, <2>1 DEF BeginRead, Reads, WindowFits, ServingFits, AnswerFits, pubVars
<1>2. CASE TransportError \/ AcceptRead \/ RefuseRead
    <2>1. EndRead /\ UNCHANGED <<gameVars, pubVars>>
        BY <1>2 DEF TransportError, AcceptRead, RefuseRead
    <2> QED  BY <2>1, EndReadClears DEF Reads
<1>3. CASE Fallback
    <2>1. serving.live = FALSE /\ ~combined
        BY <1>3 DEF Fallback, Reads, ServingFits, AnswerFits, TypeOK
    <2> QED  BY <1>3, <2>1 DEF Fallback, Reads, WindowFits, ServingFits, AnswerFits, pubVars
<1>4. CASE SecondHalf
    <2>1. serving.live = FALSE /\ ~combined
        BY <1>4 DEF SecondHalf, Reads, ServingFits, AnswerFits, TypeOK
    <2> QED  BY <1>4, <2>1 DEF SecondHalf, Reads, WindowFits, ServingFits, AnswerFits, pubVars
<1>5. CASE Reopen
    BY <1>5 DEF Reopen, Reads, WindowFits, ServingFits, AnswerFits, pubVars
<1> QED  BY <1>1, <1>2, <1>3, <1>4, <1>5 DEF Client

(***************************************************************************)
(* The theorems                                                            *)
(***************************************************************************)

LEMMA InitIInv == Init => IInv
<1> SUFFICES ASSUME Init PROVE IInv  OBVIOUS
<1>1. TypeOK  BY InitTyped
<1> QED  BY <1>1 DEF Init, IInv, Published, TicksFit, WindowFits, ServingFits, AnswerFits,
                     Idle, NotServing

LEMMA NextIInv ==
    ASSUME IInv, [Next]_vars
    PROVE  IInv'
<1>1. CASE Game /\ UNCHANGED combined
    BY <1>1, GameTyped, GamePublishes, GameReads DEF IInv, Reads
<1>2. CASE Server /\ UNCHANGED combined
    <2>1. UNCHANGED <<gameVars, pubVars>>
        BY <1>2 DEF Server, Accept, ServeOne, StateFirst, StateSecond
    <2> QED  BY <1>2, <2>1, ServerTyped, PublishedStays, ServerReads DEF IInv, Reads
<1>3. CASE Client /\ UNCHANGED combined
    <2>1. UNCHANGED <<gameVars, pubVars>>
        BY <1>3 DEF Client, BeginRead, TransportError, Fallback, SecondHalf, AcceptRead,
                    RefuseRead, Reopen
    <2> QED  BY <1>3, <2>1, ClientTyped, PublishedStays, ClientReads DEF IInv, Reads
<1>4. CASE UNCHANGED vars
    BY <1>4 DEF vars, gameVars, pubVars, cliVars, IInv, TypeOK, Published, TicksFit,
                WindowFits, ServingFits, AnswerFits
<1> QED  BY <1>1, <1>2, <1>3, <1>4 DEF Next

LEMMA AlwaysIInv == Spec => []IInv
BY InitIInv, NextIInv, PTL DEF Spec

\* Every variable keeps its type: in particular an answer that was accepted had
\* both of its halves, for any number of threads, processes and generations.
THEOREM TypeCorrect == Spec => []TypeOK
<1>1. IInv => TypeOK  BY DEF IInv
<1> QED  BY <1>1, AlwaysIInv, PTL

\* What is published only moves forward within a process, for any number of
\* threads that swap frames: one of them registers and no other samples.
THEOREM PublicationsMoveForward == Spec => PublishedForward
<1>1. IInv /\ [Next]_vars =>
          [(snapshot # Nothing /\ snapshot' # Nothing /\ snapshot' # snapshot)
              => snapshot'.gen > snapshot.gen]_vars
    <2> SUFFICES ASSUME IInv, Next, snapshot # Nothing, snapshot' # Nothing,
                        snapshot' # snapshot
                 PROVE  snapshot'.gen > snapshot.gen
        OBVIOUS
    <2>1. CASE Game
        <3>1. PICK t \in Threads : Publish(t)
            BY <2>1 DEF Game, GameRestart, FrameTick, ProbeRefused, Probe, pubVars
        <3> QED  BY <3>1, PublishMoves DEF IInv
    <2>2. CASE Server \/ Client
        BY <2>2 DEF Server, Accept, ServeOne, StateFirst, StateSecond, Client, BeginRead,
                    TransportError, Fallback, SecondHalf, AcceptRead, RefuseRead, Reopen,
                    pubVars
    <2> QED  BY <2>1, <2>2 DEF Next
<1> QED  BY <1>1, AlwaysIInv, PTL DEF Spec, PublishedForward

\* The halves of an accepted view belong together, also those of a legacy pair
\* that was read around a restart of the game.
THEOREM ViewsAgree == Spec => []HalvesAgree
<1>1. Init => HalvesAgree  BY DEF Init, HalvesAgree
<1>2. IInv /\ HalvesAgree /\ [Next]_vars => HalvesAgree'
    <2> SUFFICES ASSUME IInv, HalvesAgree, [Next]_vars PROVE HalvesAgree'
        OBVIOUS
    <2>1. CASE AcceptRead
        <3>1. Left \in Publication /\ Right \in Publication
            BY <2>1, HalvesTyped DEF AcceptRead, IInv
        <3>2. /\ Left.pid = Right.pid /\ Left.gen <= Right.gen
              /\ Right.gen <= Left.gen + MaxSkew
            BY <2>1, <3>1, PublicationShape DEF AcceptRead, Identity, Coherent, MaxSkew
        <3> QED  BY <2>1, <3>2 DEF AcceptRead, HalvesAgree
    <2>2. CASE view' = view  BY <2>2 DEF HalvesAgree
    <2>3. CASE Game
        BY <2>2, <2>3 DEF Game, GameRestart, FrameTick, ProbeRefused, Probe, Publish, cliVars
    <2>4. CASE Server
        BY <2>2, <2>4 DEF Server, Accept, ServeOne, StateFirst, StateSecond, cliVars
    <2>5. CASE Client
        BY <2>1, <2>2, <2>5 DEF Client, BeginRead, TransportError, Fallback, SecondHalf,
                                RefuseRead, Reopen, cliVars
    <2> QED  BY <2>2, <2>3, <2>4, <2>5 DEF Next, vars, cliVars
<1> QED  BY <1>1, <1>2, AlwaysIInv, PTL DEF Spec

(***************************************************************************)
(* The refinement of AtomicView                                            *)
(***************************************************************************)

\* What the abstract system sees of the state.
Seen == <<snapshot, request # "idle", window, view, combined>>

LEMMA SeenStays ==
    ASSUME UNCHANGED Seen
    PROVE  UNCHANGED Abstract!vars
BY DEF Seen, Abstract!vars

LEMMA GameImplements ==
    ASSUME IInv, combined, Game, UNCHANGED combined
    PROVE  [Abstract!Next]_(Abstract!vars)
<1>1. CASE GameRestart
    <2>1. snapshot' = Nothing /\ UNCHANGED <<request, window, view>>
        BY <1>1 DEF GameRestart, cliVars
    <2>2. Abstract!Vanish  BY <2>1 DEF Abstract!Vanish
    <2> QED  BY <2>2 DEF Abstract!Next
<1>2. ASSUME NEW t \in Threads, FrameTick(t) \/ ProbeRefused(t) \/ Probe(t)
      PROVE  UNCHANGED Abstract!vars
    BY <1>2, SeenStays DEF FrameTick, ProbeRefused, Probe, pubVars, cliVars, Seen
<1>3. ASSUME NEW t \in Threads, Publish(t)
      PROVE  Abstract!Publish
    <2>1. /\ snapshot' \in Publication
          /\ snapshot # Nothing => snapshot'.pid = snapshot.pid /\ snapshot'.gen > snapshot.gen
        BY <1>3, PublishMoves DEF IInv
    <2>2. /\ window' = IF request # "idle" THEN window \union {snapshot'} ELSE window
          /\ UNCHANGED <<request, view>>
        BY <1>3 DEF Publish, Remember, cliVars
    <2> QED  BY <2>1, <2>2 DEF Abstract!Publish
<1> QED  BY <1>1, <1>2, <1>3 DEF Game, Abstract!Next

LEMMA ClientImplements ==
    ASSUME IInv, combined, Client, UNCHANGED combined
    PROVE  [Abstract!Next]_(Abstract!vars)
<1>1. ASSUME NEW kind \in {"state", "ui"}, BeginRead(kind)
      PROVE  Abstract!Begin
    BY <1>1 DEF BeginRead, cliVars, pubVars, Abstract!Begin
<1>2. CASE TransportError \/ RefuseRead
    <2>1. request # "idle"
        BY <1>2 DEF TransportError, RefuseRead, IInv, AnswerFits
    <2>2. request' = "idle" /\ window' = {} /\ UNCHANGED <<snapshot, view>>
        BY <1>2 DEF TransportError, RefuseRead, EndRead, pubVars
    <2>3. Abstract!Fail  BY <2>1, <2>2 DEF Abstract!Fail
    <2> QED  BY <2>3 DEF Abstract!Next
<1>3. CASE Fallback \/ SecondHalf
    <2>1. FALSE  BY <1>3 DEF Fallback, SecondHalf, IInv, AnswerFits
    <2> QED  BY <2>1
<1>4. CASE AcceptRead
    <2>1. /\ answer # Nothing /\ answer.status = "ok" /\ request # "idle"
          /\ request # "buttons"
        BY <1>4 DEF AcceptRead, Complete, IInv, AnswerFits
    <2>2. Left \in window /\ Right = Left
        BY <2>1 DEF IInv, AnswerFits, Left, Right
    <2>3. /\ request' = "idle" /\ window' = {} /\ UNCHANGED snapshot
          /\ view' = Abstract!Halves(Left)
        BY <1>4, <2>2 DEF AcceptRead, EndRead, pubVars, Abstract!Halves
    <2>4. Abstract!Accept  BY <2>1, <2>2, <2>3 DEF Abstract!Accept
    <2> QED  BY <2>4 DEF Abstract!Next
<1>5. CASE Reopen  BY <1>5, SeenStays DEF Reopen, Seen, pubVars
<1> QED  BY <1>1, <1>2, <1>3, <1>4, <1>5 DEF Client, Abstract!Next

LEMMA StepImplements ==
    ASSUME IInv, [Next]_vars
    PROVE  [Abstract!Next]_(Abstract!vars)
<1>1. combined' = combined  BY DEF Next, vars
<1>2. CASE ~combined
    BY <1>1, <1>2 DEF Abstract!vars
<1>3. CASE UNCHANGED vars
    BY <1>3, SeenStays DEF vars, pubVars, cliVars, Seen
<1>4. CASE Server
    BY <1>1, <1>4, SeenStays DEF Server, Accept, ServeOne, StateFirst, StateSecond, pubVars,
                                 cliVars, Seen
<1>5. CASE combined /\ (Game \/ Client)
    BY <1>1, <1>5, GameImplements, ClientImplements
<1> QED  BY <1>2, <1>3, <1>4, <1>5 DEF Next

\* A build with the combined endpoint keeps the promise of AtomicView: every view
\* that is accepted is one publication, current at a moment of its read; for any
\* number of threads, restarts, and connections left behind by timeouts.
THEOREM CombinedIsAtomic == Spec => AtomicViewSpec
<1>1. Init => Abstract!Init  BY DEF Init, Abstract!Init
<1> QED  BY <1>1, StepImplements, AlwaysIInv, PTL DEF Spec, AtomicViewSpec, Abstract!Spec
=============================================================================
