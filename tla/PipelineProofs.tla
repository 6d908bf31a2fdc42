-------------------------- MODULE PipelineProofs --------------------------
(***************************************************************************)
(* Proofs about the event pipeline, for any number of events, overlapping  *)
(* ticks, workers and crashes, and any batch size and number of attempts.  *)
(***************************************************************************)
EXTENDS EventPipeline, FiniteSetTheorems, SequenceTheorems, TLAPS

-----------------------------------------------------------------------------
(* The inductive invariant *)

\* The rows of a batch are events that had attempts left when they were read.
Row == [event : Events, attempts : 0 .. MaxPublishAttempts - 1]
BatchesOfRows == \A t \in Ticks : tick[t].batch \in Seq(Row)

\* The event has been handed to the queue: its job is there, or was removed a
\* day after its handler was through.
Handed(e) == job[e].state # "none" \/ effects[e] > 0

\* A row that is PENDING has attempts left, and one that is PUBLISHED was handed
\* to the queue.
RowsTrue ==
    \A e \in Events :
        /\ outbox[e].status = "PENDING" => outbox[e].attempts < MaxPublishAttempts
        /\ outbox[e].status = "PUBLISHED" => Handed(e)

\* A tick is about to mark only what it handed to the queue.
MarksTrue == \A t \in Ticks : tick[t].step = "publish" => Handed(Head(tick[t].batch).event)

\* A job that is not settled has attempts left.
JobsLeft ==
    \A e \in Events : job[e].state \in {"none", "waiting", "active"} => job[e].attempts < MaxJobAttempts

\* How far a worker is tells what has been done for its event.
WorkersTrue ==
    \A w \in Workers :
        /\ worker[w].step # "idle" => worker[w].event \in Events
        /\ worker[w].step \in {"follow", "mark"} => effects[worker[w].event] > 0
        /\ worker[w].step = "mark" => followed[worker[w].event] > 0
        /\ worker[w].step = "ack" => worker[w].event \in processed

IInv ==
    /\ TypeOK
    /\ BatchesOfRows
    /\ RowsTrue
    /\ MarksTrue
    /\ JobsLeft
    /\ WorkersTrue
    /\ CompletedMeansHandled

-----------------------------------------------------------------------------
(* The batch of a tick *)

\* How many elements of S come before e.
Older(S, e) == Cardinality({f \in S : f < e})

\* In a finite set of numbers, each rank is that of one element.
LEMMA Ranks ==
  ASSUME NEW S \in SUBSET Int, IsFiniteSet(S), NEW k \in 1 .. Cardinality(S)
  PROVE  \E e \in S : Older(S, e) = k - 1
<1> DEFINE size == Cardinality(S)
           T == 0 .. size - 1
           rank == [e \in S |-> Older(S, e)]
<1>0. size \in Nat /\ k - 1 \in T
  BY FS_CardinalityType
<1>1. IsFiniteSet(T) /\ Cardinality(T) = size
  BY <1>0, FS_Interval
<1>2. ASSUME NEW e \in S
      PROVE  /\ IsFiniteSet({f \in S : f < e})
             /\ Older(S, e) \in Nat
             /\ Older(S, e) < size
  <2>1. {f \in S : f < e} \in SUBSET (S \ {e})
    OBVIOUS
  <2>2. IsFiniteSet(S \ {e}) /\ Cardinality(S \ {e}) = size - 1
    BY FS_RemoveElement
  <2>3. /\ IsFiniteSet({f \in S : f < e})
        /\ Cardinality({f \in S : f < e}) <= Cardinality(S \ {e})
    BY <2>1, <2>2, FS_Subset
  <2>4. Cardinality({f \in S : f < e}) \in Nat
    BY <2>3, FS_CardinalityType
  <2> QED  BY <1>0, <2>2, <2>3, <2>4 DEF Older
<1>3. ASSUME NEW e \in S, NEW g \in S, e < g
      PROVE  Older(S, e) < Older(S, g)
  <2> DEFINE A == {f \in S : f < e}
             B == {f \in S : f < g}
  <2>1. IsFiniteSet(A) /\ IsFiniteSet(B) /\ Cardinality(A) \in Nat /\ Cardinality(B) \in Nat
    BY <1>2 DEF Older
  <2>a. \A f \in S : f < e => f < g
    BY <1>3
  <2>b. ~(e < e)
    OBVIOUS
  <2>2. A \cup {e} \in SUBSET B /\ e \notin A
    BY <1>3, <2>a, <2>b
  <2>3. Cardinality(A \cup {e}) = Cardinality(A) + 1
    BY <2>1, <2>2, FS_AddElement
  <2>4. Cardinality(A \cup {e}) <= Cardinality(B)
    BY <2>1, <2>2, FS_Subset
  <2> QED  BY <2>1, <2>3, <2>4 DEF Older
<1>4. rank \in [S -> T]
  <2>1. ASSUME NEW e \in S  PROVE Older(S, e) \in T
    <3>1. Older(S, e) \in Nat /\ Older(S, e) < size /\ size \in Nat
      BY <1>0, <1>2
    <3> HIDE DEF size
    <3> QED  BY <3>1
  <2> HIDE DEF T
  <2> QED  BY <2>1
<1>5. rank \in Injection(S, T)
  <2>1. ASSUME NEW e \in S, NEW g \in S, rank[e] = rank[g]  PROVE e = g
    <3>1. Older(S, e) = Older(S, g) /\ Older(S, e) \in Nat
      BY <1>2, <2>1
    <3>2. ~(e < g) /\ ~(g < e)
      BY <1>2, <1>3, <3>1
    <3> QED  BY <3>2
  <2> HIDE DEF rank
  <2>2. DOMAIN rank = S
    BY <1>4
  <2> QED  BY <1>4, <2>1, <2>2 DEF Injection, IsInjective
<1>6. rank \in Surjection(S, T)
  BY <1>1, <1>5, FS_Injection
<1>7. PICK e \in S : rank[e] = k - 1
  BY <1>0, <1>6 DEF Surjection
<1> QED  BY <1>7

\* A function on 1 .. m is a sequence of length m.
LEMMA LengthIs ==
  ASSUME NEW m \in Nat, NEW A, NEW f \in [1 .. m -> A]
  PROVE  f \in Seq(A) /\ Len(f) = m
<1>1. f \in Seq(A)
  BY SeqDef
<1>2. Len(f) \in Nat /\ 1 .. Len(f) = 1 .. m
  BY <1>1, LenProperties
<1>3. PICK l : l = Len(f)
  OBVIOUS
<1>4. l \in Nat /\ Cardinality(1 .. l) = Cardinality(1 .. m)
  BY <1>2, <1>3
<1>5. \A i \in Nat : Cardinality(1 .. i) = i
  BY FS_Interval
<1> QED  BY <1>1, <1>3, <1>4, <1>5

\* The batch read of the events S is not empty, is no longer than it may be,
\* and is made of rows of these events.
LEMMA OldestAre ==
  ASSUME NEW S \in SUBSET Int, IsFiniteSet(S), S # {}, NEW n \in Nat \ {0},
         NEW A, \A e \in S : [event |-> e, attempts |-> outbox[e].attempts] \in A
  PROVE  /\ Oldest(S, n) \in Seq(A)
         /\ Len(Oldest(S, n)) <= n
         /\ Oldest(S, n) # <<>>
<1> DEFINE size == IF Cardinality(S) < n THEN Cardinality(S) ELSE n
           nth(k) == CHOOSE e \in S : Older(S, e) = k - 1
           batch == [k \in 1 .. size |-> [event |-> nth(k), attempts |-> outbox[nth(k)].attempts]]
<1>1. Cardinality(S) \in Nat /\ Cardinality(S) # 0
  BY FS_CardinalityType, FS_EmptySet
<1>2. size \in Nat /\ size # 0 /\ size <= n /\ 1 .. size \subseteq 1 .. Cardinality(S)
  BY <1>1
<1>3. Oldest(S, n) = batch
  BY DEF Oldest, Older
<1> HIDE DEF size
<1>4. ASSUME NEW k \in 1 .. size  PROVE nth(k) \in S
  <2>1. \E e \in S : Older(S, e) = k - 1
    BY <1>2, Ranks
  <2> QED  BY <2>1
<1> HIDE DEF nth
<1>5. batch \in [1 .. size -> A]
  BY <1>4
<1>6. batch \in Seq(A) /\ Len(batch) = size
  BY <1>2, <1>5, LengthIs
<1>8. batch # <<>>
  BY <1>2, <1>6, EmptySeq
<1> QED  BY <1>2, <1>3, <1>6, <1>8

-----------------------------------------------------------------------------
(* Ticks *)

\* What TypeOK says of the ticks, and that their batches are rows.
TicksOK ==
    /\ tick \in [Ticks -> [step : TickSteps, batch : Seq(Seen)]]
    /\ \A t \in Ticks : /\ Len(tick[t].batch) <= BatchSize
                        /\ tick[t].step # "idle" <=> tick[t].batch # <<>>
    /\ BatchesOfRows

\* What is assumed of the bounds, one by one.
LEMMA Constants ==
  /\ MaxEvents \in Nat /\ MaxCrashes \in Nat
  /\ BatchSize \in Nat \ {0} /\ MaxPublishAttempts \in Nat \ {0} /\ MaxJobAttempts \in Nat \ {0}
BY BoundsAssumption

\* Rows are events and attempts; a batch of rows is a batch as TypeOK has it.
LEMMA RowsAreSeen ==
  /\ \A r \in Row : /\ r.event \in Events /\ r.attempts \in Nat
                    /\ r.attempts + 1 \in 0 .. MaxPublishAttempts
  /\ Seq(Row) \subseteq Seq(Seen)
<1>1. \A n \in 0 .. MaxPublishAttempts - 1 : n \in Nat /\ n + 1 \in 0 .. MaxPublishAttempts
  BY Constants
<1>2. Row \subseteq Seen
  BY <1>1 DEF Row, Seen
<1> QED  BY <1>1, <1>2, SeqMonotonic DEF Row

\* A tick that is under way has a row in hand, and a batch without it.
LEMMA InHand ==
  ASSUME TicksOK, NEW t \in Ticks, tick[t].step # "idle"
  PROVE  /\ Head(tick[t].batch) \in Row
         /\ Head(tick[t].batch).event \in Events
         /\ tick[t].batch \in Seq(Row) /\ tick[t].batch # <<>>
         /\ Tail(tick[t].batch) \in Seq(Row)
         /\ Len(Tail(tick[t].batch)) <= BatchSize
<1>1. PICK batch : batch = tick[t].batch
  OBVIOUS
<1>2. batch \in Seq(Row) /\ batch # <<>> /\ Len(batch) <= BatchSize
  BY <1>1 DEF TicksOK, BatchesOfRows
<1>3. /\ Head(batch) \in Row
      /\ Tail(batch) \in Seq(Row)
      /\ Len(Tail(batch)) = Len(batch) - 1
      /\ Len(batch) \in Nat
  BY <1>2, HeadTailProperties, LenProperties
<1>4. PICK l : l = Len(batch)
  OBVIOUS
<1>5. Len(Tail(batch)) <= BatchSize
  BY <1>2, <1>3, <1>4, Constants
<1> QED  BY <1>1, <1>2, <1>3, <1>5, RowsAreSeen

\* What a step of one tick has to see to.
LEMMA TickBecomes ==
  ASSUME TicksOK, NEW t \in Ticks, NEW step \in TickSteps, NEW batch \in Seq(Row),
         Len(batch) <= BatchSize, step # "idle" <=> batch # <<>>,
         tick' = [tick EXCEPT ![t] = [step |-> step, batch |-> batch]]
  PROVE  TicksOK'
<1>1. batch \in Seq(Seen)
  BY RowsAreSeen
<1>2. [step |-> step, batch |-> batch] \in [step : TickSteps, batch : Seq(Seen)]
  BY <1>1
<1>3. tick' \in [Ticks -> [step : TickSteps, batch : Seq(Seen)]]
  BY <1>2 DEF TicksOK
<1>4. ASSUME NEW u \in Ticks
      PROVE  /\ Len(tick'[u].batch) <= BatchSize
             /\ tick'[u].step # "idle" <=> tick'[u].batch # <<>>
             /\ tick'[u].batch \in Seq(Row)
  <2>1. CASE u = t
    <3>1. tick'[u].step = step /\ tick'[u].batch = batch
      BY <2>1 DEF TicksOK
    <3> QED  BY <3>1
  <2>2. CASE u # t
    <3>1. tick'[u] = tick[u]
      BY <2>2 DEF TicksOK
    <3> QED  BY <3>1 DEF TicksOK, BatchesOfRows
  <2> QED  BY <2>1, <2>2
<1> QED  BY <1>3, <1>4 DEF TicksOK, BatchesOfRows, Row, Events

\* A tick that goes on with the same batch.
LEMMA AtStepBecomes ==
  ASSUME TicksOK, NEW t \in Ticks, tick[t].step # "idle", NEW step \in TickSteps \ {"idle"}, AtStep(t, step)
  PROVE  /\ TicksOK'
         /\ tick'[t] = [step |-> step, batch |-> tick[t].batch]
         /\ \A u \in Ticks \ {t} : tick'[u] = tick[u]
<1>1. tick[t] \in [step : TickSteps, batch : Seq(Seen)]
  BY DEF TicksOK
<1>2. [tick[t] EXCEPT !.step = step] = [step |-> step, batch |-> tick[t].batch]
  BY <1>1
<1>3. tick' = [tick EXCEPT ![t] = [step |-> step, batch |-> tick[t].batch]]
  BY <1>2 DEF AtStep
<1>4. TicksOK'
  BY <1>3, InHand, TickBecomes DEF TicksOK
<1> QED  BY <1>3, <1>4 DEF TicksOK

\* A tick that goes on to the next row.
LEMMA NextOfBecomes ==
  ASSUME TicksOK, NEW t \in Ticks, tick[t].step # "idle", NextOf(t)
  PROVE  /\ TicksOK'
         /\ tick'[t].step \in {"idle", "enqueue"}
         /\ \A u \in Ticks \ {t} : tick'[u] = tick[u]
<1> DEFINE rest == Tail(tick[t].batch)
           step == IF rest = <<>> THEN "idle" ELSE "enqueue"
<1>1. rest \in Seq(Row) /\ Len(rest) <= BatchSize
  BY InHand
<1>2. tick' = [tick EXCEPT ![t] = [step |-> step, batch |-> rest]]
  BY DEF NextOf
<1>3. step \in TickSteps /\ step \in {"idle", "enqueue"} /\ (step # "idle" <=> rest # <<>>)
  BY DEF TickSteps
<1> HIDE DEF rest, step
<1> QED  BY <1>1, <1>2, <1>3, TickBecomes DEF TicksOK

\* Every step keeps the types of the ticks, and leaves each tick as it was, or
\* neither at "publish" before nor after, or at "publish" of a row it enqueued.
LEMMA TickStepOK ==
  ASSUME TypeOK, RowsTrue, TicksOK, [Next]_vars
  PROVE  /\ TicksOK'
         /\ \A t \in Ticks :
               \/ tick'[t] = tick[t]
               \/ tick'[t].step # "publish"
               \/ Enqueue(t) /\ tick'[t].batch = tick[t].batch
<1> DEFINE Kept == \A u \in Ticks :
               \/ tick'[u] = tick[u]
               \/ tick'[u].step # "publish"
               \/ Enqueue(u) /\ tick'[u].batch = tick[u].batch
<1>1. ASSUME NEW t \in Ticks, Poll(t)  PROVE TicksOK' /\ Kept
  <2>1. Pending \in SUBSET Int /\ IsFiniteSet(Pending)
    <3>1. written \in Int /\ 1 .. written \subseteq Int
      BY DEF TypeOK
    <3>2. IsFiniteSet(1 .. written)
      BY <3>1, FS_Interval
    <3>3. Pending \in SUBSET (1 .. written)
      BY DEF Pending
    <3> QED  BY <3>1, <3>2, <3>3, FS_Subset
  <2>2. ASSUME NEW e \in Pending  PROVE [event |-> e, attempts |-> outbox[e].attempts] \in Row
    <3>1. e \in 1 .. written /\ outbox[e].attempts < MaxPublishAttempts
      BY <2>2 DEF Pending
    <3>2. e \in Events
      BY <3>1, Constants DEF TypeOK, Events
    <3>3. outbox[e].attempts \in 0 .. MaxPublishAttempts
      BY <3>2 DEF TypeOK
    <3>4. outbox[e].attempts \in 0 .. MaxPublishAttempts - 1
      BY <3>1, <3>3, Constants
    <3> QED  BY <3>2, <3>4 DEF Row
  <2>3. BatchSize \in Nat \ {0}
    BY Constants
  <2>4. /\ Oldest(Pending, BatchSize) \in Seq(Row)
        /\ Len(Oldest(Pending, BatchSize)) <= BatchSize
        /\ Oldest(Pending, BatchSize) # <<>>
    BY <1>1, <2>1, <2>2, <2>3, OldestAre DEF Poll
  <2>5. PICK batch : batch = Oldest(Pending, BatchSize)
    OBVIOUS
  <2>6. tick' = [tick EXCEPT ![t] = [step |-> "enqueue", batch |-> batch]]
    BY <1>1, <2>5 DEF Poll
  <2>7. TicksOK'
    BY <2>4, <2>5, <2>6, TickBecomes DEF TickSteps
  <2> QED  BY <2>6, <2>7 DEF TicksOK
<1>2. ASSUME NEW t \in Ticks, NEW step \in {"publish", "fail"}, AtStep(t, step), tick[t].step # "idle",
             step = "publish" => Enqueue(t)
      PROVE  TicksOK' /\ Kept
  <2>1. step \in TickSteps \ {"idle"}
    BY DEF TickSteps
  <2>2. /\ TicksOK'
        /\ tick'[t] = [step |-> step, batch |-> tick[t].batch]
        /\ \A u \in Ticks \ {t} : tick'[u] = tick[u]
    BY <1>2, <2>1, AtStepBecomes
  <2>3. tick'[t].step = step /\ tick'[t].batch = tick[t].batch
    BY <2>2
  <2> QED  BY <1>2, <2>2, <2>3
<1>3. ASSUME NEW t \in Ticks, NextOf(t), tick[t].step # "idle"  PROVE TicksOK' /\ Kept
  BY <1>3, NextOfBecomes
<1>4. ASSUME NEW t \in Ticks, TickLost(t)  PROVE TicksOK' /\ Kept
  <2>1. tick' = [tick EXCEPT ![t] = [step |-> "idle", batch |-> <<>>]]
    BY <1>4 DEF TickLost, IdleTick
  <2>2. <<>> \in Seq(Row) /\ Len(<<>>) <= BatchSize
    BY EmptySeq, Constants
  <2>3. TicksOK'
    BY <2>1, <2>2, TickBecomes DEF TickSteps
  <2> QED  BY <2>1, <2>3 DEF TicksOK
<1>5. ASSUME UNCHANGED tick  PROVE TicksOK' /\ Kept
  BY <1>5 DEF TicksOK, BatchesOfRows, Row, Seen, Events
<1>6. ASSUME NEW t \in Ticks, TickStep(t)  PROVE TicksOK' /\ Kept
  <2>1. CASE Enqueue(t) \/ EnqueueFails(t) \/ MarkFails(t)
    BY <1>2, <2>1 DEF Enqueue, EnqueueFails, MarkFails
  <2>2. CASE MarkPublished(t) \/ RecordFailure(t)
    BY <1>3, <2>2 DEF MarkPublished, RecordFailure
  <2> QED  BY <1>1, <1>6, <2>1, <2>2 DEF TickStep
<1>7. ASSUME NEW w \in Workers, WorkerStep(w) \/ WorkerLost(w)  PROVE UNCHANGED tick
  BY <1>7 DEF WorkerStep, WorkerLost, Take, Check, Handle, FollowUp, MarkProcessed, Complete, Throw
<1>8. CASE WriteEvent \/ (\E e \in Events : Stall(e) \/ RemoveCompleted(e)) \/ UNCHANGED vars
  BY <1>5, <1>8 DEF WriteEvent, Stall, RemoveCompleted, vars
<1> QED  BY <1>4, <1>5, <1>6, <1>7, <1>8 DEF Next

-----------------------------------------------------------------------------
(* Jobs *)

Job == [state : JobState, attempts : 0 .. MaxJobAttempts, stalled : BOOLEAN, owner : Workers \union {Nobody}]

\* What the job of event e may become in a step: it completes only if the event
\* is on record as processed, and goes away only when it was completed.
MayBecome(e, j) ==
    /\ j \in Job
    /\ j.state \in {"none", "waiting", "active"} => j.attempts < MaxJobAttempts
    /\ j.state = "none" => job[e].state \in {"none", "completed"}
    /\ j.state = "completed" => job[e].state = "completed" \/ e \in processed

\* The job of an event is one, and may stay what it is.
LEMMA JobIs ==
  ASSUME TypeOK, JobsLeft, NEW e \in Events
  PROVE  /\ MayBecome(e, job[e])
         /\ job[e].state \in JobState /\ job[e].attempts \in 0 .. MaxJobAttempts
         /\ job[e].stalled \in BOOLEAN /\ job[e].owner \in Workers \union {Nobody}
<1>1. job[e] \in Job
  BY DEF TypeOK, Job
<1> QED  BY <1>1 DEF MayBecome, Job, JobsLeft

\* What a step that changes one job has to see to.
LEMMA JobBecomes ==
  ASSUME TypeOK, JobsLeft, NEW e \in Events, NEW state \in JobState, NEW attempts \in 0 .. MaxJobAttempts,
         NEW stalled \in BOOLEAN, NEW owner \in Workers \union {Nobody},
         state \in {"none", "waiting", "active"} => attempts < MaxJobAttempts,
         state = "none" => job[e].state \in {"none", "completed"},
         state = "completed" => job[e].state = "completed" \/ e \in processed,
         job' = [job EXCEPT ![e] = [state |-> state, attempts |-> attempts, stalled |-> stalled, owner |-> owner]]
  PROVE  /\ job' \in [Events -> Job]
         /\ \A f \in Events : MayBecome(f, job'[f])
<1> DEFINE mine == [state |-> state, attempts |-> attempts, stalled |-> stalled, owner |-> owner]
<1>1. mine \in Job
  BY DEF Job
<1>2. MayBecome(e, mine)
  BY <1>1 DEF MayBecome
<1>3. job \in [Events -> Job]
  BY DEF TypeOK, Job
<1> HIDE DEF mine
<1>4. job' = [job EXCEPT ![e] = mine]
  BY DEF mine
<1> QED  BY <1>1, <1>2, <1>3, <1>4, JobIs

\* A job with another owner.
LEMMA WithOwner ==
  ASSUME NEW j \in Job, NEW owner
  PROVE  [j EXCEPT !.owner = owner] =
            [state |-> j.state, attempts |-> j.attempts, stalled |-> j.stalled, owner |-> owner]
<1>1. PICK st, at, sd, ow : j = [state |-> st, attempts |-> at, stalled |-> sd, owner |-> ow]
  BY DEF Job
<1>2. [j EXCEPT !.owner = owner] = [state |-> st, attempts |-> at, stalled |-> sd, owner |-> owner]
  BY <1>1
<1>3. j.state = st /\ j.attempts = at /\ j.stalled = sd
  BY <1>1
<1> QED  BY <1>2, <1>3

\* A job in another state and with another owner.
LEMMA WithStateOwner ==
  ASSUME NEW j \in Job, NEW state, NEW owner
  PROVE  [[j EXCEPT !.state = state] EXCEPT !.owner = owner] =
            [state |-> state, attempts |-> j.attempts, stalled |-> j.stalled, owner |-> owner]
<1>1. PICK st, at, sd, ow : j = [state |-> st, attempts |-> at, stalled |-> sd, owner |-> ow]
  BY DEF Job
<1>2. PICK once : once = [j EXCEPT !.state = state]
  OBVIOUS
<1>3. once = [state |-> state, attempts |-> at, stalled |-> sd, owner |-> ow]
  BY <1>1, <1>2
<1>4. [once EXCEPT !.owner = owner] = [state |-> state, attempts |-> at, stalled |-> sd, owner |-> owner]
  BY <1>3
<1>5. j.attempts = at /\ j.stalled = sd
  BY <1>1
<1> QED  BY <1>2, <1>4, <1>5

\* No step leaves a job that may not follow from what it was.
LEMMA JobStep ==
  ASSUME TypeOK, TicksOK, JobsLeft, WorkersTrue, [Next]_vars
  PROVE  /\ job' \in [Events -> Job]
         /\ \A e \in Events : MayBecome(e, job'[e])
<1> DEFINE Goal == job' \in [Events -> Job] /\ \A e \in Events : MayBecome(e, job'[e])
<1>z. 0 \in 0 .. MaxJobAttempts /\ 0 < MaxJobAttempts
  BY Constants
<1>j. \A e \in Events : job[e] \in Job
  BY DEF TypeOK, Job
<1>0. ASSUME UNCHANGED job  PROVE Goal
  <2>1. job \in [Events -> Job]
    BY DEF TypeOK, Job
  <2> QED  BY <1>0, <2>1, JobIs
<1>1. ASSUME NEW e \in Events, job' = Added(e)  PROVE Goal
  <2>1. CASE job[e].state = "none"
    <3>0. [NoJob EXCEPT !.state = "waiting"] =
              [state |-> "waiting", attempts |-> 0, stalled |-> FALSE, owner |-> Nobody]
      <4>1. NoJob \in Job
        BY <1>z DEF NoJob, Job, JobState
      <4>2. PICK none : none = NoJob
        OBVIOUS
      <4>3. PICK st, at, sd, ow : none = [state |-> st, attempts |-> at, stalled |-> sd, owner |-> ow]
        BY <4>1, <4>2 DEF Job
      <4>4. [none EXCEPT !.state = "waiting"] = [state |-> "waiting", attempts |-> at, stalled |-> sd, owner |-> ow]
        BY <4>3
      <4>5. none.attempts = at /\ none.stalled = sd /\ none.owner = ow
        BY <4>3
      <4>6. NoJob.attempts = 0 /\ NoJob.stalled = FALSE /\ NoJob.owner = Nobody
        BY DEF NoJob
      <4> QED  BY <4>2, <4>4, <4>5, <4>6
    <3>1. job' = [job EXCEPT ![e] = [state |-> "waiting", attempts |-> 0, stalled |-> FALSE, owner |-> Nobody]]
      BY <1>1, <2>1, <3>0 DEF Added
    <3> QED  BY <1>z, <3>1, JobBecomes DEF JobState
  <2>2. CASE job[e].state # "none"
    BY <1>0, <1>1, <2>2 DEF Added
  <2> QED  BY <2>1, <2>2
<1>2. ASSUME NEW w \in Workers, NEW e \in Events, Take(w, e)  PROVE Goal
  <2>1. job[e].state = "waiting"
    BY <1>2 DEF Take
  <2>2. PICK attempts, stalled : attempts = job[e].attempts /\ stalled = job[e].stalled
    OBVIOUS
  <2>3. attempts \in 0 .. MaxJobAttempts /\ stalled \in BOOLEAN /\ attempts < MaxJobAttempts
    BY <2>1, <2>2, JobIs DEF JobsLeft
  <2>5. [[job[e] EXCEPT !.state = "active"] EXCEPT !.owner = w] =
            [state |-> "active", attempts |-> attempts, stalled |-> stalled, owner |-> w]
    BY <2>2, <1>j, WithStateOwner
  <2>6. job' = [job EXCEPT ![e] = [[job[e] EXCEPT !.state = "active"] EXCEPT !.owner = w]]
    BY <1>2 DEF Take, TypeOK
  <2>7. job' = [job EXCEPT ![e] = [state |-> "active", attempts |-> attempts, stalled |-> stalled, owner |-> w]]
    BY <2>5, <2>6
  <2> QED  BY <2>3, <2>7, JobBecomes DEF JobState
<1>3. ASSUME NEW w \in Workers, Complete(w)  PROVE Goal
  <2> DEFINE e == worker[w].event
  <2>1. e \in processed /\ e \in Events
    BY <1>3 DEF Complete, WorkersTrue
  <2>2. CASE Owns(w)
    <3>1. PICK attempts, stalled : attempts = job[e].attempts /\ stalled = job[e].stalled
      OBVIOUS
    <3>2. [[job[e] EXCEPT !.state = "completed"] EXCEPT !.owner = Nobody] =
              [state |-> "completed", attempts |-> attempts, stalled |-> stalled, owner |-> Nobody]
      BY <2>1, <3>1, <1>j, WithStateOwner
    <3>3. job' = [job EXCEPT ![e] = [[job[e] EXCEPT !.state = "completed"] EXCEPT !.owner = Nobody]]
      BY <1>3, <2>2 DEF Complete, Settle
    <3>4. job' = [job EXCEPT ![e] = [state |-> "completed", attempts |-> attempts, stalled |-> stalled, owner |-> Nobody]]
      BY <3>2, <3>3
    <3>5. attempts \in 0 .. MaxJobAttempts /\ stalled \in BOOLEAN
      BY <2>1, <3>1, JobIs
    <3> HIDE DEF e
    <3> QED  BY <2>1, <3>4, <3>5, JobBecomes DEF JobState
  <2>3. CASE ~Owns(w)
    BY <1>0, <1>3, <2>3 DEF Complete, Settle
  <2> QED  BY <2>2, <2>3
<1>4. ASSUME NEW w \in Workers, Throw(w)  PROVE Goal
  <2> DEFINE e == worker[w].event
  <2>1. e \in Events
    BY <1>4 DEF Throw, WorkersTrue
  <2>2. CASE Owns(w)
    <3>1. PICK made, stalled, state :
             /\ made = job[e].attempts + 1 /\ stalled = job[e].stalled
             /\ state = IF made >= MaxJobAttempts THEN "failed" ELSE "waiting"
      OBVIOUS
    <3>2. [[[job[e] EXCEPT !.state = state] EXCEPT !.attempts = made] EXCEPT !.owner = Nobody] =
              [state |-> state, attempts |-> made, stalled |-> stalled, owner |-> Nobody]
      <4>1. PICK j \in Job : j = job[e]
        BY <2>1, <1>j
      <4>2. PICK st, at, sd, ow : j = [state |-> st, attempts |-> at, stalled |-> sd, owner |-> ow]
        BY DEF Job
      <4>3. PICK once : once = [j EXCEPT !.state = state]
        OBVIOUS
      <4>4. once = [state |-> state, attempts |-> at, stalled |-> sd, owner |-> ow]
        BY <4>2, <4>3
      <4>5. PICK twice : twice = [once EXCEPT !.attempts = made]
        OBVIOUS
      <4>6. twice = [state |-> state, attempts |-> made, stalled |-> sd, owner |-> ow]
        BY <4>4, <4>5
      <4>7. [twice EXCEPT !.owner = Nobody] = [state |-> state, attempts |-> made, stalled |-> sd, owner |-> Nobody]
        BY <4>6
      <4>8. stalled = sd
        BY <3>1, <4>1, <4>2
      <4> QED  BY <4>1, <4>3, <4>5, <4>7, <4>8
    <3>3. job' = [job EXCEPT ![e] = [[[job[e] EXCEPT !.state = state] EXCEPT !.attempts = made] EXCEPT !.owner = Nobody]]
      BY <1>4, <2>2, <3>1 DEF Throw, Settle
    <3>4. job' = [job EXCEPT ![e] = [state |-> state, attempts |-> made, stalled |-> stalled, owner |-> Nobody]]
      BY <3>2, <3>3
    <3>5. job[e].attempts \in 0 .. MaxJobAttempts /\ job[e].attempts < MaxJobAttempts /\ stalled \in BOOLEAN
      BY <2>1, <2>2, <3>1, JobIs DEF Owns, JobsLeft
    <3>6. made \in 0 .. MaxJobAttempts
      BY <3>1, <3>5, Constants
    <3>7. state \in JobState /\ state \notin {"none", "active", "completed"}
      BY <3>1 DEF JobState
    <3>8. state = "waiting" => made < MaxJobAttempts
      BY <3>1, <3>6, Constants
    <3> HIDE DEF e
    <3> QED  BY <2>1, <3>4, <3>5, <3>6, <3>7, <3>8, JobBecomes
  <2>3. CASE ~Owns(w)
    BY <1>0, <1>4, <2>3 DEF Throw, Settle
  <2> QED  BY <2>2, <2>3
<1>5. ASSUME NEW w \in Workers, WorkerLost(w)  PROVE Goal
  <2> DEFINE e == worker[w].event
  <2>1. e \in Events
    BY <1>5 DEF WorkerLost, WorkersTrue
  <2>2. CASE Owns(w)
    <3>1. PICK state, attempts, stalled : state = job[e].state /\ attempts = job[e].attempts /\ stalled = job[e].stalled
      OBVIOUS
    <3>2. [job[e] EXCEPT !.owner = Nobody] =
              [state |-> state, attempts |-> attempts, stalled |-> stalled, owner |-> Nobody]
      BY <2>1, <3>1, <1>j, WithOwner
    <3>3. job' = [job EXCEPT ![e] = [job[e] EXCEPT !.owner = Nobody]]
      BY <1>5, <2>2 DEF WorkerLost
    <3>4. job' = [job EXCEPT ![e] = [state |-> state, attempts |-> attempts, stalled |-> stalled, owner |-> Nobody]]
      BY <3>2, <3>3
    <3>5. state = "active" /\ attempts \in 0 .. MaxJobAttempts /\ attempts < MaxJobAttempts /\ stalled \in BOOLEAN
      BY <2>1, <2>2, <3>1, JobIs DEF Owns, JobsLeft
    <3> HIDE DEF e
    <3> QED  BY <2>1, <3>4, <3>5, JobBecomes DEF JobState
  <2>3. CASE ~Owns(w)
    BY <1>0, <1>5, <2>3 DEF WorkerLost
  <2> QED  BY <2>2, <2>3
<1>6. ASSUME NEW e \in Events, Stall(e)  PROVE Goal
  <2>1. PICK state, attempts, stalled :
           /\ attempts = job[e].attempts /\ stalled = TRUE
           /\ state = IF job[e].stalled THEN "failed" ELSE "waiting"
    OBVIOUS
  <2>2. [[[job[e] EXCEPT !.state = state] EXCEPT !.stalled = stalled] EXCEPT !.owner = Nobody] =
            [state |-> state, attempts |-> attempts, stalled |-> stalled, owner |-> Nobody]
    <3>1. PICK j \in Job : j = job[e]
      BY <1>j
    <3>2. PICK st, at, sd, ow : j = [state |-> st, attempts |-> at, stalled |-> sd, owner |-> ow]
      BY DEF Job
    <3>3. PICK once : once = [j EXCEPT !.state = state]
      OBVIOUS
    <3>4. once = [state |-> state, attempts |-> at, stalled |-> sd, owner |-> ow]
      BY <3>2, <3>3
    <3>5. PICK twice : twice = [once EXCEPT !.stalled = stalled]
      OBVIOUS
    <3>6. twice = [state |-> state, attempts |-> at, stalled |-> stalled, owner |-> ow]
      BY <3>4, <3>5
    <3>7. [twice EXCEPT !.owner = Nobody] = [state |-> state, attempts |-> at, stalled |-> stalled, owner |-> Nobody]
      BY <3>6
    <3>8. attempts = at
      BY <2>1, <3>1, <3>2
    <3> QED  BY <3>1, <3>3, <3>5, <3>7, <3>8
  <2>3. job' = [job EXCEPT ![e] = [[[job[e] EXCEPT !.state = state] EXCEPT !.stalled = stalled] EXCEPT !.owner = Nobody]]
    BY <1>6, <2>1 DEF Stall, TypeOK
  <2>4. job' = [job EXCEPT ![e] = [state |-> state, attempts |-> attempts, stalled |-> stalled, owner |-> Nobody]]
    BY <2>2, <2>3
  <2>5. attempts \in 0 .. MaxJobAttempts /\ attempts < MaxJobAttempts
    BY <1>6, <2>1, JobIs DEF Stall, JobsLeft
  <2>6. state \in {"failed", "waiting"} /\ stalled \in BOOLEAN
    BY <2>1
  <2> QED  BY <2>4, <2>5, <2>6, JobBecomes DEF JobState
<1>7. ASSUME NEW e \in Events, RemoveCompleted(e)  PROVE Goal
  <2>1. job' = [job EXCEPT ![e] = [state |-> "none", attempts |-> 0, stalled |-> FALSE, owner |-> Nobody]]
    BY <1>7 DEF RemoveCompleted, NoJob
  <2>2. job[e].state = "completed"
    BY <1>7 DEF RemoveCompleted
  <2> QED  BY <1>z, <2>1, <2>2, JobBecomes DEF JobState
<1>8. ASSUME NEW t \in Ticks, TickStep(t) \/ TickLost(t)  PROVE Goal
  <2>1. CASE Enqueue(t) \/ EnqueueFails(t)
    <3>1. Head(tick[t].batch).event \in Events
      BY <2>1, InHand DEF Enqueue, EnqueueFails
    <3> QED  BY <1>0, <1>1, <2>1, <3>1 DEF Enqueue, EnqueueFails
  <2> QED  BY <1>0, <1>8, <2>1 DEF TickStep, TickLost, Poll, MarkPublished, MarkFails, RecordFailure
<1>9. ASSUME NEW w \in Workers, WorkerStep(w)  PROVE Goal
  BY <1>0, <1>2, <1>3, <1>4, <1>9 DEF WorkerStep, Check, Handle, FollowUp, MarkProcessed
<1>10. CASE WriteEvent \/ UNCHANGED vars
  BY <1>0, <1>10 DEF WriteEvent, vars
<1> QED  BY <1>5, <1>6, <1>7, <1>8, <1>9, <1>10 DEF Next

-----------------------------------------------------------------------------
(* Workers, and what they did *)

\* What worker w may say of itself: its record, and what has been done.
MaySay(w, r) ==
    /\ r \in [step : WorkerSteps, event : 0 .. MaxEvents]
    /\ r.step # "idle" => r.event \in Events
    /\ r.step \in {"follow", "mark"} => effects'[r.event] > 0
    /\ r.step = "mark" => followed'[r.event] > 0
    /\ r.step = "ack" => r.event \in processed'

\* What is done is done, counts are numbers, and an event goes on record as
\* processed only after its handler and its follow-up event.
HistoryGrows ==
    /\ processed \subseteq processed' /\ processed' \subseteq Events
    /\ effects' \in [Events -> Nat] /\ followed' \in [Events -> Nat]
    /\ \A e \in Events : effects'[e] >= effects[e] /\ followed'[e] >= followed[e]
    /\ \A e \in processed' : e \in processed \/ (effects'[e] > 0 /\ followed'[e] > 0)

\* Every step adds to the history, if anything.
LEMMA HistoryStep ==
  ASSUME TypeOK, WorkersTrue, [Next]_vars
  PROVE  HistoryGrows
<1>1. ASSUME UNCHANGED <<processed, effects, followed>>  PROVE HistoryGrows
  <2>1. \A e \in Events : effects[e] \in Nat /\ followed[e] \in Nat
    BY DEF TypeOK
  <2>2. \A n \in Nat : n >= n
    OBVIOUS
  <2> QED  BY <1>1, <2>1, <2>2 DEF HistoryGrows, TypeOK
<1>2. ASSUME NEW w \in Workers, Handle(w)  PROVE HistoryGrows
  <2>1. PICK x \in Events : x = worker[w].event
    BY <1>2 DEF Handle, WorkersTrue
  <2>2. effects' = [effects EXCEPT ![x] = effects[x] + 1] /\ UNCHANGED <<processed, followed>>
    BY <1>2, <2>1 DEF Handle, TypeOK
  <2>3. effects \in [Events -> Nat] /\ followed \in [Events -> Nat] /\ processed \subseteq Events
    BY DEF TypeOK
  <2>a. effects[x] + 1 \in Nat /\ effects[x] + 1 >= effects[x]
    BY <2>3
  <2>b. \A e \in Events : effects[e] >= effects[e] /\ followed[e] >= followed[e]
    BY <2>3
  <2>4. effects' \in [Events -> Nat] /\ \A e \in Events : effects'[e] >= effects[e] /\ followed[e] >= followed[e]
    BY <2>2, <2>3, <2>a, <2>b
  <2> QED  BY <2>2, <2>3, <2>4 DEF HistoryGrows
<1>3. ASSUME NEW w \in Workers, FollowUp(w)  PROVE HistoryGrows
  <2>1. PICK x \in Events : x = worker[w].event
    BY <1>3 DEF FollowUp, WorkersTrue
  <2>2. followed' = [followed EXCEPT ![x] = followed[x] + 1] /\ UNCHANGED <<processed, effects>>
    BY <1>3, <2>1 DEF FollowUp, TypeOK
  <2>3. effects \in [Events -> Nat] /\ followed \in [Events -> Nat] /\ processed \subseteq Events
    BY DEF TypeOK
  <2>a. followed[x] + 1 \in Nat /\ followed[x] + 1 >= followed[x]
    BY <2>3
  <2>b. \A e \in Events : followed[e] >= followed[e] /\ effects[e] >= effects[e]
    BY <2>3
  <2>4. followed' \in [Events -> Nat] /\ \A e \in Events : followed'[e] >= followed[e] /\ effects[e] >= effects[e]
    BY <2>2, <2>3, <2>a, <2>b
  <2> QED  BY <2>2, <2>3, <2>4 DEF HistoryGrows
<1>4. ASSUME NEW w \in Workers, MarkProcessed(w)  PROVE HistoryGrows
  <2>1. PICK x : x = worker[w].event
    OBVIOUS
  <2>2. x \in Events /\ effects[x] > 0 /\ followed[x] > 0
    BY <1>4, <2>1 DEF MarkProcessed, WorkersTrue
  <2>3. processed' = processed \union {x} /\ UNCHANGED <<effects, followed>>
    BY <1>4, <2>1 DEF MarkProcessed
  <2>4. effects \in [Events -> Nat] /\ followed \in [Events -> Nat] /\ processed \subseteq Events
    BY DEF TypeOK
  <2>5. \A e \in Events : effects[e] >= effects[e] /\ followed[e] >= followed[e]
    BY <2>4
  <2> QED  BY <2>2, <2>3, <2>4, <2>5 DEF HistoryGrows
<1>5. ASSUME NEW w \in Workers, WorkerStep(w)  PROVE HistoryGrows
  BY <1>1, <1>2, <1>3, <1>4, <1>5 DEF WorkerStep, Take, Check, Complete, Throw
<1>6. ASSUME NEW t \in Ticks, TickStep(t) \/ TickLost(t)  PROVE HistoryGrows
  BY <1>1, <1>6 DEF TickStep, TickLost, Poll, Enqueue, EnqueueFails, MarkPublished, MarkFails, RecordFailure
<1>7. CASE \/ WriteEvent \/ UNCHANGED vars
           \/ \E w \in Workers : WorkerLost(w)
           \/ \E e \in Events : Stall(e) \/ RemoveCompleted(e)
  BY <1>1, <1>7 DEF WriteEvent, vars, WorkerLost, Stall, RemoveCompleted
<1> QED  BY <1>5, <1>6, <1>7 DEF Next

\* What a worker said of itself it may go on saying.
LEMMA WorkerStays ==
  ASSUME TypeOK, WorkersTrue, HistoryGrows, NEW w \in Workers
  PROVE  MaySay(w, worker[w])
<1>1. PICK step, x : step = worker[w].step /\ x = worker[w].event
  OBVIOUS
<1>2. /\ worker[w] \in [step : WorkerSteps, event : 0 .. MaxEvents]
      /\ step # "idle" => x \in Events
      /\ step \in {"follow", "mark"} => effects[x] > 0
      /\ step = "mark" => followed[x] > 0
      /\ step = "ack" => x \in processed
  BY <1>1 DEF TypeOK, WorkersTrue
<1>3. \A e \in Events : /\ effects'[e] >= effects[e] /\ followed'[e] >= followed[e]
                        /\ effects[e] \in Nat /\ followed[e] \in Nat
                        /\ effects'[e] \in Nat /\ followed'[e] \in Nat
  BY DEF TypeOK, HistoryGrows
<1>4. \A e \in Events : /\ effects[e] > 0 => effects'[e] > 0
                        /\ followed[e] > 0 => followed'[e] > 0
  BY <1>3
<1>5. processed \subseteq processed'
  BY DEF HistoryGrows
<1> QED  BY <1>1, <1>2, <1>4, <1>5 DEF MaySay

\* What a step that changes one worker has to see to.
LEMMA WorkerBecomes ==
  ASSUME TypeOK, WorkersTrue, HistoryGrows, NEW w \in Workers, NEW r, MaySay(w, r),
         worker' = [worker EXCEPT ![w] = r]
  PROVE  /\ worker' \in [Workers -> [step : WorkerSteps, event : 0 .. MaxEvents]]
         /\ WorkersTrue'
<1>1. r \in [step : WorkerSteps, event : 0 .. MaxEvents]
  BY DEF MaySay
<1>2. worker' \in [Workers -> [step : WorkerSteps, event : 0 .. MaxEvents]]
  BY <1>1 DEF TypeOK
<1>3. \A v \in Workers : MaySay(v, worker'[v])
  BY WorkerStays DEF TypeOK
<1>4. Events' = Events
  BY DEF Events
<1> QED  BY <1>2, <1>3, <1>4 DEF MaySay, WorkersTrue

\* A worker that goes on with the same event.
LEMMA Proceeds ==
  ASSUME TypeOK, WorkersTrue, HistoryGrows, NEW w \in Workers, worker[w].step # "idle",
         NEW step \in WorkerSteps \ {"idle"}, Becomes(w, step),
         step \in {"follow", "mark"} => effects'[worker[w].event] > 0,
         step = "mark" => followed'[worker[w].event] > 0,
         step = "ack" => worker[w].event \in processed'
  PROVE  /\ worker' \in [Workers -> [step : WorkerSteps, event : 0 .. MaxEvents]]
         /\ WorkersTrue'
<1>1. worker[w] \in [step : WorkerSteps, event : 0 .. MaxEvents] /\ worker[w].event \in Events
  BY DEF TypeOK, WorkersTrue
<1>2. PICK st \in WorkerSteps, x \in 0 .. MaxEvents : worker[w] = [step |-> st, event |-> x]
  BY <1>1
<1>3. [worker[w] EXCEPT !.step = step] = [step |-> step, event |-> x]
  BY <1>2
<1>4. worker' = [worker EXCEPT ![w] = [step |-> step, event |-> x]]
  BY <1>3 DEF Becomes
<1>5. worker[w].event = x
  BY <1>2
<1>6. MaySay(w, [step |-> step, event |-> x])
  BY <1>1, <1>2, <1>5 DEF MaySay
<1> QED  BY <1>4, <1>6, WorkerBecomes

\* Every step keeps what the workers say of themselves true.
LEMMA WorkerStepOK ==
  ASSUME TypeOK, WorkersTrue, HistoryGrows, [Next]_vars
  PROVE  /\ worker' \in [Workers -> [step : WorkerSteps, event : 0 .. MaxEvents]]
         /\ WorkersTrue'
<1> DEFINE Goal == /\ worker' \in [Workers -> [step : WorkerSteps, event : 0 .. MaxEvents]]
                   /\ WorkersTrue'
<1>h. /\ \A e \in Events : /\ effects'[e] >= effects[e]
                            /\ effects[e] \in Nat /\ effects'[e] \in Nat
      /\ processed \subseteq processed'
  BY DEF TypeOK, HistoryGrows
<1>0. ASSUME UNCHANGED worker  PROVE Goal
  <2>1. \A v \in Workers : MaySay(v, worker'[v])
    BY <1>0, WorkerStays
  <2>2. Events' = Events
    BY DEF Events
  <2> QED  BY <1>0, <2>1, <2>2 DEF MaySay, WorkersTrue, TypeOK
<1>1. ASSUME NEW w \in Workers, worker' = [worker EXCEPT ![w] = IdleWorker]  PROVE Goal
  <2>1. 0 \in 0 .. MaxEvents
    BY Constants
  <2>2. MaySay(w, IdleWorker)
    BY <2>1 DEF MaySay, IdleWorker, WorkerSteps
  <2> QED  BY <1>1, <2>2, WorkerBecomes
<1>2. ASSUME NEW w \in Workers, NEW e \in Events, Take(w, e)  PROVE Goal
  <2>1. e \in 0 .. MaxEvents
    BY Constants DEF Events
  <2>2. MaySay(w, [step |-> "check", event |-> e])
    BY <2>1 DEF MaySay, WorkerSteps
  <2>3. worker' = [worker EXCEPT ![w] = [step |-> "check", event |-> e]]
    BY <1>2 DEF Take
  <2> QED  BY <2>2, <2>3, WorkerBecomes
<1>3. ASSUME NEW w \in Workers, Check(w)  PROVE Goal
  <2>1. worker[w].step = "check" /\ worker[w].step # "idle" /\ Becomes(w, AfterCheck(w))
    BY <1>3 DEF Check
  <2>2. CASE worker[w].event \in processed
    <3>1. Becomes(w, "ack") /\ worker[w].event \in processed'
      BY <1>h, <2>1, <2>2 DEF AfterCheck
    <3> QED  BY <2>1, <3>1, Proceeds DEF WorkerSteps
  <2>3. CASE worker[w].event \notin processed
    <3>1. Becomes(w, "handle")
      BY <2>1, <2>3 DEF AfterCheck
    <3> QED  BY <2>1, <3>1, Proceeds DEF WorkerSteps
  <2> QED  BY <2>2, <2>3
<1>4. ASSUME NEW w \in Workers, Handle(w)  PROVE Goal
  <2>1. worker[w].step # "idle" /\ Becomes(w, "follow") /\ worker[w].event \in Events
    BY <1>4 DEF Handle, WorkersTrue
  <2>2. PICK x \in Events : x = worker[w].event
    BY <2>1
  <2>3. effects' = [effects EXCEPT ![x] = effects[x] + 1] /\ effects \in [Events -> Nat]
    BY <1>4, <2>2 DEF Handle, TypeOK
  <2>4. effects'[x] > 0
    BY <2>2, <2>3
  <2> QED  BY <2>1, <2>2, <2>4, Proceeds DEF WorkerSteps
<1>5. ASSUME NEW w \in Workers, FollowUp(w)  PROVE Goal
  <2>1. /\ worker[w].step # "idle" /\ Becomes(w, "mark") /\ worker[w].event \in Events
        /\ effects[worker[w].event] > 0
    BY <1>5 DEF FollowUp, WorkersTrue
  <2>2. PICK x \in Events : x = worker[w].event
    BY <2>1
  <2>3. /\ followed' = [followed EXCEPT ![x] = followed[x] + 1] /\ followed \in [Events -> Nat]
        /\ UNCHANGED effects
    BY <1>5, <2>2 DEF FollowUp, TypeOK
  <2>4. followed'[x] > 0 /\ effects'[x] > 0
    BY <2>1, <2>2, <2>3
  <2> QED  BY <2>1, <2>2, <2>4, Proceeds DEF WorkerSteps
<1>6. ASSUME NEW w \in Workers, MarkProcessed(w)  PROVE Goal
  <2>1. worker[w].step # "idle" /\ Becomes(w, "ack") /\ worker[w].event \in processed'
    BY <1>6 DEF MarkProcessed
  <2> QED  BY <2>1, Proceeds DEF WorkerSteps
<1>7. ASSUME NEW w \in Workers, Complete(w) \/ Throw(w) \/ WorkerLost(w)  PROVE Goal
  BY <1>1, <1>7 DEF Complete, Throw, WorkerLost, Settle
<1>8. ASSUME NEW t \in Ticks, TickStep(t) \/ TickLost(t)  PROVE Goal
  BY <1>0, <1>8 DEF TickStep, TickLost, Poll, Enqueue, EnqueueFails, MarkPublished, MarkFails, RecordFailure
<1>9. CASE WriteEvent \/ (\E e \in Events : Stall(e) \/ RemoveCompleted(e)) \/ UNCHANGED vars
  BY <1>0, <1>9 DEF WriteEvent, vars, Stall, RemoveCompleted
<1> QED  BY <1>2, <1>3, <1>4, <1>5, <1>6, <1>7, <1>8, <1>9 DEF Next, WorkerStep

-----------------------------------------------------------------------------
(* The outbox, and what becomes of an event *)

\* An event that was handed to the queue stays so: a job goes away only when
\* its handler was through.
LEMMA HandedStays ==
  ASSUME TypeOK, CompletedMeansHandled, HistoryGrows, NEW e \in Events, MayBecome(e, job'[e]), Handed(e)
  PROVE  Handed(e)'
<1>1. /\ effects'[e] >= effects[e] /\ effects[e] \in Nat /\ effects'[e] \in Nat
  BY DEF HistoryGrows, TypeOK
<1>2. effects[e] > 0 => effects'[e] > 0
  BY <1>1
<1>3. job'[e].state = "none" => job[e].state \in {"none", "completed"}
  BY DEF MayBecome
<1>4. job[e].state = "completed" => effects[e] > 0
  BY DEF CompletedMeansHandled
<1> QED  BY <1>2, <1>3, <1>4 DEF Handed

\* No job completes, and no event is recorded, before the handler is through.
LEMMA CompletedStep ==
  ASSUME TypeOK, CompletedMeansHandled, HistoryGrows, \A e \in Events : MayBecome(e, job'[e])
  PROVE  CompletedMeansHandled'
<1> SUFFICES ASSUME NEW e \in Events, job'[e].state = "completed" \/ e \in processed'
             PROVE  effects'[e] > 0 /\ followed'[e] > 0
  BY DEF CompletedMeansHandled, Events
<1>1. /\ effects'[e] >= effects[e] /\ effects[e] \in Nat /\ effects'[e] \in Nat
      /\ followed'[e] >= followed[e] /\ followed[e] \in Nat /\ followed'[e] \in Nat
  BY DEF HistoryGrows, TypeOK
<1>2. (effects[e] > 0 => effects'[e] > 0) /\ (followed[e] > 0 => followed'[e] > 0)
  BY <1>1
<1>3. \/ job[e].state = "completed" \/ e \in processed
      \/ effects'[e] > 0 /\ followed'[e] > 0
  BY DEF MayBecome, HistoryGrows
<1> QED  BY <1>2, <1>3 DEF CompletedMeansHandled

\* A tick marks PUBLISHED what was handed to the queue, and leaves PENDING what
\* has attempts left.
LEMMA OutboxStep ==
  ASSUME TypeOK, TicksOK, RowsTrue, MarksTrue, CompletedMeansHandled, HistoryGrows,
         \A e \in Events : MayBecome(e, job'[e]), [Next]_vars
  PROVE  /\ outbox' \in [Events -> [status : OutboxStatus, attempts : 0 .. MaxPublishAttempts]]
         /\ RowsTrue'
<1> DEFINE Rec == [status : OutboxStatus, attempts : 0 .. MaxPublishAttempts]
           Right(e, r) == /\ r \in Rec
                          /\ r.status = "PENDING" => r.attempts < MaxPublishAttempts
                          /\ r.status = "PUBLISHED" => Handed(e)'
           Goal == outbox' \in [Events -> Rec] /\ RowsTrue'
<1>0. \A e \in Events : Right(e, outbox[e])
  BY HandedStays DEF TypeOK, RowsTrue
<1>1. ASSUME UNCHANGED outbox  PROVE Goal
  BY <1>0, <1>1 DEF RowsTrue, TypeOK, Events
<1>2. ASSUME NEW x \in Events, NEW r, Right(x, r), outbox' = [outbox EXCEPT ![x] = r]  PROVE Goal
  <2>1. outbox' \in [Events -> Rec]
    BY <1>2 DEF TypeOK
  <2>2. \A e \in Events : Right(e, outbox'[e])
    BY <1>0, <1>2 DEF TypeOK
  <2>3. Events' = Events
    BY DEF Events
  <2> QED  BY <2>1, <2>2, <2>3 DEF RowsTrue
<1>3. ASSUME NEW t \in Ticks, MarkPublished(t)  PROVE Goal
  <2>1. tick[t].step = "publish" /\ tick[t].step # "idle"
    BY <1>3 DEF MarkPublished
  <2>2. PICK x \in Events : x = Head(tick[t].batch).event
    BY <2>1, InHand
  <2>3. Handed(x)'
    BY <2>1, <2>2, HandedStays DEF MarksTrue
  <2>4. PICK st \in OutboxStatus, at \in 0 .. MaxPublishAttempts : outbox[x] = [status |-> st, attempts |-> at]
    BY DEF TypeOK
  <2>5. [outbox[x] EXCEPT !.status = "PUBLISHED"] = [status |-> "PUBLISHED", attempts |-> at]
    BY <2>4
  <2>6. outbox' = [outbox EXCEPT ![x] = [status |-> "PUBLISHED", attempts |-> at]]
    BY <1>3, <2>2, <2>5 DEF MarkPublished
  <2>7. Right(x, [status |-> "PUBLISHED", attempts |-> at])
    BY <2>3, <2>4 DEF OutboxStatus
  <2> QED  BY <1>2, <2>6, <2>7
<1>4. ASSUME NEW t \in Ticks, RecordFailure(t)  PROVE Goal
  <2>1. tick[t].step # "idle"
    BY <1>4 DEF RecordFailure
  <2>2. PICK seen \in Row : seen = Head(tick[t].batch)
    BY <2>1, InHand
  <2>3. PICK made, x : made = seen.attempts + 1 /\ x = seen.event
    OBVIOUS
  <2>4. made \in 0 .. MaxPublishAttempts /\ x \in Events
    BY <2>2, <2>3, RowsAreSeen
  <2>5. outbox' = [outbox EXCEPT ![x] = [status |-> StatusAfter(made), attempts |-> made]]
    BY <1>4, <2>2, <2>3 DEF RecordFailure
  <2>6. /\ StatusAfter(made) \in {"FAILED", "PENDING"}
        /\ StatusAfter(made) = "PENDING" => ~(made >= MaxPublishAttempts)
    BY DEF StatusAfter
  <2>7. StatusAfter(made) = "PENDING" => made < MaxPublishAttempts
    BY <2>4, <2>6, Constants
  <2>8. PICK st : st = StatusAfter(made)
    OBVIOUS
  <2>9. Right(x, [status |-> st, attempts |-> made])
    BY <2>4, <2>6, <2>7, <2>8 DEF OutboxStatus
  <2> QED  BY <1>2, <2>4, <2>5, <2>8, <2>9
<1>5. ASSUME NEW t \in Ticks, TickStep(t) \/ TickLost(t)  PROVE Goal
  BY <1>1, <1>3, <1>4, <1>5 DEF TickStep, TickLost, Poll, Enqueue, EnqueueFails, MarkFails
<1>6. ASSUME NEW w \in Workers, WorkerStep(w) \/ WorkerLost(w)  PROVE Goal
  BY <1>1, <1>6 DEF WorkerStep, WorkerLost, Take, Check, Handle, FollowUp, MarkProcessed, Complete, Throw
<1>7. CASE WriteEvent \/ (\E e \in Events : Stall(e) \/ RemoveCompleted(e)) \/ UNCHANGED vars
  BY <1>1, <1>7 DEF WriteEvent, vars, Stall, RemoveCompleted
<1> QED  BY <1>5, <1>6, <1>7 DEF Next

\* A tick marks nothing that it did not hand to the queue.
LEMMA MarksStep ==
  ASSUME TypeOK, TicksOK, MarksTrue, CompletedMeansHandled, HistoryGrows,
         \A e \in Events : MayBecome(e, job'[e]),
         \A t \in Ticks : \/ tick'[t] = tick[t]
                          \/ tick'[t].step # "publish"
                          \/ Enqueue(t) /\ tick'[t].batch = tick[t].batch
  PROVE  MarksTrue'
<1> DEFINE Will(x) == job'[x].state # "none" \/ effects'[x] > 0
<1> SUFFICES ASSUME NEW t \in Ticks, tick'[t].step = "publish"
             PROVE  Will(Head(tick'[t].batch).event)
  BY DEF MarksTrue, Handed
<1>1. CASE tick'[t] = tick[t]
  <2>1. tick[t].step = "publish" /\ tick[t].step # "idle"
    BY <1>1
  <2>2. PICK x \in Events : x = Head(tick[t].batch).event
    BY <2>1, InHand
  <2>3. Handed(x)'
    BY <2>1, <2>2, HandedStays DEF MarksTrue
  <2>4. Will(x)
    BY <2>3 DEF Handed
  <2>5. x = Head(tick'[t].batch).event
    BY <1>1, <2>2
  <2> QED  BY <2>4, <2>5
<1>2. CASE Enqueue(t) /\ tick'[t].batch = tick[t].batch
  <2>1. tick[t].step # "idle"
    BY <1>2 DEF Enqueue
  <2>2. PICK x \in Events : x = Head(tick[t].batch).event
    BY <2>1, InHand
  <2>3. job' = Added(x)
    BY <1>2, <2>2 DEF Enqueue
  <2>4. job'[x].state # "none"
    <3>1. CASE job[x].state = "none"
      <4>1. job'[x] = [NoJob EXCEPT !.state = "waiting"]
        BY <2>3, <3>1 DEF Added, TypeOK
      <4> QED  BY <4>1 DEF NoJob
    <3>2. CASE job[x].state # "none"
      BY <2>3, <3>2 DEF Added
    <3> QED  BY <3>1, <3>2
  <2> QED  BY <1>2, <2>2, <2>4
<1> QED  BY <1>1, <1>2

\* The bounds of the events written and of the crashes.
LEMMA CountersStep ==
  ASSUME TypeOK, [Next]_vars
  PROVE  written' \in 0 .. MaxEvents /\ crashes' \in 0 .. MaxCrashes
<1>1. written \in 0 .. MaxEvents /\ crashes \in 0 .. MaxCrashes
  BY DEF TypeOK
<1>2. CASE WriteEvent
  <2>1. written' = written + 1 /\ written < MaxEvents /\ crashes' = crashes
    BY <1>2 DEF WriteEvent
  <2> QED  BY <1>1, <2>1, Constants
<1>3. CASE (\E t \in Ticks : TickLost(t)) \/ (\E w \in Workers : WorkerLost(w))
  <2>1. crashes' = crashes + 1 /\ crashes < MaxCrashes /\ written' = written
    BY <1>3 DEF TickLost, WorkerLost
  <2> QED  BY <1>1, <2>1, Constants
<1>4. CASE UNCHANGED <<written, crashes>>
  BY <1>1, <1>4
<1>5. ASSUME NEW t \in Ticks, TickStep(t)  PROVE UNCHANGED <<written, crashes>>
  BY <1>5 DEF TickStep, Poll, Enqueue, EnqueueFails, MarkPublished, MarkFails, RecordFailure
<1>6. ASSUME NEW w \in Workers, WorkerStep(w)  PROVE UNCHANGED <<written, crashes>>
  BY <1>6 DEF WorkerStep, Take, Check, Handle, FollowUp, MarkProcessed, Complete, Throw
<1>7. CASE (\E e \in Events : Stall(e) \/ RemoveCompleted(e)) \/ UNCHANGED vars
  BY <1>4, <1>7 DEF vars, Stall, RemoveCompleted
<1> QED  BY <1>2, <1>3, <1>4, <1>5, <1>6, <1>7 DEF Next

-----------------------------------------------------------------------------
(* The theorems *)

\* The inductive invariant holds.
THEOREM Invariance == Spec => []IInv
<1>1. Init => IInv
  <2> SUFFICES ASSUME Init  PROVE IInv
    OBVIOUS
  <2>0. /\ 0 \in 0 .. MaxEvents /\ 0 \in 0 .. MaxCrashes /\ 0 \in 0 .. MaxPublishAttempts /\ 0 \in 0 .. MaxJobAttempts
        /\ 0 < MaxPublishAttempts /\ 0 < MaxJobAttempts /\ 0 <= BatchSize /\ 0 \in Nat
    BY Constants
  <2>1. <<>> \in Seq(Seen) /\ <<>> \in Seq(Row) /\ Len(<<>>) <= BatchSize
    BY <2>0, EmptySeq
  <2>2. outbox \in [Events -> [status : OutboxStatus, attempts : 0 .. MaxPublishAttempts]] /\ RowsTrue
    BY <2>0 DEF Init, OutboxStatus, RowsTrue
  <2>3. TicksOK /\ MarksTrue
    <3>1. IdleTick \in [step : TickSteps, batch : Seq(Seen)]
      BY <2>1 DEF IdleTick, TickSteps
    <3> QED  BY <2>1, <3>1 DEF Init, TicksOK, IdleTick, MarksTrue, BatchesOfRows
  <2>4. /\ job \in [Events -> Job] /\ JobsLeft
        /\ \A e \in Events : job[e].state = "none"
    <3>1. NoJob \in Job
      BY <2>0 DEF NoJob, Job, JobState
    <3> QED  BY <2>0, <3>1 DEF Init, NoJob, JobsLeft
  <2>5. worker \in [Workers -> [step : WorkerSteps, event : 0 .. MaxEvents]] /\ WorkersTrue
    BY <2>0 DEF Init, IdleWorker, WorkerSteps, WorkersTrue
  <2>6. effects \in [Events -> Nat] /\ followed \in [Events -> Nat] /\ processed = {}
    BY <2>0 DEF Init
  <2>7. TypeOK
    BY <2>0, <2>2, <2>3, <2>4, <2>5, <2>6 DEF TypeOK, TicksOK, Job, Init
  <2>8. CompletedMeansHandled
    BY <2>4, <2>6 DEF CompletedMeansHandled
  <2> QED  BY <2>2, <2>3, <2>4, <2>5, <2>7, <2>8 DEF IInv, TicksOK
<1>2. IInv /\ [Next]_vars => IInv'
  <2> SUFFICES ASSUME IInv, [Next]_vars  PROVE IInv'
    OBVIOUS
  <2>0. /\ TypeOK /\ TicksOK /\ RowsTrue /\ MarksTrue /\ JobsLeft /\ WorkersTrue /\ CompletedMeansHandled
    BY DEF IInv, TicksOK, TypeOK
  <2>1. /\ TicksOK'
        /\ \A t \in Ticks : \/ tick'[t] = tick[t]
                            \/ tick'[t].step # "publish"
                            \/ Enqueue(t) /\ tick'[t].batch = tick[t].batch
    BY <2>0, TickStepOK
  <2>2. /\ job' \in [Events -> Job]
        /\ \A e \in Events : MayBecome(e, job'[e])
    BY <2>0, JobStep
  <2>3. HistoryGrows
    BY <2>0, HistoryStep
  <2>4. worker' \in [Workers -> [step : WorkerSteps, event : 0 .. MaxEvents]] /\ WorkersTrue'
    BY <2>0, <2>3, WorkerStepOK
  <2>5. outbox' \in [Events -> [status : OutboxStatus, attempts : 0 .. MaxPublishAttempts]] /\ RowsTrue'
    BY <2>0, <2>2, <2>3, OutboxStep
  <2>6. MarksTrue'
    BY <2>0, <2>1, <2>2, <2>3, MarksStep
  <2>7. CompletedMeansHandled'
    BY <2>0, <2>2, <2>3, CompletedStep
  <2>8. JobsLeft'
    BY <2>2 DEF MayBecome, JobsLeft, Events
  <2>9. TypeOK'
    BY <2>0, <2>1, <2>2, <2>3, <2>4, <2>5, CountersStep DEF TypeOK, TicksOK, Job, HistoryGrows, Events, Seen
  <2> QED  BY <2>1, <2>4, <2>5, <2>6, <2>7, <2>8, <2>9 DEF IInv, TicksOK
<1> QED  BY <1>1, <1>2, PTL DEF Spec

\* The tables, the queue, the ticks and the workers keep their types.
THEOREM TypeCorrect == Spec => []TypeOK
<1>1. IInv => TypeOK
  BY DEF IInv
<1> QED  BY <1>1, Invariance, PTL

\* No event is lost in silence, whatever the ticks, workers and crashes do.
THEOREM NothingLost == Spec => []NothingLostInSilence
<1>1. IInv => NothingLostInSilence
  <2> SUFFICES ASSUME IInv, NEW e \in 1 .. written
               PROVE  e \in Pending \/ Queued(e) \/ effects[e] > 0 \/ GivenUp(e)
    BY DEF NothingLostInSilence
  <2>1. e \in Events
    BY Constants DEF IInv, TypeOK, Events
  <2>2. outbox[e].status \in OutboxStatus /\ job[e].state \in JobState
    BY <2>1 DEF IInv, TypeOK
  <2>3. /\ outbox[e].status = "PENDING" => e \in Pending
        /\ outbox[e].status = "PUBLISHED" => Handed(e)
    BY <2>1 DEF IInv, RowsTrue, Pending
  <2>4. job[e].state = "completed" => effects[e] > 0
    BY <2>1 DEF IInv, CompletedMeansHandled
  <2> QED  BY <2>2, <2>3, <2>4 DEF OutboxStatus, JobState, Handed, Queued, GivenUp
<1> QED  BY <1>1, Invariance, PTL

\* No job completes, and no event goes on record as processed, before its
\* handler and its follow-up event.
THEOREM NothingSkipped == Spec => []CompletedMeansHandled
<1>1. IInv => CompletedMeansHandled
  BY DEF IInv
<1> QED  BY <1>1, Invariance, PTL

=============================================================================
