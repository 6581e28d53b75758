---------------------------- MODULE OutboxProofs ----------------------------
(***************************************************************************)
(* Proofs about Outbox, for every number of events, replicas, workers,     *)
(* copies and failures.  A publication is safe because a row is marked     *)
(* only when nothing of it is left to send; a handler's writes take effect *)
(* once because the marker that guards them is committed with them.        *)
(***************************************************************************)
EXTENDS Outbox, TLAPS

\* The oldest rows of a set are rows of that set.
LEMMA EarliestWithin == \A S, n : Earliest(S, n) \subseteq S
BY DEF Earliest

\* Counting up to MaxCopies stays below it, and loses no message.
LEMMA EnqueueKeeps ==
  ASSUME NEW S \in SUBSET Events, copies \in [Events -> 0..MaxCopies], Enqueue(S)
  PROVE  /\ copies' \in [Events -> 0..MaxCopies]
         /\ \A e \in Events : copies'[e] >= copies[e]
         /\ \A e \in S : copies'[e] > 0
         /\ \A e \in Events \ S : copies'[e] = copies[e]
BY BoundsAssumption DEF Enqueue

---------------------------------------------------------------------------
(* The inductive invariant. *)

Reached(e) == e \in processed \/ copies[e] > 0 \/ e \in dead

\* Every row in a relay's hands was committed, and what a publishing relay has
\* no longer left has reached the queue.
RelaysHold ==
  \A r \in Relays :
    /\ relay[r].rows \subseteq committed /\ relay[r].left \subseteq relay[r].rows
    /\ relay[r].does = "publish" =>
         \A e \in relay[r].rows \ relay[r].left : Reached(e)

\* The queue, the dead letters and the ledger hold nothing that was not committed.
OnlyCommitted ==
  /\ \A e \in Events : copies[e] > 0 => e \in committed
  /\ dead \subseteq committed /\ processed \subseteq committed

\* A worker handles an event nobody has handled, alone, and deletes only what
\* was handled.
WorkersHold ==
  \A w \in Workers :
    /\ worker[w].does # "nothing" => worker[w].event \in committed
    /\ worker[w].does = "delete" => worker[w].event \in processed
    /\ worker[w].does = "handle" =>
         /\ worker[w].event \notin processed
         /\ \A v \in Workers : worker[v].does = "handle" /\ v # w =>
              worker[v].event # worker[w].event

\* The ledger and the writes say the same.
LedgerTells == \A e \in Events : applied[e] = IF e \in processed THEN 1 ELSE 0

OutboxInv == /\ TypeOK /\ RelaysHold /\ SentIsSomewhere /\ ClaimsAreApart
             /\ OnlyCommitted /\ WorkersHold /\ LedgerTells

\* It holds before anything was committed.
LEMMA InvInit == Init => OutboxInv
<1> SUFFICES ASSUME Init PROVE OutboxInv
  OBVIOUS
<1> USE DEF Init, Idle, Free
<1>1. TypeOK
  BY BoundsAssumption DEF TypeOK
<1>2. RelaysHold /\ SentIsSomewhere /\ ClaimsAreApart
  BY DEF RelaysHold, SentIsSomewhere, ClaimsAreApart
<1>3. OnlyCommitted /\ WorkersHold /\ LedgerTells
  BY DEF OnlyCommitted, WorkersHold, LedgerTells
<1> QED
  BY <1>1, <1>2, <1>3 DEF OutboxInv

---------------------------------------------------------------------------
(* Steps of the producing side. *)

RelayType == [does : {"nothing", "publish", "count"},
              rows : SUBSET Events, left : SUBSET Events]

\* A step of one relay that leaves the consumer alone keeps the invariant when
\* what the relay then holds is right, and no message is lost.
LEMMA RelayStep ==
  ASSUME OutboxInv, NEW r \in Relays, NEW after \in RelayType,
         relay' = [relay EXCEPT ![r] = after],
         UNCHANGED <<committed, receives, dead, consumer>>,
         sent' \subseteq committed, attempts' \in [Events -> Nat],
         copies' \in [Events -> 0..MaxCopies], faults' \in 0..MaxFaults,
         \A e \in Events : copies'[e] >= copies[e],
         \A e \in Events : copies'[e] > 0 => e \in committed,
         \A e \in sent' \ sent : Reached(e),
         after.rows \subseteq committed, after.left \subseteq after.rows,
         after.does = "publish" =>
           /\ \A e \in after.rows \ after.left : Reached(e) \/ copies'[e] > 0
           /\ \A q \in Relays \ {r} : relay[q].does = "publish" =>
                after.rows \cap relay[q].rows = {}
  PROVE  OutboxInv'
<1> USE DEF OutboxInv, consumer
<1>1. TypeOK'
  BY DEF TypeOK, RelayType
<1>2. relay'[r] = after /\ \A q \in Relays \ {r} : relay'[q] = relay[q]
  BY DEF TypeOK
<1>3. \A e \in Events : Reached(e) => Reached(e)'
  BY DEF Reached, TypeOK
<1>4. RelaysHold'
  <2> SUFFICES ASSUME NEW q \in Relays
      PROVE  /\ relay'[q].rows \subseteq committed /\ relay'[q].left \subseteq relay'[q].rows
             /\ relay'[q].does = "publish" =>
                  \A e \in relay'[q].rows \ relay'[q].left : Reached(e)'
    BY DEF RelaysHold
  <2>1. CASE q = r
    BY <1>2, <1>3, <2>1 DEF Reached, RelayType
  <2>2. CASE q # r
    BY <1>2, <1>3, <2>2 DEF RelaysHold, TypeOK, RelayType
  <2> QED
    BY <2>1, <2>2
<1>5. SentIsSomewhere'
  BY <1>3 DEF SentIsSomewhere, Reached, TypeOK
<1>6. ClaimsAreApart'
  BY <1>2 DEF ClaimsAreApart
<1>7. OnlyCommitted' /\ WorkersHold' /\ LedgerTells'
  BY DEF OnlyCommitted, WorkersHold, LedgerTells
<1> QED
  BY <1>1, <1>4, <1>5, <1>6, <1>7

\* Relaying keeps the invariant: one step per thing a relay does.
LEMMA InvRelaying ==
  ASSUME OutboxInv, NEW r \in Relays,
    \/ Claim(r) \/ Publish(r) \/ PublishFails(r) \/ Mark(r)
    \/ CountAttempt(r) \/ RelayDies(r)
  PROVE OutboxInv'
<1> USE DEF OutboxInv
<1>1. Idle \in RelayType /\ Idle.rows = {} /\ Idle.left = {} /\ Idle.does = "nothing"
  BY DEF Idle, RelayType
<1>2. relay[r] \in RelayType /\ relay[r].rows \subseteq committed
      /\ relay[r].left \subseteq relay[r].rows /\ committed \subseteq Events
  BY DEF TypeOK, RelayType, RelaysHold
<1>3. /\ sent \subseteq committed /\ attempts \in [Events -> Nat]
      /\ copies \in [Events -> 0..MaxCopies] /\ faults \in 0..MaxFaults
      /\ \A e \in Events : copies[e] > 0 => e \in committed
      /\ \A e \in Events : copies[e] >= copies[e]
  BY BoundsAssumption DEF TypeOK, OnlyCommitted
<1>4. CASE Claim(r)
  <2> DEFINE rows == Earliest(Unsent \ Locked, BatchSize)
             after == [does |-> "publish", rows |-> rows, left |-> rows]
  <2>1. rows \subseteq committed /\ rows \cap Locked = {}
    BY EarliestWithin DEF Unsent
  <2>2. \A q \in Relays \ {r} : relay[q].does = "publish" => rows \cap relay[q].rows = {}
    BY <2>1 DEF Locked
  <2>3. relay' = [relay EXCEPT ![r] = after] /\ after \in RelayType
    BY <1>2, <1>4, <2>1 DEF Claim, RelayType
  <2>4. UNCHANGED <<committed, sent, attempts, receives, dead, copies, consumer, faults>>
    BY <1>4 DEF Claim, queue
  <2> HIDE DEF rows
  <2> QED
    BY <1>2, <1>3, <2>1, <2>2, <2>3, <2>4, RelayStep
<1>5. CASE Publish(r)
  <2> DEFINE chunk == Earliest(relay[r].left, ChunkSize)
             after == IF chunk \cap Refused = {}
                        THEN [relay[r] EXCEPT !.left = @ \ chunk]
                        ELSE [relay[r] EXCEPT !.does = "count"]
  <2>1. chunk \subseteq relay[r].left
    BY EarliestWithin
  <2>2. chunk \ Refused \in SUBSET Events /\ chunk \ Refused \subseteq committed
    BY <1>2, <2>1
  <2>3. Enqueue(chunk \ Refused)
    BY <1>5 DEF Publish
  <2>4. /\ copies' \in [Events -> 0..MaxCopies]
        /\ \A e \in Events : copies'[e] >= copies[e]
        /\ \A e \in chunk \ Refused : copies'[e] > 0
        /\ \A e \in Events \ (chunk \ Refused) : copies'[e] = copies[e]
    BY <1>3, <2>2, <2>3, EnqueueKeeps
  <2> HIDE DEF chunk
  <2>5. \A e \in Events : copies'[e] > 0 => e \in committed
    BY <1>3, <2>2, <2>4
  <2>6. relay' = [relay EXCEPT ![r] = after]
    BY <1>5 DEF Publish, chunk
  <2>7. after \in RelayType /\ after.rows = relay[r].rows /\ after.left \subseteq after.rows
    BY <1>2 DEF RelayType
  <2>8. after.does = "publish" =>
          /\ chunk \cap Refused = {} /\ after.left = relay[r].left \ chunk
          /\ relay[r].does = "publish"
    BY <1>2, <1>5 DEF Publish, RelayType
  <2>9. after.does = "publish" =>
          /\ \A e \in after.rows \ after.left : Reached(e) \/ copies'[e] > 0
          /\ \A q \in Relays \ {r} : relay[q].does = "publish" =>
               after.rows \cap relay[q].rows = {}
    BY <2>4, <2>7, <2>8 DEF RelaysHold, ClaimsAreApart
  <2>10. UNCHANGED <<committed, sent, attempts, receives, dead, consumer, faults>>
    BY <1>5 DEF Publish
  <2> HIDE DEF after
  <2> QED
    BY <1>2, <1>3, <2>4, <2>5, <2>6, <2>7, <2>9, <2>10, RelayStep
<1>6. CASE PublishFails(r)
  <2>1. PICK taken \in SUBSET Earliest(relay[r].left, ChunkSize) : Enqueue(taken \ Refused)
    BY <1>6 DEF PublishFails
  <2>2. taken \ Refused \in SUBSET Events /\ taken \ Refused \subseteq committed
    BY <1>2, EarliestWithin
  <2>3. /\ copies' \in [Events -> 0..MaxCopies]
        /\ \A e \in Events : copies'[e] >= copies[e]
        /\ \A e \in Events \ (taken \ Refused) : copies'[e] = copies[e]
    BY <1>3, <2>1, <2>2, EnqueueKeeps
  <2>4. \A e \in Events : copies'[e] > 0 => e \in committed
    BY <1>3, <2>2, <2>3
  <2> DEFINE after == [relay[r] EXCEPT !.does = "count"]
  <2>5. /\ relay' = [relay EXCEPT ![r] = after] /\ after \in RelayType
        /\ after.rows = relay[r].rows /\ after.left = relay[r].left /\ after.does = "count"
    BY <1>2, <1>6 DEF PublishFails, RelayType
  <2>6. UNCHANGED <<committed, sent, attempts, receives, dead, consumer>> /\ faults' \in 0..MaxFaults
    BY <1>3, <1>6, BoundsAssumption DEF PublishFails, Fault
  <2> HIDE DEF after
  <2> QED
    BY <1>2, <1>3, <2>3, <2>4, <2>5, <2>6, RelayStep
<1>7. CASE Mark(r)
  <2>1. \A e \in relay[r].rows : Reached(e)
    BY <1>7 DEF Mark, RelaysHold
  <2>2. /\ relay' = [relay EXCEPT ![r] = Idle] /\ sent' = sent \cup relay[r].rows
        /\ UNCHANGED <<committed, attempts, receives, dead, copies, consumer, faults>>
    BY <1>7 DEF Mark, queue
  <2> QED
    BY <1>1, <1>2, <1>3, <2>1, <2>2, RelayStep
<1>8. CASE CountAttempt(r)
  <2>1. attempts' \in [Events -> Nat]
    BY <1>3, <1>8 DEF CountAttempt
  <2>2. /\ relay' = [relay EXCEPT ![r] = Idle]
        /\ UNCHANGED <<committed, sent, receives, dead, copies, consumer, faults>>
    BY <1>8 DEF CountAttempt, queue
  <2> QED
    BY <1>1, <1>2, <1>3, <2>1, <2>2, RelayStep
<1>9. CASE RelayDies(r)
  <2>1. faults' \in 0..MaxFaults
    BY <1>3, <1>9, BoundsAssumption DEF RelayDies, Fault
  <2>2. /\ relay' = [relay EXCEPT ![r] = Idle]
        /\ UNCHANGED <<committed, sent, attempts, receives, dead, copies, consumer>>
    BY <1>9 DEF RelayDies, queue
  <2> QED
    BY <1>1, <1>2, <1>3, <2>1, <2>2, RelayStep
<1> QED
  BY <1>4, <1>5, <1>6, <1>7, <1>8, <1>9

---------------------------------------------------------------------------
(* Steps of the consuming side, and of the queue. *)

\* A service's commit only adds a row nobody has claimed.
LEMMA InvCommit == ASSUME OutboxInv, NEW e \in Events, Commit(e) PROVE OutboxInv'
<1> USE DEF OutboxInv, Commit, queue, consumer
<1>1. TypeOK'
  BY DEF TypeOK
<1>2. RelaysHold' /\ SentIsSomewhere' /\ ClaimsAreApart'
  BY DEF RelaysHold, SentIsSomewhere, ClaimsAreApart, Reached
<1>3. OnlyCommitted' /\ WorkersHold' /\ LedgerTells'
  BY DEF OnlyCommitted, WorkersHold, LedgerTells
<1> QED
  BY <1>1, <1>2, <1>3

\* What the queue does by itself moves messages; it loses none.
LEMMA InvQueue ==
  ASSUME OutboxInv, NEW e \in Events, DeadLetter(e) \/ Redrive(e) PROVE OutboxInv'
<1> USE DEF OutboxInv, DeadLetter, Redrive, producer, consumer
<1>1. TypeOK'
  BY BoundsAssumption DEF TypeOK
<1>2. \A d \in Events : Reached(d) => Reached(d)'
  BY DEF Reached, TypeOK
<1>3. RelaysHold'
  BY <1>2 DEF RelaysHold, TypeOK
<1>4. SentIsSomewhere' /\ ClaimsAreApart'
  BY <1>2 DEF SentIsSomewhere, ClaimsAreApart, Reached, TypeOK
<1>5. OnlyCommitted'
  BY DEF OnlyCommitted, TypeOK
<1>6. WorkersHold' /\ LedgerTells'
  BY DEF WorkersHold, LedgerTells
<1> QED
  BY <1>1, <1>3, <1>4, <1>5, <1>6

WorkerType == [does : {"nothing", "dispatch", "handle", "delete"},
               event : Events \cup {-1}]

\* A step of one worker that writes nothing to the ledger keeps the invariant
\* when what the worker then does is right, and it loses no message that was
\* not handled.
LEMMA WorkerStep ==
  ASSUME OutboxInv, NEW w \in Workers, NEW after \in WorkerType,
         worker' = [worker EXCEPT ![w] = after],
         UNCHANGED <<producer, dead, processed, applied>>,
         copies' \in [Events -> 0..MaxCopies],
         receives' \in [Events -> 0..MaxReceives], faults' \in 0..MaxFaults,
         \A e \in Events : copies'[e] > 0 => e \in committed,
         \A e \in Events \ processed : copies'[e] = copies[e],
         after.does # "nothing" => after.event \in committed,
         after.does = "delete" => after.event \in processed,
         after.does = "handle" =>
           /\ after.event \notin processed
           /\ \A v \in Workers \ {w} : worker[v].does = "handle" => worker[v].event # after.event
  PROVE  OutboxInv'
<1> USE DEF OutboxInv, producer
<1>1. worker'[w] = after /\ \A v \in Workers \ {w} : worker'[v] = worker[v]
  BY DEF TypeOK
<1>2. TypeOK'
  <2>1. worker' \in [Workers -> WorkerType]
    BY DEF TypeOK, WorkerType
  <2>2. \A v \in Workers : worker'[v].does # "nothing" => worker'[v].event \in Events
    BY <1>1 DEF TypeOK
  <2> QED
    BY <2>1, <2>2 DEF TypeOK, WorkerType
<1>3. \A e \in Events : Reached(e) => Reached(e)'
  BY DEF Reached, TypeOK
<1>4. RelaysHold'
  BY <1>3 DEF RelaysHold, TypeOK
<1>5. SentIsSomewhere' /\ ClaimsAreApart'
  BY <1>3 DEF SentIsSomewhere, ClaimsAreApart, Reached, TypeOK
<1>6. OnlyCommitted' /\ LedgerTells'
  BY DEF OnlyCommitted, LedgerTells
<1>7. WorkersHold'
  <2> SUFFICES ASSUME NEW u \in Workers
      PROVE  /\ worker'[u].does # "nothing" => worker'[u].event \in committed
             /\ worker'[u].does = "delete" => worker'[u].event \in processed
             /\ worker'[u].does = "handle" =>
                  /\ worker'[u].event \notin processed
                  /\ \A v \in Workers : worker'[v].does = "handle" /\ v # u =>
                       worker'[v].event # worker'[u].event
    BY DEF WorkersHold
  <2>1. CASE u = w
    BY <1>1, <2>1
  <2>2. CASE u # w
    BY <1>1, <2>2 DEF WorkersHold
  <2> QED
    BY <2>1, <2>2
<1> QED
  BY <1>2, <1>4, <1>5, <1>6, <1>7

\* The handler's transaction writes the marker and the rest together; no other
\* worker is handling that event, so the marker is new.
LEMMA InvCommitHandler ==
  ASSUME OutboxInv, NEW w \in Workers, CommitHandler(w)
  PROVE  OutboxInv' /\ worker[w].event \in committed /\ worker[w].event \notin processed
<1> USE DEF OutboxInv, CommitHandler, producer, queue
<1> DEFINE e == worker[w].event
<1>1. e \in committed /\ e \notin processed /\ e \in Events /\ committed \subseteq Events
      /\ worker[w].does = "handle"
  BY DEF WorkersHold, TypeOK
<1>2. worker' = [worker EXCEPT ![w].does = "delete"] /\ worker \in [Workers -> WorkerType]
  BY DEF TypeOK, WorkerType
<1>3. /\ worker'[w].does = "delete" /\ worker'[w].event = e
      /\ \A v \in Workers \ {w} : worker'[v] = worker[v]
      /\ worker' \in [Workers -> WorkerType]
  BY <1>2 DEF WorkerType
<1>4. TypeOK'
  <2>1. \A v \in Workers : worker'[v].does # "nothing" => worker'[v].event \in Events
    BY <1>1, <1>3 DEF TypeOK
  <2> QED
    BY <1>1, <1>3, <2>1 DEF TypeOK, WorkerType
<1>5. \A d \in Events : Reached(d) => Reached(d)'
  BY DEF Reached
<1>6. RelaysHold' /\ SentIsSomewhere' /\ ClaimsAreApart'
  BY <1>5 DEF RelaysHold, SentIsSomewhere, ClaimsAreApart, Reached, TypeOK
<1>7. OnlyCommitted' /\ LedgerTells'
  BY <1>1 DEF OnlyCommitted, LedgerTells, TypeOK
<1>8. WorkersHold'
  BY <1>1, <1>3 DEF WorkersHold
<1> QED
  BY <1>1, <1>4, <1>6, <1>7, <1>8

\* Consuming keeps the invariant: one step per thing a worker does.
LEMMA InvConsuming ==
  ASSUME OutboxInv, NEW w \in Workers,
    \/ \E e \in Events : Receive(w, e)
    \/ Begin(w) \/ WorkerFails(w) \/ Delete(w)
  PROVE OutboxInv'
<1> USE DEF OutboxInv
<1>1. Free \in WorkerType /\ Free.does = "nothing"
  BY DEF Free, WorkerType
<1>2. /\ worker[w] \in WorkerType /\ committed \subseteq Events
      /\ copies \in [Events -> 0..MaxCopies] /\ receives \in [Events -> 0..MaxReceives]
      /\ faults \in 0..MaxFaults /\ \A e \in Events : copies[e] > 0 => e \in committed
  BY DEF TypeOK, WorkerType, OnlyCommitted
<1>3. ASSUME NEW e \in Events, Receive(w, e) PROVE OutboxInv'
  <2> DEFINE after == [does |-> "dispatch", event |-> e]
  <2>1. after \in WorkerType /\ after.does = "dispatch" /\ after.event \in committed
    BY <1>2, <1>3 DEF Receive, WorkerType
  <2>2. receives' \in [Events -> 0..MaxReceives]
    BY <1>2, <1>3, BoundsAssumption DEF Receive
  <2>3. /\ worker' = [worker EXCEPT ![w] = after]
        /\ UNCHANGED <<producer, copies, dead, processed, applied, faults>>
    BY <1>3 DEF Receive
  <2> HIDE DEF after
  <2> QED
    BY <1>2, <2>1, <2>2, <2>3, WorkerStep
<1>4. CASE Begin(w)
  <2> DEFINE after == [worker[w] EXCEPT !.does =
                         IF worker[w].event \in processed THEN "delete" ELSE "handle"]
  <2>1. after \in WorkerType /\ after.event = worker[w].event
        /\ after.does = (IF worker[w].event \in processed THEN "delete" ELSE "handle")
    BY <1>2 DEF WorkerType
  <2>2. after.event \in committed
    BY <1>4, <2>1 DEF Begin, WorkersHold
  <2>3. after.does = "handle" =>
          /\ after.event \notin processed
          /\ \A v \in Workers \ {w} : worker[v].does = "handle" => worker[v].event # after.event
    BY <1>4, <2>1 DEF Begin
  <2>4. /\ worker' = [worker EXCEPT ![w] = after]
        /\ UNCHANGED <<producer, copies, receives, dead, processed, applied, faults>>
    BY <1>4 DEF Begin, queue
  <2>5. after.does = "delete" => after.event \in processed
    BY <2>1
  <2> HIDE DEF after
  <2> QED
    BY <1>2, <2>1, <2>2, <2>3, <2>4, <2>5, WorkerStep
<1>5. CASE WorkerFails(w)
  <2>1. faults' \in 0..MaxFaults
    BY <1>2, <1>5, BoundsAssumption DEF WorkerFails, Fault
  <2>2. /\ worker' = [worker EXCEPT ![w] = Free]
        /\ UNCHANGED <<producer, copies, receives, dead, processed, applied>>
    BY <1>5 DEF WorkerFails, queue
  <2> QED
    BY <1>1, <1>2, <2>1, <2>2, WorkerStep
<1>6. CASE Delete(w)
  <2>1. worker[w].event \in processed
    BY <1>6 DEF Delete, WorkersHold
  <2>2. /\ worker' = [worker EXCEPT ![w] = Free]
        /\ UNCHANGED <<producer, receives, dead, processed, applied, faults>>
        /\ copies' = [copies EXCEPT ![worker[w].event] = IF @ > 0 THEN @ - 1 ELSE 0]
    BY <1>6 DEF Delete
  <2>3. copies' \in [Events -> 0..MaxCopies] /\ \A e \in Events : copies'[e] > 0 => copies[e] > 0
    <3> DEFINE gone == worker[w].event
               fewer == IF copies[gone] > 0 THEN copies[gone] - 1 ELSE 0
    <3>1. gone \in Events /\ copies[gone] \in Nat /\ MaxCopies \in Nat /\ copies[gone] <= MaxCopies
      BY <1>2, <2>1, BoundsAssumption DEF TypeOK
    <3>2. fewer \in 0..MaxCopies /\ (fewer > 0 => copies[gone] > 0)
      BY <3>1
    <3>3. copies' = [copies EXCEPT ![gone] = fewer]
      BY <2>2
    <3> HIDE DEF gone, fewer
    <3> QED
      BY <1>2, <3>1, <3>2, <3>3
  <2>4. \A e \in Events \ processed : copies'[e] = copies[e]
    BY <1>2, <2>1, <2>2
  <2> QED
    BY <1>1, <1>2, <2>2, <2>3, <2>4, WorkerStep
<1> QED
  BY <1>3, <1>4, <1>5, <1>6

---------------------------------------------------------------------------
(* The theorems. *)

\* The invariant holds along every behaviour.
THEOREM OutboxInvariant == Spec => []OutboxInv
<1>1. Init => OutboxInv
  BY InvInit
<1>2. OutboxInv /\ [Next]_vars => OutboxInv'
  <2> SUFFICES ASSUME OutboxInv, [Next]_vars PROVE OutboxInv'
    OBVIOUS
  <2>1. CASE \E e \in Events : Commit(e) \/ DeadLetter(e) \/ Redrive(e)
    BY <2>1, InvCommit, InvQueue
  <2>2. CASE Relaying
    BY <2>2, InvRelaying DEF Relaying
  <2>3. CASE Consuming
    BY <2>3, InvConsuming, InvCommitHandler DEF Consuming
  <2>4. CASE UNCHANGED vars
    BY <2>4 DEF OutboxInv, TypeOK, RelaysHold, Reached, SentIsSomewhere,
         ClaimsAreApart, OnlyCommitted, WorkersHold, LedgerTells, vars
  <2> QED
    BY <2>1, <2>2, <2>3, <2>4 DEF Next
<1> QED
  BY <1>1, <1>2, PTL DEF Spec

\* Every variable keeps its type, for any number of rows, replicas and workers.
THEOREM OutboxTyped == Spec => []TypeOK
<1>1. OutboxInv => TypeOK
  BY DEF OutboxInv
<1> QED
  BY <1>1, OutboxInvariant, PTL

\* However many replicas relay, no row is published by two of them at a time.
THEOREM ClaimsStayApart == Spec => []ClaimsAreApart
<1>1. OutboxInv => ClaimsAreApart
  BY DEF OutboxInv
<1> QED
  BY <1>1, OutboxInvariant, PTL

\* A row marked as sent was handled, is on the queue, or is a dead letter:
\* whichever relay, worker or answer is lost, no event is.
THEOREM NothingIsLost == Spec => []SentIsSomewhere
<1>1. OutboxInv => SentIsSomewhere
  BY DEF OutboxInv
<1> QED
  BY <1>1, OutboxInvariant, PTL

\* Outbox, relay, queue and ledger together implement Delivery: an event's
\* writes take effect once, after its change has committed.
THEOREM DeliversOnce == Spec => AppliedOnce
<1>1. Init => Bus!Init
  BY DEF Init, Bus!Init
<1>2. OutboxInv /\ [Next]_vars => [Bus!Next]_<<committed, applied>>
  <2> SUFFICES ASSUME OutboxInv, [Next]_vars
      PROVE  Bus!Next \/ UNCHANGED <<committed, applied>>
    BY DEF Bus!Next
  <2>1. ASSUME NEW e \in Events, Commit(e) PROVE Bus!Next
    BY <2>1 DEF Commit, consumer, Bus!Next, Bus!Commit
  <2>2. ASSUME NEW w \in Workers, CommitHandler(w) PROVE Bus!Next
    <3> DEFINE e == worker[w].event
    <3>1. e \in committed /\ e \notin processed /\ e \in Events
      BY <2>2, InvCommitHandler DEF OutboxInv, TypeOK
    <3>2. applied[e] = 0
      BY <3>1 DEF OutboxInv, LedgerTells
    <3>3. applied' = [applied EXCEPT ![e] = 1]
      BY <2>2, <3>2 DEF CommitHandler
    <3> QED
      BY <2>2, <3>1, <3>2, <3>3 DEF CommitHandler, producer, Bus!Next, Bus!Apply
  <2>3. ASSUME NEW e \in Events, DeadLetter(e) \/ Redrive(e)
        PROVE  UNCHANGED <<committed, applied>>
    BY <2>3 DEF DeadLetter, Redrive, producer, consumer
  <2>4. CASE Relaying
    BY <2>4 DEF Relaying, Claim, Publish, PublishFails, Mark, CountAttempt, RelayDies, consumer
  <2>5. ASSUME NEW w \in Workers,
               (\E e \in Events : Receive(w, e)) \/ Begin(w) \/ WorkerFails(w) \/ Delete(w)
        PROVE  UNCHANGED <<committed, applied>>
    BY <2>5 DEF Receive, Begin, WorkerFails, Delete, producer
  <2>6. CASE UNCHANGED vars
    BY <2>6 DEF vars
  <2> QED
    BY <2>1, <2>2, <2>3, <2>4, <2>5, <2>6 DEF Next, Consuming
<1> QED
  BY <1>1, <1>2, OutboxInvariant, PTL DEF Spec, Bus!Spec, AppliedOnce
=============================================================================
