------------------------------- MODULE Outbox -------------------------------
(***************************************************************************)
(* How an event travels from one service's transaction to another's: the   *)
(* outbox table, the relay of every replica, the bus, the consumer's queue *)
(* with its dead letters, and the ledger of processed events               *)
(* (cappy_common/events.py).                                               *)
(*                                                                         *)
(* An event is a number, the order of created_at; it may commit later than *)
(* one created after it.  SNS and SQS are external: a message may come     *)
(* more than once and in any order.  Every failure (an unanswered publish, *)
(* a replica or a worker that dies, a handler that raises) is drawn from   *)
(* the budget MaxFaults, so that what must happen is not put off for ever. *)
(***************************************************************************)
EXTENDS Integers, FiniteSets

CONSTANTS
  Events,        \* numbers: the order of created_at
  Refused,       \* events the bus never accepts
  Relays,        \* replicas of the producing service
  Workers,       \* messages the consumer handles at once
  BatchSize,     \* rows a relay claims
  ChunkSize,     \* events per publish_batch call
  MaxAttempts,   \* MAX_ATTEMPTS
  MaxReceives,   \* maxReceiveCount of the queue
  MaxCopies,     \* bound: copies of one message told apart
  MaxFaults      \* bound: failures of any kind

ASSUME EventsAssumption == Events \subseteq Nat /\ IsFiniteSet(Events) /\ Refused \subseteq Events

ASSUME BoundsAssumption ==
  /\ {BatchSize, ChunkSize, MaxAttempts, MaxReceives, MaxCopies} \subseteq Nat \ {0}
  /\ MaxFaults \in Nat

VARIABLES
  committed,   \* rows of the outbox table
  sent,        \* rows with a sent_at
  attempts,    \* failed publications of each row
  relay,       \* each relay: what it does, the rows it holds, what is left of them
  copies,      \* messages on the consumer's queue
  receives,    \* how often the queue has handed the message out
  dead,        \* events on the dead-letter queue
  worker,      \* each worker: what it does, for which event
  processed,   \* the consumer's ledger
  applied,     \* how often the handler's writes for an event were committed
  faults       \* failures so far

vars == <<committed, sent, attempts, relay, copies, receives, dead, worker,
          processed, applied, faults>>

producer == <<committed, sent, attempts, relay>>
queue    == <<copies, receives, dead>>
consumer == <<worker, processed, applied>>

Idle == [does |-> "nothing", rows |-> {}, left |-> {}]
Free == [does |-> "nothing", event |-> -1]

Init ==
  /\ committed = {} /\ sent = {} /\ attempts = [e \in Events |-> 0]
  /\ relay = [r \in Relays |-> Idle]
  /\ copies = [e \in Events |-> 0] /\ receives = [e \in Events |-> 0] /\ dead = {}
  /\ worker = [w \in Workers |-> Free]
  /\ processed = {} /\ applied = [e \in Events |-> 0]
  /\ faults = 0

Fault == faults < MaxFaults /\ faults' = faults + 1

\* The first n of a set of rows, by created_at.
Earliest(S, n) == {e \in S : Cardinality({d \in S : d < e}) < n}

---------------------------------------------------------------------------
(* Producing. *)

\* A service's transaction commits, with the event it added.
Commit(e) ==
  /\ e \notin committed
  /\ committed' = committed \cup {e}
  /\ UNCHANGED <<sent, attempts, relay, queue, consumer, faults>>

\* Wrong on purpose: rows are read without locking them.
LockedNothing == {}

\* The rows some open transaction of a relay has locked.
Locked == UNION {relay[r].rows : r \in {q \in Relays : relay[q].does = "publish"}}

Unsent == {e \in committed \ sent : attempts[e] < MaxAttempts}

SetAside == {e \in committed \ sent : attempts[e] >= MaxAttempts}

\* FOR UPDATE SKIP LOCKED, oldest first.
Claim(r) ==
  /\ relay[r].does = "nothing"
  /\ Unsent \ Locked # {}
  /\ LET rows == Earliest(Unsent \ Locked, BatchSize)
     IN relay' = [relay EXCEPT ![r] = [does |-> "publish", rows |-> rows, left |-> rows]]
  /\ UNCHANGED <<committed, sent, attempts, queue, consumer, faults>>

\* SNS fans the event out to the queue; MaxCopies stands for "that many or more".
Enqueue(S) ==
  copies' = [e \in Events |->
    IF e \in S /\ copies[e] < MaxCopies THEN copies[e] + 1 ELSE copies[e]]

\* One publish_batch call.  The bus takes the events it does not refuse; when it
\* refused one, the whole publication has failed.
Publish(r) ==
  LET chunk == Earliest(relay[r].left, ChunkSize) IN
  /\ relay[r].does = "publish" /\ relay[r].left # {}
  /\ Enqueue(chunk \ Refused)
  /\ relay' = IF chunk \cap Refused = {}
                THEN [relay EXCEPT ![r].left = @ \ chunk]
                ELSE [relay EXCEPT ![r].does = "count"]
  /\ UNCHANGED <<committed, sent, attempts, receives, dead, consumer, faults>>

\* No answer: the bus took some of the chunk, or none of it.
PublishFails(r) ==
  /\ relay[r].does = "publish" /\ relay[r].left # {}
  /\ \E taken \in SUBSET Earliest(relay[r].left, ChunkSize) : Enqueue(taken \ Refused)
  /\ relay' = [relay EXCEPT ![r].does = "count"]
  /\ Fault
  /\ UNCHANGED <<committed, sent, attempts, receives, dead, consumer>>

\* Wrong on purpose: the row is marked before the bus has answered.
MarkBeforePublishing(r) ==
  /\ relay[r].does = "publish"
  /\ sent' = sent \cup relay[r].rows
  /\ relay' = IF relay[r].left = {} THEN [relay EXCEPT ![r] = Idle] ELSE relay
  /\ UNCHANGED <<committed, attempts, queue, consumer, faults>>

Mark(r) ==
  /\ relay[r].does = "publish" /\ relay[r].left = {}
  /\ sent' = sent \cup relay[r].rows
  /\ relay' = [relay EXCEPT ![r] = Idle]
  /\ UNCHANGED <<committed, attempts, queue, consumer, faults>>

\* The claim was rolled back first, so another relay may have taken the rows.
CountAttempt(r) ==
  /\ relay[r].does = "count"
  /\ attempts' = [e \in Events |->
       IF e \in relay[r].rows THEN attempts[e] + 1 ELSE attempts[e]]
  /\ relay' = [relay EXCEPT ![r] = Idle]
  /\ UNCHANGED <<committed, sent, queue, consumer, faults>>

RelayDies(r) ==
  /\ relay[r].does # "nothing"
  /\ relay' = [relay EXCEPT ![r] = Idle]
  /\ Fault
  /\ UNCHANGED <<committed, sent, attempts, queue, consumer>>

---------------------------------------------------------------------------
(* Consuming. *)

\* The queue hands a message out, also one another worker still has (its
\* visibility timeout ran out).
Receive(w, e) ==
  /\ worker[w].does = "nothing"
  /\ copies[e] > 0 /\ receives[e] < MaxReceives
  /\ receives' = [receives EXCEPT ![e] = @ + 1]
  /\ worker' = [worker EXCEPT ![w] = [does |-> "dispatch", event |-> e]]
  /\ UNCHANGED <<producer, copies, dead, processed, applied, faults>>

\* The marker is inserted first: a duplicate waits on its key, then skips.
Begin(w) ==
  LET e == worker[w].event IN
  /\ worker[w].does = "dispatch"
  /\ ~ \E v \in Workers : worker[v].does = "handle" /\ worker[v].event = e
  /\ worker' = [worker EXCEPT ![w].does = IF e \in processed THEN "delete" ELSE "handle"]
  /\ UNCHANGED <<producer, queue, processed, applied, faults>>

\* Wrong on purpose: the marker is written in a transaction of its own, later.
CommitWritesOnly(w) ==
  LET e == worker[w].event IN
  /\ worker[w].does = "handle"
  /\ applied' = [applied EXCEPT ![e] = @ + 1]
  /\ worker' = [worker EXCEPT ![w].does = "delete"]
  /\ UNCHANGED <<producer, queue, processed, faults>>

\* The marker and the handler's writes, in one transaction.
CommitHandler(w) ==
  LET e == worker[w].event IN
  /\ worker[w].does = "handle"
  /\ processed' = processed \cup {e}
  /\ applied' = [applied EXCEPT ![e] = @ + 1]
  /\ worker' = [worker EXCEPT ![w].does = "delete"]
  /\ UNCHANGED <<producer, queue, faults>>

\* The handler raised, or the worker died: nothing is written, the message
\* stays.  After a commit, only the deletion is lost.
WorkerFails(w) ==
  /\ worker[w].does # "nothing"
  /\ worker' = [worker EXCEPT ![w] = Free]
  /\ Fault
  /\ UNCHANGED <<producer, queue, processed, applied>>

Delete(w) ==
  LET e == worker[w].event IN
  /\ worker[w].does = "delete"
  /\ copies' = [copies EXCEPT ![e] = IF @ > 0 THEN @ - 1 ELSE 0]
  /\ worker' = [worker EXCEPT ![w] = Free]
  /\ UNCHANGED <<producer, receives, dead, processed, applied, faults>>

\* A message handed out too often goes to the dead letters, and a person sends
\* it back after the alarm (runbook).
DeadLetter(e) ==
  /\ copies[e] > 0 /\ receives[e] >= MaxReceives
  /\ copies' = [copies EXCEPT ![e] = 0]
  /\ dead' = dead \cup {e}
  /\ UNCHANGED <<producer, receives, consumer, faults>>

Redrive(e) ==
  /\ e \in dead
  /\ dead' = dead \ {e}
  /\ copies' = [copies EXCEPT ![e] = 1] /\ receives' = [receives EXCEPT ![e] = 0]
  /\ UNCHANGED <<producer, consumer, faults>>

---------------------------------------------------------------------------
Relaying == \E r \in Relays :
  Claim(r) \/ Publish(r) \/ PublishFails(r) \/ Mark(r) \/ CountAttempt(r) \/ RelayDies(r)

Consuming == \E w \in Workers :
  \/ \E e \in Events : Receive(w, e)
  \/ Begin(w) \/ CommitHandler(w) \/ WorkerFails(w) \/ Delete(w)

Next ==
  \/ \E e \in Events : Commit(e) \/ DeadLetter(e) \/ Redrive(e)
  \/ Relaying \/ Consuming

Spec == Init /\ [][Next]_vars

\* Every replica's relay and consumer runs for ever (run, _poll); the queue does
\* not hand out one message for ever and pass over another; a person answers the
\* dead-letter alarm.
Fairness ==
  /\ \A r \in Relays : /\ WF_vars(Claim(r)) /\ WF_vars(Publish(r))
                       /\ WF_vars(Mark(r)) /\ WF_vars(CountAttempt(r))
  /\ \A w \in Workers : /\ WF_vars(Begin(w)) /\ WF_vars(CommitHandler(w))
                        /\ WF_vars(Delete(w))
  /\ \A e \in Events : /\ SF_vars(\E w \in Workers : Receive(w, e))
                       /\ WF_vars(DeadLetter(e)) /\ WF_vars(Redrive(e))

FairSpec == Spec /\ Fairness

---------------------------------------------------------------------------
(* What is claimed of it. *)

\* Every variable keeps its type.
TypeOK ==
  /\ committed \subseteq Events /\ sent \subseteq committed
  /\ attempts \in [Events -> Nat]
  /\ relay \in [Relays -> [does : {"nothing", "publish", "count"},
                           rows : SUBSET Events, left : SUBSET Events]]
  /\ copies \in [Events -> 0..MaxCopies] /\ receives \in [Events -> 0..MaxReceives]
  /\ dead \subseteq Events
  /\ worker \in [Workers -> [does : {"nothing", "dispatch", "handle", "delete"},
                             event : Events \cup {-1}]]
  /\ \A w \in Workers : worker[w].does # "nothing" => worker[w].event \in Events
  /\ processed \subseteq Events
  /\ applied \in [Events -> Nat]
  /\ faults \in 0..MaxFaults

\* Two relays never publish the same row at the same time (SKIP LOCKED), so
\* that a row is not sent as often as there are replicas.
ClaimsAreApart ==
  \A r, q \in Relays :
    r # q /\ relay[r].does = "publish" /\ relay[q].does = "publish" =>
      relay[r].rows \cap relay[q].rows = {}

\* Nothing is lost between the table and the handler: an event marked as sent
\* was handled, or is on the queue, or among the dead letters.
SentIsSomewhere ==
  \A e \in sent : e \in processed \/ copies[e] > 0 \/ e \in dead

Bus == INSTANCE Delivery

\* The handler's writes for an event take effect once, after the change it
\* announces, however often it is published, received and redriven.
AppliedOnce == Bus!Spec

\* What a service committed is handled in the end, whatever dies on the way, as
\* long as publishing fails fewer than MaxAttempts times and nothing is refused.
EveryEventArrives == \A e \in Events : e \in committed ~> applied[e] = 1

---------------------------------------------------------------------------
(* What the repository's documents say, and the code does not quite do. *)

\* events.py: a row that keeps failing is set aside so it cannot hold up what is
\* behind it: what is set aside is a row the bus refuses.
OnlyRefusedSetAside == SetAside \subseteq Refused

=============================================================================
