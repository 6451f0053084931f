----------------------------- MODULE KafkaConsumer -----------------------------
(***************************************************************************)
(* The consumer loop of services/kafka_consumer.py against one partition   *)
(* of its topic.                                                           *)
(*                                                                         *)
(* store_event commits the event to the database; consumer.commit() then   *)
(* asks the broker, without waiting for an answer, to commit the consumer's*)
(* position.  The loop can be stopped or die anywhere in between.  The     *)
(* broker and the client library are external: requests of one consumer    *)
(* are served in order, may be lost, and are refused once the next consumer*)
(* has joined; without a committed offset a consumer starts at the end of  *)
(* the log (auto.offset.reset).                                            *)
(***************************************************************************)
EXTENDS Integers

CONSTANTS
  MaxMessages,  \* bound on the messages of the partition
  Malformed,    \* messages that are not JSON
  MaxFaults,    \* bound on failed database commits and lost commit requests
  MaxStops,     \* bound on stops and crashes
  None

Messages == 0..(MaxMessages - 1)
Offsets == 0..MaxMessages

ASSUME ConsumerAssumption ==
  /\ MaxMessages \in Nat /\ MaxFaults \in Nat /\ MaxStops \in Nat
  /\ Malformed \subseteq Messages
  /\ None \notin Offsets

VARIABLES
  produced,   \* the end of the log
  committed,  \* the group's committed offset at the broker
  requests,   \* offsets the last consumer has asked to commit
  pc, position, message,  \* the loop: where it is, what poll returns next, msg
  stored,     \* how often each message was committed to the events table
  failed,     \* history: messages whose exception was logged
  skipped,    \* history: messages below the position of a consumer that found
              \* no committed offset
  faults, stops

broker == <<produced, committed, requests>>
loop == <<pc, position, message>>
history == <<failed, skipped>>
vars == <<broker, loop, stored, history, faults, stops>>

TypeOK ==
  /\ produced \in Offsets
  /\ committed \in Offsets \cup {None}
  /\ requests \subseteq Offsets
  /\ pc \in {"down", "polling", "storing", "committing"}
  /\ position \in Offsets
  /\ message \in Messages \cup {None}
  /\ pc = "storing" => message \in Messages /\ position = message + 1
  /\ stored \in [Messages -> Nat]
  /\ failed \subseteq Messages /\ skipped \subseteq Messages
  /\ faults \in Nat /\ stops \in Nat

Init ==
  /\ produced = 0 /\ committed = None /\ requests = {}
  /\ pc = "down" /\ position = 0 /\ message = None
  /\ stored = [m \in Messages |-> 0]
  /\ failed = {} /\ skipped = {}
  /\ faults = 0 /\ stops = 0

Fault == faults < MaxFaults /\ faults' = faults + 1

-----------------------------------------------------------------------------
(* The consumer *)

\* Where a consumer that joins starts.
\* Mutants: always from the beginning; behind the committed offset.
StartOffset_Earliest == 0
StartOffset_Behind == IF committed = None THEN produced ELSE committed + 1

StartOffset == IF committed = None THEN produced ELSE committed

\* start and the subscription.
Start ==
  /\ pc = "down"
  /\ pc' = "polling" /\ position' = StartOffset /\ message' = None
  /\ requests' = {}
  /\ skipped' = IF committed = None THEN skipped \cup 0..(produced - 1) ELSE skipped
  /\ UNCHANGED <<produced, committed, stored, failed, faults, stops>>

\* The consumer's position once it has polled a message.
After(m) == m + 1

Poll ==
  /\ pc = "polling" /\ position < produced
  /\ pc' = "storing" /\ position' = After(position) /\ message' = position
  /\ UNCHANGED <<broker, stored, history, faults, stops>>

Store ==
  /\ pc = "storing" /\ message \notin Malformed
  /\ stored' = [stored EXCEPT ![message] = @ + 1]
  /\ pc' = "committing"
  /\ UNCHANGED <<broker, position, message, history, faults, stops>>

\* An exception is logged and the loop goes on: the next commit covers the
\* message all the same.
Fail ==
  /\ pc = "storing"
  /\ (message \in Malformed /\ UNCHANGED faults) \/ (message \notin Malformed /\ Fault)
  /\ failed' = failed \cup {message}
  /\ pc' = "polling"
  /\ UNCHANGED <<broker, position, message, stored, skipped, stops>>

\* What consumer.commit() asks for.
\* Mutant: the end of the log.
Requested_End == produced

Requested == position

CommitOffset ==
  /\ pc = "committing"
  /\ requests' = requests \cup {Requested}
  /\ pc' = "polling"
  /\ UNCHANGED <<produced, committed, position, message, stored, history, faults, stops>>

\* stop() cancels the task at its await, or the process dies.
Stop ==
  /\ pc # "down" /\ stops < MaxStops
  /\ stops' = stops + 1
  /\ pc' = "down"
  /\ UNCHANGED <<broker, position, message, stored, history, faults>>

-----------------------------------------------------------------------------
(* The broker *)

Produce ==
  /\ produced < MaxMessages /\ produced' = produced + 1
  /\ UNCHANGED <<committed, requests, loop, stored, history, faults, stops>>

First(r) == r \in requests /\ \A q \in requests : r <= q

Serve(r) ==
  /\ First(r)
  /\ committed' = r /\ requests' = requests \ {r}
  /\ UNCHANGED <<produced, loop, stored, history, faults, stops>>

Lose(r) ==
  /\ First(r) /\ Fault
  /\ requests' = requests \ {r}
  /\ UNCHANGED <<produced, committed, loop, stored, history, stops>>

Consume == Poll \/ Store \/ Fail \/ CommitOffset

Next ==
  \/ Start \/ Consume \/ Stop
  \/ Produce \/ \E r \in Offsets : Serve(r) \/ Lose(r)

Spec == Init /\ [][Next]_vars

\* The event loop resumes the task, and a stopped process is started again.
FairSpec == Spec /\ WF_vars(Consume) /\ WF_vars(Start)

-----------------------------------------------------------------------------
(* Properties *)

Handled(m) == stored[m] > 0 \/ m \in failed \/ m \in skipped

\* Whatever the broker counts as consumed is in the events table, was logged
\* as a failure or lay before the first position: the asynchronous commit of a
\* position never runs ahead of the database (kafka_consumer.py 104-108).
CommittedIsHandled ==
  committed # None => \A m \in Messages : m < committed => Handled(m)

\* A message is stored twice only across a stop, once more for each.
RepeatsBounded == \A m \in Messages : stored[m] <= 1 + stops

\* The committed offset never falls, also when requests of a stopped consumer
\* arrive late, and what lies below it is never stored again.
CommittedIsFinal ==
  [][committed # None =>
       /\ committed' # None /\ committed' >= committed
       /\ \A m \in Messages : m < committed => stored'[m] = stored[m]]_vars

\* Every message is stored, fails with a log line, or was skipped by a consumer
\* that found no committed offset.
MessagesArrive == \A m \in Messages : (m < produced) ~> Handled(m)
=============================================================================
