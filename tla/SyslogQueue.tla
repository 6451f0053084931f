----------------------------- MODULE SyslogQueue -----------------------------
(* services/syslog_server.py: two listeners that fill a bounded queue, the task *)
(* that empties it, and start() and stop() around them. What is done with one    *)
(* message is AlertPipeline's subject and one step here.                         *)
EXTENDS Integers, Sequences, Functions

CONSTANTS
  Line,            \* lines and datagrams that clients send
  ViaTcp,          \* those sent over a TCP connection
  Client,          \* TCP clients
  QueueSize,       \* maxsize
  MaxSyslogFaults, MaxRestarts   \* bounds

ASSUME SyslogAssumption == /\ ViaTcp \subseteq Line /\ QueueSize \in Nat \ {0}
                           /\ MaxSyslogFaults \in Nat /\ MaxRestarts \in Nat

VARIABLES
  server,      \* [pc, running, udp, tcp]: the life cycle, _running, the two listeners
  open,        \* clients whose _handle_tcp_client runs
  queue,       \* _queue
  processor,   \* the task of _process_queue: "none", "get", "store"
  current,     \* the message it has taken, as a sequence of at most one
  accepted,    \* history: messages in the order they were put
  finished,    \* history: messages stored, or logged as failed, in order
  stranded,    \* history: messages in the queue or in hand when the processor went
  late,        \* history: messages put when no processor was there any more
  dropped,     \* history: messages refused by a full queue
  syslogFaults, restarts

syslogVars == <<server, open, queue, processor, current, accepted, finished, stranded,
                late, dropped, syslogFaults, restarts>>
syslogHistory == <<accepted, finished, stranded, late, dropped>>

Down == [pc |-> "down", running |-> FALSE, udp |-> FALSE, tcp |-> FALSE]

SyslogInit ==
  /\ server = Down /\ open = {} /\ queue = <<>> /\ processor = "none" /\ current = <<>>
  /\ accepted = <<>> /\ finished = <<>> /\ stranded = {} /\ late = {} /\ dropped = {}
  /\ syslogFaults = 0 /\ restarts = 0

-----------------------------------------------------------------------------
\* start(): the processor first, then the ports; one that cannot be bound is logged and
\* the server runs all the same.
StartServer ==
  /\ server.pc = "down" /\ restarts < MaxRestarts /\ restarts' = restarts + 1
  /\ processor' = "get"
  /\ \E udp, tcp \in BOOLEAN : server' = [pc |-> "up", running |-> TRUE, udp |-> udp, tcp |-> tcp]
  /\ UNCHANGED <<open, queue, current, syslogHistory, syslogFaults>>

Connect(c) ==
  /\ server.tcp /\ c \notin open /\ open' = open \cup {c}
  /\ UNCHANGED <<server, queue, processor, current, syslogHistory, syslogFaults, restarts>>
\* End of file, 60 idle seconds or an error.
Disconnect(c) ==
  /\ c \in open /\ open' = open \ {c}
  /\ UNCHANGED <<server, queue, processor, current, syslogHistory, syslogFaults, restarts>>

\* put_nowait of datagram_received and of _handle_tcp_client.
Put(m) ==
  /\ m \notin Range(accepted) \cup dropped
  /\ IF Len(queue) < QueueSize
     THEN /\ queue' = Append(queue, m) /\ accepted' = Append(accepted, m) /\ UNCHANGED dropped
          /\ late' = IF processor = "none" THEN late \cup {m} ELSE late
     ELSE dropped' = dropped \cup {m} /\ UNCHANGED <<queue, accepted, late>>
  /\ UNCHANGED <<server, open, processor, current, finished, stranded, syslogFaults, restarts>>
DatagramReceived(m) == server.udp /\ m \notin ViaTcp /\ Put(m)
LineReceived(m) == open # {} /\ m \in ViaTcp /\ Put(m)

\* _process_queue: get, store, and round again whatever storing raised.
TakeMessage ==
  /\ processor = "get" /\ queue # <<>>
  /\ current' = <<Head(queue)>> /\ queue' = Tail(queue) /\ processor' = "store"
  /\ UNCHANGED <<server, open, syslogHistory, syslogFaults, restarts>>

AfterFailure_Ends == "none"
AfterFailure == "get"
FinishMessage ==
  /\ processor = "store"
  /\ \/ processor' = "get" /\ UNCHANGED syslogFaults
     \/ syslogFaults < MaxSyslogFaults /\ syslogFaults' = syslogFaults + 1 /\ processor' = AfterFailure
  /\ finished' = finished \o current /\ current' = <<>>
  /\ UNCHANGED <<server, open, queue, accepted, stranded, late, dropped, restarts>>

-----------------------------------------------------------------------------
\* stop() up to its first await: both listeners are closed, connections live on.
\* Mutant: the datagram transport is forgotten.
StopServer_KeepsUdp ==
  /\ server.pc = "up" /\ server' = [Down EXCEPT !.pc = "stopping", !.udp = server.udp]
  /\ UNCHANGED <<open, queue, processor, current, syslogHistory, syslogFaults, restarts>>
StopServer ==
  /\ server.pc = "up" /\ server' = [Down EXCEPT !.pc = "stopping"]
  /\ UNCHANGED <<open, queue, processor, current, syslogHistory, syslogFaults, restarts>>

\* ... and from there: the processor is cancelled, also while it stores; nothing is flushed.
\* wait_closed of uvloop, which uvicorn[standard] installs, waits for no connection (that
\* of asyncio waits for all of them since Python 3.12), so some may still be open.
CancelProcessor ==
  /\ server.pc = "stopping" /\ processor # "none"
  /\ processor' = "none" /\ current' = <<>>
  /\ stranded' = stranded \cup Range(queue \o current)
  /\ UNCHANGED <<server, open, queue, accepted, finished, late, dropped, syslogFaults, restarts>>

\* The rest of the shutdown, and the process ends with its connections and its queue.
ProcessEnds ==
  /\ server.pc = "stopping" /\ processor = "none"
  /\ server' = Down /\ open' = {} /\ queue' = <<>>
  /\ UNCHANGED <<processor, current, syslogHistory, syslogFaults, restarts>>

SyslogCrash ==
  /\ server.pc # "down" /\ syslogFaults < MaxSyslogFaults /\ syslogFaults' = syslogFaults + 1
  /\ server' = Down /\ open' = {} /\ processor' = "none" /\ current' = <<>> /\ queue' = <<>>
  /\ stranded' = IF processor = "none" THEN stranded ELSE stranded \cup Range(queue \o current)
  /\ UNCHANGED <<accepted, finished, late, dropped, restarts>>

SyslogNext ==
  \/ StartServer \/ TakeMessage \/ FinishMessage \/ StopServer \/ CancelProcessor
  \/ ProcessEnds \/ SyslogCrash
  \/ \E c \in Client : Connect(c) \/ Disconnect(c)
  \/ \E m \in Line : DatagramReceived(m) \/ LineReceived(m)

SyslogSpec == SyslogInit /\ [][SyslogNext]_syslogVars

-----------------------------------------------------------------------------
\* Every variable keeps its shape; the queue never exceeds its size.
SyslogTypeOK ==
  /\ server.pc \in {"down", "up", "stopping"} /\ processor \in {"none", "get", "store"}
  /\ open \subseteq Client /\ Len(queue) <= QueueSize /\ Len(current) <= 1
  /\ Range(accepted) \cap dropped = {}

\* The messages finished and those still to be, and: line is in the order of another sequence.
Kept == finished \o current \o (IF processor = "none" THEN <<>> ELSE queue)
InOrder(line, arrivals) ==
  \A i, j \in DOMAIN line :
    i < j => \E k, l \in DOMAIN arrivals : k < l /\ line[i] = arrivals[k] /\ line[j] = arrivals[l]

\* What is put into the queue when its processor is gone came over a connection that
\* outlived the listener: start() makes the processor before it binds the ports and stop()
\* closes both listeners before it cancels the processor, so that no datagram comes too
\* late.  Every other message is finished, in the order of arrival, or was there when the
\* processor was cancelled (syslog_server.py:147-180, 211-229).
OnlyTcpIsStrandedLate ==
  /\ late \subseteq ViaTcp
  /\ IsInjective(accepted)
  /\ Range(Kept) = Range(accepted) \ (stranded \cup late)
  /\ InOrder(Kept, accepted)

\* A message that was accepted is finished or the processor was stopped: no failure to
\* store one keeps those behind it waiting (syslog_server.py:115-123).
AcceptedIsFinished ==
  \A m \in Line : m \in Range(accepted) ~> m \in Range(finished) \cup stranded \cup late
=============================================================================
