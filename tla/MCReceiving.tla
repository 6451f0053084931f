---------------------------- MODULE MCReceiving ----------------------------
(* An instance each of ConnectorPolling, KafkaConsumer, SyslogQueue and BulkIngest, *)
(* the ways events come into the program, in one run of TLC: the modules share no    *)
(* state, and part says which of them moves.                                          *)
EXTENDS MCConnectorPolling, KafkaConsumer, SyslogQueue, BulkIngest, TLC

\* Two uploads that name the same hosts, and one too long to be taken.
Lines == "u1" :> <<"a", "b", "a", "x">> @@ "u2" :> <<"b", "c", "b">> @@ "u3" :> <<"a", "a", "a", "a", "a">>
HostOfLine == "a" :> "h" @@ "b" :> "h" @@ "c" :> "g" @@ "x" :> "g"

VARIABLE part

allVars == <<part, pollingVars, vars, syslogVars, uploadVars>>
Polling(step) == part = "polling" /\ step /\ UNCHANGED <<part, vars, syslogVars, uploadVars>>
Kafka(step) == part = "kafka" /\ step /\ UNCHANGED <<part, pollingVars, syslogVars, uploadVars>>
Syslog(step) == part = "syslog" /\ step /\ UNCHANGED <<part, pollingVars, vars, uploadVars>>
Uploading(step) == part = "uploads" /\ step /\ UNCHANGED <<part, pollingVars, vars, syslogVars>>

MCInit == /\ part \in {"polling", "kafka", "syslog", "uploads"}
          /\ PollingInit /\ Init /\ SyslogInit /\ UploadInit
MCNext == Polling(PollingNext) \/ Kafka(Next) \/ Syslog(SyslogNext) \/ Uploading(UploadNext)

\* The event loop resumes the tasks, a Kafka consumer that stopped is started again, and a
\* connector whose turn comes in pass after pass is due in one of them. part never changes:
\* fairness of a step in one part and of another in a second is one.
Fairness ==
  /\ WF_allVars(Polling(LoopStep) \/ Kafka(Consume) \/ Syslog(TakeMessage \/ FinishMessage))
  /\ WF_allVars(Polling(PollStep("loop")) \/ Kafka(Start))
  /\ \A c \in Connectors : SF_allVars(Polling(BeginPoll(c)))
MCSpec == MCInit /\ [][MCNext]_allVars /\ Fairness
=============================================================================
