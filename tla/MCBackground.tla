---------------------------- MODULE MCBackground ----------------------------
(* An instance each of Retention and UserBaselines, which work on the table of     *)
(* events in the background, in one run of TLC: the modules share no state, and    *)
(* part says which of them moves.                                                    *)
EXTENDS Retention, UserBaselines, TLC

\* Two policies over the same event, one of them archiving.
StampOf == [e \in StoredEvent |-> 0]
PolicyRows ==
  {[enabled |-> TRUE, scope |-> {"e1"}, days |-> 0, archive |-> TRUE],
   [enabled |-> TRUE, scope |-> StoredEvent, days |-> 0, archive |-> FALSE]}

\* A new event of a user at an hour and from an address that the user's past has not seen,
\* and a second user, so that refreshes can write two profiles in either order.
UserOfEvent == "e1" :> "u" @@ "e2" :> "u" @@ "e3" :> "v"
HourOfEvent == "e1" :> 1 @@ "e2" :> 2 @@ "e3" :> 1
IpOfEvent == "e1" :> 1 @@ "e2" :> 2 @@ "e3" :> 1

VARIABLE part

allVars == <<part, retentionVars, uebaVars>>
Retaining(step) == part = "retention" /\ step /\ UNCHANGED <<part, uebaVars>>
Learning(step) == part = "baselines" /\ step /\ UNCHANGED <<part, retentionVars>>

MCInit == part \in {"retention", "baselines"} /\ RetentionInit /\ UebaInit
MCNext == Retaining(RetentionNext) \/ Learning(UebaNext)

\* The event loop wakes the loops and resumes their tasks; PostgreSQL grants row locks in
\* the order of the queue for them. part never changes: fairness of a step in one part and
\* of another in the second can be stated as one.
Fairness ==
  /\ WF_allVars(Retaining(WakeLoop) \/ Learning(NightlyStep))
  /\ WF_allVars(Retaining(CycleStep("loop")))
  /\ WF_allVars(Retaining(CycleStep("manual")) \/ Learning(RefreshStep("manual")))
  /\ SF_allVars(Retaining(Flush("manual")) \/ Learning(FlushBaseline("manual")))
MCSpec == MCInit /\ [][MCNext]_allVars /\ Fairness

\* BaselinesArrive where the refreshes run: its past events are there from the start
\* (baseline.py:96-142).
RefreshedBaselinesArrive == part = "baselines" => BaselinesArrive
=============================================================================
