------------------------ MODULE CorrelationDetection ------------------------
(***************************************************************************)
(* The counters of CorrelationWindow implement Detector, for one version   *)
(* of each rule, when evaluations are prompt and timestamps are live: lazy *)
(* purging, deletion by the cleanup task and re-creation of a counter      *)
(* cannot be told from a detector that forgets by the clock.               *)
(***************************************************************************)
EXTENDS CorrelationWindow

TheVersion == CHOOSE v \in Versions : TRUE

\* The events of a counter that its key's window still covers.
Live(k) ==
  IF counters[k] = NoCounter THEN {} ELSE Purge(counters[k], now).events

D == INSTANCE Detector WITH
       Threshold <- TheVersion.threshold,
       Window <- TheVersion.window,
       pool <- [k \in Keys |-> {<<e, Timestamp(e)>> : e \in Live(k)}],
       reported <- {p \in Events \X Keys : Evaluated(p[1], p[2])},
       alarms <- {<<f.key, f.events>> : f \in fired}

\* Every behaviour of the engine is one of the abstract detector: no alarm is
\* missed, none is raised twice and none early (correlation.py 105-146, 340-350).
ImplementsDetector == D!Spec
=============================================================================
