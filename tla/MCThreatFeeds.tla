--------------------------- MODULE MCThreatFeeds ---------------------------
(* An instance of ThreatIndicators and one of ThreatFeeds, in one run of TLC: *)
(* part says whether requests or the pulls of feeds work on the table.          *)
EXTENDS ThreatFeeds, TLC

\* A check and an import that meet the same indicators in opposite orders, and a creation.
KindOf == "r1" :> "check" @@ "r2" :> "import" @@ "r3" :> "create"
LookedUp == "r1" :> <<"a", "b">> @@ "r2" :> <<"b", "a">> @@ "r3" :> <<"a">>

\* A feed with two items that become one indicator, and one of each other type.
FeedOfItem == "x" :> "f" @@ "y" :> "f" @@ "z" :> "g"
KeyOfItem == "x" :> "a" @@ "y" :> "a" @@ "z" :> "b"
TypeOfFeed == "f" :> "misp" @@ "g" :> "opencti" @@ "h" :> "taxii"
Page == [misp |-> 2, opencti |-> 1]

VARIABLE part

MCInit == part \in {"requests", "feeds"} /\ FeedsInit
MCNext ==
  \/ part = "requests" /\ IndicatorNext /\ UNCHANGED <<part, feedOwnVars>>
  \/ part = "feeds" /\ FeedsNext /\ UNCHANGED part

\* The event loop resumes every request and the loop's pass; PostgreSQL grants the lock
\* on a key in the order of the queue for it.
Fairness ==
  /\ \A r \in Request : /\ WF_indicatorVars(part = "requests" /\ RequestStep(r))
                        /\ SF_indicatorVars(part = "requests" /\ WriteRow(r))
  /\ WF_feedVars(part = "feeds" /\ PassStep)
MCSpec == MCInit /\ [][MCNext]_<<part, feedVars>> /\ Fairness
=============================================================================
