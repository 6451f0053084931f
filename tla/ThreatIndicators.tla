-------------------------- MODULE ThreatIndicators --------------------------
(* services/threat_intel.py and routers/threat_intel.py: requests that look *)
(* indicators up, insert what an external service or a payload adds, and    *)
(* hold row locks and unwritten changes of one session until they commit.   *)
EXTENDS Integers, Sequences, FiniteSets, SequencesExt

CONSTANTS
  Indicator,       \* values of the unique index (indicator_type, value)
  Request,         \* sessions of routers and of enrich_event
  Kind,            \* [Request -> {"check", "import", "create"}]
  AskedFor         \* [Request -> Seq(Indicator)]: what each looks up or adds, in order

ASSUME IndicatorAssumption ==
  /\ Kind \in [Request -> {"check", "import", "create"}]
  /\ \A r \in Request : AskedFor[r] \in Seq(Indicator) /\ AskedFor[r] # <<>>

VARIABLES
  listed,      \* threat_indicators
  expired,     \* those whose expiry has passed
  request,     \* [Request -> record]: a request and its session
  removed      \* history: indicators that analysts deleted

indicatorVars == <<listed, expired, request, removed>>

\* seen: rows whose last_seen is dirty; new: objects added, a sequence since nothing
\* stops two of one key; held: rows flushed, and so locked; said: what it reports as found.
NoRequest == [pc |-> "idle", at |-> 1, seen |-> {}, new |-> <<>>, held |-> {}, said |-> {}]

IndicatorInit ==
  /\ listed = {} /\ expired = {} /\ removed = {}
  /\ request = [r \in Request |-> NoRequest]

Serves(r, row) == request' = [request EXCEPT ![r] = row]
Current(r) == AskedFor[r][request[r].at]
\* The lookup that follows, or the commit after the last.
Onward(row, r) == [row EXCEPT !.at = @ + 1, !.pc = IF row.at = Len(AskedFor[r]) THEN "last" ELSE "look"]

-----------------------------------------------------------------------------
BeginRequest(r) ==
  /\ request[r].pc = "idle" /\ Serves(r, [request[r] EXCEPT !.pc = "look"])
  /\ UNCHANGED <<listed, expired, removed>>

\* The rows a session sees: what is committed and what it has flushed itself.
Visible(r) == listed \cup (request[r].held \cap Range(request[r].new))

\* _check_db; then, unless it found a row in force, the external service answers that it
\* knows the value, that it does not, or not at all.
CheckIndicator(r) ==
  LET k == Current(r)  row == request[r]
  IN /\ row.pc = "look" /\ Kind[r] = "check"
     /\ \/ k \in Visible(r) \ expired /\ Serves(r, Onward([row EXCEPT !.seen = @ \cup {k}, !.said = @ \cup {k}], r))
        \/ k \notin Visible(r) \ expired /\ Serves(r, [row EXCEPT !.pc = "persist", !.said = @ \cup {k}])
        \/ k \notin Visible(r) \ expired /\ Serves(r, Onward(row, r))
     /\ UNCHANGED <<listed, expired, removed>>

\* _persist_indicator up to its flush, with a SELECT of its own after the HTTP answer.
PersistIndicator(r) ==
  LET k == Current(r)  row == request[r]
  IN /\ row.pc = "persist"
     /\ Serves(r, IF k \in Visible(r) THEN Onward(row, r)
                  ELSE [row EXCEPT !.new = Append(@, k), !.pc = "flush"])
     /\ UNCHANGED <<listed, expired, removed>>

\* An item of bulk_import_indicators, or the check of create_indicator, which refuses.
AddIndicator(r) ==
  LET k == Current(r)  row == request[r]
  IN /\ row.pc = "look" /\ Kind[r] # "check"
     /\ Serves(r, IF k \notin Visible(r) THEN Onward([row EXCEPT !.new = Append(@, k), !.said = @ \cup {k}], r)
                  ELSE IF Kind[r] = "create" THEN [NoRequest EXCEPT !.pc = "refused"]
                  ELSE Onward(row, r))
     /\ UNCHANGED <<listed, expired, removed>>

-----------------------------------------------------------------------------
\* A flush writes rows one by one and waits for those of other transactions.
Flushing(r) == request[r].pc \in {"flush", "last"}
Unwritten(r) == (request[r].seen \cup Range(request[r].new)) \ request[r].held
HeldByOthers(r) == UNION {request[q].held : q \in Request \ {r}}
Blocked(r, q) == q # r /\ Flushing(r) /\ Unwritten(r) # {} /\ Unwritten(r) \subseteq HeldByOthers(r)
                 /\ Unwritten(r) \cap request[q].held # {}

\* Every statement succeeds: the dirty row is there still, the new one is not there yet.
Writable(r, k) == IF k \in Range(request[r].new) THEN k \notin listed ELSE k \in listed
WriteRow(r) ==
  /\ Flushing(r) /\ IsInjective(request[r].new)
  /\ \E k \in Unwritten(r) \ HeldByOthers(r) :
       Writable(r, k) /\ Serves(r, [request[r] EXCEPT !.held = @ \cup {k}])
  /\ UNCHANGED <<listed, expired, removed>>

\* What is left of a session whose flush failed: _persist_indicator rolls back and goes
\* on; everywhere else the exception ends the request.
RolledBack(r) == [request[r] EXCEPT !.seen = {}, !.new = <<>>, !.held = {}]
Undone(r) == Serves(r, IF request[r].pc = "flush" THEN Onward(RolledBack(r), r)
                       ELSE [NoRequest EXCEPT !.pc = "failed"])
ClashRow(r) ==
  /\ Flushing(r)
  /\ \/ ~IsInjective(request[r].new)
     \/ \E k \in Unwritten(r) \ HeldByOthers(r) : ~Writable(r, k)
  /\ Undone(r)
  /\ UNCHANGED <<listed, expired, removed>>

\* PostgreSQL aborts one of the transactions that wait for one another.
IndicatorDeadlock(r) ==
  /\ \E S \in SUBSET Request : r \in S /\ \A a \in S : \E b \in S : Blocked(a, b)
  /\ Undone(r)
  /\ UNCHANGED <<listed, expired, removed>>

Flushed(r) ==
  /\ request[r].pc = "flush" /\ Unwritten(r) = {}
  /\ Serves(r, Onward(request[r], r))
  /\ UNCHANGED <<listed, expired, removed>>

\* The commit publishes what was flushed, and get_db closes the session.
Committed(r) == Range(request[r].new)
Closed_Open(r) == [request[r] EXCEPT !.pc = "done"]
Closed(r) == [request[r] EXCEPT !.pc = "done", !.held = {}]
CommitRequest(r) ==
  /\ request[r].pc = "last" /\ Unwritten(r) = {}
  /\ listed' = listed \cup Committed(r)
  /\ Serves(r, Closed(r))
  /\ UNCHANGED <<expired, removed>>

-----------------------------------------------------------------------------
DeleteIndicator(k) ==
  /\ k \in listed /\ \A r \in Request : k \notin request[r].held
  /\ listed' = listed \ {k} /\ expired' = expired \ {k} /\ removed' = removed \cup {k}
  /\ UNCHANGED request

ExpireIndicator(k) == k \in listed /\ expired' = expired \cup {k} /\ UNCHANGED <<listed, request, removed>>

RequestStep(r) ==
  \/ CheckIndicator(r) \/ PersistIndicator(r) \/ AddIndicator(r) \/ WriteRow(r) \/ ClashRow(r)
  \/ IndicatorDeadlock(r) \/ Flushed(r) \/ CommitRequest(r)

IndicatorNext ==
  \/ \E r \in Request : BeginRequest(r) \/ RequestStep(r)
  \/ \E k \in Indicator : DeleteIndicator(k) \/ ExpireIndicator(k)

IndicatorSpec == IndicatorInit /\ [][IndicatorNext]_indicatorVars

\* Every variable keeps its shape; a session holds only rows it has written.
IndicatorTypeOK ==
  /\ listed \subseteq Indicator /\ expired \subseteq listed /\ removed \subseteq Indicator
  /\ \A r \in Request :
       LET q == request[r]
       IN /\ q.pc \in {"idle", "look", "persist", "flush", "last", "done", "failed", "refused"}
          /\ q.seen \cup Range(q.new) \cup q.said \subseteq Indicator
          /\ q.held \subseteq q.seen \cup Range(q.new)

\* The row locks do their work across flushes, rollbacks that are swallowed and commits: no
\* row is written by two open sessions, none that a session has inserted is in the table
\* yet, none that it has changed is gone, and a session that ended holds nothing
\* (threat_intel.py:179-222, 285-289).
RowsHeldApart ==
  \A r \in Request :
    LET q == request[r]
    IN /\ q.held \cap HeldByOthers(r) = {}
       /\ q.held \cap Range(q.new) \cap listed = {}
       /\ q.held \ Range(q.new) \subseteq listed
       /\ q.held # {} => q.pc \in {"look", "persist", "flush", "last"}

\* Requests end, whatever rows others hold: no rollback that is swallowed leaves a lock
\* behind, and no cycle of waiting stays (threat_intel.py:285-289).
RequestsEnd ==
  \A r \in Request : request[r].pc # "idle" ~> request[r].pc \in {"done", "failed", "refused"}

\* An import or a creation that answered without an error has every indicator it counted
\* in the table, unless an analyst deleted it since (threat_intel.py:183-218).
CountedIsListed ==
  \A r \in Request : request[r].pc = "done" /\ Kind[r] # "check" => request[r].said \subseteq listed \cup removed
=============================================================================
