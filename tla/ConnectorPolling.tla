--------------------------- MODULE ConnectorPolling ---------------------------
(***************************************************************************)
(* The cloud connector manager (services/connectors/manager.py) with the   *)
(* poll methods of the CloudTrail, Azure and GCP connectors, and the       *)
(* router that edits connectors and triggers polls (routers/connectors.py).*)
(*                                                                         *)
(* A provider's log is numbered; a clock reading is the number of records  *)
(* written before it, so "timestamp >= since" is "number > since".         *)
(*                                                                         *)
(* The background loop polls every connector of a pass in one database     *)
(* session.  store_event commits that session once per record, with        *)
(* whatever the pass has changed so far; a flush that fails leaves the     *)
(* session unusable and the connectors swallow the exception.              *)
(***************************************************************************)
EXTENDS Integers, FiniteSets, FiniteSetsExt

CONSTANTS
  Connectors,  \* rows of cloud_connectors
  MaxRecords,  \* bound on the records of all providers
  MaxAged,     \* bound on those that are more than ten minutes old before a first poll
  Gaps,        \* records their provider may leave out of an answer: too many, or late
  Rejects,     \* records that raise before anything is flushed
  Poison,      \* records that the database refuses
  MaxEvents,   \* bound on failed requests and flushes, crashes, manual polls and edits
  Never, NoRow, Nowhere

Numbers == 1..MaxRecords
Records == Connectors \X Numbers
Pollers == {"loop", "manual"}

ASSUME PollingAssumption ==
  /\ IsFiniteSet(Connectors)
  /\ {MaxRecords, MaxAged, MaxEvents} \subseteq Nat
  /\ {Gaps, Rejects, Poison} \subseteq SUBSET Records
  /\ Never \notin Nat /\ Nowhere \notin Connectors

VARIABLES
  log,      \* how many records each provider has written
  aged,     \* how many of them are more than ten minutes old
  rows,     \* committed rows of cloud_connectors
  ingested, \* records committed to the events table
  session,  \* what each poller does, with the objects of its session
  unseen,   \* history: records that a provider kept from a poll of the loop, or that
            \* were too old when the first one that was answered asked
  happened  \* failures, crashes, manual polls and edits so far

pollingVars == <<log, aged, rows, ingested, session, unseen, happened>>

Columns == [last : 0..MaxRecords \cup {Never},  \* last_polled_at
            error : BOOLEAN]                    \* last_error is set
Row == [enabled : BOOLEAN, columns : Columns]

Session ==
  [pc : {"idle", "next", "asking", "storing"},
   todo : SUBSET Connectors,               \* connectors the pass has not come to
   at : Connectors \cup {Nowhere},          \* the one it is at
   objects : [Connectors -> Columns],      \* the rows as loaded and changed
   dirty : SUBSET Connectors,              \* changed and not committed
   now : 0..MaxRecords,                    \* the clock before the poll
   fetched : SUBSET Numbers,               \* the answer, as far as not stored yet
   broken : BOOLEAN]                       \* a flush failed: rollback required

PollingTypeOK ==
  /\ {log, aged} \subseteq [Connectors -> 0..MaxRecords]
  /\ rows \in [Connectors -> Row \cup {NoRow}]
  /\ ingested \in SUBSET Records
  /\ session \in [Pollers -> Session]
  /\ unseen \in SUBSET Records
  /\ happened \in 0..MaxEvents

NewColumns == [last |-> Never, error |-> FALSE]

\* A session that is closed.
Idle == [pc |-> "idle", todo |-> {}, at |-> Nowhere,
         objects |-> [c \in Connectors |-> NewColumns], dirty |-> {},
         now |-> 0, fetched |-> {}, broken |-> FALSE]

PollingInit ==
  /\ log = [c \in Connectors |-> 0] /\ aged = log
  /\ rows = [c \in Connectors |-> [enabled |-> TRUE, columns |-> NewColumns]]
  /\ ingested = {}
  /\ session = [p \in Pollers |-> Idle]
  /\ unseen = {}
  /\ happened = 0

-----------------------------------------------------------------------------
(* The session *)

Happens == happened < MaxEvents /\ happened' = happened + 1

At(p, place) == session[p].pc = place
Become(p, s) == session' = [session EXCEPT ![p] = s]

\* The changed rows still exist: an UPDATE that matches no row raises.
Fresh(s) == \A c \in s.dirty : rows[c] # NoRow

\* The rows once the session's changes are committed.
Written(s) ==
  [c \in Connectors |->
     IF c \in s.dirty THEN [rows[c] EXCEPT !.columns = s.objects[c]] ELSE rows[c]]

\* A flush failed: no later record of the answer can be stored.
\* Mutant: the session is rolled back and goes on.
Broken_RolledBack(s, i) == [s EXCEPT !.fetched = @ \ {i}, !.dirty = {}]

Broken(s, i) == [s EXCEPT !.fetched = {}, !.broken = TRUE]

\* A record that raises by itself, and one that is stored.
Attempted(s, i) == [s EXCEPT !.fetched = @ \ {i}]
Inserted(s, i) == [s EXCEPT !.fetched = @ \ {i}, !.dirty = {}]

\* The row of the polled connector after a poll that returned, and after one
\* that raised.
\* Mutant: the clock is read after the poll.
Polled_Late(s) == [last |-> log[s.at], error |-> FALSE]

Polled(s) == [last |-> s.now, error |-> FALSE]
Raised(s) == [s.objects[s.at] EXCEPT !.error = TRUE]

\* On to the next connector.
Leave(s, columns) ==
  [s EXCEPT !.pc = "next", !.objects[s.at] = columns, !.dirty = @ \cup {s.at},
            !.at = Nowhere, !.now = 0]

-----------------------------------------------------------------------------
(* The loop *)

\* Every 60 seconds: SELECT the enabled connectors.
Wake ==
  /\ At("loop", "idle")
  /\ LET enabled == {c \in Connectors : rows[c] # NoRow /\ rows[c].enabled}
     IN  Become("loop", [Idle EXCEPT !.pc = "next", !.todo = enabled,
           !.objects = [c \in Connectors |-> IF c \in enabled THEN rows[c].columns ELSE NewColumns]])
  /\ UNCHANGED <<log, aged, rows, ingested, unseen, happened>>

\* The SELECT has no ORDER BY: any connector may be next.  One whose interval has not
\* passed is skipped.
Skip(c) ==
  /\ At("loop", "next") /\ c \in session["loop"].todo
  /\ session["loop"].objects[c].last # Never
  /\ Become("loop", [session["loop"] EXCEPT !.todo = @ \ {c}])
  /\ UNCHANGED <<log, aged, rows, ingested, unseen, happened>>

BeginPoll(c) ==
  /\ At("loop", "next") /\ c \in session["loop"].todo
  /\ Become("loop", [session["loop"] EXCEPT !.pc = "asking", !.todo = @ \ {c}, !.at = c,
                                            !.now = log[c]])
  /\ UNCHANGED <<log, aged, rows, ingested, unseen, happened>>

\* The commit at the end of a pass; without it everything uncommitted is lost.
EndPass ==
  /\ At("loop", "next") /\ session["loop"].todo = {}
  /\ \/ Fresh(session["loop"]) /\ rows' = Written(session["loop"]) /\ UNCHANGED happened
     \/ ~ Fresh(session["loop"]) /\ UNCHANGED <<rows, happened>>
     \/ session["loop"].dirty # {} /\ Happens /\ UNCHANGED rows
  /\ Become("loop", Idle)
  /\ UNCHANGED <<log, aged, ingested, unseen>>

-----------------------------------------------------------------------------
(* A poll *)

\* The records that a poll asks for: since the last one, and without one those of
\* the last ten minutes.
StartTime(s) == LET last == s.objects[s.at].last IN IF last = Never THEN aged[s.at] ELSE last
Asked(s) == (StartTime(s) + 1)..log[s.at]

\* Those that a first poll no longer asks for.
TooOld(s) == IF s.objects[s.at].last = Never THEN 1..aged[s.at] ELSE {}

\* poll() works out what to ask for and the provider answers, perhaps with more
\* than was there when the clock was read.
Answer(p) ==
  /\ At(p, "asking")
  /\ LET s == session[p]
         due == Asked(s)
     IN  \E answer \in SUBSET due :
           /\ \A i \in due \ answer : <<s.at, i>> \in Gaps
           /\ Become(p, [s EXCEPT !.pc = "storing", !.fetched = answer])
           /\ unseen' = IF p = "loop"
                          THEN unseen \cup {<<s.at, i>> :
                                              i \in (TooOld(s) \cup (due \ answer)) \cap (1..s.now)}
                          ELSE unseen
  /\ UNCHANGED <<log, aged, rows, ingested, happened>>

\* The request raises: the loop notes the error, the manual poll answers 502.
AnswerFails(p) ==
  /\ At(p, "asking") /\ Happens
  /\ Become(p, IF p = "loop" THEN Leave(session[p], Raised(session[p])) ELSE Idle)
  /\ UNCHANGED <<log, aged, rows, ingested, unseen>>

\* One iteration of the connector's loop over the answer.
StoreRecord(p, i) ==
  /\ At(p, "storing") /\ i \in session[p].fetched
  /\ LET s == session[p]
         r == <<s.at, i>>
         storable == r \notin Rejects \cup Poison /\ Fresh(s)
     IN  \/ /\ r \in Rejects
            /\ Become(p, Attempted(s, i))
            /\ UNCHANGED <<rows, ingested, happened>>
         \/ /\ storable
            /\ ingested' = ingested \cup {r}
            /\ rows' = Written(s)
            /\ Become(p, Inserted(s, i))
            /\ UNCHANGED happened
         \/ /\ r \notin Rejects
            /\ (~ storable /\ UNCHANGED happened) \/ (storable /\ Happens)
            /\ Become(p, Broken(s, i))
            /\ UNCHANGED <<rows, ingested>>
  /\ UNCHANGED <<log, aged, unseen>>

\* The poll returns its count.  In a broken session the row's attributes are
\* expired: reading them raises, also in the handler, and the pass is over.
FinishPoll(p) ==
  /\ At(p, "storing") /\ session[p].fetched = {}
  /\ LET s == session[p]
     IN  Become(p, IF p = "manual" \/ s.broken THEN Idle ELSE Leave(s, Polled(s)))
  /\ UNCHANGED <<log, aged, rows, ingested, unseen, happened>>

-----------------------------------------------------------------------------
(* The router and the world *)

\* poll_connector: a session of its own, and last_polled_at is read only.
PollNow(c) ==
  /\ At("manual", "idle") /\ rows[c] # NoRow
  /\ Happens
  /\ Become("manual", [Idle EXCEPT !.pc = "asking", !.at = c,
                                   !.objects[c] = rows[c].columns])
  /\ UNCHANGED <<log, aged, rows, ingested, unseen>>

UpdateConnector(c) ==
  /\ rows[c] # NoRow /\ Happens
  /\ rows' = [rows EXCEPT ![c].enabled = ~ @]
  /\ UNCHANGED <<log, aged, ingested, session, unseen>>

DeleteConnector(c) ==
  /\ rows[c] # NoRow /\ Happens
  /\ rows' = [rows EXCEPT ![c] = NoRow]
  /\ UNCHANGED <<log, aged, ingested, session, unseen>>

\* A provider writes a record.
Emit(c) ==
  /\ MapThenSumSet(LAMBDA d : log[d], Connectors) < MaxRecords
  /\ log' = [log EXCEPT ![c] = @ + 1]
  /\ UNCHANGED <<aged, rows, ingested, session, unseen, happened>>

\* Ten minutes have passed since a provider wrote a record.  Followed as long as the
\* connector has no last_polled_at, in its row or in a session that has yet to ask.
Age(c) ==
  /\ aged[c] < log[c] /\ MapThenSumSet(LAMBDA d : aged[d], Connectors) < MaxAged
  /\ \/ rows[c] # NoRow /\ rows[c].columns.last = Never
     \/ \E p \in Pollers : /\ session[p].objects[c].last = Never
                          /\ c \in session[p].todo \cup {session[p].at}
  /\ aged' = [aged EXCEPT ![c] = @ + 1]
  /\ UNCHANGED <<log, rows, ingested, session, unseen, happened>>

\* The process stops, or dies, and is started again.
Crash ==
  /\ Happens
  /\ session' = [p \in Pollers |-> Idle]
  /\ UNCHANGED <<log, aged, rows, ingested, unseen>>

LoopStep ==
  \/ Wake \/ EndPass \/ \E c \in Connectors : Skip(c) \/ BeginPoll(c)
PollStep(p) == Answer(p) \/ AnswerFails(p) \/ FinishPoll(p) \/ \E i \in Numbers : StoreRecord(p, i)

PollingNext ==
  \/ LoopStep
  \/ \E p \in Pollers : PollStep(p)
  \/ \E c \in Connectors : PollNow(c) \/ UpdateConnector(c) \/ DeleteConnector(c)
                          \/ Emit(c) \/ Age(c)
  \/ Crash

PollingSpec == PollingInit /\ [][PollingNext]_pollingVars

\* The event loop resumes the polling task, and a connector whose turn comes
\* in pass after pass is due in one of them: its interval is finite.
PollingFairSpec ==
  /\ PollingSpec
  /\ WF_pollingVars(LoopStep)
  /\ WF_pollingVars(PollStep("loop"))
  /\ \A c \in Connectors : SF_pollingVars(BeginPoll(c))

-----------------------------------------------------------------------------
(* Properties *)

Settled(c, i) ==
  <<c, i>> \in ingested \cup Rejects \cup Poison \cup unseen

\* The watermark of a connector passes a record only when it was stored, was rejected by
\* itself, was never shown, or was more than ten minutes old when a connector without a
\* watermark asked (gcp_logging.py 42): a failure anywhere in the pass, also in another
\* connector's part of the shared session, keeps the watermark back (manager.py 83-91).
NothingSkipped ==
  \A c \in Connectors : rows[c] # NoRow /\ rows[c].columns.last # Never =>
    \A i \in 1..rows[c].columns.last : Settled(c, i)

\* Every record reaches the events table, is rejected by itself, was never shown, or was
\* too old for the first poll that was answered, unless its connector is disabled or
\* deleted (gcp_logging.py 20: "Per-entry storage failures are logged and do not abort
\* processing").
RecordsArrive ==
  \A c \in Connectors, i \in Numbers :
    (i <= log[c]) ~> (Settled(c, i) \/ rows[c] = NoRow \/ ~ rows[c].enabled)
=============================================================================
