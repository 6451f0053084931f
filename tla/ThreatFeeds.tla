---------------------------- MODULE ThreatFeeds ----------------------------
(* services/feed_connectors and routers/threat_feeds.py: the hourly pass     *)
(* over the enabled feeds, all in one session, and manual pulls beside it.   *)
EXTENDS ThreatIndicators

CONSTANTS
  Feed,                \* identities of threat_feed_connectors rows
  FeedType,            \* [Feed -> {"misp", "opencti", "taxii"}]
  Attribute,           \* items the feeds may publish
  FeedOf, KeyOf,       \* [Attribute -> Feed], and the indicator an item becomes
  Interval,            \* values of pull_interval_hours
  Lookback, AnswerLimit, \* hours of a first pull's "since"; [FeedType -> items of one answer]
  LastHour, MaxFeedEdits, MaxFeedFaults   \* bounds

ASSUME FeedAssumption ==
  /\ FeedOf \in [Attribute -> Feed] /\ KeyOf \in [Attribute -> Indicator]
  /\ FeedType \in [Feed -> {"misp", "opencti", "taxii"}] /\ Interval \subseteq Int
  /\ Lookback \in Nat /\ AnswerLimit \in [{"misp", "opencti"} -> Nat \ {0}]
  /\ LastHour \in Nat /\ MaxFeedEdits \in Nat /\ MaxFeedFaults \in Nat

VARIABLES
  hour,        \* the clock
  published,   \* items published: a function to the hour of each
  feeds,       \* rows: a function from the feeds that exist
  puller,      \* the tasks "loop" and "manual" with their sessions
  unasked,      \* history: items no pull will ask for: too old for the first, or cut off
  feedEdits, feedFaults

feedOwnVars == <<hour, published, feeds, puller, unasked, feedEdits, feedFaults>>
feedVars == <<listed, expired, request, removed,
              hour, published, feeds, puller, unasked, feedEdits, feedFaults>>

NotPulled == -1
NewFeed(interval, enabled) == [enabled |-> enabled, interval |-> interval, pulled |-> NotPulled, error |-> FALSE]

\* todo: rows as loaded when the pass began; dirty: rows changed and not yet committed;
\* fresh: the items of the answer that were not in the table when it was read.
NoPull == [pc |-> "idle", todo |-> <<>>, dirty |-> <<>>, feed |-> {}, now |-> 0, fresh |-> {}]

FeedsInit ==
  /\ IndicatorInit
  /\ hour = 0 /\ published = <<>> /\ feeds = <<>> /\ unasked = {}
  /\ puller = [t \in {"loop", "manual"} |-> NoPull]
  /\ feedEdits = 0 /\ feedFaults = 0

Pulls(t, row) == puller' = [puller EXCEPT ![t] = row]
Without(rows, f) == Restrict(rows, DOMAIN rows \ {f})
With(rows, f, row) == [g \in DOMAIN rows \cup {f} |-> IF g = f THEN row ELSE rows[g]]

\* last is None or (now - last) >= interval
FeedDue(row, now) == row.pulled = NotPulled \/ now - row.pulled >= row.interval

-----------------------------------------------------------------------------
\* _poll_loop after its sleep: the enabled feeds, loaded once.
WakeFeeds ==
  /\ puller["loop"].pc = "idle"
  /\ LET enabled == {f \in DOMAIN feeds : feeds[f].enabled}
     IN enabled # {} /\ Pulls("loop", [NoPull EXCEPT !.pc = "next", !.todo = Restrict(feeds, enabled)])
  /\ UNCHANGED <<indicatorVars, hour, published, feeds, unasked, feedEdits, feedFaults>>

\* pull_now: one feed, due or not.
PullNow(f) ==
  /\ puller["manual"].pc = "idle" /\ f \in DOMAIN feeds /\ feedEdits < MaxFeedEdits
  /\ Pulls("manual", [NoPull EXCEPT !.pc = "ask", !.feed = {f}, !.todo = Restrict(feeds, {f})])
  /\ feedEdits' = feedEdits + 1
  /\ UNCHANGED <<indicatorVars, hour, published, feeds, unasked, feedFaults>>

\* A feed's turn.
TurnFeed ==
  LET p == puller["loop"]
  IN /\ p.pc = "next"
     /\ \E f \in DOMAIN p.todo :
          Pulls("loop", IF FeedDue(p.todo[f], hour) THEN [p EXCEPT !.pc = "ask", !.feed = {f}, !.now = hour]
                        ELSE [p EXCEPT !.todo = Without(@, f)])
     /\ UNCHANGED <<indicatorVars, hour, published, feeds, unasked, feedEdits, feedFaults>>

\* The handler of a pull that raised with the session intact. A manual pull just ends.
Errored(p, f) == [p EXCEPT !.pc = "next", !.feed = {}, !.todo = Without(@, f),
                           !.dirty = With(@, f, [p.todo[f] EXCEPT !.error = TRUE])]
AskFails(t) ==
  /\ puller[t].pc = "ask"
  /\ \E f \in puller[t].feed :
       /\ \/ FeedType[f] = "taxii" /\ UNCHANGED feedFaults
          \/ FeedType[f] # "taxii" /\ feedFaults < MaxFeedFaults /\ feedFaults' = feedFaults + 1
       /\ Pulls(t, IF t = "loop" THEN Errored(puller[t], f) ELSE NoPull)
  /\ UNCHANGED <<indicatorVars, hour, published, feeds, unasked, feedEdits>>

\* What a pull asks for: MISP's timestamp filter, inclusive; OpenCTI is sent no date.
Since(row) == IF row.pulled = NotPulled THEN hour - Lookback ELSE row.pulled
Matching(f, row) == {a \in DOMAIN published : FeedOf[a] = f /\
                       (FeedType[f] = "misp" => published[a] >= Since(row))}
\* An answer is one page; SELECTs find the indicators that are known already.
AskFeed(t) ==
  /\ puller[t].pc = "ask"
  /\ \E f \in puller[t].feed :
       LET row == puller[t].todo[f]  all == Matching(f, row)
           own == {a \in DOMAIN published : FeedOf[a] = f}
           page == IF Cardinality(all) < AnswerLimit[FeedType[f]] THEN Cardinality(all) ELSE AnswerLimit[FeedType[f]]
       IN /\ FeedType[f] # "taxii"
          /\ \E answer \in kSubset(page, all) :
               /\ Pulls(t, [puller[t] EXCEPT !.pc = "commit", !.fresh = {a \in answer : KeyOf[a] \notin listed}])
               /\ unasked' = unasked \cup (all \ answer) \cup (IF row.pulled = NotPulled THEN own \ all ELSE {})
  /\ UNCHANGED <<indicatorVars, hour, published, feeds, feedEdits, feedFaults>>

\* The unit of work can be written: no indicator twice or taken, no feed row gone.
Fits(p) == /\ IsInjective(Restrict(KeyOf, p.fresh)) /\ \A a \in p.fresh : KeyOf[a] \notin listed
           /\ DOMAIN p.dirty \subseteq DOMAIN feeds
\* Only columns that changed are written: not what an administrator edits.
Saved(dirty) == [f \in DOMAIN feeds |-> IF f \in DOMAIN dirty
                   THEN [feeds[f] EXCEPT !.pulled = dirty[f].pulled, !.error = dirty[f].error] ELSE feeds[f]]

\* The row after a successful pull: last_pulled_at is the time taken before it.
PulledRow_Late(p, f) == [p.todo[f] EXCEPT !.pulled = hour, !.error = FALSE]
PulledRow_Same(p, f) == [p.todo[f] EXCEPT !.error = FALSE]
PulledRow(p, f) == [p.todo[f] EXCEPT !.pulled = p.now, !.error = FALSE]
Pulled(t, f, dirty) ==
  IF t = "manual" THEN NoPull
  ELSE [puller[t] EXCEPT !.pc = "next", !.feed = {}, !.fresh = {}, !.todo = Without(@, f),
                         !.dirty = With(dirty, f, PulledRow(puller[t], f))]

\* The pull's own commit, if it added anything, takes along what earlier turns changed.
CommitPull(t) ==
  LET p == puller[t]
  IN /\ p.pc = "commit" /\ p.fresh # {} /\ Fits(p)
     /\ listed' = listed \cup {KeyOf[a] : a \in p.fresh}
     /\ feeds' = Saved(p.dirty)
     /\ \E f \in p.feed : Pulls(t, Pulled(t, f, <<>>))
     /\ UNCHANGED <<expired, request, removed, hour, published, unasked, feedEdits, feedFaults>>

NothingFresh(t) ==
  LET p == puller[t]
  IN /\ p.pc = "commit" /\ p.fresh = {}
     /\ \E f \in p.feed : Pulls(t, Pulled(t, f, p.dirty))
     /\ UNCHANGED <<indicatorVars, hour, published, feeds, unasked, feedEdits, feedFaults>>

\* The flush fails: the rows of the session expire and need a rollback, so the handler's
\* feed.name raises as well, and the pass is over with its uncommitted changes.
BreakPull(t) ==
  /\ puller[t].pc = "commit" /\ puller[t].fresh # {} /\ ~Fits(puller[t])
  /\ Pulls(t, NoPull)
  /\ UNCHANGED <<indicatorVars, hour, published, feeds, unasked, feedEdits, feedFaults>>

EndFeedPass ==
  LET p == puller["loop"]
  IN /\ p.pc = "next" /\ p.todo = <<>>
     /\ feeds' = IF Fits(p) THEN Saved(p.dirty) ELSE feeds
     /\ Pulls("loop", NoPull)
     /\ UNCHANGED <<indicatorVars, hour, published, unasked, feedEdits, feedFaults>>

FeedsCrash ==
  /\ feedFaults < MaxFeedFaults /\ feedFaults' = feedFaults + 1
  /\ \E t \in DOMAIN puller : puller[t].pc # "idle"
  /\ puller' = [t \in DOMAIN puller |-> NoPull]
  /\ UNCHANGED <<indicatorVars, hour, published, feeds, unasked, feedEdits>>

-----------------------------------------------------------------------------
EditFeeds ==
  /\ feedEdits < MaxFeedEdits /\ feedEdits' = feedEdits + 1
  /\ \E f \in Feed, i \in Interval, on \in BOOLEAN :
       \/ /\ f \notin DOMAIN feeds /\ feeds' = With(feeds, f, NewFeed(i, on))
          /\ \A t \in DOMAIN puller : f \notin DOMAIN puller[t].todo \cup DOMAIN puller[t].dirty
       \/ f \in DOMAIN feeds /\ feeds' = With(feeds, f, [feeds[f] EXCEPT !.interval = i, !.enabled = on])
       \/ f \in DOMAIN feeds /\ feeds' = Without(feeds, f)
  /\ UNCHANGED <<indicatorVars, hour, published, puller, unasked, feedFaults>>

Publish(a) ==
  /\ a \notin DOMAIN published /\ published' = With(published, a, hour)
  /\ UNCHANGED <<indicatorVars, hour, feeds, puller, unasked, feedEdits, feedFaults>>

HourPasses == /\ hour < LastHour /\ hour' = hour + 1
              /\ UNCHANGED <<indicatorVars, published, feeds, puller, unasked, feedEdits, feedFaults>>

\* Requests commit an indicator or delete one.
TableChanges ==
  /\ \E k \in Indicator : \/ k \notin listed /\ listed' = listed \cup {k} /\ UNCHANGED <<expired, request, removed>>
                          \/ DeleteIndicator(k)
  /\ feedEdits < MaxFeedEdits /\ feedEdits' = feedEdits + 1
  /\ UNCHANGED <<hour, published, feeds, puller, unasked, feedFaults>>

PullStep(t) == AskFails(t) \/ AskFeed(t) \/ CommitPull(t) \/ NothingFresh(t) \/ BreakPull(t)
PassStep == WakeFeeds \/ TurnFeed \/ PullStep("loop") \/ EndFeedPass

FeedsNext ==
  \/ PassStep \/ PullStep("manual") \/ EditFeeds \/ FeedsCrash \/ HourPasses \/ TableChanges
  \/ \E f \in Feed : PullNow(f)
  \/ \E a \in Attribute : Publish(a)

FeedsSpec == FeedsInit /\ [][FeedsNext]_feedVars

-----------------------------------------------------------------------------
\* Every variable keeps its shape.
FeedsTypeOK ==
  /\ hour \in 0..LastHour /\ DOMAIN feeds \subseteq Feed /\ unasked \subseteq DOMAIN published
  /\ \A f \in DOMAIN feeds : feeds[f].pulled \in {NotPulled} \cup 0..hour
  /\ \A t \in DOMAIN puller :
       /\ puller[t].pc \in {"idle", "next", "ask", "commit"}
       /\ DOMAIN puller[t].todo \cup DOMAIN puller[t].dirty \subseteq Feed
       /\ puller[t].feed \subseteq DOMAIN puller[t].todo

\* What a feed published before its last_pulled_at is in the table, whatever failed, was
\* edited or ran beside the pass - unless an analyst deleted it, the page was full, or it
\* was too old for the first pull (feed_connectors/manager.py:82-94).
PulledIsListed ==
  \A f \in DOMAIN feeds : \A a \in DOMAIN published :
    FeedOf[a] = f /\ published[a] < feeds[f].pulled => KeyOf[a] \in listed \cup removed \/ a \in unasked

\* A feed whose next answer holds one new indicator twice, which no commit can write.
Poisoned == \E a, b \in DOMAIN published : a # b /\ FeedOf[a] = FeedOf[b] /\ KeyOf[a] = KeyOf[b]

\* An enabled feed that is due is pulled or shows its error, as long as no feed of the
\* pass is poisoned (feed_connectors/manager.py:71-96).
FeedsComeRound ==
  \A f \in Feed :
    LET waiting == \E g \in DOMAIN feeds : g = f /\ feeds[g].enabled /\ ~feeds[g].error /\ FeedDue(feeds[g], hour)
    IN waiting ~> ~waiting \/ Poisoned
=============================================================================
