-------------------------- MODULE ReceivingProofs --------------------------
(***************************************************************************)
(* Proofs about ConnectorPolling, BulkIngest, ThreatFeeds,                 *)
(* ThreatIndicators, SyslogQueue and KafkaConsumer, for every value of     *)
(* their constants.  No connector's watermark passes a record that was     *)
(* neither stored nor refused by itself nor kept back by its provider; the *)
(* answers of bulk requests are exact; what a feed published before its    *)
(* last_pulled_at is in the table, unless it was removed or never asked    *)
(* for; the indicators an import counted are in the table, and sessions    *)
(* hold their rows apart; a syslog message put into the queue of a         *)
(* processor that has gone came over an old connection; and the broker's   *)
(* offset never runs ahead of the messages that were handled.              *)
(***************************************************************************)
EXTENDS ConnectorPolling, BulkIngest, ThreatFeeds, SyslogQueue, KafkaConsumer,
        FiniteSetTheorems, SequenceTheorems, TLAPS

-----------------------------------------------------------------------------
(* ConnectorPolling *)

\* The shapes of PollingTypeOK but for the bound on the providers' logs, which
\* Emit keeps by a sum over the connectors and no other action needs.
PolledColumns == [last : Nat \cup {Never}, error : BOOLEAN]
PolledRow == [enabled : BOOLEAN, columns : PolledColumns]
PollerSession ==
  [pc : {"idle", "next", "asking", "storing"}, todo : SUBSET Connectors,
   at : Connectors \cup {Nowhere}, objects : [Connectors -> PolledColumns],
   dirty : SUBSET Connectors, now : Nat, fetched : SUBSET Nat, broken : BOOLEAN]

PollingTyped ==
  /\ log \in [Connectors -> Nat] /\ aged \in [Connectors -> Nat]
  /\ rows \in [Connectors -> PolledRow \cup {NoRow}]
  /\ ingested \subseteq Records
  /\ session \in [Pollers -> PollerSession]
  /\ \A p \in Pollers :
       session[p].pc \in {"asking", "storing"} => session[p].at \in Connectors

\* Every record a watermark has passed is settled.
Covered(c, last) == last # Never => \A i \in 1..last : Settled(c, i)

\* So are those up to the time a poll of the loop will note, but for the ones of
\* its answer that are still to be stored.
PollCovers(s) ==
  /\ s.pc = "asking" => s.now <= log[s.at]
  /\ s.pc = "storing" /\ ~ s.broken =>
       \A i \in 1..s.now : Settled(s.at, i) \/ i \in s.fetched

PollingInv ==
  /\ PollingTyped
  /\ \A c \in Connectors : rows[c] # NoRow => Covered(c, rows[c].columns.last)
  /\ \A p \in Pollers, c \in Connectors : Covered(c, session[p].objects[c].last)
  /\ PollCovers(session["loop"])

-----------------------------------------------------------------------------
(* What a step does to the watermarks *)

LEMMA BecomeSession ==
  ASSUME PollingTyped, NEW p \in Pollers, NEW k \in PollerSession, Become(p, k)
  PROVE  /\ session' \in [Pollers -> PollerSession] /\ session'[p] = k
         /\ \A q \in Pollers : q # p => session'[q] = session[q]
BY DEF PollingTyped, Become

\* What the sessions hold.
LEMMA SessionTyped ==
  ASSUME PollingTyped, NEW p \in Pollers
  PROVE  /\ session[p] \in PollerSession
         /\ session[p].pc \in {"idle", "next", "asking", "storing"}
         /\ session[p].todo \subseteq Connectors /\ session[p].at \in Connectors \cup {Nowhere}
         /\ session[p].objects \in [Connectors -> PolledColumns]
         /\ session[p].dirty \subseteq Connectors /\ session[p].now \in Nat
         /\ session[p].fetched \subseteq Nat
         /\ session[p].broken \in BOOLEAN
         /\ session[p].pc \in {"asking", "storing"} => session[p].at \in Connectors
BY DEF PollingTyped, PollerSession

\* What was settled stays so, and with it what the watermarks cover.
LEMMA SettledStays ==
  ASSUME unseen \subseteq unseen', ingested \subseteq ingested', NEW c, NEW i, Settled(c, i)
  PROVE  Settled(c, i)'
BY DEF Settled

LEMMA CoveredStays ==
  ASSUME unseen \subseteq unseen', ingested \subseteq ingested', NEW c, NEW last, Covered(c, last)
  PROVE  last # Never => \A i \in 1..last : Settled(c, i)'
BY SettledStays DEF Covered

\* A step of one poller that leaves the table of events alone: the invariant asks
\* for columns that are covered, in its session and in the rows.
LEMMA SessionStep ==
  ASSUME PollingInv, NEW p \in Pollers, NEW k \in PollerSession, Become(p, k),
         log' = log, aged' = aged, ingested' = ingested, unseen' = unseen,
         k.pc \in {"asking", "storing"} => k.at \in Connectors,
         \A c \in Connectors : Covered(c, k.objects[c].last),
         p = "loop" => PollCovers(k),
         rows' \in [Connectors -> PolledRow \cup {NoRow}],
         \A c \in Connectors : rows'[c] # NoRow => Covered(c, rows'[c].columns.last)
  PROVE  PollingInv'
<1>1. /\ session' \in [Pollers -> PollerSession] /\ session'[p] = k
      /\ \A q \in Pollers : q # p => session'[q] = session[q]
  BY BecomeSession DEF PollingInv
<1>2. PollingTyped'
  BY <1>1 DEF PollingInv, PollingTyped
<1>3. \A c \in Connectors : (rows[c] # NoRow => Covered(c, rows[c].columns.last))'
  BY DEF Covered, Settled
<1>4. \A q \in Pollers, c \in Connectors : Covered(c, session[q].objects[c].last)'
  BY <1>1 DEF PollingInv, Covered, Settled
<1>5. PollCovers(session["loop"])'
  BY <1>1 DEF PollingInv, PollCovers, Settled, Pollers
<1> QED BY <1>2, <1>3, <1>4, <1>5 DEF PollingInv

LEMMA IdleSession ==
  /\ Idle \in PollerSession /\ Idle.pc = "idle"
  /\ \A c \in Connectors : Idle.objects[c].last = Never
BY DEF Idle, PollerSession, NewColumns, PolledColumns

\* What a commit writes is covered if the session's columns are.
LEMMA WrittenRows ==
  ASSUME PollingInv, NEW p \in Pollers, Fresh(session[p])
  PROVE  /\ Written(session[p]) \in [Connectors -> PolledRow \cup {NoRow}]
         /\ \A c \in Connectors : Written(session[p])[c] # NoRow =>
              Covered(c, Written(session[p])[c].columns.last)
<1> DEFINE s == session[p]
<1>1. s.objects \in [Connectors -> PolledColumns]
  BY SessionTyped DEF PollingInv
<1>2. ASSUME NEW c \in Connectors, c \in s.dirty
      PROVE  /\ [rows[c] EXCEPT !.columns = s.objects[c]] \in PolledRow
             /\ [rows[c] EXCEPT !.columns = s.objects[c]].columns = s.objects[c]
  <2>1. rows[c] \in PolledRow /\ s.objects[c] \in PolledColumns
    BY <1>1, <1>2 DEF Fresh, PollingInv, PollingTyped
  <2> HIDE DEF s
  <2> QED BY <2>1 DEF PolledRow
<1>3. \A c \in Connectors : Written(s)[c] =
        IF c \in s.dirty THEN [rows[c] EXCEPT !.columns = s.objects[c]] ELSE rows[c]
  BY DEF Written
<1>4. Written(s) = [c \in Connectors |-> Written(s)[c]]
  BY DEF Written
<1>5. ASSUME NEW c \in Connectors
      PROVE  /\ Written(s)[c] \in PolledRow \cup {NoRow}
             /\ Written(s)[c] # NoRow => Covered(c, Written(s)[c].columns.last)
  <2>1. CASE c \in s.dirty
    BY <1>2, <1>3, <2>1 DEF PollingInv
  <2>2. CASE c \notin s.dirty
    BY <1>3, <2>2 DEF PollingInv, PollingTyped
  <2> QED BY <2>1, <2>2
<1> QED BY <1>4, <1>5

-----------------------------------------------------------------------------
(* The steps *)

LEMMA RowsKept ==
  ASSUME PollingInv
  PROVE  /\ rows \in [Connectors -> PolledRow \cup {NoRow}]
         /\ \A c \in Connectors : rows[c] # NoRow => Covered(c, rows[c].columns.last)
         /\ \A c \in Connectors : rows[c] # NoRow => rows[c].columns \in PolledColumns
BY DEF PollingInv, PollingTyped, PolledRow

LEMMA WakeKeeps ==
  ASSUME PollingInv, Wake
  PROVE  PollingInv'
<1> DEFINE enabled == {c \in Connectors : rows[c] # NoRow /\ rows[c].enabled}
           loaded == [c \in Connectors |-> IF c \in enabled THEN rows[c].columns ELSE NewColumns]
           k == [Idle EXCEPT !.pc = "next", !.todo = enabled, !.objects = loaded]
<1>1. Become("loop", k) /\ UNCHANGED <<log, aged, rows, ingested, unseen>>
  BY DEF Wake
<1>2. NewColumns \in PolledColumns /\ NewColumns.last = Never
  BY DEF NewColumns, PolledColumns
<1>3. /\ loaded \in [Connectors -> PolledColumns]
      /\ \A c \in Connectors : Covered(c, loaded[c].last)
  <2>1. \A c \in Connectors : loaded[c] \in PolledColumns /\ Covered(c, loaded[c].last)
    BY <1>2, RowsKept DEF Covered
  <2> QED BY <2>1
<1>4. enabled \subseteq Connectors
  OBVIOUS
<1> HIDE DEF enabled, loaded
<1>5. k \in PollerSession /\ k.pc = "next" /\ k.objects = loaded
  BY <1>3, <1>4, IdleSession DEF PollerSession
<1> HIDE DEF k
<1>6. PollCovers(k) /\ "loop" \in Pollers
  BY <1>5 DEF PollCovers, Pollers
<1> QED BY <1>1, <1>3, <1>5, <1>6, RowsKept, SessionStep

\* The session of a poller only moves: its columns are those it had.
LEMMA MoveKeeps ==
  ASSUME PollingInv, NEW p \in Pollers, NEW k \in PollerSession, Become(p, k),
         UNCHANGED <<log, aged, rows, ingested, unseen>>,
         k.objects = session[p].objects,
         k.pc \in {"asking", "storing"} => k.at \in Connectors,
         p = "loop" => PollCovers(k)
  PROVE  PollingInv'
<1>1. \A c \in Connectors : Covered(c, k.objects[c].last)
  BY DEF PollingInv
<1> QED BY <1>1, RowsKept, SessionStep

LEMMA SkipKeeps ==
  ASSUME PollingInv, NEW c \in Connectors, Skip(c)
  PROVE  PollingInv'
<1> DEFINE s == session["loop"]
           k == [s EXCEPT !.todo = @ \ {c}]
<1>1. Become("loop", k) /\ UNCHANGED <<log, aged, rows, ingested, unseen>> /\ s.pc = "next"
  BY DEF Skip, At
<1>2. s \in PollerSession /\ "loop" \in Pollers
  BY SessionTyped DEF PollingInv, Pollers
<1> HIDE DEF s
<1>3. k \in PollerSession /\ k.pc = "next" /\ k.objects = s.objects
  BY <1>1, <1>2 DEF PollerSession
<1> HIDE DEF k
<1> QED BY <1>1, <1>2, <1>3, MoveKeeps DEF PollCovers, s

LEMMA BeginPollKeeps ==
  ASSUME PollingInv, NEW c \in Connectors, BeginPoll(c)
  PROVE  PollingInv'
<1> DEFINE s == session["loop"]
           k == [s EXCEPT !.pc = "asking", !.todo = @ \ {c}, !.at = c, !.now = log[c]]
<1>1. Become("loop", k) /\ UNCHANGED <<log, aged, rows, ingested, unseen>>
  BY DEF BeginPoll
<1>2. s \in PollerSession /\ "loop" \in Pollers /\ log[c] \in Nat
  BY SessionTyped DEF PollingInv, PollingTyped, Pollers
<1> HIDE DEF s
<1>3. /\ k \in PollerSession /\ k.pc = "asking" /\ k.at = c /\ k.objects = s.objects
      /\ k.now = log[c]
  BY <1>1, <1>2 DEF PollerSession
<1> HIDE DEF k
<1>4. PollCovers(k)
  BY <1>2, <1>3 DEF PollCovers
<1> QED BY <1>1, <1>2, <1>3, <1>4, MoveKeeps DEF s

LEMMA EndPassKeeps ==
  ASSUME PollingInv, EndPass
  PROVE  PollingInv'
<1>1. /\ Become("loop", Idle) /\ UNCHANGED <<log, aged, ingested, unseen>> /\ "loop" \in Pollers
      /\ \/ rows' = rows
         \/ Fresh(session["loop"]) /\ rows' = Written(session["loop"])
  BY DEF EndPass, Pollers
<1>2. PollCovers(Idle) /\ \A c \in Connectors : Covered(c, Idle.objects[c].last)
  BY IdleSession DEF PollCovers, Covered
<1>3. /\ rows' \in [Connectors -> PolledRow \cup {NoRow}]
      /\ \A c \in Connectors : rows'[c] # NoRow => Covered(c, rows'[c].columns.last)
  BY <1>1, RowsKept, WrittenRows
<1> QED BY <1>1, <1>2, <1>3, IdleSession, SessionStep

\* What the loop asks for reaches back to the watermark, so that whatever was
\* written before its clock reading is covered, in the answer or kept back.
LEMMA AnswerKeeps ==
  ASSUME PollingInv, NEW p \in Pollers, Answer(p)
  PROVE  PollingInv'
<1> DEFINE s == session[p]
<1>1. PICK answer \in SUBSET Asked(s) :
        /\ Become(p, [s EXCEPT !.pc = "storing", !.fetched = answer])
        /\ unseen' = IF p = "loop"
                       THEN unseen \cup {<<s.at, i>> : i \in (TooOld(s) \cup (Asked(s) \ answer)) \cap (1..s.now)}
                       ELSE unseen
  BY DEF Answer
<1> DEFINE k == [s EXCEPT !.pc = "storing", !.fetched = answer]
<1>2. s.pc = "asking" /\ UNCHANGED <<log, aged, rows, ingested>>
  BY DEF Answer, At
<1>3. /\ s \in PollerSession /\ s.at \in Connectors /\ s.now \in Nat
      /\ s.objects \in [Connectors -> PolledColumns] /\ log[s.at] \in Nat
      /\ aged[s.at] \in Nat
  BY <1>2, SessionTyped DEF PollingInv, PollingTyped
<1>4. s.objects[s.at].last \in Nat \cup {Never} /\ Covered(s.at, s.objects[s.at].last)
  BY <1>3 DEF PolledColumns, PollingInv
<1> HIDE DEF s
<1>5. Asked(s) \subseteq Nat
  BY <1>3, <1>4 DEF Asked, StartTime
<1>6. /\ k \in PollerSession /\ k.pc = "storing" /\ k.at = s.at /\ k.objects = s.objects
      /\ k.now = s.now /\ k.fetched = answer
  BY <1>3, <1>5 DEF PollerSession
<1>7. Become(p, k)
  BY <1>1 DEF k
<1> HIDE DEF k
<1>8. /\ session' \in [Pollers -> PollerSession] /\ session'[p] = k
      /\ \A q \in Pollers : q # p => session'[q] = session[q]
  BY <1>6, <1>7, BecomeSession DEF PollingInv
<1>9. PollingTyped'
  BY <1>2, <1>3, <1>6, <1>8 DEF PollingInv, PollingTyped
<1>10. \A c \in Connectors, i \in Nat : Settled(c, i) => Settled(c, i)'
  BY <1>1, <1>2 DEF Settled
<1>11. \A c \in Connectors : (rows[c] # NoRow => Covered(c, rows[c].columns.last))'
  <2>1. ASSUME NEW c \in Connectors, rows[c] # NoRow
        PROVE  rows[c].columns.last \in Nat \cup {Never} /\ Covered(c, rows[c].columns.last)
    BY <2>1, RowsKept DEF PolledColumns
  <2> QED BY <1>2, <1>10, <2>1 DEF Covered
<1>12. \A q \in Pollers, c \in Connectors : Covered(c, session[q].objects[c].last)'
  <2>1. ASSUME NEW q \in Pollers, NEW c \in Connectors
        PROVE  /\ session[q].objects[c].last \in Nat \cup {Never}
               /\ Covered(c, session[q].objects[c].last)
               /\ session'[q].objects = session[q].objects
    BY <1>6, <1>8, SessionTyped DEF PollingInv, PolledColumns, s
  <2> QED BY <1>10, <2>1 DEF Covered
<1>13. PollCovers(session["loop"])'
  <2>1. CASE p # "loop"
    <3>1. session'["loop"] = session["loop"] /\ unseen' = unseen
      BY <1>1, <1>8, <2>1 DEF Pollers
    <3> QED BY <1>2, <3>1 DEF PollingInv, PollCovers, Settled
  <2>2. CASE p = "loop"
    <3>1. s.now <= log[s.at]
      BY <1>2, <2>2 DEF PollingInv, PollCovers, s
    <3>0. PICK at \in Connectors : at = s.at
      BY <1>3
    <3>2. ASSUME NEW i \in 1..s.now
          PROVE  Settled(at, i)' \/ i \in answer
      <4>1. CASE i \in Asked(s)
        <5>1. i \in answer \/ <<at, i>> \in unseen'
          BY <1>1, <2>2, <3>0, <4>1
        <5> QED BY <5>1 DEF Settled
      <4>2. CASE i \notin Asked(s)
        <5>1. i \in 1..StartTime(s) /\ i \in Nat
          <6>1. StartTime(s) \in Nat
            BY <1>3, <1>4 DEF StartTime
          <6> QED BY <1>3, <3>1, <4>2, <6>1 DEF Asked
        <5>2. CASE s.objects[s.at].last # Never
          <6>1. Settled(at, i)
            BY <1>3, <1>4, <3>0, <5>1, <5>2 DEF Covered, StartTime
          <6> QED BY <1>10, <5>1, <6>1
        <5>3. CASE s.objects[s.at].last = Never
          <6>1. i \in TooOld(s)
            BY <5>1, <5>3 DEF StartTime, TooOld
          <6>2. <<at, i>> \in unseen'
            BY <1>1, <2>2, <3>0, <6>1
          <6> QED BY <6>2 DEF Settled
        <5> QED BY <5>2, <5>3
      <4> QED BY <4>1, <4>2
    <3>3. /\ session'["loop"].pc = "storing" /\ session'["loop"].at = at
          /\ session'["loop"].now = s.now /\ session'["loop"].fetched = answer
      BY <1>6, <1>8, <2>2, <3>0
    <3> QED BY <3>2, <3>3 DEF PollCovers
  <2> QED BY <2>1, <2>2
<1> QED BY <1>9, <1>11, <1>12, <1>13 DEF PollingInv

\* The connector's turn is over: its columns are what the poll left of them.
LEMMA LeaveKeeps ==
  ASSUME PollingInv, session["loop"].at \in Connectors, NEW columns \in PolledColumns,
         Covered(session["loop"].at, columns.last),
         Become("loop", Leave(session["loop"], columns)), UNCHANGED <<log, aged, rows, ingested, unseen>>
  PROVE  PollingInv'
<1> DEFINE s == session["loop"]
           k == Leave(s, columns)
<1>1. s \in PollerSession /\ "loop" \in Pollers /\ s.objects \in [Connectors -> PolledColumns]
  BY SessionTyped DEF PollingInv, Pollers
<1>2. \A c \in Connectors : Covered(c, s.objects[c].last)
  BY <1>1 DEF PollingInv
<1> HIDE DEF s
<1>3. /\ k \in PollerSession /\ k.pc = "next"
      /\ k.objects = [s.objects EXCEPT ![s.at] = columns]
  BY <1>1 DEF Leave, PollerSession, s
<1> HIDE DEF k
<1>4. \A c \in Connectors : Covered(c, k.objects[c].last)
  BY <1>1, <1>2, <1>3 DEF s
<1>5. PollCovers(k)
  BY <1>3 DEF PollCovers
<1> QED BY <1>1, <1>3, <1>4, <1>5, RowsKept, SessionStep DEF s, k

LEMMA EndsIdle ==
  ASSUME PollingInv, NEW p \in Pollers, Become(p, Idle), UNCHANGED <<log, aged, rows, ingested, unseen>>
  PROVE  PollingInv'
<1>1. PollCovers(Idle) /\ \A c \in Connectors : Covered(c, Idle.objects[c].last)
  BY IdleSession DEF PollCovers, Covered
<1> QED BY <1>1, IdleSession, RowsKept, SessionStep

LEMMA AnswerFailsKeeps ==
  ASSUME PollingInv, NEW p \in Pollers, AnswerFails(p)
  PROVE  PollingInv'
<1> DEFINE s == session["loop"]
<1>1. /\ session[p].pc = "asking" /\ UNCHANGED <<log, aged, rows, ingested, unseen>>
      /\ Become(p, IF p = "loop" THEN Leave(session[p], Raised(session[p])) ELSE Idle)
  BY DEF AnswerFails, At
<1>2. CASE p # "loop"
  BY <1>1, <1>2, EndsIdle
<1>3. CASE p = "loop"
  <2>1. s.at \in Connectors /\ s.objects \in [Connectors -> PolledColumns]
    BY <1>1, <1>3, SessionTyped DEF PollingInv, Pollers
  <2>2. Covered(s.at, s.objects[s.at].last)
    BY <1>3, <2>1 DEF PollingInv
  <2>3. Raised(s) \in PolledColumns /\ Raised(s).last = s.objects[s.at].last
    <3>1. s.objects[s.at] \in PolledColumns
      BY <2>1
    <3> HIDE DEF s
    <3> QED BY <3>1 DEF Raised, PolledColumns
  <2> QED BY <1>1, <1>3, <2>1, <2>2, <2>3, LeaveKeeps
<1> QED BY <1>2, <1>3

LEMMA FinishPollKeeps ==
  ASSUME PollingInv, NEW p \in Pollers, FinishPoll(p)
  PROVE  PollingInv'
<1> DEFINE s == session["loop"]
<1>1. /\ session[p].pc = "storing" /\ session[p].fetched = {}
      /\ UNCHANGED <<log, aged, rows, ingested, unseen>>
      /\ Become(p, IF p = "manual" \/ session[p].broken THEN Idle
                   ELSE Leave(session[p], Polled(session[p])))
  BY DEF FinishPoll, At
<1>2. CASE p = "manual" \/ session[p].broken
  BY <1>1, <1>2, EndsIdle
<1>3. CASE p = "loop" /\ ~ s.broken
  <2>1. /\ s.at \in Connectors /\ s.objects \in [Connectors -> PolledColumns]
        /\ s.now \in Nat
    BY <1>1, <1>3, SessionTyped DEF PollingInv, Pollers
  <2>2. Covered(s.at, s.now)
    BY <1>1, <1>3 DEF PollingInv, PollCovers, Covered
  <2>3. Polled(s) \in PolledColumns /\ Polled(s).last = s.now
    <3>1. s.objects[s.at] \in PolledColumns
      BY <2>1
    <3> HIDE DEF s
    <3> QED BY <2>1, <3>1 DEF Polled, PolledColumns
  <2> QED BY <1>1, <1>3, <2>1, <2>2, <2>3, LeaveKeeps
<1> QED BY <1>2, <1>3 DEF Pollers

LEMMA StoreRecordKeeps ==
  ASSUME PollingInv, NEW p \in Pollers, NEW i \in Numbers, StoreRecord(p, i)
  PROVE  PollingInv'
<1> DEFINE s == session[p]
           r == <<s.at, i>>
<1>1. /\ s.pc = "storing" /\ i \in s.fetched /\ UNCHANGED <<log, aged, unseen>>
      /\ \/ r \in Rejects /\ Become(p, Attempted(s, i)) /\ UNCHANGED <<rows, ingested>>
         \/ /\ r \notin Poison /\ Fresh(s)
            /\ ingested' = ingested \cup {r} /\ rows' = Written(s)
            /\ Become(p, Inserted(s, i))
         \/ Become(p, Broken(s, i)) /\ UNCHANGED <<rows, ingested>>
  BY DEF StoreRecord, At
<1>2. /\ s \in PollerSession /\ s.at \in Connectors /\ r \in Records
      /\ s.objects \in [Connectors -> PolledColumns]
  BY <1>1, SessionTyped DEF PollingInv, Records
<1>3. /\ Attempted(s, i) \in PollerSession /\ Attempted(s, i).pc = "storing"
      /\ Attempted(s, i).at = s.at /\ Attempted(s, i).objects = s.objects
      /\ Attempted(s, i).now = s.now /\ Attempted(s, i).fetched = s.fetched \ {i}
      /\ Attempted(s, i).broken = s.broken
  <2> HIDE DEF s
  <2> QED BY <1>1, <1>2 DEF Attempted, PollerSession
<1>4. /\ Inserted(s, i) \in PollerSession /\ Inserted(s, i).pc = "storing"
      /\ Inserted(s, i).at = s.at /\ Inserted(s, i).objects = s.objects
      /\ Inserted(s, i).now = s.now /\ Inserted(s, i).fetched = s.fetched \ {i}
      /\ Inserted(s, i).broken = s.broken
  <2> HIDE DEF s
  <2> QED BY <1>1, <1>2 DEF Inserted, PollerSession
<1>5. /\ Broken(s, i) \in PollerSession /\ Broken(s, i).pc = "storing"
      /\ Broken(s, i).at = s.at /\ Broken(s, i).objects = s.objects /\ Broken(s, i).broken
  <2> HIDE DEF s
  <2> QED BY <1>1, <1>2 DEF Broken, PollerSession
<1>6. CASE r \in Rejects /\ Become(p, Attempted(s, i)) /\ UNCHANGED <<rows, ingested>>
  <2>1. ASSUME p = "loop"
        PROVE  PollCovers(Attempted(s, i))
    <3>1. PollCovers(s)
      BY <2>1 DEF PollingInv
    <3>2. Settled(s.at, i)
      BY <1>6 DEF Settled
    <3> QED BY <1>1, <1>3, <3>1, <3>2 DEF PollCovers
  <2> QED BY <1>1, <1>2, <1>3, <1>6, <2>1, MoveKeeps
<1>7. CASE Become(p, Broken(s, i)) /\ UNCHANGED <<rows, ingested>>
  <2>1. PollCovers(Broken(s, i))
    BY <1>5 DEF PollCovers
  <2> QED BY <1>1, <1>2, <1>5, <1>7, <2>1, MoveKeeps
<1>8. CASE /\ r \notin Poison /\ Fresh(s)
           /\ ingested' = ingested \cup {r} /\ rows' = Written(s)
           /\ Become(p, Inserted(s, i))
  <2>1. PICK at \in Connectors : at = s.at
    BY <1>2
  <2>2. ingested' \subseteq Records /\ ingested \subseteq ingested' /\ <<at, i>> \in ingested'
    BY <1>2, <1>8, <2>1 DEF PollingInv, PollingTyped
  <2>3. Settled(at, i)' /\ \A c, n : Settled(c, n) => Settled(c, n)'
    BY <1>1, <1>2, <2>1, <2>2, SettledStays DEF PollingInv, Settled
  <2>4. \A c, last : Covered(c, last) => (last # Never => \A n \in 1..last : Settled(c, n)')
    BY <2>3 DEF Covered
  <2>5. /\ rows' \in [Connectors -> PolledRow \cup {NoRow}]
        /\ \A c \in Connectors : rows'[c] # NoRow => Covered(c, rows'[c].columns.last)
    BY <1>8, WrittenRows
  <2>6. /\ session' \in [Pollers -> PollerSession] /\ session'[p] = Inserted(s, i)
        /\ \A q \in Pollers : q # p => session'[q] = session[q]
    BY <1>4, <1>8, BecomeSession DEF PollingInv
  <2>7. \A q \in Pollers : session'[q].objects = session[q].objects
    BY <1>4, <2>6
  <2>8. PollingTyped'
    BY <1>1, <1>2, <1>4, <2>2, <2>5, <2>6 DEF PollingInv, PollingTyped
  <2>9. \A c \in Connectors : (rows[c] # NoRow => Covered(c, rows[c].columns.last))'
    <3>1. \A c \in Connectors : rows'[c] # NoRow => (rows'[c].columns.last # Never =>
            \A n \in 1..(rows'[c].columns.last) : Settled(c, n)')
      BY <2>4, <2>5
    <3> QED BY <3>1 DEF Covered
  <2>10. \A q \in Pollers, c \in Connectors : Covered(c, session[q].objects[c].last)'
    <3>1. \A q \in Pollers, c \in Connectors : session[q].objects[c].last # Never =>
            \A n \in 1..(session[q].objects[c].last) : Settled(c, n)'
      BY <2>4 DEF PollingInv
    <3> QED BY <2>7, <3>1 DEF Covered
  <2>11. PollCovers(session["loop"])'
    <3>1. PollCovers(session["loop"])
      BY DEF PollingInv
    <3>2. CASE p # "loop"
      <4>1. session'["loop"] = session["loop"] /\ log' = log
        BY <1>1, <2>6, <3>2 DEF Pollers
      <4>2. \A c, n : Settled(c, n) => Settled(c, n)'
        BY <2>3
      <4>3. PICK other : other = session["loop"]
        OBVIOUS
      <4>4. PollCovers(other) /\ session'["loop"] = other
        BY <3>1, <4>1, <4>3
      <4>5. PollCovers(other)'
        BY <4>1, <4>2, <4>4 DEF PollCovers
      <4> QED BY <4>4, <4>5 DEF PollCovers
    <3>3. CASE p = "loop"
      <4>1. \A n \in 1..s.now : s.broken \/ Settled(at, n) \/ n \in s.fetched
        BY <1>1, <2>1, <3>1, <3>3 DEF PollCovers
      <4>2. \A n \in 1..s.now : s.broken \/ Settled(at, n)' \/ n \in s.fetched \ {i}
        BY <2>3, <4>1
      <4>3. /\ session'["loop"].pc = "storing" /\ session'["loop"].at = at
            /\ session'["loop"].now = s.now /\ session'["loop"].fetched = s.fetched \ {i}
            /\ session'["loop"].broken = s.broken
        BY <1>4, <2>1, <2>6, <3>3
      <4> QED BY <4>2, <4>3 DEF PollCovers
    <3> QED BY <3>2, <3>3
  <2> QED BY <2>8, <2>9, <2>10, <2>11 DEF PollingInv
<1> QED BY <1>1, <1>6, <1>7, <1>8

LEMMA PollNowKeeps ==
  ASSUME PollingInv, NEW c \in Connectors, PollNow(c)
  PROVE  PollingInv'
<1> DEFINE loaded == [Idle.objects EXCEPT ![c] = rows[c].columns]
           k == [Idle EXCEPT !.pc = "asking", !.at = c, !.objects = loaded]
<1>1. /\ Become("manual", [Idle EXCEPT !.pc = "asking", !.at = c, !.objects[c] = rows[c].columns])
      /\ UNCHANGED <<log, aged, rows, ingested, unseen>> /\ rows[c] # NoRow /\ "manual" \in Pollers
  BY DEF PollNow, Pollers
<1>2. [Idle EXCEPT !.pc = "asking", !.at = c, !.objects[c] = rows[c].columns] = k
  BY DEF Idle
<1>3. Idle.objects \in [Connectors -> PolledColumns] /\ rows[c].columns \in PolledColumns
  BY <1>1, IdleSession, RowsKept DEF PollerSession
<1>4. loaded \in [Connectors -> PolledColumns] /\ \A d \in Connectors : Covered(d, loaded[d].last)
  BY <1>1, <1>3, IdleSession, RowsKept DEF Covered
<1> HIDE DEF loaded
<1>5. k \in PollerSession /\ k.at = c /\ k.objects = loaded
  BY <1>4, IdleSession DEF PollerSession
<1> HIDE DEF k
<1> QED BY <1>1, <1>2, <1>4, <1>5, RowsKept, SessionStep

\* Rows that are edited or deleted keep their watermarks.
LEMMA RowsEditedKeep ==
  ASSUME PollingInv, UNCHANGED <<log, aged, ingested, session, unseen>>,
         rows' \in [Connectors -> PolledRow \cup {NoRow}],
         \A c \in Connectors : rows'[c] # NoRow => rows[c] # NoRow /\ rows'[c].columns = rows[c].columns
  PROVE  PollingInv'
<1>1. PollingTyped'
  BY DEF PollingInv, PollingTyped
<1>2. \A c \in Connectors : (rows[c] # NoRow => Covered(c, rows[c].columns.last))'
  BY DEF PollingInv, Covered, Settled
<1>3. \A q \in Pollers, c \in Connectors : Covered(c, session[q].objects[c].last)'
  BY DEF PollingInv, Covered, Settled
<1>4. PollCovers(session["loop"])'
  BY DEF PollingInv, PollCovers, Settled
<1> QED BY <1>1, <1>2, <1>3, <1>4 DEF PollingInv

LEMMA EditsKeep ==
  ASSUME PollingInv, NEW c \in Connectors, UpdateConnector(c) \/ DeleteConnector(c)
  PROVE  PollingInv'
<1>1. CASE UpdateConnector(c)
  <2>1. /\ rows[c] # NoRow /\ rows[c] \in PolledRow /\ UNCHANGED <<log, aged, ingested, session, unseen>>
        /\ rows' = [rows EXCEPT ![c].enabled = ~ @]
    BY <1>1 DEF UpdateConnector, PollingInv, PollingTyped
  <2> DEFINE row == [rows[c] EXCEPT !.enabled = ~ @]
  <2>2. row \in PolledRow /\ row.columns = rows[c].columns
    BY <2>1 DEF PolledRow
  <2>3. rows' = [rows EXCEPT ![c] = row]
    BY <2>1
  <2> HIDE DEF row
  <2>4. /\ rows' \in [Connectors -> PolledRow \cup {NoRow}] /\ rows'[c] = row
        /\ \A d \in Connectors : d # c => rows'[d] = rows[d]
    BY <2>2, <2>3 DEF PollingInv, PollingTyped
  <2> QED BY <2>1, <2>2, <2>4, RowsEditedKeep
<1>2. CASE DeleteConnector(c)
  <2>1. /\ rows' = [rows EXCEPT ![c] = NoRow] /\ UNCHANGED <<log, aged, ingested, session, unseen>>
    BY <1>2 DEF DeleteConnector
  <2>2. /\ rows' \in [Connectors -> PolledRow \cup {NoRow}] /\ rows'[c] = NoRow
        /\ \A d \in Connectors : d # c => rows'[d] = rows[d]
    BY <2>1 DEF PollingInv, PollingTyped
  <2> QED BY <2>1, <2>2, RowsEditedKeep
<1> QED BY <1>1, <1>2

LEMMA EmitKeeps ==
  ASSUME PollingInv, NEW c \in Connectors, Emit(c)
  PROVE  PollingInv'
<1>1. log' = [log EXCEPT ![c] = @ + 1] /\ UNCHANGED <<aged, rows, ingested, session, unseen>>
  BY DEF Emit
<1>2. log' \in [Connectors -> Nat] /\ \A d \in Connectors : log[d] <= log'[d] /\ log[d] \in Nat
  BY <1>1 DEF PollingInv, PollingTyped
<1>3. PollingTyped'
  BY <1>1, <1>2 DEF PollingInv, PollingTyped
<1>4. \A d \in Connectors : (rows[d] # NoRow => Covered(d, rows[d].columns.last))'
  BY <1>1 DEF PollingInv, Covered, Settled
<1>5. \A q \in Pollers, d \in Connectors : Covered(d, session[q].objects[d].last)'
  BY <1>1 DEF PollingInv, Covered, Settled
<1>6. PollCovers(session["loop"])'
  <2>1. /\ session["loop"].pc = "asking" => session["loop"].at \in Connectors
        /\ session["loop"].now \in Nat
    BY SessionTyped DEF PollingInv, Pollers
  <2>2. session["loop"].pc = "asking" => session["loop"].now <= log'[session["loop"].at]
    BY <1>2, <2>1 DEF PollingInv, PollCovers
  <2> QED BY <1>1, <2>2 DEF PollingInv, PollCovers, Settled
<1> QED BY <1>3, <1>4, <1>5, <1>6 DEF PollingInv

LEMMA AgeKeeps ==
  ASSUME PollingInv, NEW c \in Connectors, Age(c)
  PROVE  PollingInv'
<1>1. aged' = [aged EXCEPT ![c] = @ + 1] /\ UNCHANGED <<log, rows, ingested, session, unseen>>
  BY DEF Age
<1>2. PollingTyped'
  BY <1>1 DEF PollingInv, PollingTyped
<1> QED BY <1>1, <1>2 DEF PollingInv, Covered, Settled, PollCovers

LEMMA PollingCrashKeeps ==
  ASSUME PollingInv, Crash
  PROVE  PollingInv'
<1>1. session' = [p \in Pollers |-> Idle] /\ UNCHANGED <<log, aged, rows, ingested, unseen>>
  BY DEF Crash
<1>2. PollingTyped'
  BY <1>1, IdleSession DEF PollingInv, PollingTyped
<1>3. \A d \in Connectors : (rows[d] # NoRow => Covered(d, rows[d].columns.last))'
  BY <1>1 DEF PollingInv, Covered, Settled
<1>4. \A q \in Pollers, d \in Connectors : Covered(d, session[q].objects[d].last)'
  BY <1>1, IdleSession DEF Covered
<1>5. PollCovers(session["loop"])'
  BY <1>1, IdleSession DEF PollCovers, Pollers
<1> QED BY <1>2, <1>3, <1>4, <1>5 DEF PollingInv

LEMMA PollingKeeps == PollingInv /\ [PollingNext]_pollingVars => PollingInv'
<1> SUFFICES ASSUME PollingInv, [PollingNext]_pollingVars
             PROVE  PollingInv'
  OBVIOUS
<1>1. CASE LoopStep
  BY <1>1, WakeKeeps, SkipKeeps, EndPassKeeps, BeginPollKeeps DEF LoopStep
<1>2. ASSUME NEW p \in Pollers, PollStep(p)
      PROVE  PollingInv'
  BY <1>2, AnswerKeeps, AnswerFailsKeeps, FinishPollKeeps, StoreRecordKeeps DEF PollStep
<1>3. ASSUME NEW c \in Connectors,
             PollNow(c) \/ UpdateConnector(c) \/ DeleteConnector(c) \/ Emit(c) \/ Age(c)
      PROVE  PollingInv'
  BY <1>3, PollNowKeeps, EditsKeep, EmitKeeps, AgeKeeps
<1>4. CASE Crash
  BY <1>4, PollingCrashKeeps
<1>5. CASE UNCHANGED pollingVars
  <2>1. UNCHANGED <<log, aged, rows, ingested, session, unseen>>
    BY <1>5 DEF pollingVars
  <2> QED BY <2>1, RowsKept, RowsEditedKeep
<1> QED BY <1>1, <1>2, <1>3, <1>4, <1>5 DEF PollingNext

LEMMA PollingStarts == PollingInit => PollingInv
<1> SUFFICES ASSUME PollingInit
             PROVE  PollingInv
  OBVIOUS
<1>1. NewColumns \in PolledColumns /\ NewColumns.last = Never
  BY DEF NewColumns, PolledColumns
<1>2. \A c \in Connectors : rows[c] \in PolledRow /\ rows[c].columns.last = Never
  BY <1>1 DEF PollingInit, PolledRow
<1>3. PollingTyped
  BY <1>2, IdleSession DEF PollingInit, PollingTyped
<1>4. \A p \in Pollers : session[p] = Idle
  BY DEF PollingInit
<1>5. PollCovers(session["loop"])
  BY <1>4, IdleSession DEF PollCovers, Pollers
<1> QED BY <1>2, <1>3, <1>4, <1>5, IdleSession DEF PollingInv, Covered

\* The watermark of a connector passes a record only when it was stored, was rejected by
\* itself, was never shown or was too old for the first poll, whatever fails in the pass
\* (manager.py 83-91, gcp_logging.py 42).
THEOREM NoRecordIsSkipped == PollingSpec => []NothingSkipped
<1>1. PollingInv => NothingSkipped
  BY DEF PollingInv, Covered, Settled, NothingSkipped
<1>2. PollingSpec => []PollingInv
  BY PollingStarts, PollingKeeps, PTL DEF PollingSpec
<1> QED BY <1>1, <1>2, PTL

-----------------------------------------------------------------------------
(* BulkIngest *)

UploadRow ==
  [pc : {"idle", "event", "asset", "answered", "refused", "lost"}, at : Nat \ {0},
   stored : Nat, errors : Nat, added : SUBSET Host, broken : BOOLEAN]

Refused(u, n) == {m \in DOMAIN Content[u] : m < n /\ Content[u][m] \in Unparsable}

\* Where a request is, and what it has counted so far.
Counts(u) ==
  LET k == upload[u]
  IN /\ uploaded[u] = k.stored
     /\ k.pc = "idle" => k.stored = 0
     /\ k.pc \in {"event", "asset"} => k.at <= Len(Content[u])
     /\ k.pc = "asset" => This(u) \notin Unparsable
     /\ k.pc = "answered" => k.at = Len(Content[u]) + 1
     /\ u \notin met /\ uploadFaults = 0 =>
          /\ k.pc = "asset" => k.added \cap hosts = {}
          /\ k.pc \in {"event", "asset", "answered"} =>
               ~ k.broken /\ k.errors = Cardinality(Refused(u, k.at))

UploadInv ==
  /\ hosts \subseteq Host /\ met \subseteq Upload /\ uploadFaults \in Nat
  /\ uploaded \in [Upload -> Nat] /\ upload \in [Upload -> UploadRow]
  /\ \A u \in Upload : Counts(u)

LEMMA TurnsRow ==
  ASSUME UploadInv, NEW u \in Upload, NEW k \in UploadRow, Turns(u, k)
  PROVE  /\ upload' \in [Upload -> UploadRow] /\ upload'[u] = k
         /\ \A v \in Upload : v # u => upload'[v] = upload[v]
BY DEF UploadInv, Turns

LEMMA NoUploadRow ==
  /\ NoUpload \in UploadRow /\ NoUpload.pc = "idle" /\ NoUpload.at = 1 /\ NoUpload.stored = 0
  /\ NoUpload.errors = 0 /\ NoUpload.broken = FALSE /\ NoUpload.added = {}
BY DEF NoUpload, UploadRow

LEMMA ContentLines ==
  ASSUME NEW u \in Upload
  PROVE  /\ DOMAIN Content[u] = 1..Len(Content[u]) /\ Len(Content[u]) \in Nat
         /\ \A n \in 1..Len(Content[u]) : Content[u][n] \in AllLines
BY UploadAssumption

\* The next line, or the answer.
LEMMA ProceedRow ==
  ASSUME NEW u \in Upload, NEW row \in UploadRow
  PROVE  /\ Proceed(u, row) \in UploadRow /\ Proceed(u, row).at = row.at + 1
         /\ Proceed(u, row).pc = IF upload[u].at = Len(Content[u]) THEN "answered" ELSE "event"
         /\ Proceed(u, row).stored = row.stored /\ Proceed(u, row).errors = row.errors
         /\ Proceed(u, row).broken = row.broken
<1>1. row.at + 1 \in Nat \ {0}
  BY DEF UploadRow
<1> QED BY <1>1 DEF Proceed, UploadRow

LEMMA ErrorRow ==
  ASSUME NEW u \in Upload, NEW row \in UploadRow
  PROVE  /\ Error(u, row) \in UploadRow /\ Error(u, row).at = row.at + 1
         /\ Error(u, row).pc = IF upload[u].at = Len(Content[u]) THEN "answered" ELSE "event"
         /\ Error(u, row).stored = row.stored /\ Error(u, row).errors = row.errors + 1
         /\ Error(u, row).broken = row.broken
<1> DEFINE k == [row EXCEPT !.errors = @ + 1]
<1>1. row.errors + 1 \in Nat
  BY DEF UploadRow
<1>2. /\ k \in UploadRow /\ k.at = row.at /\ k.stored = row.stored /\ k.errors = row.errors + 1
      /\ k.broken = row.broken
  BY <1>1 DEF UploadRow
<1>3. Error(u, row) = Proceed(u, k)
  BY DEF Error
<1> HIDE DEF k
<1> QED BY <1>2, <1>3, ProceedRow

\* A line more counts if it cannot be parsed.
LEMMA RefusedGrows ==
  ASSUME NEW u \in Upload, NEW n \in 1..Len(Content[u])
  PROVE  /\ Cardinality(Refused(u, n)) \in Nat
         /\ Content[u][n] \in Unparsable =>
              Cardinality(Refused(u, n + 1)) = Cardinality(Refused(u, n)) + 1
         /\ Content[u][n] \notin Unparsable => Refused(u, n + 1) = Refused(u, n)
<1>1. n \in Nat /\ DOMAIN Content[u] = 1..Len(Content[u]) /\ Len(Content[u]) \in Nat
  BY ContentLines
<1>2. IsFiniteSet(DOMAIN Content[u])
  BY <1>1, FS_Interval
<1>3. IsFiniteSet(Refused(u, n)) /\ n \notin Refused(u, n)
  BY <1>1, <1>2, FS_Subset DEF Refused
<1>4. CASE Content[u][n] \in Unparsable
  <2>1. Refused(u, n + 1) = Refused(u, n) \cup {n}
    BY <1>1, <1>4 DEF Refused
  <2> QED BY <1>3, <1>4, <2>1, FS_AddElement, FS_CardinalityType
<1>5. CASE Content[u][n] \notin Unparsable
  <2>1. Refused(u, n + 1) = Refused(u, n)
    BY <1>1, <1>5 DEF Refused
  <2> QED BY <1>3, <1>5, <2>1, FS_CardinalityType
<1> QED BY <1>4, <1>5

\* A request that neither moves nor meets another keeps its counts.
LEMMA CountsStay ==
  ASSUME NEW u \in Upload, Counts(u), upload'[u] = upload[u], uploaded'[u] = uploaded[u],
         u \in met => u \in met', uploadFaults' = 0 => uploadFaults = 0,
         u \notin met' /\ upload[u].pc = "asset" => upload[u].added \cap hosts' \subseteq hosts
  PROVE  Counts(u)'
BY DEF Counts, This, Refused

LEMMA BeginUploadKeeps ==
  ASSUME UploadInv, NEW u \in Upload, BeginUpload(u)
  PROVE  UploadInv'
<1> DEFINE first == IF Len(Content[u]) > MaxBatch THEN "refused"
                    ELSE IF Content[u] = <<>> THEN "answered" ELSE "event"
           k == [NoUpload EXCEPT !.pc = first]
<1>1. /\ Turns(u, k) /\ upload[u].pc = "idle" /\ UNCHANGED <<uploaded, hosts, met, uploadFaults>>
  BY DEF BeginUpload
<1>2. /\ first \in {"refused", "answered", "event"}
      /\ first = "answered" => Len(Content[u]) = 0
      /\ first = "event" => Len(Content[u]) >= 1
  BY ContentLines, UploadAssumption
<1> HIDE DEF first
<1>3. /\ k \in UploadRow /\ k.pc = first /\ k.at = 1 /\ k.stored = 0 /\ k.errors = 0 /\ ~ k.broken
  BY <1>2, NoUploadRow DEF UploadRow
<1> HIDE DEF k
<1>4. /\ upload' \in [Upload -> UploadRow] /\ upload'[u] = k
      /\ \A v \in Upload : v # u => upload'[v] = upload[v]
  BY <1>1, <1>3, TurnsRow
<1>5. \A v \in Upload : v # u => Counts(v)'
  BY <1>1, <1>4, CountsStay DEF UploadInv
<1>6. Counts(u)'
  <2>1. uploaded'[u] = 0
    BY <1>1 DEF UploadInv, Counts
  <2>2. Cardinality(Refused(u, 1)) = 0
    <3>1. Refused(u, 1) = {}
      BY ContentLines DEF Refused
    <3> QED BY <3>1, FS_EmptySet
  <2>3. /\ upload'[u].pc = first /\ upload'[u].at = 1 /\ upload'[u].stored = 0
        /\ upload'[u].errors = 0 /\ ~ upload'[u].broken
    BY <1>3, <1>4
  <2>4. Refused(u, upload[u].at)' = Refused(u, 1)
    BY <2>3 DEF Refused
  <2>5. upload'[u].pc = "event" => upload'[u].at <= Len(Content[u])
    BY <1>2, <2>3
  <2>6. upload'[u].pc = "answered" => upload'[u].at = Len(Content[u]) + 1
    BY <1>2, <2>3
  <2> QED BY <1>2, <2>1, <2>2, <2>3, <2>4, <2>5, <2>6 DEF Counts
<1> QED BY <1>1, <1>4, <1>5, <1>6 DEF UploadInv

\* An event that counts as an error: it cannot be parsed, or something is in
\* its way that the answer need not account for.
LEMMA ErrorKeeps ==
  ASSUME UploadInv, NEW u \in Upload, NEW row \in UploadRow, Turns(u, Error(u, row)),
         upload[u].pc \in {"event", "asset"}, row.at = upload[u].at, row.stored = upload[u].stored,
         UNCHANGED <<uploaded, hosts, met>>, uploadFaults' \in Nat,
         uploadFaults' = 0 => uploadFaults = 0,
         u \notin met /\ uploadFaults' = 0 =>
           /\ This(u) \in Unparsable /\ row.broken = upload[u].broken
           /\ row.errors = upload[u].errors
  PROVE  UploadInv'
<1> DEFINE k == Error(u, row)
<1>1. /\ k \in UploadRow /\ k.at = upload[u].at + 1
      /\ k.pc = IF upload[u].at = Len(Content[u]) THEN "answered" ELSE "event"
      /\ k.stored = upload[u].stored /\ k.errors = row.errors + 1 /\ k.broken = row.broken
  BY ErrorRow
<1> HIDE DEF k
<1>2. /\ upload' \in [Upload -> UploadRow] /\ upload'[u] = k
      /\ \A v \in Upload : v # u => upload'[v] = upload[v]
  BY <1>1, TurnsRow DEF k
<1>3. \A v \in Upload : v # u => Counts(v)'
  BY <1>2, CountsStay DEF UploadInv
<1>4. /\ Counts(u) /\ upload[u].at \in 1..Len(Content[u]) /\ Len(Content[u]) \in Nat
  BY ContentLines DEF UploadInv, Counts, UploadRow
<1>5. ASSUME u \notin met, uploadFaults' = 0
      PROVE  ~ k.broken /\ k.errors = Cardinality(Refused(u, upload[u].at + 1))
  <2>1. ~ upload[u].broken /\ upload[u].errors = Cardinality(Refused(u, upload[u].at))
    BY <1>4, <1>5 DEF Counts
  <2> QED BY <1>1, <1>4, <1>5, <2>1, RefusedGrows DEF This
<1>6. k.pc = "event" => k.at <= Len(Content[u])
  BY <1>1, <1>4
<1>7. k.pc = "answered" => k.at = Len(Content[u]) + 1
  BY <1>1
<1>8. uploaded'[u] = k.stored /\ k.pc \in {"event", "answered"}
  BY <1>1, <1>4 DEF Counts
<1>9. Counts(u)'
  BY <1>1, <1>2, <1>5, <1>6, <1>7, <1>8 DEF Counts, Refused
<1> QED BY <1>2, <1>3, <1>9 DEF UploadInv

LEMMA FlushEventKeeps ==
  ASSUME UploadInv, NEW u \in Upload, FlushEvent(u)
  PROVE  UploadInv'
<1> DEFINE k == [upload[u] EXCEPT !.pc = "asset", !.added = Unknown(u)]
<1>1. /\ Turns(u, k) /\ UNCHANGED <<uploaded, hosts, met, uploadFaults>>
      /\ upload[u].pc = "event" /\ This(u) \notin Unparsable
  BY DEF FlushEvent
<1>2. /\ Counts(u) /\ upload[u] \in UploadRow /\ upload[u].at \in 1..Len(Content[u])
  BY <1>1, ContentLines DEF UploadInv, Counts, UploadRow
<1>3. Unknown(u) \subseteq Host /\ Unknown(u) \cap hosts = {}
  BY <1>2, ContentLines, UploadAssumption DEF Unknown, This
<1>4. /\ k \in UploadRow /\ k.pc = "asset" /\ k.added = Unknown(u) /\ k.at = upload[u].at
      /\ k.stored = upload[u].stored /\ k.errors = upload[u].errors /\ k.broken = upload[u].broken
  BY <1>2, <1>3 DEF UploadRow
<1> HIDE DEF k
<1>5. /\ upload' \in [Upload -> UploadRow] /\ upload'[u] = k
      /\ \A v \in Upload : v # u => upload'[v] = upload[v]
  BY <1>1, <1>4, TurnsRow
<1>6. \A v \in Upload : v # u => Counts(v)'
  BY <1>1, <1>5, CountsStay DEF UploadInv
<1>7. Counts(u)'
  BY <1>1, <1>2, <1>3, <1>4, <1>5 DEF Counts, This, Refused
<1> QED BY <1>1, <1>5, <1>6, <1>7 DEF UploadInv

LEMMA CommitEventKeeps ==
  ASSUME UploadInv, NEW u \in Upload, CommitEvent(u)
  PROVE  UploadInv'
<1> DEFINE row == [upload[u] EXCEPT !.stored = @ + 1]
           k == Proceed(u, row)
<1>1. /\ Turns(u, k) /\ upload[u].pc = "asset" /\ hosts' = hosts \cup upload[u].added
      /\ uploaded' = [uploaded EXCEPT ![u] = @ + 1] /\ uploadFaults' = uploadFaults
      /\ met' = met \cup {v \in Upload \ {u} : upload[v].pc = "asset" /\ upload[v].added \cap upload[u].added # {}}
  BY DEF CommitEvent
<1>2. /\ Counts(u) /\ upload[u] \in UploadRow /\ upload[u].at \in 1..Len(Content[u])
      /\ This(u) \notin Unparsable /\ uploaded[u] \in Nat /\ Len(Content[u]) \in Nat
  BY <1>1, ContentLines DEF UploadInv, Counts, UploadRow
<1>3. /\ row \in UploadRow /\ row.at = upload[u].at /\ row.stored = upload[u].stored + 1
      /\ row.errors = upload[u].errors /\ row.broken = upload[u].broken
  <2>1. upload[u].stored + 1 \in Nat
    BY <1>2 DEF UploadRow
  <2> QED BY <1>2, <2>1 DEF UploadRow
<1> HIDE DEF row
<1>4. /\ k \in UploadRow /\ k.at = upload[u].at + 1
      /\ k.pc = IF upload[u].at = Len(Content[u]) THEN "answered" ELSE "event"
      /\ k.stored = upload[u].stored + 1 /\ k.errors = upload[u].errors
      /\ k.broken = upload[u].broken
  BY <1>3, ProceedRow
<1> HIDE DEF k
<1>5. /\ upload' \in [Upload -> UploadRow] /\ upload'[u] = k
      /\ \A v \in Upload : v # u => upload'[v] = upload[v]
  BY <1>1, <1>4, TurnsRow
<1>6. /\ uploaded' \in [Upload -> Nat] /\ uploaded'[u] = uploaded[u] + 1
      /\ \A v \in Upload : v # u => uploaded'[v] = uploaded[v]
  BY <1>1, <1>2 DEF UploadInv
<1>7. hosts' \subseteq Host /\ met' \subseteq Upload /\ (u \in met' <=> u \in met)
  BY <1>1, <1>2 DEF UploadInv, UploadRow
<1>8. ASSUME NEW v \in Upload, v # u
      PROVE  Counts(v)'
  <2>1. v \notin met' /\ upload[v].pc = "asset" => upload[v].added \cap hosts' \subseteq hosts
    BY <1>1, <1>8
  <2> QED BY <1>1, <1>5, <1>6, <1>8, <2>1, CountsStay DEF UploadInv
<1>9. Counts(u)'
  <2>1. ASSUME u \notin met, uploadFaults = 0
        PROVE  ~ k.broken /\ k.errors = Cardinality(Refused(u, upload[u].at + 1))
    <3>1. ~ upload[u].broken /\ upload[u].errors = Cardinality(Refused(u, upload[u].at))
      BY <1>1, <1>2, <2>1 DEF Counts
    <3>2. Refused(u, upload[u].at + 1) = Refused(u, upload[u].at)
      BY <1>2, RefusedGrows DEF This
    <3> QED BY <1>4, <3>1, <3>2
  <2>2. uploaded'[u] = k.stored
    BY <1>2, <1>4, <1>6 DEF Counts
  <2>3. k.pc = "event" => k.at <= Len(Content[u])
    BY <1>2, <1>4
  <2>4. k.pc = "answered" => k.at = Len(Content[u]) + 1
    BY <1>4
  <2>5. k.pc \in {"event", "answered"}
    BY <1>4
  <2> QED BY <1>1, <1>4, <1>5, <1>7, <2>1, <2>2, <2>3, <2>4, <2>5 DEF Counts, Refused
<1> QED BY <1>1, <1>5, <1>6, <1>7, <1>8, <1>9 DEF UploadInv

LEMMA UploadKeeps == UploadInv /\ [UploadNext]_uploadVars => UploadInv'
<1> SUFFICES ASSUME UploadInv, [UploadNext]_uploadVars
             PROVE  UploadInv'
  OBVIOUS
<1>1. ASSUME NEW u \in Upload, RefuseLine(u)
      PROVE  UploadInv'
  <2>1. /\ Turns(u, Error(u, upload[u])) /\ upload[u].pc = "event"
        /\ This(u) \in Unparsable \/ upload[u].broken
        /\ UNCHANGED <<uploaded, hosts, met, uploadFaults>>
    BY <1>1 DEF RefuseLine
  <2>2. upload[u] \in UploadRow /\ uploadFaults \in Nat
    BY DEF UploadInv
  <2>3. u \notin met /\ uploadFaults = 0 => ~ upload[u].broken
    BY <2>1 DEF UploadInv, Counts
  <2> QED BY <2>1, <2>2, <2>3, ErrorKeeps
<1>2. ASSUME NEW u \in Upload, ClashEvent(u) \/ FailEvent(u)
      PROVE  UploadInv'
  <2> DEFINE row == [upload[u] EXCEPT !.broken = TRUE]
  <2>1. /\ Turns(u, Error(u, row)) /\ upload[u].pc \in {"event", "asset"}
        /\ UNCHANGED <<uploaded, hosts, met>>
        /\ \/ upload[u].pc = "asset" /\ upload[u].added \cap hosts # {} /\ uploadFaults' = uploadFaults
           \/ uploadFaults' = uploadFaults + 1
    BY <1>2 DEF ClashEvent, FailEvent
  <2>2. /\ row \in UploadRow /\ row.at = upload[u].at /\ row.stored = upload[u].stored
        /\ uploadFaults \in Nat
    BY DEF UploadInv, UploadRow
  <2>3. uploadFaults' \in Nat /\ (uploadFaults' = 0 => uploadFaults = 0)
    BY <2>1, <2>2
  <2>4. ~ (u \notin met /\ uploadFaults' = 0)
    BY <2>1, <2>2 DEF UploadInv, Counts
  <2> HIDE DEF row
  <2> QED BY <2>1, <2>2, <2>3, <2>4, ErrorKeeps
<1>3. CASE UploadCrash
  <2>0. uploadFaults' = uploadFaults + 1 /\ uploadFaults \in Nat
    BY <1>3 DEF UploadCrash, UploadInv
  <2>1. /\ UNCHANGED <<uploaded, hosts, met>>
        /\ upload' = [u \in Upload |-> IF upload[u].pc \in {"event", "asset"}
                        THEN [upload[u] EXCEPT !.pc = "lost", !.added = {}] ELSE upload[u]]
    BY <1>3 DEF UploadCrash, UploadInv
  <2>2. uploadFaults' \in Nat /\ uploadFaults' # 0
    BY <2>0
  <2>3. ASSUME NEW u \in Upload
        PROVE  /\ upload'[u] \in UploadRow /\ Counts(u)'
    <3>1. upload[u] \in UploadRow /\ Counts(u)
      BY DEF UploadInv
    <3>2. CASE upload[u].pc \in {"event", "asset"}
      <4> DEFINE k == [upload[u] EXCEPT !.pc = "lost", !.added = {}]
      <4>1. k \in UploadRow /\ k.pc = "lost" /\ k.stored = upload[u].stored
        BY <3>1 DEF UploadRow
      <4>2. upload'[u] = k
        BY <2>1, <3>2
      <4> HIDE DEF k
      <4> QED BY <2>1, <2>2, <3>1, <4>1, <4>2 DEF Counts
    <3>3. CASE upload[u].pc \notin {"event", "asset"}
      <4>1. upload'[u] = upload[u]
        BY <2>1, <3>3
      <4> QED BY <2>1, <2>2, <3>1, <4>1, CountsStay
    <3> QED BY <3>2, <3>3
  <2>4. upload' \in [Upload -> UploadRow]
    BY <2>1, <2>3
  <2> QED BY <2>1, <2>2, <2>3, <2>4 DEF UploadInv
<1>4. CASE UNCHANGED uploadVars
  <2>1. UNCHANGED <<uploaded, hosts, upload, met, uploadFaults>>
    BY <1>4 DEF uploadVars
  <2>2. \A u \in Upload : Counts(u)'
    BY <2>1, CountsStay DEF UploadInv
  <2> QED BY <2>1, <2>2 DEF UploadInv
<1> QED BY <1>1, <1>2, <1>3, <1>4, BeginUploadKeeps, FlushEventKeeps, CommitEventKeeps
        DEF UploadNext

LEMMA UploadStarts == UploadInit => UploadInv
<1> SUFFICES ASSUME UploadInit
             PROVE  UploadInv
  OBVIOUS
<1>1. \A u \in Upload : upload[u] = NoUpload /\ uploaded[u] = 0
  BY DEF UploadInit
<1>2. \A u \in Upload : Counts(u)
  BY <1>1, NoUploadRow DEF Counts
<1> QED BY <1>2, NoUploadRow DEF UploadInit, UploadInv

\* What an answer calls stored is in the table and nothing else is; and unless the database
\* failed or another session inserted the same asset, the errors are exactly the lines that
\* cannot be parsed (ingest.py:68-79, 147-163).
THEOREM BulkAnswersAreExact == UploadSpec => []AnswersExact
<1>1. UploadInv => AnswersExact
  <2> SUFFICES ASSUME UploadInv, NEW u \in Upload, upload[u].pc = "answered", u \notin met,
                      uploadFaults = 0
               PROVE  upload[u].errors =
                        Cardinality({n \in DOMAIN Content[u] : Content[u][n] \in Unparsable})
    BY DEF UploadInv, Counts, AnswersExact
  <2>1. upload[u].errors = Cardinality(Refused(u, Len(Content[u]) + 1))
    BY DEF UploadInv, Counts
  <2>2. Refused(u, Len(Content[u]) + 1) = {n \in DOMAIN Content[u] : Content[u][n] \in Unparsable}
    BY ContentLines DEF Refused
  <2> QED BY <2>1, <2>2
<1>2. UploadSpec => []UploadInv
  BY UploadStarts, UploadKeeps, PTL DEF UploadSpec
<1> QED BY <1>1, <1>2, PTL

-----------------------------------------------------------------------------
(* ThreatFeeds *)

FeedRow == [enabled : BOOLEAN, interval : Interval, pulled : {NotPulled} \cup Nat, error : BOOLEAN]
FeedRows == UNION {[F -> FeedRow] : F \in SUBSET Feed}
PullRow ==
  [pc : {"idle", "next", "ask", "commit"}, todo : FeedRows, dirty : FeedRows,
   feed : SUBSET Feed, now : Nat, fresh : SUBSET Attribute]
Puller == {"loop", "manual"}

\* The items nobody needs to ask for again, and the pairs of a feed and an hour before which
\* everything the feed published is settled.  Both sets only grow.
SettledItems == {a \in Attribute : KeyOf[a] \in listed \cup removed \/ a \in unasked}
Told == {p \in Feed \X ({NotPulled} \cup 0..hour) :
           \A a \in DOMAIN published : FeedOf[a] = p[1] /\ published[a] < p[2] => a \in SettledItems}

\* Rows whose last_pulled_at is true: those of the table, and those a session has loaded or
\* changed, whatever became of the table meanwhile.
Tells(kept, told) == kept \in FeedRows /\ \A f \in DOMAIN kept : <<f, kept[f].pulled>> \in told

\* A pull that has its answer: what was published before it began is settled, or will be
\* by the indicators it is about to insert.
AnswerTells(k, settled) ==
  \A a \in DOMAIN published :
    FeedOf[a] \in k.feed /\ published[a] < k.now => a \in settled \/ \E b \in k.fresh : KeyOf[b] = KeyOf[a]

PullTells(t) ==
  LET k == puller[t]
  IN /\ k \in PullRow /\ Tells(k.todo, Told) /\ Tells(k.dirty, Told) /\ k.now <= hour
     /\ k.pc \in {"ask", "commit"} => \E f \in DOMAIN k.todo : k.feed = {f}
     /\ k.pc = "commit" => AnswerTells(k, SettledItems)

FeedsInv ==
  /\ hour \in Nat /\ published \in UNION {[A -> 0..hour] : A \in SUBSET Attribute}
  /\ DOMAIN puller = Puller /\ Tells(feeds, Told) /\ \A t \in Puller : PullTells(t)

\* What every step does to the clock, the items and what is settled.
FeedsGrow ==
  /\ hour' \in Nat /\ hour <= hour'
  /\ published' \in UNION {[A -> 0..hour'] : A \in SUBSET Attribute}
  /\ \A a \in DOMAIN published' : \/ a \in DOMAIN published /\ published'[a] = published[a]
                                  \/ published'[a] = hour
  /\ SettledItems \subseteq SettledItems' /\ Told \subseteq Told'

LEMMA SettledGrows ==
  ASSUME FeedsInv, hour' \in Nat, hour <= hour',
         published' \in UNION {[A -> 0..hour'] : A \in SUBSET Attribute},
         \A a \in DOMAIN published' : \/ a \in DOMAIN published /\ published'[a] = published[a]
                                      \/ published'[a] = hour,
         listed \cup removed \subseteq listed' \cup removed', unasked \subseteq unasked'
  PROVE  FeedsGrow
<1>1. SettledItems \subseteq SettledItems'
  BY DEF SettledItems
<1>2. ASSUME NEW f \in Feed, NEW n \in {NotPulled} \cup 0..hour, <<f, n>> \in Told
      PROVE  <<f, n>> \in Told'
  <2>1. n \in {NotPulled} \cup 0..hour' /\ n <= hour
    BY DEF FeedsInv, NotPulled
  <2>2. ASSUME NEW a \in DOMAIN published', FeedOf[a] = f, published'[a] < n
        PROVE  a \in SettledItems'
    <3>1. n \in Int /\ hour \in Int
      BY DEF FeedsInv, NotPulled
    <3>2. published'[a] # hour
      BY <2>1, <2>2, <3>1
    <3>3. a \in DOMAIN published /\ published[a] < n
      BY <2>2, <3>2
    <3>4. a \in SettledItems
      BY <1>2, <2>2, <3>3 DEF Told
    <3> QED BY <1>1, <3>4
  <2> QED BY <2>1, <2>2 DEF Told
<1>3. Told \subseteq Told'
  BY <1>2 DEF Told
<1> QED BY <1>1, <1>3 DEF FeedsGrow

LEMMA NothingNew ==
  ASSUME FeedsInv, UNCHANGED <<hour, published>>,
         listed \cup removed \subseteq listed' \cup removed', unasked \subseteq unasked'
  PROVE  FeedsGrow
BY SettledGrows DEF FeedsInv

-----------------------------------------------------------------------------
LEMMA TellsMore ==
  ASSUME NEW kept, NEW A, NEW B, Tells(kept, A), A \subseteq B
  PROVE  Tells(kept, B)
BY DEF Tells

LEMMA NoRowsTell ==
  ASSUME NEW A
  PROVE  Tells(<<>>, A)
<1>1. <<>> \in [{} -> FeedRow] /\ {} \in SUBSET Feed /\ DOMAIN <<>> = {}
  OBVIOUS
<1> QED BY <1>1 DEF Tells, FeedRows

LEMMA RestrictTells ==
  ASSUME NEW kept, NEW A, Tells(kept, A), NEW S \in SUBSET DOMAIN kept
  PROVE  Tells(Restrict(kept, S), A) /\ DOMAIN Restrict(kept, S) = S
<1>1. PICK F \in SUBSET Feed : kept \in [F -> FeedRow]
  BY DEF Tells, FeedRows
<1>2. Restrict(kept, S) \in [S -> FeedRow] /\ \A f \in S : Restrict(kept, S)[f] = kept[f]
  BY <1>1 DEF Restrict
<1>3. S \in SUBSET Feed
  BY <1>1
<1> QED BY <1>2, <1>3 DEF Tells, FeedRows

LEMMA WithTells ==
  ASSUME NEW kept, NEW A, Tells(kept, A), NEW f \in Feed, NEW row \in FeedRow,
         <<f, row.pulled>> \in A
  PROVE  Tells(With(kept, f, row), A)
<1>1. PICK F \in SUBSET Feed : kept \in [F -> FeedRow]
  BY DEF Tells, FeedRows
<1>2. /\ With(kept, f, row) \in [F \cup {f} -> FeedRow] /\ With(kept, f, row)[f] = row
      /\ \A g \in F : g # f => With(kept, f, row)[g] = kept[g]
  BY <1>1 DEF With
<1>3. F \cup {f} \in SUBSET Feed
  OBVIOUS
<1> QED BY <1>1, <1>2, <1>3 DEF Tells, FeedRows

LEMMA RowOf ==
  ASSUME NEW kept, NEW A, Tells(kept, A), NEW f \in DOMAIN kept
  PROVE  f \in Feed /\ kept[f] \in FeedRow /\ <<f, kept[f].pulled>> \in A
BY DEF Tells, FeedRows

LEMMA SavedTells ==
  ASSUME NEW A, NEW dirty, Tells(feeds, A), Tells(dirty, A)
  PROVE  Tells(Saved(dirty), A)
<1>1. PICK F \in SUBSET Feed : feeds \in [F -> FeedRow]
  BY DEF Tells, FeedRows
<1>2. ASSUME NEW f \in F
      PROVE  Saved(dirty)[f] \in FeedRow /\ <<f, Saved(dirty)[f].pulled>> \in A
  <2>1. feeds[f] \in FeedRow /\ <<f, feeds[f].pulled>> \in A
    BY <1>1, RowOf
  <2>2. CASE f \in DOMAIN dirty
    <3> DEFINE row == [feeds[f] EXCEPT !.pulled = dirty[f].pulled, !.error = dirty[f].error]
    <3>1. dirty[f] \in FeedRow /\ <<f, dirty[f].pulled>> \in A
      BY <2>2, RowOf
    <3>2. row \in FeedRow /\ row.pulled = dirty[f].pulled
      BY <2>1, <3>1 DEF FeedRow
    <3>3. Saved(dirty)[f] = row
      BY <1>1, <2>2 DEF Saved
    <3> QED BY <3>1, <3>2, <3>3
  <2>3. CASE f \notin DOMAIN dirty
    <3>1. Saved(dirty)[f] = feeds[f]
      BY <1>1, <2>3 DEF Saved
    <3> QED BY <2>1, <3>1
  <2> QED BY <2>2, <2>3
<1>3. DOMAIN Saved(dirty) = F /\ Saved(dirty) \in [F -> FeedRow]
  BY <1>1, <1>2 DEF Saved
<1> QED BY <1>2, <1>3 DEF Tells, FeedRows

-----------------------------------------------------------------------------
LEMMA NoPullRow ==
  /\ NoPull \in PullRow /\ NoPull.pc = "idle" /\ NoPull.todo = <<>> /\ NoPull.dirty = <<>>
  /\ NoPull.now = 0 /\ NoPull.feed = {} /\ NoPull.fresh = {}
<1>1. <<>> \in FeedRows
  <2>1. <<>> \in [{} -> FeedRow] /\ {} \in SUBSET Feed
    OBVIOUS
  <2> QED BY <2>1 DEF FeedRows
<1> HIDE DEF FeedRows
<1> QED BY <1>1 DEF NoPull, PullRow

LEMMA PullOf ==
  ASSUME FeedsInv, NEW t \in Puller
  PROVE  /\ puller[t] \in PullRow /\ PullTells(t) /\ Tells(puller[t].todo, Told)
         /\ Tells(puller[t].dirty, Told) /\ puller[t].now \in Nat /\ puller[t].now <= hour
BY DEF FeedsInv, PullTells, PullRow

LEMMA AnswerStays ==
  ASSUME FeedsInv, FeedsGrow, NEW k, k.now <= hour, k.now \in Nat, AnswerTells(k, SettledItems)
  PROVE  AnswerTells(k, SettledItems)'
<1> SUFFICES ASSUME NEW a \in DOMAIN published', FeedOf[a] \in k.feed, published'[a] < k.now
             PROVE  a \in SettledItems' \/ \E b \in k.fresh : KeyOf[b] = KeyOf[a]
  BY DEF AnswerTells
<1>1. published'[a] # hour
  BY DEF FeedsInv
<1>2. a \in DOMAIN published /\ published[a] < k.now /\ SettledItems \subseteq SettledItems'
  BY <1>1 DEF FeedsGrow
<1> QED BY <1>2 DEF AnswerTells

LEMMA PullStays ==
  ASSUME FeedsInv, FeedsGrow, NEW t \in Puller, puller'[t] = puller[t]
  PROVE  PullTells(t)'
<1>1. PICK k \in PullRow : k = puller[t]
  BY PullOf
<1>2. /\ Tells(k.todo, Told) /\ Tells(k.dirty, Told) /\ k.now \in Nat /\ k.now <= hour
      /\ k.pc \in {"ask", "commit"} => \E f \in DOMAIN k.todo : k.feed = {f}
      /\ k.pc = "commit" => AnswerTells(k, SettledItems)
  BY <1>1, PullOf DEF PullTells
<1>3. Tells(k.todo, Told') /\ Tells(k.dirty, Told')
  BY <1>2, TellsMore DEF FeedsGrow
<1>4. k.now <= hour'
  BY <1>2 DEF FeedsInv, FeedsGrow
<1>5. k.pc = "commit" => AnswerTells(k, SettledItems)'
  BY <1>2, AnswerStays
<1> QED BY <1>1, <1>2, <1>3, <1>4, <1>5 DEF PullTells, AnswerTells, Tells
\* A task that moves to the row k, and rows of the table that tell the truth.
LEMMA PullMoves ==
  ASSUME FeedsInv, FeedsGrow, NEW t \in Puller, NEW k \in PullRow, Pulls(t, k),
         Tells(k.todo, Told'), Tells(k.dirty, Told'), k.now <= hour',
         k.pc \in {"ask", "commit"} => \E f \in DOMAIN k.todo : k.feed = {f},
         k.pc = "commit" => AnswerTells(k, SettledItems)', Tells(feeds', Told')
  PROVE  FeedsInv'
<1>1. /\ DOMAIN puller' = Puller /\ puller'[t] = k
      /\ \A u \in Puller : u # t => puller'[u] = puller[u]
  BY DEF FeedsInv, Pulls
<1>2. PullTells(t)'
  BY <1>1 DEF PullTells, AnswerTells, Tells
<1>3. \A u \in Puller : u # t => PullTells(u)'
  BY <1>1, PullStays
<1>4. Tells(feeds, Told)'
  BY DEF Tells
<1> QED BY <1>1, <1>2, <1>3, <1>4 DEF FeedsInv, FeedsGrow

\* A task back at the head of its loop, or idle, with nothing committed.
LEMMA TurnMoves ==
  ASSUME FeedsInv, NEW t \in Puller, NEW k \in PullRow, Pulls(t, k),
         k.pc \in {"idle", "next", "ask"},
         UNCHANGED <<hour, published, feeds, listed, removed, unasked>>,
         Tells(k.todo, Told), Tells(k.dirty, Told), k.now <= hour,
         k.pc = "ask" => \E f \in DOMAIN k.todo : k.feed = {f}
  PROVE  FeedsInv'
<1>1. FeedsGrow
  BY NothingNew
<1>2. Tells(k.todo, Told') /\ Tells(k.dirty, Told') /\ Tells(feeds', Told')
  BY <1>1, TellsMore DEF FeedsGrow, FeedsInv
<1>3. k.now <= hour' /\ k.pc # "commit"
  OBVIOUS
<1> QED BY <1>1, <1>2, <1>3, PullMoves

LEMMA IdleMoves ==
  ASSUME FeedsInv, NEW t \in Puller, Pulls(t, NoPull),
         UNCHANGED <<hour, published, feeds, listed, removed, unasked>>
  PROVE  FeedsInv'
<1>1. 0 <= hour
  BY DEF FeedsInv
<1> QED BY <1>1, NoPullRow, NoRowsTell, TurnMoves

LEMMA WakeFeedsKeep ==
  ASSUME FeedsInv, WakeFeeds
  PROVE  FeedsInv'
<1> DEFINE enabled == {f \in DOMAIN feeds : feeds[f].enabled}
           k == [NoPull EXCEPT !.pc = "next", !.todo = Restrict(feeds, enabled)]
<1>1. Pulls("loop", k) /\ UNCHANGED <<hour, published, feeds, listed, removed, unasked>>
  BY DEF WakeFeeds, indicatorVars
<1>2. Tells(Restrict(feeds, enabled), Told)
  BY RestrictTells DEF FeedsInv
<1>3. /\ k \in PullRow /\ k.pc = "next" /\ k.todo = Restrict(feeds, enabled) /\ k.dirty = <<>>
      /\ k.now = 0
  BY <1>2, NoPullRow DEF PullRow, Tells
<1> HIDE DEF k
<1>4. k.now <= hour /\ "loop" \in Puller
  BY <1>3 DEF FeedsInv, Puller
<1> QED BY <1>1, <1>2, <1>3, <1>4, NoRowsTell, TurnMoves

LEMMA PullNowKeeps ==
  ASSUME FeedsInv, NEW f \in Feed, PullNow(f)
  PROVE  FeedsInv'
<1> DEFINE k == [NoPull EXCEPT !.pc = "ask", !.feed = {f}, !.todo = Restrict(feeds, {f})]
<1>1. /\ Pulls("manual", k) /\ UNCHANGED <<hour, published, feeds, listed, removed, unasked>>
      /\ f \in DOMAIN feeds
  BY DEF PullNow, indicatorVars
<1>2. Tells(Restrict(feeds, {f}), Told) /\ DOMAIN Restrict(feeds, {f}) = {f}
  BY <1>1, RestrictTells DEF FeedsInv
<1>3. /\ k \in PullRow /\ k.pc = "ask" /\ k.todo = Restrict(feeds, {f}) /\ k.dirty = <<>>
      /\ k.now = 0 /\ k.feed = {f}
  BY <1>2, NoPullRow DEF PullRow, Tells
<1> HIDE DEF k
<1>4. k.now <= hour /\ "manual" \in Puller
  BY <1>3 DEF FeedsInv, Puller
<1> QED BY <1>1, <1>2, <1>3, <1>4, NoRowsTell, TurnMoves

LEMMA WithoutTells ==
  ASSUME NEW kept, NEW A, Tells(kept, A), NEW f
  PROVE  Tells(Without(kept, f), A) /\ Without(kept, f) \in FeedRows
BY RestrictTells DEF Without, Tells

LEMMA FeedTurnKeeps ==
  ASSUME FeedsInv, TurnFeed
  PROVE  FeedsInv'
<1> DEFINE p == puller["loop"]
<1>1. /\ p \in PullRow /\ Tells(p.todo, Told) /\ Tells(p.dirty, Told) /\ p.now <= hour
      /\ "loop" \in Puller
  BY PullOf DEF Puller
<1>2. p.pc = "next" /\ UNCHANGED <<hour, published, feeds, listed, removed, unasked>>
  BY DEF TurnFeed, indicatorVars
<1>3. PICK f \in DOMAIN p.todo :
        Pulls("loop", IF FeedDue(p.todo[f], hour)
                      THEN [p EXCEPT !.pc = "ask", !.feed = {f}, !.now = hour]
                      ELSE [p EXCEPT !.todo = Without(@, f)])
  BY DEF TurnFeed
<1>4. CASE FeedDue(p.todo[f], hour)
  <2> DEFINE k == [p EXCEPT !.pc = "ask", !.feed = {f}, !.now = hour]
  <2>1. f \in Feed /\ hour \in Nat /\ hour <= hour
    <3>1. f \in Feed
      BY <1>1, <1>3, RowOf
    <3>2. hour \in Nat
      BY DEF FeedsInv
    <3> QED BY <3>1, <3>2
  <2>2. /\ k \in PullRow /\ k.pc = "ask" /\ k.feed = {f} /\ k.now = hour
        /\ k.todo = p.todo /\ k.dirty = p.dirty
    BY <1>1, <2>1 DEF PullRow
  <2>3. Pulls("loop", k)
    BY <1>3, <1>4
  <2> HIDE DEF k
  <2> QED BY <1>1, <1>2, <1>3, <2>1, <2>2, <2>3, TurnMoves
<1>5. CASE ~ FeedDue(p.todo[f], hour)
  <2> DEFINE k == [p EXCEPT !.todo = Without(@, f)]
  <2>1. Tells(Without(p.todo, f), Told) /\ Without(p.todo, f) \in FeedRows
    BY <1>1, WithoutTells
  <2>2. /\ k \in PullRow /\ k.pc = "next" /\ k.now = p.now
        /\ k.todo = Without(p.todo, f) /\ k.dirty = p.dirty
    BY <1>1, <1>2, <2>1 DEF PullRow
  <2>3. Pulls("loop", k)
    BY <1>3, <1>5
  <2> HIDE DEF k
  <2> QED BY <1>1, <1>2, <2>1, <2>2, <2>3, TurnMoves
<1> QED BY <1>4, <1>5

LEMMA AskFailsKeeps ==
  ASSUME FeedsInv, NEW t \in Puller, AskFails(t)
  PROVE  FeedsInv'
<1> DEFINE p == puller[t]
<1>1. /\ p \in PullRow /\ Tells(p.todo, Told) /\ Tells(p.dirty, Told) /\ p.now <= hour
      /\ PullTells(t)
  BY PullOf
<1>2. p.pc = "ask" /\ UNCHANGED <<hour, published, feeds, listed, removed, unasked>>
  BY DEF AskFails, indicatorVars
<1>3. PICK f \in p.feed : Pulls(t, IF t = "loop" THEN Errored(p, f) ELSE NoPull)
  BY DEF AskFails
<1>4. CASE t # "loop"
  BY <1>2, <1>3, <1>4, IdleMoves
<1>5. CASE t = "loop"
  <2>1. f \in DOMAIN p.todo
    BY <1>1, <1>2, <1>3 DEF PullTells
  <2> DEFINE row == [p.todo[f] EXCEPT !.error = TRUE]
             dirty == With(p.dirty, f, row)
             k == Errored(p, f)
  <2>2. f \in Feed /\ p.todo[f] \in FeedRow /\ <<f, p.todo[f].pulled>> \in Told
    BY <1>1, <2>1, RowOf
  <2>3. row \in FeedRow /\ <<f, row.pulled>> \in Told
    BY <2>2 DEF FeedRow
  <2>4. Tells(dirty, Told)
    <3> HIDE DEF row
    <3> QED BY <1>1, <2>2, <2>3, WithTells
  <2>5. k = [p EXCEPT !.pc = "next", !.feed = {}, !.todo = Without(p.todo, f), !.dirty = dirty]
    BY <1>1 DEF Errored, PullRow
  <2> HIDE DEF dirty
  <2>6. Tells(Without(p.todo, f), Told) /\ Without(p.todo, f) \in FeedRows /\ dirty \in FeedRows
    BY <1>1, <2>4, WithoutTells DEF Tells
  <2>7. /\ k \in PullRow /\ k.pc = "next" /\ k.now = p.now
        /\ k.todo = Without(p.todo, f) /\ k.dirty = dirty
    BY <1>1, <2>5, <2>6 DEF PullRow
  <2>8. Pulls(t, k)
    BY <1>3, <1>5
  <2> HIDE DEF k
  <2> QED BY <1>1, <1>2, <2>4, <2>6, <2>7, <2>8, TurnMoves
<1> QED BY <1>4, <1>5

\* An answer: what it leaves out was asked for before, or nobody will ask for it again.
LEMMA AskKeeps ==
  ASSUME FeedsInv, NEW t \in Puller, AskFeed(t)
  PROVE  FeedsInv'
<1> DEFINE p == puller[t]
<1>1. /\ p \in PullRow /\ Tells(p.todo, Told) /\ Tells(p.dirty, Told) /\ p.now <= hour
      /\ PullTells(t) /\ hour \in Nat /\ p.now \in Nat
  BY PullOf DEF FeedsInv
<1>2. p.pc = "ask" /\ UNCHANGED <<hour, published, feeds, listed, removed>>
  BY DEF AskFeed, indicatorVars
<1>3. PICK f \in p.feed :
        LET row == p.todo[f]  all == Matching(f, row)
            own == {a \in DOMAIN published : FeedOf[a] = f}
        IN \E answer \in SUBSET all :
             /\ Pulls(t, [p EXCEPT !.pc = "commit", !.fresh = {a \in answer : KeyOf[a] \notin listed}])
             /\ unasked' = unasked \cup (all \ answer) \cup (IF row.pulled = NotPulled THEN own \ all ELSE {})
  BY DEF AskFeed, kSubset
<1> DEFINE row == p.todo[f]
           all == Matching(f, row)
           own == {a \in DOMAIN published : FeedOf[a] = f}
<1>4. PICK answer \in SUBSET all :
        /\ Pulls(t, [p EXCEPT !.pc = "commit", !.fresh = {a \in answer : KeyOf[a] \notin listed}])
        /\ unasked' = unasked \cup (all \ answer) \cup (IF row.pulled = NotPulled THEN own \ all ELSE {})
  BY <1>3
<1> DEFINE fresh == {a \in answer : KeyOf[a] \notin listed}
           pulled == [p EXCEPT !.pc = "commit", !.fresh = fresh]
<1>5. f \in DOMAIN p.todo /\ p.feed = {f}
  BY <1>1, <1>2 DEF PullTells
<1>6. f \in Feed /\ row \in FeedRow /\ <<f, row.pulled>> \in Told
  BY <1>1, <1>5, RowOf
<1>7. DOMAIN published \subseteq Attribute /\ \A a \in DOMAIN published : published[a] \in Nat
  BY DEF FeedsInv
<1>8. fresh \in SUBSET Attribute
  BY <1>7 DEF Matching
<1>9. Pulls(t, pulled)
  BY <1>4
<1> HIDE DEF fresh
<1>10. PICK k \in PullRow :
         /\ Pulls(t, k) /\ k.pc = "commit" /\ k.fresh = fresh /\ k.feed = p.feed /\ k.now = p.now
         /\ k.todo = p.todo /\ k.dirty = p.dirty
  <2>1. /\ pulled \in PullRow /\ pulled.pc = "commit" /\ pulled.fresh = fresh
        /\ pulled.feed = p.feed /\ pulled.now = p.now /\ pulled.todo = p.todo
        /\ pulled.dirty = p.dirty
    BY <1>1, <1>8 DEF PullRow
  <2> HIDE DEF pulled
  <2> QED BY <1>9, <2>1
<1>11. FeedsGrow
  BY <1>2, <1>4, NothingNew
<1>12. Tells(k.todo, Told') /\ Tells(k.dirty, Told') /\ Tells(feeds', Told')
  BY <1>1, <1>2, <1>10, <1>11, TellsMore DEF FeedsGrow, FeedsInv
<1>13. ASSUME NEW a \in DOMAIN published, FeedOf[a] = f
       PROVE  a \in SettledItems' \/ \E b \in fresh : KeyOf[b] = KeyOf[a]
  <2>1. CASE a \in answer
    <3>1. CASE KeyOf[a] \in listed
      BY <1>2, <1>7, <3>1 DEF SettledItems
    <3>2. CASE KeyOf[a] \notin listed
      <4>1. a \in fresh
        BY <2>1, <3>2 DEF fresh
      <4> QED BY <4>1
    <3> QED BY <3>1, <3>2
  <2>2. CASE a \in all \ answer
    <3>1. a \in unasked'
      BY <1>4, <2>2
    <3> QED BY <1>7, <3>1 DEF SettledItems
  <2>3. CASE a \notin all
    <3>1. FeedType[f] = "misp" /\ ~ (published[a] >= Since(row))
      BY <1>13, <2>3 DEF Matching
    <3>2. CASE row.pulled = NotPulled
      <4>1. a \in own \ all
        BY <1>13, <2>3
      <4>2. a \in unasked'
        BY <1>4, <3>2, <4>1
      <4> QED BY <1>7, <4>2 DEF SettledItems
    <3>3. CASE row.pulled # NotPulled
      <4>1. ~ (published[a] >= row.pulled) /\ row.pulled \in Nat /\ published[a] \in Nat
        BY <1>6, <1>7, <3>1, <3>3 DEF Since, FeedRow
      <4>2. published[a] < row.pulled
        BY <4>1
      <4>3. \A b \in DOMAIN published : FeedOf[b] = f /\ published[b] < row.pulled => b \in SettledItems
        <5>1. PICK n : n = row.pulled
          OBVIOUS
        <5>2. <<f, n>> \in Told
          BY <1>6, <5>1
        <5>3. \A b \in DOMAIN published : FeedOf[b] = f /\ published[b] < n => b \in SettledItems
          BY <5>2 DEF Told
        <5> QED BY <5>1, <5>3
      <4>4. a \in SettledItems
        BY <1>13, <4>2, <4>3
      <4> QED BY <1>11, <4>4 DEF FeedsGrow
    <3> QED BY <3>2, <3>3
  <2> QED BY <2>1, <2>2, <2>3
<1>14. AnswerTells(k, SettledItems)'
  <2>1. \A a \in DOMAIN published' : FeedOf[a] \in k.feed =>
          a \in SettledItems' \/ \E b \in k.fresh : KeyOf[b] = KeyOf[a]
    BY <1>2, <1>5, <1>10, <1>13
  <2> QED BY <2>1 DEF AnswerTells
<1> QED BY <1>1, <1>2, <1>5, <1>10, <1>11, <1>12, <1>14, PullMoves
\* The row of a pull that succeeded: everything from before it began is settled now.
LEMMA PulledTells ==
  ASSUME FeedsInv, FeedsGrow, NEW t \in Puller, puller[t].pc = "commit",
         UNCHANGED <<hour, published>>, NEW f \in puller[t].feed,
         \A b \in puller[t].fresh : KeyOf[b] \in listed'
  PROVE  /\ f \in DOMAIN puller[t].todo /\ f \in Feed /\ PulledRow(puller[t], f) \in FeedRow
         /\ <<f, PulledRow(puller[t], f).pulled>> \in Told'
<1> DEFINE p == puller[t]
<1>1. /\ p \in PullRow /\ Tells(p.todo, Told) /\ PullTells(t) /\ p.now \in Nat /\ p.now <= hour
      /\ hour \in Nat
  BY PullOf DEF FeedsInv
<1>2. p.feed = {f} /\ f \in DOMAIN p.todo /\ AnswerTells(p, SettledItems)
  BY <1>1 DEF PullTells
<1>3. f \in Feed /\ p.todo[f] \in FeedRow
  BY <1>1, <1>2, RowOf
<1>4. PulledRow(p, f) \in FeedRow /\ PulledRow(p, f).pulled = p.now
  BY <1>1, <1>3 DEF PulledRow, FeedRow
<1>5. PICK n \in Nat : n = p.now
  BY <1>1
<1>6. ASSUME NEW a \in DOMAIN published', FeedOf[a] = f, published'[a] < n
      PROVE  a \in SettledItems'
  <2>1. a \in SettledItems \/ \E b \in p.fresh : KeyOf[b] = KeyOf[a]
    BY <1>2, <1>5, <1>6 DEF AnswerTells
  <2>2. a \in Attribute
    BY <1>6 DEF FeedsInv
  <2>3. ASSUME NEW b \in p.fresh, KeyOf[b] = KeyOf[a]
        PROVE  a \in SettledItems'
    BY <2>2, <2>3 DEF SettledItems
  <2> QED BY <2>1, <2>3 DEF FeedsGrow
<1>7. n \in 0..hour'
  BY <1>1, <1>5
<1>8. <<f, n>> \in Told'
  BY <1>3, <1>6, <1>7 DEF Told
<1> QED BY <1>2, <1>3, <1>4, <1>5, <1>8

LEMMA PulledMoves ==
  ASSUME FeedsInv, FeedsGrow, NEW t \in Puller, puller[t].pc = "commit",
         UNCHANGED <<hour, published>>, NEW f \in puller[t].feed,
         \A b \in puller[t].fresh : KeyOf[b] \in listed', NEW dirty, Tells(dirty, Told'),
         Pulls(t, Pulled(t, f, dirty)), Tells(feeds', Told')
  PROVE  FeedsInv'
<1> DEFINE p == puller[t]
<1>1. /\ p \in PullRow /\ Tells(p.todo, Told') /\ p.now <= hour' /\ hour' \in Nat
  BY PullOf, TellsMore DEF FeedsGrow
<1>2. /\ f \in DOMAIN p.todo /\ f \in Feed /\ PulledRow(p, f) \in FeedRow
      /\ <<f, PulledRow(p, f).pulled>> \in Told'
  BY PulledTells
<1>3. CASE t = "manual"
  <2>1. Pulls(t, NoPull)
    BY <1>3 DEF Pulled
  <2>2. 0 <= hour'
    BY <1>1
  <2> QED BY <2>1, <2>2, NoPullRow, NoRowsTell, PullMoves
<1>4. CASE t # "manual"
  <2> DEFINE kept == With(dirty, f, PulledRow(p, f))
             k == [p EXCEPT !.pc = "next", !.feed = {}, !.fresh = {}, !.todo = Without(p.todo, f),
                            !.dirty = kept]
  <2>1. Pulls(t, k)
    <3>1. Pulled(t, f, dirty) = k
      BY <1>1, <1>4 DEF Pulled, PullRow
    <3> QED BY <3>1
  <2>2. Tells(kept, Told') /\ kept \in FeedRows
    <3>1. PICK row \in FeedRow : row = PulledRow(p, f)
      BY <1>2
    <3> QED BY <1>2, <3>1, WithTells DEF Tells
  <2>3. Tells(Without(p.todo, f), Told') /\ Without(p.todo, f) \in FeedRows
    BY <1>1, WithoutTells
  <2> HIDE DEF kept
  <2>4. /\ k \in PullRow /\ k.pc = "next" /\ k.now = p.now
        /\ k.todo = Without(p.todo, f) /\ k.dirty = kept
    BY <1>1, <2>2, <2>3 DEF PullRow
  <2> HIDE DEF k
  <2> QED BY <1>1, <2>1, <2>2, <2>3, <2>4, PullMoves
<1> QED BY <1>3, <1>4

LEMMA CommitKeeps ==
  ASSUME FeedsInv, NEW t \in Puller, CommitPull(t)
  PROVE  FeedsInv'
<1> DEFINE p == puller[t]
<1>1. /\ p.pc = "commit" /\ UNCHANGED <<removed, hour, published, unasked>>
      /\ listed' = listed \cup {KeyOf[a] : a \in p.fresh} /\ feeds' = Saved(p.dirty)
      /\ \E f \in p.feed : Pulls(t, Pulled(t, f, <<>>))
  BY DEF CommitPull
<1>2. FeedsGrow
  BY <1>1, NothingNew
<1>3. Tells(Saved(p.dirty), Told)
  BY PullOf, SavedTells DEF FeedsInv
<1>4. Tells(feeds', Told')
  BY <1>1, <1>2, <1>3, TellsMore DEF FeedsGrow
<1>5. \A b \in p.fresh : KeyOf[b] \in listed'
  BY <1>1
<1> QED BY <1>1, <1>2, <1>4, <1>5, NoRowsTell, PulledMoves

LEMMA NothingFreshKeeps ==
  ASSUME FeedsInv, NEW t \in Puller, NothingFresh(t)
  PROVE  FeedsInv'
<1> DEFINE p == puller[t]
<1>1. /\ p.pc = "commit" /\ p.fresh = {}
      /\ UNCHANGED <<listed, removed, hour, published, feeds, unasked>>
      /\ \E f \in p.feed : Pulls(t, Pulled(t, f, p.dirty))
  BY DEF NothingFresh, indicatorVars
<1>2. FeedsGrow
  BY <1>1, NothingNew
<1>3. Tells(p.dirty, Told') /\ Tells(feeds', Told')
  BY <1>1, <1>2, PullOf, TellsMore DEF FeedsGrow, FeedsInv
<1> QED BY <1>1, <1>2, <1>3, PulledMoves

LEMMA EndFeedPassKeeps ==
  ASSUME FeedsInv, EndFeedPass
  PROVE  FeedsInv'
<1> DEFINE p == puller["loop"]
<1>1. /\ UNCHANGED <<listed, removed, hour, published, unasked>> /\ Pulls("loop", NoPull)
      /\ feeds' = IF Fits(p) THEN Saved(p.dirty) ELSE feeds
      /\ "loop" \in Puller
  BY DEF EndFeedPass, indicatorVars, Puller
<1>2. FeedsGrow
  BY <1>1, NothingNew
<1>3. Tells(Saved(p.dirty), Told) /\ Tells(feeds, Told)
  BY <1>1, PullOf, SavedTells DEF FeedsInv
<1>4. feeds' = Saved(p.dirty) \/ feeds' = feeds
  BY <1>1
<1>5. Tells(feeds', Told)
  BY <1>3, <1>4
<1>6. Tells(feeds', Told') /\ 0 <= hour'
  BY <1>2, <1>5, TellsMore DEF FeedsGrow
<1> QED BY <1>1, <1>2, <1>6, NoPullRow, NoRowsTell, PullMoves

\* Steps that touch no task.
LEMMA TasksStay ==
  ASSUME FeedsInv, FeedsGrow, puller' = puller, Tells(feeds', Told')
  PROVE  FeedsInv'
<1>1. \A t \in Puller : PullTells(t)'
  BY PullStays
<1>2. Tells(feeds, Told)'
  BY DEF Tells
<1> QED BY <1>1, <1>2 DEF FeedsInv, FeedsGrow

LEMMA FeedsCrashKeeps ==
  ASSUME FeedsInv, FeedsCrash
  PROVE  FeedsInv'
<1>1. /\ UNCHANGED <<listed, removed, hour, published, feeds, unasked>>
      /\ puller' = [t \in DOMAIN puller |-> NoPull]
  BY DEF FeedsCrash, indicatorVars
<1>2. FeedsGrow
  BY <1>1, NothingNew
<1>3. Tells(feeds', Told')
  BY <1>1, <1>2, TellsMore DEF FeedsGrow, FeedsInv
<1>4. DOMAIN puller' = Puller /\ hour' \in Nat
  BY <1>1 DEF FeedsInv
<1>5. ASSUME NEW t \in Puller
      PROVE  PullTells(t)'
  <2>1. puller'[t] = NoPull
    BY <1>1, <1>4, <1>5
  <2>2. PICK k \in PullRow : k = NoPull
    BY NoPullRow
  <2>3. Tells(k.todo, Told') /\ Tells(k.dirty, Told') /\ k.pc = "idle" /\ k.now <= hour'
    BY <1>4, <2>2, NoPullRow, NoRowsTell
  <2> QED BY <2>1, <2>2, <2>3 DEF PullTells, Tells
<1>6. Tells(feeds, Told)'
  BY <1>3 DEF Tells
<1> QED BY <1>2, <1>4, <1>5, <1>6 DEF FeedsInv, FeedsGrow

LEMMA EditFeedsKeeps ==
  ASSUME FeedsInv, EditFeeds
  PROVE  FeedsInv'
<1>1. UNCHANGED <<listed, removed, hour, published, puller, unasked>>
  BY DEF EditFeeds, indicatorVars
<1>2. FeedsGrow
  BY <1>1, NothingNew
<1>3. PICK f \in Feed, i \in Interval, on \in BOOLEAN :
        \/ feeds' = With(feeds, f, NewFeed(i, on))
        \/ f \in DOMAIN feeds /\ feeds' = With(feeds, f, [feeds[f] EXCEPT !.interval = i, !.enabled = on])
        \/ feeds' = Without(feeds, f)
  BY DEF EditFeeds
<1>4. CASE feeds' = With(feeds, f, NewFeed(i, on))
  <2>1. NewFeed(i, on) \in FeedRow /\ NewFeed(i, on).pulled = NotPulled
    BY DEF NewFeed, FeedRow
  <2>2. <<f, NotPulled>> \in Told
    <3>1. \A a \in DOMAIN published : ~ (published[a] < NotPulled)
      BY DEF FeedsInv, NotPulled
    <3> QED BY <3>1 DEF Told
  <2>3. PICK row \in FeedRow : row = NewFeed(i, on)
    BY <2>1
  <2> QED BY <1>4, <2>1, <2>2, <2>3, <1>1, <1>2, WithTells, TellsMore, TasksStay DEF FeedsInv, FeedsGrow
<1>5. CASE f \in DOMAIN feeds /\ feeds' = With(feeds, f, [feeds[f] EXCEPT !.interval = i, !.enabled = on])
  <2>1. feeds[f] \in FeedRow /\ <<f, feeds[f].pulled>> \in Told
    BY <1>5, RowOf DEF FeedsInv
  <2>2. PICK row \in FeedRow :
          row = [feeds[f] EXCEPT !.interval = i, !.enabled = on] /\ row.pulled = feeds[f].pulled
    <3> DEFINE r == [feeds[f] EXCEPT !.interval = i, !.enabled = on]
    <3>1. r \in FeedRow /\ r.pulled = feeds[f].pulled
      BY <2>1 DEF FeedRow
    <3> HIDE DEF r
    <3>2. \E row \in FeedRow : row = r /\ row.pulled = feeds[f].pulled
      BY <3>1
    <3> QED BY <3>2 DEF r
  <2>3. Tells(feeds', Told)
    BY <1>5, <2>1, <2>2, WithTells DEF FeedsInv
  <2> QED BY <1>1, <1>2, <2>3, TellsMore, TasksStay DEF FeedsGrow
<1>6. CASE feeds' = Without(feeds, f)
  <2>1. Tells(feeds', Told)
    BY <1>6, WithoutTells DEF FeedsInv
  <2> QED BY <1>1, <1>2, <2>1, TellsMore, TasksStay DEF FeedsGrow
<1> QED BY <1>3, <1>4, <1>5, <1>6

LEMMA PublishKeeps ==
  ASSUME FeedsInv, NEW a \in Attribute, Publish(a)
  PROVE  FeedsInv'
<1>1. UNCHANGED <<listed, removed, hour, feeds, puller, unasked>> /\ hour \in Nat
  BY DEF Publish, indicatorVars, FeedsInv
<1>2. PICK A \in SUBSET Attribute : published \in [A -> 0..hour]
  BY DEF FeedsInv
<1>3. published' = [b \in A \cup {a} |-> IF b = a THEN hour ELSE published[b]]
  BY <1>2 DEF Publish, With
<1>4. published' \in [A \cup {a} -> 0..hour] /\ A \cup {a} \in SUBSET Attribute
  BY <1>1, <1>2, <1>3
<1>5. published' \in UNION {[B -> 0..hour'] : B \in SUBSET Attribute}
  BY <1>1, <1>4
<1>6. \A b \in DOMAIN published' : \/ b \in DOMAIN published /\ published'[b] = published[b]
                                   \/ published'[b] = hour
  BY <1>2, <1>3
<1>7. FeedsGrow
  BY <1>1, <1>5, <1>6, SettledGrows
<1> QED BY <1>1, <1>7, TellsMore, TasksStay DEF FeedsGrow, FeedsInv

LEMMA HourKeeps ==
  ASSUME FeedsInv, HourPasses
  PROVE  FeedsInv'
<1>1. UNCHANGED <<listed, removed, published, feeds, puller, unasked>> /\ hour' = hour + 1 /\ hour \in Nat
  BY DEF HourPasses, indicatorVars, FeedsInv
<1>2. hour' \in Nat /\ hour <= hour' /\ 0..hour \subseteq 0..hour'
  BY <1>1
<1>3. published' \in UNION {[A -> 0..hour'] : A \in SUBSET Attribute}
  <2>1. PICK A \in SUBSET Attribute : published \in [A -> 0..hour]
    BY DEF FeedsInv
  <2>2. published' \in [A -> 0..hour']
    BY <1>1, <1>2, <2>1
  <2> QED BY <2>2
<1>4. FeedsGrow
  BY <1>1, <1>2, <1>3, SettledGrows
<1> QED BY <1>1, <1>4, TellsMore, TasksStay DEF FeedsGrow, FeedsInv

LEMMA TableKeeps ==
  ASSUME FeedsInv, TableChanges
  PROVE  FeedsInv'
<1>1. /\ UNCHANGED <<hour, published, feeds, puller, unasked>>
      /\ listed \cup removed \subseteq listed' \cup removed'
  BY DEF TableChanges, DeleteIndicator
<1>2. FeedsGrow
  BY <1>1, NothingNew
<1> QED BY <1>1, <1>2, TellsMore, TasksStay DEF FeedsGrow, FeedsInv

LEMMA FeedsKeep == FeedsInv /\ [FeedsNext]_feedVars => FeedsInv'
<1> SUFFICES ASSUME FeedsInv, [FeedsNext]_feedVars
             PROVE  FeedsInv'
  OBVIOUS
<1>1. ASSUME NEW t \in Puller, PullStep(t)
      PROVE  FeedsInv'
  <2>1. CASE BreakPull(t)
    BY <2>1, IdleMoves DEF BreakPull, indicatorVars
  <2> QED BY <1>1, <2>1, AskFailsKeeps, AskKeeps, CommitKeeps, NothingFreshKeeps DEF PullStep
<1>2. CASE UNCHANGED feedVars
  <2>1. UNCHANGED <<listed, removed, hour, published, feeds, puller, unasked>>
    BY <1>2 DEF feedVars
  <2>2. FeedsGrow
    BY <2>1, NothingNew
  <2> QED BY <2>1, <2>2, TellsMore, TasksStay DEF FeedsGrow, FeedsInv
<1>3. CASE PassStep
  BY <1>1, <1>3, WakeFeedsKeep, FeedTurnKeeps, EndFeedPassKeeps DEF PassStep, Puller
<1>4. CASE PullStep("manual")
  BY <1>1, <1>4 DEF Puller
<1> QED BY <1>2, <1>3, <1>4, EditFeedsKeeps, FeedsCrashKeeps, HourKeeps, TableKeeps,
        PullNowKeeps, PublishKeeps DEF FeedsNext

LEMMA FeedsStart == FeedsInit => FeedsInv
<1> SUFFICES ASSUME FeedsInit
             PROVE  FeedsInv
  OBVIOUS
<1>1. hour = 0 /\ published = <<>> /\ feeds = <<>> /\ puller = [t \in Puller |-> NoPull]
  BY DEF FeedsInit, Puller
<1>2. published \in [{} -> 0..hour] /\ {} \in SUBSET Attribute
  BY <1>1
<1>3. Tells(feeds, Told)
  BY <1>1, NoRowsTell
<1>4. ASSUME NEW t \in Puller
      PROVE  PullTells(t)
  <2>1. PICK k \in PullRow : k = NoPull
    BY NoPullRow
  <2>2. Tells(k.todo, Told) /\ Tells(k.dirty, Told) /\ k.pc = "idle" /\ k.now <= hour
    BY <1>1, <2>1, NoPullRow, NoRowsTell
  <2>3. puller[t] = k
    BY <1>1, <2>1
  <2> QED BY <2>2, <2>3 DEF PullTells
<1> QED BY <1>1, <1>2, <1>3, <1>4 DEF FeedsInv

\* What a feed published before its last_pulled_at is in the table, whatever failed, was
\* edited, deleted or ran beside the pass, unless an analyst removed it or no pull asks for
\* it (feed_connectors/manager.py:82-94).
THEOREM FeedItemsAreListed == FeedsSpec => []PulledIsListed
<1>1. ASSUME FeedsInv
      PROVE  PulledIsListed
  <2> SUFFICES ASSUME NEW f \in DOMAIN feeds, NEW a \in DOMAIN published,
                      FeedOf[a] = f, published[a] < feeds[f].pulled
               PROVE  KeyOf[a] \in listed \cup removed \/ a \in unasked
    BY DEF PulledIsListed
  <2>1. PICK n : n = feeds[f].pulled
    OBVIOUS
  <2>2. <<f, n>> \in Told
    BY <1>1, <2>1, RowOf DEF FeedsInv
  <2>3. a \in SettledItems
    BY <2>1, <2>2 DEF Told
  <2> QED BY <2>3 DEF SettledItems
<1> QED BY <1>1, FeedsKeep, FeedsStart, PTL DEF FeedsSpec

-----------------------------------------------------------------------------
(* SyslogQueue *)

SyslogTyped ==
  /\ server \in [pc : {"down", "up", "stopping"}, running : BOOLEAN, udp : BOOLEAN, tcp : BOOLEAN]
  /\ processor \in {"none", "get", "store"} /\ open \subseteq Client
  /\ queue \in Seq(Line) /\ current \in Seq(Line)
  /\ accepted \in Seq(Line) /\ finished \in Seq(Line)

\* A listener is open while the server is up only, and then the processor is there; a
\* connection may live as long as the process.
Attended ==
  /\ server.udp \/ server.tcp => server.pc = "up"
  /\ server.pc = "up" => processor # "none"
  /\ server.pc = "down" => processor = "none" /\ open = {} /\ queue = <<>>
  /\ processor # "store" => current = <<>>

\* The order of OnlyTcpIsStrandedLate, of any line of messages.
Orderly(line, arrivals, left) ==
  /\ IsInjective(arrivals) /\ left \subseteq Range(arrivals)
  /\ Range(line) = Range(arrivals) \ left
  /\ InOrder(line, arrivals)

SyslogInv ==
  SyslogTyped /\ Attended /\ late \subseteq ViaTcp /\ Orderly(Kept, accepted, stranded \cup late)

\* Taking a message, finishing one and putting one, as they move it along the line.
LEMMA Moves ==
  ASSUME NEW S, NEW f \in Seq(S), NEW c \in Seq(S), NEW q \in Seq(S), NEW m \in S
  PROVE  /\ q # <<>> => /\ <<Head(q)>> \in Seq(S) /\ Tail(q) \in Seq(S)
                        /\ f \o <<Head(q)>> \o Tail(q) = f \o <<>> \o q
         /\ (f \o c) \o <<>> \o q = f \o c \o q
         /\ f \o c \o Append(q, m) = Append(f \o c \o q, m)
         /\ f \o c \o q \in Seq(S)
<1>1. q # <<>> => /\ <<Head(q)>> \in Seq(S) /\ Tail(q) \in Seq(S)
                  /\ <<Head(q)>> \o Tail(q) = q
  OBVIOUS
<1>2. q # <<>> => f \o <<Head(q)>> \o Tail(q) = f \o <<>> \o q
  <2> SUFFICES ASSUME q # <<>>
               PROVE  f \o <<Head(q)>> \o Tail(q) = f \o <<>> \o q
    OBVIOUS
  <2>1. (f \o <<Head(q)>>) \o Tail(q) = f \o (<<Head(q)>> \o Tail(q))
    BY <1>1, ConcatAssociative
  <2>2. f \o <<>> = f
    BY ConcatEmptySeq
  <2> QED BY <1>1, <2>1, <2>2
<1>3. (f \o c) \o <<>> \o q = f \o c \o q
  BY ConcatEmptySeq, ConcatProperties
<1>4. f \o c \in Seq(S) /\ f \o c \o q \in Seq(S)
  BY ConcatProperties
<1>5. (f \o c) \o Append(q, m) = Append((f \o c) \o q, m)
  <2> DEFINE h == f \o c
  <2>1. h \in Seq(S) /\ <<m>> \in Seq(S) /\ h \o q \in Seq(S)
    BY <1>4
  <2> HIDE DEF h
  <2>2. Append(q, m) = q \o <<m>> /\ Append(h \o q, m) = (h \o q) \o <<m>>
    BY <2>1, AppendIsConcat
  <2>3. h \o (q \o <<m>>) = (h \o q) \o <<m>>
    BY <2>1, ConcatAssociative
  <2> QED BY <2>2, <2>3 DEF h
<1> QED BY <1>1, <1>2, <1>3, <1>4, <1>5

\* A message put at the end of the arrivals and of the line.
LEMMA OrderlyPut ==
  ASSUME NEW S, NEW line \in Seq(S), NEW arrivals \in Seq(S), NEW left, NEW m \in S,
         m \notin Range(arrivals), m \notin left, Orderly(line, arrivals, left)
  PROVE  Orderly(Append(line, m), Append(arrivals, m), left)
<1> DEFINE a == Append(arrivals, m)  l == Append(line, m)
<1>1. /\ a \in Seq(S) /\ Len(a) = Len(arrivals) + 1 /\ a[Len(a)] = m
      /\ \A i \in 1..Len(arrivals) : a[i] = arrivals[i]
  BY AppendProperties, LenProperties
<1>2. /\ l \in Seq(S) /\ Len(l) = Len(line) + 1 /\ l[Len(l)] = m
      /\ \A i \in 1..Len(line) : l[i] = line[i]
  BY AppendProperties, LenProperties
<1>3. /\ DOMAIN a = 1..Len(a) /\ DOMAIN l = 1..Len(l)
      /\ DOMAIN arrivals = 1..Len(arrivals) /\ DOMAIN line = 1..Len(line)
      /\ Len(a) \in Nat /\ Len(l) \in Nat /\ Len(arrivals) \in Nat /\ Len(line) \in Nat
  BY <1>1, <1>2, LenProperties
<1>4. \A i \in 1..Len(arrivals) : arrivals[i] # m
  BY <1>3 DEF Range
<1> HIDE DEF a, l
<1>5. IsInjective(a)
  BY <1>1, <1>3, <1>4 DEF Orderly, IsInjective
<1>6. Range(a) = Range(arrivals) \cup {m} /\ Range(l) = Range(line) \cup {m}
  <2>1. Range(a) = Range(arrivals) \cup {m}
    BY <1>1, <1>3 DEF Range
  <2>2. Range(l) = Range(line) \cup {m}
    BY <1>2, <1>3 DEF Range
  <2> QED BY <2>1, <2>2
<1>7. Range(l) = Range(a) \ left
  BY <1>6 DEF Orderly
<1>8. InOrder(l, a)
  <2> SUFFICES ASSUME NEW i \in DOMAIN l, NEW j \in DOMAIN l, i < j
               PROVE  \E k, n \in DOMAIN a : k < n /\ l[i] = a[k] /\ l[j] = a[n]
    BY DEF InOrder
  <2>0. i \in Int /\ j \in 1..Len(l) /\ i \in 1..Len(l)
    BY <1>3
  <2>1. i \in 1..Len(line) /\ l[i] = line[i]
    BY <1>2, <1>3, <2>0
  <2>2. CASE j = Len(l)
    <3>1. line[i] \in Range(arrivals)
      BY <2>1, <1>3 DEF Orderly, Range
    <3>2. PICK k \in 1..Len(arrivals) : line[i] = arrivals[k]
      BY <3>1, <1>3 DEF Range
    <3>3. k \in DOMAIN a /\ Len(a) \in DOMAIN a /\ k < Len(a)
      BY <1>1, <1>3
    <3>4. l[i] = a[k] /\ l[j] = a[Len(a)]
      BY <1>1, <1>2, <2>1, <2>2, <3>2
    <3> QED BY <3>3, <3>4
  <2>3. CASE j # Len(l)
    <3>1. j \in 1..Len(line) /\ l[j] = line[j]
      BY <2>0, <2>3, <1>2, <1>3
    <3>2. i \in DOMAIN line /\ j \in DOMAIN line
      BY <1>3, <2>1, <3>1
    <3>3. PICK k \in DOMAIN arrivals, n \in DOMAIN arrivals :
            k < n /\ line[i] = arrivals[k] /\ line[j] = arrivals[n]
      BY <3>2 DEF Orderly, InOrder
    <3>4. k \in DOMAIN a /\ n \in DOMAIN a /\ a[k] = arrivals[k] /\ a[n] = arrivals[n]
      BY <1>1, <1>3
    <3> QED BY <2>1, <3>1, <3>3, <3>4
  <2> QED BY <2>2, <2>3
<1>9. left \subseteq Range(a)
  BY <1>6 DEF Orderly
<1> QED BY <1>5, <1>7, <1>8, <1>9 DEF Orderly, a, l

\* A message that arrives and is put aside at once.
LEMMA OrderlyAside ==
  ASSUME NEW S, NEW line \in Seq(S), NEW arrivals \in Seq(S), NEW left, NEW m \in S,
         m \notin Range(arrivals), Orderly(line, arrivals, left)
  PROVE  Orderly(line, Append(arrivals, m), left \cup {m})
<1> DEFINE a == Append(arrivals, m)
<1>1. /\ Len(a) = Len(arrivals) + 1 /\ a[Len(a)] = m /\ a \in Seq(S)
      /\ \A i \in 1..Len(arrivals) : a[i] = arrivals[i]
  BY AppendProperties, LenProperties
<1>2. /\ DOMAIN a = 1..Len(a) /\ DOMAIN arrivals = 1..Len(arrivals)
      /\ Len(a) \in Nat /\ Len(arrivals) \in Nat
  BY <1>1, LenProperties
<1>3. \A i \in 1..Len(arrivals) : arrivals[i] # m
  BY <1>2 DEF Range
<1> HIDE DEF a
<1>4. IsInjective(a)
  BY <1>1, <1>2, <1>3 DEF Orderly, IsInjective
<1>5. Range(a) = Range(arrivals) \cup {m}
  BY <1>1, <1>2 DEF Range
<1>6. Range(line) = Range(a) \ (left \cup {m}) /\ left \cup {m} \subseteq Range(a)
  BY <1>5 DEF Orderly
<1>7. InOrder(line, a)
  <2> SUFFICES ASSUME NEW i \in DOMAIN line, NEW j \in DOMAIN line, i < j
               PROVE  \E k, n \in DOMAIN a : k < n /\ line[i] = a[k] /\ line[j] = a[n]
    BY DEF InOrder
  <2>1. PICK k \in DOMAIN arrivals, n \in DOMAIN arrivals :
          k < n /\ line[i] = arrivals[k] /\ line[j] = arrivals[n]
    BY DEF Orderly, InOrder
  <2>2. k \in DOMAIN a /\ n \in DOMAIN a /\ a[k] = arrivals[k] /\ a[n] = arrivals[n]
    BY <1>1, <1>2
  <2> QED BY <2>1, <2>2
<1> QED BY <1>4, <1>6, <1>7 DEF Orderly, a

\* The messages that are not finished leave the line together.
LEMMA OrderlyCut ==
  ASSUME NEW S, NEW f \in Seq(S), NEW c \in Seq(S), NEW q \in Seq(S), NEW arrivals \in Seq(S),
         NEW left, Orderly(f \o c \o q, arrivals, left)
  PROVE  Orderly(f \o <<>> \o <<>>, arrivals, left \cup Range(q \o c))
<1> DEFINE r == c \o q  line == f \o r
<1>1. r \in Seq(S) /\ f \o c \o q = line
  BY ConcatAssociative, ConcatProperties
<1>2. f \o <<>> \o <<>> = f
  BY ConcatEmptySeq
<1>3. Range(q \o c) = Range(r)
  <2>1. Range(q \o c) = Range(q) \cup Range(c) /\ Range(c \o q) = Range(c) \cup Range(q)
    BY RangeConcatenation
  <2> QED BY <2>1
<1> HIDE DEF r
<1>4. /\ line \in Seq(S) /\ Len(line) = Len(f) + Len(r)
      /\ \A i \in 1..Len(f) : line[i] = f[i]
      /\ \A i \in 1..Len(r) : line[Len(f) + i] = r[i]
  <2>1. line \in Seq(S) /\ Len(line) = Len(f) + Len(r)
    BY <1>1, ConcatProperties
  <2>2. \A i \in 1..Len(line) : line[i] = IF i <= Len(f) THEN f[i] ELSE r[i - Len(f)]
    BY <1>1, ConcatProperties
  <2>3. Len(f) \in Nat /\ Len(r) \in Nat
    BY <1>1, LenProperties
  <2> HIDE DEF line
  <2>4. \A i \in 1..Len(f) : line[i] = f[i]
    BY <2>1, <2>2, <2>3
  <2>5. ASSUME NEW i \in 1..Len(r)
        PROVE  line[Len(f) + i] = r[i]
    <3>1. Len(f) + i \in 1..Len(line) /\ ~ Len(f) + i <= Len(f) /\ (Len(f) + i) - Len(f) = i
      BY <2>1, <2>3
    <3> QED BY <2>2, <3>1
  <2> QED BY <2>1, <2>4, <2>5
<1>5. Range(line) = Range(f) \cup Range(r)
  BY <1>1, RangeConcatenation
<1> HIDE DEF line
<1>6. /\ DOMAIN f = 1..Len(f) /\ DOMAIN r = 1..Len(r) /\ DOMAIN line = 1..Len(line)
      /\ DOMAIN arrivals = 1..Len(arrivals)
      /\ Len(f) \in Nat /\ Len(r) \in Nat /\ Len(line) \in Nat /\ Len(arrivals) \in Nat
  BY <1>1, <1>4, LenProperties
<1>7. Orderly(line, arrivals, left)
  BY <1>1
<1>8. Range(f) \cap Range(r) = {}
  <2> SUFFICES ASSUME NEW i \in 1..Len(f), NEW j \in 1..Len(r), f[i] = r[j]
               PROVE  FALSE
    BY <1>6 DEF Range
  <2>1. i \in DOMAIN line /\ Len(f) + j \in DOMAIN line /\ i < Len(f) + j
    BY <1>4, <1>6
  <2>3. PICK k \in DOMAIN arrivals, n \in DOMAIN arrivals :
          k < n /\ line[i] = arrivals[k] /\ line[Len(f) + j] = arrivals[n]
    BY <1>7, <2>1 DEF Orderly, InOrder
  <2>4. arrivals[k] = arrivals[n]
    BY <1>4, <2>3
  <2> QED BY <1>6, <1>7, <2>3, <2>4 DEF Orderly, IsInjective
<1>9. Range(f) = Range(arrivals) \ (left \cup Range(q \o c))
  BY <1>3, <1>5, <1>7, <1>8 DEF Orderly
<1>10. InOrder(f, arrivals)
  <2> SUFFICES ASSUME NEW i \in DOMAIN f, NEW j \in DOMAIN f, i < j
               PROVE  \E k, n \in DOMAIN arrivals :
                        k < n /\ f[i] = arrivals[k] /\ f[j] = arrivals[n]
    BY DEF InOrder
  <2>1. i \in DOMAIN line /\ j \in DOMAIN line /\ line[i] = f[i] /\ line[j] = f[j]
    BY <1>4, <1>6
  <2> QED BY <1>7, <2>1 DEF Orderly, InOrder
<1>11. left \cup Range(q \o c) \subseteq Range(arrivals)
  BY <1>3, <1>5, <1>7 DEF Orderly
<1> QED BY <1>2, <1>7, <1>9, <1>10, <1>11 DEF Orderly

\* The start and the end of connections, of the server and of the processor.
LEMMA ServerStarts == ASSUME SyslogInv, StartServer PROVE SyslogInv'
<1>1. /\ server.pc = "down" /\ processor' = "get" /\ server' \in [pc : {"up"}, running : BOOLEAN,
                                                              udp : BOOLEAN, tcp : BOOLEAN]
      /\ UNCHANGED <<open, queue, current, accepted, finished, stranded, late>>
  BY DEF StartServer, syslogHistory
<1>2. SyslogTyped' /\ Attended'
  BY <1>1 DEF SyslogInv, SyslogTyped, Attended
<1>3. Kept' = Kept
  BY <1>1 DEF SyslogInv, Attended, Kept
<1> QED BY <1>1, <1>2, <1>3 DEF SyslogInv

LEMMA ClientsComeAndGo ==
  ASSUME SyslogInv, NEW c \in Client, Connect(c) \/ Disconnect(c)
  PROVE  SyslogInv'
<1>1. SyslogTyped' /\ Attended'
  BY DEF SyslogInv, SyslogTyped, Attended, Connect, Disconnect, syslogHistory
<1>2. UNCHANGED <<processor, finished, current, queue, accepted, stranded, late>>
  BY DEF Connect, Disconnect, syslogHistory
<1> QED BY <1>1, <1>2 DEF SyslogInv, Kept

LEMMA ServerStops == ASSUME SyslogInv, StopServer PROVE SyslogInv'
<1>1. SyslogTyped' /\ Attended'
  BY DEF SyslogInv, SyslogTyped, Attended, StopServer, Down, syslogHistory
<1>2. UNCHANGED <<processor, finished, current, queue, accepted, stranded, late>>
  BY DEF StopServer, syslogHistory
<1> QED BY <1>1, <1>2 DEF SyslogInv, Kept

\* The processor goes, with what is in its hands, alone or with the whole process.
LEMMA ProcessorGoes ==
  ASSUME SyslogInv, processor # "none", processor' = "none", current' = <<>>,
         stranded' = stranded \cup Range(queue \o current),
         UNCHANGED <<accepted, finished, late>>, SyslogTyped', Attended'
  PROVE  SyslogInv'
<1>1. Kept = finished \o current \o queue /\ Kept' = finished \o <<>> \o <<>>
  BY DEF Kept
<1>2. Orderly(finished \o <<>> \o <<>>, accepted, (stranded \cup late) \cup Range(queue \o current))
  BY <1>1, OrderlyCut DEF SyslogInv, SyslogTyped
<1>3. (stranded \cup late)' = (stranded \cup late) \cup Range(queue \o current)
  OBVIOUS
<1> QED BY <1>1, <1>2, <1>3 DEF SyslogInv

LEMMA ProcessorCancelled == ASSUME SyslogInv, CancelProcessor PROVE SyslogInv'
<1>1. SyslogTyped' /\ Attended'
  BY DEF SyslogInv, SyslogTyped, Attended, CancelProcessor
<1> QED BY <1>1, ProcessorGoes DEF CancelProcessor

LEMMA ProcessGoes == ASSUME SyslogInv, ProcessEnds \/ SyslogCrash PROVE SyslogInv'
<1>1. /\ server' = Down /\ processor' = "none" /\ open' = {} /\ current' = <<>> /\ queue' = <<>>
      /\ UNCHANGED <<accepted, finished, late>>
  BY DEF SyslogInv, Attended, ProcessEnds, SyslogCrash, syslogHistory
<1>2. SyslogTyped' /\ Attended'
  BY <1>1 DEF SyslogInv, SyslogTyped, Attended, Down
<1>3. CASE processor = "none"
  <2>1. stranded' = stranded
    BY <1>3 DEF ProcessEnds, SyslogCrash, syslogHistory
  <2>2. Kept' = Kept
    BY <1>1, <1>3 DEF SyslogInv, Attended, Kept
  <2> QED BY <1>1, <1>2, <2>1, <2>2 DEF SyslogInv
<1>4. CASE processor # "none"
  <2>1. stranded' = stranded \cup Range(queue \o current)
    BY <1>4 DEF ProcessEnds, SyslogCrash
  <2> QED BY <1>1, <1>2, <1>4, <2>1, ProcessorGoes
<1> QED BY <1>3, <1>4

\* A message moves along the line, or is late.
LEMMA MessagePut ==
  ASSUME SyslogInv, NEW m \in Line, DatagramReceived(m) \/ LineReceived(m)
  PROVE  SyslogInv'
<1>1. Put(m) /\ server.pc # "down" /\ (processor = "none" => m \in ViaTcp)
  BY DEF SyslogInv, SyslogTyped, Attended, DatagramReceived, LineReceived
<1>2. UNCHANGED <<server, open, processor, current, finished, stranded>>
  BY <1>1 DEF Put
<1>3. CASE Len(queue) < QueueSize
  <2>1. /\ queue' = Append(queue, m) /\ accepted' = Append(accepted, m)
        /\ m \notin Range(accepted)
        /\ late' = IF processor = "none" THEN late \cup {m} ELSE late
    BY <1>1, <1>3 DEF Put
  <2>2. SyslogTyped' /\ Attended' /\ late' \subseteq ViaTcp
    BY <1>1, <1>2, <2>1, AppendProperties DEF SyslogInv, SyslogTyped, Attended
  <2>3. CASE processor # "none"
    <3>1. Kept \in Seq(Line) /\ Kept' = Append(Kept, m)
      BY <1>2, <2>1, <2>3, Moves DEF SyslogInv, SyslogTyped, Kept
    <3>2. m \notin stranded \cup late
      BY <2>1 DEF SyslogInv, Orderly
    <3>3. Orderly(Append(Kept, m), Append(accepted, m), stranded \cup late)
      BY <2>1, <3>1, <3>2, OrderlyPut DEF SyslogInv, SyslogTyped
    <3> QED BY <1>2, <2>1, <2>2, <2>3, <3>1, <3>3 DEF SyslogInv
  <2>4. CASE processor = "none"
    <3>1. Kept \in Seq(Line) /\ Kept' = Kept
      <4>1. <<>> \in Seq(Line)
        OBVIOUS
      <4> QED BY <1>2, <2>4, <4>1, ConcatProperties DEF SyslogInv, SyslogTyped, Kept
    <3>2. Orderly(Kept, Append(accepted, m), (stranded \cup late) \cup {m})
      BY <2>1, <3>1, OrderlyAside DEF SyslogInv, SyslogTyped
    <3>3. (stranded \cup late)' = (stranded \cup late) \cup {m}
      BY <1>2, <2>1, <2>4
    <3> QED BY <2>1, <2>2, <3>1, <3>2, <3>3 DEF SyslogInv
  <2> QED BY <2>3, <2>4
<1>4. CASE ~ Len(queue) < QueueSize
  <2>1. UNCHANGED <<queue, accepted, late>>
    BY <1>1, <1>4 DEF Put
  <2> QED BY <1>2, <2>1 DEF SyslogInv, SyslogTyped, Attended, Kept
<1> QED BY <1>3, <1>4

LEMMA MessageTaken == ASSUME SyslogInv, TakeMessage PROVE SyslogInv'
<1>1. /\ processor = "get" /\ current = <<>> /\ queue # <<>>
      /\ current' = <<Head(queue)>> /\ queue' = Tail(queue) /\ processor' = "store"
      /\ UNCHANGED <<server, open, accepted, finished, stranded, late>>
  BY DEF SyslogInv, Attended, TakeMessage, syslogHistory
<1>2. PICK m \in Line : m = Head(queue)
  BY <1>1 DEF SyslogInv, SyslogTyped
<1>3. /\ current' \in Seq(Line) /\ queue' \in Seq(Line)
      /\ finished \o current' \o queue' = finished \o <<>> \o queue
  BY <1>1, <1>2, Moves DEF SyslogInv, SyslogTyped
<1>4. SyslogTyped' /\ Attended'
  BY <1>1, <1>3 DEF SyslogInv, SyslogTyped, Attended
<1>5. Kept' = Kept
  BY <1>1, <1>3 DEF Kept
<1> QED BY <1>1, <1>4, <1>5 DEF SyslogInv

LEMMA MessageFinished == ASSUME SyslogInv, FinishMessage PROVE SyslogInv'
<1>1. /\ processor = "store" /\ processor' = "get"
      /\ finished' = finished \o current /\ current' = <<>>
      /\ UNCHANGED <<server, open, queue, accepted, stranded, late>>
  BY DEF FinishMessage, AfterFailure
<1>2. SyslogTyped' /\ Attended'
  BY <1>1, ConcatProperties DEF SyslogInv, SyslogTyped, Attended
<1>3. Kept' = Kept
  <2>1. (finished \o current) \o <<>> = finished \o current
    BY ConcatProperties, ConcatEmptySeq DEF SyslogInv, SyslogTyped
  <2> QED BY <1>1, <2>1 DEF Kept
<1> QED BY <1>1, <1>2, <1>3 DEF SyslogInv

LEMMA SyslogStarts == SyslogInit => SyslogInv
<1> SUFFICES ASSUME SyslogInit PROVE SyslogInv
  OBVIOUS
<1>1. SyslogTyped /\ Attended /\ late = {}
  BY DEF SyslogInit, Down, SyslogTyped, Attended
<1>2. Kept = <<>> /\ accepted = <<>> /\ stranded = {}
  <2>1. (<<>> \o <<>>) \o <<>> = <<>>
    OBVIOUS
  <2> QED BY <2>1 DEF SyslogInit, Kept
<1>3. Orderly(<<>>, <<>>, {})
  BY DEF Orderly, IsInjective, InOrder, Range
<1>4. stranded \cup late = {}
  BY <1>1, <1>2
<1> QED BY <1>1, <1>2, <1>3, <1>4 DEF SyslogInv

LEMMA SyslogGoesOn == SyslogInv /\ [SyslogNext]_syslogVars => SyslogInv'
<1> SUFFICES ASSUME SyslogInv, [SyslogNext]_syslogVars PROVE SyslogInv'
  OBVIOUS
<1>1. CASE UNCHANGED syslogVars
  BY <1>1 DEF syslogVars, SyslogInv, SyslogTyped, Attended, Kept
<1>2. CASE SyslogNext
  BY <1>2, ServerStarts, MessageTaken, MessageFinished, ServerStops, ProcessorCancelled, ProcessGoes,
     ClientsComeAndGo, MessagePut DEF SyslogNext
<1> QED BY <1>1, <1>2

\* Whatever the size of the queue, the number of clients and of messages, and wherever
\* the process is stopped or crashes: what is put into the queue of a processor that has
\* gone came over a connection that outlived the listener, and everything else that was
\* accepted is finished in order but for what was stopped with the processor.
THEOREM LateMessagesCameOverTcp == SyslogSpec => []OnlyTcpIsStrandedLate
<1>1. SyslogInv => OnlyTcpIsStrandedLate
  BY DEF SyslogInv, Orderly, OnlyTcpIsStrandedLate
<1> QED BY <1>1, SyslogStarts, SyslogGoesOn, PTL DEF SyslogSpec

-----------------------------------------------------------------------------
(* KafkaConsumer.  The invariant orders the broker's offset, the requests under way and *)
(* the position of the loop, and says that nothing below any of them is unhandled but   *)
(* the message in the loop's hands.                                                     *)

Running == pc # "down"

\* The loop has this message and has neither stored it nor logged a failure.
InHand(m) == pc = "storing" /\ m = message

\* Below the position of a running loop everything is handled.
PositionInv ==
  Running => \A m \in Messages : m < position => Handled(m) \/ InHand(m)

\* So it is below every offset asked for.
RequestInv == \A r \in requests : \A m \in Messages : m < r => Handled(m)

\* The committed offset is behind every request, and both are behind the loop.
OrderInv ==
  /\ committed # None => \A r \in requests : committed <= r
  /\ Running /\ committed # None =>
       committed <= position /\ (pc = "storing" => committed <= message)
  /\ Running => \A r \in requests : r <= position /\ (pc = "storing" => r <= message)

\* A message the loop has not come to since the last stop was stored once for
\* each stop at most.
RepeatInv ==
  \A m \in Messages :
    /\ stored[m] <= 1 + stops
    /\ ~ Running \/ m >= position \/ InHand(m) => stored[m] <= stops

ConsumerInv == TypeOK /\ CommittedIsHandled /\ PositionInv /\ RequestInv /\ OrderInv /\ RepeatInv

USE ConsumerAssumption DEF Messages, Offsets

LEMMA ConsumerStarts == Init => ConsumerInv
BY DEF Init, ConsumerInv, TypeOK, CommittedIsHandled, PositionInv, RequestInv, OrderInv, RepeatInv,
       Running, InHand

\* Every step keeps the types.
LEMMA ConsumerTypeStep == TypeOK /\ [Next]_vars => TypeOK'
<1> SUFFICES ASSUME TypeOK, [Next]_vars PROVE TypeOK'
  OBVIOUS
<1>1. CASE Start
  <2>1. StartOffset \in Offsets
    BY DEF TypeOK, StartOffset
  <2>2. 0..(produced - 1) \subseteq Messages
    BY DEF TypeOK
  <2>3. skipped' \subseteq Messages
    BY <1>1, <2>2 DEF TypeOK, Start
  <2> QED
    BY <1>1, <2>1, <2>3 DEF TypeOK, Start
<1>2. CASE Poll
  BY <1>2 DEF TypeOK, Poll, After, broker, history
<1>3. CASE Store
  BY <1>3 DEF TypeOK, Store, broker, history
<1>4. CASE Fail
  BY <1>4 DEF TypeOK, Fail, Fault, broker
<1>5. CASE CommitOffset
  BY <1>5 DEF TypeOK, CommitOffset, Requested, history
<1>6. CASE Stop
  BY <1>6 DEF TypeOK, Stop, broker, history
<1>7. CASE Produce
  BY <1>7 DEF TypeOK, Produce, loop, history
<1>8. ASSUME NEW r \in Offsets, Serve(r) PROVE TypeOK'
  BY <1>8 DEF TypeOK, Serve, First, loop, history
<1>9. ASSUME NEW r \in Offsets, Lose(r) PROVE TypeOK'
  BY <1>9 DEF TypeOK, Lose, Fault, loop, history
<1>10. CASE UNCHANGED vars
  BY <1>10 DEF TypeOK, vars, broker, loop, history
<1> QED
  BY <1>1, <1>2, <1>3, <1>4, <1>5, <1>6, <1>7, <1>8, <1>9, <1>10 DEF Next, Consume

\* What is handled stays handled.
LEMMA HandledStays ==
  ASSUME TypeOK, [Next]_vars, NEW m \in Messages, Handled(m)
  PROVE  Handled(m)'
<1>1. CASE Store
  BY <1>1 DEF TypeOK, Store, Handled, history
<1>2. ASSUME ~ Store PROVE UNCHANGED stored /\ failed \subseteq failed' /\ skipped \subseteq skipped'
  BY <1>2 DEF Next, Consume, Start, Poll, Fail, CommitOffset, Stop, Produce, Serve, Lose, vars,
              broker, loop, history
<1> QED
  BY <1>1, <1>2 DEF Handled

LEMMA OrderStep == TypeOK /\ OrderInv /\ [Next]_vars => OrderInv'
<1> SUFFICES ASSUME TypeOK, OrderInv, [Next]_vars PROVE OrderInv'
  OBVIOUS
<1> USE DEF OrderInv, TypeOK, Running
<1>1. CASE Start
  BY <1>1 DEF Start, StartOffset
<1>2. CASE Poll
  BY <1>2 DEF Poll, After, broker
<1>3. CASE Store
  BY <1>3 DEF Store, broker
<1>4. CASE Fail
  BY <1>4 DEF Fail, broker
<1>5. CASE CommitOffset
  BY <1>5 DEF CommitOffset, Requested
<1>6. CASE Stop
  BY <1>6 DEF Stop, broker
<1>7. CASE Produce
  BY <1>7 DEF Produce, loop
<1>8. ASSUME NEW r \in Offsets, Serve(r) PROVE OrderInv'
  BY <1>8 DEF Serve, First, loop
<1>9. ASSUME NEW r \in Offsets, Lose(r) PROVE OrderInv'
  BY <1>9 DEF Lose, First, loop
<1>10. CASE UNCHANGED vars
  BY <1>10 DEF vars, broker, loop
<1> QED
  BY <1>1, <1>2, <1>3, <1>4, <1>5, <1>6, <1>7, <1>8, <1>9, <1>10 DEF Next, Consume

\* The three statements about handled messages are kept together: an offset is
\* asked for at the position and committed where it was asked for, and a new
\* consumer starts where it was committed.
LEMMA HandledStep ==
  ASSUME TypeOK, CommittedIsHandled, PositionInv, RequestInv, [Next]_vars
  PROVE  (CommittedIsHandled /\ PositionInv /\ RequestInv)'
<1> USE DEF CommittedIsHandled, PositionInv, RequestInv, Running, InHand
<1>0. \A m \in Messages : Handled(m) => Handled(m)'
  BY HandledStays
<1>1. CASE Start
  <2>1. committed' = committed /\ requests' = {} /\ pc' = "polling" /\ position' = StartOffset
    BY <1>1 DEF Start
  <2>2. ASSUME NEW m \in Messages, m < StartOffset PROVE Handled(m)'
    <3>1. CASE committed = None
      BY <1>1, <2>2, <3>1 DEF Start, StartOffset, Handled, TypeOK
    <3>2. CASE committed # None
      BY <1>0, <2>2, <3>2 DEF StartOffset
    <3> QED
      BY <3>1, <3>2
  <2> QED
    BY <1>0, <2>1, <2>2
<1>2. CASE Poll
  BY <1>0, <1>2 DEF Poll, After, broker, TypeOK
<1>3. CASE Store
  <2>1. Handled(message)'
    BY <1>3 DEF Store, Handled, TypeOK
  <2> QED
    BY <1>0, <1>3, <2>1 DEF Store, broker, TypeOK
<1>4. CASE Fail
  <2>1. Handled(message)'
    BY <1>4 DEF Fail, Handled, TypeOK
  <2> QED
    BY <1>0, <1>4, <2>1 DEF Fail, broker, TypeOK
<1>5. CASE CommitOffset
  BY <1>0, <1>5 DEF CommitOffset, Requested, TypeOK
<1>6. CASE Stop
  BY <1>0, <1>6 DEF Stop, broker
<1>7. CASE Produce
  BY <1>0, <1>7 DEF Produce, loop
<1>8. ASSUME NEW r \in Offsets, Serve(r) PROVE (CommittedIsHandled /\ PositionInv /\ RequestInv)'
  BY <1>0, <1>8 DEF Serve, First, loop
<1>9. ASSUME NEW r \in Offsets, Lose(r) PROVE (CommittedIsHandled /\ PositionInv /\ RequestInv)'
  BY <1>0, <1>9 DEF Lose, loop
<1>10. CASE UNCHANGED vars
  BY <1>0, <1>10 DEF vars, broker, loop
<1> QED
  BY <1>1, <1>2, <1>3, <1>4, <1>5, <1>6, <1>7, <1>8, <1>9, <1>10 DEF Next, Consume

LEMMA RepeatStep == TypeOK /\ RepeatInv /\ [Next]_vars => RepeatInv'
<1> SUFFICES ASSUME TypeOK, RepeatInv, [Next]_vars PROVE RepeatInv'
  OBVIOUS
<1> USE DEF RepeatInv, TypeOK, Running, InHand
<1>1. CASE Start
  BY <1>1 DEF Start
<1>2. CASE Poll
  BY <1>2 DEF Poll, After
<1>3. CASE Store
  BY <1>3 DEF Store
<1>4. CASE Fail
  BY <1>4 DEF Fail
<1>5. CASE CommitOffset
  BY <1>5 DEF CommitOffset
<1>6. CASE Stop
  BY <1>6 DEF Stop
<1>7. CASE Produce
  BY <1>7 DEF Produce, loop
<1>8. ASSUME NEW r \in Offsets, Serve(r) PROVE RepeatInv'
  BY <1>8 DEF Serve, loop
<1>9. ASSUME NEW r \in Offsets, Lose(r) PROVE RepeatInv'
  BY <1>9 DEF Lose, loop
<1>10. CASE UNCHANGED vars
  BY <1>10 DEF vars, loop
<1> QED
  BY <1>1, <1>2, <1>3, <1>4, <1>5, <1>6, <1>7, <1>8, <1>9, <1>10 DEF Next, Consume

LEMMA ConsumerGoesOn == ConsumerInv /\ [Next]_vars => ConsumerInv'
BY ConsumerTypeStep, HandledStep, OrderStep, RepeatStep DEF ConsumerInv

LEMMA ConsumerInvHolds == Spec => []ConsumerInv
BY ConsumerStarts, ConsumerGoesOn, PTL DEF Spec

\* The broker's offset never runs ahead of the database, and a message is
\* stored at most once more for each stop: for any number of messages,
\* failures and restarts (kafka_consumer.py 85-110).
THEOREM ConsumerCorrect == Spec => [](TypeOK /\ CommittedIsHandled /\ RepeatsBounded)
<1>1. ConsumerInv => TypeOK /\ CommittedIsHandled /\ RepeatsBounded
  BY DEF ConsumerInv, RepeatInv, RepeatsBounded
<1> QED
  BY <1>1, ConsumerInvHolds, PTL

\* Under the invariant no step lowers the committed offset or stores what lies
\* below it.
LEMMA FinalStep ==
  ASSUME ConsumerInv, [Next]_vars, committed # None
  PROVE  /\ committed' # None /\ committed' >= committed
         /\ \A m \in Messages : m < committed => stored'[m] = stored[m]
<1> USE DEF ConsumerInv, TypeOK, OrderInv, Running
<1>1. CASE Store
  BY <1>1 DEF Store, broker
<1>2. ASSUME NEW r \in Offsets, Serve(r)
      PROVE  committed' # None /\ committed' >= committed /\ UNCHANGED stored
  BY <1>2 DEF Serve, First
<1>3. ASSUME ~ Store, \A r \in Offsets : ~ Serve(r) PROVE UNCHANGED <<committed, stored>>
  BY <1>3 DEF Next, Consume, Start, Poll, Fail, CommitOffset, Stop, Produce, Lose, vars, broker
<1> QED
  BY <1>1, <1>2, <1>3

\* The committed offset never falls, and nothing below it is stored again.
THEOREM CommittedStays == Spec => CommittedIsFinal
<1>1. ConsumerInv /\ [Next]_vars =>
        [committed # None =>
           /\ committed' # None /\ committed' >= committed
           /\ \A m \in Messages : m < committed => stored'[m] = stored[m]]_vars
  BY FinalStep
<1> QED
  BY <1>1, ConsumerInvHolds, PTL DEF Spec, CommittedIsFinal

-----------------------------------------------------------------------------
(* ThreatIndicators: sessions hold their rows apart, and what they counted is in the table *)

RequestRow ==
  [pc : {"idle", "look", "persist", "flush", "last", "done", "failed", "refused"}, at : Nat,
   seen : SUBSET Indicator, new : Seq(Indicator), held : SUBSET Indicator, said : SUBSET Indicator]

\* Of a session's row and the table: what it has flushed is not there yet if it is new, and
\* is there still if it is not.  A request that adds rows has counted those it added.
HoldsItsOwn(q, table) ==
  /\ q.held \cap Range(q.new) \cap table = {}
  /\ q.held \ Range(q.new) \subseteq table
  /\ q.held # {} => q.pc \in {"look", "persist", "flush", "last"}

CountsItsNew(q) ==
  /\ q.seen = {} /\ q.pc \notin {"persist", "flush"}
  /\ q.pc \in {"idle", "look", "last"} => q.said = Range(q.new)

InTurn(r, q) == q.pc \in {"idle", "look", "persist", "flush"} => q.at \in 1..Len(AskedFor[r])

RequestRight(r, q, table) ==
  /\ q \in RequestRow /\ InTurn(r, q) /\ HoldsItsOwn(q, table)
  /\ Kind[r] # "check" => CountsItsNew(q)

Apart(p, q) == p.held \cap q.held = {}

IndicatorInv ==
  /\ request \in [Request -> RequestRow]
  /\ \A r \in Request : RequestRight(r, request[r], listed)
  /\ \A r, p \in Request : r # p => Apart(request[r], request[p])
  /\ CountedIsListed

\* A session that moves without changing the table, and takes no row that another holds.
LEMMA SessionMoves ==
  ASSUME IndicatorInv, NEW r \in Request, NEW row, RequestRight(r, row, listed), row.pc # "done",
         Serves(r, row), row.held \cap HeldByOthers(r) = {}, UNCHANGED <<listed, removed>>
  PROVE  IndicatorInv'
<1>1. request' = [request EXCEPT ![r] = row] /\ row \in RequestRow
  BY DEF Serves, RequestRight
<1>2. request' \in [Request -> RequestRow] /\ request'[r] = row
  BY <1>1 DEF IndicatorInv
<1>3. \A p \in Request \ {r} : request'[p] = request[p]
  BY <1>1 DEF IndicatorInv
<1>4. \A p \in Request : RequestRight(p, request'[p], listed)
  BY <1>2, <1>3 DEF IndicatorInv
<1>5. \A p \in Request \ {r} : Apart(row, request[p]) /\ Apart(request[p], row)
  BY DEF Apart, HeldByOthers
<1>6. \A q, p \in Request : q # p => Apart(request'[q], request'[p])
  <2> SUFFICES ASSUME NEW q \in Request, NEW p \in Request, q # p
               PROVE  Apart(request'[q], request'[p])
    OBVIOUS
  <2>1. CASE q = r
    BY <2>1, <1>2, <1>3, <1>5
  <2>2. CASE p = r
    BY <2>2, <1>2, <1>3, <1>5
  <2>3. CASE q # r /\ p # r
    BY <2>3, <1>3 DEF IndicatorInv
  <2> QED BY <2>1, <2>2, <2>3
<1>7. CountedIsListed'
  BY <1>2, <1>3 DEF IndicatorInv, CountedIsListed
<1>8. \A p \in Request : RequestRight(p, request'[p], listed')
  BY <1>4
<1> QED BY <1>2, <1>6, <1>7, <1>8 DEF IndicatorInv

\* What a session holds already no other holds.
LEMMA OwnRows ==
  ASSUME IndicatorInv, NEW r \in Request
  PROVE  request[r].held \cap HeldByOthers(r) = {}
BY DEF IndicatorInv, HeldByOthers, Apart

Moved(row, at, place, q) ==
  /\ q.seen = row.seen /\ q.new = row.new /\ q.held = row.held /\ q.said = row.said
  /\ q.at = at /\ q.pc = place /\ q \in RequestRow

\* The next lookup, or the commit.
LEMMA OnwardRight ==
  ASSUME NEW r \in Request, NEW row, NEW table, RequestRight(r, row, table),
         row.pc \in {"look", "persist", "flush"}
  PROVE  /\ RequestRight(r, Onward(row, r), table)
         /\ Onward(row, r).held = row.held /\ Onward(row, r).pc # "done"
<1> DEFINE q == Onward(row, r)
<1>1. row \in RequestRow /\ row.at \in 1..Len(AskedFor[r])
  BY DEF RequestRight, InTurn
<1>2. /\ q.seen = row.seen /\ q.new = row.new /\ q.held = row.held /\ q.said = row.said
      /\ q.at = row.at + 1 /\ q.pc = IF row.at = Len(AskedFor[r]) THEN "last" ELSE "look"
      /\ q \in RequestRow
  <2>1. row.at + 1 \in Nat
    BY <1>1 DEF RequestRow
  <2>2. \A at \in Nat, place \in {"look", "last"} : Moved(row, at, place, [row EXCEPT !.at = at, !.pc = place])
    BY <1>1 DEF RequestRow, Moved
  <2>3. q = [row EXCEPT !.at = row.at + 1, !.pc = IF row.at = Len(AskedFor[r]) THEN "last" ELSE "look"]
    BY DEF Onward
  <2> HIDE DEF q
  <2>4. Moved(row, row.at + 1, IF row.at = Len(AskedFor[r]) THEN "last" ELSE "look", q)
    BY <2>1, <2>2, <2>3
  <2> QED BY <2>4 DEF Moved
<1> HIDE DEF q
<1>3. AskedFor[r] \in Seq(Indicator) /\ Len(AskedFor[r]) \in Nat
  BY IndicatorAssumption, LenProperties
<1>4. InTurn(r, q)
  BY <1>1, <1>2, <1>3 DEF InTurn
<1>5. HoldsItsOwn(q, table)
  BY <1>2 DEF RequestRight, HoldsItsOwn
<1>6. Kind[r] # "check" => CountsItsNew(q)
  BY <1>2 DEF RequestRight, CountsItsNew
<1>7. RequestRight(r, q, table) /\ q.held = row.held /\ q.pc # "done"
  BY <1>2, <1>4, <1>5, <1>6 DEF RequestRight
<1> QED BY <1>7 DEF q

LEMMA RangeOfAppend ==
  ASSUME NEW S, NEW s \in Seq(S), NEW k \in S
  PROVE  Append(s, k) \in Seq(S) /\ Range(Append(s, k)) = Range(s) \cup {k}
<1> DEFINE a == Append(s, k)
<1>1. /\ a \in Seq(S) /\ Len(a) = Len(s) + 1 /\ a[Len(a)] = k
      /\ \A i \in 1..Len(s) : a[i] = s[i]
  BY AppendProperties, LenProperties
<1>2. /\ DOMAIN a = 1..Len(a) /\ DOMAIN s = 1..Len(s) /\ Len(a) \in Nat /\ Len(s) \in Nat
  BY <1>1, LenProperties
<1> HIDE DEF a
<1>3. Range(a) = Range(s) \cup {k}
  BY <1>1, <1>2 DEF Range
<1> QED BY <1>1, <1>3 DEF a

LEMMA EmptyRange == Range(<<>>) = {}
BY DEF Range

LEMMA NoRequestRight ==
  ASSUME NEW r \in Request, NEW table, NEW place \in {"idle", "failed", "refused"}
  PROVE  RequestRight(r, [NoRequest EXCEPT !.pc = place], table)
<1> DEFINE q == [NoRequest EXCEPT !.pc = place]
<1>1. <<>> \in Seq(Indicator)
  BY EmptySeq
<1>2. /\ q \in RequestRow /\ q.pc = place /\ q.at = 1 /\ q.seen = {} /\ q.new = <<>>
      /\ q.held = {} /\ q.said = {}
  BY <1>1 DEF RequestRow, NoRequest
<1> HIDE DEF q
<1>3. AskedFor[r] \in Seq(Indicator) /\ AskedFor[r] # <<>> /\ Len(AskedFor[r]) \in Nat
  BY IndicatorAssumption, LenProperties
<1>4. Len(AskedFor[r]) # 0
  BY <1>3, EmptySeq
<1>5. RequestRight(r, q, table)
  BY <1>2, <1>3, <1>4, EmptyRange DEF RequestRight, InTurn, HoldsItsOwn, CountsItsNew
<1> QED BY <1>5 DEF q

-----------------------------------------------------------------------------
LEMMA IndicatorsStart == IndicatorInit => IndicatorInv
<1> SUFFICES ASSUME IndicatorInit PROVE IndicatorInv
  OBVIOUS
<1>1. [NoRequest EXCEPT !.pc = "idle"] = NoRequest
  BY DEF NoRequest
<1>2. \A r \in Request : RequestRight(r, NoRequest, listed)
  BY NoRequestRight, <1>1
<1>3. NoRequest.held = {} /\ NoRequest.pc = "idle"
  BY DEF NoRequest
<1>4. NoRequest \in RequestRow
  BY EmptySeq DEF NoRequest, RequestRow
<1>5. \A r \in Request : request[r] = NoRequest
  BY DEF IndicatorInit
<1>6. request \in [Request -> RequestRow]
  BY <1>4 DEF IndicatorInit
<1> QED BY <1>2, <1>3, <1>5, <1>6 DEF IndicatorInv, CountedIsListed, Apart

\* The row of a request, with what the invariant says of it.
LEMMA RowOfRequest ==
  ASSUME IndicatorInv, NEW r \in Request
  PROVE  /\ request[r] \in RequestRow /\ RequestRight(r, request[r], listed)
         /\ request[r].held \cap HeldByOthers(r) = {}
BY OwnRows DEF IndicatorInv

LEMMA BeginKeeps == ASSUME IndicatorInv, NEW r \in Request, BeginRequest(r) PROVE IndicatorInv'
<1> DEFINE row == [request[r] EXCEPT !.pc = "look"]
<1>1. request[r] \in RequestRow /\ RequestRight(r, request[r], listed)
  BY RowOfRequest
<1>2. /\ row \in RequestRow /\ row.pc = "look" /\ row.at = request[r].at /\ row.seen = request[r].seen
      /\ row.new = request[r].new /\ row.held = request[r].held /\ row.said = request[r].said
  BY <1>1 DEF RequestRow
<1>3. request[r].pc = "idle" /\ Serves(r, row) /\ UNCHANGED <<listed, removed>>
  BY DEF BeginRequest
<1> HIDE DEF row
<1>4. RequestRight(r, row, listed)
  BY <1>1, <1>2, <1>3 DEF RequestRight, InTurn, HoldsItsOwn, CountsItsNew
<1> QED BY <1>2, <1>3, <1>4, SessionMoves, RowOfRequest

LEMMA CheckKeeps == ASSUME IndicatorInv, NEW r \in Request, CheckIndicator(r) PROVE IndicatorInv'
<1> DEFINE row == request[r]
           k == Current(r)
           found == [row EXCEPT !.seen = @ \cup {k}, !.said = @ \cup {k}]
           asked == [row EXCEPT !.pc = "persist", !.said = @ \cup {k}]
<1>1. /\ row \in RequestRow /\ RequestRight(r, row, listed) /\ row.held \cap HeldByOthers(r) = {}
  BY RowOfRequest
<1>2. row.pc = "look" /\ Kind[r] = "check" /\ UNCHANGED <<listed, removed>>
  BY DEF CheckIndicator
<1>3. k \in Indicator
  <2>1. row.at \in 1..Len(AskedFor[r])
    BY <1>1, <1>2 DEF RequestRight, InTurn
  <2>2. AskedFor[r] \in Seq(Indicator)
    BY IndicatorAssumption
  <2> QED BY <2>1, <2>2, ElementOfSeq DEF Current
<1>4. /\ found \in RequestRow /\ found.pc = row.pc /\ found.at = row.at /\ found.new = row.new
      /\ found.held = row.held
  BY <1>1, <1>3 DEF RequestRow
<1>5. /\ asked \in RequestRow /\ asked.pc = "persist" /\ asked.at = row.at /\ asked.new = row.new
      /\ asked.held = row.held
  BY <1>1, <1>3 DEF RequestRow
<1>6. \/ Serves(r, Onward(found, r)) \/ Serves(r, asked) \/ Serves(r, Onward(row, r))
  BY DEF CheckIndicator
<1> HIDE DEF row, k, found, asked
<1>7. RequestRight(r, found, listed) /\ RequestRight(r, asked, listed)
  BY <1>1, <1>2, <1>4, <1>5 DEF RequestRight, InTurn, HoldsItsOwn
<1>8. CASE Serves(r, Onward(found, r))
  BY <1>8, <1>1, <1>2, <1>4, <1>7, OnwardRight, SessionMoves
<1>9. CASE Serves(r, asked)
  BY <1>9, <1>1, <1>2, <1>5, <1>7, SessionMoves
<1>10. CASE Serves(r, Onward(row, r))
  BY <1>10, <1>1, <1>2, OnwardRight, SessionMoves
<1> QED BY <1>6, <1>8, <1>9, <1>10

LEMMA PersistKeeps == ASSUME IndicatorInv, NEW r \in Request, PersistIndicator(r) PROVE IndicatorInv'
<1> DEFINE row == request[r]
           k == Current(r)
           added == [row EXCEPT !.new = Append(@, k), !.pc = "flush"]
<1>1. /\ row \in RequestRow /\ RequestRight(r, row, listed) /\ row.held \cap HeldByOthers(r) = {}
  BY RowOfRequest
<1>2. row.pc = "persist" /\ Kind[r] = "check" /\ UNCHANGED <<listed, removed>>
  BY <1>1 DEF PersistIndicator, RequestRight, CountsItsNew
<1>3. k \in Indicator
  <2>1. row.at \in 1..Len(AskedFor[r])
    BY <1>1, <1>2 DEF RequestRight, InTurn
  <2>2. AskedFor[r] \in Seq(Indicator)
    BY IndicatorAssumption
  <2> QED BY <2>1, <2>2, ElementOfSeq DEF Current
<1>4. row.new \in Seq(Indicator)
  BY <1>1 DEF RequestRow
<1>5. Append(row.new, k) \in Seq(Indicator) /\ Range(Append(row.new, k)) = Range(row.new) \cup {k}
  BY <1>3, <1>4, RangeOfAppend
<1>6. /\ added \in RequestRow /\ added.pc = "flush" /\ added.at = row.at
      /\ added.new = Append(row.new, k) /\ added.held = row.held
  BY <1>1, <1>5 DEF RequestRow
<1>7. \/ Serves(r, Onward(row, r))
      \/ k \notin listed /\ Serves(r, added)
  BY DEF PersistIndicator, Visible
<1> HIDE DEF row, k, added
<1>8. CASE Serves(r, Onward(row, r))
  BY <1>8, <1>1, <1>2, OnwardRight, SessionMoves
<1>9. CASE k \notin listed /\ Serves(r, added)
  <2>1. RequestRight(r, added, listed)
    BY <1>9, <1>1, <1>2, <1>5, <1>6 DEF RequestRight, InTurn, HoldsItsOwn
  <2> QED BY <2>1, <1>9, <1>1, <1>2, <1>6, SessionMoves
<1> QED BY <1>7, <1>8, <1>9

LEMMA AddKeeps == ASSUME IndicatorInv, NEW r \in Request, AddIndicator(r) PROVE IndicatorInv'
<1> DEFINE row == request[r]
           k == Current(r)
           added == [row EXCEPT !.new = Append(@, k), !.said = @ \cup {k}]
           refused == [NoRequest EXCEPT !.pc = "refused"]
<1>1. /\ row \in RequestRow /\ RequestRight(r, row, listed) /\ row.held \cap HeldByOthers(r) = {}
  BY RowOfRequest
<1>2. row.pc = "look" /\ Kind[r] # "check" /\ UNCHANGED <<listed, removed>>
  BY DEF AddIndicator
<1>3. k \in Indicator
  <2>1. row.at \in 1..Len(AskedFor[r])
    BY <1>1, <1>2 DEF RequestRight, InTurn
  <2>2. AskedFor[r] \in Seq(Indicator)
    BY IndicatorAssumption
  <2> QED BY <2>1, <2>2, ElementOfSeq DEF Current
<1>4. row.new \in Seq(Indicator)
  BY <1>1 DEF RequestRow
<1>5. Append(row.new, k) \in Seq(Indicator) /\ Range(Append(row.new, k)) = Range(row.new) \cup {k}
  BY <1>3, <1>4, RangeOfAppend
<1>6. /\ added \in RequestRow /\ added.pc = row.pc /\ added.at = row.at /\ added.seen = row.seen
      /\ added.new = Append(row.new, k) /\ added.held = row.held /\ added.said = row.said \cup {k}
  BY <1>1, <1>3, <1>5 DEF RequestRow
<1>7. \/ Serves(r, Onward(row, r))
      \/ k \notin listed /\ Serves(r, Onward(added, r))
      \/ Serves(r, refused)
  BY DEF AddIndicator, Visible
<1>8. RequestRight(r, refused, listed) /\ refused.held = {} /\ refused.pc = "refused"
  BY NoRequestRight DEF NoRequest
<1> HIDE DEF row, k, added, refused
<1>9. CASE Serves(r, Onward(row, r))
  BY <1>9, <1>1, <1>2, OnwardRight, SessionMoves
<1>10. CASE k \notin listed /\ Serves(r, Onward(added, r))
  <2>1. InTurn(r, added)
    BY <1>1, <1>6 DEF RequestRight, InTurn
  <2>2. HoldsItsOwn(added, listed)
    BY <1>10, <1>1, <1>5, <1>6 DEF RequestRight, HoldsItsOwn
  <2>3. CountsItsNew(added)
    BY <1>1, <1>2, <1>5, <1>6 DEF RequestRight, CountsItsNew
  <2>4. RequestRight(r, added, listed)
    BY <2>1, <2>2, <2>3, <1>6 DEF RequestRight
  <2> QED BY <2>4, <1>10, <1>1, <1>2, <1>6, OnwardRight, SessionMoves
<1>11. CASE Serves(r, refused)
  BY <1>11, <1>2, <1>8, SessionMoves
<1> QED BY <1>7, <1>9, <1>10, <1>11

LEMMA WriteKeeps == ASSUME IndicatorInv, NEW r \in Request, WriteRow(r) PROVE IndicatorInv'
<1>1. PICK k \in Unwritten(r) \ HeldByOthers(r) :
        Writable(r, k) /\ Serves(r, [request[r] EXCEPT !.held = @ \cup {k}])
  BY DEF WriteRow
<1> DEFINE old == request[r]
           row == [old EXCEPT !.held = @ \cup {k}]
<1>2. /\ old \in RequestRow /\ RequestRight(r, old, listed) /\ old.held \cap HeldByOthers(r) = {}
  BY RowOfRequest
<1>3. old.pc \in {"flush", "last"} /\ UNCHANGED <<listed, removed>>
  BY DEF WriteRow, Flushing
<1>4. k \in Indicator
  <2>1. Range(old.new) \subseteq Indicator
    <3>1. old.new \in Seq(Indicator)
      BY <1>2 DEF RequestRow
    <3>2. DOMAIN old.new = 1..Len(old.new)
      BY <3>1, LenProperties
    <3> QED BY <3>1, <3>2, ElementOfSeq DEF Range
  <2>2. old.seen \subseteq Indicator
    BY <1>2 DEF RequestRow
  <2> QED BY <2>1, <2>2 DEF Unwritten
<1>5. /\ row \in RequestRow /\ row.pc = old.pc /\ row.at = old.at /\ row.seen = old.seen
      /\ row.new = old.new /\ row.held = old.held \cup {k} /\ row.said = old.said
  BY <1>2, <1>4 DEF RequestRow
<1>6. IF k \in Range(old.new) THEN k \notin listed ELSE k \in listed
  BY <1>1 DEF Writable
<1>7. Serves(r, row)
  BY <1>1
<1> HIDE DEF old, row
<1>8. InTurn(r, row) /\ (Kind[r] # "check" => CountsItsNew(row))
  BY <1>2, <1>5 DEF RequestRight, InTurn, CountsItsNew
<1>9. HoldsItsOwn(row, listed)
  BY <1>2, <1>3, <1>5, <1>6 DEF RequestRight, HoldsItsOwn
<1>10. RequestRight(r, row, listed)
  BY <1>5, <1>8, <1>9 DEF RequestRight
<1>11. row.held \cap HeldByOthers(r) = {}
  BY <1>1, <1>2, <1>5
<1> QED BY <1>3, <1>5, <1>7, <1>10, <1>11, SessionMoves

LEMMA UndoneKeeps ==
  ASSUME IndicatorInv, NEW r \in Request, Flushing(r), Undone(r), UNCHANGED <<listed, removed>>
  PROVE  IndicatorInv'
<1> DEFINE old == request[r]
           row == RolledBack(r)
           ended == [NoRequest EXCEPT !.pc = "failed"]
<1>1. /\ old \in RequestRow /\ RequestRight(r, old, listed)
  BY RowOfRequest
<1>2. RequestRight(r, ended, listed) /\ ended.held = {} /\ ended.pc = "failed"
  BY NoRequestRight DEF NoRequest
<1>3. /\ row \in RequestRow /\ row.pc = old.pc /\ row.at = old.at /\ row.held = {}
  BY <1>1, EmptySeq DEF RequestRow, RolledBack
<1>4. \/ old.pc = "flush" /\ Serves(r, Onward(row, r))
      \/ Serves(r, ended)
  BY DEF Undone
<1> HIDE DEF old, row, ended
<1>5. CASE old.pc = "flush" /\ Serves(r, Onward(row, r))
  <2>1. Kind[r] = "check" /\ InTurn(r, row)
    BY <1>5, <1>1, <1>3 DEF RequestRight, CountsItsNew, InTurn
  <2>2. RequestRight(r, row, listed)
    BY <2>1, <1>3 DEF RequestRight, HoldsItsOwn
  <2> QED BY <2>2, <1>5, <1>3, OnwardRight, SessionMoves
<1>6. CASE Serves(r, ended)
  BY <1>6, <1>2, SessionMoves
<1> QED BY <1>4, <1>5, <1>6

LEMMA FlushedKeeps == ASSUME IndicatorInv, NEW r \in Request, Flushed(r) PROVE IndicatorInv'
<1>1. RequestRight(r, request[r], listed) /\ request[r].held \cap HeldByOthers(r) = {}
  BY RowOfRequest
<1>2. request[r].pc = "flush" /\ Serves(r, Onward(request[r], r)) /\ UNCHANGED <<listed, removed>>
  BY DEF Flushed
<1> QED BY <1>1, <1>2, OnwardRight, SessionMoves

\* Nobody else holds what a commit publishes, since it was flushed.
LEMMA CommitRequestKeeps == ASSUME IndicatorInv, NEW r \in Request, CommitRequest(r) PROVE IndicatorInv'
<1> DEFINE old == request[r]
           row == Closed(r)
<1>1. /\ old \in RequestRow /\ RequestRight(r, old, listed)
  BY RowOfRequest
<1>2. /\ old.pc = "last" /\ Unwritten(r) = {} /\ listed' = listed \cup Range(old.new)
      /\ request' = [request EXCEPT ![r] = row] /\ removed' = removed
  BY DEF CommitRequest, Committed, Serves
<1>3. Range(old.new) \subseteq old.held
  BY <1>2 DEF Unwritten
<1>4. /\ row \in RequestRow /\ row.pc = "done" /\ row.held = {} /\ row.said = old.said
      /\ row.seen = old.seen /\ row.new = old.new
  BY <1>1 DEF RequestRow, Closed
<1> HIDE DEF old, row
<1>5. /\ request' \in [Request -> RequestRow] /\ request'[r] = row
      /\ \A p \in Request \ {r} : request'[p] = request[p]
  BY <1>2, <1>4 DEF IndicatorInv
<1>6. RequestRight(r, row, listed')
  BY <1>1, <1>4 DEF RequestRight, InTurn, HoldsItsOwn, CountsItsNew
<1>7. \A p \in Request \ {r} : RequestRight(p, request[p], listed')
  <2> SUFFICES ASSUME NEW p \in Request \ {r} PROVE RequestRight(p, request[p], listed')
    OBVIOUS
  <2>1. RequestRight(p, request[p], listed) /\ Apart(request[p], old)
    BY DEF IndicatorInv, old
  <2>2. HoldsItsOwn(request[p], listed')
    BY <2>1, <1>2, <1>3 DEF RequestRight, HoldsItsOwn, Apart
  <2> QED BY <2>1, <2>2 DEF RequestRight
<1>8. \A p \in Request : RequestRight(p, request'[p], listed')
  BY <1>5, <1>6, <1>7
<1>9. \A q, p \in Request : q # p => Apart(request'[q], request'[p])
  <2> SUFFICES ASSUME NEW q \in Request, NEW p \in Request, q # p
               PROVE  Apart(request'[q], request'[p])
    OBVIOUS
  <2>1. CASE q = r \/ p = r
    BY <2>1, <1>4, <1>5 DEF Apart
  <2>2. CASE q # r /\ p # r
    BY <2>2, <1>5 DEF IndicatorInv
  <2> QED BY <2>1, <2>2
<1>10. CountedIsListed'
  <2>1. Kind[r] # "check" => row.said \subseteq listed' \cup removed'
    BY <1>1, <1>2, <1>4 DEF RequestRight, CountsItsNew
  <2>2. \A p \in Request \ {r} : request[p].pc = "done" /\ Kind[p] # "check"
                                  => request[p].said \subseteq listed' \cup removed'
    BY <1>2 DEF IndicatorInv, CountedIsListed
  <2> QED BY <2>1, <2>2, <1>5 DEF CountedIsListed
<1> QED BY <1>5, <1>8, <1>9, <1>10 DEF IndicatorInv

\* A row is deleted only when no session holds it.
LEMMA DeletionKeeps == ASSUME IndicatorInv, NEW k \in Indicator, DeleteIndicator(k) PROVE IndicatorInv'
<1>1. /\ listed' = listed \ {k} /\ removed' = removed \cup {k} /\ request' = request
      /\ \A r \in Request : k \notin request[r].held
  BY DEF DeleteIndicator
<1>2. \A r \in Request : RequestRight(r, request[r], listed')
  <2> SUFFICES ASSUME NEW r \in Request PROVE RequestRight(r, request[r], listed')
    OBVIOUS
  <2>1. RequestRight(r, request[r], listed)
    BY DEF IndicatorInv
  <2>2. HoldsItsOwn(request[r], listed')
    BY <2>1, <1>1 DEF RequestRight, HoldsItsOwn
  <2> QED BY <2>1, <2>2 DEF RequestRight
<1>3. CountedIsListed'
  BY <1>1 DEF IndicatorInv, CountedIsListed
<1> QED BY <1>1, <1>2, <1>3 DEF IndicatorInv

LEMMA SameIndicators ==
  ASSUME IndicatorInv, UNCHANGED <<listed, request, removed>> PROVE IndicatorInv'
BY DEF IndicatorInv, CountedIsListed

LEMMA IndicatorsGoOn == IndicatorInv /\ [IndicatorNext]_indicatorVars => IndicatorInv'
<1> SUFFICES ASSUME IndicatorInv, [IndicatorNext]_indicatorVars PROVE IndicatorInv'
  OBVIOUS
<1>1. ASSUME NEW r \in Request, BeginRequest(r) PROVE IndicatorInv'
  BY <1>1, BeginKeeps
<1>2. ASSUME NEW r \in Request, RequestStep(r) PROVE IndicatorInv'
  <2>1. CASE CheckIndicator(r)
    BY <2>1, CheckKeeps
  <2>2. CASE PersistIndicator(r)
    BY <2>2, PersistKeeps
  <2>3. CASE AddIndicator(r)
    BY <2>3, AddKeeps
  <2>4. CASE WriteRow(r)
    BY <2>4, WriteKeeps
  <2>5. CASE ClashRow(r)
    BY <2>5, UndoneKeeps DEF ClashRow
  <2>6. CASE IndicatorDeadlock(r)
    <3>1. Flushing(r)
      BY <2>6 DEF IndicatorDeadlock, Blocked
    <3> QED BY <2>6, <3>1, UndoneKeeps DEF IndicatorDeadlock
  <2>7. CASE Flushed(r)
    BY <2>7, FlushedKeeps
  <2>8. CASE CommitRequest(r)
    BY <2>8, CommitRequestKeeps
  <2> QED BY <1>2, <2>1, <2>2, <2>3, <2>4, <2>5, <2>6, <2>7, <2>8 DEF RequestStep
<1>3. ASSUME NEW k \in Indicator, DeleteIndicator(k) PROVE IndicatorInv'
  BY <1>3, DeletionKeeps
<1>4. ASSUME NEW k \in Indicator, ExpireIndicator(k) PROVE IndicatorInv'
  BY <1>4, SameIndicators DEF ExpireIndicator
<1>5. CASE UNCHANGED indicatorVars
  BY <1>5, SameIndicators DEF indicatorVars
<1> QED BY <1>1, <1>2, <1>3, <1>4, <1>5 DEF IndicatorNext

\* For every number of requests and indicators, in whatever order they take the rows, and
\* whatever clashes, deadlocks, rollbacks and deletions meet: the sessions hold their rows
\* apart, and a request that ended without an error has in the table what it counted, but
\* for what analysts deleted (threat_intel.py:179-222, 285-289).
THEOREM CountedIndicatorsAreListed == IndicatorSpec => [](RowsHeldApart /\ CountedIsListed)
<1>1. IndicatorInv => RowsHeldApart /\ CountedIsListed
  <2> SUFFICES ASSUME IndicatorInv PROVE RowsHeldApart
    BY DEF IndicatorInv
  <2>1. \A r \in Request : request[r].held \cap HeldByOthers(r) = {}
    BY OwnRows
  <2>2. \A r \in Request : HoldsItsOwn(request[r], listed)
    BY DEF IndicatorInv, RequestRight
  <2> QED BY <2>1, <2>2 DEF RowsHeldApart, HoldsItsOwn
<1> QED BY IndicatorsStart, IndicatorsGoOn, <1>1, PTL DEF IndicatorSpec
=============================================================================
