---------------------------- MODULE PlaybookRuns ----------------------------
(* services/playbook_engine.py with routers/playbooks.py, watchlists.py and  *)
(* integrations.py as far as runs meet them: each run is a task with one     *)
(* transaction from its first flush to its only commit, and steps that also  *)
(* act outside the database. One alert, and the watchlist key it yields.     *)
EXTENDS Integers, Sequences, FiniteSets, Functions

CONSTANTS
  Playbook, PlaybookDef,   \* row identities; what a request writes: [enabled, trigger, steps]
  Run,                     \* _execute tasks
  MaxPlaybookEdits, MaxDeskEdits, MaxRunFaults   \* bounds

\* Names of steps; "other" stands for every name without a handler.
Action == {"send_webhook", "update_alert_status", "create_case", "create_ticket",
           "add_to_watchlist", "send_email", "other"}

ASSUME PlaybookAssumption ==
  /\ MaxPlaybookEdits \in Nat /\ MaxDeskEdits \in Nat /\ MaxRunFaults \in Nat
  /\ \A def \in PlaybookDef :
       /\ def.enabled \in BOOLEAN /\ def.trigger \in {"manual", "alert"}
       /\ def.steps \in Seq([action : Action, stop : BOOLEAN])

VARIABLES
  playbooks,     \* a function from the rows that exist to [enabled, trigger, steps, run_count]
  alertStatus,   \* the alert's status, or "gone"
  listed,        \* the watchlist has the alert's key
  ticketing,     \* the ticket integration is enabled
  run,           \* [Run -> record]: the tasks and their sessions
  recorded,      \* playbook_runs: a function from the runs committed
  applied,       \* history: <<run, step>> whose rows are committed
  sent,          \* history: <<run, step>> that acted outside the database
  playbookEdits, deskEdits, runFaults

playbookVars == <<playbooks, alertStatus, listed, ticketing, run, recorded, applied, sent,
                  playbookEdits, deskEdits, runFaults>>

NoRun == [pc |-> "none", playbook |-> {}, steps |-> <<>>, count |-> 0, status |-> "gone",
          results |-> <<>>, done |-> {}, keyAdded |-> FALSE, statusSet |-> FALSE,
          broken |-> FALSE, failed |-> FALSE]

PlaybookInit ==
  /\ playbooks = <<>> /\ alertStatus = "open" /\ listed = FALSE /\ ticketing = TRUE
  /\ run = [r \in Run |-> NoRun] /\ recorded = <<>> /\ applied = {} /\ sent = {}
  /\ playbookEdits = 0 /\ deskEdits = 0 /\ runFaults = 0

Runs(r, k) == run' = [run EXCEPT ![r] = k]
UnchangedRows == UNCHANGED <<playbooks, alertStatus, listed, ticketing, recorded, applied,
                             playbookEdits, deskEdits>>

-----------------------------------------------------------------------------
\* evaluate_alert: a task for every enabled playbook whose trigger matches.
Matching == {p \in DOMAIN playbooks : playbooks[p].enabled /\ playbooks[p].trigger = "alert"}
EvaluateAlert ==
  /\ alertStatus # "gone" /\ Matching # {}
  /\ \E tasks \in Injection(Matching, {r \in Run : run[r].pc = "none"}) :
       run' = [r \in Run |-> IF \E p \in Matching : tasks[p] = r
                             THEN [NoRun EXCEPT !.pc = "load",
                                                !.playbook = {p \in Matching : tasks[p] = r}]
                             ELSE run[r]]
  /\ UnchangedRows /\ UNCHANGED <<sent, runFaults>>

TriggerManual(r, p) ==
  /\ run[r].pc = "none" /\ p \in DOMAIN playbooks
  /\ Runs(r, [NoRun EXCEPT !.pc = "load", !.playbook = {p}])
  /\ UnchangedRows /\ UNCHANGED <<sent, runFaults>>

\* The playbook as it is now, enabled or not, a row for the run, and the alert.
Load(r) ==
  LET found == run[r].playbook \cap DOMAIN playbooks
  IN /\ run[r].pc = "load"
     /\ \/ found = {} /\ Runs(r, [NoRun EXCEPT !.pc = "ended"])
        \/ \E p \in found :
             Runs(r, [run[r] EXCEPT !.pc = "step", !.steps = playbooks[p].steps,
                                    !.count = playbooks[p].run_count, !.status = alertStatus])
     /\ UnchangedRows /\ UNCHANGED <<sent, runFaults>>

-----------------------------------------------------------------------------
At(r) == Len(run[r].results) + 1
Acting(r, actions) == /\ run[r].pc = "step" /\ At(r) <= Len(run[r].steps)
                      /\ run[r].steps[At(r)].action \in actions
HasAlert(r) == run[r].status # "gone"

\* Row locks: an alert updated, a unique key inserted, until the transaction ends.
HoldsAlert(r) == run[r].statusSet /\ run[r].pc # "ended"
HoldsKey_Kept(r) == run[r].keyAdded   \* mutant: a lock the end of the transaction leaves
HoldsKey(r) == run[r].keyAdded /\ run[r].pc # "ended"
Waits(r, s) ==
  /\ r # s /\ ~run[r].broken /\ HasAlert(r)
  /\ \/ Acting(r, {"update_alert_status"}) /\ run[r].status # "resolved" /\ HoldsAlert(s)
     \/ Acting(r, {"add_to_watchlist"}) /\ HoldsKey(s)
Waiting(r) == \E s \in Run : Waits(r, s)

\* A step that returned, and one that raised: the loop stops or goes on.
Succeeded(k) == [k EXCEPT !.results = Append(@, TRUE), !.done = @ \cup {Len(k.results) + 1}]
Raised_Stopped(k) == [k EXCEPT !.results = Append(@, FALSE), !.pc = "finish", !.failed = TRUE]
Raised(k) ==
  LET stop == k.steps[Len(k.results) + 1].stop
  IN [k EXCEPT !.results = Append(@, FALSE), !.failed = stop,
               !.pc = IF stop THEN "finish" ELSE "step"]
\* A flush that raised: the session refuses everything until a rollback nobody asks for.
Broken(k) == [k EXCEPT !.broken = TRUE, !.statusSet = FALSE, !.keyAdded = FALSE]

\* POST to the webhook, and the ticket: they reach the other side or not, and one that
\* reached it raises all the same when its answer is late, lost or malformed. After a
\* failed flush the alert's attributes and the query for the integration raise.
Reaches(r) == IF Acting(r, {"create_ticket"}) THEN ~run[r].broken /\ ticketing
              ELSE ~(run[r].broken /\ HasAlert(r))
Deliver(r) ==
  LET k == run[r]
  IN /\ Acting(r, {"send_webhook", "create_ticket"})
     /\ \/ Reaches(r) /\ Runs(r, Succeeded(k)) /\ sent' = sent \cup {<<r, At(r)>>}
        \/ Reaches(r) /\ Runs(r, Raised(k)) /\ sent' = sent \cup {<<r, At(r)>>}
        \/ Runs(r, Raised(k)) /\ UNCHANGED sent
     /\ UnchangedRows /\ UNCHANGED runFaults

UpdateAlertStatus(r) ==
  LET k == run[r]
  IN /\ Acting(r, {"update_alert_status"}) /\ ~Waiting(r)
     /\ Runs(r, CASE k.broken \/ ~HasAlert(r)  -> Raised(k)
                  [] k.status = "resolved"     -> Succeeded(k)
                  [] alertStatus = "gone"      -> Broken(Raised(k))
                  [] OTHER -> [Succeeded(k) EXCEPT !.status = "resolved", !.statusSet = TRUE])
     /\ UnchangedRows /\ UNCHANGED <<sent, runFaults>>

AddWatchlist(r) ==
  LET k == run[r]
  IN /\ Acting(r, {"add_to_watchlist"}) /\ ~Waiting(r)
     /\ Runs(r, CASE k.broken \/ ~HasAlert(r)   -> Raised(k)
                  [] listed \/ k.keyAdded       -> Broken(Raised(k))
                  [] OTHER -> [Succeeded(k) EXCEPT !.keyAdded = TRUE])
     /\ UnchangedRows /\ UNCHANGED <<sent, runFaults>>

\* A case is a new row; the e-mail is a stub; any other action is an error.
OtherAction(r) ==
  LET k == run[r]
  IN /\ Acting(r, {"create_case", "send_email", "other"})
     /\ Runs(r, IF \/ Acting(r, {"send_email"})
                   \/ Acting(r, {"create_case"}) /\ ~k.broken
                THEN Succeeded(k) ELSE Raised(k))
     /\ UnchangedRows /\ UNCHANGED <<sent, runFaults>>

\* PostgreSQL makes one of the statements that wait for one another fail.
Deadlocked(r) ==
  /\ \E S \in SUBSET Run : r \in S /\ \A a \in S : \E b \in S : Waits(a, b)
  /\ Runs(r, Broken(Raised(run[r])))
  /\ UnchangedRows /\ UNCHANGED <<sent, runFaults>>

-----------------------------------------------------------------------------
\* After the loop: run_count is the count loaded at the start, plus one. A broken
\* session cannot load it, and a deleted playbook cannot be updated: the run is lost.
RunCount(k) == k.count + 1
Over(r) == \/ run[r].pc = "finish"
           \/ run[r].pc = "step" /\ At(r) > Len(run[r].steps)
Finish(r) ==
  LET k == run[r]  found == k.playbook \cap DOMAIN playbooks
  IN /\ Over(r) /\ Runs(r, [k EXCEPT !.pc = "ended"])
     /\ IF k.broken \/ found = {}
        THEN UNCHANGED <<playbooks, alertStatus, listed, recorded, applied>>
        ELSE /\ playbooks' = [p \in DOMAIN playbooks |-> IF p \in found
                THEN [playbooks[p] EXCEPT !.run_count = RunCount(k)] ELSE playbooks[p]]
             /\ alertStatus' = IF k.statusSet THEN k.status ELSE alertStatus
             /\ listed' = (listed \/ k.keyAdded)
             /\ recorded' = [q \in DOMAIN recorded \cup {r} |-> IF q = r
                  THEN [playbook |-> k.playbook, steps |-> k.steps, results |-> k.results,
                        status |-> IF k.failed THEN "failed" ELSE "completed"]
                  ELSE recorded[q]]
             /\ applied' = applied \cup ({<<r, i>> : i \in k.done} \ sent)
     /\ UNCHANGED <<ticketing, sent, playbookEdits, deskEdits, runFaults>>

\* The commit fails, or the process stops: what the transactions did is rolled back.
Lose(lost) ==
  /\ lost # {} /\ runFaults < MaxRunFaults /\ runFaults' = runFaults + 1
  /\ run' = [r \in Run |-> IF r \in lost THEN [run[r] EXCEPT !.pc = "ended"] ELSE run[r]]
  /\ UnchangedRows /\ UNCHANGED sent
Live == {r \in Run : run[r].pc \notin {"none", "ended"}}
FailCommit(r) == Over(r) /\ Lose({r})
StopProcess == Lose(Live)

-----------------------------------------------------------------------------
\* Requests of administrators and analysts.
EditPlaybooks ==
  /\ playbookEdits < MaxPlaybookEdits /\ playbookEdits' = playbookEdits + 1
  /\ \E p \in Playbook :
       \/ \E def \in PlaybookDef : playbooks' =
            [q \in DOMAIN playbooks \cup {p} |-> IF q # p THEN playbooks[q] ELSE
               [enabled |-> def.enabled, trigger |-> def.trigger, steps |-> def.steps,
                run_count |-> IF p \in DOMAIN playbooks THEN playbooks[p].run_count ELSE 0]]
       \/ p \in DOMAIN playbooks /\ playbooks' = Restrict(playbooks, DOMAIN playbooks \ {p})
  /\ UNCHANGED <<alertStatus, listed, ticketing, run, recorded, applied, sent, deskEdits, runFaults>>

EditDesk ==
  /\ deskEdits < MaxDeskEdits /\ deskEdits' = deskEdits + 1
  /\ \/ /\ alertStatus # "gone" /\ \A r \in Run : ~HoldsAlert(r)
        /\ alertStatus' \in {"investigating", "gone"} /\ UNCHANGED <<listed, ticketing>>
     \/ /\ \A r \in Run : ~HoldsKey(r)
        /\ listed' = ~listed /\ UNCHANGED <<alertStatus, ticketing>>
     \/ ticketing' = ~ticketing /\ UNCHANGED <<alertStatus, listed>>
  /\ UNCHANGED <<playbooks, run, recorded, applied, sent, playbookEdits, runFaults>>

RunStep(r) == \/ Load(r) \/ Deliver(r) \/ UpdateAlertStatus(r) \/ AddWatchlist(r)
              \/ OtherAction(r) \/ Deadlocked(r) \/ Finish(r)

PlaybookNext ==
  \/ EvaluateAlert \/ StopProcess \/ EditPlaybooks \/ EditDesk
  \/ \E r \in Run : RunStep(r) \/ FailCommit(r) \/ \E p \in Playbook : TriggerManual(r, p)

PlaybookSpec == PlaybookInit /\ [][PlaybookNext]_playbookVars

-----------------------------------------------------------------------------
\* Every variable keeps its shape, and a task's lists grow together.
PlaybookTypeOK ==
  /\ DOMAIN playbooks \subseteq Playbook /\ DOMAIN recorded \subseteq Run
  /\ \A p \in DOMAIN playbooks : playbooks[p].run_count \in Nat
  /\ alertStatus \in {"open", "investigating", "resolved", "gone"} /\ listed \in BOOLEAN
  /\ \A r \in Run :
       LET k == run[r]
       IN /\ k.pc \in {"none", "load", "step", "finish", "ended"} /\ k.count \in Nat
          /\ Len(k.results) <= Len(k.steps) /\ k.done \subseteq DOMAIN k.results

\* The record of a run and what it did agree: a step recorded as done took effect, one
\* recorded as failed left no rows - though its request may have been delivered before it
\* raised -, a step that is not listed did nothing at all, and the status says why the run
\* went on or stopped. Rows of a run that is not recorded are never committed
\* (playbook_engine.py:138-168).
RecordsExplain ==
  /\ \A e \in applied : e[1] \in DOMAIN recorded
  /\ \A r \in DOMAIN recorded :
       LET rec == recorded[r]
           done == {i \in DOMAIN rec.results : rec.results[i]}
           written == {i \in DOMAIN rec.steps : <<r, i>> \in applied}
           delivered == {i \in DOMAIN rec.steps : <<r, i>> \in sent}
           fatal == {i \in DOMAIN rec.results : ~rec.results[i] /\ rec.steps[i].stop}
       IN /\ written \subseteq done /\ done \subseteq written \cup delivered
          /\ delivered \subseteq DOMAIN rec.results
          /\ rec.status = "failed" => fatal = {Len(rec.results)}
          /\ rec.status = "completed" => fatal = {} /\ Len(rec.results) = Len(rec.steps)

\* run_count never exceeds the runs recorded, though concurrent runs overwrite each
\* other's count (playbook_engine.py:165).
RunCountBacked ==
  \A p \in DOMAIN playbooks :
    playbooks[p].run_count <= Cardinality({r \in DOMAIN recorded : p \in recorded[r].playbook})

\* A playbook that nobody deletes has counted every recorded run: the docstring of
\* _execute says it "increments the playbook's run count" (playbook_engine.py:102).
RunCountExact ==
  \A p \in DOMAIN playbooks :
    playbooks[p].run_count = Cardinality({r \in DOMAIN recorded : p \in recorded[r].playbook})

\* What a run that has ended did outside the database is on record (playbook_engine.py:102:
\* "On action failure, records the error").
SentIsRecorded == \A e \in sent : run[e[1]].pc = "ended" => e[1] \in DOMAIN recorded

\* A run that was started ends, whatever locks it waits for (playbook_engine.py:108-168).
EveryRunEnds == \A r \in Run : run[r].pc = "load" ~> run[r].pc = "ended"
=============================================================================
