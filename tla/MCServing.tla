----------------------------- MODULE MCServing -----------------------------
(* An instance each of LoginRateLimit, OidcLogin, SearchLanguage, CaseDesk,        *)
(* AssetInventory, NetworkScanner and PlaybookRuns, what users ask for and the     *)
(* tasks that outlive their requests, in one run of TLC: the modules share no      *)
(* state, except that the scanner works on the inventory, and part says which of   *)
(* them moves.                                                                     *)
EXTENDS LoginRateLimit, OidcLogin, SearchLanguage, CaseDesk, PlaybookRuns, NetworkScanner, TLC

\* Requests that link one item, two, and one twice.
Payloads == {<<"e">>, <<"e", "a">>, <<"a", "a">>}

\* Two products with one CVE.
NvdAnswers == "s1" :> {"v"} @@ "s2" :> {"v"}

\* Two addresses with one name.
OneName == "i1" :> "web" @@ "i2" :> "web"

\* A response to an alert that locks the alert and then the watchlist's key, a manual one
\* that takes them in the opposite order, and one that is disabled.
Do(name) == [action |-> name, stop |-> FALSE]
OrStop(name) == [action |-> name, stop |-> TRUE]
PlaybookDefs ==
  {[enabled |-> TRUE, trigger |-> "alert",
    steps |-> <<OrStop("create_ticket"), OrStop("update_alert_status"), Do("add_to_watchlist")>>],
   [enabled |-> TRUE, trigger |-> "manual",
    steps |-> <<OrStop("add_to_watchlist"), Do("create_case"), Do("update_alert_status")>>],
   [enabled |-> FALSE, trigger |-> "alert",
    steps |-> <<Do("other"), OrStop("send_webhook"), Do("send_email")>>]}

VARIABLE part

deskVars == <<query, caseVars>>
taskVars == <<playbookVars, scannerVars>>
allVars == <<part, vars, oidcVars, deskVars, taskVars>>
Throttle(step) == part = "throttle" /\ step /\ UNCHANGED <<part, oidcVars, deskVars, taskVars>>
Oidc(step) == part = "oidc" /\ step /\ UNCHANGED <<part, vars, deskVars, taskVars>>
Searching(step) == part = "search" /\ step /\ UNCHANGED <<part, vars, oidcVars, caseVars, taskVars>>
Cases(step) == part = "cases" /\ step /\ UNCHANGED <<part, vars, oidcVars, query, taskVars>>
Responding(step) == part = "playbooks" /\ step /\ UNCHANGED <<part, vars, oidcVars, deskVars, scannerVars>>
Scanning(step) == part = "scans" /\ step /\ UNCHANGED <<part, vars, oidcVars, deskVars, playbookVars>>
Inventory(step) ==
  part = "inventory" /\ step /\ UNCHANGED <<part, vars, oidcVars, deskVars, playbookVars, scannerOwnVars>>

MCInit == /\ part \in {"throttle", "oidc", "search", "cases", "playbooks", "scans", "inventory"}
          /\ Init /\ OidcInit /\ SearchInit /\ CaseInit /\ PlaybookInit /\ ScannerInit
MCNext == \/ Throttle(Next) \/ Oidc(OidcNext) \/ Searching(SearchNext) \/ Cases(CaseNext)
          \/ Responding(PlaybookNext) \/ Scanning(ScannerNext) \/ Inventory(InventoryNext)

\* The event loop resumes every task; PostgreSQL grants row locks and ends deadlocks.
\* part never changes, and the two kinds of tasks have the same names: fairness of a run
\* and of a scan is one.
Fairness == \A t \in Run : WF_allVars(Responding(RunStep(t)) \/ Scanning(ScanStep(t)))
MCSpec == MCInit /\ [][MCNext]_allVars /\ Fairness
=============================================================================
