------------------------------ MODULE CaseDesk ------------------------------
(* routers/cases.py: requests that read a case and later commit what they    *)
(* add to it, while others change, close and delete the same case.           *)
EXTENDS Integers, FiniteSets, SequencesExt

CONSTANTS
  Case, Item,      \* cases; the events and alerts that may be linked to them
  Note,            \* comments and artifacts
  Payload,         \* sequences of items one request may link
  Desk,            \* sessions of requests
  MaxCaseEdits     \* bound

ASSUME CaseAssumption == /\ \A p \in Payload : p \in Seq(Item)
                         /\ MaxCaseEdits \in Nat

VARIABLES
  cases,       \* a function from the cases that exist to [status, dated]
  links,       \* [Case -> [Item -> Nat]]: rows of case_events and case_alerts
  notes,       \* [Case -> SUBSET Note]: case_comments and case_artifacts
  desk,        \* [Desk -> record]: a request, what it read and what it will write
  overlapped,  \* history: cases two link requests worked on at once
  repeated,    \* history: cases for which one request named an item twice
  cleared,     \* history: cases whose closed_at a client took away
  caseEdits

caseVars == <<cases, links, notes, desk, overlapped, repeated, cleared, caseEdits>>

CaseStatus == {"open", "investigating", "contained", "resolved"}
NoDesk == [pc |-> "idle", case |-> {}, read |-> {}, todo |-> <<>>]
NewCase == [status |-> "open", dated |-> FALSE]

CaseInit ==
  /\ cases = <<>>
  /\ links = [c \in Case |-> [i \in Item |-> 0]]
  /\ notes = [c \in Case |-> {}]
  /\ desk = [d \in Desk |-> NoDesk]
  /\ overlapped = {} /\ repeated = {} /\ cleared = {} /\ caseEdits = 0

Edited == caseEdits < MaxCaseEdits /\ caseEdits' = caseEdits + 1
Takes(d, row) == desk' = [desk EXCEPT ![d] = row]

-----------------------------------------------------------------------------
CreateCase(c) ==
  /\ Edited /\ c \notin DOMAIN cases /\ \A d \in Desk : c \notin desk[d].case
  /\ cases' = [e \in DOMAIN cases \cup {c} |-> IF e = c THEN NewCase ELSE cases[e]]
  /\ overlapped' = overlapped \ {c} /\ repeated' = repeated \ {c} /\ cleared' = cleared \ {c}
  /\ UNCHANGED <<links, notes, desk>>

\* The foreign keys' ON DELETE CASCADE takes everything linked to the case along.
DeleteCase(c) ==
  /\ Edited /\ c \in DOMAIN cases
  /\ cases' = Restrict(cases, DOMAIN cases \ {c})
  /\ links' = [links EXCEPT ![c] = [i \in Item |-> 0]] /\ notes' = [notes EXCEPT ![c] = {}]
  /\ UNCHANGED <<desk, overlapped, repeated, cleared>>

\* link_events and link_alerts: the case, then the items already linked to it.
Linked(c, payload) == {i \in Range(payload) : links[c][i] > 0}
ReadLinks(d) ==
  /\ desk[d].pc = "idle" /\ Edited
  /\ \E c \in DOMAIN cases, payload \in Payload :
       /\ Takes(d, [pc |-> "link", case |-> {c}, read |-> Linked(c, payload), todo |-> payload])
       /\ overlapped' = IF \E e \in Desk : desk[e].pc = "link" /\ c \in desk[e].case
                        THEN overlapped \cup {c} ELSE overlapped
       /\ repeated' = IF IsInjective(payload) THEN repeated ELSE repeated \cup {c}
  /\ UNCHANGED <<cases, links, notes, cleared>>

\* The rows a request adds: one for each item of the payload it did not find linked.
Added_All(d, i) == Cardinality({n \in DOMAIN desk[d].todo : desk[d].todo[n] = i})
Added(d, i) == IF i \in desk[d].read THEN 0 ELSE Cardinality({n \in DOMAIN desk[d].todo : desk[d].todo[n] = i})
WriteLinks(d) ==
  /\ desk[d].pc = "link" /\ desk[d].case \subseteq DOMAIN cases
  /\ links' = [c \in Case |-> IF c \in desk[d].case THEN [i \in Item |-> links[c][i] + Added(d, i)] ELSE links[c]]
  /\ Takes(d, NoDesk)
  /\ UNCHANGED <<cases, notes, overlapped, repeated, cleared, caseEdits>>

\* add_comment and add_artifact look for the case first; the deletions name the note.
ReadCase(d) ==
  /\ desk[d].pc = "idle" /\ Edited
  /\ \E c \in DOMAIN cases : Takes(d, [NoDesk EXCEPT !.pc = "note", !.case = {c}])
  /\ UNCHANGED <<cases, links, notes, overlapped, repeated, cleared>>
WriteNote(d) ==
  /\ desk[d].pc = "note" /\ desk[d].case \subseteq DOMAIN cases
  /\ \E c \in desk[d].case, n \in Note \ UNION Range(notes) : notes' = [notes EXCEPT ![c] = @ \cup {n}]
  /\ Takes(d, NoDesk)
  /\ UNCHANGED <<cases, links, overlapped, repeated, cleared, caseEdits>>
DeleteNote(c, n) ==
  /\ n \in notes[c] /\ notes' = [notes EXCEPT ![c] = @ \ {n}]
  /\ UNCHANGED <<cases, links, desk, overlapped, repeated, cleared, caseEdits>>

-----------------------------------------------------------------------------
\* update_case on the row as read: the payload's fields, then closed_at for a status that
\* closes. "dated" in the payload: sent with a time, sent as null, or not sent.
Closes_Resolved(status) == status = {"resolved"}
Closes(status) == status \in {{"resolved"}, {"contained"}}
Updated(row, status, date) ==
  LET dated == IF date = "sent" THEN TRUE ELSE IF date = "null" THEN FALSE ELSE row.dated
  IN [status |-> IF status = {} THEN row.status ELSE CHOOSE s \in status : TRUE,
      dated |-> dated \/ Closes(status)]
ReadUpdate(d) ==
  /\ desk[d].pc = "idle" /\ Edited
  /\ \E c \in DOMAIN cases, status \in {{s} : s \in CaseStatus} \cup {{}}, date \in {"sent", "null", "absent"} :
       /\ Takes(d, [pc |-> "update", case |-> {c}, read |-> {cases[c]}, todo |-> <<Updated(cases[c], status, date)>>])
       /\ cleared' = IF date = "null" THEN cleared \cup {c} ELSE cleared
  /\ UNCHANGED <<cases, links, notes, overlapped, repeated>>

\* The commit writes the columns whose values differ from those read.
Column(now, read, new) == IF new = read THEN now ELSE new
WriteUpdate(d) ==
  /\ desk[d].pc = "update" /\ desk[d].case \subseteq DOMAIN cases
  /\ \E c \in desk[d].case, read \in desk[d].read :
       cases' = [cases EXCEPT ![c] = [status |-> Column(@.status, read.status, desk[d].todo[1].status),
                                      dated |-> Column(@.dated, read.dated, desk[d].todo[1].dated)]]
  /\ Takes(d, NoDesk)
  /\ UNCHANGED <<links, notes, overlapped, repeated, cleared, caseEdits>>

\* The case was deleted since it was read: a foreign key or an UPDATE that finds no row.
CaseGone(d) ==
  /\ desk[d].pc # "idle" /\ ~(desk[d].case \subseteq DOMAIN cases)
  /\ Takes(d, NoDesk)
  /\ UNCHANGED <<cases, links, notes, overlapped, repeated, cleared, caseEdits>>

CaseNext ==
  \/ \E c \in Case : CreateCase(c) \/ DeleteCase(c) \/ \E n \in Note : DeleteNote(c, n)
  \/ \E d \in Desk : \/ ReadLinks(d) \/ WriteLinks(d) \/ ReadCase(d) \/ WriteNote(d)
                     \/ ReadUpdate(d) \/ WriteUpdate(d) \/ CaseGone(d)

CaseSpec == CaseInit /\ [][CaseNext]_caseVars

-----------------------------------------------------------------------------
\* Every variable keeps its shape, and what is linked belongs to a case that exists.
CaseTypeOK ==
  /\ DOMAIN cases \subseteq Case /\ \A c \in DOMAIN cases : cases[c].status \in CaseStatus
  /\ links \in [Case -> [Item -> Nat]] /\ notes \in [Case -> SUBSET Note]
  /\ \A d \in Desk : desk[d].pc \in {"idle", "link", "note", "update"} /\ desk[d].case \subseteq Case
  /\ \A c \in Case \ DOMAIN cases : notes[c] = {} /\ \A i \in Item : links[c][i] = 0

\* An item is linked to a case at most once, unless two requests worked on the case at
\* once or one of them named it twice: no failure, retry or deletion alone doubles a link
\* (cases.py:172-190, 206-223).
LinkedOnce ==
  \A c \in Case \ (overlapped \cup repeated) : \A i \in Item : links[c][i] <= 1

\* A case that is contained or resolved has a closing date, however updates that read an
\* older row interleave, unless a client sent null for it (cases.py:135-141).
ClosedIsDated ==
  \A c \in DOMAIN cases \ cleared : cases[c].status \in {"contained", "resolved"} => cases[c].dated
=============================================================================
