----------------------------- MODULE BulkIngest -----------------------------
(* routers/ingest.py: requests that store many events in one session. Each     *)
(* event commits on its own, nothing ever rolls back, and the asset an event   *)
(* names may be inserted by two sessions at once.                              *)
EXTENDS Integers, FiniteSets, SequencesExt

CONSTANTS
  Upload,          \* requests
  Content,         \* [Upload -> Seq of lines]: what each carries
  Host,            \* hostnames
  HostOf,          \* [line -> Host]: the asset its event names
  Unparsable,      \* lines the parser or the schema refuses
  MaxBatch,        \* 1000
  MaxUploadFaults  \* bound

AllLines == UNION {Range(Content[u]) : u \in Upload}

ASSUME UploadAssumption ==
  /\ \A u \in Upload : Content[u] \in Seq(AllLines)
  /\ HostOf \in [AllLines -> Host] /\ Unparsable \subseteq AllLines
  /\ MaxBatch \in Nat /\ MaxUploadFaults \in Nat

VARIABLES
  uploaded,        \* [Upload -> Nat]: events in security_events that came with it
  hosts,       \* hostnames in assets
  upload,      \* [Upload -> record]: a request, its counters, and its session
  met,         \* history: uploads whose asset another session inserted meanwhile
  uploadFaults

uploadVars == <<uploaded, hosts, upload, met, uploadFaults>>

\* added: the hostname this event's flush will insert; broken: a flush of this session
\* failed, so that it needs a rollback.
NoUpload == [pc |-> "idle", at |-> 1, stored |-> 0, errors |-> 0, added |-> {}, broken |-> FALSE]

UploadInit ==
  /\ uploaded = [u \in Upload |-> 0] /\ hosts = {} /\ met = {} /\ uploadFaults = 0
  /\ upload = [u \in Upload |-> NoUpload]

Turns(u, row) == upload' = [upload EXCEPT ![u] = row]
This(u) == Content[u][upload[u].at]
\* The next line, or the answer.
Proceed(u, row) ==
  [row EXCEPT !.at = @ + 1, !.added = {}, !.pc = IF upload[u].at = Len(Content[u]) THEN "answered" ELSE "event"]
Error(u, row) == Proceed(u, [row EXCEPT !.errors = @ + 1])

-----------------------------------------------------------------------------
BeginUpload(u) ==
  /\ upload[u].pc = "idle"
  /\ Turns(u, [NoUpload EXCEPT !.pc = IF Len(Content[u]) > MaxBatch THEN "refused"
                                      ELSE IF Content[u] = <<>> THEN "answered" ELSE "event"])
  /\ UNCHANGED <<uploaded, hosts, met, uploadFaults>>

\* A line that is refused before it reaches the session, or a session past use.
RefuseLine(u) ==
  /\ upload[u].pc = "event" /\ (This(u) \in Unparsable \/ upload[u].broken)
  /\ Turns(u, Error(u, upload[u]))
  /\ UNCHANGED <<uploaded, hosts, met, uploadFaults>>

\* store_event up to the asset's SELECT: the event is flushed, not committed.
Unknown_Blind(u) == {HostOf[This(u)]}
Unknown(u) == {HostOf[This(u)]} \ hosts
FlushEvent(u) ==
  /\ upload[u].pc = "event" /\ This(u) \notin Unparsable /\ ~upload[u].broken
  /\ Turns(u, [upload[u] EXCEPT !.pc = "asset", !.added = Unknown(u)])
  /\ UNCHANGED <<uploaded, hosts, met, uploadFaults>>

\* The asset's flush and the commit of both.
CommitEvent(u) ==
  /\ upload[u].pc = "asset" /\ upload[u].added \cap hosts = {}
  /\ hosts' = hosts \cup upload[u].added
  /\ uploaded' = [uploaded EXCEPT ![u] = @ + 1]
  /\ Turns(u, Proceed(u, [upload[u] EXCEPT !.stored = @ + 1]))
  /\ met' = met \cup {v \in Upload \ {u} : upload[v].pc = "asset" /\ upload[v].added \cap upload[u].added # {}}
  /\ UNCHANGED uploadFaults

\* The hostname is taken by now: asset discovery swallows the error of the flush, and the
\* commit raises on the session, now and for every event to come.
ClashEvent(u) ==
  /\ upload[u].pc = "asset" /\ upload[u].added \cap hosts # {}
  /\ Turns(u, Error(u, [upload[u] EXCEPT !.broken = TRUE]))
  /\ UNCHANGED <<uploaded, hosts, met, uploadFaults>>

\* The database refuses the event or the connection fails.
FailEvent(u) ==
  /\ upload[u].pc \in {"event", "asset"} /\ ~upload[u].broken
  /\ uploadFaults < MaxUploadFaults /\ uploadFaults' = uploadFaults + 1
  /\ Turns(u, Error(u, [upload[u] EXCEPT !.broken = TRUE]))
  /\ UNCHANGED <<uploaded, hosts, met>>

UploadCrash ==
  /\ uploadFaults < MaxUploadFaults /\ uploadFaults' = uploadFaults + 1
  /\ upload' = [u \in Upload |-> IF upload[u].pc \in {"event", "asset"}
                                 THEN [upload[u] EXCEPT !.pc = "lost", !.added = {}] ELSE upload[u]]
  /\ UNCHANGED <<uploaded, hosts, met>>

UploadNext ==
  \/ UploadCrash
  \/ \E u \in Upload : BeginUpload(u) \/ RefuseLine(u) \/ FlushEvent(u) \/ CommitEvent(u)
                       \/ ClashEvent(u) \/ FailEvent(u)

UploadSpec == UploadInit /\ [][UploadNext]_uploadVars

-----------------------------------------------------------------------------
\* Every variable keeps its shape.
UploadTypeOK ==
  /\ uploaded \in [Upload -> Nat] /\ hosts \subseteq Host /\ met \subseteq Upload
  /\ \A u \in Upload : /\ upload[u].pc \in {"idle", "event", "asset", "answered", "refused", "lost"}
                       /\ upload[u].broken \in BOOLEAN /\ upload[u].added \subseteq Host

\* What an answer calls stored is in the table and nothing else is; and unless the database
\* failed or another session inserted the same asset meanwhile, the errors are exactly the
\* lines that cannot be parsed: no event of an upload stands in the way of another
\* (ingest.py:68-79, 147-163).
AnswersExact ==
  \A u \in Upload :
    /\ uploaded[u] = upload[u].stored
    /\ upload[u].pc = "answered" /\ u \notin met /\ uploadFaults = 0 =>
         upload[u].errors = Cardinality({n \in DOMAIN Content[u] : Content[u][n] \in Unparsable})
=============================================================================
