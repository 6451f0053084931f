--------------------------- MODULE AssetInventory ---------------------------
(* routers/assets.py and services/asset_discovery.py: the asset table, the   *)
(* software listed for an asset, and the background tasks that look up its   *)
(* CVEs. A session has autoflush=False (database.py:45), so a query does not *)
(* see rows that the session has added and not yet flushed.                  *)
EXTENDS Integers, FiniteSets, Functions

CONSTANTS
  AssetId, Hostname,   \* identities of rows; hostname is unique in the table
  Software, Cve, Nvd,  \* software rows with a CPE; [Software -> SUBSET Cve]: what NVD knows
  Enrichment,          \* enrich_cves tasks
  NoAsset              \* no row

ASSUME InventoryAssumption ==
  Nvd \in [Software -> SUBSET Cve] /\ IsFiniteSet(Cve) /\ NoAsset \notin AssetId

VARIABLES
  assets,      \* assets: a function from the rows that exist to [hostname, cve_count]
  software,    \* asset_software: a function from the rows that exist to their asset
  vulns,       \* [AssetId -> [Cve -> Nat]]: committed rows of asset_vulnerabilities
  enrichment   \* [Enrichment -> record]: the tasks and their sessions

inventoryVars == <<assets, software, vulns, enrichment>>

NoCves == [v \in Cve |-> 0]
NewTask == [pc |-> "new", asset |-> NoAsset, todo |-> {}, answer |-> {},
            added |-> NoCves, counted |-> FALSE, count |-> 0]

InventoryInit ==
  /\ assets = <<>> /\ software = <<>>
  /\ vulns = [a \in AssetId |-> NoCves]
  /\ enrichment = [t \in Enrichment |-> NewTask]

-----------------------------------------------------------------------------
\* SELECT asset_vulnerabilities ... WHERE asset_id = a: the rows, as <<CVE, one of its rows>>.
Listed(rows) == UNION {{v} \X (1..rows[v]) : v \in Cve}
RowsOf(a) == Cardinality(Listed(vulns[a]))
Named(h) == {a \in DOMAIN assets : assets[a].hostname = h}

\* INSERT of an asset: the unique index refuses a hostname that is taken. The id is a new
\* one: an id that is free and that no task remembers stands for it.
InsertAsset(a, h) ==
  /\ a \notin DOMAIN assets /\ Named(h) = {}
  /\ \A t \in Enrichment : enrichment[t].asset # a
  /\ assets' = [b \in DOMAIN assets \cup {a} |->
                  IF b = a THEN [hostname |-> h, cve_count |-> 0] ELSE assets[b]]

CreateAsset == /\ \E a \in AssetId, h \in Hostname : InsertAsset(a, h)
               /\ UNCHANGED <<software, vulns, enrichment>>

\* DELETE of an asset, with its software and vulnerabilities (ON DELETE CASCADE).
DeleteAsset(a) ==
  /\ a \in DOMAIN assets
  /\ assets' = Restrict(assets, DOMAIN assets \ {a})
  /\ software' = Restrict(software, {s \in DOMAIN software : software[s] # a})
  /\ vulns' = [vulns EXCEPT ![a] = NoCves]
  /\ UNCHANGED enrichment

AddSoftware(s, a) ==
  /\ a \in DOMAIN assets /\ s \notin DOMAIN software
  /\ software' = [r \in DOMAIN software \cup {s} |-> IF r = s THEN a ELSE software[r]]
  /\ UNCHANGED <<assets, vulns, enrichment>>

-----------------------------------------------------------------------------
\* POST scan-cves: the asset is not looked up, its software is.
ScanCves(t, a) ==
  /\ enrichment[t].pc = "new"
  /\ enrichment' = [enrichment EXCEPT ![t] =
       [@ EXCEPT !.pc = "next", !.asset = a,
                 !.todo = {s \in DOMAIN software : software[s] = a}]]
  /\ UNCHANGED <<assets, software, vulns>>

\* One request to NVD; an error is an empty answer, a long one is cut at 20.
QueryNvd(t) ==
  LET k == enrichment[t]
  IN /\ k.pc = "next"
     /\ \E s \in k.todo : \E found \in SUBSET Nvd[s] :
          enrichment' = [enrichment EXCEPT ![t] =
            [k EXCEPT !.pc = "check", !.todo = @ \ {s}, !.answer = found]]
     /\ UNCHANGED <<assets, software, vulns>>

\* One CVE of the answer: the SELECT sees committed rows only, and scalar_one_or_none
\* raises on two of them, which ends the answer.
Checked(k, v, rows) ==
  CASE rows = 0 -> [k EXCEPT !.answer = @ \ {v}, !.added[v] = @ + 1]
    [] rows = 1 -> [k EXCEPT !.answer = @ \ {v}]
    [] OTHER    -> [k EXCEPT !.answer = {}]
CheckCve(t) ==
  LET k == enrichment[t]
  IN /\ k.pc = "check"
     /\ \/ /\ k.answer = {}
           /\ enrichment' = [enrichment EXCEPT ![t].pc = "next"]
        \/ \E v \in k.answer :
             enrichment' = [enrichment EXCEPT ![t] = Checked(k, v, vulns[k.asset][v])]
     /\ UNCHANGED <<assets, software, vulns>>

\* New rows were added: read the asset and count its rows, those just added not among
\* them; a count equal to the one loaded is no change, and is not written.
\* Mutant: a count in memory, which has the rows that any lookup has added.
Counted_InMemory(a) == RowsOf(a) + SumFunction([t \in {u \in Enrichment : enrichment[u].asset = a} |->
                                                 SumFunction(enrichment[t].added)])
Counted(a) == RowsOf(a)
CountRows(t) ==
  LET k == enrichment[t]
  IN /\ k.pc = "next" /\ k.todo = {}
     /\ enrichment' = [enrichment EXCEPT ![t] =
          [k EXCEPT !.counted = /\ k.added # NoCves /\ k.asset \in DOMAIN assets
                                /\ Counted(k.asset) # assets[k.asset].cve_count,
                    !.count = Counted(k.asset), !.pc = "commit"]]
     /\ UNCHANGED <<assets, software, vulns>>

\* The commit writes cve_count and inserts the rows, or fails if the asset has gone.
CommitEnrichment(t) ==
  LET k == enrichment[t]  exists == k.asset \in DOMAIN assets
  IN /\ k.pc = "commit"
     /\ assets'  = IF exists /\ k.counted THEN [assets EXCEPT ![k.asset].cve_count = k.count]
                   ELSE assets
     /\ vulns' = IF exists THEN [vulns EXCEPT ![k.asset] = [v \in Cve |-> @[v] + k.added[v]]]
                 ELSE vulns
     /\ enrichment' = [enrichment EXCEPT ![t] = [NewTask EXCEPT !.pc = "done"]]
     /\ UNCHANGED software

EnrichmentStep(t) == QueryNvd(t) \/ CheckCve(t) \/ CountRows(t) \/ CommitEnrichment(t)

InventoryNext ==
  \/ CreateAsset
  \/ \E a \in AssetId : DeleteAsset(a) \/ \E s \in Software : AddSoftware(s, a)
  \/ \E t \in Enrichment : EnrichmentStep(t) \/ \E a \in AssetId : ScanCves(t, a)

InventorySpec == InventoryInit /\ [][InventoryNext]_inventoryVars

-----------------------------------------------------------------------------
\* Every variable keeps its shape; rows refer to assets that exist.
InventoryTypeOK ==
  /\ DOMAIN assets \subseteq AssetId
  /\ \A a \in DOMAIN assets : assets[a].hostname \in Hostname /\ assets[a].cve_count \in Nat
  /\ DOMAIN software \subseteq Software
  /\ \A s \in DOMAIN software : software[s] \in DOMAIN assets
  /\ vulns \in [AssetId -> [Cve -> Nat]]
  /\ \A a \in AssetId \ DOMAIN assets : vulns[a] = NoCves
  /\ \A t \in Enrichment :
       /\ enrichment[t].pc \in {"new", "next", "check", "commit", "done"}
       /\ enrichment[t].todo \subseteq Software /\ enrichment[t].answer \subseteq Cve
       /\ enrichment[t].added \in [Cve -> Nat] /\ enrichment[t].count \in Nat

\* cve_count never promises more rows than there are, whichever lookups ran at once
\* and however their commits are ordered (asset_discovery.py:126-135).
CountIsBacked == \A a \in DOMAIN assets : assets[a].cve_count <= RowsOf(a)

\* With no lookup running, cve_count is the number of the asset's vulnerabilities: the
\* docstring of enrich_cves says it "updates the asset's cve_count" (asset_discovery.py:56).
CveCountExact ==
  (\A t \in Enrichment : enrichment[t].pc \in {"new", "done"}) =>
    \A a \in DOMAIN assets : assets[a].cve_count = RowsOf(a)

\* A vulnerability is listed once: the docstring says "skipping duplicates" (asset_discovery.py:56).
CvesListedOnce == \A a \in AssetId, v \in Cve : vulns[a][v] <= 1
=============================================================================
