--------------------------- MODULE NetworkScanner ---------------------------
(* services/network_scanner.py and routers/network_scanner.py: background    *)
(* scans that record every host in a transaction of its own and link the     *)
(* hosts that answer to the asset table, which others change meanwhile.      *)
EXTENDS AssetInventory

CONSTANTS
  Scan,            \* identities of network_scans rows
  Ip, NameOf,      \* the targets; [Ip -> Hostname]: reverse DNS, or the address itself
  MaxScanFaults    \* bound

ASSUME ScannerAssumption == NameOf \in [Ip -> Hostname] /\ MaxScanFaults \in Nat

VARIABLES
  scans,       \* network_scans: a function from the rows that exist
  hostRows,    \* [Scan -> a function from the addresses recorded to [up, asset]]
  scanTask,    \* [Scan -> record]: _run_scan, its loop and what it read last
  abandoned,   \* history: scans whose task ended without recording an end
  scanFaults

scannerOwnVars == <<scans, hostRows, scanTask, abandoned, scanFaults>>
scannerVars == <<assets, software, vulns, enrichment,
                 scans, hostRows, scanTask, abandoned, scanFaults>>

NoTask == [pc |-> "none", todo |-> {}, ip |-> {}, up |-> FALSE, asset |-> NoAsset]
Ended == {"completed", "failed"}

ScannerInit ==
  /\ InventoryInit
  /\ scans = <<>> /\ hostRows = [s \in Scan |-> <<>>]
  /\ scanTask = [s \in Scan |-> NoTask]
  /\ abandoned = {} /\ scanFaults = 0

Tasked(s, task) == scanTask' = [scanTask EXCEPT ![s] = task]
Status(s, status) == scans' = [scans EXCEPT ![s].status = status]

-----------------------------------------------------------------------------
\* POST /scans, up to the commit of the row ...
CreateScan(s) ==
  /\ s \notin DOMAIN scans
  /\ scans' = [r \in DOMAIN scans \cup {s} |->
                 IF r = s THEN [status |-> "queued", scanned |-> 0, up |-> 0] ELSE scans[r]]
  /\ Tasked(s, [NoTask EXCEPT !.pc = "create"])
  /\ UNCHANGED <<inventoryVars, hostRows, abandoned, scanFaults>>

\* ... and start_background_scan, after the row was read back.
StartBackgroundScan(s) ==
  /\ scanTask[s].pc = "create" /\ Tasked(s, [NoTask EXCEPT !.pc = "start"])
  /\ UNCHANGED <<inventoryVars, scans, hostRows, abandoned, scanFaults>>

BeginScan(s) ==
  /\ scanTask[s].pc = "start" /\ Status(s, "running")
  /\ Tasked(s, [NoTask EXCEPT !.pc = "next", !.todo = Ip])
  /\ UNCHANGED <<inventoryVars, hostRows, abandoned, scanFaults>>

\* scan_host, and for a host that is up the SELECT of _upsert_asset.
ScanHost(s) ==
  /\ scanTask[s].pc = "next"
  /\ \E ip \in scanTask[s].todo, up \in BOOLEAN :
       LET found == IF up THEN Named(NameOf[ip]) ELSE {}
       IN Tasked(s, [pc |-> "record", todo |-> scanTask[s].todo \ {ip}, ip |-> {ip}, up |-> up,
                     asset |-> IF found = {} THEN NoAsset ELSE CHOOSE a \in found : TRUE])
  /\ UNCHANGED <<inventoryVars, scans, hostRows, abandoned, scanFaults>>

\* Ids that no scan has read.
Unread == AssetId \ {scanTask[s].asset : s \in Scan}

\* The host's row, the counters and the asset, in one transaction.
Recorded_Uncounted(row, up) == [row EXCEPT !.scanned = @ + 1, !.up = @ + 1]
Recorded(row, up) == [row EXCEPT !.scanned = @ + 1, !.up = IF up THEN @ + 1 ELSE @]
Record(s, a) ==
  /\ hostRows' = [hostRows EXCEPT ![s] =
       [ip \in DOMAIN @ \cup scanTask[s].ip |->
          IF ip \in scanTask[s].ip THEN [up |-> scanTask[s].up, asset |-> a] ELSE @[ip]]]
  /\ scans' = [scans EXCEPT ![s] = Recorded(@, scanTask[s].up)]
  /\ Tasked(s, [NoTask EXCEPT !.pc = "next", !.todo = scanTask[s].todo])
  /\ UNCHANGED <<abandoned, scanFaults>>

RecordHost(s) ==
  LET k == scanTask[s]
  IN /\ k.pc = "record"
     /\ \/ ~k.up /\ Record(s, NoAsset) /\ UNCHANGED inventoryVars
        \/ k.up /\ k.asset \in DOMAIN assets /\ Record(s, k.asset) /\ UNCHANGED inventoryVars
        \/ /\ k.up /\ k.asset = NoAsset
           /\ \E a \in Unread, ip \in k.ip : InsertAsset(a, NameOf[ip]) /\ Record(s, a)
           /\ UNCHANGED <<software, vulns, enrichment>>

\* The asset read is gone, or the hostname read as free is taken: the flush raises, and
\* the handler's own commit raises on the session that needs a rollback.
ClashHost(s) ==
  LET k == scanTask[s]
  IN /\ k.pc = "record" /\ k.up
     /\ \/ k.asset # NoAsset /\ k.asset \notin DOMAIN assets
        \/ k.asset = NoAsset /\ \E ip \in k.ip : Named(NameOf[ip]) # {}
     /\ Tasked(s, [NoTask EXCEPT !.pc = "ended"]) /\ abandoned' = abandoned \cup {s}
     /\ UNCHANGED <<inventoryVars, scans, hostRows, scanFaults>>

\* Hosts the loop still has to scan when it ends.
Left_Targets(s) == Ip
Left(s) == scanTask[s].todo
FinishScan(s) ==
  /\ scanTask[s].pc = "next" /\ Left(s) = {}
  /\ Status(s, "completed") /\ Tasked(s, [NoTask EXCEPT !.pc = "ended"])
  /\ UNCHANGED <<inventoryVars, hostRows, abandoned, scanFaults>>

\* An exception that leaves the session usable - the pool has no connection for the
\* SELECT, or the addresses of the asset cannot be sorted: the handler records it.
FailScan(s) ==
  /\ scanFaults < MaxScanFaults /\ scanFaults' = scanFaults + 1
  /\ \/ scanTask[s].pc = "next" /\ Left(s) # {}
     \/ scanTask[s].pc = "record" /\ scanTask[s].asset \in DOMAIN assets
  /\ Status(s, "failed") /\ Tasked(s, [NoTask EXCEPT !.pc = "ended"])
  /\ UNCHANGED <<inventoryVars, hostRows, abandoned>>

\* A statement, a flush or a commit fails: the session needs a rollback and the handler's
\* own commit raises too. The refresh of create_scan and the first SELECT of the task
\* have no handler. The row keeps the status it has.
LoseScan(s) ==
  /\ scanFaults < MaxScanFaults /\ scanFaults' = scanFaults + 1
  /\ scanTask[s].pc \in {"create", "start", "next", "record"}
  /\ Tasked(s, [NoTask EXCEPT !.pc = "ended"]) /\ abandoned' = abandoned \cup {s}
  /\ UNCHANGED <<inventoryVars, scans, hostRows>>

\* A restart forgets the requests and the tasks; the rows stay as they are.
ScannerCrash ==
  LET lost == {s \in DOMAIN scans : scanTask[s].pc # "ended"}
  IN /\ lost # {} /\ scanFaults < MaxScanFaults /\ scanFaults' = scanFaults + 1
     /\ scanTask' = [s \in Scan |-> IF s \in lost THEN [NoTask EXCEPT !.pc = "ended"] ELSE scanTask[s]]
     /\ abandoned' = abandoned \cup lost
     /\ UNCHANGED <<inventoryVars, scans, hostRows>>

-----------------------------------------------------------------------------
\* Others insert assets under names that scans meet, and delete them: ON DELETE SET NULL
\* on the hosts' links.
AssetAppears == /\ \E a \in Unread, ip \in Ip : InsertAsset(a, NameOf[ip])
                /\ UNCHANGED <<software, vulns, enrichment, scannerOwnVars>>
AssetGoes(a) ==
  /\ DeleteAsset(a)
  /\ hostRows' = [s \in Scan |-> [ip \in DOMAIN hostRows[s] |->
       IF hostRows[s][ip].asset = a THEN [hostRows[s][ip] EXCEPT !.asset = NoAsset]
       ELSE hostRows[s][ip]]]
  /\ UNCHANGED <<scans, scanTask, abandoned, scanFaults>>

ScanStep(s) == \/ StartBackgroundScan(s) \/ BeginScan(s) \/ ScanHost(s)
               \/ RecordHost(s) \/ ClashHost(s) \/ FinishScan(s)

ScannerNext ==
  \/ \E s \in Scan : CreateScan(s) \/ ScanStep(s) \/ FailScan(s) \/ LoseScan(s)
  \/ ScannerCrash \/ AssetAppears \/ \E a \in AssetId : AssetGoes(a)

ScannerSpec == ScannerInit /\ [][ScannerNext]_scannerVars

\* Scans beside all that others do to the inventory: assets under any name, software, and
\* lookups of CVEs.  A new asset has an id that no scan has read.
InventoryWork ==
  /\ \/ \E a \in Unread, h \in Hostname : InsertAsset(a, h) /\ UNCHANGED <<software, vulns, enrichment>>
     \/ \E s \in Software, a \in AssetId : AddSoftware(s, a)
     \/ \E t \in Enrichment : EnrichmentStep(t) \/ \E a \in AssetId : ScanCves(t, a)
  /\ UNCHANGED scannerOwnVars

EstateSpec == ScannerInit /\ [][ScannerNext \/ InventoryWork]_scannerVars

-----------------------------------------------------------------------------
\* Every variable keeps its shape.
ScannerTypeOK ==
  /\ DOMAIN scans \subseteq Scan /\ abandoned \subseteq DOMAIN scans
  /\ \A s \in DOMAIN scans : /\ scans[s].status \in {"queued", "running"} \cup Ended
                             /\ scans[s].scanned \in Nat /\ scans[s].up \in Nat
  /\ \A s \in Scan : /\ DOMAIN hostRows[s] \subseteq Ip
                     /\ scanTask[s].pc \in {"none", "create", "start", "next", "record", "ended"}
                     /\ scanTask[s].todo \subseteq Ip
  /\ scanFaults \in 0..MaxScanFaults

\* A scan's counters are its host rows, at every moment and after every failure, and a
\* scan that says completed has a row for each target (network_scanner.py:201-222).
CountersAreRows ==
  \A s \in DOMAIN scans :
    LET rows == hostRows[s]
    IN /\ scans[s].scanned = Cardinality(DOMAIN rows)
       /\ scans[s].up = Cardinality({ip \in DOMAIN rows : rows[ip].up})
       /\ scans[s].status = "completed" => DOMAIN rows = Ip

\* A scan that was asked for is recorded as ended, unless its process stopped, a statement
\* of its own failed or it met an asset that others changed: whatever the hosts answer and
\* however many scans run, none goes on for ever (network_scanner.py:187-227).
ScansEnd ==
  \A s \in Scan : s \in DOMAIN scans ~>
    s \in abandoned \/ \E r \in DOMAIN scans : r = s /\ scans[r].status \in Ended
=============================================================================
