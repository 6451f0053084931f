--------------------------- MODULE ServingProofs ---------------------------
(***************************************************************************)
(* Proofs about OidcLogin, CaseDesk, NetworkScanner, PlaybookRuns and      *)
(* AssetInventory, for every value of their constants.  A verifier is      *)
(* redeemed once, and only lateness, a second callback or a failure turns  *)
(* a login away; an item is linked to a case once, and a closed case is    *)
(* dated; the counters of a scan are its rows; the record of a playbook    *)
(* run says what it did; and cve_count promises no more than the table has.*)
(***************************************************************************)
EXTENDS OidcLogin, CaseDesk, NetworkScanner, PlaybookRuns, FiniteSetTheorems, TLAPS

-----------------------------------------------------------------------------
(* OidcLogin *)

OidcTask ==
  [pc : {"idle", "client", "probe", "use", "redirected", "exchange", "in", "refused",
         "not_found", "lost"},
   of : SUBSET Login, op : {"none", "setex", "get", "delete"}, verifier : BOOLEAN]

OidcTyped ==
  /\ config \in {"none", "enabled", "disabled"} /\ client \in BOOLEAN
  /\ available \in {"unknown", "yes", "no"}
  /\ kept \subseteq Login /\ spoilt \subseteq Login /\ lapsed \subseteq Login
  /\ task \in [Login \cup Callback -> OidcTask] /\ redeemed \in [Login -> Nat]
  /\ redisFaults \in Nat

\* A login stores its own key and never learns a verifier.
LoginRow(l) ==
  /\ ~ task[l].verifier /\ task[l].op \in {"none", "setex"}
  /\ task[l].pc \notin {"exchange", "in", "refused"}
  /\ task[l].pc # "idle" => task[l].of = {l} /\ task[l].op = "setex"

\* A callback answers a login that was redirected, and deletes what it found.
CallbackRow(t) ==
  /\ task[t].op # "setex" /\ task[t].pc # "redirected"
  /\ task[t].verifier <=> task[t].op = "delete"
  /\ task[t].pc = "idle" => task[t].op = "none" /\ task[t].of = {}
  /\ task[t].pc # "idle" =>
       /\ task[t].op # "none"
       /\ \E l \in Login : task[t].of = {l} /\ task[l].pc = "redirected"

\* Of a login that nothing spoilt, one callback at most is under way, and no
\* verifier is redeemed, or about to be, while its key can be found.
OneRedeems(l) ==
  /\ \A t, u \in Callback :
       Active(t) /\ Active(u) /\ task[t].of = {l} /\ task[u].of = {l} => t = u
  /\ \A t \in Callback :
       Active(t) /\ task[t].of = {l} /\ task[t].verifier =>
         redeemed[l] = 0 /\ (task[t].pc = "exchange" => l \notin kept)
  /\ redeemed[l] <= 1
  /\ redeemed[l] = 1 => l \notin kept /\ task[l].pc = "redirected"

Requests == /\ \A l \in Login : LoginRow(l)
            /\ \A t \in Callback : CallbackRow(t)
            /\ \A l \in Login \ spoilt : OneRedeems(l)

\* While Redis has not failed, a login that was redirected has its key, unless
\* the key expired or a callback found it.
KeysWait ==
  redisFaults = 0 =>
    /\ available # "no"
    /\ \A l \in Login : task[l].pc = "redirected" /\ l \notin kept \cup lapsed =>
         \E u \in Callback : task[u].of = {l} /\ task[u].op = "delete"
    /\ \A t \in Callback : task[t].pc \in {"exchange", "refused"} /\ ~ task[t].verifier =>
         task[t].of \subseteq lapsed \/ \E u \in Callback \ {t} : task[u].of = task[t].of

OidcInv == OidcTyped /\ Requests /\ KeysWait

-----------------------------------------------------------------------------
(* The requests' rows *)

LEMMA NoLoginRow ==
  /\ NoLogin \in OidcTask /\ NoLogin.pc = "idle" /\ NoLogin.of = {}
  /\ NoLogin.op = "none" /\ NoLogin.verifier = FALSE
BY DEF NoLogin, OidcTask

LEMMA BecomesRow ==
  ASSUME OidcTyped, NEW t \in Login \cup Callback, NEW k \in OidcTask, Becomes(t, k)
  PROVE  /\ task' \in [Login \cup Callback -> OidcTask] /\ task'[t] = k
         /\ \A u \in Login \cup Callback : u # t => task'[u] = task[u]
BY DEF OidcTyped, Becomes

LEMMA PhaseRow ==
  ASSUME NEW row \in OidcTask,
         NEW pc \in {"idle", "client", "probe", "use", "redirected", "exchange", "in",
                     "refused", "not_found", "lost"}
  PROVE  /\ [row EXCEPT !.pc = pc] \in OidcTask /\ [row EXCEPT !.pc = pc].pc = pc
         /\ [row EXCEPT !.pc = pc].of = row.of /\ [row EXCEPT !.pc = pc].op = row.op
         /\ [row EXCEPT !.pc = pc].verifier = row.verifier
BY DEF OidcTask

\* What an operation that returned leaves behind.
LEMMA AfterRow ==
  ASSUME OidcTyped, NEW t \in Login \cup Callback, NEW found \in BOOLEAN
  PROVE  /\ After(t, found) \in OidcTask /\ After(t, found).of = task[t].of
         /\ task[t].op = "setex" =>
              /\ After(t, found).pc = "redirected" /\ After(t, found).op = "setex"
              /\ After(t, found).verifier = task[t].verifier
         /\ task[t].op = "get" /\ found =>
              /\ After(t, found).pc = "client" /\ After(t, found).op = "delete"
              /\ After(t, found).verifier
         /\ task[t].op # "setex" /\ ~ (task[t].op = "get" /\ found) =>
              /\ After(t, found).pc = "exchange" /\ After(t, found).op = task[t].op
              /\ After(t, found).verifier = task[t].verifier
<1>1. task[t] \in OidcTask
  BY DEF OidcTyped
<1>2. CASE task[t].op = "setex"
  BY <1>1, <1>2, PhaseRow DEF After
<1>3. CASE task[t].op = "get" /\ found
  <2>1. After(t, found) = [task[t] EXCEPT !.pc = "client", !.op = "delete", !.verifier = TRUE]
    BY <1>3 DEF After
  <2> QED BY <1>1, <1>3, <2>1 DEF OidcTask
<1>4. CASE task[t].op # "setex" /\ ~ (task[t].op = "get" /\ found)
  <2>1. After(t, found) = [task[t] EXCEPT !.pc = "exchange"]
    BY <1>4 DEF After
  <2> DEFINE k == [task[t] EXCEPT !.pc = "exchange"]
  <2>2. /\ k \in OidcTask /\ k.pc = "exchange" /\ k.of = task[t].of /\ k.op = task[t].op
        /\ k.verifier = task[t].verifier
    BY <1>1, PhaseRow
  <2> HIDE DEF k
  <2>3. After(t, found) = k
    BY <2>1 DEF k
  <2> QED BY <1>4, <2>2, <2>3
<1> QED BY <1>2, <1>3, <1>4

-----------------------------------------------------------------------------
(* The steps of a request *)

\* A login connects, or is redirected with its key stored or lost.
LEMMA LoginStepEffect ==
  ASSUME OidcInv, NEW t \in Login, TaskStep(t)
  PROVE  \E k \in OidcTask :
           /\ Becomes(t, k) /\ k.of = {t} /\ k.op = "setex" /\ ~ k.verifier
           /\ task[t].pc \in {"client", "probe", "use"} /\ k.pc \in {"probe", "use", "redirected"}
           /\ kept' \in {kept, kept \cup {t}} /\ (k.pc # "redirected" => kept' = kept)
           /\ UNCHANGED <<config, spoilt, lapsed, redeemed>>
           /\ client' \in BOOLEAN /\ available' \in {"unknown", "yes", "no"} /\ redisFaults' \in Nat
           /\ redisFaults' = 0 => /\ redisFaults = 0 /\ available' # "no"
                                  /\ k.pc = "redirected" => t \in kept'
<1>1. /\ task[t] \in OidcTask /\ LoginRow(t) /\ redisFaults \in Nat
      /\ client \in BOOLEAN /\ available \in {"unknown", "yes", "no"}
      /\ redisFaults = 0 => available # "no"
  BY DEF OidcInv, OidcTyped, Requests, KeysWait
<1>2. task[t].pc \in {"client", "probe", "use"} /\ task[t].of = {t} /\ task[t].op = "setex"
      /\ ~ task[t].verifier
  BY <1>1 DEF TaskStep, GetClient, Probe, UseRedis, Exchange, LoginRow
<1> DEFINE probes == [task[t] EXCEPT !.pc = "probe"]
           uses == [task[t] EXCEPT !.pc = "use"]
<1>3. /\ probes \in OidcTask /\ probes.pc = "probe" /\ probes.of = {t} /\ probes.op = "setex"
      /\ ~ probes.verifier
  BY <1>1, <1>2, PhaseRow
<1>4. /\ uses \in OidcTask /\ uses.pc = "use" /\ uses.of = {t} /\ uses.op = "setex"
      /\ ~ uses.verifier
  BY <1>1, <1>2, PhaseRow
<1>5. \A found \in BOOLEAN :
        /\ After(t, found) \in OidcTask /\ After(t, found).pc = "redirected"
        /\ After(t, found).of = {t} /\ After(t, found).op = "setex" /\ ~ After(t, found).verifier
  BY <1>2, AfterRow DEF OidcInv
<1>6. Stored(t) = kept \cup {t} /\ (task[t].of \subseteq kept) \in BOOLEAN
  BY <1>2 DEF Stored
<1>0. Faulty => redisFaults' \in Nat /\ redisFaults' # 0
  BY <1>1 DEF Faulty
<1> HIDE DEF probes, uses
<1>7. CASE GetClient(t)
  <2>1. CASE Off /\ Nothing(t) /\ UNCHANGED client
    BY <1>1, <1>2, <1>5, <1>7, <2>1 DEF GetClient, Off, Nothing
  <2>2. CASE client' = TRUE /\ Becomes(t, probes) /\ UNCHANGED <<kept, spoilt>>
    BY <1>1, <1>2, <1>3, <1>7, <2>2 DEF GetClient
  <2>3. CASE Becomes(t, uses) /\ UNCHANGED <<client, kept, spoilt>>
    BY <1>1, <1>2, <1>4, <1>7, <2>3 DEF GetClient
  <2> QED BY <1>7, <2>1, <2>2, <2>3 DEF GetClient, probes, uses
<1>8. CASE Probe(t)
  <2>1. CASE available' = "yes" /\ Becomes(t, uses) /\ UNCHANGED <<client, kept, spoilt, redisFaults>>
    BY <1>1, <1>2, <1>4, <1>8, <2>1 DEF Probe
  <2>2. CASE Faulty /\ available' = "no" /\ client' = FALSE /\ Nothing(t)
    BY <1>0, <1>1, <1>2, <1>5, <1>8, <2>2 DEF Probe, Nothing
  <2> QED BY <1>8, <2>1, <2>2 DEF Probe, uses
<1>9. CASE UseRedis(t)
  <2>1. CASE /\ kept' = Stored(t) /\ Becomes(t, After(t, task[t].of \subseteq kept))
             /\ UNCHANGED <<spoilt, redisFaults>>
    BY <1>1, <1>2, <1>5, <1>6, <1>9, <2>1 DEF UseRedis, redisState
  <2>2. CASE Faulty /\ kept' = Stored(t) /\ Becomes(t, After(t, FALSE)) /\ UNCHANGED spoilt
    BY <1>0, <1>1, <1>2, <1>5, <1>6, <1>9, <2>2 DEF UseRedis, redisState
  <2>3. CASE Faulty /\ Nothing(t)
    BY <1>0, <1>1, <1>2, <1>5, <1>6, <1>9, <2>3 DEF UseRedis, redisState, Nothing
  <2> QED BY <1>9, <2>1, <2>2, <2>3 DEF UseRedis
<1>10. ~ Exchange(t)
  BY <1>2 DEF Exchange
<1> QED BY <1>7, <1>8, <1>9, <1>10 DEF TaskStep

\* A callback connects, finds its key or does not, or has done with it.
LEMMA CallbackStepEffect ==
  ASSUME OidcInv, NEW t \in Callback, GetClient(t) \/ Probe(t) \/ UseRedis(t)
  PROVE  \E k \in OidcTask :
           /\ Becomes(t, k) /\ k.of = task[t].of
           /\ task[t].pc \in {"client", "probe", "use"} /\ task[t].op \in {"get", "delete"}
           /\ \/ /\ k.op = task[t].op /\ k.verifier = task[t].verifier /\ k.pc \in {"probe", "use"}
                 /\ UNCHANGED <<kept, spoilt>>
              \/ /\ task[t].op = "get" /\ task[t].of \subseteq kept
                 /\ k.op = "delete" /\ k.verifier /\ k.pc = "client" /\ UNCHANGED <<kept, spoilt>>
              \/ /\ task[t].op = "get" /\ k.op = "get" /\ ~ k.verifier /\ k.pc = "exchange"
                 /\ UNCHANGED <<kept, spoilt>>
                 /\ redisFaults' = 0 => ~ (task[t].of \subseteq kept)
              \/ /\ task[t].op = "delete" /\ k.op = "delete" /\ k.verifier /\ k.pc = "exchange"
                 /\ \/ kept' = kept \ task[t].of /\ spoilt' = spoilt
                    \/ kept' = kept /\ spoilt' = spoilt \cup task[t].of
           /\ UNCHANGED <<config, lapsed, redeemed>>
           /\ client' \in BOOLEAN /\ available' \in {"unknown", "yes", "no"} /\ redisFaults' \in Nat
           /\ redisFaults' = 0 => redisFaults = 0 /\ available' # "no"
<1>1. /\ task[t] \in OidcTask /\ CallbackRow(t) /\ redisFaults \in Nat
      /\ client \in BOOLEAN /\ available \in {"unknown", "yes", "no"}
      /\ redisFaults = 0 => available # "no"
  BY DEF OidcInv, OidcTyped, Requests, KeysWait
<1>2. /\ task[t].pc \in {"client", "probe", "use"}
      /\ task[t].op \in {"get", "delete"} /\ (task[t].verifier <=> task[t].op = "delete")
  BY <1>1 DEF GetClient, Probe, UseRedis, CallbackRow, OidcTask
<1> DEFINE probes == [task[t] EXCEPT !.pc = "probe"]
           uses == [task[t] EXCEPT !.pc = "use"]
<1>3. /\ probes \in OidcTask /\ probes.pc = "probe" /\ probes.of = task[t].of
      /\ probes.op = task[t].op /\ probes.verifier = task[t].verifier
  BY <1>1, <1>2, PhaseRow
<1>4. /\ uses \in OidcTask /\ uses.pc = "use" /\ uses.of = task[t].of
      /\ uses.op = task[t].op /\ uses.verifier = task[t].verifier
  BY <1>1, <1>2, PhaseRow
<1>5. \A found \in BOOLEAN :
        /\ After(t, found) \in OidcTask /\ After(t, found).of = task[t].of
        /\ task[t].op = "get" /\ found =>
             After(t, found).pc = "client" /\ After(t, found).op = "delete" /\ After(t, found).verifier
        /\ ~ (task[t].op = "get" /\ found) =>
             /\ After(t, found).pc = "exchange" /\ After(t, found).op = task[t].op
             /\ After(t, found).verifier = task[t].verifier
  BY <1>2, AfterRow DEF OidcInv
<1>6. /\ (task[t].of \subseteq kept) \in BOOLEAN
      /\ Stored(t) = IF task[t].op = "delete" THEN kept \ task[t].of ELSE kept
  BY <1>2 DEF Stored
<1>0. Faulty => redisFaults' \in Nat /\ redisFaults' # 0
  BY <1>1 DEF Faulty
<1> HIDE DEF probes, uses
<1>7. CASE GetClient(t)
  <2>1. CASE Off /\ Nothing(t) /\ UNCHANGED client
    BY <1>1, <1>2, <1>5, <1>7, <2>1 DEF GetClient, Off, Nothing
  <2>2. CASE client' = TRUE /\ Becomes(t, probes) /\ UNCHANGED <<kept, spoilt>>
    BY <1>1, <1>2, <1>3, <1>7, <2>2 DEF GetClient
  <2>3. CASE Becomes(t, uses) /\ UNCHANGED <<client, kept, spoilt>>
    BY <1>1, <1>2, <1>4, <1>7, <2>3 DEF GetClient
  <2> QED BY <1>7, <2>1, <2>2, <2>3 DEF GetClient, probes, uses
<1>8. CASE Probe(t)
  <2>1. CASE available' = "yes" /\ Becomes(t, uses) /\ UNCHANGED <<client, kept, spoilt, redisFaults>>
    BY <1>1, <1>2, <1>4, <1>8, <2>1 DEF Probe
  <2>2. CASE Faulty /\ available' = "no" /\ client' = FALSE /\ Nothing(t)
    BY <1>0, <1>1, <1>2, <1>5, <1>8, <2>2 DEF Probe, Nothing
  <2> QED BY <1>8, <2>1, <2>2 DEF Probe, uses
<1>9. CASE UseRedis(t)
  <2>1. CASE /\ kept' = Stored(t) /\ Becomes(t, After(t, task[t].of \subseteq kept))
             /\ UNCHANGED <<spoilt, redisFaults>>
    BY <1>1, <1>2, <1>5, <1>6, <1>9, <2>1 DEF UseRedis, redisState
  <2>2. CASE Faulty /\ kept' = Stored(t) /\ Becomes(t, After(t, FALSE)) /\ UNCHANGED spoilt
    BY <1>0, <1>1, <1>2, <1>5, <1>6, <1>9, <2>2 DEF UseRedis, redisState
  <2>3. CASE Faulty /\ Nothing(t)
    BY <1>0, <1>1, <1>2, <1>5, <1>6, <1>9, <2>3 DEF UseRedis, redisState, Nothing
  <2> QED BY <1>9, <2>1, <2>2, <2>3 DEF UseRedis
<1> QED BY <1>7, <1>8, <1>9

-----------------------------------------------------------------------------
(* The invariant is kept *)

\* Callbacks keep their rows when logins that were redirected stay so.
LEMMA CallbackKept ==
  ASSUME OidcInv, NEW u \in Callback, task'[u] = task[u],
         \A l \in Login : task[l].pc = "redirected" => task'[l].pc = "redirected"
  PROVE  CallbackRow(u)'
BY DEF OidcInv, Requests, CallbackRow

LEMMA LoginStepKeeps ==
  ASSUME OidcInv, NEW t \in Login, TaskStep(t)
  PROVE  OidcInv'
<1>1. PICK k \in OidcTask :
        /\ Becomes(t, k) /\ k.of = {t} /\ k.op = "setex" /\ ~ k.verifier
        /\ task[t].pc \in {"client", "probe", "use"} /\ k.pc \in {"probe", "use", "redirected"}
        /\ kept' \in {kept, kept \cup {t}} /\ (k.pc # "redirected" => kept' = kept)
        /\ UNCHANGED <<config, spoilt, lapsed, redeemed>>
        /\ client' \in BOOLEAN /\ available' \in {"unknown", "yes", "no"} /\ redisFaults' \in Nat
        /\ redisFaults' = 0 => /\ redisFaults = 0 /\ available' # "no"
                               /\ k.pc = "redirected" => t \in kept'
  BY LoginStepEffect
<1>2. /\ task' \in [Login \cup Callback -> OidcTask] /\ task'[t] = k
      /\ \A u \in Login \cup Callback : u # t => task'[u] = task[u]
  BY <1>1, BecomesRow DEF OidcInv
<1>3. \A u \in Callback : task'[u] = task[u]
  BY <1>2, OidcAssumption
<1>4. OidcTyped'
  BY <1>1, <1>2 DEF OidcInv, OidcTyped
<1>5. \A l \in Login : LoginRow(l)'
  BY <1>1, <1>2 DEF OidcInv, Requests, LoginRow
<1>6. \A l \in Login : task[l].pc = "redirected" => task'[l].pc = "redirected"
  BY <1>1, <1>2
<1>7. \A u \in Callback : CallbackRow(u)'
  BY <1>3, <1>6, CallbackKept
<1>8. ASSUME NEW l \in Login \ spoilt
      PROVE  OneRedeems(l)'
  <2>1. OneRedeems(l)
    BY <1>8 DEF OidcInv, Requests
  <2>2. CASE l # t
    BY <1>1, <1>2, <1>3, <2>1, <2>2 DEF OneRedeems, Active
  <2>3. CASE l = t
    <3>1. \A u \in Callback : Active(u) => task[u].of # {l}
      BY <1>1, <2>3 DEF OidcInv, Requests, CallbackRow, Active
    <3>2. redeemed[l] # 1
      BY <1>1, <2>1, <2>3 DEF OneRedeems
    <3> QED BY <1>1, <1>3, <2>1, <3>1, <3>2 DEF OneRedeems, Active
  <2> QED BY <2>2, <2>3
<1>9. KeysWait'
  BY <1>1, <1>2, <1>3 DEF OidcInv, KeysWait
<1> QED BY <1>1, <1>4, <1>5, <1>7, <1>8, <1>9 DEF OidcInv, Requests

LEMMA CallbackStepKeeps ==
  ASSUME OidcInv, NEW t \in Callback, GetClient(t) \/ Probe(t) \/ UseRedis(t)
  PROVE  OidcInv'
<1>1. PICK k \in OidcTask :
        /\ Becomes(t, k) /\ k.of = task[t].of
        /\ task[t].pc \in {"client", "probe", "use"} /\ task[t].op \in {"get", "delete"}
        /\ \/ /\ k.op = task[t].op /\ k.verifier = task[t].verifier /\ k.pc \in {"probe", "use"}
              /\ UNCHANGED <<kept, spoilt>>
           \/ /\ task[t].op = "get" /\ task[t].of \subseteq kept
              /\ k.op = "delete" /\ k.verifier /\ k.pc = "client" /\ UNCHANGED <<kept, spoilt>>
           \/ /\ task[t].op = "get" /\ k.op = "get" /\ ~ k.verifier /\ k.pc = "exchange"
              /\ UNCHANGED <<kept, spoilt>>
              /\ redisFaults' = 0 => ~ (task[t].of \subseteq kept)
           \/ /\ task[t].op = "delete" /\ k.op = "delete" /\ k.verifier /\ k.pc = "exchange"
              /\ \/ kept' = kept \ task[t].of /\ spoilt' = spoilt
                 \/ kept' = kept /\ spoilt' = spoilt \cup task[t].of
        /\ UNCHANGED <<config, lapsed, redeemed>>
        /\ client' \in BOOLEAN /\ available' \in {"unknown", "yes", "no"} /\ redisFaults' \in Nat
        /\ redisFaults' = 0 => redisFaults = 0 /\ available' # "no"
  BY CallbackStepEffect
<1>2. /\ task' \in [Login \cup Callback -> OidcTask] /\ task'[t] = k
      /\ \A u \in Login \cup Callback : u # t => task'[u] = task[u]
  BY <1>1, BecomesRow DEF OidcInv
<1>3. \A l \in Login : task'[l] = task[l]
  BY <1>2, OidcAssumption
<1>4. PICK own \in Login : task[t].of = {own} /\ task[own].pc = "redirected"
  BY <1>1 DEF OidcInv, Requests, CallbackRow
<1>5. Active(t)
  BY <1>1 DEF Active
<1>6. kept' \subseteq kept /\ spoilt \subseteq spoilt' /\ spoilt' \subseteq Login
  BY <1>1, <1>4 DEF OidcInv, OidcTyped
<1>7. OidcTyped'
  BY <1>1, <1>2, <1>6 DEF OidcInv, OidcTyped
<1>8. \A l \in Login : LoginRow(l)'
  BY <1>3 DEF OidcInv, Requests, LoginRow
<1>9. CallbackRow(t)'
  <2>1. CallbackRow(t)
    BY DEF OidcInv, Requests
  <2>2. k.op \in {"get", "delete"} /\ (k.verifier <=> k.op = "delete")
        /\ k.pc \in {"client", "probe", "use", "exchange"}
    BY <1>1, <2>1 DEF CallbackRow
  <2> QED BY <1>1, <1>2, <1>3, <1>4, <2>2 DEF CallbackRow
<1>10. \A u \in Callback : CallbackRow(u)'
  BY <1>2, <1>3, <1>9, CallbackKept
<1>11. ASSUME NEW l \in Login \ spoilt'
       PROVE  OneRedeems(l)'
  <2>1. OneRedeems(l) /\ (task[t].verifier <=> task[t].op = "delete")
    BY <1>6, <1>11 DEF OidcInv, Requests, CallbackRow
  <2>2. CASE l # own
    <3>1. l \in kept' <=> l \in kept
      BY <1>1, <1>4, <2>2
    <3>2. \A u \in Callback : task'[u].of = {l} => task'[u] = task[u]
      BY <1>1, <1>2, <1>4, <2>2
    <3> QED BY <1>1, <1>3, <2>1, <3>1, <3>2 DEF OneRedeems, Active
  <2>3. CASE l = own
    <3>1. \A u \in Callback : Active(u) /\ task[u].of = {l} => u = t
      BY <1>4, <1>5, <2>1, <2>3 DEF OneRedeems
    <3>2. \A u \in Callback : (Active(u))' /\ task'[u].of = {l} => u = t
      BY <1>2, <3>1 DEF Active
    <3>3. k.verifier => redeemed[l] = 0
      <4>1. redeemed[l] \in Nat /\ (task[t].verifier => redeemed[l] = 0)
        BY <1>4, <1>5, <1>11, <2>1, <2>3 DEF OneRedeems, OidcInv, OidcTyped
      <4>2. l \in kept => redeemed[l] = 0
        BY <2>1, <4>1 DEF OneRedeems
      <4>3. k.verifier => task[t].verifier \/ task[t].of \subseteq kept
        BY <1>1, <2>1
      <4> QED BY <1>4, <2>3, <4>1, <4>2, <4>3
    <3>4. k.verifier /\ k.pc = "exchange" => l \notin kept'
      BY <1>1, <1>4, <1>11, <2>3
    <3>5. redeemed'[l] = redeemed[l] /\ (redeemed[l] = 1 => l \notin kept')
      BY <1>1, <1>6, <2>1 DEF OneRedeems
    <3> QED BY <1>2, <1>3, <2>1, <3>2, <3>3, <3>4, <3>5 DEF OneRedeems
  <2> QED BY <2>2, <2>3
<1>12. KeysWait'
  <2> SUFFICES ASSUME redisFaults' = 0
               PROVE  KeysWait'
    BY DEF KeysWait
  <2>1. redisFaults = 0 /\ available' # "no"
    BY <1>1
  <2>2. \A u \in Callback : task'[u].of = task[u].of
    BY <1>1, <1>2
  <2>3. \A u \in Callback : task[u].op = "delete" => task'[u].op = "delete"
    BY <1>1, <1>2
  <2>4. \A l \in Login : l \in kept /\ l \notin kept' => l = own /\ task[t].op = "delete"
    BY <1>1, <1>4
  <2>5. ASSUME NEW l \in Login, task'[l].pc = "redirected", l \notin kept' \cup lapsed'
        PROVE  \E u \in Callback : task'[u].of = {l} /\ task'[u].op = "delete"
    <3>1. \E u \in Callback : task[u].of = {l} /\ task[u].op = "delete"
      BY <1>1, <1>3, <1>4, <2>1, <2>4, <2>5 DEF OidcInv, KeysWait
    <3> QED BY <2>2, <2>3, <3>1
  <2>6. ASSUME NEW u \in Callback, task'[u].pc \in {"exchange", "refused"}, ~ task'[u].verifier
        PROVE  task'[u].of \subseteq lapsed' \/ \E v \in Callback \ {u} : task'[v].of = task'[u].of
    <3>1. CASE u # t
      <4>1. task'[u] = task[u]
        BY <1>2, <3>1
      <4> QED BY <1>1, <2>1, <2>2, <2>6, <4>1 DEF OidcInv, KeysWait
    <3>2. CASE u = t
      <4>1. task[t].op = "get" /\ own \notin kept
        BY <1>1, <1>2, <1>4, <2>6, <3>2
      <4>2. own \in lapsed \/ \E v \in Callback : task[v].of = {own} /\ task[v].op = "delete"
        BY <1>4, <2>1, <4>1 DEF OidcInv, KeysWait
      <4> QED BY <1>1, <1>4, <2>2, <3>2, <4>1, <4>2
    <3> QED BY <3>1, <3>2
  <2> QED BY <2>1, <2>5, <2>6 DEF KeysWait
<1> QED BY <1>7, <1>8, <1>10, <1>11, <1>12 DEF OidcInv, Requests

LEMMA ExchangeKeeps ==
  ASSUME OidcInv, NEW t \in Callback, Exchange(t)
  PROVE  OidcInv'
<1>1. PICK outcome \in {"in", "refused"} :
        (outcome = "in" => task[t].verifier) /\ Becomes(t, [task[t] EXCEPT !.pc = outcome])
  BY DEF Exchange
<1> DEFINE k == [task[t] EXCEPT !.pc = outcome]
<1>2. /\ k \in OidcTask /\ k.pc = outcome /\ k.of = task[t].of /\ k.op = task[t].op
      /\ k.verifier = task[t].verifier
  <2>1. task[t] \in OidcTask
    BY DEF OidcInv, OidcTyped
  <2> QED BY <2>1 DEF OidcTask
<1>3. /\ task' \in [Login \cup Callback -> OidcTask] /\ task'[t] = k
      /\ \A u \in Login \cup Callback : u # t => task'[u] = task[u]
  BY <1>1, <1>2, BecomesRow DEF OidcInv
<1> HIDE DEF k
<1>4. /\ task[t].pc = "exchange" /\ Active(t)
      /\ UNCHANGED <<config, client, available, kept, spoilt, lapsed, redisFaults>>
  BY DEF Exchange, Active, redisState
<1>5. \A l \in Login : task'[l] = task[l]
  BY <1>3, OidcAssumption
<1>6. PICK own \in Login : task[t].of = {own} /\ task[own].pc = "redirected"
  BY <1>4 DEF OidcInv, Requests, CallbackRow
<1>7. /\ redeemed' \in [Login -> Nat]
      /\ \A l \in Login : redeemed'[l] = IF l = own /\ task[t].verifier THEN redeemed[l] + 1
                                         ELSE redeemed[l]
  BY <1>6 DEF Exchange, OidcInv, OidcTyped
<1>8. OidcTyped'
  BY <1>3, <1>4, <1>7 DEF OidcInv, OidcTyped
<1>9. \A l \in Login : LoginRow(l)'
  BY <1>5 DEF OidcInv, Requests, LoginRow
<1>10. CallbackRow(t)'
  <2>1. CallbackRow(t)
    BY DEF OidcInv, Requests
  <2> QED BY <1>1, <1>2, <1>3, <1>4, <1>5, <1>6, <2>1 DEF CallbackRow
<1>11. \A u \in Callback : CallbackRow(u)'
  BY <1>3, <1>5, <1>10, CallbackKept
<1>12. ASSUME NEW l \in Login \ spoilt
       PROVE  OneRedeems(l)'
  <2>1. OneRedeems(l)
    BY <1>12 DEF OidcInv, Requests
  <2>2. ~ (Active(t))'
    BY <1>1, <1>2, <1>3 DEF Active
  <2>3. \A u \in Callback : (Active(u))' => u # t /\ Active(u) /\ task'[u] = task[u]
    BY <1>3, <2>2 DEF Active
  <2>4. CASE ~ (l = own /\ task[t].verifier)
    BY <1>4, <1>5, <1>7, <2>1, <2>3, <2>4 DEF OneRedeems
  <2>5. CASE l = own /\ task[t].verifier
    <3>1. redeemed[l] = 0 /\ l \notin kept /\ redeemed'[l] = 1
      BY <1>4, <1>6, <1>7, <2>1, <2>5 DEF OneRedeems
    <3>2. \A u \in Callback : (Active(u))' => task'[u].of # {l}
      BY <1>4, <1>6, <2>1, <2>3, <2>5 DEF OneRedeems
    <3> QED BY <1>4, <1>5, <1>6, <2>5, <3>1, <3>2 DEF OneRedeems
  <2> QED BY <2>4, <2>5
<1>13. KeysWait'
  <2>1. \A u \in Callback : /\ task'[u].of = task[u].of /\ task'[u].op = task[u].op
                            /\ task'[u].verifier = task[u].verifier
                            /\ task'[u].pc \in {"exchange", "refused"} => task[u].pc \in {"exchange", "refused"}
    BY <1>2, <1>3, <1>4
  <2> QED BY <1>4, <1>5, <2>1 DEF OidcInv, KeysWait
<1> QED BY <1>4, <1>8, <1>9, <1>11, <1>12, <1>13 DEF OidcInv, Requests

LEMMA BeginLoginKeeps ==
  ASSUME OidcInv, NEW t \in Login, BeginLogin(t)
  PROVE  OidcInv'
<1> DEFINE asks == [NoLogin EXCEPT !.pc = "client", !.of = {t}, !.op = "setex"]
           k == IF config = "enabled" THEN asks ELSE [asks EXCEPT !.pc = "not_found"]
<1>1. Becomes(t, k) /\ task[t].pc = "idle"
  BY DEF BeginLogin, Admits
<1>2. /\ asks \in OidcTask /\ asks.pc = "client" /\ asks.of = {t} /\ asks.op = "setex"
      /\ ~ asks.verifier
  BY NoLoginRow DEF OidcTask
<1>3. /\ k \in OidcTask /\ k.of = {t} /\ k.op = "setex" /\ ~ k.verifier
      /\ k.pc \in {"client", "not_found"}
  <2>1. CASE config = "enabled"
    <3>1. k = asks
      BY <2>1
    <3> HIDE DEF k, asks
    <3> QED BY <1>2, <3>1
  <2>2. CASE config # "enabled"
    <3> HIDE DEF asks
    <3>1. k = [asks EXCEPT !.pc = "not_found"]
      BY <2>2
    <3> HIDE DEF k
    <3> QED BY <1>2, <3>1, PhaseRow
  <2> QED BY <2>1, <2>2
<1> HIDE DEF k
<1>4. /\ task' \in [Login \cup Callback -> OidcTask] /\ task'[t] = k
      /\ \A u \in Login \cup Callback : u # t => task'[u] = task[u]
  BY <1>1, <1>3, BecomesRow DEF OidcInv
<1>5. UNCHANGED <<config, client, available, kept, redeemed, spoilt, lapsed, redisFaults>>
  BY DEF BeginLogin, redisState
<1>6. \A u \in Callback : task'[u] = task[u]
  BY <1>4, OidcAssumption
<1>7. OidcTyped'
  BY <1>4, <1>5 DEF OidcInv, OidcTyped
<1>8. \A l \in Login : LoginRow(l)'
  BY <1>3, <1>4 DEF OidcInv, Requests, LoginRow
<1>9. \A l \in Login : task[l].pc = "redirected" <=> task'[l].pc = "redirected"
  BY <1>1, <1>3, <1>4
<1>10. \A u \in Callback : CallbackRow(u)'
  BY <1>6, <1>9, CallbackKept
<1>11. \A l \in Login \ spoilt : OneRedeems(l)'
  BY <1>5, <1>6, <1>9 DEF OidcInv, Requests, OneRedeems, Active
<1>12. KeysWait'
  BY <1>5, <1>6, <1>9 DEF OidcInv, KeysWait
<1> QED BY <1>5, <1>7, <1>8, <1>10, <1>11, <1>12 DEF OidcInv, Requests

LEMMA BeginCallbackKeeps ==
  ASSUME OidcInv, NEW t \in Callback, BeginCallback(t)
  PROVE  OidcInv'
<1>1. PICK own \in Login :
        /\ task[own].pc = "redirected"
        /\ Admits(t, [NoLogin EXCEPT !.pc = "client", !.of = {own}, !.op = "get"])
        /\ spoilt' = IF \E u \in Callback : Active(u) /\ task[u].of = {own}
                     THEN spoilt \cup {own} ELSE spoilt
  BY DEF BeginCallback
<1> DEFINE asks == [NoLogin EXCEPT !.pc = "client", !.of = {own}, !.op = "get"]
           k == IF config = "enabled" THEN asks ELSE [asks EXCEPT !.pc = "not_found"]
<1>2. Becomes(t, k) /\ task[t].pc = "idle"
  BY <1>1 DEF BeginCallback, Admits
<1>3. /\ asks \in OidcTask /\ asks.pc = "client" /\ asks.of = {own} /\ asks.op = "get"
      /\ ~ asks.verifier
  BY NoLoginRow DEF OidcTask
<1>4. /\ k \in OidcTask /\ k.of = {own} /\ k.op = "get" /\ ~ k.verifier
      /\ k.pc \in {"client", "not_found"}
  <2>1. CASE config = "enabled"
    <3>1. k = asks
      BY <2>1
    <3> HIDE DEF k, asks
    <3> QED BY <1>3, <3>1
  <2>2. CASE config # "enabled"
    <3> HIDE DEF asks
    <3>1. k = [asks EXCEPT !.pc = "not_found"]
      BY <2>2
    <3> HIDE DEF k
    <3> QED BY <1>3, <3>1, PhaseRow
  <2> QED BY <2>1, <2>2
<1> HIDE DEF k
<1>5. /\ task' \in [Login \cup Callback -> OidcTask] /\ task'[t] = k
      /\ \A u \in Login \cup Callback : u # t => task'[u] = task[u]
  BY <1>2, <1>4, BecomesRow DEF OidcInv
<1>6. /\ UNCHANGED <<config, client, available, kept, redeemed, lapsed, redisFaults>>
      /\ spoilt \subseteq spoilt' /\ spoilt' \subseteq Login
  BY <1>1 DEF BeginCallback, redisState, OidcInv, OidcTyped
<1>7. \A l \in Login : task'[l] = task[l]
  BY <1>5, OidcAssumption
<1>8. OidcTyped'
  BY <1>5, <1>6 DEF OidcInv, OidcTyped
<1>9. \A l \in Login : LoginRow(l)'
  BY <1>7 DEF OidcInv, Requests, LoginRow
<1>10. CallbackRow(t)'
  BY <1>1, <1>4, <1>5, <1>7 DEF CallbackRow
<1>11. \A u \in Callback : CallbackRow(u)'
  BY <1>5, <1>7, <1>10, CallbackKept
<1>12. ASSUME NEW l \in Login \ spoilt'
       PROVE  OneRedeems(l)'
  <2>1. OneRedeems(l)
    BY <1>6, <1>12 DEF OidcInv, Requests
  <2>2. l = own => \A u \in Callback : ~ (Active(u) /\ task[u].of = {l})
    BY <1>1, <1>12
  <2>3. \A u \in Callback : u # t => task'[u] = task[u]
    BY <1>5
  <2> QED BY <1>4, <1>5, <1>6, <1>7, <2>1, <2>2, <2>3 DEF OneRedeems, Active
<1>13. KeysWait'
  <2> SUFFICES ASSUME redisFaults' = 0
               PROVE  KeysWait'
    BY DEF KeysWait
  <2>1. task[t].op = "none" /\ task[t].pc = "idle" /\ redisFaults = 0
    BY <1>2, <1>6 DEF OidcInv, Requests, CallbackRow
  <2>2. \A l \in Login : task'[l].pc = "redirected" /\ l \notin kept' \cup lapsed' =>
          \E u \in Callback : task'[u].of = {l} /\ task'[u].op = "delete"
    BY <1>5, <1>6, <1>7, <2>1 DEF OidcInv, KeysWait
  <2>3. ASSUME NEW u \in Callback, task'[u].pc \in {"exchange", "refused"}, ~ task'[u].verifier
        PROVE  task'[u].of \subseteq lapsed' \/ \E v \in Callback \ {u} : task'[v].of = task'[u].of
    <3>1. u # t /\ task'[u] = task[u]
      BY <1>4, <1>5, <2>3
    <3>2. PICK own2 \in Login : task[u].of = {own2}
      BY <2>3, <3>1 DEF OidcInv, Requests, CallbackRow
    <3>3. CASE task[u].of \subseteq lapsed
      BY <1>6, <3>1, <3>3
    <3>4. ASSUME NEW v \in Callback \ {u}, task[v].of = task[u].of
          PROVE  \E w \in Callback \ {u} : task'[w].of = task'[u].of
      <4>1. CASE v # t
        BY <1>5, <3>1, <3>4, <4>1
      <4>2. CASE v = t
        <5>1. task[t].of = {}
          BY <2>1 DEF OidcInv, Requests, CallbackRow
        <5> QED BY <3>2, <3>4, <4>2, <5>1
      <4> QED BY <4>1, <4>2
    <3> QED BY <2>1, <2>3, <3>1, <3>3, <3>4 DEF OidcInv, KeysWait
  <2> QED BY <1>6, <2>1, <2>2, <2>3 DEF OidcInv, KeysWait
<1> QED BY <1>6, <1>8, <1>9, <1>11, <1>12, <1>13 DEF OidcInv, Requests

LEMMA ExpireKeeps ==
  ASSUME OidcInv, NEW l \in Login, Expire(l)
  PROVE  OidcInv'
<1>1. /\ UNCHANGED <<config, client, available, task, redeemed, spoilt, redisFaults>>
      /\ kept' \subseteq kept /\ lapsed \subseteq lapsed' /\ lapsed' \subseteq Login
      /\ kept \cup lapsed \subseteq kept' \cup lapsed'
  BY DEF Expire, redisState, OidcInv, OidcTyped
<1>2. OidcTyped'
  BY <1>1 DEF OidcInv, OidcTyped
<1>3. Requests'
  BY <1>1 DEF OidcInv, Requests, LoginRow, CallbackRow, OneRedeems, Active
<1>4. KeysWait'
  BY <1>1 DEF OidcInv, KeysWait
<1> QED BY <1>2, <1>3, <1>4 DEF OidcInv

LEMMA OidcCrashKeeps ==
  ASSUME OidcInv, OidcCrash
  PROVE  OidcInv'
<1>1. /\ UNCHANGED <<config, kept, redeemed, spoilt, lapsed>>
      /\ client' \in BOOLEAN /\ available' \in {"unknown", "yes", "no"}
      /\ redisFaults' \in Nat /\ redisFaults' # 0
  <2>1. redisFaults \in Nat
    BY DEF OidcInv, OidcTyped
  <2>2. redisFaults' = redisFaults + 1
    BY DEF OidcCrash, Faulty
  <2>3. redisFaults' \in Nat /\ redisFaults' # 0
    BY <2>1, <2>2
  <2> QED BY <2>3 DEF OidcCrash
<1>2. \A t \in Login \cup Callback :
        /\ [task[t] EXCEPT !.pc = "lost"] \in OidcTask
        /\ [task[t] EXCEPT !.pc = "lost"].pc = "lost"
        /\ [task[t] EXCEPT !.pc = "lost"].of = task[t].of
        /\ [task[t] EXCEPT !.pc = "lost"].op = task[t].op
        /\ [task[t] EXCEPT !.pc = "lost"].verifier = task[t].verifier
  BY PhaseRow DEF OidcInv, OidcTyped
<1>3. task' = [t \in Login \cup Callback |->
                 IF Active(t) THEN [task[t] EXCEPT !.pc = "lost"] ELSE task[t]]
  BY DEF OidcCrash, OidcInv, OidcTyped
<1>4. task' \in [Login \cup Callback -> OidcTask]
  BY <1>2, <1>3 DEF OidcInv, OidcTyped
<1>5. \A t \in Login \cup Callback :
        /\ task'[t].of = task[t].of /\ task'[t].op = task[t].op
        /\ task'[t].verifier = task[t].verifier
        /\ task'[t].pc = IF Active(t) THEN "lost" ELSE task[t].pc
  BY <1>2, <1>3
<1>6. OidcTyped'
  BY <1>1, <1>4 DEF OidcInv, OidcTyped
<1>7. \A l \in Login : LoginRow(l)'
  BY <1>5 DEF OidcInv, Requests, LoginRow, Active
<1>8. \A t \in Callback : CallbackRow(t)'
  BY <1>5 DEF OidcInv, Requests, CallbackRow, Active
<1>9. \A t \in Callback : ~ (Active(t))'
  BY <1>5 DEF Active
<1>10. \A l \in Login \ spoilt : OneRedeems(l)'
  <2>1. \A l \in Login : task[l].pc = "redirected" => task'[l].pc = "redirected"
    BY <1>5 DEF Active
  <2> QED BY <1>1, <1>9, <2>1 DEF OidcInv, Requests, OneRedeems
<1>11. KeysWait'
  BY <1>1 DEF KeysWait
<1> QED BY <1>1, <1>6, <1>7, <1>8, <1>10, <1>11 DEF OidcInv, Requests

LEMMA OidcStep == OidcInv /\ [OidcNext]_oidcVars => OidcInv'
<1> SUFFICES ASSUME OidcInv, [OidcNext]_oidcVars
             PROVE  OidcInv'
  OBVIOUS
<1>1. CASE EditConfig
  <2>1. /\ UNCHANGED <<client, available, kept, task, redeemed, spoilt, lapsed, redisFaults>>
        /\ config' \in {"none", "enabled", "disabled"}
    BY <1>1 DEF EditConfig, redisState
  <2>2. OidcTyped' /\ KeysWait'
    BY <2>1 DEF OidcInv, OidcTyped, KeysWait
  <2>3. Requests'
    BY <2>1 DEF OidcInv, Requests, LoginRow, CallbackRow, OneRedeems, Active
  <2> QED BY <2>2, <2>3 DEF OidcInv
<1>2. CASE OidcCrash
  BY <1>2, OidcCrashKeeps
<1>3. ASSUME NEW l \in Login, BeginLogin(l) \/ Expire(l)
      PROVE  OidcInv'
  BY <1>3, BeginLoginKeeps, ExpireKeeps
<1>4. ASSUME NEW t \in Callback, BeginCallback(t)
      PROVE  OidcInv'
  BY <1>4, BeginCallbackKeeps
<1>5. ASSUME NEW t \in Login \cup Callback, TaskStep(t)
      PROVE  OidcInv'
  <2>1. CASE t \in Login
    BY <1>5, <2>1, LoginStepKeeps
  <2>2. CASE t \in Callback
    BY <1>5, <2>2, CallbackStepKeeps, ExchangeKeeps DEF TaskStep
  <2> QED BY <2>1, <2>2
<1>6. CASE UNCHANGED oidcVars
  <2>1. UNCHANGED <<config, client, available, kept, task, redeemed, spoilt, lapsed, redisFaults>>
    BY <1>6 DEF oidcVars
  <2>2. OidcTyped' /\ KeysWait'
    BY <2>1 DEF OidcInv, OidcTyped, KeysWait
  <2>3. Requests'
    BY <2>1 DEF OidcInv, Requests, LoginRow, CallbackRow, OneRedeems, Active
  <2> QED BY <2>2, <2>3 DEF OidcInv
<1> QED BY <1>1, <1>2, <1>3, <1>4, <1>5, <1>6 DEF OidcNext

LEMMA OidcStarts == OidcInit => OidcInv
<1> SUFFICES ASSUME OidcInit
             PROVE  OidcInv
  OBVIOUS
<1>1. \A t \in Login \cup Callback : task[t] = NoLogin
  BY DEF OidcInit
<1>2. OidcTyped
  BY NoLoginRow DEF OidcInit, OidcTyped
<1>3. Requests
  BY <1>1, NoLoginRow DEF OidcInit, Requests, LoginRow, CallbackRow, OneRedeems, Active
<1>4. KeysWait
  BY <1>1, NoLoginRow DEF OidcInit, KeysWait
<1> QED BY <1>2, <1>3, <1>4 DEF OidcInv

LEMMA OidcAlways == OidcSpec => []OidcInv
<1> QED BY OidcStarts, OidcStep, PTL DEF OidcSpec

\* A login's verifier is redeemed at most once, unless two callbacks for it overlapped or
\* Redis lost the deletion (auth_oidc.py:185-194).
THEOREM VerifierRedeemedOnce == OidcSpec => []VerifierOnce
<1>1. OidcInv => VerifierOnce
  BY DEF OidcInv, Requests, OneRedeems, VerifierOnce
<1> QED BY <1>1, OidcAlways, PTL

\* A callback is turned away for lack of the verifier only if it came too late, was not the
\* only one for its login, or met a Redis or a process that failed (redis_client.py:98-125).
THEOREM LoginsAreNotLost == OidcSpec => []LoginsFinish
<1>1. OidcInv => LoginsFinish
  BY DEF OidcInv, OidcTyped, KeysWait, LoginsFinish
<1> QED BY <1>1, OidcAlways, PTL

-----------------------------------------------------------------------------
(* CaseDesk *)

CaseRow == [status : CaseStatus, dated : BOOLEAN]
OneCase == {{c} : c \in Case}

\* What a request carries: nothing, items to link, a note, or an update of the
\* row it read.
LinkRow == [pc : {"link"}, case : OneCase, read : SUBSET Item, todo : Seq(Item)]
NoteRow == [pc : {"note"}, case : OneCase, read : {{}}, todo : {<<>>}]
UpdateRow == [pc : {"update"}, case : OneCase, read : {{r} : r \in CaseRow},
              todo : {<<n>> : n \in CaseRow}]

CaseTyped ==
  /\ cases \in UNION {[C -> CaseRow] : C \in SUBSET Case}
  /\ links \in [Case -> [Item -> Nat]]
  /\ desk \in [Desk -> {NoDesk} \cup LinkRow \cup NoteRow \cup UpdateRow]
  /\ \A c \in Case \ DOMAIN cases : \A i \in Item : links[c][i] = 0

\* The only request that links items to c has each item once, and found every
\* one of them that is linked.
LinksOnce(c) ==
  /\ \A i \in Item : links[c][i] <= 1
  /\ \A d, e \in Desk : desk[d].pc = "link" /\ desk[e].pc = "link" /\ desk[d].case = {c}
                        /\ desk[e].case = {c} => d = e
  /\ \A d \in Desk : desk[d].pc = "link" /\ desk[d].case = {c} =>
       /\ IsInjective(desk[d].todo)
       /\ \A i \in Range(desk[d].todo) : links[c][i] > 0 => i \in desk[d].read

\* An update keeps or sets the date its row had when it was read, and the row
\* has it still.
KeepsDate(d, c) ==
  LET n == desk[d].todo[1]
  IN \A r \in desk[d].read :
       /\ r.dated => n.dated /\ cases[c].dated
       /\ n.status \in {"contained", "resolved"} /\ n.status # r.status => n.dated

DatesKept(c) ==
  /\ cases[c].status \in {"contained", "resolved"} => cases[c].dated
  /\ \A d \in Desk : desk[d].pc = "update" /\ desk[d].case = {c} => KeepsDate(d, c)

CaseInv ==
  /\ CaseTyped
  /\ \A c \in Case \ (overlapped \cup repeated) : LinksOnce(c)
  /\ \A c \in DOMAIN cases \ cleared : DatesKept(c)

LEMMA DeskChanges ==
  ASSUME CaseTyped, NEW d \in Desk,
         NEW k \in {NoDesk} \cup LinkRow \cup NoteRow \cup UpdateRow, Takes(d, k)
  PROVE  /\ desk' \in [Desk -> {NoDesk} \cup LinkRow \cup NoteRow \cup UpdateRow]
         /\ desk'[d] = k
         /\ \A e \in Desk : e # d => desk'[e] = desk[e]
BY DEF CaseTyped, Takes

\* What a request's phase says about its row.
LEMMA DeskRows ==
  ASSUME CaseTyped, NEW d \in Desk
  PROVE  /\ desk[d].pc = "link" => desk[d] \in LinkRow
         /\ desk[d].pc = "note" => desk[d] \in NoteRow
         /\ desk[d].pc = "update" => desk[d] \in UpdateRow
         /\ desk[d].pc \in {"idle", "link", "note", "update"}
         /\ desk[d].pc = "idle" => desk[d].case = {}
         /\ desk[d].pc # "idle" => \E c \in Case : desk[d].case = {c}
<1>1. desk[d] = NoDesk \/ desk[d] \in LinkRow \/ desk[d] \in NoteRow \/ desk[d] \in UpdateRow
  BY DEF CaseTyped
<1>2. CASE desk[d] = NoDesk
  BY <1>2 DEF NoDesk
<1>3. CASE desk[d] \in LinkRow
  BY <1>3 DEF LinkRow, OneCase
<1>4. CASE desk[d] \in NoteRow
  BY <1>4 DEF NoteRow, OneCase
<1>5. CASE desk[d] \in UpdateRow
  BY <1>5 DEF UpdateRow, OneCase
<1> QED BY <1>1, <1>2, <1>3, <1>4, <1>5

LEMMA NoDeskRow == NoDesk.pc = "idle" /\ NoDesk.case = {}
BY DEF NoDesk

LEMMA CasesRows ==
  ASSUME CaseTyped
  PROVE  DOMAIN cases \subseteq Case /\ \A c \in DOMAIN cases : cases[c] \in CaseRow
BY DEF CaseTyped

\* A request adds at most one row for an item its payload names once, and none
\* for an item it found linked or does not name.
LEMMA AddedCount ==
  ASSUME CaseTyped, NEW d \in Desk, desk[d].pc = "link", NEW i \in Item
  PROVE  /\ Added(d, i) \in Nat
         /\ Added(d, i) # 0 => i \notin desk[d].read /\ i \in Range(desk[d].todo)
         /\ IsInjective(desk[d].todo) => Added(d, i) <= 1
<1> DEFINE at == {n \in DOMAIN desk[d].todo : desk[d].todo[n] = i}
<1>1. desk[d].todo \in Seq(Item)
  BY DeskRows DEF LinkRow
<1>2. DOMAIN desk[d].todo = 1..Len(desk[d].todo) /\ Len(desk[d].todo) \in Nat
  BY <1>1
<1>3. IsFiniteSet(1..Len(desk[d].todo))
  BY <1>2, FS_Interval
<1>4. IsFiniteSet(at) /\ Cardinality(at) \in Nat
  BY <1>2, <1>3, FS_Subset, FS_CardinalityType
<1>5. at = {} => Cardinality(at) = 0
  BY FS_EmptySet
<1>6. ASSUME IsInjective(desk[d].todo), at # {}
      PROVE  Cardinality(at) = 1
  <2>1. PICK n \in at : TRUE
    BY <1>6
  <2>2. at = {n}
    BY <1>6, <2>1 DEF IsInjective
  <2> QED BY <2>2, FS_Singleton
<1>7. at # {} => i \in Range(desk[d].todo)
  BY DEF Range
<1> HIDE DEF at
<1>8. Added(d, i) = IF i \in desk[d].read THEN 0 ELSE Cardinality(at)
  BY DEF Added, at
<1> QED BY <1>4, <1>5, <1>6, <1>7, <1>8

\* What update_case computes from the row it read.
LEMMA UpdatedRow ==
  ASSUME NEW row \in CaseRow, NEW status \in {{s} : s \in CaseStatus} \cup {{}},
         NEW date \in {"sent", "null", "absent"}
  PROVE  /\ Updated(row, status, date) \in CaseRow
         /\ date # "null" /\ row.dated => Updated(row, status, date).dated
         /\ /\ Updated(row, status, date).status \in {"contained", "resolved"}
            /\ Updated(row, status, date).status # row.status
            => Updated(row, status, date).dated
<1> DEFINE dated == IF date = "sent" THEN TRUE ELSE IF date = "null" THEN FALSE ELSE row.dated
           new == IF status = {} THEN row.status ELSE CHOOSE s \in status : TRUE
<1>1. row.dated \in BOOLEAN /\ row.status \in CaseStatus
  BY DEF CaseRow
<1>2. dated \in BOOLEAN /\ (date # "null" /\ row.dated => dated)
  BY <1>1
<1>3. new \in CaseStatus /\ (new # row.status => status = {new})
  <2>1. CASE status = {}
    BY <1>1, <2>1
  <2>2. ASSUME NEW s \in CaseStatus, status = {s}
        PROVE  new = s
    BY <2>2
  <2> QED BY <2>1, <2>2
<1>4. Closes(status) \in BOOLEAN /\ \A s \in {"contained", "resolved"} : status = {s} => Closes(status)
  BY DEF Closes
<1>5. Updated(row, status, date) = [status |-> new, dated |-> dated \/ Closes(status)]
  BY DEF Updated
<1> HIDE DEF dated, new
<1>6. (dated \/ Closes(status)) \in BOOLEAN
  BY <1>2, <1>4
<1>7. Updated(row, status, date) \in CaseRow
  BY <1>3, <1>5, <1>6 DEF CaseRow
<1>8. Updated(row, status, date).status = new /\ Updated(row, status, date).dated = (dated \/ Closes(status))
  BY <1>5
<1> QED BY <1>2, <1>3, <1>4, <1>7, <1>8

LEMMA LinksStay ==
  ASSUME NEW c \in Case, LinksOnce(c), links'[c] = links[c],
         \A d \in Desk : desk'[d].pc = "link" /\ desk'[d].case = {c} => desk'[d] = desk[d]
  PROVE  LinksOnce(c)'
BY DEF LinksOnce

LEMMA DatesStay ==
  ASSUME NEW c, DatesKept(c), cases'[c] = cases[c],
         \A d \in Desk : desk'[d].pc = "update" /\ desk'[d].case = {c} => desk'[d] = desk[d]
  PROVE  DatesKept(c)'
BY DEF DatesKept, KeepsDate

LEMMA CreateCaseKeeps ==
  ASSUME CaseInv, NEW c \in Case, CreateCase(c)
  PROVE  CaseInv'
<1>1. /\ c \notin DOMAIN cases /\ \A d \in Desk : c \notin desk[d].case
      /\ cases' = [e \in DOMAIN cases \cup {c} |-> IF e = c THEN NewCase ELSE cases[e]]
      /\ overlapped' = overlapped \ {c} /\ repeated' = repeated \ {c} /\ cleared' = cleared \ {c}
      /\ UNCHANGED <<links, desk>>
  BY DEF CreateCase
<1>2. NewCase \in CaseRow /\ NewCase.status = "open"
  BY DEF NewCase, CaseRow, CaseStatus
<1>3. PICK C \in SUBSET Case : cases \in [C -> CaseRow]
  BY DEF CaseInv, CaseTyped
<1>4. cases' \in [C \cup {c} -> CaseRow] /\ C \cup {c} \in SUBSET Case
  BY <1>1, <1>2, <1>3
<1>5. cases' \in UNION {[D -> CaseRow] : D \in SUBSET Case} /\ DOMAIN cases' = DOMAIN cases \cup {c}
  BY <1>3, <1>4
<1>6. CaseTyped'
  BY <1>1, <1>5 DEF CaseInv, CaseTyped
<1>7. ASSUME NEW e \in Case \ (overlapped' \cup repeated')
      PROVE  LinksOnce(e)'
  <2>1. CASE e # c
    BY <1>1, <1>7, <2>1, LinksStay DEF CaseInv
  <2>2. CASE e = c
    <3>1. \A i \in Item : links'[e][i] = 0
      BY <1>1, <2>2 DEF CaseInv, CaseTyped
    <3>2. \A d \in Desk : desk'[d].case # {e}
      BY <1>1, <2>2
    <3> QED BY <3>1, <3>2 DEF LinksOnce
  <2> QED BY <2>1, <2>2
<1>8. ASSUME NEW e \in DOMAIN cases' \ cleared'
      PROVE  DatesKept(e)'
  <2>1. CASE e # c
    <3>1. e \in DOMAIN cases \ cleared /\ cases'[e] = cases[e]
      BY <1>1, <1>5, <1>8, <2>1
    <3> QED BY <1>1, <3>1, DatesStay DEF CaseInv
  <2>2. CASE e = c
    <3>1. cases'[e].status = "open"
      BY <1>1, <1>2, <2>2
    <3>2. \A d \in Desk : desk'[d].case # {e}
      BY <1>1, <2>2
    <3> QED BY <3>1, <3>2 DEF DatesKept
  <2> QED BY <2>1, <2>2
<1> QED BY <1>6, <1>7, <1>8 DEF CaseInv

LEMMA DeleteCaseKeeps ==
  ASSUME CaseInv, NEW c \in Case, DeleteCase(c)
  PROVE  CaseInv'
<1>1. /\ cases' = [e \in DOMAIN cases \ {c} |-> cases[e]]
      /\ links' = [links EXCEPT ![c] = [i \in Item |-> 0]]
      /\ UNCHANGED <<desk, overlapped, repeated, cleared>>
  BY DEF DeleteCase, Restrict
<1>2. PICK C \in SUBSET Case : cases \in [C -> CaseRow]
  BY DEF CaseInv, CaseTyped
<1>3. cases' \in [C \ {c} -> CaseRow] /\ C \ {c} \in SUBSET Case
  BY <1>1, <1>2
<1>4. cases' \in UNION {[D -> CaseRow] : D \in SUBSET Case} /\ DOMAIN cases' = DOMAIN cases \ {c}
  BY <1>2, <1>3
<1>5. /\ links' \in [Case -> [Item -> Nat]] /\ links'[c] = [i \in Item |-> 0]
      /\ \A e \in Case : e # c => links'[e] = links[e]
  BY <1>1 DEF CaseInv, CaseTyped
<1>6. CaseTyped'
  <2>1. ASSUME NEW e \in Case \ DOMAIN cases', NEW i \in Item
        PROVE  links'[e][i] = 0
    <3>1. CASE e = c
      BY <1>5, <3>1
    <3>2. CASE e # c
      BY <1>4, <1>5, <2>1, <3>2 DEF CaseInv, CaseTyped
    <3> QED BY <3>1, <3>2
  <2> QED BY <1>1, <1>4, <1>5, <2>1 DEF CaseInv, CaseTyped
<1>7. ASSUME NEW e \in Case \ (overlapped \cup repeated)
      PROVE  LinksOnce(e)'
  <2>1. CASE e # c
    BY <1>1, <1>5, <2>1, LinksStay DEF CaseInv
  <2>2. CASE e = c
    <3>1. \A i \in Item : links'[e][i] = 0
      BY <1>5, <2>2
    <3>2. \A d \in Desk : desk[d].pc = "link" => \A i \in Range(desk[d].todo) : i \in Item
      BY DeskRows DEF CaseInv, LinkRow, Range
    <3> QED BY <1>1, <3>1, <3>2 DEF CaseInv, LinksOnce
  <2> QED BY <2>1, <2>2
<1>8. ASSUME NEW e \in DOMAIN cases' \ cleared
      PROVE  DatesKept(e)'
  <2>1. e \in DOMAIN cases \ cleared /\ cases'[e] = cases[e]
    BY <1>1, <1>4, <1>8
  <2> QED BY <1>1, <2>1, DatesStay DEF CaseInv
<1> QED BY <1>1, <1>6, <1>7, <1>8 DEF CaseInv

LEMMA ReadLinksKeeps ==
  ASSUME CaseInv, NEW d \in Desk, ReadLinks(d)
  PROVE  CaseInv'
<1>1. PICK c \in DOMAIN cases, payload \in Payload :
        /\ Takes(d, [pc |-> "link", case |-> {c}, read |-> Linked(c, payload), todo |-> payload])
        /\ overlapped' = IF \E e \in Desk : desk[e].pc = "link" /\ c \in desk[e].case
                         THEN overlapped \cup {c} ELSE overlapped
        /\ repeated' = IF IsInjective(payload) THEN repeated ELSE repeated \cup {c}
  BY DEF ReadLinks
<1> DEFINE k == [pc |-> "link", case |-> {c}, read |-> Linked(c, payload), todo |-> payload]
<1>2. c \in Case /\ payload \in Seq(Item) /\ desk[d].pc = "idle" /\ UNCHANGED <<cases, links, cleared>>
  BY CasesRows, CaseAssumption DEF ReadLinks, CaseInv
<1>3. Linked(c, payload) \subseteq Item
  BY <1>2 DEF Linked, Range
<1>4. k \in LinkRow /\ k.pc = "link" /\ k.case = {c} /\ k.todo = payload /\ k.read = Linked(c, payload)
  BY <1>2, <1>3 DEF LinkRow, OneCase
<1> HIDE DEF k
<1>5. Takes(d, k)
  BY <1>1 DEF k
<1>6. /\ desk' \in [Desk -> {NoDesk} \cup LinkRow \cup NoteRow \cup UpdateRow]
      /\ desk'[d] = k /\ \A e \in Desk : e # d => desk'[e] = desk[e]
  BY <1>4, <1>5, DeskChanges DEF CaseInv
<1>7. CaseTyped'
  BY <1>2, <1>6 DEF CaseInv, CaseTyped
<1>8. ASSUME NEW b \in Case \ (overlapped' \cup repeated')
      PROVE  LinksOnce(b)'
  <2>1. LinksOnce(b)
    BY <1>1, <1>8 DEF CaseInv
  <2>2. CASE b # c
    <3>1. \A e \in Desk : desk'[e].pc = "link" /\ desk'[e].case = {b} => desk'[e] = desk[e]
      BY <1>4, <1>6, <2>2
    <3> QED BY <1>2, <2>1, <3>1, LinksStay
  <2>3. CASE b = c
    <3>1. IsInjective(payload) /\ \A e \in Desk : ~ (desk[e].pc = "link" /\ desk[e].case = {c})
      BY <1>1, <1>8, <2>3
    <3>2. \A e \in Desk : desk'[e].pc = "link" /\ desk'[e].case = {c} => e = d
      BY <1>6, <3>1
    <3>3. \A i \in Range(payload) : links[c][i] > 0 => i \in k.read
      BY <1>4 DEF Linked
    <3> QED BY <1>2, <1>4, <1>6, <2>1, <2>3, <3>1, <3>2, <3>3 DEF LinksOnce
  <2> QED BY <2>2, <2>3
<1>9. ASSUME NEW b \in DOMAIN cases \ cleared
      PROVE  DatesKept(b)'
  BY <1>2, <1>4, <1>6, DatesStay DEF CaseInv
<1> QED BY <1>2, <1>7, <1>8, <1>9 DEF CaseInv

LEMMA WriteLinksKeeps ==
  ASSUME CaseInv, NEW d \in Desk, WriteLinks(d)
  PROVE  CaseInv'
<1>1. PICK c \in Case : desk[d].case = {c}
  BY DeskRows DEF WriteLinks, CaseInv
<1>2. /\ desk[d].pc = "link" /\ c \in DOMAIN cases /\ Takes(d, NoDesk)
      /\ UNCHANGED <<cases, overlapped, repeated, cleared>>
  BY <1>1 DEF WriteLinks
<1>3. /\ desk' \in [Desk -> {NoDesk} \cup LinkRow \cup NoteRow \cup UpdateRow]
      /\ desk'[d] = NoDesk /\ \A e \in Desk : e # d => desk'[e] = desk[e]
  BY <1>2, DeskChanges DEF CaseInv
<1>4. \A i \in Item : Added(d, i) \in Nat
  BY <1>2, AddedCount DEF CaseInv
<1>5. /\ links' \in [Case -> [Item -> Nat]]
      /\ \A i \in Item : links'[c][i] = links[c][i] + Added(d, i)
      /\ \A b \in Case : b # c => links'[b] = links[b]
  BY <1>1, <1>4 DEF WriteLinks, CaseInv, CaseTyped
<1>6. CaseTyped'
  BY <1>2, <1>3, <1>5 DEF CaseInv, CaseTyped
<1>7. ASSUME NEW b \in Case \ (overlapped \cup repeated)
      PROVE  LinksOnce(b)'
  <2>1. LinksOnce(b)
    BY <1>7 DEF CaseInv
  <2>2. CASE b # c
    BY <1>3, <1>5, <2>1, <2>2, LinksStay, NoDeskRow
  <2>3. CASE b = c
    <3>1. \A e \in Desk : ~ (desk'[e].pc = "link" /\ desk'[e].case = {b})
      BY <1>1, <1>2, <1>3, <2>1, <2>3, NoDeskRow DEF LinksOnce
    <3>2. ASSUME NEW i \in Item
          PROVE  links'[b][i] <= 1
      <4>1. links[c][i] \in Nat /\ links[c][i] <= 1
        BY <2>1, <2>3 DEF LinksOnce, CaseInv, CaseTyped
      <4>2. Added(d, i) <= 1 /\ (Added(d, i) # 0 => ~ links[c][i] > 0)
        BY <1>1, <1>2, <2>1, <2>3, AddedCount DEF LinksOnce, CaseInv
      <4>3. Added(d, i) \in Nat /\ links'[b][i] = links[c][i] + Added(d, i)
        BY <1>4, <1>5, <2>3
      <4> QED BY <4>1, <4>2, <4>3
    <3> QED BY <3>1, <3>2 DEF LinksOnce
  <2> QED BY <2>2, <2>3
<1>8. ASSUME NEW b \in DOMAIN cases \ cleared
      PROVE  DatesKept(b)'
  BY <1>2, <1>3, DatesStay, NoDeskRow DEF CaseInv
<1> QED BY <1>2, <1>6, <1>7, <1>8 DEF CaseInv

\* A request that reads or writes a note, or ends, leaves cases and links alone.
LEMMA DeskOnlyKeeps ==
  ASSUME CaseInv, NEW d \in Desk, NEW k \in {NoDesk} \cup NoteRow, Takes(d, k),
         UNCHANGED <<cases, links, overlapped, repeated, cleared>>
  PROVE  CaseInv'
<1>1. /\ desk' \in [Desk -> {NoDesk} \cup LinkRow \cup NoteRow \cup UpdateRow]
      /\ desk'[d] = k /\ \A e \in Desk : e # d => desk'[e] = desk[e]
  BY DeskChanges DEF CaseInv
<1>2. k.pc \in {"idle", "note"}
  BY NoDeskRow DEF NoteRow
<1>3. CaseTyped'
  BY <1>1 DEF CaseInv, CaseTyped
<1>4. ASSUME NEW c \in Case \ (overlapped \cup repeated)
      PROVE  LinksOnce(c)'
  BY <1>1, <1>2, LinksStay DEF CaseInv
<1>5. ASSUME NEW c \in DOMAIN cases \ cleared
      PROVE  DatesKept(c)'
  BY <1>1, <1>2, DatesStay DEF CaseInv
<1> QED BY <1>3, <1>4, <1>5 DEF CaseInv

LEMMA ReadUpdateKeeps ==
  ASSUME CaseInv, NEW d \in Desk, ReadUpdate(d)
  PROVE  CaseInv'
<1>1. PICK c \in DOMAIN cases, status \in {{s} : s \in CaseStatus} \cup {{}},
           date \in {"sent", "null", "absent"} :
        /\ Takes(d, [pc |-> "update", case |-> {c}, read |-> {cases[c]},
                     todo |-> <<Updated(cases[c], status, date)>>])
        /\ cleared' = IF date = "null" THEN cleared \cup {c} ELSE cleared
  BY DEF ReadUpdate
<1> DEFINE n == Updated(cases[c], status, date)
           k == [pc |-> "update", case |-> {c}, read |-> {cases[c]}, todo |-> <<n>>]
<1>2. c \in Case /\ cases[c] \in CaseRow /\ UNCHANGED <<cases, links, overlapped, repeated>>
  BY CasesRows DEF ReadUpdate, CaseInv
<1>3. /\ n \in CaseRow /\ (date # "null" /\ cases[c].dated => n.dated)
      /\ n.status \in {"contained", "resolved"} /\ n.status # cases[c].status => n.dated
  BY <1>2, UpdatedRow
<1> HIDE DEF n
<1>4. /\ k \in UpdateRow /\ k.pc = "update" /\ k.case = {c} /\ k.read = {cases[c]}
      /\ k.todo = <<n>>
  BY <1>2, <1>3 DEF UpdateRow, OneCase
<1>5. k.todo[1] = n
  BY <1>4
<1>6. Takes(d, k)
  BY <1>1 DEF n
<1> HIDE DEF k
<1>7. /\ desk' \in [Desk -> {NoDesk} \cup LinkRow \cup NoteRow \cup UpdateRow]
      /\ desk'[d] = k /\ \A e \in Desk : e # d => desk'[e] = desk[e]
  BY <1>4, <1>6, DeskChanges DEF CaseInv
<1>8. CaseTyped'
  BY <1>2, <1>7 DEF CaseInv, CaseTyped
<1>9. ASSUME NEW b \in Case \ (overlapped \cup repeated)
      PROVE  LinksOnce(b)'
  BY <1>2, <1>4, <1>7, LinksStay DEF CaseInv
<1>10. ASSUME NEW b \in DOMAIN cases \ cleared'
       PROVE  DatesKept(b)'
  <2>1. DatesKept(b)
    BY <1>1, <1>10 DEF CaseInv
  <2>2. CASE b # c
    <3>1. \A e \in Desk : desk'[e].pc = "update" /\ desk'[e].case = {b} => desk'[e] = desk[e]
      BY <1>4, <1>7, <2>2
    <3> QED BY <1>2, <2>1, <3>1, DatesStay
  <2>3. CASE b = c
    <3>1. date # "null"
      BY <1>1, <1>10, <2>3
    <3>2. KeepsDate(d, c)'
      BY <1>2, <1>3, <1>4, <1>5, <1>7, <3>1 DEF KeepsDate
    <3>3. \A e \in Desk : e # d /\ desk[e].pc = "update" /\ desk[e].case = {c} => KeepsDate(e, c)'
      BY <1>2, <1>7, <2>1, <2>3 DEF DatesKept, KeepsDate
    <3> QED BY <1>2, <1>7, <2>1, <2>3, <3>2, <3>3 DEF DatesKept
  <2> QED BY <2>2, <2>3
<1> QED BY <1>2, <1>8, <1>9, <1>10 DEF CaseInv

LEMMA WriteUpdateKeeps ==
  ASSUME CaseInv, NEW d \in Desk, WriteUpdate(d)
  PROVE  CaseInv'
<1>1. PICK c \in desk[d].case, read \in desk[d].read :
        cases' = [cases EXCEPT ![c] = [status |-> Column(@.status, read.status, desk[d].todo[1].status),
                                       dated |-> Column(@.dated, read.dated, desk[d].todo[1].dated)]]
  BY DEF WriteUpdate
<1> DEFINE n == desk[d].todo[1]
           row == [status |-> Column(cases[c].status, read.status, n.status),
                   dated |-> Column(cases[c].dated, read.dated, n.dated)]
<1>2. /\ desk[d].pc = "update" /\ c \in DOMAIN cases /\ Takes(d, NoDesk)
      /\ UNCHANGED <<links, overlapped, repeated, cleared>>
  BY <1>1 DEF WriteUpdate
<1>3. /\ c \in Case /\ desk[d].case = {c} /\ read \in CaseRow /\ n \in CaseRow
      /\ cases[c] \in CaseRow
  BY <1>1, <1>2, DeskRows, CasesRows DEF CaseInv, UpdateRow
<1> HIDE DEF n
<1>4. /\ row.status = IF n.status = read.status THEN cases[c].status ELSE n.status
      /\ row.dated = IF n.dated = read.dated THEN cases[c].dated ELSE n.dated
      /\ row \in CaseRow
  BY <1>3 DEF Column, CaseRow
<1>5. cases' = [cases EXCEPT ![c] = row]
  BY <1>1 DEF n
<1> HIDE DEF row
<1>6. PICK C \in SUBSET Case : cases \in [C -> CaseRow]
  BY DEF CaseInv, CaseTyped
<1>7. /\ cases' \in [C -> CaseRow] /\ DOMAIN cases' = DOMAIN cases /\ cases'[c] = row
      /\ \A e \in DOMAIN cases : e # c => cases'[e] = cases[e]
  BY <1>2, <1>4, <1>5, <1>6
<1>8. cases' \in UNION {[D -> CaseRow] : D \in SUBSET Case}
  BY <1>7
<1>9. /\ desk' \in [Desk -> {NoDesk} \cup LinkRow \cup NoteRow \cup UpdateRow]
      /\ desk'[d] = NoDesk /\ \A e \in Desk : e # d => desk'[e] = desk[e]
  BY <1>2, DeskChanges DEF CaseInv
<1>10. CaseTyped'
  BY <1>2, <1>7, <1>8, <1>9 DEF CaseInv, CaseTyped
<1>11. ASSUME NEW b \in Case \ (overlapped \cup repeated)
       PROVE  LinksOnce(b)'
  BY <1>2, <1>9, LinksStay, NoDeskRow DEF CaseInv
<1>12. ASSUME NEW b \in DOMAIN cases \ cleared
       PROVE  DatesKept(b)'
  <2>1. DatesKept(b)
    BY <1>12 DEF CaseInv
  <2>2. CASE b # c
    BY <1>7, <1>9, <1>12, <2>1, <2>2, DatesStay, NoDeskRow
  <2>3. CASE b = c
    <3>1. /\ read.dated => n.dated /\ cases[c].dated
          /\ n.status \in {"contained", "resolved"} /\ n.status # read.status => n.dated
      BY <1>1, <1>2, <1>3, <2>1, <2>3 DEF DatesKept, KeepsDate, n
    <3>2. /\ cases[c].status \in {"contained", "resolved"} => cases[c].dated
          /\ cases[c].dated \in BOOLEAN /\ read.dated \in BOOLEAN /\ n.dated \in BOOLEAN
      BY <1>3, <2>1, <2>3 DEF DatesKept, CaseRow
    <3>3. (cases[c].dated => row.dated) /\ (n.dated => row.dated)
      BY <1>4, <3>1, <3>2
    <3>4. row.status \in {"contained", "resolved"} => row.dated
      BY <1>4, <3>1, <3>2, <3>3
    <3>5. \A e \in Desk : desk'[e].pc = "update" /\ desk'[e].case = {c} =>
            e # d /\ desk'[e] = desk[e] /\ KeepsDate(e, c)
      BY <1>9, <2>1, <2>3, NoDeskRow DEF DatesKept
    <3>6. \A e \in Desk : desk'[e].pc = "update" /\ desk'[e].case = {c} => KeepsDate(e, c)'
      BY <1>7, <3>3, <3>5 DEF KeepsDate
    <3> QED BY <1>7, <2>3, <3>4, <3>6 DEF DatesKept
  <2> QED BY <2>2, <2>3
<1> QED BY <1>2, <1>7, <1>10, <1>11, <1>12 DEF CaseInv

LEMMA CaseStep == CaseInv /\ [CaseNext]_caseVars => CaseInv'
<1> SUFFICES ASSUME CaseInv, [CaseNext]_caseVars
             PROVE  CaseInv'
  OBVIOUS
<1>1. ASSUME NEW c \in Case, CreateCase(c)
      PROVE  CaseInv'
  BY <1>1, CreateCaseKeeps
<1>2. ASSUME NEW c \in Case, DeleteCase(c)
      PROVE  CaseInv'
  BY <1>2, DeleteCaseKeeps
<1>3. CASE UNCHANGED <<cases, links, desk, overlapped, repeated, cleared>>
  <2>1. CaseTyped'
    BY <1>3 DEF CaseInv, CaseTyped
  <2>2. \A c \in Case \ (overlapped \cup repeated) : LinksOnce(c)'
    BY <1>3, LinksStay DEF CaseInv
  <2>3. \A c \in DOMAIN cases \ cleared : DatesKept(c)'
    BY <1>3, DatesStay DEF CaseInv
  <2> QED BY <1>3, <2>1, <2>2, <2>3 DEF CaseInv
<1>4. ASSUME NEW d \in Desk, ReadLinks(d) \/ WriteLinks(d) \/ ReadUpdate(d) \/ WriteUpdate(d)
      PROVE  CaseInv'
  BY <1>4, ReadLinksKeeps, WriteLinksKeeps, ReadUpdateKeeps, WriteUpdateKeeps
<1>5. ASSUME NEW d \in Desk, ReadCase(d)
      PROVE  CaseInv'
  <2>1. PICK c \in DOMAIN cases : Takes(d, [NoDesk EXCEPT !.pc = "note", !.case = {c}])
    BY <1>5 DEF ReadCase
  <2>2. c \in Case
    BY CasesRows DEF CaseInv
  <2>3. [NoDesk EXCEPT !.pc = "note", !.case = {c}] \in NoteRow
    BY <2>2 DEF NoDesk, NoteRow, OneCase
  <2>4. UNCHANGED <<cases, links, overlapped, repeated, cleared>>
    BY <1>5 DEF ReadCase
  <2> QED BY <2>1, <2>3, <2>4, DeskOnlyKeeps
<1>6. ASSUME NEW d \in Desk, WriteNote(d) \/ CaseGone(d)
      PROVE  CaseInv'
  <2>1. Takes(d, NoDesk) /\ UNCHANGED <<cases, links, overlapped, repeated, cleared>>
    BY <1>6 DEF WriteNote, CaseGone
  <2> QED BY <2>1, DeskOnlyKeeps
<1>7. ASSUME NEW c \in Case, NEW n \in Note, DeleteNote(c, n)
      PROVE  CaseInv'
  BY <1>3, <1>7 DEF DeleteNote
<1>8. CASE UNCHANGED caseVars
  BY <1>3, <1>8 DEF caseVars
<1> QED BY <1>1, <1>2, <1>4, <1>5, <1>6, <1>7, <1>8 DEF CaseNext

LEMMA CaseStarts == CaseInit => CaseInv
<1> SUFFICES ASSUME CaseInit
             PROVE  CaseInv
  OBVIOUS
<1>1. <<>> \in [{} -> CaseRow] /\ {} \in SUBSET Case /\ DOMAIN <<>> = {}
  OBVIOUS
<1>2. cases \in UNION {[C -> CaseRow] : C \in SUBSET Case} /\ DOMAIN cases = {}
  BY <1>1 DEF CaseInit
<1>3. \A d \in Desk : desk[d].pc = "idle" /\ desk[d].case = {}
  BY NoDeskRow DEF CaseInit
<1>4. CaseTyped
  BY <1>2 DEF CaseInit, CaseTyped
<1>5. \A c \in Case : LinksOnce(c)
  BY <1>3 DEF CaseInit, LinksOnce
<1> QED BY <1>2, <1>4, <1>5 DEF CaseInv

LEMMA CaseAlways == CaseSpec => []CaseInv
<1> QED BY CaseStarts, CaseStep, PTL DEF CaseSpec

\* An item is linked to a case at most once, unless two requests worked on the case at once
\* or one of them named it twice (cases.py:172-190, 206-223).
THEOREM ItemsAreLinkedOnce == CaseSpec => []LinkedOnce
<1>1. CaseInv => LinkedOnce
  BY DEF CaseInv, LinksOnce, LinkedOnce
<1> QED BY <1>1, CaseAlways, PTL

\* A case that is contained or resolved has a closing date, however updates of stale rows
\* interleave, unless a client sent null for it (cases.py:135-141).
THEOREM ClosedCasesAreDated == CaseSpec => []ClosedIsDated
<1>1. CaseInv => ClosedIsDated
  BY DEF CaseInv, DatesKept, ClosedIsDated
<1> QED BY <1>1, CaseAlways, PTL

-----------------------------------------------------------------------------
(* NetworkScanner *)

HostRow == [up : BOOLEAN, asset : AssetId \cup {NoAsset}]
ScanRow == [status : {"queued", "running"} \cup Ended, scanned : Nat, up : Nat]
ScanTaskRow ==
  [pc : {"none", "create", "start", "next", "record", "ended"}, todo : SUBSET Ip,
   ip : SUBSET Ip, up : BOOLEAN, asset : AssetId \cup {NoAsset}]

ScannerTyped ==
  /\ scans \in UNION {[S -> ScanRow] : S \in SUBSET Scan}
  /\ hostRows \in [Scan -> UNION {[I -> HostRow] : I \in SUBSET Ip}]
  /\ scanTask \in [Scan -> ScanTaskRow]
  /\ DOMAIN assets \subseteq AssetId

\* The targets a task has still to record are those without a row: that is why a row is
\* counted when it is recorded, once, and why none is missing when nothing is left.
TargetsLeft(s) ==
  LET k == scanTask[s]
  IN /\ s \notin DOMAIN scans => k.pc = "none"
     /\ k.pc \in {"none", "create", "start"} => DOMAIN hostRows[s] = {}
     /\ k.pc = "next" => DOMAIN hostRows[s] = Ip \ k.todo
     /\ k.pc = "record" => \E i \in Ip : /\ k.ip = {i} /\ i \notin k.todo
                                         /\ DOMAIN hostRows[s] = Ip \ (k.todo \cup {i})

UpRows(rows) == {ip \in DOMAIN rows : rows[ip].up}
RowsCounted(s) ==
  /\ IsFiniteSet(DOMAIN hostRows[s])
  /\ s \in DOMAIN scans =>
       /\ scans[s].scanned = Cardinality(DOMAIN hostRows[s])
       /\ scans[s].up = Cardinality(UpRows(hostRows[s]))
       /\ scans[s].status = "completed" => DOMAIN hostRows[s] = Ip

ScannerInv == ScannerTyped /\ \A s \in Scan : TargetsLeft(s) /\ RowsCounted(s)

\* What a step leaves alone, or changes without touching counters and rows.
LEMMA ScanStays ==
  ASSUME NEW s \in Scan, TargetsLeft(s), RowsCounted(s),
         scanTask'[s] = scanTask[s], hostRows'[s] = hostRows[s],
         s \in DOMAIN scans' <=> s \in DOMAIN scans,
         s \in DOMAIN scans => scans'[s] = scans[s]
  PROVE  TargetsLeft(s)' /\ RowsCounted(s)'
BY DEF TargetsLeft, RowsCounted, UpRows

LEMMA TaskChanges ==
  ASSUME ScannerInv, NEW s \in Scan, NEW k \in ScanTaskRow, Tasked(s, k)
  PROVE  /\ scanTask' \in [Scan -> ScanTaskRow] /\ scanTask'[s] = k
         /\ \A r \in Scan : r # s => scanTask'[r] = scanTask[r]
BY DEF ScannerInv, ScannerTyped, Tasked

LEMMA StatusChanges ==
  ASSUME ScannerInv, NEW s \in DOMAIN scans, NEW st \in {"queued", "running"} \cup Ended,
         Status(s, st)
  PROVE  /\ scans' \in UNION {[S -> ScanRow] : S \in SUBSET Scan}
         /\ DOMAIN scans' = DOMAIN scans
         /\ scans'[s].status = st /\ scans'[s].scanned = scans[s].scanned
         /\ scans'[s].up = scans[s].up
         /\ \A r \in DOMAIN scans : r # s => scans'[r] = scans[r]
<1>1. PICK S \in SUBSET Scan : scans \in [S -> ScanRow]
  BY DEF ScannerInv, ScannerTyped
<1>2. DOMAIN scans = S /\ scans[s] \in ScanRow
  BY <1>1
<1>3. scans' = [scans EXCEPT ![s] = [scans[s] EXCEPT !.status = st]]
  BY DEF Status
<1> DEFINE row == [scans[s] EXCEPT !.status = st]
<1>4. /\ row \in ScanRow /\ row.status = st /\ row.scanned = scans[s].scanned
      /\ row.up = scans[s].up
  BY <1>2 DEF ScanRow
<1> HIDE DEF row
<1>5. scans' = [scans EXCEPT ![s] = row]
  BY <1>3 DEF row
<1>6. scans' \in [S -> ScanRow] /\ scans'[s] = row
  BY <1>1, <1>2, <1>4, <1>5
<1> QED BY <1>1, <1>2, <1>4, <1>5, <1>6

LEMMA FreshTask ==
  ASSUME NEW pc \in {"create", "start", "ended", "none"}
  PROVE  [NoTask EXCEPT !.pc = pc] \in ScanTaskRow /\ [NoTask EXCEPT !.pc = pc].pc = pc
BY DEF NoTask, ScanTaskRow

\* A task that changes nothing but itself and, where it has one, its row's status.
LEMMA TaskKeeps ==
  ASSUME ScannerInv, NEW s \in Scan, NEW k \in ScanTaskRow, Tasked(s, k),
         UNCHANGED <<inventoryVars, hostRows>>,
         scans' \in UNION {[S -> ScanRow] : S \in SUBSET Scan},
         \A r \in Scan : r # s => /\ r \in DOMAIN scans' <=> r \in DOMAIN scans
                                  /\ r \in DOMAIN scans => scans'[r] = scans[r],
         TargetsLeft(s)', RowsCounted(s)'
  PROVE  ScannerInv'
<1>1. /\ scanTask' \in [Scan -> ScanTaskRow] /\ scanTask'[s] = k
      /\ \A r \in Scan : r # s => scanTask'[r] = scanTask[r]
  BY TaskChanges
<1>2. \A r \in Scan : r # s => TargetsLeft(r)' /\ RowsCounted(r)'
  BY <1>1, ScanStays DEF ScannerInv
<1> QED BY <1>1, <1>2 DEF ScannerInv, ScannerTyped, inventoryVars

LEMMA CreateScanKeeps ==
  ASSUME ScannerInv, NEW s \in Scan, CreateScan(s)
  PROVE  ScannerInv'
<1> DEFINE row == [status |-> "queued", scanned |-> 0, up |-> 0]
           k == [NoTask EXCEPT !.pc = "create"]
<1>1. k \in ScanTaskRow /\ k.pc = "create" /\ Tasked(s, k) /\ row \in ScanRow
  BY FreshTask DEF CreateScan, ScanRow
<1>2. PICK S \in SUBSET Scan : scans \in [S -> ScanRow]
  BY DEF ScannerInv, ScannerTyped
<1>3. scans' = [r \in S \cup {s} |-> IF r = s THEN row ELSE scans[r]]
  BY <1>2 DEF CreateScan
<1>4. scans' \in [S \cup {s} -> ScanRow]
  BY <1>1, <1>2, <1>3
<1> HIDE DEF k
<1>5. scanTask'[s] = k /\ DOMAIN hostRows'[s] = {} /\ hostRows' = hostRows
  BY <1>1, TaskChanges DEF CreateScan, ScannerInv, TargetsLeft
<1>6. s \in DOMAIN scans' /\ scans'[s] = row
  BY <1>3
<1>7. UpRows(hostRows'[s]) = {} /\ Cardinality({}) = 0 /\ IsFiniteSet({})
  BY <1>5, FS_EmptySet DEF UpRows
<1>8. TargetsLeft(s)'
  BY <1>1, <1>5, <1>6 DEF TargetsLeft
<1>9. RowsCounted(s)'
  BY <1>5, <1>6, <1>7 DEF RowsCounted, UpRows
<1>10. \A r \in Scan : r # s => /\ r \in DOMAIN scans' <=> r \in DOMAIN scans
                                /\ r \in DOMAIN scans => scans'[r] = scans[r]
  BY <1>2, <1>3
<1> QED BY <1>1, <1>4, <1>8, <1>9, <1>10, TaskKeeps DEF CreateScan

LEMMA StartKeeps ==
  ASSUME ScannerInv, NEW s \in Scan, StartBackgroundScan(s)
  PROVE  ScannerInv'
<1> DEFINE k == [NoTask EXCEPT !.pc = "start"]
<1>1. k \in ScanTaskRow /\ k.pc = "start" /\ Tasked(s, k)
  BY FreshTask DEF StartBackgroundScan
<1> HIDE DEF k
<1>2. /\ scanTask'[s] = k /\ hostRows' = hostRows /\ scans' = scans /\ scanTask[s].pc = "create"
  BY <1>1, TaskChanges DEF StartBackgroundScan
<1>3. TargetsLeft(s)' /\ RowsCounted(s)'
  BY <1>1, <1>2 DEF ScannerInv, TargetsLeft, RowsCounted, UpRows
<1> QED BY <1>1, <1>2, <1>3, TaskKeeps DEF StartBackgroundScan, ScannerInv, ScannerTyped

LEMMA BeginScanKeeps ==
  ASSUME ScannerInv, NEW s \in Scan, BeginScan(s)
  PROVE  ScannerInv'
<1> DEFINE k == [NoTask EXCEPT !.pc = "next", !.todo = Ip]
<1>1. k \in ScanTaskRow /\ k.pc = "next" /\ k.todo = Ip /\ Tasked(s, k)
  BY DEF BeginScan, NoTask, ScanTaskRow
<1> HIDE DEF k
<1>2. /\ scanTask'[s] = k /\ hostRows' = hostRows /\ scanTask[s].pc = "start"
  BY <1>1, TaskChanges DEF BeginScan
<1>3. s \in DOMAIN scans /\ TargetsLeft(s) /\ RowsCounted(s)
  BY <1>2 DEF ScannerInv, TargetsLeft
<1>4. /\ scans' \in UNION {[S -> ScanRow] : S \in SUBSET Scan} /\ DOMAIN scans' = DOMAIN scans
      /\ scans'[s].status = "running" /\ scans'[s].scanned = scans[s].scanned
      /\ scans'[s].up = scans[s].up /\ \A r \in DOMAIN scans : r # s => scans'[r] = scans[r]
  BY <1>3, StatusChanges DEF BeginScan
<1>5. TargetsLeft(s)' /\ RowsCounted(s)'
  BY <1>1, <1>2, <1>3, <1>4 DEF TargetsLeft, RowsCounted, UpRows
<1> QED BY <1>1, <1>4, <1>5, TaskKeeps DEF BeginScan

LEMMA ScanHostKeeps ==
  ASSUME ScannerInv, NEW s \in Scan, ScanHost(s)
  PROVE  ScannerInv'
<1>1. PICK ip \in scanTask[s].todo, up \in BOOLEAN :
        Tasked(s, [pc |-> "record", todo |-> scanTask[s].todo \ {ip}, ip |-> {ip}, up |-> up,
                   asset |-> LET found == IF up THEN Named(NameOf[ip]) ELSE {}
                             IN IF found = {} THEN NoAsset ELSE CHOOSE a \in found : TRUE])
  BY DEF ScanHost
<1> DEFINE found == IF up THEN Named(NameOf[ip]) ELSE {}
           asset == IF found = {} THEN NoAsset ELSE CHOOSE a \in found : TRUE
           k == [pc |-> "record", todo |-> scanTask[s].todo \ {ip}, ip |-> {ip}, up |-> up,
                 asset |-> asset]
<1>2. asset \in AssetId \cup {NoAsset}
  <2>1. found \subseteq AssetId
    BY DEF Named, ScannerInv, ScannerTyped
  <2> HIDE DEF found
  <2> QED BY <2>1
<1>3. Tasked(s, k)
  BY <1>1
<1> HIDE DEF asset
<1>4. scanTask[s] \in ScanTaskRow /\ scanTask[s].pc = "next"
  BY DEF ScannerInv, ScannerTyped, ScanHost
<1>5. /\ k \in ScanTaskRow /\ k.pc = "record" /\ k.ip = {ip} /\ k.todo = scanTask[s].todo \ {ip}
      /\ ip \in Ip
  BY <1>2, <1>4 DEF ScanTaskRow
<1> HIDE DEF k
<1>6. /\ scanTask'[s] = k /\ hostRows' = hostRows /\ scans' = scans
  BY <1>3, <1>5, TaskChanges DEF ScanHost
<1>7. DOMAIN hostRows[s] = Ip \ scanTask[s].todo /\ s \in DOMAIN scans /\ RowsCounted(s)
  BY <1>4 DEF ScannerInv, TargetsLeft
<1>8. Ip \ scanTask[s].todo = Ip \ (k.todo \cup {ip}) /\ ip \notin k.todo
  BY <1>5
<1>9. TargetsLeft(s)'
  BY <1>5, <1>6, <1>7, <1>8 DEF TargetsLeft
<1>10. RowsCounted(s)'
  BY <1>6, <1>7 DEF RowsCounted, UpRows
<1> QED BY <1>3, <1>5, <1>6, <1>9, <1>10, TaskKeeps DEF ScanHost, ScannerInv, ScannerTyped
\* The host's row counts once: it had none.
LEMMA RowCounts ==
  ASSUME NEW I \in SUBSET Ip, NEW rows \in [I -> HostRow], IsFiniteSet(I),
         NEW i \in Ip, i \notin I, NEW new \in [I \cup {i} -> HostRow],
         \A ip \in I : new[ip] = rows[ip]
  PROVE  /\ IsFiniteSet(I \cup {i}) /\ Cardinality(I) \in Nat
         /\ Cardinality(I \cup {i}) = Cardinality(I) + 1
         /\ Cardinality(UpRows(rows)) \in Nat
         /\ new[i].up => Cardinality(UpRows(new)) = Cardinality(UpRows(rows)) + 1
         /\ ~ new[i].up => Cardinality(UpRows(new)) = Cardinality(UpRows(rows))
<1>3. /\ IsFiniteSet(I \cup {i}) /\ Cardinality(I) \in Nat
      /\ Cardinality(I \cup {i}) = Cardinality(I) + 1
  BY FS_AddElement, FS_CardinalityType
<1>4. UpRows(rows) \subseteq I
  BY DEF UpRows
<1>5. IsFiniteSet(UpRows(rows)) /\ i \notin UpRows(rows)
  BY <1>4, FS_Subset
<1>6. Cardinality(UpRows(rows)) \in Nat
  BY <1>5, FS_CardinalityType
<1>7. CASE new[i].up
  <2>1. UpRows(new) = UpRows(rows) \cup {i}
    BY <1>7 DEF UpRows
  <2>2. Cardinality(UpRows(new)) = Cardinality(UpRows(rows)) + 1
    BY <1>5, <2>1, FS_AddElement
  <2> QED BY <1>3, <1>6, <1>7, <2>2
<1>8. CASE ~ new[i].up
  <2>1. UpRows(new) = UpRows(rows)
    BY <1>8 DEF UpRows
  <2> QED BY <1>3, <1>6, <1>8, <2>1
<1> QED BY <1>7, <1>8

LEMMA RecordedRow ==
  ASSUME NEW row \in ScanRow, NEW up \in BOOLEAN
  PROVE  /\ Recorded(row, up) \in ScanRow
         /\ Recorded(row, up).scanned = row.scanned + 1
         /\ Recorded(row, up).status = row.status
         /\ up => Recorded(row, up).up = row.up + 1
         /\ ~ up => Recorded(row, up).up = row.up
<1>1. row.scanned + 1 \in Nat /\ row.up + 1 \in Nat /\ row.up \in Nat
  BY DEF ScanRow
<1>2. CASE up
  BY <1>1, <1>2 DEF Recorded, ScanRow
<1>3. CASE ~ up
  BY <1>1, <1>3 DEF Recorded, ScanRow
<1> QED BY <1>2, <1>3

LEMMA RecordKeeps ==
  ASSUME ScannerInv, NEW s \in Scan, scanTask[s].pc = "record",
         NEW a \in AssetId \cup {NoAsset}, Record(s, a), DOMAIN assets' \subseteq AssetId
  PROVE  ScannerInv'
<1> DEFINE k == [NoTask EXCEPT !.pc = "next", !.todo = scanTask[s].todo]
           u == scanTask[s].up
<1>1. /\ scanTask[s] \in ScanTaskRow /\ TargetsLeft(s) /\ RowsCounted(s)
      /\ hostRows \in [Scan -> UNION {[I -> HostRow] : I \in SUBSET Ip}]
  BY DEF ScannerInv, ScannerTyped
<1>2. k \in ScanTaskRow /\ k.pc = "next" /\ k.todo = scanTask[s].todo /\ Tasked(s, k) /\ u \in BOOLEAN
  BY <1>1 DEF Record, NoTask, ScanTaskRow
<1> HIDE DEF k
<1>3. /\ scanTask' \in [Scan -> ScanTaskRow] /\ scanTask'[s] = k
      /\ \A r \in Scan : r # s => scanTask'[r] = scanTask[r]
  BY <1>2, TaskChanges
<1>4. PICK i \in Ip : /\ scanTask[s].ip = {i} /\ i \notin k.todo
                      /\ DOMAIN hostRows[s] = Ip \ (k.todo \cup {i})
  BY <1>1, <1>2 DEF TargetsLeft
<1>5. PICK I \in SUBSET Ip : hostRows[s] \in [I -> HostRow]
  BY <1>1
<1>6. DOMAIN hostRows[s] = I /\ i \notin I /\ IsFiniteSet(I) /\ I \cup {i} = Ip \ k.todo
  BY <1>1, <1>4, <1>5 DEF RowsCounted
<1> DEFINE new == [ip \in I \cup {i} |-> IF ip \in {i} THEN [up |-> u, asset |-> a] ELSE hostRows[s][ip]]
           row == Recorded(scans[s], u)
<1>7. hostRows' = [hostRows EXCEPT ![s] = new]
  BY <1>4, <1>6 DEF Record
<1>8. scans' = [scans EXCEPT ![s] = row]
  BY DEF Record
<1> HIDE DEF u
<1>9. new \in [I \cup {i} -> HostRow] /\ new[i].up = u /\ \A ip \in I : new[ip] = hostRows[s][ip]
  BY <1>2, <1>5, <1>6 DEF HostRow
<1>10. /\ IsFiniteSet(I \cup {i}) /\ Cardinality(I) \in Nat
       /\ Cardinality(I \cup {i}) = Cardinality(I) + 1
       /\ Cardinality(UpRows(hostRows[s])) \in Nat
       /\ u => Cardinality(UpRows(new)) = Cardinality(UpRows(hostRows[s])) + 1
       /\ ~ u => Cardinality(UpRows(new)) = Cardinality(UpRows(hostRows[s]))
  <2> HIDE DEF new
  <2> QED BY <1>5, <1>6, <1>9, RowCounts
<1> HIDE DEF new
<1>11. s \in DOMAIN scans
  BY <1>1 DEF TargetsLeft
<1>12. PICK S \in SUBSET Scan : scans \in [S -> ScanRow]
  BY DEF ScannerInv, ScannerTyped
<1>13. /\ scans[s] \in ScanRow /\ scans[s].scanned = Cardinality(I)
       /\ scans[s].up = Cardinality(UpRows(hostRows[s]))
       /\ scans[s].status = "completed" => I = Ip
  BY <1>1, <1>6, <1>11, <1>12 DEF RowsCounted
<1>14. /\ row \in ScanRow /\ row.scanned = Cardinality(I \cup {i})
       /\ row.up = Cardinality(UpRows(new)) /\ row.status = scans[s].status
  <2>1. /\ row \in ScanRow /\ row.scanned = scans[s].scanned + 1 /\ row.status = scans[s].status
        /\ u => row.up = scans[s].up + 1
        /\ ~ u => row.up = scans[s].up
    BY <1>2, <1>13, RecordedRow
  <2> HIDE DEF row
  <2> QED BY <1>2, <1>10, <1>13, <2>1
<1> HIDE DEF row
<1>15. /\ scans' \in [S -> ScanRow] /\ scans'[s] = row /\ DOMAIN scans' = DOMAIN scans
       /\ \A r \in DOMAIN scans : r # s => scans'[r] = scans[r]
  BY <1>8, <1>11, <1>12, <1>14
<1>16. /\ hostRows' \in [Scan -> UNION {[J -> HostRow] : J \in SUBSET Ip}]
       /\ hostRows'[s] = new /\ \A r \in Scan : r # s => hostRows'[r] = hostRows[r]
  <2>1. new \in UNION {[J -> HostRow] : J \in SUBSET Ip}
    BY <1>9
  <2> QED BY <1>1, <1>7, <2>1
<1>17. \A r \in Scan : r # s => TargetsLeft(r)' /\ RowsCounted(r)'
  BY <1>3, <1>15, <1>16, ScanStays DEF ScannerInv
<1>18. DOMAIN new = I \cup {i}
  BY <1>9
<1>19. TargetsLeft(s)'
  BY <1>2, <1>3, <1>6, <1>11, <1>15, <1>16, <1>18 DEF TargetsLeft
<1>20. RowsCounted(s)'
  BY <1>6, <1>10, <1>13, <1>14, <1>15, <1>16, <1>18 DEF RowsCounted, UpRows
<1> QED BY <1>3, <1>15, <1>16, <1>17, <1>19, <1>20 DEF ScannerInv, ScannerTyped

LEMMA RecordHostKeeps ==
  ASSUME ScannerInv, NEW s \in Scan, RecordHost(s)
  PROVE  ScannerInv'
<1>1. scanTask[s].pc = "record" /\ DOMAIN assets \subseteq AssetId
  BY DEF RecordHost, ScannerInv, ScannerTyped
<1>2. CASE \E a \in {NoAsset} \cup DOMAIN assets : Record(s, a) /\ UNCHANGED inventoryVars
  BY <1>1, <1>2, RecordKeeps DEF inventoryVars
<1>3. CASE \E a \in Unread, ip \in scanTask[s].ip : InsertAsset(a, NameOf[ip]) /\ Record(s, a)
  BY <1>1, <1>3, RecordKeeps DEF InsertAsset, Unread
<1> QED BY <1>2, <1>3 DEF RecordHost

LEMMA EndedKeeps ==
  ASSUME ScannerInv, NEW s \in Scan, scanTask[s].pc # "none",
         Tasked(s, [NoTask EXCEPT !.pc = "ended"]), UNCHANGED <<inventoryVars, hostRows>>,
         \/ scans' = scans
         \/ Status(s, "failed")
         \/ Status(s, "completed") /\ scanTask[s].pc = "next" /\ scanTask[s].todo = {}
  PROVE  ScannerInv'
<1> DEFINE k == [NoTask EXCEPT !.pc = "ended"]
<1>1. k \in ScanTaskRow /\ k.pc = "ended" /\ Tasked(s, k)
  BY FreshTask
<1> HIDE DEF k
<1>2. scanTask'[s] = k /\ hostRows' = hostRows
  BY <1>1, TaskChanges
<1>3. s \in DOMAIN scans /\ TargetsLeft(s) /\ RowsCounted(s)
  BY DEF ScannerInv, TargetsLeft
<1>4. CASE scans' = scans
  <2>1. TargetsLeft(s)' /\ RowsCounted(s)'
    BY <1>1, <1>2, <1>3, <1>4 DEF TargetsLeft, RowsCounted, UpRows
  <2> QED BY <1>1, <1>4, <2>1, TaskKeeps DEF ScannerInv, ScannerTyped
<1>5. ASSUME NEW st \in Ended, Status(s, st), st = "completed" => DOMAIN hostRows[s] = Ip
      PROVE  ScannerInv'
  <2>1. /\ scans' \in UNION {[S -> ScanRow] : S \in SUBSET Scan} /\ DOMAIN scans' = DOMAIN scans
        /\ scans'[s].status = st /\ scans'[s].scanned = scans[s].scanned
        /\ scans'[s].up = scans[s].up /\ \A r \in DOMAIN scans : r # s => scans'[r] = scans[r]
    BY <1>3, <1>5, StatusChanges
  <2>2. TargetsLeft(s)' /\ RowsCounted(s)'
    BY <1>1, <1>2, <1>3, <1>5, <2>1 DEF TargetsLeft, RowsCounted, UpRows
  <2> QED BY <1>1, <2>1, <2>2, TaskKeeps
<1>6. scanTask[s].pc = "next" /\ scanTask[s].todo = {} => DOMAIN hostRows[s] = Ip
  BY <1>3 DEF TargetsLeft
<1>7. "failed" \in Ended /\ "completed" \in Ended
  BY DEF Ended
<1> QED BY <1>4, <1>5, <1>6, <1>7

\* A crash, and the loss of an asset: no counter and no row appears or goes.
LEMMA CrashKeeps ==
  ASSUME ScannerInv, ScannerCrash
  PROVE  ScannerInv'
<1> DEFINE k == [NoTask EXCEPT !.pc = "ended"]
           lost == {s \in DOMAIN scans : scanTask[s].pc # "ended"}
<1>1. k \in ScanTaskRow /\ k.pc = "ended"
  BY FreshTask
<1>2. scanTask' = [s \in Scan |-> IF s \in lost THEN k ELSE scanTask[s]]
  BY DEF ScannerCrash
<1>3. UNCHANGED <<assets, scans, hostRows>>
  BY DEF ScannerCrash, inventoryVars
<1> HIDE DEF k
<1>4. scanTask' \in [Scan -> ScanTaskRow]
  BY <1>1, <1>2 DEF ScannerInv, ScannerTyped
<1>5. ASSUME NEW s \in Scan
      PROVE  TargetsLeft(s)' /\ RowsCounted(s)'
  <2>1. TargetsLeft(s) /\ RowsCounted(s)
    BY DEF ScannerInv
  <2>2. RowsCounted(s)'
    BY <1>3, <2>1 DEF RowsCounted, UpRows
  <2>3. CASE s \in lost
    <3>1. scanTask'[s] = k /\ s \in DOMAIN scans'
      BY <1>2, <1>3, <2>3
    <3> QED BY <1>1, <2>2, <3>1 DEF TargetsLeft
  <2>4. CASE s \notin lost
    <3>1. scanTask'[s] = scanTask[s]
      BY <1>2, <2>4
    <3> QED BY <1>3, <2>1, <3>1, ScanStays DEF ScannerInv
  <2> QED BY <2>3, <2>4
<1> QED BY <1>3, <1>4, <1>5 DEF ScannerInv, ScannerTyped

LEMMA AssetGoesKeeps ==
  ASSUME ScannerInv, NEW a \in AssetId, AssetGoes(a)
  PROVE  ScannerInv'
<1>1. /\ UNCHANGED <<scans, scanTask>> /\ DOMAIN assets' \subseteq DOMAIN assets
      /\ hostRows' = [s \in Scan |-> [ip \in DOMAIN hostRows[s] |->
            IF hostRows[s][ip].asset = a THEN [hostRows[s][ip] EXCEPT !.asset = NoAsset]
            ELSE hostRows[s][ip]]]
  BY DEF AssetGoes, DeleteAsset, Restrict
<1>2. ASSUME NEW s \in Scan
      PROVE  /\ hostRows'[s] \in UNION {[I -> HostRow] : I \in SUBSET Ip}
             /\ TargetsLeft(s)' /\ RowsCounted(s)'
  <2>1. PICK I \in SUBSET Ip : hostRows[s] \in [I -> HostRow]
    BY DEF ScannerInv, ScannerTyped
  <2>2. hostRows'[s] = [ip \in I |-> IF hostRows[s][ip].asset = a
                          THEN [hostRows[s][ip] EXCEPT !.asset = NoAsset] ELSE hostRows[s][ip]]
    BY <1>1, <2>1
  <2>3. ASSUME NEW ip \in I
        PROVE  hostRows'[s][ip] \in HostRow /\ hostRows'[s][ip].up = hostRows[s][ip].up
    <3>1. hostRows[s][ip] \in HostRow
      BY <2>1
    <3>2. /\ [hostRows[s][ip] EXCEPT !.asset = NoAsset] \in HostRow
          /\ [hostRows[s][ip] EXCEPT !.asset = NoAsset].up = hostRows[s][ip].up
      BY <3>1 DEF HostRow
    <3> QED BY <2>2, <3>1, <3>2
  <2>4. hostRows'[s] \in [I -> HostRow] /\ DOMAIN hostRows'[s] = I /\ DOMAIN hostRows[s] = I
    BY <2>1, <2>2, <2>3
  <2>5. UpRows(hostRows'[s]) = UpRows(hostRows[s])
    BY <2>3, <2>4 DEF UpRows
  <2>6. UpRows(hostRows[s])' = UpRows(hostRows[s])
    BY <2>5 DEF UpRows
  <2>7. TargetsLeft(s) /\ RowsCounted(s)
    BY DEF ScannerInv
  <2>8. TargetsLeft(s)'
    BY <1>1, <2>4, <2>7 DEF TargetsLeft
  <2>9. RowsCounted(s)'
    BY <1>1, <2>4, <2>6, <2>7 DEF RowsCounted
  <2> QED BY <2>4, <2>8, <2>9
<1>3. hostRows' \in [Scan -> UNION {[I -> HostRow] : I \in SUBSET Ip}]
  BY <1>1, <1>2
<1> QED BY <1>1, <1>2, <1>3 DEF ScannerInv, ScannerTyped

LEMMA ScanOthersKeep ==
  ASSUME ScannerInv, UNCHANGED scannerOwnVars, DOMAIN assets' \subseteq AssetId
  PROVE  ScannerInv'
<1>1. UNCHANGED <<scans, hostRows, scanTask>>
  BY DEF scannerOwnVars
<1>2. \A s \in Scan : TargetsLeft(s)' /\ RowsCounted(s)'
  BY <1>1, ScanStays DEF ScannerInv
<1> QED BY <1>1, <1>2 DEF ScannerInv, ScannerTyped

LEMMA ScannerKeeps == ScannerInv /\ [ScannerNext]_scannerVars => ScannerInv'
<1> SUFFICES ASSUME ScannerInv, [ScannerNext]_scannerVars
             PROVE  ScannerInv'
  OBVIOUS
<1>1. ASSUME NEW s \in Scan, ClashHost(s) \/ FinishScan(s) \/ FailScan(s) \/ LoseScan(s)
      PROVE  ScannerInv'
  <2>1. CASE ClashHost(s)
    <3>1. /\ scanTask[s].pc = "record" /\ Tasked(s, [NoTask EXCEPT !.pc = "ended"])
          /\ UNCHANGED <<inventoryVars, hostRows>> /\ scans' = scans
      BY <2>1 DEF ClashHost
    <3> QED BY <3>1, EndedKeeps
  <2>2. CASE FinishScan(s)
    BY <2>2, EndedKeeps DEF FinishScan, Left
  <2>3. CASE FailScan(s)
    <3>1. /\ scanTask[s].pc # "none" /\ Tasked(s, [NoTask EXCEPT !.pc = "ended"])
          /\ UNCHANGED <<inventoryVars, hostRows>> /\ Status(s, "failed")
      BY <2>3 DEF FailScan
    <3> QED BY <3>1, EndedKeeps
  <2>4. CASE LoseScan(s)
    <3>1. /\ scanTask[s].pc # "none" /\ Tasked(s, [NoTask EXCEPT !.pc = "ended"])
          /\ UNCHANGED <<inventoryVars, hostRows>> /\ scans' = scans
      BY <2>4 DEF LoseScan
    <3> QED BY <3>1, EndedKeeps
  <2> QED BY <1>1, <2>1, <2>2, <2>3, <2>4
<1>2. CASE AssetAppears
  BY <1>2, ScanOthersKeep DEF AssetAppears, InsertAsset, Unread, ScannerInv, ScannerTyped
<1>3. CASE UNCHANGED scannerVars
  <2>1. UNCHANGED scannerOwnVars /\ assets' = assets
    BY <1>3 DEF scannerVars, scannerOwnVars
  <2> QED BY <2>1, ScanOthersKeep DEF ScannerInv, ScannerTyped
<1> QED BY <1>1, <1>2, <1>3, CreateScanKeeps, StartKeeps, BeginScanKeeps, ScanHostKeeps,
        RecordHostKeeps, CrashKeeps, AssetGoesKeeps DEF ScannerNext, ScanStep

LEMMA ScannerStarts == ScannerInit => ScannerInv
<1> SUFFICES ASSUME ScannerInit
             PROVE  ScannerInv
  OBVIOUS
<1>1. <<>> \in [{} -> ScanRow] /\ <<>> \in [{} -> HostRow] /\ DOMAIN <<>> = {}
  OBVIOUS
<1>2. NoTask \in ScanTaskRow /\ NoTask.pc = "none"
  BY DEF NoTask, ScanTaskRow
<1>3. /\ scans = <<>> /\ assets = <<>> /\ hostRows = [s \in Scan |-> <<>>]
      /\ scanTask = [s \in Scan |-> NoTask]
  BY DEF ScannerInit, InventoryInit
<1>4. ScannerTyped
  <2>1. scans \in [{} -> ScanRow] /\ {} \in SUBSET Scan
    BY <1>1, <1>3
  <2>2. <<>> \in UNION {[I -> HostRow] : I \in SUBSET Ip}
    BY <1>1
  <2>3. DOMAIN assets = {}
    BY <1>1, <1>3
  <2> HIDE DEF ScanRow
  <2> QED BY <1>2, <1>3, <2>1, <2>2, <2>3 DEF ScannerTyped
<1>5. ASSUME NEW s \in Scan
      PROVE  TargetsLeft(s) /\ RowsCounted(s)
  <2>1. DOMAIN hostRows[s] = {} /\ DOMAIN scans = {} /\ scanTask[s] = NoTask
    BY <1>1, <1>3
  <2> QED BY <1>2, <2>1, FS_EmptySet DEF TargetsLeft, RowsCounted
<1> QED BY <1>4, <1>5 DEF ScannerInv

LEMMA CountersFollow == ScannerInv => CountersAreRows
<1> SUFFICES ASSUME ScannerInv, NEW s \in DOMAIN scans
             PROVE  /\ scans[s].scanned = Cardinality(DOMAIN hostRows[s])
                    /\ scans[s].up = Cardinality(UpRows(hostRows[s]))
                    /\ scans[s].status = "completed" => DOMAIN hostRows[s] = Ip
  BY DEF CountersAreRows, UpRows
<1>1. s \in Scan
  BY DEF ScannerInv, ScannerTyped
<1> QED BY <1>1 DEF ScannerInv, RowsCounted

\* A scan's counters are its host rows, whatever fails, crashes or is deleted beside it, and
\* a scan that says completed has a row for each target (network_scanner.py:201-222).
THEOREM ScanCountersAreRows == ScannerSpec => []CountersAreRows
BY CountersFollow, ScannerKeeps, ScannerStarts, PTL DEF ScannerSpec

-----------------------------------------------------------------------------
(* PlaybookRuns *)

StepRow == [action : Action, stop : BOOLEAN]
AlertStatus == {"open", "investigating", "resolved", "gone"}
PlaybookRow == [enabled : BOOLEAN, trigger : {"manual", "alert"}, steps : Seq(StepRow), run_count : Nat]
RunRow ==
  [pc : {"none", "load", "step", "finish", "ended"}, playbook : SUBSET Playbook,
   steps : Seq(StepRow), count : Nat, status : AlertStatus, results : Seq(BOOLEAN),
   done : SUBSET Nat, keyAdded : BOOLEAN, statusSet : BOOLEAN, broken : BOOLEAN,
   failed : BOOLEAN]

PlaybookTyped ==
  /\ playbooks \in UNION {[P -> PlaybookRow] : P \in SUBSET Playbook}
  /\ alertStatus \in AlertStatus /\ run \in [Run -> RunRow]
  /\ DOMAIN recorded \subseteq Run

\* The steps that raised and that stop a run.
Fatal(k) == {i \in DOMAIN k.results : ~ k.results[i] /\ k.steps[i].stop}

\* What a task holds while it runs: its results say which steps were done, and it is failed
\* exactly when the last of them had to stop it.
TaskExplained(k) ==
  /\ Len(k.results) <= Len(k.steps)
  /\ k.done = {i \in DOMAIN k.results : k.results[i]}
  /\ k.failed => Fatal(k) = {Len(k.results)}
  /\ ~ k.failed => Fatal(k) = {}
  /\ k.pc \in {"none", "load"} => k.results = <<>>
  /\ k.pc \in {"none", "load", "step"} => ~ k.failed
  /\ k.pc = "finish" => k.failed

\* Nothing of a run is committed before its record is, and afterwards the run is over: its
\* rows are those of the steps done, and what it did outside is among the steps listed.
RunExplained(r) ==
  LET k == run[r]
  IN /\ TaskExplained(k)
     /\ \A i \in Nat : <<r, i>> \in sent => i \in DOMAIN k.results
     /\ \A i \in Nat : <<r, i>> \in applied => r \in DOMAIN recorded /\ i \in k.done
     /\ r \in DOMAIN recorded =>
          /\ k.pc = "ended" /\ \A i \in k.done : <<r, i>> \in applied \cup sent
          /\ recorded[r].steps = k.steps /\ recorded[r].results = k.results
          /\ recorded[r].status = IF k.failed THEN "failed" ELSE "completed"
          /\ k.failed \/ Len(k.results) = Len(k.steps)

PlaybookInv ==
  /\ PlaybookTyped /\ sent \subseteq Run \X Nat /\ applied \subseteq Run \X Nat
  /\ \A r \in Run : RunExplained(r)

LEMMA RunStays ==
  ASSUME NEW r \in Run, RunExplained(r), run'[r] = run[r],
         \A i \in Nat : /\ <<r, i>> \in sent' <=> <<r, i>> \in sent
                        /\ <<r, i>> \in applied' <=> <<r, i>> \in applied,
         run[r] \in RunRow,
         r \in DOMAIN recorded' <=> r \in DOMAIN recorded,
         r \in DOMAIN recorded => recorded'[r] = recorded[r]
  PROVE  RunExplained(r)'
<1>1. run[r].done \subseteq Nat
  BY DEF RunRow
<1> QED BY <1>1 DEF RunExplained

LEMMA RunChanges ==
  ASSUME PlaybookInv, NEW r \in Run, NEW k \in RunRow, Runs(r, k)
  PROVE  /\ run' \in [Run -> RunRow] /\ run'[r] = k
         /\ \A q \in Run : q # r => run'[q] = run[q]
BY DEF PlaybookInv, PlaybookTyped, Runs

LEMMA RunOf ==
  ASSUME PlaybookInv, NEW r \in Run
  PROVE  run[r] \in RunRow /\ TaskExplained(run[r]) /\ RunExplained(r)
BY DEF PlaybookInv, PlaybookTyped, RunExplained

LEMMA NoRunRow == NoRun \in RunRow /\ TaskExplained(NoRun)
<1>1. NoRun \in RunRow
  BY DEF NoRun, RunRow, AlertStatus
<1>2. Fatal(NoRun) = {}
  BY DEF NoRun, Fatal
<1> QED BY <1>1, <1>2 DEF NoRun, TaskExplained

LEMMA OneMore ==
  ASSUME NEW S, NEW s \in Seq(S), NEW x \in S
  PROVE  /\ Append(s, x) \in Seq(S) /\ Len(Append(s, x)) = Len(s) + 1
         /\ DOMAIN Append(s, x) = 1..(Len(s) + 1) /\ Append(s, x)[Len(s) + 1] = x
         /\ \A i \in 1..Len(s) : Append(s, x)[i] = s[i]
OBVIOUS

\* A step more: it was done or it raised.
LEMMA StepDone ==
  ASSUME NEW k \in RunRow, TaskExplained(k), k.pc = "step", Len(k.results) < Len(k.steps)
  PROVE  /\ Succeeded(k) \in RunRow /\ TaskExplained(Succeeded(k))
         /\ DOMAIN Succeeded(k).results = 1..(Len(k.results) + 1)
<1> DEFINE n == Len(k.results) + 1
           row == Succeeded(k)
<1>1. /\ k.results \in Seq(BOOLEAN) /\ k.steps \in Seq(StepRow) /\ k.done \subseteq Nat
      /\ k.failed = FALSE /\ Fatal(k) = {}
  BY DEF RunRow, TaskExplained
<1>2. Len(k.results) \in Nat /\ Len(k.steps) \in Nat /\ n \in Nat /\ n <= Len(k.steps)
      /\ DOMAIN k.results = 1..Len(k.results)
  BY <1>1
<1> DEFINE res == Append(k.results, TRUE)
<1>3. /\ res \in Seq(BOOLEAN) /\ Len(res) = n /\ DOMAIN res = 1..n /\ res[n] = TRUE
      /\ \A i \in 1..Len(k.results) : res[i] = k.results[i]
  <2>1. ASSUME NEW b \in BOOLEAN
        PROVE  /\ Append(k.results, b) \in Seq(BOOLEAN) /\ Len(Append(k.results, b)) = n
               /\ DOMAIN Append(k.results, b) = 1..n /\ Append(k.results, b)[n] = b
               /\ \A i \in 1..Len(k.results) : Append(k.results, b)[i] = k.results[i]
    BY <1>1, OneMore
  <2> QED BY <2>1, Zenon
<1> HIDE DEF res
<1>4. /\ row \in RunRow /\ row.results = res /\ row.done = k.done \cup {n} /\ row.steps = k.steps
      /\ row.pc = k.pc /\ row.failed = k.failed
  BY <1>2, <1>3 DEF Succeeded, RunRow, res
<1> HIDE DEF row
<1>5. row.done = {i \in DOMAIN row.results : row.results[i]}
  <2>1. k.done = {i \in 1..Len(k.results) : k.results[i]}
    BY <1>2 DEF TaskExplained
  <2>2. 1..n = 1..Len(k.results) \cup {n}
    BY <1>2
  <2> HIDE DEF n
  <2> QED BY <1>3, <1>4, <2>1, <2>2
<1>6. Fatal(row) = {}
  <2>1. \A i \in 1..Len(k.results) : k.results[i] \/ ~ k.steps[i].stop
    BY <1>1, <1>2 DEF Fatal
  <2>2. \A i \in 1..n : i = n \/ i \in 1..Len(k.results)
    BY <1>2
  <2> HIDE DEF n
  <2> QED BY <1>3, <1>4, <2>1, <2>2 DEF Fatal
<1>7. Len(row.results) <= Len(row.steps) /\ DOMAIN row.results = 1..(Len(k.results) + 1)
  BY <1>2, <1>3, <1>4
<1> QED BY <1>1, <1>4, <1>5, <1>6, <1>7 DEF row, TaskExplained

LEMMA StepRaised ==
  ASSUME NEW k \in RunRow, TaskExplained(k), k.pc = "step", Len(k.results) < Len(k.steps)
  PROVE  /\ Raised(k) \in RunRow /\ TaskExplained(Raised(k))
         /\ DOMAIN Raised(k).results = 1..(Len(k.results) + 1)
<1> DEFINE n == Len(k.results) + 1
           stop == k.steps[n].stop
           row == Raised(k)
<1>1. /\ k.results \in Seq(BOOLEAN) /\ k.steps \in Seq(StepRow) /\ k.done \subseteq Nat
      /\ k.failed = FALSE /\ Fatal(k) = {}
  BY DEF RunRow, TaskExplained
<1>2. Len(k.results) \in Nat /\ Len(k.steps) \in Nat /\ n \in Nat /\ n \in 1..Len(k.steps)
      /\ DOMAIN k.results = 1..Len(k.results)
  BY <1>1
<1>3. stop \in BOOLEAN
  <2>1. k.steps[n] \in StepRow
    BY <1>1, <1>2
  <2> QED BY <2>1 DEF StepRow
<1> DEFINE res == Append(k.results, FALSE)
<1>4. /\ res \in Seq(BOOLEAN) /\ Len(res) = n /\ DOMAIN res = 1..n /\ res[n] = FALSE
      /\ \A i \in 1..Len(k.results) : res[i] = k.results[i]
  <2>1. ASSUME NEW b \in BOOLEAN
        PROVE  /\ Append(k.results, b) \in Seq(BOOLEAN) /\ Len(Append(k.results, b)) = n
               /\ DOMAIN Append(k.results, b) = 1..n /\ Append(k.results, b)[n] = b
               /\ \A i \in 1..Len(k.results) : Append(k.results, b)[i] = k.results[i]
    BY <1>1, OneMore
  <2> QED BY <2>1, Zenon
<1> HIDE DEF res
<1>5. row = [k EXCEPT !.results = res, !.failed = stop, !.pc = IF stop THEN "finish" ELSE "step"]
  BY DEF Raised, res
<1> HIDE DEF stop
<1>6. /\ row \in RunRow /\ row.results = res /\ row.done = k.done /\ row.steps = k.steps
      /\ row.pc = (IF stop THEN "finish" ELSE "step") /\ row.failed = stop
  BY <1>3, <1>4, <1>5 DEF RunRow
<1> HIDE DEF row
<1>7. row.done = {i \in DOMAIN row.results : row.results[i]}
  <2>1. k.done = {i \in 1..Len(k.results) : k.results[i]}
    BY <1>2 DEF TaskExplained
  <2>2. 1..n = 1..Len(k.results) \cup {n}
    BY <1>2
  <2> HIDE DEF n
  <2> QED BY <1>4, <1>6, <2>1, <2>2
<1>8. Fatal(row) = IF stop THEN {n} ELSE {}
  <2>1. \A i \in 1..Len(k.results) : k.results[i] \/ ~ k.steps[i].stop
    BY <1>1, <1>2 DEF Fatal
  <2>2. /\ \A i \in 1..n : i = n \/ i \in 1..Len(k.results)
        /\ n \in 1..n
    BY <1>2
  <2>3. stop = k.steps[n].stop
    BY DEF stop
  <2> HIDE DEF n
  <2>4. CASE stop
    BY <1>4, <1>6, <2>1, <2>2, <2>3, <2>4 DEF Fatal
  <2>5. CASE ~ stop
    BY <1>4, <1>6, <2>1, <2>2, <2>3, <2>5 DEF Fatal
  <2> QED BY <2>4, <2>5
<1>9. Len(row.results) = n /\ n <= Len(row.steps)
  BY <1>2, <1>4, <1>6
<1>10. DOMAIN row.results = 1..(Len(k.results) + 1)
  BY <1>4, <1>6
<1> HIDE DEF n
<1>11. CASE stop
  BY <1>6, <1>7, <1>8, <1>9, <1>10, <1>11 DEF row, TaskExplained
<1>12. CASE ~ stop
  BY <1>6, <1>7, <1>8, <1>9, <1>10, <1>12 DEF row, TaskExplained
<1> QED BY <1>3, <1>11, <1>12

LEMMA StepBroken ==
  ASSUME NEW k \in RunRow, TaskExplained(k)
  PROVE  Broken(k) \in RunRow /\ TaskExplained(Broken(k)) /\ Broken(k).results = k.results
<1>1. /\ Broken(k) \in RunRow /\ Broken(k).results = k.results /\ Broken(k).done = k.done
      /\ Broken(k).steps = k.steps /\ Broken(k).failed = k.failed /\ Broken(k).pc = k.pc
  BY DEF Broken, RunRow
<1>2. Fatal(Broken(k)) = Fatal(k)
  BY <1>1 DEF Fatal
<1> QED BY <1>1, <1>2 DEF TaskExplained

\* A task that ends, or that updates the alert or the watchlist, with the same results.
LEMMA SameResults ==
  ASSUME NEW k \in RunRow, TaskExplained(k), NEW row \in RunRow,
         row.results = k.results, row.done = k.done, row.steps = k.steps, row.failed = k.failed,
         row.pc = k.pc \/ row.pc = "ended"
  PROVE  TaskExplained(row)
<1>1. Fatal(row) = Fatal(k)
  BY DEF Fatal
<1> QED BY <1>1 DEF TaskExplained
\* A task that goes on: what it did outside the database is among its results.
LEMMA TaskGoesOn ==
  ASSUME PlaybookInv, NEW r \in Run, run[r].pc # "ended", NEW k \in RunRow, Runs(r, k),
         TaskExplained(k), DOMAIN run[r].results \subseteq DOMAIN k.results,
         UNCHANGED <<playbooks, alertStatus, recorded, applied>>,
         \/ sent' = sent
         \/ \E n \in DOMAIN k.results : n \in Nat /\ sent' = sent \cup {<<r, n>>}
  PROVE  PlaybookInv'
<1>1. /\ run' \in [Run -> RunRow] /\ run'[r] = k
      /\ \A q \in Run : q # r => run'[q] = run[q]
  BY RunChanges
<1>2. /\ sent' \subseteq Run \X Nat /\ \A i \in Nat : <<r, i>> \in sent' => i \in DOMAIN k.results
      /\ \A q \in Run : q # r => \A i \in Nat : <<q, i>> \in sent' <=> <<q, i>> \in sent
  <2>1. /\ sent \subseteq Run \X Nat
        /\ \A i \in Nat : <<r, i>> \in sent => i \in DOMAIN k.results
    BY RunOf DEF PlaybookInv, RunExplained
  <2>2. CASE sent' = sent
    BY <2>1, <2>2
  <2>3. CASE \E n \in DOMAIN k.results : n \in Nat /\ sent' = sent \cup {<<r, n>>}
    BY <2>1, <2>3
  <2> QED BY <2>2, <2>3
<1>3. r \notin DOMAIN recorded /\ \A i \in Nat : <<r, i>> \notin applied
  BY RunOf DEF RunExplained
<1>4. RunExplained(r)'
  BY <1>1, <1>2, <1>3 DEF RunExplained
<1>5. ASSUME NEW q \in Run, q # r
      PROVE  RunExplained(q)'
  BY <1>1, <1>2, <1>5, RunOf, RunStays
<1> QED BY <1>1, <1>2, <1>4, <1>5 DEF PlaybookInv, PlaybookTyped

LEMMA EvaluateKeeps ==
  ASSUME PlaybookInv, EvaluateAlert
  PROVE  PlaybookInv'
<1>1. PICK tasks \in Injection(Matching, {r \in Run : run[r].pc = "none"}) :
        run' = [r \in Run |-> IF \E p \in Matching : tasks[p] = r
                              THEN [NoRun EXCEPT !.pc = "load",
                                                 !.playbook = {p \in Matching : tasks[p] = r}]
                              ELSE run[r]]
  BY DEF EvaluateAlert
<1>2. UNCHANGED <<playbooks, alertStatus, recorded, applied, sent>>
  BY DEF EvaluateAlert, UnchangedRows
<1>3. Matching \subseteq Playbook
  BY DEF Matching, PlaybookInv, PlaybookTyped
<1>4. \A p \in Matching : tasks[p] \in Run /\ run[tasks[p]].pc = "none"
  BY DEF Injection
<1>5. ASSUME NEW r \in Run
      PROVE  run'[r] \in RunRow /\ RunExplained(r)'
  <2>1. CASE \E p \in Matching : tasks[p] = r
    <3> DEFINE k == [NoRun EXCEPT !.pc = "load", !.playbook = {p \in Matching : tasks[p] = r}]
    <3>1. {p \in Matching : tasks[p] = r} \in SUBSET Playbook
      BY <1>3
    <3>2. /\ k \in RunRow /\ k.pc = "load" /\ k.done = {} /\ k.results = <<>> /\ k.steps = <<>>
          /\ k.failed = FALSE
      BY <3>1, NoRunRow DEF NoRun, RunRow
    <3>3. run'[r] = k
      BY <1>1, <2>1
    <3> HIDE DEF k
    <3>4. TaskExplained(k)
      <4>1. Fatal(k) = {}
        BY <3>2 DEF Fatal
      <4> QED BY <3>2, <4>1 DEF TaskExplained
    <3>5. run[r].pc = "none" /\ RunExplained(r) /\ TaskExplained(run[r]) /\ run[r] \in RunRow
      BY <1>4, <2>1, RunOf
    <3>6. run[r].done = {} /\ DOMAIN run[r].results = {}
      BY <3>5 DEF TaskExplained
    <3>7. r \notin DOMAIN recorded /\ \A i \in Nat : <<r, i>> \notin sent /\ <<r, i>> \notin applied
      BY <3>5, <3>6 DEF RunExplained
    <3> QED BY <1>2, <3>2, <3>3, <3>4, <3>7 DEF RunExplained
  <2>2. CASE ~ \E p \in Matching : tasks[p] = r
    <3>1. run'[r] = run[r]
      BY <1>1, <2>2
    <3> QED BY <1>2, <3>1, RunOf, RunStays
  <2> QED BY <2>1, <2>2
<1>6. run' \in [Run -> RunRow]
  BY <1>1, <1>5
<1> QED BY <1>2, <1>5, <1>6 DEF PlaybookInv, PlaybookTyped

LEMMA TriggerKeeps ==
  ASSUME PlaybookInv, NEW r \in Run, NEW p \in Playbook, TriggerManual(r, p)
  PROVE  PlaybookInv'
<1> DEFINE k == [NoRun EXCEPT !.pc = "load", !.playbook = {p}]
<1>1. /\ k \in RunRow /\ k.pc = "load" /\ k.done = {} /\ k.results = <<>> /\ k.steps = <<>>
      /\ k.failed = FALSE
  BY NoRunRow DEF NoRun, RunRow
<1>2. run[r].pc = "none" /\ Runs(r, k) /\ sent' = sent
      /\ UNCHANGED <<playbooks, alertStatus, recorded, applied>>
  BY DEF TriggerManual, UnchangedRows
<1> HIDE DEF k
<1>3. Fatal(k) = {}
  BY <1>1 DEF Fatal
<1>4. TaskExplained(k)
  BY <1>1, <1>3 DEF TaskExplained
<1>5. DOMAIN run[r].results = {}
  BY <1>2, RunOf DEF TaskExplained
<1> QED BY <1>1, <1>2, <1>4, <1>5, TaskGoesOn

LEMMA LoadKeeps ==
  ASSUME PlaybookInv, NEW r \in Run, Load(r)
  PROVE  PlaybookInv'
<1>1. /\ run[r].pc = "load" /\ sent' = sent
      /\ UNCHANGED <<playbooks, alertStatus, recorded, applied>>
  BY DEF Load, UnchangedRows
<1>2. /\ run[r] \in RunRow /\ TaskExplained(run[r]) /\ run[r].results = <<>>
      /\ run[r].failed = FALSE /\ run[r].done = {} /\ DOMAIN run[r].results = {}
  <2>1. run[r] \in RunRow /\ TaskExplained(run[r])
    BY RunOf
  <2>2. run[r].results = <<>> /\ run[r].failed = FALSE
    BY <1>1, <2>1 DEF TaskExplained, RunRow
  <2> QED BY <2>1, <2>2 DEF TaskExplained
<1>3. CASE Runs(r, [NoRun EXCEPT !.pc = "ended"])
  <2> DEFINE k == [NoRun EXCEPT !.pc = "ended"]
  <2>1. /\ k \in RunRow /\ k.results = NoRun.results /\ k.done = NoRun.done
        /\ k.steps = NoRun.steps /\ k.failed = NoRun.failed /\ k.pc = "ended"
    BY NoRunRow DEF RunRow
  <2>2. Runs(r, k)
    BY <1>3
  <2> HIDE DEF k
  <2>3. TaskExplained(k)
    BY <2>1, NoRunRow, SameResults
  <2> QED BY <1>1, <1>2, <2>1, <2>2, <2>3, TaskGoesOn
<1>4. ASSUME NEW p \in run[r].playbook \cap DOMAIN playbooks,
             Runs(r, [run[r] EXCEPT !.pc = "step", !.steps = playbooks[p].steps,
                                    !.count = playbooks[p].run_count, !.status = alertStatus])
      PROVE  PlaybookInv'
  <2> DEFINE k == [run[r] EXCEPT !.pc = "step", !.steps = playbooks[p].steps,
                                 !.count = playbooks[p].run_count, !.status = alertStatus]
  <2>1. playbooks[p].steps \in Seq(StepRow) /\ playbooks[p].run_count \in Nat /\ alertStatus \in AlertStatus
    <3>1. playbooks[p] \in PlaybookRow /\ alertStatus \in AlertStatus
      BY DEF PlaybookInv, PlaybookTyped
    <3> QED BY <3>1 DEF PlaybookRow
  <2>2. /\ k \in RunRow /\ k.results = <<>> /\ k.done = {} /\ k.pc = "step" /\ k.failed = FALSE
        /\ k.steps \in Seq(StepRow)
    BY <1>2, <2>1 DEF RunRow
  <2>3. Runs(r, k)
    BY <1>4
  <2> HIDE DEF k
  <2>4. Fatal(k) = {}
    BY <2>2 DEF Fatal
  <2>5. Len(k.results) = 0 /\ Len(k.steps) \in Nat /\ DOMAIN k.results = {}
    BY <2>2
  <2>6. TaskExplained(k)
    BY <2>2, <2>4, <2>5 DEF TaskExplained
  <2> QED BY <1>1, <1>2, <2>2, <2>3, <2>6, TaskGoesOn
<1> QED BY <1>3, <1>4 DEF Load

\* What a step makes of its task: done or raised, broken or not, with the locks it took.
StepOf(k) ==
  {Succeeded(k), Raised(k), Broken(Raised(k)),
   [Succeeded(k) EXCEPT !.status = "resolved", !.statusSet = TRUE],
   [Succeeded(k) EXCEPT !.keyAdded = TRUE]}

LEMMA StepExplained ==
  ASSUME NEW k \in RunRow, TaskExplained(k), k.pc = "step", Len(k.results) < Len(k.steps),
         NEW row \in StepOf(k)
  PROVE  row \in RunRow /\ TaskExplained(row) /\ DOMAIN row.results = 1..(Len(k.results) + 1)
<1>1. /\ Succeeded(k) \in RunRow /\ TaskExplained(Succeeded(k))
      /\ DOMAIN Succeeded(k).results = 1..(Len(k.results) + 1)
  BY StepDone
<1>2. /\ Raised(k) \in RunRow /\ TaskExplained(Raised(k))
      /\ DOMAIN Raised(k).results = 1..(Len(k.results) + 1)
  BY StepRaised
<1>3. CASE row = Succeeded(k)
  BY <1>1, <1>3
<1>4. CASE row = Raised(k)
  BY <1>2, <1>4
<1>5. CASE row = Broken(Raised(k))
  BY <1>2, <1>5, StepBroken
<1>6. ASSUME NEW s \in RunRow, s = Succeeded(k),
             \/ row = [s EXCEPT !.status = "resolved", !.statusSet = TRUE]
             \/ row = [s EXCEPT !.keyAdded = TRUE]
      PROVE  row \in RunRow /\ TaskExplained(row) /\ DOMAIN row.results = 1..(Len(k.results) + 1)
  <2>1. /\ row \in RunRow /\ row.results = s.results /\ row.done = s.done /\ row.steps = s.steps
        /\ row.failed = s.failed /\ row.pc = s.pc
    BY <1>6 DEF RunRow, AlertStatus
  <2>2. TaskExplained(row)
    BY <1>1, <1>6, <2>1, SameResults
  <2> QED BY <1>1, <1>6, <2>1, <2>2
<1> QED BY <1>1, <1>3, <1>4, <1>5, <1>6 DEF StepOf

LEMMA StepKeeps ==
  ASSUME PlaybookInv, NEW r \in Run, NEW actions, Acting(r, actions), NEW k \in StepOf(run[r]),
         Runs(r, k), UNCHANGED <<playbooks, alertStatus, recorded, applied>>,
         \/ sent' = sent
         \/ sent' = sent \cup {<<r, At(r)>>}
  PROVE  PlaybookInv'
<1>1. /\ run[r] \in RunRow /\ TaskExplained(run[r]) /\ run[r].pc = "step"
      /\ At(r) = Len(run[r].results) + 1 /\ At(r) <= Len(run[r].steps)
  BY RunOf DEF Acting, At
<1>2. Len(run[r].results) \in Nat /\ Len(run[r].steps) \in Nat
  BY <1>1 DEF RunRow
<1>3. Len(run[r].results) < Len(run[r].steps) /\ At(r) \in Nat
  BY <1>1, <1>2
<1>4. k \in RunRow /\ TaskExplained(k) /\ DOMAIN k.results = 1..(Len(run[r].results) + 1)
  BY <1>1, <1>3, StepExplained
<1>5. At(r) \in DOMAIN k.results /\ DOMAIN run[r].results \subseteq DOMAIN k.results
  <2>1. DOMAIN run[r].results = 1..Len(run[r].results)
    BY <1>1 DEF RunRow
  <2> QED BY <1>1, <1>2, <1>4, <2>1
<1> QED BY <1>1, <1>3, <1>4, <1>5, TaskGoesOn

LEMMA ActionKeeps ==
  ASSUME PlaybookInv, NEW r \in Run,
         Deliver(r) \/ UpdateAlertStatus(r) \/ AddWatchlist(r) \/ OtherAction(r) \/ Deadlocked(r)
  PROVE  PlaybookInv'
<1>1. UNCHANGED <<playbooks, alertStatus, recorded, applied>>
  BY DEF Deliver, UpdateAlertStatus, AddWatchlist, OtherAction, Deadlocked, UnchangedRows
<1>2. CASE Deliver(r)
  <2>1. Acting(r, {"send_webhook", "create_ticket"})
    BY <1>2 DEF Deliver
  <2>2. \/ Runs(r, Succeeded(run[r])) /\ sent' = sent \cup {<<r, At(r)>>}
        \/ Runs(r, Raised(run[r])) /\ sent' = sent \cup {<<r, At(r)>>}
        \/ Runs(r, Raised(run[r])) /\ sent' = sent
    BY <1>2 DEF Deliver
  <2> QED BY <1>1, <2>1, <2>2, StepKeeps DEF StepOf
<1>3. CASE UpdateAlertStatus(r)
  <2>1. Acting(r, {"update_alert_status"}) /\ sent' = sent
    BY <1>3 DEF UpdateAlertStatus
  <2>2. \E k \in StepOf(run[r]) : Runs(r, k)
    BY <1>3 DEF UpdateAlertStatus, StepOf
  <2> QED BY <1>1, <2>1, <2>2, StepKeeps
<1>4. CASE AddWatchlist(r)
  <2>1. Acting(r, {"add_to_watchlist"}) /\ sent' = sent
    BY <1>4 DEF AddWatchlist
  <2>2. \E k \in StepOf(run[r]) : Runs(r, k)
    BY <1>4 DEF AddWatchlist, StepOf
  <2> QED BY <1>1, <2>1, <2>2, StepKeeps
<1>5. CASE OtherAction(r)
  <2>1. Acting(r, {"create_case", "send_email", "other"}) /\ sent' = sent
    BY <1>5 DEF OtherAction
  <2>2. \E k \in StepOf(run[r]) : Runs(r, k)
    BY <1>5 DEF OtherAction, StepOf
  <2> QED BY <1>1, <2>1, <2>2, StepKeeps
<1>6. CASE Deadlocked(r)
  <2>1. \E s \in Run : Waits(r, s)
    BY <1>6 DEF Deadlocked
  <2>2. \E actions \in {{"update_alert_status"}, {"add_to_watchlist"}} : Acting(r, actions)
    BY <2>1 DEF Waits
  <2>3. sent' = sent /\ Runs(r, Broken(Raised(run[r])))
    BY <1>6 DEF Deadlocked
  <2> QED BY <1>1, <2>2, <2>3, StepKeeps DEF StepOf
<1> QED BY <1>2, <1>3, <1>4, <1>5, <1>6

\* The end of a task, with or without its commit.
LEMMA EndedRun ==
  ASSUME NEW k \in RunRow, TaskExplained(k)
  PROVE  LET row == [k EXCEPT !.pc = "ended"]
         IN /\ row \in RunRow /\ TaskExplained(row) /\ row.pc = "ended" /\ row.results = k.results
            /\ row.done = k.done /\ row.steps = k.steps /\ row.failed = k.failed
<1> DEFINE row == [k EXCEPT !.pc = "ended"]
<1>1. /\ row \in RunRow /\ row.pc = "ended" /\ row.results = k.results
      /\ row.done = k.done /\ row.steps = k.steps /\ row.failed = k.failed
  BY DEF RunRow
<1> HIDE DEF row
<1>2. TaskExplained(row)
  BY <1>1, SameResults
<1> QED BY <1>1, <1>2 DEF row

LEMMA FinishKeeps ==
  ASSUME PlaybookInv, NEW r \in Run, Finish(r)
  PROVE  PlaybookInv'
<1> DEFINE k == run[r]
           row == [k EXCEPT !.pc = "ended"]
           found == k.playbook \cap DOMAIN playbooks
<1>1. /\ k \in RunRow /\ TaskExplained(k) /\ RunExplained(r)
  BY RunOf
<1>2. Over(r) /\ Runs(r, row) /\ sent' = sent
  BY DEF Finish
<1>3. /\ row \in RunRow /\ TaskExplained(row) /\ row.pc = "ended" /\ row.results = k.results
      /\ row.done = k.done /\ row.steps = k.steps /\ row.failed = k.failed
  BY <1>1, EndedRun
<1> HIDE DEF row
<1>4. k.pc \in {"step", "finish"} /\ (k.failed \/ Len(k.results) = Len(k.steps))
  <2>1. Len(k.results) \in Nat /\ Len(k.steps) \in Nat
    BY <1>1 DEF RunRow
  <2> QED BY <1>1, <1>2, <2>1 DEF Over, At, TaskExplained
<1>5. CASE k.broken \/ found = {}
  <2>1. UNCHANGED <<playbooks, alertStatus, recorded, applied>>
    BY <1>5 DEF Finish
  <2> QED BY <1>2, <1>3, <1>4, <2>1, TaskGoesOn
<1>6. CASE ~ (k.broken \/ found = {})
  <2>1. /\ playbooks' = [p \in DOMAIN playbooks |-> IF p \in found
                THEN [playbooks[p] EXCEPT !.run_count = RunCount(k)] ELSE playbooks[p]]
        /\ alertStatus' = (IF k.statusSet THEN k.status ELSE alertStatus)
        /\ recorded' = [q \in DOMAIN recorded \cup {r} |-> IF q = r
                  THEN [playbook |-> k.playbook, steps |-> k.steps, results |-> k.results,
                        status |-> IF k.failed THEN "failed" ELSE "completed"]
                  ELSE recorded[q]]
        /\ applied' = applied \cup ({<<r, i>> : i \in k.done} \ sent)
    BY <1>6 DEF Finish
  <2>2. playbooks' \in UNION {[P -> PlaybookRow] : P \in SUBSET Playbook}
    <3>1. PICK P \in SUBSET Playbook : playbooks \in [P -> PlaybookRow]
      BY DEF PlaybookInv, PlaybookTyped
    <3>2. RunCount(k) \in Nat
      BY <1>1 DEF RunRow, RunCount
    <3>3. ASSUME NEW p \in P
          PROVE  /\ playbooks[p] \in PlaybookRow
                 /\ [playbooks[p] EXCEPT !.run_count = RunCount(k)] \in PlaybookRow
      BY <3>1, <3>2 DEF PlaybookRow
    <3>4. playbooks' \in [P -> PlaybookRow]
      BY <2>1, <3>1, <3>3
    <3> QED BY <3>4
  <2>3. alertStatus' \in AlertStatus
    BY <1>1, <2>1 DEF RunRow, PlaybookInv, PlaybookTyped
  <2>4. /\ run' \in [Run -> RunRow] /\ run'[r] = row
        /\ \A q \in Run : q # r => run'[q] = run[q]
    BY <1>2, <1>3, RunChanges
  <2>5. /\ r \in DOMAIN recorded' /\ recorded'[r].steps = k.steps /\ recorded'[r].results = k.results
        /\ recorded'[r].status = IF k.failed THEN "failed" ELSE "completed"
        /\ DOMAIN recorded' = DOMAIN recorded \cup {r}
        /\ \A q \in DOMAIN recorded : q # r => recorded'[q] = recorded[q]
    BY <2>1
  <2>6. k.done \subseteq Nat
    BY <1>1 DEF RunRow
  <2>7. /\ applied' \subseteq Run \X Nat
        /\ \A q \in Run : q # r => \A i \in Nat : <<q, i>> \in applied' <=> <<q, i>> \in applied
        /\ \A i \in Nat : <<r, i>> \in applied' => <<r, i>> \in applied \/ i \in k.done
        /\ \A i \in k.done : <<r, i>> \in applied' \cup sent
    BY <2>1, <2>6 DEF PlaybookInv
  <2>8. \A i \in Nat : (<<r, i>> \in sent => i \in DOMAIN k.results) /\ <<r, i>> \notin applied
    BY <1>1, <1>4 DEF RunExplained
  <2>9. RunExplained(r)'
    BY <1>2, <1>3, <1>4, <2>4, <2>5, <2>7, <2>8 DEF RunExplained
  <2>10. ASSUME NEW q \in Run, q # r
         PROVE  RunExplained(q)'
    BY <1>2, <2>4, <2>5, <2>7, <2>10, RunOf, RunStays
  <2>11. DOMAIN recorded' \subseteq Run
    BY <2>5 DEF PlaybookInv, PlaybookTyped
  <2> QED BY <1>2, <2>2, <2>3, <2>4, <2>7, <2>9, <2>10, <2>11 DEF PlaybookInv, PlaybookTyped
<1> QED BY <1>5, <1>6

LEMMA LoseKeeps ==
  ASSUME PlaybookInv, NEW lost \in SUBSET Live, Lose(lost)
  PROVE  PlaybookInv'
<1>1. /\ UNCHANGED <<playbooks, alertStatus, recorded, applied, sent>>
      /\ run' = [r \in Run |-> IF r \in lost THEN [run[r] EXCEPT !.pc = "ended"] ELSE run[r]]
  BY DEF Lose, UnchangedRows
<1>2. ASSUME NEW r \in Run
      PROVE  run'[r] \in RunRow /\ RunExplained(r)'
  <2>1. run[r] \in RunRow /\ TaskExplained(run[r]) /\ RunExplained(r)
    BY RunOf
  <2>2. CASE r \in lost
    <3> DEFINE row == [run[r] EXCEPT !.pc = "ended"]
    <3>1. row \in RunRow /\ TaskExplained(row) /\ row.done = run[r].done
      BY <2>1, EndedRun
    <3>2. run'[r] = row
      BY <1>1, <2>2
    <3> HIDE DEF row
    <3>3. run[r].pc # "ended"
      BY <2>2 DEF Live
    <3> QED BY <1>1, <2>1, <3>1, <3>2, <3>3 DEF RunExplained
  <2>3. CASE r \notin lost
    <3>1. run'[r] = run[r]
      BY <1>1, <2>3
    <3> QED BY <1>1, <2>1, <3>1, RunStays
  <2> QED BY <2>2, <2>3
<1>3. run' \in [Run -> RunRow]
  BY <1>1, <1>2
<1> QED BY <1>1, <1>2, <1>3 DEF PlaybookInv, PlaybookTyped

\* Administrators and analysts change no task, no record and nothing a run did.
LEMMA RowsOnlyKeep ==
  ASSUME PlaybookInv, UNCHANGED <<run, recorded, applied, sent>>,
         playbooks' \in UNION {[P -> PlaybookRow] : P \in SUBSET Playbook},
         alertStatus' \in AlertStatus
  PROVE  PlaybookInv'
<1>1. \A r \in Run : RunExplained(r)'
  BY RunOf, RunStays
<1> QED BY <1>1 DEF PlaybookInv, PlaybookTyped

LEMMA EditKeeps ==
  ASSUME PlaybookInv, EditPlaybooks
  PROVE  PlaybookInv'
<1>1. UNCHANGED <<alertStatus, run, recorded, applied, sent>>
  BY DEF EditPlaybooks
<1>2. PICK P \in SUBSET Playbook : playbooks \in [P -> PlaybookRow]
  BY DEF PlaybookInv, PlaybookTyped
<1>3. ASSUME NEW p \in Playbook, NEW def \in PlaybookDef,
             playbooks' =
               [q \in DOMAIN playbooks \cup {p} |-> IF q # p THEN playbooks[q] ELSE
                  [enabled |-> def.enabled, trigger |-> def.trigger, steps |-> def.steps,
                   run_count |-> IF p \in DOMAIN playbooks THEN playbooks[p].run_count ELSE 0]]
      PROVE  playbooks' \in [P \cup {p} -> PlaybookRow]
  <2> DEFINE n == IF p \in DOMAIN playbooks THEN playbooks[p].run_count ELSE 0
  <2>1. n \in Nat
    <3>1. p \in P => playbooks[p] \in PlaybookRow
      BY <1>2
    <3> QED BY <1>2, <3>1 DEF PlaybookRow
  <2> DEFINE new == [enabled |-> def.enabled, trigger |-> def.trigger, steps |-> def.steps,
                     run_count |-> n]
  <2>2. playbooks' = [q \in P \cup {p} |-> IF q # p THEN playbooks[q] ELSE new]
    BY <1>2, <1>3
  <2> HIDE DEF n
  <2>3. new \in PlaybookRow
    BY <2>1, PlaybookAssumption DEF PlaybookRow, StepRow
  <2> HIDE DEF new
  <2> QED BY <1>2, <2>2, <2>3
<1>4. ASSUME NEW p \in Playbook, playbooks' = Restrict(playbooks, DOMAIN playbooks \ {p})
      PROVE  playbooks' \in [P \ {p} -> PlaybookRow]
  BY <1>2, <1>4 DEF Restrict
<1>5. playbooks' \in UNION {[Q -> PlaybookRow] : Q \in SUBSET Playbook}
  <2>1. PICK p \in Playbook :
          playbooks' \in [P \cup {p} -> PlaybookRow] \/ playbooks' \in [P \ {p} -> PlaybookRow]
    BY <1>3, <1>4 DEF EditPlaybooks
  <2>2. P \cup {p} \in SUBSET Playbook /\ P \ {p} \in SUBSET Playbook
    OBVIOUS
  <2> QED BY <2>1, <2>2
<1> QED BY <1>1, <1>5, RowsOnlyKeep DEF PlaybookInv, PlaybookTyped

LEMMA PlaybookKeeps == PlaybookInv /\ [PlaybookNext]_playbookVars => PlaybookInv'
<1> SUFFICES ASSUME PlaybookInv, [PlaybookNext]_playbookVars
             PROVE  PlaybookInv'
  OBVIOUS
<1>1. CASE StopProcess
  BY <1>1, LoseKeeps DEF StopProcess
<1>2. ASSUME NEW r \in Run, FailCommit(r)
      PROVE  PlaybookInv'
  <2>1. {r} \in SUBSET Live
    BY <1>2 DEF FailCommit, Over, Live
  <2> QED BY <1>2, <2>1, LoseKeeps DEF FailCommit
<1>3. CASE EditDesk
  <2>1. UNCHANGED <<playbooks, run, recorded, applied, sent>> /\ alertStatus' \in AlertStatus
    BY <1>3 DEF EditDesk, AlertStatus, PlaybookInv, PlaybookTyped
  <2> QED BY <2>1, RowsOnlyKeep DEF PlaybookInv, PlaybookTyped
<1>4. CASE UNCHANGED playbookVars
  <2>1. UNCHANGED <<playbooks, alertStatus, run, recorded, applied, sent>>
    BY <1>4 DEF playbookVars
  <2> QED BY <2>1, RowsOnlyKeep DEF PlaybookInv, PlaybookTyped
<1>5. ASSUME NEW r \in Run, RunStep(r)
      PROVE  PlaybookInv'
  BY <1>5, LoadKeeps, ActionKeeps, FinishKeeps DEF RunStep
<1> QED BY <1>1, <1>2, <1>3, <1>4, <1>5, EvaluateKeeps, TriggerKeeps, EditKeeps DEF PlaybookNext

LEMMA PlaybookStarts == PlaybookInit => PlaybookInv
<1> SUFFICES ASSUME PlaybookInit
             PROVE  PlaybookInv
  OBVIOUS
<1>1. /\ playbooks = <<>> /\ alertStatus = "open" /\ run = [r \in Run |-> NoRun]
      /\ recorded = <<>> /\ applied = {} /\ sent = {}
  BY DEF PlaybookInit
<1>2. DOMAIN recorded = {} /\ playbooks \in [{} -> PlaybookRow] /\ {} \in SUBSET Playbook
  BY <1>1
<1>3. PlaybookTyped
  BY <1>1, <1>2, NoRunRow DEF PlaybookTyped, AlertStatus
<1>4. \A r \in Run : RunExplained(r)
  BY <1>1, <1>2, NoRunRow DEF RunExplained
<1> QED BY <1>1, <1>3, <1>4 DEF PlaybookInv

\* The record of a run and what it did agree, whatever was edited, deleted or lost meanwhile:
\* a step recorded as done took effect, one recorded as failed left no rows (a request may
\* have been delivered before it raised), one that is not listed did nothing, and the status
\* says why the run went on or stopped (playbook_engine.py:138-168).
THEOREM RunRecordsExplain == PlaybookSpec => []RecordsExplain
<1>1. ASSUME PlaybookInv
      PROVE  RecordsExplain
  <2>1. \A e \in applied : e[1] \in DOMAIN recorded
    BY <1>1 DEF PlaybookInv, RunExplained
  <2>2. ASSUME NEW r \in DOMAIN recorded
        PROVE  LET rec == recorded[r]
                   done == {i \in DOMAIN rec.results : rec.results[i]}
                   written == {i \in DOMAIN rec.steps : <<r, i>> \in applied}
                   delivered == {i \in DOMAIN rec.steps : <<r, i>> \in sent}
                   fatal == {i \in DOMAIN rec.results : ~rec.results[i] /\ rec.steps[i].stop}
               IN /\ written \subseteq done /\ done \subseteq written \cup delivered
                  /\ delivered \subseteq DOMAIN rec.results
                  /\ rec.status = "failed" => fatal = {Len(rec.results)}
                  /\ rec.status = "completed" => fatal = {} /\ Len(rec.results) = Len(rec.steps)
    <3> DEFINE k == run[r]
    <3>1. r \in Run
      BY <1>1 DEF PlaybookInv, PlaybookTyped
    <3>2. /\ k \in RunRow /\ TaskExplained(k) /\ RunExplained(r)
      BY <1>1, <3>1, RunOf
    <3>3. /\ recorded[r].steps = k.steps /\ recorded[r].results = k.results
          /\ recorded[r].status = IF k.failed THEN "failed" ELSE "completed"
          /\ k.failed \/ Len(k.results) = Len(k.steps)
      BY <3>2 DEF RunExplained
    <3>4. /\ DOMAIN k.results = 1..Len(k.results) /\ DOMAIN k.steps = 1..Len(k.steps)
          /\ Len(k.results) \in Nat /\ Len(k.steps) \in Nat /\ Len(k.results) <= Len(k.steps)
      BY <3>2 DEF RunRow, TaskExplained
    <3>5. k.done \subseteq DOMAIN k.steps
      BY <3>2, <3>4 DEF TaskExplained
    <3>6. /\ {i \in DOMAIN k.steps : <<r, i>> \in applied} \subseteq k.done
          /\ {i \in DOMAIN k.steps : <<r, i>> \in sent} \subseteq DOMAIN k.results
          /\ \A i \in k.done : i \in DOMAIN k.steps /\ <<r, i>> \in applied \cup sent
      BY <3>2, <3>4, <3>5 DEF RunExplained
    <3>7. Fatal(k) = {i \in DOMAIN k.results : ~k.results[i] /\ k.steps[i].stop}
      BY DEF Fatal
    <3> QED BY <3>2, <3>3, <3>6, <3>7 DEF TaskExplained
  <2> QED BY <2>1, <2>2 DEF RecordsExplain
<1> QED BY <1>1, PlaybookKeeps, PlaybookStarts, PTL DEF PlaybookSpec

-----------------------------------------------------------------------------
(* AssetInventory *)

AssetRow == [hostname : Hostname, cve_count : Nat]
EnrichmentTask ==
  [pc : {"new", "next", "check", "commit", "done"}, asset : AssetId \cup {NoAsset},
   todo : SUBSET Software, answer : SUBSET Cve, added : [Cve -> Nat],
   counted : BOOLEAN, count : Nat]

InventoryTyped ==
  /\ assets \in UNION {[A -> AssetRow] : A \in SUBSET AssetId}
  /\ DOMAIN software \subseteq Software
  /\ vulns \in [AssetId -> [Cve -> Nat]]
  /\ enrichment \in [Enrichment -> EnrichmentTask]
  /\ \A t \in Enrichment :
       enrichment[t].pc \in {"next", "check", "commit"} => enrichment[t].asset \in AssetId

\* A count that waits for its commit is one of rows that are there, and stay as long as
\* the asset does.
PendingIsBacked ==
  \A t \in Enrichment :
    enrichment[t].pc = "commit" /\ enrichment[t].asset \in DOMAIN assets =>
      enrichment[t].count <= RowsOf(enrichment[t].asset)

InventoryInv == InventoryTyped /\ CountIsBacked /\ PendingIsBacked

\* The rows of one asset are finitely many, and more of a CVE are not fewer in all.
LEMMA ListedIsFinite ==
  ASSUME NEW rows \in [Cve -> Nat]
  PROVE  IsFiniteSet(Listed(rows)) /\ Cardinality(Listed(rows)) \in Nat
<1> DEFINE part == [v \in Cve |-> {v} \X (1..rows[v])]
           parts == {{v} \X (1..rows[v]) : v \in Cve}
<1>1. part \in Surjection(Cve, parts)
  BY DEF Surjection
<1>2. IsFiniteSet(parts)
  <2> HIDE DEF part, parts
  <2> QED BY <1>1, FS_Surjection, InventoryAssumption
<1>3. ASSUME NEW p \in parts PROVE IsFiniteSet(p)
  <2>1. PICK v \in Cve : p = {v} \X (1..rows[v])
    OBVIOUS
  <2>2. rows[v] \in Int /\ 1 \in Int
    OBVIOUS
  <2>3. IsFiniteSet({v}) /\ IsFiniteSet(1..rows[v])
    BY <2>2, FS_Singleton, FS_Interval
  <2> QED BY <2>1, <2>3, FS_Product
<1>4. IsFiniteSet(UNION parts)
  <2> HIDE DEF part, parts
  <2> QED BY <1>2, <1>3, FS_UNION
<1> QED BY <1>4, FS_CardinalityType DEF Listed

LEMMA ListedGrows ==
  ASSUME NEW some \in [Cve -> Nat], NEW more \in [Cve -> Nat], \A v \in Cve : some[v] <= more[v]
  PROVE  Cardinality(Listed(some)) <= Cardinality(Listed(more))
<1>1. Listed(some) \subseteq Listed(more)
  <2> SUFFICES ASSUME NEW v \in Cve, NEW row \in {v} \X (1..some[v])
               PROVE  row \in {v} \X (1..more[v])
    BY DEF Listed
  <2>1. 1..some[v] \subseteq 1..more[v]
    OBVIOUS
  <2> QED BY <2>1
<1> QED BY <1>1, ListedIsFinite, FS_Subset

\* Assets come without rows, those that stay keep what backs their counts.
LEMMA AssetsChange ==
  ASSUME InventoryInv, InventoryTyped', UNCHANGED enrichment,
         \A a \in DOMAIN assets' :
           \/ a \in DOMAIN assets /\ assets'[a] = assets[a] /\ vulns'[a] = vulns[a]
           \/ assets'[a].cve_count = 0 /\ \A t \in Enrichment : enrichment[t].asset # a
  PROVE  InventoryInv'
<1>1. CountIsBacked'
  <2> SUFFICES ASSUME NEW a \in DOMAIN assets'
               PROVE  assets'[a].cve_count <= RowsOf(a)'
    BY DEF CountIsBacked
  <2>1. vulns'[a] \in [Cve -> Nat] /\ RowsOf(a)' \in Nat
    BY ListedIsFinite DEF InventoryTyped, RowsOf
  <2> QED BY <2>1 DEF InventoryInv, CountIsBacked, RowsOf
<1>2. PendingIsBacked'
  BY DEF InventoryInv, PendingIsBacked, RowsOf
<1> QED BY <1>1, <1>2 DEF InventoryInv

LEMMA AssetComes == ASSUME InventoryInv, CreateAsset PROVE InventoryInv'
<1>1. PICK a \in AssetId, h \in Hostname : InsertAsset(a, h)
  BY DEF CreateAsset
<1>2. UNCHANGED <<vulns, enrichment>>
  BY DEF CreateAsset
<1>3. DOMAIN assets \subseteq AssetId /\ \A b \in DOMAIN assets : assets[b] \in AssetRow
  BY DEF InventoryInv, InventoryTyped
<1>4. assets' \in [DOMAIN assets \cup {a} -> AssetRow]
  BY <1>1, <1>3 DEF InsertAsset, AssetRow
<1>5. InventoryTyped'
  BY <1>2, <1>3, <1>4 DEF InventoryInv, InventoryTyped, CreateAsset
<1>6. \A b \in DOMAIN assets' :
        \/ b \in DOMAIN assets /\ assets'[b] = assets[b] /\ vulns'[b] = vulns[b]
        \/ assets'[b].cve_count = 0 /\ \A t \in Enrichment : enrichment[t].asset # b
  BY <1>1, <1>2 DEF InsertAsset
<1> QED BY <1>2, <1>5, <1>6, AssetsChange

LEMMA AssetDeleted == ASSUME InventoryInv, NEW a \in AssetId, DeleteAsset(a) PROVE InventoryInv'
<1>1. /\ assets' = [b \in DOMAIN assets \ {a} |-> assets[b]]
      /\ vulns' = [vulns EXCEPT ![a] = NoCves] /\ UNCHANGED enrichment
      /\ DOMAIN software' \subseteq DOMAIN software
  BY DEF DeleteAsset, Restrict
<1>2. DOMAIN assets \subseteq AssetId /\ \A b \in DOMAIN assets : assets[b] \in AssetRow
  BY DEF InventoryInv, InventoryTyped
<1>3. assets' \in [DOMAIN assets \ {a} -> AssetRow]
  BY <1>1, <1>2
<1>4. NoCves \in [Cve -> Nat]
  BY DEF NoCves
<1>5. InventoryTyped'
  BY <1>1, <1>2, <1>3, <1>4 DEF InventoryInv, InventoryTyped
<1>6. \A b \in DOMAIN assets' :
        b \in DOMAIN assets /\ assets'[b] = assets[b] /\ vulns'[b] = vulns[b]
  BY <1>1, <1>2 DEF InventoryInv, InventoryTyped
<1> QED BY <1>1, <1>5, <1>6, AssetsChange

\* One task moves on: its new record has its shape, and what it counted is there.
LEMMA TaskMoves ==
  ASSUME InventoryInv, NEW t \in Enrichment, NEW k \in EnrichmentTask,
         enrichment' = [enrichment EXCEPT ![t] = k], UNCHANGED <<assets, software, vulns>>,
         k.pc \in {"next", "check", "commit"} => k.asset \in AssetId,
         k.pc = "commit" => k.count <= RowsOf(k.asset)
  PROVE  InventoryInv'
<1>1. /\ enrichment' \in [Enrichment -> EnrichmentTask] /\ enrichment'[t] = k
      /\ \A u \in Enrichment : u # t => enrichment'[u] = enrichment[u]
  BY DEF InventoryInv, InventoryTyped
<1>2. InventoryTyped'
  BY <1>1 DEF InventoryInv, InventoryTyped
<1>3. CountIsBacked' /\ PendingIsBacked'
  BY <1>1 DEF InventoryInv, CountIsBacked, PendingIsBacked, RowsOf
<1> QED BY <1>2, <1>3 DEF InventoryInv

LEMMA LookupAsked ==
  ASSUME InventoryInv, NEW t \in Enrichment, NEW a \in AssetId, ScanCves(t, a)
  PROVE  InventoryInv'
<1> DEFINE todo == {s \in DOMAIN software : software[s] = a}
           k == [enrichment[t] EXCEPT !.pc = "next", !.asset = a, !.todo = todo]
<1>1. enrichment[t] \in EnrichmentTask /\ todo \subseteq Software
  BY DEF InventoryInv, InventoryTyped
<1>2. k \in EnrichmentTask /\ k.pc = "next" /\ k.asset = a
  <2> HIDE DEF todo
  <2> QED BY <1>1 DEF EnrichmentTask
<1>3. enrichment' = [enrichment EXCEPT ![t] = k] /\ UNCHANGED <<assets, software, vulns>>
  BY DEF ScanCves
<1> HIDE DEF k
<1> QED BY <1>2, <1>3, TaskMoves

LEMMA SourceAsked ==
  ASSUME InventoryInv, NEW t \in Enrichment, QueryNvd(t)
  PROVE  InventoryInv'
<1>1. PICK s \in enrichment[t].todo : \E found \in SUBSET Nvd[s] :
        enrichment' = [enrichment EXCEPT ![t] =
          [enrichment[t] EXCEPT !.pc = "check", !.todo = @ \ {s}, !.answer = found]]
  BY DEF QueryNvd
<1>2. PICK found \in SUBSET Nvd[s] :
        enrichment' = [enrichment EXCEPT ![t] =
          [enrichment[t] EXCEPT !.pc = "check", !.todo = @ \ {s}, !.answer = found]]
  BY <1>1
<1> DEFINE k == [enrichment[t] EXCEPT !.pc = "check", !.todo = @ \ {s}, !.answer = found]
<1>3. enrichment[t] \in EnrichmentTask /\ enrichment[t].pc = "next" /\ enrichment[t].asset \in AssetId
  BY DEF InventoryInv, InventoryTyped, QueryNvd
<1>4. s \in Software /\ found \subseteq Cve
  BY <1>1, <1>2, <1>3, InventoryAssumption DEF EnrichmentTask
<1>5. k \in EnrichmentTask /\ k.pc = "check" /\ k.asset = enrichment[t].asset
  BY <1>3, <1>4 DEF EnrichmentTask
<1>6. enrichment' = [enrichment EXCEPT ![t] = k] /\ UNCHANGED <<assets, software, vulns>>
  <2>1. enrichment' = [enrichment EXCEPT ![t] = k]
    BY <1>2
  <2> QED BY <2>1 DEF QueryNvd
<1> HIDE DEF k
<1> QED BY <1>3, <1>5, <1>6, TaskMoves

LEMMA CveChecked ==
  ASSUME InventoryInv, NEW t \in Enrichment, CheckCve(t)
  PROVE  InventoryInv'
<1>1. /\ enrichment[t] \in EnrichmentTask /\ enrichment[t].pc = "check"
      /\ enrichment[t].asset \in AssetId /\ UNCHANGED <<assets, software, vulns>>
  BY DEF InventoryInv, InventoryTyped, CheckCve
<1>2. CASE enrichment' = [enrichment EXCEPT ![t].pc = "next"]
  <2> DEFINE k == [enrichment[t] EXCEPT !.pc = "next"]
  <2>1. k \in EnrichmentTask /\ k.pc = "next" /\ k.asset = enrichment[t].asset
    BY <1>1 DEF EnrichmentTask
  <2>2. enrichment' = [enrichment EXCEPT ![t] = k]
    BY <1>2
  <2> HIDE DEF k
  <2> QED BY <1>1, <2>1, <2>2, TaskMoves
<1>3. ASSUME NEW v \in enrichment[t].answer,
             enrichment' = [enrichment EXCEPT ![t] =
               Checked(enrichment[t], v, vulns[enrichment[t].asset][v])]
      PROVE  InventoryInv'
  <2>1. PICK k : k = Checked(enrichment[t], v, vulns[enrichment[t].asset][v])
    OBVIOUS
  <2>2. v \in Cve
    BY <1>1 DEF EnrichmentTask
  <2>3. PICK rows \in Nat : rows = vulns[enrichment[t].asset][v]
    BY <1>1, <2>2 DEF InventoryInv, InventoryTyped
  <2>4. k \in EnrichmentTask /\ k.pc = "check" /\ k.asset = enrichment[t].asset
    <3>1. PICK old \in EnrichmentTask : old = enrichment[t]
      BY <1>1
    <3>2. CASE rows = 0
      <4>1. k = [old EXCEPT !.answer = @ \ {v}, !.added = [old.added EXCEPT ![v] = @ + 1]]
        BY <2>1, <2>3, <3>1, <3>2 DEF Checked, EnrichmentTask
      <4>2. [old.added EXCEPT ![v] = @ + 1] \in [Cve -> Nat]
        BY <2>2 DEF EnrichmentTask
      <4> QED BY <1>1, <3>1, <4>1, <4>2 DEF EnrichmentTask
    <3>3. CASE rows # 0
      <4>1. k = [old EXCEPT !.answer = @ \ {v}] \/ k = [old EXCEPT !.answer = {}]
        BY <2>1, <2>3, <3>1, <3>3 DEF Checked
      <4> QED BY <1>1, <3>1, <4>1 DEF EnrichmentTask
    <3> QED BY <3>2, <3>3
  <2> QED BY <1>1, <1>3, <2>1, <2>4, TaskMoves
<1> QED BY <1>2, <1>3 DEF CheckCve

LEMMA RowsAreCounted ==
  ASSUME InventoryInv, NEW t \in Enrichment, CountRows(t)
  PROVE  InventoryInv'
<1>1. /\ enrichment[t] \in EnrichmentTask /\ enrichment[t].asset \in AssetId
      /\ UNCHANGED <<assets, software, vulns>>
  BY DEF InventoryInv, InventoryTyped, CountRows
<1>2. PICK n \in Nat : n = RowsOf(enrichment[t].asset)
  BY <1>1, ListedIsFinite DEF InventoryInv, InventoryTyped, RowsOf
<1>3. PICK counted \in BOOLEAN :
        enrichment' = [enrichment EXCEPT ![t] =
          [enrichment[t] EXCEPT !.counted = counted, !.count = n, !.pc = "commit"]]
  BY <1>2 DEF CountRows, Counted
<1> DEFINE k == [enrichment[t] EXCEPT !.counted = counted, !.count = n, !.pc = "commit"]
<1>4. k \in EnrichmentTask /\ k.asset = enrichment[t].asset /\ k.count = n
  BY <1>1 DEF EnrichmentTask
<1>5. k.count <= RowsOf(k.asset)
  BY <1>2, <1>4
<1>6. enrichment' = [enrichment EXCEPT ![t] = k]
  BY <1>3
<1> HIDE DEF k
<1> QED BY <1>1, <1>4, <1>5, <1>6, TaskMoves

\* The rows a task added join those that were there: what any task counted still is.
LEMMA LookupCommits ==
  ASSUME InventoryInv, NEW t \in Enrichment, CommitEnrichment(t)
  PROVE  InventoryInv'
<1>1. PICK a \in AssetId : a = enrichment[t].asset
  BY DEF InventoryInv, InventoryTyped, CommitEnrichment
<1>2. PICK n \in Nat : n = enrichment[t].count
  BY DEF InventoryInv, InventoryTyped, EnrichmentTask
<1>3. PICK added \in [Cve -> Nat] : added = enrichment[t].added
  BY DEF InventoryInv, InventoryTyped, EnrichmentTask
<1>4. PICK counted \in BOOLEAN : counted = enrichment[t].counted
  BY DEF InventoryInv, InventoryTyped, EnrichmentTask
<1>5. /\ enrichment[t].pc = "commit" /\ software' = software
      /\ assets' = IF a \in DOMAIN assets /\ counted
                   THEN [assets EXCEPT ![a].cve_count = n] ELSE assets
      /\ vulns' = IF a \in DOMAIN assets
                  THEN [vulns EXCEPT ![a] = [v \in Cve |-> @[v] + added[v]]] ELSE vulns
      /\ enrichment' = [enrichment EXCEPT ![t] = [NewTask EXCEPT !.pc = "done"]]
  BY <1>1, <1>2, <1>3, <1>4 DEF CommitEnrichment
<1>6. /\ enrichment' \in [Enrichment -> EnrichmentTask] /\ enrichment'[t].pc = "done"
      /\ \A u \in Enrichment : u # t => enrichment'[u] = enrichment[u]
  BY <1>5 DEF InventoryInv, InventoryTyped, NewTask, NoCves, EnrichmentTask
<1>7. /\ vulns' \in [AssetId -> [Cve -> Nat]]
      /\ \A b \in AssetId : \A v \in Cve : vulns[b][v] <= vulns'[b][v]
  BY <1>5 DEF InventoryInv, InventoryTyped
<1>8. \A b \in AssetId : RowsOf(b) \in Nat /\ RowsOf(b)' \in Nat /\ RowsOf(b) <= RowsOf(b)'
  <2> SUFFICES ASSUME NEW b \in AssetId
               PROVE  RowsOf(b) \in Nat /\ RowsOf(b)' \in Nat /\ RowsOf(b) <= RowsOf(b)'
    OBVIOUS
  <2>1. vulns[b] \in [Cve -> Nat] /\ vulns'[b] \in [Cve -> Nat]
    BY <1>7 DEF InventoryInv, InventoryTyped
  <2> QED BY <1>7, <2>1, ListedIsFinite, ListedGrows DEF RowsOf
<1>9. /\ DOMAIN assets' = DOMAIN assets /\ DOMAIN assets \subseteq AssetId
      /\ \A b \in DOMAIN assets :
           /\ assets[b] \in AssetRow /\ assets'[b] \in AssetRow
           /\ \/ assets'[b].cve_count = assets[b].cve_count
              \/ b = a /\ assets'[b].cve_count = n
  <2>1. DOMAIN assets \subseteq AssetId /\ assets \in [DOMAIN assets -> AssetRow]
    BY DEF InventoryInv, InventoryTyped
  <2> QED BY <1>5, <2>1 DEF AssetRow
<1>10. InventoryTyped'
  <2>1. assets' \in [DOMAIN assets -> AssetRow]
    <3>1. assets \in [DOMAIN assets -> AssetRow]
      BY DEF InventoryInv, InventoryTyped
    <3> QED BY <1>5, <1>9, <3>1
  <2> QED BY <1>5, <1>6, <1>7, <1>9, <2>1 DEF InventoryInv, InventoryTyped
<1>11. a \in DOMAIN assets => n <= RowsOf(a)
  BY <1>1, <1>2, <1>5 DEF InventoryInv, PendingIsBacked
<1>12. CountIsBacked'
  <2> SUFFICES ASSUME NEW b \in DOMAIN assets
               PROVE  assets'[b].cve_count <= RowsOf(b)'
    BY <1>9 DEF CountIsBacked
  <2>1. b \in AssetId /\ assets[b].cve_count \in Nat /\ assets[b].cve_count <= RowsOf(b)
    BY <1>9 DEF InventoryInv, CountIsBacked, AssetRow
  <2> QED BY <1>8, <1>9, <1>11, <2>1
<1>13. PendingIsBacked'
  <2> SUFFICES ASSUME NEW u \in Enrichment, enrichment'[u].pc = "commit",
                      NEW b \in DOMAIN assets', enrichment'[u].asset = b
               PROVE  enrichment'[u].count <= RowsOf(b)'
    BY DEF PendingIsBacked, RowsOf
  <2>1. u # t /\ enrichment'[u] = enrichment[u]
    BY <1>6
  <2>2. b \in DOMAIN assets /\ b = enrichment[u].asset
    BY <1>9, <2>1
  <2>3. enrichment[u].count \in Nat /\ enrichment[u].count <= RowsOf(b)
    BY <2>1, <2>2 DEF InventoryInv, InventoryTyped, EnrichmentTask, PendingIsBacked
  <2>4. enrichment[u].count <= RowsOf(b)'
    BY <1>8, <1>9, <2>3
  <2> QED BY <2>1, <2>4
<1> QED BY <1>10, <1>12, <1>13 DEF InventoryInv

LEMMA SoftwareAdded ==
  ASSUME InventoryInv, NEW a \in AssetId, NEW s \in Software, AddSoftware(s, a)
  PROVE  InventoryInv'
<1>1. InventoryTyped'
  BY DEF InventoryInv, InventoryTyped, AddSoftware
<1>2. UNCHANGED <<assets, vulns, enrichment>>
  BY DEF AddSoftware
<1> QED BY <1>1, <1>2 DEF InventoryInv, CountIsBacked, PendingIsBacked, RowsOf

LEMMA InventoryStarts == InventoryInit => InventoryInv
<1> SUFFICES ASSUME InventoryInit PROVE InventoryInv
  OBVIOUS
<1>1. DOMAIN assets = {} /\ assets \in [{} -> AssetRow] /\ DOMAIN software = {}
  BY DEF InventoryInit
<1>2. InventoryTyped
  BY <1>1 DEF InventoryInit, InventoryTyped, NewTask, NoCves, EnrichmentTask
<1>3. CountIsBacked /\ PendingIsBacked
  BY <1>1 DEF CountIsBacked, PendingIsBacked
<1> QED BY <1>2, <1>3 DEF InventoryInv

LEMMA InventoryGoesOn == InventoryInv /\ [InventoryNext]_inventoryVars => InventoryInv'
<1> SUFFICES ASSUME InventoryInv, [InventoryNext]_inventoryVars PROVE InventoryInv'
  OBVIOUS
<1>1. CASE UNCHANGED inventoryVars
  <2>1. UNCHANGED <<assets, software, vulns, enrichment>>
    BY <1>1 DEF inventoryVars
  <2> QED BY <2>1 DEF InventoryInv, InventoryTyped, CountIsBacked, PendingIsBacked, RowsOf
<1>2. ASSUME NEW t \in Enrichment, EnrichmentStep(t) \/ \E a \in AssetId : ScanCves(t, a)
      PROVE  InventoryInv'
  BY <1>2, SourceAsked, CveChecked, RowsAreCounted, LookupCommits, LookupAsked
     DEF EnrichmentStep
<1> QED BY <1>1, <1>2, AssetComes, AssetDeleted, SoftwareAdded DEF InventoryNext

\* Whichever lookups run at once, of however many CVEs, and whichever assets are deleted
\* under them: cve_count promises no more vulnerabilities than the table has.
THEOREM CountsAreBacked == InventorySpec => []CountIsBacked
<1>1. InventoryInv => CountIsBacked
  BY DEF InventoryInv
<1> QED BY <1>1, InventoryStarts, InventoryGoesOn, PTL DEF InventorySpec

-----------------------------------------------------------------------------
(* NetworkScanner and AssetInventory together *)

\* A scan inserts the assets it finds as any request does, and a deletion takes the links
\* of the scan's rows with it and nothing else.
LEMMA ScannerStepIsInventoryStep ==
  ASSUME ScannerInv, [ScannerNext \/ InventoryWork]_scannerVars
  PROVE  [InventoryNext]_inventoryVars
<1>1. ASSUME NEW s \in Scan, CreateScan(s) \/ ScanStep(s) \/ FailScan(s) \/ LoseScan(s)
      PROVE  [InventoryNext]_inventoryVars
  <2>1. CASE RecordHost(s)
    <3>1. CASE UNCHANGED inventoryVars
      BY <3>1
    <3>2. ASSUME NEW a \in Unread, NEW ip \in scanTask[s].ip, InsertAsset(a, NameOf[ip]),
                 UNCHANGED <<software, vulns, enrichment>>
          PROVE  CreateAsset
      <4>1. a \in AssetId
        BY DEF Unread
      <4>2. NameOf[ip] \in Hostname
        BY <2>1, ScannerAssumption DEF RecordHost, ScannerInv, TargetsLeft
      <4> QED BY <3>2, <4>1, <4>2 DEF CreateAsset
    <3> QED BY <2>1, <3>1, <3>2 DEF RecordHost, InventoryNext
  <2>2. CASE ~ RecordHost(s)
    <3>1. UNCHANGED inventoryVars
      BY <1>1, <2>2 DEF CreateScan, ScanStep, FailScan, LoseScan, StartBackgroundScan, BeginScan,
         ScanHost, ClashHost, FinishScan
    <3> QED BY <3>1
  <2> QED BY <2>1, <2>2
<1>2. CASE ScannerCrash
  BY <1>2 DEF ScannerCrash
<1>3. CASE AssetAppears
  BY <1>3, ScannerAssumption DEF AssetAppears, Unread, InventoryNext, CreateAsset
<1>4. ASSUME NEW a \in AssetId, AssetGoes(a) PROVE InventoryNext
  BY <1>4 DEF AssetGoes, InventoryNext
<1>5. CASE InventoryWork
  BY <1>5 DEF InventoryWork, Unread, InventoryNext, CreateAsset
<1>6. CASE UNCHANGED scannerVars
  BY <1>6 DEF scannerVars, inventoryVars
<1> QED BY <1>1, <1>2, <1>3, <1>4, <1>5, <1>6 DEF ScannerNext

LEMMA EstateStep ==
  ASSUME ScannerInv, InventoryInv, [ScannerNext \/ InventoryWork]_scannerVars
  PROVE  ScannerInv' /\ InventoryInv'
<1>1. InventoryInv'
  BY ScannerStepIsInventoryStep, InventoryGoesOn
<1>2. CASE InventoryWork
  <2>1. DOMAIN assets' \subseteq AssetId
    BY <1>1 DEF InventoryInv, InventoryTyped
  <2> QED BY <1>1, <1>2, <2>1, ScanOthersKeep DEF InventoryWork
<1>3. CASE [ScannerNext]_scannerVars
  BY <1>1, <1>3, ScannerKeeps
<1> QED BY <1>2, <1>3

LEMMA EstateAlways == EstateSpec => [](ScannerInv /\ InventoryInv)
<1>1. ScannerInit => ScannerInv /\ InventoryInv
  BY ScannerStarts, InventoryStarts DEF ScannerInit
<1>2. ScannerInv /\ InventoryInv /\ [ScannerNext \/ InventoryWork]_scannerVars
        => (ScannerInv /\ InventoryInv)'
  BY EstateStep
<1> QED BY <1>1, <1>2, PTL DEF EstateSpec

\* Scans and lookups that run at once over assets that come and go leave each other's
\* numbers true: the counters of a scan are its rows, and cve_count promises no more
\* vulnerabilities than the table has.
THEOREM EstateNumbersAreTrue == EstateSpec => [](CountersAreRows /\ CountIsBacked)
<1>1. ScannerInv /\ InventoryInv => CountersAreRows /\ CountIsBacked
  BY CountersFollow DEF InventoryInv
<1> QED BY <1>1, EstateAlways, PTL

\* Scans, and all that others do beside them, are a behaviour of the inventory: what holds
\* of it holds under every scanner (network_scanner.py:229-257).
THEOREM EstateIsAnInventory == EstateSpec => InventorySpec
<1>1. ScannerInit => InventoryInit
  BY DEF ScannerInit
<1>2. ScannerInv /\ [ScannerNext \/ InventoryWork]_scannerVars => [InventoryNext]_inventoryVars
  BY ScannerStepIsInventoryStep
<1> QED BY <1>1, <1>2, EstateAlways, PTL DEF EstateSpec, InventorySpec
=============================================================================
