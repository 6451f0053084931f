------------------------------ MODULE OidcLogin ------------------------------
(* routers/auth_oidc.py over services/redis_client.py: the verifier of a login *)
(* waits in Redis for the callback, and every failure of Redis is suppressed.  *)
EXTENDS Integers, FiniteSets

CONSTANTS
  Login,           \* requests to /login, each with its state and verifier
  Callback,        \* requests to /callback
  MaxConfigEdits, MaxRedisFaults   \* bounds

ASSUME OidcAssumption == MaxConfigEdits \in Nat /\ MaxRedisFaults \in Nat /\ Login \cap Callback = {}

VARIABLES
  config,      \* the provider's row in sso_configs: "none", "enabled", "disabled"
  client,      \* RedisClient._client is set
  available,   \* RedisClient._available: "unknown", "yes", "no"
  kept,        \* logins whose state is a key in Redis
  task,        \* [Login \cup Callback -> record]: the requests
  redeemed,    \* [Login -> Nat]: times its verifier went to the token endpoint
  spoilt,      \* history: logins with callbacks that overlapped, or a key not deleted
  lapsed,      \* history: logins whose key expired
  configEdits, redisFaults

oidcVars == <<config, client, available, kept, task, redeemed, spoilt, lapsed, configEdits, redisFaults>>
redisState == <<client, available>>

\* A login is its own; a callback's login is that of the state it brings.
NoLogin == [pc |-> "idle", of |-> {}, op |-> "none", verifier |-> FALSE]

OidcInit ==
  /\ config = "none" /\ client = FALSE /\ available = "unknown"
  /\ kept = {} /\ task = [t \in Login \cup Callback |-> NoLogin]
  /\ redeemed = [l \in Login |-> 0] /\ spoilt = {} /\ lapsed = {}
  /\ configEdits = 0 /\ redisFaults = 0

Becomes(t, row) == task' = [task EXCEPT ![t] = row]
Faulty == redisFaults < MaxRedisFaults /\ redisFaults' = redisFaults + 1

-----------------------------------------------------------------------------
\* Admin edits of the provider's row, whose name is unique.
EditConfig ==
  /\ configEdits < MaxConfigEdits /\ configEdits' = configEdits + 1
  /\ \/ config = "none" /\ config' \in {"enabled", "disabled"}           \* create_config
     \/ config # "none" /\ config' \in {"enabled", "disabled", "none"}   \* update, delete
  /\ UNCHANGED <<redisState, kept, task, redeemed, spoilt, lapsed, redisFaults>>

\* _get_provider: 404 unless the row is there and enabled.
Admits(t, row) == Becomes(t, IF config = "enabled" THEN row ELSE [row EXCEPT !.pc = "not_found"])

\* oidc_login up to its setex.
BeginLogin(l) ==
  /\ task[l].pc = "idle"
  /\ Admits(l, [NoLogin EXCEPT !.pc = "client", !.of = {l}, !.op = "setex"])
  /\ UNCHANGED <<config, redisState, kept, redeemed, spoilt, lapsed, configEdits, redisFaults>>

\* oidc_callback up to its get, for a login whose browser was redirected.
Active(t) == task[t].pc \in {"client", "probe", "use", "exchange"}
BeginCallback(t) ==
  /\ task[t].pc = "idle"
  /\ \E l \in Login :
       /\ task[l].pc = "redirected"
       /\ Admits(t, [NoLogin EXCEPT !.pc = "client", !.of = {l}, !.op = "get"])
       /\ spoilt' = IF \E u \in Callback : Active(u) /\ task[u].of = {l} THEN spoilt \cup {l} ELSE spoilt
  /\ UNCHANGED <<config, redisState, kept, redeemed, lapsed, configEdits, redisFaults>>

\* The operation returned; "found" is what a get returned. Login: redirect whatever
\* happened. Callback: delete a key that was found, then the token exchange.
After_Kept(t, found) ==
  CASE task[t].op = "setex" -> [task[t] EXCEPT !.pc = "redirected"]
    [] OTHER -> [task[t] EXCEPT !.pc = "exchange", !.verifier = @ \/ found]
After(t, found) ==
  CASE task[t].op = "setex" -> [task[t] EXCEPT !.pc = "redirected"]
    [] task[t].op = "get" /\ found -> [task[t] EXCEPT !.pc = "client", !.op = "delete", !.verifier = TRUE]
    [] OTHER -> [task[t] EXCEPT !.pc = "exchange"]

\* An operation that does not reach Redis: _NoopRedis, or an error that is suppressed.
Nothing(t) == /\ Becomes(t, After(t, FALSE)) /\ UNCHANGED kept
              /\ spoilt' = IF task[t].op = "delete" THEN spoilt \cup task[t].of ELSE spoilt

\* _get_client. Whoever finds _client set uses it, probed or not.
Off_Unproved == available # "yes" /\ (client \/ available = "no")
Off == available = "no"
GetClient(t) ==
  /\ task[t].pc = "client"
  /\ \/ Off /\ Nothing(t) /\ UNCHANGED client
     \/ ~Off /\ ~client /\ client' = TRUE
        /\ Becomes(t, [task[t] EXCEPT !.pc = "probe"]) /\ UNCHANGED <<kept, spoilt>>
     \/ ~Off /\ client
        /\ Becomes(t, [task[t] EXCEPT !.pc = "use"]) /\ UNCHANGED <<client, kept, spoilt>>
  /\ UNCHANGED <<config, available, redeemed, lapsed, configEdits, redisFaults>>

\* The ping of the first use: its failure turns Redis off for good.
Probe(t) ==
  /\ task[t].pc = "probe"
  /\ \/ /\ available' = "yes" /\ Becomes(t, [task[t] EXCEPT !.pc = "use"])
        /\ UNCHANGED <<client, kept, spoilt, redisFaults>>
     \/ Faulty /\ available' = "no" /\ client' = FALSE /\ Nothing(t)
  /\ UNCHANGED <<config, redeemed, lapsed, configEdits>>

\* setex, get and delete at the server; an answer may be lost with its request or alone.
Stored(t) == CASE task[t].op = "setex" -> kept \cup task[t].of
               [] task[t].op = "delete" -> kept \ task[t].of
               [] OTHER -> kept
UseRedis(t) ==
  /\ task[t].pc = "use"
  /\ \/ /\ kept' = Stored(t) /\ Becomes(t, After(t, task[t].of \subseteq kept))
        /\ UNCHANGED <<spoilt, redisFaults>>
     \/ Faulty /\ kept' = Stored(t) /\ Becomes(t, After(t, FALSE)) /\ UNCHANGED spoilt
     \/ Faulty /\ Nothing(t)
  /\ UNCHANGED <<config, redisState, redeemed, lapsed, configEdits>>

\* The token exchange, and the user's name from its answer. The provider was sent the
\* challenge in every login, so it takes no code without the verifier.
Exchange(t) ==
  /\ task[t].pc = "exchange"
  /\ \E outcome \in {"in", "refused"} :
       /\ outcome = "in" => task[t].verifier
       /\ Becomes(t, [task[t] EXCEPT !.pc = outcome])
  /\ redeemed' = [l \in Login |-> IF l \in task[t].of /\ task[t].verifier THEN redeemed[l] + 1 ELSE redeemed[l]]
  /\ UNCHANGED <<config, redisState, kept, spoilt, lapsed, configEdits, redisFaults>>

\* The key's 300 seconds are over.
Expire(l) == /\ l \in kept /\ kept' = kept \ {l} /\ lapsed' = lapsed \cup {l}
             /\ UNCHANGED <<config, redisState, task, redeemed, spoilt, configEdits, redisFaults>>

\* A restart: requests are lost, the client is new, Redis keeps its keys.
OidcCrash ==
  /\ Faulty /\ client' = FALSE /\ available' = "unknown"
  /\ task' = [t \in DOMAIN task |-> IF Active(t) THEN [task[t] EXCEPT !.pc = "lost"] ELSE task[t]]
  /\ UNCHANGED <<config, kept, redeemed, spoilt, lapsed, configEdits>>

TaskStep(t) == GetClient(t) \/ Probe(t) \/ UseRedis(t) \/ Exchange(t)

OidcNext ==
  \/ EditConfig \/ OidcCrash
  \/ \E l \in Login : BeginLogin(l) \/ Expire(l)
  \/ \E t \in Callback : BeginCallback(t)
  \/ \E t \in Login \cup Callback : TaskStep(t)

OidcSpec == OidcInit /\ [][OidcNext]_oidcVars

-----------------------------------------------------------------------------
\* Every variable keeps its shape; Redis that was found available has a client.
OidcTypeOK ==
  /\ config \in {"none", "enabled", "disabled"} /\ client \in BOOLEAN
  /\ available \in {"unknown", "yes", "no"} /\ (available = "yes" => client) /\ (available = "no" => ~client)
  /\ kept \cup spoilt \cup lapsed \subseteq Login /\ redeemed \in [Login -> Nat]
  /\ \A t \in DOMAIN task : task[t].pc \in {"idle", "client", "probe", "use", "redirected", "exchange",
                                            "in", "refused", "not_found", "lost"}
  /\ \A t \in DOMAIN task : task[t].of \subseteq Login /\ task[t].op \in {"none", "setex", "get", "delete"}

\* A login's verifier is redeemed at most once, unless two callbacks for it overlapped or Redis
\* lost the deletion, which nobody learns of (auth_oidc.py:185-194).
VerifierOnce == \A l \in Login \ spoilt : redeemed[l] <= 1

\* A callback that the provider turned away for lack of the verifier came too late, was not
\* the only one for its login, or met a Redis or a process that failed: sharing a client that
\* is still being probed loses no login (redis_client.py:98-125).
LoginsFinish ==
  \A t \in Callback :
    task[t].pc = "refused" /\ ~task[t].verifier
      => \/ redisFaults > 0 \/ task[t].of \subseteq lapsed
         \/ \E u \in Callback \ {t} : task[u].of = task[t].of
=============================================================================
