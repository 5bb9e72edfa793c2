---------------------------- MODULE ClientRegistry ----------------------------
(***************************************************************************)
(* The HTTP clients of the CloudMail instances (cloudmail_provider.py):    *)
(* CloudMailProviderRegistry, which keeps one client per instance and      *)
(* replaces it when the configuration differs, and the token each client   *)
(* shares between the calls that use it; with the administrator's change   *)
(* and test of an instance (repository.py, admin_api.py, main.py).         *)
(*                                                                         *)
(* A task is one call that uses a client: addUser, emailList (which        *)
(* get_verification_code repeats with the configuration it read at first)  *)
(* or the connection test.  Tasks are interrupted where the code awaits:   *)
(* the two locks, the close of a client and every HTTP request.            *)
(***************************************************************************)
EXTENDS Naturals, Sequences, FiniteSets

CONSTANTS
    Tasks,
    Instances,
    MaxClients,     \* bound: clients made before calls stop repeating
    MaxUpdates,     \* bound: changes of an instance's configuration
    MaxDeaths,      \* bound: tokens that end other than by a newer token
    MaxCancels,     \* bound: cancelled calls
    NoTask, NoCall, NoClient, NoToken

(* Everything in the row but its health is one version number; the         *)
(* registry compares both.                                                 *)
Config == [version : Nat, health : {"unknown", "healthy", "unhealthy"}]
Token == Nat \union {NoToken}
Client == [config : Config, open : BOOLEAN, token : Token, expired : BOOLEAN,
           busy : Tasks \union {NoTask}]
Call == [instance : Instances, config : Config, test : BOOLEAN,
         client : Nat, token : Token, retried : BOOLEAN]
Entry == [config : Config, client : Nat]

ASSUME RegistryAssumption ==
    /\ NoTask \notin Tasks /\ NoCall \notin Call /\ NoClient \notin Entry
    /\ {MaxClients, MaxUpdates, MaxDeaths, MaxCancels} \subseteq Nat
    /\ NoToken \notin Nat
    /\ IsFiniteSet(Tasks)

VARIABLES
    config,     \* config[i]: the row of the instance in cloudmail_instances
    cached,     \* registry._clients
    registry,   \* the task that holds registry._lock
    clients,    \* the CloudMailInstanceClient objects, in order of creation
    valid,      \* valid[i]: the one token CloudMail accepts
    issued,     \* tokens issued so far
    pc, call,   \* stage and local variables of a task
    events      \* what happened so far: bounds and premises of properties

registryVars == <<config, cached, registry, clients, valid, issued, pc, call, events>>

(* "gen": genToken is sent; "answer": CloudMail has issued the token and   *)
(* its answer is on the way.                                               *)
Stages == {"idle", "want", "closing", "token", "gen", "answer", "post", "retoken", "done"}
Refreshing(t) == pc[t] \in {"gen", "answer"}

RegistryTypeOK ==
    /\ config \in [Instances -> Config]
    /\ cached \in [Instances -> Entry \union {NoClient}]
    /\ registry \in Tasks \union {NoTask}
    /\ clients \in Seq(Client)
    /\ valid \in [Instances -> Token]
    /\ issued \in Nat
    /\ pc \in [Tasks -> Stages]
    /\ call \in [Tasks -> Call \union {NoCall}]
    /\ \A t \in Tasks : pc[t] # "idle" => call[t] # NoCall
    /\ events \in [updates : Nat, deaths : Nat, cancels : Nat, tests : Nat]

RegistryInit ==
    /\ config = [i \in Instances |-> [version |-> 0, health |-> "unknown"]]
    /\ cached = [i \in Instances |-> NoClient]
    /\ registry = NoTask
    /\ clients = <<>>
    /\ valid = [i \in Instances |-> NoToken]
    /\ issued = 0
    /\ pc = [t \in Tasks |-> "idle"]
    /\ call = [t \in Tasks |-> NoCall]
    /\ events = [updates |-> 0, deaths |-> 0, cancels |-> 0, tests |-> 0]

-----------------------------------------------------------------------------
Goto(t, s) == pc' = [pc EXCEPT ![t] = s]
MyClient(t) == clients[call[t].client]

(* The call reads its instance's configuration (or the administrator asks  *)
(* for a test of it).                                                      *)
Start(t, i, test) ==
    /\ pc[t] = "idle"
    /\ Goto(t, "want")
    /\ call' = [call EXCEPT ![t] = [instance |-> i, config |-> config[i], test |-> test,
                                    client |-> 0, token |-> NoToken, retried |-> FALSE]]
    /\ events' = [events EXCEPT !.tests = IF test THEN @ + 1 ELSE @]
    /\ UNCHANGED <<config, cached, registry, clients, valid, issued>>

(* Mutant: any client of the instance will do.                             *)
HitAny(t) == cached[call[t].instance] # NoClient

(* The cached client is of the configuration the call has read.            *)
Hit(t) == LET entry == cached[call[t].instance] IN
    entry # NoClient /\ entry.config = call[t].config

UseCached(t) ==
    /\ pc[t] = "want" /\ registry = NoTask
    /\ Hit(t)
    /\ call' = [call EXCEPT ![t].client = cached[call[t].instance].client]
    /\ Goto(t, "token")
    /\ UNCHANGED <<config, cached, registry, clients, valid, issued, events>>

(* A new client is made, cached and handed out.                            *)
Install(t) ==
    /\ clients' = Append(clients, [config |-> call[t].config, open |-> TRUE,
                                   token |-> NoToken, expired |-> FALSE, busy |-> NoTask])
    /\ cached' = [cached EXCEPT ![call[t].instance] =
                    [config |-> call[t].config, client |-> Len(clients) + 1]]
    /\ call' = [call EXCEPT ![t].client = Len(clients) + 1]
    /\ registry' = NoTask
    /\ Goto(t, "token")
    /\ UNCHANGED <<config, valid, issued, events>>

FirstClient(t) ==
    /\ pc[t] = "want" /\ registry = NoTask
    /\ cached[call[t].instance] = NoClient
    /\ Install(t)

(* Mutant: the new client is put in place without closing the old one.     *)
BeginReplaceOpen(t) ==
    /\ pc[t] = "want" /\ registry = NoTask
    /\ cached[call[t].instance] # NoClient /\ ~Hit(t)
    /\ Install(t)

(* The cached client is of another configuration: it is closed first; its  *)
(* close is awaited with the registry's lock held.                         *)
BeginReplace(t) ==
    /\ pc[t] = "want" /\ registry = NoTask
    /\ cached[call[t].instance] # NoClient /\ ~Hit(t)
    /\ clients' = [clients EXCEPT ![cached[call[t].instance].client].open = FALSE]
    /\ registry' = t
    /\ Goto(t, "closing")
    /\ UNCHANGED <<config, cached, valid, issued, call, events>>

(* Mutant: the old client is handed out after it was closed.               *)
EndReplaceOld(t) ==
    /\ pc[t] = "closing"
    /\ registry' = NoTask
    /\ call' = [call EXCEPT ![t].client = cached[call[t].instance].client]
    /\ Goto(t, "token")
    /\ UNCHANGED <<config, cached, clients, valid, issued, events>>

EndReplace(t) == pc[t] = "closing" /\ Install(t)

-----------------------------------------------------------------------------
(* Mutant: a rejected token always leads to a refresh.                     *)
UsableOnce(t) ==
    /\ MyClient(t).token # NoToken /\ ~MyClient(t).expired
    /\ pc[t] # "retoken" /\ ~call[t].test

(* The client's token may be used, unless it is the one just rejected.     *)
Usable(t) ==
    /\ MyClient(t).token # NoToken /\ ~MyClient(t).expired
    /\ IF pc[t] = "retoken" THEN MyClient(t).token # call[t].token ELSE ~call[t].test

(* get_token, from the cache.                                              *)
UseToken(t) ==
    /\ pc[t] \in {"token", "retoken"} /\ MyClient(t).busy = NoTask
    /\ Usable(t)
    /\ call' = [call EXCEPT ![t].token = MyClient(t).token]
    /\ Goto(t, "post")
    /\ UNCHANGED <<config, cached, registry, clients, valid, issued, events>>

(* Mutant: the request is sent without the lock.                           *)
BeginGenUnlocked(t) ==
    /\ pc[t] \in {"token", "retoken"}
    /\ ~Usable(t) /\ MyClient(t).open
    /\ Goto(t, "gen")
    /\ UNCHANGED <<config, cached, registry, clients, valid, issued, call, events>>

(* get_token has no token to return.                                       *)
NeedsToken(t) ==
    pc[t] \in {"token", "retoken"} /\ MyClient(t).busy = NoTask /\ ~Usable(t)

(* It has to ask CloudMail, and keeps the token lock meanwhile.            *)
BeginGen(t) ==
    /\ NeedsToken(t) /\ MyClient(t).open
    /\ clients' = [clients EXCEPT ![call[t].client].busy = t]
    /\ Goto(t, "gen")
    /\ UNCHANGED <<config, cached, registry, valid, issued, call, events>>

(* CloudMail issues a token, which ends the one before; it does so even if *)
(* the client that asked for it has been closed meanwhile.                 *)
CloudIssues(t) ==
    /\ pc[t] = "gen"
    /\ issued' = issued + 1
    /\ valid' = [valid EXCEPT ![call[t].instance] = issued + 1]
    /\ call' = [call EXCEPT ![t].token = issued + 1]
    /\ Goto(t, "answer")
    /\ UNCHANGED <<config, cached, registry, clients, events>>

(* The test records its verdict about the instance.                        *)
Verdict(t, health) ==
    config' = IF call[t].test THEN [config EXCEPT ![call[t].instance].health = health]
              ELSE config

(* The new token arrives and is stored.  A client that is closed meanwhile *)
(* loses its connections, and the answer with them.                        *)
EndGen(t) ==
    /\ pc[t] = "answer" /\ MyClient(t).open
    /\ clients' = [clients EXCEPT ![call[t].client].token = call[t].token,
                                  ![call[t].client].expired = FALSE,
                                  ![call[t].client].busy = NoTask]
    /\ Goto(t, IF call[t].test THEN "done" ELSE "post")
    /\ Verdict(t, "healthy")
    /\ UNCHANGED <<cached, registry, valid, issued, call, events>>

(* Mutant: the lock is kept on the way out.                                *)
Locked(t) == clients

Unlocked(t) == IF Refreshing(t)
               THEN [clients EXCEPT ![call[t].client].busy = NoTask] ELSE clients

(* A token whose answer nobody waits for any more ends unused.             *)
Deaths(t) == events.deaths + (IF pc[t] = "answer" THEN 1 ELSE 0)

(* genToken fails: refused, no answer in time, or the client was closed    *)
(* (before genToken, when nothing is sent, or meanwhile).                  *)
GenFails(t) ==
    /\ Refreshing(t) \/ (NeedsToken(t) /\ ~MyClient(t).open)
    /\ events' = [events EXCEPT !.deaths = Deaths(t)]
    /\ clients' = Unlocked(t)
    /\ Goto(t, "done")
    /\ Verdict(t, "unhealthy")
    /\ UNCHANGED <<cached, registry, valid, issued, call>>

(* CloudMail accepts the token: the call has its answer; get_verification_ *)
(* code may go round once more with the configuration it has.              *)
Accepted(t, again) ==
    /\ pc[t] = "post" /\ MyClient(t).open
    /\ call[t].token = valid[call[t].instance]
    /\ again => Len(clients) < MaxClients
    /\ Goto(t, IF again THEN "want" ELSE "done")
    /\ call' = [call EXCEPT ![t].retried = FALSE, ![t].token = NoToken]
    /\ UNCHANGED <<config, cached, registry, clients, valid, issued, events>>

(* CloudMail rejects the token: once, another one is tried.                *)
Rejected(t) ==
    /\ pc[t] = "post" /\ MyClient(t).open
    /\ call[t].token # valid[call[t].instance]
    /\ Goto(t, IF call[t].retried THEN "done" ELSE "retoken")
    /\ call' = [call EXCEPT ![t].retried = TRUE]
    /\ UNCHANGED <<config, cached, registry, clients, valid, issued, events>>

(* The request fails: no answer, an error, or the client was closed.       *)
PostFails(t) ==
    /\ pc[t] = "post"
    /\ Goto(t, "done")
    /\ UNCHANGED <<config, cached, registry, clients, valid, issued, call, events>>

-----------------------------------------------------------------------------
(* The call is cancelled while it waits; locks are released on the way.    *)
Cancel(t) ==
    /\ pc[t] \notin {"idle", "done"}
    /\ events.cancels < MaxCancels
    /\ events' = [events EXCEPT !.cancels = @ + 1, !.deaths = Deaths(t)]
    /\ registry' = IF registry = t THEN NoTask ELSE registry
    /\ clients' = Unlocked(t)
    /\ Goto(t, "done")
    /\ UNCHANGED <<config, cached, valid, issued, call>>

(* update_instance; the health recorded about the old configuration stays. *)
UpdateInstance(i) ==
    /\ events.updates < MaxUpdates
    /\ events' = [events EXCEPT !.updates = @ + 1]
    /\ config' = [config EXCEPT ![i].version = @ + 1]
    /\ UNCHANGED <<cached, registry, clients, valid, issued, pc, call>>

(* CloudMail's token ends: a restart, another user of genToken, or a       *)
(* genToken that was answered too late.                                    *)
Invalidate(i) ==
    /\ events.deaths < MaxDeaths /\ valid[i] # NoToken
    /\ events' = [events EXCEPT !.deaths = @ + 1]
    /\ valid' = [valid EXCEPT ![i] = NoToken]
    /\ UNCHANGED <<config, cached, registry, clients, issued, pc, call>>

(* token_cache_seconds pass for the token of client c.                     *)
ExpireToken(c) ==
    /\ events.deaths < MaxDeaths
    /\ clients[c].token # NoToken /\ ~clients[c].expired
    /\ events' = [events EXCEPT !.deaths = @ + 1]
    /\ clients' = [clients EXCEPT ![c].expired = TRUE]
    /\ UNCHANGED <<config, cached, registry, valid, issued, pc, call>>

(* The calls of this run are over.                                         *)
Quiet == (\A t \in Tasks : pc[t] = "done") /\ UNCHANGED registryVars

Proceed(t) ==
    \/ UseCached(t) \/ FirstClient(t) \/ BeginReplace(t) \/ EndReplace(t)
    \/ UseToken(t) \/ BeginGen(t) \/ EndGen(t) \/ GenFails(t)
    \/ Accepted(t, FALSE) \/ Rejected(t) \/ PostFails(t)

RegistryNext ==
    \/ \E t \in Tasks :
          \/ \E i \in Instances, test \in BOOLEAN : Start(t, i, test)
          \/ Proceed(t) \/ CloudIssues(t) \/ Accepted(t, TRUE) \/ Cancel(t)
    \/ \E i \in Instances : UpdateInstance(i) \/ Invalidate(i)
    \/ \E c \in DOMAIN clients : ExpireToken(c)
    \/ Quiet

RegistrySpec == RegistryInit /\ [][RegistryNext]_registryVars

(* asyncio locks serve their waiters in order of arrival, and every HTTP   *)
(* request and the close of a client end (timeout_seconds).                *)
FairRegistrySpec == RegistrySpec /\ \A t \in Tasks : SF_registryVars(Proceed(t))

-----------------------------------------------------------------------------
(* The clients that hold connections.                                      *)
OpenClients == {c \in DOMAIN clients : clients[c].open}

(* No HTTP client leaks: whatever configurations concurrent calls bring,   *)
(* an open client is the cached one of some instance.                      *)
NoClientLeaks ==
    OpenClients \subseteq {cached[i].client : i \in {j \in Instances : cached[j] # NoClient}}

(* client_for hands out open clients: the cache never holds a closed one   *)
(* while its lock is free.  (A call that is cancelled during the close     *)
(* leaves the closed client in the cache; the code allows that.)           *)
CachedOpen ==
    registry = NoTask /\ events.cancels = 0 =>
        \A i \in Instances : cached[i] # NoClient => clients[cached[i].client].open

(* Calls whose token is rejected together share one refresh: a token is    *)
(* asked for once per client, once per token that ended otherwise, and     *)
(* once per test (comment in get_token, "avoid that genToken calls in a    *)
(* row overwrite each other").  The token of a client that was closed in   *)
(* the meantime is about to end.                                           *)
Orphaned == {t \in Tasks : pc[t] = "answer" /\ ~MyClient(t).open}

NoRefreshStorm ==
    issued <= Len(clients) + events.tests + events.deaths + Cardinality(Orphaned)

(* The token the cached client of an instance keeps is the last one issued *)
(* (get_token's lock): answers of refreshes do not overtake each other,    *)
(* whatever calls share, reject and replace at the same time.              *)
TokenIsLast ==
    events.deaths = 0 /\ (\A t \in Tasks : pc[t] # "answer") =>
        \A i \in Instances :
            cached[i] # NoClient /\ clients[cached[i].client].open =>
                clients[cached[i].client].token \in {NoToken, valid[i]}

(* The configuration of an instance changes, perhaps more than once, while *)
(* calls are on their way: a call still talks to the CloudMail server it   *)
(* has read about, so the verdict of a connection test (admin_api.py,      *)
(* test_instance) is about the configuration that was tested, and stored   *)
(* for another one only if the administrator's change crossed the test.    *)
OwnConfiguration ==
    \A t \in Tasks : pc[t] \in {"token", "gen", "answer", "post", "retoken"} =>
        MyClient(t).config = call[t].config

(* Whoever waits for a client or a token gets on, or the call ends.        *)
NobodyStuck ==
    \A t \in Tasks : pc[t] \in {"want", "closing", "token", "retoken", "gen", "answer"}
                        ~> pc[t] \in {"post", "done"}

==============================================================================
