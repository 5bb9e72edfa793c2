------------------------ MODULE ClientRegistry_proof ------------------------
(***************************************************************************)
(* Proofs about the clients of the CloudMail instances, for any number of  *)
(* calls and instances: no client leaks, calls use clients of their own    *)
(* configuration, and the token that is kept is the last one issued        *)
(* (RegistryInv); every token that is asked for is accounted for           *)
(* (RefreshInv); and no lock is lost (LocksInUse).                         *)
(***************************************************************************)
EXTENDS ClientRegistry, SequenceTheorems, FiniteSetTheorems, TLAPS

(* A task that has been handed a client.                                   *)
Using(t) == pc[t] \in {"token", "gen", "answer", "post", "retoken"}

Cached(i) == cached[i] # NoClient

(* The lock of the registry is held while a client is closed.              *)
LockHeld == \A t \in Tasks : registry = t <=> pc[t] = "closing"

(* A cached client is of the configuration it is cached for, and of one    *)
(* instance.                                                               *)
CacheOK ==
    /\ \A i \in Instances : Cached(i) =>
          /\ cached[i].client \in DOMAIN clients
          /\ clients[cached[i].client].config = cached[i].config
    /\ \A i, j \in Instances : Cached(i) /\ Cached(j) /\ cached[i].client = cached[j].client => i = j

(* A client in use is one that was made for the call's instance.           *)
UsesOK ==
    \A t \in Tasks : Using(t) =>
        /\ call[t].client \in DOMAIN clients
        /\ \A j \in Instances : Cached(j) /\ cached[j].client = call[t].client => j = call[t].instance

(* The client that is being replaced is closed.                            *)
ClosingOK ==
    \A t \in Tasks : pc[t] = "closing" =>
        /\ Cached(call[t].instance)
        /\ ~clients[cached[call[t].instance].client].open

(* Only the client that is being replaced may be cached and closed, as     *)
(* long as no call is cancelled.                                           *)
CachedOK ==
    events.cancels = 0 => \A i \in Instances :
        Cached(i) /\ ~clients[cached[i].client].open =>
            \E t \in Tasks : pc[t] = "closing" /\ call[t].instance = i

StructureInv ==
    LockHeld /\ CacheOK /\ UsesOK /\ ClosingOK /\ CachedOK /\ NoClientLeaks /\ OwnConfiguration

(* A client asks for one token at a time.                                  *)
BusyOK ==
    \A t \in Tasks : Refreshing(t) => clients[call[t].client].busy = t

(* The answer with the token CloudMail accepts is on the way.              *)
Unsettled(i) ==
    \E t \in Tasks : pc[t] = "answer" /\ call[t].instance = i /\ call[t].token = valid[i]

(* Otherwise the cached client has it, and no other answer will arrive.    *)
Settled(i) ==
    /\ Cached(i) /\ clients[cached[i].client].open =>
          clients[cached[i].client].token \in {NoToken, valid[i]}
    /\ \A t \in Tasks : pc[t] = "answer" /\ call[t].instance = i => ~MyClient(t).open

TokenInv == events.deaths = 0 => \A i \in Instances : Unsettled(i) \/ Settled(i)

RegistryInv == RegistryTypeOK /\ StructureInv /\ BusyOK /\ TokenInv

-----------------------------------------------------------------------------
(* The parts of the state, one by one.                                     *)
LEMMA Parts ==
    ASSUME RegistryTypeOK
    PROVE  /\ Len(clients) \in Nat /\ DOMAIN clients = 1 .. Len(clients)
           /\ \A c \in DOMAIN clients :
                 /\ clients[c] \in Client /\ clients[c].config \in Config
                 /\ clients[c].open \in BOOLEAN /\ clients[c].token \in Token
           /\ \A t \in Tasks : pc[t] # "idle" =>
                 /\ call[t] \in Call /\ call[t].instance \in Instances
                 /\ call[t].config \in Config /\ call[t].client \in Nat
                 /\ call[t].token \in Token /\ call[t].test \in BOOLEAN
           /\ \A i \in Instances : Cached(i) =>
                 cached[i] \in Entry /\ cached[i].client \in Nat /\ cached[i].config \in Config
           /\ events.updates \in Nat /\ events.deaths \in Nat /\ events.cancels \in Nat
           /\ events.tests \in Nat
  <1>1. \A c \in DOMAIN clients : clients[c] \in Client BY DEF RegistryTypeOK
  <1>2. \A t \in Tasks : pc[t] # "idle" => call[t] \in Call BY DEF RegistryTypeOK
  <1>3. \A i \in Instances : Cached(i) => cached[i] \in Entry BY DEF RegistryTypeOK, Cached
  <1>4. \A c \in DOMAIN clients :
          /\ clients[c].config \in Config /\ clients[c].open \in BOOLEAN /\ clients[c].token \in Token
    BY <1>1 DEF Client
  <1>5. \A t \in Tasks : pc[t] # "idle" =>
          /\ call[t].instance \in Instances /\ call[t].config \in Config
          /\ call[t].client \in Nat /\ call[t].token \in Token /\ call[t].test \in BOOLEAN
    BY <1>2 DEF Call
  <1>6. \A i \in Instances : Cached(i) => cached[i].client \in Nat /\ cached[i].config \in Config
    BY <1>3 DEF Entry
  <1>7. Len(clients) \in Nat /\ DOMAIN clients = 1 .. Len(clients) BY DEF RegistryTypeOK
  <1>8. /\ events.updates \in Nat /\ events.deaths \in Nat /\ events.cancels \in Nat
        /\ events.tests \in Nat
    BY DEF RegistryTypeOK
  <1> QED BY <1>1, <1>2, <1>3, <1>4, <1>5, <1>6, <1>7, <1>8

-----------------------------------------------------------------------------
(* What a step does to the clients: the record of one changes, one is      *)
(* closed, or there is one more, which is cached.                          *)
Alike ==
    /\ DOMAIN clients' = DOMAIN clients
    /\ \A c \in DOMAIN clients :
          clients'[c].config = clients[c].config /\ clients'[c].open = clients[c].open

NewClient(t) ==
    [config |-> call[t].config, open |-> TRUE, token |-> NoToken, expired |-> FALSE, busy |-> NoTask]

(* What it does to the calls: one of them goes on, with the client it has  *)
(* or without any.                                                         *)
OneMoves(t) ==
    /\ \A s \in Tasks : s # t => pc'[s] = pc[s] /\ call'[s] = call[s]
    /\ \/ ~Using(t)'
       \/ /\ Using(t)
          /\ call'[t].instance = call[t].instance /\ call'[t].config = call[t].config
          /\ call'[t].client = call[t].client

Continues ==
    /\ Alike /\ UNCHANGED cached
    /\ \A t \in Tasks : pc'[t] = "closing" <=> pc[t] = "closing" /\ registry' = t
    /\ \A t \in Tasks : registry' = t => pc[t] = "closing"
    /\ \A t \in Tasks : pc'[t] = "closing" => call'[t] = call[t]
    /\ events'.cancels \in Nat /\ events'.cancels >= events.cancels
    /\ UNCHANGED registry \/ events'.cancels > 0
    /\ \/ \E t \in Tasks : OneMoves(t)
       \/ UNCHANGED <<pc, call>>

LEMMA Holds ==
    ASSUME StructureInv, RegistryTypeOK, Continues
    PROVE  StructureInv'
  <1> USE DEF StructureInv, Continues, Alike
  <1>1. LockHeld' BY DEF LockHeld
  <1>2. CacheOK' BY DEF CacheOK, Cached
  <1>3. \A t \in Tasks : Using(t)' =>
           /\ Using(t) /\ call'[t].instance = call[t].instance /\ call'[t].config = call[t].config
           /\ call'[t].client = call[t].client
    BY DEF OneMoves, Using
  <1>4. UsesOK' BY <1>3 DEF UsesOK, Cached
  <1>5. OwnConfiguration' BY <1>3 DEF OwnConfiguration, MyClient, UsesOK, Using
  <1>6. \A t \in Tasks : pc'[t] = "closing" => pc[t] = "closing" /\ call'[t].instance = call[t].instance
    OBVIOUS
  <1>7. ClosingOK' BY <1>6, Parts, SMTT(30) DEF ClosingOK, CacheOK, Cached
  <1>8. NoClientLeaks' BY DEF NoClientLeaks, OpenClients
  <1>9. CachedOK'
    <2> SUFFICES ASSUME events'.cancels = 0, NEW i \in Instances, Cached(i)',
                        ~clients'[cached'[i].client].open
                 PROVE  \E t \in Tasks : pc'[t] = "closing" /\ call'[t].instance = i
      BY DEF CachedOK
    <2>1. events.cancels = 0 /\ UNCHANGED registry BY Parts
    <2>2. Cached(i) /\ ~clients[cached[i].client].open BY DEF CacheOK, Cached
    <2>3. PICK t \in Tasks : pc[t] = "closing" /\ call[t].instance = i
      BY <2>1, <2>2 DEF CachedOK
    <2>4. pc'[t] = "closing" BY <2>1, <2>3 DEF LockHeld
    <2> QED BY <1>6, <2>3, <2>4
  <1> QED BY <1>1, <1>2, <1>4, <1>5, <1>7, <1>8, <1>9

(* Only the registry's lock holder, or anybody while it is free, installs. *)
Installs(t) ==
    /\ pc[t] \in {"want", "closing"} /\ registry \in {t, NoTask} /\ Install(t)
    /\ Cached(call[t].instance) => ~clients[cached[call[t].instance].client].open

LEMMA InstallHolds ==
    ASSUME StructureInv, RegistryTypeOK, NEW t \in Tasks, Installs(t)
    PROVE  StructureInv'
  <1> USE DEF StructureInv
  <1> DEFINE n == Len(clients) + 1
             q == NewClient(t)
             i == call[t].instance
             e == [config |-> call[t].config, client |-> n]
  <1>1. i \in Instances /\ call[t].config \in Config /\ n \in Nat /\ n \notin DOMAIN clients
        /\ call[t] \in Call
    BY Parts DEF Installs
  <1>2. q \in Client /\ q.open /\ q.config = call[t].config
    BY <1>1 DEF NewClient, Client, Token
  <1>3. e \in Entry /\ e # NoClient /\ e.client = n /\ e.config = call[t].config
    BY <1>1, RegistryAssumption DEF Entry
  <1>4. /\ clients' = Append(clients, q) /\ cached' = [cached EXCEPT ![i] = e]
        /\ call' = [call EXCEPT ![t].client = n] /\ registry' = NoTask
        /\ pc' = [pc EXCEPT ![t] = "token"] /\ UNCHANGED events
    BY DEF Installs, Install, Goto, NewClient
  <1>5. call'[t].instance = i /\ call'[t].config = call[t].config /\ call'[t].client = n
    BY <1>1, <1>4 DEF RegistryTypeOK, Call
  <1>6. clients \in Seq(Client) BY DEF RegistryTypeOK
  <1> HIDE DEF q, e
  <1>7. /\ DOMAIN clients' = DOMAIN clients \union {n} /\ clients'[n] = q
        /\ \A c \in DOMAIN clients : clients'[c] = clients[c]
    BY <1>1, <1>2, <1>4, <1>6
  <1>8. \A j \in Instances : j # i => cached'[j] = cached[j]
    BY <1>4 DEF RegistryTypeOK
  <1>9. cached'[i] = e BY <1>1, <1>4 DEF RegistryTypeOK
  <1>10. /\ pc'[t] = "token" /\ \A s \in Tasks : s # t => pc'[s] = pc[s] /\ call'[s] = call[s]
    BY <1>4 DEF RegistryTypeOK
  <1> HIDE DEF n, i
  <1>11. \A s \in Tasks : s # t => pc[s] # "closing"
    BY RegistryAssumption DEF Installs, LockHeld
  <1>12. LockHeld' BY <1>4, <1>10, <1>11, RegistryAssumption DEF LockHeld
  <1>13. CacheOK' BY <1>1, <1>2, <1>3, <1>7, <1>8, <1>9 DEF CacheOK, Cached
  <1>14. UsesOK'
    <2>1. ASSUME NEW s \in Tasks, s # t, Using(s)'
          PROVE  /\ call'[s].client \in DOMAIN clients'
                 /\ \A j \in Instances : Cached(j)' /\ cached'[j].client = call'[s].client
                                              => j = call'[s].instance
      BY <1>1, <1>3, <1>7, <1>8, <1>9, <1>10, <2>1 DEF UsesOK, Using, Cached
    <2>2. /\ call'[t].client \in DOMAIN clients'
          /\ \A j \in Instances : Cached(j)' /\ cached'[j].client = call'[t].client
                                       => j = call'[t].instance
      BY <1>1, <1>5, <1>7, <1>8 DEF CacheOK, Cached
    <2> QED BY <2>1, <2>2 DEF UsesOK
  <1>15. OwnConfiguration'
    BY <1>1, <1>2, <1>5, <1>7, <1>10 DEF OwnConfiguration, MyClient, UsesOK, Using
  <1>16. ClosingOK' BY <1>10, <1>11 DEF ClosingOK
  <1>17. NoClientLeaks'
    <2> SUFFICES ASSUME NEW c \in DOMAIN clients', clients'[c].open
                 PROVE  \E j \in Instances : Cached(j)' /\ cached'[j].client = c
      BY DEF NoClientLeaks, OpenClients, Cached
    <2>1. CASE c = n BY <1>1, <1>3, <1>9, <2>1 DEF Cached
    <2>2. CASE c # n
      <3>1. c \in DOMAIN clients /\ clients[c].open BY <1>7, <2>2
      <3>2. PICK j \in Instances : Cached(j) /\ cached[j].client = c
        BY <3>1 DEF NoClientLeaks, OpenClients, Cached
      <3>3. j # i BY <3>1, <3>2 DEF Installs, i
      <3> QED BY <1>8, <3>2, <3>3 DEF Cached
    <2> QED BY <2>1, <2>2
  <1>18. CachedOK'
    <2> SUFFICES ASSUME events'.cancels = 0, NEW j \in Instances, Cached(j)',
                        ~clients'[cached'[j].client].open
                 PROVE  FALSE
      BY DEF CachedOK
    <2>1. j # i BY <1>2, <1>3, <1>7, <1>9
    <2>2. Cached(j) /\ ~clients[cached[j].client].open
      BY <1>7, <1>8, <2>1 DEF CacheOK, Cached
    <2>3. PICK s \in Tasks : pc[s] = "closing" /\ call[s].instance = j
      BY <1>4, <2>2 DEF CachedOK
    <2>4. s = t BY <1>11, <2>3
    <2> QED BY <2>1, <2>3, <2>4 DEF i
  <1> QED BY <1>12, <1>13, <1>14, <1>15, <1>16, <1>17, <1>18

LEMMA ReplaceHolds ==
    ASSUME StructureInv, RegistryTypeOK, NEW t \in Tasks, BeginReplace(t)
    PROVE  StructureInv'
  <1> USE DEF StructureInv
  <1> DEFINE i == call[t].instance
             d == cached[i].client
  <1>1. i \in Instances /\ Cached(i) /\ d \in DOMAIN clients /\ registry = NoTask
    BY Parts DEF BeginReplace, CacheOK, Cached
  <1>2. /\ clients' = [clients EXCEPT ![d].open = FALSE] /\ registry' = t
        /\ pc' = [pc EXCEPT ![t] = "closing"] /\ UNCHANGED <<cached, call, events>>
    BY DEF BeginReplace, Goto
  <1>3. /\ DOMAIN clients' = DOMAIN clients /\ ~clients'[d].open
        /\ \A c \in DOMAIN clients : clients'[c].config = clients[c].config
        /\ \A c \in DOMAIN clients : c # d => clients'[c] = clients[c]
    BY <1>1, <1>2, Parts DEF Client
  <1>4. pc'[t] = "closing" /\ \A s \in Tasks : s # t => pc'[s] = pc[s]
    BY <1>2 DEF RegistryTypeOK
  <1>5. \A s \in Tasks : pc[s] # "closing" BY <1>1, RegistryAssumption DEF LockHeld
  <1> HIDE DEF d, i
  <1>6. LockHeld' BY <1>2, <1>4, <1>5 DEF LockHeld
  <1>7. CacheOK' BY <1>2, <1>3 DEF CacheOK, Cached
  <1>8. \A s \in Tasks : Using(s)' => Using(s) BY <1>4 DEF Using
  <1>9. UsesOK' BY <1>2, <1>3, <1>8 DEF UsesOK, Cached
  <1>10. OwnConfiguration' BY <1>2, <1>3, <1>8 DEF OwnConfiguration, MyClient, UsesOK, Using
  <1>11. ClosingOK' BY <1>1, <1>2, <1>3, <1>4, <1>5 DEF ClosingOK, Cached, d, i
  <1>12. NoClientLeaks' BY <1>2, <1>3 DEF NoClientLeaks, OpenClients
  <1>13. CachedOK'
    <2> SUFFICES ASSUME events'.cancels = 0, NEW j \in Instances, Cached(j)',
                        ~clients'[cached'[j].client].open
                 PROVE  \E s \in Tasks : pc'[s] = "closing" /\ call'[s].instance = j
      BY DEF CachedOK
    <2>1. CASE j = i BY <1>2, <1>4, <2>1 DEF i
    <2>2. CASE j # i
      <3>1. Cached(j) /\ cached[j].client # d BY <1>1, <1>2, <2>2 DEF CacheOK, Cached, d
      <3>2. ~clients[cached[j].client].open BY <1>2, <1>3, <3>1 DEF CacheOK
      <3> QED BY <1>2, <1>5, <3>1, <3>2 DEF CachedOK
    <2> QED BY <2>1, <2>2
  <1> QED BY <1>6, <1>7, <1>9, <1>10, <1>11, <1>12, <1>13

LEMMA UseCachedHolds ==
    ASSUME StructureInv, RegistryTypeOK, NEW t \in Tasks, UseCached(t)
    PROVE  StructureInv'
  <1> USE DEF StructureInv
  <1> DEFINE i == call[t].instance
             d == cached[i].client
  <1>1. /\ i \in Instances /\ Cached(i) /\ d \in DOMAIN clients /\ registry = NoTask
        /\ cached[i].config = call[t].config /\ call[t] \in Call
    BY Parts DEF UseCached, Hit, CacheOK, Cached
  <1>2. /\ call' = [call EXCEPT ![t].client = d]
        /\ pc' = [pc EXCEPT ![t] = "token"] /\ UNCHANGED <<cached, registry, clients, events>>
    BY DEF UseCached, Goto
  <1>3. /\ pc'[t] = "token" /\ \A s \in Tasks : s # t => pc'[s] = pc[s] /\ call'[s] = call[s]
        /\ call'[t].instance = i /\ call'[t].config = call[t].config /\ call'[t].client = d
    BY <1>1, <1>2 DEF RegistryTypeOK, Call
  <1> HIDE DEF d, i
  <1>4. \A s \in Tasks : pc[s] # "closing" BY <1>1, RegistryAssumption DEF LockHeld
  <1>5. LockHeld' BY <1>2, <1>3, <1>4 DEF LockHeld
  <1>6. CacheOK' BY <1>2 DEF CacheOK, Cached
  <1>7. UsesOK'
    <2>1. ASSUME NEW s \in Tasks, s # t, Using(s)'
          PROVE  /\ call'[s].client \in DOMAIN clients'
                 /\ \A j \in Instances : Cached(j)' /\ cached'[j].client = call'[s].client
                                              => j = call'[s].instance
      BY <1>2, <1>3, <2>1 DEF UsesOK, Using, Cached
    <2>2. /\ call'[t].client \in DOMAIN clients'
          /\ \A j \in Instances : Cached(j)' /\ cached'[j].client = call'[t].client
                                       => j = call'[t].instance
      BY <1>1, <1>2, <1>3 DEF CacheOK, Cached, d
    <2> QED BY <2>1, <2>2 DEF UsesOK
  <1>8. OwnConfiguration'
    <2>1. ASSUME NEW s \in Tasks, s # t, Using(s)' PROVE clients'[call'[s].client].config = call'[s].config
      BY <1>2, <1>3, <2>1 DEF OwnConfiguration, MyClient, Using
    <2>2. clients'[call'[t].client].config = call'[t].config
      BY <1>1, <1>2, <1>3 DEF CacheOK, d
    <2> QED BY <2>1, <2>2 DEF OwnConfiguration, MyClient, Using
  <1>9. ClosingOK' BY <1>3, <1>4 DEF ClosingOK
  <1>10. NoClientLeaks' BY <1>2 DEF NoClientLeaks, OpenClients
  <1>11. CachedOK' BY <1>2, <1>4 DEF CachedOK, Cached
  <1> QED BY <1>5, <1>6, <1>7, <1>8, <1>9, <1>10, <1>11

-----------------------------------------------------------------------------
(* The record of a client changes, but neither its configuration nor       *)
(* whether it is open.                                                     *)
LEMMA Rerecorded ==
    ASSUME NEW S, NEW s \in Seq(S), NEW e, NEW N, N = Len(s), e = [n \in DOMAIN s |-> e[n]],
           \A n \in DOMAIN s : e[n] \in S
    PROVE  e \in Seq(S)
  OBVIOUS

LEMMA RecordAlike ==
    ASSUME RegistryTypeOK, NEW c, NEW q,
           c \in DOMAIN clients => q \in Client /\ q.config = clients[c].config /\ q.open = clients[c].open,
           clients' = [clients EXCEPT ![c] = q]
    PROVE  /\ Alike /\ clients' \in Seq(Client)
           /\ \A d \in DOMAIN clients : clients'[d] = IF d = c THEN q ELSE clients[d]
  <1>1. \A d \in DOMAIN clients : clients'[d] = IF d = c THEN q ELSE clients[d] OBVIOUS
  <1>2. clients \in Seq(Client) BY DEF RegistryTypeOK
  <1>3. DOMAIN clients' = DOMAIN clients OBVIOUS
  <1>4. \A d \in DOMAIN clients : clients'[d] \in Client BY <1>1, Parts
  <1>5. clients' = [d \in DOMAIN clients |-> clients'[d]] OBVIOUS
  <1>6. DOMAIN clients = 1 .. Len(clients) /\ Len(clients) \in Nat BY Parts
  <1>7. clients' \in Seq(Client)
    <2>1. ASSUME NEW e, e = clients' PROVE e \in Seq(Client)
      BY <1>2, <1>4, <1>5, <2>1, Rerecorded
    <2> QED BY <2>1
  <1> QED BY <1>1, <1>3, <1>7 DEF Alike

(* Whether the token lock is given back: whose client it was is free.      *)
LEMMA UnlockedAlike ==
    ASSUME RegistryTypeOK, NEW t \in Tasks, clients' = Unlocked(t)
    PROVE  /\ Alike /\ clients' \in Seq(Client)
           /\ \A d \in DOMAIN clients :
                 clients'[d].token = clients[d].token /\ clients'[d].expired = clients[d].expired
           /\ \A d \in DOMAIN clients :
                 clients'[d].busy = clients[d].busy \/ (Refreshing(t) /\ d = call[t].client)
           /\ \A d \in DOMAIN clients :
                 Refreshing(t) /\ d = call[t].client => clients'[d].busy = NoTask
  <1>1. CASE Refreshing(t)
    <2> DEFINE c == call[t].client
               q == [clients[c] EXCEPT !.busy = NoTask]
    <2>1. c \in DOMAIN clients =>
             /\ q \in Client /\ q.config = clients[c].config /\ q.open = clients[c].open
             /\ q.token = clients[c].token /\ q.expired = clients[c].expired
             /\ q.busy = NoTask
      BY Parts DEF Client
    <2>2. clients' = [clients EXCEPT ![c] = q] BY <1>1 DEF Unlocked
    <2> HIDE DEF q, c
    <2>3. /\ Alike /\ clients' \in Seq(Client)
          /\ \A d \in DOMAIN clients : clients'[d] = IF d = c THEN q ELSE clients[d]
      BY <2>1, <2>2, RecordAlike
    <2> QED BY <1>1, <2>1, <2>3 DEF c
  <1>2. CASE ~Refreshing(t)
    <2>1. clients' = clients BY <1>2 DEF Unlocked
    <2> QED BY <1>2, <2>1 DEF Alike, RegistryTypeOK
  <1> QED BY <1>1, <1>2

-----------------------------------------------------------------------------
(* Types: the calls and the counters.                                      *)
LEMMA CallTyped ==
    ASSUME RegistryTypeOK, NEW t \in Tasks, NEW s \in Stages, NEW k \in Call,
           pc' = [pc EXCEPT ![t] = s], call' = [call EXCEPT ![t] = k]
    PROVE  /\ pc' \in [Tasks -> Stages] /\ call' \in [Tasks -> Call \union {NoCall}]
           /\ \A r \in Tasks : pc'[r] # "idle" => call'[r] # NoCall
  BY RegistryAssumption DEF RegistryTypeOK

LEMMA CallStays ==
    ASSUME RegistryTypeOK, NEW t \in Tasks, NEW s \in Stages, pc[t] # "idle",
           pc' = [pc EXCEPT ![t] = s], UNCHANGED call
    PROVE  /\ pc' \in [Tasks -> Stages] /\ call' \in [Tasks -> Call \union {NoCall}]
           /\ \A r \in Tasks : pc'[r] # "idle" => call'[r] # NoCall
  BY DEF RegistryTypeOK

LEMMA VerdictTyped ==
    ASSUME RegistryTypeOK, NEW t \in Tasks, pc[t] # "idle",
           NEW h \in {"unknown", "healthy", "unhealthy"}, Verdict(t, h)
    PROVE  config' \in [Instances -> Config]
  <1>1. \A i \in Instances : config[i] \in Config BY DEF RegistryTypeOK
  <1>2. \A i \in Instances : [config[i] EXCEPT !.health = h] \in Config BY <1>1 DEF Config
  <1>3. CASE config' = config BY <1>3 DEF RegistryTypeOK
  <1>4. CASE config' = [config EXCEPT ![call[t].instance].health = h]
    BY <1>2, <1>4 DEF RegistryTypeOK
  <1> QED BY <1>3, <1>4 DEF Verdict

-----------------------------------------------------------------------------
(* What a step does to the tokens.  A token ends, which the premise of     *)
(* TokenIsLast excludes; or tokens, answers on their way and CloudMail stay*)
(* as they are; or a token is issued, or stored.                           *)
Answering(t) == pc[t] = "answer"

TokensStay ==
    /\ UNCHANGED valid
    /\ \A t \in Tasks : Answering(t)' <=> Answering(t)
    /\ \A t \in Tasks : Answering(t) =>
          /\ call'[t].instance = call[t].instance /\ call'[t].token = call[t].token
          /\ call'[t].client = call[t].client
    /\ \A c \in DOMAIN clients :
          /\ c \in DOMAIN clients'
          /\ clients'[c].open => clients[c].open
          /\ clients'[c].token = clients[c].token
    /\ \A i \in Instances : Cached(i)' =>
          \/ cached'[i] = cached[i]
          \/ clients'[cached'[i].client].token = NoToken

TokenPart ==
    \/ events'.deaths > 0
    \/ events'.deaths = events.deaths /\ TokensStay
    \/ \E t \in Tasks : CloudIssues(t) \/ EndGen(t)

LEMMA StayHolds ==
    ASSUME StructureInv, TokensStay, NEW i \in Instances, Unsettled(i) \/ Settled(i)
    PROVE  (Unsettled(i) \/ Settled(i))'
  <1> USE DEF TokensStay, Answering
  <1>1. CASE Unsettled(i) BY <1>1 DEF Unsettled
  <1>2. CASE Settled(i)
    <2>1. Cached(i)' /\ clients'[cached'[i].client].open =>
             clients'[cached'[i].client].token \in {NoToken, valid'[i]}
      BY <1>2 DEF Settled, Cached, StructureInv, CacheOK
    <2>2. ASSUME NEW t \in Tasks, pc'[t] = "answer", call'[t].instance = i
          PROVE  ~clients'[call'[t].client].open
      BY <1>2, <2>2 DEF Settled, MyClient, StructureInv, UsesOK, Using
    <2> QED BY <2>1, <2>2 DEF Settled, MyClient
  <1> QED BY <1>1, <1>2

LEMMA IssueHolds ==
    ASSUME StructureInv, RegistryTypeOK, NEW t \in Tasks, CloudIssues(t),
           NEW i \in Instances, Unsettled(i) \/ Settled(i)
    PROVE  (Unsettled(i) \/ Settled(i))'
  <1>1. /\ pc[t] = "gen" /\ pc' = [pc EXCEPT ![t] = "answer"]
        /\ call' = [call EXCEPT ![t].token = issued + 1]
        /\ valid' = [valid EXCEPT ![call[t].instance] = issued + 1]
        /\ UNCHANGED <<cached, clients>>
    BY DEF CloudIssues, Goto
  <1>2. call[t] \in Call /\ call[t].instance \in Instances BY <1>1, Parts
  <1>3. /\ pc'[t] = "answer" /\ call'[t].instance = call[t].instance /\ call'[t].token = issued + 1
        /\ valid'[call[t].instance] = issued + 1
    BY <1>1, <1>2 DEF RegistryTypeOK, Call
  <1>4. /\ \A s \in Tasks : s # t => pc'[s] = pc[s] /\ call'[s] = call[s]
        /\ \A j \in Instances : j # call[t].instance => valid'[j] = valid[j]
    BY <1>1 DEF RegistryTypeOK
  <1>5. CASE i = call[t].instance BY <1>3, <1>5 DEF Unsettled
  <1>6. CASE i # call[t].instance
    <2>1. CASE Unsettled(i) BY <1>1, <1>4, <1>6, <2>1 DEF Unsettled
    <2>2. CASE Settled(i)
      <3>1. Cached(i)' /\ clients'[cached'[i].client].open =>
             clients'[cached'[i].client].token \in {NoToken, valid'[i]}
        BY <1>1, <1>4, <1>6, <2>2 DEF Settled, Cached
      <3>2. ASSUME NEW s \in Tasks, pc'[s] = "answer", call'[s].instance = i
            PROVE  ~clients'[call'[s].client].open
        BY <1>1, <1>3, <1>4, <1>6, <2>2, <3>2 DEF Settled, MyClient
      <3> QED BY <3>1, <3>2 DEF Settled, MyClient
    <2> QED BY <2>1, <2>2
  <1> QED BY <1>5, <1>6

LEMMA EndGenHolds ==
    ASSUME StructureInv, RegistryTypeOK, BusyOK, NEW t \in Tasks, EndGen(t),
           NEW i \in Instances, Unsettled(i) \/ Settled(i)
    PROVE  (Unsettled(i) \/ Settled(i))'
  <1> DEFINE c == call[t].client
             k == call[t].token
             q == [clients[c] EXCEPT !.token = k, !.expired = FALSE, !.busy = NoTask]
  <1>1. /\ pc[t] = "answer" /\ clients[c].open /\ UNCHANGED <<cached, valid, call>>
        /\ clients' = [clients EXCEPT ![c].token = k, ![c].expired = FALSE, ![c].busy = NoTask]
        /\ pc' = [pc EXCEPT ![t] = IF call[t].test THEN "done" ELSE "post"]
    BY DEF EndGen, Goto, MyClient
  <1>2. c \in DOMAIN clients BY <1>1 DEF StructureInv, UsesOK, Using
  <1>3. q \in Client /\ q.open = clients[c].open /\ q.token = k
    BY <1>1, <1>2, Parts DEF Client
  <1>4. clients' = [clients EXCEPT ![c] = q] BY <1>1
  <1> HIDE DEF q
  <1>5. clients'[c] = q /\ \A d \in DOMAIN clients : d # c => clients'[d] = clients[d]
    BY <1>2, <1>4
  <1>6. pc'[t] # "answer" /\ \A s \in Tasks : s # t => pc'[s] = pc[s]
    BY <1>1 DEF RegistryTypeOK
  <1>7. ASSUME NEW s \in Tasks, s # t, pc[s] = "answer" PROVE call[s].client # c
    BY <1>1, <1>7, RegistryAssumption DEF BusyOK, Refreshing
  <1>8. \A j \in Instances : Cached(j) /\ cached[j].client = c => j = call[t].instance
    BY <1>1 DEF StructureInv, UsesOK, Using
  <1>9. Cached(call[t].instance) /\ cached[call[t].instance].client = c
    BY <1>1, <1>2, <1>8 DEF StructureInv, NoClientLeaks, OpenClients, Cached
  <1> HIDE DEF c, k
  <1>10. CASE i = call[t].instance
    <2>1. CASE \E s \in Tasks : s # t /\ pc[s] = "answer" /\ call[s].instance = i /\ call[s].token = valid[i]
      BY <1>1, <1>6, <2>1 DEF Unsettled
    <2>2. CASE Unsettled(i) /\ k = valid[i]
      <3>1. clients'[cached'[i].client].token = valid'[i] BY <1>1, <1>3, <1>5, <1>9, <1>10, <2>2
      <3>2. ASSUME NEW s \in Tasks, pc'[s] = "answer", call'[s].instance = i
            PROVE  ~clients'[call'[s].client].open
        <4>1. s # t /\ pc[s] = "answer" /\ call[s].instance = i BY <1>1, <1>6, <3>2
        <4>2. call[s].client # c /\ call[s].client \in DOMAIN clients
          BY <1>7, <4>1 DEF StructureInv, UsesOK, Using
        <4>3. ~clients[call[s].client].open
          <5> SUFFICES ASSUME clients[call[s].client].open PROVE FALSE OBVIOUS
          <5>1. PICK j \in Instances : Cached(j) /\ cached[j].client = call[s].client
            BY <4>2 DEF StructureInv, NoClientLeaks, OpenClients, Cached
          <5>2. j = i BY <4>1, <5>1 DEF StructureInv, UsesOK, Using
          <5> QED BY <1>9, <1>10, <4>2, <5>1, <5>2
        <4> QED BY <1>1, <1>5, <4>2, <4>3
      <3> QED BY <3>1, <3>2 DEF Settled, MyClient
    <2>3. ~Settled(i) BY <1>1, <1>10 DEF Settled, MyClient, c
    <2> QED BY <2>1, <2>2, <2>3 DEF Unsettled, k
  <1>11. CASE i # call[t].instance
    <2>1. CASE Unsettled(i) BY <1>1, <1>6, <1>11, <2>1 DEF Unsettled
    <2>2. CASE Settled(i)
      <3>1. Cached(i)' /\ clients'[cached'[i].client].open =>
             clients'[cached'[i].client].token \in {NoToken, valid'[i]}
        BY <1>1, <1>5, <1>8, <1>11, <2>2 DEF Settled, Cached, StructureInv, CacheOK
      <3>2. ASSUME NEW s \in Tasks, pc'[s] = "answer", call'[s].instance = i
            PROVE  ~clients'[call'[s].client].open
        <4>1. s # t /\ pc[s] = "answer" /\ call[s].instance = i BY <1>1, <1>6, <3>2
        <4>2. call[s].client # c /\ call[s].client \in DOMAIN clients
          BY <1>7, <4>1 DEF StructureInv, UsesOK, Using
        <4> QED BY <1>1, <1>5, <2>2, <4>1, <4>2 DEF Settled, MyClient
      <3> QED BY <3>1, <3>2 DEF Settled, MyClient
    <2> QED BY <2>1, <2>2
  <1> QED BY <1>10, <1>11

LEMMA TokensHold ==
    ASSUME StructureInv, RegistryTypeOK, BusyOK, TokenInv, TokenPart
    PROVE  TokenInv'
  <1>1. CASE events'.deaths > 0 BY <1>1 DEF TokenInv
  <1>2. CASE events'.deaths = events.deaths /\ TokensStay
    BY <1>2, StayHolds DEF TokenInv
  <1>3. ASSUME NEW t \in Tasks, CloudIssues(t) PROVE TokenInv'
    <2>1. UNCHANGED events BY <1>3 DEF CloudIssues
    <2> QED BY <1>3, <2>1, IssueHolds DEF TokenInv
  <1>4. ASSUME NEW t \in Tasks, EndGen(t) PROVE TokenInv'
    <2>1. UNCHANGED events BY <1>4 DEF EndGen
    <2> QED BY <1>4, <2>1, EndGenHolds DEF TokenInv
  <1> QED BY <1>1, <1>2, <1>3, <1>4 DEF TokenPart

-----------------------------------------------------------------------------
(* One task moves to another stage, within its call or to its end.         *)
Moves(t, s, k) == pc' = [pc EXCEPT ![t] = s] /\ call' = [call EXCEPT ![t] = k]

LEMMA Moved ==
    ASSUME RegistryTypeOK, NEW t \in Tasks, NEW s, NEW k, Moves(t, s, k)
    PROVE  /\ pc'[t] = s /\ call'[t] = k
           /\ \A u \in Tasks : u # t => pc'[u] = pc[u] /\ call'[u] = call[u]
  BY DEF RegistryTypeOK, Moves

LEMMA Remains ==
    ASSUME RegistryTypeOK, NEW t \in Tasks, NEW s, pc' = [pc EXCEPT ![t] = s], UNCHANGED call
    PROVE  Moves(t, s, call[t])
  BY DEF RegistryTypeOK, Moves

LEMMA MoveContinues ==
    ASSUME RegistryTypeOK, StructureInv, NEW t \in Tasks, NEW s \in Stages \ {"closing"}, NEW k,
           Moves(t, s, k), Alike, UNCHANGED cached,
           s \in {"token", "gen", "answer", "post", "retoken"} =>
               /\ Using(t) /\ k.client = call[t].client
               /\ k.instance = call[t].instance /\ k.config = call[t].config,
           events'.cancels \in Nat, events'.cancels >= events.cancels,
           \/ pc[t] # "closing" /\ UNCHANGED registry
           \/ registry' = (IF registry = t THEN NoTask ELSE registry) /\ events'.cancels > 0
    PROVE  StructureInv'
  <1>1. /\ pc'[t] = s /\ call'[t] = k
        /\ \A u \in Tasks : u # t => pc'[u] = pc[u] /\ call'[u] = call[u]
    BY Moved
  <1>2. \A u \in Tasks : registry = u <=> pc[u] = "closing" BY DEF StructureInv, LockHeld
  <1>3. registry' # t /\ \A u \in Tasks : u # t => (registry' = u <=> registry = u)
    BY <1>2, RegistryAssumption
  <1>4. \A u \in Tasks : (pc'[u] = "closing") <=> (pc[u] = "closing" /\ registry' = u)
    BY <1>1, <1>2, <1>3
  <1>5. \A u \in Tasks : registry' = u => pc[u] = "closing" BY <1>2, <1>3
  <1>6. \A u \in Tasks : pc'[u] = "closing" => call'[u] = call[u] BY <1>1
  <1>7. OneMoves(t) BY <1>1 DEF OneMoves, Using
  <1>8. Continues BY <1>4, <1>5, <1>6, <1>7 DEF Continues
  <1> QED BY <1>8, Holds

LEMMA MoveBusy ==
    ASSUME RegistryTypeOK, BusyOK, StructureInv, NEW t \in Tasks, NEW s \in Stages \ {"gen", "answer"}, NEW k,
           Moves(t, s, k),
           \A d \in DOMAIN clients :
              clients'[d].busy = clients[d].busy \/ (Refreshing(t) /\ d = call[t].client)
    PROVE  BusyOK'
  <1> SUFFICES ASSUME NEW u \in Tasks, Refreshing(u)'
               PROVE  clients'[call'[u].client].busy = u
    BY DEF BusyOK
  <1>1. u # t /\ Refreshing(u) /\ call'[u] = call[u] BY Moved DEF Refreshing
  <1>2. call[u].client \in DOMAIN clients /\ clients[call[u].client].busy = u
    BY <1>1 DEF BusyOK, StructureInv, UsesOK, Using, Refreshing
  <1>3. Refreshing(t) => call[u].client # call[t].client BY <1>1, <1>2 DEF BusyOK
  <1> QED BY <1>1, <1>2, <1>3

LEMMA MoveTokens ==
    ASSUME RegistryTypeOK, NEW t \in Tasks, NEW s, NEW k, s # "answer", pc[t] # "answer",
           Moves(t, s, k), Alike, UNCHANGED <<cached, valid>>,
           \A d \in DOMAIN clients : clients'[d].token = clients[d].token,
           events'.deaths = events.deaths
    PROVE  TokenPart
  <1>1. TokensStay BY Moved DEF TokensStay, Answering, Alike, Cached
  <1> QED BY <1>1 DEF TokenPart

LEMMA Gather ==
    ASSUME RegistryInv, RegistryTypeOK', StructureInv', BusyOK', TokenPart
    PROVE  RegistryInv'
  BY TokensHold DEF RegistryInv

-----------------------------------------------------------------------------
(* The steps of a call.                                                    *)
LEMMA StartStep ==
    ASSUME RegistryInv, NEW t \in Tasks, NEW i \in Instances, NEW test \in BOOLEAN, Start(t, i, test)
    PROVE  RegistryInv'
  <1> USE DEF RegistryInv
  <1> DEFINE k == [instance |-> i, config |-> config[i], test |-> test,
                   client |-> 0, token |-> NoToken, retried |-> FALSE]
  <1>1. /\ pc[t] = "idle" /\ Moves(t, "want", k)
        /\ UNCHANGED <<config, cached, registry, clients, valid, issued>>
    BY DEF Start, Goto, Moves
  <1>2. k \in Call BY DEF RegistryTypeOK, Call, Token
  <1> HIDE DEF k
  <1>3. /\ events' \in [updates : Nat, deaths : Nat, cancels : Nat, tests : Nat]
        /\ events'.cancels = events.cancels /\ events'.deaths = events.deaths
    BY DEF Start, RegistryTypeOK
  <1>4. events.cancels \in Nat BY Parts
  <1>5. RegistryTypeOK' BY <1>1, <1>2, <1>3, CallTyped DEF RegistryTypeOK, Moves, Stages
  <1>6. Alike BY <1>1 DEF Alike
  <1>7. StructureInv' BY <1>1, <1>3, <1>4, <1>6, MoveContinues DEF Stages
  <1>8. BusyOK' BY <1>1, MoveBusy DEF Stages
  <1>9. TokenPart BY <1>1, <1>3, <1>6, MoveTokens
  <1> QED BY <1>5, <1>7, <1>8, <1>9, Gather

LEMMA UseCachedStep ==
    ASSUME RegistryInv, NEW t \in Tasks, UseCached(t)
    PROVE  RegistryInv'
  <1> USE DEF RegistryInv
  <1> DEFINE k == [call[t] EXCEPT !.client = cached[call[t].instance].client]
  <1>1. /\ pc[t] = "want" /\ Moves(t, "token", k) /\ Cached(call[t].instance)
        /\ UNCHANGED <<config, cached, registry, clients, valid, issued, events>>
    BY DEF UseCached, Goto, Moves, Hit, Cached
  <1>2. k \in Call BY <1>1, Parts DEF Call
  <1> HIDE DEF k
  <1>3. RegistryTypeOK' BY <1>1, <1>2, CallTyped DEF RegistryTypeOK, Moves, Stages
  <1>4. StructureInv' BY UseCachedHolds
  <1>5. BusyOK' BY <1>1, MoveBusy DEF Stages
  <1>6. TokenPart BY <1>1, MoveTokens DEF Alike
  <1> QED BY <1>3, <1>4, <1>5, <1>6, Gather

LEMMA InstallStep ==
    ASSUME RegistryInv, NEW t \in Tasks, Installs(t)
    PROVE  RegistryInv'
  <1> USE DEF RegistryInv
  <1> DEFINE n == Len(clients) + 1
             q == NewClient(t)
             i == call[t].instance
             e == [config |-> call[t].config, client |-> n]
             k == [call[t] EXCEPT !.client = n]
  <1>1. i \in Instances /\ call[t].config \in Config /\ n \in Nat /\ n \notin DOMAIN clients
        /\ call[t] \in Call
    BY Parts DEF Installs
  <1>2. q \in Client /\ q.token = NoToken BY <1>1 DEF NewClient, Client, Token
  <1>3. e \in Entry /\ e.client = n BY <1>1 DEF Entry
  <1>4. k \in Call BY <1>1 DEF Call
  <1>5. /\ pc[t] \in {"want", "closing"} /\ Moves(t, "token", k)
        /\ clients' = Append(clients, q) /\ cached' = [cached EXCEPT ![i] = e]
        /\ registry' = NoTask /\ UNCHANGED <<config, valid, issued, events>>
    BY DEF Installs, Install, Goto, NewClient, Moves
  <1>6. clients \in Seq(Client) BY DEF RegistryTypeOK
  <1> HIDE DEF q, e, k
  <1>7. /\ DOMAIN clients' = DOMAIN clients \union {n} /\ clients'[n] = q
        /\ \A c \in DOMAIN clients : clients'[c] = clients[c]
        /\ clients' \in Seq(Client)
    BY <1>1, <1>2, <1>5, <1>6
  <1>8. /\ cached'[i] = e /\ \A j \in Instances : j # i => cached'[j] = cached[j]
        /\ cached' \in [Instances -> Entry \union {NoClient}]
    BY <1>1, <1>3, <1>5 DEF RegistryTypeOK
  <1> HIDE DEF n, i
  <1>9. RegistryTypeOK' BY <1>4, <1>5, <1>7, <1>8, CallTyped DEF RegistryTypeOK, Moves, Stages
  <1>10. StructureInv' BY InstallHolds
  <1>11. BusyOK' BY <1>5, <1>7, MoveBusy DEF Stages
  <1>12. TokensStay
    <2>1. pc'[t] = "token" /\ \A u \in Tasks : u # t => pc'[u] = pc[u] /\ call'[u] = call[u]
      BY <1>5, Moved
    <2>2. \A j \in Instances : j # i => cached'[j] = cached[j] BY <1>8
    <2>3. clients'[cached'[i].client].token = NoToken BY <1>2, <1>3, <1>7, <1>8
    <2> QED BY <1>5, <1>7, <2>1, <2>2, <2>3 DEF TokensStay, Answering
  <1>13. TokenPart BY <1>5, <1>12 DEF TokenPart
  <1> QED BY <1>9, <1>10, <1>11, <1>13, Gather

LEMMA ReplaceStep ==
    ASSUME RegistryInv, NEW t \in Tasks, BeginReplace(t)
    PROVE  RegistryInv'
  <1> USE DEF RegistryInv
  <1> DEFINE d == cached[call[t].instance].client
             q == [clients[d] EXCEPT !.open = FALSE]
  <1>1. /\ pc[t] = "want" /\ Cached(call[t].instance) /\ call[t].instance \in Instances
        /\ pc' = [pc EXCEPT ![t] = "closing"]
        /\ clients' = [clients EXCEPT ![d] = q] /\ registry' = t
        /\ UNCHANGED <<config, cached, valid, issued, call, events>>
    BY Parts DEF BeginReplace, Goto, Cached
  <1>2. d \in DOMAIN clients BY <1>1 DEF StructureInv, CacheOK
  <1>3. q \in Client /\ q.token = clients[d].token /\ q.busy = clients[d].busy /\ ~q.open
    BY <1>2, Parts DEF Client
  <1> HIDE DEF q, d
  <1>4. /\ DOMAIN clients' = DOMAIN clients /\ clients'[d] = q
        /\ \A c \in DOMAIN clients : c # d => clients'[c] = clients[c]
    BY <1>1, <1>2
  <1>5. clients' \in Seq(Client)
    <2>1. clients \in Seq(Client) BY DEF RegistryTypeOK
    <2>2. \A c \in DOMAIN clients : clients'[c] \in Client BY <1>3, <1>4, Parts
    <2>3. clients' = [c \in DOMAIN clients |-> clients'[c]] BY <1>1
    <2>4. ASSUME NEW e, e = clients' PROVE e \in Seq(Client)
      BY <2>1, <2>2, <2>3, <2>4, Rerecorded
    <2> QED BY <2>4
  <1>6. Moves(t, "closing", call[t]) BY <1>1, Remains
  <1>7. RegistryTypeOK' BY <1>1, <1>5, CallStays DEF RegistryTypeOK, Stages
  <1>8. StructureInv' BY ReplaceHolds
  <1>9. BusyOK' BY <1>3, <1>4, <1>6, MoveBusy DEF Stages
  <1>10. pc'[t] = "closing" /\ \A u \in Tasks : u # t => pc'[u] = pc[u] BY <1>6, Moved
  <1>11. TokensStay BY <1>1, <1>3, <1>4, <1>10 DEF TokensStay, Answering
  <1>12. TokenPart BY <1>1, <1>11 DEF TokenPart
  <1> QED BY <1>7, <1>8, <1>9, <1>12, Gather

(* get_token, from the cache.                                              *)
LEMMA UseTokenStep ==
    ASSUME RegistryInv, NEW t \in Tasks, UseToken(t)
    PROVE  RegistryInv'
  <1> USE DEF RegistryInv
  <1> DEFINE k == [call[t] EXCEPT !.token = MyClient(t).token]
  <1>1. /\ pc[t] \in {"token", "retoken"} /\ Moves(t, "post", k)
        /\ UNCHANGED <<config, cached, registry, clients, valid, issued, events>>
    BY DEF UseToken, Goto, Moves
  <1>2. MyClient(t) \in Client BY <1>1, Parts DEF MyClient, StructureInv, UsesOK, Using
  <1>3. /\ k \in Call /\ k.client = call[t].client /\ k.instance = call[t].instance
        /\ k.config = call[t].config
    BY <1>1, <1>2, Parts DEF Call, Client
  <1> HIDE DEF k
  <1>4. Using(t) /\ Alike /\ events.cancels \in Nat BY <1>1, Parts DEF Using, Alike
  <1>5. RegistryTypeOK' BY <1>1, <1>3, CallTyped DEF RegistryTypeOK, Moves, Stages
  <1>6. StructureInv' BY <1>1, <1>3, <1>4, MoveContinues DEF Stages
  <1>7. BusyOK' BY <1>1, MoveBusy DEF Stages
  <1>8. TokenPart BY <1>1, <1>4, MoveTokens
  <1> QED BY <1>5, <1>6, <1>7, <1>8, Gather

LEMMA BeginGenStep ==
    ASSUME RegistryInv, NEW t \in Tasks, BeginGen(t)
    PROVE  RegistryInv'
  <1> USE DEF RegistryInv
  <1> DEFINE c == call[t].client
             q == [clients[c] EXCEPT !.busy = t]
  <1>1. /\ pc[t] \in {"token", "retoken"} /\ clients[c].busy = NoTask
        /\ pc' = [pc EXCEPT ![t] = "gen"] /\ clients' = [clients EXCEPT ![c] = q]
        /\ UNCHANGED <<config, cached, registry, valid, issued, call, events>>
    BY DEF BeginGen, Goto, NeedsToken, MyClient
  <1>2. c \in DOMAIN clients BY <1>1 DEF StructureInv, UsesOK, Using
  <1>3. /\ q \in Client /\ q.config = clients[c].config /\ q.open = clients[c].open
        /\ q.token = clients[c].token /\ q.busy = t
    BY <1>2, Parts DEF Client
  <1> HIDE DEF q, c
  <1>4. /\ Alike /\ clients' \in Seq(Client)
        /\ \A d \in DOMAIN clients : clients'[d] = IF d = c THEN q ELSE clients[d]
    BY <1>1, <1>3, RecordAlike
  <1>5. Moves(t, "gen", call[t]) BY <1>1, Remains
  <1>6. Using(t) /\ events.cancels \in Nat BY <1>1, Parts DEF Using
  <1>7. RegistryTypeOK' BY <1>1, <1>4, CallStays DEF RegistryTypeOK, Stages
  <1>8. StructureInv' BY <1>1, <1>4, <1>5, <1>6, MoveContinues DEF Stages
  <1>9. BusyOK'
    <2> SUFFICES ASSUME NEW u \in Tasks, Refreshing(u)'
                 PROVE  clients'[call'[u].client].busy = u
      BY DEF BusyOK
    <2>1. CASE u = t BY <1>1, <1>2, <1>3, <1>4, <2>1 DEF c
    <2>2. CASE u # t
      <3>1. Refreshing(u) /\ call'[u] = call[u] BY <1>5, <2>2, Moved DEF Refreshing
      <3>2. call[u].client \in DOMAIN clients /\ clients[call[u].client].busy = u
        BY <3>1 DEF BusyOK, StructureInv, UsesOK, Using, Refreshing
      <3>3. call[u].client # c BY <1>1, <3>2, RegistryAssumption
      <3> QED BY <1>4, <3>1, <3>2, <3>3
    <2> QED BY <2>1, <2>2
  <1>10. TokenPart BY <1>1, <1>3, <1>4, <1>5, MoveTokens
  <1> QED BY <1>7, <1>8, <1>9, <1>10, Gather

LEMMA CloudIssuesStep ==
    ASSUME RegistryInv, NEW t \in Tasks, CloudIssues(t)
    PROVE  RegistryInv'
  <1> USE DEF RegistryInv
  <1> DEFINE k == [call[t] EXCEPT !.token = issued + 1]
  <1>1. /\ pc[t] = "gen" /\ Moves(t, "answer", k)
        /\ valid' = [valid EXCEPT ![call[t].instance] = issued + 1] /\ issued' = issued + 1
        /\ UNCHANGED <<config, cached, registry, clients, events>>
    BY DEF CloudIssues, Goto, Moves
  <1>2. issued + 1 \in Nat BY DEF RegistryTypeOK
  <1>3. /\ k \in Call /\ k.client = call[t].client /\ k.instance = call[t].instance
        /\ k.config = call[t].config
    BY <1>1, <1>2, Parts DEF Call, Token
  <1>4. valid' \in [Instances -> Token] BY <1>1, <1>2 DEF RegistryTypeOK, Token
  <1> HIDE DEF k
  <1>5. Using(t) /\ Alike /\ events.cancels \in Nat BY <1>1, Parts DEF Using, Alike
  <1>6. RegistryTypeOK' BY <1>1, <1>2, <1>3, <1>4, CallTyped DEF RegistryTypeOK, Moves, Stages
  <1>7. StructureInv' BY <1>1, <1>3, <1>5, MoveContinues DEF Stages
  <1>8. BusyOK'
    <2> SUFFICES ASSUME NEW u \in Tasks, Refreshing(u)'
                 PROVE  Refreshing(u) /\ call'[u].client = call[u].client
      BY <1>1 DEF BusyOK
    <2> QED BY <1>1, <1>3, Moved DEF Refreshing
  <1>9. TokenPart BY DEF TokenPart
  <1> QED BY <1>6, <1>7, <1>8, <1>9, Gather

LEMMA EndGenStep ==
    ASSUME RegistryInv, NEW t \in Tasks, EndGen(t)
    PROVE  RegistryInv'
  <1> USE DEF RegistryInv
  <1> DEFINE c == call[t].client
             q == [clients[c] EXCEPT !.token = call[t].token, !.expired = FALSE, !.busy = NoTask]
             s == IF call[t].test THEN "done" ELSE "post"
  <1>1. /\ pc[t] = "answer" /\ UNCHANGED <<cached, registry, valid, issued, call, events>>
        /\ clients' = [clients EXCEPT ![c].token = call[t].token, ![c].expired = FALSE, ![c].busy = NoTask]
        /\ pc' = [pc EXCEPT ![t] = s] /\ Verdict(t, "healthy")
    BY DEF EndGen, Goto, MyClient
  <1>2. c \in DOMAIN clients BY <1>1 DEF StructureInv, UsesOK, Using
  <1>3. q \in Client /\ q.config = clients[c].config /\ q.open = clients[c].open
    BY <1>1, <1>2, Parts DEF Client
  <1>4. clients' = [clients EXCEPT ![c] = q] BY <1>1
  <1>5. s \in Stages \ {"closing", "gen", "answer"} BY DEF Stages
  <1> HIDE DEF q, c, s
  <1>6. /\ Alike /\ clients' \in Seq(Client)
        /\ \A d \in DOMAIN clients : clients'[d] = IF d = c THEN q ELSE clients[d]
    BY <1>3, <1>4, RecordAlike
  <1>7. Moves(t, s, call[t]) BY <1>1, Remains
  <1>8. Using(t) /\ Refreshing(t) /\ events.cancels \in Nat BY <1>1, Parts DEF Using, Refreshing
  <1>9. config' \in [Instances -> Config] BY <1>1, VerdictTyped
  <1>10. RegistryTypeOK' BY <1>1, <1>5, <1>6, <1>9, CallStays DEF RegistryTypeOK
  <1>11. StructureInv' BY <1>1, <1>5, <1>6, <1>7, <1>8, MoveContinues, SMTT(30)
  <1>12. BusyOK' BY <1>5, <1>6, <1>7, <1>8, MoveBusy DEF c
  <1>13. TokenPart BY DEF TokenPart
  <1> QED BY <1>10, <1>11, <1>12, <1>13, Gather

(* A call ends: its locks are given back.                                  *)
LEMMA LeaveTokens ==
    ASSUME RegistryTypeOK, NEW t \in Tasks, NEW k, Moves(t, "done", k), clients' = Unlocked(t),
           UNCHANGED <<cached, valid>>, events'.deaths = Deaths(t)
    PROVE  TokenPart
  <1>1. CASE pc[t] = "answer"
    <2>1. events'.deaths > 0 BY <1>1, Parts DEF Deaths
    <2> QED BY <2>1 DEF TokenPart
  <1>2. CASE pc[t] # "answer"
    <2>1. events'.deaths = events.deaths BY <1>2, Parts DEF Deaths
    <2> QED BY <1>2, <2>1, UnlockedAlike, MoveTokens
  <1> QED BY <1>1, <1>2

LEMMA GenFailsStep ==
    ASSUME RegistryInv, NEW t \in Tasks, GenFails(t)
    PROVE  RegistryInv'
  <1> USE DEF RegistryInv
  <1>1. /\ pc[t] \in {"gen", "answer", "token", "retoken"} /\ pc' = [pc EXCEPT ![t] = "done"]
        /\ clients' = Unlocked(t) /\ Verdict(t, "unhealthy")
        /\ UNCHANGED <<cached, registry, valid, issued, call>>
    BY DEF GenFails, Goto, Refreshing, NeedsToken
  <1>2. /\ Alike /\ clients' \in Seq(Client)
        /\ \A d \in DOMAIN clients :
              clients'[d].busy = clients[d].busy \/ (Refreshing(t) /\ d = call[t].client)
    BY <1>1, UnlockedAlike
  <1>3. Deaths(t) \in Nat /\ events.cancels \in Nat BY Parts DEF Deaths
  <1>4. /\ events' \in [updates : Nat, deaths : Nat, cancels : Nat, tests : Nat]
        /\ events'.cancels = events.cancels /\ events'.deaths = Deaths(t)
    BY <1>3 DEF GenFails, RegistryTypeOK
  <1>5. Moves(t, "done", call[t]) BY <1>1, Remains
  <1>6. config' \in [Instances -> Config] BY <1>1, VerdictTyped
  <1>7. RegistryTypeOK' BY <1>1, <1>2, <1>4, <1>6, CallStays DEF RegistryTypeOK, Stages
  <1>8. StructureInv' BY <1>1, <1>2, <1>3, <1>4, <1>5, MoveContinues DEF Stages
  <1>9. BusyOK' BY <1>2, <1>5, MoveBusy DEF Stages
  <1>10. TokenPart BY <1>1, <1>4, <1>5, LeaveTokens
  <1> QED BY <1>7, <1>8, <1>9, <1>10, Gather

LEMMA CancelStep ==
    ASSUME RegistryInv, NEW t \in Tasks, Cancel(t)
    PROVE  RegistryInv'
  <1> USE DEF RegistryInv
  <1>1. /\ pc[t] # "idle" /\ pc' = [pc EXCEPT ![t] = "done"] /\ clients' = Unlocked(t)
        /\ registry' = (IF registry = t THEN NoTask ELSE registry)
        /\ UNCHANGED <<config, cached, valid, issued, call>>
    BY DEF Cancel, Goto
  <1>2. /\ Alike /\ clients' \in Seq(Client)
        /\ \A d \in DOMAIN clients :
              clients'[d].busy = clients[d].busy \/ (Refreshing(t) /\ d = call[t].client)
    BY <1>1, UnlockedAlike
  <1>3. Deaths(t) \in Nat /\ events.cancels \in Nat BY Parts DEF Deaths
  <1>4. /\ events' \in [updates : Nat, deaths : Nat, cancels : Nat, tests : Nat]
        /\ events'.cancels = events.cancels + 1 /\ events'.deaths = Deaths(t)
    <2> DEFINE d == Deaths(t)
               n == events.cancels + 1
    <2>1. d \in Nat /\ n \in Nat BY <1>3
    <2>2. events' = [events EXCEPT !.cancels = n, !.deaths = d] BY DEF Cancel
    <2>3. events \in [updates : Nat, deaths : Nat, cancels : Nat, tests : Nat] BY DEF RegistryTypeOK
    <2> HIDE DEF d, n
    <2>4. /\ events' \in [updates : Nat, deaths : Nat, cancels : Nat, tests : Nat]
          /\ events'.cancels = n /\ events'.deaths = d
      BY <2>1, <2>2, <2>3
    <2> QED BY <2>4 DEF d, n
  <1>5. Moves(t, "done", call[t]) BY <1>1, Remains
  <1>6. registry' \in Tasks \union {NoTask} BY <1>1 DEF RegistryTypeOK
  <1>7. RegistryTypeOK' BY <1>1, <1>2, <1>4, <1>6, CallStays DEF RegistryTypeOK, Stages
  <1>8. events'.cancels \in Nat /\ events'.cancels >= events.cancels /\ events'.cancels > 0
    BY <1>3, <1>4
  <1>9. StructureInv' BY <1>1, <1>2, <1>5, <1>8, MoveContinues DEF Stages
  <1>10. BusyOK' BY <1>2, <1>5, MoveBusy DEF Stages
  <1>11. TokenPart BY <1>1, <1>4, <1>5, LeaveTokens
  <1> QED BY <1>7, <1>9, <1>10, <1>11, Gather

(* The answer of the request itself.                                       *)
Answered(t, s, k) ==
    /\ Moves(t, s, k) /\ s \in {"want", "done", "retoken"} /\ k \in Call /\ pc[t] = "post"
    /\ k.client = call[t].client /\ k.instance = call[t].instance /\ k.config = call[t].config
    /\ UNCHANGED <<config, cached, registry, clients, valid, issued, events>>

LEMMA AnswerStep ==
    ASSUME RegistryInv, NEW t \in Tasks,
           Accepted(t, TRUE) \/ Accepted(t, FALSE) \/ Rejected(t) \/ PostFails(t)
    PROVE  RegistryInv'
  <1> USE DEF RegistryInv
  <1>1. \E s, k : Answered(t, s, k)
    <2>1. ASSUME NEW again \in BOOLEAN, Accepted(t, again) PROVE \E s, k : Answered(t, s, k)
      <3> DEFINE k == [call[t] EXCEPT !.retried = FALSE, !.token = NoToken]
                 s == IF again THEN "want" ELSE "done"
      <3>1. pc[t] = "post" /\ Moves(t, s, k) BY <2>1 DEF Accepted, Goto, Moves
      <3>2. /\ k \in Call /\ k.client = call[t].client /\ k.instance = call[t].instance
            /\ k.config = call[t].config
        BY <3>1, Parts DEF Call, Token
      <3>3. s \in {"want", "done", "retoken"} OBVIOUS
      <3> HIDE DEF k, s
      <3>4. Answered(t, s, k) BY <2>1, <3>1, <3>2, <3>3 DEF Accepted, Answered
      <3> QED BY <3>4
    <2>2. CASE Rejected(t)
      <3> DEFINE k == [call[t] EXCEPT !.retried = TRUE]
                 s == IF call[t].retried THEN "done" ELSE "retoken"
      <3>1. pc[t] = "post" /\ Moves(t, s, k) BY <2>2 DEF Rejected, Goto, Moves
      <3>2. /\ k \in Call /\ k.client = call[t].client /\ k.instance = call[t].instance
            /\ k.config = call[t].config
        BY <3>1, Parts DEF Call
      <3>3. s \in {"want", "done", "retoken"} OBVIOUS
      <3> HIDE DEF k, s
      <3>4. Answered(t, s, k) BY <2>2, <3>1, <3>2, <3>3 DEF Rejected, Answered
      <3> QED BY <3>4
    <2>3. CASE PostFails(t)
      <3>1. pc[t] = "post" /\ Moves(t, "done", call[t]) BY <2>3, Remains DEF PostFails, Goto
      <3>2. Answered(t, "done", call[t]) BY <2>3, <3>1, Parts DEF PostFails, Answered
      <3> QED BY <3>2
    <2> QED BY <2>1, <2>2, <2>3
  <1>2. PICK s, k : Answered(t, s, k) BY <1>1
  <1>3. Using(t) /\ Alike /\ events.cancels \in Nat BY <1>2, Parts DEF Using, Alike, Answered
  <1>4. RegistryTypeOK' BY <1>2, CallTyped DEF RegistryTypeOK, Moves, Stages, Answered
  <1>5. StructureInv' BY <1>2, <1>3, MoveContinues DEF Stages, Answered
  <1>6. BusyOK' BY <1>2, MoveBusy DEF Stages, Answered
  <1>7. TokenPart BY <1>2, <1>3, MoveTokens DEF Answered
  <1> QED BY <1>4, <1>5, <1>6, <1>7, Gather

-----------------------------------------------------------------------------
(* What happens beside the calls.                                          *)
LEMMA BesideHolds ==
    ASSUME RegistryInv, Alike, UNCHANGED <<cached, registry, pc, call>>,
           events'.cancels = events.cancels,
           \A c \in DOMAIN clients : clients'[c].busy = clients[c].busy
    PROVE  StructureInv' /\ BusyOK'
  <1> USE DEF RegistryInv
  <1>1. events.cancels \in Nat BY Parts
  <1>2. Continues BY <1>1 DEF Continues, StructureInv, LockHeld
  <1>3. BusyOK' BY DEF BusyOK, StructureInv, UsesOK, Using, Refreshing
  <1> QED BY <1>2, <1>3, Holds

LEMMA UpdateInstanceStep ==
    ASSUME RegistryInv, NEW i \in Instances, UpdateInstance(i)
    PROVE  RegistryInv'
  <1> USE DEF RegistryInv
  <1>1. UNCHANGED <<cached, registry, clients, valid, issued, pc, call>> BY DEF UpdateInstance
  <1>2. /\ events' \in [updates : Nat, deaths : Nat, cancels : Nat, tests : Nat]
        /\ events'.cancels = events.cancels /\ events'.deaths = events.deaths
    BY DEF UpdateInstance, RegistryTypeOK
  <1>3. config' \in [Instances -> Config]
    <2>1. config[i] \in Config BY DEF RegistryTypeOK
    <2>2. [config[i] EXCEPT !.version = @ + 1] \in Config BY <2>1 DEF Config
    <2> QED BY <2>2 DEF UpdateInstance, RegistryTypeOK
  <1>4. RegistryTypeOK' BY <1>1, <1>2, <1>3 DEF RegistryTypeOK
  <1>5. StructureInv' /\ BusyOK' BY <1>1, <1>2, BesideHolds DEF Alike
  <1>6. TokenPart BY <1>1, <1>2 DEF TokenPart, TokensStay, Answering, Cached
  <1> QED BY <1>4, <1>5, <1>6, Gather

LEMMA InvalidateStep ==
    ASSUME RegistryInv, NEW i \in Instances, Invalidate(i)
    PROVE  RegistryInv'
  <1> USE DEF RegistryInv
  <1>1. UNCHANGED <<config, cached, registry, clients, issued, pc, call>> BY DEF Invalidate
  <1>2. events.deaths \in Nat BY Parts
  <1>3. /\ events' \in [updates : Nat, deaths : Nat, cancels : Nat, tests : Nat]
        /\ events'.cancels = events.cancels /\ events'.deaths = events.deaths + 1
    BY DEF Invalidate, RegistryTypeOK
  <1>4. valid' \in [Instances -> Token] BY DEF Invalidate, RegistryTypeOK, Token
  <1>5. RegistryTypeOK' BY <1>1, <1>3, <1>4 DEF RegistryTypeOK
  <1>6. StructureInv' /\ BusyOK' BY <1>1, <1>3, BesideHolds DEF Alike
  <1>7. TokenPart BY <1>2, <1>3 DEF TokenPart
  <1> QED BY <1>5, <1>6, <1>7, Gather

LEMMA ExpireTokenStep ==
    ASSUME RegistryInv, NEW c \in DOMAIN clients, ExpireToken(c)
    PROVE  RegistryInv'
  <1> USE DEF RegistryInv
  <1> DEFINE q == [clients[c] EXCEPT !.expired = TRUE]
  <1>1. /\ clients' = [clients EXCEPT ![c] = q]
        /\ UNCHANGED <<config, cached, registry, valid, issued, pc, call>>
    BY DEF ExpireToken
  <1>2. events.deaths \in Nat BY Parts
  <1>3. /\ events' \in [updates : Nat, deaths : Nat, cancels : Nat, tests : Nat]
        /\ events'.cancels = events.cancels /\ events'.deaths = events.deaths + 1
    <2>1. events' = [events EXCEPT !.deaths = @ + 1] BY DEF ExpireToken
    <2> QED BY <2>1 DEF RegistryTypeOK
  <1>4. /\ q \in Client /\ q.config = clients[c].config /\ q.open = clients[c].open
        /\ q.busy = clients[c].busy
    BY Parts DEF Client
  <1> HIDE DEF q
  <1>5. /\ Alike /\ clients' \in Seq(Client)
        /\ \A d \in DOMAIN clients : clients'[d] = IF d = c THEN q ELSE clients[d]
    BY <1>1, <1>4, RecordAlike
  <1>6. RegistryTypeOK' BY <1>1, <1>3, <1>5 DEF RegistryTypeOK
  <1>7. StructureInv' /\ BusyOK' BY <1>1, <1>3, <1>4, <1>5, BesideHolds
  <1>8. TokenPart BY <1>2, <1>3 DEF TokenPart
  <1> QED BY <1>6, <1>7, <1>8, Gather

LEMMA QuietStep ==
    ASSUME RegistryInv, UNCHANGED registryVars
    PROVE  RegistryInv'
  BY DEF registryVars, RegistryInv, RegistryTypeOK, StructureInv, LockHeld, CacheOK, UsesOK, ClosingOK,
         CachedOK, NoClientLeaks, OwnConfiguration, OpenClients, Cached, Using, MyClient,
         BusyOK, Refreshing, TokenInv, Unsettled, Settled

LEMMA RegistryStarts == RegistryInit => RegistryInv
  <1> SUFFICES ASSUME RegistryInit PROVE RegistryInv OBVIOUS
  <1>1. RegistryTypeOK
    <2>1. registry \in Tasks \union {NoTask} BY DEF RegistryInit
    <2>2. config \in [Instances -> Config] /\ valid \in [Instances -> Token]
      BY DEF RegistryInit, Config, Token
    <2>3. events \in [updates : Nat, deaths : Nat, cancels : Nat, tests : Nat] BY DEF RegistryInit
    <2> QED BY <2>1, <2>2, <2>3 DEF RegistryInit, RegistryTypeOK, Stages
  <1>2. /\ \A t \in Tasks : pc[t] = "idle" /\ registry # t
        /\ \A i \in Instances : ~Cached(i)
        /\ DOMAIN clients = {}
    BY RegistryAssumption DEF RegistryInit, Cached
  <1>3. StructureInv
    BY <1>2 DEF StructureInv, LockHeld, CacheOK, UsesOK, Using, ClosingOK, CachedOK, NoClientLeaks,
                OpenClients, OwnConfiguration
  <1>4. BusyOK BY <1>2 DEF BusyOK, Refreshing
  <1>5. TokenInv BY <1>2 DEF TokenInv, Settled
  <1> QED BY <1>1, <1>3, <1>4, <1>5 DEF RegistryInv

(* Installing: the first client of an instance, or the one that takes the  *)
(* place of the client that has just been closed.                          *)
LEMMA InstallsStep ==
    ASSUME RegistryInv, NEW t \in Tasks, FirstClient(t) \/ EndReplace(t)
    PROVE  RegistryInv'
  <1>1. Installs(t)
    <2>1. CASE FirstClient(t) BY <2>1 DEF FirstClient, Installs, Cached
    <2>2. CASE EndReplace(t)
      BY <2>2 DEF EndReplace, Installs, RegistryInv, StructureInv, LockHeld, ClosingOK
    <2> QED BY <2>1, <2>2
  <1> QED BY <1>1, InstallStep

LEMMA RegistrySteps ==
    ASSUME RegistryInv, [RegistryNext]_registryVars
    PROVE  RegistryInv'
  <1>1. ASSUME NEW t \in Tasks, Proceed(t) PROVE RegistryInv'
    <2>1. CASE UseCached(t) BY <2>1, UseCachedStep
    <2>2. CASE FirstClient(t) \/ EndReplace(t) BY <2>2, InstallsStep
    <2>3. CASE BeginReplace(t) BY <2>3, ReplaceStep
    <2>4. CASE UseToken(t) BY <2>4, UseTokenStep
    <2>5. CASE BeginGen(t) BY <2>5, BeginGenStep
    <2>6. CASE EndGen(t) BY <2>6, EndGenStep
    <2>7. CASE GenFails(t) BY <2>7, GenFailsStep
    <2>8. CASE Accepted(t, FALSE) \/ Rejected(t) \/ PostFails(t) BY <2>8, AnswerStep
    <2> QED BY <1>1, <2>1, <2>2, <2>3, <2>4, <2>5, <2>6, <2>7, <2>8 DEF Proceed
  <1>2. ASSUME NEW t \in Tasks, NEW i \in Instances, NEW test \in BOOLEAN, Start(t, i, test)
        PROVE  RegistryInv'
    BY <1>2, StartStep
  <1>3. ASSUME NEW t \in Tasks, CloudIssues(t) PROVE RegistryInv' BY <1>3, CloudIssuesStep
  <1>4. ASSUME NEW t \in Tasks, Accepted(t, TRUE) PROVE RegistryInv' BY <1>4, AnswerStep
  <1>5. ASSUME NEW t \in Tasks, Cancel(t) PROVE RegistryInv' BY <1>5, CancelStep
  <1>6. ASSUME NEW i \in Instances, UpdateInstance(i) PROVE RegistryInv'
    BY <1>6, UpdateInstanceStep
  <1>7. ASSUME NEW i \in Instances, Invalidate(i) PROVE RegistryInv' BY <1>7, InvalidateStep
  <1>8. ASSUME NEW c \in DOMAIN clients, ExpireToken(c) PROVE RegistryInv'
    BY <1>8, ExpireTokenStep
  <1>9. CASE UNCHANGED registryVars BY <1>9, QuietStep
  <1> QED
    BY <1>1, <1>2, <1>3, <1>4, <1>5, <1>6, <1>7, <1>8, <1>9 DEF RegistryNext, Quiet

-----------------------------------------------------------------------------
(* The invariant of the clients and their tokens.                          *)
THEOREM RegistryInvariant == RegistrySpec => []RegistryInv
  BY RegistryStarts, RegistrySteps, PTL DEF RegistrySpec

(* Every variable of the clients keeps its type (cloudmail_provider.py).   *)
THEOREM RegistryTyped == RegistrySpec => []RegistryTypeOK
  BY RegistryInvariant, PTL DEF RegistryInv

(* However many calls bring however many configurations, CloudMailProvider-*)
(* Registry leaves no client open that is not the cached one.              *)
THEOREM RegistryLeaksNothing == RegistrySpec => []NoClientLeaks
  <1>1. RegistryInv => NoClientLeaks BY DEF RegistryInv, StructureInv
  <1> QED BY <1>1, RegistryInvariant, PTL

(* client_for finds an open client in the cache, unless a call that was    *)
(* replacing one has been cancelled.                                       *)
THEOREM RegistryCachesOpen == RegistrySpec => []CachedOpen
  <1>1. ASSUME RegistryInv, registry = NoTask, events.cancels = 0,
               NEW i \in Instances, cached[i] # NoClient
        PROVE  clients[cached[i].client].open
    <2>1. \A t \in Tasks : pc[t] # "closing"
      BY <1>1, RegistryAssumption DEF RegistryInv, StructureInv, LockHeld
    <2> QED BY <1>1, <2>1 DEF RegistryInv, StructureInv, CachedOK, Cached
  <1>2. RegistryInv => CachedOpen BY <1>1 DEF CachedOpen
  <1> QED BY <1>2, RegistryInvariant, PTL

(* A call talks to the server of the configuration it has read, whatever   *)
(* the administrator changes meanwhile.                                    *)
THEOREM RegistryOwnConfiguration == RegistrySpec => []OwnConfiguration
  <1>1. RegistryInv => OwnConfiguration BY DEF RegistryInv, StructureInv
  <1> QED BY <1>1, RegistryInvariant, PTL

(* get_token: the token the cached client keeps is the last one issued.    *)
THEOREM RegistryKeepsLastToken == RegistrySpec => []TokenIsLast
  <1>1. RegistryInv => TokenIsLast
    BY DEF RegistryInv, TokenInv, Unsettled, Settled, TokenIsLast, Cached
  <1> QED BY <1>1, RegistryInvariant, PTL

-----------------------------------------------------------------------------
(* Every token that is kept was issued, a test does not send the request   *)
(* itself, and a call asks again because the token it used is not valid.   *)
Known(k) == k \in Nat /\ k <= issued

FreshOK ==
    /\ \A c \in DOMAIN clients : clients[c].token # NoToken => Known(clients[c].token)
    /\ \A t \in Tasks : pc[t] \in {"answer", "post", "retoken"} => Known(call[t].token)
    /\ \A t \in Tasks : pc[t] \in {"post", "retoken"} => ~call[t].test
    /\ \A t \in Tasks : pc[t] = "retoken" => call[t].token # valid[call[t].instance]

(* What a client keeps is of no use to the next call.                      *)
Bad(c) ==
    \/ clients[c].token = NoToken \/ clients[c].expired
    \/ \E i \in Instances : Cached(i) /\ cached[i].client = c /\ clients[c].token # valid[i]

(* A token may still be asked for on account of this client: a call is     *)
(* asking, or what it has, or is about to get, is of no use.               *)
Lacks(c) ==
    \/ \E t \in Tasks : pc[t] = "gen" /\ ~call[t].test /\ call[t].client = c
    \/ /\ clients[c].open
       /\ \E t \in Tasks :
             pc[t] = "answer" /\ call[t].client = c /\ call[t].token # valid[call[t].instance]
    \/ /\ clients[c].open /\ Bad(c)
       /\ \A t \in Tasks : pc[t] = "answer" => call[t].client # c

Lacking == {c \in DOMAIN clients : Lacks(c)}

(* Tests that have not got their token yet.                                *)
TestStages == {"want", "closing", "token", "gen"}
Testing == {t \in Tasks : pc[t] \in TestStages /\ call[t].test}

(* Tokens issued and tokens that may still be asked for are paid for.      *)
Budget ==
    issued + Cardinality(Lacking) + Cardinality(Testing)
        <= Len(clients) + events.tests + events.deaths + Cardinality(Orphaned)

RefreshInv == RegistryInv /\ FreshOK /\ Budget

-----------------------------------------------------------------------------
(* The sets that are counted are finite.                                   *)
LEMMA CountedFinite ==
    ASSUME RegistryTypeOK
    PROVE  /\ IsFiniteSet(Lacking) /\ Cardinality(Lacking) \in Nat
           /\ IsFiniteSet(Testing) /\ Cardinality(Testing) \in Nat
           /\ IsFiniteSet(Orphaned) /\ Cardinality(Orphaned) \in Nat
           /\ Len(clients) \in Nat /\ issued \in Nat /\ events.tests \in Nat /\ events.deaths \in Nat
  <1>1. /\ Len(clients) \in Nat /\ DOMAIN clients = 1 .. Len(clients) /\ issued \in Nat
        /\ events.tests \in Nat /\ events.deaths \in Nat
    BY Parts DEF RegistryTypeOK
  <1>2. IsFiniteSet(DOMAIN clients) BY <1>1, FS_Interval
  <1>3. IsFiniteSet(Lacking) BY <1>2, FS_Subset DEF Lacking
  <1>4. IsFiniteSet(Testing) /\ IsFiniteSet(Orphaned)
    BY RegistryAssumption, FS_Subset DEF Testing, Orphaned
  <1> QED BY <1>1, <1>3, <1>4, FS_CardinalityType

(* Sets that lose elements, or gain one.                                   *)
LEMMA Within ==
    ASSUME NEW S, NEW R, IsFiniteSet(S), R \subseteq S
    PROVE  Cardinality(R) <= Cardinality(S) /\ Cardinality(R) \in Nat /\ Cardinality(S) \in Nat
  BY FS_Subset, FS_CardinalityType

LEMMA WithinOneMore ==
    ASSUME NEW S, NEW R, NEW x, IsFiniteSet(S), R \subseteq S \union {x}
    PROVE  /\ Cardinality(R) <= Cardinality(S) + 1
           /\ Cardinality(R) \in Nat /\ Cardinality(S) \in Nat
  <1>1. /\ IsFiniteSet(S \union {x}) /\ Cardinality(S) \in Nat
        /\ Cardinality(S \union {x}) = IF x \in S THEN Cardinality(S) ELSE Cardinality(S) + 1
    BY FS_AddElement, FS_CardinalityType
  <1>2. Cardinality(R) <= Cardinality(S \union {x}) /\ Cardinality(R) \in Nat BY <1>1, Within
  <1> QED BY <1>1, <1>2

LEMMA WithoutOne ==
    ASSUME NEW S, NEW R, NEW x, IsFiniteSet(S), x \in S, R \subseteq S \ {x}
    PROVE  /\ Cardinality(R) + 1 <= Cardinality(S)
           /\ Cardinality(R) \in Nat /\ Cardinality(S) \in Nat
  <1>1. /\ IsFiniteSet(S \ {x}) /\ Cardinality(S \ {x}) = Cardinality(S) - 1
        /\ Cardinality(S) \in Nat
    BY FS_RemoveElement, FS_CardinalityType
  <1>2. Cardinality(R) <= Cardinality(S \ {x}) /\ Cardinality(R) \in Nat BY <1>1, Within
  <1> QED BY <1>1, <1>2

LEMMA CountedFiniteNext ==
    ASSUME RegistryTypeOK'
    PROVE  /\ IsFiniteSet(Lacking') /\ Cardinality(Lacking') \in Nat
           /\ IsFiniteSet(Testing') /\ Cardinality(Testing') \in Nat
           /\ IsFiniteSet(Orphaned') /\ Cardinality(Orphaned') \in Nat
           /\ Len(clients') \in Nat /\ issued' \in Nat
           /\ events'.tests \in Nat /\ events'.deaths \in Nat
  <1>1. /\ Len(clients') \in Nat /\ DOMAIN clients' = 1 .. Len(clients') /\ issued' \in Nat
        /\ events'.tests \in Nat /\ events'.deaths \in Nat
    BY DEF RegistryTypeOK
  <1>2. IsFiniteSet(DOMAIN clients') BY <1>1, FS_Interval
  <1>3. IsFiniteSet(Lacking') BY <1>2, FS_Subset DEF Lacking
  <1>4. IsFiniteSet(Testing') /\ IsFiniteSet(Orphaned')
    BY RegistryAssumption, FS_Subset DEF Testing, Orphaned
  <1> QED BY <1>1, <1>3, <1>4, FS_CardinalityType

(* What a step adds: tokens, clients that lack one and tests on one side,  *)
(* clients, tests, ended tokens and lost answers on the other, which pay   *)
(* for the former.                                                         *)
Adds(j, l, q, n, e, d, o) ==
    /\ {j, l, q, n, e, d, o} \subseteq Int
    /\ j + l + q <= n + e + d + o
    /\ issued' = issued + j
    /\ Cardinality(Lacking') <= Cardinality(Lacking) + l
    /\ Cardinality(Testing') <= Cardinality(Testing) + q
    /\ Len(clients') = Len(clients) + n
    /\ events'.tests = events.tests + e
    /\ events'.deaths = events.deaths + d
    /\ Cardinality(Orphaned') >= Cardinality(Orphaned) + o

LEMMA BudgetKept ==
    ASSUME RegistryTypeOK, RegistryTypeOK', Budget,
           NEW j, NEW l, NEW q, NEW n, NEW e, NEW d, NEW o, Adds(j, l, q, n, e, d, o)
    PROVE  Budget'
  <1> DEFINE l0 == Cardinality(Lacking)
             l1 == Cardinality(Lacking')
             q0 == Cardinality(Testing)
             q1 == Cardinality(Testing')
             n0 == Len(clients)
             n1 == Len(clients')
             e0 == events.tests
             e1 == events'.tests
             d0 == events.deaths
             d1 == events'.deaths
             o0 == Cardinality(Orphaned)
             o1 == Cardinality(Orphaned')
  <1>1. /\ issued \in Nat /\ l0 \in Nat /\ q0 \in Nat /\ n0 \in Nat /\ e0 \in Nat
        /\ d0 \in Nat /\ o0 \in Nat
    BY CountedFinite
  <1>2. /\ issued' \in Nat /\ l1 \in Nat /\ q1 \in Nat /\ n1 \in Nat /\ e1 \in Nat
        /\ d1 \in Nat /\ o1 \in Nat
    BY CountedFiniteNext
  <1>3. issued + l0 + q0 <= n0 + e0 + d0 + o0 BY DEF Budget
  <1>4. /\ {j, l, q, n, e, d, o} \subseteq Int /\ j + l + q <= n + e + d + o
        /\ issued' = issued + j /\ l1 <= l0 + l /\ q1 <= q0 + q /\ n1 = n0 + n
        /\ e1 = e0 + e /\ d1 = d0 + d /\ o1 >= o0 + o
    BY DEF Adds
  <1> HIDE DEF l0, l1, q0, q1, n0, n1, e0, e1, d0, d1, o0, o1
  <1>5. issued' + l1 + q1 <= n1 + e1 + d1 + o1 BY <1>1, <1>2, <1>3, <1>4
  <1> QED BY <1>5 DEF Budget, l0, l1, q0, q1, n0, n1, e0, e1, d0, d1, o0, o1

(* The next token is not yet known.                                        *)
LEMMA FreshMoves ==
    ASSUME RegistryTypeOK, FreshOK, NEW t \in Tasks, NEW s, NEW k, Moves(t, s, k),
           UNCHANGED <<valid, issued>>,
           \A d \in DOMAIN clients' : clients'[d].token # NoToken => Known(clients'[d].token),
           s \in {"answer", "post", "retoken"} => Known(k.token),
           s \in {"post", "retoken"} => ~k.test,
           s = "retoken" => k.token # valid[k.instance]
    PROVE  FreshOK'
  BY Moved DEF FreshOK, Known

(* One task moves, and neither asks for a token nor waits for the answer:  *)
(* nothing that could be asked for is added.                               *)
Calm(t, s, k) ==
    /\ Moves(t, s, k) /\ s \notin {"gen", "answer"}
    /\ UNCHANGED <<cached, valid>>
    /\ DOMAIN clients' = DOMAIN clients
    /\ \A d \in DOMAIN clients :
          /\ clients'[d].open => clients[d].open
          /\ clients'[d].token = clients[d].token /\ clients'[d].expired = clients[d].expired

LEMMA CalmLacks ==
    ASSUME RegistryTypeOK, StructureInv, NEW t \in Tasks, NEW s, NEW k, Calm(t, s, k),
           NEW c, c \in Lacking', pc[t] = "answer" => c # call[t].client
    PROVE  c \in Lacking
  <1>1. c \in DOMAIN clients /\ Lacks(c)' BY DEF Lacking, Calm
  <1>2. /\ pc'[t] \notin {"gen", "answer"}
        /\ \A u \in Tasks : u # t => pc'[u] = pc[u] /\ call'[u] = call[u]
    BY Moved DEF Calm
  <1>3. Bad(c)' <=> Bad(c) BY <1>1 DEF Calm, Bad, Cached
  <1>4. Lacks(c) BY <1>1, <1>2, <1>3 DEF Lacks, Calm
  <1> QED BY <1>1, <1>4 DEF Lacking

LEMMA CalmOrphans ==
    ASSUME RegistryTypeOK, StructureInv, NEW t \in Tasks, NEW s, NEW k, Calm(t, s, k)
    PROVE  Orphaned \ {t} \subseteq Orphaned'
  <1> SUFFICES ASSUME NEW u \in Tasks, u # t, pc[u] = "answer", ~MyClient(u).open
               PROVE  pc'[u] = "answer" /\ ~MyClient(u)'.open
    BY DEF Orphaned
  <1>1. pc'[u] = pc[u] /\ call'[u] = call[u] BY Moved DEF Calm
  <1>2. call[u].client \in DOMAIN clients BY DEF StructureInv, UsesOK, Using
  <1>3. clients[call[u].client].open \in BOOLEAN /\ ~clients[call[u].client].open
    BY <1>2, Parts DEF MyClient
  <1> QED BY <1>1, <1>2, <1>3 DEF Calm, MyClient

LEMMA CalmTests ==
    ASSUME RegistryTypeOK, NEW t \in Tasks, NEW s, NEW k, Calm(t, s, k),
           s \in TestStages /\ k.test => pc[t] \in TestStages /\ call[t].test
    PROVE  Testing' \subseteq Testing
  BY Moved DEF Calm, Testing

LEMMA CalmBudget ==
    ASSUME RegistryTypeOK, RegistryTypeOK', StructureInv, Budget,
           NEW t \in Tasks, NEW s, NEW k, Calm(t, s, k), pc[t] # "answer",
           s \in TestStages /\ k.test => pc[t] \in TestStages /\ call[t].test,
           UNCHANGED issued, events'.tests = events.tests, events'.deaths = events.deaths
    PROVE  Budget'
  <1>1. Lacking' \subseteq Lacking BY CalmLacks
  <1>2. Testing' \subseteq Testing BY CalmTests
  <1>3. Orphaned \subseteq Orphaned' BY CalmOrphans DEF Orphaned
  <1>4. Len(clients') = Len(clients) BY DEF RegistryTypeOK, Calm
  <1>5. /\ Cardinality(Lacking') <= Cardinality(Lacking)
        /\ Cardinality(Testing') <= Cardinality(Testing)
        /\ Cardinality(Orphaned) <= Cardinality(Orphaned')
    BY <1>1, <1>2, <1>3, CountedFinite, CountedFiniteNext, Within
  <1>6. Adds(0, 0, 0, 0, 0, 0, 0) BY <1>4, <1>5, CountedFinite, CountedFiniteNext DEF Adds
  <1> QED BY <1>6, BudgetKept

(* A call that was waiting for the answer gives up: its token has died.    *)
LEMMA DroppedBudget ==
    ASSUME RegistryTypeOK, RegistryTypeOK', StructureInv, Budget,
           NEW t \in Tasks, NEW k, Calm(t, "done", k), pc[t] = "answer",
           UNCHANGED issued, events'.tests = events.tests, events'.deaths = events.deaths + 1,
           \A d \in DOMAIN clients : clients'[d].open = clients[d].open
    PROVE  Budget'
  <1> DEFINE c == call[t].client
  <1>1. Testing' \subseteq Testing BY CalmTests DEF TestStages
  <1>2. Len(clients') = Len(clients) BY DEF RegistryTypeOK, Calm
  <1>3. Lacking' \subseteq Lacking \union {c} BY CalmLacks
  <1>4. Orphaned \subseteq Orphaned' \union {t} BY CalmOrphans
  <1>5. CASE clients[c].open
    <2>1. Orphaned \subseteq Orphaned' BY <1>4, <1>5, CalmOrphans DEF Orphaned, MyClient
    <2>2. Cardinality(Orphaned) <= Cardinality(Orphaned') BY <2>1, CountedFiniteNext, Within
    <2>3. Cardinality(Lacking') <= Cardinality(Lacking) + 1
      BY <1>3, CountedFinite, WithinOneMore
    <2>4. Cardinality(Testing') <= Cardinality(Testing) BY <1>1, CountedFinite, Within
    <2>5. Adds(0, 1, 0, 0, 0, 1, 0)
      BY <1>2, <2>2, <2>3, <2>4, CountedFinite, CountedFiniteNext DEF Adds
    <2> QED BY <2>5, BudgetKept
  <1>6. CASE ~clients[c].open
    <2>1. pc'[t] = "done" /\ \A u \in Tasks : u # t => pc'[u] = pc[u] /\ call'[u] = call[u]
      BY Moved DEF Calm
    <2>2. c \in Lacking' => c \in Lacking
      <3>1. ASSUME c \in Lacking' PROVE \E u \in Tasks : pc[u] = "gen" /\ ~call[u].test /\ call[u].client = c
        BY <1>6, <2>1, <3>1 DEF Lacking, Lacks, Calm
      <3> QED BY <3>1 DEF Lacking, Lacks, Calm
    <2>3. Cardinality(Lacking') <= Cardinality(Lacking)
      BY <1>3, <2>2, CountedFinite, Within
    <2>4. Cardinality(Orphaned) <= Cardinality(Orphaned') + 1
      BY <1>4, CountedFiniteNext, WithinOneMore
    <2>5. Cardinality(Testing') <= Cardinality(Testing) BY <1>1, CountedFinite, Within
    <2>6. PICK m : m = -1 OBVIOUS
    <2>7. /\ Cardinality(Lacking) \in Nat /\ Cardinality(Testing) \in Nat
          /\ Cardinality(Orphaned) \in Nat /\ Cardinality(Orphaned') \in Nat
          /\ issued \in Nat /\ Len(clients) \in Nat
          /\ events.tests \in Nat /\ events.deaths \in Nat
      BY CountedFinite, CountedFiniteNext
    <2>8. m \in Int /\ 0 + 0 + 0 <= 0 + 0 + 1 + m BY <2>6
    <2>9. Cardinality(Orphaned') >= Cardinality(Orphaned) + m BY <2>4, <2>6, <2>7
    <2>10. /\ Cardinality(Lacking') <= Cardinality(Lacking) + 0
           /\ Cardinality(Testing') <= Cardinality(Testing) + 0
           /\ issued' = issued + 0 /\ Len(clients') = Len(clients) + 0
           /\ events'.tests = events.tests + 0
      BY <1>2, <2>3, <2>5, <2>7
    <2>11. Adds(0, 0, 0, 0, 0, 1, m) BY <2>8, <2>9, <2>10 DEF Adds
    <2> QED BY <2>11, BudgetKept
  <1> QED BY <1>5, <1>6

-----------------------------------------------------------------------------
(* The steps of a call.  Only the request of a token, and what ends one,   *)
(* need an account of their own.                                           *)
LEMMA StartRefresh ==
    ASSUME RefreshInv, RegistryTypeOK', NEW t \in Tasks, NEW i \in Instances, NEW test \in BOOLEAN,
           Start(t, i, test)
    PROVE  FreshOK' /\ Budget'
  <1> USE DEF RefreshInv, RegistryInv
  <1> DEFINE k == [instance |-> i, config |-> config[i], test |-> test,
                   client |-> 0, token |-> NoToken, retried |-> FALSE]
  <1>1. /\ pc[t] = "idle" /\ Moves(t, "want", k) /\ k.test = test
        /\ UNCHANGED <<config, cached, registry, clients, valid, issued>>
    BY DEF Start, Goto, Moves
  <1>2. Calm(t, "want", k) BY <1>1 DEF Calm
  <1> HIDE DEF k
  <1>3. FreshOK' BY <1>1, FreshMoves DEF FreshOK
  <1>4. events'.deaths = events.deaths /\ events'.tests = IF test = TRUE THEN events.tests + 1 ELSE events.tests
    BY DEF Start, RegistryTypeOK
  <1>5. CASE test = FALSE
    <2>1. events'.tests = events.tests /\ events'.deaths = events.deaths BY <1>4, <1>5
    <2>2. ~k.test BY <1>1, <1>5
    <2>3. UNCHANGED issued /\ pc[t] # "answer" BY <1>1
    <2>4. Budget' BY <1>2, <2>1, <2>2, <2>3, CalmBudget
    <2> QED BY <1>3, <2>4
  <1>6. CASE test = TRUE
    <2>1. Lacking' \subseteq Lacking BY <1>1, <1>2, CalmLacks
    <2>2. Testing' \subseteq Testing \union {t} BY <1>1, Moved DEF Testing
    <2>3. Orphaned \subseteq Orphaned' BY <1>1, <1>2, CalmOrphans DEF Orphaned
    <2>4. Cardinality(Testing') <= Cardinality(Testing) + 1
      BY <2>2, CountedFinite, WithinOneMore
    <2>5. /\ Cardinality(Lacking') <= Cardinality(Lacking)
          /\ Cardinality(Orphaned) <= Cardinality(Orphaned')
      BY <2>1, <2>3, CountedFinite, CountedFiniteNext, Within
    <2>6. Adds(0, 0, 1, 0, 1, 0, 0)
      BY <1>1, <1>4, <1>6, <2>4, <2>5, CountedFinite, CountedFiniteNext DEF Adds
    <2> QED BY <1>3, <2>6, BudgetKept
  <1> QED BY <1>5, <1>6

LEMMA UseCachedRefresh ==
    ASSUME RefreshInv, RegistryTypeOK', NEW t \in Tasks, UseCached(t)
    PROVE  FreshOK' /\ Budget'
  <1> USE DEF RefreshInv, RegistryInv
  <1> DEFINE k == [call[t] EXCEPT !.client = cached[call[t].instance].client]
  <1>1. /\ pc[t] = "want" /\ Moves(t, "token", k) /\ k.test = call[t].test
        /\ UNCHANGED <<config, cached, registry, clients, valid, issued, events>>
    BY Parts DEF UseCached, Goto, Moves, Call
  <1> HIDE DEF k
  <1>2. Calm(t, "token", k) BY <1>1 DEF Calm
  <1>3. FreshOK' BY <1>1, FreshMoves DEF FreshOK
  <1>4. Budget' BY <1>1, <1>2, CalmBudget DEF TestStages
  <1> QED BY <1>3, <1>4

LEMMA ReplaceRefresh ==
    ASSUME RefreshInv, RegistryTypeOK', NEW t \in Tasks, BeginReplace(t)
    PROVE  FreshOK' /\ Budget'
  <1> USE DEF RefreshInv, RegistryInv
  <1> DEFINE d == cached[call[t].instance].client
             q == [clients[d] EXCEPT !.open = FALSE]
  <1>1. /\ pc[t] = "want" /\ Cached(call[t].instance) /\ call[t].instance \in Instances
        /\ pc' = [pc EXCEPT ![t] = "closing"] /\ clients' = [clients EXCEPT ![d] = q]
        /\ UNCHANGED <<cached, valid, issued, call, events>>
    BY Parts DEF BeginReplace, Goto, Cached
  <1>2. d \in DOMAIN clients BY <1>1 DEF StructureInv, CacheOK
  <1>3. q.token = clients[d].token /\ q.expired = clients[d].expired /\ ~q.open
    BY <1>2, Parts DEF Client
  <1> HIDE DEF q, d
  <1>4. Moves(t, "closing", call[t]) BY <1>1, Remains
  <1>5. Calm(t, "closing", call[t]) BY <1>1, <1>2, <1>3, <1>4 DEF Calm
  <1>6. FreshOK' BY <1>1, <1>4, <1>5, FreshMoves DEF FreshOK, Calm
  <1>7. Budget' BY <1>1, <1>5, CalmBudget DEF TestStages
  <1> QED BY <1>6, <1>7

LEMMA InstallRefresh ==
    ASSUME RefreshInv, RegistryTypeOK', NEW t \in Tasks, FirstClient(t) \/ EndReplace(t)
    PROVE  FreshOK' /\ Budget'
  <1> USE DEF RefreshInv, RegistryInv
  <1> DEFINE n == Len(clients) + 1
             q == NewClient(t)
             i == call[t].instance
             e == [config |-> call[t].config, client |-> n]
             k == [call[t] EXCEPT !.client = n]
  <1>1. pc[t] \in {"want", "closing"} /\ Install(t) BY DEF FirstClient, EndReplace
  <1>2. i \in Instances /\ call[t].config \in Config /\ n \in Nat /\ n \notin DOMAIN clients
        /\ call[t] \in Call
    BY <1>1, Parts
  <1>3. q \in Client /\ q.token = NoToken BY <1>2 DEF NewClient, Client, Token
  <1>4. e \in Entry /\ e.client = n BY <1>2 DEF Entry
  <1>5. /\ Moves(t, "token", k) /\ k.test = call[t].test
        /\ clients' = Append(clients, q) /\ cached' = [cached EXCEPT ![i] = e]
        /\ UNCHANGED <<valid, issued, events>>
    BY <1>1, <1>2 DEF Install, Goto, NewClient, Moves, Call
  <1>6. clients \in Seq(Client) BY DEF RegistryTypeOK
  <1> HIDE DEF q, e, k
  <1>7. /\ DOMAIN clients' = DOMAIN clients \union {n} /\ clients'[n] = q
        /\ \A c \in DOMAIN clients : clients'[c] = clients[c]
        /\ Len(clients') = n
    BY <1>2, <1>3, <1>5, <1>6
  <1>8. cached'[i] = e /\ \A j \in Instances : j # i => cached'[j] = cached[j]
    BY <1>2, <1>5 DEF RegistryTypeOK
  <1>9. pc'[t] = "token" /\ call'[t] = k
        /\ \A u \in Tasks : u # t => pc'[u] = pc[u] /\ call'[u] = call[u]
    BY <1>5, Moved
  <1>10. FreshOK' BY <1>3, <1>5, <1>7, FreshMoves DEF FreshOK
  <1>11. \A u \in Tasks : pc[u] \in {"gen", "answer"} =>
            u # t /\ call[u].client \in DOMAIN clients
    BY <1>1 DEF StructureInv, UsesOK, Using
  <1>12. Lacking' \subseteq Lacking \union {n}
    <2> SUFFICES ASSUME NEW c \in DOMAIN clients, Lacks(c)' PROVE Lacks(c)
      BY <1>7 DEF Lacking
    <2>1. c # n BY <1>2
    <2>2. Bad(c)' => Bad(c) BY <1>4, <1>5, <1>7, <1>8, <2>1 DEF Bad, Cached
    <2>3. \A u \in Tasks : pc'[u] \in {"gen", "answer"} => pc'[u] = pc[u] /\ call'[u] = call[u]
      BY <1>9
    <2>4. \A u \in Tasks : pc[u] = "answer" => pc'[u] = "answer" /\ call'[u] = call[u]
      BY <1>9, <1>11
    <2> QED BY <1>5, <1>7, <2>2, <2>3, <2>4 DEF Lacks
  <1>13. Testing' \subseteq Testing BY <1>1, <1>5, <1>9 DEF Testing, TestStages
  <1>14. Orphaned \subseteq Orphaned' BY <1>7, <1>9, <1>11 DEF Orphaned, MyClient
  <1>15. Cardinality(Lacking') <= Cardinality(Lacking) + 1
    BY <1>12, CountedFinite, WithinOneMore
  <1>16. /\ Cardinality(Testing') <= Cardinality(Testing)
         /\ Cardinality(Orphaned) <= Cardinality(Orphaned')
    BY <1>13, <1>14, CountedFinite, CountedFiniteNext, Within
  <1>17. Adds(0, 1, 0, 1, 0, 0, 0)
    BY <1>5, <1>7, <1>15, <1>16, CountedFinite, CountedFiniteNext DEF Adds
  <1> QED BY <1>10, <1>17, BudgetKept

LEMMA UseTokenRefresh ==
    ASSUME RefreshInv, RegistryTypeOK', NEW t \in Tasks, UseToken(t)
    PROVE  FreshOK' /\ Budget'
  <1> USE DEF RefreshInv, RegistryInv
  <1> DEFINE k == [call[t] EXCEPT !.token = MyClient(t).token]
  <1>1. /\ pc[t] \in {"token", "retoken"} /\ Moves(t, "post", k) /\ Usable(t)
        /\ UNCHANGED <<cached, clients, valid, issued, events>>
    BY DEF UseToken, Goto, Moves
  <1>2. /\ call[t] \in Call /\ call[t].test \in BOOLEAN
        /\ call[t].client \in DOMAIN clients
    BY <1>1, Parts DEF StructureInv, UsesOK, Using
  <1>3. k.test = call[t].test /\ k.token = MyClient(t).token BY <1>2 DEF Call
  <1> HIDE DEF k
  <1>4. ~k.test BY <1>1, <1>2, <1>3 DEF Usable, FreshOK
  <1>5. Known(k.token) BY <1>1, <1>2, <1>3 DEF Usable, FreshOK, MyClient
  <1>6. Calm(t, "post", k) BY <1>1 DEF Calm
  <1>7. FreshOK' BY <1>1, <1>4, <1>5, FreshMoves DEF FreshOK
  <1>8. Budget' BY <1>1, <1>6, CalmBudget DEF TestStages
  <1> QED BY <1>7, <1>8

(* The request of a token is announced: the client had nothing of use, or  *)
(* the call is a test.                                                     *)
LEMMA BeginGenRefresh ==
    ASSUME RefreshInv, RegistryTypeOK', NEW t \in Tasks, BeginGen(t)
    PROVE  FreshOK' /\ Budget'
  <1> USE DEF RefreshInv, RegistryInv
  <1> DEFINE c == call[t].client
             q == [clients[c] EXCEPT !.busy = t]
  <1>1. /\ pc[t] \in {"token", "retoken"} /\ clients[c].busy = NoTask /\ ~Usable(t) /\ clients[c].open
        /\ pc' = [pc EXCEPT ![t] = "gen"] /\ clients' = [clients EXCEPT ![c] = q]
        /\ UNCHANGED <<cached, valid, issued, call, events>>
    BY DEF BeginGen, Goto, NeedsToken, MyClient
  <1>2. c \in DOMAIN clients BY <1>1 DEF StructureInv, UsesOK, Using
  <1>3. q.open = clients[c].open /\ q.token = clients[c].token /\ q.expired = clients[c].expired
    BY <1>2, Parts DEF Client
  <1> HIDE DEF q
  <1>4. /\ DOMAIN clients' = DOMAIN clients
        /\ \A d \in DOMAIN clients : /\ clients'[d].open = clients[d].open
                                     /\ clients'[d].token = clients[d].token
                                     /\ clients'[d].expired = clients[d].expired
    BY <1>1, <1>2, <1>3
  <1>5. Moves(t, "gen", call[t]) BY <1>1, Remains
  <1>6. pc'[t] = "gen" /\ \A u \in Tasks : u # t => pc'[u] = pc[u] BY <1>5, Moved
  <1>7. FreshOK' BY <1>1, <1>4, <1>5, FreshMoves DEF FreshOK
  <1>8. ~call[t].test => Lacks(c)
    <2> SUFFICES ASSUME ~call[t].test PROVE Lacks(c) OBVIOUS
    <2>1. \A u \in Tasks : pc[u] = "answer" => call[u].client # c
      BY <1>1, RegistryAssumption DEF BusyOK, Refreshing
    <2>2. CASE clients[c].token = NoToken \/ clients[c].expired
      BY <1>1, <2>1, <2>2 DEF Lacks, Bad
    <2>3. CASE clients[c].token # NoToken /\ ~clients[c].expired
      <3>1. pc[t] = "retoken" /\ clients[c].token = call[t].token BY <1>1, <2>3 DEF Usable, MyClient
      <3>2. call[t].token # valid[call[t].instance] BY <3>1 DEF FreshOK
      <3>3. PICK i \in Instances : Cached(i) /\ cached[i].client = c
        BY <1>1, <1>2 DEF StructureInv, NoClientLeaks, OpenClients, Cached
      <3>4. i = call[t].instance BY <1>1, <3>3 DEF StructureInv, UsesOK, Using
      <3> QED BY <1>1, <2>1, <3>1, <3>2, <3>3, <3>4 DEF Lacks, Bad
    <2> QED BY <2>2, <2>3
  <1>9. Lacking' \subseteq Lacking
    <2> SUFFICES ASSUME NEW d \in DOMAIN clients, Lacks(d)' PROVE Lacks(d)
      BY <1>4 DEF Lacking
    <2>1. Bad(d)' <=> Bad(d) BY <1>1, <1>4 DEF Bad, Cached
    <2>2. CASE d = c /\ ~call[t].test BY <1>8, <2>2
    <2>3. CASE ~(d = c /\ ~call[t].test) BY <1>1, <1>4, <1>6, <2>1, <2>3 DEF Lacks
    <2> QED BY <2>2, <2>3
  <1>10. Testing' \subseteq Testing
    <2>1. pc[t] = "retoken" => ~call[t].test BY DEF FreshOK
    <2> QED BY <1>1, <1>6, <2>1 DEF Testing, TestStages
  <1>11. Orphaned \subseteq Orphaned'
    BY <1>1, <1>4, <1>6 DEF Orphaned, MyClient, StructureInv, UsesOK, Using
  <1>12. Len(clients') = Len(clients) BY <1>4 DEF RegistryTypeOK
  <1>13. /\ Cardinality(Lacking') <= Cardinality(Lacking)
         /\ Cardinality(Testing') <= Cardinality(Testing)
         /\ Cardinality(Orphaned) <= Cardinality(Orphaned')
    BY <1>9, <1>10, <1>11, CountedFinite, CountedFiniteNext, Within
  <1>14. Adds(0, 0, 0, 0, 0, 0, 0)
    BY <1>1, <1>12, <1>13, CountedFinite, CountedFiniteNext DEF Adds
  <1> QED BY <1>7, <1>14, BudgetKept

(* At most one client is open that a token of the instance is kept in.     *)
LEMMA OneOpen ==
    ASSUME RegistryTypeOK, StructureInv, NEW i \in Instances,
           NEW c \in DOMAIN clients, clients[c].open,
           NEW d \in DOMAIN clients, clients[d].open,
           \/ Cached(i) /\ cached[i].client = c
           \/ \E t \in Tasks : Using(t) /\ call[t].instance = i /\ call[t].client = c,
           \/ Cached(i) /\ cached[i].client = d
           \/ \E t \in Tasks : Using(t) /\ call[t].instance = i /\ call[t].client = d
    PROVE  c = d
  <1>1. PICK j \in Instances : Cached(j) /\ cached[j].client = c
    BY DEF StructureInv, NoClientLeaks, OpenClients, Cached
  <1>2. PICK k \in Instances : Cached(k) /\ cached[k].client = d
    BY DEF StructureInv, NoClientLeaks, OpenClients, Cached
  <1>3. j = i BY <1>1 DEF StructureInv, CacheOK, UsesOK
  <1>4. k = i BY <1>2 DEF StructureInv, CacheOK, UsesOK
  <1> QED BY <1>1, <1>2, <1>3, <1>4

(* The token that CloudMail accepts for instance i changes.                *)
LEMMA ValidLacks ==
    ASSUME RegistryTypeOK, StructureInv, NEW i \in Instances, UNCHANGED <<cached, clients>>,
           \A j \in Instances : j # i => valid'[j] = valid[j],
           NEW t, \A u \in Tasks : u # t => pc'[u] = pc[u] /\ call'[u] = call[u],
           t \in Tasks => pc[t] = "gen" /\ pc'[t] = "answer" /\ call'[t].client = call[t].client
                          /\ call'[t].instance = i /\ call[t].instance = i /\ call'[t].token = valid'[i],
           NEW c \in DOMAIN clients, Lacks(c)', ~Lacks(c)
    PROVE  /\ clients[c].open
           /\ \/ Cached(i) /\ cached[i].client = c
              \/ \E u \in Tasks : Using(u) /\ call[u].instance = i /\ call[u].client = c
  <1>1. ~\E u \in Tasks : pc'[u] = "gen" /\ ~call'[u].test /\ call'[u].client = c
    BY DEF Lacks
  <1>2. CASE /\ clients'[c].open
             /\ \E u \in Tasks : pc'[u] = "answer" /\ call'[u].client = c
                                 /\ call'[u].token # valid'[call'[u].instance]
    <2>1. PICK u \in Tasks : pc'[u] = "answer" /\ call'[u].client = c
                              /\ call'[u].token # valid'[call'[u].instance]
      BY <1>2
    <2>2. u # t BY <2>1
    <2>3. pc[u] = "answer" /\ call[u] = call'[u] BY <2>1, <2>2
    <2>4. call[u].instance \in Instances BY <2>3, Parts
    <2>5. call[u].instance = i BY <1>2, <2>1, <2>3, <2>4 DEF Lacks
    <2> QED BY <1>2, <2>1, <2>3, <2>5 DEF Using
  <1>3. CASE clients'[c].open /\ Bad(c)' /\ \A u \in Tasks : pc'[u] = "answer" => call'[u].client # c
    <2>1. \A u \in Tasks : pc[u] = "answer" => call[u].client # c
      BY <1>3
    <2>2. clients[c].open /\ ~Bad(c) BY <1>3, <2>1 DEF Lacks
    <2>3. PICK j \in Instances : Cached(j) /\ cached[j].client = c /\ valid'[j] # valid[j]
      BY <1>3, <2>2 DEF Bad, Cached
    <2> QED BY <2>2, <2>3
  <1> QED BY <1>1, <1>2, <1>3 DEF Lacks

LEMMA IssuesRefresh ==
    ASSUME RefreshInv, RegistryTypeOK', NEW t \in Tasks, CloudIssues(t)
    PROVE  FreshOK' /\ Budget'
  <1> USE DEF RefreshInv, RegistryInv
  <1> DEFINE c == call[t].client
             i == call[t].instance
             k == [call[t] EXCEPT !.token = issued + 1]
  <1>1. /\ pc[t] = "gen" /\ Moves(t, "answer", k) /\ issued' = issued + 1
        /\ valid' = [valid EXCEPT ![i] = issued + 1]
        /\ UNCHANGED <<cached, clients, events>>
    BY DEF CloudIssues, Goto, Moves
  <1>2. /\ call[t] \in Call /\ i \in Instances /\ c \in DOMAIN clients /\ issued \in Nat
        /\ call[t].test \in BOOLEAN
    BY <1>1, Parts DEF RegistryTypeOK, StructureInv, UsesOK, Using
  <1>3. k.test = call[t].test /\ k.client = c /\ k.instance = i /\ k.token = issued + 1
    BY <1>2 DEF Call
  <1>4. valid'[i] = issued + 1 /\ \A j \in Instances : j # i => valid'[j] = valid[j]
    BY <1>1, <1>2 DEF RegistryTypeOK
  <1> HIDE DEF k
  <1>5. /\ pc'[t] = "answer" /\ call'[t] = k
        /\ \A u \in Tasks : u # t => pc'[u] = pc[u] /\ call'[u] = call[u]
    BY <1>1, Moved
  <1>6. FreshOK'
    <2>1. \A x : Known(x) => x \in Nat /\ x <= issued' /\ x # issued + 1 BY <1>1, <1>2 DEF Known
    <2>2. k.token \in Nat /\ k.token <= issued' BY <1>1, <1>2, <1>3
    <2>3. ASSUME NEW u \in Tasks, pc'[u] = "retoken" PROVE call'[u].token # valid'[call'[u].instance]
      <3>1. u # t /\ pc[u] = "retoken" /\ call'[u] = call[u] BY <1>5, <2>3
      <3>2. Known(call[u].token) /\ call[u].token # valid[call[u].instance] BY <3>1 DEF FreshOK
      <3>3. call[u].instance \in Instances BY <3>1, Parts
      <3> QED BY <1>4, <2>1, <3>1, <3>2, <3>3
    <2>4. \A d \in DOMAIN clients' : clients'[d].token # NoToken =>
             clients'[d].token \in Nat /\ clients'[d].token <= issued'
      BY <1>1, <2>1 DEF FreshOK
    <2>5. \A u \in Tasks : pc'[u] \in {"answer", "post", "retoken"} =>
             call'[u].token \in Nat /\ call'[u].token <= issued'
      BY <1>5, <2>1, <2>2 DEF FreshOK
    <2>6. \A u \in Tasks : pc'[u] \in {"post", "retoken"} => ~call'[u].test
      BY <1>5 DEF FreshOK
    <2> QED BY <2>3, <2>4, <2>5, <2>6 DEF FreshOK, Known
  <1>7. \A d \in Lacking' \ Lacking :
          /\ d \in DOMAIN clients /\ clients[d].open
          /\ \/ Cached(i) /\ cached[i].client = d
             \/ \E u \in Tasks : Using(u) /\ call[u].instance = i /\ call[u].client = d
    <2>1. \A d \in DOMAIN clients : Lacks(d)' /\ ~Lacks(d) =>
          /\ clients[d].open
          /\ \/ Cached(i) /\ cached[i].client = d
             \/ \E u \in Tasks : Using(u) /\ call[u].instance = i /\ call[u].client = d
      BY <1>1, <1>2, <1>3, <1>4, <1>5, ValidLacks
    <2> QED BY <1>1, <2>1 DEF Lacking
  <1>8. \A u \in Tasks : u # t /\ Refreshing(u) => call[u].client # c
    BY <1>1 DEF BusyOK, Refreshing
  <1>9. c \notin Lacking'
    <2> SUFFICES ASSUME NEW x, x = c, Lacks(x)' PROVE FALSE BY DEF Lacking
    <2>1. ~\E u \in Tasks : pc'[u] = "gen" /\ ~call'[u].test /\ call'[u].client = c
      BY <1>5, <1>8 DEF Refreshing
    <2>2. ~\E u \in Tasks : pc'[u] = "answer" /\ call'[u].client = c
                              /\ call'[u].token # valid'[call'[u].instance]
      BY <1>3, <1>4, <1>5, <1>8 DEF Refreshing
    <2>3. pc'[t] = "answer" /\ call'[t].client = c BY <1>3, <1>5
    <2> QED BY <2>1, <2>2, <2>3 DEF Lacks
  <1>10. Testing' \subseteq Testing /\ t \notin Testing'
    BY <1>5 DEF Testing, TestStages
  <1>11. Orphaned \subseteq Orphaned' BY <1>1, <1>5 DEF Orphaned, MyClient
  (* What the call itself was paid for: as a test, or by its client.       *)
  <1>12. call[t].test => t \in Testing BY <1>1 DEF Testing, TestStages
  <1>13. ~call[t].test => c \in Lacking BY <1>1, <1>2 DEF Lacking, Lacks
  (* Another client of the instance lacks a token now only if this one was *)
  (* closed meanwhile, and the answer is lost.                             *)
  <1>14. \A d \in Lacking' \ Lacking : ~clients[c].open
    <2> SUFFICES ASSUME NEW d \in Lacking' \ Lacking, clients[c].open PROVE FALSE OBVIOUS
    <2>1. \E u \in Tasks : Using(u) /\ call[u].instance = i /\ call[u].client = c BY <1>1 DEF Using
    <2>2. c = d BY <1>2, <1>7, <2>1, OneOpen
    <2> QED BY <1>9, <2>2
  <1>15. \A d, e \in Lacking' \ Lacking : d = e BY <1>2, <1>7, OneOpen
  <1>16. ~clients[c].open => Orphaned \union {t} \subseteq Orphaned' /\ t \notin Orphaned
    BY <1>1, <1>3, <1>5, <1>11 DEF Orphaned, MyClient
  <1> DEFINE Issue == /\ issued' = issued + 1 /\ Len(clients') = Len(clients) + 0
                      /\ events'.tests = events.tests + 0 /\ events'.deaths = events.deaths + 0
             Counts == /\ Cardinality(Lacking) \in Nat /\ Cardinality(Lacking') \in Nat
                       /\ Cardinality(Testing) \in Nat /\ Cardinality(Testing') \in Nat
                       /\ Cardinality(Orphaned) \in Nat /\ Cardinality(Orphaned') \in Nat
  <1>17. Counts BY CountedFinite, CountedFiniteNext
  <1>18. Issue BY <1>1, CountedFinite
  <1>19. PICK m : m = -1 OBVIOUS
  <1>20. CASE clients[c].open
    <2>1. Lacking' \subseteq Lacking BY <1>14, <1>20
    <2>2. Cardinality(Orphaned) <= Cardinality(Orphaned') BY <1>11, CountedFiniteNext, Within
    <2>3. CASE call[t].test
      <3>1. Cardinality(Testing') + 1 <= Cardinality(Testing)
        BY <1>10, <1>12, <2>3, CountedFinite, WithoutOne
      <3>2. Cardinality(Lacking') <= Cardinality(Lacking) BY <2>1, CountedFinite, Within
      <3>3. Adds(1, 0, m, 0, 0, 0, 0)
        BY <1>17, <1>18, <1>19, <2>2, <3>1, <3>2 DEF Adds
      <3> QED BY <1>6, <3>3, BudgetKept
    <2>4. CASE ~call[t].test
      <3>1. Cardinality(Lacking') + 1 <= Cardinality(Lacking)
        BY <1>9, <1>13, <2>1, <2>4, CountedFinite, WithoutOne
      <3>2. Cardinality(Testing') <= Cardinality(Testing) BY <1>10, CountedFinite, Within
      <3>3. Adds(1, m, 0, 0, 0, 0, 0)
        BY <1>17, <1>18, <1>19, <2>2, <3>1, <3>2 DEF Adds
      <3> QED BY <1>6, <3>3, BudgetKept
    <2> QED BY <2>3, <2>4
  <1>21. CASE ~clients[c].open
    <2>1. Cardinality(Orphaned) + 1 <= Cardinality(Orphaned')
      <3>1. t \in Orphaned' /\ Orphaned \subseteq Orphaned' \ {t} BY <1>16, <1>21
      <3> QED BY <3>1, CountedFiniteNext, WithoutOne
    <2>2. \E x : Lacking' \subseteq Lacking \union {x} BY <1>15
    <2>3. PICK x : Lacking' \subseteq Lacking \union {x} BY <2>2
    <2>4. CASE call[t].test
      <3>1. Cardinality(Testing') + 1 <= Cardinality(Testing)
        BY <1>10, <1>12, <2>4, CountedFinite, WithoutOne
      <3>2. Cardinality(Lacking') <= Cardinality(Lacking) + 1
        BY <2>3, CountedFinite, WithinOneMore
      <3>3. Adds(1, 1, m, 0, 0, 0, 1)
        BY <1>17, <1>18, <1>19, <2>1, <3>1, <3>2 DEF Adds
      <3> QED BY <1>6, <3>3, BudgetKept
    <2>5. CASE ~call[t].test
      <3> DEFINE rest == Lacking \ {c}
      <3>1. IsFiniteSet(rest) BY CountedFinite, FS_RemoveElement
      <3>2. Cardinality(rest) + 1 <= Cardinality(Lacking) /\ Cardinality(rest) \in Nat
        BY <1>13, <2>5, CountedFinite, WithoutOne
      <3>3. Lacking' \subseteq rest \union {x} BY <1>9, <2>3
      <3> HIDE DEF rest
      <3>4. Cardinality(Lacking') <= Cardinality(rest) + 1 BY <3>1, <3>3, WithinOneMore
      <3>5. Cardinality(Lacking') <= Cardinality(Lacking) + 0
        BY <3>2, <3>4, CountedFinite, CountedFiniteNext
      <3>6. Cardinality(Testing') <= Cardinality(Testing) BY <1>10, CountedFinite, Within
      <3>7. Adds(1, 0, 0, 0, 0, 0, 1)
        BY <1>17, <1>18, <2>1, <3>5, <3>6 DEF Adds
      <3> QED BY <1>6, <3>7, BudgetKept
    <2> QED BY <2>4, <2>5
  <1> QED BY <1>20, <1>21

LEMMA EndGenRefresh ==
    ASSUME RefreshInv, RegistryTypeOK', NEW t \in Tasks, EndGen(t)
    PROVE  FreshOK' /\ Budget'
  <1> USE DEF RefreshInv, RegistryInv
  <1> DEFINE c == call[t].client
             q == [clients[c] EXCEPT !.token = call[t].token, !.expired = FALSE, !.busy = NoTask]
             s == IF call[t].test THEN "done" ELSE "post"
  <1>1. /\ pc[t] = "answer" /\ clients[c].open /\ UNCHANGED <<cached, valid, issued, call, events>>
        /\ clients' = [clients EXCEPT ![c].token = call[t].token, ![c].expired = FALSE, ![c].busy = NoTask]
        /\ pc' = [pc EXCEPT ![t] = s]
    BY DEF EndGen, Goto, MyClient
  <1>2. /\ c \in DOMAIN clients /\ call[t].test \in BOOLEAN /\ call[t].instance \in Instances
        /\ Known(call[t].token) /\ call[t].token # NoToken
    BY <1>1, Parts, RegistryAssumption DEF StructureInv, UsesOK, Using, FreshOK, Known
  <1>3. q.open = clients[c].open /\ q.token = call[t].token /\ ~q.expired
    BY <1>2, Parts DEF Client
  <1>4. clients' = [clients EXCEPT ![c] = q] BY <1>1
  <1> HIDE DEF q
  <1>5. /\ DOMAIN clients' = DOMAIN clients /\ clients'[c] = q
        /\ \A d \in DOMAIN clients : d # c => clients'[d] = clients[d]
        /\ \A d \in DOMAIN clients : clients'[d].open = clients[d].open
    BY <1>2, <1>3, <1>4
  <1>6. /\ s \in {"done", "post"} /\ Moves(t, s, call[t])
        /\ s = "post" => ~call[t].test
    BY <1>1, Remains
  <1> HIDE DEF s
  <1>7. pc'[t] = s /\ \A u \in Tasks : u # t => pc'[u] = pc[u] BY <1>6, Moved
  <1>8. FreshOK'
    <2>1. \A d \in DOMAIN clients' : clients'[d].token # NoToken => Known(clients'[d].token)
      BY <1>2, <1>3, <1>5 DEF FreshOK
    <2>2. s = "post" => ~call[t].test BY <1>6
    <2>3. s \in {"done", "post"} /\ Moves(t, s, call[t]) /\ UNCHANGED <<valid, issued>> BY <1>1, <1>6
    <2> QED BY <1>2, <2>1, <2>2, <2>3, FreshMoves
  <1>9. \A u \in Tasks : u # t /\ Refreshing(u) => call[u].client # c
    BY <1>1 DEF BusyOK, Refreshing
  <1>10. Lacking' \subseteq Lacking
    <2> SUFFICES ASSUME NEW d \in DOMAIN clients, Lacks(d)' PROVE Lacks(d)
      BY <1>5 DEF Lacking
    <2>1. CASE d # c
      <3>1. Bad(d)' <=> Bad(d) BY <1>1, <1>5, <2>1 DEF Bad, Cached
      <3>2. UNCHANGED <<call, valid>> /\ clients'[d].open = clients[d].open BY <1>1, <1>5
      <3>3. \A u \in Tasks : pc'[u] = "answer" => pc[u] = "answer" BY <1>6, <1>7
      <3>4. \A u \in Tasks : pc'[u] = "gen" => pc[u] = "gen" BY <1>6, <1>7
      <3>5. \A u \in Tasks : pc[u] = "answer" /\ call[u].client = d => pc'[u] = "answer"
        BY <1>7, <2>1
      <3> QED BY <3>1, <3>2, <3>3, <3>4, <3>5 DEF Lacks
    <2>2. CASE d = c
      <3>1. ~\E u \in Tasks : pc'[u] \in {"gen", "answer"} /\ call'[u].client = c
        BY <1>1, <1>6, <1>7, <1>9 DEF Refreshing
      <3>2. Bad(d)' BY <2>2, <3>1 DEF Lacks
      <3>3. PICK i \in Instances : Cached(i) /\ cached[i].client = c /\ call[t].token # valid[i]
        BY <1>1, <1>2, <1>3, <1>5, <2>2, <3>2 DEF Bad, Cached
      <3>4. i = call[t].instance BY <1>1, <3>3 DEF StructureInv, UsesOK, Using
      <3> QED BY <1>1, <2>2, <3>3, <3>4 DEF Lacks
    <2> QED BY <2>1, <2>2
  <1>11. Testing' \subseteq Testing BY <1>1, <1>6, <1>7 DEF Testing, TestStages
  <1>12. Orphaned \subseteq Orphaned'
    BY <1>1, <1>5, <1>7 DEF Orphaned, MyClient, StructureInv, UsesOK, Using
  <1>13. Len(clients') = Len(clients) BY <1>5 DEF RegistryTypeOK
  <1>14. /\ Cardinality(Lacking') <= Cardinality(Lacking)
         /\ Cardinality(Testing') <= Cardinality(Testing)
         /\ Cardinality(Orphaned) <= Cardinality(Orphaned')
    BY <1>10, <1>11, <1>12, CountedFinite, CountedFiniteNext, Within
  <1>15. Adds(0, 0, 0, 0, 0, 0, 0)
    BY <1>1, <1>13, <1>14, CountedFinite, CountedFiniteNext DEF Adds
  <1> QED BY <1>8, <1>15, BudgetKept

(* A call ends before its answer, or with it.                              *)
LEMMA LeaveRefresh ==
    ASSUME RefreshInv, RegistryTypeOK', NEW t \in Tasks, GenFails(t) \/ Cancel(t)
    PROVE  FreshOK' /\ Budget'
  <1> USE DEF RefreshInv, RegistryInv
  <1>1. /\ pc' = [pc EXCEPT ![t] = "done"] /\ clients' = Unlocked(t)
        /\ UNCHANGED <<cached, valid, issued, call>>
    BY DEF GenFails, Cancel, Goto
  <1>2. events'.deaths = Deaths(t) /\ events'.tests = events.tests
    <2>1. CASE GenFails(t) BY <2>1 DEF GenFails, RegistryTypeOK
    <2>2. CASE Cancel(t)
      <3> DEFINE d == Deaths(t)
                 n == events.cancels + 1
      <3>1. events' = [events EXCEPT !.cancels = n, !.deaths = d] BY <2>2 DEF Cancel
      <3> HIDE DEF d, n
      <3>2. events'.deaths = d /\ events'.tests = events.tests BY <3>1 DEF RegistryTypeOK
      <3> QED BY <3>2 DEF d
    <2> QED BY <2>1, <2>2
  <1>3. Moves(t, "done", call[t]) BY <1>1, Remains
  <1>4. /\ Alike
        /\ \A d \in DOMAIN clients :
              clients'[d].token = clients[d].token /\ clients'[d].expired = clients[d].expired
    BY <1>1, UnlockedAlike
  <1>5. Calm(t, "done", call[t]) BY <1>1, <1>3, <1>4 DEF Calm, Alike
  <1>6. FreshOK' BY <1>1, <1>3, <1>4, FreshMoves DEF FreshOK, Alike
  <1>7. CASE pc[t] = "answer"
    <2>1. events'.deaths = events.deaths + 1 BY <1>2, <1>7 DEF Deaths
    <2>2. Budget' BY <1>1, <1>2, <1>4, <1>5, <1>7, <2>1, DroppedBudget DEF Alike
    <2> QED BY <1>6, <2>2
  <1>8. CASE pc[t] # "answer"
    <2>1. events'.deaths = events.deaths BY <1>2, <1>8, Parts DEF Deaths
    <2>2. Budget' BY <1>1, <1>2, <1>5, <1>8, <2>1, CalmBudget DEF TestStages
    <2> QED BY <1>6, <2>2
  <1> QED BY <1>7, <1>8

LEMMA AcceptedRefresh ==
    ASSUME RefreshInv, RegistryTypeOK', NEW t \in Tasks, NEW again \in BOOLEAN, Accepted(t, again)
    PROVE  FreshOK' /\ Budget'
  <1> USE DEF RefreshInv, RegistryInv
  <1> DEFINE k == [call[t] EXCEPT !.retried = FALSE, !.token = NoToken]
             s == IF again THEN "want" ELSE "done"
  <1>1. /\ pc[t] = "post" /\ Moves(t, s, k) /\ s \in {"want", "done"}
        /\ UNCHANGED <<cached, clients, valid, issued, events>>
    BY DEF Accepted, Goto, Moves
  <1>2. k.test = call[t].test /\ ~call[t].test BY <1>1, Parts DEF Call, FreshOK
  <1> HIDE DEF k, s
  <1>3. Calm(t, s, k) BY <1>1 DEF Calm
  <1>4. FreshOK' BY <1>1, FreshMoves DEF FreshOK
  <1>5. Budget' BY <1>1, <1>2, <1>3, CalmBudget
  <1> QED BY <1>4, <1>5

LEMMA RejectedRefresh ==
    ASSUME RefreshInv, RegistryTypeOK', NEW t \in Tasks, Rejected(t)
    PROVE  FreshOK' /\ Budget'
  <1> USE DEF RefreshInv, RegistryInv
  <1> DEFINE k == [call[t] EXCEPT !.retried = TRUE]
             s == IF call[t].retried THEN "done" ELSE "retoken"
  <1>1. /\ pc[t] = "post" /\ Moves(t, s, k) /\ s \in {"retoken", "done"}
        /\ call[t].token # valid[call[t].instance]
        /\ UNCHANGED <<cached, clients, valid, issued, events>>
    BY DEF Rejected, Goto, Moves
  <1>2. /\ k.test = call[t].test /\ k.token = call[t].token /\ k.instance = call[t].instance
        /\ ~call[t].test
    BY <1>1, Parts DEF Call, FreshOK
  <1> HIDE DEF k, s
  <1>3. Calm(t, s, k) BY <1>1 DEF Calm
  <1>4. FreshOK' BY <1>1, <1>2, FreshMoves DEF FreshOK
  <1>5. Budget' BY <1>1, <1>2, <1>3, CalmBudget
  <1> QED BY <1>4, <1>5

LEMMA PostFailsRefresh ==
    ASSUME RefreshInv, RegistryTypeOK', NEW t \in Tasks, PostFails(t)
    PROVE  FreshOK' /\ Budget'
  <1> USE DEF RefreshInv, RegistryInv
  <1>1. /\ pc[t] = "post" /\ Moves(t, "done", call[t])
        /\ UNCHANGED <<cached, clients, valid, issued, events>>
    BY Remains DEF PostFails, Goto
  <1>2. Calm(t, "done", call[t]) BY <1>1 DEF Calm
  <1>3. FreshOK' BY <1>1, FreshMoves DEF FreshOK
  <1>4. Budget' BY <1>1, <1>2, CalmBudget DEF TestStages
  <1> QED BY <1>3, <1>4

-----------------------------------------------------------------------------
(* A token ends: one client may lack one.                                  *)
LEMMA DeathBudget ==
    ASSUME RegistryTypeOK, RegistryTypeOK', Budget, NEW c,
           Lacking' \subseteq Lacking \union {c}, UNCHANGED <<pc, call, issued>>,
           DOMAIN clients' = DOMAIN clients, Orphaned \subseteq Orphaned',
           events'.tests = events.tests, events'.deaths = events.deaths + 1
    PROVE  Budget'
  <1>1. Testing' \subseteq Testing BY DEF Testing
  <1>2. Len(clients') = Len(clients) BY DEF RegistryTypeOK
  <1>3. Cardinality(Lacking') <= Cardinality(Lacking) + 1 BY CountedFinite, WithinOneMore
  <1>4. /\ Cardinality(Testing') <= Cardinality(Testing)
        /\ Cardinality(Orphaned) <= Cardinality(Orphaned')
    BY <1>1, CountedFinite, CountedFiniteNext, Within
  <1>5. Adds(0, 1, 0, 0, 0, 1, 0) BY <1>2, <1>3, <1>4, CountedFinite, CountedFiniteNext DEF Adds
  <1> QED BY <1>5, BudgetKept

LEMMA InvalidateRefresh ==
    ASSUME RefreshInv, RegistryTypeOK', NEW i \in Instances, Invalidate(i)
    PROVE  FreshOK' /\ Budget'
  <1> USE DEF RefreshInv, RegistryInv
  <1>1. /\ UNCHANGED <<cached, clients, issued, pc, call>>
        /\ valid'[i] = NoToken /\ \A j \in Instances : j # i => valid'[j] = valid[j]
        /\ events'.tests = events.tests /\ events'.deaths = events.deaths + 1
    BY DEF Invalidate, RegistryTypeOK
  <1>2. FreshOK'
    <2>1. ASSUME NEW t \in Tasks, pc[t] = "retoken" PROVE call[t].token # valid'[call[t].instance]
      BY <1>1, <2>1, Parts, RegistryAssumption DEF FreshOK, Known
    <2> QED BY <1>1, <2>1 DEF FreshOK, Known
  <1>3. \A d \in Lacking' \ Lacking :
          /\ d \in DOMAIN clients /\ clients[d].open
          /\ \/ Cached(i) /\ cached[i].client = d
             \/ \E u \in Tasks : Using(u) /\ call[u].instance = i /\ call[u].client = d
    <2>1. \E x : x \notin Tasks BY RegistryAssumption
    <2>2. PICK x : x \notin Tasks BY <2>1
    <2>3. \A d \in DOMAIN clients : Lacks(d)' /\ ~Lacks(d) =>
          /\ clients[d].open
          /\ \/ Cached(i) /\ cached[i].client = d
             \/ \E u \in Tasks : Using(u) /\ call[u].instance = i /\ call[u].client = d
      BY <1>1, <2>2, ValidLacks
    <2> QED BY <1>1, <2>3 DEF Lacking
  <1>4. \A d, e \in Lacking' \ Lacking : d = e BY <1>3, OneOpen
  <1>5. \E c : Lacking' \subseteq Lacking \union {c} BY <1>4
  <1>6. PICK c : Lacking' \subseteq Lacking \union {c} BY <1>5
  <1>7. Orphaned \subseteq Orphaned' BY <1>1 DEF Orphaned, MyClient
  <1>8. Budget' BY <1>1, <1>6, <1>7, DeathBudget
  <1> QED BY <1>2, <1>8

LEMMA ExpireRefresh ==
    ASSUME RefreshInv, RegistryTypeOK', NEW c \in DOMAIN clients, ExpireToken(c)
    PROVE  FreshOK' /\ Budget'
  <1> USE DEF RefreshInv, RegistryInv
  <1>1. /\ clients' = [clients EXCEPT ![c].expired = TRUE]
        /\ UNCHANGED <<cached, valid, issued, pc, call>>
        /\ events' = [events EXCEPT !.deaths = @ + 1]
    BY DEF ExpireToken
  <1>2. /\ DOMAIN clients' = DOMAIN clients
        /\ \A d \in DOMAIN clients :
              clients'[d].open = clients[d].open /\ clients'[d].token = clients[d].token
        /\ \A d \in DOMAIN clients : d # c => clients'[d] = clients[d]
    BY <1>1, Parts DEF Client
  <1>3. events'.tests = events.tests /\ events'.deaths = events.deaths + 1
    BY <1>1 DEF RegistryTypeOK
  <1>4. FreshOK' BY <1>1, <1>2 DEF FreshOK, Known
  <1>5. Lacking' \subseteq Lacking \union {c}
    <2> SUFFICES ASSUME NEW d \in DOMAIN clients, d # c, Lacks(d)' PROVE Lacks(d)
      BY <1>2 DEF Lacking
    <2>1. Bad(d)' <=> Bad(d) BY <1>1, <1>2 DEF Bad, Cached
    <2> QED BY <1>1, <1>2, <2>1 DEF Lacks
  <1>6. Orphaned \subseteq Orphaned'
    BY <1>1, <1>2 DEF Orphaned, MyClient, StructureInv, UsesOK, Using
  <1>7. Budget' BY <1>1, <1>2, <1>3, <1>5, <1>6, DeathBudget
  <1> QED BY <1>4, <1>7

LEMMA UpdateRefresh ==
    ASSUME RefreshInv, NEW i \in Instances, UpdateInstance(i)
    PROVE  FreshOK' /\ Budget'
  <1>1. /\ UNCHANGED <<cached, clients, valid, issued, pc, call>>
        /\ events'.tests = events.tests /\ events'.deaths = events.deaths
    BY DEF RefreshInv, RegistryInv, UpdateInstance, RegistryTypeOK
  <1>2. Lacking' = Lacking /\ Testing' = Testing /\ Orphaned' = Orphaned
    BY <1>1 DEF Lacking, Lacks, Bad, Cached, Testing, Orphaned, MyClient
  <1> QED BY <1>1, <1>2 DEF RefreshInv, FreshOK, Known, Budget

LEMMA QuietRefresh ==
    ASSUME RefreshInv, UNCHANGED registryVars
    PROVE  FreshOK' /\ Budget'
  <1>1. Lacking' = Lacking /\ Testing' = Testing /\ Orphaned' = Orphaned
    BY DEF registryVars, Lacking, Lacks, Bad, Cached, Testing, Orphaned, MyClient
  <1> QED BY <1>1 DEF registryVars, RefreshInv, FreshOK, Known, Budget

-----------------------------------------------------------------------------
LEMMA RefreshStarts == RegistryInit => RefreshInv
  <1> SUFFICES ASSUME RegistryInit PROVE RefreshInv OBVIOUS
  <1>1. RegistryInv BY RegistryStarts
  <1>2. /\ DOMAIN clients = {} /\ Len(clients) = 0 /\ issued = 0
        /\ \A t \in Tasks : pc[t] = "idle"
        /\ events.tests = 0 /\ events.deaths = 0
    BY DEF RegistryInit
  <1>3. FreshOK BY <1>2 DEF FreshOK
  <1>4. Lacking = {} /\ Testing = {} /\ Orphaned = {}
    BY <1>2 DEF Lacking, Testing, TestStages, Orphaned
  <1>5. Budget BY <1>2, <1>4, FS_EmptySet DEF Budget
  <1> QED BY <1>1, <1>3, <1>5 DEF RefreshInv

LEMMA RefreshSteps ==
    ASSUME RefreshInv, [RegistryNext]_registryVars
    PROVE  RefreshInv'
  <1>1. RegistryInv' BY RegistrySteps DEF RefreshInv
  <1>2. RegistryTypeOK' BY <1>1 DEF RegistryInv
  <1>3. ASSUME NEW t \in Tasks, Proceed(t) PROVE FreshOK' /\ Budget'
    <2>1. CASE UseCached(t) BY <1>2, <2>1, UseCachedRefresh
    <2>2. CASE FirstClient(t) \/ EndReplace(t) BY <1>2, <2>2, InstallRefresh
    <2>3. CASE BeginReplace(t) BY <1>2, <2>3, ReplaceRefresh
    <2>4. CASE UseToken(t) BY <1>2, <2>4, UseTokenRefresh
    <2>5. CASE BeginGen(t) BY <1>2, <2>5, BeginGenRefresh
    <2>6. CASE EndGen(t) BY <1>2, <2>6, EndGenRefresh
    <2>7. CASE GenFails(t) BY <1>2, <2>7, LeaveRefresh
    <2>8. CASE Accepted(t, FALSE) BY <1>2, <2>8, AcceptedRefresh
    <2>9. CASE Rejected(t) BY <1>2, <2>9, RejectedRefresh
    <2>10. CASE PostFails(t) BY <1>2, <2>10, PostFailsRefresh
    <2> QED
      BY <1>3, <2>1, <2>2, <2>3, <2>4, <2>5, <2>6, <2>7, <2>8, <2>9, <2>10 DEF Proceed
  <1>4. ASSUME NEW t \in Tasks, NEW i \in Instances, NEW test \in BOOLEAN, Start(t, i, test)
        PROVE  FreshOK' /\ Budget'
    BY <1>2, <1>4, StartRefresh
  <1>5. ASSUME NEW t \in Tasks, CloudIssues(t) PROVE FreshOK' /\ Budget'
    BY <1>2, <1>5, IssuesRefresh
  <1>6. ASSUME NEW t \in Tasks, Accepted(t, TRUE) PROVE FreshOK' /\ Budget'
    BY <1>2, <1>6, AcceptedRefresh
  <1>7. ASSUME NEW t \in Tasks, Cancel(t) PROVE FreshOK' /\ Budget'
    BY <1>2, <1>7, LeaveRefresh
  <1>8. ASSUME NEW i \in Instances, UpdateInstance(i) PROVE FreshOK' /\ Budget'
    BY <1>8, UpdateRefresh
  <1>9. ASSUME NEW i \in Instances, Invalidate(i) PROVE FreshOK' /\ Budget'
    BY <1>2, <1>9, InvalidateRefresh
  <1>10. ASSUME NEW c \in DOMAIN clients, ExpireToken(c) PROVE FreshOK' /\ Budget'
    BY <1>2, <1>10, ExpireRefresh
  <1>11. ASSUME UNCHANGED registryVars PROVE FreshOK' /\ Budget' BY <1>11, QuietRefresh
  <1>12. FreshOK' /\ Budget'
    BY <1>3, <1>4, <1>5, <1>6, <1>7, <1>8, <1>9, <1>10, <1>11 DEF RegistryNext, Quiet
  <1> QED BY <1>1, <1>12 DEF RefreshInv

(* get_token: however many calls have their token rejected at once, a token*)
(* is asked for once per client, once per token that ended in another way  *)
(* than by a newer one, and once per connection test.                      *)
THEOREM RegistryNoRefreshStorm == RegistrySpec => []NoRefreshStorm
  <1>1. RefreshInv => NoRefreshStorm
    BY CountedFinite DEF RefreshInv, RegistryInv, Budget, NoRefreshStorm
  <1>2. RegistrySpec => []RefreshInv
    BY RefreshStarts, RefreshSteps, PTL DEF RegistrySpec
  <1> QED BY <1>1, <1>2, PTL

-----------------------------------------------------------------------------
(* A lock is held only by a call that is about to give it back: the        *)
(* registry's while a client is closed, a client's while its call waits for*)
(* the answer of genToken.                                                 *)
LocksInUse ==
    /\ registry # NoTask => pc[registry] = "closing"
    /\ \A c \in DOMAIN clients :
          LET t == clients[c].busy IN t # NoTask => Refreshing(t) /\ call[t].client = c

LEMMA InUseMoves ==
    ASSUME RegistryTypeOK, RegistryInv', LocksInUse, NEW t \in Tasks, NEW s, NEW k, Moves(t, s, k),
           \A d \in DOMAIN clients' :
              \/ clients'[d].busy = NoTask
              \/ clients'[d].busy = t /\ s \in {"gen", "answer"} /\ k.client = d
              \/ d \in DOMAIN clients /\ clients'[d].busy = clients[d].busy /\ clients[d].busy # t
    PROVE  LocksInUse'
  <1>1. registry' # NoTask => pc'[registry'] = "closing"
    BY DEF RegistryInv, RegistryTypeOK, StructureInv, LockHeld
  <1>2. /\ pc'[t] = s /\ call'[t] = k
        /\ \A u \in Tasks : u # t => pc'[u] = pc[u] /\ call'[u] = call[u]
    BY Moved
  <1>3. ASSUME NEW d \in DOMAIN clients', clients'[d].busy # NoTask
        PROVE  /\ pc'[clients'[d].busy] \in {"gen", "answer"}
               /\ call'[clients'[d].busy].client = d
    <2>1. CASE clients'[d].busy = t /\ s \in {"gen", "answer"} /\ k.client = d BY <1>2, <2>1
    <2>2. CASE d \in DOMAIN clients /\ clients'[d].busy = clients[d].busy /\ clients[d].busy # t
      <3>1. clients[d].busy \in Tasks BY <1>3, <2>2, Parts DEF Client
      <3> QED BY <1>2, <1>3, <2>2, <3>1 DEF LocksInUse, Refreshing
    <2> QED BY <1>3, <2>1, <2>2
  <1> QED BY <1>1, <1>3 DEF LocksInUse, Refreshing

(* A task that is not refreshing holds no client's lock.                   *)
LEMMA InUseOthers ==
    ASSUME RegistryTypeOK, LocksInUse, NEW t \in Tasks, pc[t] \notin {"gen", "answer"},
           NEW c \in DOMAIN clients
    PROVE  clients[c].busy # t
  BY RegistryAssumption DEF LocksInUse, Refreshing

LEMMA InUseSame ==
    ASSUME RegistryInv, RegistryInv', LocksInUse, NEW t \in Tasks, NEW s, NEW k, Moves(t, s, k),
           pc[t] \notin {"gen", "answer"}, DOMAIN clients' = DOMAIN clients,
           \A d \in DOMAIN clients : clients'[d].busy = clients[d].busy
    PROVE  LocksInUse'
  <1>1. RegistryTypeOK BY DEF RegistryInv
  <1>2. \A d \in DOMAIN clients : clients[d].busy # t BY <1>1, InUseOthers
  <1> QED BY <1>1, <1>2, InUseMoves

LEMMA InUseInstall ==
    ASSUME RegistryInv, RegistryInv', LocksInUse, NEW t \in Tasks,
           FirstClient(t) \/ EndReplace(t)
    PROVE  LocksInUse'
  <1> USE DEF RegistryInv
  <1> DEFINE n == Len(clients) + 1
             q == NewClient(t)
             k == [call[t] EXCEPT !.client = n]
  <1>1. pc[t] \in {"want", "closing"} /\ Install(t) BY DEF FirstClient, EndReplace
  <1>2. n \in Nat /\ call[t].config \in Config BY <1>1, Parts
  <1>3. q \in Client /\ q.busy = NoTask BY <1>2 DEF NewClient, Client, Token
  <1>4. Moves(t, "token", k) /\ clients' = Append(clients, q)
    BY <1>1 DEF Install, Goto, NewClient, Moves
  <1>5. clients \in Seq(Client) BY DEF RegistryTypeOK
  <1> HIDE DEF q, k
  <1>6. /\ DOMAIN clients' = DOMAIN clients \union {n} /\ clients'[n] = q
        /\ \A c \in DOMAIN clients : clients'[c] = clients[c]
    BY <1>2, <1>3, <1>4, <1>5
  <1>7. \A d \in DOMAIN clients : clients[d].busy # t BY <1>1, InUseOthers
  <1> QED BY <1>3, <1>4, <1>6, <1>7, InUseMoves

LEMMA InUseReplace ==
    ASSUME RegistryInv, RegistryInv', LocksInUse, NEW t \in Tasks, BeginReplace(t)
    PROVE  LocksInUse'
  <1> DEFINE d == cached[call[t].instance].client
             q == [clients[d] EXCEPT !.open = FALSE]
  <1>1. /\ pc[t] = "want" /\ pc' = [pc EXCEPT ![t] = "closing"]
        /\ clients' = [clients EXCEPT ![d] = q] /\ UNCHANGED call
    BY DEF BeginReplace, Goto
  <1>2. d \in DOMAIN clients => q.busy = clients[d].busy BY Parts DEF Client, RegistryInv
  <1> HIDE DEF q, d
  <1>3. DOMAIN clients' = DOMAIN clients /\ \A c \in DOMAIN clients : clients'[c].busy = clients[c].busy
    BY <1>1, <1>2
  <1>4. Moves(t, "closing", call[t]) BY <1>1, Remains DEF RegistryInv
  <1> QED BY <1>1, <1>3, <1>4, InUseSame

(* The lock of a client is taken, kept and given back.                     *)
LEMMA InUseGen ==
    ASSUME RegistryInv, RegistryInv', LocksInUse, NEW t \in Tasks,
           BeginGen(t) \/ CloudIssues(t) \/ EndGen(t) \/ GenFails(t) \/ Cancel(t)
    PROVE  LocksInUse'
  <1> USE DEF RegistryInv
  <1> DEFINE c == call[t].client
  <1>1. CASE BeginGen(t)
    <2> DEFINE q == [clients[c] EXCEPT !.busy = t]
    <2>1. /\ pc[t] \in {"token", "retoken"} /\ pc' = [pc EXCEPT ![t] = "gen"]
          /\ clients' = [clients EXCEPT ![c] = q] /\ UNCHANGED call
      BY <1>1 DEF BeginGen, Goto, NeedsToken
    <2>2. c \in DOMAIN clients BY <2>1 DEF StructureInv, UsesOK, Using
    <2>3. q.busy = t BY <2>2, Parts DEF Client
    <2> HIDE DEF q
    <2>4. Moves(t, "gen", call[t]) BY <2>1, Remains
    <2>5. \A d \in DOMAIN clients : clients[d].busy # t BY <2>1, InUseOthers
    <2>6. /\ DOMAIN clients' = DOMAIN clients /\ clients'[c].busy = t
          /\ \A d \in DOMAIN clients : d # c => clients'[d] = clients[d]
      BY <2>1, <2>2, <2>3
    <2> QED BY <2>4, <2>5, <2>6, InUseMoves
  <1>2. CASE CloudIssues(t)
    <2> DEFINE k == [call[t] EXCEPT !.token = issued + 1]
    <2>1. Moves(t, "answer", k) /\ pc[t] = "gen" /\ UNCHANGED clients
      BY <1>2 DEF CloudIssues, Goto, Moves
    <2>2. k.client = c BY <2>1, Parts DEF Call
    <2> HIDE DEF k
    <2>3. \A d \in DOMAIN clients : clients[d].busy = t => d = c
      BY RegistryAssumption DEF LocksInUse
    <2> QED BY <2>1, <2>2, <2>3, InUseMoves
  <1>3. CASE EndGen(t)
    <2> DEFINE q == [clients[c] EXCEPT !.token = call[t].token, !.expired = FALSE, !.busy = NoTask]
               s == IF call[t].test THEN "done" ELSE "post"
    <2>1. /\ pc[t] = "answer" /\ pc' = [pc EXCEPT ![t] = s] /\ UNCHANGED call
          /\ clients' = [clients EXCEPT ![c] = q]
      BY <1>3 DEF EndGen, Goto
    <2>2. c \in DOMAIN clients BY <2>1 DEF StructureInv, UsesOK, Using
    <2>3. q.busy = NoTask BY <2>2, Parts DEF Client
    <2> HIDE DEF q, s
    <2>4. Moves(t, s, call[t]) BY <2>1, Remains
    <2>5. \A d \in DOMAIN clients : clients[d].busy = t => d = c
      BY RegistryAssumption DEF LocksInUse
    <2>6. /\ DOMAIN clients' = DOMAIN clients /\ clients'[c].busy = NoTask
          /\ \A d \in DOMAIN clients : d # c => clients'[d] = clients[d]
      BY <2>1, <2>2, <2>3
    <2> QED BY <2>4, <2>5, <2>6, InUseMoves
  <1>4. CASE GenFails(t) \/ Cancel(t)
    <2>1. pc' = [pc EXCEPT ![t] = "done"] /\ clients' = Unlocked(t) /\ UNCHANGED call
      BY <1>4 DEF GenFails, Cancel, Goto
    <2>2. Moves(t, "done", call[t]) BY <2>1, Remains
    <2>3. /\ DOMAIN clients' = DOMAIN clients
          /\ \A d \in DOMAIN clients :
                /\ clients'[d].busy = clients[d].busy \/ (Refreshing(t) /\ d = c)
                /\ Refreshing(t) /\ d = c => clients'[d].busy = NoTask
      BY <2>1, UnlockedAlike DEF Alike
    <2>4. \A d \in DOMAIN clients : clients[d].busy = t => Refreshing(t) /\ d = c
      BY RegistryAssumption DEF LocksInUse
    <2> QED BY <2>2, <2>3, <2>4, InUseMoves
  <1> QED BY <1>1, <1>2, <1>3, <1>4

LEMMA InUseRest ==
    ASSUME RegistryInv, RegistryInv', LocksInUse, NEW t \in Tasks,
           \/ \E i \in Instances, test \in BOOLEAN : Start(t, i, test)
           \/ UseCached(t) \/ UseToken(t) \/ Accepted(t, TRUE) \/ Accepted(t, FALSE)
           \/ Rejected(t) \/ PostFails(t)
    PROVE  LocksInUse'
  <1>1. pc[t] \notin {"gen", "answer"} /\ UNCHANGED clients
    BY DEF Start, UseCached, UseToken, Accepted, Rejected, PostFails
  <1>2. \E s, k : Moves(t, s, k)
    <2>1. CASE PostFails(t) BY <2>1, Remains DEF PostFails, Goto, RegistryInv
    <2>2. CASE ~PostFails(t)
      BY <2>2 DEF Start, UseCached, UseToken, Accepted, Rejected, Goto, Moves
    <2> QED BY <2>1, <2>2
  <1> QED BY <1>1, <1>2, InUseSame

LEMMA InUseBeside ==
    ASSUME RegistryInv, RegistryInv', LocksInUse, UNCHANGED <<pc, call>>,
           \/ \E i \in Instances : UpdateInstance(i) \/ Invalidate(i)
           \/ \E c \in DOMAIN clients : ExpireToken(c)
           \/ UNCHANGED registryVars
    PROVE  LocksInUse'
  <1>1. UNCHANGED registry
    BY DEF UpdateInstance, Invalidate, ExpireToken, registryVars
  <1>2. DOMAIN clients' = DOMAIN clients /\ \A d \in DOMAIN clients : clients'[d].busy = clients[d].busy
    <2>1. ASSUME NEW c \in DOMAIN clients, ExpireToken(c)
          PROVE  /\ DOMAIN clients' = DOMAIN clients
                 /\ \A d \in DOMAIN clients : clients'[d].busy = clients[d].busy
      BY <2>1, Parts DEF ExpireToken, Client, RegistryInv
    <2> QED BY <2>1 DEF UpdateInstance, Invalidate, registryVars
  <1> QED BY <1>1, <1>2 DEF LocksInUse, Refreshing

(* No lock is ever lost, whether a call fails, its client is closed or it  *)
(* is cancelled: whoever waits for the registry or for a token waits for a *)
(* call that is itself waiting for CloudMail only (client_for, get_token). *)
THEOREM RegistryLosesNoLock == RegistrySpec => []LocksInUse
  <1>1. RegistryInit => LocksInUse
    BY DEF RegistryInit, LocksInUse
  <1>2. ASSUME RegistryInv, LocksInUse, [RegistryNext]_registryVars PROVE LocksInUse'
    <2>1. RegistryInv' BY <1>2, RegistrySteps
    <2>2. ASSUME NEW t \in Tasks, Proceed(t) PROVE LocksInUse'
      <3>1. CASE UseCached(t) \/ UseToken(t) \/ Accepted(t, FALSE) \/ Rejected(t) \/ PostFails(t)
        BY <1>2, <2>1, <3>1, InUseRest
      <3>2. CASE FirstClient(t) \/ EndReplace(t) BY <1>2, <2>1, <3>2, InUseInstall
      <3>3. CASE BeginReplace(t) BY <1>2, <2>1, <3>3, InUseReplace
      <3>4. CASE BeginGen(t) \/ EndGen(t) \/ GenFails(t) BY <1>2, <2>1, <3>4, InUseGen
      <3> QED BY <2>2, <3>1, <3>2, <3>3, <3>4 DEF Proceed
    <2>3. ASSUME NEW t \in Tasks, NEW i \in Instances, NEW test \in BOOLEAN, Start(t, i, test)
          PROVE  LocksInUse'
      BY <1>2, <2>1, <2>3, InUseRest
    <2>4. ASSUME NEW t \in Tasks, CloudIssues(t) \/ Cancel(t) PROVE LocksInUse'
      BY <1>2, <2>1, <2>4, InUseGen
    <2>5. ASSUME NEW t \in Tasks, Accepted(t, TRUE) PROVE LocksInUse'
      BY <1>2, <2>1, <2>5, InUseRest
    <2>6. ASSUME NEW i \in Instances, UpdateInstance(i) \/ Invalidate(i) PROVE LocksInUse'
      BY <1>2, <2>1, <2>6, InUseBeside DEF UpdateInstance, Invalidate
    <2>7. ASSUME NEW c \in DOMAIN clients, ExpireToken(c) PROVE LocksInUse'
      BY <1>2, <2>1, <2>7, InUseBeside DEF ExpireToken
    <2>8. ASSUME UNCHANGED registryVars PROVE LocksInUse'
      BY <1>2, <2>1, <2>8, InUseBeside DEF registryVars
    <2> QED BY <1>2, <2>2, <2>3, <2>4, <2>5, <2>6, <2>7, <2>8 DEF RegistryNext, Quiet
  <1> QED BY <1>1, <1>2, RegistryInvariant, PTL DEF RegistrySpec

==============================================================================
