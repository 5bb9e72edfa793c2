----------------------------- MODULE DomainHealth -----------------------------
(***************************************************************************)
(* The pool of mail domains and the health the gateway keeps about each:   *)
(* tables mail_domains and cloudmail_instances, the statistics of          *)
(* database_business_store.py and the selection of domain_router.py.       *)
(*                                                                         *)
(* A domain that fails Threshold times in a row cools down for a while; a  *)
(* success resets its count.  Time is abstracted: a cooldown is "running"  *)
(* until cooldown_until has passed and "over" afterwards ("none" is a null *)
(* cooldown_until).  No operation writes another status than the three of  *)
(* Status, so the router's test for disabled or unhealthy domains only     *)
(* ever bites on the health of the instance.                               *)
(***************************************************************************)
EXTENDS Integers, Sequences, FiniteSets, SequencesExt

CONSTANTS
    Domains, Instances,
    Threshold,      \* domain_failure_threshold
    MaxAttempts,    \* max_create_attempts
    NoDomain, NoInstance

ASSUME DomainAssumption ==
    /\ IsFiniteSet(Domains)
    /\ Threshold \in Nat \ {0}
    /\ MaxAttempts \in Nat \ {0}

VARIABLES
    domains,        \* mail_domains
    instances       \* cloudmail_instances

domainVars == <<domains, instances>>

Status == {"unknown", "healthy", "cooldown"}

Domain == [instance : Instances, enabled : BOOLEAN, status : Status,
           failures : Nat, cooldown : {"none", "running", "over"}]

Instance == [enabled : BOOLEAN, health : {"unknown", "healthy", "unhealthy"}]

ASSUME PoolAssumption == NoInstance \notin Instance

DomainTypeOK ==
    /\ domains \in [Domains -> Domain \union {NoDomain}]
    /\ instances \in [Instances -> Instance \union {NoInstance}]

NewInstance == [enabled |-> TRUE, health |-> "unknown"]

NewDomain(i) == [instance |-> i, enabled |-> TRUE, status |-> "unknown",
                 failures |-> 0, cooldown |-> "none"]

-----------------------------------------------------------------------------
(* DomainRouter._available, for a domain whose instance exists.            *)
Available(d) ==
    /\ domains[d] # NoDomain
    /\ instances[domains[d].instance] # NoInstance
    /\ domains[d].enabled
    /\ instances[domains[d].instance].enabled
    /\ instances[domains[d].instance].health # "unhealthy"
    /\ domains[d].cooldown # "running"

(* DomainRouter.candidates and the cut at max_create_attempts: domains,    *)
(* each with the instance it is on at present.  A request that names one   *)
(* domain gets that one; otherwise the available domains come in the order *)
(* of a weighted draw, any order as no weight is below 1.  No candidate at *)
(* all is an error.  The domains wanted are configured.                    *)
Candidates(wanted) ==
    {SubSeq(s, 1, IF Len(s) < MaxAttempts THEN Len(s) ELSE MaxAttempts) :
        s \in SetToSeqs({<<d, domains[d].instance>> : d \in {e \in wanted : Available(e)}})}

(* Mutant: the failures before the success stay on the count.              *)
MarkSuccessOnly(d) ==
    /\ domains' = IF domains[d] = NoDomain THEN domains
                  ELSE [domains EXCEPT ![d].status = "healthy", ![d].cooldown = "none"]
    /\ UNCHANGED instances

(* mark_domain_success; an UPDATE of a deleted row does nothing.           *)
MarkSuccess(d) ==
    /\ domains' = IF domains[d] = NoDomain THEN domains
                  ELSE [domains EXCEPT ![d].status = "healthy",
                                       ![d].failures = 0,
                                       ![d].cooldown = "none"]
    /\ UNCHANGED instances

(* mark_domain_failure: the domain cools down from the Threshold-th        *)
(* failure in a row on, each further failure starting the cooldown anew.   *)
MarkFailure(d) ==
    LET cooling == domains[d].failures + 1 >= Threshold IN
    /\ domains' = IF domains[d] = NoDomain THEN domains
                  ELSE [domains EXCEPT
                          ![d].status = IF cooling THEN "cooldown" ELSE "unknown",
                          ![d].failures = @ + 1,
                          ![d].cooldown = IF cooling THEN "running" ELSE "none"]
    /\ UNCHANGED instances

(* cooldown_until passes.                                                  *)
CooldownOver(d) ==
    /\ domains[d] # NoDomain
    /\ domains[d].cooldown = "running"
    /\ domains' = [domains EXCEPT ![d].cooldown = "over"]
    /\ UNCHANGED instances

(* The administrator's transactions (repository.py).  Ids are never used   *)
(* again: a created row gets one that nothing refers to (not in known).    *)

(* create_domain, for an instance that exists.                             *)
CreateDomain(d, i, enabled, known) ==
    /\ domains[d] = NoDomain /\ d \notin known
    /\ instances[i] # NoInstance
    /\ domains' = [domains EXCEPT ![d] = [NewDomain(i) EXCEPT !.enabled = enabled]]
    /\ UNCHANGED instances

(* update_domain: it is switched off or on, or moved to another instance;  *)
(* what is known of its health goes with it.                               *)
UpdateDomain(d, i, enabled) ==
    /\ domains[d] # NoDomain
    /\ instances[i] # NoInstance
    /\ domains' = [domains EXCEPT ![d].instance = i, ![d].enabled = enabled]
    /\ UNCHANGED instances

(* The cooldown is lifted by hand.                                         *)
ClearCooldown(d) ==
    /\ domains[d] # NoDomain
    /\ domains' = [domains EXCEPT ![d].status = "unknown", ![d].failures = 0,
                                  ![d].cooldown = "none"]
    /\ UNCHANGED instances

(* delete_domain: refused by the foreign key of mailboxes while a mailbox  *)
(* of the domain is recorded (inUse).                                      *)
DeleteDomain(d, inUse) ==
    /\ domains[d] # NoDomain
    /\ d \notin inUse
    /\ domains' = [domains EXCEPT ![d] = NoDomain]
    /\ UNCHANGED instances

CreateInstance(i, enabled, known) ==
    /\ instances[i] = NoInstance /\ i \notin known
    /\ instances' = [instances EXCEPT ![i] = [NewInstance EXCEPT !.enabled = enabled]]
    /\ UNCHANGED domains

(* update_instance switches it off or on (or changes its configuration).   *)
UpdateInstance(i, enabled) ==
    /\ instances[i] # NoInstance
    /\ instances' = [instances EXCEPT ![i].enabled = enabled]
    /\ UNCHANGED domains

(* The verdict of a connection test.                                       *)
SetInstanceHealth(i, health) ==
    /\ instances[i] # NoInstance
    /\ instances' = [instances EXCEPT ![i].health = health]
    /\ UNCHANGED domains

DomainsOf(i) == {d \in Domains : domains[d] # NoDomain /\ domains[d].instance = i}

(* delete_instance, with its domains (ON DELETE CASCADE): refused as long  *)
(* as a mailbox refers to it or to one of them.                            *)
DeleteInstance(i, domainsInUse, instancesInUse) ==
    /\ instances[i] # NoInstance
    /\ i \notin instancesInUse /\ DomainsOf(i) \intersect domainsInUse = {}
    /\ instances' = [instances EXCEPT ![i] = NoInstance]
    /\ domains' = [d \in Domains |-> IF d \in DomainsOf(i) THEN NoDomain ELSE domains[d]]

-----------------------------------------------------------------------------
(* The three columns of a domain's health agree: it has a cooldown iff it  *)
(* failed Threshold times in a row, and a healthy one has no failure on    *)
(* its count.  Calls that overlap report in an order that has nothing to   *)
(* do with the pool they chose from: a success may come for a domain that  *)
(* cools down since, and a failure for one that cools down already.        *)
HealthConsistent ==
    \A d \in Domains : domains[d] # NoDomain =>
        /\ domains[d].cooldown # "none" <=> domains[d].failures >= Threshold
        /\ domains[d].status = "cooldown" <=> domains[d].failures >= Threshold
        /\ domains[d].status = "healthy" => domains[d].failures = 0

==============================================================================
