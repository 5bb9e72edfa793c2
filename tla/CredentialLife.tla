---------------------------- MODULE CredentialLife ----------------------------
(***************************************************************************)
(* What the gateway promises about its credentials, the cookies of         *)
(* sessions, the API keys and the secrets of the keys: one is valid from   *)
(* the moment it is issued until it ends, and never again.  A session or a *)
(* key is granted only to a holder who is admitted then.  A new secret     *)
(* comes with a new key, or in exchange for one that is valid, which its   *)
(* holder may still ask for when he is no longer admitted.  A session ends *)
(* when its holder is no longer admitted, even if he is again later.       *)
(***************************************************************************)
CONSTANTS
    Credentials,
    Sessions, Keys, \* the credentials that are sessions, and API keys
    Holders,
    Unissued, Ended

VARIABLES
    life,       \* Unissued, then the holder of the credential, then Ended
    admitted    \* the holders that are admitted at present

lifeVars == <<life, admitted>>

Secrets == Credentials \ (Sessions \union Keys)

LifeInit ==
    /\ life = [c \in Credentials |-> Unissued]
    /\ admitted \subseteq Holders

Grant(c) ==
    /\ c \in Sessions
    /\ life[c] = Unissued /\ life'[c] \in admitted
    /\ life' = [life EXCEPT ![c] = life'[c]]
    /\ UNCHANGED admitted

(* A key is granted with its first secret.                                 *)
GrantKey(k, s) ==
    /\ life[k] = Unissued /\ life[s] = Unissued
    /\ life'[k] \in admitted
    /\ life' = [life EXCEPT ![k] = life'[k], ![s] = life'[k]]
    /\ UNCHANGED admitted

(* A valid secret is exchanged for another one of the same holder.         *)
Exchange(c) ==
    /\ life[c] \in Holders
    /\ \E d \in Secrets :
          /\ life[d] = Unissued
          /\ life' = [life EXCEPT ![d] = life[c], ![c] = Ended]
    /\ UNCHANGED admitted

EndSome ==
    /\ \A c \in Credentials : life'[c] # life[c] => life[c] \in Holders /\ life'[c] = Ended
    /\ UNCHANGED admitted

Expel(h) ==
    /\ admitted' = admitted \ {h}
    /\ life' = [c \in Credentials |->
                  IF c \in Sessions /\ life[c] = h THEN Ended ELSE life[c]]

Admit(h) == admitted' = admitted \union {h} /\ UNCHANGED life

LifeNext ==
    \/ \E c \in Credentials : Grant(c)
    \/ \E k \in Keys, s \in Secrets : GrantKey(k, s)
    \/ \E c \in Secrets : Exchange(c)
    \/ EndSome
    \/ \E h \in Holders : Expel(h) \/ Admit(h)

LifeSpec == LifeInit /\ [][LifeNext]_lifeVars
==============================================================================
