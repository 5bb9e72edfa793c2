------------------------- MODULE Registration_proof -------------------------
(***************************************************************************)
(* Proofs about registration codes: what they keep although the threads    *)
(* read and write them without row locks, for any number of threads, codes *)
(* and attempts.                                                           *)
(***************************************************************************)
EXTENDS Registration, WellFoundedInduction, TLAPS

Judges(t, c) == thread[t].stage \in {"burn", "wrong", "right"} /\ thread[t].code = c

Sends(t) == thread[t].stage = "superseding"

(* A thread whose code is not in the table yet.                            *)
Brings(t) == thread[t].stage \in {"checked", "selected", "superseding"}

(* A code is handed out once: nobody else has one that is still to come.   *)
NewCodes ==
    /\ \A t \in Threads : thread[t].stage # "idle" => thread[t].code \in 1..lastCode
    /\ \A s, t \in Threads :
          Brings(s) /\ thread[t].stage # "idle" /\ thread[s].code = thread[t].code => s = t
    /\ \A t \in Threads : Brings(t) => /\ ~rows[thread[t].code].there
                                       /\ guesses[thread[t].code] = 0
    /\ \A c \in Codes : c > lastCode => ~rows[c].there /\ guesses[c] = 0

(* A code nobody overlapped is judged by one thread at a time and not      *)
(* while codes are superseded, from a row that is still as it was read.    *)
Alone(c) ==
    /\ \A s, t \in Threads : Judges(s, c) /\ Judges(t, c) => s = t
    /\ \A s, t \in Threads : Judges(s, c) => ~Sends(t)
    /\ \A t \in Threads :
          Judges(t, c) /\ rows[c].there
          => ~rows[c].consumed /\ thread[t].attempts = rows[c].attempts
    /\ rows[c].there => /\ guesses[c] = rows[c].attempts
                        /\ rows[c].attempts = MaxAttempts => rows[c].consumed

AloneKept == \A c \in Codes : c \notin crossed => Alone(c)

(* A code nobody overlapped supersedes every such code that is live.       *)
Superseding ==
    /\ \A s, t \in Threads : Sends(s) /\ Sends(t) /\ s # t => thread[s].code \in crossed
    /\ \A t \in Threads, c \in Codes :
          Sends(t) /\ thread[t].code \notin crossed /\ c \in Live /\ c \notin crossed
          => c \in thread[t].superseded

AttemptLeft ==
    \A t \in Threads : thread[t].stage = "wrong" => thread[t].attempts < MaxAttempts

RegistrationInv ==
    /\ RegistrationTypeOK
    /\ AttemptLeft
    /\ NewCodes
    /\ AloneKept
    /\ Superseding
    /\ OneLiveCode

-----------------------------------------------------------------------------
(* The newest of some codes is one of them: there is a largest, because    *)
(* the distances from MaxCodes have a smallest.                            *)
LEMMA LargestCode ==
    ASSUME NEW S \in SUBSET Codes, S # {}
    PROVE  Max(S) \in S
  <1> DEFINE R == {p \in Nat \X Nat : p[1] < p[2]}
             T == {MaxCodes - x : x \in S}
  <1>1. IsWellFoundedOn(R, Nat) BY NatLessThanWellFounded DEF OpToRel
  <1>2. T \subseteq Nat /\ T # {}
    <2>1. \A x \in S : MaxCodes - x \in Nat BY RegistrationAssumption DEF Codes
    <2>2. PICK x \in S : TRUE OBVIOUS
    <2>3. MaxCodes - x \in T OBVIOUS
    <2> QED BY <2>1, <2>3
  <1>3. PICK t \in T : \A y \in T : ~(<<y, t>> \in R)
    <2> HIDE DEF R, T
    <2> QED BY <1>1, <1>2, WFMin
  <1>4. PICK x \in S : t = MaxCodes - x OBVIOUS
  <1>5. \A y \in S : x >= y
    <2> SUFFICES ASSUME NEW y \in S PROVE x >= y OBVIOUS
    <2>1. MaxCodes - y \in T OBVIOUS
    <2>2. ~(MaxCodes - y < t) BY <1>2, <1>3, <2>1
    <2> QED BY <1>4, <2>2, RegistrationAssumption DEF Codes
  <1> QED BY <1>5 DEF Max

LEMMA FreeType == Free \in Thread /\ Free.stage = "idle" /\ NoCode \in Row /\ ~NoCode.there
  BY RegistrationAssumption DEF Free, Thread, NoCode, Row

-----------------------------------------------------------------------------
(* A thread ends, and at most marks or deletes rows it may touch.          *)
LEMMA EndHolds ==
    ASSUME RegistrationInv, NEW t \in Threads, thread[t].stage # "idle",
           thread' = [thread EXCEPT ![t] = Free],
           UNCHANGED <<lastCode, guesses, crossed>>,
           rows' \in [Codes -> Row], account' \in 0..MaxCodes,
           \A c \in Codes : \/ rows'[c] = rows[c]
                            \/ ~rows'[c].there
                            \/ /\ rows[c].there /\ rows'[c].there /\ rows'[c].consumed
                               /\ rows'[c].attempts = rows[c].attempts
                               /\ Judges(t, c)
    PROVE  RegistrationInv'
  <1> USE DEF RegistrationInv, RegistrationTypeOK
  <1>1. thread' \in [Threads -> Thread] /\ thread'[t].stage = "idle"
        /\ \A s \in Threads : s # t => thread'[s] = thread[s]
    BY FreeType
  <1>2. RegistrationTypeOK' BY <1>1
  <1>3. AttemptLeft' BY <1>1 DEF AttemptLeft
  <1>4. NewCodes'
    <2>1. \A s \in Threads : Brings(s)' => s # t /\ Brings(s) BY <1>1 DEF Brings
    <2>2. \A s \in Threads : Brings(s) => thread[s].code \in Codes
      BY RegistrationAssumption DEF NewCodes, Brings, Codes
    <2>3. \A c \in Codes : ~rows[c].there => ~rows'[c].there OBVIOUS
    <2> QED BY <1>1, <2>1, <2>2, <2>3 DEF NewCodes
  <1>5. AloneKept'
    <2> SUFFICES ASSUME NEW c \in Codes, c \notin crossed PROVE Alone(c)' BY DEF AloneKept
    <2>1. Alone(c) BY DEF AloneKept
    <2>2. \A s \in Threads : /\ Judges(s, c)' => s # t /\ Judges(s, c)
                             /\ Sends(s)' => Sends(s)
      BY <1>1 DEF Judges, Sends
    <2>3. \A s \in Threads : s # t => thread'[s].attempts = thread[s].attempts BY <1>1
    <2> QED BY <2>1, <2>2, <2>3 DEF Alone
  <1>6. Live' \subseteq Live BY DEF Live, Sent
  <1>7. Superseding'
    <2>1. \A s \in Threads : Sends(s)' => s # t /\ Sends(s) BY <1>1 DEF Sends
    <2> QED BY <1>1, <1>6, <2>1 DEF Superseding
  <1>8. OneLiveCode' BY <1>6 DEF OneLiveCode
  <1> QED BY <1>2, <1>3, <1>4, <1>5, <1>7, <1>8

(* Only the age of rows changes.                                           *)
LEMMA AgeHolds ==
    ASSUME RegistrationInv, UNCHANGED <<thread, lastCode, account, guesses, crossed>>,
           rows' \in [Codes -> Row],
           \A c \in Codes : /\ rows'[c].there = rows[c].there
                            /\ rows'[c].consumed = rows[c].consumed
                            /\ rows'[c].attempts = rows[c].attempts
    PROVE  RegistrationInv'
  <1> USE DEF RegistrationInv, RegistrationTypeOK
  <1>1. RegistrationTypeOK' /\ AttemptLeft' BY DEF AttemptLeft
  <1>2. NewCodes'
    <2>1. \A s \in Threads : Brings(s) => thread[s].code \in Codes
      BY RegistrationAssumption DEF NewCodes, Brings, Codes
    <2> QED BY <2>1 DEF NewCodes, Brings
  <1>3. AloneKept' BY DEF AloneKept, Alone, Judges, Sends
  <1>4. Live' = Live BY DEF Live, Sent
  <1>5. Superseding' /\ OneLiveCode' BY <1>4 DEF Superseding, OneLiveCode, Sends
  <1> QED BY <1>1, <1>2, <1>3, <1>5

(* The new state of a thread that goes on with its code.                   *)
LEMMA ThreadTypes ==
    ASSUME RegistrationTypeOK, NEW t \in Threads, NEW x \in Thread,
           thread' = [thread EXCEPT ![t] = x]
    PROVE  /\ thread' \in [Threads -> Thread] /\ thread'[t] = x
           /\ \A s \in Threads : s # t => thread'[s] = thread[s]
  BY DEF RegistrationTypeOK

LEMMA SendCheckHolds ==
    ASSUME RegistrationInv, NEW t \in Threads, SendCheck(t)
    PROVE  RegistrationInv'
  <1> USE DEF RegistrationInv, RegistrationTypeOK
  <1> DEFINE x == [Free EXCEPT !.stage = "checked", !.code = lastCode + 1]
  <1>1. /\ lastCode < MaxCodes /\ lastCode' = lastCode + 1 /\ thread[t].stage = "idle"
        /\ thread' = [thread EXCEPT ![t] = x] /\ UNCHANGED <<rows, account, guesses, crossed>>
    BY DEF SendCheck
  <1>2. lastCode + 1 \in 1..MaxCodes BY <1>1, RegistrationAssumption
  <1>3. x \in Thread /\ x.stage = "checked" /\ x.code = lastCode + 1
    <2>1. lastCode + 1 \in 0..MaxCodes BY <1>2
    <2> QED BY <2>1, FreeType DEF Thread
  <1> HIDE DEF x
  <1>4. thread' \in [Threads -> Thread] /\ thread'[t] = x
        /\ \A s \in Threads : s # t => thread'[s] = thread[s]
    BY <1>1, <1>3, ThreadTypes
  <1>5. RegistrationTypeOK' BY <1>1, <1>2, <1>4
  <1>6. AttemptLeft' BY <1>3, <1>4 DEF AttemptLeft
  <1>7. NewCodes'
    <2>1. ~rows[lastCode + 1].there /\ guesses[lastCode + 1] = 0
      BY <1>2 DEF NewCodes, Codes
    <2>2. \A s \in Threads : s # t /\ thread'[s].stage # "idle" => thread'[s].code # x.code
      BY <1>3, <1>4 DEF NewCodes
    <2>3. \A s \in Threads : s # t => (Brings(s)' <=> Brings(s)) BY <1>4 DEF Brings
    <2>4. \A c \in Codes : c > lastCode' => c > lastCode BY <1>1 DEF Codes
    <2>5. \A s \in Threads : thread'[s].stage # "idle" => thread'[s].code \in 1..lastCode'
      BY <1>1, <1>3, <1>4 DEF NewCodes
    <2>6. ASSUME NEW s \in Threads, NEW q \in Threads, Brings(s)', thread'[q].stage # "idle",
                 thread'[s].code = thread'[q].code
          PROVE  s = q
      <3>1. thread'[s].stage # "idle" BY <2>6 DEF Brings
      <3>2. CASE s = t \/ q = t BY <2>2, <2>6, <3>1, <3>2, <1>3, <1>4
      <3>3. CASE s # t /\ q # t BY <2>3, <2>6, <3>3, <1>4 DEF NewCodes
      <3> QED BY <3>2, <3>3
    <2>7. ASSUME NEW s \in Threads, Brings(s)'
          PROVE  ~rows'[thread'[s].code].there /\ guesses'[thread'[s].code] = 0
      BY <2>1, <2>3, <2>7, <1>1, <1>3, <1>4 DEF NewCodes
    <2>8. \A c \in Codes : c > lastCode' => ~rows'[c].there /\ guesses'[c] = 0
      BY <2>4, <1>1 DEF NewCodes
    <2> QED BY <2>5, <2>6, <2>7, <2>8 DEF NewCodes
  <1>8. \A s \in Threads, c \in Codes : /\ Judges(s, c)' => s # t /\ Judges(s, c)
                                        /\ Sends(s)' => s # t /\ Sends(s)
    BY <1>3, <1>4 DEF Judges, Sends
  <1>9. AloneKept' BY <1>1, <1>4, <1>8 DEF AloneKept, Alone
  <1>10. Superseding' /\ OneLiveCode'
    <2>1. Live' = Live BY <1>1 DEF Live, Sent
    <2>2. \A s \in Threads : Sends(s)' => s # t /\ Sends(s) BY <1>3, <1>4 DEF Sends
    <2> QED BY <2>1, <2>2, <1>1, <1>4 DEF Superseding, OneLiveCode
  <1> QED BY <1>5, <1>6, <1>7, <1>9, <1>10

LEMMA SendSelectHolds ==
    ASSUME RegistrationInv, NEW t \in Threads, SendSelect(t)
    PROVE  RegistrationInv'
  <1> USE DEF RegistrationInv, RegistrationTypeOK
  <1>1. CASE TooFrequent(thread[t].code)
    BY <1>1, EndHolds DEF SendSelect
  <1>2. CASE ~TooFrequent(thread[t].code)
    <2> DEFINE x == [thread[t] EXCEPT !.stage = "selected"]
    <2>1. /\ thread[t].stage = "checked" /\ thread' = [thread EXCEPT ![t] = x]
          /\ UNCHANGED <<rows, lastCode, account, guesses, crossed>>
      BY <1>2 DEF SendSelect
    <2>2. x \in Thread /\ x.stage = "selected" /\ x.code = thread[t].code BY DEF Thread
    <2> HIDE DEF x
    <2>3. thread' \in [Threads -> Thread] /\ thread'[t] = x
          /\ \A s \in Threads : s # t => thread'[s] = thread[s]
      BY <2>1, <2>2, ThreadTypes
    <2>4. \A s \in Threads : /\ Brings(s)' <=> Brings(s)
                             /\ thread'[s].stage = "idle" <=> thread[s].stage = "idle"
                             /\ thread'[s].code = thread[s].code
      BY <2>1, <2>2, <2>3 DEF Brings
    <2>5. \A s \in Threads, c \in Codes : /\ Judges(s, c)' => s # t /\ Judges(s, c)
                                          /\ Sends(s)' => s # t /\ Sends(s)
      BY <2>2, <2>3 DEF Judges, Sends
    <2>6. RegistrationTypeOK' /\ AttemptLeft' BY <2>1, <2>2, <2>3 DEF AttemptLeft
    <2>7. NewCodes' BY <2>1, <2>4 DEF NewCodes
    <2>8. AloneKept' BY <2>1, <2>3, <2>5 DEF AloneKept, Alone
    <2>9. Superseding' /\ OneLiveCode'
      <3>1. Live' = Live BY <2>1 DEF Live, Sent
      <3>2. \A s \in Threads : Sends(s)' => s # t /\ Sends(s) BY <2>2, <2>3 DEF Sends
      <3> QED BY <3>1, <3>2, <2>1, <2>3 DEF Superseding, OneLiveCode
    <2> QED BY <2>6, <2>7, <2>8, <2>9
  <1> QED BY <1>1, <1>2

LEMMA SendSupersedeHolds ==
    ASSUME RegistrationInv, NEW t \in Threads, SendSupersede(t)
    PROVE  RegistrationInv'
  <1> USE DEF RegistrationInv, RegistrationTypeOK
  <1> DEFINE x == [thread[t] EXCEPT !.stage = "superseding", !.superseded = Live]
  <1>1. /\ thread[t].stage = "selected" /\ thread' = [thread EXCEPT ![t] = x]
        /\ UNCHANGED <<rows, lastCode, account, guesses>>
    BY DEF SendSupersede, Superseded
  <1>2. x \in Thread /\ x.stage = "superseding" /\ x.code = thread[t].code /\ x.superseded = Live
    BY DEF Thread, Live, Sent
  <1> HIDE DEF x
  <1>3. thread' \in [Threads -> Thread] /\ thread'[t] = x
        /\ \A s \in Threads : s # t => thread'[s] = thread[s]
    BY <1>1, <1>2, ThreadTypes
  <1>4. \A s \in Threads : thread[s].stage # "idle" => thread[s].code \in Codes
    BY RegistrationAssumption DEF NewCodes, Codes
  <1>5. /\ crossed \subseteq crossed' /\ crossed' \subseteq Codes
        /\ \A c \in Codes, s \in Threads : Judges(s, c) => c \in crossed'
        /\ \A s \in Threads : Sends(s) => thread[s].code \in crossed' /\ thread[t].code \in crossed'
    <2>1. crossed' = crossed
                     \union {c \in Codes : Judging(c) # {}}
                     \union (IF Sending = {} THEN {}
                             ELSE {thread[s].code : s \in Sending \union {t}})
      BY DEF SendSupersede
    <2>2. \A c \in Codes, s \in Threads : Judges(s, c) => s \in Judging(c) BY DEF Judges, Judging
    <2>3. \A s \in Threads : Sends(s) <=> s \in Sending BY DEF Sends, Sending
    <2>4. Sending \subseteq Threads /\ \A s \in Sending \union {t} : thread[s].code \in Codes
      BY <1>1, <1>4 DEF Sending
    <2> QED BY <2>1, <2>2, <2>3, <2>4
  <1>6. \A s \in Threads : /\ Brings(s)' <=> Brings(s)
                           /\ thread'[s].stage = "idle" <=> thread[s].stage = "idle"
                           /\ thread'[s].code = thread[s].code
    BY <1>1, <1>2, <1>3 DEF Brings
  <1>7. \A s \in Threads, c \in Codes : /\ Judges(s, c)' => s # t /\ Judges(s, c)
                                        /\ Sends(s)' => s = t \/ Sends(s)
    BY <1>2, <1>3 DEF Judges, Sends
  <1>8. RegistrationTypeOK' /\ AttemptLeft' BY <1>1, <1>2, <1>3, <1>5 DEF AttemptLeft
  <1>9. NewCodes' BY <1>1, <1>6 DEF NewCodes
  <1>10. AloneKept' BY <1>1, <1>3, <1>5, <1>7 DEF AloneKept, Alone
  <1>11. Live' = Live BY <1>1 DEF Live, Sent
  <1>12. Superseding'
    <2>1. ASSUME NEW s \in Threads, NEW q \in Threads, Sends(s)', Sends(q)', s # q
          PROVE  thread'[s].code \in crossed'
      <3>1. (s = t \/ Sends(s)) /\ (q = t \/ Sends(q))
        BY <2>1, <1>2, <1>3 DEF Sends
      <3>2. CASE s = t
        <4>1. Sends(q) BY <2>1, <3>1, <3>2
        <4> QED BY <3>2, <4>1, <1>5, <1>6
      <3>3. CASE s # t BY <3>1, <3>3, <1>5, <1>6
      <3> QED BY <3>2, <3>3
    <2>2. ASSUME NEW s \in Threads, NEW c \in Codes, Sends(s)', thread'[s].code \notin crossed',
                 c \in Live, c \notin crossed'
          PROVE  c \in thread'[s].superseded
      BY <2>2, <1>2, <1>3, <1>5, <1>6, <1>7 DEF Superseding
    <2> QED BY <2>1, <2>2, <1>11 DEF Superseding
  <1>13. OneLiveCode' BY <1>5, <1>11 DEF OneLiveCode
  <1> QED BY <1>8, <1>9, <1>10, <1>12, <1>13

LEMMA SendCommitHolds ==
    ASSUME RegistrationInv, NEW t \in Threads, SendCommit(t)
    PROVE  RegistrationInv'
  <1> USE DEF RegistrationInv, RegistrationTypeOK
  <1> DEFINE n == thread[t].code
             x == [Free EXCEPT !.stage = "mailing", !.code = n]
             new == [NoCode EXCEPT !.there = TRUE, !.recent = TRUE]
  <1>1. /\ thread[t].stage = "superseding" /\ thread' = [thread EXCEPT ![t] = x]
        /\ UNCHANGED <<lastCode, account, guesses, crossed>>
    BY DEF SendCommit
  <1>2. n \in Codes /\ n \in 1..lastCode /\ ~rows[n].there /\ guesses[n] = 0
    BY <1>1, RegistrationAssumption DEF NewCodes, Brings, Codes
  <1>3. x \in Thread /\ x.stage = "mailing" /\ x.code = n
    <2>1. n \in 0..MaxCodes BY <1>2 DEF Codes
    <2> QED BY <2>1, FreeType DEF Thread
  <1>4. new \in Row /\ new.there /\ ~new.consumed /\ new.attempts = 0
    BY FreeType DEF NoCode, Row
  <1>5. rows' = [c \in Codes |->
                   IF c = n THEN new
                   ELSE IF rows[c].life = "old" THEN NoCode
                   ELSE IF rows[c].there /\ c \in thread[t].superseded
                        THEN [rows[c] EXCEPT !.consumed = TRUE] ELSE rows[c]]
    BY DEF SendCommit
  <1>6. /\ rows' \in [Codes -> Row]
        /\ rows'[n].there /\ ~rows'[n].consumed /\ rows'[n].attempts = 0
        /\ \A c \in Codes \ {n} :
              rows'[c].there => /\ rows[c].there /\ rows'[c].attempts = rows[c].attempts
                                /\ rows[c].consumed => rows'[c].consumed
                                /\ c \in thread[t].superseded => rows'[c].consumed
    <2>1. \A c \in Codes : [rows[c] EXCEPT !.consumed = TRUE] \in Row
                           /\ [rows[c] EXCEPT !.consumed = TRUE].consumed
                           /\ [rows[c] EXCEPT !.consumed = TRUE].attempts = rows[c].attempts
      BY DEF Row
    <2> HIDE DEF x, new
    <2> QED BY <1>2, <1>4, <1>5, <2>1, FreeType
  <1> HIDE DEF x, new
  <1>7. thread' \in [Threads -> Thread] /\ thread'[t] = x
        /\ \A s \in Threads : s # t => thread'[s] = thread[s]
    BY <1>1, <1>3, ThreadTypes
  <1>8. \A s \in Threads, c \in Codes : /\ Judges(s, c)' => s # t /\ Judges(s, c)
                                        /\ Sends(s)' => s # t /\ Sends(s)
                                        /\ Brings(s)' => s # t /\ Brings(s)
    BY <1>3, <1>7 DEF Judges, Sends, Brings
  <1>9. \A s \in Threads : /\ thread'[s].code = thread[s].code
                           /\ thread'[s].stage # "idle" => thread[s].stage # "idle"
                           /\ s # t /\ thread[s].stage # "idle" => thread[s].code # n
    BY <1>1, <1>3, <1>7 DEF NewCodes, Brings
  <1>10. RegistrationTypeOK' /\ AttemptLeft' BY <1>1, <1>3, <1>6, <1>7 DEF AttemptLeft
  <1>11. NewCodes'
    <2>1. \A s \in Threads : thread'[s].stage # "idle" => thread'[s].code \in 1..lastCode'
      BY <1>1, <1>9 DEF NewCodes
    <2>2. \A s, q \in Threads :
             Brings(s)' /\ thread'[q].stage # "idle" /\ thread'[s].code = thread'[q].code => s = q
      BY <1>8, <1>9, <1>2 DEF NewCodes
    <2>3. ASSUME NEW s \in Threads, Brings(s)'
          PROVE  ~rows'[thread'[s].code].there /\ guesses'[thread'[s].code] = 0
      <3>1. s # t /\ Brings(s) /\ thread[s].stage # "idle" BY <2>3, <1>2, <1>8 DEF Brings
      <3>2. thread[s].code \in Codes \ {n}
        BY <3>1, <1>9, RegistrationAssumption DEF NewCodes, Codes
      <3> QED BY <3>1, <3>2, <1>1, <1>6, <1>9 DEF NewCodes
    <2>4. \A c \in Codes : c > lastCode' => ~rows'[c].there /\ guesses'[c] = 0
      BY <1>1, <1>2, <1>6 DEF NewCodes
    <2> QED BY <2>1, <2>2, <2>3, <2>4 DEF NewCodes
  <1>12. AloneKept'
    <2> SUFFICES ASSUME NEW c \in Codes, c \notin crossed PROVE Alone(c)'
      BY <1>1 DEF AloneKept
    <2>1. Alone(c) /\ Sends(t) BY <1>1 DEF AloneKept, Sends
    <2>2. \A s \in Threads : ~Judges(s, c)' BY <2>1, <1>8 DEF Alone
    <2>3. CASE c = n BY <2>2, <2>3, <1>1, <1>2, <1>6, RegistrationAssumption DEF Alone
    <2>4. CASE c # n BY <2>1, <2>2, <2>4, <1>1, <1>6 DEF Alone
    <2> QED BY <2>3, <2>4
  <1>13. \A c \in Live' : c \in Codes /\ (c = n \/ (c \in Live /\ c \notin thread[t].superseded))
    BY <1>6 DEF Live, Sent
  <1>14. Superseding'
    <2>1. \A s, q \in Threads : Sends(s)' /\ Sends(q)' /\ s # q => thread'[s].code \in crossed'
      BY <1>1, <1>2, <1>8, <1>9 DEF Superseding
    <2>2. ASSUME NEW s \in Threads, NEW c \in Codes, Sends(s)', thread'[s].code \notin crossed',
                 c \in Live', c \notin crossed'
          PROVE  c \in thread'[s].superseded
      <3>1. s # t /\ Sends(s) /\ Sends(t) BY <2>2, <1>1, <1>8 DEF Sends
      <3>2. thread[s].code \in crossed BY <3>1 DEF Superseding
      <3> QED BY <2>2, <3>2, <1>1, <1>9
    <2> QED BY <2>1, <2>2 DEF Superseding
  <1>15. OneLiveCode'
    <2> SUFFICES ASSUME NEW c \in Live', NEW d \in Live', c # d
                 PROVE  c \in crossed \/ d \in crossed
      BY <1>1 DEF OneLiveCode
    <2>1. CASE c \in Live /\ d \in Live BY <2>1 DEF OneLiveCode
    <2>2. ASSUME NEW e \in Live, e \in Codes, e \notin thread[t].superseded, e \notin crossed
          PROVE  n \in crossed
      BY <2>2, <1>1 DEF Superseding, Sends
    <2> QED BY <2>1, <2>2, <1>13
  <1> QED BY <1>10, <1>11, <1>12, <1>14, <1>15

LEMMA RegisterHolds ==
    ASSUME RegistrationInv, NEW t \in Threads, NEW guess, Register(t, guess)
    PROVE  RegistrationInv'
  <1> USE DEF RegistrationInv, RegistrationTypeOK
  <1> DEFINE c == Max(Live)
             spent == rows[c].life # "valid" \/ rows[c].attempts >= MaxAttempts
             stage == IF spent THEN "burn" ELSE IF guess = c THEN "right" ELSE "wrong"
             x == [Free EXCEPT !.stage = stage, !.code = c, !.attempts = rows[c].attempts]
  <1>1. /\ thread[t].stage = "idle" /\ Live # {} /\ thread' = [thread EXCEPT ![t] = x]
        /\ crossed' = IF Judging(c) \union Sending = {} THEN crossed ELSE crossed \union {c}
        /\ UNCHANGED <<rows, lastCode, account, guesses>>
    BY DEF Register
  <1>2. c \in Live /\ c \in Codes /\ rows[c].there /\ ~rows[c].consumed /\ c \in 0..MaxCodes
    <2>1. Live \in SUBSET Codes BY DEF Live, Sent
    <2>2. c \in Live BY <1>1, <2>1, LargestCode
    <2> QED BY <2>1, <2>2 DEF Live, Sent, Codes
  <1> HIDE DEF c
  <1>3. c \in 1..lastCode BY <1>2, RegistrationAssumption DEF NewCodes, Codes
  <1>4. /\ rows[c].attempts \in 0..MaxAttempts
        /\ stage = "wrong" => rows[c].attempts < MaxAttempts
    BY <1>2, RegistrationAssumption DEF Row
  <1>5. /\ x \in Thread /\ x.stage \in {"burn", "right", "wrong"} /\ x.stage = stage
        /\ x.code = c /\ x.attempts = rows[c].attempts
    <2>1. stage \in {"burn", "right", "wrong"} OBVIOUS
    <2> HIDE DEF stage
    <2> QED BY <1>2, <1>4, <2>1, FreeType DEF Thread
  <1> HIDE DEF x, stage
  <1>6. thread' \in [Threads -> Thread] /\ thread'[t] = x
        /\ \A s \in Threads : s # t => thread'[s] = thread[s]
    BY <1>1, <1>5, ThreadTypes
  <1>7. /\ crossed \subseteq crossed' /\ crossed' \subseteq Codes
        /\ c \notin crossed' => \A s \in Threads : ~Judges(s, c) /\ ~Sends(s)
    <2>1. \A s \in Threads : (Judges(s, c) => s \in Judging(c)) /\ (Sends(s) => s \in Sending)
      BY DEF Judges, Judging, Sends, Sending
    <2> QED BY <2>1, <1>1, <1>2
  <1>8. \A s \in Threads : /\ Sends(s)' => s # t /\ Sends(s)
                           /\ Brings(s)' => s # t /\ Brings(s)
                           /\ \A d \in Codes : Judges(s, d)' => (s = t /\ d = c) \/ (s # t /\ Judges(s, d))
    BY <1>5, <1>6 DEF Judges, Sends, Brings
  <1>9. RegistrationTypeOK' /\ AttemptLeft' BY <1>1, <1>4, <1>5, <1>6, <1>7 DEF AttemptLeft
  <1>10. NewCodes'
    <2>1. \A s \in Threads : thread'[s].stage # "idle" => thread'[s].code \in 1..lastCode'
      BY <1>1, <1>3, <1>5, <1>6 DEF NewCodes
    <2>2. \A s \in Threads : Brings(s) => thread[s].code # c BY <1>2 DEF NewCodes
    <2>3. ASSUME NEW s \in Threads, NEW q \in Threads, Brings(s)', thread'[q].stage # "idle",
                 thread'[s].code = thread'[q].code
          PROVE  s = q
      <3>1. s # t /\ Brings(s) BY <2>3, <1>8
      <3>2. q # t BY <2>2, <2>3, <3>1, <1>5, <1>6
      <3> QED BY <2>3, <3>1, <3>2, <1>6 DEF NewCodes
    <2>4. \A s \in Threads : Brings(s)' => /\ ~rows'[thread'[s].code].there
                                           /\ guesses'[thread'[s].code] = 0
      BY <1>1, <1>6, <1>8 DEF NewCodes
    <2>5. \A d \in Codes : d > lastCode' => ~rows'[d].there /\ guesses'[d] = 0
      BY <1>1 DEF NewCodes
    <2> QED BY <2>1, <2>3, <2>4, <2>5 DEF NewCodes
  <1>11. AloneKept'
    <2> SUFFICES ASSUME NEW d \in Codes, d \notin crossed' PROVE Alone(d)' BY DEF AloneKept
    <2>1. Alone(d) BY <1>7 DEF AloneKept
    <2>2. CASE d = c BY <2>1, <2>2, <1>1, <1>2, <1>5, <1>6, <1>7, <1>8 DEF Alone
    <2>3. CASE d # c
      <3>1. \A s \in Threads : Judges(s, d)' => Judges(s, d) /\ thread'[s].attempts = thread[s].attempts
        BY <2>3, <1>6, <1>8
      <3> QED BY <2>1, <3>1, <1>1, <1>8 DEF Alone
    <2> QED BY <2>2, <2>3
  <1>12. Live' = Live BY <1>1 DEF Live, Sent
  <1>13. Superseding' /\ OneLiveCode'
    BY <1>6, <1>7, <1>8, <1>12 DEF Superseding, OneLiveCode
  <1> QED BY <1>9, <1>10, <1>11, <1>13

LEMMA CountWrongHolds ==
    ASSUME RegistrationInv, NEW t \in Threads, CountWrong(t)
    PROVE  RegistrationInv'
  <1> USE DEF RegistrationInv, RegistrationTypeOK
  <1> DEFINE c == thread[t].code
             n == thread[t].attempts + 1
             new == [rows[c] EXCEPT !.attempts = n, !.consumed = n >= MaxAttempts]
  <1>1. /\ thread[t].stage = "wrong" /\ thread' = [thread EXCEPT ![t] = Free]
        /\ rows' = IF rows[c].there THEN [rows EXCEPT ![c] = new] ELSE rows
        /\ guesses' = [guesses EXCEPT ![c] = guesses[c] + 1]
        /\ UNCHANGED <<lastCode, account, crossed>>
    BY DEF CountWrong, Written
  <1>2. c \in Codes /\ c \in 1..lastCode /\ Judges(t, c)
    BY <1>1, RegistrationAssumption DEF NewCodes, Codes, Judges
  <1>3. n \in 0..MaxAttempts BY <1>1, RegistrationAssumption DEF AttemptLeft, Thread
  <1>4. new \in Row /\ new.attempts = n /\ new.there = rows[c].there
        /\ (new.consumed <=> n >= MaxAttempts)
    <2>1. (n >= MaxAttempts) \in BOOLEAN OBVIOUS
    <2> HIDE DEF n
    <2> QED BY <1>2, <1>3, <2>1 DEF Row
  <1> HIDE DEF new
  <1>5. /\ rows' \in [Codes -> Row] /\ guesses' \in [Codes -> Nat]
        /\ \A d \in Codes : rows'[d].there <=> rows[d].there
        /\ \A d \in Codes \ {c} : rows'[d] = rows[d] /\ guesses'[d] = guesses[d]
        /\ rows[c].there => rows'[c] = new
        /\ guesses'[c] = guesses[c] + 1
    BY <1>1, <1>2, <1>4
  <1>6. thread' \in [Threads -> Thread] /\ thread'[t].stage = "idle"
        /\ \A s \in Threads : s # t => thread'[s] = thread[s]
    BY <1>1, FreeType, ThreadTypes
  <1>7. \A s \in Threads : /\ Sends(s)' => s # t /\ Sends(s)
                           /\ Brings(s)' => s # t /\ Brings(s)
                           /\ \A d \in Codes : Judges(s, d)' => s # t /\ Judges(s, d)
    BY <1>6 DEF Judges, Sends, Brings
  <1>8. RegistrationTypeOK' /\ AttemptLeft' BY <1>1, <1>5, <1>6 DEF AttemptLeft
  <1>9. NewCodes'
    <2>1. \A s \in Threads : thread'[s].stage # "idle" => thread'[s].code \in 1..lastCode'
      BY <1>1, <1>6 DEF NewCodes
    <2>2. \A s, q \in Threads :
             Brings(s)' /\ thread'[q].stage # "idle" /\ thread'[s].code = thread'[q].code => s = q
      BY <1>6, <1>7 DEF NewCodes
    <2>3. ASSUME NEW s \in Threads, Brings(s)'
          PROVE  ~rows'[thread'[s].code].there /\ guesses'[thread'[s].code] = 0
      <3>1. s # t /\ Brings(s) /\ thread[s].stage # "idle" BY <2>3, <1>7 DEF Brings
      <3>2. thread[s].code \in Codes \ {c}
        BY <3>1, <1>1, RegistrationAssumption DEF NewCodes, Codes
      <3> QED BY <3>1, <3>2, <1>5, <1>6 DEF NewCodes
    <2>4. \A d \in Codes : d > lastCode' => ~rows'[d].there /\ guesses'[d] = 0
      BY <1>1, <1>2, <1>5 DEF NewCodes
    <2> QED BY <2>1, <2>2, <2>3, <2>4 DEF NewCodes
  <1>10. AloneKept'
    <2> SUFFICES ASSUME NEW d \in Codes, d \notin crossed PROVE Alone(d)'
      BY <1>1 DEF AloneKept
    <2>1. Alone(d) BY DEF AloneKept
    <2>2. \A s \in Threads : s # t => thread'[s].attempts = thread[s].attempts BY <1>6
    <2>3. CASE d = c
      <3>1. \A s \in Threads : ~Judges(s, d)' BY <2>1, <2>3, <1>2, <1>7 DEF Alone
      <3>2. rows'[d].there => /\ guesses'[d] = rows'[d].attempts
                              /\ rows'[d].attempts = MaxAttempts => rows'[d].consumed
        BY <2>1, <2>3, <1>2, <1>3, <1>4, <1>5 DEF Alone
      <3> QED BY <3>1, <3>2 DEF Alone
    <2>4. CASE d # c BY <2>1, <2>2, <2>4, <1>5, <1>7 DEF Alone
    <2> QED BY <2>3, <2>4
  <1>11. \A d \in Live' : d \in Codes /\ (d \in crossed \/ d \in Live)
    <2> SUFFICES ASSUME NEW d \in Live', d \notin crossed PROVE d \in Codes /\ d \in Live
      BY <1>2 DEF Live, Sent
    <2>1. d \in Codes /\ rows[d].there /\ ~rows'[d].consumed BY <1>5 DEF Live, Sent
    <2>2. CASE d = c BY <2>1, <2>2, <1>2 DEF AloneKept, Alone, Live, Sent
    <2>3. CASE d # c BY <2>1, <2>3, <1>5 DEF Live, Sent
    <2> QED BY <2>1, <2>2, <2>3
  <1>12. Superseding' BY <1>1, <1>6, <1>7, <1>11 DEF Superseding
  <1>13. OneLiveCode' BY <1>1, <1>11 DEF OneLiveCode
  <1> QED BY <1>8, <1>9, <1>10, <1>12, <1>13

LEMMA ThreadEnds ==
    ASSUME RegistrationInv, NEW t \in Threads,
           MailSent(t) \/ MailFails(t) \/ Burn(t) \/ Accept(t) \/ RollBack(t)
    PROVE  RegistrationInv'
  <1> USE DEF RegistrationInv, RegistrationTypeOK
  <1> DEFINE c == thread[t].code
             spent == [rows[c] EXCEPT !.consumed = TRUE]
  <1>1. thread[t].stage # "idle"
    BY DEF MailSent, MailFails, Burn, Accept, RollBack
  <1>2. c \in Codes /\ c \in 0..MaxCodes
    BY <1>1, RegistrationAssumption DEF NewCodes, Codes
  <1>3. spent \in Row /\ spent.consumed /\ spent.there = rows[c].there
        /\ spent.attempts = rows[c].attempts
    BY <1>2 DEF Row
  <1> HIDE DEF spent
  <1>4. CASE MailSent(t) \/ RollBack(t)
    BY <1>1, <1>4, EndHolds DEF MailSent, RollBack
  <1>5. CASE MailFails(t)
    <2>1. rows' = [rows EXCEPT ![c] = NoCode] BY <1>5 DEF MailFails
    <2>2. rows' \in [Codes -> Row] /\ ~rows'[c].there
          /\ \A d \in Codes \ {c} : rows'[d] = rows[d]
      BY <1>2, <2>1, FreeType
    <2> QED BY <1>1, <1>5, <2>2, EndHolds DEF MailFails
  <1>6. CASE Burn(t) \/ Accept(t)
    <2>1. rows' = IF rows[c].there THEN [rows EXCEPT ![c] = spent] ELSE rows
      BY <1>6 DEF Burn, Accept, Written, spent
    <2>2. rows' \in [Codes -> Row] /\ \A d \in Codes \ {c} : rows'[d] = rows[d]
      BY <1>2, <1>3, <2>1
    <2>3. rows'[c] = rows[c] \/ (rows[c].there /\ rows'[c] = spent) BY <1>2, <2>1
    <2>4. Judges(t, c) /\ thread' = [thread EXCEPT ![t] = Free]
          /\ UNCHANGED <<lastCode, guesses, crossed>> /\ account' \in 0..MaxCodes
      BY <1>2, <1>6 DEF Burn, Accept, Judges
    <2> QED BY <1>1, <1>3, <2>2, <2>3, <2>4, EndHolds
  <1> QED BY <1>4, <1>5, <1>6

LEMMA TimeHolds ==
    ASSUME RegistrationInv, NEW c \in Codes, CooldownEnds(c) \/ GetsOlder(c)
    PROVE  RegistrationInv'
  <1>1. rows[c] \in Row /\ rows \in [Codes -> Row] BY DEF RegistrationInv, RegistrationTypeOK
  <1>2. PICK recent \in BOOLEAN, life \in {"valid", "over", "old"} :
           rows' = [rows EXCEPT ![c] = [rows[c] EXCEPT !.recent = recent, !.life = life]]
    <2>1. CASE CooldownEnds(c)
      <3>1. rows' = [rows EXCEPT ![c] = [rows[c] EXCEPT !.recent = FALSE, !.life = rows[c].life]]
        BY <1>1, <2>1 DEF CooldownEnds, Row
      <3>2. rows[c].life \in {"valid", "over", "old"} BY <1>1 DEF Row
      <3> QED BY <3>1, <3>2
    <2>2. CASE GetsOlder(c) /\ rows[c].life = "valid"
      <3>1. rows' = [rows EXCEPT ![c] = [rows[c] EXCEPT !.recent = rows[c].recent, !.life = "over"]]
        BY <1>1, <2>2 DEF GetsOlder, Row
      <3>2. rows[c].recent \in BOOLEAN BY <1>1 DEF Row
      <3> QED BY <3>1, <3>2
    <2>3. CASE GetsOlder(c) /\ rows[c].life # "valid"
      <3>1. rows' = [rows EXCEPT ![c] = [rows[c] EXCEPT !.recent = FALSE, !.life = "old"]]
        BY <1>1, <2>3 DEF GetsOlder, Row
      <3> QED BY <3>1
    <2> QED BY <2>1, <2>2, <2>3
  <1> DEFINE x == [rows[c] EXCEPT !.recent = recent, !.life = life]
  <1>3. x \in Row /\ x.there = rows[c].there /\ x.consumed = rows[c].consumed
        /\ x.attempts = rows[c].attempts
    BY <1>1 DEF Row
  <1> HIDE DEF x
  <1>4. /\ rows' \in [Codes -> Row]
        /\ \A d \in Codes : /\ rows'[d].there = rows[d].there
                            /\ rows'[d].consumed = rows[d].consumed
                            /\ rows'[d].attempts = rows[d].attempts
    BY <1>1, <1>2, <1>3 DEF x
  <1> QED BY <1>4, AgeHolds DEF CooldownEnds, GetsOlder

LEMMA RegistrationStepHolds ==
    ASSUME RegistrationInv, [RegistrationNext]_registrationVars
    PROVE  RegistrationInv'
  <1>1. CASE UNCHANGED registrationVars
    BY <1>1, AgeHolds DEF registrationVars, RegistrationInv, RegistrationTypeOK
  <1>2. ASSUME NEW t \in Threads,
               \/ SendCheck(t) \/ SendSelect(t) \/ SendSupersede(t) \/ SendCommit(t)
               \/ MailSent(t) \/ MailFails(t)
               \/ \E guess \in 0..lastCode : Register(t, guess)
               \/ Burn(t) \/ CountWrong(t) \/ Accept(t) \/ RollBack(t)
        PROVE  RegistrationInv'
    BY <1>2, SendCheckHolds, SendSelectHolds, SendSupersedeHolds, SendCommitHolds,
       RegisterHolds, CountWrongHolds, ThreadEnds
  <1>3. ASSUME NEW c \in Codes, CooldownEnds(c) \/ GetsOlder(c) PROVE RegistrationInv'
    BY <1>3, TimeHolds
  <1> QED BY <1>1, <1>2, <1>3 DEF RegistrationNext, Quiet

LEMMA RegistrationInitHolds == RegistrationInit => RegistrationInv
  <1> SUFFICES ASSUME RegistrationInit PROVE RegistrationInv OBVIOUS
  <1>1. RegistrationTypeOK /\ AttemptLeft
    BY FreeType, RegistrationAssumption DEF RegistrationInit, RegistrationTypeOK, AttemptLeft
  <1>2. NewCodes BY FreeType DEF RegistrationInit, NewCodes, Brings
  <1>3. AloneKept BY FreeType DEF RegistrationInit, AloneKept, Alone, Judges
  <1>4. Superseding BY FreeType DEF RegistrationInit, Superseding, Sends
  <1>5. OneLiveCode BY FreeType DEF RegistrationInit, OneLiveCode, Live, Sent
  <1> QED BY <1>1, <1>2, <1>3, <1>4, <1>5 DEF RegistrationInv

-----------------------------------------------------------------------------
(* The inductive invariant of registration codes.                          *)
THEOREM RegistrationInvariant == RegistrationSpec => []RegistrationInv
  <1>1. RegistrationInit => RegistrationInv BY RegistrationInitHolds
  <1>2. RegistrationInv /\ [RegistrationNext]_registrationVars => RegistrationInv'
    BY RegistrationStepHolds
  <1> QED BY <1>1, <1>2, PTL DEF RegistrationSpec

(* Rows and threads are well formed: no row ever counts more attempts than *)
(* are allowed.                                                            *)
THEOREM RegistrationType == RegistrationSpec => []RegistrationTypeOK
  <1>1. RegistrationInv => RegistrationTypeOK BY DEF RegistrationInv
  <1> QED BY <1>1, RegistrationInvariant, PTL

(* A code that no overlapping transaction touched has counted every wrong  *)
(* guess, and the last allowed one has used it up.                         *)
THEOREM RegistrationLimitKeptAlone == RegistrationSpec => []LimitKeptAlone
  <1>1. RegistrationInv => LimitKeptAlone
    BY DEF RegistrationInv, AloneKept, Alone, LimitKeptAlone, Sent
  <1> QED BY <1>1, RegistrationInvariant, PTL

(* Of the codes that no overlapping transaction touched one is live at     *)
(* most: a newer code always takes the place of the older ones.            *)
THEOREM RegistrationOneLiveCode == RegistrationSpec => []OneLiveCode
  <1>1. RegistrationInv => OneLiveCode BY DEF RegistrationInv
  <1> QED BY <1>1, RegistrationInvariant, PTL
===============================================================================
