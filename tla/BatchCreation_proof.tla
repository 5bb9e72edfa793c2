------------------------- MODULE BatchCreation_proof -------------------------
(***************************************************************************)
(* Proofs about the lock table, and about batches over it, for any number  *)
(* of tasks, keys, lock objects, batches and items.                        *)
(*                                                                         *)
(* The inductive invariant of the locks has three parts: the table and the *)
(* tasks agree (TableInv), a task inside a section owns the lock it holds  *)
(* a reference to (OwnerInside), and the queues contain the waiting tasks, *)
(* each once (Queued).  Batches use the table only through its own steps   *)
(* (BatchUsesLocks), and what is proved of the table carries over.  Their  *)
(* own invariant relates the stages of items, batches and tasks            *)
(* (StagesOK, KeysOK), the permits (PermitsOK), the reserved charges       *)
(* (ChargesOK) and the mailboxes that were made (BoxesOK, ResultsOK).      *)
(* Last, nobody waits for nobody: a task waits behind one that can go on   *)
(* (WaitsForSomeone), and so does a batch (NoBatchStuck).                  *)
(***************************************************************************)
EXTENDS BatchCreation, FiniteSetTheorems, SequenceTheorems, WellFoundedInduction, TLAPS

(* The local variables of a task are set between its call and its end.     *)
LocalsSet ==
    \A t \in Tasks :
        IF stage[t] = "idle"
        THEN keyOf[t] = NoKey /\ lockOf[t] = NoLock
        ELSE keyOf[t] \in Keys /\ lockOf[t] \in LockIds

(* A task uses the lock that is in the table.                              *)
LockInTable ==
    \A t \in Tasks :
        stage[t] # "idle" =>
            entries[keyOf[t]] # NoEntry /\ entries[keyOf[t]].lock = lockOf[t]

CountsRight ==
    \A k \in Keys : entries[k] # NoEntry => entries[k].users = Cardinality(Clients(k))

LocksDistinct ==
    \A k, m \in Keys :
        /\ entries[k] # NoEntry /\ entries[m] # NoEntry
        /\ entries[k].lock = entries[m].lock
        => k = m

TableInv == LocalsSet /\ LockInTable /\ CountsRight /\ LocksDistinct

OwnerInside == \A t \in Tasks : stage[t] = "inside" => owner[lockOf[t]] = t

Queued ==
    /\ \A l \in LockIds : \A i \in DOMAIN waiters[l] :
          stage[waiters[l][i]] = "waiting" /\ lockOf[waiters[l][i]] = l
    /\ \A t \in Tasks : stage[t] = "waiting" =>
          \E i \in DOMAIN waiters[lockOf[t]] : waiters[lockOf[t]][i] = t
    /\ \A l \in LockIds : \A i, j \in DOMAIN waiters[l] :
          waiters[l][i] = waiters[l][j] => i = j

IInv == TypeOK /\ TableInv /\ OwnerInside /\ Queued

-----------------------------------------------------------------------------
(* What taking one element out of a sequence leaves.                       *)
LEMMA RemoveAtLemma ==
    ASSUME NEW S, NEW s \in Seq(S), NEW i \in 1..Len(s)
    PROVE  /\ RemoveAt(s, i) \in Seq(S)
           /\ Len(RemoveAt(s, i)) = Len(s) - 1
           /\ \A j \in 1..(Len(s) - 1) :
                 RemoveAt(s, i)[j] = IF j < i THEN s[j] ELSE s[j + 1]
  <1> DEFINE a == SubSeq(s, 1, i - 1)
             b == SubSeq(s, i + 1, Len(s))
  <1>1. a \in Seq(S) /\ Len(a) = i - 1 /\ \A j \in 1..(i - 1) : a[j] = s[j]
    OBVIOUS
  <1>2. b \in Seq(S) /\ Len(b) = Len(s) - i /\ \A j \in 1..(Len(s) - i) : b[j] = s[i + j]
    OBVIOUS
  <1>3. RemoveAt(s, i) = a \o b
    BY DEF RemoveAt
  <1> HIDE DEF a, b
  <1>4. a \o b \in Seq(S) /\ Len(a \o b) = Len(s) - 1
    <2>1. a \o b \in Seq(S) /\ Len(a \o b) = Len(a) + Len(b)
      BY <1>1, <1>2, ConcatProperties
    <2> QED BY <1>1, <1>2, <2>1
  <1>5. ASSUME NEW j \in 1..(Len(s) - 1)
        PROVE  (a \o b)[j] = IF j < i THEN s[j] ELSE s[j + 1]
    <2>1. CASE j < i
      BY <1>1, <1>2, <2>1, ConcatProperties
    <2>2. CASE ~(j < i)
      <3>1. (a \o b)[j] = b[j - (i - 1)]
        BY <1>1, <1>2, <2>2, ConcatProperties
      <3>2. j - (i - 1) \in 1..(Len(s) - i) /\ i + (j - (i - 1)) = j + 1
        BY <2>2
      <3> QED BY <1>2, <2>2, <3>1, <3>2
    <2> QED BY <2>1, <2>2
  <1> QED BY <1>3, <1>4, <1>5

(* The clients of a key are finitely many; one more and one less.          *)
LEMMA ClientsFinite == ASSUME NEW k PROVE IsFiniteSet(Clients(k))
  <1>1. Clients(k) \subseteq Tasks BY DEF Clients
  <1> QED BY <1>1, LocksAssumption, FS_Subset

-----------------------------------------------------------------------------
LEMMA InitHolds == Init => IInv
  <1> SUFFICES ASSUME Init PROVE IInv OBVIOUS
  <1>1. TypeOK BY DEF Init, TypeOK
  <1>2. TableInv
    BY DEF Init, TableInv, LocalsSet, LockInTable, CountsRight, LocksDistinct
  <1>3. OwnerInside /\ Queued BY DEF Init, OwnerInside, Queued
  <1> QED BY <1>1, <1>2, <1>3 DEF IInv

(* A task arrives: its key's entry is made or found, and counts it.        *)
LEMMA Arrival ==
    ASSUME TypeOK, TableInv, NEW t \in Tasks, NEW k \in Keys, NEW l \in LockIds,
           NEW s \in {"waiting", "inside"},
           stage[t] = "idle", MayGet(k, l), entries' = Counted(k, l),
           stage' = [stage EXCEPT ![t] = s],
           keyOf' = [keyOf EXCEPT ![t] = k],
           lockOf' = [lockOf EXCEPT ![t] = l]
    PROVE  entries' \in [Keys -> Entry \union {NoEntry}] /\ TableInv'
  <1> USE DEF TypeOK, TableInv
  <1>1. /\ entries' \in [Keys -> Entry \union {NoEntry}]
        /\ entries'[k] # NoEntry /\ entries'[k].lock = l
        /\ entries'[k].users = IF entries[k] = NoEntry THEN 1 ELSE entries[k].users + 1
        /\ \A m \in Keys \ {k} : entries'[m] = entries[m]
    BY LocksAssumption DEF Counted, MayGet, Entry
  <1>2. LocalsSet' BY DEF LocalsSet
  <1>3. LockInTable'
    <2> SUFFICES ASSUME NEW r \in Tasks, stage'[r] # "idle"
                 PROVE  entries'[keyOf'[r]] # NoEntry /\ entries'[keyOf'[r]].lock = lockOf'[r]
      BY DEF LockInTable
    <2>1. CASE r = t BY <1>1, <2>1
    <2>2. CASE r # t
      <3>1. stage[r] # "idle" /\ keyOf'[r] = keyOf[r] /\ lockOf'[r] = lockOf[r] BY <2>2
      <3>2. keyOf[r] \in Keys BY <3>1 DEF LocalsSet
      <3>3. entries[keyOf[r]] # NoEntry /\ entries[keyOf[r]].lock = lockOf[r]
        BY <3>1 DEF LockInTable
      <3>4. CASE keyOf[r] # k BY <1>1, <3>1, <3>2, <3>3, <3>4
      <3>5. CASE keyOf[r] = k
        <4>1. entries[k].lock = l BY <3>3, <3>5 DEF MayGet
        <4> QED BY <1>1, <3>1, <3>3, <3>5, <4>1
      <3> QED BY <3>4, <3>5
    <2> QED BY <2>1, <2>2
  <1>4. CountsRight'
    <2> SUFFICES ASSUME NEW m \in Keys, entries'[m] # NoEntry
                 PROVE  entries'[m].users = Cardinality(Clients(m)')
      BY DEF CountsRight
    <2>1. CASE m = k
      <3>1. Clients(k)' = Clients(k) \union {t} /\ t \notin Clients(k)
        BY DEF Clients
      <3>2. Cardinality(Clients(k)') = Cardinality(Clients(k)) + 1
        BY <3>1, ClientsFinite, FS_AddElement
      <3>3. CASE entries[k] = NoEntry
        <4>1. Clients(k) = {} BY <3>3 DEF Clients, LockInTable
        <4> QED BY <1>1, <2>1, <3>2, <3>3, <4>1, FS_EmptySet
      <3>4. CASE entries[k] # NoEntry
        BY <1>1, <2>1, <3>2, <3>4 DEF CountsRight
      <3> QED BY <3>3, <3>4
    <2>2. CASE m # k
      <3>1. Clients(m)' = Clients(m) BY <2>2 DEF Clients
      <3> QED BY <1>1, <2>2, <3>1 DEF CountsRight
    <2> QED BY <2>1, <2>2
  <1>5. LocksDistinct'
    <2>1. \A m \in Keys \ {k} : entries[m] # NoEntry => entries[m].lock # l
      BY DEF LocksDistinct, MayGet, LiveLocks
    <2> SUFFICES ASSUME NEW m \in Keys, NEW p \in Keys,
                        entries'[m] # NoEntry, entries'[p] # NoEntry,
                        entries'[m].lock = entries'[p].lock
                 PROVE  m = p
      BY DEF LocksDistinct
    <2>2. CASE m = k
      <3>1. CASE p # k BY <1>1, <2>1, <2>2, <3>1
      <3> QED BY <2>2, <3>1
    <2>3. CASE m # k
      <3>1. CASE p = k BY <1>1, <2>1, <2>3, <3>1
      <3>2. CASE p # k
        <4>1. entries[m] = entries'[m] /\ entries[p] = entries'[p] BY <1>1, <2>3, <3>2
        <4> QED BY <4>1 DEF LocksDistinct
      <3> QED BY <3>1, <3>2
    <2> QED BY <2>2, <2>3
  <1> QED BY <1>1, <1>2, <1>3, <1>4, <1>5

(* A task departs: the finally clause uncounts it and drops an entry that  *)
(* nobody else uses.                                                       *)
LEMMA Departure ==
    ASSUME TypeOK, TableInv, NEW t \in Tasks, NEW k, NEW l,
           stage[t] # "idle", k = keyOf[t], l = lockOf[t],
           entries' = Discounted(k, l), Forget(t)
    PROVE  entries' \in [Keys -> Entry \union {NoEntry}] /\ TableInv'
  <1> DEFINE rest == Clients(k) \ {t}
  <1> USE DEF TypeOK, TableInv, Forget
  <1>1. k \in Keys /\ l \in LockIds BY DEF LocalsSet
  <1>2. entries[k] # NoEntry /\ entries[k] \in Entry /\ entries[k].lock = l
    BY <1>1 DEF LockInTable
  <1>3. Clients(k)' = rest /\ t \in Clients(k) BY DEF Clients, LocalsSet
  <1>4. /\ Cardinality(rest) = entries[k].users - 1
        /\ IsFiniteSet(rest)
    BY <1>1, <1>2, <1>3, ClientsFinite, FS_RemoveElement DEF CountsRight
  <1>5. entries[k].users \in Nat \ {0} BY <1>2 DEF Entry
  <1>6. /\ entries' \in [Keys -> Entry \union {NoEntry}]
        /\ \A m \in Keys \ {k} : entries'[m] = entries[m]
        /\ entries[k].users = 1 => entries'[k] = NoEntry
        /\ entries[k].users # 1 => /\ entries'[k] # NoEntry
                                   /\ entries'[k].lock = l
                                   /\ entries'[k].users = entries[k].users - 1
    BY <1>1, <1>2, <1>5, LocksAssumption DEF Discounted, Entry
  <1>7. LocalsSet' BY DEF LocalsSet
  <1>8. LockInTable'
    <2> SUFFICES ASSUME NEW r \in Tasks, stage'[r] # "idle"
                 PROVE  entries'[keyOf'[r]] # NoEntry /\ entries'[keyOf'[r]].lock = lockOf'[r]
      BY DEF LockInTable
    <2>1. r # t /\ stage[r] # "idle" /\ keyOf'[r] = keyOf[r] /\ lockOf'[r] = lockOf[r]
      OBVIOUS
    <2>2. keyOf[r] \in Keys BY <2>1 DEF LocalsSet
    <2>3. entries[keyOf[r]] # NoEntry /\ entries[keyOf[r]].lock = lockOf[r]
      BY <2>1 DEF LockInTable
    <2>4. CASE keyOf[r] = k
      <3>1. r \in rest BY <2>1, <2>4 DEF Clients
      <3>2. Cardinality(rest) # 0 BY <1>4, <3>1, FS_EmptySet
      <3> QED BY <1>2, <1>4, <1>5, <1>6, <2>1, <2>3, <2>4, <3>2
    <2>5. CASE keyOf[r] # k BY <1>6, <2>1, <2>2, <2>3, <2>5
    <2> QED BY <2>4, <2>5
  <1>9. CountsRight'
    <2> SUFFICES ASSUME NEW m \in Keys, entries'[m] # NoEntry
                 PROVE  entries'[m].users = Cardinality(Clients(m)')
      BY DEF CountsRight
    <2>1. CASE m = k BY <1>3, <1>4, <1>6, <2>1
    <2>2. CASE m # k
      <3>1. Clients(m)' = Clients(m) BY <2>2 DEF Clients, LocalsSet
      <3> QED BY <1>6, <2>2, <3>1 DEF CountsRight
    <2> QED BY <2>1, <2>2
  <1>10. LocksDistinct'
    <2>1. ASSUME NEW m \in Keys, entries'[m] # NoEntry
          PROVE  entries[m] # NoEntry /\ entries'[m].lock = entries[m].lock
      BY <1>1, <1>2, <1>5, <1>6, <2>1
    <2> QED BY <2>1 DEF LocksDistinct
  <1> QED BY <1>6, <1>7, <1>8, <1>9, <1>10

-----------------------------------------------------------------------------
(* One lemma for each action: it preserves the whole invariant.            *)
LEMMA EnterAtOnceKeeps ==
    ASSUME IInv, NEW t \in Tasks, NEW k \in Keys, NEW l \in LockIds, EnterAtOnce(t, k, l)
    PROVE  IInv'
  <1> USE DEF IInv, EnterAtOnce
  <1>1. entries' \in [Keys -> Entry \union {NoEntry}] /\ TableInv'
    BY Arrival
  <1>2. TypeOK' BY <1>1 DEF TypeOK
  <1>3. OwnerInside'
    BY LocksAssumption DEF TypeOK, OwnerInside, TableInv, LocalsSet, Free
  <1>4. Queued'
    <2>1. t \in Tasks /\ stage[t] = "idle" OBVIOUS
    <2> QED BY <2>1 DEF TypeOK, Queued, Free, TableInv, LocalsSet
  <1> QED BY <1>1, <1>2, <1>3, <1>4

LEMMA WaitKeeps ==
    ASSUME IInv, NEW t \in Tasks, NEW k \in Keys, NEW l \in LockIds, Wait(t, k, l)
    PROVE  IInv'
  <1> USE DEF IInv, Wait
  <1>1. entries' \in [Keys -> Entry \union {NoEntry}] /\ TableInv'
    BY Arrival
  <1>2. TypeOK' BY <1>1 DEF TypeOK
  <1>3. OwnerInside' BY DEF TypeOK, OwnerInside
  <1>4. Queued'
    <2> DEFINE n == Len(waiters[l]) + 1
    <2>1. /\ waiters[l] \in Seq(Tasks) /\ n \in Nat \ {0}
          /\ waiters'[l] = Append(waiters[l], t)
          /\ DOMAIN waiters'[l] = 1..n
          /\ waiters'[l][n] = t
          /\ \A i \in 1..(n - 1) : waiters'[l][i] = waiters[l][i]
          /\ DOMAIN waiters[l] = 1..(n - 1)
          /\ \A m \in LockIds \ {l} : waiters'[m] = waiters[m]
      BY DEF TypeOK
    <2>2. \A m \in LockIds : \A i \in DOMAIN waiters[m] : waiters[m][i] \in Tasks \ {t}
      BY DEF TypeOK, Queued
    <2>3. ASSUME NEW m \in LockIds, NEW i \in DOMAIN waiters'[m]
          PROVE  stage'[waiters'[m][i]] = "waiting" /\ lockOf'[waiters'[m][i]] = m
      <3>1. CASE m = l /\ i = n BY <2>1, <3>1 DEF TypeOK
      <3>2. CASE m # l \/ i # n
        <4>1. i \in DOMAIN waiters[m] /\ waiters'[m][i] = waiters[m][i] BY <2>1, <2>3, <3>2
        <4> QED BY <2>2, <4>1 DEF TypeOK, Queued
      <3> QED BY <3>1, <3>2
    <2>4. ASSUME NEW r \in Tasks, stage'[r] = "waiting"
          PROVE  \E i \in DOMAIN waiters'[lockOf'[r]] : waiters'[lockOf'[r]][i] = r
      <3>1. CASE r = t BY <2>1, <3>1 DEF TypeOK
      <3>2. CASE r # t
        <4>1. stage[r] = "waiting" /\ lockOf'[r] = lockOf[r] BY <2>4, <3>2 DEF TypeOK
        <4>2. lockOf[r] \in LockIds BY <4>1 DEF TableInv, LocalsSet
        <4>3. PICK i \in DOMAIN waiters[lockOf[r]] : waiters[lockOf[r]][i] = r
          BY <4>1 DEF Queued
        <4>4. i \in DOMAIN waiters'[lockOf[r]] /\ waiters'[lockOf[r]][i] = r
          BY <2>1, <4>2, <4>3
        <4> QED BY <4>1, <4>4
      <3> QED BY <3>1, <3>2
    <2>5. ASSUME NEW m \in LockIds, NEW i \in DOMAIN waiters'[m], NEW j \in DOMAIN waiters'[m],
                 waiters'[m][i] = waiters'[m][j]
          PROVE  i = j
      <3>1. CASE m # l BY <2>1, <2>5, <3>1 DEF Queued
      <3>2. CASE m = l
        <4>1. \A p \in 1..(n - 1) : waiters'[l][p] # t BY <2>1, <2>2
        <4>2. CASE i = n \/ j = n BY <2>1, <2>5, <3>2, <4>1, <4>2
        <4>3. CASE i # n /\ j # n
          <5>1. i \in DOMAIN waiters[l] /\ j \in DOMAIN waiters[l] BY <2>1, <3>2, <4>3
          <5>2. waiters[l][i] = waiters[l][j] BY <2>1, <2>5, <3>2, <5>1
          <5> QED BY <5>1, <5>2 DEF Queued
        <4> QED BY <4>2, <4>3
      <3> QED BY <3>1, <3>2
    <2> QED BY <2>3, <2>4, <2>5 DEF Queued
  <1> QED BY <1>1, <1>2, <1>3, <1>4

(* The queue of lock l loses its element i, the waiting task t.            *)
LEMMA QueueLoses ==
    ASSUME TypeOK, LocalsSet, Queued, NEW t \in Tasks, NEW l \in LockIds,
           NEW i \in DOMAIN waiters[l], waiters[l][i] = t,
           waiters' = [waiters EXCEPT ![l] = RemoveAt(@, i)],
           NEW s \in {"idle", "inside"}, stage' = [stage EXCEPT ![t] = s],
           \A r \in Tasks \ {t} : lockOf'[r] = lockOf[r]
    PROVE  waiters' \in [LockIds -> Seq(Tasks)] /\ Queued'
  <1> DEFINE n == Len(waiters[l])
             shift(j) == IF j < i THEN j ELSE j + 1
  <1>1. /\ waiters[l] \in Seq(Tasks) /\ n \in Nat /\ i \in 1..n
        /\ DOMAIN waiters[l] = 1..n
    BY DEF TypeOK
  <1>2. /\ waiters'[l] \in Seq(Tasks)
        /\ DOMAIN waiters'[l] = 1..(n - 1)
        /\ \A j \in 1..(n - 1) : waiters'[l][j] = waiters[l][shift(j)]
        /\ \A m \in LockIds \ {l} : waiters'[m] = waiters[m]
        /\ waiters' \in [LockIds -> Seq(Tasks)]
    <2>1. waiters'[l] = RemoveAt(waiters[l], i) BY DEF TypeOK
    <2>2. /\ RemoveAt(waiters[l], i) \in Seq(Tasks)
          /\ Len(RemoveAt(waiters[l], i)) = n - 1
          /\ \A j \in 1..(n - 1) : RemoveAt(waiters[l], i)[j] = waiters[l][shift(j)]
      BY <1>1, RemoveAtLemma
    <2>3. \A m \in LockIds \ {l} : waiters'[m] = waiters[m] BY DEF TypeOK
    <2>4. waiters' \in [LockIds -> Seq(Tasks)] BY <2>1, <2>2 DEF TypeOK
    <2>5. DOMAIN waiters'[l] = 1..(n - 1) BY <2>1, <2>2
    <2> QED BY <2>1, <2>2, <2>3, <2>4, <2>5
  <1>3. /\ \A j \in 1..(n - 1) : shift(j) \in 1..n /\ shift(j) # i
        /\ \A p, q \in 1..(n - 1) : shift(p) = shift(q) => p = q
        /\ \A q \in 1..n : q # i => \E j \in 1..(n - 1) : shift(j) = q
    <2>1. ASSUME NEW q \in 1..n, q # i PROVE \E j \in 1..(n - 1) : shift(j) = q
      <3>1. CASE q < i
        <4>1. q \in 1..(n - 1) /\ shift(q) = q BY <1>1, <3>1
        <4> QED BY <4>1
      <3>2. CASE q > i
        <4>1. q - 1 \in 1..(n - 1) /\ shift(q - 1) = q BY <1>1, <3>2
        <4> QED BY <4>1
      <3> QED BY <1>1, <2>1, <3>1, <3>2
    <2> QED BY <1>1, <2>1
  <1> HIDE DEF shift, n
  <1>4. \A m \in LockIds : \A j \in DOMAIN waiters'[m] :
           \E q \in DOMAIN waiters[m] : /\ waiters'[m][j] = waiters[m][q]
                                        /\ m = l => q = shift(j)
                                        /\ m # l => q = j
    BY <1>1, <1>2, <1>3
  <1>5. ASSUME NEW m \in LockIds, NEW q \in DOMAIN waiters[m], waiters[m][q] = t
        PROVE  m = l /\ q = i
    <2>1. lockOf[t] = m /\ lockOf[t] = l BY <1>5 DEF Queued
    <2> QED BY <1>5, <2>1 DEF Queued
  <1>6. ASSUME NEW m \in LockIds, NEW j \in DOMAIN waiters'[m]
        PROVE  stage'[waiters'[m][j]] = "waiting" /\ lockOf'[waiters'[m][j]] = m
    <2>1. PICK q \in DOMAIN waiters[m] : /\ waiters'[m][j] = waiters[m][q]
                                         /\ m = l => q = shift(j)
                                         /\ m # l => q = j
      BY <1>4
    <2>2. waiters[m][q] # t BY <1>2, <1>3, <1>5, <2>1
    <2>3. waiters[m][q] \in Tasks BY DEF TypeOK
    <2> QED BY <2>1, <2>2, <2>3 DEF TypeOK, Queued
  <1>7. ASSUME NEW r \in Tasks, stage'[r] = "waiting"
        PROVE  \E j \in DOMAIN waiters'[lockOf'[r]] : waiters'[lockOf'[r]][j] = r
    <2>1. r # t /\ stage[r] = "waiting" /\ lockOf'[r] = lockOf[r] BY <1>7 DEF TypeOK
    <2>2. PICK q \in DOMAIN waiters[lockOf[r]] : waiters[lockOf[r]][q] = r
      BY <2>1 DEF Queued
    <2>3. lockOf[r] \in LockIds BY <2>1 DEF LocalsSet
    <2>4. CASE lockOf[r] # l BY <1>2, <2>1, <2>2, <2>3, <2>4
    <2>5. CASE lockOf[r] = l
      <3>1. q \in 1..n /\ q # i BY <1>1, <2>1, <2>2, <2>5
      <3>2. PICK j \in 1..(n - 1) : shift(j) = q BY <1>3, <3>1
      <3>3. waiters'[l][j] = r BY <1>2, <2>2, <2>5, <3>2
      <3> QED BY <1>2, <2>1, <2>5, <3>2, <3>3
    <2> QED BY <2>4, <2>5
  <1>8. ASSUME NEW m \in LockIds, NEW p \in DOMAIN waiters'[m], NEW q \in DOMAIN waiters'[m],
               waiters'[m][p] = waiters'[m][q]
        PROVE  p = q
    <2>1. CASE m # l BY <1>2, <1>8, <2>1 DEF Queued
    <2>2. CASE m = l
      <3>1. p \in 1..(n - 1) /\ q \in 1..(n - 1) BY <1>2, <2>2
      <3>2. shift(p) \in DOMAIN waiters[l] /\ shift(q) \in DOMAIN waiters[l]
        BY <1>1, <1>3, <3>1
      <3>3. waiters[l][shift(p)] = waiters[l][shift(q)] BY <1>2, <1>8, <2>2, <3>1
      <3>4. shift(p) = shift(q) BY <3>2, <3>3 DEF Queued
      <3> QED BY <1>3, <3>1, <3>4
    <2> QED BY <2>1, <2>2
  <1> QED BY <1>2, <1>6, <1>7, <1>8 DEF Queued

LEMMA TailIsRemoveAt ==
    ASSUME NEW S, NEW s \in Seq(S), Len(s) # 0
    PROVE  Tail(s) = RemoveAt(s, 1)
  <1>1. /\ RemoveAt(s, 1) \in Seq(S)
        /\ Len(RemoveAt(s, 1)) = Len(s) - 1
        /\ \A j \in 1..(Len(s) - 1) : RemoveAt(s, 1)[j] = s[j + 1]
    BY RemoveAtLemma
  <1>2. /\ Tail(s) \in Seq(S)
        /\ Len(Tail(s)) = Len(s) - 1
        /\ \A j \in 1..(Len(s) - 1) : Tail(s)[j] = s[j + 1]
    OBVIOUS
  <1> QED BY <1>1, <1>2, SeqEqual

LEMMA AcquireKeeps ==
    ASSUME IInv, NEW t \in Tasks, Acquire(t)
    PROVE  IInv'
  <1> USE DEF IInv, Acquire
  <1> DEFINE l == lockOf[t]
  <1>1. l \in LockIds /\ \E i \in DOMAIN waiters[l] : waiters[l][i] = t
    BY DEF TableInv, LocalsSet, Queued
  <1>2. /\ waiters[l] \in Seq(Tasks) /\ Len(waiters[l]) # 0
        /\ 1 \in DOMAIN waiters[l] /\ waiters[l][1] = t
    BY <1>1 DEF TypeOK
  <1>3. waiters' = [waiters EXCEPT ![l] = RemoveAt(@, 1)]
    BY <1>1, <1>2, TailIsRemoveAt DEF TypeOK
  <1>4. waiters' \in [LockIds -> Seq(Tasks)] /\ Queued'
    BY <1>1, <1>2, <1>3, QueueLoses DEF TypeOK, TableInv
  <1>5. TypeOK' BY <1>1, <1>4 DEF TypeOK
  <1>6. TableInv'
    <2>1. \A k : Clients(k)' = Clients(k) BY DEF Clients, TypeOK
    <2>2. CountsRight' BY <2>1 DEF TableInv, CountsRight
    <2>3. LocalsSet' /\ LockInTable' /\ LocksDistinct'
      BY DEF TypeOK, TableInv, LocalsSet, LockInTable, LocksDistinct
    <2> QED BY <2>2, <2>3 DEF TableInv
  <1>7. OwnerInside'
    BY <1>1, LocksAssumption DEF TypeOK, OwnerInside, TableInv, LocalsSet
  <1> QED BY <1>4, <1>5, <1>6, <1>7

LEMMA LeaveKeeps ==
    ASSUME IInv, NEW t \in Tasks, Leave(t)
    PROVE  IInv'
  <1> USE DEF IInv, Leave
  <1>1. keyOf[t] \in Keys /\ lockOf[t] \in LockIds BY DEF TableInv, LocalsSet
  <1>2. entries' \in [Keys -> Entry \union {NoEntry}] /\ TableInv'
    <2>1. stage[t] # "idle" OBVIOUS
    <2> QED BY <2>1, Departure
  <1>3. TypeOK' BY <1>1, <1>2 DEF TypeOK, Forget
  <1>4. OwnerInside'
    BY <1>1 DEF TypeOK, OwnerInside, TableInv, LocalsSet, Forget
  <1>5. Queued'
    <2>1. \A m \in LockIds : \A i \in DOMAIN waiters[m] : waiters[m][i] \in Tasks \ {t}
      BY DEF TypeOK, Queued
    <2>2. \A r \in Tasks \ {t} : stage'[r] = stage[r] /\ lockOf'[r] = lockOf[r]
      BY DEF TypeOK, Forget
    <2>3. stage'[t] = "idle" BY DEF TypeOK, Forget
    <2> QED BY <2>1, <2>2, <2>3 DEF Queued
  <1> QED BY <1>2, <1>3, <1>4, <1>5

LEMMA CancelKeeps ==
    ASSUME IInv, NEW t \in Tasks, Cancel(t)
    PROVE  IInv'
  <1> USE DEF IInv, Cancel
  <1> DEFINE l == lockOf[t]
             i == CHOOSE j \in DOMAIN waiters[l] : waiters[l][j] = t
  <1>1. keyOf[t] \in Keys /\ l \in LockIds BY DEF TableInv, LocalsSet
  <1>2. i \in DOMAIN waiters[l] /\ waiters[l][i] = t BY DEF Queued
  <1>3. waiters' = [waiters EXCEPT ![l] = RemoveAt(@, i)]
    BY <1>1 DEF Dequeued, TypeOK
  <1>4. waiters' \in [LockIds -> Seq(Tasks)] /\ Queued'
    <2>1. stage' = [stage EXCEPT ![t] = "idle"] /\ \A r \in Tasks \ {t} : lockOf'[r] = lockOf[r]
      BY DEF Forget, TypeOK
    <2>2. LocalsSet BY DEF TableInv
    <2> HIDE DEF i
    <2> QED BY <1>1, <1>2, <1>3, <2>1, <2>2, QueueLoses
  <1>5. entries' \in [Keys -> Entry \union {NoEntry}] /\ TableInv'
    <2>1. stage[t] # "idle" OBVIOUS
    <2> QED BY <2>1, Departure
  <1>6. TypeOK' BY <1>4, <1>5 DEF TypeOK, Forget
  <1>7. OwnerInside' BY DEF TypeOK, OwnerInside, Forget
  <1> QED BY <1>4, <1>5, <1>6, <1>7

LEMMA RestartKeeps ==
    ASSUME Restart
    PROVE  IInv'
  <1> USE DEF Restart
  <1>1. TypeOK' BY DEF TypeOK
  <1>2. TableInv'
    BY DEF TableInv, LocalsSet, LockInTable, CountsRight, LocksDistinct
  <1>3. OwnerInside' /\ Queued' BY DEF OwnerInside, Queued
  <1> QED BY <1>1, <1>2, <1>3 DEF IInv

LEMMA StepHolds == IInv /\ [Next]_vars => IInv'
  <1> SUFFICES ASSUME IInv, [Next]_vars PROVE IInv' OBVIOUS
  <1>1. ASSUME NEW t \in Tasks, Call(t) PROVE IInv'
    BY <1>1, EnterAtOnceKeeps, WaitKeeps DEF Call
  <1>2. ASSUME NEW t \in Tasks, Acquire(t) PROVE IInv' BY <1>2, AcquireKeeps
  <1>3. ASSUME NEW t \in Tasks, Leave(t) PROVE IInv' BY <1>3, LeaveKeeps
  <1>4. ASSUME NEW t \in Tasks, Cancel(t) PROVE IInv' BY <1>4, CancelKeeps
  <1>5. CASE Restart BY <1>5, RestartKeeps
  <1>6. CASE UNCHANGED vars
    <2>1. \A k : Clients(k)' = Clients(k) BY <1>6 DEF vars, Clients
    <2>2. TypeOK' BY <1>6 DEF vars, IInv, TypeOK
    <2>3. TableInv'
      BY <1>6, <2>1 DEF vars, IInv, TableInv, LocalsSet, LockInTable, CountsRight, LocksDistinct
    <2>4. OwnerInside' /\ Queued' BY <1>6 DEF vars, IInv, OwnerInside, Queued
    <2> QED BY <2>2, <2>3, <2>4 DEF IInv
  <1> QED BY <1>1, <1>2, <1>3, <1>4, <1>5, <1>6 DEF Next

(* The invariant the theorems below rest on.                               *)
THEOREM LocksInvariant == Spec => []IInv
  BY InitHolds, StepHolds, PTL DEF Spec

-----------------------------------------------------------------------------
(* The table, the lock objects and the tasks' locals keep their types; an  *)
(* entry never counts zero tasks.                                          *)
THEOREM LocksType == Spec => []TypeOK
  <1>1. IInv => TypeOK BY DEF IInv
  <1> QED BY <1>1, LocksInvariant, PTL

(* create_mailbox never runs twice at a time under one internal key.       *)
THEOREM LocksExclude == Spec => []MutualExclusion
  <1>1. IInv => MutualExclusion
    BY DEF IInv, TableInv, LocalsSet, LockInTable, OwnerInside, MutualExclusion
  <1> QED BY <1>1, LocksInvariant, PTL

(* The table of locks neither leaks an entry nor drops one that is in use. *)
THEOREM LocksCounted == Spec => []UsersCounted
  <1>1. ASSUME IInv PROVE UsersCounted
    <2> SUFFICES ASSUME NEW k \in Keys
                 PROVE  IF entries[k] = NoEntry
                        THEN Clients(k) = {}
                        ELSE /\ entries[k].users = Cardinality(Clients(k))
                             /\ \A t \in Clients(k) : lockOf[t] = entries[k].lock
      BY DEF UsersCounted
    <2> QED BY <1>1 DEF IInv, TableInv, LockInTable, CountsRight, Clients
  <1> QED BY <1>1, LocksInvariant, PTL

(* Two keys never share a lock object.                                     *)
THEOREM LocksIndependent == Spec => []KeysIndependent
  <1>1. ASSUME IInv PROVE KeysIndependent
    <2> SUFFICES ASSUME NEW t \in Tasks, NEW s \in Tasks,
                        lockOf[t] # NoLock, lockOf[t] = lockOf[s]
                 PROVE  keyOf[t] = keyOf[s]
      BY DEF KeysIndependent
    <2>1. stage[t] # "idle" /\ stage[s] # "idle" BY <1>1 DEF IInv, TableInv, LocalsSet
    <2> QED BY <1>1, <2>1 DEF IInv, TableInv, LocalsSet, LockInTable, LocksDistinct
  <1> QED BY <1>1, LocksInvariant, PTL

(* The queue of a lock is exactly its waiting tasks, each once.            *)
THEOREM LocksQueue == Spec => []QueueMatchesWaiters
  <1>1. ASSUME IInv PROVE QueueMatchesWaiters
    <2> SUFFICES ASSUME NEW l \in LockIds
                 PROVE  {waiters[l][i] : i \in DOMAIN waiters[l]}
                          = {t \in Tasks : stage[t] = "waiting" /\ lockOf[t] = l}
      BY <1>1 DEF IInv, Queued, QueueMatchesWaiters
    <2>1. ASSUME NEW i \in DOMAIN waiters[l]
          PROVE  waiters[l][i] \in {t \in Tasks : stage[t] = "waiting" /\ lockOf[t] = l}
      BY <1>1 DEF IInv, TypeOK, Queued
    <2>2. ASSUME NEW t \in Tasks, stage[t] = "waiting", lockOf[t] = l
          PROVE  \E i \in DOMAIN waiters[l] : waiters[l][i] = t
      BY <1>1, <2>2 DEF IInv, Queued
    <2> QED BY <2>1, <2>2
  <1> QED BY <1>1, LocksInvariant, PTL

(* A newcomer never overtakes a task that waits for the same key.          *)
THEOREM LocksFair == Spec => NoBarging
  <1> DEFINE Fair == \A t \in Tasks :
                        stage[t] = "idle" /\ stage'[t] = "inside" =>
                            \A s \in Tasks : ~(stage[s] = "waiting" /\ keyOf[s] = keyOf'[t])
  <1>1. ASSUME IInv, [Next]_vars PROVE [Fair]_vars
    <2> SUFFICES ASSUME Next, NEW t \in Tasks, stage[t] = "idle", stage'[t] = "inside",
                        NEW s \in Tasks, stage[s] = "waiting", keyOf[s] = keyOf'[t]
                 PROVE  FALSE
      BY <1>1
    <2>1. PICK k \in Keys, l \in LockIds : EnterAtOnce(t, k, l)
      <3>1. stage \in [Tasks -> {"idle", "waiting", "inside"}] BY <1>1 DEF IInv, TypeOK
      <3>2. ASSUME NEW r \in Tasks, Acquire(r) PROVE FALSE BY <3>1, <3>2 DEF Acquire
      <3>3. ASSUME NEW r \in Tasks, Leave(r) \/ Cancel(r) PROVE FALSE
        BY <3>1, <3>3 DEF Leave, Cancel, Forget
      <3>4. ~Restart BY <3>1 DEF Restart
      <3>5. PICK r \in Tasks : Call(r) BY <3>2, <3>3, <3>4 DEF Next
      <3>6. PICK k \in Keys, l \in LockIds : EnterAtOnce(r, k, l) \/ Wait(r, k, l)
        BY <3>5 DEF Call
      <3>7. r = t /\ EnterAtOnce(r, k, l) BY <3>1, <3>6 DEF EnterAtOnce, Wait
      <3> QED BY <3>7
    <2>2. keyOf[s] = k /\ waiters[l] = <<>> /\ MayGet(k, l)
      BY <1>1, <2>1 DEF EnterAtOnce, Free, IInv, TypeOK
    <2>3. entries[k] # NoEntry /\ lockOf[s] = l
      BY <1>1, <2>2 DEF IInv, TableInv, LockInTable, MayGet
    <2> QED BY <1>1, <2>2, <2>3 DEF IInv, Queued
  <1> QED BY <1>1, LocksInvariant, PTL DEF Spec, NoBarging

-----------------------------------------------------------------------------
(* The holder of a key's section, seen from the task inside it.            *)
LEMMA HolderInside ==
    ASSUME MutualExclusion, NEW t \in Tasks, stage[t] = "inside"
    PROVE  HolderOf(keyOf[t]) = t
  BY DEF MutualExclusion, HolderOf

LEMMA HolderNone ==
    ASSUME NEW k, ~\E t \in Tasks : stage[t] = "inside" /\ keyOf[t] = k
    PROVE  HolderOf(k) = NoTask
  BY DEF HolderOf

(* Who holds the sections only depends on who is inside.                   *)
LEMMA HolderChange ==
    ASSUME MutualExclusion, MutualExclusion', NEW k,
           \A t \in Tasks : (stage[t] = "inside" /\ keyOf[t] = k)
                               <=> (stage'[t] = "inside" /\ keyOf'[t] = k)
    PROVE  HolderOf(k)' = HolderOf(k)
  BY DEF MutualExclusion, HolderOf

(* The lock table implements one mutex for each key: a step of the code is *)
(* an entry to a section, an exit from it, a reset, or invisible.          *)
THEOREM LocksImplementMutex == Spec => ImplementsMutex
  <1> DEFINE h == [k \in Keys |-> HolderOf(k)]
  <1>1. Init => Mutex!MutexInit
    BY DEF Init, Mutex!MutexInit, HolderOf
  <1>2. IInv => MutualExclusion
    BY DEF IInv, TableInv, LocalsSet, LockInTable, OwnerInside, MutualExclusion
  <1>3. ASSUME IInv, IInv', [Next]_vars
        PROVE  Mutex!MutexNext \/ UNCHANGED h
    <2>1. MutualExclusion /\ MutualExclusion'
      BY <1>2, <1>3 DEF IInv, TableInv, LocalsSet, LockInTable, OwnerInside, MutualExclusion
    <2>2. /\ stage \in [Tasks -> {"idle", "waiting", "inside"}]
          /\ keyOf \in [Tasks -> Keys \union {NoKey}]
          /\ \A t \in Tasks : stage[t] # "idle" => keyOf[t] \in Keys
      BY <1>3 DEF IInv, TypeOK, TableInv, LocalsSet
    <2>3. ASSUME NEW t \in Tasks, NEW k \in Keys,
                 ~\E r \in Tasks : stage[r] = "inside" /\ keyOf[r] = k,
                 stage' = [stage EXCEPT ![t] = "inside"], keyOf'[t] = k, stage[t] # "inside",
                 \A r \in Tasks \ {t} : keyOf'[r] = keyOf[r]
          PROVE  Mutex!MutexNext
      <3>1. HolderOf(k) = NoTask BY <2>3, HolderNone
      <3>2. HolderOf(k)' = t BY <2>1, <2>2, <2>3 DEF HolderOf, MutualExclusion
      <3>3. ASSUME NEW m \in Keys \ {k} PROVE HolderOf(m)' = HolderOf(m)
        BY <2>1, <2>2, <2>3, HolderChange
      <3>4. h' = [h EXCEPT ![k] = t] BY <3>2, <3>3
      <3>5. Mutex!EnterSection(t, k) BY <3>1, <3>4 DEF Mutex!EnterSection
      <3> QED BY <3>5 DEF Mutex!MutexNext
    <2>4. ASSUME NEW t \in Tasks, Leave(t) PROVE Mutex!MutexNext
      <3> DEFINE k == keyOf[t]
      <3>1. k \in Keys /\ stage[t] = "inside" BY <2>2, <2>4 DEF Leave
      <3>2. HolderOf(keyOf[t]) = t BY <2>1, <3>1, HolderInside
      <3>3. PICK m \in Keys : m = keyOf[t] BY <3>1
      <3>4. ~\E r \in Tasks : stage'[r] = "inside" /\ keyOf'[r] = m
        BY <2>1, <2>2, <2>4, <3>1, <3>3 DEF Leave, Forget, MutualExclusion
      <3>5. HolderOf(m)' = NoTask BY <3>4 DEF HolderOf
      <3>6. ASSUME NEW q \in Keys \ {m} PROVE HolderOf(q)' = HolderOf(q)
        <4>1. \A r \in Tasks : (stage[r] = "inside" /\ keyOf[r] = q)
                                 <=> (stage'[r] = "inside" /\ keyOf'[r] = q)
          BY <2>2, <2>4, <3>3 DEF Leave, Forget
        <4> QED BY <2>1, <4>1, HolderChange
      <3>7. h' = [h EXCEPT ![m] = NoTask] BY <3>5, <3>6
      <3>8. Mutex!LeaveSection(t, m) BY <3>2, <3>3, <3>7 DEF Mutex!LeaveSection
      <3> QED BY <3>8 DEF Mutex!MutexNext
    <2>5. ASSUME \A r \in Tasks : \A k \in Keys :
                    (stage[r] = "inside" /\ keyOf[r] = k)
                       <=> (stage'[r] = "inside" /\ keyOf'[r] = k)
          PROVE  UNCHANGED h
      <3>1. ASSUME NEW k \in Keys PROVE HolderOf(k)' = HolderOf(k)
        BY <2>1, <2>5, HolderChange
      <3> QED BY <3>1
    <2>6. ASSUME NEW t \in Tasks, NEW k \in Keys, NEW l \in LockIds, EnterAtOnce(t, k, l)
          PROVE  Mutex!MutexNext
      <3>1. owner[l] = NoTask BY <2>6 DEF EnterAtOnce, Free
      <3>2. ~\E r \in Tasks : stage[r] = "inside" /\ keyOf[r] = k
        BY <1>3, <2>2, <2>6, <3>1, LocksAssumption
           DEF EnterAtOnce, MayGet, IInv, TableInv, LockInTable, OwnerInside
      <3> QED BY <2>2, <2>3, <2>6, <3>2 DEF EnterAtOnce
    <2>7. ASSUME NEW t \in Tasks, NEW k \in Keys, NEW l \in LockIds, Wait(t, k, l)
          PROVE  UNCHANGED h
      BY <2>2, <2>5, <2>7 DEF Wait
    <2>8. ASSUME NEW t \in Tasks, Acquire(t) PROVE Mutex!MutexNext
      <3>1. PICK k \in Keys : k = keyOf[t] BY <2>2, <2>8 DEF Acquire
      <3>2. ~\E r \in Tasks : stage[r] = "inside" /\ keyOf[r] = k
        BY <1>3, <2>2, <2>8, <3>1, LocksAssumption
           DEF Acquire, IInv, TableInv, LockInTable, OwnerInside
      <3> QED BY <2>2, <2>3, <2>8, <3>1, <3>2 DEF Acquire
    <2>9. ASSUME NEW t \in Tasks, Cancel(t) PROVE UNCHANGED h
      BY <2>2, <2>5, <2>9 DEF Cancel, Forget
    <2>10. CASE Restart
      <3>1. \A k \in Keys : HolderOf(k)' = NoTask BY <2>10 DEF Restart, HolderOf
      <3>2. Mutex!ResetSections BY <3>1 DEF Mutex!ResetSections
      <3> QED BY <3>2 DEF Mutex!MutexNext
    <2>11. CASE UNCHANGED vars BY <2>5, <2>11 DEF vars
    <2> QED BY <1>3, <2>4, <2>6, <2>7, <2>8, <2>9, <2>10, <2>11 DEF Next, Call
  <1> QED BY <1>1, <1>3, LocksInvariant, PTL DEF Spec, ImplementsMutex, Mutex!MutexSpec
-----------------------------------------------------------------------------
(* A task of a batch or a caller asks for the lock of a key.               *)
LEMMA EntersOrWaitsCalls ==
    ASSUME NEW t \in Tasks, NEW k \in Keys, EntersOrWaits(t, k)
    PROVE  Call(t)
  BY DEF EntersOrWaits, Call

LEMMA ItemKeys == ASSUME NEW t \in Items PROVE ItemKey(t) \in Keys
  BY BatchAssumption DEF BatchAssumption, Items, ItemKey

LEMMA BatchStepLocks ==
    ASSUME BatchNext
    PROVE  [Next]_vars
  <1>1. Tasks = Items \union Callers /\ CallerKeys \subseteq Keys
    BY BatchAssumption DEF BatchAssumption
  <1>2. ASSUME NEW b \in Batches, StartBatch(b) \/ Answer(b) \/ CancelBatch(b)
        PROVE  UNCHANGED vars
    BY <1>2 DEF StartBatch, Answer, CancelBatch
  <1>3. ASSUME NEW t \in Tasks, GetsLock(t) PROVE Next
    BY <1>3 DEF GetsLock, Next
  <1>4. ASSUME NEW t \in Items, ItemStarts(t) PROVE Next
    BY <1>1, <1>4, ItemKeys, EntersOrWaitsCalls DEF ItemStarts, Next
  <1>5. ASSUME NEW t \in Items, ItemEnds(t) PROVE Next
    BY <1>1, <1>5 DEF ItemEnds, Next
  <1>6. ASSUME NEW t \in Items, ItemCancelled(t) PROVE [Next]_vars
    BY <1>1, <1>6 DEF ItemCancelled, DropQueued, Next
  <1>7. ASSUME NEW c \in Callers, CallerStarts(c) PROVE Next
    BY <1>1, <1>7, EntersOrWaitsCalls DEF CallerStarts, Next
  <1>8. ASSUME NEW c \in Callers, CallerEnds(c) \/ CallerCancelled(c) PROVE Next
    BY <1>1, <1>8 DEF CallerEnds, CallerCancelled, Next
  <1>9. ASSUME NEW k \in Keys, MailboxExpires(k) PROVE UNCHANGED vars
    BY <1>9 DEF MailboxExpires
  <1>10. CASE SetUserEnabled BY <1>10 DEF SetUserEnabled
  <1>11. CASE ServerRestarts BY <1>11 DEF ServerRestarts, Next
  <1> QED BY <1>2, <1>3, <1>4, <1>5, <1>6, <1>7, <1>8, <1>9, <1>10, <1>11
          DEF BatchNext, Runs

(* Batches and single calls use the lock table only through its own steps. *)
THEOREM BatchUsesLocks == BatchSpec => Spec
  <1>1. BatchInit => Init BY DEF BatchInit
  <1>2. [BatchNext]_<<vars, batchVars>> => [Next]_vars BY BatchStepLocks
  <1> QED BY <1>1, <1>2, PTL DEF BatchSpec, Spec

(* The calls of batches and the others never share a section.              *)
THEOREM BatchExcludes == BatchSpec => []MutualExclusion
  BY BatchUsesLocks, LocksExclude, PTL

(* The table counts the items that wait or create, and only them.          *)
THEOREM BatchCounted == BatchSpec => []UsersCounted
  BY BatchUsesLocks, LocksCounted, PTL

(* The queues hold the waiting items and callers, each once.               *)
THEOREM BatchQueues == BatchSpec => []QueueMatchesWaiters
  BY BatchUsesLocks, LocksQueue, PTL

(* No item and no caller overtakes one that waits for the same key.        *)
THEOREM BatchFair == BatchSpec => NoBarging
  BY BatchUsesLocks, LocksFair, PTL

(* One mutex per key, through batches, cancellations and restarts.         *)
THEOREM BatchImplementsMutex == BatchSpec => ImplementsMutex
  BY BatchUsesLocks, LocksImplementMutex, PTL

-----------------------------------------------------------------------------
(* An item runs iff its task is in create_mailbox, and only while its      *)
(* batch is at work.                                                       *)
StagesOK ==
    /\ stage \in [Tasks -> {"idle", "waiting", "inside"}]
    /\ batch \in [Batches -> {"idle", "running", "cancelled", "answered"}]
    /\ item \in [Items -> {"none", "queued", "running", "done"}]
    /\ \A t \in Items : item[t] = "running" <=> stage[t] # "idle"
    /\ \A t \in Items : batch[BatchOf(t)] = "idle" <=> item[t] = "none"
    /\ \A t \in Items : item[t] \in {"queued", "running"} =>
          batch[BatchOf(t)] \in {"running", "cancelled"}

Running(b) == InStage(b, "running")

PermitsOK ==
    /\ permits \in [Batches -> Nat]
    /\ \A b \in Batches : permits[b] + Cardinality(Running(b)) <= SemaphoreValue
    /\ PermitsExact

(* The charges reserved by items of batch b.                               *)
ChargedItems(b) == {t \in Running(b) : t \in charged}

ChargesOK ==
    /\ charged \subseteq Tasks
    /\ \A t \in Items : t \in charged => item[t] = "running"
    /\ active \in BOOLEAN
    /\ late \in [Batches -> Nat]
    /\ \A b \in Batches : late[b] <= SemaphoreValue
    /\ ~active => \A b \in Batches : late[b] + Cardinality(ChargedItems(b)) <= SemaphoreValue

(* A mailbox answers one key, and a key has one mailbox at most.           *)
BoxesOK ==
    /\ boxes \in [Keys -> SUBSET Nat] /\ drawn \in Nat /\ lapsed \subseteq Keys
    /\ \A k \in Keys : \A b \in boxes[k] : b > 0 /\ b <= drawn
    /\ \A k \in Keys : \A b, c \in boxes[k] : b = c
    /\ \A k, j \in Keys : \A b \in boxes[k] : b \in boxes[j] => k = j

(* A result is the mailbox of its key as long as the key has one.          *)
ResultsOK ==
    /\ result \in [Items -> Nat]
    /\ \A t \in Items : result[t] <= drawn
    /\ \A t \in Made : ItemKey(t) \notin lapsed => result[t] \in boxes[ItemKey(t)]
    /\ \A t \in Made : \A k \in Keys : result[t] \in boxes[k] => k = ItemKey(t)
    /\ \A t, s \in Made : result[t] = result[s] => ItemKey(t) = ItemKey(s)

(* The task of an item works on the key of the item.                       *)
KeysOK == \A t \in Items : stage[t] # "idle" => keyOf[t] = ItemKey(t)

BatchInv == StagesOK /\ PermitsOK /\ ChargesOK /\ KeysOK /\ BoxesOK /\ ResultsOK /\ changes \in Nat

LEMMA SemaphoreType ==
    SemaphoreValue \in Nat \ {0} /\ SemaphoreValue <= MaxConcurrency /\ SemaphoreValue <= Count
  BY BatchAssumption DEF BatchAssumption, SemaphoreValue

(* The items of a batch are finitely many.                                 *)
LEMMA ItemsFinite ==
    ASSUME NEW b \in Batches
    PROVE  IsFiniteSet(ItemsOf(b))
  <1>1. Count \in Nat BY BatchAssumption DEF BatchAssumption
  <1>2. IsFiniteSet(1 .. Count) BY <1>1, FS_Interval
  <1> DEFINE f == [i \in 1 .. Count |-> <<b, i>>]
             S == {<<b, i>> : i \in 1 .. Count}
  <1>3. f \in Surjection(1 .. Count, S) BY DEF Surjection
  <1> HIDE DEF f
  <1>4. IsFiniteSet(S) BY <1>2, <1>3, FS_Surjection
  <1>5. ItemsOf(b) \subseteq S BY DEF ItemsOf, Items, BatchOf
  <1> QED BY <1>4, <1>5, FS_Subset

LEMMA PartFinite ==
    ASSUME NEW b \in Batches
    PROVE  /\ IsFiniteSet(Running(b)) /\ Cardinality(Running(b)) \in Nat
           /\ IsFiniteSet(ChargedItems(b)) /\ Cardinality(ChargedItems(b)) \in Nat
           /\ Cardinality(ChargedItems(b)) <= Cardinality(Running(b))
  <1>1. Running(b) \subseteq ItemsOf(b) BY DEF Running, InStage
  <1>2. IsFiniteSet(Running(b)) BY <1>1, ItemsFinite, FS_Subset
  <1>3. ChargedItems(b) \subseteq Running(b) BY DEF ChargedItems
  <1> QED BY <1>2, <1>3, FS_Subset, FS_CardinalityType

LEMMA PartFiniteNext ==
    ASSUME NEW b \in Batches
    PROVE  /\ IsFiniteSet(Running(b)') /\ Cardinality(Running(b)') \in Nat
           /\ IsFiniteSet(ChargedItems(b)') /\ Cardinality(ChargedItems(b)') \in Nat
           /\ Cardinality(ChargedItems(b)') <= Cardinality(Running(b)')
  <1>1. Running(b)' \subseteq ItemsOf(b) BY DEF Running, InStage, ItemsOf
  <1>2. IsFiniteSet(Running(b)') BY <1>1, ItemsFinite, FS_Subset
  <1>3. ChargedItems(b)' \subseteq Running(b)' BY DEF ChargedItems
  <1> QED BY <1>2, <1>3, FS_Subset, FS_CardinalityType

-----------------------------------------------------------------------------
(* What a step does to the stages.                                         *)
Starts(t) ==
    /\ batch[BatchOf(t)] = "running" /\ item[t] = "queued"
    /\ item' = [item EXCEPT ![t] = "running"]
    /\ \E s \in {"waiting", "inside"} : stage' = [stage EXCEPT ![t] = s]
    /\ permits[BatchOf(t)] > 0
    /\ permits' = [permits EXCEPT ![BatchOf(t)] = @ - 1]
    /\ UNCHANGED batch

Stops(t) ==
    /\ stage[t] # "idle" /\ stage' = [stage EXCEPT ![t] = "idle"]
    /\ batch[BatchOf(t)] \in {"running", "cancelled"}
    /\ item' = [item EXCEPT ![t] = "done"]
    /\ permits' = [permits EXCEPT ![BatchOf(t)] = @ + 1]
    /\ t \notin charged'
    /\ UNCHANGED batch

Drops(t) ==
    /\ item[t] = "queued" /\ item' = [item EXCEPT ![t] = "done"]
    /\ UNCHANGED <<stage, batch, permits>>

(* Items and permits stay, and no task of an item begins or ends.          *)
ItemsStay ==
    /\ UNCHANGED <<item, permits>>
    /\ stage' \in [Tasks -> {"idle", "waiting", "inside"}]
    /\ \A t \in Items : stage'[t] = "idle" <=> stage[t] = "idle"
    /\ \/ UNCHANGED batch
       \/ \E b \in Batches : CancelBatch(b) \/ Answer(b)

StagePart ==
    \/ ItemsStay
    \/ \E b \in Batches : StartBatch(b)
    \/ \E t \in Items : Starts(t) \/ Stops(t) \/ Drops(t)
    \/ ServerRestarts

LEMMA DoStagePart ==
    ASSUME StagesOK, BatchNext
    PROVE  StagePart
  <1>1. Tasks = Items \union Callers /\ Items \intersect Callers = {}
    BY BatchAssumption DEF BatchAssumption
  <1> USE DEF StagesOK
  <1>2. ASSUME NEW b \in Batches, StartBatch(b) \/ Answer(b) \/ CancelBatch(b)
        PROVE  StagePart
    BY <1>2 DEF StartBatch, Answer, CancelBatch, vars, StagePart, ItemsStay
  <1>3. ASSUME NEW t \in Tasks, GetsLock(t) PROVE StagePart
    BY <1>1, <1>3 DEF GetsLock, Acquire, StagePart, ItemsStay
  <1>4. ASSUME NEW t \in Items, ItemStarts(t) PROVE Starts(t)
    BY <1>4 DEF ItemStarts, EntersOrWaits, EnterAtOnce, Wait, Starts
  <1>5. ASSUME NEW t \in Items, ItemEnds(t) PROVE Stops(t)
    BY <1>5 DEF ItemEnds, Leave, Forget, Done, Stops
  <1>6. ASSUME NEW t \in Items, ItemCancelled(t) PROVE Stops(t) \/ Drops(t)
    BY <1>6 DEF ItemCancelled, Leave, Cancel, Forget, Done, DropQueued, vars, Stops, Drops
  <1>7. ASSUME NEW c \in Callers, CallerStarts(c) PROVE ItemsStay
    BY <1>1, <1>7 DEF CallerStarts, EntersOrWaits, EnterAtOnce, Wait, ItemsStay
  <1>8. ASSUME NEW c \in Callers, CallerEnds(c) \/ CallerCancelled(c) PROVE ItemsStay
    BY <1>1, <1>8 DEF CallerEnds, CallerCancelled, Leave, Cancel, Forget, ItemsStay
  <1>9. ASSUME NEW k \in Keys, MailboxExpires(k) PROVE ItemsStay
    BY <1>9 DEF MailboxExpires, vars, ItemsStay
  <1>10. CASE SetUserEnabled BY <1>10 DEF SetUserEnabled, vars, StagePart, ItemsStay
  <1>11. CASE ServerRestarts BY <1>11 DEF StagePart
  <1> QED BY <1>1, <1>2, <1>3, <1>4, <1>5, <1>6, <1>7, <1>8, <1>9, <1>10, <1>11
          DEF BatchNext, Runs, StagePart

LEMMA StagesKept ==
    ASSUME StagesOK, StagePart
    PROVE  StagesOK'
  <1> USE DEF StagesOK
  <1>0. \A t \in Items : BatchOf(t) \in Batches /\ t \in Tasks
    BY BatchAssumption DEF BatchAssumption, Items, BatchOf
  <1>1. CASE ItemsStay
    <2>1. CASE UNCHANGED batch BY <1>0, <1>1, <2>1 DEF ItemsStay, BatchOf
    <2>2. ASSUME NEW b \in Batches, CancelBatch(b) PROVE StagesOK'
      BY <1>0, <1>1, <2>2 DEF ItemsStay, CancelBatch, BatchOf
    <2>3. ASSUME NEW b \in Batches, Answer(b) PROVE StagesOK'
      <3>1. \A t \in Items : BatchOf(t) = b => item[t] = "done"
        BY <2>3 DEF Answer, InStage, ItemsOf
      <3> QED BY <1>0, <1>1, <2>3, <3>1 DEF ItemsStay, Answer, BatchOf
    <2> QED BY <1>1, <2>1, <2>2, <2>3 DEF ItemsStay
  <1>2. ASSUME NEW b \in Batches, StartBatch(b) PROVE StagesOK'
    BY <1>0, <1>2 DEF StartBatch, vars, BatchOf
  <1>3. ASSUME NEW t \in Items, Starts(t) PROVE StagesOK'
    BY <1>0, <1>3 DEF Starts, BatchOf
  <1>4. ASSUME NEW t \in Items, Stops(t) PROVE StagesOK'
    BY <1>0, <1>4 DEF Stops, BatchOf
  <1>5. ASSUME NEW t \in Items, Drops(t) PROVE StagesOK'
    BY <1>0, <1>5 DEF Drops, BatchOf
  <1>6. CASE ServerRestarts
    BY <1>0, <1>6 DEF ServerRestarts, Restart, BatchOf
  <1> QED BY <1>1, <1>2, <1>3, <1>4, <1>5, <1>6 DEF StagePart

-----------------------------------------------------------------------------
(* An item more or less.                                                   *)
LEMMA OneRuns ==
    ASSUME StagesOK, NEW t \in Items, item[t] # "running",
           item' = [item EXCEPT ![t] = "running"]
    PROVE  /\ Cardinality(Running(BatchOf(t))') = Cardinality(Running(BatchOf(t))) + 1
           /\ \A b \in Batches : b # BatchOf(t) => Running(b)' = Running(b)
  <1> DEFINE b == BatchOf(t)
  <1>1. b \in Batches BY DEF Items, BatchOf
  <1>2. Running(b)' = Running(b) \union {t}
    BY DEF StagesOK, Running, InStage, ItemsOf, BatchOf
  <1>3. t \notin Running(b) BY DEF Running, InStage
  <1>4. \A c \in Batches : c # b => Running(c)' = Running(c)
    BY DEF StagesOK, Running, InStage, ItemsOf, BatchOf
  <1> QED BY <1>1, <1>2, <1>3, <1>4, PartFinite, FS_AddElement

LEMMA OneStops ==
    ASSUME StagesOK, NEW t \in Items, item[t] = "running",
           item' = [item EXCEPT ![t] = "done"]
    PROVE  /\ Cardinality(Running(BatchOf(t))') = Cardinality(Running(BatchOf(t))) - 1
           /\ Running(BatchOf(t))' = Running(BatchOf(t)) \ {t}
           /\ \A b \in Batches : b # BatchOf(t) => Running(b)' = Running(b)
  <1> DEFINE b == BatchOf(t)
  <1>1. b \in Batches BY DEF Items, BatchOf
  <1>2. Running(b)' = Running(b) \ {t}
    BY DEF StagesOK, Running, InStage, ItemsOf, BatchOf
  <1>3. t \in Running(b) BY DEF Running, InStage, ItemsOf
  <1>4. \A c \in Batches : c # b => Running(c)' = Running(c)
    BY DEF StagesOK, Running, InStage, ItemsOf, BatchOf
  <1> QED BY <1>1, <1>2, <1>3, <1>4, PartFinite, FS_RemoveElement

LEMMA NoneStarts ==
    ASSUME StagesOK, \A t \in Items : item'[t] = "running" => item[t] = "running",
           \A t \in Items : item[t] = "running" => item'[t] = "running"
    PROVE  \A b \in Batches : Running(b)' = Running(b)
  BY DEF Running, InStage, ItemsOf, BatchOf

LEMMA PermitsKept ==
    ASSUME StagesOK, PermitsOK, StagePart
    PROVE  PermitsOK'
  <1> USE DEF PermitsOK
  <1>0. \A b \in Batches : Cardinality(Running(b)) \in Nat BY PartFinite
  <1>1. SemaphoreValue \in Nat BY SemaphoreType
  <1>2. \A t \in Items : BatchOf(t) \in Batches BY DEF Items, BatchOf
  <1>3. CASE ItemsStay
    <2>1. \A b \in Batches : Running(b)' = Running(b)
      BY <1>3, NoneStarts DEF ItemsStay
    <2>2. \A b \in Batches : batch'[b] \in {"running", "cancelled"} =>
              batch[b] \in {"running", "cancelled"}
      BY <1>3 DEF ItemsStay, CancelBatch, Answer, StagesOK
    <2> QED BY <1>3, <2>1, <2>2 DEF ItemsStay, PermitsExact, Running
  <1>4. ASSUME NEW b \in Batches, StartBatch(b) PROVE PermitsOK'
    <2>1. \A c \in Batches : Running(c)' = Running(c) /\ Running(b) = {}
      BY <1>4 DEF StartBatch, StagesOK, Running, InStage, ItemsOf, BatchOf
    <2>2. Cardinality({}) = 0 BY FS_EmptySet
    <2>3. permits' = [permits EXCEPT ![b] = SemaphoreValue]
          /\ batch' = [batch EXCEPT ![b] = "running"]
      BY <1>4 DEF StartBatch
    <2>4. ASSUME NEW c \in Batches
          PROVE  /\ permits'[c] = IF c = b THEN SemaphoreValue ELSE permits[c]
                 /\ c # b => batch'[c] = batch[c]
      BY <2>3 DEF StagesOK
    <2>5. Cardinality(Running(b)') = 0
      <3>1. Running(b)' = {} BY <2>1
      <3> QED BY <2>2, <3>1
    <2>6. ASSUME NEW c \in Batches
          PROVE  /\ permits'[c] + Cardinality(Running(c)') <= SemaphoreValue
                 /\ batch'[c] \in {"running", "cancelled"} =>
                       permits'[c] + Cardinality(Running(c)') = SemaphoreValue
      <3>1. CASE c = b BY <1>1, <2>4, <2>5, <3>1
      <3>2. CASE c # b
        <4>1. Cardinality(Running(c)') = Cardinality(Running(c)) BY <2>1
        <4> QED BY <2>4, <3>2, <4>1 DEF PermitsExact, Running
      <3> QED BY <3>1, <3>2
    <2>7. permits' \in [Batches -> Nat] BY <1>1, <2>3
    <2> QED BY <2>6, <2>7 DEF PermitsExact, Running
  <1>5. ASSUME NEW t \in Items, Starts(t) PROVE PermitsOK'
    <2>1. /\ Cardinality(Running(BatchOf(t))') = Cardinality(Running(BatchOf(t))) + 1
          /\ \A b \in Batches : b # BatchOf(t) => Running(b)' = Running(b)
      BY <1>5, OneRuns DEF Starts
    <2>2. /\ permits' = [permits EXCEPT ![BatchOf(t)] = @ - 1] /\ UNCHANGED batch
          /\ permits[BatchOf(t)] > 0
      BY <1>5 DEF Starts
    <2> QED BY <1>0, <1>1, <1>2, <2>1, <2>2 DEF PermitsExact, Running
  <1>6. ASSUME NEW t \in Items, Stops(t) PROVE PermitsOK'
    <2>1. item[t] = "running" BY <1>6 DEF Stops, StagesOK
    <2>2. /\ Cardinality(Running(BatchOf(t))') = Cardinality(Running(BatchOf(t))) - 1
          /\ \A b \in Batches : b # BatchOf(t) => Running(b)' = Running(b)
      BY <1>6, <2>1, OneStops DEF Stops
    <2>3. /\ permits' = [permits EXCEPT ![BatchOf(t)] = @ + 1] /\ UNCHANGED batch
      BY <1>6 DEF Stops
    <2> QED BY <1>0, <1>1, <1>2, <2>2, <2>3 DEF PermitsExact, Running
  <1>7. ASSUME NEW t \in Items, Drops(t) PROVE PermitsOK'
    <2>1. \A b \in Batches : Running(b)' = Running(b)
      BY <1>7, NoneStarts DEF Drops, StagesOK
    <2> QED BY <1>7, <2>1 DEF Drops, PermitsExact, Running
  <1>8. CASE ServerRestarts
    <2>1. \A b \in Batches : Running(b)' = {} /\ permits'[b] = 0
          /\ batch'[b] \notin {"running", "cancelled"}
      BY <1>8 DEF ServerRestarts, Running, InStage, ItemsOf, BatchOf
    <2>2. Cardinality({}) = 0 BY FS_EmptySet
    <2> QED BY <1>1, <1>8, <2>1, <2>2 DEF ServerRestarts, PermitsExact, Running
  <1> QED BY <1>3, <1>4, <1>5, <1>6, <1>7, <1>8 DEF StagePart

-----------------------------------------------------------------------------
(* What a step does to the charges: it reserves one for an active user,    *)
(* drops some, or spends one for a mailbox of a disabled user.             *)
ChargesTyped ==
    /\ charged' \subseteq Tasks
    /\ \A t \in Items : t \in charged' => item'[t] = "running"

NoMoreCharges ==
    /\ ChargesTyped /\ UNCHANGED <<active, late>>
    /\ \A b \in Batches : ChargedItems(b)' \subseteq ChargedItems(b)

MayReserve == ChargesTyped /\ active /\ UNCHANGED <<active, late>>

Spends(t) ==
    /\ ChargesTyped /\ ~active /\ UNCHANGED active
    /\ t \in ChargedItems(BatchOf(t))
    /\ \A b \in Batches : ChargedItems(b)' \subseteq ChargedItems(b) \ {t}
    /\ late' = [late EXCEPT ![BatchOf(t)] = @ + 1]

ChargePart ==
    \/ NoMoreCharges \/ MayReserve
    \/ \E t \in Items : Spends(t)
    \/ SetUserEnabled

LEMMA ChargesSame ==
    ASSUME ChargesOK, UNCHANGED <<active, late>>, charged' \subseteq Tasks,
           \A t \in Items : t \in charged' => t \in charged,
           \A t \in Items : t \in charged' => item'[t] = "running"
    PROVE  ChargePart
  BY DEF ChargesOK, ChargePart, NoMoreCharges, ChargesTyped, ChargedItems, Running, InStage,
         ItemsOf, BatchOf

LEMMA ReservesPart ==
    ASSUME StagesOK, ChargesOK, NEW t \in Tasks, NEW k, Reserves(t, k) \/ UNCHANGED charged,
           UNCHANGED <<active, late>>,
           t \in Items => item'[t] = "running",
           \A s \in Items : item[s] = "running" => item'[s] = "running"
    PROVE  ChargePart
  <1>1. CASE UNCHANGED charged BY <1>1, ChargesSame DEF ChargesOK
  <1>2. CASE active /\ charged' = charged \union {t}
    BY <1>2 DEF ChargePart, MayReserve, ChargesTyped, ChargesOK
  <1> QED BY <1>1, <1>2 DEF Reserves

LEMMA DoChargePart ==
    ASSUME StagesOK, ChargesOK, BatchNext
    PROVE  ChargePart
  <1>1. Tasks = Items \union Callers /\ Items \intersect Callers = {}
    BY BatchAssumption DEF BatchAssumption
  <1>2. ASSUME NEW b \in Batches, StartBatch(b) PROVE ChargePart
    <2>1. \A t \in Items : item[t] = "running" => item'[t] = "running"
      BY <1>2 DEF StartBatch, StagesOK
    <2>2. UNCHANGED <<charged, active, late>> BY <1>2 DEF StartBatch
    <2> QED BY <2>1, <2>2, ChargesSame DEF ChargesOK
  <1>3. ASSUME NEW b \in Batches, Answer(b) \/ CancelBatch(b) PROVE ChargePart
    BY <1>3, ChargesSame DEF Answer, CancelBatch, ChargesOK
  <1>4. ASSUME NEW t \in Tasks, GetsLock(t) PROVE ChargePart
    <2>1. Reserves(t, keyOf[t]) /\ UNCHANGED <<item, active, late>> /\ stage[t] # "idle"
      BY <1>4 DEF GetsLock, Acquire
    <2> QED BY <2>1, ReservesPart DEF StagesOK
  <1>5. ASSUME NEW t \in Items, ItemStarts(t) PROVE ChargePart
    <2>1. /\ Reserves(t, ItemKey(t)) \/ UNCHANGED charged
          /\ item' = [item EXCEPT ![t] = "running"] /\ UNCHANGED <<active, late>>
      BY <1>5 DEF ItemStarts, EntersOrWaits
    <2> QED BY <1>1, <2>1, ReservesPart DEF StagesOK
  <1>6. ASSUME NEW t \in Items, ItemEnds(t) PROVE ChargePart
    <2>1. /\ item[t] = "running" /\ item' = [item EXCEPT ![t] = "done"]
          /\ charged' = charged \ {t} /\ UNCHANGED active
      BY <1>6 DEF ItemEnds, Leave, Done, StagesOK
    <2>2. CASE UNCHANGED late BY <2>1, <2>2, ChargesSame DEF ChargesOK, StagesOK
    <2>3. CASE t \in charged /\ ~active /\ late' = [late EXCEPT ![BatchOf(t)] = @ + 1]
      <3>1. t \in ChargedItems(BatchOf(t))
        BY <2>1, <2>3 DEF ChargedItems, Running, InStage, ItemsOf
      <3>2. ChargesTyped BY <2>1 DEF ChargesTyped, ChargesOK, StagesOK
      <3>3. ASSUME NEW b \in Batches PROVE ChargedItems(b)' \subseteq ChargedItems(b) \ {t}
        BY <2>1 DEF ChargesOK, ChargedItems, Running, InStage, ItemsOf, BatchOf
      <3> QED BY <2>1, <2>3, <3>1, <3>2, <3>3 DEF ChargePart, Spends
    <2> QED BY <1>6, <2>2, <2>3 DEF ItemEnds, Ends
  <1>7. ASSUME NEW t \in Items, ItemCancelled(t) PROVE ChargePart
    <2>1. /\ item' = [item EXCEPT ![t] = "done"]
          /\ charged' = charged \ {t} /\ UNCHANGED <<active, late>>
      BY <1>7 DEF ItemCancelled, DropQueued, Done
    <2> QED BY <2>1, ChargesSame DEF ChargesOK, StagesOK
  <1>8. ASSUME NEW c \in Callers, CallerStarts(c) PROVE ChargePart
    <2>1. PICK k \in CallerKeys : Reserves(c, k) \/ UNCHANGED charged
      BY <1>8 DEF CallerStarts, EntersOrWaits
    <2>2. UNCHANGED <<item, active, late>> BY <1>8 DEF CallerStarts
    <2> QED BY <1>1, <2>1, <2>2, ReservesPart
  <1>9. ASSUME NEW c \in Callers, CallerEnds(c) PROVE ChargePart
    <2>1. UNCHANGED <<item, active, late>> /\ charged' = charged \ {c}
      BY <1>1, <1>9 DEF CallerEnds, Ends
    <2> QED BY <2>1, ChargesSame DEF ChargesOK
  <1>10. ASSUME NEW c \in Callers, CallerCancelled(c) PROVE ChargePart
    BY <1>10, ChargesSame DEF CallerCancelled, ChargesOK
  <1>11. ASSUME NEW k \in Keys, MailboxExpires(k) PROVE ChargePart
    BY <1>11, ChargesSame DEF MailboxExpires, ChargesOK
  <1>12. CASE SetUserEnabled BY <1>12 DEF ChargePart
  <1>13. CASE ServerRestarts BY <1>13, ChargesSame DEF ServerRestarts
  <1> QED BY <1>1, <1>2, <1>3, <1>4, <1>5, <1>6, <1>7, <1>8, <1>9, <1>10, <1>11, <1>12, <1>13
          DEF BatchNext, Runs

LEMMA ChargesKept ==
    ASSUME PermitsOK, ChargesOK, ChargePart
    PROVE  ChargesOK'
  <1>0. SemaphoreValue \in Nat BY SemaphoreType
  <1>1. CASE NoMoreCharges
    <2>1. ASSUME NEW b \in Batches
          PROVE  Cardinality(ChargedItems(b)') <= Cardinality(ChargedItems(b))
      BY <1>1, PartFinite, FS_Subset DEF NoMoreCharges
    <2>2. ASSUME NEW b \in Batches, ~active'
          PROVE  late'[b] + Cardinality(ChargedItems(b)') <= SemaphoreValue
      BY <1>0, <1>1, <2>1, <2>2, PartFinite, PartFiniteNext DEF NoMoreCharges, ChargesOK
    <2> QED BY <1>1, <2>2 DEF NoMoreCharges, ChargesTyped, ChargesOK
  <1>2. CASE MayReserve BY <1>2 DEF MayReserve, ChargesTyped, ChargesOK
  <1>3. ASSUME NEW t \in Items, Spends(t) PROVE ChargesOK'
    <2> DEFINE c == BatchOf(t)
    <2>1. c \in Batches BY DEF Items, BatchOf
    <2>2. ASSUME NEW b \in Batches
          PROVE  Cardinality(ChargedItems(b)') <= Cardinality(ChargedItems(b))
      <3>1. ChargedItems(b)' \subseteq ChargedItems(b) BY <1>3 DEF Spends
      <3> QED BY <3>1, PartFinite, FS_Subset
    <2>3. Cardinality(ChargedItems(c)') <= Cardinality(ChargedItems(c)) - 1
      <3>1. IsFiniteSet(ChargedItems(c)) BY <2>1, PartFinite
      <3>2. /\ IsFiniteSet(ChargedItems(c) \ {t})
            /\ Cardinality(ChargedItems(c) \ {t}) = Cardinality(ChargedItems(c)) - 1
        BY <1>3, <3>1, FS_RemoveElement DEF Spends
      <3>3. ChargedItems(c)' \subseteq ChargedItems(c) \ {t} BY <1>3, <2>1 DEF Spends
      <3> QED BY <3>2, <3>3, FS_Subset
    <2>4. ~active /\ ~active' /\ late' = [late EXCEPT ![c] = @ + 1] /\ ChargesTyped
      BY <1>3 DEF Spends
    <2> HIDE DEF c
    <2>5. ASSUME NEW b \in Batches
          PROVE  late'[b] + Cardinality(ChargedItems(b)') <= SemaphoreValue /\ late'[b] \in Nat
      BY <1>0, <2>1, <2>2, <2>3, <2>4, PartFinite, PartFiniteNext DEF ChargesOK
    <2>6. ASSUME NEW b \in Batches PROVE late'[b] <= SemaphoreValue
      BY <1>0, <2>5, PartFiniteNext
    <2>7. late' \in [Batches -> Nat] BY <2>4, <2>5 DEF ChargesOK
    <2>8. active' \in BOOLEAN BY <1>3 DEF Spends, ChargesOK
    <2> QED BY <2>4, <2>5, <2>6, <2>7, <2>8 DEF ChargesTyped, ChargesOK
  <1>4. CASE SetUserEnabled
    <2>1. \A b \in Batches : ChargedItems(b)' = ChargedItems(b)
      BY <1>4 DEF SetUserEnabled, ChargedItems, Running, InStage, ItemsOf, BatchOf
    <2>2. \A b \in Batches : Cardinality(ChargedItems(b)) <= SemaphoreValue
      BY <1>0, PartFinite DEF PermitsOK
    <2>3. late' = [b \in Batches |-> 0] /\ active' = ~active /\ UNCHANGED <<charged, item>>
      BY <1>4 DEF SetUserEnabled
    <2>4. \A b \in Batches : late'[b] + Cardinality(ChargedItems(b)') <= SemaphoreValue
      BY <2>1, <2>2, <2>3, PartFinite
    <2> QED BY <1>0, <2>3, <2>4 DEF ChargesOK
  <1> QED BY <1>1, <1>2, <1>3, <1>4 DEF ChargePart

-----------------------------------------------------------------------------
LEMMA KeysKept ==
    ASSUME IInv, StagesOK, KeysOK, BatchNext
    PROVE  KeysOK'
  <1>1. Tasks = Items \union Callers /\ Items \intersect Callers = {}
    BY BatchAssumption DEF BatchAssumption
  <1>2. stage \in [Tasks -> {"idle", "waiting", "inside"}] /\ keyOf \in [Tasks -> Keys \union {NoKey}]
    BY DEF IInv, TypeOK
  <1> USE DEF KeysOK, ItemKey
  <1>3. ASSUME NEW t \in Tasks, NEW k \in Keys, EntersOrWaits(t, k),
               t \in Items => k = ItemKey(t)
        PROVE  KeysOK'
    BY <1>1, <1>2, <1>3 DEF EntersOrWaits, EnterAtOnce, Wait
  <1>4. ASSUME NEW t \in Tasks, Leave(t) \/ Cancel(t) PROVE KeysOK'
    BY <1>1, <1>2, <1>4 DEF Leave, Cancel, Forget
  <1>5. ASSUME NEW t \in Tasks, Acquire(t) PROVE KeysOK'
    BY <1>1, <1>2, <1>5 DEF Acquire
  <1>6. ASSUME UNCHANGED vars PROVE KeysOK' BY <1>6 DEF vars
  <1>7. ASSUME NEW t \in Items, ItemStarts(t) PROVE KeysOK'
    BY <1>1, <1>3, <1>7, ItemKeys DEF ItemStarts
  <1>8. ASSUME NEW c \in Callers, CallerStarts(c) PROVE KeysOK'
    BY <1>1, <1>3, <1>8, BatchAssumption DEF CallerStarts, BatchAssumption
  <1>9. ASSUME NEW t \in Items, ItemEnds(t) \/ ItemCancelled(t) PROVE KeysOK'
    BY <1>1, <1>4, <1>6, <1>9 DEF ItemEnds, ItemCancelled, DropQueued
  <1>10. ASSUME NEW c \in Callers, CallerEnds(c) \/ CallerCancelled(c) PROVE KeysOK'
    BY <1>1, <1>4, <1>10 DEF CallerEnds, CallerCancelled
  <1>11. ASSUME NEW t \in Tasks, GetsLock(t) PROVE KeysOK' BY <1>5, <1>11 DEF GetsLock
  <1>12. ASSUME NEW b \in Batches, StartBatch(b) \/ Answer(b) \/ CancelBatch(b) PROVE KeysOK'
    BY <1>6, <1>12 DEF StartBatch, Answer, CancelBatch
  <1>13. ASSUME NEW k \in Keys, MailboxExpires(k) PROVE KeysOK' BY <1>6, <1>13 DEF MailboxExpires
  <1>14. CASE SetUserEnabled BY <1>6, <1>14 DEF SetUserEnabled
  <1>15. CASE ServerRestarts BY <1>1, <1>15 DEF ServerRestarts, Restart
  <1> QED BY <1>1, <1>7, <1>8, <1>9, <1>10, <1>11, <1>12, <1>13, <1>14, <1>15 DEF BatchNext, Runs

-----------------------------------------------------------------------------
(* What a step does to the mailboxes.                                      *)
boxVars == <<result, boxes, drawn, lapsed>>

ItemGets(t, b) == result' = [result EXCEPT ![t] = b]

Finds(t) ==
    /\ \E b \in boxes[ItemKey(t)] : ItemGets(t, b)
    /\ UNCHANGED <<boxes, drawn, lapsed>>

Makes(k) ==
    /\ boxes[k] = {}
    /\ boxes' = [boxes EXCEPT ![k] = {drawn + 1}]
    /\ drawn' = drawn + 1
    /\ UNCHANGED lapsed
    /\ \/ UNCHANGED result
       \/ \E t \in Items : k = ItemKey(t) /\ ItemGets(t, drawn + 1)

Lapses(k) ==
    /\ boxes' = [boxes EXCEPT ![k] = {}]
    /\ lapsed' = lapsed \union {k}
    /\ UNCHANGED <<result, drawn>>

BoxPart ==
    \/ UNCHANGED boxVars
    \/ \E t \in Items : Finds(t)
    \/ \E k \in Keys : Makes(k) \/ Lapses(k)

LEMMA EndsPart ==
    ASSUME NEW t \in Tasks, NEW k \in Keys, Ends(t, k), t \in Items => k = ItemKey(t),
           UNCHANGED lapsed
    PROVE  BoxPart
  <1>1. CASE UNCHANGED <<result, boxes, drawn>> BY <1>1 DEF BoxPart, boxVars
  <1>2. ASSUME NEW b \in boxes[k], Got(t, b), UNCHANGED <<boxes, drawn>> PROVE BoxPart
    BY <1>2 DEF Got, BoxPart, boxVars, Finds, ItemGets
  <1>3. CASE Creation!CreateFor(k, drawn + 1) /\ drawn' = drawn + 1 /\ Got(t, drawn + 1)
    <2>1. Makes(k) BY <1>3 DEF Creation!CreateFor, Got, Makes, ItemGets
    <2> QED BY <2>1 DEF BoxPart
  <1> QED BY <1>1, <1>2, <1>3 DEF Ends

LEMMA DoBoxPart ==
    ASSUME IInv, KeysOK, BatchNext
    PROVE  BoxPart
  <1>1. Tasks = Items \union Callers /\ Items \intersect Callers = {}
    BY BatchAssumption DEF BatchAssumption
  <1>2. \A t \in Tasks : stage[t] # "idle" => keyOf[t] \in Keys
    BY DEF IInv, TableInv, LocalsSet
  <1>3. ASSUME NEW b \in Batches, StartBatch(b) \/ Answer(b) \/ CancelBatch(b) PROVE BoxPart
    BY <1>3 DEF StartBatch, Answer, CancelBatch, BoxPart, boxVars
  <1>4. ASSUME NEW t \in Tasks, GetsLock(t) PROVE BoxPart
    BY <1>4 DEF GetsLock, BoxPart, boxVars
  <1>5. ASSUME NEW t \in Items, ItemStarts(t) \/ ItemCancelled(t) PROVE BoxPart
    BY <1>5 DEF ItemStarts, ItemCancelled, BoxPart, boxVars
  <1>6. ASSUME NEW t \in Items, ItemEnds(t) PROVE BoxPart
    <2>1. stage[t] = "inside" /\ Ends(t, keyOf[t]) /\ UNCHANGED lapsed
      BY <1>6 DEF ItemEnds, Leave
    <2> QED BY <1>1, <1>2, <2>1, EndsPart DEF KeysOK
  <1>7. ASSUME NEW c \in Callers, CallerStarts(c) \/ CallerCancelled(c) PROVE BoxPart
    BY <1>7 DEF CallerStarts, CallerCancelled, BoxPart, boxVars
  <1>8. ASSUME NEW c \in Callers, CallerEnds(c) PROVE BoxPart
    <2>1. stage[c] = "inside" /\ Ends(c, keyOf[c]) /\ UNCHANGED lapsed
      BY <1>8 DEF CallerEnds, Leave
    <2> QED BY <1>1, <1>2, <2>1, EndsPart
  <1>9. ASSUME NEW k \in Keys, MailboxExpires(k) PROVE BoxPart
    BY <1>9 DEF MailboxExpires, Creation!Lapse, BoxPart, Lapses
  <1>10. CASE SetUserEnabled BY <1>10 DEF SetUserEnabled, BoxPart, boxVars
  <1>11. CASE ServerRestarts BY <1>11 DEF ServerRestarts, BoxPart, boxVars
  <1> QED BY <1>1, <1>3, <1>4, <1>5, <1>6, <1>7, <1>8, <1>9, <1>10, <1>11 DEF BatchNext, Runs

LEMMA BoxesKept ==
    ASSUME BoxesOK, BoxPart
    PROVE  BoxesOK'
  <1> USE DEF BoxesOK
  <1>1. CASE UNCHANGED boxVars BY <1>1 DEF boxVars
  <1>2. ASSUME NEW t \in Items, Finds(t) PROVE BoxesOK' BY <1>2 DEF Finds
  <1>3. ASSUME NEW k \in Keys, Makes(k) PROVE BoxesOK' BY <1>3 DEF Makes
  <1>4. ASSUME NEW k \in Keys, Lapses(k) PROVE BoxesOK' BY <1>4 DEF Lapses
  <1> QED BY <1>1, <1>2, <1>3, <1>4 DEF BoxPart

LEMMA ResultsKept ==
    ASSUME BoxesOK, ResultsOK, BoxPart
    PROVE  ResultsOK'
  <1> USE DEF ResultsOK, Made, Failed
  <1>0. \A t \in Items : ItemKey(t) \in Keys BY ItemKeys
  <1>1. CASE UNCHANGED boxVars BY <1>1 DEF boxVars
  <1>2. ASSUME NEW t \in Items, Finds(t) PROVE ResultsOK'
    <2>1. PICK b \in boxes[ItemKey(t)] : ItemGets(t, b) BY <1>2 DEF Finds
    <2>2. b \in Nat /\ b > 0 /\ b <= drawn BY <1>0 DEF BoxesOK
    <2> HIDE DEF ItemKey
    <2> QED BY <1>0, <1>2, <2>1, <2>2 DEF Finds, ItemGets, BoxesOK
  <1>3. ASSUME NEW k \in Keys, Makes(k) PROVE ResultsOK'
    BY <1>0, <1>3 DEF Makes, ItemGets, BoxesOK
  <1>4. ASSUME NEW k \in Keys, Lapses(k) PROVE ResultsOK'
    BY <1>0, <1>4 DEF Lapses, BoxesOK
  <1> QED BY <1>1, <1>2, <1>3, <1>4 DEF BoxPart

-----------------------------------------------------------------------------
THEOREM BatchInvariant == BatchSpec => []BatchInv
  <1>1. BatchInit => BatchInv
    <2> SUFFICES ASSUME BatchInit PROVE BatchInv OBVIOUS
    <2> USE DEF BatchInit, Init
    <2>1. StagesOK
      <3>1. \A t \in Items : BatchOf(t) \in Batches /\ t \in Tasks
        BY BatchAssumption DEF BatchAssumption, Items, BatchOf
      <3> QED BY <3>1 DEF StagesOK
    <2>2. \A b \in Batches : Running(b) = {} /\ ChargedItems(b) = {}
      BY DEF Running, ChargedItems, InStage, ItemsOf
    <2>3. Cardinality({}) = 0 BY FS_EmptySet
    <2>4. PermitsOK
      <3>1. \A b \in Batches : Cardinality(Running(b)) = 0 BY <2>2, <2>3
      <3>2. PermitsExact BY DEF PermitsExact
      <3> QED BY <3>1, <3>2, SemaphoreType DEF PermitsOK
    <2>5. ChargesOK BY <2>2, <2>3, SemaphoreType DEF ChargesOK
    <2>6. KeysOK BY BatchAssumption DEF KeysOK, BatchAssumption
    <2>7. BoxesOK /\ ResultsOK BY DEF BoxesOK, ResultsOK, Made, Failed, Creation!KeyedInit
    <2> QED BY <2>1, <2>4, <2>5, <2>6, <2>7 DEF BatchInv
  <1>2. IInv /\ BatchInv /\ [BatchNext]_<<vars, batchVars>> => BatchInv'
    <2> SUFFICES ASSUME IInv, BatchInv, [BatchNext]_<<vars, batchVars>> PROVE BatchInv'
      OBVIOUS
    <2>1. CASE BatchNext
      <3>1. changes' \in Nat
        <4>1. ASSUME NEW t \in Tasks, Runs(t) PROVE UNCHANGED changes
          BY <4>1 DEF Runs, GetsLock, ItemStarts, ItemEnds, ItemCancelled, CallerEnds
        <4>2. ASSUME NEW b \in Batches, StartBatch(b) \/ Answer(b) \/ CancelBatch(b)
              PROVE  changes' \in {changes, changes + 1}
          BY <4>2 DEF StartBatch, Answer, CancelBatch
        <4>3. ASSUME NEW c \in Callers, CallerStarts(c) \/ CallerCancelled(c)
              PROVE  changes' \in {changes, changes + 1}
          BY <4>3 DEF CallerStarts, CallerCancelled
        <4>4. ASSUME NEW k \in Keys, MailboxExpires(k) PROVE changes' = changes + 1
          BY <4>4 DEF MailboxExpires
        <4>5. ASSUME SetUserEnabled \/ ServerRestarts PROVE changes' = changes + 1
          BY <4>5 DEF SetUserEnabled, ServerRestarts
        <4>6. changes' \in {changes, changes + 1}
          BY <2>1, <4>1, <4>2, <4>3, <4>4, <4>5 DEF BatchNext
        <4> QED BY <4>6 DEF BatchInv
      <3>2. StagesOK' /\ PermitsOK'
        BY <2>1, DoStagePart, StagesKept, PermitsKept DEF BatchInv
      <3>3. ChargesOK' BY <2>1, DoChargePart, ChargesKept DEF BatchInv
      <3>4. KeysOK' BY <2>1, KeysKept DEF BatchInv
      <3>5. BoxesOK' /\ ResultsOK'
        BY <2>1, DoBoxPart, BoxesKept, ResultsKept DEF BatchInv
      <3> QED BY <3>1, <3>2, <3>3, <3>4, <3>5 DEF BatchInv
    <2>2. CASE UNCHANGED <<vars, batchVars>>
      BY <2>2 DEF vars, batchVars, BatchInv, StagesOK, PermitsOK, PermitsExact, ChargesOK, KeysOK,
         BoxesOK, ResultsOK, Made, Running, ChargedItems, InStage, ItemsOf
    <2> QED BY <2>1, <2>2
  <1> QED BY <1>1, <1>2, BatchUsesLocks, LocksInvariant, PTL DEF BatchSpec

(* The values the variables of a batch take.                               *)
THEOREM BatchTyped == BatchSpec => []BatchTypeOK
  <1>1. BatchInv => BatchTypeOK
    <2> SUFFICES ASSUME BatchInv PROVE BatchTypeOK OBVIOUS
    <2>1. \A b \in Batches : permits[b] \in 0 .. Count
      BY SemaphoreType, PartFinite, BatchAssumption DEF BatchInv, PermitsOK, BatchAssumption
    <2> QED BY <2>1 DEF BatchInv, BatchTypeOK, StagesOK, PermitsOK, ChargesOK, BoxesOK, ResultsOK
  <1> QED BY <1>1, BatchInvariant, PTL

(* Permits are neither lost nor made.                                      *)
THEOREM BatchPermits == BatchSpec => []PermitsExact
  <1>1. BatchInv => PermitsExact BY DEF BatchInv, PermitsOK
  <1> QED BY <1>1, BatchInvariant, PTL

(* A disabled user's batch makes at most max_concurrency mailboxes more.   *)
THEOREM BatchStops == BatchSpec => []BatchStopped
  <1>1. BatchInv => BatchStopped
    BY SemaphoreType, BatchAssumption DEF BatchInv, ChargesOK, BatchStopped, BatchAssumption
  <1> QED BY <1>1, BatchInvariant, PTL

(* A repeated batch answers each index with the mailbox of that index.     *)
THEOREM BatchRepeats == BatchSpec => []ItemsMatchKeys
  <1>1. BatchInv => ItemsMatchKeys
    <2> SUFFICES ASSUME BatchInv, NEW t \in Made, NEW s \in Made
                 PROVE  /\ result[t] = result[s] => ItemKey(t) = ItemKey(s)
                        /\ ItemKey(t) = ItemKey(s) /\ ItemKey(t) \notin lapsed
                              => result[t] = result[s]
      BY DEF ItemsMatchKeys, ItemKey
    <2>1. ItemKey(t) \in Keys BY ItemKeys DEF Made
    <2> QED BY <2>1 DEF BatchInv, BoxesOK, ResultsOK
  <1> QED BY <1>1, BatchInvariant, PTL

-----------------------------------------------------------------------------
(* Who can be waited for.  A lock that is taken is the lock of a task that *)
(* is inside its section: nobody who ended, failed or was cancelled keeps  *)
(* one.                                                                    *)
OwnersHere ==
    \A l \in LockIds : owner[l] # NoTask =>
        owner[l] \in Tasks /\ stage[owner[l]] = "inside" /\ lockOf[owner[l]] = l

(* The oldest waiter of a lock that is free.                               *)
NextInLine(t) ==
    stage[t] = "waiting" /\ owner[lockOf[t]] = NoTask /\ Head(waiters[lockOf[t]]) = t

(* A task that waits does so behind one of the same key that is creating   *)
(* or that the event loop has woken.                                       *)
WaitsForSomeone ==
    \A t \in Tasks : stage[t] = "waiting" =>
        \E s \in Tasks : (stage[s] = "inside" \/ NextInLine(s)) /\ keyOf[s] = keyOf[t]

LEMMA OwnersStep == ASSUME IInv, OwnersHere, [Next]_vars PROVE OwnersHere'
  <1> USE DEF IInv, TypeOK, OwnersHere
  <1>1. ASSUME NEW t \in Tasks, NEW k \in Keys, NEW l \in LockIds, EnterAtOnce(t, k, l)
        PROVE  OwnersHere'
    BY <1>1 DEF EnterAtOnce
  <1>2. ASSUME NEW t \in Tasks, NEW k \in Keys, NEW l \in LockIds, Wait(t, k, l)
        PROVE  OwnersHere'
    BY <1>2 DEF Wait
  <1>3. ASSUME NEW t \in Tasks, Acquire(t) PROVE OwnersHere'
    BY <1>3 DEF Acquire, TableInv, LocalsSet
  <1>4. ASSUME NEW t \in Tasks, Leave(t) PROVE OwnersHere'
    BY <1>4 DEF Leave, Forget, TableInv, LocalsSet
  <1>5. ASSUME NEW t \in Tasks, Cancel(t) PROVE OwnersHere'
    BY <1>5 DEF Cancel, Forget
  <1>6. CASE Restart BY <1>6 DEF Restart
  <1>7. CASE UNCHANGED vars BY <1>7 DEF vars
  <1> QED BY <1>1, <1>2, <1>3, <1>4, <1>5, <1>6, <1>7 DEF Next, Call

(* No task waits for a lock that nobody will ever give back, nor in a queue*)
(* whose first waiter is not there any more, however many of the tasks     *)
(* before it failed or were cancelled (create_mailbox, the finally clause).*)
THEOREM LocksWaitForSomeone == Spec => []WaitsForSomeone
  <1>1. Init => OwnersHere BY DEF Init, OwnersHere
  <1>2. IInv /\ OwnersHere /\ [Next]_vars => OwnersHere' BY OwnersStep
  <1>3. ASSUME IInv, OwnersHere, NEW t \in Tasks, stage[t] = "waiting"
        PROVE  \E s \in Tasks : (stage[s] = "inside" \/ NextInLine(s)) /\ keyOf[s] = keyOf[t]
    <2> DEFINE l == lockOf[t]
    <2> USE <1>3 DEF IInv
    <2>1. l \in LockIds /\ waiters[l] \in Seq(Tasks) /\ waiters[l] # <<>>
      BY DEF TypeOK, TableInv, LocalsSet, Queued
    <2>2. ASSUME NEW s \in Tasks, stage[s] # "idle", lockOf[s] = l PROVE keyOf[s] = keyOf[t]
      BY <2>2 DEF TableInv, LocalsSet, LockInTable, LocksDistinct
    <2>3. CASE owner[l] # NoTask BY <2>1, <2>2, <2>3 DEF OwnersHere
    <2>4. CASE owner[l] = NoTask
      <3> DEFINE s == Head(waiters[l])
      <3>1. s = waiters[l][1] /\ 1 \in DOMAIN waiters[l] /\ s \in Tasks BY <2>1
      <3>2. stage[s] = "waiting" /\ lockOf[s] = l BY <2>1, <3>1 DEF Queued
      <3> QED BY <2>2, <2>4, <3>1, <3>2 DEF NextInLine
    <2> QED BY <2>3, <2>4
  <1>4. IInv /\ OwnersHere => WaitsForSomeone BY <1>3 DEF WaitsForSomeone
  <1> QED BY <1>1, <1>2, <1>4, LocksInvariant, PTL DEF Spec

(* The item the semaphore serves next.                                     *)
FirstQueued(t) ==
    item[t] = "queued" /\ \A s \in InStage(BatchOf(t), "queued") : t[2] <= s[2]

(* A task the event loop has something to do for: Runs(t).                 *)
HasStep(t) ==
    \/ stage[t] = "inside"
    \/ NextInLine(t)
    \/ /\ t \in Items
       /\ \/ FirstQueued(t) /\ permits[BatchOf(t)] > 0
          \/ batch[BatchOf(t)] = "cancelled" /\ item[t] \in {"queued", "running"}

(* A batch that has been started and is not over has an item with a step,  *)
(* or one that waits for the key of a task with a step.                    *)
NoBatchStuck ==
    \A b \in Batches : batch[b] \in {"running", "cancelled"} =>
        \/ InStage(b, "done") = ItemsOf(b)
        \/ \E t \in ItemsOf(b), s \in Tasks :
              HasStep(s) /\ (s = t \/ (stage[t] = "waiting" /\ keyOf[s] = keyOf[t]))

LEMMA FirstExists ==
    ASSUME NEW b \in Batches, InStage(b, "queued") # {}
    PROVE  \E t \in InStage(b, "queued") : FirstQueued(t)
  <1> DEFINE R == {p \in Nat \X Nat : p[1] < p[2]}
             T == {t[2] : t \in InStage(b, "queued")}
  <1>1. IsWellFoundedOn(R, Nat) BY NatLessThanWellFounded DEF OpToRel
  <1>2. \A t \in InStage(b, "queued") : t \in Items /\ t[2] \in Nat /\ BatchOf(t) = b
    BY BatchAssumption DEF BatchAssumption, Items, InStage, ItemsOf, BatchOf
  <1>3. T \subseteq Nat /\ T # {} BY <1>2
  <1>4. PICK n \in T : \A m \in T : ~(<<m, n>> \in R)
    <2> HIDE DEF R, T
    <2> QED BY <1>1, <1>3, WFMin
  <1>5. PICK t \in InStage(b, "queued") : n = t[2] OBVIOUS
  <1>6. \A s \in InStage(b, "queued") : t[2] <= s[2]
    <2> SUFFICES ASSUME NEW s \in InStage(b, "queued") PROVE t[2] <= s[2] OBVIOUS
    <2>1. s[2] \in T OBVIOUS
    <2>2. ~(s[2] < n) BY <1>2, <1>3, <1>4, <2>1
    <2> QED BY <1>2, <1>5, <2>2
  <1> QED BY <1>2, <1>6 DEF FirstQueued, InStage

(* Batches, their semaphores and the locks of their keys never wait for    *)
(* each other in a circle, nor for a permit that is lost: what is left of  *)
(* BatchesAnswered is that the event loop runs what can run.               *)
THEOREM BatchNeverStuck == BatchSpec => []NoBatchStuck
  <1>1. ASSUME BatchInv, WaitsForSomeone, NEW b \in Batches, batch[b] \in {"running", "cancelled"},
               InStage(b, "done") # ItemsOf(b)
        PROVE  \E t \in ItemsOf(b), s \in Tasks :
                  HasStep(s) /\ (s = t \/ (stage[t] = "waiting" /\ keyOf[s] = keyOf[t]))
    <2> USE <1>1 DEF BatchInv
    <2>0. \A t \in ItemsOf(b) : t \in Items /\ t \in Tasks /\ BatchOf(t) = b
      BY BatchAssumption DEF BatchAssumption, ItemsOf
    <2>1. ASSUME NEW t \in ItemsOf(b), item[t] = "running"
          PROVE  \E s \in Tasks : HasStep(s) /\ (s = t \/ (stage[t] = "waiting" /\ keyOf[s] = keyOf[t]))
      <3>1. stage[t] \in {"waiting", "inside"} BY <2>0, <2>1 DEF StagesOK
      <3>2. CASE stage[t] = "inside" BY <2>0, <3>2 DEF HasStep
      <3>3. CASE stage[t] = "waiting" BY <2>0, <3>3 DEF WaitsForSomeone, HasStep
      <3> QED BY <3>1, <3>2, <3>3
    <2>2. PICK t \in ItemsOf(b) : item[t] # "done" BY DEF InStage
    <2>3. item[t] \in {"queued", "running"} BY <2>0, <2>2 DEF StagesOK
    <2>4. CASE item[t] = "running" BY <2>1, <2>4
    <2>5. CASE item[t] = "queued" /\ batch[b] = "cancelled" BY <2>0, <2>5 DEF HasStep
    <2>6. CASE item[t] = "queued" /\ batch[b] = "running"
      <3>1. permits[b] \in Nat /\ permits[b] + Cardinality(Running(b)) = SemaphoreValue
        BY <2>6 DEF PermitsOK, PermitsExact, Running
      <3>2. CASE permits[b] > 0
        <4>1. t \in InStage(b, "queued") BY <2>6 DEF InStage
        <4>2. PICK s \in InStage(b, "queued") : FirstQueued(s) BY <4>1, FirstExists
        <4>3. s \in ItemsOf(b) BY DEF InStage
        <4> QED BY <2>0, <3>2, <4>2, <4>3 DEF HasStep
      <3>3. CASE permits[b] = 0
        <4>1. Cardinality(Running(b)) # 0 BY <3>1, <3>3, SemaphoreType
        <4>2. PICK r \in Running(b) : TRUE BY <4>1, FS_EmptySet
        <4> QED BY <2>1, <4>2 DEF Running, InStage
      <3> QED BY <3>1, <3>2, <3>3
    <2> QED BY <1>1, <2>3, <2>4, <2>5, <2>6
  <1>2. BatchInv /\ WaitsForSomeone => NoBatchStuck BY <1>1 DEF NoBatchStuck
  <1> QED BY <1>2, BatchInvariant, BatchUsesLocks, LocksWaitForSomeone, PTL

==============================================================================
