----------------------- MODULE LifecycleLock_proofs -----------------------
(***************************************************************************)
(* The lock of service/locking.py for any number of threads: its counters  *)
(* agree with the threads inside and queued, readers and writers exclude   *)
(* each other, no wake-up is lost, and no query overtakes a writer.        *)
(***************************************************************************)
EXTENDS LifecycleLock, FiniteSetTheorems, TLAPS

(* The counters the code keeps are the sizes of the sets of threads they   *)
(* stand for.  Exclusion alone is not inductive: EnterRead and EnterWrite  *)
(* test counters, so the counters must be known to be right.               *)
CountersAgree ==
    /\ readers = Cardinality(Reading)
    /\ waitingWriters = Cardinality(Queued)
    /\ writer <=> Writing # {}

LockInv == TypeOK /\ CountersAgree /\ Exclusion

(* The three sets of threads are finite, so their sizes are naturals that  *)
(* are 0 only for the empty set.                                           *)
LEMMA ThreadSets ==
    /\ IsFiniteSet(Reading) /\ IsFiniteSet(Queued)
    /\ Cardinality(Reading) \in Nat /\ Cardinality(Queued) \in Nat
    /\ (Cardinality(Reading) = 0) <=> (Reading = {})
    /\ (Cardinality(Queued) = 0) <=> (Queued = {})
<1>1. Reading \subseteq Readers /\ Queued \subseteq Writers
  BY DEF Reading, Queued
<1>2. IsFiniteSet(Reading) /\ IsFiniteSet(Queued)
  BY <1>1, FS_Subset, ThreadsAssumption
<1>. QED  BY <1>2, FS_CardinalityType, FS_EmptySet

(* notify_all moves sleepers to their loop test and nothing else.          *)
LEMMA NotifyEffect ==
    ASSUME NEW p, p \in [Threads -> ReaderPC \cup WriterPC], NEW t \in Threads
    PROVE  /\ NotifyAll(p) \in [Threads -> ReaderPC \cup WriterPC]
           /\ p[t] \in ReaderPC => NotifyAll(p)[t] \in ReaderPC \ {"waitRead"}
           /\ p[t] \in WriterPC => NotifyAll(p)[t] \in WriterPC \ {"waitWrite"}
           /\ NotifyAll(p)[t] = "reading" <=> p[t] = "reading"
           /\ NotifyAll(p)[t] = "writing" <=> p[t] = "writing"
           /\ NotifyAll(p)[t] \in {"tryWrite", "waitWrite"} <=> p[t] \in {"tryWrite", "waitWrite"}
<1>1. \A u \in Threads : p[u] \in ReaderPC \cup WriterPC
  OBVIOUS
<1>2. \A u \in Threads : Awake(p[u]) \in ReaderPC \cup WriterPC
  BY <1>1 DEF Awake, ReaderPC, WriterPC
<1>3. NotifyAll(p)[t] = Awake(p[t])
  BY DEF NotifyAll
<1>. QED  BY <1>1, <1>2, <1>3 DEF NotifyAll, Awake, ReaderPC, WriterPC

(* The unused lock satisfies the invariant.                                *)
LEMMA InitLockInv == Init => LockInv
<1> SUFFICES ASSUME Init PROVE LockInv
  OBVIOUS
<1>1. Reading = {} /\ Queued = {} /\ Writing = {}
  BY DEF Init, Reading, Queued, Writing, Threads
<1>2. TypeOK
  BY DEF Init, TypeOK, Threads, ReaderPC, WriterPC
<1>. QED  BY <1>1, <1>2, FS_EmptySet DEF Init, LockInv, CountersAgree, Exclusion

(* Every action moves one thread, and may wake sleepers: p is pc after     *)
(* thread t moved to place s.                                              *)
LEMMA MoveEffect ==
    ASSUME TypeOK, NEW t \in Threads, NEW s,
           t \in Readers => s \in ReaderPC, t \in Writers => s \in WriterPC,
           NEW p, \/ p = [pc EXCEPT ![t] = s]
                  \/ p = NotifyAll([pc EXCEPT ![t] = s])
                  \/ p = [NotifyAll(pc) EXCEPT ![t] = s]
    PROVE  /\ p \in [Threads -> ReaderPC \cup WriterPC]
           /\ \A u \in Readers : /\ p[u] \in ReaderPC
                                 /\ p[u] = "reading" <=> IF u = t THEN s = "reading"
                                                                  ELSE pc[u] = "reading"
           /\ \A u \in Writers : /\ p[u] \in WriterPC
                                 /\ p[u] = "writing" <=> IF u = t THEN s = "writing"
                                                                  ELSE pc[u] = "writing"
                                 /\ p[u] \in {"tryWrite", "waitWrite"} <=>
                                       IF u = t THEN s \in {"tryWrite", "waitWrite"}
                                       ELSE pc[u] \in {"tryWrite", "waitWrite"}
<1> DEFINE q == [pc EXCEPT ![t] = s]
<1>1. /\ pc \in [Threads -> ReaderPC \cup WriterPC]
      /\ \A u \in Readers : pc[u] \in ReaderPC /\ u \in Threads
      /\ \A u \in Writers : pc[u] \in WriterPC /\ u \in Threads
  BY DEF TypeOK, Threads
<1>2. s \in ReaderPC \cup WriterPC
  BY DEF Threads
<1>3. /\ q \in [Threads -> ReaderPC \cup WriterPC]
      /\ \A u \in Threads : q[u] = IF u = t THEN s ELSE pc[u]
  BY <1>1, <1>2
<1>4. CASE p = q
  BY <1>1, <1>3, <1>4
<1>5. CASE p = NotifyAll(q)
  <2>1. p \in [Threads -> ReaderPC \cup WriterPC]
    BY <1>3, <1>5, NotifyEffect
  <2>2. \A u \in Readers : q[u] \in ReaderPC
    BY <1>1, <1>3
  <2>3. \A u \in Writers : q[u] \in WriterPC
    BY <1>1, <1>3
  <2> HIDE DEF q
  <2>. QED  BY <1>1, <1>3, <1>5, <2>1, <2>2, <2>3, NotifyEffect
<1>6. CASE p = [NotifyAll(pc) EXCEPT ![t] = s]
  <2>1. NotifyAll(pc) \in [Threads -> ReaderPC \cup WriterPC]
    BY <1>1, NotifyEffect
  <2>2. /\ p \in [Threads -> ReaderPC \cup WriterPC]
        /\ \A u \in Threads : p[u] = IF u = t THEN s ELSE NotifyAll(pc)[u]
    BY <1>2, <1>6, <2>1
  <2>. QED  BY <1>1, <2>2, NotifyEffect
<1>. QED  BY <1>4, <1>5, <1>6

(* A move of one reader, or one writer, as the three sets see it.          *)
LEMMA ReaderMove ==
    ASSUME TypeOK, NEW r \in Readers, NEW s \in ReaderPC,
           \/ pc' = [pc EXCEPT ![r] = s]
           \/ pc' = NotifyAll([pc EXCEPT ![r] = s])
    PROVE  /\ pc' \in [Threads -> ReaderPC \cup WriterPC]
           /\ \A t \in Readers : pc'[t] \in ReaderPC
           /\ \A t \in Writers : pc'[t] \in WriterPC
           /\ Reading' = IF s = "reading" THEN Reading \cup {r} ELSE Reading \ {r}
           /\ Queued' = Queued /\ Writing' = Writing
<1>1. r \in Threads /\ r \notin Writers
  BY ThreadsAssumption DEF Threads
<1>2. /\ pc' \in [Threads -> ReaderPC \cup WriterPC]
      /\ \A u \in Readers : /\ pc'[u] \in ReaderPC
                            /\ pc'[u] = "reading" <=> IF u = r THEN s = "reading"
                                                               ELSE pc[u] = "reading"
      /\ \A u \in Writers : /\ pc'[u] \in WriterPC
                            /\ pc'[u] = "writing" <=> pc[u] = "writing"
                            /\ pc'[u] \in {"tryWrite", "waitWrite"} <=>
                                  pc[u] \in {"tryWrite", "waitWrite"}
  BY <1>1, MoveEffect
<1>. QED  BY <1>2 DEF Reading, Queued, Writing

(* The same for a move of one writer.                                      *)
LEMMA WriterMove ==
    ASSUME TypeOK, NEW w \in Writers, NEW s \in WriterPC,
           \/ pc' = [pc EXCEPT ![w] = s]
           \/ pc' = NotifyAll([pc EXCEPT ![w] = s])
           \/ pc' = [NotifyAll(pc) EXCEPT ![w] = s]
    PROVE  /\ pc' \in [Threads -> ReaderPC \cup WriterPC]
           /\ \A t \in Readers : pc'[t] \in ReaderPC
           /\ \A t \in Writers : pc'[t] \in WriterPC
           /\ Reading' = Reading
           /\ Queued' = IF s \in {"tryWrite", "waitWrite"} THEN Queued \cup {w}
                                                           ELSE Queued \ {w}
           /\ Writing' = IF s = "writing" THEN Writing \cup {w} ELSE Writing \ {w}
<1>1. w \in Threads /\ w \notin Readers
  BY ThreadsAssumption DEF Threads
<1>2. /\ pc' \in [Threads -> ReaderPC \cup WriterPC]
      /\ \A u \in Readers : /\ pc'[u] \in ReaderPC
                            /\ pc'[u] = "reading" <=> pc[u] = "reading"
      /\ \A u \in Writers : /\ pc'[u] \in WriterPC
                            /\ pc'[u] = "writing" <=> IF u = w THEN s = "writing"
                                                               ELSE pc[u] = "writing"
                            /\ pc'[u] \in {"tryWrite", "waitWrite"} <=>
                                  IF u = w THEN s \in {"tryWrite", "waitWrite"}
                                  ELSE pc[u] \in {"tryWrite", "waitWrite"}
  BY <1>1, MoveEffect
<1>. QED  BY <1>2 DEF Reading, Queued, Writing

(* The sets of threads after a move, in the form the steps below use.      *)
Typed(p) ==
    /\ p \in [Threads -> ReaderPC \cup WriterPC]
    /\ \A t \in Readers : p[t] \in ReaderPC
    /\ \A t \in Writers : p[t] \in WriterPC

(* The program counters of readers and writers stay in their own ranges.   *)
LEMMA TypedPc ==
    ASSUME Typed(pc'), readers' \in Nat, writer' \in BOOLEAN, waitingWriters' \in Nat,
           expired' \in SUBSET Threads
    PROVE  TypeOK'
BY DEF Typed, TypeOK

(* LockInv is inductive: one step per action.                              *)
LEMMA NextLockInv == LockInv /\ [Next]_vars => LockInv'
<1> SUFFICES ASSUME LockInv, [Next]_vars PROVE LockInv'
  OBVIOUS
<1>i. TypeOK /\ CountersAgree /\ Exclusion
  BY DEF LockInv
<1>t. /\ readers \in Nat /\ writer \in BOOLEAN /\ waitingWriters \in Nat
      /\ expired \in SUBSET Threads
      /\ \A r \in Readers : pc[r] \in ReaderPC /\ r \in Threads
      /\ \A w \in Writers : pc[w] \in WriterPC /\ w \in Threads
  BY <1>i DEF TypeOK, Threads
<1>n. /\ ReaderPC = {"idle", "tryRead", "waitRead", "reading"}
      /\ WriterPC = {"idle", "tryWrite", "waitWrite", "writing"}
  BY DEF ReaderPC, WriterPC
<1>1. ASSUME NEW r \in Readers, CallRead(r) \/ WaitRead(r) \/ RefuseRead(r) PROVE LockInv'
  <2>1. PICK s \in ReaderPC : s # "reading" /\ pc' = [pc EXCEPT ![r] = s]
    BY <1>1, <1>n DEF CallRead, WaitRead, RefuseRead
  <2>2. Typed(pc') /\ Reading' = Reading \ {r} /\ Queued' = Queued /\ Writing' = Writing
    BY <1>i, <2>1, ReaderMove DEF Typed
  <2>3. r \notin Reading
    BY <1>1 DEF CallRead, WaitRead, RefuseRead, Reading
  <2>4. UNCHANGED <<readers, writer, waitingWriters>> /\ expired' \in SUBSET Threads
    BY <1>1, <1>t DEF CallRead, WaitRead, RefuseRead
  <2>. QED
    BY <1>i, <1>t, <2>2, <2>3, <2>4, TypedPc DEF LockInv, CountersAgree, Exclusion
<1>2. ASSUME NEW r \in Readers, EnterRead(r) PROVE LockInv'
  <2>1. /\ pc' = [pc EXCEPT ![r] = "reading"] /\ "reading" \in ReaderPC
        /\ readers' = readers + 1 /\ UNCHANGED <<writer, waitingWriters, expired>>
        /\ ~writer /\ r \notin Reading
    BY <1>2, <1>n DEF EnterRead, ReadBlocked, Reading
  <2>2. /\ Typed(pc') /\ Reading' = Reading \cup {r}
        /\ Queued' = Queued /\ Writing' = Writing
    BY <1>i, <2>1, ReaderMove DEF Typed
  <2>3. Cardinality(Reading') = Cardinality(Reading) + 1
    BY <2>1, <2>2, ThreadSets, FS_AddElement
  <2>4. TypeOK'
    BY <1>t, <2>1, <2>2, TypedPc
  <2>5. Exclusion'
    BY <1>i, <2>1, <2>2 DEF Exclusion, CountersAgree
  <2>. QED  BY <1>i, <2>1, <2>2, <2>3, <2>4, <2>5 DEF LockInv, CountersAgree
<1>3. ASSUME NEW r \in Readers, EndRead(r) PROVE LockInv'
  <2>1. /\ "idle" \in ReaderPC /\ r \in Reading
        /\ pc' = [pc EXCEPT ![r] = "idle"] \/ pc' = NotifyAll([pc EXCEPT ![r] = "idle"])
        /\ readers' = readers - 1 /\ UNCHANGED <<writer, waitingWriters, expired>>
    BY <1>3, <1>n DEF EndRead, Reading
  <2>2. /\ Typed(pc') /\ Reading' = Reading \ {r}
        /\ Queued' = Queued /\ Writing' = Writing
    BY <1>i, <2>1, ReaderMove DEF Typed
  <2>3. Cardinality(Reading') = Cardinality(Reading) - 1 /\ Cardinality(Reading') \in Nat
    BY <2>1, <2>2, ThreadSets, FS_RemoveElement, FS_CardinalityType
  <2>4. readers' = Cardinality(Reading')
    BY <1>i, <2>1, <2>3 DEF CountersAgree
  <2>5. TypeOK'
    BY <1>t, <2>1, <2>2, <2>3, <2>4, TypedPc
  <2>. QED  BY <1>i, <2>1, <2>2, <2>4, <2>5 DEF LockInv, CountersAgree, Exclusion
<1>4. ASSUME NEW w \in Writers, CallWrite(w) PROVE LockInv'
  <2>1. w \notin Queued /\ w \notin Writing /\ UNCHANGED readers /\ expired' \in SUBSET Threads
    BY <1>4, <1>t DEF CallWrite, Queued, Writing
  <2>2. CASE /\ ~WriteBlocked /\ writer' = TRUE /\ UNCHANGED waitingWriters
             /\ pc' = NotifyAll([pc EXCEPT ![w] = "writing"])
    <3>1. /\ Typed(pc') /\ Reading' = Reading
          /\ Queued' = Queued \ {w} /\ Writing' = Writing \cup {w}
      BY <1>i, <1>n, <2>2, WriterMove DEF Typed
    <3>2. Reading = {} /\ Writing = {}
      BY <1>i, <2>2, ThreadSets DEF WriteBlocked, CountersAgree
    <3>3. TypeOK'
      BY <1>t, <2>1, <2>2, <3>1, TypedPc
    <3>. QED  BY <1>i, <2>1, <2>2, <3>1, <3>2, <3>3 DEF LockInv, CountersAgree, Exclusion
  <2>3. CASE /\ waitingWriters' = waitingWriters + 1 /\ UNCHANGED writer
             /\ pc' = [NotifyAll(pc) EXCEPT ![w] = "waitWrite"]
    <3>1. /\ Typed(pc') /\ Reading' = Reading
          /\ Queued' = Queued \cup {w} /\ Writing' = Writing \ {w}
      BY <1>i, <1>n, <2>3, WriterMove DEF Typed
    <3>2. Cardinality(Queued') = Cardinality(Queued) + 1
      BY <2>1, <3>1, ThreadSets, FS_AddElement
    <3>3. TypeOK'
      BY <1>t, <2>1, <2>3, <3>1, TypedPc
    <3>. QED  BY <1>i, <2>1, <2>3, <3>1, <3>2, <3>3 DEF LockInv, CountersAgree, Exclusion
  <2>4. CASE pc' = NotifyAll(pc) /\ UNCHANGED <<writer, waitingWriters>>
    <3>1. pc = [pc EXCEPT ![w] = "idle"]
      BY <1>4, <1>i DEF CallWrite, TypeOK
    <3>2. /\ Typed(pc') /\ Reading' = Reading
          /\ Queued' = Queued \ {w} /\ Writing' = Writing \ {w}
      BY <1>i, <1>n, <2>4, <3>1, WriterMove DEF Typed
    <3>3. TypeOK'
      BY <1>t, <2>1, <2>4, <3>2, TypedPc
    <3>. QED  BY <1>i, <2>1, <2>4, <3>2, <3>3 DEF LockInv, CountersAgree, Exclusion
  <2>. QED  BY <1>4, <2>2, <2>3, <2>4 DEF CallWrite
<1>5. ASSUME NEW w \in Writers, EnterWrite(w) PROVE LockInv'
  <2>1. /\ pc' = NotifyAll([pc EXCEPT ![w] = "writing"]) /\ "writing" \in WriterPC
        /\ w \in Queued /\ ~WriteBlocked /\ writer' = TRUE
        /\ waitingWriters' = waitingWriters - 1 /\ UNCHANGED <<readers, expired>>
    BY <1>5, <1>n DEF EnterWrite, Queued
  <2>2. /\ Typed(pc') /\ Reading' = Reading
        /\ Queued' = Queued \ {w} /\ Writing' = Writing \cup {w}
    BY <1>i, <2>1, WriterMove DEF Typed
  <2>3. Reading = {} /\ Writing = {}
    BY <1>i, <2>1, ThreadSets DEF WriteBlocked, CountersAgree
  <2>4. Cardinality(Queued') = Cardinality(Queued) - 1 /\ Cardinality(Queued') \in Nat
    BY <2>1, <2>2, ThreadSets, FS_RemoveElement, FS_CardinalityType
  <2>5. waitingWriters' = Cardinality(Queued')
    BY <1>i, <2>1, <2>4 DEF CountersAgree
  <2>6. TypeOK'
    BY <1>t, <2>1, <2>2, <2>4, <2>5, TypedPc
  <2>. QED  BY <1>i, <2>1, <2>2, <2>3, <2>5, <2>6 DEF LockInv, CountersAgree, Exclusion
<1>6. ASSUME NEW w \in Writers, WaitWrite(w) PROVE LockInv'
  <2>1. /\ pc' = [pc EXCEPT ![w] = "waitWrite"] /\ "waitWrite" \in WriterPC
        /\ w \in Queued /\ w \notin Writing
        /\ UNCHANGED <<readers, writer, waitingWriters, expired>>
    BY <1>6, <1>n DEF WaitWrite, Queued, Writing
  <2>2. /\ Typed(pc') /\ Reading' = Reading
        /\ Queued' = Queued \cup {w} /\ Writing' = Writing \ {w}
    BY <1>i, <2>1, WriterMove DEF Typed
  <2>3. Queued' = Queued /\ Writing' = Writing
    BY <2>1, <2>2
  <2>4. TypeOK'
    BY <1>t, <2>1, <2>2, TypedPc
  <2>. QED  BY <1>i, <2>1, <2>2, <2>3, <2>4 DEF LockInv, CountersAgree, Exclusion
<1>7. ASSUME NEW w \in Writers, RefuseWrite(w) PROVE LockInv'
  <2>1. /\ pc' = NotifyAll([pc EXCEPT ![w] = "idle"]) /\ "idle" \in WriterPC
        /\ w \in Queued /\ w \notin Writing
        /\ waitingWriters' = waitingWriters - 1 /\ UNCHANGED <<readers, writer, expired>>
    BY <1>7, <1>n DEF RefuseWrite, Queued, Writing
  <2>2. /\ Typed(pc') /\ Reading' = Reading
        /\ Queued' = Queued \ {w} /\ Writing' = Writing \ {w}
    BY <1>i, <2>1, WriterMove DEF Typed
  <2>3. Cardinality(Queued') = Cardinality(Queued) - 1 /\ Cardinality(Queued') \in Nat
    BY <2>1, <2>2, ThreadSets, FS_RemoveElement, FS_CardinalityType
  <2>4. waitingWriters' = Cardinality(Queued') /\ Writing' = Writing
    BY <1>i, <2>1, <2>2, <2>3 DEF CountersAgree
  <2>5. TypeOK'
    BY <1>t, <2>1, <2>2, <2>3, <2>4, TypedPc
  <2>. QED  BY <1>i, <2>1, <2>2, <2>4, <2>5 DEF LockInv, CountersAgree, Exclusion
<1>8. ASSUME NEW w \in Writers, EndWrite(w) PROVE LockInv'
  <2>1. /\ pc' = NotifyAll([pc EXCEPT ![w] = "idle"]) /\ "idle" \in WriterPC
        /\ w \in Writing /\ w \notin Queued
        /\ writer' = FALSE /\ UNCHANGED <<readers, waitingWriters, expired>>
    BY <1>8, <1>n DEF EndWrite, Writing, Queued
  <2>2. /\ Typed(pc') /\ Reading' = Reading
        /\ Queued' = Queued \ {w} /\ Writing' = Writing \ {w}
    BY <1>i, <2>1, WriterMove DEF Typed
  <2>3. Writing' = {} /\ Queued' = Queued
    BY <1>i, <2>1, <2>2 DEF Exclusion
  <2>4. TypeOK'
    BY <1>t, <2>1, <2>2, TypedPc
  <2>. QED  BY <1>i, <2>1, <2>2, <2>3, <2>4 DEF LockInv, CountersAgree, Exclusion
<1>9. ASSUME NEW t \in Timed, Expire(t) PROVE LockInv'
  <2>1. /\ t \in Threads /\ pc' = [pc EXCEPT ![t] = Awake(pc[t])]
        /\ UNCHANGED <<readers, writer, waitingWriters>> /\ expired' \in SUBSET Threads
    BY <1>9, <1>t, ThreadsAssumption DEF Expire, Timed, Threads
  <2>2. CASE t \in Readers
    <3>1. Awake(pc[t]) = "tryRead" /\ "tryRead" \in ReaderPC /\ t \notin Reading
      BY <1>9, <1>n, <1>t, <2>2 DEF Expire, Awake, Reading
    <3>2. Typed(pc') /\ Reading' = Reading \ {t} /\ Queued' = Queued /\ Writing' = Writing
      BY <1>i, <2>1, <2>2, <3>1, ReaderMove DEF Typed
    <3>3. Reading' = Reading
      BY <3>1, <3>2
    <3>4. TypeOK'
      BY <1>t, <2>1, <3>2, TypedPc
    <3>. QED  BY <1>i, <2>1, <3>2, <3>3, <3>4 DEF LockInv, CountersAgree, Exclusion
  <2>3. CASE t \in Writers
    <3>1. /\ Awake(pc[t]) = "tryWrite" /\ "tryWrite" \in WriterPC
          /\ t \in Queued /\ t \notin Writing
      BY <1>9, <1>n, <1>t, <2>3 DEF Expire, Awake, Queued, Writing
    <3>2. /\ Typed(pc') /\ Reading' = Reading
          /\ Queued' = Queued \cup {t} /\ Writing' = Writing \ {t}
      BY <1>i, <2>1, <2>3, <3>1, WriterMove DEF Typed
    <3>3. Queued' = Queued /\ Writing' = Writing
      BY <3>1, <3>2
    <3>4. TypeOK'
      BY <1>t, <2>1, <3>2, TypedPc
    <3>. QED  BY <1>i, <2>1, <3>2, <3>3, <3>4 DEF LockInv, CountersAgree, Exclusion
  <2>. QED  BY <2>1, <2>2, <2>3 DEF Threads
<1>10. CASE UNCHANGED vars
  BY <1>i, <1>10 DEF LockInv, vars, TypeOK, CountersAgree, Exclusion, Reading, Queued, Writing
<1>. QED
  BY <1>1, <1>2, <1>3, <1>4, <1>5, <1>6, <1>7, <1>8, <1>9, <1>10
  DEF Next, Resume, Leave

(* Reconciliation excludes queries and other reconciliation, for any       *)
(* number of threads.                                                      *)
THEOREM LockExclusion == Spec => []Exclusion
<1>1. LockInv => Exclusion
  BY DEF LockInv
<1>. QED  BY <1>1, InitLockInv, NextLockInv, PTL DEF Spec

(* The types of the lock's state and the meaning of its counters.          *)
THEOREM LockTypeOK == Spec => []TypeOK
<1>1. LockInv => TypeOK
  BY DEF LockInv
<1>. QED  BY <1>1, InitLockInv, NextLockInv, PTL DEF Spec

(* Whoever slept before a notification does not sleep after it.            *)
LEMMA NobodySleeps ==
    ASSUME NEW p, p \in [Threads -> ReaderPC \cup WriterPC], pc' = NotifyAll(p)
    PROVE  NoLostWakeup'
<1>1. \A t \in Threads : pc'[t] \notin {"waitRead", "waitWrite"}
  BY DEF NotifyAll, Awake
<1>. QED  BY <1>1 DEF NoLostWakeup, Threads

(* A move of one thread that changes no counter, to a place that it may    *)
(* sleep at only for a reason.                                             *)
LEMMA OneMoves ==
    ASSUME TypeOK, NoLostWakeup, NEW t \in Threads, NEW s,
           pc' = [pc EXCEPT ![t] = s],
           s = "waitRead" => ReadBlocked, s = "waitWrite" => WriteBlocked,
           UNCHANGED <<readers, writer, waitingWriters>>
    PROVE  NoLostWakeup'
<1>1. \A u \in Threads : pc'[u] = IF u = t THEN s ELSE pc[u]
  BY DEF TypeOK
<1>2. ReadBlocked' = ReadBlocked /\ WriteBlocked' = WriteBlocked
  BY DEF ReadBlocked, WriteBlocked
<1>. QED  BY <1>1, <1>2 DEF NoLostWakeup, Threads

(* Every action that lifts a condition somebody may sleep on notifies.     *)
(* The counters matter once: a query that is not the last one to leave     *)
(* notifies nobody, and writers sleep on.                                  *)
LEMMA NextNoLostWakeup == LockInv /\ NoLostWakeup /\ [Next]_vars => NoLostWakeup'
<1> SUFFICES ASSUME LockInv, NoLostWakeup, [Next]_vars PROVE NoLostWakeup'
  OBVIOUS
<1>i. TypeOK /\ CountersAgree
  BY DEF LockInv
<1>t. /\ \A r \in Readers : r \in Threads
      /\ \A w \in Writers : w \in Threads
      /\ pc \in [Threads -> ReaderPC \cup WriterPC]
      /\ {"idle", "tryRead", "waitRead", "reading", "tryWrite", "waitWrite", "writing"}
            = ReaderPC \cup WriterPC
  BY <1>i DEF Threads, TypeOK, ReaderPC, WriterPC
<1>1. ASSUME NEW r \in Readers, CallRead(r) \/ WaitRead(r) \/ RefuseRead(r)
      PROVE  NoLostWakeup'
  BY <1>1, <1>i, <1>t, OneMoves DEF CallRead, WaitRead, RefuseRead
<1>2. ASSUME NEW r \in Readers, EnterRead(r) PROVE NoLostWakeup'
  <2>1. /\ \A u \in Threads : pc'[u] = IF u = r THEN "reading" ELSE pc[u]
        /\ ~ReadBlocked /\ readers' = readers + 1 /\ UNCHANGED <<writer, waitingWriters>>
    BY <1>2, <1>t DEF EnterRead
  <2>2. readers \in Nat
    BY <1>i DEF TypeOK
  <2>. QED  BY <1>t, <2>1, <2>2 DEF NoLostWakeup, ReadBlocked, WriteBlocked
<1>3. ASSUME NEW r \in Readers, EndRead(r) PROVE NoLostWakeup'
  <2> DEFINE left == [pc EXCEPT ![r] = "idle"]
  <2>1. left \in [Threads -> ReaderPC \cup WriterPC]
    BY <1>t
  <2>2. CASE readers = 1
    <3>1. pc' = NotifyAll(left)
      BY <1>3, <2>2 DEF EndRead
    <3> HIDE DEF left
    <3>. QED  BY <2>1, <3>1, NobodySleeps
  <2>3. CASE readers # 1
    <3>1. r \in Reading
      BY <1>3 DEF EndRead, Reading
    <3>2. readers \in Nat \ {0}
      BY <1>i, <3>1, ThreadSets DEF CountersAgree
    <3>3. /\ \A u \in Threads : pc'[u] = IF u = r THEN "idle" ELSE pc[u]
          /\ readers' = readers - 1 /\ UNCHANGED <<writer, waitingWriters>>
      BY <1>3, <1>t, <2>3 DEF EndRead
    <3>. QED  BY <1>t, <2>3, <3>2, <3>3 DEF NoLostWakeup, ReadBlocked, WriteBlocked
  <2>. QED  BY <2>2, <2>3
<1>4. ASSUME NEW w \in Writers, CallWrite(w) PROVE NoLostWakeup'
  <2>1. CASE pc' = NotifyAll([pc EXCEPT ![w] = "writing"])
    <3>1. [pc EXCEPT ![w] = "writing"] \in [Threads -> ReaderPC \cup WriterPC]
      BY <1>t
    <3>. QED  BY <2>1, <3>1, NobodySleeps
  <2>2. CASE /\ WriteBlocked /\ UNCHANGED <<readers, writer>>
             /\ pc' = [NotifyAll(pc) EXCEPT ![w] = "waitWrite"]
    <3>1. \A u \in Threads : pc'[u] = IF u = w THEN "waitWrite" ELSE Awake(pc[u])
      BY <2>2 DEF NotifyAll
    <3>2. w \notin Readers /\ WriteBlocked'
      BY <2>2, ThreadsAssumption DEF WriteBlocked
    <3>. QED  BY <1>t, <3>1, <3>2 DEF NoLostWakeup, Awake
  <2>3. CASE pc' = NotifyAll(pc)
    BY <1>t, <2>3, NobodySleeps
  <2>. QED  BY <1>4, <2>1, <2>2, <2>3 DEF CallWrite
<1>5. ASSUME NEW w \in Writers, WaitWrite(w) PROVE NoLostWakeup'
  BY <1>5, <1>i, <1>t, OneMoves DEF WaitWrite
<1>6. ASSUME NEW w \in Writers, EnterWrite(w) \/ RefuseWrite(w) \/ EndWrite(w)
      PROVE  NoLostWakeup'
  <2>1. PICK s \in {"writing", "idle"} : pc' = NotifyAll([pc EXCEPT ![w] = s])
    BY <1>6 DEF EnterWrite, RefuseWrite, EndWrite
  <2>2. [pc EXCEPT ![w] = s] \in [Threads -> ReaderPC \cup WriterPC]
    BY <1>t
  <2>. QED  BY <2>1, <2>2, NobodySleeps
<1>7. ASSUME NEW t \in Timed, Expire(t) PROVE NoLostWakeup'
  <2>1. t \in Threads
    BY ThreadsAssumption DEF Timed, Threads
  <2>2. Awake(pc[t]) \notin {"waitRead", "waitWrite"}
    BY DEF Awake
  <2>. QED  BY <1>7, <1>i, <2>1, <2>2, OneMoves DEF Expire
<1>8. CASE UNCHANGED vars
  BY <1>8 DEF vars, NoLostWakeup, ReadBlocked, WriteBlocked
<1>. QED
  BY <1>1, <1>2, <1>3, <1>4, <1>5, <1>6, <1>7, <1>8 DEF Next, Resume, Leave

(* A thread that sleeps in wait() has a reason to, for any number of       *)
(* threads and whatever the order of calls, withdrawals and deadlines.     *)
THEOREM LockNoLostWakeup == Spec => []NoLostWakeup
<1>1. Init => NoLostWakeup
  BY DEF Init, NoLostWakeup, Threads
<1>. QED  BY <1>1, InitLockInv, NextLockInv, NextNoLostWakeup, PTL DEF Spec

(* A query is admitted only when no writer is queued: EnterRead is the     *)
(* only action that adds to Reading, and a queued writer blocks it.        *)
THEOREM LockWriterFair == Spec => WriterFair
<1>1. LockInv /\ [Next]_vars => [Queued # {} => Reading' \subseteq Reading]_vars
  <2> SUFFICES ASSUME LockInv, Next, Queued # {} PROVE Reading' \subseteq Reading
    OBVIOUS
  <2>i. TypeOK /\ CountersAgree
    BY DEF LockInv
  <2>n. /\ ReaderPC = {"idle", "tryRead", "waitRead", "reading"}
        /\ WriterPC = {"idle", "tryWrite", "waitWrite", "writing"}
    BY DEF ReaderPC, WriterPC
  <2>b. ReadBlocked
    BY <2>i, ThreadSets DEF ReadBlocked, CountersAgree
  <2>1. ASSUME NEW r \in Readers, NEW s \in ReaderPC, s # "reading",
               \/ pc' = [pc EXCEPT ![r] = s]
               \/ pc' = NotifyAll([pc EXCEPT ![r] = s])
        PROVE  Reading' \subseteq Reading
    <3>1. Reading' = IF s = "reading" THEN Reading \cup {r} ELSE Reading \ {r}
      BY <2>i, <2>1, ReaderMove
    <3>. QED  BY <2>1, <3>1
  <2>2. ASSUME NEW w \in Writers, NEW s \in WriterPC,
               \/ pc' = [pc EXCEPT ![w] = s]
               \/ pc' = NotifyAll([pc EXCEPT ![w] = s])
               \/ pc' = [NotifyAll(pc) EXCEPT ![w] = s]
        PROVE  Reading' \subseteq Reading
    <3>1. Reading' = Reading
      BY <2>i, <2>2, WriterMove
    <3>. QED  BY <3>1
  <2>3. ASSUME NEW r \in Readers,
               \/ CallRead(r) \/ EnterRead(r) \/ WaitRead(r) \/ RefuseRead(r) \/ EndRead(r)
        PROVE  Reading' \subseteq Reading
    <3>1. \E s \in ReaderPC \ {"reading"} : \/ pc' = [pc EXCEPT ![r] = s]
                                            \/ pc' = NotifyAll([pc EXCEPT ![r] = s])
      BY <2>b, <2>n, <2>3 DEF CallRead, EnterRead, WaitRead, RefuseRead, EndRead
    <3>. QED  BY <2>1, <3>1
  <2>4. ASSUME NEW w \in Writers, CallWrite(w) PROVE Reading' \subseteq Reading
    <3>1. pc = [pc EXCEPT ![w] = "idle"]
      BY <2>i, <2>4 DEF CallWrite, TypeOK
    <3>2. \/ pc' = NotifyAll([pc EXCEPT ![w] = "writing"])
          \/ pc' = [NotifyAll(pc) EXCEPT ![w] = "waitWrite"]
          \/ pc' = NotifyAll([pc EXCEPT ![w] = "idle"])
      BY <2>4, <3>1 DEF CallWrite
    <3>. QED  BY <2>n, <2>2, <3>2
  <2>5. ASSUME NEW w \in Writers,
               EnterWrite(w) \/ WaitWrite(w) \/ RefuseWrite(w) \/ EndWrite(w)
        PROVE  Reading' \subseteq Reading
    <3>1. \E s \in WriterPC : \/ pc' = [pc EXCEPT ![w] = s]
                             \/ pc' = NotifyAll([pc EXCEPT ![w] = s])
      BY <2>n, <2>5 DEF EnterWrite, WaitWrite, RefuseWrite, EndWrite
    <3>. QED  BY <2>2, <3>1
  <2>6. ASSUME NEW t \in Timed, Expire(t) PROVE Reading' \subseteq Reading
    <3>1. pc' = [pc EXCEPT ![t] = Awake(pc[t])]
      BY <2>6 DEF Expire
    <3>2. CASE t \in Readers
      <4>1. Awake(pc[t]) = "tryRead"
        BY <2>i, <2>n, <2>6, <3>2 DEF Expire, Awake, TypeOK
      <4>. QED  BY <2>n, <2>1, <3>1, <3>2, <4>1
    <3>3. CASE t \in Writers
      <4>1. Awake(pc[t]) = "tryWrite"
        BY <2>i, <2>n, <2>6, <3>3 DEF Expire, Awake, TypeOK
      <4>. QED  BY <2>n, <2>2, <3>1, <3>3, <4>1
    <3>. QED  BY <3>2, <3>3, ThreadsAssumption DEF Timed
  <2>. QED  BY <2>3, <2>4, <2>5, <2>6 DEF Next, Resume, Leave
<1>. QED  BY <1>1, InitLockInv, NextLockInv, PTL DEF Spec, WriterFair

(* A move of one thread is a step of the gate when it is a step of the     *)
(* three sets of threads; a thread that only sleeps, wakes or tries again  *)
(* changes none.                                                           *)
LEMMA StepKeepsGate == LockInv /\ [Next]_vars => [Gate!Next]_(Gate!vars)
<1> SUFFICES ASSUME LockInv, [Next]_vars PROVE [Gate!Next]_(Gate!vars)
  OBVIOUS
<1>i. TypeOK /\ CountersAgree /\ Exclusion
  BY DEF LockInv
<1>n. /\ ReaderPC = {"idle", "tryRead", "waitRead", "reading"}
      /\ WriterPC = {"idle", "tryWrite", "waitWrite", "writing"}
  BY DEF ReaderPC, WriterPC
<1>q. readers = 0 => Reading = {}
  BY <1>i, ThreadSets DEF CountersAgree
<1>w. /\ waitingWriters = 0 => Queued = {}
      /\ ~writer => Writing = {}
  BY <1>i, ThreadSets DEF CountersAgree
<1> DEFINE Quiet == Reading' = Reading /\ Queued' = Queued /\ Writing' = Writing
<1>s. Quiet => UNCHANGED Gate!vars
  BY DEF Gate!vars
<1>1. ASSUME NEW r \in Readers, CallRead(r) \/ WaitRead(r) \/ RefuseRead(r)
      PROVE  Quiet
  <2>1. PICK s \in ReaderPC : s # "reading" /\ pc' = [pc EXCEPT ![r] = s]
    BY <1>1, <1>n DEF CallRead, WaitRead, RefuseRead
  <2>2. r \notin Reading
    BY <1>1 DEF CallRead, WaitRead, RefuseRead, Reading
  <2>3. Reading' = Reading \ {r} /\ Queued' = Queued /\ Writing' = Writing
    BY <1>i, <2>1, ReaderMove
  <2>. QED  BY <2>2, <2>3
<1>2. ASSUME NEW r \in Readers, EnterRead(r) PROVE Gate!Enter(r)
  <2>1. pc' = [pc EXCEPT ![r] = "reading"] /\ "reading" \in ReaderPC /\ ~ReadBlocked
    BY <1>2, <1>n DEF EnterRead
  <2>2. Reading' = Reading \cup {r} /\ UNCHANGED <<Queued, Writing>>
    BY <1>i, <2>1, ReaderMove
  <2>. QED  BY <1>w, <2>1, <2>2 DEF ReadBlocked, Gate!Enter
<1>3. ASSUME NEW r \in Readers, EndRead(r) PROVE Gate!Exit(r)
  <2>1. /\ "idle" \in ReaderPC
        /\ pc' = [pc EXCEPT ![r] = "idle"] \/ pc' = NotifyAll([pc EXCEPT ![r] = "idle"])
    BY <1>3, <1>n DEF EndRead
  <2>2. Reading' = Reading \ {r} /\ UNCHANGED <<Queued, Writing>>
    BY <1>i, <2>1, ReaderMove
  <2>. QED  BY <2>2 DEF Gate!Exit
<1>4. ASSUME NEW w \in Writers, pc' = NotifyAll([pc EXCEPT ![w] = "writing"]), ~WriteBlocked
      PROVE  Gate!Take(w)
  <2>1. Reading' = Reading /\ Queued' = Queued \ {w} /\ Writing' = Writing \cup {w}
    BY <1>4, <1>i, <1>n, WriterMove
  <2>2. Reading = {} /\ Writing = {}
    BY <1>4, <1>q, <1>w DEF WriteBlocked
  <2>. QED  BY <2>1, <2>2 DEF Gate!Take
<1>5. ASSUME NEW w \in Writers, CallWrite(w)
      PROVE  Gate!Queue(w) \/ Gate!Take(w) \/ Quiet
  <2>1. w \notin Queued /\ w \notin Writing
    BY <1>5 DEF CallWrite, Queued, Writing
  <2>2. CASE pc' = [NotifyAll(pc) EXCEPT ![w] = "waitWrite"]
    <3>1. Reading' = Reading /\ Queued' = Queued \cup {w} /\ Writing' = Writing \ {w}
      BY <1>i, <1>n, <2>2, WriterMove
    <3>. QED  BY <2>1, <3>1 DEF Gate!Queue
  <2>3. CASE pc' = NotifyAll(pc)
    <3>1. pc = [pc EXCEPT ![w] = "idle"]
      BY <1>5, <1>i DEF CallWrite, TypeOK
    <3>2. Reading' = Reading /\ Queued' = Queued \ {w} /\ Writing' = Writing \ {w}
      BY <1>i, <1>n, <2>3, <3>1, WriterMove
    <3>. QED  BY <2>1, <3>2
  <2>. QED  BY <1>4, <1>5, <2>2, <2>3 DEF CallWrite
<1>6. ASSUME NEW w \in Writers, EnterWrite(w) PROVE Gate!Take(w)
  BY <1>4, <1>6 DEF EnterWrite
<1>7. ASSUME NEW w \in Writers, WaitWrite(w) PROVE Quiet
  <2>1. /\ pc' = [pc EXCEPT ![w] = "waitWrite"] /\ "waitWrite" \in WriterPC
        /\ w \in Queued /\ w \notin Writing
    BY <1>7, <1>n DEF WaitWrite, Queued, Writing
  <2>2. Reading' = Reading /\ Queued' = Queued \cup {w} /\ Writing' = Writing \ {w}
    BY <1>i, <2>1, WriterMove
  <2>. QED  BY <2>1, <2>2
<1>8. ASSUME NEW w \in Writers, RefuseWrite(w) \/ EndWrite(w)
      PROVE  Gate!Withdraw(w) \/ Gate!Release(w)
  <2>1. /\ pc' = NotifyAll([pc EXCEPT ![w] = "idle"]) /\ "idle" \in WriterPC
        /\ w \notin Queued \/ w \notin Writing
    BY <1>8, <1>n DEF RefuseWrite, EndWrite, Queued, Writing
  <2>2. Reading' = Reading /\ Queued' = Queued \ {w} /\ Writing' = Writing \ {w}
    BY <1>i, <2>1, WriterMove
  <2>. QED  BY <2>1, <2>2 DEF Gate!Withdraw, Gate!Release
<1>9. ASSUME NEW t \in Timed, Expire(t) PROVE Quiet
  <2>1. t \in Threads /\ pc' = [pc EXCEPT ![t] = Awake(pc[t])]
    BY <1>9, ThreadsAssumption DEF Expire, Timed, Threads
  <2>2. CASE t \in Readers
    <3>1. Awake(pc[t]) = "tryRead" /\ "tryRead" \in ReaderPC /\ t \notin Reading
      BY <1>9, <1>i, <1>n, <2>2 DEF Expire, Awake, Reading, TypeOK
    <3>2. Reading' = Reading \ {t} /\ Queued' = Queued /\ Writing' = Writing
      BY <1>i, <2>1, <2>2, <3>1, ReaderMove
    <3>. QED  BY <3>1, <3>2
  <2>3. CASE t \in Writers
    <3>1. /\ Awake(pc[t]) = "tryWrite" /\ "tryWrite" \in WriterPC
          /\ t \in Queued /\ t \notin Writing
      BY <1>9, <1>i, <1>n, <2>3 DEF Expire, Awake, Queued, Writing, TypeOK
    <3>2. Queued' = Queued \cup {t} /\ Writing' = Writing \ {t} /\ Reading' = Reading
      BY <1>i, <2>1, <2>3, <3>1, WriterMove
    <3>. QED  BY <3>1, <3>2
  <2>. QED  BY <2>1, <2>2, <2>3 DEF Threads
<1>10. UNCHANGED vars => Quiet
  BY DEF vars, Reading, Queued, Writing
<1>. QED
  BY <1>1, <1>2, <1>3, <1>5, <1>6, <1>7, <1>8, <1>9, <1>10, <1>s
  DEF Next, Resume, Leave, Gate!Next

(* The lock of locking.py keeps the promise that its users rely on, for    *)
(* any number of threads: mutual exclusion, and no query past a writer     *)
(* that waits.                                                             *)
THEOREM LockKeepsGate == Spec => KeepsGate
<1>1. Init => Gate!Init
  BY DEF Init, Gate!Init, Reading, Queued, Writing, Threads
<1>. QED  BY <1>1, InitLockInv, NextLockInv, StepKeepsGate, PTL DEF Spec, KeepsGate, Gate!Spec

=============================================================================
