--------------------------- MODULE LifecycleLock ---------------------------
(***************************************************************************)
(* The writer-fair reader-writer lock that keeps queries and repository    *)
(* reconciliation apart: service/locking.py.  Every action below runs with *)
(* the Condition's mutex held, from one acquisition of it to the next      *)
(* release or wait(), so an action is one atomic section of the code.      *)
(***************************************************************************)
EXTENDS Naturals, FiniteSets

CONSTANTS
    Readers,        \* threads that call read(timeout): the API's request threads
    Writers,        \* threads that call write(...): reconciliation
    TimedWriters    \* the writers that pass a timeout; the coordinator passes none

ASSUME ThreadsAssumption ==
    /\ IsFiniteSet(Readers) /\ IsFiniteSet(Writers)
    /\ Readers \cap Writers = {}
    /\ TimedWriters \subseteq Writers

VARIABLES
    readers,          \* self._readers
    writer,           \* self._writer
    waitingWriters,   \* self._waiting_writers
    pc,               \* where each thread stands in read() or write()
    expired           \* threads whose deadline has passed

vars == <<readers, writer, waitingWriters, pc, expired>>

Threads == Readers \cup Writers
Timed   == Readers \cup TimedWriters

ReaderPC == {"idle", "tryRead", "waitRead", "reading"}
WriterPC == {"idle", "tryWrite", "waitWrite", "writing"}

TypeOK ==
    /\ readers \in Nat
    /\ writer \in BOOLEAN
    /\ waitingWriters \in Nat
    /\ pc \in [Threads -> ReaderPC \cup WriterPC]
    /\ \A r \in Readers : pc[r] \in ReaderPC
    /\ \A w \in Writers : pc[w] \in WriterPC
    /\ expired \in SUBSET Threads

Init ==
    /\ readers = 0
    /\ writer = FALSE
    /\ waitingWriters = 0
    /\ pc = [t \in Threads |-> "idle"]
    /\ expired = {}

----------------------------------------------------------------------------
(* The loop conditions of read() and write().  Here and below a definition *)
(* marked "variant" is a mistaken form of the one after it; the runs show  *)
(* which property each mistake breaks.                                     *)
ReadBlockedByHolder == writer      \* variant: waiting writers are ignored
WriteBlockedByWriter == writer     \* variant: readers inside are ignored

ReadBlocked  == writer \/ waitingWriters # 0
WriteBlocked == writer \/ readers # 0

(* Condition.notify_all: every waiting thread leaves wait() and will       *)
(* evaluate its loop condition again once it holds the mutex.              *)
Awake(s) ==
    CASE s = "waitRead"  -> "tryRead"
      [] s = "waitWrite" -> "tryWrite"
      [] OTHER -> s

NotifyNobody(p) == p               \* variant: the notification is forgotten

NotifyAll(p) == [t \in Threads |-> Awake(p[t])]

----------------------------------------------------------------------------
(* read(timeout)                                                           *)

CallRead(r) ==
    /\ pc[r] = "idle"
    /\ pc' = [pc EXCEPT ![r] = "tryRead"]
    /\ expired' = expired \ {r}
    /\ UNCHANGED <<readers, writer, waitingWriters>>

EnterRead(r) ==
    /\ pc[r] = "tryRead"
    /\ ~ReadBlocked
    /\ readers' = readers + 1
    /\ pc' = [pc EXCEPT ![r] = "reading"]
    /\ UNCHANGED <<writer, waitingWriters, expired>>

WaitRead(r) ==
    /\ pc[r] = "tryRead"
    /\ ReadBlocked
    /\ r \notin expired
    /\ pc' = [pc EXCEPT ![r] = "waitRead"]
    /\ UNCHANGED <<readers, writer, waitingWriters, expired>>

RefuseRead(r) ==      \* ServiceBusyError
    /\ pc[r] = "tryRead"
    /\ ReadBlocked
    /\ r \in expired
    /\ pc' = [pc EXCEPT ![r] = "idle"]
    /\ UNCHANGED <<readers, writer, waitingWriters, expired>>

EndRead(r) ==
    /\ pc[r] = "reading"
    /\ readers' = readers - 1
    /\ LET left == [pc EXCEPT ![r] = "idle"]
       IN  pc' = IF readers = 1 THEN NotifyAll(left) ELSE left
    /\ UNCHANGED <<writer, waitingWriters, expired>>

----------------------------------------------------------------------------
(* write(timeout).  The registration of a waiting writer and the first     *)
(* evaluation of its loop condition happen in one section of the mutex.    *)

CallWrite(w) ==
    /\ pc[w] = "idle"
    /\ \/ /\ ~WriteBlocked                      \* granted at once
          /\ writer' = TRUE
          /\ pc' = NotifyAll([pc EXCEPT ![w] = "writing"])
          /\ UNCHANGED waitingWriters
       \/ /\ WriteBlocked                       \* waits, readers now held off
          /\ waitingWriters' = waitingWriters + 1
          /\ pc' = [NotifyAll(pc) EXCEPT ![w] = "waitWrite"]
          /\ UNCHANGED writer
       \/ /\ WriteBlocked /\ w \in TimedWriters \* timeout = 0: refused at once
          /\ pc' = NotifyAll(pc)
          /\ UNCHANGED <<writer, waitingWriters>>
    /\ expired' = expired \ {w}
    /\ UNCHANGED readers

EnterWrite(w) ==
    /\ pc[w] = "tryWrite"
    /\ ~WriteBlocked
    /\ writer' = TRUE
    /\ waitingWriters' = waitingWriters - 1
    /\ pc' = NotifyAll([pc EXCEPT ![w] = "writing"])
    /\ UNCHANGED <<readers, expired>>

WaitWrite(w) ==
    /\ pc[w] = "tryWrite"
    /\ WriteBlocked
    /\ w \notin expired
    /\ pc' = [pc EXCEPT ![w] = "waitWrite"]
    /\ UNCHANGED <<readers, writer, waitingWriters, expired>>

RefuseWrite(w) ==     \* ServiceBusyError; the finally clause runs
    /\ pc[w] = "tryWrite"
    /\ WriteBlocked
    /\ w \in expired
    /\ waitingWriters' = waitingWriters - 1
    /\ pc' = NotifyAll([pc EXCEPT ![w] = "idle"])
    /\ UNCHANGED <<readers, writer, expired>>

EndWrite(w) ==
    /\ pc[w] = "writing"
    /\ writer' = FALSE
    /\ pc' = NotifyAll([pc EXCEPT ![w] = "idle"])
    /\ UNCHANGED <<readers, waitingWriters, expired>>

----------------------------------------------------------------------------
(* The deadline of a timed call passes; a wait(remaining) returns.         *)
ExpireRestarts(t) ==               \* variant: each wait starts a new deadline
    /\ pc[t] \in {"tryRead", "waitRead", "tryWrite", "waitWrite"}
    /\ pc' = [pc EXCEPT ![t] = Awake(pc[t])]
    /\ UNCHANGED <<readers, writer, waitingWriters, expired>>

Expire(t) ==
    /\ pc[t] \in {"tryRead", "waitRead", "tryWrite", "waitWrite"}
    /\ t \notin expired
    /\ expired' = expired \cup {t}
    /\ pc' = [pc EXCEPT ![t] = Awake(pc[t])]
    /\ UNCHANGED <<readers, writer, waitingWriters>>

Resume(t) ==          \* a thread that holds or waits for the mutex goes on
    \/ t \in Readers /\ (EnterRead(t) \/ WaitRead(t) \/ RefuseRead(t))
    \/ t \in Writers /\ (EnterWrite(t) \/ WaitWrite(t) \/ RefuseWrite(t))

Leave(t) ==
    \/ t \in Readers /\ EndRead(t)
    \/ t \in Writers /\ EndWrite(t)

Next ==
    \/ \E r \in Readers : CallRead(r)
    \/ \E w \in Writers : CallWrite(w)
    \/ \E t \in Threads : Resume(t) \/ Leave(t)
    \/ \E t \in Timed : Expire(t)

Spec == Init /\ [][Next]_vars

(* The scheduler runs every thread that is not blocked, a query or a pass  *)
(* ends, and deadlines pass.  Nothing obliges a thread to call the lock.   *)
Fairness ==
    /\ \A t \in Threads : WF_vars(Resume(t) \/ Leave(t))
    /\ \A t \in Timed : WF_vars(Expire(t))

FairSpec == Spec /\ Fairness

----------------------------------------------------------------------------
(* Properties.                                                             *)

Reading == {r \in Readers : pc[r] = "reading"}
Writing == {w \in Writers : pc[w] = "writing"}
Queued  == {w \in Writers : pc[w] \in {"tryWrite", "waitWrite"}}

(* Reconciliation never overlaps a query or another reconciliation: two    *)
(* threads that hold the lock are both readers.                            *)
Exclusion ==
    \A t \in Reading \cup Writing, w \in Writing : t = w

(* No lost wake-up: a thread that sleeps in wait() has a reason to, its    *)
(* loop condition still holds.  Each release and each withdrawal notifies. *)
NoLostWakeup ==
    /\ \A r \in Readers : pc[r] = "waitRead" => ReadBlocked
    /\ \A w \in Writers : pc[w] = "waitWrite" => WriteBlocked

(* The lock is the gate that its users see: what threads do with counters, *)
(* loops and notifications looks to them like QueryGate.                   *)
Gate == INSTANCE QueryGate WITH inside <- Reading, queued <- Queued, owner <- Writing

KeepsGate == Gate!Spec

(* "Writer-fair": no query is admitted while a writer waits.               *)
WriterFair ==
    [][Queued # {} => Reading' \subseteq Reading]_vars

(* Queries never starve reconciliation: while a writer without a timeout   *)
(* waits, some writer gets the lock, however many queries keep coming.     *)
(* With the coordinator's single writer thread it is that writer.  Several *)
(* writers may starve each other: notify_all promises no order.            *)
WriterGetsIn == (Queued \ TimedWriters # {}) ~> (Writing # {})

(* Every query is admitted or refused; none stays in read() forever.       *)
ReaderAnswered ==
    \A r \in Readers : (pc[r] \in {"tryRead", "waitRead"}) ~> (pc[r] \in {"idle", "reading"})

=============================================================================
