------------------------- MODULE Processes_proofs --------------------------
(***************************************************************************)
(* Theorems about four components that share no state: the polling thread, *)
(* the lease session on its pool, the migrations, and the content that     *)
(* vaults share.                                                           *)
(***************************************************************************)
EXTENDS PollThread, LeaseSession, Migrations, ContentStore, Integers, FiniteSetTheorems, TLAPS

----------------------------------------------------------------------------
(***************************************************************************)
(* close() of the combined service is final: whatever start() overlaps     *)
(* with it, the stores are closed after the last polling thread.           *)
(***************************************************************************)

(* ClosedForGood alone is not inductive: a start() that has passed the     *)
(* runtime's flag must find the facade closed before the thread is joined. *)
PollInv ==
    /\ closer \in {"coordinator", "join", "closed"} => facadeClosed
    /\ ClosedForGood

(* A service that was just made is not closed.                             *)
LEMMA InitPollInv == PollInit => PollInv
  BY DEF PollInit, PollInv, ClosedForGood

(* The steps of the polling thread touch no flag, and a thread that is     *)
(* gone takes none.                                                        *)
LEMMA ThreadKeepsPollInv ==
    ASSUME PollInv, PollSteps \/ IntervalPasses
    PROVE  PollInv'
<1>1. ASSUME NEW from \in {"top", "consume", "pass", "wait", "clear"}, NEW to, PollOnly(from, to)
      PROVE  PollInv'
  <2>1. poll = from /\ UNCHANGED <<closer, facadeClosed>>
    BY <1>1 DEF PollOnly
  <2>2. Alive
    BY <2>1 DEF Alive
  <2>. QED  BY <2>1, <2>2 DEF PollInv, ClosedForGood
<1>2. CASE Loop
  BY <1>1, <1>2 DEF Loop
<1>3. CASE ConsumeRetry
  BY <1>1, <1>3 DEF ConsumeRetry
<1>4. CASE EndPass
  BY <1>1, <1>4 DEF EndPass
<1>5. CASE Woken
  BY <1>1, <1>5 DEF Woken
<1>6. CASE ClearEvent
  BY <1>1, <1>6 DEF ClearEvent
<1>7. CASE IntervalPasses
  BY <1>1, <1>7 DEF IntervalPasses
<1>. QED  BY <1>2, <1>3, <1>4, <1>5, <1>6, <1>7 DEF PollSteps

(* Each of the other calls keeps the invariant.                            *)
LEMMA NextPollInv == PollInv /\ [PollNext]_pollVars => PollInv'
<1> SUFFICES ASSUME PollInv, [PollNext]_pollVars PROVE PollInv'
  OBVIOUS
<1>1. CASE StartRuntime
  BY <1>1 DEF StartRuntime, PollInv, ClosedForGood, Alive
<1>2. CASE StartService
  BY <1>2 DEF StartService, PollInv, ClosedForGood, Alive
<1>3. CASE Request
  BY <1>3 DEF Request, PollInv, ClosedForGood, Alive
<1>4. CASE CloseRuntime
  BY <1>4 DEF CloseRuntime, PollInv, ClosedForGood, Alive
<1>5. CASE CloseService
  BY <1>5 DEF CloseService, PollInv, ClosedForGood, Alive
<1>6. CASE CloseCoordinator
  BY <1>6 DEF CloseCoordinator, PollInv, ClosedForGood, Alive
<1>7. CASE CloseResources
  BY <1>7 DEF CloseResources, PollInv, ClosedForGood, Joined, Alive
<1>8. CASE PollSteps \/ IntervalPasses
  BY <1>8, ThreadKeepsPollInv
<1>9. CASE UNCHANGED pollVars
  BY <1>9 DEF pollVars, PollInv, ClosedForGood, Alive
<1>. QED  BY <1>1, <1>2, <1>3, <1>4, <1>5, <1>6, <1>7, <1>8, <1>9 DEF PollNext, CloseSteps

(* Once close() has closed the stores no polling thread lives, and none is *)
(* started by a start() that overlapped it.                                *)
THEOREM PollClosedForGood == PollSpec => []ClosedForGood
<1>1. PollInv => ClosedForGood
  BY DEF PollInv
<1>. QED  BY <1>1, InitPollInv, NextPollInv, PTL DEF PollSpec

----------------------------------------------------------------------------
(***************************************************************************)
(* The connections of any number of worker processes with pools of any     *)
(* size: each is returned once by the one who has it, and one session at   *)
(* most has the vault's advisory lock.                                     *)
(***************************************************************************)

Steps == {"idle", "guard", "operation", "store", "promote", "leave", "join"}
Conns == [at : {"pool", "lease", "store", "probe"}, alive : BOOLEAN, locks : Nat]
Passes == [at : Steps, lease : Nat, beat : {"on", "off"}, stop : BOOLEAN,
           lost : BOOLEAN, left : Int]

LeaseTypeOK ==
    /\ DOMAIN conns = Replicas
    /\ \A p \in Replicas : conns[p] \in [Pool(p) -> Conns]
    /\ pass \in [Replicas -> Passes]
    /\ cancels \in Nat

(* Who has a connection: the pass that names it, or its one operation.     *)
OneOwner ==
    \A p \in Replicas :
        /\ At(p, "idle") => pass[p].lease = NoConn
        /\ pass[p].lease # NoConn => pass[p].lease \in Pool(p)
        /\ \A c \in Pool(p) :
              /\ conns[p][c].at = "lease" <=> pass[p].lease = c
              /\ conns[p][c].at = "store" =>
                    At(p, "store") /\ \A d \in Pool(p) : conns[p][d].at = "store" => d = c

(* How often a session may have taken the lock: a living lease has it, and *)
(* more than once, or without a pass, only after a cancelled statement.    *)
LocksCounted ==
    \A p \in Replicas : \A c \in Pool(p) :
        /\ pass[p].lease = c /\ conns[p][c].alive => Locks(p, c)
        /\ Locks(p, c) => LockIsFor(p, c) /\ (pass[p].lease = c \/ cancels > 0)
        /\ conns[p][c].locks > 1 => cancels > 0

LeaseInv == LeaseTypeOK /\ OneOwner /\ LocksCounted

(* NoConn names no connection.                                             *)
LEMMA PoolIds == \A p \in Replicas : \A c \in Pool(p) : c \in Nat /\ c # NoConn
<1>1. \A p \in Replicas : PoolSize[p] \in Nat
  BY LeaseAssumption
<1>. QED  BY <1>1 DEF Pool, NoConn

(* Before the first pass every connection is idle.                         *)
LEMMA InitLeaseInv == LeaseInit => LeaseInv
<1> SUFFICES ASSUME LeaseInit PROVE LeaseInv
  OBVIOUS
<1>1. \A p \in Replicas : \A c \in Pool(p) : conns[p][c].at = "pool" /\ conns[p][c].locks = 0
  BY DEF LeaseInit, FreshConn
<1>2. \A p \in Replicas : pass[p].lease = NoConn
  BY DEF LeaseInit, IdlePass
<1>3. LeaseTypeOK
  BY DEF LeaseInit, LeaseTypeOK, FreshConn, IdlePass, Conns, Passes, Steps, NoConn
<1>4. OneOwner
  BY <1>1, <1>2, PoolIds DEF OneOwner
<1>5. LocksCounted
  BY <1>1, <1>2, PoolIds DEF LocksCounted, Locks
<1>. QED  BY <1>3, <1>4, <1>5 DEF LeaseInv

(* The pass of p goes to a place, with l as its lease connection.          *)
Goes(p, place, l) ==
    /\ pass' \in [Replicas -> Passes]
    /\ \A q \in Replicas :
          /\ pass'[q].at = IF q = p THEN place ELSE pass[q].at
          /\ pass'[q].lease = IF q = p THEN l ELSE pass[q].lease

(* Setting one connection changes no other.                                *)
LEMMA SetOne ==
    ASSUME LeaseTypeOK, NEW p \in Replicas, NEW c \in Pool(p), NEW k \in Conns,
           SetConn(p, c, k)
    PROVE  /\ DOMAIN conns' = Replicas
           /\ \A q \in Replicas : conns'[q] \in [Pool(q) -> Conns]
           /\ \A q \in Replicas : \A d \in Pool(q) :
                 conns'[q][d] = IF q = p /\ d = c THEN k ELSE conns[q][d]
<1>1. \A q \in Replicas : conns'[q] = IF q = p THEN [conns[p] EXCEPT ![c] = k] ELSE conns[q]
  BY DEF LeaseTypeOK, SetConn
<1>2. DOMAIN conns' = Replicas
  BY DEF LeaseTypeOK, SetConn
<1>. QED  BY <1>1, <1>2 DEF LeaseTypeOK

(* A step that sets connection c of p, or none, keeps the invariant if     *)
(* what it says of c does, for the pass of p and for the sessions.         *)
LEMMA OneConnChanges ==
    ASSUME LeaseInv, NEW p \in Replicas, NEW c \in Pool(p), NEW k \in Conns,
           SetConn(p, c, k), NEW place, NEW l, Goes(p, place, l),
           cancels' \in Nat, cancels' >= cancels,
           l = pass[p].lease \/ (l \in {NoConn, c} /\ pass[p].lease \in {NoConn, c}),
           place = "idle" => l = NoConn,
           k.at = "lease" <=> l = c,
           At(p, "store") => place = "store" \/ (conns[p][c].at = "store" /\ k.at # "store"),
           k.at = "store" => place = "store" /\ (~At(p, "store") \/ conns[p][c].at = "store"),
           l = c /\ k.alive => k.locks > 0,
           k.locks > 0 => LockIsFor(p, c) /\ (l = c \/ cancels' > 0),
           k.locks > 1 => cancels' > 0
    PROVE  LeaseInv'
<1>1. /\ DOMAIN conns' = Replicas
      /\ \A q \in Replicas : conns'[q] \in [Pool(q) -> Conns]
      /\ \A q \in Replicas : \A d \in Pool(q) :
            conns'[q][d] = IF q = p /\ d = c THEN k ELSE conns[q][d]
  BY SetOne DEF LeaseInv
<1>2. LeaseTypeOK'
  BY <1>1 DEF LeaseTypeOK, Goes
<1>3. OneOwner'
  BY PoolIds, <1>1 DEF LeaseInv, OneOwner, Goes, At
<1>4. LocksCounted'
  <2> SUFFICES ASSUME NEW q \in Replicas, NEW d \in Pool(q)
               PROVE  /\ pass'[q].lease = d /\ conns'[q][d].alive => conns'[q][d].locks > 0
                      /\ conns'[q][d].locks > 0 =>
                            LockIsFor(q, d)' /\ (pass'[q].lease = d \/ cancels' > 0)
                      /\ conns'[q][d].locks > 1 => cancels' > 0
    BY DEF LocksCounted, Locks
  <2>l. \A r \in Replicas : \A e \in Pool(r) :
           /\ conns[r][e].locks > 0 => LockIsFor(r, e) /\ (pass[r].lease = e \/ cancels > 0)
           /\ pass[r].lease = e /\ conns[r][e].alive => conns[r][e].locks > 0
           /\ conns[r][e].locks > 1 => cancels > 0
    BY DEF LeaseInv, LocksCounted, Locks
  <2>n. cancels \in Nat
    BY DEF LeaseInv, LeaseTypeOK
  <2>1. CASE q = p /\ d = c
    <3>1. conns'[q][d] = k /\ pass'[q].lease = l
      BY <1>1, <2>1 DEF Goes
    <3>2. k.locks > 0 => LockIsFor(q, d)'
      BY <1>1, <2>1 DEF LockIsFor, Locks
    <3>. QED  BY <2>1, <3>1, <3>2
  <2>2. CASE ~(q = p /\ d = c)
    <3>1. conns'[q][d] = conns[q][d]
      BY <1>1, <2>2
    <3>2. pass'[q].lease = d <=> pass[q].lease = d
      BY PoolIds, <2>2 DEF Goes
    <3>3. conns[q][d].locks > 0 => LockIsFor(q, d)'
      BY <1>1, <2>l, <2>2 DEF LockIsFor, Locks
    <3>. QED  BY <2>l, <2>n, <3>1, <3>2, <3>3
  <2>. QED  BY <2>1, <2>2
<1>. QED  BY <1>2, <1>3, <1>4 DEF LeaseInv

(* A step of the pass that touches no connection.                          *)
LEMMA OnlyPassMoves ==
    ASSUME LeaseInv, NEW p \in Replicas, NEW place, Goes(p, place, pass[p].lease),
           UNCHANGED <<conns, cancels>>,
           place = "idle" => pass[p].lease = NoConn,
           At(p, "store") => place = "store"
    PROVE  LeaseInv'
<1>1. LeaseTypeOK'
  BY DEF LeaseInv, LeaseTypeOK, Goes
<1>2. OneOwner'
  BY DEF LeaseInv, OneOwner, Goes, At
<1>3. LocksCounted'
  BY DEF LeaseInv, LocksCounted, LockIsFor, Locks, Goes
<1>. QED  BY <1>1, <1>2, <1>3 DEF LeaseInv

(* The pass of p, as a record, with some of its fields set.                *)
LEMMA PassGoes ==
    ASSUME LeaseTypeOK, NEW p \in Replicas, NEW r \in Passes,
           pass' = [pass EXCEPT ![p] = r]
    PROVE  Goes(p, r.at, r.lease)
  BY DEF LeaseTypeOK, Goes

(* What comes of a connection that is given back.                          *)
LEMMA ReturnedTo ==
    ASSUME NEW k \in Conns
    PROVE  /\ Returned(k) \in Conns /\ Returned(k).at = "pool"
           /\ Returned(k).locks = IF k.alive THEN k.locks ELSE 0
  BY DEF Returned, FreshConn, Conns

(* A pass that nobody touches stays where it is.                           *)
LEMMA PassStays ==
    ASSUME LeaseTypeOK, NEW p \in Replicas, UNCHANGED pass
    PROVE  Goes(p, pass[p].at, pass[p].lease)
  BY DEF LeaseTypeOK, Goes

(* refresh() that fails, from whichever thread: the session is returned,   *)
(* and if it lives, a statement on it was cancelled.                       *)
LEMMA RefuseKeeps ==
    ASSUME LeaseInv, NEW p \in Replicas, NEW r \in Passes, Refuse(p, r),
           r.lease = pass[p].lease, r.at # "idle" \/ At(p, "idle"),
           At(p, "store") => r.at = "store"
    PROVE  LeaseInv'
<1>i. LeaseTypeOK /\ OneOwner /\ LocksCounted
  BY DEF LeaseInv
<1>1. CASE pass[p].lease = NoConn
  <2>1. Goes(p, r.at, pass[p].lease) /\ UNCHANGED <<conns, cancels>>
    BY <1>1, <1>i, PassGoes DEF Refuse
  <2>. QED  BY <1>1, <2>1, OnlyPassMoves
<1>2. CASE pass[p].lease # NoConn
  <2> DEFINE c == pass[p].lease
             k == Returned(conns[p][c])
  <2>1. c \in Pool(p) /\ ~At(p, "idle") /\ conns[p][c].at = "lease"
    BY <1>2, <1>i DEF OneOwner
  <2>2. conns[p][c] \in Conns /\ cancels \in Nat
    BY <1>i, <2>1 DEF LeaseTypeOK
  <2>3. /\ k \in Conns /\ k.at = "pool"
        /\ k.locks = IF conns[p][c].alive THEN conns[p][c].locks ELSE 0
    BY <2>2, ReturnedTo
  <2>4. /\ SetConn(p, c, k) /\ pass' = [pass EXCEPT ![p] = Cleared(r)]
        /\ cancels' = IF conns[p][c].alive THEN cancels + 1 ELSE cancels
    BY <1>2 DEF Refuse, Give, Own, Cancel
  <2>5. Cleared(r) \in Passes /\ Cleared(r).at = r.at /\ Cleared(r).lease = NoConn
    BY DEF Cleared, Passes, NoConn
  <2>6. Goes(p, r.at, NoConn)
    BY <1>i, <2>4, <2>5, PassGoes
  <2>7. /\ k.locks > 0 => LockIsFor(p, c) /\ cancels' > 0
        /\ k.locks > 1 => cancels' > 0
        /\ cancels' \in Nat /\ cancels' >= cancels
    BY <1>i, <2>1, <2>2, <2>3, <2>4 DEF LocksCounted, Locks
  <2> HIDE DEF k
  <2>. QED  BY <1>2, <2>1, <2>3, <2>4, <2>6, <2>7, OneConnChanges
<1>. QED  BY <1>1, <1>2

(* The steps of a pass and of its heartbeat.                               *)
LEMMA PassKeepsLeaseInv ==
    ASSUME LeaseInv, NEW p \in Replicas,
           AcquireLease(p) \/ PassSteps(p) \/ HeartbeatFails(p)
    PROVE  LeaseInv'
<1>i. LeaseTypeOK /\ OneOwner /\ LocksCounted
  BY DEF LeaseInv
<1>p. pass[p] \in Passes /\ cancels \in Nat
  BY <1>i DEF LeaseTypeOK
<1>c. ASSUME NEW c \in Pool(p)
      PROVE  /\ conns[p][c] \in Conns
             /\ conns[p][c].at = "lease" <=> pass[p].lease = c
             /\ pass[p].lease = c /\ conns[p][c].alive => conns[p][c].locks > 0
             /\ conns[p][c].locks > 0 => LockIsFor(p, c) /\ (pass[p].lease = c \/ cancels > 0)
             /\ conns[p][c].locks > 1 => cancels > 0
  BY <1>i DEF LeaseTypeOK, OneOwner, LocksCounted, Locks
<1>m. ASSUME NEW place \in Steps, MoveTo(p, place)
      PROVE  Goes(p, place, pass[p].lease)
  <2>1. pass' = [pass EXCEPT ![p] = [pass[p] EXCEPT !.at = place]]
    BY <1>m, <1>i DEF MoveTo, LeaseTypeOK
  <2>2. [pass[p] EXCEPT !.at = place] \in Passes
    BY <1>p DEF Passes
  <2>. QED  BY <1>i, <1>p, <2>1, <2>2, PassGoes DEF Passes
<1>1. CASE AcquireLease(p)
  <2>1. PICK c \in Free(p) :
           \/ /\ conns[p][c].alive /\ LockIsFor(p, c)
              /\ SetConn(p, c, [conns[p][c] EXCEPT !.at = "lease", !.locks = @ + 1])
              /\ pass' = [pass EXCEPT ![p] = [at |-> "guard", lease |-> c, beat |-> "on",
                                              stop |-> FALSE, lost |-> FALSE, left |-> Operations]]
           \/ ~conns[p][c].alive /\ Give(p, c) /\ UNCHANGED pass
    BY <1>1 DEF AcquireLease
  <2>2. /\ c \in Pool(p) /\ conns[p][c].at = "pool" /\ c \in Nat
        /\ At(p, "idle") /\ pass[p].lease = NoConn /\ c # NoConn /\ cancels' = cancels
    BY <1>1, <1>i, PoolIds DEF AcquireLease, Free, OneOwner
  <2>3. CASE ~conns[p][c].alive /\ Give(p, c) /\ UNCHANGED pass
    <3> DEFINE k == Returned(conns[p][c])
    <3>1. k \in Conns /\ k.at = "pool" /\ k.locks = 0
      BY <1>c, <2>2, <2>3, ReturnedTo
    <3>2. SetConn(p, c, k) /\ Goes(p, "idle", NoConn)
      BY <1>i, <2>2, <2>3, PassStays DEF Give, At
    <3> HIDE DEF k
    <3>. QED  BY <1>p, <2>2, <3>1, <3>2, OneConnChanges DEF At
  <2>4. CASE /\ conns[p][c].alive /\ LockIsFor(p, c)
             /\ SetConn(p, c, [conns[p][c] EXCEPT !.at = "lease", !.locks = @ + 1])
             /\ pass' = [pass EXCEPT ![p] = [at |-> "guard", lease |-> c, beat |-> "on",
                                             stop |-> FALSE, lost |-> FALSE, left |-> Operations]]
    <3> DEFINE n == conns[p][c].locks + 1
               k == [conns[p][c] EXCEPT !.at = "lease", !.locks = n]
    <3>0. /\ conns[p][c] \in Conns /\ conns[p][c].locks \in Nat
          /\ n = conns[p][c].locks + 1 /\ n \in Nat
      BY <1>c, <2>2 DEF Conns
    <3>4. SetConn(p, c, k)
      BY <2>4
    <3> HIDE DEF n
    <3>1. k \in Conns /\ k.at = "lease" /\ k.locks = conns[p][c].locks + 1
      BY <3>0 DEF Conns
    <3>2. Goes(p, "guard", c)
      <4>1. [at |-> "guard", lease |-> c, beat |-> "on", stop |-> FALSE, lost |-> FALSE,
             left |-> Operations] \in Passes
        BY <2>2, LeaseAssumption DEF Passes, Steps
      <4>. QED  BY <1>i, <2>4, <4>1, PassGoes
    <3>3. k.locks > 1 => cancels > 0
      BY <1>c, <2>2, <3>0, <3>1
    <3> HIDE DEF k
    <3>. QED  BY <1>p, <2>2, <2>4, <3>0, <3>1, <3>2, <3>3, <3>4, OneConnChanges DEF At
  <2>. QED  BY <2>1, <2>3, <2>4
<1>2. CASE HeartbeatFails(p)
  <2> DEFINE r == [pass[p] EXCEPT !.lost = TRUE, !.beat = "off"]
  <2>1. r \in Passes /\ r.at = pass[p].at /\ r.lease = pass[p].lease
    BY <1>p DEF Passes
  <2>2. Refuse(p, r)
    BY <1>2 DEF HeartbeatFails
  <2> HIDE DEF r
  <2>. QED  BY <2>1, <2>2, RefuseKeeps DEF At
<1>3. CASE HeartbeatEnds(p)
  <2> DEFINE r == [pass[p] EXCEPT !.beat = "off"]
  <2>1. r \in Passes /\ r.at = pass[p].at /\ r.lease = pass[p].lease
    BY <1>p DEF Passes
  <2>2. pass' = [pass EXCEPT ![p] = r] /\ UNCHANGED <<conns, cancels>>
    BY <1>3, <1>i DEF HeartbeatEnds, LeaseTypeOK
  <2> HIDE DEF r
  <2>3. Goes(p, pass[p].at, pass[p].lease)
    BY <1>i, <2>1, <2>2, PassGoes
  <2>. QED  BY <1>i, <2>2, <2>3, OnlyPassMoves DEF At, OneOwner
<1>4. CASE EnsureHeld(p)
  <2>1. CASE UNCHANGED <<conns, cancels>> /\ \E place \in Steps \ {"idle"} : MoveTo(p, place)
    BY <1>4, <1>m, <2>1, OnlyPassMoves DEF EnsureHeld, At
  <2>2. CASE Refuse(p, [pass[p] EXCEPT !.lost = TRUE, !.at = "leave"])
    <3> DEFINE r == [pass[p] EXCEPT !.lost = TRUE, !.at = "leave"]
    <3>1. r \in Passes /\ r.at = "leave" /\ r.lease = pass[p].lease
      BY <1>p DEF Passes, Steps
    <3>2. Refuse(p, r)
      BY <2>2
    <3> HIDE DEF r
    <3>. QED  BY <1>4, <3>1, <3>2, RefuseKeeps DEF EnsureHeld, At
  <2>. QED  BY <1>4, <2>1, <2>2 DEF EnsureHeld, Steps
<1>5. CASE TakeConnection(p)
  <2>1. PICK c \in Free(p) : SetConn(p, c, [conns[p][c] EXCEPT !.at = "store"])
    BY <1>5 DEF TakeConnection
  <2> DEFINE k == [conns[p][c] EXCEPT !.at = "store"]
  <2>2. c \in Pool(p) /\ conns[p][c].at = "pool"
    BY DEF Free
  <2>3. /\ k \in Conns /\ k.at = "store" /\ k.locks = conns[p][c].locks
        /\ SetConn(p, c, k)
    BY <1>c, <2>1, <2>2 DEF Conns
  <2>4. Goes(p, "store", pass[p].lease) /\ At(p, "operation") /\ cancels' = cancels
    BY <1>5, <1>m DEF TakeConnection, Steps
  <2> HIDE DEF k
  <2>. QED  BY <1>c, <1>p, <2>2, <2>3, <2>4, OneConnChanges DEF At
<1>6. CASE NoConnection(p)
  BY <1>6, <1>m, OnlyPassMoves DEF NoConnection, Steps, At
<1>7. CASE EndOperation(p)
  <2>1. PICK c \in Pool(p) :
           /\ conns[p][c].at = "store" /\ Give(p, c)
           /\ pass' = [pass EXCEPT ![p].at = IF conns[p][c].alive THEN "guard" ELSE "leave",
                                   ![p].left = @ - 1]
    BY <1>7 DEF EndOperation
  <2> DEFINE k == Returned(conns[p][c])
             place == IF conns[p][c].alive THEN "guard" ELSE "leave"
             r == [pass[p] EXCEPT !.at = place, !.left = @ - 1]
  <2>2. /\ k \in Conns /\ k.at = "pool"
        /\ k.locks = IF conns[p][c].alive THEN conns[p][c].locks ELSE 0
    BY <1>c, ReturnedTo
  <2>3. r \in Passes /\ r.at = place /\ r.lease = pass[p].lease
    <3>1. place \in Steps /\ pass[p].left - 1 \in Int
      BY <1>p DEF Passes, Steps
    <3> HIDE DEF place
    <3>. QED  BY <1>p, <3>1 DEF Passes
  <2>4. pass' = [pass EXCEPT ![p] = r] /\ SetConn(p, c, k) /\ cancels' = cancels
    BY <1>7, <1>i, <2>1 DEF EndOperation, Give, LeaseTypeOK
  <2>5. place \in {"guard", "leave"}
    OBVIOUS
  <2> HIDE DEF k, r, place
  <2>6. Goes(p, place, pass[p].lease)
    BY <1>i, <2>3, <2>4, PassGoes
  <2>. QED  BY <1>c, <1>p, <2>1, <2>2, <2>4, <2>5, <2>6, OneConnChanges
<1>8. CASE PromoteOnLease(p) \/ StopHeartbeat(p)
  <2>1. PICK r \in Passes : /\ pass' = [pass EXCEPT ![p] = r]
                            /\ r.at \in {"leave", "join"} /\ r.lease = pass[p].lease
    <3>1. CASE PromoteOnLease(p)
      <4> DEFINE r == [pass[p] EXCEPT !.at = "leave", !.lost = @ \/ ~Holds(p)]
      <4>1. r \in Passes /\ r.at = "leave" /\ r.lease = pass[p].lease
        BY <1>p DEF Passes, Steps
      <4>2. pass' = [pass EXCEPT ![p] = r]
        BY <1>i, <3>1 DEF PromoteOnLease, LeaseTypeOK
      <4>. QED  BY <4>1, <4>2
    <3>2. CASE StopHeartbeat(p)
      <4> DEFINE r == [pass[p] EXCEPT !.at = "join", !.stop = TRUE]
      <4>1. r \in Passes /\ r.at = "join" /\ r.lease = pass[p].lease
        BY <1>p DEF Passes, Steps
      <4>2. pass' = [pass EXCEPT ![p] = r]
        BY <1>i, <3>2 DEF StopHeartbeat, LeaseTypeOK
      <4>. QED  BY <4>1, <4>2
    <3>. QED  BY <1>8, <3>1, <3>2
  <2>2. Goes(p, r.at, pass[p].lease)
    BY <1>i, <2>1, PassGoes
  <2>. QED  BY <1>8, <2>1, <2>2, OnlyPassMoves DEF PromoteOnLease, StopHeartbeat, At
<1>9. CASE ReleaseLease(p)
  <2>1. Goes(p, "idle", NoConn) /\ At(p, "join")
    <3>1. IdlePass \in Passes /\ IdlePass.at = "idle" /\ IdlePass.lease = NoConn
      BY DEF IdlePass, Passes, Steps, NoConn
    <3>. QED  BY <1>9, <1>i, <3>1, PassGoes DEF ReleaseLease
  <2>2. CASE pass[p].lease = NoConn
    BY <1>9, <2>1, <2>2, OnlyPassMoves DEF ReleaseLease, At
  <2>3. CASE pass[p].lease # NoConn
    <3> DEFINE c == pass[p].lease
    <3>1. c \in Pool(p) /\ conns[p][c] \in Conns
      BY <1>c, <1>i, <2>3 DEF OneOwner
    <3>2. PICK k \in Conns : /\ SetConn(p, c, k) /\ k.at = "pool"
                             /\ k.locks > 0 => conns[p][c].locks > 0 /\ cancels' > 0
                             /\ cancels' \in Nat /\ cancels' >= cancels
      <4>1. CASE conns[p][c].alive /\ cancels' = cancels
                 /\ SetConn(p, c, Returned([conns[p][c] EXCEPT !.locks = @ - 1]))
        <5> DEFINE u == [conns[p][c] EXCEPT !.locks = @ - 1]
        <5>1. conns[p][c].locks \in Nat /\ conns[p][c].locks > 0
          BY <1>c, <3>1, <4>1 DEF Conns
        <5>2. u \in Conns /\ u.locks = conns[p][c].locks - 1
          BY <3>1, <5>1 DEF Conns
        <5>3. SetConn(p, c, Returned(u))
          BY <4>1
        <5> HIDE DEF u
        <5>4. /\ Returned(u) \in Conns /\ Returned(u).at = "pool"
              /\ Returned(u).locks = IF u.alive THEN u.locks ELSE 0
          BY <5>2, ReturnedTo
        <5>5. Returned(u).locks > 0 => conns[p][c].locks > 1
          BY <5>1, <5>2, <5>4
        <5>. QED  BY <1>c, <1>p, <3>1, <4>1, <5>1, <5>3, <5>4, <5>5
      <4>2. CASE /\ cancels' = IF conns[p][c].alive THEN cancels + 1 ELSE cancels
                 /\ SetConn(p, c, Returned(conns[p][c]))
        <5>1. /\ Returned(conns[p][c]) \in Conns /\ Returned(conns[p][c]).at = "pool"
              /\ Returned(conns[p][c]).locks = IF conns[p][c].alive THEN conns[p][c].locks ELSE 0
          BY <3>1, ReturnedTo
        <5>. QED  BY <1>p, <4>2, <5>1
      <4>. QED  BY <1>9, <2>3, <4>1, <4>2 DEF ReleaseLease, Own, Give, Cancel
    <3>3. LockIsFor(p, c) \/ ~(conns[p][c].locks > 0)
      BY <1>c, <3>1
    <3>4. k.locks > 1 => cancels' > 0
      BY <3>2 DEF Conns
    <3>. QED  BY <2>1, <2>3, <3>1, <3>2, <3>3, <3>4, OneConnChanges DEF At
  <2>. QED  BY <2>2, <2>3
<1>. QED
  BY <1>1, <1>2, <1>3, <1>4, <1>5, <1>6, <1>7, <1>8, <1>9 DEF PassSteps

(* The health check, and what happens to sessions from outside.            *)
LEMMA NextLeaseInv == LeaseInv /\ [LeaseNext]_leaseVars => LeaseInv'
<1> SUFFICES ASSUME LeaseInv, [LeaseNext]_leaseVars PROVE LeaseInv'
  OBVIOUS
<1>i. LeaseTypeOK /\ OneOwner /\ LocksCounted
  BY DEF LeaseInv
<1>1. ASSUME NEW p \in Replicas, AcquireLease(p) \/ PassSteps(p) \/ HeartbeatFails(p)
      PROVE  LeaseInv'
  BY <1>1, PassKeepsLeaseInv
<1>2. ASSUME NEW p \in Replicas, NEW c \in Pool(p), NEW k \in Conns, SetConn(p, c, k),
             UNCHANGED <<pass, cancels>>,
             k.at = conns[p][c].at \/ (k.at \notin {"lease", "store"}
                                       /\ conns[p][c].at \notin {"lease", "store"}),
             k.locks = conns[p][c].locks \/ k.locks = 0,
             k.alive => k.locks = conns[p][c].locks \/ k.at # "lease",
             k.alive => conns[p][c].alive \/ k.at # "lease"
      PROVE  LeaseInv'
  <2>1. Goes(p, pass[p].at, pass[p].lease)
    BY <1>2, <1>i, PassStays
  <2>2. cancels \in Nat
    BY <1>i DEF LeaseTypeOK
  <2>3. /\ conns[p][c].at = "lease" <=> pass[p].lease = c
        /\ conns[p][c].at = "store" => At(p, "store")
        /\ At(p, "idle") => pass[p].lease = NoConn
    BY <1>2, <1>i DEF OneOwner
  <2>4. /\ pass[p].lease = c /\ conns[p][c].alive => conns[p][c].locks > 0
        /\ conns[p][c].locks > 0 => LockIsFor(p, c) /\ (pass[p].lease = c \/ cancels > 0)
        /\ conns[p][c].locks > 1 => cancels > 0
    BY <1>2, <1>i DEF LocksCounted, Locks
  <2>. QED  BY <1>2, <2>1, <2>2, <2>3, <2>4, OneConnChanges DEF At
<1>3. ASSUME NEW p \in Replicas, ProbeTakes(p) PROVE LeaseInv'
  <2>1. PICK c \in Free(p) : SetConn(p, c, [conns[p][c] EXCEPT !.at = "probe"])
    BY <1>3 DEF ProbeTakes
  <2>2. c \in Pool(p) /\ conns[p][c] \in Conns /\ conns[p][c].at = "pool"
    BY <1>i DEF Free, LeaseTypeOK
  <2> DEFINE k == [conns[p][c] EXCEPT !.at = "probe"]
  <2>3. k \in Conns /\ k.at = "probe" /\ k.locks = conns[p][c].locks /\ SetConn(p, c, k)
    BY <2>1, <2>2 DEF Conns
  <2> HIDE DEF k
  <2>. QED  BY <1>2, <1>3, <2>2, <2>3 DEF ProbeTakes
<1>4. ASSUME NEW p \in Replicas, ProbeEnds(p) PROVE LeaseInv'
  <2>1. PICK c \in Pool(p) : conns[p][c].at = "probe" /\ SetConn(p, c, Returned(conns[p][c]))
    BY <1>4 DEF ProbeEnds, Give
  <2>2. conns[p][c] \in Conns
    BY <1>i DEF LeaseTypeOK
  <2> DEFINE k == Returned(conns[p][c])
  <2>3. k \in Conns /\ k.at = "pool" /\ (k.locks = conns[p][c].locks \/ k.locks = 0)
    BY <2>2, ReturnedTo
  <2>4. SetConn(p, c, k)
    BY <2>1
  <2> HIDE DEF k
  <2>. QED  BY <1>2, <1>4, <2>1, <2>3, <2>4 DEF ProbeEnds
<1>5. ASSUME NEW p \in Replicas, CutSession(p) PROVE LeaseInv'
  <2>1. PICK c \in Pool(p) : SetConn(p, c, [conns[p][c] EXCEPT !.alive = FALSE, !.locks = 0])
    BY <1>5 DEF CutSession
  <2>2. conns[p][c] \in Conns
    BY <1>i DEF LeaseTypeOK
  <2> DEFINE k == [conns[p][c] EXCEPT !.alive = FALSE, !.locks = 0]
  <2>3. k \in Conns /\ k.at = conns[p][c].at /\ k.locks = 0 /\ ~k.alive
    BY <2>2 DEF Conns
  <2>4. SetConn(p, c, k)
    BY <2>1
  <2> HIDE DEF k
  <2>. QED  BY <1>2, <1>5, <2>3, <2>4 DEF CutSession
<1>6. ASSUME NEW p \in Replicas, RecycleConn(p) PROVE LeaseInv'
  <2>1. PICK c \in Pool(p) : conns[p][c].at = "pool" /\ SetConn(p, c, FreshConn)
    BY <1>6 DEF RecycleConn, Free
  <2>2. FreshConn \in Conns /\ FreshConn.at = "pool" /\ FreshConn.locks = 0
    BY DEF FreshConn, Conns
  <2>. QED  BY <1>2, <1>6, <2>1, <2>2 DEF RecycleConn
<1>7. CASE UNCHANGED leaseVars
  BY <1>7 DEF leaseVars, LeaseInv, LeaseTypeOK, OneOwner, LocksCounted, LockIsFor, Locks, At
<1>. QED  BY <1>1, <1>3, <1>4, <1>5, <1>6, <1>7 DEF LeaseNext

(* A pass, its heartbeat and the pool agree on whose each connection is,   *)
(* for any number of processes and pools of any size, and no two sessions  *)
(* have the advisory lock of the vault.                                    *)
THEOREM LeaseSessionsOwned == LeaseSpec => []SessionsOwned
<1>1. LeaseInv => SessionsOwned
  BY DEF LeaseInv, OneOwner, LocksCounted, SessionsOwned
<1>. QED  BY <1>1, InitLeaseInv, NextLeaseInv, PTL DEF LeaseSpec

(* The lease of VaultLease, as the passes of all processes see it.         *)
Standings == [p \in Replicas |-> Standing(p)]

(* A step that leaves the lease connection of p alone does not change how  *)
(* the pass of p stands.                                                   *)
LEMMA StandingStays ==
    ASSUME LeaseInv, NEW p \in Replicas,
           At(p, "idle")' <=> At(p, "idle"), pass'[p].lease = pass[p].lease,
           \/ UNCHANGED conns
           \/ \E c \in Pool(p) : \E k : conns[p][c].at # "lease" /\ SetConn(p, c, k)
    PROVE  Standing(p)' = Standing(p)
<1>1. CASE pass[p].lease = NoConn
  BY <1>1 DEF Standing, Holds
<1>2. CASE pass[p].lease # NoConn
  <2>1. /\ pass[p].lease \in Pool(p) /\ conns[p][pass[p].lease].at = "lease"
        /\ DOMAIN conns = Replicas /\ conns[p] \in [Pool(p) -> Conns]
    BY <1>2 DEF LeaseInv, LeaseTypeOK, OneOwner
  <2>2. conns'[p][pass[p].lease] = conns[p][pass[p].lease]
    BY <2>1 DEF SetConn
  <2>. QED  BY <2>2 DEF Standing, Holds, Own
<1>. QED  BY <1>1, <1>2

(* refresh() that fails: the pass that had the lease has lost it.          *)
LEMMA RefuseLoses ==
    ASSUME LeaseInv, NEW p \in Replicas, NEW r, Refuse(p, r), r.lease = pass[p].lease,
           r.at = "idle" <=> At(p, "idle"), Cleared(r).at = r.at, Cleared(r).lease = NoConn
    PROVE  Standing(p)' = Standing(p) \/ (Standing(p) = "live" /\ Standing(p)' = "lost")
<1>t. pass \in [Replicas -> Passes] /\ (At(p, "idle") => pass[p].lease = NoConn)
  BY DEF LeaseInv, LeaseTypeOK, OneOwner
<1>1. CASE pass[p].lease = NoConn
  <2>1. pass'[p] = r /\ UNCHANGED conns
    BY <1>1, <1>t DEF Refuse
  <2>. QED  BY <2>1, StandingStays DEF At
<1>2. CASE pass[p].lease # NoConn
  <2>1. pass'[p] = Cleared(r) /\ ~At(p, "idle")
    BY <1>2, <1>t DEF Refuse
  <2>2. Standing(p)' = "lost"
    BY <2>1 DEF Standing, Holds, At
  <2>3. Standing(p) \in {"live", "lost"}
    BY <2>1 DEF Standing
  <2>. QED  BY <2>2, <2>3
<1>. QED  BY <1>1, <1>2

(* What one step does to the standing of its process.                      *)
StandingMoves(p) ==
    \/ Standing(p)' = Standing(p)
    \/ Standing(p)' = "none"
    \/ Standing(p) = "live" /\ Standing(p)' = "lost"
    \/ /\ Standing(p) = "none" /\ Standing(p)' = "live"
       /\ \A q \in Replicas : Standing(q) # "live"

(* The steps of the pass and of its heartbeat.                             *)
LEMMA PassStanding ==
    ASSUME LeaseInv, NEW p \in Replicas,
           AcquireLease(p) \/ PassSteps(p) \/ HeartbeatFails(p)
    PROVE  StandingMoves(p)
<1>i. LeaseTypeOK /\ OneOwner /\ LocksCounted
  BY DEF LeaseInv
<1>t. /\ pass \in [Replicas -> Passes] /\ pass[p] \in Passes
      /\ DOMAIN conns = Replicas /\ conns[p] \in [Pool(p) -> Conns]
      /\ At(p, "idle") => pass[p].lease = NoConn
  BY <1>i DEF LeaseTypeOK, OneOwner
<1>m. ASSUME NEW place, MoveTo(p, place)
      PROVE  (At(p, "idle")' <=> place = "idle") /\ pass'[p].lease = pass[p].lease
  <2>1. pass'[p] = [pass[p] EXCEPT !.at = place]
    BY <1>m, <1>t DEF MoveTo
  <2>. QED  BY <2>1, <1>t DEF At, Passes
<1>1. CASE AcquireLease(p)
  <2>1. PICK c \in Free(p) :
           \/ /\ conns[p][c].alive /\ LockIsFor(p, c)
              /\ SetConn(p, c, [conns[p][c] EXCEPT !.at = "lease", !.locks = @ + 1])
              /\ pass' = [pass EXCEPT ![p] = [at |-> "guard", lease |-> c, beat |-> "on",
                                              stop |-> FALSE, lost |-> FALSE, left |-> Operations]]
           \/ ~conns[p][c].alive /\ Give(p, c) /\ UNCHANGED pass
    BY <1>1 DEF AcquireLease
  <2>2. At(p, "idle") /\ pass[p].lease = NoConn
    BY <1>1, <1>t DEF AcquireLease
  <2>3. CASE UNCHANGED pass
    <3>1. Standing(p)' = "none"
      BY <2>2, <2>3 DEF Standing, At
    <3>. QED  BY <3>1 DEF StandingMoves
  <2>4. CASE /\ conns[p][c].alive /\ LockIsFor(p, c)
             /\ SetConn(p, c, [conns[p][c] EXCEPT !.at = "lease", !.locks = @ + 1])
             /\ pass' = [pass EXCEPT ![p] = [at |-> "guard", lease |-> c, beat |-> "on",
                                             stop |-> FALSE, lost |-> FALSE, left |-> Operations]]
    <3>1. c \in Pool(p) /\ c # NoConn
      BY PoolIds DEF Free
    <3>2. pass'[p].at = "guard" /\ pass'[p].lease = c
      BY <2>4, <1>t
    <3>3. conns'[p][c].alive
      BY <2>4, <3>1, <1>t DEF SetConn, Conns
    <3>4. Standing(p)' = "live"
      BY <3>1, <3>2, <3>3 DEF Standing, Holds, Own, At
    <3>5. ASSUME NEW q \in Replicas, Standing(q) = "live" PROVE FALSE
      <4>1. pass[q].lease # NoConn /\ conns[q][pass[q].lease].alive
        BY <3>5 DEF Standing, Holds, Own
      <4>2. pass[q].lease \in Pool(q)
        BY <4>1, <1>i DEF OneOwner
      <4>3. Locks(q, pass[q].lease)
        BY <4>1, <4>2, <1>i DEF LocksCounted
      <4>4. q = p
        BY <2>4, <4>2, <4>3 DEF LockIsFor
      <4>. QED  BY <2>2, <4>1, <4>4
    <3>6. Standing(p) = "none"
      BY <2>2 DEF Standing
    <3>. QED  BY <3>4, <3>5, <3>6 DEF StandingMoves
  <2>. QED  BY <2>1, <2>3, <2>4
<1>2. CASE HeartbeatFails(p)
  <2> DEFINE r == [pass[p] EXCEPT !.lost = TRUE, !.beat = "off"]
  <2>1. /\ r.at = pass[p].at /\ r.lease = pass[p].lease
        /\ Cleared(r).at = r.at /\ Cleared(r).lease = NoConn
    BY <1>t DEF Passes, Cleared
  <2>2. Refuse(p, r)
    BY <1>2 DEF HeartbeatFails
  <2> HIDE DEF r
  <2>. QED  BY <2>1, <2>2, RefuseLoses DEF At, StandingMoves
<1>3. CASE EnsureHeld(p) /\ UNCHANGED conns
           /\ \E place \in {"leave", "operation", "promote"} : MoveTo(p, place)
  BY <1>3, <1>m, StandingStays DEF EnsureHeld, At, StandingMoves
<1>4. CASE EnsureHeld(p) /\ Refuse(p, [pass[p] EXCEPT !.lost = TRUE, !.at = "leave"])
  <2> DEFINE r == [pass[p] EXCEPT !.lost = TRUE, !.at = "leave"]
  <2>1. /\ r.at = "leave" /\ r.lease = pass[p].lease
        /\ Cleared(r).at = r.at /\ Cleared(r).lease = NoConn
    BY <1>t DEF Passes, Cleared
  <2>2. Refuse(p, r) /\ ~At(p, "idle")
    BY <1>4 DEF EnsureHeld, At
  <2> HIDE DEF r
  <2>. QED  BY <2>1, <2>2, RefuseLoses DEF StandingMoves
<1>5. CASE TakeConnection(p)
  <2>1. \E c \in Pool(p) : \E k : conns[p][c].at # "lease" /\ SetConn(p, c, k)
    BY <1>5 DEF TakeConnection, Free
  <2>2. ~At(p, "idle") /\ MoveTo(p, "store")
    BY <1>5 DEF TakeConnection, At
  <2>. QED  BY <2>1, <2>2, <1>m, StandingStays DEF StandingMoves
<1>6. CASE NoConnection(p)
  BY <1>6, <1>m, StandingStays DEF NoConnection, At, StandingMoves
<1>7. CASE EndOperation(p)
  <2>1. PICK c \in Pool(p) :
           /\ conns[p][c].at = "store" /\ Give(p, c)
           /\ pass' = [pass EXCEPT ![p].at = IF conns[p][c].alive THEN "guard" ELSE "leave",
                                   ![p].left = @ - 1]
    BY <1>7 DEF EndOperation
  <2>2. /\ pass'[p].at \in {"guard", "leave"} /\ pass'[p].lease = pass[p].lease
        /\ At(p, "store")
    BY <1>7, <2>1, <1>t DEF EndOperation, Passes
  <2>. QED  BY <2>1, <2>2, StandingStays DEF Give, At, StandingMoves
<1>8. CASE PromoteOnLease(p) \/ StopHeartbeat(p) \/ HeartbeatEnds(p)
  <2>1. /\ pass'[p].lease = pass[p].lease /\ UNCHANGED conns
        /\ pass'[p].at = "idle" <=> pass[p].at = "idle"
    BY <1>8, <1>t DEF PromoteOnLease, StopHeartbeat, HeartbeatEnds, Passes, At
  <2>. QED  BY <2>1, StandingStays DEF At, StandingMoves
<1>9. CASE ReleaseLease(p)
  <2>1. pass'[p] = IdlePass
    BY <1>9, <1>t DEF ReleaseLease
  <2>2. Standing(p)' = "none"
    BY <2>1 DEF IdlePass, Standing, At
  <2>. QED  BY <2>2 DEF StandingMoves
<1>10. EnsureHeld(p) => \/ UNCHANGED conns
                          /\ \E place \in {"leave", "operation", "promote"} : MoveTo(p, place)
                       \/ Refuse(p, [pass[p] EXCEPT !.lost = TRUE, !.at = "leave"])
  BY DEF EnsureHeld
<1>. QED
  BY <1>1, <1>2, <1>3, <1>4, <1>5, <1>6, <1>7, <1>8, <1>9, <1>10 DEF PassSteps

(* The health check, the pool and the server.                              *)
LEMMA PoolStanding ==
    ASSUME LeaseInv, NEW p \in Replicas,
           ProbeTakes(p) \/ ProbeEnds(p) \/ CutSession(p) \/ RecycleConn(p)
    PROVE  StandingMoves(p)
<1>t. /\ pass[p] \in Passes /\ DOMAIN conns = Replicas /\ conns[p] \in [Pool(p) -> Conns]
      /\ At(p, "idle") => pass[p].lease = NoConn
      /\ UNCHANGED pass
  BY DEF LeaseInv, LeaseTypeOK, OneOwner, ProbeTakes, ProbeEnds, CutSession, RecycleConn
<1>1. CASE \E c \in Pool(p) : \E k : conns[p][c].at # "lease" /\ SetConn(p, c, k)
  BY <1>1, <1>t, StandingStays DEF At, StandingMoves
<1>2. CASE \E c \in Pool(p) : conns[p][c].at = "lease"
                              /\ SetConn(p, c, [conns[p][c] EXCEPT !.alive = FALSE, !.locks = 0])
  <2>1. PICK c \in Pool(p) : conns[p][c].at = "lease"
                             /\ SetConn(p, c, [conns[p][c] EXCEPT !.alive = FALSE, !.locks = 0])
    BY <1>2
  <2>2. pass[p].lease = c /\ c # NoConn
    BY <2>1, PoolIds DEF LeaseInv, OneOwner
  <2>3. ~conns'[p][c].alive
    BY <2>1, <1>t DEF SetConn, Conns
  <2>4. Standing(p)' = "lost" /\ Standing(p) \in {"live", "lost"}
    BY <2>2, <2>3, <1>t DEF Standing, Holds, Own, At
  <2>. QED  BY <2>4 DEF StandingMoves
<1>3. ProbeTakes(p) \/ RecycleConn(p) =>
          \E c \in Pool(p) : \E k : conns[p][c].at # "lease" /\ SetConn(p, c, k)
  BY DEF ProbeTakes, RecycleConn, Free
<1>4. ProbeEnds(p) => \E c \in Pool(p) : \E k : conns[p][c].at # "lease" /\ SetConn(p, c, k)
  BY DEF ProbeEnds, Give
<1>. QED  BY <1>1, <1>2, <1>3, <1>4 DEF CutSession

(* A step concerns one process.                                            *)
LEMMA OthersStand ==
    ASSUME LeaseInv, NEW p \in Replicas,
           \/ AcquireLease(p) \/ PassSteps(p) \/ HeartbeatFails(p)
           \/ ProbeTakes(p) \/ ProbeEnds(p) \/ CutSession(p) \/ RecycleConn(p),
           NEW q \in Replicas, q # p
    PROVE  Standing(q)' = Standing(q)
<1>1. UNCHANGED conns \/ \E c : \E k : SetConn(p, c, k)
  BY DEF AcquireLease, HeartbeatFails, ProbeTakes, ProbeEnds, CutSession, RecycleConn, PassSteps,
     EnsureHeld, TakeConnection, NoConnection, EndOperation, PromoteOnLease, StopHeartbeat,
     HeartbeatEnds, ReleaseLease, Refuse, Give
<1>2. pass'[q] = pass[q]
  BY DEF AcquireLease, HeartbeatFails, ProbeTakes, ProbeEnds, CutSession, RecycleConn, PassSteps,
     EnsureHeld, TakeConnection, NoConnection, EndOperation, PromoteOnLease, StopHeartbeat,
     HeartbeatEnds, ReleaseLease, Refuse, MoveTo, LeaseInv, LeaseTypeOK
<1>3. conns'[q] = conns[q]
  BY <1>1 DEF SetConn, LeaseInv, LeaseTypeOK
<1>. QED  BY <1>2, <1>3 DEF Standing, Holds, Own, At

(* Every step is one that VaultLease allows, for every process.            *)
LEMMA StepKeepsLease ==
    ASSUME LeaseInv, [LeaseNext]_leaseVars PROVE [Kept!Next]_Standings
<1>1. CASE UNCHANGED leaseVars
  BY <1>1 DEF leaseVars, Standings, Standing, Holds, Own, At
<1>2. ASSUME NEW p \in Replicas,
             \/ AcquireLease(p) \/ PassSteps(p) \/ HeartbeatFails(p)
             \/ ProbeTakes(p) \/ ProbeEnds(p) \/ CutSession(p) \/ RecycleConn(p)
      PROVE  [Kept!Next]_Standings
  <2>1. StandingMoves(p)
    BY <1>2, PassStanding, PoolStanding
  <2>2. Standings' = [Standings EXCEPT ![p] = Standing(p)']
    BY <1>2, OthersStand DEF Standings
  <2>3. CASE Standing(p)' = Standing(p)
    BY <2>2, <2>3 DEF Standings
  <2>4. CASE Standing(p)' = "none"
    BY <2>2, <2>4 DEF Standings, Kept!Next, Kept!GiveUp
  <2>5. CASE Standing(p) = "live" /\ Standing(p)' = "lost"
    BY <2>2, <2>5 DEF Standings, Kept!Next, Kept!Lose
  <2>6. CASE /\ Standing(p) = "none" /\ Standing(p)' = "live"
             /\ \A q \in Replicas : Standing(q) # "live"
    BY <2>2, <2>6 DEF Standings, Kept!Next, Kept!Grant
  <2>. QED  BY <2>1, <2>3, <2>4, <2>5, <2>6 DEF StandingMoves
<1>. QED  BY <1>1, <1>2 DEF LeaseNext

(* Two threads of every process on pools of any size keep to VaultLease,   *)
(* whatever sessions the server ends and whatever statements it cancels:   *)
(* the contract that StoreUsesLease and QueueUsesLease rely on.            *)
THEOREM LeaseKept == LeaseSpec => KeepsLease
<1>1. LeaseInit => Kept!Init
  BY DEF LeaseInit, IdlePass, Kept!Init, Standing, At
<1>2. LeaseInv /\ [LeaseNext]_leaseVars => [Kept!Next]_Standings
  BY StepKeepsLease
<1>. QED  BY <1>1, <1>2, InitLeaseInv, NextLeaseInv, PTL DEF LeaseSpec, KeepsLease, Kept!Spec, Standings

----------------------------------------------------------------------------
(***************************************************************************)
(* Any number of processes, of images with any numbers of migrations, that *)
(* apply them at once and stop anywhere: each migration takes effect once. *)
(***************************************************************************)

Places == {"idle", "lock", "read", "apply", "applied", "newer", "broken",
           "done", "refused", "failed"}

(* Between pg_advisory_lock and the unlock; no process comes to "clash".   *)
Inside == {"read", "apply", "applied", "newer", "broken"}

MigrateTypeOK ==
    /\ history \in SUBSET Versions /\ IsFiniteSet(history)
    /\ effects \in [Versions -> Nat]
    /\ locker \in Migrators \cup {Nobody}
    /\ migrator \in [Migrators -> [at : Places, seen : SUBSET Versions]]

(* The lock is held over all transactions of apply().                      *)
LockerInside == \A m \in Migrators : migrator[m].at \in Inside => locker = m

(* What a process read under the lock stays true: nobody else writes.      *)
SeenIsHistory ==
    \A m \in Migrators :
        /\ migrator[m].at \in {"apply", "applied"} =>
              migrator[m].seen = history /\ Cardinality(history) <= Packaged[m]
        /\ migrator[m].at \in {"applied", "done"} => Cardinality(history) >= Packaged[m]

EffectsAgree == \A v \in Versions : effects[v] = IF v \in history THEN 1 ELSE 0

MigrateInv ==
    /\ MigrateTypeOK /\ LockerInside /\ SeenIsHistory
    /\ Contiguous(history) /\ EffectsAgree

(* A history of n migrations is 1..n, and one more makes it 1..n+1.        *)
LEMMA HistoryGrows ==
    ASSUME IsFiniteSet(history), Contiguous(history)
    PROVE  LET n == Cardinality(history)
           IN  /\ n \in Nat /\ n + 1 \notin history
               /\ history \cup {n + 1} = 1..(n + 1)
               /\ IsFiniteSet(history \cup {n + 1})
               /\ Cardinality(history \cup {n + 1}) = n + 1
<1> DEFINE n == Cardinality(history)
<1>1. n \in Nat /\ history = 1..n
  BY FS_CardinalityType DEF Contiguous
<1> HIDE DEF n
<1>2. n + 1 \notin history /\ history \cup {n + 1} = 1..(n + 1)
  BY <1>1
<1>3. IsFiniteSet(history \cup {n + 1}) /\ Cardinality(history \cup {n + 1}) = n + 1
  BY <1>2, FS_AddElement DEF n
<1>. QED  BY <1>1, <1>2, <1>3 DEF n

(* An empty database satisfies the invariant.                              *)
LEMMA InitMigrateInv == MigrateInit => MigrateInv
<1> SUFFICES ASSUME MigrateInit PROVE MigrateInv
  OBVIOUS
<1>1. IsFiniteSet(history) /\ Cardinality(history) = 0
  BY FS_EmptySet DEF MigrateInit
<1>2. MigrateTypeOK
  BY <1>1 DEF MigrateInit, MigrateTypeOK, Places
<1>3. Contiguous(history)
  BY <1>1 DEF MigrateInit, Contiguous
<1>. QED
  BY <1>2, <1>3 DEF MigrateInit, MigrateInv, LockerInside, SeenIsHistory, EffectsAgree, Inside

(* Process m goes to a place, with S as the versions it has seen.          *)
MigratorGoes(m, place, S) ==
    /\ migrator' \in [Migrators -> [at : Places, seen : SUBSET Versions]]
    /\ \A n \in Migrators :
          /\ migrator'[n].at = IF n = m THEN place ELSE migrator[n].at
          /\ migrator'[n].seen = IF n = m THEN S ELSE migrator[n].seen

(* A process moves and keeps what it has seen.                             *)
LEMMA MoveGoes ==
    ASSUME MigrateTypeOK, NEW m \in Migrators, NEW place \in Places, Move(m, place)
    PROVE  MigratorGoes(m, place, migrator[m].seen)
  BY DEF MigrateTypeOK, Move, MigratorGoes

(* The process is replaced as a whole.                                     *)
LEMMA ReplaceGoes ==
    ASSUME MigrateTypeOK, NEW m \in Migrators, NEW place \in Places, NEW S \in SUBSET Versions,
           migrator' = [migrator EXCEPT ![m] = [at |-> place, seen |-> S]]
    PROVE  MigratorGoes(m, place, S)
  BY DEF MigrateTypeOK, MigratorGoes

(* A step of m that leaves the database alone needs to be looked at for m  *)
(* only: whether it holds the lock where it has to, and what it has seen.  *)
LEMMA ProcessMoves ==
    ASSUME MigrateInv, NEW m \in Migrators,
           UNCHANGED <<history, effects>>,
           NEW place, NEW S, MigratorGoes(m, place, S),
           locker' = locker \/ (locker = m /\ locker' = Nobody) \/ (locker = Nobody /\ locker' = m),
           place \in Inside => locker' = m,
           place \in {"apply", "applied"} =>
              S = history /\ Cardinality(history) <= Packaged[m],
           place \in {"applied", "done"} => Cardinality(history) >= Packaged[m]
    PROVE  MigrateInv'
<1>1. MigrateTypeOK'
  BY DEF MigrateInv, MigrateTypeOK, MigratorGoes
<1>2. LockerInside'
  BY MigrationsAssumption DEF MigrateInv, LockerInside, MigratorGoes
<1>3. SeenIsHistory'
  BY DEF MigrateInv, SeenIsHistory, MigratorGoes
<1>. QED  BY <1>1, <1>2, <1>3 DEF MigrateInv, Contiguous, EffectsAgree

(* The step that writes: the migration after those of the history.         *)
LEMMA OneIsApplied ==
    ASSUME MigrateInv, NEW m \in Migrators, ApplyOne(m)
    PROVE  MigrateInv'
<1> DEFINE n == Cardinality(history)
           v == n + 1
<1>1. /\ migrator[m].at = "apply" /\ migrator[m].seen = history
      /\ n + 1 <= Packaged[m]
  BY DEF MigrateInv, SeenIsHistory, ApplyOne, Stands, NextVersion
<1>2. /\ n \in Nat /\ v \notin history /\ history \cup {v} = 1..v
      /\ IsFiniteSet(history \cup {v}) /\ Cardinality(history \cup {v}) = v
  BY HistoryGrows DEF MigrateInv, MigrateTypeOK
<1>3. v \in Versions
  <2>1. Packaged[m] \in Nat /\ v \in 1..Packaged[m]
    BY <1>1, <1>2, MigrationsAssumption
  <2>. QED  BY <2>1 DEF Versions
<1>4. effects[v] = 0
  BY <1>2, <1>3 DEF MigrateInv, EffectsAgree
<1>5. /\ effects' = [effects EXCEPT ![v] = @ + 1]
      /\ history' = history \cup {v}
      /\ migrator' = [migrator EXCEPT ![m].seen = @ \cup {v}]
      /\ locker' = locker
  BY <1>1, <1>2, <1>4 DEF ApplyOne, NextVersion
<1> HIDE DEF n, v
<1>6. /\ \A u \in Versions : effects'[u] = IF u = v THEN effects[u] + 1 ELSE effects[u]
      /\ effects' \in [Versions -> Nat]
  BY <1>3, <1>5 DEF MigrateInv, MigrateTypeOK
<1>7. \A k \in Migrators :
         /\ migrator'[k].at = migrator[k].at
         /\ migrator'[k].seen = IF k = m THEN history \cup {v} ELSE migrator[k].seen
  BY <1>1, <1>5 DEF MigrateInv, MigrateTypeOK
<1>8. MigrateTypeOK'
  BY <1>2, <1>3, <1>5, <1>6 DEF MigrateInv, MigrateTypeOK
<1>9. LockerInside'
  BY <1>5, <1>7 DEF MigrateInv, LockerInside
<1>10. SeenIsHistory'
  <2>1. n \in Nat /\ v = n + 1 /\ n = Cardinality(history) /\ Cardinality(history') = v
    BY <1>2, <1>5 DEF n, v
  <2>2. locker = m
    BY <1>1 DEF MigrateInv, LockerInside, Inside
  <2>3. \A k \in Migrators : migrator[k].at \in {"apply", "applied"} => k = m
    BY <2>2 DEF MigrateInv, LockerInside, Inside
  <2>4. \A k \in Migrators : Packaged[k] \in Nat
    BY MigrationsAssumption
  <2>5. n + 1 <= Packaged[m]
    BY <1>1 DEF n
  <2>. QED  BY <1>1, <1>5, <1>7, <2>1, <2>3, <2>4, <2>5 DEF MigrateInv, SeenIsHistory
<1>11. Contiguous(history')
  BY <1>2, <1>5 DEF Contiguous
<1>12. EffectsAgree'
  BY <1>2, <1>3, <1>4, <1>5, <1>6 DEF MigrateInv, EffectsAgree
<1>. QED  BY <1>8, <1>9, <1>10, <1>11, <1>12 DEF MigrateInv, Contiguous

(* MigrateInv is inductive: one step per action.                           *)
LEMMA NextMigrateInv == MigrateInv /\ [MigrateNext]_migrateVars => MigrateInv'
<1> SUFFICES ASSUME MigrateInv, [MigrateNext]_migrateVars PROVE MigrateInv'
  OBVIOUS
<1>i. /\ history \in SUBSET Versions /\ Cardinality(history) \in Nat /\ Contiguous(history)
      /\ \A m \in Migrators :
            /\ Packaged[m] \in Nat
            /\ migrator[m].at \in Places /\ migrator[m].seen \in SUBSET Versions
            /\ migrator[m].at \in Inside => locker = m
            /\ migrator[m].at \in {"apply", "applied"} =>
                  migrator[m].seen = history /\ Cardinality(history) <= Packaged[m]
            /\ migrator[m].at \in {"applied", "done"} => Cardinality(history) >= Packaged[m]
  BY FS_CardinalityType, MigrationsAssumption
  DEF MigrateInv, MigrateTypeOK, LockerInside, SeenIsHistory
<1>m. MigrateTypeOK
  BY DEF MigrateInv
<1>1. ASSUME NEW m \in Migrators, CallApply(m) PROVE MigrateInv'
  <2>1. MigratorGoes(m, "lock", {})
    BY <1>1, <1>m, ReplaceGoes DEF CallApply, Places
  <2>. QED  BY <1>1, <2>1, ProcessMoves DEF CallApply, Inside
<1>2. ASSUME NEW m \in Migrators, TakeLock(m) PROVE MigrateInv'
  BY <1>2, <1>m, MoveGoes, ProcessMoves DEF TakeLock, LockFree, Places, Inside
<1>3. ASSUME NEW m \in Migrators, LockTimeout(m) PROVE MigrateInv'
  BY <1>3, <1>m, MoveGoes, ProcessMoves DEF LockTimeout, Places, Inside
<1>4. ASSUME NEW m \in Migrators, ReadHistory(m) PROVE MigrateInv'
  <2>1. locker = m /\ UNCHANGED <<history, effects, locker>>
    BY <1>4, <1>i DEF ReadHistory, Stands, Inside
  <2>2. CASE Cardinality(history) > Packaged[m]
    <3>1. migrator' = [migrator EXCEPT ![m] = [at |-> "newer", seen |-> history]]
      BY <1>4, <2>2 DEF ReadHistory
    <3>2. MigratorGoes(m, "newer", history)
      BY <1>i, <1>m, <3>1, ReplaceGoes DEF Places
    <3>. QED  BY <2>1, <3>2, ProcessMoves DEF Inside
  <2>3. CASE ~(Cardinality(history) > Packaged[m])
    <3>1. migrator' = [migrator EXCEPT ![m] = [at |-> "apply", seen |-> history]]
      BY <1>4, <1>i, <2>3 DEF ReadHistory
    <3>2. MigratorGoes(m, "apply", history)
      BY <1>i, <1>m, <3>1, ReplaceGoes DEF Places
    <3>3. Cardinality(history) <= Packaged[m]
      BY <1>i, <2>3
    <3>. QED  BY <2>1, <3>2, <3>3, ProcessMoves DEF Inside
  <2>. QED  BY <2>2, <2>3
<1>5. ASSUME NEW m \in Migrators, ApplyOne(m) PROVE MigrateInv'
  BY <1>5, OneIsApplied
<1>6. ASSUME NEW m \in Migrators, ApplyFails(m) PROVE MigrateInv'
  BY <1>6, <1>i, <1>m, MoveGoes, ProcessMoves DEF ApplyFails, Stands, Places, Inside
<1>7. ASSUME NEW m \in Migrators, Applied(m) PROVE MigrateInv'
  <2>1. /\ migrator[m].at = "apply" /\ UNCHANGED <<history, effects, locker>>
        /\ MigratorGoes(m, "applied", migrator[m].seen)
    BY <1>7, <1>m, MoveGoes DEF Applied, Stands, Places
  <2>2. /\ migrator[m].seen = history /\ locker = m
        /\ Cardinality(history) <= Packaged[m]
    BY <1>i, <2>1 DEF Inside
  <2>3. Cardinality(history) >= Packaged[m]
    BY <1>7, <1>i, <2>2 DEF Applied, NextVersion
  <2>. QED  BY <2>1, <2>2, <2>3, ProcessMoves
<1>8. ASSUME NEW m \in Migrators, Unlock(m) PROVE MigrateInv'
  <2> DEFINE place == Outcome(migrator[m].at)
  <2>1. /\ place \in {"done", "refused", "failed"}
        /\ place = "done" => Cardinality(history) >= Packaged[m]
    BY <1>8, <1>i DEF Unlock, Outcome, Places
  <2>2. /\ Move(m, place) /\ UNCHANGED <<history, effects>>
        /\ locker' = IF locker = m THEN Nobody ELSE locker
    BY <1>8 DEF Unlock
  <2> HIDE DEF place
  <2>. QED  BY <1>m, <2>1, <2>2, MoveGoes, ProcessMoves DEF Places, Inside
<1>9. ASSUME NEW m \in Migrators, StopProcess(m) PROVE MigrateInv'
  BY <1>9, <1>m, MoveGoes, ProcessMoves DEF StopProcess, Places, Inside
<1>10. CASE UNCHANGED migrateVars
  BY <1>10 DEF migrateVars, MigrateInv, MigrateTypeOK, LockerInside, SeenIsHistory,
     Contiguous, EffectsAgree
<1>. QED
  BY <1>1, <1>2, <1>3, <1>4, <1>5, <1>6, <1>7, <1>8, <1>9, <1>10 DEF MigrateNext

(* Each migration takes effect exactly once and in order, no process runs  *)
(* into what another did, and success means that the image's schema is     *)
(* there: for all processes, images, crashes and failures.                 *)
THEOREM MigrationsAgree == MigrateSpec => []MigratorsAgree
<1>1. MigrateInv => MigratorsAgree
  <2> SUFFICES ASSUME MigrateInv PROVE MigratorsAgree
    OBVIOUS
  <2>1. Contiguous(history) /\ EffectsAgree
    BY DEF MigrateInv
  <2>2. ASSUME NEW m \in Migrators
        PROVE  /\ migrator[m].at \notin {"clash", "conflict"}
               /\ Stands(m, "done") => CheckPasses(m) \/ Cardinality(history) > Packaged[m]
    <3>1. migrator[m].at \in Places
      BY DEF MigrateInv, MigrateTypeOK
    <3>2. ASSUME Stands(m, "done"), ~(Cardinality(history) > Packaged[m])
          PROVE  CheckPasses(m)
      <4>1. Cardinality(history) \in Nat /\ Packaged[m] \in Nat
        BY FS_CardinalityType, MigrationsAssumption DEF MigrateInv, MigrateTypeOK
      <4>2. Cardinality(history) = Packaged[m]
        BY <3>2, <4>1 DEF MigrateInv, SeenIsHistory, Stands
      <4>3. \A v \in 1..Packaged[m] : v \in history /\ v \in Versions
        BY <2>1, <4>2 DEF Contiguous, Versions
      <4>. QED  BY <2>1, <4>2, <4>3 DEF CheckPasses, EffectsAgree
    <3>. QED  BY <3>1, <3>2 DEF Places
  <2>. QED  BY <2>1, <2>2 DEF MigratorsAgree, EffectsAgree
<1>. QED  BY <1>1, InitMigrateInv, NextMigrateInv, PTL DEF MigrateSpec

----------------------------------------------------------------------------
(***************************************************************************)
(* No vault loses bytes or vectors to a cleaner that works under the lease *)
(* of another vault, for any number of vaults, commits and faults: foreign *)
(* keys, the locks of a reference and the waiting of INSERT and DELETE for *)
(* each other are enough.                                                  *)
(***************************************************************************)

WorkerPlaces == {"idle", "embed", "insert", "refer", "commit", "promote"}

Workers == [at : WorkerPlaces, commit : Nat, vec : BOOLEAN, newBlob : BOOLEAN, newVec : BOOLEAN]

(* A worker that is not idle builds a commit of its vault.  What the       *)
(* cleaner is about to delete is there.                                    *)
ContentTypeOK ==
    /\ head \in [Vaults -> Nat] /\ \A v \in Vaults : head[v] \in DOMAIN Upstream[v]
    /\ blobs \subseteq Texts /\ vectors \subseteq Vaults \X Texts
    /\ active \in [Vaults -> Rows \cup {None}]
    /\ build \in [Vaults -> Rows \cup {None}]
    /\ old \in [Vaults -> SUBSET Rows]
    /\ served \in [Vaults -> Nat]
    /\ stranded \in [Vaults -> BOOLEAN]
    /\ worker \in [Vaults -> Workers]
    /\ \A v \in Vaults : worker[v].at # "idle" => worker[v].commit \in DOMAIN Upstream[v]
    /\ cleaner \in [at : {"idle", "blobs", "vectors"}, vault : Vaults \cup {None},
                    gone : SUBSET Rows, doomed : SUBSET (Texts \cup Vaults \X Texts),
                    dying : SUBSET Texts]
    /\ cleaner.at = "idle" => cleaner = IdleCleaner

(* The lease: the vault the cleaner works on has no pass.                  *)
LeaseApart == cleaner.at # "idle" => cleaner.vault \in Vaults /\ worker[cleaner.vault].at = "idle"

(* What a pass builds is of the text of its commit.                        *)
BuildsItsText ==
    \A v \in Vaults :
        /\ worker[v].at = "idle" => build[v] = None
        /\ build[v] # None => build[v].text = Text(v)

(* A blob that a transaction has inserted is not there for the others, and *)
(* nobody else inserts it; one that it refers to is there and stays.       *)
InsertsApart ==
    /\ \A v \in Vaults :
          /\ worker[v].newBlob => worker[v].at \in {"refer", "commit"} /\ Text(v) \notin blobs
          /\ LocksBlob(v) => Text(v) \in blobs \ cleaner.dying
    /\ \A u, v \in Vaults :
          worker[u].newBlob /\ worker[v].newBlob /\ Text(u) = Text(v) => u = v

(* What a DELETE was given by its snapshot is there, and nobody refers to  *)
(* what it has deleted.                                                    *)
DeletesApart ==
    /\ cleaner.at = "blobs" => cleaner.doomed \subseteq blobs /\ cleaner.dying = {}
    /\ cleaner.at = "vectors" => cleaner.dying \subseteq blobs /\ cleaner.dying \cap UsedBlobs = {}

ContentInv ==
    /\ ContentTypeOK /\ LeaseApart /\ BuildsItsText
    /\ InsertsApart /\ DeletesApart /\ ContentThere

----------------------------------------------------------------------------
(* Type correctness.                                                       *)

(* The text of a pass is a text, and None is not one of what it may equal. *)
LEMMA TextTypes ==
    ASSUME ContentTypeOK, NEW v \in Vaults, worker[v].at # "idle"
    PROVE  Text(v) \in Texts
  BY ContentAssumption DEF ContentTypeOK, Text

(* Candidates are taken from what they are looked for in.                  *)
LEMMA CandidatesWithin ==
    ASSUME NEW S, NEW Used, NEW T \in Candidates(S, Used) PROVE T \subseteq S \ Used
  BY DEF Candidates, Batch

(* A step of one worker keeps the types.                                   *)
LEMMA WorkerTypes ==
    ASSUME ContentTypeOK, NEW v \in Vaults, Begin(v) \/ Work(v) \/ Crash(v)
    PROVE  ContentTypeOK'
<1>w. worker[v] \in Workers
  BY DEF ContentTypeOK
<1>1. CASE Begin(v)
  BY <1>1 DEF Begin, ContentTypeOK, Worker, Workers, WorkerPlaces
<1>2. CASE Embed(v) \/ Insert(v) \/ Refer(v)
  <2>1. PICK w \in Workers : /\ worker' = [worker EXCEPT ![v] = w]
                             /\ w.commit = worker[v].commit /\ worker[v].at # "idle"
    BY <1>2, <1>w DEF Embed, Insert, Refer, Goto, Workers, WorkerPlaces, ContentTypeOK
  <2>2. UNCHANGED <<head, database, served, stranded, cleaner>>
    BY <1>2 DEF Embed, Insert, Refer
  <2>. QED  BY <2>1, <2>2 DEF ContentTypeOK, database
<1>3. CASE Commit(v)
  <2>1. Text(v) \in Texts
    BY <1>3, TextTypes DEF Commit
  <2>2. [text |-> Text(v), vec |-> worker[v].vec] \in Rows
    BY <1>w, <2>1 DEF Rows, Workers
  <2>3. Worker("promote", worker[v].commit, FALSE, FALSE, FALSE) \in Workers
    BY <1>w DEF Worker, Workers, WorkerPlaces
  <2>4. Worker("promote", worker[v].commit, FALSE, FALSE, FALSE).commit = worker[v].commit
    BY DEF Worker
  <2>5. blobs' \subseteq Texts /\ vectors' \subseteq Vaults \X Texts
    BY <1>3, <2>1 DEF Commit, ContentTypeOK
  <2>6. build' \in [Vaults -> Rows \cup {None}]
    BY <1>3, <2>2 DEF Commit, ContentTypeOK
  <2>7. /\ worker' \in [Vaults -> Workers]
        /\ \A u \in Vaults : worker'[u].at # "idle" => worker'[u].commit \in DOMAIN Upstream[u]
    BY <1>3, <2>3, <2>4 DEF Commit, ContentTypeOK
  <2>. QED  BY <1>3, <2>5, <2>6, <2>7 DEF Commit, ContentTypeOK
<1>4. CASE Promote(v)
  BY <1>4, <1>w DEF Promote, ContentTypeOK, IdleWorker, Worker, Workers, WorkerPlaces
<1>5. CASE Refused(v) \/ Crash(v)
  <2>1. Abandon(v) /\ UNCHANGED head /\ stranded' \in [Vaults -> BOOLEAN]
    BY <1>5 DEF Refused, Crash, Abandon, ContentTypeOK
  <2>. QED  BY <2>1 DEF Abandon, ContentTypeOK, IdleWorker, Worker, Workers, WorkerPlaces
<1>. QED  BY <1>1, <1>2, <1>3, <1>4, <1>5 DEF Work

(* A step of the cleaner keeps the types.                                  *)
LEMMA CleanerTypes ==
    ASSUME ContentTypeOK, DeletesApart,
           Clean \/ CleanerFails \/ \E v \in Vaults : CleanRevisions(v)
    PROVE  ContentTypeOK'
<1>1. ASSUME NEW v \in Vaults, CleanRevisions(v) PROVE ContentTypeOK'
  <2>1. PICK gone \in SUBSET old[v] :
            \E used : \E doomed \in Candidates(blobs, used) :
                cleaner' = [at |-> "blobs", vault |-> v, gone |-> gone,
                            doomed |-> doomed, dying |-> {}]
    BY <1>1 DEF CleanRevisions
  <2>2. PICK used, doomed :
            doomed \in Candidates(blobs, used) /\
            cleaner' = [at |-> "blobs", vault |-> v, gone |-> gone,
                        doomed |-> doomed, dying |-> {}]
    BY <2>1
  <2>3. doomed \subseteq blobs
    BY <2>2, CandidatesWithin
  <2>4. old[v] \subseteq Rows /\ blobs \subseteq Texts
    BY DEF ContentTypeOK
  <2>. QED  BY <1>1, <2>2, <2>3, <2>4 DEF CleanRevisions, ContentTypeOK, database
<1>2. ASSUME RollBack, UNCHANGED <<head, served, stranded, worker>> PROVE ContentTypeOK'
  BY <1>2 DEF RollBack, ContentTypeOK, IdleCleaner, database
<1>3. CASE CleanBlobs
  <2>1. CASE ~RollBack
    <3>1. PICK doomed \in SUBSET vectors :
             cleaner' = [cleaner EXCEPT !.at = "vectors", !.dying = cleaner.doomed,
                                        !.doomed = doomed]
      BY <1>3, <2>1, CandidatesWithin DEF CleanBlobs
    <3>2. cleaner.doomed \in SUBSET Texts
      BY <1>3 DEF CleanBlobs, DeletesApart, ContentTypeOK
    <3>. QED  BY <1>3, <2>1, <3>1, <3>2 DEF CleanBlobs, ContentTypeOK, database
  <2>. QED  BY <1>2, <1>3, <2>1 DEF CleanBlobs
<1>4. CASE CleanVectors
  <2>1. CASE ~RollBack
    BY <1>4, <2>1 DEF CleanVectors, ContentTypeOK, IdleCleaner
  <2>. QED  BY <1>2, <1>4, <2>1 DEF CleanVectors
<1>. QED  BY <1>1, <1>2, <1>3, <1>4 DEF Clean, CleanerFails

----------------------------------------------------------------------------
(* What is referred to, row by row.                                        *)

RowsThere ==
    \A v \in Vaults : \A r \in Held(v) :
        r.text \in blobs /\ (r.vec => <<v, r.text>> \in vectors)

ServesItsText == \A v \in Vaults : active[v] # None => active[v].text = Upstream[v][served[v]]

LEMMA ThereByRows ==
    /\ ContentThere <=> RowsThere /\ ServesItsText
    /\ ContentThere' <=> RowsThere' /\ ServesItsText'
  BY DEF ContentThere, RowsThere, ServesItsText, BlobsOf, VectorsOf

LEMMA UsedByRows ==
    /\ \A b : b \in UsedBlobs <=> \E v \in Vaults : \E r \in Seen(v) : r.text = b
    /\ \A b : b \in UsedBlobs' <=> \E v \in Vaults : \E r \in Seen(v)' : r.text = b
    /\ \A x : x \in UsedVectors <=>
          \E v \in Vaults : \E r \in Seen(v) : r.vec /\ x = <<v, r.text>>
  BY DEF UsedBlobs, UsedVectors, BlobsOf, VectorsOf

(* A pass keeps away from the vault the cleaner works on: what the cleaner *)
(* sees of the vault of a pass are all its rows.                           *)
LEMMA SeenOfAPass ==
    ASSUME ContentTypeOK, LeaseApart, NEW v \in Vaults, worker[v].at # "idle" \/ cleaner.vault # v
    PROVE  cleaner.vault # v /\ Seen(v) = Held(v)
<1>1. cleaner.vault # v
  BY ContentAssumption DEF LeaseApart, ContentTypeOK, IdleCleaner
<1>. QED  BY <1>1 DEF Seen, Without, Held

(* The steps of a pass before its transaction ends: no row changes.        *)
LEMMA ReadingKeepsInv ==
    ASSUME ContentInv, NEW v \in Vaults, Embed(v) \/ Insert(v) \/ Refer(v)
    PROVE  ContentInv'
<1>i. ContentTypeOK /\ LeaseApart /\ BuildsItsText /\ InsertsApart /\ DeletesApart /\ ContentThere
  BY DEF ContentInv
<1>1. ContentTypeOK'
  BY <1>i, WorkerTypes DEF Work
<1>2. PICK w \in Workers :
          /\ worker' = [worker EXCEPT ![v] = w]
          /\ w.commit = worker[v].commit /\ worker[v].at # "idle" /\ w.at # "idle"
          /\ \/ ~w.newBlob /\ w.at # "commit"
             \/ /\ w.newBlob /\ w.at = "refer" /\ Text(v) \notin blobs
                /\ ~\E u \in Vaults \ {v} : worker[u].newBlob /\ Text(u) = Text(v)
             \/ /\ w.newBlob = worker[v].newBlob /\ w.at = "commit"
                /\ w.newBlob \/ Text(v) \in blobs \ cleaner.dying
  <2>1. worker[v] \in Workers
    BY <1>i DEF ContentTypeOK
  <2>2. CASE Embed(v)
    <3>1. ~worker[v].newBlob
      BY <1>i, <2>2 DEF Embed, InsertsApart
    <3>. QED  BY <1>i, <2>1, <2>2, <3>1 DEF Embed, Goto, Workers, WorkerPlaces, ContentTypeOK
  <2>3. CASE Insert(v)
    <3>1. PICK new \in BOOLEAN : new <=> Text(v) \notin blobs
      OBVIOUS
    <3>2. worker' = [worker EXCEPT ![v] = [worker[v] EXCEPT !.at = "refer", !.newBlob = new]]
      BY <1>i, <2>3, <3>1 DEF Insert, ContentTypeOK
    <3>3. /\ [worker[v] EXCEPT !.at = "refer", !.newBlob = new] \in Workers
          /\ worker[v].at # "idle" /\ ~\E u \in Vaults \ {v} : worker[u].newBlob /\ Text(u) = Text(v)
      BY <2>1, <2>3 DEF Insert, Workers, WorkerPlaces
    <3>. QED  BY <2>1, <3>1, <3>2, <3>3 DEF Workers
  <2>4. CASE Refer(v)
    <3>1. PICK new \in BOOLEAN : new <=> worker[v].vec /\ <<v, Text(v)>> \notin vectors
      OBVIOUS
    <3>. DEFINE w == [worker[v] EXCEPT !.at = "commit", !.newVec = new]
    <3>2. worker' = [worker EXCEPT ![v] = w]
      BY <1>i, <2>4, <3>1 DEF Refer, ContentTypeOK
    <3>3. /\ w \in Workers /\ w.commit = worker[v].commit /\ w.at = "commit"
          /\ w.newBlob = worker[v].newBlob
      BY <2>1 DEF Workers, WorkerPlaces
    <3>4. worker[v].at # "idle" /\ (worker[v].newBlob \/ Text(v) \in blobs \ cleaner.dying)
      BY <2>4 DEF Refer
    <3>. HIDE DEF w
    <3>. QED  BY <3>2, <3>3, <3>4
  <2>. QED  BY <2>2, <2>3, <2>4
<1>3. UNCHANGED <<head, database, served, stranded, cleaner>>
  BY DEF Embed, Insert, Refer
<1>4. \A u \in Vaults : worker'[u] = IF u = v THEN w ELSE worker[u]
  BY <1>i, <1>2 DEF ContentTypeOK
<1>5. \A u \in Vaults : Text(u)' = Text(u)
  BY <1>2, <1>4 DEF Text
<1>6. LeaseApart'
  BY <1>i, <1>2, <1>3, <1>4 DEF LeaseApart
<1>7. BuildsItsText'
  BY <1>i, <1>2, <1>3, <1>4, <1>5 DEF BuildsItsText, database
<1>8. InsertsApart'
  BY <1>i, <1>2, <1>3, <1>4, <1>5 DEF InsertsApart, LocksBlob, database
<1>9. DeletesApart'
  BY <1>i, <1>3 DEF DeletesApart, UsedBlobs, Seen, Without, Current, BlobsOf, database
<1>10. ContentThere'
  BY <1>i, <1>3 DEF ContentThere, Held, Current, database
<1>. QED  BY <1>1, <1>6, <1>7, <1>8, <1>9, <1>10 DEF ContentInv

(* The steps that only pass rows from one revision to another, or drop     *)
(* them: nothing new is referred to.                                       *)
LEMMA HandingKeepsInv ==
    ASSUME ContentInv, ContentTypeOK', NEW v \in Vaults, NEW w \in Workers,
           worker' = [worker EXCEPT ![v] = w], ~w.newBlob, w.at # "commit",
           worker[v].at # "idle" \/ cleaner.vault # v,
           UNCHANGED <<blobs, vectors, cleaner>>,
           \A u \in Vaults \ {v} : UNCHANGED <<active[u], build[u], old[u], served[u]>>,
           Held(v)' \subseteq Held(v),
           w.at = "idle" => build'[v] = None,
           build'[v] # None => build'[v].text = Text(v)',
           active'[v] # None => active'[v].text = Upstream[v][served'[v]]
    PROVE  ContentInv'
<1>i. ContentTypeOK /\ LeaseApart /\ BuildsItsText /\ InsertsApart /\ DeletesApart /\ ContentThere
  BY DEF ContentInv
<1>1. \A u \in Vaults : worker'[u] = IF u = v THEN w ELSE worker[u]
  BY <1>i DEF ContentTypeOK
<1>2. \A u \in Vaults \ {v} : Text(u)' = Text(u)
  BY <1>1 DEF Text
<1>3. cleaner.vault # v /\ Seen(v) = Held(v) /\ Seen(v)' = Held(v)'
  BY <1>i, SeenOfAPass DEF Seen, Without, Held
<1>4. \A u \in Vaults \ {v} : Held(u)' = Held(u) /\ Seen(u)' = Seen(u)
  BY DEF Held, Current, Seen, Without
<1>5. LeaseApart'
  BY <1>i, <1>1, <1>3 DEF LeaseApart
<1>6. BuildsItsText'
  BY <1>i, <1>1, <1>2 DEF BuildsItsText
<1>7. InsertsApart'
  BY <1>i, <1>1, <1>2 DEF InsertsApart, LocksBlob
<1>8. UsedBlobs' \subseteq UsedBlobs
  BY <1>3, <1>4, UsedByRows
<1>9. DeletesApart'
  BY <1>i, <1>8 DEF DeletesApart
<1>10. ContentThere'
  BY <1>i, <1>4, ThereByRows DEF RowsThere, ServesItsText
<1>. QED  BY <1>5, <1>6, <1>7, <1>9, <1>10 DEF ContentInv

(* Begin, Promote and the ends of a pass that failed.                      *)
LEMMA PassKeepsInv ==
    ASSUME ContentInv, NEW v \in Vaults, Begin(v) \/ Promote(v) \/ Refused(v) \/ Crash(v)
    PROVE  ContentInv'
<1>i. ContentTypeOK /\ LeaseApart /\ BuildsItsText /\ InsertsApart /\ DeletesApart /\ ContentThere
  BY DEF ContentInv
<1>t. ContentTypeOK'
  BY <1>i, WorkerTypes DEF Work
<1>s. ServesItsText
  BY <1>i, ThereByRows
<1>d. IdleWorker \in Workers /\ IdleWorker.at = "idle" /\ ~IdleWorker.newBlob
  BY DEF IdleWorker, Worker, Workers, WorkerPlaces
<1>1. CASE Begin(v)
  <2>. DEFINE w == Worker("embed", head[v], FALSE, FALSE, FALSE)
  <2>1. w \in Workers /\ w.at = "embed" /\ ~w.newBlob /\ w.commit = head[v]
    BY <1>i DEF Worker, Workers, WorkerPlaces, ContentTypeOK
  <2>2. worker' = [worker EXCEPT ![v] = w] /\ cleaner.vault # v
    BY <1>1 DEF Begin
  <2>. HIDE DEF w
  <2>3. /\ UNCHANGED <<blobs, vectors, cleaner, active, old, served>>
        /\ \A u \in Vaults \ {v} : build'[u] = build[u]
        /\ build'[v] \in {active[v], None}
        /\ build'[v] # None => served[v] = head[v]
    BY <1>1, <1>i DEF Begin, ContentTypeOK
  <2>4. Held(v)' \subseteq Held(v)
    BY <2>3 DEF Held, Current
  <2>5. Text(v)' = Upstream[v][head[v]]
    BY <1>i, <2>1, <2>2 DEF Text, ContentTypeOK
  <2>. QED  BY <1>s, <1>t, <2>1, <2>2, <2>3, <2>4, <2>5, HandingKeepsInv DEF ServesItsText
<1>2. CASE Promote(v)
  <2>1. /\ worker' = [worker EXCEPT ![v] = IdleWorker] /\ worker[v].at # "idle"
        /\ UNCHANGED <<blobs, vectors, cleaner>>
        /\ \A u \in Vaults \ {v} : UNCHANGED <<active[u], build[u], old[u], served[u]>>
        /\ active'[v] = build[v] /\ build'[v] = None /\ served'[v] = worker[v].commit
        /\ old'[v] = old[v] \cup ({active[v]} \ {None})
    BY <1>2, <1>i DEF Promote, ContentTypeOK
  <2>2. Held(v)' \subseteq Held(v)
    BY <2>1 DEF Held, Current
  <2>3. active'[v] # None => active'[v].text = Upstream[v][served'[v]]
    BY <1>i, <2>1 DEF BuildsItsText, Text
  <2>. QED  BY <1>d, <1>t, <2>1, <2>2, <2>3, HandingKeepsInv
<1>3. CASE Refused(v) \/ Crash(v)
  <2>1. Abandon(v) /\ worker[v].at # "idle"
    BY <1>3 DEF Refused, Crash, Missing
  <2>2. /\ worker' = [worker EXCEPT ![v] = IdleWorker]
        /\ UNCHANGED <<blobs, vectors, cleaner, active, served>>
        /\ \A u \in Vaults \ {v} : UNCHANGED <<build[u], old[u]>>
        /\ build'[v] = None /\ old'[v] = old[v] \cup ({build[v]} \ {None})
    BY <2>1, <1>i DEF Abandon, ContentTypeOK
  <2>3. Held(v)' \subseteq Held(v)
    BY <2>2 DEF Held, Current
  <2>. QED  BY <1>d, <1>s, <1>t, <2>1, <2>2, <2>3, HandingKeepsInv DEF ServesItsText
<1>. QED  BY <1>1, <1>2, <1>3

(* The commit of replace_source makes a row refer to a blob that it has    *)
(* inserted or locked, and to a vector it has inserted or seen again.      *)
LEMMA CommitKeepsInv ==
    ASSUME ContentInv, NEW v \in Vaults, Commit(v) PROVE ContentInv'
<1>i. ContentTypeOK /\ LeaseApart /\ BuildsItsText /\ InsertsApart /\ DeletesApart /\ ContentThere
  BY DEF ContentInv
<1>t. ContentTypeOK'
  BY <1>i, WorkerTypes DEF Work
<1>. DEFINE w == Worker("promote", worker[v].commit, FALSE, FALSE, FALSE)
            row == [text |-> Text(v), vec |-> worker[v].vec]
<1>1. /\ w.at = "promote" /\ ~w.newBlob /\ w.commit = worker[v].commit
      /\ row.text = Text(v) /\ row.vec = worker[v].vec
  BY DEF Worker
<1>2. worker[v].at = "commit" /\ UNCHANGED <<active, old, served, cleaner>>
  BY DEF Commit
<1>3. \A u \in Vaults : /\ worker'[u] = IF u = v THEN w ELSE worker[u]
                        /\ build'[u] = IF u = v THEN row ELSE build[u]
  BY <1>i DEF Commit, ContentTypeOK
<1>4. /\ blobs' = blobs \cup {Text(v)} /\ vectors \subseteq vectors'
      /\ worker[v].vec => <<v, Text(v)>> \in vectors'
  BY DEF Commit
<1>. HIDE DEF w, row
<1>5. \A u \in Vaults : Text(u)' = Text(u)
  BY <1>1, <1>3 DEF Text
<1>6. Text(v) \notin cleaner.dying /\ (cleaner.at = "blobs" => cleaner.doomed \subseteq blobs')
  BY <1>i, <1>2, <1>4 DEF InsertsApart, DeletesApart, LocksBlob, ContentTypeOK, IdleCleaner
<1>7. \A u \in Vaults \ {v} : Held(u)' = Held(u) /\ Seen(u)' = Seen(u)
  BY <1>2, <1>3 DEF Held, Current, Seen, Without
<1>8. cleaner.vault # v /\ Seen(v)' = Held(v)' /\ Held(v)' \subseteq Held(v) \cup {row} /\ Seen(v) = Held(v)
  BY <1>i, <1>2, <1>3, SeenOfAPass DEF Seen, Without, Held, Current
<1>9. LeaseApart'
  BY <1>i, <1>2, <1>3, <1>8 DEF LeaseApart
<1>10. BuildsItsText'
  BY <1>i, <1>1, <1>3, <1>5 DEF BuildsItsText
<1>11. InsertsApart'
  <2>1. \A u \in Vaults \ {v} : worker[u].newBlob => Text(u) # Text(v)
    BY <1>i, <1>2 DEF InsertsApart, LocksBlob
  <2>. QED  BY <1>i, <1>1, <1>2, <1>3, <1>4, <1>5, <2>1 DEF InsertsApart, LocksBlob
<1>12. DeletesApart'
  <2>1. UsedBlobs' \subseteq UsedBlobs \cup {Text(v)}
    BY <1>1, <1>7, <1>8, UsedByRows
  <2>. QED  BY <1>i, <1>2, <1>4, <1>6, <2>1 DEF DeletesApart
<1>13. ContentThere'
  BY <1>i, <1>1, <1>2, <1>4, <1>7, <1>8, ThereByRows DEF RowsThere, ServesItsText
<1>. QED  BY <1>t, <1>9, <1>10, <1>11, <1>12, <1>13 DEF ContentInv

(* The cleaner deletes nothing that is referred to.                        *)
LEMMA CleanerKeepsInv ==
    ASSUME ContentInv, Clean \/ CleanerFails \/ \E v \in Vaults : CleanRevisions(v)
    PROVE  ContentInv'
<1>i. ContentTypeOK /\ LeaseApart /\ BuildsItsText /\ InsertsApart /\ DeletesApart /\ ContentThere
  BY DEF ContentInv
<1>t. ContentTypeOK'
  BY <1>i, CleanerTypes
<1>w. UNCHANGED <<worker, served, active, build>> /\ \A u \in Vaults : Text(u)' = Text(u)
  BY DEF Clean, CleanRevisions, CleanBlobs, CleanVectors, CleanerFails, RollBack, database, Text
<1>b. BuildsItsText'
  BY <1>i, <1>w DEF BuildsItsText
<1>1. ASSUME UNCHANGED database, cleaner'.at # "vectors", cleaner'.dying = {},
             cleaner'.at = "idle" \/ (/\ cleaner'.vault \in Vaults
                                     /\ worker[cleaner'.vault].at = "idle"
                                     /\ cleaner'.doomed \subseteq blobs)
      PROVE  ContentInv'
  <2>1. LeaseApart' /\ DeletesApart' /\ InsertsApart'
    BY <1>i, <1>w, <1>1 DEF LeaseApart, DeletesApart, InsertsApart, LocksBlob, database
  <2>2. ContentThere'
    BY <1>i, <1>w, <1>1 DEF ContentThere, Held, Current, database
  <2>. QED  BY <1>t, <1>b, <2>1, <2>2 DEF ContentInv
<1>2. CASE RollBack
  BY <1>1, <1>2 DEF RollBack, IdleCleaner
<1>3. ASSUME NEW v \in Vaults, CleanRevisions(v) PROVE ContentInv'
  <2>1. PICK gone, used, doomed :
            /\ doomed \in Candidates(blobs, used)
            /\ cleaner' = [at |-> "blobs", vault |-> v, gone |-> gone,
                           doomed |-> doomed, dying |-> {}]
    BY <1>3 DEF CleanRevisions
  <2>2. doomed \subseteq blobs
    BY <2>1, CandidatesWithin
  <2>. QED  BY <1>1, <1>3, <2>1, <2>2 DEF CleanRevisions
<1>4. CASE CleanBlobs /\ ~RollBack
  <2>1. PICK doomed : cleaner' = [cleaner EXCEPT !.at = "vectors", !.dying = cleaner.doomed,
                                                 !.doomed = doomed]
    BY <1>4 DEF CleanBlobs
  <2>2. /\ cleaner.at = "blobs" /\ UNCHANGED database
        /\ cleaner.doomed \cap UsedBlobs = {}
        /\ \A v \in Vaults : LocksBlob(v) => Text(v) \notin cleaner.doomed
    BY <1>4 DEF CleanBlobs, ForeignKeyHolds
  <2>3. /\ cleaner'.at = "vectors" /\ cleaner'.dying = cleaner.doomed
        /\ cleaner'.vault = cleaner.vault /\ cleaner'.gone = cleaner.gone
    BY <1>i, <2>1 DEF ContentTypeOK
  <2>4. UsedBlobs' = UsedBlobs
    BY <2>2, <2>3 DEF UsedBlobs, Seen, Without, Current, BlobsOf, database
  <2>5. LeaseApart' /\ DeletesApart'
    BY <1>i, <1>w, <2>2, <2>3, <2>4 DEF LeaseApart, DeletesApart, database
  <2>6. InsertsApart'
    BY <1>i, <1>w, <2>2, <2>3 DEF InsertsApart, LocksBlob, database
  <2>7. ContentThere'
    BY <1>i, <1>w, <2>2 DEF ContentThere, Held, Current, database
  <2>. QED  BY <1>t, <1>b, <2>5, <2>6, <2>7 DEF ContentInv
<1>5. CASE CleanVectors /\ ~RollBack
  <2>1. /\ cleaner.at = "vectors" /\ cleaner' = IdleCleaner
        /\ blobs' = blobs \ cleaner.dying /\ vectors' = vectors \ cleaner.doomed
        /\ old' = [old EXCEPT ![cleaner.vault] = @ \ cleaner.gone]
        /\ cleaner.doomed \cap UsedVectors = {}
    BY <1>5 DEF CleanVectors, ForeignKeyHolds
  <2>2. cleaner'.at = "idle" /\ cleaner'.dying = {}
    BY <2>1 DEF IdleCleaner
  <2>3. LeaseApart' /\ DeletesApart'
    BY <2>2 DEF LeaseApart, DeletesApart
  <2>4. InsertsApart'
    BY <1>i, <1>w, <2>1, <2>2 DEF InsertsApart, LocksBlob
  <2>5. \A u \in Vaults : Held(u)' = Seen(u) /\ Seen(u) \subseteq Held(u)
    BY <1>i, <1>w, <2>1 DEF Held, Seen, Without, Current, ContentTypeOK, LeaseApart
  <2>6. RowsThere'
    BY <1>i, <2>1, <2>5, ThereByRows, UsedByRows DEF RowsThere, DeletesApart
  <2>7. ContentThere'
    BY <1>i, <1>w, <2>6, ThereByRows DEF ServesItsText
  <2>. QED  BY <1>t, <1>b, <2>3, <2>4, <2>7 DEF ContentInv
<1>. QED  BY <1>2, <1>3, <1>4, <1>5 DEF Clean, CleanerFails

(* Init, Push, and the rest together.                                      *)
LEMMA InitContentInv == ContentInit => ContentInv
<1> SUFFICES ASSUME ContentInit PROVE ContentInv
  OBVIOUS
<1>1. \A v \in Vaults : worker[v] = IdleWorker /\ Held(v) = {}
  BY DEF ContentInit, Held, Current
<1>2. IdleWorker \in Workers /\ IdleWorker.at = "idle" /\ ~IdleWorker.newBlob
  BY DEF IdleWorker, Worker, Workers, WorkerPlaces
<1>3. ContentTypeOK
  BY <1>1, <1>2, ContentAssumption DEF ContentInit, ContentTypeOK, IdleCleaner
<1>4. ContentThere
  BY <1>1, ThereByRows DEF ContentInit, RowsThere, ServesItsText
<1>5. LeaseApart /\ DeletesApart
  BY DEF ContentInit, LeaseApart, DeletesApart, IdleCleaner
<1>6. BuildsItsText /\ InsertsApart
  BY <1>1, <1>2 DEF ContentInit, BuildsItsText, InsertsApart, LocksBlob
<1>. QED  BY <1>3, <1>4, <1>5, <1>6 DEF ContentInv

LEMMA NextContentInv == ContentInv /\ [ContentNext]_contentVars => ContentInv'
<1> SUFFICES ASSUME ContentInv, [ContentNext]_contentVars PROVE ContentInv'
  OBVIOUS
<1>i. ContentTypeOK /\ LeaseApart /\ BuildsItsText /\ InsertsApart /\ DeletesApart /\ ContentThere
  BY DEF ContentInv
<1>1. ASSUME UNCHANGED <<database, served, worker, cleaner>>, ContentTypeOK' PROVE ContentInv'
  BY <1>i, <1>1 DEF ContentInv, LeaseApart, BuildsItsText, InsertsApart, DeletesApart, ContentThere,
     database, Text, LocksBlob, UsedBlobs, Seen, Without, Current, Held, BlobsOf, VectorsOf
<1>2. CASE UNCHANGED contentVars
  <2>1. ContentTypeOK'
    BY <1>i, <1>2 DEF ContentTypeOK, contentVars, database
  <2>. QED  BY <1>1, <1>2, <2>1 DEF contentVars
<1>3. ASSUME NEW v \in Vaults, Push(v) PROVE ContentInv'
  <2>1. ContentTypeOK'
    BY <1>i, <1>3, ContentAssumption DEF Push, ContentTypeOK, database
  <2>. QED  BY <1>1, <1>3, <2>1 DEF Push
<1>. QED
  BY <1>2, <1>3, ReadingKeepsInv, PassKeepsInv, CommitKeepsInv, CleanerKeepsInv
  DEF ContentNext, Work

(* Whatever the cleaner, other vaults and failures do: what any revision   *)
(* refers to is there, and what is served is the text of its commit.       *)
THEOREM ContentStays == ContentSpec => []ContentThere
<1>1. ContentInv => ContentThere
  BY DEF ContentInv
<1>. QED  BY <1>1, InitContentInv, NextContentInv, PTL DEF ContentSpec
=============================================================================
