------------------------ MODULE RevisionStore_proofs ------------------------
(***************************************************************************)
(* The revision store for any number of workers, cleaners and revisions    *)
(* and any number of faults.                                               *)
(***************************************************************************)
EXTENDS RevisionStore, FiniteSetTheorems, TLAPS

(* Which revisions the passes hold: one each, of the fetched commit, still *)
(* unpublished, and of no other pass.                                      *)
OwnHandle(w) ==
    /\ pc[w] \in Building => Handle(w) \in RevIds /\ Target(w) \in Commits
    /\ pc[w] = "begin" => Target(w) \in Commits
    /\ pc[w] \notin Building => Handle(w) = None
    /\ Handle(w) # None => /\ state[Handle(w)] \in {"building", "deleted"}
                           /\ commit[Handle(w)] = Target(w)

HandleInv ==
    /\ \A w \in Workers : OwnHandle(w)
    /\ \A w, v \in Workers : Handle(w) = Handle(v) /\ Handle(w) # None => w = v

(* The published revisions: each once, the active one last.                *)
HistoryInv ==
    /\ \A i \in DOMAIN promotions :
         state[promotions[i]] \in Served \cup {"superseded", "deleted"}
    /\ \A i, j \in DOMAIN promotions : promotions[i] = promotions[j] => i = j
    /\ active = IF Len(promotions) = 0 THEN None ELSE promotions[Len(promotions)]
    /\ LinearHistory

(* How far the indexing of a revision that is still there has come.        *)
BuildSoFar(w) ==
    pc[w] \in {"write", "decide"} /\ Writable(w) /\ Lexical(w) =>
        \A p \in Paths : \/ docs[Handle(w)][p] = Tree[Target(w)][p]
                         \/ p \in Todo(w) /\ pc[w] = "write"

BuildInv == \A w \in Workers : BuildSoFar(w)

StoreInv ==
    /\ TypeOK /\ HandleInv /\ HistoryInv /\ BuildInv
    /\ OneServed /\ ServedMatchesCommit

(* The empty store satisfies the invariant.                                *)
LEMMA InitStoreInv == Init => StoreInv
<1> SUFFICES ASSUME Init PROVE StoreInv
  OBVIOUS
<1>w. \A w \in Workers : w \in Procs /\ pc[w] = "idle" /\ pass[w] = NoPass
  BY DEF Init, Procs
<1>h. \A w \in Workers : Handle(w) = None
  BY <1>w DEF Handle, NoPass, Pass
<1>1. TypeOK
  BY StoreAssumption DEF Init, TypeOK, Procs, WorkerPC, CleanerPC, Passes, NoPass, Pass,
     States, Content, Empty
<1>2. HandleInv
  BY <1>w, <1>h DEF HandleInv, OwnHandle, Building
<1>3. HistoryInv
  BY DEF Init, HistoryInv, LinearHistory
<1>4. BuildInv
  BY <1>w DEF BuildInv, BuildSoFar
<1>5. OneServed
  BY StoreAssumption DEF Init, OneServed, Served
<1>6. ServedMatchesCommit
  BY DEF Init, ServedMatchesCommit
<1>. QED  BY <1>1, <1>2, <1>3, <1>4, <1>5, <1>6 DEF StoreInv

----------------------------------------------------------------------------
(* Typing.                                                                 *)

(* The part of TypeOK the processes own, and the part the database owns.   *)
ProcTypes ==
    /\ session \in [Procs -> {"none", "live", "lost"}]
    /\ pc \in [Procs -> WorkerPC \cup CleanerPC]
    /\ \A w \in Workers : pc[w] \in WorkerPC
    /\ \A k \in Cleaners : pc[k] \in CleanerPC
    /\ pass \in [Workers -> Passes]
    /\ doomed \in [Cleaners -> SUBSET RevIds]
    /\ faults \in 0..MaxFaults

DataTypes ==
    /\ active \in RevIds \cup {None}
    /\ state \in [RevIds -> States]
    /\ commit \in [RevIds -> Commits \cup {None}]
    /\ base \in [RevIds -> RevIds \cup {None}]
    /\ stamped \in SUBSET RevIds
    /\ docs \in [RevIds -> Content]
    /\ promotions \in Seq(RevIds)
    /\ aged \in SUBSET RevIds

(* Typing splits into what the processes hold and what the database holds. *)
LEMMA TypeParts == TypeOK <=> ProcTypes /\ DataTypes
BY DEF TypeOK, ProcTypes, DataTypes

(* Every step keeps the state of the processes well typed.                 *)
LEMMA NextProcTypes == ASSUME ProcTypes, DataTypes, HandleInv, Next PROVE ProcTypes'
<1> USE StoreAssumption
    DEF ProcTypes, Goto, Procs, WorkerPC, CleanerPC, Building, processes, Forget, Fault,
        Passes, Pass, Continue, Target, Usable, Handle, Todo, Lexical, NoPass
<1>1. ASSUME NEW q \in Procs, Acquire(q) PROVE ProcTypes'
  BY <1>1 DEF Acquire
<1>2. ASSUME NEW q \in Procs, Release(q) PROVE ProcTypes'
  BY <1>2 DEF Release
<1>3. ASSUME NEW q \in Procs, LoseSession(q) PROVE ProcTypes'
  BY <1>3 DEF LoseSession
<1>4. ASSUME NEW q \in Procs, Crash(q) PROVE ProcTypes'
  <2>1. CASE q \in Workers /\ Forget(q) /\ UNCHANGED doomed
    BY <1>4, <2>1 DEF Crash
  <2>2. CASE q \in Cleaners /\ doomed' = [doomed EXCEPT ![q] = {}] /\ UNCHANGED pass
    BY <1>4, <2>2 DEF Crash
  <2>. QED  BY <1>4, <2>1, <2>2 DEF Crash
<1>5. ASSUME NEW w \in Workers, Inspect(w) PROVE ProcTypes'
  <2>1. PICK c \in Commits :
          \/ Goto(w, "release") /\ UNCHANGED pass
          \/ /\ Goto(w, "begin")
             /\ \E u \in BOOLEAN : pass' = [pass EXCEPT ![w] = Pass(c, u, None, {}, TRUE)]
    BY <1>5 DEF Inspect
  <2>2. UNCHANGED <<session, doomed, faults>>
    BY <1>5 DEF Inspect
  <2>3. pc' \in [Procs -> WorkerPC \cup CleanerPC] /\ pc'[w] \in WorkerPC
        /\ \A q \in Procs \ {w} : pc'[q] = pc[q]
    BY <2>1
  <2>4. pass' \in [Workers -> Passes]
    <3>1. CASE UNCHANGED pass
      BY <3>1
    <3>2. CASE \E u \in BOOLEAN : pass' = [pass EXCEPT ![w] = Pass(c, u, None, {}, TRUE)]
      <4>1. \A u \in BOOLEAN : Pass(c, u, None, {}, TRUE) \in Passes
        OBVIOUS
      <4>2. PICK y \in Passes : pass' = [pass EXCEPT ![w] = y]
        BY <3>2, <4>1
      <4>. QED  BY <4>2
    <3>. QED  BY <2>1, <3>1, <3>2
  <2>. QED  BY <2>2, <2>3, <2>4
<1>6. ASSUME NEW w \in Workers, Begin(w) PROVE ProcTypes'
  BY <1>6 DEF Begin
<1>7. ASSUME NEW w \in Workers, BeginError(w) PROVE ProcTypes'
  BY <1>7 DEF BeginError
<1>8. ASSUME NEW w \in Workers, Reset(w) PROVE ProcTypes'
  BY <1>8 DEF Reset
<1>9. ASSUME NEW w \in Workers, Plan(w) PROVE ProcTypes'
  BY <1>9 DEF Plan
<1>10. ASSUME NEW w \in Workers, NEW p \in Paths, Replace(w, p) PROVE ProcTypes'
  BY <1>10 DEF Replace
<1>11. ASSUME NEW w \in Workers, NEW p \in Paths, Suppress(w, p) PROVE ProcTypes'
  BY <1>11 DEF Suppress
<1>12. ASSUME NEW w \in Workers, NEW p \in Paths, SkipSource(w, p) PROVE ProcTypes'
  BY <1>12 DEF SkipSource
<1>13. ASSUME NEW w \in Workers, Finalize(w) PROVE ProcTypes'
  BY <1>13 DEF Finalize
<1>14. ASSUME NEW w \in Workers, Promote(w) PROVE ProcTypes'
  <2>1. session' \in [Procs -> {"none", "live", "lost"}] /\ faults' \in 0..MaxFaults
    <3>1. \/ UNCHANGED <<session, faults>>
          \/ Fault /\ session' = [session EXCEPT ![w] = "lost"]
      BY <1>14 DEF Promote
    <3>. QED  BY <3>1
  <2>2. Forget(w) /\ Goto(w, "release") /\ UNCHANGED doomed
    BY <1>14 DEF Promote
  <2>. QED  BY <2>1, <2>2
<1>15. ASSUME NEW w \in Workers, RefusePromotion(w) PROVE ProcTypes'
  BY <1>15 DEF RefusePromotion
<1>16. ASSUME NEW w \in Workers, Fail(w) PROVE ProcTypes'
  <2>1. Forget(w) /\ Goto(w, "release") /\ UNCHANGED <<session, doomed, faults>>
    BY <1>16 DEF Fail
  <2>. QED  BY <2>1
<1>17. ASSUME NEW w \in Workers, NoticeLoss(w) PROVE ProcTypes'
  BY <1>17 DEF NoticeLoss
<1>18. ASSUME NEW w \in Workers, BuildError(w) PROVE ProcTypes'
  BY <1>18 DEF BuildError
<1>19. ASSUME NEW k \in Cleaners, Select(k) PROVE ProcTypes'
  BY <1>19 DEF Select, Eligible, DataTypes
<1>20. ASSUME NEW k \in Cleaners, Delete(k) PROVE ProcTypes'
  BY <1>20 DEF Delete
<1>21. ASSUME NEW r \in RevIds, Age(r) PROVE ProcTypes'
  BY <1>21 DEF Age
<1>. QED
  BY <1>1, <1>2, <1>3, <1>4, <1>5, <1>6, <1>7, <1>8, <1>9, <1>10, <1>11, <1>12, <1>13,
     <1>14, <1>15, <1>16, <1>17, <1>18, <1>19, <1>20, <1>21
  DEF Next, Build, Clean

(* Every step keeps the rows of the database well typed.                   *)
LEMMA NextDataTypes == ASSUME ProcTypes, DataTypes, HandleInv, Next PROVE DataTypes'
<1> USE DEF DataTypes
<1>1. ASSUME UNCHANGED database PROVE DataTypes'
  BY <1>1 DEF database
<1>2. ASSUME NEW w \in Workers, Begin(w) PROVE DataTypes'
  <2>1. Target(w) \in Commits
    BY <1>2 DEF Begin, HandleInv, OwnHandle
  <2>. QED  BY <1>2, <2>1, StoreAssumption DEF Begin, States, Content, Empty
<1>3. ASSUME NEW w \in Workers, Reset(w) PROVE DataTypes'
  BY <1>3 DEF Reset, Content, Empty
<1>4. ASSUME NEW w \in Workers, NEW p \in Paths, Replace(w, p) PROVE DataTypes'
  <2>1. Target(w) \in Commits /\ Handle(w) \in RevIds
    BY <1>4 DEF Replace, HandleInv, OwnHandle, Building
  <2>2. Tree[Target(w)][p] \in Docs \cup {NoDoc}
    BY <2>1, StoreAssumption
  <2>3. docs' \in [RevIds -> Content]
    BY <1>4, <2>2 DEF Replace, Content
  <2>. QED  BY <1>4, <2>1, <2>3 DEF Replace
<1>5. ASSUME NEW w \in Workers, NEW p \in Paths, Suppress(w, p) PROVE DataTypes'
  BY <1>5 DEF Suppress, Content
<1>6. ASSUME NEW w \in Workers, Finalize(w) PROVE DataTypes'
  <2>1. Handle(w) \in RevIds
    BY <1>6 DEF Finalize, HandleInv, OwnHandle, Building
  <2>2. docs' \in [RevIds -> Content]
    BY <1>6 DEF Finalize, Content
  <2>. QED  BY <1>6, <2>1, <2>2 DEF Finalize
<1>7. ASSUME NEW w \in Workers, Promote(w) PROVE DataTypes'
  <2>1. Handle(w) \in RevIds
    BY <1>7 DEF Promote, HandleInv, OwnHandle, Building
  <2>2. PICK s \in Served : state' = Published(Handle(w), s)
    BY <1>7 DEF Promote
  <2>3. state' \in [RevIds -> States]
    BY <2>2 DEF Published, States, Served
  <2>. QED  BY <1>7, <2>1, <2>3 DEF Promote
<1>8. ASSUME NEW w \in Workers, Fail(w) PROVE DataTypes'
  <2>1. state' \in [RevIds -> States] /\ aged' \in SUBSET RevIds
    BY <1>8 DEF Fail, States
  <2>. QED  BY <1>8, <2>1 DEF Fail
<1>9. ASSUME NEW k \in Cleaners, Delete(k) PROVE DataTypes'
  <2>1. CASE ForeignKeyHolds(k)
    BY <1>9, <2>1 DEF Delete, States, Content, Empty
  <2>2. CASE ~ForeignKeyHolds(k)
    BY <1>9, <2>2 DEF Delete
  <2>. QED  BY <2>1, <2>2
<1>10. ASSUME NEW r \in RevIds, Age(r) PROVE DataTypes'
  BY <1>10 DEF Age
<1>11. ASSUME NEW q \in Procs, Acquire(q) \/ Release(q) \/ LoseSession(q) \/ Crash(q)
       PROVE UNCHANGED database
  BY <1>11 DEF Acquire, Release, LoseSession, Crash
<1>12. ASSUME NEW w \in Workers, \/ Inspect(w) \/ BeginError(w) \/ Plan(w)
                                \/ RefusePromotion(w) \/ NoticeLoss(w) \/ BuildError(w)
                                \/ \E p \in Paths : SkipSource(w, p)
       PROVE UNCHANGED database
  BY <1>12 DEF Inspect, BeginError, Plan, RefusePromotion, NoticeLoss, BuildError, SkipSource
<1>13. ASSUME NEW k \in Cleaners, Select(k) PROVE UNCHANGED database
  BY <1>13 DEF Select
<1>. QED
  BY <1>1, <1>2, <1>3, <1>4, <1>5, <1>6, <1>7, <1>8, <1>9, <1>10, <1>11, <1>12, <1>13
  DEF Next, Build, Clean

(* Every step keeps the whole state well typed.                            *)
LEMMA NextTypeOK == ASSUME TypeOK, HandleInv, Next PROVE TypeOK'
<1>1. ProcTypes /\ DataTypes
  BY TypeParts
<1>2. ProcTypes' /\ DataTypes'
  BY <1>1, NextProcTypes, NextDataTypes
<1>. QED  BY <1>2 DEF TypeOK, ProcTypes, DataTypes

----------------------------------------------------------------------------
(* What a step does to the rows.                                           *)

WriteStep(w) ==
    \/ Reset(w) \/ Finalize(w)
    \/ \E p \in Paths : Replace(w, p) \/ Suppress(w, p)

(* A row is written only while it is being built, by the pass that holds   *)
(* it: the step of a pass leaves the contents of every other row alone.    *)
LEMMA WritesOwnBuild ==
    ASSUME TypeOK, HandleInv, NEW w \in Workers, WriteStep(w)
    PROVE  /\ Handle(w) \in RevIds /\ Writable(w) /\ docs' \in [RevIds -> Content]
           /\ \A r \in RevIds : r # Handle(w) => docs'[r] = docs[r]
           /\ UNCHANGED <<active, state, commit, base, promotions, aged>>
<1>. USE DEF Building
<1>1. ASSUME Reset(w)
      PROVE /\ Handle(w) \in RevIds /\ Writable(w)
            /\ \A r \in RevIds : r # Handle(w) => docs'[r] = docs[r]
            /\ UNCHANGED <<active, state, commit, base, promotions, aged>>
  BY <1>1 DEF Reset, HandleInv, OwnHandle, TypeOK
<1>2. ASSUME NEW p \in Paths, Replace(w, p)
      PROVE /\ Handle(w) \in RevIds /\ Writable(w)
            /\ \A r \in RevIds : r # Handle(w) => docs'[r] = docs[r]
            /\ UNCHANGED <<active, state, commit, base, promotions, aged>>
  BY <1>2 DEF Replace, HandleInv, OwnHandle, TypeOK
<1>3. ASSUME NEW p \in Paths, Suppress(w, p)
      PROVE /\ Handle(w) \in RevIds /\ Writable(w)
            /\ \A r \in RevIds : r # Handle(w) => docs'[r] = docs[r]
            /\ UNCHANGED <<active, state, commit, base, promotions, aged>>
  BY <1>3 DEF Suppress, HandleInv, OwnHandle, TypeOK
<1>4. ASSUME Finalize(w)
      PROVE /\ Handle(w) \in RevIds /\ Writable(w)
            /\ \A r \in RevIds : r # Handle(w) => docs'[r] = docs[r]
            /\ UNCHANGED <<active, state, commit, base, promotions, aged>>
  BY <1>4 DEF Finalize, HandleInv, OwnHandle, TypeOK
<1>5. docs' \in [RevIds -> Content]
  <2>1. Next
    BY DEF Next, Build, WriteStep
  <2>. QED  BY <2>1, NextTypeOK DEF TypeOK
<1>. QED  BY <1>1, <1>2, <1>3, <1>4, <1>5 DEF WriteStep

(* The steps that leave the database as it is.                             *)
ClientStep ==
    \/ \E q \in Procs : Acquire(q) \/ Release(q) \/ LoseSession(q) \/ Crash(q)
    \/ \E w \in Workers : \/ Inspect(w) \/ BeginError(w) \/ Plan(w) \/ RefusePromotion(w)
                          \/ NoticeLoss(w) \/ BuildError(w)
                          \/ \E p \in Paths : SkipSource(w, p)
    \/ \E k \in Cleaners : Select(k)

(* A step of a client on its own leaves the database as it is.             *)
LEMMA ClientStepOnly == ASSUME ClientStep PROVE UNCHANGED database
<1>1. ASSUME NEW q \in Procs, Acquire(q) \/ Release(q) \/ LoseSession(q) \/ Crash(q)
      PROVE UNCHANGED database
  BY <1>1 DEF Acquire, Release, LoseSession, Crash
<1>2. ASSUME NEW w \in Workers, \/ Inspect(w) \/ BeginError(w) \/ Plan(w)
                                \/ RefusePromotion(w) \/ NoticeLoss(w) \/ BuildError(w)
                                \/ \E p \in Paths : SkipSource(w, p)
      PROVE UNCHANGED database
  BY <1>2 DEF Inspect, BeginError, Plan, RefusePromotion, NoticeLoss, BuildError, SkipSource
<1>3. ASSUME NEW k \in Cleaners, Select(k) PROVE UNCHANGED database
  BY <1>3 DEF Select
<1>. QED  BY <1>1, <1>2, <1>3 DEF ClientStep

(* Every step is one of these, or one on the rows.                         *)
LEMMA StepKinds ==
    ASSUME Next
    PROVE  \/ ClientStep
           \/ \E w \in Workers : WriteStep(w) \/ Begin(w) \/ Promote(w) \/ Fail(w)
           \/ \E k \in Cleaners : Delete(k)
           \/ \E r \in RevIds : Age(r)
BY DEF Next, Build, Clean, ClientStep, WriteStep

(* Publication: the row of the pass becomes the active one, the active row *)
(* it was copied from becomes superseded, every other row is as it was.    *)
LEMMA PromoteEffect ==
    ASSUME TypeOK, HandleInv, OneServed, NEW w \in Workers, Promote(w)
    PROVE  /\ Handle(w) \in RevIds /\ state[Handle(w)] = "building"
           /\ active' = Handle(w) /\ active = base[Handle(w)]
           /\ state'[Handle(w)] \in Served
           /\ active # None => state'[active] = "superseded"
           /\ \A r \in RevIds : r # Handle(w) /\ r # active => state'[r] = state[r]
           /\ promotions' = Append(promotions, Handle(w))
           /\ UNCHANGED <<commit, base, docs>>
<1>1. /\ Handle(w) \in RevIds /\ state[Handle(w)] = "building" /\ active = base[Handle(w)]
      /\ active' = Handle(w) /\ promotions' = Append(promotions, Handle(w))
      /\ UNCHANGED <<commit, base, docs>>
  BY DEF Promote, HandleInv, OwnHandle, Building, MayPublish, Writable
<1>2. PICK s \in Served : state' = Published(Handle(w), s)
  BY DEF Promote
<1>3. \A r \in RevIds : state'[r] = IF r = Handle(w) THEN s
                                    ELSE IF r = active /\ state[r] \in Served THEN "superseded"
                                    ELSE state[r]
  BY <1>1, <1>2 DEF Published
<1>4. active # None => active \in RevIds /\ state[active] \in Served /\ active # Handle(w)
  BY <1>1 DEF TypeOK, OneServed, Served
<1>. QED  BY <1>1, <1>2, <1>3, <1>4

(* begin_revision draws a row nobody has used.                             *)
Begins(w, r) ==
    /\ state[r] = "unborn" /\ state' = [state EXCEPT ![r] = "building"]
    /\ commit' = [commit EXCEPT ![r] = Target(w)]
    /\ \A q \in RevIds : q # r => base'[q] = base[q] /\ docs'[q] = docs[q]
    /\ pass' = [pass EXCEPT ![w] = Pass(Target(w), Usable(w), r, {}, TRUE)]
    /\ pc' = [pc EXCEPT ![w] = IF Usable(w) THEN "plan" ELSE "reset"]
    /\ UNCHANGED <<active, promotions>>

(* begin_revision turns one unborn row into a build copied from the active *)
(* row.                                                                    *)
LEMMA BeginEffect ==
    ASSUME TypeOK, HandleInv, NEW w \in Workers, Begin(w)
    PROVE  \E r \in RevIds :
             Begins(w, r)
BY DEF Begin, Begins, TypeOK, Goto

(* Retention: the rows it deletes are not the active one.                  *)
LEMMA DeleteEffect ==
    ASSUME TypeOK, NEW k \in Cleaners, Delete(k)
    PROVE  /\ \A r \in RevIds : \/ state'[r] = state[r] /\ docs'[r] = docs[r]
                                \/ state'[r] = "deleted" /\ r # active
           /\ UNCHANGED <<active, commit, base, promotions, pass>>
           /\ \A w \in Workers : pc'[w] = pc[w]
<1>1. UNCHANGED <<active, commit, base, promotions, pass>>
  BY DEF Delete
<1>2. \A w \in Workers : pc'[w] = pc[w]
  BY StoreAssumption DEF Delete, Goto, TypeOK, Procs
<1>3. CASE ForeignKeyHolds(k)
  BY <1>1, <1>2, <1>3 DEF Delete, ForeignKeyHolds
<1>4. CASE ~ForeignKeyHolds(k)
  BY <1>1, <1>2, <1>4 DEF Delete
<1>. QED  BY <1>3, <1>4

(* revision.fail touches only a row that is being built.                   *)
LEMMA FailEffect ==
    ASSUME TypeOK, HandleInv, NEW w \in Workers, Fail(w)
    PROVE  /\ \A r \in RevIds : \/ state'[r] = state[r]
                                \/ /\ state[r] = "building" /\ state'[r] = "failed"
                                   /\ r = Handle(w)
           /\ UNCHANGED <<active, commit, base, docs, promotions>>
           /\ Forget(w) /\ Goto(w, "release")
BY DEF Fail, TypeOK, Writable

----------------------------------------------------------------------------
(* The invariants of the rows.                                             *)

(* Every step keeps the pointer of queries and the states of the rows      *)
(* agreed.                                                                 *)
LEMMA NextOneServed == ASSUME StoreInv, Next PROVE OneServed'
<1>. USE DEF StoreInv
<1>1. ASSUME UNCHANGED <<active, state>> PROVE OneServed'
  BY <1>1 DEF OneServed
<1>2. ASSUME ClientStep PROVE OneServed'
  BY <1>1, <1>2, ClientStepOnly DEF database
<1>3. ASSUME NEW w \in Workers, WriteStep(w) PROVE OneServed'
  BY <1>1, <1>3, WritesOwnBuild
<1>4. ASSUME NEW w \in Workers, Begin(w) PROVE OneServed'
  <2>1. PICK r \in RevIds : Begins(w, r)
    BY <1>4, BeginEffect
  <2>. QED  BY <2>1 DEF Begins, OneServed, Served, TypeOK
<1>5. ASSUME NEW w \in Workers, Promote(w) PROVE OneServed'
  <2>1. /\ Handle(w) \in RevIds /\ active' = Handle(w) /\ state'[Handle(w)] \in Served
        /\ active # None => state'[active] = "superseded"
        /\ \A r \in RevIds : r # Handle(w) /\ r # active => state'[r] = state[r]
    BY <1>5, PromoteEffect
  <2>2. ASSUME NEW r \in RevIds, r # Handle(w) PROVE state'[r] \notin Served
    <3>1. CASE r = active
      BY <2>1, <3>1, StoreAssumption DEF Served
    <3>2. CASE r # active
      BY <2>1, <2>2, <3>2 DEF OneServed
    <3>. QED  BY <3>1, <3>2
  <2>. QED  BY <2>1, <2>2 DEF OneServed
<1>6. ASSUME NEW w \in Workers, Fail(w) PROVE OneServed'
  BY <1>6, FailEffect DEF OneServed, Served
<1>7. ASSUME NEW k \in Cleaners, Delete(k) PROVE OneServed'
  BY <1>7, DeleteEffect DEF OneServed, Served
<1>8. ASSUME NEW r \in RevIds, Age(r) PROVE OneServed'
  BY <1>1, <1>8 DEF Age
<1>. QED  BY <1>2, <1>3, <1>4, <1>5, <1>6, <1>7, <1>8, StepKinds

(* Every step keeps the served revision equal to the tree of its commit.   *)
LEMMA NextServedMatches == ASSUME StoreInv, Next PROVE ServedMatchesCommit'
<1>. USE DEF StoreInv
<1>1. ASSUME UNCHANGED active, active # None => docs'[active] = docs[active]
                                             /\ commit'[active] = commit[active]
      PROVE ServedMatchesCommit'
  BY <1>1 DEF ServedMatchesCommit
<1>2. active # None => active \in RevIds /\ state[active] \in Served
  BY DEF TypeOK, OneServed
<1>3. ASSUME ClientStep PROVE ServedMatchesCommit'
  BY <1>1, <1>3, ClientStepOnly DEF database
<1>4. ASSUME NEW w \in Workers, WriteStep(w) PROVE ServedMatchesCommit'
  <2>1. active # None => active # Handle(w)
    BY <1>2, <1>4, WritesOwnBuild DEF Writable, Served
  <2>. QED  BY <1>1, <1>2, <1>4, <2>1, WritesOwnBuild
<1>5. ASSUME NEW w \in Workers, Begin(w) PROVE ServedMatchesCommit'
  <2>1. PICK r \in RevIds : Begins(w, r)
    BY <1>5, BeginEffect
  <2>2. active # r
    BY <1>2, <2>1, StoreAssumption DEF Begins, Served
  <2>3. active # None => docs'[active] = docs[active] /\ commit'[active] = commit[active]
    BY <1>2, <2>1, <2>2 DEF Begins, TypeOK
  <2>. QED  BY <1>1, <2>1, <2>3 DEF Begins
<1>6. ASSUME NEW w \in Workers, Promote(w) PROVE ServedMatchesCommit'
  <2>1. /\ Handle(w) \in RevIds /\ active' = Handle(w) /\ UNCHANGED <<commit, docs>>
    BY <1>6, PromoteEffect
  <2>2. pc[w] = "decide" /\ Writable(w) /\ Lexical(w)
    BY <1>6 DEF Promote, MayPublish, LexicallyComplete
  <2>3. Target(w) \in Commits /\ commit[Handle(w)] = Target(w)
    BY <2>1, <2>2, StoreAssumption DEF HandleInv, OwnHandle, Building
  <2>4. \A p \in Paths : docs[Handle(w)][p] = Tree[Target(w)][p]
    BY <2>2 DEF BuildInv, BuildSoFar
  <2>5. docs[Handle(w)] \in [Paths -> Docs \cup {NoDoc}]
        /\ Tree[Target(w)] \in [Paths -> Docs \cup {NoDoc}]
    BY <2>1, <2>3, StoreAssumption DEF TypeOK, Content
  <2>6. docs[Handle(w)] = Tree[Target(w)]
    BY <2>4, <2>5
  <2>. QED  BY <2>1, <2>3, <2>6 DEF ServedMatchesCommit
<1>7. ASSUME NEW w \in Workers, Fail(w) PROVE ServedMatchesCommit'
  BY <1>1, <1>7, FailEffect
<1>8. ASSUME NEW k \in Cleaners, Delete(k) PROVE ServedMatchesCommit'
  <2>1. active # None => docs'[active] = docs[active]
    BY <1>2, <1>8, DeleteEffect
  <2>. QED  BY <1>1, <1>8, <2>1, DeleteEffect
<1>9. ASSUME NEW r \in RevIds, Age(r) PROVE ServedMatchesCommit'
  BY <1>1, <1>9 DEF Age
<1>. QED  BY <1>3, <1>4, <1>5, <1>6, <1>7, <1>8, <1>9, StepKinds

(* Every step keeps the publications in one line, each copied from the one *)
(* before.                                                                 *)
LEMMA NextHistoryInv == ASSUME StoreInv, Next PROVE HistoryInv'
<1>. USE DEF StoreInv
<1>1. ASSUME UNCHANGED <<active, promotions>>,
             \A r \in Promoted : /\ base'[r] = base[r]
                                 /\ state'[r] \in Served \cup {"superseded", "deleted"}
      PROVE HistoryInv'
  BY <1>1 DEF HistoryInv, LinearHistory, Promoted
<1>2. /\ Promoted \subseteq RevIds
      /\ \A r \in Promoted : state[r] \in Served \cup {"superseded", "deleted"}
  BY DEF HistoryInv, Promoted, TypeOK
<1>3. ASSUME ClientStep PROVE HistoryInv'
  <2>1. UNCHANGED <<active, promotions, base, state>>
    BY <1>3, ClientStepOnly DEF database
  <2>. QED  BY <1>1, <1>2, <2>1
<1>4. ASSUME NEW w \in Workers, WriteStep(w) PROVE HistoryInv'
  BY <1>1, <1>2, <1>4, WritesOwnBuild
<1>5. ASSUME NEW w \in Workers, Begin(w) PROVE HistoryInv'
  <2>1. PICK r \in RevIds : Begins(w, r)
    BY <1>5, BeginEffect
  <2>2. r \notin Promoted
    BY <1>2, <2>1 DEF Begins, Served
  <2>3. \A q \in Promoted : base'[q] = base[q] /\ state'[q] = state[q]
    BY <1>2, <2>1, <2>2 DEF Begins, TypeOK
  <2>4. UNCHANGED <<active, promotions>>
    BY <2>1 DEF Begins
  <2>. QED  BY <1>1, <1>2, <2>3, <2>4
<1>6. ASSUME NEW w \in Workers, Promote(w) PROVE HistoryInv'
  <2>. DEFINE n == Len(promotions)
  <2>1. /\ Handle(w) \in RevIds /\ state[Handle(w)] = "building"
        /\ active' = Handle(w) /\ active = base[Handle(w)] /\ state'[Handle(w)] \in Served
        /\ active # None => state'[active] = "superseded"
        /\ \A r \in RevIds : r # Handle(w) /\ r # active => state'[r] = state[r]
        /\ promotions' = Append(promotions, Handle(w)) /\ UNCHANGED base
    BY <1>6, PromoteEffect
  <2>2. promotions \in Seq(RevIds) /\ n \in Nat
    BY DEF TypeOK
  <2>3. /\ Len(promotions') = n + 1 /\ promotions'[n + 1] = Handle(w)
        /\ \A i \in 1..n : promotions'[i] = promotions[i]
        /\ DOMAIN promotions' = 1..(n + 1) /\ DOMAIN promotions = 1..n
    BY <2>1, <2>2
  <2>4. Handle(w) \notin Promoted
    BY <1>2, <2>1 DEF Served
  <2>5. \A r \in Promoted : state'[r] \in Served \cup {"superseded", "deleted"}
    BY <1>2, <2>1, <2>4, StoreAssumption
  <2>6. \A i \in DOMAIN promotions' :
            state'[promotions'[i]] \in Served \cup {"superseded", "deleted"}
    BY <2>1, <2>2, <2>3, <2>5 DEF Promoted
  <2>7. \A i, j \in DOMAIN promotions' : promotions'[i] = promotions'[j] => i = j
    <3>1. \A i \in 1..n : promotions[i] # Handle(w)
      BY <2>3, <2>4 DEF Promoted
    <3>2. \A i, j \in 1..n : promotions[i] = promotions[j] => i = j
      BY <2>3 DEF HistoryInv
    <3>. QED  BY <2>2, <2>3, <3>1, <3>2
  <2>8. active' = IF Len(promotions') = 0 THEN None ELSE promotions'[Len(promotions')]
    BY <2>1, <2>2, <2>3
  <2>9. \A i \in DOMAIN promotions' :
            base'[promotions'[i]] = IF i = 1 THEN None ELSE promotions'[i-1]
    <3>1. base'[promotions'[n + 1]] = IF n + 1 = 1 THEN None ELSE promotions'[n]
      <4>1. active = IF n = 0 THEN None ELSE promotions[n]
        BY DEF HistoryInv
      <4>2. base'[promotions'[n + 1]] = active
        BY <2>1, <2>3
      <4>3. CASE n = 0
        BY <4>1, <4>2, <4>3
      <4>4. CASE n # 0
        <5>1. n \in 1..n /\ n + 1 # 1
          BY <2>2, <4>4
        <5>2. promotions'[n] = promotions[n]
          BY <2>3, <5>1
        <5>. QED  BY <4>1, <4>2, <4>4, <5>1, <5>2
      <4>. QED  BY <4>3, <4>4
    <3>2. \A i \in 1..n : base[promotions[i]] = IF i = 1 THEN None ELSE promotions[i-1]
      BY <2>3 DEF HistoryInv, LinearHistory
    <3>3. ASSUME NEW i \in 1..n
          PROVE  base'[promotions'[i]] = IF i = 1 THEN None ELSE promotions'[i-1]
      <4>1. base'[promotions'[i]] = base[promotions[i]]
        BY <2>1, <2>3
      <4>2. i = 1 \/ i - 1 \in 1..n
        BY <2>2
      <4>3. i = 1 \/ promotions'[i-1] = promotions[i-1]
        BY <2>3, <4>2
      <4>. QED  BY <3>2, <4>1, <4>3
    <3>4. \A i \in 1..(n + 1) : i \in 1..n \/ i = n + 1
      BY <2>2
    <3>5. (n + 1) - 1 = n
      BY <2>2
    <3>. QED  BY <2>3, <3>1, <3>3, <3>4, <3>5
  <2>. QED  BY <2>6, <2>7, <2>8, <2>9 DEF HistoryInv, LinearHistory
<1>7. ASSUME NEW w \in Workers, Fail(w) PROVE HistoryInv'
  <2>1. /\ UNCHANGED <<active, promotions, base>>
        /\ \A r \in RevIds : state'[r] = state[r] \/ state[r] = "building"
    BY <1>7, FailEffect
  <2>. QED  BY <1>1, <1>2, <2>1 DEF Served
<1>8. ASSUME NEW k \in Cleaners, Delete(k) PROVE HistoryInv'
  <2>1. /\ UNCHANGED <<active, promotions, base>>
        /\ \A r \in RevIds : state'[r] = state[r] \/ state'[r] = "deleted"
    BY <1>8, DeleteEffect
  <2>. QED  BY <1>1, <1>2, <2>1
<1>9. ASSUME NEW r \in RevIds, Age(r) PROVE HistoryInv'
  BY <1>1, <1>2, <1>9 DEF Age
<1>. QED  BY <1>3, <1>4, <1>5, <1>6, <1>7, <1>8, <1>9, StepKinds

----------------------------------------------------------------------------
(* The invariants of the passes.                                           *)

(* What a step may do to a row without disturbing the pass that holds it:  *)
(* leave it alone or delete it.                                            *)
RowKept(r) ==
    /\ state'[r] \in {state[r], "deleted"}
    /\ commit'[r] = commit[r]
    /\ state'[r] # "deleted" => docs'[r] = docs[r]

(* A pass whose own place and knowledge do not change keeps its invariants *)
(* when its row is kept.                                                   *)
LEMMA Undisturbed ==
    ASSUME StoreInv, NEW v \in Workers, pc'[v] = pc[v], pass'[v] = pass[v],
           Handle(v) # None => RowKept(Handle(v))
    PROVE  OwnHandle(v)' /\ BuildSoFar(v)'
<1>1. OwnHandle(v) /\ BuildSoFar(v)
  BY DEF StoreInv, HandleInv, BuildInv
<1>2. /\ Handle(v)' = Handle(v) /\ Target(v)' = Target(v)
      /\ Todo(v)' = Todo(v) /\ Lexical(v)' = Lexical(v)
  BY DEF Handle, Target, Todo, Lexical
<1>3. OwnHandle(v)'
  BY <1>1, <1>2 DEF OwnHandle, RowKept
<1>4. BuildSoFar(v)'
  <2>1. CASE Handle(v) = None
    BY <1>1, <1>2, <2>1, StoreAssumption DEF OwnHandle, BuildSoFar, Building
  <2>2. CASE Handle(v) # None
    BY <1>1, <1>2, <2>2 DEF BuildSoFar, RowKept, Writable
  <2>. QED  BY <2>1, <2>2
<1>. QED  BY <1>3, <1>4

(* A step no pass takes part in.                                           *)
LEMMA NoPassMoves ==
    ASSUME StoreInv, \A v \in Workers : pc'[v] = pc[v], UNCHANGED pass,
           \A r \in RevIds : state[r] \in {"building", "deleted"} => RowKept(r)
    PROVE  HandleInv' /\ BuildInv'
<1>1. ASSUME NEW v \in Workers, Handle(v) # None PROVE RowKept(Handle(v))
  <2>1. Handle(v) \in RevIds /\ state[Handle(v)] \in {"building", "deleted"}
    BY <1>1 DEF StoreInv, HandleInv, OwnHandle
  <2>. QED  BY <2>1
<1>2. \A v \in Workers : OwnHandle(v)' /\ BuildSoFar(v)'
  BY <1>1, Undisturbed
<1>3. \A v \in Workers : Handle(v)' = Handle(v)
  BY DEF Handle
<1>. QED  BY <1>2, <1>3 DEF HandleInv, BuildInv, StoreInv

(* The step of one pass w that ends with the knowledge k at the place at:  *)
(* the others are undisturbed.                                             *)
LEMMA OnePassMoves ==
    ASSUME StoreInv, NEW w \in Workers, NEW at, NEW k,
           pc' = [pc EXCEPT ![w] = at], pass' = [pass EXCEPT ![w] = k],
           \A r \in RevIds : r # Handle(w) /\ state[r] \in {"building", "deleted"} => RowKept(r)
    PROVE  /\ \A v \in Workers : v # w => OwnHandle(v)' /\ BuildSoFar(v)' /\ Handle(v)' = Handle(v)
           /\ pc'[w] = at /\ pass'[w] = k
<1>1. w \in Procs /\ pc'[w] = at /\ pass'[w] = k
  BY DEF StoreInv, TypeOK, Procs
<1>2. ASSUME NEW v \in Workers, v # w
      PROVE  OwnHandle(v)' /\ BuildSoFar(v)' /\ Handle(v)' = Handle(v)
  <2>1. pc'[v] = pc[v] /\ pass'[v] = pass[v]
    BY <1>2 DEF StoreInv, TypeOK, Procs
  <2>2. ASSUME Handle(v) # None PROVE RowKept(Handle(v))
    <3>1. /\ Handle(v) \in RevIds /\ Handle(v) # Handle(w)
          /\ state[Handle(v)] \in {"building", "deleted"}
      BY <1>2, <2>2 DEF StoreInv, HandleInv, OwnHandle
    <3>. QED  BY <3>1
  <2>3. Handle(v)' = Handle(v)
    BY <2>1 DEF Handle
  <2>. QED  BY <2>1, <2>2, <2>3, Undisturbed
<1>. QED  BY <1>1, <1>2

(* The pass w lets go of its revision, or has none.                        *)
LEMMA PassLetsGo ==
    ASSUME StoreInv, NEW w \in Workers, NEW at, NEW k,
           pc' = [pc EXCEPT ![w] = at], pass' = [pass EXCEPT ![w] = k],
           \A r \in RevIds : r # Handle(w) /\ state[r] \in {"building", "deleted"} => RowKept(r),
           k.handle = None, at \notin Building, at = "begin" => k.target \in Commits
    PROVE  HandleInv' /\ BuildInv'
<1>1. /\ \A v \in Workers : v # w => OwnHandle(v)' /\ BuildSoFar(v)' /\ Handle(v)' = Handle(v)
      /\ pc'[w] = at /\ pass'[w] = k
  BY OnePassMoves
<1>2. Handle(w)' = None /\ OwnHandle(w)'
  BY <1>1 DEF Handle, Target, OwnHandle
<1>3. BuildSoFar(w)'
  BY <1>1 DEF BuildSoFar, Building
<1>. QED  BY <1>1, <1>2, <1>3 DEF HandleInv, BuildInv, StoreInv

(* The pass w goes on with its revision.                                   *)
LEMMA PassGoesOn ==
    ASSUME StoreInv, NEW w \in Workers, NEW at, NEW k,
           pc' = [pc EXCEPT ![w] = at], pass' = [pass EXCEPT ![w] = k],
           \A r \in RevIds : r # Handle(w) /\ state[r] \in {"building", "deleted"} => RowKept(r),
           UNCHANGED <<state, commit>>,
           pc[w] \in Building, at \in Building,
           k.handle = Handle(w), k.target = Target(w), BuildSoFar(w)'
    PROVE  HandleInv' /\ BuildInv'
<1>1. /\ \A v \in Workers : v # w => OwnHandle(v)' /\ BuildSoFar(v)' /\ Handle(v)' = Handle(v)
      /\ pc'[w] = at /\ pass'[w] = k
  BY OnePassMoves
<1>2. Handle(w)' = Handle(w) /\ Target(w)' = Target(w)
  BY <1>1 DEF Handle, Target
<1>3. OwnHandle(w)'
  BY <1>1, <1>2, StoreAssumption DEF StoreInv, HandleInv, OwnHandle, Building
<1>. QED  BY <1>1, <1>2, <1>3 DEF HandleInv, BuildInv, StoreInv

(* Every step keeps what a pass knows true of the revision it builds.      *)
LEMMA NextPassInv == ASSUME StoreInv, Next PROVE HandleInv' /\ BuildInv'
<1>t. /\ TypeOK /\ HandleInv /\ BuildInv /\ OneServed
      /\ pc \in [Procs -> WorkerPC \cup CleanerPC] /\ pass \in [Workers -> Passes]
      /\ \A w \in Workers : w \in Procs /\ OwnHandle(w)
      /\ \A w \in Workers : pass[w].handle = Handle(w) /\ pass[w].target = Target(w)
  BY DEF StoreInv, TypeOK, Procs, HandleInv, Handle, Target
<1>d. ASSUME UNCHANGED database PROVE \A r \in RevIds : RowKept(r)
  BY <1>d DEF database, RowKept
<1>e. NoPass.handle = None
  BY DEF NoPass, Pass
<1>g. ASSUME NEW w \in Workers, UNCHANGED database, Forget(w), NEW at \in {"idle", "release"},
             Goto(w, at)
      PROVE  HandleInv' /\ BuildInv'
  BY <1>g, <1>d, <1>e, PassLetsGo DEF Forget, Goto, Building
<1>k. ASSUME NEW k \in Cleaners, pc' = [pc EXCEPT ![k] = pc'[k]], UNCHANGED <<database, pass>>
      PROVE  HandleInv' /\ BuildInv'
  <2>1. \A v \in Workers : pc'[v] = pc[v]
    BY <1>k, <1>t, StoreAssumption
  <2>. QED  BY <1>k, <1>d, <2>1, NoPassMoves
<1>f. ASSUME NEW w \in Workers, UNCHANGED <<database, pass>>, NEW at \in {"idle", "leased", "release"},
             Goto(w, at), pc[w] \notin Building
      PROVE  HandleInv' /\ BuildInv'
  <2>1. Handle(w) = None
    BY <1>t, <1>f DEF OwnHandle
  <2>2. pass' = [pass EXCEPT ![w] = pass[w]]
    BY <1>f, <1>t
  <2>. QED  BY <1>t, <1>f, <1>d, <2>1, <2>2, PassLetsGo DEF Goto, Building
<1>1. ASSUME NEW q \in Procs, Acquire(q) PROVE HandleInv' /\ BuildInv'
  <2>1. CASE q \in Workers
    BY <1>1, <2>1, <1>f DEF Acquire, Building
  <2>2. CASE q \in Cleaners
    BY <1>1, <2>2, <1>k, <1>t DEF Acquire, Goto
  <2>. QED  BY <2>1, <2>2 DEF Procs
<1>2. ASSUME NEW q \in Procs, Release(q) PROVE HandleInv' /\ BuildInv'
  <2>1. CASE q \in Workers
    BY <1>2, <2>1, <1>f DEF Release, Building
  <2>2. CASE q \in Cleaners
    BY <1>2, <2>2, <1>k, <1>t DEF Release, Goto
  <2>. QED  BY <2>1, <2>2 DEF Procs
<1>3. ASSUME NEW q \in Procs, LoseSession(q) PROVE HandleInv' /\ BuildInv'
  BY <1>3, <1>d, NoPassMoves DEF LoseSession, processes
<1>4. ASSUME NEW q \in Procs, Crash(q) PROVE HandleInv' /\ BuildInv'
  <2>0. Goto(q, "idle") /\ UNCHANGED database
    BY <1>4 DEF Crash
  <2>1. CASE q \in Workers /\ Forget(q)
    BY <2>0, <2>1, <1>g
  <2>2. CASE q \in Cleaners /\ UNCHANGED pass
    BY <2>0, <2>2, <1>k, <1>t DEF Goto
  <2>. QED  BY <1>4, <2>1, <2>2 DEF Crash
<1>5. ASSUME NEW w \in Workers, Inspect(w) PROVE HandleInv' /\ BuildInv'
  <2>1. pc[w] = "leased" /\ UNCHANGED database
    BY <1>5 DEF Inspect
  <2>2. PICK c \in Commits :
          \/ Goto(w, "release") /\ UNCHANGED pass
          \/ /\ Goto(w, "begin")
             /\ \E u \in BOOLEAN : pass' = [pass EXCEPT ![w] = Pass(c, u, None, {}, TRUE)]
    BY <1>5 DEF Inspect
  <2>3. CASE Goto(w, "release") /\ UNCHANGED pass
    BY <2>1, <2>3, <1>f DEF Building
  <2>4. CASE /\ Goto(w, "begin")
             /\ \E u \in BOOLEAN : pass' = [pass EXCEPT ![w] = Pass(c, u, None, {}, TRUE)]
    <3>1. PICK u \in BOOLEAN : pass' = [pass EXCEPT ![w] = Pass(c, u, None, {}, TRUE)]
      BY <2>4
    <3>2. Pass(c, u, None, {}, TRUE).handle = None /\ Pass(c, u, None, {}, TRUE).target = c
      BY DEF Pass
    <3>. QED  BY <2>1, <2>4, <3>1, <3>2, <1>d, PassLetsGo DEF Goto, Building
  <2>. QED  BY <2>2, <2>3, <2>4
<1>7. ASSUME NEW w \in Workers, BeginError(w) PROVE HandleInv' /\ BuildInv'
  BY <1>7, <1>g DEF BeginError
<1>15. ASSUME NEW w \in Workers, RefusePromotion(w) PROVE HandleInv' /\ BuildInv'
  BY <1>15, <1>g DEF RefusePromotion
<1>17. ASSUME NEW w \in Workers, NoticeLoss(w) PROVE HandleInv' /\ BuildInv'
  BY <1>17, <1>g DEF NoticeLoss
<1>19. ASSUME NEW k \in Cleaners, Select(k) PROVE HandleInv' /\ BuildInv'
  BY <1>19, <1>k, <1>t DEF Select, Goto, Procs
<1>20. ASSUME NEW k \in Cleaners, Delete(k) PROVE HandleInv' /\ BuildInv'
  <2>1. \A r \in RevIds : RowKept(r)
    BY <1>t, <1>20, DeleteEffect DEF RowKept
  <2>. QED  BY <1>t, <1>20, <2>1, DeleteEffect, NoPassMoves
<1>21. ASSUME NEW r \in RevIds, Age(r) PROVE HandleInv' /\ BuildInv'
  <2>1. UNCHANGED <<state, commit, docs, pc, pass>>
    BY <1>21 DEF Age, processes
  <2>. QED  BY <2>1, NoPassMoves DEF RowKept
<1>16. ASSUME NEW w \in Workers, Fail(w) PROVE HandleInv' /\ BuildInv'
  <2>1. \A r \in RevIds : r # Handle(w) => RowKept(r)
    BY <1>t, <1>16, FailEffect DEF RowKept
  <2>2. Forget(w) /\ Goto(w, "release")
    BY <1>16 DEF Fail
  <2>. QED  BY <2>1, <2>2, <1>e, PassLetsGo DEF Forget, Goto, Building
<1>14. ASSUME NEW w \in Workers, Promote(w) PROVE HandleInv' /\ BuildInv'
  <2>1. \A r \in RevIds : r # Handle(w) /\ state[r] \in {"building", "deleted"} => RowKept(r)
    <3>1. active # None => active \in RevIds /\ state[active] \in Served
      BY <1>t DEF TypeOK, OneServed
    <3>2. /\ \A r \in RevIds : r # Handle(w) /\ r # active => state'[r] = state[r]
          /\ UNCHANGED <<commit, docs>>
      BY <1>t, <1>14, PromoteEffect
    <3>. QED  BY <3>1, <3>2, StoreAssumption DEF RowKept, Served
  <2>2. Forget(w) /\ Goto(w, "release")
    BY <1>14 DEF Promote
  <2>. QED  BY <2>1, <2>2, <1>e, PassLetsGo DEF Forget, Goto, Building
<1>r. ASSUME NEW w \in Workers, WriteStep(w)
      PROVE  /\ \A r \in RevIds : r # Handle(w) => RowKept(r)
             /\ UNCHANGED <<state, commit>> /\ Handle(w) \in RevIds
  BY <1>t, <1>r, WritesOwnBuild DEF RowKept
<1>c. ASSUME NEW w \in Workers, NEW ps, NEW l
      PROVE  /\ Pass(Target(w), Usable(w), Handle(w), ps, l).handle = Handle(w)
             /\ Pass(Target(w), Usable(w), Handle(w), ps, l).target = Target(w)
             /\ Pass(Target(w), Usable(w), Handle(w), ps, l).todo = ps
             /\ Pass(Target(w), Usable(w), Handle(w), ps, l).lexical = l
  BY DEF Pass
<1>m. ASSUME NEW w \in Workers, NEW at, NEW ps, NEW l,
             pc' = [pc EXCEPT ![w] = at], pass' = Continue(w, ps, l)
      PROVE  /\ pc'[w] = at /\ Handle(w)' = Handle(w) /\ Target(w)' = Target(w)
             /\ Todo(w)' = ps /\ Lexical(w)' = l
  BY <1>m, <1>c, <1>t DEF Continue, Handle, Target, Todo, Lexical
<1>s. ASSUME NEW w \in Workers, NEW at, NEW ps, NEW l,
             pc' = [pc EXCEPT ![w] = at], pass' = Continue(w, ps, l),
             \A r \in RevIds : r # Handle(w) => RowKept(r),
             UNCHANGED <<state, commit>>,
             pc[w] \in Building, at \in Building, BuildSoFar(w)'
      PROVE  HandleInv' /\ BuildInv'
  <2>. DEFINE k == Pass(Target(w), Usable(w), Handle(w), ps, l)
  <2>1. pass' = [pass EXCEPT ![w] = k] /\ k.handle = Handle(w) /\ k.target = Target(w)
    BY <1>s, <1>c DEF Continue
  <2>. HIDE DEF k
  <2>. QED  BY <1>s, <2>1, PassGoesOn
<1>8. ASSUME NEW w \in Workers, Reset(w) PROVE HandleInv' /\ BuildInv'
  <2>1. pc' = [pc EXCEPT ![w] = "plan"] /\ pass' = [pass EXCEPT ![w] = pass[w]]
        /\ pc[w] \in Building
    BY <1>8, <1>t DEF Reset, Goto, Building
  <2>2. BuildSoFar(w)'
    BY <2>1, <1>t DEF BuildSoFar
  <2>. QED  BY <1>8, <1>r, <1>t, <2>1, <2>2, PassGoesOn DEF WriteStep, Building
<1>9. ASSUME NEW w \in Workers, Plan(w) PROVE HandleInv' /\ BuildInv'
  <2>. DEFINE differ == {p \in Paths : docs[Handle(w)][p] # Tree[Target(w)][p]}
  <2>1. pc' = [pc EXCEPT ![w] = "write"] /\ pass' = Continue(w, differ, TRUE)
        /\ pc[w] \in Building /\ UNCHANGED database
    BY <1>9 DEF Plan, Goto, Building
  <2>2. /\ pc'[w] = "write" /\ Handle(w)' = Handle(w) /\ Target(w)' = Target(w)
        /\ Todo(w)' = differ /\ UNCHANGED docs
    BY <2>1, <1>m DEF database
  <2>3. BuildSoFar(w)'
    BY <2>2 DEF BuildSoFar
  <2>4. UNCHANGED <<state, commit>>
    BY <2>1 DEF database
  <2>. HIDE DEF differ
  <2>. QED  BY <2>1, <2>3, <2>4, <1>d, <1>s DEF Building
<1>10. ASSUME NEW w \in Workers, NEW p \in Paths, Replace(w, p) PROVE HandleInv' /\ BuildInv'
  <2>1. pc' = [pc EXCEPT ![w] = "write"] /\ pass' = Continue(w, Todo(w) \ {p}, Lexical(w))
        /\ pc[w] = "write" /\ Writable(w) /\ UNCHANGED state
        /\ docs' = [docs EXCEPT ![Handle(w)][p] = Tree[Target(w)][p]]
    BY <1>10, <1>t DEF Replace
  <2>2. /\ pc'[w] = "write" /\ Handle(w)' = Handle(w) /\ Target(w)' = Target(w)
        /\ Todo(w)' = Todo(w) \ {p} /\ Lexical(w)' = Lexical(w)
    BY <2>1, <1>m
  <2>3. Handle(w) \in RevIds /\ docs \in [RevIds -> [Paths -> Docs \cup {NoDoc}]]
    BY <1>10, <1>r, <1>t DEF WriteStep, TypeOK, Content
  <2>4. /\ docs'[Handle(w)][p] = Tree[Target(w)][p]
        /\ \A q \in Paths : q # p => docs'[Handle(w)][q] = docs[Handle(w)][q]
    BY <2>1, <2>3
  <2>5. Lexical(w) =>
          \A q \in Paths : docs[Handle(w)][q] = Tree[Target(w)][q] \/ q \in Todo(w)
    BY <2>1, <1>t DEF BuildInv, BuildSoFar
  <2>6. BuildSoFar(w)'
    BY <2>2, <2>4, <2>5 DEF BuildSoFar
  <2>. QED  BY <1>10, <2>1, <2>6, <1>r, <1>s DEF WriteStep, Building
<1>11. ASSUME NEW w \in Workers, NEW p \in Paths, Suppress(w, p) PROVE HandleInv' /\ BuildInv'
  <2>1. pc' = [pc EXCEPT ![w] = "write"] /\ pass' = Continue(w, Todo(w) \ {p}, FALSE)
        /\ pc[w] = "write"
    BY <1>11, <1>t DEF Suppress
  <2>2. BuildSoFar(w)'
    BY <2>1, <1>m DEF BuildSoFar
  <2>. QED  BY <1>11, <2>1, <2>2, <1>r, <1>s DEF WriteStep, Building
<1>12. ASSUME NEW w \in Workers, NEW p \in Paths, SkipSource(w, p) PROVE HandleInv' /\ BuildInv'
  <2>1. pc' = [pc EXCEPT ![w] = "write"] /\ pass' = Continue(w, Todo(w) \ {p}, FALSE)
        /\ pc[w] = "write" /\ UNCHANGED database
    BY <1>12, <1>t DEF SkipSource
  <2>2. BuildSoFar(w)'
    BY <2>1, <1>m DEF BuildSoFar
  <2>3. UNCHANGED <<state, commit>>
    BY <2>1 DEF database
  <2>. QED  BY <2>1, <2>2, <2>3, <1>d, <1>s DEF Building
<1>13. ASSUME NEW w \in Workers, Finalize(w) PROVE HandleInv' /\ BuildInv'
  <2>1. /\ pc' = [pc EXCEPT ![w] = "decide"] /\ pass' = Continue(w, {}, Lexical(w))
        /\ pc[w] = "write" /\ Writable(w)
        /\ \A q \in Paths : ~Found(w, q)
        /\ docs' = [docs EXCEPT ![Handle(w)] =
                      [p \in Paths |-> IF p \in Todo(w) THEN NoDoc ELSE docs[Handle(w)][p]]]
    BY <1>13 DEF Finalize, Goto
  <2>2. /\ pc'[w] = "decide" /\ Handle(w)' = Handle(w) /\ Target(w)' = Target(w)
        /\ Lexical(w)' = Lexical(w)
    BY <2>1, <1>m
  <2>3. Handle(w) \in RevIds /\ docs \in [RevIds -> [Paths -> Docs \cup {NoDoc}]]
    BY <1>13, <1>r, <1>t DEF WriteStep, TypeOK, Content
  <2>4. \A q \in Paths :
          docs'[Handle(w)][q] = IF q \in Todo(w) THEN NoDoc ELSE docs[Handle(w)][q]
    BY <2>1, <2>3
  <2>5. \A q \in Paths : q \in Todo(w) => Tree[Target(w)][q] = NoDoc
    BY <2>1 DEF Found
  <2>6. Lexical(w) =>
          \A q \in Paths : docs[Handle(w)][q] = Tree[Target(w)][q] \/ q \in Todo(w)
    BY <2>1, <1>t DEF BuildInv, BuildSoFar
  <2>7. BuildSoFar(w)'
    BY <2>2, <2>4, <2>5, <2>6 DEF BuildSoFar
  <2>. QED  BY <1>13, <2>1, <2>7, <1>r, <1>s DEF WriteStep, Building
<1>18. ASSUME NEW w \in Workers, BuildError(w) PROVE HandleInv' /\ BuildInv'
  <2>1. pc' = [pc EXCEPT ![w] = "abandon"] /\ pass' = [pass EXCEPT ![w] = pass[w]]
        /\ pc[w] \in Building /\ UNCHANGED database
    BY <1>18, <1>t DEF BuildError, Goto, Building
  <2>2. BuildSoFar(w)'
    BY <2>1, <1>t DEF BuildSoFar
  <2>3. UNCHANGED <<state, commit>>
    BY <2>1 DEF database
  <2>. QED  BY <1>t, <2>1, <2>2, <2>3, <1>d, PassGoesOn DEF Building
<1>6. ASSUME NEW w \in Workers, Begin(w) PROVE HandleInv' /\ BuildInv'
  <2>1. PICK r \in RevIds : Begins(w, r)
    BY <1>6, <1>t, BeginEffect
  <2>2. pc[w] = "begin" /\ Handle(w) = None /\ Target(w) \in Commits
    BY <1>6, <1>t DEF Begin, OwnHandle, Building
  <2>. DEFINE k == Pass(Target(w), Usable(w), r, {}, TRUE)
              at == IF Usable(w) THEN "plan" ELSE "reset"
  <2>3. \A q \in RevIds : q # r => RowKept(q)
    BY <2>1, <1>t DEF Begins, RowKept, TypeOK
  <2>4. state[r] = "unborn" /\ state'[r] = "building" /\ commit'[r] = Target(w)
    BY <2>1, <1>t DEF Begins, TypeOK
  <2>5. pc' = [pc EXCEPT ![w] = at] /\ pass' = [pass EXCEPT ![w] = k]
    BY <2>1 DEF Begins
  <2>6. k.handle = r /\ k.target = Target(w) /\ at \in {"plan", "reset"}
    BY DEF Pass
  <2>7. \A q \in RevIds : state[q] \in {"building", "deleted"} => RowKept(q)
    BY <2>3, <2>4
  <2>. HIDE DEF k, at
  <2>8. /\ \A v \in Workers : v # w => OwnHandle(v)' /\ BuildSoFar(v)' /\ Handle(v)' = Handle(v)
        /\ pc'[w] = at /\ pass'[w] = k
    BY <2>5, <2>7, OnePassMoves
  <2>9. Handle(w)' = r /\ Target(w)' = Target(w)
    BY <2>6, <2>8 DEF Handle, Target
  <2>10. OwnHandle(w)'
    BY <2>2, <2>4, <2>6, <2>8, <2>9 DEF OwnHandle, Building
  <2>11. BuildSoFar(w)'
    BY <2>6, <2>8 DEF BuildSoFar
  <2>12. \A v \in Workers : Handle(v) # r
    BY <1>t, <2>4, StoreAssumption DEF OwnHandle
  <2>13. \A u, v \in Workers : Handle(u)' = Handle(v)' /\ Handle(u)' # None => u = v
    BY <1>t, <2>8, <2>9, <2>12 DEF HandleInv
  <2>. QED  BY <2>8, <2>10, <2>11, <2>13 DEF HandleInv, BuildInv
<1>. QED
  BY <1>1, <1>2, <1>3, <1>4, <1>5, <1>6, <1>7, <1>8, <1>9, <1>10, <1>11, <1>12, <1>13,
     <1>14, <1>15, <1>16, <1>17, <1>18, <1>19, <1>20, <1>21
  DEF Next, Build, Clean

----------------------------------------------------------------------------
(* The theorems.                                                           *)

(* The invariant of the store is inductive, stuttering included.           *)
LEMMA StepStoreInv == ASSUME StoreInv, [Next]_vars PROVE StoreInv'
<1>1. CASE Next
  <2>1. TypeOK'
    BY <1>1, NextTypeOK DEF StoreInv
  <2>. QED  BY <1>1, <2>1, NextPassInv, NextHistoryInv, NextOneServed, NextServedMatches
            DEF StoreInv
<1>2. CASE UNCHANGED vars
  <2>1. UNCHANGED <<active, state, commit, base, stamped, docs, promotions, aged, session,
                    pc, pass, doomed, faults>>
    BY <1>2 DEF vars, database, processes
  <2>2. TypeOK'
    BY <2>1 DEF StoreInv, TypeOK
  <2>3. HandleInv' /\ BuildInv'
    BY <2>1, NoPassMoves DEF RowKept
  <2>4. HistoryInv' /\ OneServed' /\ ServedMatchesCommit'
    BY <2>1 DEF StoreInv, HistoryInv, LinearHistory, OneServed, ServedMatchesCommit
  <2>. QED  BY <2>2, <2>3, <2>4 DEF StoreInv
<1>. QED  BY <1>1, <1>2

(* The inductive invariant holds in every reachable state.                 *)
THEOREM StoreInvariant == Spec => []StoreInv
<1>. QED  BY InitStoreInv, StepStoreInv, PTL DEF Spec

(* Every reachable state of the store is well typed.                       *)
THEOREM StoreTypeOK == Spec => []TypeOK
<1>1. StoreInv => TypeOK
  BY DEF StoreInv
<1>. QED  BY <1>1, StoreInvariant, PTL

(* The pointer that queries follow names a row that exists and is active,  *)
(* and no other row is active, whatever workers, cleaners, lost sessions   *)
(* and crashes do.                                                         *)
THEOREM StoreOneServed == Spec => []OneServed
<1>1. StoreInv => OneServed
  BY DEF StoreInv
<1>. QED  BY <1>1, StoreInvariant, PTL

(* What queries see is exactly the tree of the commit it is labelled with. *)
THEOREM StoreServedMatchesCommit == Spec => []ServedMatchesCommit
<1>1. StoreInv => ServedMatchesCommit
  BY DEF StoreInv
<1>. QED  BY <1>1, StoreInvariant, PTL

(* No publication is lost: each published revision was copied from the one *)
(* published right before it.                                              *)
THEOREM StoreLinearHistory == Spec => []LinearHistory
<1>1. StoreInv => LinearHistory
  BY DEF StoreInv, HistoryInv
<1>. QED  BY <1>1, StoreInvariant, PTL

(* A step leaves the contents, the commit and the base of every published  *)
(* revision alone until it deletes the row.                                *)
LEMMA StepPublishedImmutable ==
    ASSUME StoreInv, [Next]_vars, NEW r \in Promoted, state'[r] # "deleted"
    PROVE  docs'[r] = docs[r] /\ commit'[r] = commit[r] /\ base'[r] = base[r]
<1>t. /\ TypeOK /\ HandleInv /\ OneServed /\ r \in RevIds
      /\ state[r] \in {"active", "active_degraded", "superseded", "deleted"}
  BY DEF StoreInv, HistoryInv, Promoted, Served, TypeOK
<1>1. CASE UNCHANGED database
  BY <1>1 DEF database
<1>2. CASE UNCHANGED vars
  BY <1>2, <1>1 DEF vars
<1>3. CASE ClientStep
  BY <1>1, <1>3, ClientStepOnly
<1>4. ASSUME NEW w \in Workers, WriteStep(w)
      PROVE  docs'[r] = docs[r] /\ commit'[r] = commit[r] /\ base'[r] = base[r]
  BY <1>t, <1>4, WritesOwnBuild DEF Writable
<1>5. ASSUME NEW w \in Workers, Begin(w)
      PROVE  docs'[r] = docs[r] /\ commit'[r] = commit[r] /\ base'[r] = base[r]
  <2>1. PICK q \in RevIds : Begins(w, q)
    BY <1>t, <1>5, BeginEffect
  <2>. QED  BY <1>t, <2>1 DEF Begins, TypeOK
<1>6. ASSUME NEW w \in Workers, Promote(w)
      PROVE  docs'[r] = docs[r] /\ commit'[r] = commit[r] /\ base'[r] = base[r]
  BY <1>6 DEF Promote
<1>7. ASSUME NEW w \in Workers, Fail(w)
      PROVE  docs'[r] = docs[r] /\ commit'[r] = commit[r] /\ base'[r] = base[r]
  BY <1>7 DEF Fail
<1>8. ASSUME NEW k \in Cleaners, Delete(k)
      PROVE  docs'[r] = docs[r] /\ commit'[r] = commit[r] /\ base'[r] = base[r]
  BY <1>t, <1>8, DeleteEffect
<1>9. ASSUME NEW q \in RevIds, Age(q)
      PROVE  docs'[r] = docs[r] /\ commit'[r] = commit[r] /\ base'[r] = base[r]
  BY <1>9 DEF Age
<1>. QED  BY <1>2, <1>3, <1>4, <1>5, <1>6, <1>7, <1>8, <1>9, StepKinds

(* A published revision is immutable until retention deletes its row.      *)
THEOREM StorePublishedImmutable == Spec => PublishedImmutable
<1>1. ASSUME StoreInv, [Next]_vars
      PROVE  [\A r \in Promoted : state'[r] # "deleted" =>
                docs'[r] = docs[r] /\ commit'[r] = commit[r] /\ base'[r] = base[r]]_vars
  BY <1>1, StepPublishedImmutable
<1>. QED  BY <1>1, StoreInvariant, PTL DEF Spec, PublishedImmutable

----------------------------------------------------------------------------
(***************************************************************************)
(* Retention: what a cleaner has selected under a lease that it still      *)
(* holds stays old, since nobody can publish meanwhile.                    *)
(***************************************************************************)
OneLive ==
    \A p, q \in Procs : session[p] = "live" /\ session[q] = "live" => p = q

SelectedOld ==
    \A k \in Cleaners :
        session[k] = "live" /\ pc[k] = "delete" => doomed[k] \cap Newest = {}

RetentionInv == OneLive /\ SelectedOld

(* What the code ranks among the rows that are left, row_number() over     *)
(* promoted_at, is never more than the rank among all publications.        *)
LEMMA NewestRanksFirst ==
    ASSUME TypeOK, HistoryInv, NEW r \in Newest PROVE Rank(r) <= KeepPromoted
<1>1. PICK i \in DOMAIN promotions : promotions[i] = r /\ i + KeepPromoted > Len(promotions)
  BY DEF Newest
<1>2. /\ Len(promotions) \in Nat /\ i \in 1..Len(promotions)
      /\ DOMAIN promotions = 1..Len(promotions) /\ KeepPromoted \in Nat
  BY <1>1, StoreAssumption DEF TypeOK
<1> DEFINE later == {n \in DOMAIN promotions :
                       promotions[n] \in Present /\ \E j \in 1..n : promotions[j] = r}
<1>3. later \subseteq i..Len(promotions)
  <2> SUFFICES ASSUME NEW n \in later PROVE n \in i..Len(promotions)
    OBVIOUS
  <2>1. PICK j \in 1..n : promotions[j] = r
    OBVIOUS
  <2>2. n \in 1..Len(promotions) /\ j \in DOMAIN promotions
    BY <1>2
  <2>3. j = i
    BY <1>1, <2>1, <2>2 DEF HistoryInv
  <2>. QED  BY <1>2, <2>2, <2>3
<1>4. /\ IsFiniteSet(i..Len(promotions))
      /\ Cardinality(i..Len(promotions)) = Len(promotions) - i + 1
  <2>1. i \in Int /\ Len(promotions) \in Int /\ i <= Len(promotions)
    BY <1>2
  <2>. QED  BY <2>1, FS_Interval
<1>5. IsFiniteSet(later) /\ Cardinality(later) <= Cardinality(i..Len(promotions))
  BY <1>3, <1>4, FS_Subset
<1>6. Cardinality(later) \in Nat
  BY <1>5, FS_CardinalityType
<1>7. Rank(r) = Cardinality(later)
  BY DEF Rank
<1> HIDE DEF later
<1>. QED  BY <1>1, <1>2, <1>4, <1>5, <1>6, <1>7

(* A step gives the lock to nobody but a process that finds it free.       *)
LEMMA SessionMoves ==
    ASSUME TypeOK, Next, NEW q \in Procs, session'[q] = "live"
    PROVE  session[q] = "live" \/ Acquire(q)
<1>1. ASSUME NEW p \in Procs, Acquire(p) \/ Release(p) \/ LoseSession(p) \/ Crash(p)
      PROVE  session[q] = "live" \/ Acquire(q)
  BY <1>1 DEF Acquire, Release, LoseSession, Crash, TypeOK
<1>2. ASSUME NEW w \in Workers, Build(w) PROVE session[q] = "live"
  <2>1. CASE Promote(w)
    BY <2>1 DEF Promote, TypeOK
  <2>2. CASE UNCHANGED session
    BY <2>2
  <2>3. Promote(w) \/ UNCHANGED session
    BY <1>2 DEF Build, Inspect, Begin, Reset, Plan, Replace, Suppress, SkipSource, Finalize,
       RefusePromotion, Fail, NoticeLoss, BeginError, BuildError
  <2>. QED  BY <2>1, <2>2, <2>3
<1>3. ASSUME NEW k \in Cleaners, Clean(k) PROVE session[q] = "live"
  BY <1>3 DEF Clean, Select, Delete
<1>4. ASSUME NEW r \in RevIds, Age(r) PROVE session[q] = "live"
  BY <1>4 DEF Age
<1>. QED  BY <1>1, <1>2, <1>3, <1>4 DEF Next

(* A cleaner's selection and its place change only by its own steps.       *)
LEMMA CleanerMoves ==
    ASSUME TypeOK, Next, NEW k \in Cleaners
    PROVE  \/ pc'[k] = pc[k] /\ doomed'[k] = doomed[k]
           \/ Select(k) \/ Delete(k)
           \/ ClientStep /\ pc'[k] # "delete"
<1> USE StoreAssumption DEF Procs
<1>1. ASSUME NEW q \in Procs, Acquire(q) \/ Release(q) \/ LoseSession(q) \/ Crash(q)
      PROVE  \/ pc'[k] = pc[k] /\ doomed'[k] = doomed[k]
             \/ ClientStep /\ pc'[k] # "delete"
  <2>1. ClientStep
    BY <1>1 DEF ClientStep
  <2>2. CASE Crash(q)
    BY <2>1, <2>2 DEF Crash, Goto, TypeOK, Forget
  <2>3. CASE Acquire(q) \/ Release(q) \/ LoseSession(q)
    BY <2>1, <2>3 DEF Acquire, Release, LoseSession, Goto, TypeOK, processes
  <2>. QED  BY <1>1, <2>2, <2>3
<1>2. ASSUME NEW w \in Workers, Build(w)
      PROVE  pc'[k] = pc[k] /\ doomed'[k] = doomed[k]
  <2>1. UNCHANGED doomed
    BY <1>2 DEF Build, Inspect, Begin, Reset, Plan, Replace, Suppress, SkipSource, Finalize,
       Promote, RefusePromotion, Fail, NoticeLoss, BeginError, BuildError
  <2>2. UNCHANGED pc \/ \E place \in WorkerPC : Goto(w, place)
    BY <1>2 DEF Build, Inspect, Begin, Reset, Plan, Replace, Suppress, SkipSource, Finalize,
       Promote, RefusePromotion, Fail, NoticeLoss, BeginError, BuildError, WorkerPC, Building
  <2>. QED  BY <2>1, <2>2 DEF Goto, TypeOK
<1>3. ASSUME NEW j \in Cleaners, Clean(j)
      PROVE  \/ pc'[k] = pc[k] /\ doomed'[k] = doomed[k]
             \/ Select(k) \/ Delete(k)
  BY <1>3 DEF Clean, Select, Delete, Goto, TypeOK
<1>4. ASSUME NEW r \in RevIds, Age(r) PROVE pc'[k] = pc[k] /\ doomed'[k] = doomed[k]
  BY <1>4 DEF Age, processes
<1>. QED  BY <1>1, <1>2, <1>3, <1>4 DEF Next

(* Only publication changes which publications are the newest.             *)
LEMMA NewestMoves ==
    ASSUME TypeOK, HandleInv, OneServed, Next
    PROVE  Newest' = Newest \/ \E w \in Workers : session[w] = "live"
<1>1. ASSUME UNCHANGED promotions PROVE Newest' = Newest
  BY <1>1 DEF Newest
<1>2. CASE ClientStep
  BY <1>1, <1>2, ClientStepOnly DEF database
<1>3. ASSUME NEW w \in Workers, WriteStep(w) PROVE UNCHANGED promotions
  BY <1>3, WritesOwnBuild
<1>4. ASSUME NEW w \in Workers, Begin(w) \/ Fail(w) PROVE UNCHANGED promotions
  BY <1>4 DEF Begin, Fail
<1>5. ASSUME NEW w \in Workers, Promote(w) PROVE session[w] = "live"
  BY <1>5 DEF Promote, MayPublish
<1>6. ASSUME NEW k \in Cleaners, Delete(k) PROVE UNCHANGED promotions
  BY <1>6 DEF Delete
<1>7. ASSUME NEW r \in RevIds, Age(r) PROVE UNCHANGED promotions
  BY <1>7 DEF Age
<1>. QED  BY <1>1, <1>2, <1>3, <1>4, <1>5, <1>6, <1>7, StepKinds

(* Every step keeps the lock exclusive and the selections of the cleaners  *)
(* that hold it old.                                                       *)
LEMMA StepRetentionInv ==
    ASSUME StoreInv, RetentionInv, [Next]_vars PROVE RetentionInv'
<1>t. TypeOK /\ HandleInv /\ HistoryInv /\ OneServed /\ OneLive /\ SelectedOld
  BY DEF StoreInv, RetentionInv
<1>1. CASE UNCHANGED vars
  BY <1>t, <1>1 DEF vars, database, processes, RetentionInv, OneLive, SelectedOld, Newest
<1>2. CASE Next
  <2>1. OneLive'
    <3> SUFFICES ASSUME NEW p \in Procs, NEW q \in Procs,
                        session'[p] = "live", session'[q] = "live"
                 PROVE  p = q
      BY DEF OneLive
    <3>1. /\ session[p] = "live" \/ Acquire(p)
          /\ session[q] = "live" \/ Acquire(q)
      BY <1>t, <1>2, SessionMoves
    <3>2. ASSUME NEW x \in Procs, NEW y \in Procs, Acquire(x), session'[y] = "live"
          PROVE  x = y
      BY <1>t, <3>2 DEF Acquire, Held, TypeOK
    <3>. QED  BY <1>t, <3>1, <3>2 DEF OneLive
  <2>2. SelectedOld'
    <3> SUFFICES ASSUME NEW k \in Cleaners, session'[k] = "live", pc'[k] = "delete"
                 PROVE  doomed'[k] \cap Newest' = {}
      BY DEF SelectedOld
    <3>k. k \in Procs /\ \A w \in Workers : w \in Procs /\ w # k
      BY StoreAssumption DEF Procs
    <3>1. session[k] = "live"
      <4>1. ~Acquire(k)
        BY <1>t, <3>k, StoreAssumption DEF Acquire, Goto, TypeOK
      <4>. QED  BY <1>t, <1>2, <3>k, <4>1, SessionMoves
    <3>2. Newest' = Newest
      BY <1>t, <1>2, <3>k, <3>1, NewestMoves DEF OneLive
    <3>3. CASE pc'[k] = pc[k] /\ doomed'[k] = doomed[k]
      BY <1>t, <3>1, <3>2, <3>3 DEF SelectedOld
    <3>4. CASE Select(k)
      <4>1. doomed'[k] \subseteq Eligible
        BY <1>t, <3>4 DEF Select, TypeOK
      <4>2. ASSUME NEW r \in Eligible, r \in Newest PROVE FALSE
        <5>1. r \in Promoted
          BY <4>2 DEF Newest, Promoted
        <5>2. Rank(r) > KeepPromoted /\ Rank(r) <= KeepPromoted
          BY <1>t, <4>2, <5>1, NewestRanksFirst DEF Eligible
        <5>3. Rank(r) \in Nat
          <6>1. IsFiniteSet(DOMAIN promotions)
            <7>1. Len(promotions) \in Nat /\ DOMAIN promotions = 1..Len(promotions)
              BY <1>t DEF TypeOK
            <7>. QED  BY <7>1, FS_Interval
          <6>. QED  BY <6>1, FS_Subset, FS_CardinalityType DEF Rank
        <5>. QED  BY <5>2, <5>3, StoreAssumption
      <4>. QED  BY <3>2, <4>1, <4>2
    <3>5. CASE Delete(k)
      BY <1>t, <3>5, <3>k DEF Delete, Goto, TypeOK
    <3>. QED  BY <1>t, <1>2, <3>3, <3>4, <3>5, CleanerMoves
  <2>. QED  BY <2>1, <2>2 DEF RetentionInv
<1>. QED  BY <1>1, <1>2

(* A step of a cleaner that holds the lease deletes none of the newest.    *)
LEMMA StepKeepsNewest ==
    ASSUME StoreInv, RetentionInv, [Next]_vars, NEW k \in Cleaners,
           session[k] = "live", doomed'[k] # doomed[k], NEW r \in Newest \cap Present
    PROVE  state'[r] # "deleted"
<1>t. TypeOK /\ r \in RevIds /\ state[r] # "deleted"
  BY DEF StoreInv, Present
<1>1. Next
  BY DEF vars, processes
<1>2. CASE Delete(k)
  <2>1. r \notin doomed[k]
    BY <1>2 DEF Delete, RetentionInv, SelectedOld
  <2>. QED  BY <1>2, <1>t, <2>1 DEF Delete
<1>3. CASE Select(k) \/ ClientStep
  <2>1. UNCHANGED state
    BY <1>3, ClientStepOnly DEF Select, database
  <2>. QED  BY <1>t, <2>1
<1>. QED  BY <1>t, <1>1, <1>2, <1>3, CleanerMoves

(* A cleaner that still holds the lease never deletes one of the last      *)
(* keep_promoted publications, whatever other cleaners, passes, lost       *)
(* sessions and crashes do between its selection and its deletion.         *)
THEOREM StoreKeepsNewest == Spec => KeepsNewest
<1>1. Init => RetentionInv
  BY DEF Init, RetentionInv, OneLive, SelectedOld, Procs
<1>2. StoreInv /\ RetentionInv /\ [Next]_vars => RetentionInv'
  BY StepRetentionInv
<1>3. Spec => []RetentionInv
  BY <1>1, <1>2, StoreInvariant, PTL DEF Spec
<1>4. ASSUME StoreInv, RetentionInv, [Next]_vars
      PROVE  [\A k \in Cleaners : session[k] = "live" /\ doomed'[k] # doomed[k] =>
                \A r \in Newest \cap Present : state'[r] # "deleted"]_vars
  BY <1>4, StepKeepsNewest
<1>. QED  BY <1>3, <1>4, StoreInvariant, PTL DEF Spec, KeepsNewest

----------------------------------------------------------------------------
(***************************************************************************)
(* Passes and retention handle the lease as VaultLease allows.             *)
(***************************************************************************)

(* Whoever asks for the lease has none, not even a lost one.               *)
IdleHasNone == \A q \in Procs : pc[q] = "idle" => session[q] = "none"

(* Steps that leave the sessions alone, and make nobody idle.              *)
Onward == UNCHANGED session /\ \A q \in Procs : pc'[q] = "idle" => pc[q] = "idle"

(* What a step does to the sessions.                                       *)
LEMMA LeaseMoves ==
    ASSUME TypeOK, Next
    PROVE  \/ \E q \in Procs : Acquire(q) \/ Release(q) \/ LoseSession(q) \/ Crash(q)
           \/ \E w \in Workers : Promote(w)
           \/ Onward
<1>t. pc \in [Procs -> WorkerPC \cup CleanerPC]
  BY DEF TypeOK
<1>0. ASSUME NEW q \in Procs, NEW place, place # "idle", Goto(q, place), UNCHANGED session
      PROVE  Onward
  BY <1>0, <1>t DEF Goto, Onward
<1>1. ASSUME NEW w \in Workers, Build(w) PROVE Promote(w) \/ Onward
  <2>p. w \in Procs
    BY DEF Procs
  <2>1. CASE \E p \in Paths : Replace(w, p) \/ Suppress(w, p) \/ SkipSource(w, p)
    BY <2>1 DEF Replace, Suppress, SkipSource, Onward
  <2>2. CASE Inspect(w) \/ Begin(w) \/ Reset(w) \/ Plan(w) \/ Finalize(w)
    BY <2>p, <2>2, <1>0 DEF Inspect, Begin, Reset, Plan, Finalize
  <2>3. CASE RefusePromotion(w) \/ Fail(w) \/ NoticeLoss(w) \/ BeginError(w) \/ BuildError(w)
    BY <2>p, <2>3, <1>0 DEF RefusePromotion, Fail, NoticeLoss, BeginError, BuildError
  <2>. QED  BY <1>1, <2>1, <2>2, <2>3 DEF Build
<1>2. ASSUME NEW k \in Cleaners, Clean(k) PROVE Onward
  BY <1>2, <1>0 DEF Clean, Select, Delete, Procs
<1>3. ASSUME NEW r \in RevIds, Age(r) PROVE Onward
  BY <1>3 DEF Age, processes, Onward
<1>. QED  BY <1>1, <1>2, <1>3 DEF Next

(* Every step is one that VaultLease allows.                               *)
LEMMA StepStoreLease ==
    ASSUME TypeOK, IdleHasNone, [Next]_vars
    PROVE  IdleHasNone' /\ [Lease!Next]_session
<1>t. /\ pc \in [Procs -> WorkerPC \cup CleanerPC]
      /\ session \in [Procs -> {"none", "live", "lost"}]
  BY DEF TypeOK
<1>1. ASSUME NEW q \in Procs, Acquire(q) PROVE IdleHasNone' /\ Lease!Grant(q)
  <2>1. session[q] = "none" /\ \A p \in Procs : session[p] # "live"
    BY <1>1 DEF Acquire, IdleHasNone, Held
  <2>2. IdleHasNone'
    BY <1>1, <1>t DEF Acquire, Goto, IdleHasNone
  <2>3. Lease!Grant(q)
    BY <1>1, <2>1 DEF Acquire, Lease!Grant
  <2>. QED  BY <2>2, <2>3
<1>2. ASSUME NEW q \in Procs, Release(q) \/ Crash(q) PROVE IdleHasNone' /\ Lease!GiveUp(q)
  <2>1. session' = [session EXCEPT ![q] = "none"] /\ Goto(q, "idle")
    BY <1>2 DEF Release, Crash
  <2>2. IdleHasNone'
    BY <2>1, <1>t DEF Goto, IdleHasNone
  <2>. QED  BY <2>1, <2>2 DEF Lease!GiveUp
<1>3. ASSUME NEW q \in Procs, LoseSession(q) PROVE IdleHasNone' /\ Lease!Lose(q)
  <2>1. IdleHasNone'
    BY <1>3, <1>t DEF LoseSession, processes, IdleHasNone
  <2>. QED  BY <1>3, <2>1 DEF LoseSession, Lease!Lose
<1>4. ASSUME NEW w \in Workers, Promote(w)
      PROVE  IdleHasNone' /\ (UNCHANGED session \/ Lease!Lose(w))
  <2>1. /\ session[w] = "live" /\ Goto(w, "release") /\ w \in Procs
        /\ UNCHANGED session \/ session' = [session EXCEPT ![w] = "lost"]
    BY <1>4 DEF Promote, MayPublish, Procs
  <2>2. IdleHasNone'
    BY <2>1, <1>t DEF Goto, IdleHasNone
  <2>. QED  BY <2>1, <2>2 DEF Lease!Lose
<1>5. Onward \/ UNCHANGED vars => IdleHasNone' /\ UNCHANGED session
  BY DEF Onward, vars, processes, IdleHasNone
<1>6. \A q \in Workers : q \in Procs
  BY DEF Procs
<1>. QED  BY <1>1, <1>2, <1>3, <1>4, <1>5, <1>6, LeaseMoves DEF Lease!Next

(* Builders and cleaners keep to VaultLease, sessions lost in the middle   *)
(* of a publication and crashes included.                                  *)
THEOREM StoreUsesLease == Spec => UsesLease
<1>1. Init => IdleHasNone /\ Lease!Init
  BY DEF Init, IdleHasNone, Lease!Init
<1>2. TypeOK /\ IdleHasNone /\ [Next]_vars => IdleHasNone' /\ [Lease!Next]_session
  BY StepStoreLease
<1>. QED  BY <1>1, <1>2, StoreTypeOK, PTL DEF Spec, UsesLease, Lease!Spec

----------------------------------------------------------------------------
(***************************************************************************)
(* The revision store implements the published index: the refinement       *)
(* mapping is Index in RevisionStore.  A pass that holds a revision has a  *)
(* draft open; Begin opens it, Promote publishes, and whatever else ends   *)
(* the pass drops it.                                                      *)
(***************************************************************************)
(* A revision is copied from a published one or from none.                 *)
BaseKnown == \A r \in RevIds : base[r] \in Promoted \cup {None}

(* The revision a pass has copied from stays one that was published.       *)
LEMMA StepBaseKnown == ASSUME StoreInv, BaseKnown, [Next]_vars PROVE BaseKnown'
<1>1. ASSUME UNCHANGED <<base, promotions>> PROVE BaseKnown'
  BY <1>1 DEF BaseKnown, Promoted
<1>2. ASSUME UNCHANGED database PROVE BaseKnown'
  BY <1>2, <1>1 DEF database
<1>3. CASE UNCHANGED vars
  BY <1>3, <1>2 DEF vars
<1>4. CASE ClientStep
  BY <1>4, <1>2, ClientStepOnly
<1>t. TypeOK /\ HandleInv /\ OneServed
  BY DEF StoreInv
<1>5. ASSUME NEW w \in Workers, WriteStep(w) PROVE BaseKnown'
  BY <1>t, <1>5, <1>1, WritesOwnBuild
<1>6. ASSUME NEW w \in Workers, Begin(w) PROVE BaseKnown'
  <2>1. PICK r \in RevIds : base' = [base EXCEPT ![r] = active] /\ UNCHANGED promotions
    BY <1>6 DEF Begin
  <2>2. active \in Promoted \cup {None}
    BY <1>t DEF StoreInv, HistoryInv, Promoted, TypeOK
  <2>. QED  BY <1>t, <2>1, <2>2 DEF BaseKnown, Promoted, TypeOK
<1>7. ASSUME NEW w \in Workers, Promote(w) PROVE BaseKnown'
  <2>1. promotions' = Append(promotions, Handle(w)) /\ UNCHANGED base /\ promotions \in Seq(RevIds)
        /\ Handle(w) \in RevIds
    BY <1>t, <1>7, PromoteEffect DEF TypeOK
  <2>2. \A i \in DOMAIN promotions : i \in DOMAIN promotions' /\ promotions'[i] = promotions[i]
    BY <2>1
  <2>3. Promoted \subseteq Promoted'
    BY <2>2 DEF Promoted
  <2>. QED  BY <2>1, <2>3 DEF BaseKnown
<1>8. ASSUME NEW w \in Workers, Fail(w) PROVE BaseKnown'
  BY <1>8, <1>1 DEF Fail
<1>9. ASSUME NEW k \in Cleaners, Delete(k) PROVE BaseKnown'
  BY <1>9, <1>1 DEF Delete
<1>10. ASSUME NEW r \in RevIds, Age(r) PROVE BaseKnown'
  BY <1>10, <1>1 DEF Age
<1>. QED  BY <1>3, <1>4, <1>5, <1>6, <1>7, <1>8, <1>9, <1>10, StepKinds

(* The position of a published revision is its own.                        *)
LEMMA PositionOf ==
    ASSUME HistoryInv, NEW i \in DOMAIN promotions, promotions[i] # None
    PROVE  Position(promotions, promotions[i]) = i
<1>1. \A j \in DOMAIN promotions : promotions[j] = promotions[i] => j = i
  BY DEF HistoryInv
<1>2. (CHOOSE j \in DOMAIN promotions : promotions[j] = promotions[i]) = i
  BY <1>1
<1>. QED  BY <1>2 DEF Position

----------------------------------------------------------------------------
(* The abstract state.                                                     *)

Current == IF active = None THEN None ELSE [commit |-> commit[active], docs |-> docs[active]]
OpenedAt(w) == IF Handle(w) = None THEN None ELSE Position(promotions, base[Handle(w)])
Opened == [w \in Workers |-> OpenedAt(w)]

(* What any step other than Begin and Promote does to the passes: at most  *)
(* one lets go of its revision.                                            *)
LEMMA HandlesKept ==
    ASSUME StoreInv, Next
    PROVE  \/ \E w \in Workers : Begin(w) \/ Promote(w)
           \/ \A v \in Workers : Handle(v)' = Handle(v)
           \/ \E w \in Workers : /\ Handle(w)' = None
                                 /\ \A v \in Workers : v # w => Handle(v)' = Handle(v)
<1>. DEFINE Kept == \A v \in Workers : Handle(v)' = Handle(v)
            Dropped == \E w \in Workers : /\ Handle(w)' = None
                                          /\ \A v \in Workers : v # w => Handle(v)' = Handle(v)
<1>t. pass \in [Workers -> Passes] /\ \A w \in Workers : OwnHandle(w)
  BY DEF StoreInv, TypeOK, HandleInv
<1>1. ASSUME UNCHANGED pass PROVE Kept
  BY <1>1 DEF Handle
<1>2. ASSUME NEW w \in Workers, NEW k, pass' = [pass EXCEPT ![w] = k], k.handle = None
      PROVE  Dropped
  BY <1>2, <1>t DEF Handle
<1>3. ASSUME NEW w \in Workers, Forget(w) PROVE Dropped
  <2>1. NoPass.handle = None
    BY DEF NoPass, Pass
  <2>. QED  BY <1>2, <1>3, <2>1 DEF Forget
<1>4. ASSUME NEW w \in Workers, NEW ps, NEW l, pass' = Continue(w, ps, l) PROVE Kept
  <2>. DEFINE k == Pass(Target(w), Usable(w), Handle(w), ps, l)
  <2>1. pass' = [pass EXCEPT ![w] = k] /\ k.handle = Handle(w)
    BY <1>4 DEF Continue, Pass
  <2>. HIDE DEF k
  <2>. QED  BY <1>t, <2>1 DEF Handle
<1>. HIDE DEF Kept, Dropped
<1>5. ASSUME NEW q \in Procs, Acquire(q) \/ Release(q) \/ LoseSession(q) PROVE Kept
  BY <1>5, <1>1 DEF Acquire, Release, LoseSession, processes
<1>6. ASSUME NEW q \in Procs, Crash(q) PROVE Kept \/ Dropped
  BY <1>6, <1>1, <1>3 DEF Crash
<1>7. ASSUME NEW w \in Workers, Inspect(w) PROVE Kept \/ Dropped
  <2>1. PICK c \in Commits :
          \/ UNCHANGED pass
          \/ \E u \in BOOLEAN : pass' = [pass EXCEPT ![w] = Pass(c, u, None, {}, TRUE)]
    BY <1>7 DEF Inspect
  <2>2. CASE \E u \in BOOLEAN : pass' = [pass EXCEPT ![w] = Pass(c, u, None, {}, TRUE)]
    <3>1. PICK u \in BOOLEAN : pass' = [pass EXCEPT ![w] = Pass(c, u, None, {}, TRUE)]
      BY <2>2
    <3>2. Pass(c, u, None, {}, TRUE).handle = None
      BY DEF Pass
    <3>. QED  BY <1>2, <3>1, <3>2
  <2>. QED  BY <2>1, <2>2, <1>1
<1>8. ASSUME NEW w \in Workers, Reset(w) \/ BuildError(w) PROVE Kept
  BY <1>8, <1>1 DEF Reset, BuildError
<1>9. ASSUME NEW w \in Workers, Plan(w) PROVE Kept
  BY <1>9, <1>4 DEF Plan
<1>10. ASSUME NEW w \in Workers, NEW p \in Paths, Replace(w, p) PROVE Kept
  BY <1>10, <1>4 DEF Replace
<1>11. ASSUME NEW w \in Workers, NEW p \in Paths, Suppress(w, p) PROVE Kept
  BY <1>11, <1>4 DEF Suppress
<1>12. ASSUME NEW w \in Workers, NEW p \in Paths, SkipSource(w, p) PROVE Kept
  BY <1>12, <1>4 DEF SkipSource
<1>13. ASSUME NEW w \in Workers, Finalize(w) PROVE Kept
  BY <1>13, <1>4 DEF Finalize
<1>14. ASSUME NEW w \in Workers, BeginError(w) \/ RefusePromotion(w) \/ Fail(w) \/ NoticeLoss(w)
       PROVE  Dropped
  BY <1>14, <1>3 DEF BeginError, RefusePromotion, Fail, NoticeLoss
<1>15. ASSUME NEW k \in Cleaners, Select(k) \/ Delete(k) PROVE Kept
  BY <1>15, <1>1 DEF Select, Delete
<1>16. ASSUME NEW r \in RevIds, Age(r) PROVE Kept
  BY <1>16, <1>1 DEF Age, processes
<1>17. Kept \/ Dropped \/ \E w \in Workers : Begin(w) \/ Promote(w)
  BY <1>5, <1>6, <1>7, <1>8, <1>9, <1>10, <1>11, <1>12, <1>13, <1>14, <1>15, <1>16
     DEF Next, Build, Clean
<1>. QED  BY <1>17 DEF Kept, Dropped

(* What any step other than Begin and Promote does to the rows: the        *)
(* publications, the bases and the row queries read stay.                  *)
LEMMA PublicationKept ==
    ASSUME StoreInv, StoreInv', Next
    PROVE  \/ \E w \in Workers : Begin(w) \/ Promote(w)
           \/ UNCHANGED <<active, promotions, base>>
<1>t. TypeOK /\ HandleInv /\ OneServed
  BY DEF StoreInv
<1>3. CASE ClientStep
  BY <1>3, ClientStepOnly DEF database
<1>4. ASSUME NEW w \in Workers, WriteStep(w) PROVE UNCHANGED <<active, promotions, base>>
  BY <1>t, <1>4, WritesOwnBuild
<1>5. ASSUME NEW w \in Workers, Fail(w) PROVE UNCHANGED <<active, promotions, base>>
  BY <1>5 DEF Fail
<1>6. ASSUME NEW k \in Cleaners, Delete(k) PROVE UNCHANGED <<active, promotions, base>>
  BY <1>6 DEF Delete
<1>7. ASSUME NEW r \in RevIds, Age(r) PROVE UNCHANGED <<active, promotions, base>>
  BY <1>7 DEF Age
<1>. QED  BY <1>3, <1>4, <1>5, <1>6, <1>7, StepKinds

(* A step that touches neither the pointer nor the row behind it shows     *)
(* queries nothing.                                                        *)
LEMMA CurrentKept ==
    ASSUME StoreInv, StoreInv', [Next]_vars, UNCHANGED active
    PROVE  Current' = Current
<1>1. CASE active = None
  BY <1>1 DEF Current
<1>2. CASE active # None
  <2>1. active \in Promoted /\ active \in RevIds
    BY <1>2 DEF StoreInv, HistoryInv, Promoted, TypeOK
  <2>2. state'[active] \in Served
    BY <2>1 DEF StoreInv, OneServed
  <2>3. docs'[active] = docs[active] /\ commit'[active] = commit[active]
    BY <2>1, <2>2, StepPublishedImmutable DEF Served
  <2>. QED  BY <1>2, <2>3 DEF Current
<1>. QED  BY <1>1, <1>2

(* A draft that is not touched was opened where it was.                    *)
LEMMA OpenedKept ==
    ASSUME NEW v \in Workers, Handle(v)' = Handle(v), UNCHANGED promotions,
           Handle(v) # None => base'[Handle(v)] = base[Handle(v)]
    PROVE  OpenedAt(v)' = OpenedAt(v)
<1>1. CASE Handle(v) = None
  BY <1>1 DEF OpenedAt
<1>2. CASE Handle(v) # None
  BY <1>2 DEF OpenedAt
<1>. QED  BY <1>1, <1>2

(* Begin opens a draft at the present version.                             *)
LEMMA BeginOpens ==
    ASSUME StoreInv, StoreInv', NEW w \in Workers, Begin(w)
    PROVE  /\ UNCHANGED <<active, promotions>>
           /\ OpenedAt(w) = None
           /\ Opened' = [Opened EXCEPT ![w] = Len(promotions)]
<1>t. TypeOK /\ HandleInv
  BY DEF StoreInv
<1>1. PICK r \in RevIds : /\ state[r] = "unborn" /\ base' = [base EXCEPT ![r] = active]
                          /\ pass' = [pass EXCEPT ![w] = Pass(Target(w), Usable(w), r, {}, TRUE)]
                          /\ UNCHANGED <<active, promotions>>
  BY DEF Begin
<1>2. Handle(w) = None
  BY <1>t DEF Begin, HandleInv, OwnHandle, Building
<1>3. Handle(w)' = r
  <2>1. pass'[w].handle = Pass(Target(w), Usable(w), r, {}, TRUE).handle
    BY <1>1, <1>t DEF TypeOK
  <2>. QED  BY <2>1 DEF Handle, Pass
<1>4. base'[r] = active /\ r # None
  BY <1>1, <1>t, StoreAssumption DEF TypeOK
<1>5. Position(promotions, active) = Len(promotions)
  <2>1. CASE Len(promotions) = 0
    BY <2>1 DEF StoreInv, HistoryInv, Position
  <2>2. CASE Len(promotions) # 0
    <3>1. Len(promotions) \in DOMAIN promotions /\ active = promotions[Len(promotions)]
          /\ active # None
      BY <1>t, <2>2, StoreAssumption DEF StoreInv, HistoryInv, TypeOK
    <3>. QED  BY <3>1, PositionOf DEF StoreInv
  <2>. QED  BY <2>1, <2>2
<1>6. OpenedAt(w)' = Len(promotions)
  <2>1. OpenedAt(w)' = Position(promotions, active)
    BY <1>1, <1>3, <1>4 DEF OpenedAt
  <2>. QED  BY <2>1, <1>5
<1>7. ASSUME NEW v \in Workers, v # w PROVE OpenedAt(v)' = OpenedAt(v)
  <2>1. Handle(v)' = Handle(v)
    BY <1>7, <1>1, <1>t DEF Handle, TypeOK
  <2>2. Handle(v) # None => base'[Handle(v)] = base[Handle(v)]
    BY <1>t, <1>1 DEF HandleInv, OwnHandle, TypeOK
  <2>. QED  BY <1>1, <2>1, <2>2, OpenedKept
<1>8. Opened' = [v \in Workers |-> OpenedAt(v)']
  BY DEF Opened
<1>. QED  BY <1>1, <1>2, <1>6, <1>7, <1>8 DEF Opened, OpenedAt

(* Promote publishes a draft opened at the present version.                *)
LEMMA PromotePublishes ==
    ASSUME StoreInv, StoreInv', BaseKnown, NEW w \in Workers, Promote(w)
    PROVE  /\ OpenedAt(w) = Len(promotions)
           /\ \E c \in Commits : Current' = [commit |-> c, docs |-> Tree[c]]
           /\ Len(promotions') = Len(promotions) + 1
           /\ Opened' = [Opened EXCEPT ![w] = None]
<1>t. TypeOK /\ HandleInv /\ OneServed /\ promotions \in Seq(RevIds)
  BY DEF StoreInv, TypeOK
<1>1. /\ Handle(w) \in RevIds /\ active' = Handle(w) /\ active = base[Handle(w)]
      /\ promotions' = Append(promotions, Handle(w)) /\ UNCHANGED <<commit, base, docs>>
  BY <1>t, PromoteEffect
<1>2. Position(promotions, active) = Len(promotions)
  <2>1. CASE Len(promotions) = 0
    BY <2>1 DEF StoreInv, HistoryInv, Position
  <2>2. CASE Len(promotions) # 0
    <3>1. Len(promotions) \in DOMAIN promotions /\ active = promotions[Len(promotions)]
          /\ active # None
      BY <1>t, <2>2, StoreAssumption DEF StoreInv, HistoryInv
    <3>. QED  BY <3>1, PositionOf DEF StoreInv
  <2>. QED  BY <2>1, <2>2
<1>3. OpenedAt(w) = Len(promotions)
  BY <1>1, <1>2, StoreAssumption DEF OpenedAt
<1>4. Target(w) \in Commits /\ commit[Handle(w)] = Target(w)
  BY <1>1, <1>t, StoreAssumption DEF Promote, HandleInv, OwnHandle, Building
<1>5. Current' = [commit |-> Target(w), docs |-> Tree[Target(w)]]
  <2>1. active' # None /\ commit'[active'] = Target(w)
    BY <1>1, <1>4, StoreAssumption
  <2>2. docs'[active'] = Tree[Target(w)]
    BY <2>1 DEF StoreInv, ServedMatchesCommit
  <2>. QED  BY <2>1, <2>2 DEF Current
<1>6. Handle(w)' = None /\ \A v \in Workers : v # w => Handle(v)' = Handle(v)
  BY <1>t DEF Promote, Forget, NoPass, Pass, Handle, TypeOK
<1>7. ASSUME NEW v \in Workers, v # w PROVE OpenedAt(v)' = OpenedAt(v)
  <2>1. CASE Handle(v) = None
    BY <1>6, <1>7, <2>1 DEF OpenedAt
  <2>2. CASE Handle(v) # None
    <3>. DEFINE b == base[Handle(v)]
    <3>1. Handle(v) \in RevIds
      BY <1>t, <2>2 DEF HandleInv, OwnHandle
    <3>2. b \in Promoted \cup {None}
      BY <3>1 DEF BaseKnown
    <3>3. OpenedAt(v) = Position(promotions, b) /\ OpenedAt(v)' = Position(promotions', b)
      BY <1>1, <1>6, <1>7, <2>2 DEF OpenedAt
    <3>4. Position(promotions', b) = Position(promotions, b)
      <4>1. CASE b = None
        BY <4>1 DEF Position
      <4>2. CASE b # None
        <5>1. PICK i \in DOMAIN promotions : promotions[i] = b
          BY <3>2, <4>2 DEF Promoted
        <5>2. i \in DOMAIN promotions' /\ promotions'[i] = b
          BY <1>1, <1>t, <5>1
        <5>3. HistoryInv /\ HistoryInv'
          BY DEF StoreInv
        <5>4. Position(promotions, b) = i
          BY <4>2, <5>1, <5>3, PositionOf
        <5>5. \A j \in DOMAIN promotions' : promotions'[j] = b => j = i
          BY <5>2, <5>3 DEF HistoryInv
        <5>. HIDE DEF b
        <5>6. (CHOOSE j \in DOMAIN promotions' : promotions'[j] = b) = i
          BY <5>2, <5>5
        <5>7. Position(promotions', b) = i
          BY <4>2, <5>6 DEF Position
        <5>. QED  BY <5>4, <5>7
      <4>. QED  BY <4>1, <4>2
    <3>. QED  BY <3>3, <3>4
  <2>. QED  BY <2>1, <2>2
<1>8. OpenedAt(w)' = None
  BY <1>6 DEF OpenedAt
<1>9. Opened' = [v \in Workers |-> OpenedAt(v)']
  BY DEF Opened
<1>10. Opened' = [Opened EXCEPT ![w] = None]
  BY <1>7, <1>8, <1>9 DEF Opened
<1>11. Len(promotions') = Len(promotions) + 1
  BY <1>1, <1>t
<1>. QED  BY <1>3, <1>4, <1>5, <1>10, <1>11

----------------------------------------------------------------------------
(* The refinement, step by step.                                           *)

(* The empty store is the empty index.                                     *)
LEMMA InitRefines == Init => Index!Init /\ BaseKnown
<1> SUFFICES ASSUME Init PROVE Index!Init /\ BaseKnown
  OBVIOUS
<1>1. active = None /\ promotions = <<>> /\ \A w \in Workers : Handle(w) = None
  BY DEF Init, Handle, NoPass, Pass
<1>2. BaseKnown
  BY DEF Init, BaseKnown
<1>. QED  BY <1>1, <1>2 DEF Index!Init

(* Every step of the store is a step of the index it implements, or a      *)
(* stutter.                                                                *)
LEMMA StepRefines ==
    ASSUME StoreInv, StoreInv', BaseKnown, [Next]_vars
    PROVE  [Index!Next]_(Index!vars)
<1>. DEFINE Stutter == UNCHANGED <<Current, Len(promotions), Opened>>
            Step(w) ==
              \/ /\ Opened[w] = None /\ Opened' = [Opened EXCEPT ![w] = Len(promotions)]
                 /\ UNCHANGED <<Current, Len(promotions)>>
              \/ /\ Opened' = [Opened EXCEPT ![w] = None]
                 /\ UNCHANGED <<Current, Len(promotions)>>
              \/ /\ Opened[w] = Len(promotions)
                 /\ \E c \in Commits : Current' = [commit |-> c, docs |-> Tree[c]]
                 /\ Len(promotions') = Len(promotions) + 1
                 /\ Opened' = [Opened EXCEPT ![w] = None]
<1>0. Opened' = [v \in Workers |-> OpenedAt(v)']
  BY DEF Opened
<1>1. ASSUME UNCHANGED vars PROVE Stutter
  <2>1. UNCHANGED <<active, promotions, base, pass, commit, docs>>
    BY <1>1 DEF vars, database, processes
  <2>2. \A v \in Workers : OpenedAt(v)' = OpenedAt(v)
    BY <2>1, OpenedKept DEF Handle
  <2>3. Current' = Current
    BY <2>1, CurrentKept
  <2>. QED  BY <1>0, <2>1, <2>2, <2>3 DEF Opened
<1>2. ASSUME NEW w \in Workers, Begin(w) PROVE Step(w)
  <2>1. UNCHANGED <<active, promotions>> /\ OpenedAt(w) = None
        /\ Opened' = [Opened EXCEPT ![w] = Len(promotions)]
    BY <1>2, BeginOpens
  <2>2. Current' = Current
    BY <2>1, CurrentKept
  <2>. QED  BY <2>1, <2>2 DEF Opened
<1>3. ASSUME NEW w \in Workers, Promote(w) PROVE Step(w)
  BY <1>3, PromotePublishes DEF Opened
<1>4. ASSUME Next, UNCHANGED <<active, promotions, base>>
      PROVE  Stutter \/ \E w \in Workers : Step(w) \/ Begin(w) \/ Promote(w)
  <2>1. Current' = Current /\ Len(promotions') = Len(promotions)
    BY <1>4, CurrentKept
  <2>2. CASE \A v \in Workers : Handle(v)' = Handle(v)
    <3>1. \A v \in Workers : OpenedAt(v)' = OpenedAt(v)
      BY <1>4, <2>2, OpenedKept
    <3>. QED  BY <1>0, <2>1, <3>1 DEF Opened
  <2>3. ASSUME NEW w \in Workers, Handle(w)' = None,
               \A v \in Workers : v # w => Handle(v)' = Handle(v)
        PROVE  Step(w)
    <3>1. \A v \in Workers : v # w => OpenedAt(v)' = OpenedAt(v)
      BY <1>4, <2>3, OpenedKept
    <3>2. OpenedAt(w)' = None
      BY <2>3 DEF OpenedAt
    <3>. QED  BY <1>0, <2>1, <3>1, <3>2 DEF Opened
  <2>. QED  BY <1>4, <2>2, <2>3, HandlesKept
<1>. HIDE DEF Stutter, Step
<1>5. Stutter \/ \E w \in Workers : Step(w)
  BY <1>1, <1>2, <1>3, <1>4, PublicationKept
<1>6. Stutter => UNCHANGED Index!vars
  BY DEF Stutter, Index!vars, Current, Opened, OpenedAt
<1>7. ASSUME NEW w \in Workers, Step(w) PROVE Index!Next
  <2>1. Index!Open(w) \/ Index!Drop(w) \/ Index!Publish(w)
    BY <1>7 DEF Step, Index!Open, Index!Drop, Index!Publish, Current, Opened, OpenedAt
  <2>. QED  BY <2>1 DEF Index!Next
<1>. QED  BY <1>5, <1>6, <1>7

(* The revision store implements the published index: queries see one      *)
(* whole index at a time, replaced in one step, and only by a worker that  *)
(* started from the index it replaces.                                     *)
THEOREM StoreImplementsIndex == Spec => Implements
<1>1. StoreInv /\ BaseKnown /\ [Next]_vars => BaseKnown'
  BY StepBaseKnown
<1>2. Init => BaseKnown /\ Index!Init
  BY InitRefines
<1>3. Spec => []BaseKnown
  BY <1>1, <1>2, StoreInvariant, PTL DEF Spec
<1>4. StoreInv /\ StoreInv' /\ BaseKnown /\ [Next]_vars => [Index!Next]_(Index!vars)
  BY StepRefines
<1>. QED  BY <1>2, <1>3, <1>4, StoreInvariant, PTL DEF Spec, Implements, Index!Spec
=============================================================================
