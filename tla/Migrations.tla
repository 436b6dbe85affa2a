----------------------------- MODULE Migrations -----------------------------
(***************************************************************************)
(* Applying the schema's migrations: storage/postgres/migrations,          *)
(* PostgresMigrator.apply.  Several processes, of images that know         *)
(* different numbers of migrations, apply them at the same time; each      *)
(* holds one advisory lock of its session over many transactions, and may  *)
(* stop between any two of them.                                           *)
(***************************************************************************)
EXTENDS Naturals, FiniteSets

CONSTANTS
    Migrators,      \* processes that call apply()
    Packaged,       \* how many migrations a process's image knows
    Nobody,
    MaxStops        \* bound on crashes and failed transactions

ASSUME MigrationsAssumption ==
    /\ Packaged \in [Migrators -> Nat \ {0}]
    /\ Nobody \notin Migrators /\ MaxStops \in Nat

Versions == UNION {1..Packaged[m] : m \in Migrators}

VARIABLES
    history,     \* the versions in schema_migrations
    effects,     \* how often the statements of a migration took effect
    locker,      \* whose session has the migration lock
    migrator,    \* where a process stands, and the versions it knows as applied
    stops

migrateVars == <<history, effects, locker, migrator, stops>>

MigrateInit ==
    /\ history = {}
    /\ effects = [v \in Versions |-> 0]
    /\ locker = Nobody
    /\ migrator = [m \in Migrators |-> [at |-> "idle", seen |-> {}]]
    /\ stops = 0

Stands(m, place) == migrator[m].at = place
Move(m, place) == migrator' = [migrator EXCEPT ![m].at = place]
MayStop == stops < MaxStops /\ stops' = stops + 1

----------------------------------------------------------------------------
CallApply(m) ==
    /\ migrator[m].at \in {"idle", "failed"}
    /\ migrator' = [migrator EXCEPT ![m] = [at |-> "lock", seen |-> {}]]
    /\ UNCHANGED <<history, effects, locker, stops>>

LockOfImage(m) ==                 \* variant: the key depends on the image
    locker \notin {n \in Migrators : Packaged[n] = Packaged[m]}
LockFree(m) == locker = Nobody

(* pg_advisory_lock waits, until the statement timeout ends the wait.      *)
TakeLock(m) ==
    /\ Stands(m, "lock") /\ LockFree(m)
    /\ locker' = m
    /\ Move(m, "read")
    /\ UNCHANGED <<history, effects, stops>>

LockTimeout(m) ==
    /\ Stands(m, "lock") /\ ~LockFree(m)
    /\ Move(m, "failed")
    /\ UNCHANGED <<history, effects, locker, stops>>

(* The table is created if need be, the history read and validated: it     *)
(* must be the beginning of what the image packages.                       *)
Contiguous(S) == S = 1..Cardinality(S)

ReadHistory(m) ==
    /\ Stands(m, "read")
    /\ migrator' = [migrator EXCEPT ![m] =
          [seen |-> history,
           at |-> IF Cardinality(history) > Packaged[m] THEN "newer"
                  ELSE IF ~Contiguous(history) THEN "clash" ELSE "apply"]]
    /\ UNCHANGED <<history, effects, locker, stops>>

(* One migration and its row of the history, in one transaction.  The      *)
(* statements fail where their objects exist.                              *)
NextVersion(m) == Cardinality(migrator[m].seen) + 1

ApplyOne(m) ==
    /\ Stands(m, "apply") /\ NextVersion(m) <= Packaged[m]
    /\ LET v == NextVersion(m)
       IN IF effects[v] = 0 /\ v \notin history
          THEN /\ effects' = [effects EXCEPT ![v] = @ + 1]
               /\ history' = history \cup {v}
               /\ migrator' = [migrator EXCEPT ![m].seen = @ \cup {v}]
          ELSE Move(m, "clash") /\ UNCHANGED <<history, effects>>
    /\ UNCHANGED <<locker, stops>>

ApplyFails(m) ==
    /\ Stands(m, "apply") /\ NextVersion(m) <= Packaged[m]
    /\ MayStop
    /\ Move(m, "broken")
    /\ UNCHANGED <<history, effects, locker>>

Applied(m) ==
    /\ Stands(m, "apply") /\ NextVersion(m) > Packaged[m]
    /\ Move(m, "applied")
    /\ UNCHANGED <<history, effects, locker, stops>>

(* The finally clause unlocks, or the end of the pool ends the session.    *)
Outcome(place) == CASE place = "applied" -> "done" [] place = "newer" -> "refused"
                    [] place = "clash" -> "conflict" [] OTHER -> "failed"

Unlock(m) ==
    /\ migrator[m].at \in {"applied", "newer", "clash", "broken"}
    /\ locker' = IF locker = m THEN Nobody ELSE locker
    /\ Move(m, Outcome(migrator[m].at))
    /\ UNCHANGED <<history, effects, stops>>

StopProcess(m) ==
    /\ migrator[m].at \in {"lock", "read", "apply", "applied", "newer", "clash", "broken"}
    /\ MayStop
    /\ locker' = IF locker = m THEN Nobody ELSE locker
    /\ Move(m, "idle")
    /\ UNCHANGED <<history, effects>>

(* check(): the objects of every migration are there, and the history is   *)
(* complete for this image.                                                *)
CheckPasses(m) ==
    /\ \A v \in 1..Packaged[m] : effects[v] > 0
    /\ Contiguous(history) /\ Cardinality(history) = Packaged[m]

MigrateNext ==
    \E m \in Migrators :
        \/ CallApply(m) \/ TakeLock(m) \/ LockTimeout(m) \/ ReadHistory(m)
        \/ ApplyOne(m) \/ ApplyFails(m) \/ Applied(m) \/ Unlock(m) \/ StopProcess(m)

MigrateSpec == MigrateInit /\ [][MigrateNext]_migrateVars

(* Whatever the order in which processes of old and new images apply and   *)
(* stop: the history is the beginning of the one sequence of migrations,   *)
(* and each of them took effect exactly once; no process runs into what    *)
(* another one did; and where one has reported success the check() of its  *)
(* image passes, until a newer image adds to the history.                  *)
MigratorsAgree ==
    /\ Contiguous(history)
    /\ \A v \in Versions : effects[v] = IF v \in history THEN 1 ELSE 0
    /\ \A m \in Migrators :
          /\ migrator[m].at \notin {"clash", "conflict"}
          /\ Stands(m, "done") => CheckPasses(m) \/ Cardinality(history) > Packaged[m]
=============================================================================
