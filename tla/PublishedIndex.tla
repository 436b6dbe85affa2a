-------------------------- MODULE PublishedIndex --------------------------
(***************************************************************************)
(* What the revision store of one vault promises to the queries: there is  *)
(* one current index; it is the whole tree of one commit; it is replaced   *)
(* in one step; and a worker replaces it only if nobody else has since the *)
(* worker opened its draft (storage/ports.py, RevisionStore).              *)
(***************************************************************************)
EXTENDS Naturals

CONSTANTS Workers, Commits, Tree, Nothing

VARIABLES
    current,     \* the index queries read, Nothing before the first
    version,     \* how many indexes were published so far
    opened       \* the version each worker's draft was opened at, or Nothing

vars == <<current, version, opened>>

Init ==
    /\ current = Nothing
    /\ version = 0
    /\ opened = [w \in Workers |-> Nothing]

Open(w) ==
    /\ opened[w] = Nothing
    /\ opened' = [opened EXCEPT ![w] = version]
    /\ UNCHANGED <<current, version>>

Drop(w) ==
    /\ opened' = [opened EXCEPT ![w] = Nothing]
    /\ UNCHANGED <<current, version>>

Publish(w) ==
    /\ opened[w] = version
    /\ \E c \in Commits : current' = [commit |-> c, docs |-> Tree[c]]
    /\ version' = version + 1
    /\ opened' = [opened EXCEPT ![w] = Nothing]

Next == \E w \in Workers : Open(w) \/ Drop(w) \/ Publish(w)

Spec == Init /\ [][Next]_vars

=============================================================================
