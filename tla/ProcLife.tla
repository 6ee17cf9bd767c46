------------------------------ MODULE ProcLife ------------------------------
(***************************************************************************)
(* What fork, exit and waitpid promise to programs, with no scheduler: a   *)
(* process is created by a living one, ends once with a status, and is     *)
(* collected at most once, by its parent, which learns that status.        *)
(* Sched implements it (MCSched checks this, SchedProofs proves it).       *)
(***************************************************************************)
EXTENDS Integers

CONSTANTS MaxId, Status, NoStatus

Ids == 1..MaxId

VARIABLES
    life,       \* unborn, alive, zombie, or gone once collected
    par,        \* the creator of a process, 0 for the first one
    code,       \* the status it ended with
    got         \* the last child id and status each process collected

lifeVars == <<life, par, code, got>>

Nothing == [pid |-> 0, status |-> NoStatus]

LifeInit ==
    /\ life = [t \in Ids |-> IF t = 1 THEN "alive" ELSE "unborn"]
    /\ par = [t \in Ids |-> 0]
    /\ code = [t \in Ids |-> NoStatus]
    /\ got = [t \in Ids |-> Nothing]

Spawn(p, c) ==
    /\ life[p] = "alive" /\ life[c] = "unborn"
    /\ life' = [life EXCEPT ![c] = "alive"]
    /\ par' = [par EXCEPT ![c] = p]
    /\ UNCHANGED <<code, got>>

End(t) ==
    /\ life[t] = "alive"
    /\ life' = [life EXCEPT ![t] = "zombie"]
    /\ \E s \in Status : code' = [code EXCEPT ![t] = s]
    /\ UNCHANGED <<par, got>>

Collect(p, c) ==
    /\ life[p] = "alive" /\ life[c] = "zombie" /\ par[c] = p
    /\ life' = [life EXCEPT ![c] = "gone"]
    /\ got' = [got EXCEPT ![p] = [pid |-> c, status |-> code[c]]]
    /\ UNCHANGED <<par, code>>

LifeNext ==
    \/ \E p, c \in Ids : Spawn(p, c) \/ Collect(p, c)
    \/ \E t \in Ids : End(t)

LifeSpec == LifeInit /\ [][LifeNext]_lifeVars
=============================================================================
