---------------------------- MODULE SchedProofs ----------------------------
(***************************************************************************)
(* Proofs about Sched for every number of tasks and every set of statuses: *)
(* its properties, and at the end that it implements ProcLife.             *)
(***************************************************************************)
EXTENDS Sched, SequenceTheorems, TLAPS

(* The inductive invariant.                                                 *)

\* The ring lists no task twice, and only tasks that have been created.
RingInv ==
    /\ \A i, j \in 1..Len(ring) : ring[i] = ring[j] => i = j
    /\ \A i \in 1..Len(ring) : ring[i] < next_task_id

\* The current task is in the ring, and so is kmain's from the first tick on.
CurrentInv ==
    /\ current # NoTask => current \in ToSet(ring) /\ Main \in ToSet(ring)
    /\ current = NoTask => intr /\ Main \notin ToSet(ring)

\* kmain's task never calls into the kernel and is never parked.
MainInv ==
    /\ state[Main] \in {"RUNNABLE", "RUNNING"}
    /\ \A t \in Tasks : pc[t] = "idle" <=> t = Main

\* Tasks not yet created are as memset and fork will leave them.
UnbornInv ==
    /\ \A t \in Ids : t >= next_task_id => state[t] = "RUNNABLE" /\ pc[t] = "user"
    /\ tables \subseteq Ids

\* Only the current task is RUNNING, and it is never merely RUNNABLE.
RunningInv ==
    \A t \in Tasks :
        /\ state[t] = "RUNNING" => t = current
        /\ t = current => state[t] # "RUNNABLE"

\* Where a task's control is, its state and the interrupt flag agree.
ControlInv ==
    /\ \A t \in Tasks :
        /\ pc[t] = "dead" <=> state[t] = "ZOMBIE"
        /\ state[t] = "BLOCKED" => pc[t] = "asleep" /\ wake_tick[t] = NeverTick
        /\ pc[t] \in Handler => t = current /\ sysregs = t /\ ~intr
        /\ pc[t] = "fork" => next_task_id <= MaxId
    /\ ~intr => pc[current] \in Handler \cup {"return"}

\* A task that is blocked, or about to be, waits for a living child of its
\* own; a task on its way out has woken whoever waited for it.
WaitInv ==
    \A t \in Tasks :
        /\ state[t] = "BLOCKED" \/ pc[t] = "block" =>
            /\ t \in ToSet(ring)
            /\ OwnChild(t, want[t]) /\ state[want[t]] # "ZOMBIE"
        /\ pc[t] = "die" =>
            \A u \in Tasks : state[u] = "BLOCKED" => want[u] # t

\* The processor holds the current process's stack and page table, and every
\* process that has not ended has one.
ContextInv ==
    /\ current \in Ids => rsp0 = current /\ cr3 = current
    /\ \A t \in Ids : t < next_task_id /\ pc[t] # "dead" => t \in tables

IInv == /\ TypeOK /\ RingInv /\ CurrentInv /\ MainInv /\ UnbornInv
        /\ RunningInv /\ ControlInv /\ WaitInv /\ ContextInv

-----------------------------------------------------------------------------
(* Lemmas about the ring: appending to it and unlinking from it.            *)

\* ToSet of a sequence, by its positions.
LEMMA ToSetDef ==
    ASSUME NEW S, NEW s \in Seq(S)
    PROVE  ToSet(s) = {s[i] : i \in 1..Len(s)} /\ ToSet(s) \subseteq S
  BY DEF ToSet

\* task_enqueue adds exactly the new task and keeps the ring without
\* duplicates if the task was not in it.
LEMMA AppendRing ==
    ASSUME NEW S, NEW s \in Seq(S), NEW e \in S,
           \A i, j \in 1..Len(s) : s[i] = s[j] => i = j,
           e \notin ToSet(s)
    PROVE  /\ Append(s, e) \in Seq(S)
           /\ Len(Append(s, e)) = Len(s) + 1
           /\ \A i \in 1..Len(s) : Append(s, e)[i] = s[i]
           /\ Append(s, e)[Len(s) + 1] = e
           /\ ToSet(Append(s, e)) = ToSet(s) \cup {e}
           /\ \A i, j \in 1..Len(Append(s, e)) :
                Append(s, e)[i] = Append(s, e)[j] => i = j
  <1> DEFINE a == Append(s, e)
  <1>1. /\ a \in Seq(S) /\ Len(a) = Len(s) + 1
        /\ \A i \in 1..Len(s) : a[i] = s[i]
        /\ a[Len(s) + 1] = e
    OBVIOUS
  <1>2. ToSet(a) = {a[i] : i \in 1..Len(a)} /\ ToSet(s) = {s[i] : i \in 1..Len(s)}
    BY <1>1, ToSetDef
  <1>3. ToSet(a) = ToSet(s) \cup {e}
    BY <1>1, <1>2
  <1>4. \A i, j \in 1..Len(a) : a[i] = a[j] => i = j
    BY <1>1, <1>2
  <1> QED
    BY <1>1, <1>3, <1>4

\* waitpid's unlinking removes exactly the child.
LEMMA RemoveRing ==
    ASSUME NEW S, NEW s \in Seq(S), NEW i \in 1..Len(s),
           \A k, j \in 1..Len(s) : s[k] = s[j] => k = j
    PROVE  /\ RemoveAt(s, i) \in Seq(S)
           /\ ToSet(RemoveAt(s, i)) = ToSet(s) \ {s[i]}
           /\ \A k, j \in 1..Len(RemoveAt(s, i)) :
                RemoveAt(s, i)[k] = RemoveAt(s, i)[j] => k = j
  <1> DEFINE r == RemoveAt(s, i)
  <1>1. Len(s) \in Nat
    OBVIOUS
  <1>2. /\ r \in Seq(S) /\ Len(r) = Len(s) - 1
        /\ \A k \in 1..Len(r) : r[k] = IF k < i THEN s[k] ELSE s[k + 1]
    <2> DEFINE a == SubSeq(s, 1, i - 1)
               b == SubSeq(s, i + 1, Len(s))
    <2>1. a \in Seq(S) /\ Len(a) = i - 1 /\ \A k \in 1..(i - 1) : a[k] = s[k]
      BY <1>1
    <2>2. /\ b \in Seq(S) /\ Len(b) = Len(s) - i
          /\ \A k \in 1..(Len(s) - i) : b[k] = s[i + k]
      BY <1>1
    <2>5. r = a \o b
      BY DEF RemoveAt
    <2> HIDE DEF a, b, r
    <2>3. /\ r \in Seq(S) /\ Len(r) = Len(a) + Len(b)
          /\ \A k \in 1..(Len(a) + Len(b)) :
                r[k] = IF k <= Len(a) THEN a[k] ELSE b[k - Len(a)]
      <3>1. a \in Seq(S) /\ b \in Seq(S)
        BY <2>1, <2>2
      <3>2. /\ a \o b \in Seq(S) /\ Len(a \o b) = Len(a) + Len(b)
            /\ \A k \in 1..(Len(a) + Len(b)) :
                  (a \o b)[k] = IF k <= Len(a) THEN a[k] ELSE b[k - Len(a)]
        BY <3>1
      <3> QED
        BY <2>5, <3>2
    <2>4. ASSUME NEW k \in 1..(Len(s) - 1)
          PROVE  r[k] = IF k < i THEN s[k] ELSE s[k + 1]
      <3>0. k \in 1..(Len(a) + Len(b)) /\ Len(a) = i - 1
        BY <1>1, <2>1, <2>2
      <3>1. CASE k < i
        <4>1. k <= Len(a) /\ k \in 1..(i - 1)
          BY <3>0, <3>1, <1>1
        <4> QED
          BY <4>1, <3>0, <3>1, <2>1, <2>3
      <3>2. CASE ~(k < i)
        <4>1. k - (i - 1) \in 1..(Len(s) - i) /\ i + (k - (i - 1)) = k + 1
          BY <3>2, <1>1
        <4>2. ~(k <= Len(a))
          BY <3>0, <3>2, <1>1
        <4>3. b[k - (i - 1)] = s[k + 1]
          BY <4>1, <2>2
        <4> QED
          BY <3>0, <3>2, <4>2, <4>3, <2>3
      <3> QED
        BY <3>1, <3>2
    <2>6. Len(r) = Len(s) - 1
      BY <1>1, <2>1, <2>2, <2>3
    <2> QED
      BY <2>3, <2>4, <2>6
  <1>3. ToSet(r) = {r[k] : k \in 1..Len(r)} /\ ToSet(s) = {s[k] : k \in 1..Len(s)}
    BY <1>2, ToSetDef
  <1>4. ASSUME NEW k \in 1..Len(s), k # i
        PROVE  s[k] \in ToSet(r)
    <2>1. CASE k < i
      BY <2>1, <1>1, <1>2, <1>3
    <2>2. CASE k > i
      <3>1. k - 1 \in 1..Len(r) /\ r[k - 1] = s[k]
        BY <2>2, <1>1, <1>2
      <3> QED
        BY <3>1, <1>3
    <2> QED
      BY <1>4, <2>1, <2>2
  <1>5. ASSUME NEW k \in 1..Len(r)
        PROVE  \E m \in 1..Len(s) : m # i /\ r[k] = s[m]
    BY <1>1, <1>2
  <1>6. ToSet(r) = ToSet(s) \ {s[i]}
    BY <1>3, <1>4, <1>5
  <1>7. \A k, j \in 1..Len(r) : r[k] = r[j] => k = j
    BY <1>1, <1>2
  <1> QED
    BY <1>2, <1>6, <1>7

-----------------------------------------------------------------------------
(* The inductive invariant holds initially and every action preserves it.   *)

LEMMA InitInv == Init => IInv
  <1> SUFFICES ASSUME Init PROVE IInv
    OBVIOUS
  <1>1. ring \in Seq(Tasks) /\ Len(ring) = 1 /\ ring[1] = 1 /\ ToSet(ring) = {1}
    BY SchedAssumption DEF Init, Tasks, ToSet
  <1>2. TypeOK
    BY <1>1, SchedAssumption DEF Init, TypeOK, Tasks, Ids, Main, NoTask, TaskStates, Pcs, Handler
  <1>3. RingInv /\ CurrentInv /\ MainInv /\ UnbornInv
    BY <1>1, SchedAssumption DEF Init, RingInv, CurrentInv, MainInv, UnbornInv, Tasks, Ids, Main, NoTask
  <1>4. RunningInv /\ ControlInv /\ WaitInv /\ ContextInv
    BY <1>1, SchedAssumption DEF Init, RunningInv, ControlInv, WaitInv, ContextInv, Handler,
       Tasks, Ids, Main, NoTask
  <1> QED
    BY <1>2, <1>3, <1>4 DEF IInv

\* What a system call returns is a task id or a small code.
LEMMA ResultFacts == \A q \in Tasks \cup {-2, -1, 0, 1} : q \in (-2)..MaxId
  BY SchedAssumption DEF Tasks

\* The task ids, without their arithmetic.
LEMMA TaskFacts ==
    /\ Main \in Tasks /\ Ids \subseteq Tasks /\ Main \notin Ids
    /\ NoTask \notin Tasks /\ NoTask # Main
    /\ \A t \in Tasks : t = Main \/ t \in Ids
    /\ \A t \in Tasks : t \in Int
  BY SchedAssumption DEF Main, Tasks, Ids, NoTask

\* The current task is one that has been created.
LEMMA CurrentBorn ==
    ASSUME IInv, current \in Tasks
    PROVE  current \in ToSet(ring) /\ current < next_task_id
  <1>1. current \in ToSet(ring)
    BY TaskFacts DEF IInv, CurrentInv
  <1>2. PICK i \in 1..Len(ring) : current = ring[i]
    BY <1>1, ToSetDef DEF IInv, TypeOK
  <1> QED
    BY <1>1, <1>2 DEF IInv, RingInv

\* Steps of the current task that move its control and leave the ring, the
\* task states and the page tables alone.
LEMMA ControlStep ==
    ASSUME IInv, TypeOK',
           NEW t \in Ids, NEW q \in Pcs \ {"idle", "dead", "die"},
           current = t, pc[t] # "dead", state[t] # "BLOCKED",
           pc' = [pc EXCEPT ![t] = q],
           \A u \in Tasks : u # t => want'[u] = want[u],
           UNCHANGED <<ring, current, state, parent_id, wake_tick,
                       next_task_id, cr3, rsp0, tables>>,
           q \in Handler => sysregs' = t /\ ~intr',
           ~intr' => q \in Handler \cup {"return"},
           q = "fork" => next_task_id <= MaxId,
           q = "block" => want'[t] = want[t] /\ OwnChild(t, want[t])
                          /\ state[want[t]] # "ZOMBIE"
    PROVE  IInv'
  <1>1. /\ t \in Tasks /\ t # Main /\ pc[t] # "idle"
        /\ t \in ToSet(ring) /\ t < next_task_id
    BY TaskFacts, CurrentBorn DEF IInv, MainInv
  <1>2. \A u \in Tasks : pc'[u] = IF u = t THEN q ELSE pc[u]
    BY DEF IInv, TypeOK
  <1>3. RingInv' /\ CurrentInv'
    BY TaskFacts DEF IInv, RingInv, CurrentInv
  <1>4. MainInv'
    BY <1>1, <1>2 DEF IInv, MainInv
  <1>5. UnbornInv'
    <2>1. ~(t >= next_task_id)
      BY <1>1, TaskFacts DEF IInv, TypeOK
    <2> QED
      BY <1>2, <2>1, TaskFacts DEF IInv, UnbornInv
  <1>6. RunningInv'
    BY DEF IInv, RunningInv
  <1>7. ControlInv'
    BY <1>1, <1>2 DEF IInv, ControlInv
  <1>8. WaitInv'
    <2> SUFFICES ASSUME NEW u \in Tasks
                 PROVE  /\ state[u] = "BLOCKED" \/ pc'[u] = "block" =>
                            /\ u \in ToSet(ring)
                            /\ OwnChild(u, want'[u]) /\ state[want'[u]] # "ZOMBIE"
                        /\ pc'[u] = "die" =>
                            \A v \in Tasks : state[v] = "BLOCKED" => want'[v] # u
      BY DEF WaitInv, OwnChild
    <2>1. CASE u = t
      BY <1>1, <1>2, <2>1
    <2>2. CASE u # t
      <3>1. pc'[u] = pc[u] /\ want'[u] = want[u]
        BY <1>2, <2>2
      <3>2. \A v \in Tasks : state[v] = "BLOCKED" => want'[v] = want[v]
        OBVIOUS
      <3> QED
        BY <3>1, <3>2 DEF IInv, WaitInv
    <2> QED
      BY <2>1, <2>2
  <1>9. ContextInv'
    BY <1>1, <1>2, TaskFacts DEF IInv, ContextInv
  <1> QED
    BY <1>3, <1>4, <1>5, <1>6, <1>7, <1>8, <1>9 DEF IInv

\* Every action but the ticks keeps the types.
LEMMA CallTypes ==
    ASSUME IInv, NEW t \in Ids,
           Call(t) \/ RetryWaitpid(t) \/ Return(t) \/ ReadDone(t)
    PROVE  TypeOK'
  <1> USE TaskFacts DEF IInv, TypeOK, procVars, waitVars, cpuVars, GateFlag
  <1>1. \A q \in {"fork", "exit", "read", "waitpid", "return", "user"} : q \in Pcs
    BY DEF Pcs, Handler
  <1>2. ASSUME NEW h \in {"fork", "exit", "read"}, Enter(t, h)
        PROVE  TypeOK'
    BY <1>1, <1>2 DEF Enter
  <1>3. CASE CallWaitpid(t)
    <2>1. want' \in [Tasks -> Tasks]
      BY <1>3 DEF CallWaitpid
    <2>2. nohang' \in [Tasks -> BOOLEAN]
      BY <1>3, SchedAssumption DEF CallWaitpid
    <2>3. pc' \in [Tasks -> Pcs]
      BY <1>1, <1>3 DEF CallWaitpid
    <2> QED
      BY <1>3, <2>1, <2>2, <2>3 DEF CallWaitpid
  <1>4. CASE RetryWaitpid(t)
    BY <1>1, <1>4 DEF RetryWaitpid
  <1>5. CASE Return(t)
    <2>1. 0 \in Tasks
      BY TaskFacts DEF Main
    <2> QED
      BY <1>1, <1>5, <2>1 DEF Return
  <1>6. CASE ReadDone(t)
    BY <1>1, <1>6, ResultFacts DEF ReadDone
  <1> QED
    BY <1>2, <1>3, <1>4, <1>5, <1>6 DEF Call, CallFork, CallExit, CallRead

LEMMA KernelTypes ==
    ASSUME IInv, NEW t \in Ids, KernelStep(t), ~Return(t)
    PROVE  TypeOK'
  <1> USE TaskFacts DEF IInv, TypeOK, procVars, waitVars, cpuVars
  <1>1. /\ \A q \in {"die", "dead", "return", "block", "asleep", "ttywait", "user"} : q \in Pcs
        /\ \A q \in {"RUNNABLE", "ZOMBIE", "BLOCKED"} : q \in TaskStates
    BY DEF Pcs, Handler, TaskStates
  <1>2. CASE Fork(t)
    <2>1. pc[t] \in Handler /\ next_task_id <= MaxId
      BY <1>2 DEF Fork, ControlInv, Handler
    <2>2. next_task_id \in Tasks /\ next_task_id + 1 \in 1..(MaxId + 1)
      BY <2>1, SchedAssumption DEF Tasks
    <2>3. ring' \in Seq(Tasks) /\ next_task_id' \in 1..(MaxId + 1)
      BY <1>2, <2>2 DEF Fork
    <2>4. /\ state' \in [Tasks -> TaskStates] /\ parent_id' \in [Tasks -> Tasks]
          /\ wake_tick' \in [Tasks -> {0, NeverTick}] /\ pc' \in [Tasks -> Pcs]
      BY <1>1, <1>2, <2>2, Zenon DEF Fork
    <2>5. ret' \in [Tasks -> (-2)..MaxId]
      <3>1. next_task_id \in (-2)..MaxId /\ 0 \in (-2)..MaxId
        BY <2>1, SchedAssumption
      <3> QED
        BY <1>2, <3>1 DEF Fork
    <2>6. tables' \subseteq Tasks
      BY <1>2, <2>2 DEF Fork
    <2> QED
      BY <1>2, <2>3, <2>4, <2>5, <2>6 DEF Fork
  <1>3. CASE ExitNotify(t)
    <2>1. exit_status' \in [Tasks -> Status \cup {NoStatus}]
      BY <1>3 DEF ExitNotify
    <2>2. state' \in [Tasks -> TaskStates]
      BY <1>1, <1>3 DEF ExitNotify
    <2>3. pc' \in [Tasks -> Pcs]
      BY <1>1, <1>3 DEF ExitNotify
    <2> QED
      BY <1>3, <2>1, <2>2, <2>3 DEF ExitNotify
  <1>4. CASE ExitDie(t)
    BY <1>1, <1>4 DEF ExitDie
  <1>5. CASE WaitpidNoChild(t)
    BY <1>1, ResultFacts, <1>5 DEF WaitpidNoChild
  <1>6. CASE WaitpidReap(t)
    <2>1. PICK i \in 1..Len(ring) : ring' = RemoveAt(ring, i)
      BY <1>6 DEF WaitpidReap
    <2>2. ring' \in Seq(Tasks)
      BY <2>1, RemoveRing DEF RingInv
    <2> QED
      BY ResultFacts, <1>1, <1>6, <2>2 DEF WaitpidReap
  <1>7. CASE WaitpidNoHang(t)
    BY <1>1, ResultFacts, <1>7 DEF WaitpidNoHang
  <1>8. CASE WaitpidAlive(t)
    BY <1>1, <1>8 DEF WaitpidAlive
  <1>9. CASE WaitpidBlock(t)
    BY <1>1, <1>9 DEF WaitpidBlock
  <1>10. CASE WaitpidWoken(t)
    BY <1>1, ResultFacts, <1>10 DEF WaitpidWoken
  <1>11. CASE ReadWait(t)
    BY <1>1, <1>11 DEF ReadWait
  <1> QED
    BY <1>2, <1>3, <1>4, <1>5, <1>6, <1>7, <1>8, <1>9, <1>10, <1>11 DEF KernelStep

LEMMA ControlActions ==
    ASSUME IInv, NEW t \in Ids,
           \/ Call(t) \/ RetryWaitpid(t) \/ Return(t) \/ ReadDone(t)
           \/ WaitpidNoChild(t) \/ WaitpidNoHang(t) \/ WaitpidAlive(t)
           \/ WaitpidWoken(t) \/ ReadWait(t)
    PROVE  IInv'
  <1> USE DEF procVars, waitVars, cpuVars, GateFlag
  <1>1. TypeOK'
    BY CallTypes, KernelTypes DEF KernelStep, Return, WaitpidNoChild,
       WaitpidNoHang, WaitpidAlive, WaitpidWoken, ReadWait
  <1>2. t \in Tasks /\ \A q \in Tasks : pc[q] \in Pcs
    BY TaskFacts DEF IInv, TypeOK
  <1>3. ASSUME current = t, pc[t] \notin {"asleep", "dead"}
        PROVE  state[t] # "BLOCKED"
    BY <1>2, <1>3 DEF IInv, ControlInv
  <1>4. /\ \A q \in {"fork", "exit", "read", "waitpid", "block"} :
            q \in Handler /\ q \in Pcs \ {"idle", "dead", "die"}
        /\ \A q \in {"user", "return", "ttywait"} :
            q \notin Handler /\ q \in Pcs \ {"idle", "dead", "die"}
    BY DEF Handler, Pcs
  <1>5. ASSUME NEW h \in {"fork", "exit", "read"}, Enter(t, h),
               h = "fork" => next_task_id <= MaxId
        PROVE  IInv'
    BY <1>1, <1>3, <1>4, <1>5, ControlStep DEF Enter, AtUser
  <1>6. CASE Call(t)
    <2>1. CASE CallWaitpid(t)
      BY <1>1, <1>2, <1>3, <1>4, <2>1, ControlStep DEF CallWaitpid, AtUser, IInv, TypeOK
    <2> QED
      BY <1>5, <1>6, <2>1 DEF Call, CallFork, CallExit, CallRead
  <1>7. CASE RetryWaitpid(t)
    BY <1>1, <1>3, <1>4, <1>7, ControlStep DEF RetryWaitpid, AtUser
  <1>8. CASE Return(t)
    BY <1>1, <1>2, <1>3, <1>4, <1>8, ControlStep DEF Return, IInv, TypeOK
  <1>9. CASE ReadDone(t)
    BY <1>1, <1>3, <1>4, <1>9, ControlStep DEF ReadDone
  <1>10. CASE WaitpidNoChild(t)
    BY <1>1, <1>3, <1>4, <1>10, ControlStep DEF WaitpidNoChild
  <1>11. CASE WaitpidNoHang(t)
    BY <1>1, <1>3, <1>4, <1>11, ControlStep DEF WaitpidNoHang
  <1>12. CASE WaitpidAlive(t)
    <2>1. sysregs = t /\ ~intr
      BY <1>2, <1>4, <1>12 DEF WaitpidAlive, IInv, ControlInv
    <2> QED
      BY <1>1, <1>3, <1>4, <1>12, <2>1, ControlStep DEF WaitpidAlive
  <1>13. CASE WaitpidWoken(t)
    BY <1>1, <1>3, <1>4, <1>13, ControlStep DEF WaitpidWoken
  <1>14. CASE ReadWait(t)
    BY <1>1, <1>3, <1>4, <1>14, ControlStep DEF ReadWait
  <1> QED
    BY <1>6, <1>7, <1>8, <1>9, <1>10, <1>11, <1>12, <1>13, <1>14

\* fork_current_task keeps the invariant: the child is new to the ring.
LEMMA ForkInv ==
    ASSUME IInv, NEW t \in Ids, Fork(t)
    PROVE  IInv'
  <1> DEFINE child == next_task_id
  <1>1. TypeOK'
    BY KernelTypes DEF KernelStep, Fork, Return
  <1>2. /\ t \in Tasks /\ t # Main /\ current = t /\ pc[t] = "fork"
        /\ t \in ToSet(ring) /\ t < child /\ t # child
        /\ ~intr /\ sysregs = t
    <2>1. t \in Tasks /\ t # Main /\ current = t /\ pc[t] = "fork"
      BY TaskFacts DEF Fork
    <2>2. t \in ToSet(ring) /\ t < child
      BY <2>1, CurrentBorn
    <2>3. "fork" \in Handler
      BY DEF Handler
    <2> QED
      BY <2>1, <2>2, <2>3, TaskFacts DEF IInv, ControlInv, TypeOK
  <1>3. child \in Ids /\ child \in Tasks /\ child # Main
    <2>1. child <= MaxId /\ child \in 1..(MaxId + 1)
      BY <1>2 DEF IInv, ControlInv, TypeOK
    <2> QED
      BY <2>1, SchedAssumption DEF Ids, Tasks, Main
  <1>4. ring \in Seq(Tasks) /\ child \notin ToSet(ring)
    <2>1. ring \in Seq(Tasks) /\ child \in Int
      BY DEF IInv, TypeOK
    <2>2. \A i \in 1..Len(ring) : ring[i] # child
      BY <2>1 DEF IInv, RingInv
    <2> QED
      BY <2>1, <2>2, ToSetDef
  <1>5. /\ ring' \in Seq(Tasks) /\ Len(ring') = Len(ring) + 1
        /\ \A i \in 1..Len(ring) : ring'[i] = ring[i]
        /\ ring'[Len(ring) + 1] = child
        /\ ToSet(ring') = ToSet(ring) \cup {child}
        /\ \A i, j \in 1..Len(ring') : ring'[i] = ring'[j] => i = j
    <2>1. ring' = Append(ring, child)
      BY DEF Fork
    <2>2. \A i, j \in 1..Len(ring) : ring[i] = ring[j] => i = j
      BY DEF IInv, RingInv
    <2>3. child \in Tasks /\ child \notin ToSet(ring) /\ ring \in Seq(Tasks)
      BY <1>3, <1>4
    <2> HIDE DEF child
    <2>4. /\ Append(ring, child) \in Seq(Tasks)
          /\ Len(Append(ring, child)) = Len(ring) + 1
          /\ \A i \in 1..Len(ring) : Append(ring, child)[i] = ring[i]
          /\ Append(ring, child)[Len(ring) + 1] = child
          /\ ToSet(Append(ring, child)) = ToSet(ring) \cup {child}
          /\ \A i, j \in 1..Len(Append(ring, child)) :
                Append(ring, child)[i] = Append(ring, child)[j] => i = j
      BY <2>2, <2>3, AppendRing
    <2>5. ToSet(ring') = ToSet(Append(ring, child))
      BY <2>1
    <2> QED
      BY <2>1, <2>4, <2>5
  <1>6. /\ \A u \in Tasks : state'[u] = IF u = child THEN "RUNNABLE" ELSE state[u]
        /\ \A u \in Tasks : pc'[u] = IF u = t THEN "return"
                                     ELSE IF u = child THEN "user" ELSE pc[u]
        /\ \A u \in Tasks : u # child => parent_id'[u] = parent_id[u]
                                         /\ wake_tick'[u] = wake_tick[u]
        /\ tables' = tables \cup {child} /\ next_task_id' = child + 1
        /\ UNCHANGED <<want, current, cr3, rsp0, intr, sysregs>>
    BY <1>2, <1>3 DEF Fork, IInv, TypeOK, waitVars, cpuVars
  <1>7. RingInv'
    <2>1. child \in Int /\ Len(ring) \in Nat /\ \A i \in 1..Len(ring) : ring[i] \in Int
      BY <1>3, <1>4, TaskFacts
    <2>2. \A i \in 1..Len(ring') : ring'[i] < child + 1
      BY <2>1, <1>5 DEF IInv, RingInv
    <2> QED
      BY <2>2, <1>5, <1>6 DEF RingInv
  <1>8. CurrentInv'
    BY <1>2, <1>5, <1>6, TaskFacts DEF IInv, CurrentInv
  <1>9. MainInv'
    <2>1. \A u \in Tasks : pc[u] = "idle" <=> u = Main
      BY DEF IInv, MainInv
    <2>2. \A u \in Tasks : pc'[u] = "idle" <=> u = Main
      BY <1>2, <1>3, <1>6, <2>1
    <2> QED
      BY <2>2, <1>3, <1>6, TaskFacts DEF IInv, MainInv
  <1>10. UnbornInv'
    <2>1. \A u \in Ids : u >= child + 1 => u >= child /\ u # child
      BY <1>3 DEF Ids
    <2>2. \A u \in Ids : u >= child => u # t
      BY <1>2, TaskFacts, <1>3
    <2> QED
      BY <1>3, <1>6, <2>1, <2>2, TaskFacts DEF IInv, UnbornInv
  <1>11. RunningInv'
    BY <1>2, <1>6 DEF IInv, RunningInv
  <1>12. ControlInv'
    <2>1. state[t] # "ZOMBIE" /\ state[t] # "BLOCKED"
      BY <1>2 DEF IInv, ControlInv
    <2>2. ASSUME NEW u \in Tasks
          PROVE  /\ pc'[u] = "dead" <=> state'[u] = "ZOMBIE"
                 /\ state'[u] = "BLOCKED" => pc'[u] = "asleep" /\ wake_tick'[u] = NeverTick
      BY <1>2, <1>6, <2>1 DEF IInv, ControlInv
    <2>3. ASSUME NEW u \in Tasks
          PROVE  pc'[u] \notin Handler
      <3>1. "return" \notin Handler /\ "user" \notin Handler
        BY DEF Handler
      <3> QED
        BY <1>2, <1>6, <3>1 DEF IInv, ControlInv
    <2>4. pc'[current'] = "return" /\ "fork" \in Handler
      BY <1>2, <1>6 DEF Handler
    <2> QED
      BY <2>2, <2>3, <2>4 DEF ControlInv
  <1>13. WaitInv'
    <2>1. ASSUME NEW u \in Tasks, state'[u] = "BLOCKED" \/ pc'[u] = "block"
          PROVE  /\ u \in ToSet(ring')
                 /\ OwnChild(u, want[u])' /\ state'[want'[u]] # "ZOMBIE"
      <3>1. u # child /\ u # t /\ (state[u] = "BLOCKED" \/ pc[u] = "block")
        <4>1. state[t] # "BLOCKED"
          BY <1>2 DEF IInv, ControlInv
        <4> QED
          BY <1>2, <1>6, <2>1, <4>1
      <3>2. u \in ToSet(ring) /\ OwnChild(u, want[u]) /\ state[want[u]] # "ZOMBIE"
        BY <3>1 DEF IInv, WaitInv
      <3>3. want[u] # child /\ want[u] \in Tasks
        BY <1>4, <3>2 DEF OwnChild, IInv, TypeOK
      <3> QED
        BY <1>5, <1>6, <3>2, <3>3 DEF OwnChild
    <2>2. ASSUME NEW u \in Tasks, pc'[u] = "die",
                 NEW v \in Tasks, state'[v] = "BLOCKED"
          PROVE  want'[v] # u
      BY <1>6, <2>2 DEF IInv, WaitInv
    <2> QED
      BY <2>1, <2>2 DEF WaitInv, OwnChild
  <1>14. ContextInv'
    <2>1. \A u \in Ids : u < child + 1 /\ u # child => u < child
      BY <1>3 DEF Ids
    <2>2. \A u \in Ids : u \in Tasks /\ (u # child => (pc'[u] # "dead" <=> pc[u] # "dead"))
      BY <1>2, <1>6, TaskFacts
    <2> QED
      BY <1>6, <2>1, <2>2 DEF IInv, ContextInv
  <1> QED
    BY <1>1, <1>7, <1>8, <1>9, <1>10, <1>11, <1>12, <1>13, <1>14 DEF IInv

\* What a task inside a handler is known to be.
LEMMA InHandler ==
    ASSUME IInv, NEW t \in Ids, current = t, pc[t] \in Handler
    PROVE  /\ t \in Tasks /\ t # Main /\ t \in ToSet(ring) /\ ~intr
           /\ t < next_task_id /\ ~(t >= next_task_id)
           /\ state[t] \notin {"BLOCKED", "ZOMBIE"}
           /\ \A u \in Tasks : pc[u] \in Handler => u = t
  <1>1. t \in Tasks /\ t # Main /\ t \in ToSet(ring) /\ t < next_task_id
    BY TaskFacts, CurrentBorn
  <1>2. ~(t >= next_task_id)
    BY <1>1, TaskFacts DEF IInv, TypeOK
  <1>3. pc[t] # "dead" /\ pc[t] # "asleep"
    BY DEF Handler
  <1> QED
    BY <1>1, <1>2, <1>3 DEF IInv, ControlInv

\* exit's first half keeps the invariant: after it nobody waits for t.
LEMMA ExitNotifyInv ==
    ASSUME IInv, NEW t \in Ids, ExitNotify(t)
    PROVE  IInv'
  <1>1. TypeOK'
    BY KernelTypes DEF KernelStep, ExitNotify, Return
  <1>2. /\ "exit" \in Handler /\ "die" \in Handler /\ "block" \in Handler
        /\ current = t /\ pc[t] = "exit"
    BY DEF ExitNotify, Handler
  <1>3. /\ t \in Tasks /\ t # Main /\ t \in ToSet(ring) /\ ~intr
        /\ ~(t >= next_task_id)
        /\ state[t] \notin {"BLOCKED", "ZOMBIE"}
        /\ \A u \in Tasks : pc[u] \in Handler => u = t
    BY <1>2, InHandler
  <1>4. /\ \A u \in Tasks : pc'[u] = IF u = t THEN "die" ELSE pc[u]
        /\ \A u \in Tasks :
             state'[u] = IF /\ u = parent_id[t] /\ u > 0 /\ u \in ToSet(ring)
                            /\ state[u] = "BLOCKED"
                         THEN "RUNNABLE" ELSE state[u]
        /\ UNCHANGED <<ring, current, parent_id, wake_tick, next_task_id, want,
                       cr3, rsp0, tables, intr, sysregs>>
    BY <1>3 DEF ExitNotify, IInv, TypeOK, waitVars, cpuVars
  <1>5. \A u \in Tasks : /\ state'[u] \in {"BLOCKED", "RUNNING", "ZOMBIE"} => state'[u] = state[u]
                         /\ state[u] # "BLOCKED" => state'[u] = state[u]
    BY <1>4
  <1>6. RingInv' /\ CurrentInv'
    BY <1>4, TaskFacts DEF IInv, RingInv, CurrentInv
  <1>7. MainInv'
    BY <1>2, <1>3, <1>4, <1>5, TaskFacts DEF IInv, MainInv
  <1>8. UnbornInv'
    BY <1>3, <1>4, <1>5, TaskFacts DEF IInv, UnbornInv
  <1>9. RunningInv'
    BY <1>2, <1>3, <1>4, <1>5 DEF IInv, RunningInv
  <1>10. ControlInv'
    <2>1. ASSUME NEW u \in Tasks
          PROVE  /\ pc'[u] = "dead" <=> state'[u] = "ZOMBIE"
                 /\ state'[u] = "BLOCKED" => pc'[u] = "asleep" /\ wake_tick'[u] = NeverTick
                 /\ pc'[u] \in Handler => u = current' /\ sysregs' = u /\ ~intr'
                 /\ pc'[u] = "fork" => next_task_id' <= MaxId
      BY <1>2, <1>3, <1>4, <1>5 DEF IInv, ControlInv
    <2> QED
      BY <2>1, <1>2, <1>3, <1>4 DEF ControlInv
  <1>11. WaitInv'
    <2>1. ASSUME NEW u \in Tasks, state'[u] = "BLOCKED" \/ pc'[u] = "block"
          PROVE  /\ u \in ToSet(ring')
                 /\ OwnChild(u, want[u])' /\ state'[want'[u]] # "ZOMBIE"
      <3>1. state[u] = "BLOCKED"
        BY <1>2, <1>3, <1>4, <1>5, <2>1
      <3>2. u \in ToSet(ring) /\ OwnChild(u, want[u]) /\ state[want[u]] # "ZOMBIE"
        BY <3>1 DEF IInv, WaitInv
      <3>3. want[u] \in Tasks
        BY DEF IInv, TypeOK
      <3> QED
        BY <1>4, <1>5, <3>2, <3>3 DEF OwnChild
    <2>2. ASSUME NEW u \in Tasks, pc'[u] = "die",
                 NEW v \in Tasks, state'[v] = "BLOCKED", want'[v] = u
          PROVE  FALSE
      <3>1. u = t
        BY <1>2, <1>3, <1>4, <2>2
      <3>2. state[v] = "BLOCKED" /\ v \in ToSet(ring) /\ parent_id[t] = v
        BY <1>4, <1>5, <2>2, <3>1 DEF IInv, WaitInv, OwnChild
      <3>3. v # Main
        BY <3>2 DEF IInv, MainInv
      <3>4. v > 0
        BY <3>3 DEF Tasks, Main
      <3> QED
        BY <1>4, <2>2, <3>2, <3>4
    <2> QED
      BY <2>1, <2>2 DEF WaitInv, OwnChild
  <1>12. ContextInv'
    BY <1>2, <1>4, TaskFacts DEF IInv, ContextInv
  <1> QED
    BY <1>1, <1>6, <1>7, <1>8, <1>9, <1>10, <1>11, <1>12 DEF IInv

\* exit's second half keeps the invariant.
LEMMA ExitDieInv ==
    ASSUME IInv, NEW t \in Ids, ExitDie(t)
    PROVE  IInv'
  <1>1. TypeOK'
    BY KernelTypes DEF KernelStep, ExitDie, Return
  <1>2. /\ "die" \in Handler /\ "block" \in Handler /\ "dead" \notin Handler
        /\ current = t /\ pc[t] = "die"
    BY DEF ExitDie, Handler
  <1>3. /\ t \in Tasks /\ t # Main /\ t \in ToSet(ring) /\ ~intr
        /\ ~(t >= next_task_id)
        /\ state[t] \notin {"BLOCKED", "ZOMBIE"}
        /\ \A u \in Tasks : pc[u] \in Handler => u = t
    BY <1>2, InHandler
  <1>4. /\ \A u \in Tasks : pc'[u] = IF u = t THEN "dead" ELSE pc[u]
        /\ \A u \in Tasks : state'[u] = IF u = t THEN "ZOMBIE" ELSE state[u]
        /\ UNCHANGED <<ring, current, parent_id, wake_tick, next_task_id, want,
                       cr3, rsp0, sysregs>>
        /\ tables' = tables \ {t} /\ intr'
    BY <1>3 DEF ExitDie, IInv, TypeOK, procVars, waitVars, cpuVars
  <1>6. RingInv' /\ CurrentInv'
    BY <1>3, <1>4, TaskFacts DEF IInv, RingInv, CurrentInv
  <1>7. MainInv'
    BY <1>2, <1>3, <1>4, TaskFacts DEF IInv, MainInv
  <1>8. UnbornInv'
    BY <1>3, <1>4, TaskFacts DEF IInv, UnbornInv
  <1>9. RunningInv'
    BY <1>2, <1>3, <1>4 DEF IInv, RunningInv
  <1>10. ControlInv'
    <2>1. ASSUME NEW u \in Tasks
          PROVE  /\ pc'[u] = "dead" <=> state'[u] = "ZOMBIE"
                 /\ state'[u] = "BLOCKED" => pc'[u] = "asleep" /\ wake_tick'[u] = NeverTick
      BY <1>2, <1>3, <1>4 DEF IInv, ControlInv
    <2>2. ASSUME NEW u \in Tasks
          PROVE  pc'[u] \notin Handler
      BY <1>2, <1>3, <1>4
    <2>3. "fork" \in Handler
      BY DEF Handler
    <2> QED
      BY <2>1, <2>2, <2>3, <1>4 DEF ControlInv
  <1>11. WaitInv'
    <2>1. ASSUME NEW u \in Tasks, state'[u] = "BLOCKED" \/ pc'[u] = "block"
          PROVE  /\ u \in ToSet(ring')
                 /\ OwnChild(u, want[u])' /\ state'[want'[u]] # "ZOMBIE"
      <3>1. state[u] = "BLOCKED"
        BY <1>2, <1>3, <1>4, <2>1
      <3>2. u \in ToSet(ring) /\ OwnChild(u, want[u]) /\ state[want[u]] # "ZOMBIE"
        BY <3>1 DEF IInv, WaitInv
      <3>3. want[u] \in Tasks /\ want[u] # t
        BY <1>2, <1>3, <3>1 DEF IInv, TypeOK, WaitInv
      <3> QED
        BY <1>4, <3>2, <3>3 DEF OwnChild
    <2>2. \A u \in Tasks : pc'[u] # "die"
      BY <1>2, <1>3, <1>4
    <2> QED
      BY <2>1, <2>2 DEF WaitInv, OwnChild
  <1>12. ContextInv'
    BY <1>2, <1>4, TaskFacts DEF IInv, ContextInv
  <1> QED
    BY <1>1, <1>6, <1>7, <1>8, <1>9, <1>10, <1>11, <1>12 DEF IInv

\* waitpid's blocking keeps the invariant.
LEMMA WaitpidBlockInv ==
    ASSUME IInv, NEW t \in Ids, WaitpidBlock(t)
    PROVE  IInv'
  <1>1. TypeOK'
    BY KernelTypes DEF KernelStep, WaitpidBlock, Return
  <1>2. /\ "die" \in Handler /\ "block" \in Handler /\ "asleep" \notin Handler
        /\ current = t /\ pc[t] = "block"
    BY DEF WaitpidBlock, Handler
  <1>3. /\ t \in Tasks /\ t # Main /\ t \in ToSet(ring) /\ ~intr
        /\ ~(t >= next_task_id)
        /\ state[t] \notin {"BLOCKED", "ZOMBIE"}
        /\ \A u \in Tasks : pc[u] \in Handler => u = t
    BY <1>2, InHandler
  <1>4. /\ \A u \in Tasks : pc'[u] = IF u = t THEN "asleep" ELSE pc[u]
        /\ \A u \in Tasks : state'[u] = IF u = t THEN "BLOCKED" ELSE state[u]
        /\ \A u \in Tasks : wake_tick'[u] = IF u = t THEN NeverTick ELSE wake_tick[u]
        /\ UNCHANGED <<ring, current, parent_id, next_task_id, want,
                       cr3, rsp0, sysregs, tables>>
        /\ intr'
    BY <1>3 DEF WaitpidBlock, IInv, TypeOK, procVars, waitVars, cpuVars
  <1>6. RingInv' /\ CurrentInv'
    BY <1>3, <1>4, TaskFacts DEF IInv, RingInv, CurrentInv
  <1>7. MainInv'
    BY <1>2, <1>3, <1>4, TaskFacts DEF IInv, MainInv
  <1>8. UnbornInv'
    BY <1>3, <1>4, TaskFacts DEF IInv, UnbornInv
  <1>9. RunningInv'
    BY <1>2, <1>3, <1>4 DEF IInv, RunningInv
  <1>10. ControlInv'
    <2>1. ASSUME NEW u \in Tasks
          PROVE  /\ pc'[u] = "dead" <=> state'[u] = "ZOMBIE"
                 /\ state'[u] = "BLOCKED" => pc'[u] = "asleep" /\ wake_tick'[u] = NeverTick
      BY <1>2, <1>3, <1>4 DEF IInv, ControlInv
    <2>2. ASSUME NEW u \in Tasks
          PROVE  pc'[u] \notin Handler
      BY <1>2, <1>3, <1>4
    <2>3. "fork" \in Handler
      BY DEF Handler
    <2> QED
      BY <2>1, <2>2, <2>3, <1>4 DEF ControlInv
  <1>11. WaitInv'
    <2>1. ASSUME NEW u \in Tasks, state'[u] = "BLOCKED" \/ pc'[u] = "block"
          PROVE  /\ u \in ToSet(ring')
                 /\ OwnChild(u, want[u])' /\ state'[want'[u]] # "ZOMBIE"
      <3>1. state[u] = "BLOCKED" \/ pc[u] = "block"
        BY <1>2, <1>3, <1>4, <2>1
      <3>2. u \in ToSet(ring) /\ OwnChild(u, want[u]) /\ state[want[u]] # "ZOMBIE"
        BY <3>1 DEF IInv, WaitInv
      <3>3. want[u] \in Tasks
        BY DEF IInv, TypeOK
      <3> QED
        BY <1>4, <3>2, <3>3 DEF OwnChild
    <2>2. \A u \in Tasks : pc'[u] # "die"
      BY <1>2, <1>3, <1>4
    <2> QED
      BY <2>1, <2>2 DEF WaitInv, OwnChild
  <1>12. ContextInv'
    BY <1>2, <1>4, TaskFacts DEF IInv, ContextInv
  <1> QED
    BY <1>1, <1>6, <1>7, <1>8, <1>9, <1>10, <1>11, <1>12 DEF IInv

\* waitpid's collecting keeps the invariant: nobody else needs the child.
LEMMA WaitpidReapInv ==
    ASSUME IInv, NEW t \in Ids, WaitpidReap(t)
    PROVE  IInv'
  <1> DEFINE c == want[t]
  <1>1. TypeOK'
    BY KernelTypes DEF KernelStep, WaitpidReap, Return
  <1>2. /\ "waitpid" \in Handler /\ "block" \in Handler /\ "die" \in Handler
        /\ "return" \notin Handler
        /\ current = t /\ pc[t] = "waitpid" /\ state[c] = "ZOMBIE"
    BY DEF WaitpidReap, Handler
  <1>3. /\ t \in Tasks /\ t # Main /\ t \in ToSet(ring) /\ ~intr
        /\ ~(t >= next_task_id)
        /\ state[t] \notin {"BLOCKED", "ZOMBIE"}
        /\ \A u \in Tasks : pc[u] \in Handler => u = t
    BY <1>2, InHandler
  <1>4. /\ \A u \in Tasks : pc'[u] = IF u = t THEN "return" ELSE pc[u]
        /\ UNCHANGED <<current, state, parent_id, wake_tick, next_task_id, want,
                       cr3, rsp0, sysregs, tables, intr>>
    BY <1>3 DEF WaitpidReap, IInv, TypeOK, waitVars, cpuVars
  <1>5. /\ ring' \in Seq(Tasks) /\ ToSet(ring') = ToSet(ring) \ {c}
        /\ \A i, j \in 1..Len(ring') : ring'[i] = ring'[j] => i = j
    <2>1. PICK i \in 1..Len(ring) : ring[i] = c /\ ring' = RemoveAt(ring, i)
      BY DEF WaitpidReap
    <2>2. /\ ring \in Seq(Tasks)
          /\ \A k, j \in 1..Len(ring) : ring[k] = ring[j] => k = j
      BY DEF IInv, TypeOK, RingInv
    <2>3. /\ RemoveAt(ring, i) \in Seq(Tasks)
          /\ ToSet(RemoveAt(ring, i)) = ToSet(ring) \ {ring[i]}
          /\ \A k, j \in 1..Len(RemoveAt(ring, i)) :
                RemoveAt(ring, i)[k] = RemoveAt(ring, i)[j] => k = j
      BY <2>2, RemoveRing
    <2>4. ToSet(ring') = ToSet(RemoveAt(ring, i))
      BY <2>1
    <2> QED
      BY <2>1, <2>3, <2>4
  <1>6. RingInv'
    <2>1. \A u \in ToSet(ring) : u < next_task_id
      <3>1. ring \in Seq(Tasks) /\ \A i \in 1..Len(ring) : ring[i] < next_task_id
        BY DEF IInv, TypeOK, RingInv
      <3>2. ToSet(ring) = {ring[i] : i \in 1..Len(ring)}
        BY <3>1, ToSetDef
      <3> QED
        BY <3>1, <3>2
    <2>2. \A i \in 1..Len(ring') : ring'[i] \in ToSet(ring')
      BY <1>5, ToSetDef
    <2>3. \A i \in 1..Len(ring') : ring'[i] < next_task_id
      BY <2>1, <2>2, <1>5
    <2> QED
      BY <2>3, <1>4, <1>5 DEF RingInv
  <1>7. CurrentInv'
    <2>1. c # t /\ c # Main
      BY <1>2, <1>3 DEF IInv, MainInv
    <2> QED
      BY <2>1, <1>2, <1>4, <1>5, TaskFacts DEF IInv, CurrentInv
  <1>8. MainInv' /\ UnbornInv' /\ RunningInv'
    BY <1>2, <1>3, <1>4, TaskFacts DEF IInv, MainInv, UnbornInv, RunningInv
  <1>9. ControlInv'
    <2>1. ASSUME NEW u \in Tasks
          PROVE  /\ pc'[u] = "dead" <=> state'[u] = "ZOMBIE"
                 /\ state'[u] = "BLOCKED" => pc'[u] = "asleep" /\ wake_tick'[u] = NeverTick
      BY <1>2, <1>3, <1>4 DEF IInv, ControlInv
    <2>2. ASSUME NEW u \in Tasks
          PROVE  pc'[u] \notin Handler
      BY <1>2, <1>3, <1>4
    <2>3. "fork" \in Handler
      BY DEF Handler
    <2> QED
      BY <2>1, <2>2, <2>3, <1>2, <1>3, <1>4 DEF ControlInv
  <1>10. WaitInv'
    <2>1. ASSUME NEW u \in Tasks, state'[u] = "BLOCKED" \/ pc'[u] = "block"
          PROVE  /\ u \in ToSet(ring')
                 /\ OwnChild(u, want[u])' /\ state'[want'[u]] # "ZOMBIE"
      <3>1. state[u] = "BLOCKED" /\ u # c
        BY <1>2, <1>3, <1>4, <2>1
      <3>2. u \in ToSet(ring) /\ OwnChild(u, want[u]) /\ state[want[u]] # "ZOMBIE"
        BY <3>1 DEF IInv, WaitInv
      <3>3. want[u] # c
        BY <1>2, <3>2
      <3> QED
        BY <1>4, <1>5, <3>1, <3>2, <3>3 DEF OwnChild
    <2>2. \A u \in Tasks : pc'[u] # "die"
      BY <1>2, <1>3, <1>4
    <2> QED
      BY <2>1, <2>2 DEF WaitInv, OwnChild
  <1>11. ContextInv'
    BY <1>2, <1>4, TaskFacts DEF IInv, ContextInv
  <1> QED
    BY <1>1, <1>6, <1>7, <1>8, <1>9, <1>10, <1>11 DEF IInv

\* The sweep wakes nobody: blocked tasks wait without a time limit.
LEMMA SweptSame ==
    ASSUME IInv
    PROVE  \A u \in Tasks : Swept[u] = state[u]
  <1>1. \A u \in Tasks : state[u] = "BLOCKED" => ~(wake_tick[u] <= Now)
    BY DEF IInv, ControlInv, NeverTick, Now
  <1> QED
    BY <1>1 DEF Swept

\* What yielding leaves of a state.
LEMMA YieldedShape ==
    ASSUME IInv, current \in Tasks
    PROVE  /\ \A u \in Tasks :
                Yielded[u] = IF state[u] = "RUNNING" THEN "RUNNABLE" ELSE state[u]
           /\ Yielded[Main] = "RUNNABLE"
  <1>1. \A u \in Tasks : state[u] = "RUNNING" => u = current
    BY DEF IInv, RunningInv
  <1>2. \A u \in Tasks :
            Yielded[u] = IF u = current /\ Swept[u] = "RUNNING" THEN "RUNNABLE" ELSE Swept[u]
    BY DEF Yielded
  <1>3. \A u \in Tasks :
            Yielded[u] = IF state[u] = "RUNNING" THEN "RUNNABLE" ELSE state[u]
    BY <1>1, <1>2, SweptSame
  <1> QED
    BY <1>3, TaskFacts DEF IInv, MainInv

\* The search always ends at a runnable task: kmain's, if at no other.
LEMMA SuccessorRunnable ==
    ASSUME IInv, current \in Tasks, NEW n \in Tasks, Successor(n)
    PROVE  Yielded[n] = "RUNNABLE"
  <1> DEFINE L == Len(ring)
  <1>1. /\ L \in Nat /\ \A i \in 1..L : ring[i] \in Tasks
        /\ \A i, j \in 1..L : ring[i] = ring[j] => i = j
    BY DEF IInv, TypeOK, RingInv
  <1>2. PICK p \in 1..L, k \in 1..L :
            /\ ring[p] = current /\ n = After(p, k)
            /\ \A j \in 1..(k - 1) : Yielded[After(p, j)] # "RUNNABLE"
            /\ Yielded[n] = "RUNNABLE" \/ n = current
    BY DEF Successor
  <1>3. PICK m \in 1..L : ring[m] = Main
    <2>1. Main \in ToSet(ring) /\ ring \in Seq(Tasks)
      BY TaskFacts DEF IInv, TypeOK, CurrentInv
    <2> QED
      BY <2>1, ToSetDef
  <1>4. Yielded[Main] = "RUNNABLE"
    BY YieldedShape
  <1>5. SUFFICES ASSUME Yielded[n] # "RUNNABLE"
                 PROVE  FALSE
    OBVIOUS
  <1>6. n = current /\ current # Main
    BY <1>2, <1>4, <1>5
  <1>7. k = L
    <2>1. CASE p + k <= L
      <3>1. p + k \in 1..L /\ ring[p + k] = ring[p]
        BY <1>1, <1>2, <1>6, <2>1 DEF After
      <3> QED
        BY <3>1, <1>1
    <2>2. CASE ~(p + k <= L)
      <3>1. p + k - L \in 1..L /\ ring[p + k - L] = ring[p]
        BY <1>1, <1>2, <1>6, <2>2 DEF After
      <3> QED
        BY <3>1, <1>1
    <2> QED
      BY <2>1, <2>2
  <1>8. m # p
    BY <1>2, <1>3, <1>6
  <1>9. PICK j \in 1..(k - 1) : After(p, j) = Main
    <2>1. CASE m > p
      <3>1. m - p \in 1..(k - 1) /\ p + (m - p) = m
        BY <1>1, <1>7, <2>1
      <3>2. After(p, m - p) = Main
        BY <3>1, <1>1, <1>3 DEF After
      <3> QED
        BY <3>1, <3>2
    <2>2. CASE m < p
      <3>1. m - p + L \in 1..(k - 1) /\ p + (m - p + L) - L = m /\ ~(p + (m - p + L) <= L)
        BY <1>1, <1>7, <2>2
      <3>2. After(p, m - p + L) = Main
        BY <3>1, <1>3 DEF After
      <3> QED
        BY <3>1, <3>2
    <2> QED
      BY <1>8, <2>1, <2>2
  <1> QED
    BY <1>2, <1>4, <1>9

\* The first tick keeps the invariant: kmain's task joins the ring.
LEMMA FirstTickInv ==
    ASSUME IInv, FirstTick
    PROVE  IInv'
  <1>1. /\ Main \in Tasks /\ current = NoTask /\ Main \notin ToSet(ring)
        /\ ring \in Seq(Tasks) /\ intr
        /\ \A i, j \in 1..Len(ring) : ring[i] = ring[j] => i = j
    BY TaskFacts DEF FirstTick, IInv, TypeOK, CurrentInv, RingInv
  <1>2. /\ Append(ring, Main) \in Seq(Tasks)
        /\ Len(Append(ring, Main)) = Len(ring) + 1
        /\ \A i \in 1..Len(ring) : Append(ring, Main)[i] = ring[i]
        /\ Append(ring, Main)[Len(ring) + 1] = Main
        /\ ToSet(Append(ring, Main)) = ToSet(ring) \cup {Main}
        /\ \A i, j \in 1..Len(Append(ring, Main)) :
              Append(ring, Main)[i] = Append(ring, Main)[j] => i = j
    BY <1>1, AppendRing
  <1>3. ring' = Append(ring, Main) /\ ToSet(ring') = ToSet(Append(ring, Main))
    BY DEF FirstTick
  <1>4. /\ ToSet(ring') = ToSet(ring) \cup {Main} /\ current' = Main
        /\ \A u \in Tasks : state'[u] = IF u = Main THEN "RUNNING" ELSE state[u]
        /\ UNCHANGED <<pc, parent_id, wake_tick, next_task_id, want,
                       cr3, rsp0, sysregs, tables, intr>>
    BY <1>2, <1>3, SweptSame DEF FirstTick, procVars, waitVars, cpuVars, Swept
  <1>5. \A u \in Tasks : state[u] # "RUNNING" /\ pc[u] \notin Handler
    BY <1>1, TaskFacts DEF IInv, RunningInv, ControlInv
  <1>6. TypeOK'
    <2>1. state' \in [Tasks -> TaskStates]
      <3>1. state' = [Swept EXCEPT ![Main] = "RUNNING"]
        BY DEF FirstTick
      <3>2. Swept \in [Tasks -> TaskStates]
        BY DEF Swept, TaskStates, IInv, TypeOK
      <3>3. "RUNNING" \in TaskStates
        BY DEF TaskStates
      <3> QED
        BY <3>1, <3>2, <3>3
    <2>2. ring' \in Seq(Tasks)
      BY <1>2, <1>3
    <2> QED
      <3>1. current' \in Tasks
        BY <1>4, TaskFacts
      <3>2. /\ pc' = pc /\ parent_id' = parent_id /\ exit_status' = exit_status
            /\ wake_tick' = wake_tick /\ next_task_id' = next_task_id /\ collected' = collected
            /\ want' = want /\ nohang' = nohang /\ ret' = ret /\ intr' = intr
            /\ sysregs' = sysregs /\ cr3' = cr3 /\ rsp0' = rsp0 /\ tables' = tables
        BY DEF FirstTick, procVars, waitVars, cpuVars
      <3> QED
        BY <2>1, <2>2, <3>1, <3>2 DEF IInv, TypeOK
  <1>7. RingInv'
    <2>1. Main < next_task_id /\ Len(ring) \in Nat
      BY <1>1 DEF Main, IInv, TypeOK
    <2>2. \A i \in 1..Len(ring') : ring'[i] < next_task_id
      BY <1>2, <1>3, <2>1 DEF IInv, RingInv
    <2> QED
      BY <1>2, <1>3, <1>4, <2>2 DEF RingInv
  <1>8. CurrentInv' /\ MainInv' /\ RunningInv'
    BY <1>1, <1>4, <1>5, TaskFacts DEF IInv, CurrentInv, MainInv, RunningInv
  <1>9. UnbornInv'
    BY <1>4, TaskFacts DEF IInv, UnbornInv
  <1>10. ControlInv'
    <2>1. pc[Main] # "dead"
      BY <1>1 DEF IInv, MainInv
    <2>2. state[Main] # "ZOMBIE" /\ state[Main] # "BLOCKED"
      BY DEF IInv, MainInv
    <2>3. ASSUME NEW u \in Tasks
          PROVE  /\ pc'[u] = "dead" <=> state'[u] = "ZOMBIE"
                 /\ state'[u] = "BLOCKED" => pc'[u] = "asleep" /\ wake_tick'[u] = NeverTick
                 /\ pc'[u] \notin Handler /\ pc'[u] # "fork"
      <3>1. "fork" \in Handler
        BY DEF Handler
      <3> QED
        BY <1>4, <1>5, <2>1, <2>2, <3>1 DEF IInv, ControlInv
    <2> QED
      BY <1>1, <1>4, <2>3 DEF ControlInv
  <1>11. WaitInv'
    <2>1. "block" \in Handler /\ "die" \in Handler
      BY DEF Handler
    <2>2. ASSUME NEW u \in Tasks, state'[u] = "BLOCKED" \/ pc'[u] = "block"
          PROVE  /\ u \in ToSet(ring')
                 /\ OwnChild(u, want[u])' /\ state'[want'[u]] # "ZOMBIE"
      <3>1. state[u] = "BLOCKED"
        BY <1>4, <1>5, <2>1, <2>2
      <3>2. u \in ToSet(ring) /\ OwnChild(u, want[u]) /\ state[want[u]] # "ZOMBIE"
        BY <3>1 DEF IInv, WaitInv
      <3>3. want[u] \in Tasks
        BY DEF IInv, TypeOK
      <3> QED
        BY <1>4, <3>2, <3>3 DEF OwnChild
    <2> QED
      BY <1>4, <1>5, <2>1, <2>2 DEF WaitInv, OwnChild
  <1>12. ContextInv'
    BY <1>4, TaskFacts DEF IInv, ContextInv
  <1> QED
    BY <1>6, <1>7, <1>8, <1>9, <1>10, <1>11, <1>12 DEF IInv

\* A context switch keeps the invariant.
LEMMA SwitchTickInv ==
    ASSUME IInv, SwitchTick
    PROVE  IInv'
  <1>1. current \in Tasks /\ ring \in Seq(Tasks) /\ intr
    BY DEF SwitchTick, IInv, TypeOK
  <1>2. PICK n \in ToSet(ring) :
            /\ Successor(n) /\ current' = n
            /\ state' = [Yielded EXCEPT ![n] = "RUNNING"]
            /\ rsp0' = IF n # Main THEN n ELSE rsp0
            /\ cr3' = IF n \in tables THEN n ELSE cr3
    BY DEF SwitchTick
  <1>3. n \in Tasks /\ n < next_task_id
    <2>1. PICK i \in 1..Len(ring) : n = ring[i]
      BY <1>1, ToSetDef
    <2> QED
      BY <1>1, <2>1 DEF IInv, RingInv
  <1>4. UNCHANGED <<ring, pc, parent_id, wake_tick, next_task_id, want, sysregs,
                    tables, intr>>
    BY DEF SwitchTick, procVars, waitVars, cpuVars
  <1>5. Yielded[n] = "RUNNABLE" /\ state[n] \in {"RUNNABLE", "RUNNING"}
    <2>1. Yielded[n] = "RUNNABLE"
      BY <1>1, <1>2, <1>3, SuccessorRunnable
    <2> QED
      BY <1>1, <1>3, <2>1, YieldedShape
  <1>6. \A u \in Tasks : state'[u] = IF u = n THEN "RUNNING"
                                     ELSE IF state[u] = "RUNNING" THEN "RUNNABLE"
                                     ELSE state[u]
    <2>1. Yielded = [u \in Tasks |-> Yielded[u]]
      BY DEF Yielded
    <2>2. \A u \in Tasks : state'[u] = IF u = n THEN "RUNNING" ELSE Yielded[u]
      BY <1>2, <2>1
    <2> QED
      BY <1>1, <2>2, YieldedShape
  <1>7. \A u \in Tasks : pc[u] \notin Handler
    BY <1>1 DEF IInv, ControlInv
  <1>8. TypeOK'
    <2>1. state' \in [Tasks -> TaskStates]
      <3>1. Swept \in [Tasks -> TaskStates]
        BY DEF Swept, TaskStates, IInv, TypeOK
      <3>2. Yielded \in [Tasks -> TaskStates] /\ "RUNNING" \in TaskStates
        BY <3>1 DEF Yielded, TaskStates
      <3> QED
        BY <1>2, <3>2
    <2>2. cr3' \in Tasks /\ rsp0' \in Tasks
      BY <1>2, <1>3 DEF IInv, TypeOK
    <2> QED
      BY <1>2, <1>3, <1>4, <2>1, <2>2 DEF SwitchTick, IInv, TypeOK, procVars, waitVars
  <1>9. RingInv'
    BY <1>4 DEF IInv, RingInv
  <1>10. CurrentInv' /\ MainInv'
    BY <1>1, <1>2, <1>3, <1>4, <1>6, TaskFacts DEF IInv, CurrentInv, MainInv
  <1>11. UnbornInv'
    <2>1. \A u \in Ids : u >= next_task_id => u # n
      BY <1>3, TaskFacts DEF IInv, TypeOK
    <2> QED
      BY <1>4, <1>6, <2>1, TaskFacts DEF IInv, UnbornInv
  <1>12. RunningInv'
    BY <1>2, <1>6 DEF IInv, RunningInv
  <1>13. ControlInv'
    <2>1. ASSUME NEW u \in Tasks
          PROVE  /\ pc'[u] = "dead" <=> state'[u] = "ZOMBIE"
                 /\ state'[u] = "BLOCKED" => pc'[u] = "asleep" /\ wake_tick'[u] = NeverTick
                 /\ pc'[u] \notin Handler /\ pc'[u] # "fork"
      <3>1. "fork" \in Handler
        BY DEF Handler
      <3> QED
        BY <1>4, <1>5, <1>6, <1>7, <3>1 DEF IInv, ControlInv
    <2> QED
      BY <1>1, <1>4, <2>1 DEF ControlInv
  <1>14. WaitInv'
    <2>1. "block" \in Handler /\ "die" \in Handler
      BY DEF Handler
    <2>2. ASSUME NEW u \in Tasks, state'[u] = "BLOCKED" \/ pc'[u] = "block"
          PROVE  /\ u \in ToSet(ring')
                 /\ OwnChild(u, want[u])' /\ state'[want'[u]] # "ZOMBIE"
      <3>1. state[u] = "BLOCKED"
        BY <1>4, <1>6, <1>7, <2>1, <2>2
      <3>2. u \in ToSet(ring) /\ OwnChild(u, want[u]) /\ state[want[u]] # "ZOMBIE"
        BY <3>1 DEF IInv, WaitInv
      <3>3. want[u] \in Tasks
        BY DEF IInv, TypeOK
      <3> QED
        BY <1>4, <1>6, <3>2, <3>3 DEF OwnChild
    <2> QED
      BY <1>4, <1>7, <2>1, <2>2 DEF WaitInv, OwnChild
  <1>15. ContextInv'
    <2>1. ASSUME n \in Ids
          PROVE  n \in tables
      <3>1. pc[n] # "dead"
        BY <1>3, <1>5 DEF IInv, ControlInv
      <3> QED
        BY <1>3, <2>1, <3>1 DEF IInv, ContextInv
    <2> QED
      BY <1>2, <1>4, <2>1, TaskFacts DEF IInv, ContextInv
  <1> QED
    BY <1>8, <1>9, <1>10, <1>11, <1>12, <1>13, <1>14, <1>15 DEF IInv

\* Every step keeps the invariant.
LEMMA StepInv == IInv /\ [Next]_vars => IInv'
  <1> SUFFICES ASSUME IInv, [Next]_vars PROVE IInv'
    OBVIOUS
  <1>1. CASE Tick
    BY <1>1, FirstTickInv, SwitchTickInv DEF Tick
  <1>2. ASSUME NEW t \in Ids, Call(t) \/ RetryWaitpid(t) \/ KernelStep(t) \/ ReadDone(t)
        PROVE  IInv'
    BY <1>2, ControlActions, ForkInv, ExitNotifyInv, ExitDieInv, WaitpidReapInv,
       WaitpidBlockInv DEF KernelStep
  <1>3. CASE UNCHANGED vars
    BY <1>3 DEF IInv, TypeOK, RingInv, CurrentInv, MainInv, UnbornInv, RunningInv,
       ControlInv, WaitInv, ContextInv, OwnChild, vars
  <1> QED
    BY <1>1, <1>2, <1>3 DEF Next

\* The inductive invariant, of every behaviour.
THEOREM Inductive == Spec => []IInv
  BY InitInv, StepInv, PTL DEF Spec

-----------------------------------------------------------------------------
(* What follows from it.                                                    *)

\* Type correctness: every variable keeps its type, whatever the tasks do.
THEOREM TypeCorrect == Spec => []TypeOK
  <1>1. IInv => TypeOK
    BY DEF IInv
  <1> QED
    BY <1>1, Inductive, PTL

\* At most one task is RUNNING, the current one, and it is when it executes.
THEOREM RunnerUnique == Spec => []SoleRunner
  <1>1. IInv => SoleRunner
    <2> SUFFICES ASSUME IInv, current # NoTask
                 PROVE  /\ \A t \in ToSet(ring) : state[t] = "RUNNING" => t = current
                        /\ pc[current] \notin {"asleep", "dead"} => state[current] = "RUNNING"
      BY DEF SoleRunner
    <2>1. current \in Tasks /\ ToSet(ring) \subseteq Tasks
      BY ToSetDef DEF IInv, TypeOK
    <2>2. state[current] \in {"RUNNABLE", "RUNNING", "BLOCKED", "ZOMBIE"}
      BY <2>1 DEF IInv, TypeOK, TaskStates
    <2> QED
      BY <2>1, <2>2 DEF IInv, RunningInv, ControlInv
  <1> QED
    BY <1>1, Inductive, PTL

\* A task blocked in waitpid has a living child to wait for.
THEOREM WakeupKept == Spec => []NoLostWakeup
  <1>1. IInv => NoLostWakeup
    <2>1. IInv => ToSet(ring) \subseteq Tasks
      BY ToSetDef DEF IInv, TypeOK
    <2> QED
      BY <2>1 DEF IInv, WaitInv, NoLostWakeup
  <1> QED
    BY <1>1, Inductive, PTL

\* A handler always finds its own task's frame in current_syscall_regs.
THEOREM FrameOwned == Spec => []OwnFrame
  <1>1. IInv => OwnFrame
    BY DEF IInv, TypeOK, ControlInv, OwnFrame
  <1> QED
    BY <1>1, Inductive, PTL

\* User code and handlers run on their own page table and kernel stack.
THEOREM ContextOwned == Spec => []OwnContext
  <1>1. IInv => OwnContext
    <2> SUFFICES ASSUME IInv, current # NoTask,
                        pc[current] \in Handler \cup {"user", "return"}
                 PROVE  cr3 = current /\ rsp0 = current /\ current \in tables
      BY DEF OwnContext
    <2>1. pc[current] # "idle" /\ pc[current] # "dead" /\ current \in Tasks
      BY DEF IInv, TypeOK, Handler
    <2>2. current \in Ids
      BY <2>1, TaskFacts DEF IInv, MainInv
    <2> QED
      BY <2>1, <2>2, CurrentBorn DEF IInv, ContextInv
  <1> QED
    BY <1>1, Inductive, PTL

\* A zombie stays one and is never chosen to run again.
THEOREM ZombieIsFinal == Spec => ZombieFinal
  <1> DEFINE A == \A t \in ToSet(ring) :
                    state[t] = "ZOMBIE" /\ t \in ToSet(ring') =>
                      state'[t] = "ZOMBIE" /\ (current # t => current' # t)
  <1>1. IInv /\ [Next]_vars => [A]_vars
    <2> SUFFICES ASSUME IInv, Next PROVE A
      OBVIOUS
    <2> SUFFICES ASSUME NEW z \in ToSet(ring), state[z] = "ZOMBIE"
                 PROVE  state'[z] = "ZOMBIE" /\ (current # z => current' # z)
      OBVIOUS
    <2>1. /\ z \in Tasks /\ z # Main /\ pc[z] = "dead"
          /\ state \in [Tasks -> TaskStates] /\ ring \in Seq(Tasks)
      <3>1. z \in Tasks
        BY ToSetDef DEF IInv, TypeOK
      <3> QED
        BY <3>1 DEF IInv, TypeOK, MainInv, ControlInv
    <2>2. CASE FirstTick
      BY <2>1, <2>2, SweptSame DEF FirstTick, Swept
    <2>3. CASE SwitchTick
      <3>1. PICK n \in ToSet(ring) :
                Successor(n) /\ current' = n /\ state' = [Yielded EXCEPT ![n] = "RUNNING"]
        BY <2>3 DEF SwitchTick
      <3>2. current \in Tasks /\ n \in Tasks
        BY <2>1, <2>3, ToSetDef DEF SwitchTick, IInv, TypeOK
      <3>3. Yielded[n] = "RUNNABLE" /\ Yielded[z] = "ZOMBIE"
        BY <2>1, <3>1, <3>2, SuccessorRunnable, YieldedShape
      <3>4. z # n /\ Yielded = [u \in Tasks |-> Yielded[u]]
        BY <3>3 DEF Yielded
      <3> QED
        BY <2>1, <3>1, <3>3, <3>4
    <2>4. ASSUME NEW t \in Ids, Call(t) \/ RetryWaitpid(t) \/ KernelStep(t) \/ ReadDone(t)
          PROVE  state'[z] = "ZOMBIE" /\ current' = current
      <3>1. CASE Fork(t)
        <4>1. z # next_task_id
          <5>1. next_task_id \in Int /\ \A i \in 1..Len(ring) : ring[i] < next_task_id
            BY DEF IInv, TypeOK, RingInv
          <5> QED
            BY <2>1, <5>1, ToSetDef
        <4> QED
          BY <2>1, <3>1, <4>1 DEF Fork
      <3>2. CASE ExitNotify(t)
        BY <2>1, <3>2 DEF ExitNotify, waitVars, cpuVars
      <3>3. CASE ExitDie(t)
        BY <2>1, <3>3 DEF ExitDie, waitVars, cpuVars
      <3>4. CASE WaitpidBlock(t)
        BY <2>1, <3>4 DEF WaitpidBlock, waitVars, cpuVars
      <3>5. CASE Call(t) \/ RetryWaitpid(t) \/ ReadDone(t)
        BY <2>1, <3>5 DEF Call, CallFork, CallExit, CallRead, Enter, CallWaitpid,
           RetryWaitpid, ReadDone
      <3> QED
        BY <2>1, <2>4, <3>1, <3>2, <3>3, <3>4, <3>5 DEF KernelStep, WaitpidNoChild,
           WaitpidReap, WaitpidNoHang, WaitpidAlive, WaitpidWoken, ReadWait, Return
    <2> QED
      BY <2>2, <2>3, <2>4 DEF Next, Tick
  <1>2. Spec => [][A]_vars
    BY <1>1, Inductive, PTL DEF Spec
  <1> QED
    BY <1>2 DEF ZombieFinal

\* What waitpid frees is in use by no processor register.
THEOREM FreedIsOffCpu == Spec => FreedOffCpu
  <1> DEFINE A == \A t \in ToSet(ring) :
                    t \notin ToSet(ring') => t \notin {current, current', cr3, rsp0}
  <1>1. IInv /\ [Next]_vars => [A]_vars
    <2> SUFFICES ASSUME IInv, Next, NEW z \in ToSet(ring), z \notin ToSet(ring')
                 PROVE  z \notin {current, current', cr3, rsp0}
      OBVIOUS
    <2>0. ring \in Seq(Tasks)
      BY DEF IInv, TypeOK
    <2>1. CASE Tick
      <3>1. ASSUME FirstTick PROVE FALSE
        <4>1. ToSet(ring') = ToSet(ring) \cup {Main}
          <5>1. ring' = Append(ring, Main) /\ Main \in Tasks /\ Main \notin ToSet(ring)
            BY <3>1, TaskFacts DEF FirstTick, IInv, CurrentInv
          <5>2. \A i, j \in 1..Len(ring) : ring[i] = ring[j] => i = j
            BY DEF IInv, RingInv
          <5>3. ToSet(Append(ring, Main)) = ToSet(ring) \cup {Main}
            BY <2>0, <5>1, <5>2, AppendRing
          <5> QED
            BY <5>1, <5>3
        <4> QED
          BY <4>1
      <3>2. ASSUME SwitchTick PROVE FALSE
        BY <3>2 DEF SwitchTick
      <3> QED
        BY <2>1, <3>1, <3>2 DEF Tick
    <2>2. ASSUME NEW t \in Ids, WaitpidReap(t)
          PROVE  z \notin {current, current', cr3, rsp0}
      <3>1. /\ current = t /\ current' = t /\ pc[t] = "waitpid" /\ t \in Tasks
            /\ cr3 = t /\ rsp0 = t
        BY <2>2, TaskFacts DEF WaitpidReap, IInv, ContextInv
      <3>2. PICK i \in 1..Len(ring) :
                state[ring[i]] = "ZOMBIE" /\ ring' = RemoveAt(ring, i)
        BY <2>2 DEF WaitpidReap
      <3>3. ToSet(RemoveAt(ring, i)) = ToSet(ring) \ {ring[i]}
        <4>1. \A k, j \in 1..Len(ring) : ring[k] = ring[j] => k = j
          BY DEF IInv, RingInv
        <4> QED
          BY <2>0, <4>1, RemoveRing
      <3>4. z = ring[i]
        BY <3>2, <3>3
      <3>5. z # t
        BY <3>1, <3>2, <3>4 DEF IInv, ControlInv
      <3> QED
        BY <3>1, <3>5
    <2>3. ASSUME NEW t \in Ids, Fork(t)
          PROVE  FALSE
      <3>1. PICK i \in 1..Len(ring) : z = ring[i]
        BY <2>0, ToSetDef
      <3>2. ring' = Append(ring, next_task_id) /\ next_task_id \in Int /\ ring \in Seq(Int)
        BY <2>3, TaskFacts DEF Fork, IInv, TypeOK
      <3>3. ring' \in Seq(Int) /\ i \in 1..Len(ring') /\ ring'[i] = z
        BY <3>1, <3>2
      <3> QED
        BY <3>3, ToSetDef
    <2>4. ASSUME NEW t \in Ids, Call(t) \/ RetryWaitpid(t) \/ KernelStep(t) \/ ReadDone(t),
                 ~Fork(t), ~WaitpidReap(t)
          PROVE  ring' = ring
      BY <2>4 DEF KernelStep, Call, CallFork, CallExit, CallRead, Enter, CallWaitpid,
         RetryWaitpid, ReadDone, ExitNotify, ExitDie, WaitpidBlock, WaitpidNoChild,
         WaitpidNoHang, WaitpidAlive, WaitpidWoken, ReadWait, Return
    <2> QED
      BY <2>1, <2>2, <2>3, <2>4 DEF Next
  <1>2. Spec => [][A]_vars
    BY <1>1, Inductive, PTL DEF Spec
  <1> QED
    BY <1>2 DEF FreedOffCpu

-----------------------------------------------------------------------------
(***************************************************************************)
(* Sched implements ProcLife, for every number of tasks and every set of   *)
(* statuses: fork is Spawn, the second half of exit is End, waitpid's      *)
(* reaping is Collect, and nothing else is seen by programs.               *)
(***************************************************************************)

\* What the refinement needs beside IInv: a process on its way out has set its
\* status.
StatusInv == \A t \in Ids : pc[t] = "die" => exit_status[t] \in Status

LifeInv == IInv /\ StatusInv

-----------------------------------------------------------------------------
LEMMA IdsFacts ==
    /\ Ids \subseteq Tasks /\ Ids \subseteq Int /\ Main \notin Ids /\ Main \in Tasks
    /\ PL!Ids = Ids /\ NoTask \notin Tasks
  BY SchedAssumption DEF Ids, Tasks, Main, PL!Ids, NoTask

\* What a process's life is, by cases.
LEMMA LifeCases ==
    ASSUME NEW t \in Ids, next_task_id \in Int
    PROVE  /\ Life(t) = "unborn" <=> t >= next_task_id
           /\ Life(t) = "gone" <=> t < next_task_id /\ t \notin ToSet(ring)
           /\ Life(t) = "zombie" <=>
                t < next_task_id /\ t \in ToSet(ring) /\ state[t] = "ZOMBIE"
           /\ Life(t) = "alive" <=>
                t < next_task_id /\ t \in ToSet(ring) /\ state[t] # "ZOMBIE"
           /\ Life(t) \in {"unborn", "gone", "zombie", "alive"}
  <1>0. t \in Int
    BY IdsFacts
  <1>1. CASE t >= next_task_id
    <2>1. Life(t) = "unborn"
      BY <1>0, <1>1 DEF Life
    <2> QED BY <1>0, <1>1, <2>1
  <1>2. CASE t < next_task_id /\ t \notin ToSet(ring)
    <2>1. Life(t) = "gone"
      BY <1>0, <1>2 DEF Life
    <2> QED BY <1>0, <1>2, <2>1
  <1>3. CASE t < next_task_id /\ t \in ToSet(ring) /\ state[t] = "ZOMBIE"
    <2>1. Life(t) = "zombie"
      BY <1>0, <1>3 DEF Life
    <2> QED BY <1>0, <1>3, <2>1
  <1>4. CASE t < next_task_id /\ t \in ToSet(ring) /\ state[t] # "ZOMBIE"
    <2>1. Life(t) = "alive"
      BY <1>0, <1>4 DEF Life
    <2> QED BY <1>0, <1>4, <2>1
  <1> QED
    BY <1>0, <1>1, <1>2, <1>3, <1>4

\* A life is a function of three things.
LEMMA LifeSame ==
    ASSUME NEW t \in Ids, next_task_id \in Int, next_task_id' \in Int,
           t >= next_task_id' <=> t >= next_task_id,
           t \in ToSet(ring') <=> t \in ToSet(ring),
           state'[t] = "ZOMBIE" <=> state[t] = "ZOMBIE"
    PROVE  Life(t)' = Life(t)
  <1>1. t \in Int
    BY IdsFacts
  <1>2. t < next_task_id' <=> t < next_task_id
    BY <1>1
  <1> QED
    BY <1>2 DEF Life

\* A step that only sets the statuses of living processes is a stutter.
LEMMA Stutters ==
    ASSUME TypeOK, next_task_id' = next_task_id, parent_id' = parent_id, collected' = collected,
           \A t \in Ids : t \in ToSet(ring') <=> t \in ToSet(ring),
           \A t \in Ids : state'[t] = "ZOMBIE" <=> state[t] = "ZOMBIE",
           \A t \in Ids : exit_status'[t] = exit_status[t] \/ Life(t) \in {"alive", "unborn"}
    PROVE  UNCHANGED PL!lifeVars
  <1>1. next_task_id \in Int
    BY SchedAssumption DEF TypeOK
  <1>2. \A t \in Ids : Life(t)' = Life(t)
    BY <1>1, LifeSame
  <1>3. [t \in Ids |-> Life(t)]' = [t \in Ids |-> Life(t)]
    BY <1>2
  <1>4. [t \in Ids |-> parent_id[t]]' = [t \in Ids |-> parent_id[t]]
    OBVIOUS
  <1>5. [t \in Ids |-> IF Life(t) \in {"zombie", "gone"} THEN exit_status[t] ELSE NoStatus]'
          = [t \in Ids |-> IF Life(t) \in {"zombie", "gone"} THEN exit_status[t] ELSE NoStatus]
    <2>1. \A t \in Ids :
             (IF Life(t)' \in {"zombie", "gone"} THEN exit_status'[t] ELSE NoStatus)
               = IF Life(t) \in {"zombie", "gone"} THEN exit_status[t] ELSE NoStatus
      BY <1>2
    <2> QED BY <2>1
  <1>6. [t \in Ids |-> collected[t]]' = [t \in Ids |-> collected[t]]
    OBVIOUS
  <1> QED
    BY <1>3, <1>4, <1>5, <1>6 DEF PL!lifeVars

-----------------------------------------------------------------------------
(* The invariant of the refinement.                                         *)

LEMMA LifeInitInv == Init => LifeInv
  <1>1. Init => StatusInv
    BY TaskFacts DEF Init, StatusInv
  <1> QED
    BY <1>1, InitInv DEF LifeInv

LEMMA LifeStepInv == LifeInv /\ [Next]_vars => LifeInv'
  <1> SUFFICES ASSUME LifeInv, [Next]_vars PROVE LifeInv'
    OBVIOUS
  <1>1. IInv' /\ IInv /\ StatusInv
    BY StepInv DEF LifeInv
  <1>2. /\ pc \in [Tasks -> Pcs] /\ exit_status \in [Tasks -> Status \cup {NoStatus}]
    BY <1>1 DEF IInv, TypeOK
  <1>3. SUFFICES ASSUME NEW u \in Ids, pc'[u] = "die"
                 PROVE  exit_status'[u] \in Status
    BY <1>1 DEF LifeInv, StatusInv
  <1>4. u \in Tasks
    BY TaskFacts
  <1>5. ASSUME pc[u] = "die", exit_status' = exit_status
        PROVE  exit_status'[u] \in Status
    BY <1>1, <1>5 DEF StatusInv
  <1>6. CASE Tick
    BY <1>3, <1>5, <1>6 DEF Tick, FirstTick, SwitchTick, procVars
  <1>7. ASSUME NEW t \in Ids, ExitNotify(t)
        PROVE  exit_status'[u] \in Status
    <2>1. PICK s \in Status : exit_status' = [exit_status EXCEPT ![t] = s]
      BY <1>7 DEF ExitNotify
    <2>2. pc' = [pc EXCEPT ![t] = "die"]
      BY <1>7 DEF ExitNotify
    <2>3. CASE u = t
      BY <1>2, <1>4, <2>1, <2>3
    <2>4. CASE u # t
      BY <1>1, <1>2, <1>3, <1>4, <2>1, <2>2, <2>4 DEF StatusInv
    <2> QED
      BY <2>3, <2>4
  <1>8. ASSUME NEW t \in Ids, Fork(t)
        PROVE  exit_status'[u] \in Status
    <2>1. pc' = [pc EXCEPT ![next_task_id] = "user", ![t] = "return"]
      BY <1>8 DEF Fork
    <2>2. exit_status' = exit_status
      BY <1>8 DEF Fork
    <2> QED
      BY <1>2, <1>3, <1>4, <1>5, <2>1, <2>2
  <1>9. ASSUME NEW t \in Ids, Call(t) \/ RetryWaitpid(t) \/ ReadDone(t) \/ Return(t)
        PROVE  exit_status'[u] \in Status
    <2>1. /\ exit_status' = exit_status
          /\ \E q \in Pcs \ {"die"} : pc' = [pc EXCEPT ![t] = q]
      BY <1>9 DEF Call, CallFork, CallExit, CallRead, Enter, CallWaitpid, RetryWaitpid,
         ReadDone, Return, procVars, Pcs, Handler
    <2> QED
      BY <1>2, <1>3, <1>4, <1>5, <2>1
  <1>10. ASSUME NEW t \in Ids, KernelStep(t), ~Fork(t), ~ExitNotify(t), ~Return(t)
         PROVE  exit_status'[u] \in Status
    <2>1. /\ exit_status' = exit_status
          /\ \E q \in Pcs \ {"die"} : pc' = [pc EXCEPT ![t] = q]
      BY <1>10 DEF KernelStep, ExitDie, WaitpidNoChild, WaitpidReap, WaitpidNoHang,
         WaitpidAlive, WaitpidBlock, WaitpidWoken, ReadWait, procVars, Pcs, Handler
    <2> QED
      BY <1>2, <1>3, <1>4, <1>5, <2>1
  <1>11. CASE UNCHANGED vars
    BY <1>3, <1>5, <1>11 DEF vars, procVars
  <1> QED
    BY <1>6, <1>7, <1>8, <1>9, <1>10, <1>11 DEF Next

-----------------------------------------------------------------------------
(* Every step of Sched is a step of ProcLife or a stutter.                  *)

LEMMA RingBorn ==
    ASSUME IInv
    PROVE  /\ \A u \in ToSet(ring) : u < next_task_id
           /\ next_task_id \in Int
  <1>1. ring \in Seq(Tasks) /\ next_task_id \in Int
    BY DEF IInv, TypeOK
  <1> QED
    BY <1>1, ToSetDef DEF IInv, RingInv

\* The caller of a handler is alive.
LEMMA CallerAlive ==
    ASSUME IInv, NEW t \in Ids, current = t, pc[t] \in Handler
    PROVE  Life(t) = "alive"
  <1>1. t \in ToSet(ring) /\ t < next_task_id /\ state[t] # "ZOMBIE"
    BY InHandler
  <1> QED
    BY <1>1, RingBorn, LifeCases

LEMMA InitMaps == Init => PL!LifeInit
  <1> SUFFICES ASSUME Init PROVE PL!LifeInit
    OBVIOUS
  <1>1. ToSet(ring) = {1} /\ next_task_id = 2
    BY DEF Init, ToSet
  <1>2. \A t \in Ids : t \in Int /\ t \in Tasks
    BY IdsFacts
  <1>3. ASSUME NEW t \in Ids
        PROVE  Life(t) = IF t = 1 THEN "alive" ELSE "unborn"
    <2>1. t >= 1
      BY DEF Ids
    <2>2. state[t] # "ZOMBIE"
      BY <1>2 DEF Init
    <2> QED
      BY <1>1, <1>2, <2>1, <2>2 DEF Life
  <1>4. [t \in Ids |-> Life(t)] = [t \in Ids |-> IF t = 1 THEN "alive" ELSE "unborn"]
    BY <1>3
  <1>5. [t \in Ids |-> parent_id[t]] = [t \in Ids |-> 0]
    BY <1>2 DEF Init
  <1>6. [t \in Ids |-> IF Life(t) \in {"zombie", "gone"} THEN exit_status[t] ELSE NoStatus]
          = [t \in Ids |-> NoStatus]
    BY <1>3
  <1>7. [t \in Ids |-> collected[t]] = [t \in Ids |-> PL!Nothing]
    BY <1>2 DEF Init, PL!Nothing
  <1> QED
    BY <1>4, <1>5, <1>6, <1>7, IdsFacts DEF PL!LifeInit

\* fork creates a process that was unborn, as a child of its caller.
LEMMA ForkSpawns ==
    ASSUME IInv, NEW t \in Ids, Fork(t)
    PROVE  \E c \in Ids : PL!Spawn(t, c)
  <1>0. PICK c \in Ids : c = next_task_id
    <2>1. next_task_id <= MaxId /\ next_task_id \in 1..(MaxId + 1)
      BY DEF Fork, IInv, TypeOK
    <2> QED
      BY <2>1, SchedAssumption DEF Ids
  <1>1. /\ c \in Int /\ c \in Ids /\ t # c /\ Life(t) = "alive" /\ Life(c) = "unborn"
    <2>1. current = t /\ pc[t] = "fork" /\ "fork" \in Handler /\ c <= MaxId
      BY <1>0 DEF Fork, Handler
    <2>2. c \in Int /\ c \in Ids
      BY <1>0, IdsFacts
    <2>3. t # c
      BY <1>0, <2>1, <2>2, InHandler
    <2>4. Life(t) = "alive"
      BY <2>1, CallerAlive
    <2>5. Life(c) = "unborn"
      BY <1>0, <2>2 DEF Life
    <2> QED
      BY <2>2, <2>3, <2>4, <2>5
  <1>2. /\ next_task_id' = c + 1 /\ parent_id' = [parent_id EXCEPT ![c] = t]
        /\ state' = [state EXCEPT ![c] = "RUNNABLE"]
        /\ exit_status' = exit_status /\ collected' = collected
    BY <1>0 DEF Fork
  <1>3. /\ state \in [Tasks -> TaskStates] /\ parent_id \in [Tasks -> Tasks]
        /\ Ids \subseteq Tasks
    BY TaskFacts DEF IInv, TypeOK
  <1>4. ToSet(ring') = ToSet(ring) \cup {c}
    <2>1. /\ ring \in Seq(Tasks) /\ c \in Tasks
          /\ \A i, j \in 1..Len(ring) : ring[i] = ring[j] => i = j
      BY <1>1, <1>3 DEF IInv, TypeOK, RingInv
    <2>2. c \notin ToSet(ring)
      BY <1>0, <1>1, RingBorn
    <2>3. ring' = Append(ring, c)
      BY <1>0 DEF Fork
    <2>4. ToSet(Append(ring, c)) = ToSet(ring) \cup {c}
      BY <2>1, <2>2, AppendRing
    <2> QED
      BY <2>3, <2>4
  <1>5. ASSUME NEW u \in Ids
        PROVE  Life(u)' = IF u = c THEN "alive" ELSE Life(u)
    <2>1. u \in Int /\ u \in Tasks
      BY IdsFacts
    <2>2. CASE u = c
      <3>1. state'[u] = "RUNNABLE" /\ u \in ToSet(ring') /\ ~(u >= next_task_id')
        BY <1>1, <1>2, <1>3, <1>4, <2>1, <2>2
      <3> QED
        BY <2>2, <3>1 DEF Life
    <2>3. CASE u # c
      <3>1. u >= next_task_id' <=> u >= next_task_id
        BY <1>0, <1>1, <1>2, <2>1, <2>3
      <3>2. state'[u] = state[u] /\ (u \in ToSet(ring') <=> u \in ToSet(ring))
        BY <1>2, <1>3, <1>4, <2>1, <2>3
      <3>3. next_task_id' \in Int
        BY <1>1, <1>2
      <3> QED
        BY <1>0, <1>1, <2>3, <3>1, <3>2, <3>3, LifeSame
    <2> QED
      BY <2>2, <2>3
  <1>6. [u \in Ids |-> Life(u)]' = [[u \in Ids |-> Life(u)] EXCEPT ![c] = "alive"]
    BY <1>5
  <1>7. [u \in Ids |-> parent_id[u]]' = [[u \in Ids |-> parent_id[u]] EXCEPT ![c] = t]
    BY <1>1, <1>2, <1>3
  <1>8. [u \in Ids |-> IF Life(u) \in {"zombie", "gone"} THEN exit_status[u] ELSE NoStatus]'
          = [u \in Ids |-> IF Life(u) \in {"zombie", "gone"} THEN exit_status[u] ELSE NoStatus]
    <2>1. \A u \in Ids :
             (IF Life(u)' \in {"zombie", "gone"} THEN exit_status'[u] ELSE NoStatus)
               = IF Life(u) \in {"zombie", "gone"} THEN exit_status[u] ELSE NoStatus
      BY <1>1, <1>2, <1>5
    <2> QED
      BY <2>1
  <1>9. [u \in Ids |-> collected[u]]' = [u \in Ids |-> collected[u]]
    BY <1>2
  <1>10. [u \in Ids |-> Life(u)][t] = "alive" /\ [u \in Ids |-> Life(u)][c] = "unborn"
    BY <1>1
  <1> QED
    BY <1>1, <1>6, <1>7, <1>8, <1>9, <1>10 DEF PL!Spawn

\* The second half of exit ends a living process with the status it set.
LEMMA ExitEnds ==
    ASSUME LifeInv, NEW t \in Ids, ExitDie(t)
    PROVE  PL!End(t)
  <1>1. /\ IInv /\ current = t /\ pc[t] = "die" /\ "die" \in Handler
        /\ exit_status[t] \in Status
    BY DEF LifeInv, StatusInv, ExitDie, Handler
  <1>2. /\ state' = [state EXCEPT ![t] = "ZOMBIE"]
        /\ UNCHANGED <<ring, next_task_id, parent_id, exit_status, collected>>
    BY DEF ExitDie, procVars
  <1>3. state \in [Tasks -> TaskStates] /\ next_task_id \in Int
    BY <1>1 DEF IInv, TypeOK
  <1>4. Life(t) = "alive" /\ t \in ToSet(ring) /\ t < next_task_id
    BY <1>1, CallerAlive, InHandler
  <1>5. ASSUME NEW u \in Ids
        PROVE  Life(u)' = IF u = t THEN "zombie" ELSE Life(u)
    <2>1. u \in Int /\ u \in Tasks
      BY IdsFacts
    <2>2. CASE u = t
      <3>1. state'[u] = "ZOMBIE" /\ ~(u >= next_task_id)
        BY <1>2, <1>3, <1>4, <2>1, <2>2
      <3> QED
        BY <1>2, <1>4, <2>2, <3>1 DEF Life
    <2>3. CASE u # t
      <3>1. state'[u] = state[u]
        BY <1>2, <1>3, <2>1, <2>3
      <3> QED
        BY <1>2, <2>3, <3>1 DEF Life
    <2> QED
      BY <2>2, <2>3
  <1>6. [u \in Ids |-> Life(u)]' = [[u \in Ids |-> Life(u)] EXCEPT ![t] = "zombie"]
    BY <1>5
  <1>7. [u \in Ids |-> IF Life(u) \in {"zombie", "gone"} THEN exit_status[u] ELSE NoStatus]'
          = [[u \in Ids |-> IF Life(u) \in {"zombie", "gone"}
                            THEN exit_status[u] ELSE NoStatus]
               EXCEPT ![t] = exit_status[t]]
    <2>1. \A u \in Ids :
             (IF Life(u)' \in {"zombie", "gone"} THEN exit_status'[u] ELSE NoStatus)
               = IF u = t THEN exit_status[t]
                 ELSE IF Life(u) \in {"zombie", "gone"} THEN exit_status[u] ELSE NoStatus
      BY <1>2, <1>5
    <2> QED
      BY <2>1
  <1>8. /\ [u \in Ids |-> parent_id[u]]' = [u \in Ids |-> parent_id[u]]
        /\ [u \in Ids |-> collected[u]]' = [u \in Ids |-> collected[u]]
    BY <1>2
  <1>9. [u \in Ids |-> Life(u)][t] = "alive"
    BY <1>4
  <1> QED
    BY <1>1, <1>6, <1>7, <1>8, <1>9 DEF PL!End

\* waitpid's reaping collects an ended child of the caller, and the status the
\* caller learns is the one the child ended with.
LEMMA ReapCollects ==
    ASSUME IInv, NEW t \in Ids, WaitpidReap(t)
    PROVE  \E c \in Ids : PL!Collect(t, c)
  <1>0. PICK c \in Ids : c = want[t]
    <2>1. t \in Tasks /\ want[t] \in Tasks
      BY TaskFacts DEF IInv, TypeOK
    <2>2. want[t] # Main
      BY DEF WaitpidReap, IInv, MainInv
    <2> QED
      BY <2>1, <2>2, TaskFacts
  <1>1. /\ current = t /\ pc[t] = "waitpid" /\ "waitpid" \in Handler
        /\ c \in ToSet(ring) /\ parent_id[c] = t /\ state[c] = "ZOMBIE"
    BY <1>0 DEF WaitpidReap, OwnChild, Handler
  <1>2. c \in Ids /\ c \in Tasks
    BY <1>0, TaskFacts
  <1>3. /\ collected' = [collected EXCEPT ![t] = [pid |-> c, status |-> exit_status[c]]]
        /\ UNCHANGED <<state, next_task_id, parent_id, exit_status>>
    BY <1>0 DEF WaitpidReap
  <1>4. ToSet(ring') = ToSet(ring) \ {c}
    <2>1. PICK i \in 1..Len(ring) : ring[i] = c /\ ring' = RemoveAt(ring, i)
      BY <1>0 DEF WaitpidReap
    <2>2. /\ ring \in Seq(Tasks)
          /\ \A k, j \in 1..Len(ring) : ring[k] = ring[j] => k = j
      BY DEF IInv, TypeOK, RingInv
    <2>3. ToSet(RemoveAt(ring, i)) = ToSet(ring) \ {ring[i]}
      BY <2>2, RemoveRing
    <2> QED
      BY <2>1, <2>3
  <1>5. Life(t) = "alive" /\ Life(c) = "zombie" /\ ~(c >= next_task_id)
    <2>1. c < next_task_id /\ next_task_id \in Int
      BY <1>1, RingBorn
    <2>2. c \in Int
      BY <1>2, TaskFacts
    <2> QED
      BY <1>1, <1>2, <2>1, <2>2, CallerAlive DEF Life
  <1>6. ASSUME NEW u \in Ids
        PROVE  Life(u)' = IF u = c THEN "gone" ELSE Life(u)
    BY <1>3, <1>4, <1>5 DEF Life
  <1>7. [u \in Ids |-> Life(u)]' = [[u \in Ids |-> Life(u)] EXCEPT ![c] = "gone"]
    BY <1>6
  <1>8. [u \in Ids |-> IF Life(u) \in {"zombie", "gone"} THEN exit_status[u] ELSE NoStatus]'
          = [u \in Ids |-> IF Life(u) \in {"zombie", "gone"} THEN exit_status[u] ELSE NoStatus]
    <2>1. \A u \in Ids :
             (IF Life(u)' \in {"zombie", "gone"} THEN exit_status'[u] ELSE NoStatus)
               = IF Life(u) \in {"zombie", "gone"} THEN exit_status[u] ELSE NoStatus
      BY <1>3, <1>5, <1>6
    <2> QED
      BY <2>1
  <1>9. [u \in Ids |-> collected[u]]'
          = [[u \in Ids |-> collected[u]]
               EXCEPT ![t] = [pid |-> c, status |-> exit_status[c]]]
    <2>1. collected \in [Tasks -> [pid : Tasks, status : Status \cup {NoStatus}]]
      BY DEF IInv, TypeOK
    <2> QED
      BY <1>3, <2>1, TaskFacts
  <1>10. [u \in Ids |-> parent_id[u]]' = [u \in Ids |-> parent_id[u]]
    BY <1>3
  <1>11. /\ [u \in Ids |-> Life(u)][t] = "alive" /\ [u \in Ids |-> Life(u)][c] = "zombie"
         /\ [u \in Ids |-> parent_id[u]][c] = t
         /\ [u \in Ids |-> IF Life(u) \in {"zombie", "gone"}
                            THEN exit_status[u] ELSE NoStatus][c] = exit_status[c]
    BY <1>1, <1>2, <1>5
  <1> QED
    BY <1>2, <1>7, <1>8, <1>9, <1>10, <1>11 DEF PL!Collect

\* Programs see nothing of a tick.
LEMMA TickStutters ==
    ASSUME IInv, Tick
    PROVE  UNCHANGED PL!lifeVars
  <1>1. UNCHANGED <<next_task_id, parent_id, collected, exit_status>>
    BY DEF Tick, FirstTick, SwitchTick, procVars
  <1>2. TypeOK /\ Ids \subseteq Tasks /\ Main \notin Ids
    BY TaskFacts DEF IInv
  <1>3. CASE FirstTick
    <2>1. \A u \in Ids : u \in ToSet(ring') <=> u \in ToSet(ring)
      <3>1. ring' = Append(ring, Main) /\ Main \in Tasks /\ Main \notin ToSet(ring)
        BY <1>3, TaskFacts DEF FirstTick, IInv, CurrentInv
      <3>2. ring \in Seq(Tasks) /\ \A i, j \in 1..Len(ring) : ring[i] = ring[j] => i = j
        BY DEF IInv, TypeOK, RingInv
      <3>3. ToSet(Append(ring, Main)) = ToSet(ring) \cup {Main}
        BY <3>1, <3>2, AppendRing
      <3> QED
        BY <1>2, <3>1, <3>3
    <2>2. \A u \in Ids : state'[u] = state[u]
      BY <1>2, <1>3, SweptSame DEF FirstTick, Swept
    <2> QED
      BY <1>1, <1>2, <2>1, <2>2, Stutters
  <1>4. CASE SwitchTick
    <2>1. PICK n \in ToSet(ring) :
              Successor(n) /\ current' = n /\ state' = [Yielded EXCEPT ![n] = "RUNNING"]
      BY <1>4 DEF SwitchTick
    <2>2. current \in Tasks /\ n \in Tasks /\ ring' = ring
      BY <1>4, ToSetDef DEF SwitchTick, IInv, TypeOK
    <2>3. Yielded[n] = "RUNNABLE" /\ Yielded = [u \in Tasks |-> Yielded[u]]
      BY <2>1, <2>2, SuccessorRunnable DEF Yielded
    <2>4. \A u \in Tasks : Yielded[u] = IF state[u] = "RUNNING" THEN "RUNNABLE" ELSE state[u]
      BY <2>2, YieldedShape
    <2>5. \A u \in Ids : state'[u] = "ZOMBIE" <=> state[u] = "ZOMBIE"
      <3>1. \A u \in Tasks : state'[u] = IF u = n THEN "RUNNING" ELSE Yielded[u]
        BY <2>1, <2>3
      <3> QED
        BY <1>2, <2>2, <2>3, <2>4, <3>1
    <2> QED
      BY <1>1, <1>2, <2>2, <2>5, Stutters
  <1> QED
    BY <1>3, <1>4 DEF Tick

\* Nor of the first half of exit: the process is still alive to its parent.
LEMMA NotifyStutters ==
    ASSUME IInv, NEW t \in Ids, ExitNotify(t)
    PROVE  UNCHANGED PL!lifeVars
  <1>1. /\ UNCHANGED <<next_task_id, parent_id, collected, ring>>
        /\ current = t /\ pc[t] = "exit" /\ "exit" \in Handler
    BY DEF ExitNotify, Handler
  <1>2. /\ TypeOK /\ state \in [Tasks -> TaskStates] /\ Ids \subseteq Tasks
        /\ exit_status \in [Tasks -> Status \cup {NoStatus}]
    BY TaskFacts DEF IInv, TypeOK
  <1>3. \A u \in Ids : state'[u] = "ZOMBIE" <=> state[u] = "ZOMBIE"
    BY <1>2 DEF ExitNotify
  <1>4. \A u \in Ids : u # t => exit_status'[u] = exit_status[u]
    BY <1>2 DEF ExitNotify
  <1>5. Life(t) = "alive"
    BY <1>1, CallerAlive
  <1> QED
    BY <1>1, <1>2, <1>3, <1>4, <1>5, Stutters

\* Nor of blocking.
LEMMA BlockStutters ==
    ASSUME IInv, NEW t \in Ids, WaitpidBlock(t)
    PROVE  UNCHANGED PL!lifeVars
  <1>1. /\ UNCHANGED <<next_task_id, parent_id, collected, ring, exit_status>>
        /\ current = t /\ pc[t] = "block" /\ "block" \in Handler
    BY DEF WaitpidBlock, procVars, Handler
  <1>2. TypeOK /\ state \in [Tasks -> TaskStates] /\ Ids \subseteq Tasks
    BY TaskFacts DEF IInv, TypeOK
  <1>3. state[t] # "ZOMBIE"
    BY <1>1, InHandler
  <1>4. \A u \in Ids : state'[u] = "ZOMBIE" <=> state[u] = "ZOMBIE"
    BY <1>2, <1>3 DEF WaitpidBlock
  <1> QED
    BY <1>1, <1>2, <1>4, Stutters

\* Nor of the steps that only move a task's control.
LEMMA ControlStutters ==
    ASSUME IInv, UNCHANGED <<ring, state, parent_id, exit_status, next_task_id, collected>>
    PROVE  UNCHANGED PL!lifeVars
  <1>1. TypeOK
    BY DEF IInv
  <1> QED
    BY <1>1, Stutters

LEMMA StepMaps == LifeInv /\ [Next]_vars => [PL!LifeNext]_PL!lifeVars
  <1> SUFFICES ASSUME LifeInv, [Next]_vars
               PROVE  PL!LifeNext \/ UNCHANGED PL!lifeVars
    OBVIOUS
  <1>1. IInv /\ PL!Ids = Ids
    BY IdsFacts DEF LifeInv
  <1>2. CASE Tick
    BY <1>1, <1>2, TickStutters
  <1>3. ASSUME NEW t \in Ids, Fork(t)
        PROVE  PL!LifeNext
    <2>1. \E c \in Ids : PL!Spawn(t, c)
      BY <1>1, <1>3, ForkSpawns
    <2> QED
      BY <1>1, <2>1 DEF PL!LifeNext
  <1>4. ASSUME NEW t \in Ids, ExitDie(t)
        PROVE  PL!LifeNext
    BY <1>1, <1>4, ExitEnds DEF PL!LifeNext
  <1>5. ASSUME NEW t \in Ids, WaitpidReap(t)
        PROVE  PL!LifeNext
    <2>1. \E c \in Ids : PL!Collect(t, c)
      BY <1>1, <1>5, ReapCollects
    <2> QED
      BY <1>1, <2>1 DEF PL!LifeNext
  <1>6. ASSUME NEW t \in Ids, ExitNotify(t) \/ WaitpidBlock(t)
        PROVE  UNCHANGED PL!lifeVars
    BY <1>1, <1>6, NotifyStutters, BlockStutters
  <1>7. ASSUME NEW t \in Ids, Call(t) \/ RetryWaitpid(t) \/ ReadDone(t) \/ Return(t)
        PROVE  UNCHANGED PL!lifeVars
    <2>1. UNCHANGED <<ring, state, parent_id, exit_status, next_task_id, collected>>
      BY <1>7 DEF Call, CallFork, CallExit, CallRead, Enter, CallWaitpid, RetryWaitpid,
         ReadDone, Return, procVars
    <2> QED
      BY <1>1, <2>1, ControlStutters
  <1>8. ASSUME NEW t \in Ids,
               \/ WaitpidNoChild(t) \/ WaitpidNoHang(t) \/ WaitpidAlive(t)
               \/ WaitpidWoken(t) \/ ReadWait(t)
        PROVE  UNCHANGED PL!lifeVars
    <2>1. UNCHANGED <<ring, state, parent_id, exit_status, next_task_id, collected>>
      BY <1>8 DEF WaitpidNoChild, WaitpidNoHang, WaitpidAlive, WaitpidWoken, ReadWait,
         procVars
    <2> QED
      BY <1>1, <2>1, ControlStutters
  <1>9. CASE UNCHANGED vars
    <2>1. UNCHANGED <<ring, state, parent_id, exit_status, next_task_id, collected>>
      BY <1>9 DEF vars, procVars
    <2> QED
      BY <1>1, <2>1, ControlStutters
  <1> QED
    BY <1>2, <1>3, <1>4, <1>5, <1>6, <1>7, <1>8, <1>9 DEF Next, KernelStep

\* The refinement: the scheduler, fork, exit and waitpid together give programs
\* exactly the life of processes that ProcLife describes.
THEOREM LifecycleImplemented == Spec => Lifecycle
  <1>1. Spec => []LifeInv
    BY LifeInitInv, LifeStepInv, PTL DEF Spec
  <1> QED
    BY <1>1, InitMaps, StepMaps, PTL DEF Spec, Lifecycle, PL!LifeSpec
=============================================================================
