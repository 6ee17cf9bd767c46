------------------------------- MODULE Sched -------------------------------
(***************************************************************************)
(* The process core of discitix: the round-robin scheduler driven by the   *)
(* PIT interrupt (kernel/sched/scheduler.c) and the system calls that      *)
(* create, end and collect processes (arch/x86_64/syscall.c,               *)
(* arch/x86_64/syscall/proc.c), together with the retry loop of the user   *)
(* library's waitpid (userland/source/stubs.c).                            *)
(*                                                                         *)
(* There is one processor.  What runs between two points at which an       *)
(* interrupt can be taken is one action; `intr` is the processor's         *)
(* interrupt flag, so Tick is possible exactly where the code leaves       *)
(* interrupts enabled.  A system call is several actions (gate, handler    *)
(* steps, return) so that what the gate's flag protects is visible.        *)
(***************************************************************************)
EXTENDS Integers, Sequences, SequencesExt

CONSTANTS
    MaxId,      \* bound: the largest task id fork hands out
    Status,     \* the exit statuses that processes use
    NoStatus,   \* what exit_status holds before exit sets it
    Readers,    \* the processes whose program reads from the terminal
    NoHang      \* the values of WNOHANG that programs pass to waitpid

ASSUME SchedAssumption ==
    /\ MaxId \in Nat \ {0}
    /\ Status # {} /\ NoStatus \notin Status
    /\ Readers \subseteq Nat /\ NoHang \subseteq BOOLEAN

Main   == 0               \* kmain's task: memset leaves its id 0
Ids    == 1..MaxId        \* user processes; 1 is the first one, sh
Tasks  == 0..MaxId
NoTask == -1              \* a NULL task_t or register_t pointer

\* wake_tick: 0 after memset, all ones in waitpid.  Now stands for every
\* tick count the counter can have: at least 1, below the all-ones value.
Now == 1
NeverTick == 2

VARIABLES
    ring,           \* the circular list of tasks, from task_list on
    current,        \* the scheduler's current task
    state,          \* task_t.state
    parent_id,      \* task_t.parent_id
    exit_status,    \* task_t.exit_status
    wake_tick,      \* task_t.wake_tick
    next_task_id,
    pc,             \* where the task's own control is
    want,           \* the pid the task's waitpid call names, 0 if none
    nohang,         \* that call's WNOHANG bit
    ret,            \* rax of the task's last system call
    collected,      \* the last child id and status waitpid gave the task
    intr,           \* the processor's interrupt flag
    sysregs,        \* whose frame current_syscall_regs points to
    cr3,            \* whose page table the processor has loaded
    rsp0,           \* whose kernel stack the TSS names
    tables          \* the processes whose page table is allocated

vars == <<ring, current, state, parent_id, exit_status, wake_tick,
          next_task_id, pc, want, nohang, ret, collected, intr, sysregs,
          cr3, rsp0, tables>>

procVars == <<parent_id, exit_status, next_task_id, collected>>
waitVars == <<want, nohang>>
cpuVars  == <<cr3, rsp0>>

TaskStates == {"RUNNABLE", "RUNNING", "BLOCKED", "ZOMBIE"}

\* "idle": kmain's hlt loop.  "user": user code.  "fork", "exit", "die",
\* "waitpid", "block", "read": handler steps, entered through the gate.
\* "asleep", "ttywait", "dead": the sti;hlt loops of waitpid, tty_read and
\* exit.  "return": from the handler's result to iretq.
Handler == {"fork", "exit", "die", "waitpid", "block", "read"}
Pcs == Handler \cup {"idle", "user", "asleep", "ttywait", "dead", "return"}

\* Types of the scheduler's state and of each process's place in its code.
TypeOK ==
    /\ ring \in Seq(Tasks)
    /\ current \in Tasks \cup {NoTask}
    /\ state \in [Tasks -> TaskStates]
    /\ parent_id \in [Tasks -> Tasks]
    /\ exit_status \in [Tasks -> Status \cup {NoStatus}]
    /\ wake_tick \in [Tasks -> {0, NeverTick}]
    /\ next_task_id \in 1..(MaxId + 1)
    /\ pc \in [Tasks -> Pcs]
    /\ want \in [Tasks -> Tasks]
    /\ nohang \in [Tasks -> BOOLEAN]
    /\ ret \in [Tasks -> (-2)..MaxId]
    /\ collected \in [Tasks -> [pid : Tasks, status : Status \cup {NoStatus}]]
    /\ intr \in BOOLEAN
    /\ sysregs \in Tasks \cup {NoTask}
    /\ cr3 \in Tasks
    /\ rsp0 \in Tasks
    /\ tables \subseteq Tasks

\* kmain has built sh and enqueued it; no tick has seen a task yet, so the
\* processor still runs kmain without a task_t.
Init ==
    /\ ring = <<1>>
    /\ current = NoTask
    /\ state = [t \in Tasks |-> "RUNNABLE"]
    /\ parent_id = [t \in Tasks |-> 0]
    /\ exit_status = [t \in Tasks |-> NoStatus]
    /\ wake_tick = [t \in Tasks |-> 0]
    /\ next_task_id = 2
    /\ pc = [t \in Tasks |-> IF t = Main THEN "idle" ELSE "user"]
    /\ want = [t \in Tasks |-> 0]
    /\ nohang = [t \in Tasks |-> FALSE]
    /\ ret = [t \in Tasks |-> 0]
    /\ collected = [t \in Tasks |-> [pid |-> 0, status |-> NoStatus]]
    /\ intr = TRUE
    /\ sysregs = NoTask
    /\ cr3 = Main
    /\ rsp0 = Main
    /\ tables = {1}

-----------------------------------------------------------------------------
(* The timer interrupt: pit_handler, schedule_tick.                         *)

\* Mutant: the sweep does not look at the state.
SweptAnyState ==
    [t \in Tasks |->
        IF t \in ToSet(ring) /\ wake_tick[t] <= Now
        THEN "RUNNABLE" ELSE state[t]]

\* sweep_wakeup: a blocked task of the ring whose time has come is runnable.
Swept ==
    [t \in Tasks |->
        IF t \in ToSet(ring) /\ state[t] = "BLOCKED" /\ wake_tick[t] <= Now
        THEN "RUNNABLE" ELSE state[t]]

\* What schedule_tick makes of the states before it looks for a successor.
Yielded ==
    [t \in Tasks |->
        IF t = current /\ Swept[t] = "RUNNING" THEN "RUNNABLE" ELSE Swept[t]]

\* The k-th task after position p of the ring; k = Len(ring) is p itself.
After(p, k) == IF p + k <= Len(ring) THEN ring[p + k]
                                     ELSE ring[p + k - Len(ring)]

\* Mutant: the search starts at task_list.
SuccessorFromHead(n) ==
    \E k \in 1..Len(ring) :
        /\ n = ring[k]
        /\ \A j \in 1..(k - 1) : Yielded[ring[j]] # "RUNNABLE"
        /\ Yielded[n] = "RUNNABLE" \/ n = current

\* n is where the search from current->next stops: the first runnable task,
\* or current itself when the search has come round to it.
Successor(n) ==
    \E p, k \in 1..Len(ring) :
        /\ ring[p] = current
        /\ n = After(p, k)
        /\ \A j \in 1..(k - 1) : Yielded[After(p, j)] # "RUNNABLE"
        /\ Yielded[n] = "RUNNABLE" \/ n = current

\* The first tick that finds a task makes the interrupted kmain one.
FirstTick ==
    /\ intr
    /\ ring # <<>>
    /\ current = NoTask
    /\ ring' = Append(ring, Main)
    /\ state' = [Swept EXCEPT ![Main] = "RUNNING"]
    /\ current' = Main
    /\ UNCHANGED <<procVars, waitVars, cpuVars, wake_tick, pc, ret, intr,
                   sysregs, tables>>

\* Mutant: the successor is not marked RUNNING.
SwitchTickUnmarked ==
    /\ intr
    /\ ring # <<>>
    /\ current # NoTask
    /\ \E n \in ToSet(ring) :
        /\ Successor(n)
        /\ current' = n
        /\ state' = Yielded
        /\ rsp0' = IF n # Main THEN n ELSE rsp0
        /\ cr3'  = IF n \in tables THEN n ELSE cr3
    /\ UNCHANGED <<procVars, waitVars, ring, wake_tick, pc, ret, intr,
                   sysregs, tables>>

\* Mutant: the TSS is updated only for tasks interrupted in user mode.
SwitchTickUserStack ==
    /\ intr
    /\ ring # <<>>
    /\ current # NoTask
    /\ \E n \in ToSet(ring) :
        /\ Successor(n)
        /\ current' = n
        /\ state' = [Yielded EXCEPT ![n] = "RUNNING"]
        /\ rsp0' = IF n # Main /\ pc[n] = "user" THEN n ELSE rsp0
        /\ cr3'  = IF n \in tables THEN n ELSE cr3
    /\ UNCHANGED <<procVars, waitVars, ring, wake_tick, pc, ret, intr,
                   sysregs, tables>>

SwitchTick ==
    /\ intr
    /\ ring # <<>>
    /\ current # NoTask
    /\ \E n \in ToSet(ring) :
        /\ Successor(n)
        /\ current' = n
        /\ state' = [Yielded EXCEPT ![n] = "RUNNING"]
        /\ rsp0' = IF n # Main THEN n ELSE rsp0
        /\ cr3'  = IF n \in tables THEN n ELSE cr3
    /\ UNCHANGED <<procVars, waitVars, ring, wake_tick, pc, ret, intr,
                   sysregs, tables>>

Tick == FirstTick \/ SwitchTick

-----------------------------------------------------------------------------
(* int 0x80: the gate, the dispatcher and the return.                       *)

\* Mutant: type 0xEF, a trap gate, leaves the flag set.
TrapGateFlag == TRUE

\* Type 0xEE is an interrupt gate: the processor clears the flag.
GateFlag == FALSE

AtUser(t) == current = t /\ pc[t] = "user"

\* The system calls that take no part in a waitpid.
Enter(t, handler) ==
    /\ AtUser(t) /\ want[t] = 0
    /\ pc' = [pc EXCEPT ![t] = handler]
    /\ intr' = GateFlag
    /\ sysregs' = t
    /\ UNCHANGED <<procVars, waitVars, cpuVars, ring, current, state,
                   wake_tick, ret, tables>>

CallFork(t) == next_task_id <= MaxId /\ Enter(t, "fork")
CallExit(t) == Enter(t, "exit")
CallRead(t) == t \in Readers /\ Enter(t, "read")

\* A program calls the library's waitpid.
CallWaitpid(t) ==
    /\ AtUser(t) /\ want[t] = 0
    /\ \E pid \in Ids, flag \in NoHang :
        /\ want' = [want EXCEPT ![t] = pid]
        /\ nohang' = [nohang EXCEPT ![t] = flag]
    /\ pc' = [pc EXCEPT ![t] = "waitpid"]
    /\ intr' = GateFlag
    /\ sysregs' = t
    /\ UNCHANGED <<procVars, cpuVars, ring, current, state, wake_tick, ret,
                   tables>>

\* The library's loop calls again with the same arguments as long as the
\* kernel answers -2; any other answer ends the loop.
RetryWaitpid(t) ==
    /\ AtUser(t) /\ want[t] # 0
    /\ pc' = [pc EXCEPT ![t] = "waitpid"]
    /\ intr' = GateFlag
    /\ sysregs' = t
    /\ UNCHANGED <<procVars, waitVars, cpuVars, ring, current, state,
                   wake_tick, ret, tables>>

\* syscall_dispatch drops the frame pointer, the stub stores the result and
\* iretq restores the user's flags, with interrupts enabled.
Return(t) ==
    /\ current = t /\ pc[t] = "return"
    /\ pc' = [pc EXCEPT ![t] = "user"]
    /\ want' = [want EXCEPT ![t] = IF ret[t] = -2 THEN @ ELSE 0]
    /\ intr' = TRUE
    /\ sysregs' = NoTask
    /\ UNCHANGED <<procVars, cpuVars, nohang, ring, current, state,
                   wake_tick, ret, tables>>

-----------------------------------------------------------------------------
(* sys_fork, sys_exit, sys_waitpid, and the wait in tty_read.               *)

\* fork_current_task: the child copies the frame current_syscall_regs
\* names, so it continues where that frame's owner does, with rax = 0.
\* (MaxId again: two forks could be under way if the gate left the flag set.)
Fork(t) ==
    /\ current = t /\ pc[t] = "fork"
    /\ next_task_id <= MaxId
    /\ sysregs # NoTask
    /\ LET child == next_task_id IN
        /\ next_task_id' = child + 1
        /\ ring' = Append(ring, child)
        /\ state' = [state EXCEPT ![child] = "RUNNABLE"]
        /\ parent_id' = [parent_id EXCEPT ![child] = t]
        /\ wake_tick' = [wake_tick EXCEPT ![child] = 0]
        /\ pc' = [pc EXCEPT ![child] = "user", ![t] = "return"]
        /\ ret' = [ret EXCEPT ![child] = 0, ![t] = child]
        /\ tables' = tables \cup {child}
    /\ UNCHANGED <<waitVars, cpuVars, current, exit_status, collected, intr,
                   sysregs>>

\* Mutant: exit does not wake the parent.
ExitNotifyNobody(t) ==
    /\ current = t /\ pc[t] = "exit"
    /\ \E status \in Status :
        exit_status' = [exit_status EXCEPT ![t] = status]
    /\ pc' = [pc EXCEPT ![t] = "die"]
    /\ UNCHANGED <<waitVars, cpuVars, ring, current, state, parent_id,
                   wake_tick, next_task_id, ret, collected, intr, sysregs,
                   tables>>

\* The first half of sys_exit: the status, then the parent's wake-up.
ExitNotify(t) ==
    /\ current = t /\ pc[t] = "exit"
    /\ \E status \in Status :
        exit_status' = [exit_status EXCEPT ![t] = status]
    /\ LET p == parent_id[t] IN
        state' = IF p > 0 /\ p \in ToSet(ring) /\ state[p] = "BLOCKED"
                 THEN [state EXCEPT ![p] = "RUNNABLE"] ELSE state
    /\ pc' = [pc EXCEPT ![t] = "die"]
    /\ UNCHANGED <<waitVars, cpuVars, ring, current, parent_id, wake_tick,
                   next_task_id, ret, collected, intr, sysregs, tables>>

\* The second half: a zombie, its page table freed while still loaded, then
\* the sti;hlt loop that nothing leaves.
ExitDie(t) ==
    /\ current = t /\ pc[t] = "die"
    /\ state' = [state EXCEPT ![t] = "ZOMBIE"]
    /\ tables' = tables \ {t}
    /\ pc' = [pc EXCEPT ![t] = "dead"]
    /\ intr' = TRUE
    /\ UNCHANGED <<procVars, waitVars, cpuVars, ring, current, wake_tick,
                   ret, sysregs>>

\* Mutant: any process may wait for any other.
AnyChild(t, c) == c \in ToSet(ring)

\* find_task_by_id and the parent check of sys_waitpid.
OwnChild(t, c) == c \in ToSet(ring) /\ parent_id[c] = t

WaitpidNoChild(t) ==
    /\ current = t /\ pc[t] = "waitpid"
    /\ ~OwnChild(t, want[t])
    /\ ret' = [ret EXCEPT ![t] = -1]
    /\ pc' = [pc EXCEPT ![t] = "return"]
    /\ UNCHANGED <<procVars, waitVars, cpuVars, ring, current, state,
                   wake_tick, intr, sysregs, tables>>

\* A zombie child is unlinked, its kernel stack and task_t are freed.
WaitpidReap(t) ==
    /\ current = t /\ pc[t] = "waitpid"
    /\ LET c == want[t] IN
        /\ OwnChild(t, c)
        /\ state[c] = "ZOMBIE"
        /\ \E i \in 1..Len(ring) : ring[i] = c /\ ring' = RemoveAt(ring, i)
        /\ collected' = [collected EXCEPT
                            ![t] = [pid |-> c, status |-> exit_status[c]]]
        /\ ret' = [ret EXCEPT ![t] = c]
    /\ pc' = [pc EXCEPT ![t] = "return"]
    /\ UNCHANGED <<waitVars, cpuVars, current, state, parent_id, exit_status,
                   wake_tick, next_task_id, intr, sysregs, tables>>

WaitpidNoHang(t) ==
    /\ current = t /\ pc[t] = "waitpid"
    /\ OwnChild(t, want[t]) /\ state[want[t]] # "ZOMBIE"
    /\ nohang[t]
    /\ ret' = [ret EXCEPT ![t] = 0]
    /\ pc' = [pc EXCEPT ![t] = "return"]
    /\ UNCHANGED <<procVars, waitVars, cpuVars, ring, current, state,
                   wake_tick, intr, sysregs, tables>>

\* The child lives and the call may wait: the handler is about to block.
WaitpidAlive(t) ==
    /\ current = t /\ pc[t] = "waitpid"
    /\ OwnChild(t, want[t]) /\ state[want[t]] # "ZOMBIE"
    /\ ~nohang[t]
    /\ pc' = [pc EXCEPT ![t] = "block"]
    /\ UNCHANGED <<procVars, waitVars, cpuVars, ring, current, state,
                   wake_tick, ret, intr, sysregs, tables>>

\* Mutant: the wake-up time is the present tick count.
WaitpidBlockNow(t) ==
    /\ current = t /\ pc[t] = "block"
    /\ state' = [state EXCEPT ![t] = "BLOCKED"]
    /\ wake_tick' = [wake_tick EXCEPT ![t] = Now]
    /\ pc' = [pc EXCEPT ![t] = "asleep"]
    /\ intr' = TRUE
    /\ UNCHANGED <<procVars, waitVars, cpuVars, ring, current, ret, sysregs,
                   tables>>

\* state, wake_tick, then sti;hlt.
WaitpidBlock(t) ==
    /\ current = t /\ pc[t] = "block"
    /\ state' = [state EXCEPT ![t] = "BLOCKED"]
    /\ wake_tick' = [wake_tick EXCEPT ![t] = NeverTick]
    /\ pc' = [pc EXCEPT ![t] = "asleep"]
    /\ intr' = TRUE
    /\ UNCHANGED <<procVars, waitVars, cpuVars, ring, current, ret, sysregs,
                   tables>>

\* The loop ends once the state is not BLOCKED; interrupts stay enabled.
WaitpidWoken(t) ==
    /\ current = t /\ pc[t] = "asleep"
    /\ state[t] # "BLOCKED"
    /\ ret' = [ret EXCEPT ![t] = -2]
    /\ pc' = [pc EXCEPT ![t] = "return"]
    /\ UNCHANGED <<procVars, waitVars, cpuVars, ring, current, state,
                   wake_tick, intr, sysregs, tables>>

\* tty_read waits for its line in a sti;hlt;cli loop, staying runnable.
ReadWait(t) ==
    /\ current = t /\ pc[t] = "read"
    /\ pc' = [pc EXCEPT ![t] = "ttywait"]
    /\ intr' = TRUE
    /\ UNCHANGED <<procVars, waitVars, cpuVars, ring, current, state,
                   wake_tick, ret, sysregs, tables>>

ReadDone(t) ==
    /\ current = t /\ pc[t] = "ttywait"
    /\ ret' = [ret EXCEPT ![t] = 1]
    /\ pc' = [pc EXCEPT ![t] = "return"]
    /\ intr' = FALSE
    /\ UNCHANGED <<procVars, waitVars, cpuVars, ring, current, state,
                   wake_tick, sysregs, tables>>

-----------------------------------------------------------------------------
Call(t) == CallFork(t) \/ CallExit(t) \/ CallRead(t) \/ CallWaitpid(t)

\* What the kernel does on a task's behalf without waiting for anything.
KernelStep(t) ==
    \/ Fork(t) \/ ExitNotify(t) \/ ExitDie(t)
    \/ WaitpidNoChild(t) \/ WaitpidReap(t) \/ WaitpidNoHang(t)
    \/ WaitpidAlive(t) \/ WaitpidBlock(t) \/ WaitpidWoken(t)
    \/ ReadWait(t) \/ Return(t)

Next ==
    \/ Tick
    \/ \E t \in Ids : Call(t) \/ RetryWaitpid(t) \/ KernelStep(t) \/ ReadDone(t)

Spec == Init /\ [][Next]_vars

\* The PIT keeps interrupting and the PIC holds its interrupt while the flag
\* is clear, so a tick comes even if the flag is set only now and then.  The
\* 10 ms between two ticks are longer than any of the kernel's and the
\* library's own steps, so a task that is run again and again takes them.
\* Nothing obliges a program to make a system call, or a line to arrive.
Fairness ==
    /\ SF_vars(Tick)
    /\ \A t \in Ids : SF_vars(KernelStep(t) \/ RetryWaitpid(t))

FairSpec == Spec /\ Fairness

-----------------------------------------------------------------------------
(* Safety.                                                                  *)

\* At most one task is RUNNING and it is the current one; a current task
\* that executes anything but its own parking loop is RUNNING.  (The state
\* changes of schedule_tick, exit and waitpid agree with each other.)
SoleRunner ==
    current # NoTask =>
        /\ \A t \in ToSet(ring) : state[t] = "RUNNING" => t = current
        /\ pc[current] \notin {"asleep", "dead"} => state[current] = "RUNNING"

\* A task blocked in waitpid waits for a child of its own that is still in
\* the ring and has not ended: exit's wake-up is never lost between
\* waitpid's look at the child and its becoming BLOCKED.
NoLostWakeup ==
    \A t \in ToSet(ring) :
        state[t] = "BLOCKED" =>
            OwnChild(t, want[t]) /\ state[want[t]] # "ZOMBIE"

\* A handler of the running task finds that task's frame in
\* current_syscall_regs, although tasks that sleep inside a system call
\* leave other frames there and clear it when they return.
OwnFrame ==
    current # NoTask /\ pc[current] \in Handler => sysregs = current

\* Whenever user code or a handler that allocates runs, the loaded page
\* table and the TSS's kernel stack are that process's own, and the table
\* is allocated; only the loops of exit and of kmain run on a freed one.
OwnContext ==
    current # NoTask /\ pc[current] \in Handler \cup {"user", "return"} =>
        cr3 = current /\ rsp0 = current /\ current \in tables

\* A task that has ended never changes state and never runs again as long
\* as it is in the ring.
ZombieFinal ==
    [][\A t \in ToSet(ring) :
        state[t] = "ZOMBIE" /\ t \in ToSet(ring') =>
            state'[t] = "ZOMBIE" /\ (current # t => current' # t)]_vars

\* The task whose task_t and kernel stack waitpid frees is not the one
\* running, nor the one whose stack or page table the processor holds.
FreedOffCpu ==
    [][\A t \in ToSet(ring) :
        t \notin ToSet(ring') => t \notin {current, current', cr3, rsp0}]_vars

(* Liveness, under FairSpec.                                                *)

\* Round robin starves nobody: a runnable task is eventually run.
RunnableRuns ==
    \A t \in Tasks :
        (t \in ToSet(ring) /\ state[t] = "RUNNABLE") ~> state[t] = "RUNNING"

\* A parent in the library's blocking waitpid eventually collects its child
\* once the child has ended, whichever other children woke it before.
ZombieCollected ==
    \A p, c \in Ids :
        (/\ want[p] = c /\ ~nohang[p] /\ pc[p] # "dead"
         /\ OwnChild(p, c) /\ state[c] = "ZOMBIE") ~> c \notin ToSet(ring)

(* The processes as programs see them.                                      *)

Life(t) ==
    IF t >= next_task_id THEN "unborn"
    ELSE IF t \notin ToSet(ring) THEN "gone"
    ELSE IF state[t] = "ZOMBIE" THEN "zombie" ELSE "alive"

PL == INSTANCE ProcLife WITH
        life <- [t \in Ids |-> Life(t)],
        par  <- [t \in Ids |-> parent_id[t]],
        code <- [t \in Ids |-> IF Life(t) \in {"zombie", "gone"}
                               THEN exit_status[t] ELSE NoStatus],
        got  <- [t \in Ids |-> collected[t]]

\* Sched implements ProcLife.
Lifecycle == PL!LifeSpec

\* scheduler.h says of parent_id: "0 if orphan/init".
OrphanHasNoParent ==
    \A t \in ToSet(ring) \ {Main} :
        parent_id[t] # 0 => parent_id[t] \in ToSet(ring)
=============================================================================
