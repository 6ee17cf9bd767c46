----------------------------- MODULE UserStack -----------------------------
(***************************************************************************)
(* The first stack of a program (kernel/sched/build_stack.c): the strings  *)
(* of argv and envp from the top downwards, below them, on a multiple of   *)
(* 16, argc and the two arrays of pointers, each closed by a null.  An     *)
(* argument list is the sequence of its strings' sizes, the closing zero   *)
(* byte counted; addresses are in bytes from the bottom of the stack,      *)
(* which is page-aligned.                                                  *)
(***************************************************************************)
EXTENDS Integers, Sequences

CONSTANTS
    StackBytes,     \* the two pages of a user stack
    MaxArgs         \* MAX_EXEC_ARGS

\* A stack holds at least argc and the two nulls.
ASSUME UserStackAssumption == StackBytes \in Nat /\ StackBytes >= 24 /\ MaxArgs \in Nat

Total(sizes) ==
    LET sum[n \in 0..Len(sizes)] == IF n = 0 THEN 0 ELSE sum[n - 1] + sizes[n]
    IN  sum[Len(sizes)]

\* Where the lowest string starts, once all have been pushed.
StringsAt(argv, envp) == StackBytes - Total(argv) - Total(envp)

\* argc, the pointers and the two nulls.
ArrayBytes(argv, envp) == 24 + 8 * Len(argv) + 8 * Len(envp)

\* build_user_stack succeeds: it has room for every string and the arrays.
StackFits(argv, envp) ==
    /\ Len(argv) <= MaxArgs /\ Len(envp) <= MaxArgs
    /\ ArrayBytes(argv, envp) <= StringsAt(argv, envp)

\* Mutant: the arrays are laid out from the lowest string, unaligned.
UserStackUnaligned(argv, envp) ==
    LET rsp  == StringsAt(argv, envp) - ArrayBytes(argv, envp)
        args == rsp + 8
    IN  [rsp |-> rsp, argc |-> Len(argv), argv |-> args,
         envp |-> args + 8 * Len(argv) + 8, strings |-> StringsAt(argv, envp)]

\* What it leaves: the stack pointer, at argc, and the two arrays above it.
UserStackOf(argv, envp) ==
    LET rsp  == ((StringsAt(argv, envp) - ArrayBytes(argv, envp)) \div 16) * 16
        args == rsp + 8
    IN  [rsp |-> rsp, argc |-> Len(argv), argv |-> args,
         envp |-> args + 8 * Len(argv) + 8, strings |-> StringsAt(argv, envp)]
=============================================================================
