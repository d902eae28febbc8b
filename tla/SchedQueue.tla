----------------------------- MODULE SchedQueue -----------------------------
(***************************************************************************)
(* Sched implements TaskQueue.  The abstract queue is what a walk of       *)
(* list.next from init_task meets before it comes back to init_task, the   *)
(* walk that list_for_each (task_nums, print_task_queue, clear_zombie) and *)
(* the round-robin selection make.                                         *)
(***************************************************************************)
EXTENDS Sched

\* The n-th entry of the walk; a broken link ends it with NULL.
Following(x) == IF x = NULL THEN NULL ELSE list_next[x]
Visit[n \in 0..Cardinality(Tasks)] == IF n = 0 THEN init_task ELSE Following(Visit[n - 1])

\* The walk ends before step n.
Closes(n) == Visit[n] = init_task

WalkLength ==
  IF \E n \in 1..Cardinality(Tasks) : Closes(n)
  THEN CHOOSE n \in 1..Cardinality(Tasks) :
         Closes(n) /\ \A m \in 1..(n - 1) : ~Closes(m)
  ELSE Cardinality(Tasks) + 1

Walk == [i \in 1..WalkLength |->
           IF i <= Cardinality(Tasks) THEN Visit[i - 1] ELSE NULL]

TQ == INSTANCE TaskQueue WITH
        Task <- Tasks, First <- init_task,
        queue <- Walk, status <- state, running <- cur

\* Through all interleavings of creations, exits, ticks and switches the
\* linked list behaves as the abstract queue: one ring through every added
\* task, new tasks at the tail, nothing lost, the CPU only to ready members.
ImplementsTaskQueue == TQ!TQSpec
=============================================================================
