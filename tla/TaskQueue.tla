----------------------------- MODULE TaskQueue -----------------------------
(***************************************************************************)
(* What the task queue promises, without pointers or program counters: the *)
(* queue is a sequence that begins with the boot task and only ever grows  *)
(* at its tail, a task becomes ready after it was added, and the CPU       *)
(* passes only to a ready member of the queue.                             *)
(***************************************************************************)
EXTENDS Sequences

CONSTANTS Task, First

VARIABLES queue, status, running
tqvars == <<queue, status, running>>

Members == {queue[i] : i \in DOMAIN queue}

TQInit ==
  /\ queue = <<First>>
  /\ status = [t \in Task |-> IF t = First THEN "RUNNING" ELSE "DEAD"]
  /\ running = First

Enqueue(t) ==
  /\ t \notin Members
  /\ queue' = Append(queue, t)
  /\ UNCHANGED <<status, running>>

MakeReady(t) ==
  /\ t \in Members
  /\ status[t] = "DEAD"
  /\ status' = [status EXCEPT ![t] = "RUNNING"]
  /\ UNCHANGED <<queue, running>>

Finish ==
  /\ status' = [status EXCEPT ![running] = "ZOMBIE"]
  /\ UNCHANGED <<queue, running>>

Dispatch(t) ==
  /\ t \in Members
  /\ status[t] = "RUNNING"
  /\ running' = t
  /\ UNCHANGED <<queue, status>>

TQNext == Finish \/ \E t \in Task : Enqueue(t) \/ MakeReady(t) \/ Dispatch(t)

TQSpec == TQInit /\ [][TQNext]_tqvars
=============================================================================
