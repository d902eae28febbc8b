---------------------------- MODULE SchedProofs ----------------------------
(***************************************************************************)
(* Proofs about Sched and SchedQueue, for any finite number of tasks and   *)
(* any nesting of ticks.                                                   *)
(***************************************************************************)
EXTENDS SchedQueue, SequenceTheorems, FiniteSetTheorems, WellFoundedInduction, TLAPS

(***************************************************************************)
(* What the operations on stacks do.                                       *)
(***************************************************************************)
\* SetTop replaces the last activation and nothing else.
LEMMA SetTopProps ==
  ASSUME NEW s \in Seq(Frame), s # << >>, NEW f \in Frame
  PROVE  /\ SetTop(s, f) \in Seq(Frame)
         /\ Len(SetTop(s, f)) = Len(s)
         /\ SetTop(s, f) # << >>
         /\ SetTop(s, f)[Len(s)] = f
         /\ \A i \in 1..Len(s) : i # Len(s) => SetTop(s, f)[i] = s[i]
BY DEF SetTop

\* Push adds one activation above the others.
LEMMA PushProps ==
  ASSUME NEW s \in Seq(Frame), NEW f \in Frame
  PROVE  /\ Push(s, f) \in Seq(Frame)
         /\ Len(Push(s, f)) = Len(s) + 1
         /\ Push(s, f) # << >>
         /\ Push(s, f)[Len(s) + 1] = f
         /\ \A i \in 1..Len(s) : Push(s, f)[i] = s[i]
BY DEF Push

\* Pop removes the last activation and keeps the others.
LEMMA PopProps ==
  ASSUME NEW s \in Seq(Frame), Len(s) > 1
  PROVE  /\ Pop(s) \in Seq(Frame)
         /\ Len(Pop(s)) = Len(s) - 1
         /\ Pop(s) # << >>
         /\ \A i \in 1..(Len(s) - 1) : Pop(s)[i] = s[i]
<1>1. /\ SubSeq(s, 1, Len(s) - 1) \in Seq(Frame)
      /\ Len(SubSeq(s, 1, Len(s) - 1)) = Len(s) - 1
      /\ \A i \in 1..(Len(s) - 1) : SubSeq(s, 1, Len(s) - 1)[i] = s[i]
  BY SubSeqProperties
<1>2. Pop(s) = SubSeq(s, 1, Len(s) - 1)
  BY DEF Pop
<1>3. /\ Pop(s) \in Seq(Frame)
      /\ Len(Pop(s)) = Len(s) - 1
      /\ \A i \in 1..(Len(s) - 1) : Pop(s)[i] = s[i]
  BY <1>1, <1>2, Zenon
<1>4. Pop(s) # << >>
  BY <1>3
<1> QED BY <1>3, <1>4, Zenon

\* A task that has run has a top activation.
LEMMA TopProps ==
  ASSUME TypeOK, NEW t \in Live
  PROVE  /\ t \in Tasks
         /\ stack[t] \in Seq(Frame)
         /\ Len(stack[t]) \in Nat
         /\ Len(stack[t]) >= 1
         /\ top(t) = stack[t][Len(stack[t])]
         /\ top(t) \in Frame
BY DEF TypeOK, Live, top

\* frame(op, at) is an activation record.
LEMMA FrameProps ==
  ASSUME NEW op \in {"base", "kthread", "execv", "tick", "exit"},
         NEW at \in BasePlaces \cup CreatePlaces \cup ExitPlaces
  PROVE  /\ frame(op, at) \in Frame
         /\ frame(op, at).op = op
         /\ frame(op, at).at = at
BY DEF frame, Frame, Pointers

\* The effect of moving the running task's top activation to f.
LEMMA MoveProps ==
  ASSUME TypeOK, cur \in Live, NEW f \in Frame,
         stack' = [stack EXCEPT ![cur] = SetTop(@, f)]
  PROVE  /\ stack' \in [Tasks -> Seq(Frame)]
         /\ Live' = Live
         /\ \A t \in Tasks : Len(stack'[t]) = Len(stack[t])
         /\ \A t \in Tasks : t # cur => stack'[t] = stack[t]
         /\ \A i \in 1..Len(stack[cur]) :
              stack'[cur][i] = IF i = Len(stack[cur]) THEN f ELSE stack[cur][i]
<1>1. cur \in Tasks /\ stack[cur] \in Seq(Frame) /\ stack[cur] # << >>
  BY DEF TypeOK, Live
<1>2. stack'[cur] = SetTop(stack[cur], f) /\ \A t \in Tasks : t # cur => stack'[t] = stack[t]
  BY <1>1 DEF TypeOK
<1>3. /\ stack'[cur] \in Seq(Frame)
      /\ Len(stack'[cur]) = Len(stack[cur])
      /\ stack'[cur] # << >>
      /\ \A i \in 1..Len(stack[cur]) :
              stack'[cur][i] = IF i = Len(stack[cur]) THEN f ELSE stack[cur][i]
  <2> DEFINE s == stack[cur]
             r == SetTop(s, f)
  <2>1. /\ r \in Seq(Frame) /\ Len(r) = Len(s) /\ r # << >> /\ r[Len(s)] = f
        /\ \A i \in 1..Len(s) : i # Len(s) => r[i] = s[i]
    BY <1>1, SetTopProps
  <2> QED BY <1>2, <2>1
<1>4. stack' \in [Tasks -> Seq(Frame)]
  BY <1>2, <1>3 DEF TypeOK
<1>5. Live' = Live
  BY <1>1, <1>2, <1>3 DEF Live
<1> QED BY <1>2, <1>3, <1>4, <1>5

\* The effect of a call on the running task's stack.
LEMMA CallProps ==
  ASSUME TypeOK, cur \in Live, NEW f \in Frame,
         stack' = [stack EXCEPT ![cur] = Push(@, f)]
  PROVE  /\ stack' \in [Tasks -> Seq(Frame)]
         /\ Live' = Live
         /\ \A t \in Tasks : t # cur => stack'[t] = stack[t]
         /\ Len(stack'[cur]) = Len(stack[cur]) + 1
         /\ stack'[cur][Len(stack[cur]) + 1] = f
         /\ \A i \in 1..Len(stack[cur]) : stack'[cur][i] = stack[cur][i]
<1>1. cur \in Tasks /\ stack[cur] \in Seq(Frame) /\ stack[cur] # << >>
  BY DEF TypeOK, Live
<1>2. /\ stack'[cur] = Push(stack[cur], f)
      /\ \A t \in Tasks : t # cur => stack'[t] = stack[t]
  BY <1>1 DEF TypeOK
<1>3. /\ stack'[cur] \in Seq(Frame)
      /\ Len(stack'[cur]) = Len(stack[cur]) + 1
      /\ stack'[cur] # << >>
      /\ stack'[cur][Len(stack[cur]) + 1] = f
      /\ \A i \in 1..Len(stack[cur]) : stack'[cur][i] = stack[cur][i]
  <2> DEFINE s == stack[cur]
             r == Push(s, f)
  <2>1. /\ r \in Seq(Frame) /\ Len(r) = Len(s) + 1 /\ r # << >>
        /\ r[Len(s) + 1] = f
        /\ \A i \in 1..Len(s) : r[i] = s[i]
    BY <1>1, PushProps
  <2> QED BY <1>2, <2>1
<1>4. stack' \in [Tasks -> Seq(Frame)]
  BY <1>2, <1>3 DEF TypeOK
<1>5. Live' = Live
  BY <1>1, <1>2, <1>3 DEF Live
<1> QED BY <1>2, <1>3, <1>4, <1>5

\* The effect of a return on the running task's stack.
LEMMA ReturnProps ==
  ASSUME TypeOK, cur \in Live, Len(stack[cur]) > 1, Return
  PROVE  /\ stack' \in [Tasks -> Seq(Frame)]
         /\ Live' = Live
         /\ \A t \in Tasks : t # cur => stack'[t] = stack[t]
         /\ Len(stack'[cur]) = Len(stack[cur]) - 1
         /\ \A i \in 1..(Len(stack[cur]) - 1) : stack'[cur][i] = stack[cur][i]
<1>1. cur \in Tasks /\ stack[cur] \in Seq(Frame) /\ stack[cur] # << >>
  BY DEF TypeOK, Live
<1>2. /\ stack'[cur] = Pop(stack[cur])
      /\ \A t \in Tasks : t # cur => stack'[t] = stack[t]
  BY <1>1 DEF TypeOK, Return
<1>3. /\ stack'[cur] \in Seq(Frame)
      /\ Len(stack'[cur]) = Len(stack[cur]) - 1
      /\ stack'[cur] # << >>
      /\ \A i \in 1..(Len(stack[cur]) - 1) : stack'[cur][i] = stack[cur][i]
  <2> DEFINE s == stack[cur]
             r == Pop(s)
  <2>1. /\ r \in Seq(Frame) /\ Len(r) = Len(s) - 1 /\ r # << >>
        /\ \A i \in 1..(Len(s) - 1) : r[i] = s[i]
    BY <1>1, PopProps
  <2> QED BY <1>2, <2>1
<1>4. stack' \in [Tasks -> Seq(Frame)]
  BY <1>2, <1>3 DEF TypeOK, Return
<1>5. Live' = Live
  BY <1>1, <1>2, <1>3 DEF Live
<1> QED BY <1>2, <1>3, <1>4, <1>5

(***************************************************************************)
(* The invariants on stacks and counters, kept by any step that moves,     *)
(* pushes or pops an activation with the matching change of the counter.   *)
(***************************************************************************)
StackInv == StackShape /\ PreemptExact /\ Parked

\* preempt_count' is n for the running task and unchanged for the others.
CountBecomes(n) ==
  /\ preempt_count' \in [Tasks -> Int]
  /\ preempt_count'[cur] = n
  /\ \A t \in Tasks : t # cur => preempt_count'[t] = preempt_count[t]

\* Every activation after the step is f or was there before.
FramesFrom(f) ==
  \A t \in Tasks : \A i \in 1..Len(stack'[t]) :
    stack'[t][i] = f \/ (i \in 1..Len(stack[t]) /\ stack'[t][i] = stack[t][i])

\* Moving the top activation to f keeps the stack invariants if the counter
\* follows.
LEMMA MoveInv ==
  ASSUME TypeOK, StackInv, cur \in Live, cur' = cur, NEW f \in Frame,
         FrameOK(f, cur, Len(stack[cur])),
         CountBecomes(IF f.at \in Held THEN 1 ELSE 0),
         stack' = [stack EXCEPT ![cur] = SetTop(@, f)]
  PROVE  /\ stack' \in [Tasks -> Seq(Frame)]
         /\ StackInv'
         /\ Live' = Live
         /\ top(cur)' = f
         /\ FramesFrom(f)
<1>1. /\ stack' \in [Tasks -> Seq(Frame)]
      /\ Live' = Live
      /\ \A t \in Tasks : Len(stack'[t]) = Len(stack[t])
      /\ \A t \in Tasks : t # cur => stack'[t] = stack[t]
      /\ \A i \in 1..Len(stack[cur]) :
           stack'[cur][i] = IF i = Len(stack[cur]) THEN f ELSE stack[cur][i]
  BY MoveProps
<1>2. /\ cur \in Tasks /\ Len(stack[cur]) \in Nat /\ Len(stack[cur]) >= 1
  BY TopProps
<1>3. top(cur)' = f
  BY <1>1, <1>2 DEF top
<1>4. StackShape'
  BY <1>1, <1>2 DEF StackInv, StackShape
<1>5. PreemptExact'
  BY <1>1, <1>2, <1>3 DEF StackInv, PreemptExact, CountBecomes, top
<1>6. Parked'
  BY <1>1, <1>2 DEF StackInv, Parked, top
<1>7. FramesFrom(f)
  <2> SUFFICES ASSUME NEW t \in Tasks, NEW i \in 1..Len(stack'[t])
               PROVE  stack'[t][i] = f \/ (i \in 1..Len(stack[t]) /\ stack'[t][i] = stack[t][i])
    BY DEF FramesFrom
  <2>1. CASE t = cur
    BY <2>1, <1>1, <1>2
  <2>2. CASE t # cur
    BY <2>2, <1>1
  <2> QED BY <2>1, <2>2
<1> QED BY <1>1, <1>3, <1>4, <1>5, <1>6, <1>7 DEF StackInv

\* Calling from outside the protected sections keeps the stack invariants if
\* the counter stays.
LEMMA CallInv ==
  ASSUME TypeOK, StackInv, cur \in Live, cur' = cur, NEW f \in Frame,
         FrameOK(f, cur, Len(stack[cur]) + 1),
         top(cur).at \notin Held, f.at \notin Held,
         preempt_count' = preempt_count,
         stack' = [stack EXCEPT ![cur] = Push(@, f)]
  PROVE  /\ stack' \in [Tasks -> Seq(Frame)]
         /\ StackInv'
         /\ Live' = Live
         /\ top(cur)' = f
         /\ FramesFrom(f)
<1>1. /\ stack' \in [Tasks -> Seq(Frame)]
      /\ Live' = Live
      /\ \A t \in Tasks : t # cur => stack'[t] = stack[t]
      /\ Len(stack'[cur]) = Len(stack[cur]) + 1
      /\ stack'[cur][Len(stack[cur]) + 1] = f
      /\ \A i \in 1..Len(stack[cur]) : stack'[cur][i] = stack[cur][i]
  BY CallProps
<1>2. /\ cur \in Tasks /\ Len(stack[cur]) \in Nat /\ Len(stack[cur]) >= 1
  BY TopProps
<1>3. top(cur)' = f
  BY <1>1, <1>2 DEF top
<1>4. StackShape'
  BY <1>1, <1>2 DEF StackInv, StackShape
<1>5. PreemptExact'
  BY <1>1, <1>2, <1>3 DEF StackInv, PreemptExact, top
<1>6. Parked'
  BY <1>1, <1>2 DEF StackInv, Parked, top
<1>7. FramesFrom(f)
  <2> SUFFICES ASSUME NEW t \in Tasks, NEW i \in 1..Len(stack'[t])
               PROVE  stack'[t][i] = f \/ (i \in 1..Len(stack[t]) /\ stack'[t][i] = stack[t][i])
    BY DEF FramesFrom
  <2>1. CASE t = cur
    BY <2>1, <1>1, <1>2
  <2>2. CASE t # cur
    BY <2>2, <1>1
  <2> QED BY <2>1, <2>2
<1> QED BY <1>1, <1>3, <1>4, <1>5, <1>6, <1>7 DEF StackInv

\* Returning leaves the caller outside the protected sections; the counter
\* is 0 afterwards.
LEMMA ReturnInv ==
  ASSUME TypeOK, StackInv, cur \in Live, cur' = cur,
         top(cur).op # "base", CountBecomes(0), Return
  PROVE  /\ stack' \in [Tasks -> Seq(Frame)]
         /\ StackInv'
         /\ Live' = Live
         /\ top(cur)' = stack[cur][Len(stack[cur]) - 1]
         /\ top(cur)' \in Frame
         /\ FrameOK(top(cur)', cur, Len(stack[cur]) - 1)
         /\ top(cur)'.at \notin Held
         /\ FramesFrom(top(cur))
<1>1. /\ cur \in Tasks /\ Len(stack[cur]) \in Nat /\ Len(stack[cur]) > 1
      /\ stack[cur] \in Seq(Frame)
  BY TopProps DEF StackInv, StackShape, FrameOK
<1>2. /\ stack' \in [Tasks -> Seq(Frame)]
      /\ Live' = Live
      /\ \A t \in Tasks : t # cur => stack'[t] = stack[t]
      /\ Len(stack'[cur]) = Len(stack[cur]) - 1
      /\ \A i \in 1..(Len(stack[cur]) - 1) : stack'[cur][i] = stack[cur][i]
  BY <1>1, ReturnProps
<1>3. top(cur)' = stack[cur][Len(stack[cur]) - 1]
  BY <1>1, <1>2 DEF top
<1>4. /\ top(cur)' \in Frame
      /\ FrameOK(top(cur)', cur, Len(stack[cur]) - 1)
      /\ top(cur)'.at \notin Held
  BY <1>1, <1>3 DEF StackInv, StackShape, PreemptExact
<1>5. StackShape'
  BY <1>1, <1>2 DEF StackInv, StackShape
<1>6. PreemptExact'
  <2> SUFFICES ASSUME NEW t \in Tasks
               PROVE  /\ preempt_count'[t] =
                           IF t \in Live /\ top(t)'.at \in Held THEN 1 ELSE 0
                      /\ \A i \in 1..(Len(stack'[t]) - 1) : stack'[t][i].at \notin Held
    BY <1>2 DEF PreemptExact
  <2>1. CASE t = cur
    <3>1. preempt_count'[t] = IF t \in Live /\ top(t)'.at \in Held THEN 1 ELSE 0
      BY <2>1, <1>1, <1>4 DEF CountBecomes, StackInv, PreemptExact
    <3>2. 1..(Len(stack'[t]) - 1) \subseteq 1..(Len(stack[cur]) - 1)
      BY <2>1, <1>1, <1>2
    <3>3. \A i \in 1..(Len(stack[cur]) - 1) : stack[cur][i].at \notin Held
      BY <1>1 DEF StackInv, PreemptExact
    <3>4. \A i \in 1..(Len(stack'[t]) - 1) : stack'[t][i].at \notin Held
      BY <2>1, <1>2, <3>2, <3>3
    <3> QED BY <3>1, <3>4
  <2>2. CASE t # cur
    BY <2>2, <1>2 DEF StackInv, PreemptExact, CountBecomes, top
  <2> QED BY <2>1, <2>2
<1>7. Parked'
  <2> SUFFICES ASSUME NEW t \in Live, t # cur
               PROVE  \/ top(t)'.at = "out"
                      \/ Len(stack'[t]) = 1 /\ top(t)'.at = "ret_from_fork"
    BY <1>2 DEF Parked
  <2>1. t \in Tasks /\ stack'[t] = stack[t]
    BY <1>2 DEF Live
  <2> QED BY <2>1 DEF StackInv, Parked, top
<1>8. FramesFrom(top(cur))
  <2> SUFFICES ASSUME NEW t \in Tasks, NEW i \in 1..Len(stack'[t])
               PROVE  i \in 1..Len(stack[t]) /\ stack'[t][i] = stack[t][i]
    BY DEF FramesFrom
  <2>1. CASE t = cur
    BY <2>1, <1>1, <1>2
  <2>2. CASE t # cur
    BY <2>2, <1>2
  <2> QED BY <2>1, <2>2
<1> QED BY <1>2, <1>3, <1>4, <1>5, <1>6, <1>7, <1>8 DEF StackInv

\* A selected task stays selectable: what the switching activations hold is
\* kept when `next' only moves among added tasks.
LEMMA NextInv ==
  ASSUME TypeOK, NextQueued, NEW f, FramesFrom(f), SwitchArgOK(f, next', Queued'),
         Queued \subseteq Queued',
         next' \in Queued' \cup {NULL}, next # NULL => next' # NULL
  PROVE  NextQueued'
<1> SUFFICES ASSUME NEW t \in Tasks, NEW i \in 1..Len(stack'[t])
             PROVE  SwitchArgOK(stack'[t][i], next', Queued')
  BY DEF NextQueued
<1>1. CASE stack'[t][i] = f
  BY <1>1
<1>2. CASE i \in 1..Len(stack[t]) /\ stack'[t][i] = stack[t][i]
  BY <1>2 DEF NextQueued, SwitchArgOK
<1> QED BY <1>1, <1>2 DEF FramesFrom
(***************************************************************************)
(* One lemma per action: the action keeps the inductive invariant.         *)
(***************************************************************************)
\* Places at which the queue or ttbr0 is not in its resting state.
Busy == {"memcpy", "mm_back", "cpu_switch", "add_next_prev", "add_new_next",
         "add_new_prev", "add_prev_next", "set_running"}

\* A step that leaves the queue, the states and the address spaces alone and
\* does not enter or leave a busy place keeps what the invariant says of them.
LEMMA QuietInv ==
  ASSUME IInv, cur' = cur, Live' = Live, UNCHANGED <<state, queue_vars, mm_vars>>,
         top(cur).at \notin Busy, top(cur)'.at \notin Busy \cup {"create_done"}
  PROVE  QueuedLive' /\ NewTask' /\ RingInv' /\ AddressInv'
<1>1. Queued' = Queued
  BY DEF Queued
<1>2. QueuedLive'
  BY <1>1 DEF IInv, QueuedLive
<1>3. NewTask'
  BY DEF NewTask, CreateHeld, Busy
<1>4. RingInv'
  <2>1. Ring(list_next, list_prev, Queued)
    BY DEF IInv, RingInv, Busy
  <2>2. Ring(list_next, list_prev, Queued)'
    BY <2>1, <1>1 DEF Ring, queue_vars
  <2> QED BY <2>2 DEF RingInv, Busy
<1>5. AddressInv'
  BY <1>1 DEF IInv, AddressInv, mm_vars, Busy, CreateHeld
<1> QED BY <1>2, <1>3, <1>4, <1>5

\* The running task has a top activation.
LEMMA CurProps ==
  ASSUME IInv
  PROVE  /\ TypeOK /\ StackInv /\ NextQueued
         /\ cur \in Live /\ cur \in Tasks /\ stack[cur] \in Seq(Frame)
         /\ Len(stack[cur]) \in Nat /\ Len(stack[cur]) >= 1
         /\ top(cur) = stack[cur][Len(stack[cur])]
         /\ top(cur) \in Frame
         /\ FrameOK(top(cur), cur, Len(stack[cur]))
         /\ preempt_count[cur] = IF top(cur).at \in Held THEN 1 ELSE 0
         /\ next \in Queued \cup {NULL}
         /\ SwitchArgOK(top(cur), next, Queued)
<1>1. TypeOK /\ StackInv /\ NextQueued /\ cur \in Live
  BY DEF IInv, StackInv, QueuedLive
<1>2. /\ cur \in Tasks /\ stack[cur] \in Seq(Frame)
      /\ Len(stack[cur]) \in Nat /\ Len(stack[cur]) >= 1
      /\ top(cur) = stack[cur][Len(stack[cur])]
      /\ top(cur) \in Frame
  BY <1>1, TopProps
<1> QED BY <1>1, <1>2 DEF StackInv, StackShape, PreemptExact, NextQueued

\* Outside the busy places the successor of the running task is an added task.
LEMMA Successor ==
  ASSUME IInv, top(cur).at \notin Busy
  PROVE  list_next[cur] \in Queued /\ list_next[cur] # NULL
<1>1. cur \in Queued
  BY DEF IInv, QueuedLive
<1>2. Ring(list_next, list_prev, Queued)
  BY DEF IInv, RingInv, Busy
<1>3. list_next[cur] \in Queued
  BY <1>1, <1>2 DEF Ring
<1> QED BY <1>3, TasksAssumption DEF Queued

\* init_main enables interrupts.
LEMMA BootIrqStep ==
  ASSUME IInv, BootIrq
  PROVE  IInv'
<1> DEFINE f == [top(cur) EXCEPT !.at = "kernel"]
<1>1. cur' = cur /\ UNCHANGED <<state, queue_vars, mm_vars>>
  BY DEF BootIrq
<1>2. /\ f \in Frame
      /\ FrameOK(f, cur, Len(stack[cur]))
      /\ f.op = top(cur).op /\ f.at = "kernel" /\ f.arg = top(cur).arg
  BY CurProps DEF BootIrq, Here, Frame, FrameOK, Pointers, Held, CreateHeld, SelectHeld,
     SwitchHeld, BasePlaces, CreatePlaces, SwitchPlaces, ExitPlaces
<1>3. CountBecomes(IF f.at \in Held THEN 1 ELSE 0)
  BY <1>2, CurProps DEF BootIrq, Here, CountBecomes, preempt_disable, preempt_enable,
     TypeOK, Held, CreateHeld, SelectHeld, SwitchHeld, BasePlaces, CreatePlaces,
     SwitchPlaces, ExitPlaces
<1>4. stack' = [stack EXCEPT ![cur] = SetTop(@, f)]
  BY DEF BootIrq, MoveTo
<1> HIDE DEF f
<1>5. /\ stack' \in [Tasks -> Seq(Frame)] /\ StackInv' /\ Live' = Live
      /\ top(cur)' = f /\ FramesFrom(f)
  BY <1>1, <1>2, <1>3, <1>4, CurProps, MoveInv
<1>6. QueuedLive' /\ NewTask' /\ RingInv' /\ AddressInv'
  BY <1>1, <1>2, <1>5, QuietInv DEF BootIrq, Here, Busy
<1>7. NextQueued'
  <2>1. Queued' = Queued
    BY <1>1 DEF Queued
  <2>2. next' \in Queued \cup {NULL} /\ (next # NULL => next' # NULL) /\ SwitchArgOK(f, next', Queued')
    BY <1>2, <2>1, CurProps DEF BootIrq, Here, SwitchArgOK
  <2> QED BY <1>5, <2>1, <2>2, CurProps, NextInv
<1>8. TypeOK'
  BY <1>1, <1>3, <1>5, CurProps DEF BootIrq, TypeOK, CountBecomes, queue_vars, mm_vars
<1> QED BY <1>5, <1>6, <1>7, <1>8 DEF IInv, StackInv

\* A creation enters its protected section.
LEMMA CreateBeginStep ==
  ASSUME IInv, CreateBegin
  PROVE  IInv'
<1> DEFINE f == [top(cur) EXCEPT !.at = "alloc"]
<1>1. cur' = cur /\ UNCHANGED <<state, queue_vars, mm_vars>>
  BY DEF CreateBegin
<1>2. /\ f \in Frame
      /\ FrameOK(f, cur, Len(stack[cur]))
      /\ f.op = top(cur).op /\ f.at = "alloc" /\ f.arg = top(cur).arg
  BY CurProps DEF CreateBegin, Here, Frame, FrameOK, Pointers, Held, CreateHeld,
     SelectHeld, SwitchHeld, BasePlaces, CreatePlaces, SwitchPlaces, ExitPlaces
<1>3. CountBecomes(IF f.at \in Held THEN 1 ELSE 0)
  BY <1>2, CurProps DEF CreateBegin, Here, CountBecomes, preempt_disable, preempt_enable,
     TypeOK, Held, CreateHeld, SelectHeld, SwitchHeld, BasePlaces, CreatePlaces,
     SwitchPlaces, ExitPlaces
<1>4. stack' = [stack EXCEPT ![cur] = SetTop(@, f)]
  BY DEF CreateBegin, MoveTo
<1> HIDE DEF f
<1>5. /\ stack' \in [Tasks -> Seq(Frame)] /\ StackInv' /\ Live' = Live
      /\ top(cur)' = f /\ FramesFrom(f)
  BY <1>1, <1>2, <1>3, <1>4, CurProps, MoveInv
<1>6. QueuedLive' /\ NewTask' /\ RingInv' /\ AddressInv'
  BY <1>1, <1>2, <1>5, QuietInv DEF CreateBegin, Here, Busy
<1>7. NextQueued'
  <2>1. Queued' = Queued
    BY <1>1 DEF Queued
  <2>2. next' \in Queued \cup {NULL} /\ (next # NULL => next' # NULL) /\ SwitchArgOK(f, next', Queued')
    BY <1>2, <2>1, CurProps DEF CreateBegin, Here, SwitchArgOK
  <2> QED BY <1>5, <2>1, <2>2, CurProps, NextInv
<1>8. TypeOK'
  BY <1>1, <1>3, <1>5, CurProps DEF CreateBegin, TypeOK, CountBecomes, queue_vars, mm_vars
<1> QED BY <1>5, <1>6, <1>7, <1>8 DEF IInv, StackInv

\* schedule begins to select a task.
LEMMA ScheduleBeginStep ==
  ASSUME IInv, ScheduleBegin
  PROVE  IInv'
<1> DEFINE f == [top(cur) EXCEPT !.at = "select"]
<1>1. cur' = cur /\ UNCHANGED <<state, queue_vars, mm_vars>>
  BY DEF ScheduleBegin
<1>2. /\ f \in Frame
      /\ FrameOK(f, cur, Len(stack[cur]))
      /\ f.op = top(cur).op /\ f.at = "select" /\ f.arg = top(cur).arg
  BY CurProps DEF ScheduleBegin, Here, Frame, FrameOK, Pointers, Held, CreateHeld,
     SelectHeld, SwitchHeld, BasePlaces, CreatePlaces, SwitchPlaces, ExitPlaces
<1>3. CountBecomes(IF f.at \in Held THEN 1 ELSE 0)
  BY <1>2, CurProps DEF ScheduleBegin, Here, CountBecomes, preempt_disable,
     preempt_enable, TypeOK, Held, CreateHeld, SelectHeld, SwitchHeld, BasePlaces,
     CreatePlaces, SwitchPlaces, ExitPlaces
<1>4. stack' = [stack EXCEPT ![cur] = SetTop(@, f)]
  BY CurProps DEF ScheduleBegin, Here, MoveTo, Held, CreateHeld, SelectHeld, SwitchHeld,
     BasePlaces, CreatePlaces, SwitchPlaces, ExitPlaces
<1> HIDE DEF f
<1>5. /\ stack' \in [Tasks -> Seq(Frame)] /\ StackInv' /\ Live' = Live
      /\ top(cur)' = f /\ FramesFrom(f)
  BY <1>1, <1>2, <1>3, <1>4, CurProps, MoveInv
<1>6. QueuedLive' /\ NewTask' /\ RingInv' /\ AddressInv'
  BY <1>1, <1>2, <1>5, QuietInv DEF ScheduleBegin, Here, Busy
<1>7. NextQueued'
  <2>1. Queued' = Queued
    BY <1>1 DEF Queued
  <2>2. next' \in Queued \cup {NULL} /\ (next # NULL => next' # NULL) /\ SwitchArgOK(f, next', Queued')
    BY <1>2, <2>1, CurProps DEF ScheduleBegin, Here, SwitchArgOK
  <2> QED BY <1>5, <2>1, <2>2, CurProps, NextInv
<1>8. TypeOK'
  BY <1>1, <1>3, <1>5, CurProps DEF ScheduleBegin, TypeOK, CountBecomes, queue_vars, mm_vars
<1> QED BY <1>5, <1>6, <1>7, <1>8 DEF IInv, StackInv

\* select_next_task takes the successor of the running task.
LEMMA SelectNextStep ==
  ASSUME IInv, SelectNext
  PROVE  IInv'
<1> DEFINE f == [top(cur) EXCEPT !.at = "select_done"]
<1>0. list_next[cur] \in Queued /\ list_next[cur] # NULL
  BY Successor DEF SelectNext, Here, Busy
<1>1. cur' = cur /\ UNCHANGED <<state, queue_vars, mm_vars>>
  BY DEF SelectNext
<1>2. /\ f \in Frame
      /\ FrameOK(f, cur, Len(stack[cur]))
      /\ f.op = top(cur).op /\ f.at = "select_done" /\ f.arg = top(cur).arg
  BY CurProps DEF SelectNext, Here, Frame, FrameOK, Pointers, Held, CreateHeld,
     SelectHeld, SwitchHeld, BasePlaces, CreatePlaces, SwitchPlaces, ExitPlaces
<1>3. CountBecomes(IF f.at \in Held THEN 1 ELSE 0)
  BY <1>2, CurProps DEF SelectNext, Here, CountBecomes, preempt_disable, preempt_enable,
     TypeOK, Held, CreateHeld, SelectHeld, SwitchHeld, BasePlaces, CreatePlaces,
     SwitchPlaces, ExitPlaces
<1>4. stack' = [stack EXCEPT ![cur] = SetTop(@, f)]
  BY DEF SelectNext, MoveTo
<1> HIDE DEF f
<1>5. /\ stack' \in [Tasks -> Seq(Frame)] /\ StackInv' /\ Live' = Live
      /\ top(cur)' = f /\ FramesFrom(f)
  BY <1>1, <1>2, <1>3, <1>4, CurProps, MoveInv
<1>6. QueuedLive' /\ NewTask' /\ RingInv' /\ AddressInv'
  BY <1>1, <1>2, <1>5, QuietInv DEF SelectNext, Here, Busy
<1>7. NextQueued'
  <2>1. Queued' = Queued
    BY <1>1 DEF Queued
  <2>2. next' \in Queued \cup {NULL} /\ (next # NULL => next' # NULL) /\ SwitchArgOK(f, next', Queued')
    BY <1>2, <2>1, <1>0, CurProps DEF SelectNext, Here, SwitchArgOK
  <2> QED BY <1>5, <2>1, <2>2, CurProps, NextInv
<1>8. TypeOK'
  BY <1>1, <1>3, <1>5, CurProps DEF SelectNext, TypeOK, CountBecomes, queue_vars, mm_vars
<1> QED BY <1>5, <1>6, <1>7, <1>8 DEF IInv, StackInv

\* select_next_task leaves its protected section.
LEMMA SelectEndStep ==
  ASSUME IInv, SelectEnd
  PROVE  IInv'
<1> DEFINE f == [top(cur) EXCEPT !.at = "load_next"]
<1>1. cur' = cur /\ UNCHANGED <<state, queue_vars, mm_vars>>
  BY DEF SelectEnd
<1>2. /\ f \in Frame
      /\ FrameOK(f, cur, Len(stack[cur]))
      /\ f.op = top(cur).op /\ f.at = "load_next" /\ f.arg = top(cur).arg
  BY CurProps DEF SelectEnd, Here, Frame, FrameOK, Pointers, Held, CreateHeld,
     SelectHeld, SwitchHeld, BasePlaces, CreatePlaces, SwitchPlaces, ExitPlaces
<1>3. CountBecomes(IF f.at \in Held THEN 1 ELSE 0)
  BY <1>2, CurProps DEF SelectEnd, Here, CountBecomes, preempt_disable, preempt_enable,
     TypeOK, Held, CreateHeld, SelectHeld, SwitchHeld, BasePlaces, CreatePlaces,
     SwitchPlaces, ExitPlaces
<1>4. stack' = [stack EXCEPT ![cur] = SetTop(@, f)]
  BY DEF SelectEnd, MoveTo
<1> HIDE DEF f
<1>5. /\ stack' \in [Tasks -> Seq(Frame)] /\ StackInv' /\ Live' = Live
      /\ top(cur)' = f /\ FramesFrom(f)
  BY <1>1, <1>2, <1>3, <1>4, CurProps, MoveInv
<1>6. QueuedLive' /\ NewTask' /\ RingInv' /\ AddressInv'
  BY <1>1, <1>2, <1>5, QuietInv DEF SelectEnd, Here, Busy
<1>7. NextQueued'
  <2>1. Queued' = Queued
    BY <1>1 DEF Queued
  <2>2. next' \in Queued \cup {NULL} /\ (next # NULL => next' # NULL) /\ SwitchArgOK(f, next', Queued')
    BY <1>2, <2>1, CurProps DEF SelectEnd, Here, SwitchArgOK
  <2> QED BY <1>5, <2>1, <2>2, CurProps, NextInv
<1>8. TypeOK'
  BY <1>1, <1>3, <1>5, CurProps DEF SelectEnd, TypeOK, CountBecomes, queue_vars, mm_vars
<1> QED BY <1>5, <1>6, <1>7, <1>8 DEF IInv, StackInv

\* The argument of switch_to is loaded.
LEMMA LoadNextStep ==
  ASSUME IInv, LoadNext
  PROVE  IInv'
<1> DEFINE f == [top(cur) EXCEPT !.at = "switch_to", !.arg = next]
<1>1. cur' = cur /\ UNCHANGED <<state, queue_vars, mm_vars>>
  BY DEF LoadNext
<1>2. /\ f \in Frame
      /\ FrameOK(f, cur, Len(stack[cur]))
      /\ f.op = top(cur).op /\ f.at = "switch_to" /\ f.arg = next
  BY CurProps DEF LoadNext, TypeOK, Here, Frame, FrameOK, Pointers, Held, CreateHeld,
     SelectHeld, SwitchHeld, BasePlaces, CreatePlaces, SwitchPlaces, ExitPlaces
<1>3. CountBecomes(IF f.at \in Held THEN 1 ELSE 0)
  BY <1>2, CurProps DEF LoadNext, Here, CountBecomes, preempt_disable, preempt_enable,
     TypeOK, Held, CreateHeld, SelectHeld, SwitchHeld, BasePlaces, CreatePlaces,
     SwitchPlaces, ExitPlaces
<1>4. stack' = [stack EXCEPT ![cur] = SetTop(@, f)]
  BY DEF LoadNext, MoveTo
<1> HIDE DEF f
<1>5. /\ stack' \in [Tasks -> Seq(Frame)] /\ StackInv' /\ Live' = Live
      /\ top(cur)' = f /\ FramesFrom(f)
  BY <1>1, <1>2, <1>3, <1>4, CurProps, MoveInv
<1>6. QueuedLive' /\ NewTask' /\ RingInv' /\ AddressInv'
  BY <1>1, <1>2, <1>5, QuietInv DEF LoadNext, Here, Busy
<1>7. NextQueued'
  <2>1. Queued' = Queued
    BY <1>1 DEF Queued
  <2>2. next' \in Queued \cup {NULL} /\ (next # NULL => next' # NULL) /\ SwitchArgOK(f, next', Queued')
    BY <1>2, <2>1, CurProps DEF LoadNext, Here, SwitchArgOK
  <2> QED BY <1>5, <2>1, <2>2, CurProps, NextInv
<1>8. TypeOK'
  BY <1>1, <1>3, <1>5, CurProps DEF LoadNext, TypeOK, CountBecomes, queue_vars, mm_vars
<1> QED BY <1>5, <1>6, <1>7, <1>8 DEF IInv, StackInv

\* switch_to enters its protected section.
LEMMA SwitchBeginStep ==
  ASSUME IInv, SwitchBegin
  PROVE  IInv'
<1> DEFINE f == [top(cur) EXCEPT !.at = "check"]
<1>1. cur' = cur /\ UNCHANGED <<state, queue_vars, mm_vars>>
  BY DEF SwitchBegin
<1>2. /\ f \in Frame
      /\ FrameOK(f, cur, Len(stack[cur]))
      /\ f.op = top(cur).op /\ f.at = "check" /\ f.arg = top(cur).arg
  BY CurProps DEF SwitchBegin, Here, Frame, FrameOK, Pointers, Held, CreateHeld,
     SelectHeld, SwitchHeld, BasePlaces, CreatePlaces, SwitchPlaces, ExitPlaces
<1>3. CountBecomes(IF f.at \in Held THEN 1 ELSE 0)
  BY <1>2, CurProps DEF SwitchBegin, Here, CountBecomes, preempt_disable, preempt_enable,
     TypeOK, Held, CreateHeld, SelectHeld, SwitchHeld, BasePlaces, CreatePlaces,
     SwitchPlaces, ExitPlaces
<1>4. stack' = [stack EXCEPT ![cur] = SetTop(@, f)]
  BY DEF SwitchBegin, MoveTo
<1> HIDE DEF f
<1>5. /\ stack' \in [Tasks -> Seq(Frame)] /\ StackInv' /\ Live' = Live
      /\ top(cur)' = f /\ FramesFrom(f)
  BY <1>1, <1>2, <1>3, <1>4, CurProps, MoveInv
<1>6. QueuedLive' /\ NewTask' /\ RingInv' /\ AddressInv'
  BY <1>1, <1>2, <1>5, QuietInv DEF SwitchBegin, Here, Busy
<1>7. NextQueued'
  <2>1. Queued' = Queued
    BY <1>1 DEF Queued
  <2>2. next' \in Queued \cup {NULL} /\ (next # NULL => next' # NULL) /\ SwitchArgOK(f, next', Queued')
    BY <1>2, <2>1, CurProps DEF SwitchBegin, Here, SwitchArgOK
  <2> QED BY <1>5, <2>1, <2>2, CurProps, NextInv
<1>8. TypeOK'
  BY <1>1, <1>3, <1>5, CurProps DEF SwitchBegin, TypeOK, CountBecomes, queue_vars, mm_vars
<1> QED BY <1>5, <1>6, <1>7, <1>8 DEF IInv, StackInv

\* switch_to leaves its protected section.
LEMMA SwitchEndStep ==
  ASSUME IInv, SwitchEnd
  PROVE  IInv'
<1> DEFINE f == [top(cur) EXCEPT !.at = "ret"]
<1>1. cur' = cur /\ UNCHANGED <<state, queue_vars, mm_vars>>
  BY DEF SwitchEnd
<1>2. /\ f \in Frame
      /\ FrameOK(f, cur, Len(stack[cur]))
      /\ f.op = top(cur).op /\ f.at = "ret" /\ f.arg = top(cur).arg
  BY CurProps DEF SwitchEnd, Here, Frame, FrameOK, Pointers, Held, CreateHeld,
     SelectHeld, SwitchHeld, BasePlaces, CreatePlaces, SwitchPlaces, ExitPlaces
<1>3. CountBecomes(IF f.at \in Held THEN 1 ELSE 0)
  BY <1>2, CurProps DEF SwitchEnd, Here, CountBecomes, preempt_disable, preempt_enable,
     TypeOK, Held, CreateHeld, SelectHeld, SwitchHeld, BasePlaces, CreatePlaces,
     SwitchPlaces, ExitPlaces
<1>4. stack' = [stack EXCEPT ![cur] = SetTop(@, f)]
  BY DEF SwitchEnd, MoveTo
<1> HIDE DEF f
<1>5. /\ stack' \in [Tasks -> Seq(Frame)] /\ StackInv' /\ Live' = Live
      /\ top(cur)' = f /\ FramesFrom(f)
  BY <1>1, <1>2, <1>3, <1>4, CurProps, MoveInv
<1>6. QueuedLive' /\ NewTask' /\ RingInv' /\ AddressInv'
  BY <1>1, <1>2, <1>5, QuietInv DEF SwitchEnd, Here, Busy
<1>7. NextQueued'
  <2>1. Queued' = Queued
    BY <1>1 DEF Queued
  <2>2. next' \in Queued \cup {NULL} /\ (next # NULL => next' # NULL) /\ SwitchArgOK(f, next', Queued')
    BY <1>2, <2>1, CurProps DEF SwitchEnd, Here, SwitchArgOK
  <2> QED BY <1>5, <2>1, <2>2, CurProps, NextInv
<1>8. TypeOK'
  BY <1>1, <1>3, <1>5, CurProps DEF SwitchEnd, TypeOK, CountBecomes, queue_vars, mm_vars
<1> QED BY <1>5, <1>6, <1>7, <1>8 DEF IInv, StackInv

\* A process enters sys_execv.
LEMMA SysExecvStep ==
  ASSUME IInv, SysExecv
  PROVE  IInv'
<1> DEFINE f == frame("execv", "create")
<1>1. cur' = cur /\ UNCHANGED <<state, preempt_count, queue_vars, mm_vars>>
  BY DEF SysExecv
<1>2. top(cur).at \notin Held /\ top(cur).at \notin Busy
  BY CurProps DEF SysExecv, Here, Busy, Held, CreateHeld, SelectHeld, SwitchHeld,
     BasePlaces, CreatePlaces, SwitchPlaces, ExitPlaces
<1>3. /\ f \in Frame /\ f.op = "execv" /\ f.at = "create"
  BY FrameProps DEF Held, CreateHeld, SelectHeld, SwitchHeld, BasePlaces, CreatePlaces,
     SwitchPlaces, ExitPlaces
<1>4. stack' = [stack EXCEPT ![cur] = Push(@, f)]
  BY DEF SysExecv, Call
<1> HIDE DEF f
<1>5. FrameOK(f, cur, Len(stack[cur]) + 1) /\ f.at \notin Held
  BY <1>3, CurProps DEF FrameOK, Held, CreateHeld, SelectHeld, SwitchHeld, BasePlaces,
     CreatePlaces, SwitchPlaces, ExitPlaces
<1>6. /\ stack' \in [Tasks -> Seq(Frame)] /\ StackInv' /\ Live' = Live
      /\ top(cur)' = f /\ FramesFrom(f)
  BY <1>1, <1>2, <1>3, <1>4, <1>5, CurProps, CallInv
<1>7. QueuedLive' /\ NewTask' /\ RingInv' /\ AddressInv'
  BY <1>1, <1>2, <1>3, <1>6, QuietInv DEF Busy
<1>8. NextQueued'
  <2>1. Queued' = Queued
    BY <1>1 DEF Queued
  <2>2. next' \in Queued \cup {NULL} /\ (next # NULL => next' # NULL)
    BY CurProps DEF SysExecv
  <2>4. SwitchArgOK(f, next', Queued')
    BY <1>3 DEF SysExecv, SwitchArgOK
  <2> QED BY <1>6, <2>1, <2>2, <2>4, CurProps, NextInv
<1>9. TypeOK'
  BY <1>1, <1>6, CurProps DEF SysExecv, TypeOK, queue_vars, mm_vars
<1> QED BY <1>6, <1>7, <1>8, <1>9 DEF IInv, StackInv

\* A process enters sys_exit.
LEMMA SysExitStep ==
  ASSUME IInv, SysExit
  PROVE  IInv'
<1> DEFINE f == frame("exit", "zombie")
<1>1. cur' = cur /\ UNCHANGED <<state, preempt_count, queue_vars, mm_vars>>
  BY DEF SysExit
<1>2. top(cur).at \notin Held /\ top(cur).at \notin Busy
  BY CurProps DEF SysExit, Here, Busy, Held, CreateHeld, SelectHeld, SwitchHeld,
     BasePlaces, CreatePlaces, SwitchPlaces, ExitPlaces
<1>3. /\ f \in Frame /\ f.op = "exit" /\ f.at = "zombie"
  BY FrameProps DEF Held, CreateHeld, SelectHeld, SwitchHeld, BasePlaces, CreatePlaces,
     SwitchPlaces, ExitPlaces
<1>4. stack' = [stack EXCEPT ![cur] = Push(@, f)]
  BY DEF SysExit, Call
<1> HIDE DEF f
<1>5. FrameOK(f, cur, Len(stack[cur]) + 1) /\ f.at \notin Held
  BY <1>3, CurProps DEF FrameOK, Held, CreateHeld, SelectHeld, SwitchHeld, BasePlaces,
     CreatePlaces, SwitchPlaces, ExitPlaces
<1>6. /\ stack' \in [Tasks -> Seq(Frame)] /\ StackInv' /\ Live' = Live
      /\ top(cur)' = f /\ FramesFrom(f)
  BY <1>1, <1>2, <1>3, <1>4, <1>5, CurProps, CallInv
<1>7. QueuedLive' /\ NewTask' /\ RingInv' /\ AddressInv'
  BY <1>1, <1>2, <1>3, <1>6, QuietInv DEF Busy
<1>8. NextQueued'
  <2>1. Queued' = Queued
    BY <1>1 DEF Queued
  <2>2. next' \in Queued \cup {NULL} /\ (next # NULL => next' # NULL)
    BY CurProps DEF SysExit
  <2>4. SwitchArgOK(f, next', Queued')
    BY <1>3 DEF SysExit, SwitchArgOK
  <2> QED BY <1>6, <2>1, <2>2, <2>4, CurProps, NextInv
<1>9. TypeOK'
  BY <1>1, <1>6, CurProps DEF SysExit, TypeOK, queue_vars, mm_vars
<1> QED BY <1>6, <1>7, <1>8, <1>9 DEF IInv, StackInv

\* A tick preempts preemptible code and selects its successor.
LEMMA scheduler_tickStep ==
  ASSUME IInv, scheduler_tick
  PROVE  IInv'
<1> DEFINE f == frame("tick", "load_next")
<1>1. cur' = cur /\ UNCHANGED <<state, preempt_count, queue_vars, mm_vars>>
  BY DEF scheduler_tick
<1>2. top(cur).at \notin Held /\ top(cur).at \notin Busy
  BY CurProps DEF scheduler_tick, Here, Busy, Held, CreateHeld, SelectHeld, SwitchHeld,
     BasePlaces, CreatePlaces, SwitchPlaces, ExitPlaces
<1>3. /\ f \in Frame /\ f.op = "tick" /\ f.at = "load_next"
  BY FrameProps DEF Held, CreateHeld, SelectHeld, SwitchHeld, BasePlaces, CreatePlaces,
     SwitchPlaces, ExitPlaces
<1>4. stack' = [stack EXCEPT ![cur] = Push(@, f)]
  BY DEF scheduler_tick, Call
<1> HIDE DEF f
<1>5. FrameOK(f, cur, Len(stack[cur]) + 1) /\ f.at \notin Held
  BY <1>3, CurProps DEF FrameOK, Held, CreateHeld, SelectHeld, SwitchHeld, BasePlaces,
     CreatePlaces, SwitchPlaces, ExitPlaces
<1>6. /\ stack' \in [Tasks -> Seq(Frame)] /\ StackInv' /\ Live' = Live
      /\ top(cur)' = f /\ FramesFrom(f)
  BY <1>1, <1>2, <1>3, <1>4, <1>5, CurProps, CallInv
<1>7. QueuedLive' /\ NewTask' /\ RingInv' /\ AddressInv'
  BY <1>1, <1>2, <1>3, <1>6, QuietInv DEF Busy
<1>8. NextQueued'
  <2>1. Queued' = Queued
    BY <1>1 DEF Queued
  <2>3. list_next[cur] \in Queued /\ list_next[cur] # NULL /\ next' = list_next[cur]
    BY <1>2, Successor DEF scheduler_tick
  <2>2. next' \in Queued \cup {NULL} /\ (next # NULL => next' # NULL)
    BY <2>3 DEF scheduler_tick
  <2>4. SwitchArgOK(f, next', Queued')
    BY <1>3, <2>3 DEF scheduler_tick, SwitchArgOK
  <2> QED BY <1>6, <2>1, <2>2, <2>4, CurProps, NextInv
<1>9. TypeOK'
  BY <1>1, <1>6, CurProps DEF scheduler_tick, TypeOK, queue_vars, mm_vars
<1> QED BY <1>6, <1>7, <1>8, <1>9 DEF IInv, StackInv

\* A creation leaves its protected section and returns.
LEMMA CreateEndStep ==
  ASSUME IInv, CreateEnd
  PROVE  IInv'
<1>1. cur' = cur /\ UNCHANGED <<next, state, queue_vars, mm_vars>>
  BY DEF CreateEnd
<1>2. top(cur).op # "base" /\ top(cur).at \notin Busy
  BY DEF CreateEnd, Here, Busy
<1>3. CountBecomes(0)
  BY CurProps DEF CreateEnd, Here, CountBecomes, preempt_enable, TypeOK, Held,
     CreateHeld, SelectHeld, SwitchHeld, BasePlaces, CreatePlaces, SwitchPlaces, ExitPlaces
<1>4. Return
  BY DEF CreateEnd
<1>5. /\ stack' \in [Tasks -> Seq(Frame)] /\ StackInv' /\ Live' = Live
      /\ top(cur)'.at \notin Held /\ FramesFrom(top(cur))
  BY <1>1, <1>2, <1>3, <1>4, CurProps, ReturnInv
<1>6. top(cur)'.at \notin Busy \cup {"create_done"}
  BY <1>5 DEF Busy, Held, CreateHeld, SelectHeld, SwitchHeld, BasePlaces, CreatePlaces,
     SwitchPlaces, ExitPlaces
<1>7. QueuedLive' /\ NewTask' /\ RingInv' /\ AddressInv'
  BY <1>1, <1>2, <1>5, <1>6, QuietInv
<1>8. NextQueued'
  <2>1. Queued' = Queued
    BY <1>1 DEF Queued
  <2> QED BY <1>1, <1>5, <2>1, CurProps, NextInv
<1>9. TypeOK'
  BY <1>1, <1>3, <1>5, CurProps DEF CreateEnd, TypeOK, CountBecomes, queue_vars, mm_vars
<1> QED BY <1>5, <1>7, <1>8, <1>9 DEF IInv, StackInv

\* A tick or sys_exit returns to what it interrupted.
LEMMA SwitchReturnStep ==
  ASSUME IInv, SwitchReturn
  PROVE  IInv'
<1>1. cur' = cur /\ UNCHANGED <<next, state, queue_vars, mm_vars>>
  BY DEF SwitchReturn
<1>2. top(cur).op # "base" /\ top(cur).at \notin Busy
  BY DEF SwitchReturn, Here, Busy
<1>3. CountBecomes(0)
  BY CurProps DEF SwitchReturn, Here, CountBecomes, preempt_enable, TypeOK, Held,
     CreateHeld, SelectHeld, SwitchHeld, BasePlaces, CreatePlaces, SwitchPlaces, ExitPlaces
<1>4. Return
  BY DEF SwitchReturn
<1>5. /\ stack' \in [Tasks -> Seq(Frame)] /\ StackInv' /\ Live' = Live
      /\ top(cur)'.at \notin Held /\ FramesFrom(top(cur))
  BY <1>1, <1>2, <1>3, <1>4, CurProps, ReturnInv
<1>6. top(cur)'.at \notin Busy \cup {"create_done"}
  BY <1>5 DEF Busy, Held, CreateHeld, SelectHeld, SwitchHeld, BasePlaces, CreatePlaces,
     SwitchPlaces, ExitPlaces
<1>7. QueuedLive' /\ NewTask' /\ RingInv' /\ AddressInv'
  BY <1>1, <1>2, <1>5, <1>6, QuietInv
<1>8. NextQueued'
  <2>1. Queued' = Queued
    BY <1>1 DEF Queued
  <2> QED BY <1>1, <1>5, <2>1, CurProps, NextInv
<1>9. TypeOK'
  BY <1>1, <1>3, <1>5, CurProps DEF SwitchReturn, TypeOK, CountBecomes, queue_vars, mm_vars
<1> QED BY <1>5, <1>7, <1>8, <1>9 DEF IInv, StackInv

\* A boot step that moves the base activation to g and calls f keeps the
\* stack invariants and adds no activation that holds a switch target.
LEMMA BootCallInv ==
  ASSUME IInv, cur' = cur, NEW g \in Frame, NEW f \in Frame,
         FrameOK(g, cur, Len(stack[cur])), FrameOK(f, cur, Len(stack[cur]) + 1),
         g.op \notin {"tick", "exit"}, f.op \notin {"tick", "exit"},
         top(cur).at \notin Held \cup Busy, g.at \notin Held,
         f.at \notin Held \cup Busy,
         UNCHANGED <<next, state, preempt_count, queue_vars, mm_vars, irq_on>>,
         stack' = [stack EXCEPT ![cur] = Push(SetTop(@, g), f)]
  PROVE  IInv'
<1> DEFINE n == Len(stack[cur])
<1>1. /\ cur \in Tasks /\ n \in Nat /\ n >= 1
      /\ stack[cur] \in Seq(Frame) /\ stack[cur] # << >>
  BY CurProps DEF Live
<1>2. /\ stack'[cur] = Push(SetTop(stack[cur], g), f)
      /\ \A t \in Tasks : t # cur => stack'[t] = stack[t]
  BY CurProps DEF TypeOK
<1>3. /\ SetTop(stack[cur], g) \in Seq(Frame)
      /\ Len(SetTop(stack[cur], g)) = n
      /\ \A i \in 1..n : SetTop(stack[cur], g)[i] = IF i = n THEN g ELSE stack[cur][i]
  <2> DEFINE s == stack[cur]
             r == SetTop(s, g)
  <2>1. /\ r \in Seq(Frame) /\ Len(r) = Len(s) /\ r[Len(s)] = g
        /\ \A i \in 1..Len(s) : i # Len(s) => r[i] = s[i]
    BY <1>1, SetTopProps
  <2> QED BY <2>1
<1>4. /\ stack'[cur] \in Seq(Frame) /\ stack'[cur] # << >>
      /\ Len(stack'[cur]) = n + 1
      /\ stack'[cur][n + 1] = f
      /\ \A i \in 1..n : stack'[cur][i] = IF i = n THEN g ELSE stack[cur][i]
  <2> DEFINE s == SetTop(stack[cur], g)
             r == Push(s, f)
  <2>1. /\ r \in Seq(Frame) /\ r # << >> /\ Len(r) = Len(s) + 1
        /\ r[Len(s) + 1] = f /\ \A i \in 1..Len(s) : r[i] = s[i]
    BY <1>3, PushProps
  <2> HIDE DEF s, r
  <2> QED BY <1>1, <1>2, <1>3, <2>1 DEF s, r
<1>5. stack' \in [Tasks -> Seq(Frame)] /\ Live' = Live
  BY <1>1, <1>2, <1>4, CurProps DEF TypeOK, Live
<1>6. top(cur)' = f
  BY <1>1, <1>4 DEF top
<1>7. StackShape'
  <2> SUFFICES ASSUME NEW t \in Tasks, NEW i \in 1..Len(stack'[t])
               PROVE  FrameOK(stack'[t][i], t, i)
    BY DEF StackShape, FrameOK
  <2>1. CASE t = cur
    BY <2>1, <1>1, <1>4, CurProps DEF StackInv, StackShape
  <2>2. CASE t # cur
    BY <2>2, <1>2, CurProps DEF StackInv, StackShape
  <2> QED BY <2>1, <2>2
<1>8. PreemptExact'
  <2> SUFFICES ASSUME NEW t \in Tasks
               PROVE  /\ preempt_count[t] =
                           IF t \in Live /\ top(t)'.at \in Held THEN 1 ELSE 0
                      /\ \A i \in 1..(Len(stack'[t]) - 1) : stack'[t][i].at \notin Held
    BY <1>5 DEF PreemptExact
  <2>1. CASE t = cur
    BY <2>1, <1>1, <1>4, <1>6, CurProps DEF StackInv, PreemptExact
  <2>2. CASE t # cur
    BY <2>2, <1>2, CurProps DEF StackInv, PreemptExact, top
  <2> QED BY <2>1, <2>2
<1>9. Parked'
  <2> SUFFICES ASSUME NEW t \in Live, t # cur
               PROVE  \/ top(t)'.at = "out"
                      \/ Len(stack'[t]) = 1 /\ top(t)'.at = "ret_from_fork"
    BY <1>5 DEF Parked
  <2>1. t \in Tasks /\ stack'[t] = stack[t]
    BY <1>2 DEF Live
  <2> QED BY <2>1, CurProps DEF StackInv, Parked, top
<1>10. QueuedLive' /\ NewTask' /\ RingInv' /\ AddressInv'
  <2>1. top(cur)'.at \notin Busy \cup {"create_done"}
    BY <1>6 DEF Held, CreateHeld
  <2> QED BY <1>5, <2>1, QuietInv
<1>11. NextQueued'
  <2>1. Queued' = Queued
    BY DEF Queued
  <2> SUFFICES ASSUME NEW t \in Tasks, NEW i \in 1..Len(stack'[t])
               PROVE  SwitchArgOK(stack'[t][i], next, Queued)
    BY <2>1, CurProps DEF NextQueued
  <2>2. CASE t = cur
    BY <2>2, <1>1, <1>4, CurProps DEF NextQueued, SwitchArgOK
  <2>3. CASE t # cur
    BY <2>3, <1>2, CurProps DEF NextQueued
  <2> QED BY <2>2, <2>3
<1>12. TypeOK'
  BY <1>5, CurProps DEF TypeOK, queue_vars, mm_vars
<1> QED BY <1>7, <1>8, <1>9, <1>10, <1>11, <1>12 DEF IInv

\* init_main calls kthread_create.
LEMMA BootKthreadStep ==
  ASSUME IInv, BootKthread
  PROVE  IInv'
<1> DEFINE g == frame("base", "boot_execv")
           f == frame("kthread", "create")
<1>1. /\ g \in Frame /\ g.op = "base" /\ g.at = "boot_execv"
      /\ f \in Frame /\ f.op = "kthread" /\ f.at = "create"
  BY FrameProps DEF BasePlaces, CreatePlaces
<1>2. stack' = [stack EXCEPT ![cur] = Push(SetTop(@, g), f)]
  BY DEF BootKthread
<1> HIDE DEF f, g
<1>3. FrameOK(g, cur, Len(stack[cur])) /\ FrameOK(f, cur, Len(stack[cur]) + 1)
  BY <1>1, CurProps DEF BootKthread, Here, FrameOK, BasePlaces, CreatePlaces
<1>4. /\ top(cur).at \notin Held \cup Busy /\ g.at \notin Held
      /\ f.at \notin Held \cup Busy
  BY <1>1 DEF BootKthread, Here, Held, CreateHeld, SelectHeld, SwitchHeld, Busy
<1>5. /\ cur' = cur
      /\ UNCHANGED <<next, state, preempt_count, queue_vars, mm_vars, irq_on>>
  BY DEF BootKthread
<1> QED BY <1>1, <1>2, <1>3, <1>4, <1>5, BootCallInv

\* init_main calls sys_execv.
LEMMA BootExecvStep ==
  ASSUME IInv, BootExecv
  PROVE  IInv'
<1> DEFINE g == frame("base", "boot_irq")
           f == frame("execv", "create")
<1>1. /\ g \in Frame /\ g.op = "base" /\ g.at = "boot_irq"
      /\ f \in Frame /\ f.op = "execv" /\ f.at = "create"
  BY FrameProps DEF BasePlaces, CreatePlaces
<1>2. stack' = [stack EXCEPT ![cur] = Push(SetTop(@, g), f)]
  BY DEF BootExecv
<1> HIDE DEF f, g
<1>3. FrameOK(g, cur, Len(stack[cur])) /\ FrameOK(f, cur, Len(stack[cur]) + 1)
  BY <1>1, CurProps DEF BootExecv, Here, FrameOK, BasePlaces, CreatePlaces
<1>4. /\ top(cur).at \notin Held \cup Busy /\ g.at \notin Held
      /\ f.at \notin Held \cup Busy
  BY <1>1 DEF BootExecv, Here, Held, CreateHeld, SelectHeld, SwitchHeld, Busy
<1>5. /\ cur' = cur
      /\ UNCHANGED <<next, state, preempt_count, queue_vars, mm_vars, irq_on>>
  BY DEF BootExecv
<1> QED BY <1>1, <1>2, <1>3, <1>4, <1>5, BootCallInv

\* A new task starts: a process loads its own page table and goes to EL0.
LEMMA ret_from_forkStep ==
  ASSUME IInv, ret_from_fork
  PROVE  IInv'
<1> DEFINE f == [top(cur) EXCEPT !.at = IF cur \in UTasks THEN "user" ELSE "kernel"]
<1>1. /\ f \in Frame
      /\ FrameOK(f, cur, Len(stack[cur]))
      /\ f.op = "base" /\ f.at \in {"user", "kernel"}
  BY CurProps DEF ret_from_fork, TypeOK, Here, Frame, FrameOK, Held, CreateHeld,
     SelectHeld, SwitchHeld, BasePlaces, CreatePlaces, SwitchPlaces, ExitPlaces
<1>2. CountBecomes(IF f.at \in Held THEN 1 ELSE 0)
  BY <1>1, CurProps DEF ret_from_fork, Here, CountBecomes, preempt_disable, TypeOK, Held,
     CreateHeld, SelectHeld, SwitchHeld, BasePlaces, CreatePlaces, SwitchPlaces, ExitPlaces
<1>3. cur' = cur /\ stack' = [stack EXCEPT ![cur] = SetTop(@, f)]
  BY DEF ret_from_fork, MoveTo
<1> HIDE DEF f
<1>4. /\ stack' \in [Tasks -> Seq(Frame)] /\ StackInv' /\ Live' = Live
      /\ top(cur)' = f /\ FramesFrom(f)
  BY <1>1, <1>2, <1>3, CurProps, MoveInv
<1>5. Queued' = Queued
  BY DEF ret_from_fork, Queued
<1>6. NextQueued'
  <2>1. SwitchArgOK(f, next', Queued') /\ next' = next
    BY <1>1, <1>5, CurProps DEF ret_from_fork, Here, SwitchArgOK
  <2> QED BY <1>4, <1>5, <2>1, CurProps, NextInv
<1>7. QueuedLive'
  BY <1>3, <1>4, <1>5 DEF IInv, QueuedLive
<1>8. NewTask'
  BY <1>1, <1>4 DEF NewTask, CreateHeld
<1>9. RingInv'
  <2>1. Ring(list_next, list_prev, Queued)
    BY DEF IInv, RingInv, ret_from_fork, Here
  <2>2. Ring(list_next, list_prev, Queued)'
    BY <2>1, <1>5 DEF Ring, ret_from_fork, queue_vars
  <2> QED BY <1>1, <1>4, <2>2 DEF RingInv
<1>10. AddressInv'
  <2>1. cur \in UTasks => ttbr0' = cur
    BY CurProps, TasksAssumption DEF ret_from_fork, switch_mm, mm
  <2> QED BY <1>1, <1>3, <1>4, <1>5, <2>1 DEF IInv, AddressInv, ret_from_fork
<1>11. TypeOK'
  BY <1>1, <1>2, <1>3, <1>4, CurProps DEF ret_from_fork, TypeOK, CountBecomes,
     queue_vars, mm_vars, Pointers, switch_mm, mm
<1> QED BY <1>4, <1>6, <1>7, <1>8, <1>9, <1>10, <1>11 DEF IInv, StackInv

\* The program is copied into the new address space, not into another.
LEMMA CreateCopyStep ==
  ASSUME IInv, CreateCopy
  PROVE  IInv'
<1> DEFINE f == [top(cur) EXCEPT !.at = "mm_back"]
<1>1. /\ f \in Frame
      /\ FrameOK(f, cur, Len(stack[cur]))
      /\ f.op = "execv" /\ f.at = "mm_back" /\ f.arg = top(cur).arg
  BY CurProps DEF CreateCopy, TypeOK, Here, Frame, FrameOK, Held, CreateHeld, SelectHeld,
     SwitchHeld, BasePlaces, CreatePlaces, SwitchPlaces, ExitPlaces
<1>2. CountBecomes(IF f.at \in Held THEN 1 ELSE 0)
  BY <1>1, CurProps DEF CreateCopy, Here, CountBecomes, preempt_disable, TypeOK, Held,
     CreateHeld, SelectHeld, SwitchHeld, BasePlaces, CreatePlaces, SwitchPlaces, ExitPlaces
<1>3. cur' = cur /\ stack' = [stack EXCEPT ![cur] = SetTop(@, f)]
  BY DEF CreateCopy, MoveTo
<1> HIDE DEF f
<1>4. /\ stack' \in [Tasks -> Seq(Frame)] /\ StackInv' /\ Live' = Live
      /\ top(cur)' = f /\ FramesFrom(f)
  BY <1>1, <1>2, <1>3, CurProps, MoveInv
<1>5. Queued' = Queued
  BY DEF CreateCopy, Queued
<1>6. NextQueued'
  <2>1. SwitchArgOK(f, next', Queued') /\ next' = next
    BY <1>1, <1>5, CurProps DEF CreateCopy, Here, SwitchArgOK
  <2> QED BY <1>4, <1>5, <2>1, CurProps, NextInv
<1>7. QueuedLive'
  BY <1>3, <1>4, <1>5 DEF IInv, QueuedLive
<1>8. NewTask'
  BY <1>1, <1>4, <1>5 DEF IInv, NewTask, CreateHeld, CreateCopy, Here
<1>9. RingInv'
  <2>1. Ring(list_next, list_prev, Queued)
    BY DEF IInv, RingInv, CreateCopy, Here
  <2>2. Ring(list_next, list_prev, Queued)'
    BY <2>1, <1>5 DEF Ring, CreateCopy, queue_vars
  <2> QED BY <1>1, <1>4, <2>2 DEF RingInv
<1>10. AddressInv'
  <2>1. ttbr0 = top(cur).arg /\ top(cur).arg \in Tasks /\ top(cur).arg \notin Queued
    BY DEF IInv, AddressInv, NewTask, CreateCopy, Here, CreateHeld, Tasks
  <2>2. image' = [image EXCEPT ![top(cur).arg] = top(cur).arg] /\ ttbr0' = ttbr0
    BY <2>1 DEF CreateCopy
  <2> QED BY <1>1, <1>3, <1>4, <1>5, <2>1, <2>2, CurProps
        DEF IInv, AddressInv, TypeOK
<1>11. TypeOK'
  BY <1>1, <1>2, <1>3, <1>4, CurProps DEF CreateCopy, TypeOK, CountBecomes, queue_vars,
     mm_vars, Pointers, Frame
<1> QED BY <1>4, <1>6, <1>7, <1>8, <1>9, <1>10, <1>11 DEF IInv, StackInv

\* copy_process goes back to the address space of its caller.
LEMMA CreateMmBackStep ==
  ASSUME IInv, CreateMmBack
  PROVE  IInv'
<1> DEFINE f == [top(cur) EXCEPT !.at = "add_next_prev"]
<1>1. /\ f \in Frame
      /\ FrameOK(f, cur, Len(stack[cur]))
      /\ f.op = "execv" /\ f.at = "add_next_prev" /\ f.arg = top(cur).arg
  BY CurProps DEF CreateMmBack, TypeOK, Here, Frame, FrameOK, Held, CreateHeld,
     SelectHeld, SwitchHeld, BasePlaces, CreatePlaces, SwitchPlaces, ExitPlaces
<1>2. CountBecomes(IF f.at \in Held THEN 1 ELSE 0)
  BY <1>1, CurProps DEF CreateMmBack, Here, CountBecomes, preempt_disable, TypeOK, Held,
     CreateHeld, SelectHeld, SwitchHeld, BasePlaces, CreatePlaces, SwitchPlaces, ExitPlaces
<1>3. cur' = cur /\ stack' = [stack EXCEPT ![cur] = SetTop(@, f)]
  BY DEF CreateMmBack, MoveTo
<1> HIDE DEF f
<1>4. /\ stack' \in [Tasks -> Seq(Frame)] /\ StackInv' /\ Live' = Live
      /\ top(cur)' = f /\ FramesFrom(f)
  BY <1>1, <1>2, <1>3, CurProps, MoveInv
<1>5. Queued' = Queued
  BY DEF CreateMmBack, Queued
<1>6. NextQueued'
  <2>1. SwitchArgOK(f, next', Queued') /\ next' = next
    BY <1>1, <1>5, CurProps DEF CreateMmBack, Here, SwitchArgOK
  <2> QED BY <1>4, <1>5, <2>1, CurProps, NextInv
<1>7. QueuedLive'
  BY <1>3, <1>4, <1>5 DEF IInv, QueuedLive
<1>8. NewTask'
  BY <1>1, <1>4, <1>5 DEF IInv, NewTask, CreateHeld, CreateMmBack, Here
<1>9. RingInv'
  <2>1. Ring(list_next, list_prev, Queued)
    BY DEF IInv, RingInv, CreateMmBack, Here
  <2>2. Ring(list_next, list_prev, Queued)'
    BY <2>1, <1>5 DEF Ring, CreateMmBack, queue_vars
  <2> QED BY <1>1, <1>4, <2>2 DEF RingInv
<1>10. AddressInv'
  <2>1. cur \in UTasks => ttbr0' = cur
    BY CurProps, TasksAssumption DEF CreateMmBack, switch_mm, mm
  <2> QED BY <1>1, <1>3, <1>4, <1>5, <2>1
        DEF IInv, AddressInv, CreateMmBack, Here, CreateHeld
<1>11. TypeOK'
  BY <1>1, <1>2, <1>3, <1>4, CurProps DEF CreateMmBack, TypeOK, CountBecomes, queue_vars,
     mm_vars, Pointers, switch_mm, mm
<1> QED BY <1>4, <1>6, <1>7, <1>8, <1>9, <1>10, <1>11 DEF IInv, StackInv

\* First store of __list_add: the head's list.prev.
LEMMA AddNextPrevStep ==
  ASSUME IInv, AddNextPrev
  PROVE  IInv'
<1> DEFINE f == [top(cur) EXCEPT !.at = "add_new_next", !.prev = list_prev[init_task]]
<1>0. /\ top(cur).arg \in Tasks /\ top(cur).arg \notin Queued
      /\ top(cur).arg # init_task /\ init_task \in Queued /\ init_task \in Tasks
  BY DEF IInv, NewTask, QueuedLive, AddNextPrev, Here, CreateHeld, Live, Queued
<1>1. /\ f \in Frame
      /\ FrameOK(f, cur, Len(stack[cur]))
      /\ f.op = top(cur).op /\ f.at = "add_new_next" /\ f.arg = top(cur).arg
      /\ f.prev = list_prev[init_task]
  BY CurProps, <1>0 DEF AddNextPrev, TypeOK, Here, Frame, FrameOK, Held, CreateHeld,
     SelectHeld, SwitchHeld, BasePlaces, CreatePlaces, SwitchPlaces, ExitPlaces
<1>2. CountBecomes(IF f.at \in Held THEN 1 ELSE 0)
  BY <1>1, CurProps DEF AddNextPrev, Here, CountBecomes, preempt_disable, TypeOK, Held,
     CreateHeld, SelectHeld, SwitchHeld, BasePlaces, CreatePlaces, SwitchPlaces, ExitPlaces
<1>3. cur' = cur /\ stack' = [stack EXCEPT ![cur] = SetTop(@, f)]
  BY DEF AddNextPrev, MoveTo
<1> HIDE DEF f
<1>4. /\ stack' \in [Tasks -> Seq(Frame)] /\ StackInv' /\ Live' = Live
      /\ top(cur)' = f /\ FramesFrom(f)
  BY <1>1, <1>2, <1>3, CurProps, MoveInv
<1>5. Queued' = Queued
  BY DEF AddNextPrev, Queued
<1>6. NextQueued'
  <2>1. SwitchArgOK(f, next', Queued') /\ next' = next
    BY <1>1, <1>5, CurProps DEF AddNextPrev, Here, SwitchArgOK
  <2> QED BY <1>4, <1>5, <2>1, CurProps, NextInv
<1>7. QueuedLive'
  BY <1>3, <1>4, <1>5 DEF IInv, QueuedLive
<1>8. NewTask'
  BY <1>1, <1>4, <1>5 DEF IInv, NewTask, CreateHeld, AddNextPrev, Here
<1>9. RingInv'
  <2>1. Ring(list_next, list_prev, Queued)
    BY DEF IInv, RingInv, AddNextPrev, Here
  <2>2. /\ list_next' = list_next
        /\ list_prev' = [list_prev EXCEPT ![init_task] = f.arg]
    BY <1>1 DEF AddNextPrev
  <2>3. [list_prev' EXCEPT ![init_task] = f.prev] = list_prev
    BY <1>0, <1>1, <2>2, CurProps DEF TypeOK
  <2>4. Ring(list_next', [list_prev' EXCEPT ![init_task] = f.prev], Queued')
    BY <1>5, <2>1, <2>2, <2>3
  <2>5. list_prev'[init_task] = f.arg
    BY <2>2, <1>0, CurProps DEF TypeOK, Queued
  <2> QED BY <1>1, <1>4, <2>4, <2>5 DEF RingInv
<1>10. AddressInv'
  BY <1>1, <1>3, <1>4, <1>5 DEF IInv, AddressInv, AddNextPrev, Here, CreateHeld, mm_vars
<1>11. TypeOK'
  BY <1>1, <1>2, <1>3, <1>4, CurProps DEF AddNextPrev, TypeOK, CountBecomes, queue_vars,
     mm_vars, Pointers, Frame
<1> QED BY <1>4, <1>6, <1>7, <1>8, <1>9, <1>10, <1>11 DEF IInv, StackInv

\* Second store of __list_add: the new task's list.next.
LEMMA AddNewNextStep ==
  ASSUME IInv, AddNewNext
  PROVE  IInv'
<1> DEFINE f == [top(cur) EXCEPT !.at = "add_new_prev"]
<1>0. /\ top(cur).arg \in Tasks /\ top(cur).arg \notin Queued
      /\ top(cur).arg # init_task /\ init_task \in Queued /\ init_task \in Tasks
  BY DEF IInv, NewTask, QueuedLive, AddNewNext, Here, CreateHeld, Live, Queued
<1>1. /\ f \in Frame
      /\ FrameOK(f, cur, Len(stack[cur]))
      /\ f.op = top(cur).op /\ f.at = "add_new_prev" /\ f.arg = top(cur).arg
      /\ f.prev = top(cur).prev
  BY CurProps DEF AddNewNext, TypeOK, Here, Frame, FrameOK, Held, CreateHeld, SelectHeld,
     SwitchHeld, BasePlaces, CreatePlaces, SwitchPlaces, ExitPlaces
<1>2. CountBecomes(IF f.at \in Held THEN 1 ELSE 0)
  BY <1>1, CurProps DEF AddNewNext, Here, CountBecomes, preempt_disable, TypeOK, Held,
     CreateHeld, SelectHeld, SwitchHeld, BasePlaces, CreatePlaces, SwitchPlaces, ExitPlaces
<1>3. cur' = cur /\ stack' = [stack EXCEPT ![cur] = SetTop(@, f)]
  BY DEF AddNewNext, MoveTo
<1> HIDE DEF f
<1>4. /\ stack' \in [Tasks -> Seq(Frame)] /\ StackInv' /\ Live' = Live
      /\ top(cur)' = f /\ FramesFrom(f)
  BY <1>1, <1>2, <1>3, CurProps, MoveInv
<1>5. Queued' = Queued
  BY DEF AddNewNext, Queued
<1>6. NextQueued'
  <2>1. SwitchArgOK(f, next', Queued') /\ next' = next
    BY <1>1, <1>5, CurProps DEF AddNewNext, Here, SwitchArgOK
  <2> QED BY <1>4, <1>5, <2>1, CurProps, NextInv
<1>7. QueuedLive'
  BY <1>3, <1>4, <1>5 DEF IInv, QueuedLive
<1>8. NewTask'
  BY <1>1, <1>4, <1>5 DEF IInv, NewTask, CreateHeld, AddNewNext, Here
<1>9. RingInv'
  <2>1. /\ Ring(list_next, [list_prev EXCEPT ![init_task] = top(cur).prev], Queued)
        /\ list_prev[init_task] = top(cur).arg
    BY DEF IInv, RingInv, AddNewNext, Here
  <2>2. /\ list_prev' = list_prev /\ list_next'[f.arg] = init_task
        /\ \A t \in Queued : list_next'[t] = list_next[t]
    BY <1>0, <1>1, CurProps DEF AddNewNext, TypeOK, Queued
  <2>3. Ring(list_next', [list_prev' EXCEPT ![init_task] = f.prev], Queued')
    <3> DEFINE pv == [list_prev EXCEPT ![init_task] = top(cur).prev]
    <3>1. Ring(list_next, pv, Queued)
      BY <2>1
    <3> HIDE DEF pv
    <3>2. Ring(list_next', pv, Queued)
      BY <3>1, <2>2 DEF Ring
    <3> QED BY <3>2, <2>2, <1>1, <1>5 DEF pv
  <2> QED BY <1>1, <1>4, <2>1, <2>2, <2>3 DEF RingInv
<1>10. AddressInv'
  BY <1>1, <1>3, <1>4, <1>5 DEF IInv, AddressInv, AddNewNext, Here, CreateHeld, mm_vars
<1>11. TypeOK'
  BY <1>0, <1>1, <1>2, <1>3, <1>4, CurProps DEF AddNewNext, TypeOK, CountBecomes,
     queue_vars, mm_vars, Pointers, Frame
<1> QED BY <1>4, <1>6, <1>7, <1>8, <1>9, <1>10, <1>11 DEF IInv, StackInv

\* Third store of __list_add: the new task's list.prev.
LEMMA AddNewPrevStep ==
  ASSUME IInv, AddNewPrev
  PROVE  IInv'
<1> DEFINE f == [top(cur) EXCEPT !.at = "add_prev_next"]
<1>0. /\ top(cur).arg \in Tasks /\ top(cur).arg \notin Queued
      /\ top(cur).arg # init_task /\ init_task \in Queued /\ init_task \in Tasks
  BY DEF IInv, NewTask, QueuedLive, AddNewPrev, Here, CreateHeld, Live, Queued
<1>1. /\ f \in Frame
      /\ FrameOK(f, cur, Len(stack[cur]))
      /\ f.op = top(cur).op /\ f.at = "add_prev_next" /\ f.arg = top(cur).arg
      /\ f.prev = top(cur).prev
  BY CurProps DEF AddNewPrev, TypeOK, Here, Frame, FrameOK, Held, CreateHeld, SelectHeld,
     SwitchHeld, BasePlaces, CreatePlaces, SwitchPlaces, ExitPlaces
<1>2. CountBecomes(IF f.at \in Held THEN 1 ELSE 0)
  BY <1>1, CurProps DEF AddNewPrev, Here, CountBecomes, preempt_disable, TypeOK, Held,
     CreateHeld, SelectHeld, SwitchHeld, BasePlaces, CreatePlaces, SwitchPlaces, ExitPlaces
<1>3. cur' = cur /\ stack' = [stack EXCEPT ![cur] = SetTop(@, f)]
  BY DEF AddNewPrev, MoveTo
<1> HIDE DEF f
<1>4. /\ stack' \in [Tasks -> Seq(Frame)] /\ StackInv' /\ Live' = Live
      /\ top(cur)' = f /\ FramesFrom(f)
  BY <1>1, <1>2, <1>3, CurProps, MoveInv
<1>5. Queued' = Queued
  BY DEF AddNewPrev, Queued
<1>6. NextQueued'
  <2>1. SwitchArgOK(f, next', Queued') /\ next' = next
    BY <1>1, <1>5, CurProps DEF AddNewPrev, Here, SwitchArgOK
  <2> QED BY <1>4, <1>5, <2>1, CurProps, NextInv
<1>7. QueuedLive'
  BY <1>3, <1>4, <1>5 DEF IInv, QueuedLive
<1>8. NewTask'
  BY <1>1, <1>4, <1>5 DEF IInv, NewTask, CreateHeld, AddNewPrev, Here
<1>9. RingInv'
  <2>1. /\ Ring(list_next, [list_prev EXCEPT ![init_task] = top(cur).prev], Queued)
        /\ list_prev[init_task] = top(cur).arg
        /\ list_next[top(cur).arg] = init_task
    BY DEF IInv, RingInv, AddNewPrev, Here
  <2>2. /\ list_next' = list_next /\ list_prev'[f.arg] = f.prev
        /\ \A t \in Queued : list_prev'[t] = list_prev[t]
        /\ \A t \in Tasks : t # f.arg => list_prev'[t] = list_prev[t]
        /\ list_prev' \in [Tasks -> Pointers]
    BY <1>0, <1>1, CurProps DEF AddNewPrev, TypeOK, Queued, Frame
  <2>3. Ring(list_next', [list_prev' EXCEPT ![init_task] = f.prev], Queued')
    <3> DEFINE pv == [list_prev EXCEPT ![init_task] = top(cur).prev]
               qv == [list_prev' EXCEPT ![init_task] = f.prev]
    <3>1. Ring(list_next, pv, Queued)
      BY <2>1
    <3>2. \A t \in Queued : qv[t] = pv[t]
      BY <2>2, <1>0, <1>1, CurProps DEF TypeOK, Queued
    <3> HIDE DEF pv, qv
    <3>3. Ring(list_next, qv, Queued)
      BY <3>1, <3>2 DEF Ring
    <3> QED BY <3>3, <2>2, <1>5 DEF qv
  <2> QED BY <1>0, <1>1, <1>4, <2>1, <2>2, <2>3 DEF RingInv, Queued
<1>10. AddressInv'
  BY <1>1, <1>3, <1>4, <1>5 DEF IInv, AddressInv, AddNewPrev, Here, CreateHeld, mm_vars
<1>11. TypeOK'
  BY <1>1, <1>2, <1>3, <1>4, CurProps DEF AddNewPrev, TypeOK, CountBecomes, queue_vars,
     mm_vars, Pointers, Frame
<1> QED BY <1>4, <1>6, <1>7, <1>8, <1>9, <1>10, <1>11 DEF IInv, StackInv

\* Last store of __list_add: the new task joins the ring.
LEMMA AddPrevNextStep ==
  ASSUME IInv, AddPrevNext
  PROVE  IInv'
<1> DEFINE f == [top(cur) EXCEPT !.at = "set_running"]
<1>0. /\ top(cur).arg \in Tasks /\ top(cur).arg \notin Queued
      /\ top(cur).arg # init_task /\ init_task \in Queued /\ init_task \in Tasks
  BY DEF IInv, NewTask, QueuedLive, AddPrevNext, Here, CreateHeld, Live, Queued
<1>1. /\ f \in Frame
      /\ FrameOK(f, cur, Len(stack[cur]))
      /\ f.op = top(cur).op /\ f.at = "set_running" /\ f.arg = top(cur).arg
  BY CurProps DEF AddPrevNext, TypeOK, Here, Frame, FrameOK, Held, CreateHeld,
     SelectHeld, SwitchHeld, BasePlaces, CreatePlaces, SwitchPlaces, ExitPlaces
<1>2. CountBecomes(IF f.at \in Held THEN 1 ELSE 0)
  BY <1>1, CurProps DEF AddPrevNext, Here, CountBecomes, preempt_disable, TypeOK, Held,
     CreateHeld, SelectHeld, SwitchHeld, BasePlaces, CreatePlaces, SwitchPlaces, ExitPlaces
<1>3. cur' = cur /\ stack' = [stack EXCEPT ![cur] = SetTop(@, f)]
  BY DEF AddPrevNext, MoveTo
<1> HIDE DEF f
<1>4. /\ stack' \in [Tasks -> Seq(Frame)] /\ StackInv' /\ Live' = Live
      /\ top(cur)' = f /\ FramesFrom(f)
  BY <1>1, <1>2, <1>3, CurProps, MoveInv
<1>5. Queued' = Queued
  BY DEF AddPrevNext, Queued
<1>6. NextQueued'
  <2>1. SwitchArgOK(f, next', Queued') /\ next' = next
    BY <1>1, <1>5, CurProps DEF AddPrevNext, Here, SwitchArgOK
  <2> QED BY <1>4, <1>5, <2>1, CurProps, NextInv
<1>7. QueuedLive'
  BY <1>3, <1>4, <1>5 DEF IInv, QueuedLive
<1>8. NewTask'
  BY <1>1, <1>4, <1>5 DEF IInv, NewTask, CreateHeld, AddPrevNext, Here
<1>9. RingInv'
  <2> DEFINE p == top(cur).arg
             pr == top(cur).prev
             pv == [list_prev EXCEPT ![init_task] = pr]
  <2>1. /\ Ring(list_next, pv, Queued)
        /\ list_prev[init_task] = p
        /\ list_next[p] = init_task
        /\ list_prev[p] = pr
    BY DEF IInv, RingInv, AddPrevNext, Here
  <2>2. /\ pv[init_task] = pr
        /\ \A t \in Tasks : t # init_task => pv[t] = list_prev[t]
    BY <1>0, CurProps DEF TypeOK, Queued
  <2>3. pr \in Queued /\ list_next[pr] = init_task
    BY <1>0, <2>1, <2>2 DEF Ring
  <2>4. /\ list_prev' = list_prev
        /\ list_next'[pr] = p
        /\ \A t \in Tasks : t # pr => list_next'[t] = list_next[t]
    BY <2>3, CurProps DEF AddPrevNext, TypeOK, Queued
  <2>5. p # init_task /\ p \notin Queued /\ p \in Tasks /\ init_task \in Queued
        /\ Queued \subseteq Tasks
    BY <1>0 DEF Queued
  <2> HIDE DEF p, pr, pv
  <2>6. Ring(list_next', list_prev', Queued \cup {p})
    <3> SUFFICES ASSUME NEW t \in Queued \cup {p}
                 PROVE  /\ list_next'[t] \in Queued \cup {p}
                        /\ list_prev[t] \in Queued \cup {p}
                        /\ list_prev[list_next'[t]] = t
                        /\ list_next'[list_prev[t]] = t
      BY <2>4 DEF Ring
    <3>1. CASE t = p
      BY <3>1, <2>1, <2>3, <2>4, <2>5
    <3>2. CASE t = pr
      <4>1. t = init_task \/ list_prev[t] = pv[t]
        BY <3>2, <2>2, <2>3, <2>5
      <4>2. list_prev[t] \in Queued \cup {p} /\ list_next'[list_prev[t]] = t
        BY <4>1, <3>2, <2>1, <2>2, <2>3, <2>4, <2>5 DEF Ring
      <4> QED BY <4>2, <3>2, <2>1, <2>3, <2>4, <2>5
    <3>3. CASE t \in Queued /\ t # pr
      <4>1. list_next'[t] = list_next[t] /\ list_next[t] \in Queued /\ pv[list_next[t]] = t
        BY <3>3, <2>1, <2>4, <2>5 DEF Ring
      <4>2. list_next[t] # init_task
        BY <4>1, <3>3, <2>2
      <4>3. list_prev[list_next[t]] = t
        BY <4>1, <4>2, <2>2, <2>5
      <4>4. list_prev[t] \in Queued \cup {p} /\ list_next'[list_prev[t]] = t
        <5>1. CASE t = init_task
          BY <5>1, <2>1, <2>3, <2>4, <2>5
        <5>2. CASE t # init_task
          <6>1. list_prev[t] = pv[t] /\ pv[t] \in Queued /\ list_next[pv[t]] = t
            BY <5>2, <3>3, <2>1, <2>2, <2>5 DEF Ring
          <6>2. pv[t] # pr
            BY <6>1, <5>2, <2>3
          <6> QED BY <6>1, <6>2, <2>4, <2>5
        <5> QED BY <5>1, <5>2
      <4> QED BY <4>1, <4>3, <4>4
    <3> QED BY <3>1, <3>2, <3>3
  <2> QED BY <1>1, <1>4, <1>5, <2>6 DEF RingInv, p
<1>10. AddressInv'
  BY <1>1, <1>3, <1>4, <1>5 DEF IInv, AddressInv, AddPrevNext, Here, CreateHeld, mm_vars
<1>11. TypeOK'
  BY <1>1, <1>2, <1>3, <1>4, CurProps DEF AddPrevNext, TypeOK, CountBecomes, queue_vars,
     mm_vars, Pointers, Frame
<1> QED BY <1>4, <1>6, <1>7, <1>8, <1>9, <1>10, <1>11 DEF IInv, StackInv

\* The new task becomes RUNNING once it is in the ring.
LEMMA SetRunningStep ==
  ASSUME IInv, SetRunning
  PROVE  IInv'
<1> DEFINE f == [top(cur) EXCEPT !.at = "create_done"]
<1>0. /\ top(cur).arg \in Tasks /\ top(cur).arg \in Live
  BY DEF IInv, NewTask, SetRunning, Here, CreateHeld, Live
<1>1. /\ f \in Frame
      /\ FrameOK(f, cur, Len(stack[cur]))
      /\ f.op = top(cur).op /\ f.at = "create_done" /\ f.arg = top(cur).arg
  BY CurProps DEF SetRunning, Here, Frame, FrameOK, Held, CreateHeld, SelectHeld,
     SwitchHeld, BasePlaces, CreatePlaces, SwitchPlaces, ExitPlaces
<1>2. CountBecomes(IF f.at \in Held THEN 1 ELSE 0)
  BY <1>1, CurProps DEF SetRunning, Here, CountBecomes, TypeOK, Held, CreateHeld,
     SelectHeld, SwitchHeld, BasePlaces, CreatePlaces, SwitchPlaces, ExitPlaces
<1>3. cur' = cur /\ stack' = [stack EXCEPT ![cur] = SetTop(@, f)]
  BY DEF SetRunning, MoveTo
<1> HIDE DEF f
<1>4. /\ stack' \in [Tasks -> Seq(Frame)] /\ StackInv' /\ Live' = Live
      /\ top(cur)' = f /\ FramesFrom(f)
  BY <1>1, <1>2, <1>3, CurProps, MoveInv
<1>5. Queued' = Queued \cup {top(cur).arg}
  BY <1>0, CurProps DEF SetRunning, Queued, TypeOK
<1>6. NextQueued'
  <2>1. SwitchArgOK(f, next', Queued') /\ next' = next
    BY <1>1 DEF SetRunning, Here, SwitchArgOK
  <2>2. Queued \subseteq Queued' /\ next' \in Queued' \cup {NULL}
    BY <1>5, <2>1, CurProps
  <2> QED BY <1>4, <2>1, <2>2, CurProps, NextInv
<1>7. QueuedLive'
  BY <1>0, <1>3, <1>4, <1>5 DEF IInv, QueuedLive
<1>8. NewTask'
  BY <1>1, <1>4 DEF NewTask
<1>9. RingInv'
  <2>1. Ring(list_next, list_prev, Queued \cup {top(cur).arg})
    BY DEF IInv, RingInv, SetRunning, Here
  <2>2. Ring(list_next', list_prev', Queued')
    BY <1>5, <2>1 DEF SetRunning, queue_vars
  <2> QED BY <1>1, <1>4, <2>2 DEF RingInv
<1>10. AddressInv'
  <2>1. \A u \in UTasks : u \in Queued' => image[u] = u
    <3>1. top(cur).arg \in UTasks => top(cur).op = "execv"
      BY DEF IInv, NewTask, SetRunning, Here, CreateHeld
    <3> QED BY <3>1, <1>5 DEF IInv, AddressInv, SetRunning, Here, CreateHeld
  <2> QED BY <1>1, <1>3, <1>4, <2>1
        DEF IInv, AddressInv, SetRunning, Here, CreateHeld, mm_vars
<1>11. TypeOK'
  BY <1>2, <1>3, <1>4, CurProps DEF SetRunning, TypeOK, CountBecomes, queue_vars, mm_vars
<1> QED BY <1>4, <1>6, <1>7, <1>8, <1>9, <1>10, <1>11 DEF IInv, StackInv

\* sys_exit marks its caller, which stays in the queue.
LEMMA ExitZombieStep ==
  ASSUME IInv, ExitZombie
  PROVE  IInv'
<1> DEFINE f == [top(cur) EXCEPT !.at = "schedule"]
<1>1. /\ f \in Frame
      /\ FrameOK(f, cur, Len(stack[cur]))
      /\ f.op = top(cur).op /\ f.at = "schedule"
  BY CurProps DEF ExitZombie, Here, Frame, FrameOK, Held, CreateHeld, SelectHeld,
     SwitchHeld, BasePlaces, CreatePlaces, SwitchPlaces, ExitPlaces
<1>2. CountBecomes(IF f.at \in Held THEN 1 ELSE 0)
  BY <1>1, CurProps DEF ExitZombie, Here, CountBecomes, TypeOK, Held, CreateHeld,
     SelectHeld, SwitchHeld, BasePlaces, CreatePlaces, SwitchPlaces, ExitPlaces
<1>3. cur' = cur /\ stack' = [stack EXCEPT ![cur] = SetTop(@, f)]
  BY DEF ExitZombie, MoveTo
<1> HIDE DEF f
<1>4. /\ stack' \in [Tasks -> Seq(Frame)] /\ StackInv' /\ Live' = Live
      /\ top(cur)' = f /\ FramesFrom(f)
  BY <1>1, <1>2, <1>3, CurProps, MoveInv
<1>5. Queued' = Queued
  <2>1. cur \in Queued
    BY DEF IInv, QueuedLive
  <2> QED BY <2>1, CurProps DEF ExitZombie, Queued, TypeOK
<1>6. NextQueued'
  <2>1. SwitchArgOK(f, next', Queued') /\ next' = next
    BY <1>1 DEF ExitZombie, SwitchArgOK
  <2> QED BY <1>4, <1>5, <2>1, CurProps, NextInv
<1>7. QueuedLive'
  BY <1>3, <1>4, <1>5 DEF IInv, QueuedLive
<1>8. NewTask'
  BY <1>1, <1>4 DEF NewTask, CreateHeld
<1>9. RingInv'
  <2>1. Ring(list_next, list_prev, Queued)
    BY DEF IInv, RingInv, ExitZombie, Here
  <2>2. Ring(list_next', list_prev', Queued')
    BY <1>5, <2>1 DEF ExitZombie, queue_vars
  <2> QED BY <1>1, <1>4, <2>2 DEF RingInv
<1>10. AddressInv'
  BY <1>1, <1>3, <1>4, <1>5
     DEF IInv, AddressInv, ExitZombie, Here, CreateHeld, mm_vars
<1>11. TypeOK'
  BY <1>2, <1>3, <1>4, CurProps DEF ExitZombie, TypeOK, CountBecomes, queue_vars, mm_vars
<1> QED BY <1>4, <1>6, <1>7, <1>8, <1>9, <1>10, <1>11 DEF IInv, StackInv

\* switch_to refuses, or loads the page table of the task it will switch to.
LEMMA SwitchCheckStep ==
  ASSUME IInv, SwitchCheck
  PROVE  IInv'
<1> DEFINE f == IF Refuses(top(cur).arg)
                THEN frame(top(cur).op, "out")
                ELSE [top(cur) EXCEPT !.at = "cpu_switch"]
<1>1. /\ f \in Frame
      /\ FrameOK(f, cur, Len(stack[cur]))
      /\ f.op = top(cur).op /\ f.at \in {"out", "cpu_switch"}
      /\ f.at = "cpu_switch" => f.arg = top(cur).arg /\ ~Refuses(top(cur).arg)
      /\ f.at = "out" => Refuses(top(cur).arg)
  BY CurProps DEF SwitchCheck, Here, frame, Frame, FrameOK, Pointers, Held, CreateHeld,
     SelectHeld, SwitchHeld, BasePlaces, CreatePlaces, SwitchPlaces, ExitPlaces
<1>2. CountBecomes(IF f.at \in Held THEN 1 ELSE 0)
  BY <1>1, CurProps DEF SwitchCheck, Here, CountBecomes, TypeOK, Held, CreateHeld,
     SelectHeld, SwitchHeld, BasePlaces, CreatePlaces, SwitchPlaces, ExitPlaces
<1>3. cur' = cur /\ stack' = [stack EXCEPT ![cur] = SetTop(@, f)]
  BY DEF SwitchCheck, MoveTo, Leave
<1> HIDE DEF f
<1>4. /\ stack' \in [Tasks -> Seq(Frame)] /\ StackInv' /\ Live' = Live
      /\ top(cur)' = f /\ FramesFrom(f)
  BY <1>1, <1>2, <1>3, CurProps, MoveInv
<1>5. Queued' = Queued
  BY DEF SwitchCheck, Queued
<1>6. NextQueued'
  <2>1. SwitchArgOK(f, next', Queued') /\ next' = next
    BY <1>1, <1>5, CurProps DEF SwitchCheck, Here, SwitchArgOK
  <2> QED BY <1>4, <1>5, <2>1, CurProps, NextInv
<1>7. QueuedLive'
  BY <1>3, <1>4, <1>5 DEF IInv, QueuedLive
<1>8. NewTask'
  BY <1>1, <1>4 DEF NewTask, CreateHeld
<1>9. RingInv'
  <2>1. Ring(list_next, list_prev, Queued)
    BY DEF IInv, RingInv, SwitchCheck, Here
  <2>2. Ring(list_next', list_prev', Queued')
    BY <1>5, <2>1 DEF SwitchCheck, queue_vars
  <2> QED BY <1>1, <1>4, <2>2 DEF RingInv
<1>10. AddressInv'
  <2>1. f.at = "out" => ttbr0' = ttbr0
    BY <1>1 DEF SwitchCheck
  <2>2. f.at = "cpu_switch" /\ f.arg \in UTasks => ttbr0' = f.arg
    BY <1>1, TasksAssumption DEF SwitchCheck, switch_mm, mm, Tasks
  <2> QED BY <1>1, <1>3, <1>4, <1>5, <2>1, <2>2
        DEF IInv, AddressInv, SwitchCheck, Here, CreateHeld
<1>11. TypeOK'
  <2>1. ttbr0' \in Pointers
    BY CurProps DEF SwitchCheck, switch_mm, mm, TypeOK, Pointers, Tasks
  <2> QED BY <1>2, <1>3, <1>4, <2>1, CurProps DEF SwitchCheck, TypeOK, CountBecomes,
             queue_vars
<1> QED BY <1>4, <1>6, <1>7, <1>8, <1>9, <1>10, <1>11 DEF IInv, StackInv

\* cpu_switch_to: the CPU passes to a parked task whose page table is loaded.
LEMMA CpuSwitchToStep ==
  ASSUME IInv, CpuSwitchTo
  PROVE  IInv'
<1> DEFINE f == frame(top(cur).op, "out")
           n == top(cur).arg
<1>1. /\ f \in Frame /\ FrameOK(f, cur, Len(stack[cur]))
      /\ f.op = top(cur).op /\ f.at = "out" /\ f.at \in Held
  BY CurProps DEF CpuSwitchTo, Here, frame, Frame, FrameOK, Pointers, Held, CreateHeld,
     SelectHeld, SwitchHeld, BasePlaces, CreatePlaces, SwitchPlaces, ExitPlaces
<1>2. cur' = n /\ stack' = [stack EXCEPT ![cur] = SetTop(@, f)]
  BY DEF CpuSwitchTo, Leave
<1>3. n \in Queued /\ n \in Live /\ n \in Tasks
  BY CurProps DEF CpuSwitchTo, Here, SwitchArgOK, IInv, QueuedLive, Live
<1> HIDE DEF f, n
<1>4. /\ stack' \in [Tasks -> Seq(Frame)]
      /\ Live' = Live
      /\ \A t \in Tasks : Len(stack'[t]) = Len(stack[t])
      /\ \A t \in Tasks : t # cur => stack'[t] = stack[t]
      /\ \A i \in 1..Len(stack[cur]) :
           stack'[cur][i] = IF i = Len(stack[cur]) THEN f ELSE stack[cur][i]
  BY <1>1, <1>2, CurProps, MoveProps
<1>5. /\ stack'[cur][Len(stack'[cur])] = f
      /\ \A t \in Tasks : t # cur => stack'[t][Len(stack'[t])] = top(t)
  BY <1>4, CurProps DEF top
<1>6. /\ n = cur => stack'[n][Len(stack'[n])] = f
      /\ stack'[n][Len(stack'[n])].at \in {"out", "ret_from_fork"}
      /\ stack'[n][Len(stack'[n])].at = "ret_from_fork" => Len(stack[n]) = 1
  BY <1>1, <1>3, <1>5, CurProps DEF StackInv, Parked
<1>7. top(cur)' = stack'[n][Len(stack'[n])]
  BY <1>2 DEF top
<1>8. StackShape'
  BY <1>1, <1>4, CurProps DEF StackInv, StackShape
<1>9. PreemptExact'
  <2> SUFFICES ASSUME NEW t \in Tasks
               PROVE  /\ preempt_count[t] =
                           IF t \in Live /\ stack'[t][Len(stack'[t])].at \in Held THEN 1 ELSE 0
                      /\ \A i \in 1..(Len(stack'[t]) - 1) : stack'[t][i].at \notin Held
    BY <1>4 DEF PreemptExact, CpuSwitchTo, top
  <2>1. CASE t = cur
    <3>1. top(cur).at \in Held
      BY DEF CpuSwitchTo, Here, Held, SwitchHeld
    <3>2. preempt_count[cur] = 1
      BY <3>1, CurProps
    <3>3. \A i \in 1..(Len(stack'[cur]) - 1) : stack'[cur][i].at \notin Held
      <4>1. /\ Len(stack'[cur]) = Len(stack[cur])
            /\ \A i \in 1..(Len(stack[cur]) - 1) : stack'[cur][i] = stack[cur][i]
        BY <1>4, CurProps
      <4>2. \A i \in 1..(Len(stack[cur]) - 1) : stack[cur][i].at \notin Held
        BY CurProps DEF StackInv, PreemptExact
      <4> QED BY <4>1, <4>2
    <3> QED BY <2>1, <3>2, <3>3, <1>1, <1>5, CurProps
  <2>2. CASE t # cur
    BY <2>2, <1>4, <1>5, CurProps DEF StackInv, PreemptExact
  <2> QED BY <2>1, <2>2
<1>10. Parked'
  <2> SUFFICES ASSUME NEW t \in Live, t # n
               PROVE  \/ stack'[t][Len(stack'[t])].at = "out"
                      \/ /\ Len(stack'[t]) = 1
                         /\ stack'[t][Len(stack'[t])].at = "ret_from_fork"
    BY <1>2, <1>4 DEF Parked, top
  <2>1. t \in Tasks
    BY DEF Live
  <2>2. CASE t = cur
    BY <2>2, <1>1, <1>5
  <2>3. CASE t # cur
    BY <2>1, <2>3, <1>4, <1>5, CurProps DEF StackInv, Parked
  <2> QED BY <2>2, <2>3
<1>11. Queued' = Queued
  BY DEF CpuSwitchTo, Queued
<1>12. NextQueued'
  <2>1. FramesFrom(f)
    BY <1>4, CurProps DEF FramesFrom, TypeOK
  <2>2. SwitchArgOK(f, next', Queued') /\ next' = next
    BY <1>1 DEF CpuSwitchTo, SwitchArgOK
  <2> QED BY <2>1, <2>2, <1>11, CurProps, NextInv
<1>13. QueuedLive'
  BY <1>2, <1>3, <1>4, <1>11 DEF IInv, QueuedLive
<1>14. NewTask'
  BY <1>6, <1>7 DEF NewTask, CreateHeld
<1>15. RingInv'
  <2>1. Ring(list_next, list_prev, Queued)
    BY DEF IInv, RingInv, CpuSwitchTo, Here
  <2>2. Ring(list_next', list_prev', Queued')
    BY <1>11, <2>1 DEF CpuSwitchTo, queue_vars
  <2> QED BY <1>6, <1>7, <2>2 DEF RingInv
<1>16. AddressInv'
  <2>1. n \in UTasks => ttbr0 = n
    BY DEF IInv, AddressInv, CpuSwitchTo, Here, n
  <2>2. UNCHANGED <<ttbr0, image>>
    BY DEF CpuSwitchTo, mm_vars
  <2> QED BY <2>1, <2>2, <1>2, <1>6, <1>7, <1>11 DEF IInv, AddressInv, CreateHeld
<1>17. TypeOK'
  BY <1>2, <1>3, <1>4, CurProps DEF CpuSwitchTo, TypeOK, queue_vars, mm_vars
<1> QED BY <1>8, <1>9, <1>10, <1>12, <1>13, <1>14, <1>15, <1>16, <1>17 DEF IInv

\* A page becomes the descriptor of a new task that nobody knows yet.
LEMMA CreateAllocStep ==
  ASSUME IInv, CreateAlloc
  PROVE  IInv'
<1>1. PICK p \in IF top(cur).op = "execv" THEN UTasks ELSE KThreads :
        /\ stack[p] = << >>
        /\ stack' = [stack EXCEPT
             ![p] = <<frame("base", "ret_from_fork")>>,
             ![cur] = SetTop(@, [top(cur) EXCEPT
                         !.at = IF mm(p) = NULL THEN "add_next_prev"
                                                ELSE "memcpy",
                         !.arg = p])]
        /\ preempt_count' = [preempt_count EXCEPT ![p] = 0]
        /\ ttbr0' = switch_mm(mm(p))
  BY DEF CreateAlloc, FreePages
<1> DEFINE g == frame("base", "ret_from_fork")
           f == [top(cur) EXCEPT !.at = IF mm(p) = NULL THEN "add_next_prev"
                                                        ELSE "memcpy",
                                 !.arg = p]
<1>2. /\ top(cur).at = "alloc" /\ top(cur).op \in {"kthread", "execv"}
      /\ cur' = cur /\ next' = next /\ state' = state /\ image' = image
      /\ UNCHANGED queue_vars /\ irq_on' = irq_on
  BY DEF CreateAlloc, Here
<1>3. /\ p \in Tasks /\ p \notin Live /\ p # cur /\ p \notin Queued
      /\ p \in UTasks <=> top(cur).op = "execv"
  BY <1>1, <1>2, CurProps, TasksAssumption DEF Tasks, Live, IInv, QueuedLive
<1>4. IF p \in UTasks THEN mm(p) = p /\ p # NULL ELSE mm(p) = NULL
  BY <1>3, TasksAssumption DEF mm, Tasks
<1>5. /\ f \in Frame
      /\ FrameOK(f, cur, Len(stack[cur]))
      /\ f.op = top(cur).op /\ f.arg = p
      /\ f.at = IF p \in UTasks THEN "memcpy" ELSE "add_next_prev"
      /\ f.at \in Held
  BY <1>2, <1>3, <1>4, CurProps DEF Frame, FrameOK, Pointers, Held, CreateHeld,
     SelectHeld, SwitchHeld, BasePlaces, CreatePlaces, SwitchPlaces, ExitPlaces
<1>6. g \in Frame /\ g.op = "base" /\ g.at = "ret_from_fork" /\ g.at \notin Held
  BY FrameProps DEF Held, CreateHeld, SelectHeld, SwitchHeld, BasePlaces, CreatePlaces,
     SwitchPlaces, ExitPlaces
<1>7. /\ stack'[p] = <<g>>
      /\ stack'[cur] = SetTop(stack[cur], f)
      /\ \A t \in Tasks : t # cur /\ t # p => stack'[t] = stack[t]
      /\ DOMAIN stack' = Tasks
  BY <1>1, <1>3, CurProps DEF TypeOK
<1> HIDE DEF f, g
<1>8. /\ SetTop(stack[cur], f) \in Seq(Frame)
      /\ Len(stack'[cur]) = Len(stack[cur])
      /\ stack'[cur] # << >>
      /\ stack'[cur][Len(stack[cur])] = f
      /\ \A i \in 1..Len(stack[cur]) :
           i # Len(stack[cur]) => stack'[cur][i] = stack[cur][i]
  <2> DEFINE s == stack[cur]
             r == SetTop(s, f)
  <2>1. s \in Seq(Frame) /\ s # << >>
    BY CurProps DEF Live
  <2>2. /\ r \in Seq(Frame) /\ Len(r) = Len(s) /\ r # << >> /\ r[Len(s)] = f
        /\ \A i \in 1..Len(s) : i # Len(s) => r[i] = s[i]
    BY <1>5, <2>1, SetTopProps
  <2> QED BY <1>7, <2>2
<1>9. /\ <<g>> \in Seq(Frame) /\ Len(stack'[p]) = 1 /\ stack'[p][1] = g
      /\ stack'[p] # << >>
  BY <1>6, <1>7
<1>10. stack' \in [Tasks -> Seq(Frame)]
  <2>1. \A t \in Tasks : stack'[t] \in Seq(Frame)
    BY <1>7, <1>8, <1>9, CurProps DEF TypeOK
  <2>2. stack' = [t \in Tasks |-> stack'[t]]
    BY <1>1, CurProps DEF TypeOK
  <2> QED BY <2>1, <2>2
<1>11. Live' = Live \cup {p}
  BY <1>3, <1>7, <1>8, <1>9, CurProps DEF Live
<1>12. top(cur)' = f
  BY <1>2, <1>8 DEF top
<1>13. StackShape'
  <2> SUFFICES ASSUME NEW t \in Tasks, NEW i \in 1..Len(stack'[t])
               PROVE  FrameOK(stack'[t][i], t, i)
    BY DEF StackShape, FrameOK
  <2>1. CASE t = p
    BY <2>1, <1>6, <1>9 DEF FrameOK, BasePlaces
  <2>2. CASE t = cur
    BY <2>2, <1>5, <1>8, CurProps DEF StackInv, StackShape
  <2>3. CASE t # cur /\ t # p
    BY <2>3, <1>7, CurProps DEF StackInv, StackShape
  <2> QED BY <2>1, <2>2, <2>3
<1>14. PreemptExact'
  <2> SUFFICES ASSUME NEW t \in Tasks
               PROVE  /\ preempt_count'[t] =
                           IF /\ t \in Live'
                              /\ stack'[t][Len(stack'[t])].at \in Held
                           THEN 1 ELSE 0
                      /\ \A i \in 1..(Len(stack'[t]) - 1) : stack'[t][i].at \notin Held
    BY DEF PreemptExact, top
  <2>1. CASE t = p
    <3>1. preempt_count'[p] = 0
      BY <1>1, <1>3, CurProps DEF TypeOK
    <3>2. stack'[p][Len(stack'[p])].at \notin Held
      BY <1>6, <1>9
    <3>3. \A i \in 1..(Len(stack'[p]) - 1) : FALSE
      BY <1>9
    <3> QED BY <2>1, <3>1, <3>2, <3>3
  <2>2. CASE t = cur
    <3>1. preempt_count'[cur] = 1
      BY <1>1, <1>2, <1>3, CurProps DEF TypeOK, Held, CreateHeld
    <3>2. \A i \in 1..(Len(stack'[cur]) - 1) : stack'[cur][i].at \notin Held
      BY <1>8, CurProps DEF StackInv, PreemptExact
    <3> QED BY <2>2, <3>1, <3>2, <1>5, <1>8, <1>11, CurProps
  <2>3. CASE t # cur /\ t # p
    BY <2>3, <1>1, <1>7, <1>11, CurProps DEF StackInv, PreemptExact, TypeOK, top
  <2> QED BY <2>1, <2>2, <2>3
<1>15. Parked'
  <2> SUFFICES ASSUME NEW t \in Live', t # cur
               PROVE  \/ stack'[t][Len(stack'[t])].at = "out"
                      \/ /\ Len(stack'[t]) = 1
                         /\ stack'[t][Len(stack'[t])].at = "ret_from_fork"
    BY <1>2 DEF Parked, top
  <2>1. CASE t = p
    BY <2>1, <1>6, <1>9
  <2>2. CASE t \in Live /\ t # p
    <3>1. t \in Tasks
      BY <2>2 DEF Live
    <3> QED BY <3>1, <2>2, <1>7, CurProps DEF StackInv, Parked, top
  <2> QED BY <2>1, <2>2, <1>11
<1>16. Queued' = Queued
  BY <1>2 DEF Queued
<1>17. QueuedLive'
  BY <1>2, <1>11, <1>16 DEF IInv, QueuedLive
<1>18. NewTask'
  BY <1>3, <1>5, <1>11, <1>12, <1>16 DEF NewTask
<1>19. RingInv'
  <2>1. Ring(list_next, list_prev, Queued)
    BY <1>2 DEF IInv, RingInv
  <2>2. Ring(list_next', list_prev', Queued')
    BY <1>2, <1>16, <2>1 DEF queue_vars
  <2> QED BY <1>5, <1>12, <2>2 DEF RingInv
<1>20. NextQueued'
  <2> SUFFICES ASSUME NEW t \in Tasks, NEW i \in 1..Len(stack'[t])
               PROVE  SwitchArgOK(stack'[t][i], next, Queued)
    BY <1>2, <1>16, CurProps DEF NextQueued
  <2>1. CASE t = p
    BY <2>1, <1>6, <1>9 DEF SwitchArgOK
  <2>2. CASE t = cur
    BY <2>2, <1>2, <1>5, <1>8, CurProps DEF NextQueued, SwitchArgOK
  <2>3. CASE t # cur /\ t # p
    BY <2>3, <1>7, CurProps DEF NextQueued
  <2> QED BY <2>1, <2>2, <2>3
<1>21. AddressInv'
  <2>1. p \in UTasks => ttbr0' = p
    BY <1>1, <1>4 DEF switch_mm
  <2>2. p \notin UTasks => ttbr0' = ttbr0
    BY <1>1, <1>4 DEF switch_mm
  <2> QED BY <2>1, <2>2, <1>2, <1>3, <1>5, <1>12, <1>16 DEF IInv, AddressInv
<1>22. TypeOK'
  <2>1. ttbr0' \in Pointers
    BY <1>1, <1>3, <1>4, CurProps DEF switch_mm, TypeOK, Pointers
  <2>2. preempt_count' \in [Tasks -> Int]
    BY <1>1, <1>3, CurProps DEF TypeOK
  <2> QED BY <2>1, <2>2, <1>2, <1>10, CurProps DEF TypeOK, queue_vars
<1> QED BY <1>13, <1>14, <1>15, <1>17, <1>18, <1>19, <1>20, <1>21, <1>22 DEF IInv

(***************************************************************************)
(* The theorems.                                                           *)
(***************************************************************************)
\* The state in which init_main starts satisfies the inductive invariant.
LEMMA InitIInv == Init => IInv
<1> SUFFICES ASSUME Init PROVE IInv
  OBVIOUS
<1> DEFINE b == frame("base", "boot_kthread")
<1>1. b \in Frame /\ b.op = "base" /\ b.at = "boot_kthread"
  BY FrameProps DEF BasePlaces
<1>2. init_task \in Tasks /\ init_task \notin UTasks
  BY TasksAssumption DEF Tasks
<1>3. /\ stack = [t \in Tasks |-> IF t = init_task THEN <<b>> ELSE << >>]
      /\ cur = init_task /\ next = NULL
      /\ preempt_count = [t \in Tasks |-> 0]
  BY DEF Init
<1> HIDE DEF b
<1>4. /\ <<b>> \in Seq(Frame) /\ << >> \in Seq(Frame)
      /\ Len(<<b>>) = 1 /\ <<b>>[1] = b /\ <<b>> # << >> /\ Len(<< >>) = 0
  BY <1>1
<1>5. stack \in [Tasks -> Seq(Frame)]
  BY <1>3, <1>4
<1>6. /\ \A t \in Tasks : t # init_task => stack[t] = << >> /\ Len(stack[t]) = 0
      /\ stack[init_task] = <<b>> /\ Len(stack[init_task]) = 1
      /\ stack[init_task][1] = b
  BY <1>2, <1>3, <1>4
<1>7. Live = {init_task} /\ Queued = {init_task} /\ top(cur) = b
  BY <1>2, <1>3, <1>4, <1>6 DEF Live, Queued, top, Init
<1>8. TypeOK
  <2>1. state \in [Tasks -> {"DEAD", "RUNNING", "ZOMBIE"}]
    BY DEF Init
  <2>2. list_next \in [Tasks -> Pointers] /\ list_prev \in [Tasks -> Pointers]
    BY DEF Init, Pointers
  <2>3. image \in [Tasks -> Pointers] /\ preempt_count \in [Tasks -> Int]
    BY DEF Init, Pointers
  <2>4. cur \in Tasks /\ next \in Pointers /\ ttbr0 \in Pointers /\ irq_on \in BOOLEAN
    BY <1>2 DEF Init, Pointers
  <2> QED BY <1>5, <2>1, <2>2, <2>3, <2>4 DEF TypeOK
<1>9. StackShape
  BY <1>1, <1>6 DEF StackShape, FrameOK, BasePlaces
<1>10. PreemptExact
  <2> SUFFICES ASSUME NEW t \in Tasks
               PROVE  /\ 0 = IF t \in Live /\ top(t).at \in Held THEN 1 ELSE 0
                      /\ \A i \in 1..(Len(stack[t]) - 1) : stack[t][i].at \notin Held
    BY <1>3 DEF PreemptExact
  <2>1. b.at \notin Held
    BY <1>1 DEF Held, CreateHeld, SelectHeld, SwitchHeld
  <2>2. t \in Live => top(t) = b
    BY <1>3, <1>7
  <2>3. \A i \in 1..(Len(stack[t]) - 1) : FALSE
    <3> DEFINE n == Len(stack[t])
    <3>1. n = 0 \/ n = 1
      BY <1>6
    <3> HIDE DEF n
    <3>2. \A i \in 1..(n - 1) : FALSE
      BY <3>1
    <3> QED BY <3>2 DEF n
  <2> QED BY <2>1, <2>2, <2>3
<1>11. Parked /\ QueuedLive
  BY <1>3, <1>7 DEF Parked, QueuedLive
<1>12. NewTask
  BY <1>1, <1>7 DEF NewTask, CreateHeld
<1>13. RingInv
  <2>1. Ring(list_next, list_prev, Queued)
    BY <1>2, <1>7 DEF Ring, Init
  <2> QED BY <2>1, <1>1, <1>7 DEF RingInv
<1>14. NextQueued
  BY <1>1, <1>3, <1>6 DEF NextQueued, SwitchArgOK
<1>15. AddressInv
  BY <1>1, <1>2, <1>3, <1>7 DEF AddressInv
<1> QED BY <1>8, <1>9, <1>10, <1>11, <1>12, <1>13, <1>14, <1>15 DEF IInv

\* Every step of the scheduler keeps the inductive invariant.
LEMMA NextIInv == IInv /\ [Next]_vars => IInv'
<1> SUFFICES ASSUME IInv, [Next]_vars PROVE IInv'
  OBVIOUS
<1>1. CASE Boot
  BY <1>1, BootKthreadStep, BootExecvStep, BootIrqStep DEF Boot
<1>2. CASE ret_from_fork
  BY <1>2, ret_from_forkStep
<1>3. CASE Create
  BY <1>3, CreateBeginStep, CreateAllocStep, CreateCopyStep, CreateMmBackStep,
     AddNextPrevStep, AddNewNextStep, AddNewPrevStep, AddPrevNextStep,
     SetRunningStep, CreateEndStep DEF Create
<1>4. CASE Exit
  BY <1>4, ExitZombieStep, ScheduleBeginStep, SelectNextStep, SelectEndStep DEF Exit
<1>5. CASE Switch
  BY <1>5, LoadNextStep, SwitchBeginStep, SwitchCheckStep, CpuSwitchToStep,
     SwitchEndStep, SwitchReturnStep DEF Switch
<1>6. CASE Syscall
  BY <1>6, SysExecvStep, SysExitStep DEF Syscall
<1>7. CASE scheduler_tick
  BY <1>7, scheduler_tickStep
<1>8. CASE UNCHANGED vars
  <2> USE <1>8 DEF vars
  <2>1. TypeOK' /\ Live' = Live /\ Queued' = Queued /\ top(cur)' = top(cur)
    BY DEF IInv, TypeOK, Live, Queued, top
  <2>2. StackShape' /\ PreemptExact' /\ Parked' /\ NextQueued'
    BY <2>1 DEF IInv, StackShape, PreemptExact, Parked, NextQueued, top
  <2>3. QueuedLive' /\ NewTask' /\ AddressInv'
    BY <2>1 DEF IInv, QueuedLive, NewTask, AddressInv
  <2>4. RingInv'
    BY <2>1 DEF IInv, RingInv
  <2> QED BY <2>1, <2>2, <2>3, <2>4 DEF IInv
<1> QED BY <1>1, <1>2, <1>3, <1>4, <1>5, <1>6, <1>7, <1>8 DEF Next, Kernel

\* The inductive invariant holds in every reachable state.
THEOREM Inductive == Spec => []IInv
<1>1. Init => IInv
  BY InitIInv
<1>2. IInv /\ [Next]_vars => IInv'
  BY NextIInv
<1> QED BY <1>1, <1>2, PTL DEF Spec

\* Every variable of the scheduler keeps its type.
THEOREM TypeCorrect == Spec => []TypeOK
<1>1. IInv => TypeOK
  BY DEF IInv
<1> QED BY <1>1, Inductive, PTL

\* preempt_disable and preempt_enable balance on every kernel stack, for any
\* number of tasks and any depth of nested ticks.
THEOREM PreemptionBalanced == Spec => []PreemptExact
<1>1. IInv => PreemptExact
  BY DEF IInv
<1> QED BY <1>1, Inductive, PTL

\* A task without the CPU always stands where cpu_switch_to can resume it.
THEOREM ResumableWhenParked == Spec => []Parked
<1>1. IInv => Parked
  BY DEF IInv
<1> QED BY <1>1, Inductive, PTL

\* Creations exclude each other: only the running task can be inside one.
THEOREM CreationExclusive == Spec => []OneCreator
<1>1. IInv => OneCreator
  <2> SUFFICES ASSUME IInv, NEW t \in Live, NEW i \in 1..Len(stack[t]),
                      stack[t][i].at \in CreateHeld
               PROVE  t = cur /\ i = Len(stack[t])
    BY DEF OneCreator
  <2>1. t \in Tasks /\ Len(stack[t]) \in Nat /\ top(t) = stack[t][Len(stack[t])]
    BY TopProps DEF IInv
  <2>2. i = Len(stack[t])
    <3>1. stack[t][i].at \in Held
      BY DEF Held
    <3> QED BY <2>1, <3>1 DEF IInv, PreemptExact
  <2> QED BY <2>1, <2>2 DEF IInv, Parked, CreateHeld
<1> QED BY <1>1, Inductive, PTL

\* Whatever other tasks did to the global `next' in between, switch_to is
\* called with a task that has been completely added.
THEOREM SwitchTargetsValid == Spec => []SwitchTargetQueued
<1>1. IInv => SwitchTargetQueued
  <2> SUFFICES ASSUME IInv, NEW t \in Live, NEW i \in 1..Len(stack[t]),
                      stack[t][i].op \in {"tick", "exit"},
                      stack[t][i].at \in {"switch_to", "check", "cpu_switch"}
               PROVE  stack[t][i].arg \in Queued
    BY DEF SwitchTargetQueued
  <2>1. SwitchArgOK(stack[t][i], next, Queued)
    BY DEF IInv, NextQueued, Live
  <2> QED BY <2>1 DEF SwitchArgOK
<1> QED BY <1>1, Inductive, PTL

\* Whenever the running task is preemptible the queue is a well-formed ring.
THEOREM QueueWellLinked == Spec => []QueueLinked
<1>1. IInv => QueueLinked
  <2> SUFFICES ASSUME IInv, preempt_count[cur] = 0 PROVE QueueLinked
    BY DEF QueueLinked
  <2>1. top(cur).at \notin Held
    BY CurProps
  <2>2. Ring(list_next, list_prev, Queued)
    BY <2>1 DEF IInv, RingInv, Held, CreateHeld
  <2> QED BY <2>2 DEF QueueLinked, Ring
<1> QED BY <1>1, Inductive, PTL

\* A process at EL0 runs in its own address space, on its own program.
THEOREM AddressSpaceOwned == Spec => []OwnAddressSpace
<1>1. IInv => OwnAddressSpace
  <2> SUFFICES ASSUME IInv, top(cur).at = "user"
               PROVE  ttbr0 = cur /\ image[cur] = cur
    BY DEF OwnAddressSpace
  <2>1. cur \in UTasks
    BY CurProps DEF FrameOK
  <2>2. cur \in Queued
    BY DEF IInv, QueuedLive
  <2> QED BY <2>1, <2>2 DEF IInv, AddressInv
<1> QED BY <1>1, Inductive, PTL

(***************************************************************************)
(* Processes that have exited.  A zombie that has the CPU is either in its *)
(* sys_exit, before switch_to has looked at its successor, or its          *)
(* successor is a zombie, too: switch_to gives the CPU to RUNNING tasks    *)
(* only, so that a zombie that loses it has lost it for ever.              *)
(***************************************************************************)
\* f is an activation of sys_exit that has not been refused, where n is the
\* global `next' and s the successor of the running task.
UnderWay(f, n, s) ==
  /\ f.op = "exit"
  /\ f.at \in {"schedule", "select", "select_done", "load_next", "switch_to", "check",
               "cpu_switch"}
  /\ f.at \in {"select_done", "load_next"} => n = s
  /\ f.at \in {"switch_to", "check", "cpu_switch"} => f.arg = s

ZombieCur == state[cur] = "ZOMBIE" =>
  \/ state[list_next[cur]] = "ZOMBIE"
  \/ Len(stack[cur]) >= 2 /\ UnderWay(stack[cur][2], next, list_next[cur])
CpuTarget == top(cur).at = "cpu_switch" => state[top(cur).arg] = "RUNNING"
\* A system call is the second activation, and only processes exit.
CallsBelow == \A t \in Tasks : \A i \in 1..Len(stack[t]) :
  /\ i > 2 => stack[t][i].op = "tick"
  /\ stack[t][i].op = "exit" => t \in UTasks
ZInv == ZombieCur /\ CpuTarget /\ CallsBelow /\ state[init_task] = "RUNNING"

\* Where the top activation of the running task stands in the stack.
LEMMA TopPlace ==
  ASSUME IInv, ZInv
  PROVE /\ top(cur).op \in {"kthread", "execv", "exit"} => Len(stack[cur]) = 2
        /\ top(cur).op = "base" <=> Len(stack[cur]) = 1
        /\ top(cur).op = "exit" => cur \in UTasks
<1>1. /\ cur \in Tasks /\ Len(stack[cur]) \in Nat /\ Len(stack[cur]) >= 1
      /\ top(cur) = stack[cur][Len(stack[cur])]
      /\ FrameOK(top(cur), cur, Len(stack[cur]))
  BY CurProps
<1>2. Len(stack[cur]) \in 1..Len(stack[cur])
  BY <1>1
<1>3. /\ Len(stack[cur]) > 2 => top(cur).op = "tick"
      /\ top(cur).op = "exit" => cur \in UTasks
  BY <1>1, <1>2 DEF ZInv, CallsBelow
<1>4. top(cur).op = "base" <=> Len(stack[cur]) = 1
  BY <1>1 DEF FrameOK
<1>5. ASSUME top(cur).op \in {"kthread", "execv", "exit"}
      PROVE Len(stack[cur]) = 2
  <2>1. Len(stack[cur]) \in Nat /\ Len(stack[cur]) >= 1
    BY <1>1
  <2>2. ~(Len(stack[cur]) > 2) /\ Len(stack[cur]) # 1
    BY <1>3, <1>4, <1>5
  <2>3. \A n \in Nat : n >= 1 /\ ~(n > 2) /\ n # 1 => n = 2
    OBVIOUS
  <2> QED BY <2>1, <2>2, <2>3, Zenon
<1> QED BY <1>3, <1>4, <1>5

\* The stacks after the running task's top activation has moved to f.
LEMMA ZShape ==
  ASSUME IInv, ZInv, cur' = cur, NEW f \in Frame,
         stack' = [stack EXCEPT ![cur] = SetTop(@, f)], f.op = top(cur).op,
         f.at = "cpu_switch" => state'[f.arg] = "RUNNING"
  PROVE CallsBelow' /\ CpuTarget'
<1>1. /\ \A t \in Tasks : Len(stack'[t]) = Len(stack[t])
      /\ \A t \in Tasks : t # cur => stack'[t] = stack[t]
      /\ \A i \in 1..Len(stack[cur]) :
           stack'[cur][i] = IF i = Len(stack[cur]) THEN f ELSE stack[cur][i]
  BY CurProps, MoveProps
<1>2. /\ cur \in Tasks /\ Len(stack[cur]) \in Nat /\ Len(stack[cur]) >= 1
      /\ top(cur) = stack[cur][Len(stack[cur])]
  BY CurProps
<1>3. top(cur)' = f
  BY <1>1, <1>2 DEF top
<1>4. CallsBelow'
  <2> SUFFICES ASSUME NEW t \in Tasks, NEW i \in 1..Len(stack[t])
               PROVE /\ i > 2 => stack'[t][i].op = "tick"
                     /\ stack'[t][i].op = "exit" => t \in UTasks
    BY <1>1 DEF CallsBelow
  <2>1. stack'[t][i].op = stack[t][i].op
    BY <1>1, <1>2
  <2> QED BY <2>1 DEF ZInv, CallsBelow
<1>5. CpuTarget'
  BY <1>3 DEF CpuTarget
<1> QED BY <1>4, <1>5

\* The running task's top activation moves to f and nothing else matters.
LEMMA ZMove ==
  ASSUME IInv, ZInv, cur' = cur, NEW f \in Frame,
         stack' = [stack EXCEPT ![cur] = SetTop(@, f)], f.op = top(cur).op,
         state' = state, list_next'[cur] = list_next[cur],
         next' = next \/ next' = list_next[cur],
         f.at = "cpu_switch" => state[f.arg] = "RUNNING",
         (f.op = "exit" /\ UnderWay(top(cur), next, list_next[cur])
            /\ state[list_next[cur]] # "ZOMBIE")
           => UnderWay(f, next', list_next[cur])
  PROVE ZInv'
<1>1. /\ \A t \in Tasks : Len(stack'[t]) = Len(stack[t])
      /\ \A t \in Tasks : t # cur => stack'[t] = stack[t]
      /\ \A i \in 1..Len(stack[cur]) :
           stack'[cur][i] = IF i = Len(stack[cur]) THEN f ELSE stack[cur][i]
  BY CurProps, MoveProps
<1>2. /\ cur \in Tasks /\ Len(stack[cur]) \in Nat /\ Len(stack[cur]) >= 1
      /\ top(cur) = stack[cur][Len(stack[cur])]
  BY CurProps
<1>3. CallsBelow' /\ CpuTarget'
  BY ZShape
<1>6. ZombieCur'
  <2> SUFFICES ASSUME state[cur] = "ZOMBIE", state[list_next[cur]] # "ZOMBIE"
               PROVE Len(stack'[cur]) >= 2 /\ UnderWay(stack'[cur][2], next', list_next[cur])
    BY DEF ZombieCur
  <2>1. Len(stack[cur]) >= 2 /\ UnderWay(stack[cur][2], next, list_next[cur])
    BY DEF ZInv, ZombieCur
  <2>2. CASE Len(stack[cur]) = 2
    <3>1. UnderWay(f, next', list_next[cur])
      BY <1>2, <2>1, <2>2 DEF UnderWay
    <3> QED BY <1>1, <1>2, <2>2, <3>1
  <2>3. CASE Len(stack[cur]) # 2
    <3>1. stack'[cur][2] = stack[cur][2]
      <4>1. 2 \in 1..Len(stack[cur])
        BY <1>2, <2>1
      <4> QED BY <1>1, <2>3, <4>1
    <3>2. UnderWay(stack[cur][2], next', list_next[cur])
      BY <2>1 DEF UnderWay
    <3> QED BY <1>1, <1>2, <2>1, <3>1, <3>2
  <2> QED BY <2>2, <2>3
<1> QED BY <1>3, <1>6 DEF ZInv

\* The running task's top activation with another place.
LEMMA MovedFrame ==
  ASSUME IInv, NEW a \in BasePlaces \cup CreatePlaces \cup ExitPlaces
  PROVE /\ [top(cur) EXCEPT !.at = a] \in Frame
        /\ [top(cur) EXCEPT !.at = a].op = top(cur).op
        /\ [top(cur) EXCEPT !.at = a].at = a
        /\ [top(cur) EXCEPT !.at = a].arg = top(cur).arg
<1>1. top(cur) \in Frame
  BY CurProps
<1> QED BY <1>1 DEF Frame

\* MoveTo, under the same conditions.
LEMMA ZMoveTo ==
  ASSUME IInv, ZInv, cur' = cur, NEW a \in BasePlaces \cup CreatePlaces \cup ExitPlaces,
         MoveTo(a),
         state' = state, list_next'[cur] = list_next[cur],
         next' = next \/ next' = list_next[cur],
         a = "cpu_switch" => state[top(cur).arg] = "RUNNING",
         (top(cur).op = "exit" /\ UnderWay(top(cur), next, list_next[cur])
            /\ state[list_next[cur]] # "ZOMBIE")
           => /\ a \in {"schedule", "select", "select_done", "load_next", "switch_to", "check",
                        "cpu_switch"}
              /\ a \in {"select_done", "load_next"} => next' = list_next[cur]
              /\ a \in {"switch_to", "check", "cpu_switch"} => top(cur).arg = list_next[cur]
  PROVE ZInv'
<1> DEFINE f == [top(cur) EXCEPT !.at = a]
<1>1. f \in Frame /\ f.op = top(cur).op /\ f.at = a /\ f.arg = top(cur).arg
  BY MovedFrame
<1>2. stack' = [stack EXCEPT ![cur] = SetTop(@, f)]
  BY DEF MoveTo
<1> HIDE DEF f
<1>3. (f.op = "exit" /\ UnderWay(top(cur), next, list_next[cur])
         /\ state[list_next[cur]] # "ZOMBIE")
        => UnderWay(f, next', list_next[cur])
  BY <1>1 DEF UnderWay
<1> QED BY <1>1, <1>2, <1>3, ZMove

\* The moves of a boot, a creation and a new task concern no zombie.
LEMMA ZQuiet ==
  ASSUME IInv, ZInv,
         \/ BootIrq \/ ret_from_fork \/ CreateBegin \/ CreateCopy \/ CreateMmBack
         \/ AddNewPrev
  PROVE ZInv'
<1>1. top(cur).op # "exit" /\ state' = state /\ list_next' = list_next /\ next' = next
      /\ cur' = cur
  BY DEF BootIrq, ret_from_fork, CreateBegin, CreateCopy, CreateMmBack, AddNewPrev, Here,
         queue_vars
<1>2. \E x \in (BasePlaces \cup CreatePlaces \cup ExitPlaces) \ {"cpu_switch"} : MoveTo(x)
  BY DEF BootIrq, ret_from_fork, CreateBegin, CreateCopy, CreateMmBack, AddNewPrev,
         BasePlaces, CreatePlaces, CreateHeld
<1>3. PICK x \in (BasePlaces \cup CreatePlaces \cup ExitPlaces) \ {"cpu_switch"} : MoveTo(x)
  BY <1>2
<1> QED BY <1>1, <1>3, ZMoveTo

\* A store of __list_add that does not touch the link after the running task.
LEMMA ZAddNextPrev ==
  ASSUME IInv, ZInv, AddNextPrev
  PROVE ZInv'
<1> DEFINE f == [top(cur) EXCEPT !.at = "add_new_next", !.prev = list_prev[init_task]]
<1>1. top(cur).op # "exit" /\ state' = state /\ list_next' = list_next /\ next' = next
      /\ cur' = cur
  BY DEF AddNextPrev, Here
<1>2. stack' = [stack EXCEPT ![cur] = SetTop(@, f)]
  BY DEF AddNextPrev
<1>3. f \in Frame /\ f.op = top(cur).op /\ f.at = "add_new_next"
  <2>1. list_prev[init_task] \in Pointers /\ top(cur) \in Frame
    BY CurProps DEF TypeOK, Tasks
  <2> QED BY <2>1 DEF Frame, CreatePlaces, CreateHeld
<1> HIDE DEF f
<1> QED BY <1>1, <1>2, <1>3, ZMove

\* new->next = head
LEMMA ZAddNewNext ==
  ASSUME IInv, ZInv, AddNewNext
  PROVE ZInv'
<1>1. top(cur).op # "exit" /\ state' = state /\ next' = next /\ cur' = cur
      /\ MoveTo("add_new_prev")
  BY DEF AddNewNext, Here
<1>2. top(cur).arg # cur
  BY DEF IInv, NewTask, QueuedLive, AddNewNext, Here, CreateHeld
<1>3. list_next'[cur] = list_next[cur]
  BY <1>2, CurProps DEF AddNewNext, TypeOK
<1>4. "add_new_prev" \in CreatePlaces
  BY DEF CreatePlaces, CreateHeld
<1> QED BY <1>1, <1>3, <1>4, ZMoveTo

\* prev->next = new: the running zombie is not the last task of the ring, for
\* the head comes after that one and never exits.
LEMMA ZAddPrevNext ==
  ASSUME IInv, ZInv, AddPrevNext
  PROVE ZInv'
<1> DEFINE f == [top(cur) EXCEPT !.at = "set_running"]
<1>1. top(cur).op \in {"kthread", "execv"} /\ state' = state /\ next' = next /\ cur' = cur
      /\ list_next' = [list_next EXCEPT ![top(cur).prev] = top(cur).arg]
  BY DEF AddPrevNext, Here
<1>2. list_next[top(cur).prev] = init_task
  <2> DEFINE pr == top(cur).prev
             pv == [list_prev EXCEPT ![init_task] = pr]
  <2>1. Ring(list_next, pv, Queued) /\ init_task \in Queued
    BY DEF IInv, RingInv, AddPrevNext, Here, QueuedLive
  <2>2. pv[init_task] = pr
    BY <2>1, CurProps DEF TypeOK, Queued
  <2> HIDE DEF pv, pr
  <2>3. list_next[pr] = init_task
    BY <2>1, <2>2 DEF Ring
  <2> QED BY <2>3 DEF pr
<1>3. Len(stack[cur]) = 2 /\ top(cur).op # "exit"
  BY <1>1, TopPlace
<1>4. state[cur] = "ZOMBIE" => state[list_next[cur]] = "ZOMBIE"
  BY <1>3, CurProps DEF ZInv, ZombieCur, UnderWay
<1>5. CASE state[cur] = "ZOMBIE"
  <2>1. cur # top(cur).prev
    BY <1>2, <1>4, <1>5 DEF ZInv
  <2>2. list_next'[cur] = list_next[cur]
    BY <1>1, <2>1, CurProps DEF TypeOK
  <2>3. "set_running" \in CreatePlaces /\ MoveTo("set_running")
    BY DEF CreatePlaces, CreateHeld, AddPrevNext
  <2> QED BY <1>1, <1>3, <2>2, <2>3, ZMoveTo
<1>6. CASE state[cur] # "ZOMBIE"
  <2>1. f \in Frame /\ f.op = top(cur).op /\ f.at = "set_running"
    BY MovedFrame DEF CreatePlaces, CreateHeld
  <2>2. stack' = [stack EXCEPT ![cur] = SetTop(@, f)]
    BY DEF AddPrevNext, MoveTo
  <2> HIDE DEF f
  <2>3. CallsBelow' /\ CpuTarget'
    BY <1>1, <2>1, <2>2, ZShape
  <2>4. ZombieCur'
    BY <1>1, <1>6 DEF ZombieCur
  <2> QED BY <1>1, <2>3, <2>4 DEF ZInv
<1> QED BY <1>5, <1>6

\* The new task is set RUNNING; it is neither the running task nor a zombie.
LEMMA ZSetRunning ==
  ASSUME IInv, ZInv, SetRunning
  PROVE ZInv'
<1> DEFINE f == [top(cur) EXCEPT !.at = "create_done"]
           p == top(cur).arg
<1>1. /\ cur' = cur /\ next' = next /\ list_next' = list_next
      /\ state' = [state EXCEPT ![p] = "RUNNING"]
      /\ top(cur).op \in {"kthread", "execv"}
  BY DEF SetRunning, Here, queue_vars
<1>2. p \notin Queued /\ cur \in Queued /\ init_task \in Queued /\ p \in Tasks
  BY DEF IInv, NewTask, QueuedLive, SetRunning, Here, CreateHeld, Live
<1>3. state[p] = "DEAD"
  BY <1>2 DEF Queued
<1>4. f \in Frame /\ f.op = top(cur).op /\ f.at = "create_done"
  BY MovedFrame DEF CreatePlaces, CreateHeld
<1>5. stack' = [stack EXCEPT ![cur] = SetTop(@, f)]
  BY DEF SetRunning, MoveTo
<1> HIDE DEF f, p
<1>6. CallsBelow' /\ CpuTarget'
  BY <1>1, <1>4, <1>5, ZShape
<1>7. /\ \A t \in Tasks : state[t] = "ZOMBIE" => state'[t] = "ZOMBIE"
      /\ state'[cur] = state[cur] /\ state'[init_task] = state[init_task]
  BY <1>1, <1>2, <1>3, CurProps DEF TypeOK, Queued
<1>8. state[cur] = "ZOMBIE" => state[list_next[cur]] = "ZOMBIE"
  <2>1. Len(stack[cur]) = 2 /\ top(cur).op # "exit"
    BY <1>1, TopPlace
  <2> QED BY <2>1, CurProps DEF ZInv, ZombieCur, UnderWay
<1>9. ZombieCur'
  <2> SUFFICES ASSUME state[cur] = "ZOMBIE"
               PROVE state'[list_next[cur]] = "ZOMBIE"
    BY <1>1, <1>7 DEF ZombieCur
  <2>1. list_next[cur] \in Tasks
    <3>1. list_next[cur] \in Pointers
      BY CurProps DEF TypeOK
    <3>2. CASE list_next[cur] = NULL
      <4>1. Ring(list_next, list_prev, Queued \cup {p})
        BY DEF IInv, RingInv, SetRunning, Here, p
      <4> QED BY <1>2, <3>2, <4>1, TasksAssumption DEF Ring, Queued
    <3> QED BY <3>1, <3>2 DEF Pointers
  <2> QED BY <1>7, <1>8, <2>1
<1> QED BY <1>6, <1>7, <1>9 DEF ZInv

\* sys_exit marks the running process.
LEMMA ZExitZombie ==
  ASSUME IInv, ZInv, ExitZombie
  PROVE ZInv'
<1> DEFINE f == [top(cur) EXCEPT !.at = "schedule"]
<1>1. /\ cur' = cur /\ next' = next /\ list_next' = list_next
      /\ state' = [state EXCEPT ![cur] = "ZOMBIE"]
      /\ top(cur).op = "exit"
  BY DEF ExitZombie, Here, queue_vars
<1>2. Len(stack[cur]) = 2 /\ cur \in UTasks /\ cur \in Tasks
  BY <1>1, TopPlace, CurProps
<1>3. f \in Frame /\ f.op = top(cur).op /\ f.at = "schedule"
  BY MovedFrame DEF ExitPlaces
<1>4. stack' = [stack EXCEPT ![cur] = SetTop(@, f)]
  BY DEF ExitZombie, MoveTo
<1> HIDE DEF f
<1>5. CallsBelow' /\ CpuTarget'
  BY <1>1, <1>3, <1>4, ZShape
<1>6. Len(stack'[cur]) = 2 /\ stack'[cur][2] = f
  <2>1. /\ \A t \in Tasks : Len(stack'[t]) = Len(stack[t])
        /\ \A i \in 1..Len(stack[cur]) :
             stack'[cur][i] = IF i = Len(stack[cur]) THEN f ELSE stack[cur][i]
    BY <1>3, <1>4, CurProps, MoveProps
  <2>2. 2 \in 1..Len(stack[cur])
    BY <1>2
  <2> QED BY <1>2, <2>1, <2>2
<1>7. ZombieCur'
  <2>1. \A n, s : UnderWay(f, n, s)
    BY <1>1, <1>3 DEF UnderWay
  <2>2. Len(stack'[cur]) >= 2 /\ UnderWay(stack'[cur][2], next', list_next'[cur])
    BY <1>6, <2>1
  <2> QED BY <1>1, <2>2 DEF ZombieCur
<1>8. state'[init_task] = "RUNNING"
  BY <1>1, <1>2, TasksAssumption, CurProps DEF ZInv, TypeOK, Tasks
<1> QED BY <1>5, <1>7, <1>8 DEF ZInv

\* schedule() selects the successor; nothing comes between that and switch_to
\* but ticks of the same task, which select it, too.
LEMMA ZSchedule ==
  ASSUME IInv, ZInv, ScheduleBegin \/ SelectNext \/ SelectEnd
  PROVE ZInv'
<1>1. state' = state /\ list_next' = list_next /\ cur' = cur
  BY DEF ScheduleBegin, SelectNext, SelectEnd, queue_vars
<1>2. CASE ScheduleBegin
  <2>1. preempt_count[cur] = 0
    BY <1>2, CurProps DEF ScheduleBegin, Here, Held, CreateHeld, SelectHeld, SwitchHeld
  <2>2. MoveTo("select") /\ next' = next
    BY <1>2, <2>1 DEF ScheduleBegin
  <2>3. "select" \in ExitPlaces
    BY DEF ExitPlaces, SelectHeld
  <2> QED BY <1>1, <2>2, <2>3, ZMoveTo
<1>3. CASE SelectNext
  <2>1. MoveTo("select_done") /\ next' = list_next[cur]
    BY <1>3 DEF SelectNext
  <2>2. "select_done" \in ExitPlaces
    BY DEF ExitPlaces, SelectHeld
  <2> QED BY <1>1, <2>1, <2>2, ZMoveTo
<1>4. CASE SelectEnd
  <2>1. MoveTo("load_next") /\ next' = next /\ top(cur).at = "select_done"
    BY <1>4 DEF SelectEnd, Here
  <2>2. "load_next" \in ExitPlaces
    BY DEF ExitPlaces, SwitchPlaces
  <2>3. UnderWay(top(cur), next, list_next[cur]) => next' = list_next[cur]
    BY <2>1 DEF UnderWay
  <2> QED BY <1>1, <2>1, <2>2, <2>3, ZMoveTo
<1> QED BY <1>2, <1>3, <1>4

\* switch_to up to the switch.
LEMMA ZSwitch ==
  ASSUME IInv, ZInv, LoadNext \/ SwitchBegin \/ SwitchCheck \/ SwitchEnd
  PROVE ZInv'
<1>1. state' = state /\ list_next' = list_next /\ cur' = cur /\ next' = next
  BY DEF LoadNext, SwitchBegin, SwitchCheck, SwitchEnd, queue_vars
<1>2. CASE LoadNext
  <2> DEFINE f == [top(cur) EXCEPT !.at = "switch_to", !.arg = next]
  <2>1. f \in Frame /\ f.op = top(cur).op /\ f.at = "switch_to" /\ f.arg = next
    <3>1. top(cur) \in Frame /\ next \in Pointers
      BY CurProps DEF TypeOK
    <3> QED BY <3>1 DEF Frame, ExitPlaces, SwitchPlaces
  <2>2. stack' = [stack EXCEPT ![cur] = SetTop(@, f)] /\ top(cur).at = "load_next"
    BY <1>2 DEF LoadNext, Here
  <2> HIDE DEF f
  <2>3. f.op = "exit" /\ UnderWay(top(cur), next, list_next[cur])
          => UnderWay(f, next', list_next[cur])
    BY <2>1, <2>2 DEF UnderWay
  <2> QED BY <1>1, <2>1, <2>2, <2>3, ZMove
<1>3. CASE SwitchBegin
  <2>1. MoveTo("check") /\ top(cur).at = "switch_to"
    BY <1>3 DEF SwitchBegin, Here
  <2>2. "check" \in ExitPlaces
    BY DEF ExitPlaces, SwitchPlaces, SwitchHeld
  <2>3. UnderWay(top(cur), next, list_next[cur]) => top(cur).arg = list_next[cur]
    BY <2>1 DEF UnderWay
  <2> QED BY <1>1, <2>1, <2>2, <2>3, ZMoveTo
<1>4. CASE SwitchCheck
  <2>1. top(cur).at = "check" /\ top(cur).op \in {"tick", "exit"} /\ top(cur).arg \in Queued
    BY <1>4, CurProps DEF SwitchCheck, Here, SwitchArgOK
  <2>2. UnderWay(top(cur), next, list_next[cur]) => top(cur).arg = list_next[cur]
    BY <2>1 DEF UnderWay
  <2>3. CASE Refuses(top(cur).arg)
    <3> DEFINE f == frame(top(cur).op, "out")
    <3>1. stack' = [stack EXCEPT ![cur] = SetTop(@, f)]
      BY <1>4, <2>3 DEF SwitchCheck, Leave
    <3>2. f \in Frame /\ f.op = top(cur).op /\ f.at = "out"
      BY <2>1, FrameProps DEF ExitPlaces, SwitchPlaces, SwitchHeld
    <3> HIDE DEF f
    <3>3. state[cur] = "ZOMBIE" /\ UnderWay(top(cur), next, list_next[cur])
            => state[list_next[cur]] = "ZOMBIE"
      <4> SUFFICES ASSUME state[cur] = "ZOMBIE", UnderWay(top(cur), next, list_next[cur])
                   PROVE state[list_next[cur]] = "ZOMBIE"
        OBVIOUS
      <4>1. CASE top(cur).arg = cur
        BY <2>2, <4>1
      <4>2. CASE top(cur).arg # cur
        <5>1. top(cur).arg \in Tasks /\ state[top(cur).arg] \in {"RUNNING", "ZOMBIE"}
          BY <2>1, CurProps DEF Queued, TypeOK
        <5>2. top(cur).arg # NULL
          BY <5>1, TasksAssumption
        <5>3. state[top(cur).arg] # "RUNNING"
          BY <2>3, <4>2, <5>1, <5>2 DEF Refuses
        <5> QED BY <2>2, <5>1, <5>3
      <4> QED BY <4>1, <4>2
    <3>4. CallsBelow' /\ CpuTarget'
      BY <1>1, <3>1, <3>2, ZShape
    <3>5. ZombieCur'
      <4>1. CASE state[cur] = "ZOMBIE" /\ state[list_next[cur]] # "ZOMBIE"
        <5>1. ~UnderWay(top(cur), next, list_next[cur])
          BY <3>3, <4>1
        <5>2. ZInv'
          BY <1>1, <3>1, <3>2, <5>1, ZMove
        <5> QED BY <5>2 DEF ZInv
      <4>2. CASE state[cur] # "ZOMBIE" \/ state[list_next[cur]] = "ZOMBIE"
        BY <1>1, <4>2 DEF ZombieCur
      <4> QED BY <4>1, <4>2
    <3> QED BY <1>1, <3>4, <3>5 DEF ZInv
  <2>4. CASE ~Refuses(top(cur).arg)
    <3>1. MoveTo("cpu_switch")
      BY <1>4, <2>4 DEF SwitchCheck
    <3>2. "cpu_switch" \in ExitPlaces
      BY DEF ExitPlaces, SwitchPlaces, SwitchHeld
    <3>3. state[top(cur).arg] = "RUNNING"
      BY <2>1, <2>4 DEF Refuses, Queued
    <3> QED BY <1>1, <2>2, <3>1, <3>2, <3>3, ZMoveTo
  <2> QED BY <2>3, <2>4
<1>5. CASE SwitchEnd
  <2>1. MoveTo("ret") /\ top(cur).at = "out"
    BY <1>5 DEF SwitchEnd, Here
  <2>2. "ret" \in ExitPlaces
    BY DEF ExitPlaces, SwitchPlaces
  <2>3. ~UnderWay(top(cur), next, list_next[cur])
    BY <2>1 DEF UnderWay
  <2> QED BY <1>1, <2>1, <2>2, <2>3, ZMoveTo
<1> QED BY <1>2, <1>3, <1>4, <1>5

\* cpu_switch_to gives the CPU to a RUNNING task.
LEMMA ZCpuSwitchTo ==
  ASSUME IInv, ZInv, CpuSwitchTo
  PROVE ZInv'
<1> DEFINE f == frame(top(cur).op, "out")
           n == top(cur).arg
<1>1. /\ top(cur).at = "cpu_switch" /\ top(cur).op \in {"tick", "exit"}
      /\ cur' = n /\ state' = state
      /\ stack' = [stack EXCEPT ![cur] = SetTop(@, f)]
  BY DEF CpuSwitchTo, Here, Leave
<1>2. state[n] = "RUNNING"
  BY <1>1 DEF ZInv, CpuTarget
<1>3. n \in Live /\ n \in Tasks
  BY <1>1, CurProps DEF SwitchArgOK, IInv, QueuedLive, Live
<1>4. f \in Frame /\ f.op = top(cur).op /\ f.at = "out"
  BY <1>1, FrameProps DEF ExitPlaces, SwitchPlaces, SwitchHeld
<1> HIDE DEF f, n
<1>5. /\ \A t \in Tasks : Len(stack'[t]) = Len(stack[t])
      /\ \A t \in Tasks : t # cur => stack'[t] = stack[t]
      /\ \A i \in 1..Len(stack[cur]) :
           stack'[cur][i] = IF i = Len(stack[cur]) THEN f ELSE stack[cur][i]
  BY <1>1, <1>4, CurProps, MoveProps
<1>6. /\ cur \in Tasks /\ Len(stack[cur]) \in Nat /\ Len(stack[cur]) >= 1
      /\ top(cur) = stack[cur][Len(stack[cur])]
  BY CurProps
<1>7. CallsBelow'
  <2> SUFFICES ASSUME NEW t \in Tasks, NEW i \in 1..Len(stack[t])
               PROVE /\ i > 2 => stack'[t][i].op = "tick"
                     /\ stack'[t][i].op = "exit" => t \in UTasks
    BY <1>5 DEF CallsBelow
  <2>1. stack'[t][i].op = stack[t][i].op
    BY <1>4, <1>5, <1>6
  <2> QED BY <2>1 DEF ZInv, CallsBelow
<1>8. CpuTarget'
  <2>1. stack'[n][Len(stack'[n])].at # "cpu_switch"
    <3>1. CASE n = cur
      BY <1>4, <1>5, <1>6, <3>1
    <3>2. CASE n # cur
      <4>1. top(n).at # "cpu_switch"
        BY <1>3, <3>2, CurProps DEF StackInv, Parked
      <4> QED BY <1>3, <1>5, <3>2, <4>1 DEF top
    <3> QED BY <3>1, <3>2
  <2> QED BY <1>1, <2>1 DEF CpuTarget, top
<1>9. ZombieCur'
  BY <1>1, <1>2 DEF ZombieCur
<1> QED BY <1>1, <1>7, <1>8, <1>9 DEF ZInv

\* A tick comes on top of anything, a system call on top of the program.
LEMMA ZCall ==
  ASSUME IInv, ZInv, cur' = cur, NEW f \in Frame,
         stack' = [stack EXCEPT ![cur] = Push(@, f)], f.at # "cpu_switch",
         \/ f.op = "tick"
         \/ /\ top(cur).op = "base"
            /\ f.op = "exit" => cur \in UTasks,
         state' = state, list_next' = list_next,
         next' = next \/ next' = list_next[cur]
  PROVE ZInv'
<1>1. /\ \A t \in Tasks : t # cur => stack'[t] = stack[t]
      /\ Len(stack'[cur]) = Len(stack[cur]) + 1
      /\ stack'[cur][Len(stack[cur]) + 1] = f
      /\ \A i \in 1..Len(stack[cur]) : stack'[cur][i] = stack[cur][i]
  BY CurProps, CallProps
<1>2. cur \in Tasks /\ Len(stack[cur]) \in Nat /\ Len(stack[cur]) >= 1
  BY CurProps
<1>3. CpuTarget'
  BY <1>1, <1>2 DEF CpuTarget, top
<1>4. CallsBelow'
  <2> SUFFICES ASSUME NEW t \in Tasks, NEW i \in 1..Len(stack'[t])
               PROVE /\ i > 2 => stack'[t][i].op = "tick"
                     /\ stack'[t][i].op = "exit" => t \in UTasks
    BY DEF CallsBelow
  <2>1. CASE t # cur
    BY <1>1, <2>1 DEF ZInv, CallsBelow
  <2>2. CASE t = cur /\ i \in 1..Len(stack[cur])
    BY <1>1, <1>2, <2>2 DEF ZInv, CallsBelow
  <2>3. CASE t = cur /\ i = Len(stack[cur]) + 1
    <3>1. stack'[t][i] = f
      BY <1>1, <2>3
    <3>2. CASE f.op = "tick"
      BY <3>1, <3>2
    <3>3. CASE top(cur).op = "base" /\ (f.op = "exit" => cur \in UTasks)
      <4>1. Len(stack[cur]) = 1
        BY <3>3, TopPlace, Zenon
      <4>2. i = 1 + 1
        BY <2>3, <4>1, Zenon
      <4>3. ~(i > 2)
        BY <4>2
      <4> QED BY <2>3, <3>1, <3>3, <4>3
    <3> QED BY <3>2, <3>3
  <2>4. i \in 1..Len(stack[cur]) \/ i = Len(stack[cur]) + 1 \/ t # cur
    BY <1>1, <1>2
  <2> QED BY <2>1, <2>2, <2>3, <2>4
<1>5. ZombieCur'
  <2> SUFFICES ASSUME state[cur] = "ZOMBIE", state[list_next[cur]] # "ZOMBIE"
               PROVE Len(stack'[cur]) >= 2 /\ UnderWay(stack'[cur][2], next', list_next[cur])
    BY DEF ZombieCur
  <2>1. Len(stack[cur]) >= 2 /\ UnderWay(stack[cur][2], next, list_next[cur])
    BY DEF ZInv, ZombieCur
  <2>2. 2 \in 1..Len(stack[cur])
    BY <1>2, <2>1
  <2>3. stack'[cur][2] = stack[cur][2]
    BY <1>1, <2>2
  <2>4. UnderWay(stack[cur][2], next', list_next[cur])
    BY <2>1 DEF UnderWay
  <2> QED BY <1>1, <1>2, <2>1, <2>3, <2>4
<1> QED BY <1>3, <1>4, <1>5 DEF ZInv

\* The calls of a process and the tick.
LEMMA ZCalls ==
  ASSUME IInv, ZInv, SysExecv \/ SysExit \/ scheduler_tick
  PROVE ZInv'
<1>1. state' = state /\ list_next' = list_next /\ cur' = cur
  BY DEF SysExecv, SysExit, scheduler_tick, queue_vars
<1>2. CASE SysExecv
  <2> DEFINE f == frame("execv", "create")
  <2>1. f \in Frame /\ f.op = "execv" /\ f.at = "create"
    BY FrameProps DEF CreatePlaces
  <2>2. stack' = [stack EXCEPT ![cur] = Push(@, f)] /\ top(cur).op = "base" /\ next' = next
    BY <1>2 DEF SysExecv, Call, Here
  <2> HIDE DEF f
  <2> QED BY <1>1, <2>1, <2>2, ZCall
<1>3. CASE SysExit
  <2> DEFINE f == frame("exit", "zombie")
  <2>1. f \in Frame /\ f.op = "exit" /\ f.at = "zombie"
    BY FrameProps DEF ExitPlaces
  <2>2. stack' = [stack EXCEPT ![cur] = Push(@, f)] /\ top(cur).op = "base" /\ next' = next
        /\ top(cur).at = "user"
    BY <1>3 DEF SysExit, Call, Here
  <2>3. cur \in UTasks
    BY <2>2, CurProps DEF FrameOK
  <2> HIDE DEF f
  <2> QED BY <1>1, <2>1, <2>2, <2>3, ZCall
<1>4. CASE scheduler_tick
  <2> DEFINE f == frame("tick", "load_next")
  <2>1. f \in Frame /\ f.op = "tick" /\ f.at = "load_next"
    BY FrameProps DEF ExitPlaces, SwitchPlaces
  <2>2. stack' = [stack EXCEPT ![cur] = Push(@, f)] /\ next' = list_next[cur]
    BY <1>4 DEF scheduler_tick, Call
  <2> HIDE DEF f
  <2> QED BY <1>1, <2>1, <2>2, ZCall
<1> QED BY <1>2, <1>3, <1>4

\* A creation or a switch returns.
LEMMA ZReturn ==
  ASSUME IInv, ZInv, CreateEnd \/ SwitchReturn
  PROVE ZInv'
<1>1. /\ state' = state /\ list_next' = list_next /\ cur' = cur /\ next' = next /\ Return
      /\ top(cur).op # "base" /\ top(cur).at \in {"create_done", "ret"}
  BY DEF CreateEnd, SwitchReturn, queue_vars, Here
<1>2. /\ cur \in Tasks /\ Len(stack[cur]) \in Nat /\ Len(stack[cur]) > 1
      /\ top(cur) = stack[cur][Len(stack[cur])]
  <2>1. /\ cur \in Tasks /\ Len(stack[cur]) \in Nat /\ Len(stack[cur]) >= 1
        /\ top(cur) = stack[cur][Len(stack[cur])]
    BY CurProps
  <2>2. Len(stack[cur]) # 1
    BY <1>1, TopPlace, Zenon
  <2>3. \A n \in Nat : n >= 1 /\ n # 1 => n > 1
    OBVIOUS
  <2> QED BY <2>1, <2>2, <2>3, Zenon
<1>3. /\ \A t \in Tasks : t # cur => stack'[t] = stack[t]
      /\ Len(stack'[cur]) = Len(stack[cur]) - 1
      /\ \A i \in 1..(Len(stack[cur]) - 1) : stack'[cur][i] = stack[cur][i]
  BY <1>1, <1>2, CurProps, ReturnProps
<1>4. CpuTarget'
  <2>1. Len(stack[cur]) - 1 \in 1..(Len(stack[cur]) - 1)
    BY <1>2
  <2>2. stack[cur][Len(stack[cur]) - 1].at \notin Held
    BY <1>2, <2>1, CurProps DEF StackInv, PreemptExact
  <2>3. top(cur)' = stack[cur][Len(stack[cur]) - 1]
    BY <1>1, <1>3, <2>1 DEF top
  <2> QED BY <2>2, <2>3 DEF CpuTarget, Held, SwitchHeld
<1>5. CallsBelow'
  <2> SUFFICES ASSUME NEW t \in Tasks, NEW i \in 1..Len(stack'[t])
               PROVE /\ i > 2 => stack'[t][i].op = "tick"
                     /\ stack'[t][i].op = "exit" => t \in UTasks
    BY DEF CallsBelow
  <2>1. CASE t # cur
    BY <1>3, <2>1 DEF ZInv, CallsBelow
  <2>2. CASE t = cur
    BY <1>2, <1>3, <2>2 DEF ZInv, CallsBelow
  <2> QED BY <2>1, <2>2
<1>6. ZombieCur'
  <2> SUFFICES ASSUME state[cur] = "ZOMBIE", state[list_next[cur]] # "ZOMBIE"
               PROVE Len(stack'[cur]) >= 2 /\ UnderWay(stack'[cur][2], next, list_next[cur])
    BY <1>1 DEF ZombieCur
  <2>1. Len(stack[cur]) >= 2 /\ UnderWay(stack[cur][2], next, list_next[cur])
    BY DEF ZInv, ZombieCur
  <2>2. Len(stack[cur]) # 2
    BY <1>1, <1>2, <2>1 DEF UnderWay
  <2>3. 2 \in 1..(Len(stack[cur]) - 1)
    <3>1. \A n \in Nat : n >= 2 /\ n # 2 => 2 \in 1..(n - 1)
      OBVIOUS
    <3> QED BY <1>2, <2>1, <2>2, <3>1, Zenon
  <2> QED BY <1>2, <1>3, <2>1, <2>3
<1> QED BY <1>1, <1>4, <1>5, <1>6 DEF ZInv

\* init_main calls kthread_create and sys_execv.
LEMMA ZBootCall ==
  ASSUME IInv, ZInv, BootKthread \/ BootExecv
  PROVE ZInv'
<1>1. /\ state' = state /\ list_next' = list_next /\ cur' = cur /\ next' = next
      /\ top(cur).op = "base"
  BY DEF BootKthread, BootExecv, queue_vars, Here
<1>2. PICK g \in Frame, f \in Frame :
        /\ stack' = [stack EXCEPT ![cur] = Push(SetTop(@, g), f)]
        /\ g.op = "base" /\ f.op \in {"kthread", "execv"} /\ f.at = "create"
  <2>1. /\ frame("base", "boot_execv") \in Frame /\ frame("base", "boot_irq") \in Frame
        /\ frame("kthread", "create") \in Frame /\ frame("execv", "create") \in Frame
        /\ frame("base", "boot_execv").op = "base" /\ frame("base", "boot_irq").op = "base"
        /\ frame("kthread", "create").op = "kthread" /\ frame("execv", "create").op = "execv"
        /\ frame("kthread", "create").at = "create" /\ frame("execv", "create").at = "create"
    BY FrameProps DEF BasePlaces, CreatePlaces
  <2>2. CASE BootKthread
    BY <2>1, <2>2 DEF BootKthread
  <2>3. CASE BootExecv
    BY <2>1, <2>3 DEF BootExecv
  <2> QED BY <2>2, <2>3
<1>3. Len(stack[cur]) = 1 /\ cur \in Tasks /\ stack[cur] \in Seq(Frame) /\ stack[cur] # << >>
  BY <1>1, TopPlace, CurProps DEF Live
<1>4. /\ Len(stack'[cur]) = 2 /\ stack'[cur][1] = g /\ stack'[cur][2] = f
      /\ \A t \in Tasks : t # cur => stack'[t] = stack[t]
  <2> DEFINE s == stack[cur]
             r == SetTop(s, g)
             q == Push(r, f)
  <2>1. r \in Seq(Frame) /\ Len(r) = 1 /\ r[1] = g
    <3>1. r \in Seq(Frame) /\ Len(r) = Len(s) /\ r[Len(s)] = g
      BY <1>3, SetTopProps
    <3> HIDE DEF r
    <3> QED BY <1>3, <3>1, Zenon
  <2> HIDE DEF r
  <2>2. Len(q) = 2 /\ q[2] = f /\ q[1] = g
    <3>1. /\ Len(q) = Len(r) + 1 /\ q[Len(r) + 1] = f
          /\ \A i \in 1..Len(r) : q[i] = r[i]
      BY <2>1, PushProps
    <3> HIDE DEF q
    <3>2. 1 \in 1..Len(r) /\ Len(r) + 1 = 2
      BY <2>1
    <3>3. q[1] = r[1]
      BY <3>1, <3>2
    <3>4. Len(q) = 2 /\ q[2] = f
      BY <3>1, <3>2
    <3> QED BY <2>1, <3>3, <3>4
  <2> HIDE DEF q
  <2>3. stack'[cur] = q
    BY <1>2, <1>3, CurProps DEF TypeOK, q, r
  <2>4. \A t \in Tasks : t # cur => stack'[t] = stack[t]
    BY <1>2, CurProps DEF TypeOK
  <2> QED BY <2>2, <2>3, <2>4
<1>5. CpuTarget'
  BY <1>1, <1>2, <1>4 DEF CpuTarget, top
<1>6. CallsBelow'
  <2> SUFFICES ASSUME NEW t \in Tasks, NEW i \in 1..Len(stack'[t])
               PROVE /\ i > 2 => stack'[t][i].op = "tick"
                     /\ stack'[t][i].op = "exit" => t \in UTasks
    BY DEF CallsBelow
  <2>1. CASE t # cur
    BY <1>4, <2>1 DEF ZInv, CallsBelow
  <2>2. CASE t = cur
    BY <1>2, <1>4, <2>2
  <2> QED BY <2>1, <2>2
<1>7. ZombieCur'
  BY <1>1, <1>3 DEF ZInv, ZombieCur
<1> QED BY <1>1, <1>5, <1>6, <1>7 DEF ZInv

\* get_free_page gives a page that no task uses.
LEMMA ZCreateAlloc ==
  ASSUME IInv, ZInv, CreateAlloc
  PROVE ZInv'
<1>1. PICK p \in IF top(cur).op = "execv" THEN UTasks ELSE KThreads :
        /\ stack[p] = << >>
        /\ stack' = [stack EXCEPT
             ![p] = <<frame("base", "ret_from_fork")>>,
             ![cur] = SetTop(@, [top(cur) EXCEPT
                         !.at = IF mm(p) = NULL THEN "add_next_prev"
                                                ELSE "memcpy",
                         !.arg = p])]
  BY DEF CreateAlloc, FreePages
<1> DEFINE g == frame("base", "ret_from_fork")
           f == [top(cur) EXCEPT !.at = IF mm(p) = NULL THEN "add_next_prev"
                                                        ELSE "memcpy",
                                 !.arg = p]
<1>2. /\ top(cur).op \in {"kthread", "execv"}
      /\ cur' = cur /\ next' = next /\ state' = state /\ list_next' = list_next
  BY DEF CreateAlloc, Here, queue_vars
<1>3. p \in Tasks /\ p # cur /\ cur \in Tasks /\ stack[cur] \in Seq(Frame) /\ stack[cur] # << >>
  BY <1>1, CurProps DEF Tasks, Live
<1>4. f \in Frame /\ f.op = top(cur).op /\ f.at \in {"add_next_prev", "memcpy"}
  <2>1. top(cur) \in Frame /\ p \in Pointers
    BY <1>3, CurProps DEF Pointers
  <2> QED BY <2>1 DEF Frame, CreatePlaces, CreateHeld
<1>5. g \in Frame /\ g.op = "base"
  BY FrameProps DEF BasePlaces
<1>6. /\ stack'[p] = <<g>>
      /\ stack'[cur] = SetTop(stack[cur], f)
      /\ \A t \in Tasks : t # cur /\ t # p => stack'[t] = stack[t]
  BY <1>1, <1>3, CurProps DEF TypeOK
<1> HIDE DEF f, g
<1>7. Len(stack[cur]) = 2 /\ top(cur) = stack[cur][2]
  BY <1>2, TopPlace, CurProps
<1>8. /\ Len(stack'[cur]) = 2 /\ stack'[cur][2] = f /\ stack'[cur][1] = stack[cur][1]
  <2> DEFINE s == stack[cur]
             r == SetTop(s, f)
  <2>1. /\ Len(r) = Len(s) /\ r[Len(s)] = f
        /\ \A i \in 1..Len(s) : i # Len(s) => r[i] = s[i]
    BY <1>3, <1>4, SetTopProps
  <2> HIDE DEF r
  <2> QED BY <1>6, <1>7, <2>1 DEF r
<1>9. Len(stack'[p]) = 1 /\ stack'[p][1] = g
  BY <1>6
<1>10. CpuTarget'
  BY <1>2, <1>4, <1>8 DEF CpuTarget, top
<1>11. CallsBelow'
  <2> SUFFICES ASSUME NEW t \in Tasks, NEW i \in 1..Len(stack'[t])
               PROVE /\ i > 2 => stack'[t][i].op = "tick"
                     /\ stack'[t][i].op = "exit" => t \in UTasks
    BY DEF CallsBelow
  <2>1. CASE t = p
    BY <1>5, <1>9, <2>1
  <2>2. CASE t = cur
    <3>1. \A j \in 1..2 : stack[cur][j].op = "exit" => cur \in UTasks
      BY <1>3, <1>7 DEF ZInv, CallsBelow
    <3>2. i \in 1..2 /\ ~(i > 2) /\ stack'[t][i].op = stack[cur][i].op
      <4>0. i \in 1..2
        BY <1>8, <2>2, Zenon
      <4>1. i \in 1..2 /\ ~(i > 2)
        BY <4>0
      <4>2. CASE i = 1
        BY <1>8, <2>2, <4>2
      <4>3. CASE i = 2
        BY <1>4, <1>7, <1>8, <2>2, <4>3
      <4>4. i = 1 \/ i = 2
        BY <4>1
      <4> QED BY <4>1, <4>2, <4>3, <4>4
    <3> QED BY <2>2, <3>1, <3>2
  <2>3. CASE t # cur /\ t # p
    BY <1>6, <2>3 DEF ZInv, CallsBelow
  <2> QED BY <2>1, <2>2, <2>3
<1>12. ZombieCur'
  <2>1. state[cur] = "ZOMBIE" => state[list_next[cur]] = "ZOMBIE"
    BY <1>2, <1>7 DEF ZInv, ZombieCur, UnderWay
  <2> QED BY <1>2, <2>1 DEF ZombieCur
<1> QED BY <1>2, <1>10, <1>11, <1>12 DEF ZInv

\* No process has exited at boot.
LEMMA InitZInv == Init => ZInv
<1> SUFFICES ASSUME Init
             PROVE ZInv
  OBVIOUS
<1>1. init_task \in Tasks /\ init_task \notin UTasks
  BY TasksAssumption DEF Tasks
<1>2. cur = init_task /\ state[init_task] = "RUNNING"
      /\ stack[init_task] = <<frame("base", "boot_kthread")>>
      /\ \A t \in Tasks : t # init_task => stack[t] = << >>
  BY <1>1 DEF Init
<1>3. frame("base", "boot_kthread").op = "base" /\ frame("base", "boot_kthread").at = "boot_kthread"
  BY DEF frame
<1>4. CpuTarget
  BY <1>2, <1>3 DEF CpuTarget, top
<1>5. CallsBelow
  BY <1>2, <1>3 DEF CallsBelow
<1> QED BY <1>2, <1>4, <1>5 DEF ZInv, ZombieCur

\* Every step keeps what is said of zombies.
LEMMA NextZInv == IInv /\ ZInv /\ [Next]_vars => ZInv'
<1> SUFFICES ASSUME IInv, ZInv, [Next]_vars PROVE ZInv'
  OBVIOUS
<1>1. CASE Boot
  BY <1>1, ZBootCall, ZQuiet DEF Boot
<1>2. CASE ret_from_fork
  BY <1>2, ZQuiet
<1>3. CASE Create
  BY <1>3, ZQuiet, ZCreateAlloc, ZAddNextPrev, ZAddNewNext, ZAddPrevNext, ZSetRunning,
     ZReturn DEF Create
<1>4. CASE Exit
  BY <1>4, ZExitZombie, ZSchedule DEF Exit
<1>5. CASE Switch
  BY <1>5, ZSwitch, ZCpuSwitchTo, ZReturn DEF Switch
<1>6. CASE Syscall \/ scheduler_tick
  BY <1>6, ZCalls DEF Syscall
<1>7. CASE UNCHANGED vars
  BY <1>7 DEF vars, ZInv, ZombieCur, CpuTarget, CallsBelow, top
<1> QED BY <1>1, <1>2, <1>3, <1>4, <1>5, <1>6, <1>7 DEF Next, Kernel

\* A process that has exited is at EL0 again only behind another zombie, for
\* any number of processes, exits, creations and nested ticks.
THEOREM ZombiesBehindZombies == Spec => []ZombieBeforeZombie
<1>1. Init => ZInv
  BY InitZInv
<1>2. IInv /\ ZInv /\ [Next]_vars => ZInv'
  BY NextZInv
<1>3. IInv /\ ZInv => ZombieBeforeZombie
  <2> SUFFICES ASSUME IInv, ZInv, top(cur).at = "user", state[cur] = "ZOMBIE"
               PROVE state[list_next[cur]] = "ZOMBIE"
    BY DEF ZombieBeforeZombie
  <2>1. Len(stack[cur]) = 1
    <3>1. top(cur).op = "base"
      BY CurProps DEF FrameOK, Frame, CreatePlaces, CreateHeld, SwitchPlaces, SwitchHeld,
                      ExitPlaces, SelectHeld
    <3> QED BY <3>1, TopPlace
  <2> QED BY <2>1 DEF ZInv, ZombieCur
<1> QED BY <1>1, <1>2, <1>3, Inductive, PTL DEF Spec

(***************************************************************************)
(* The queue.  The ring of pointers is a sequence w of tasks, each one's   *)
(* list.next the one after it, and a walk of list.next meets w.            *)
(***************************************************************************)
\* A set of numbers without a least member is empty: induction.
LEMMA NoLeast ==
  ASSUME NEW T, T \subseteq Nat, \A m \in T : \E y \in T : y < m
  PROVE T = {}
<1> SUFFICES ASSUME T # {} PROVE FALSE
  OBVIOUS
<1> DEFINE R == OpToRel(<, Nat)
<1>1. IsWellFoundedOn(R, Nat)
  BY NatLessThanWellFounded
<1>2. \A x, y \in Nat : <<y, x>> \in R <=> y < x
  BY DEF OpToRel
<1> HIDE DEF R
<1>3. PICK x \in T : \A y \in T : ~(<<y, x>> \in R)
  BY <1>1, WFMin
<1>4. \A y \in T : ~(y < x)
  BY <1>2, <1>3
<1> QED BY <1>4

\* The number of tasks.
TaskCount == Cardinality(Tasks)

\* The walk with the links nx.
Follow(x, nx) == IF x = NULL THEN NULL ELSE nx[x]
IsVisit(f, n, nx) == f = [i \in 0..n |-> IF i = 0 THEN init_task ELSE Follow(f[i - 1], nx)]
VisitOf(nx) == CHOOSE f : IsVisit(f, TaskCount, nx)
LengthOf(v) == IF \E n \in 1..TaskCount : v[n] = init_task
               THEN CHOOSE n \in 1..TaskCount :
                      v[n] = init_task /\ \A m \in 1..(n - 1) : ~(v[m] = init_task)
               ELSE TaskCount + 1
WalkOf(v) == [i \in 1..LengthOf(v) |-> IF i <= TaskCount THEN v[i - 1] ELSE NULL]

\* Walk is the walk with the links there are.
LEMMA WalkNow == Walk = WalkOf(VisitOf(list_next)) /\ Walk' = WalkOf(VisitOf(list_next'))
<1>1. Visit = VisitOf(list_next)
  BY DEF Visit, Following, VisitOf, IsVisit, Follow, TaskCount
<1>2. Visit' = VisitOf(list_next')
  BY DEF Visit, Following, VisitOf, IsVisit, Follow, TaskCount
<1>3. Walk = WalkOf(Visit)
  BY DEF Walk, WalkOf, WalkLength, LengthOf, Closes, TaskCount
<1>4. Walk' = WalkOf(Visit')
  BY DEF Walk, WalkOf, WalkLength, LengthOf, Closes, TaskCount
<1> QED BY <1>1, <1>2, <1>3, <1>4

\* There is a walk of any number of steps.
LEMMA VisitExists ==
  ASSUME NEW nx
  PROVE \A n \in Nat : \E f : IsVisit(f, n, nx)
<1>1. PICK T : T = {n \in Nat : ~\E f : IsVisit(f, n, nx)}
  OBVIOUS
<1>2. ASSUME NEW m \in T PROVE \E y \in T : y < m
  <2> SUFFICES ASSUME \A y \in T : ~(y < m) PROVE FALSE
    OBVIOUS
  <2>1. m \in Nat /\ ~\E f : IsVisit(f, m, nx)
    BY <1>1
  <2>2. CASE m = 0
    <3>1. PICK f : f = [i \in 0..0 |-> init_task]
      OBVIOUS
    <3>2. f = [i \in 0..0 |-> IF i = 0 THEN init_task ELSE Follow(f[i - 1], nx)]
      BY <3>1
    <3> QED BY <3>2, <2>1, <2>2 DEF IsVisit
  <2>3. CASE m # 0
    <3>1. PICK l : l = m - 1
      OBVIOUS
    <3>2. l \in Nat /\ l < m /\ l \notin T
      BY <3>1, <2>1, <2>3
    <3>3. PICK f : IsVisit(f, l, nx)
      BY <3>2, <1>1
    <3>4. PICK g : g = [i \in 0..m |-> IF i = m THEN Follow(f[l], nx) ELSE f[i]]
      OBVIOUS
    <3>5. /\ DOMAIN f = 0..l
          /\ \A i \in 0..l : f[i] = IF i = 0 THEN init_task ELSE Follow(f[i - 1], nx)
      BY <3>3 DEF IsVisit
    <3>6. ASSUME NEW i \in 0..m
          PROVE g[i] = IF i = 0 THEN init_task ELSE Follow(g[i - 1], nx)
      <4>1. CASE i = m
        <5>1. g[i] = Follow(f[l], nx) /\ g[i - 1] = f[l]
          BY <4>1, <3>1, <3>2, <3>4, <2>1, <2>3
        <5> QED BY <5>1, <4>1, <2>3
      <4>2. CASE i # m /\ i # 0
        <5>1. i \in 0..l /\ i - 1 \in 0..l /\ i - 1 \in 0..m /\ i - 1 # m
          BY <4>2, <3>1, <2>1
        <5>2. g[i] = f[i] /\ g[i - 1] = f[i - 1]
          BY <5>1, <4>2, <3>4
        <5> QED BY <5>1, <5>2, <4>2, <3>5
      <4>3. CASE i # m /\ i = 0
        <5>1. 0 \in 0..l /\ g[i] = f[0]
          BY <4>3, <3>2, <3>4
        <5> QED BY <5>1, <4>3, <3>5
      <4> QED BY <4>1, <4>2, <4>3
    <3>7. g = [i \in 0..m |-> IF i = 0 THEN init_task ELSE Follow(g[i - 1], nx)]
      BY <3>4, <3>6
    <3> QED BY <3>7, <2>1 DEF IsVisit
  <2> QED BY <2>2, <2>3
<1>3. T = {}
  BY <1>1, <1>2, NoLeast
<1> QED BY <1>1, <1>3

\* There are finitely many tasks.
LEMMA TasksFinite == IsFiniteSet(Tasks) /\ TaskCount \in Nat
<1>1. IsFiniteSet({init_task}) /\ IsFiniteSet(KThreads) /\ IsFiniteSet(UTasks)
  BY FS_Singleton, TasksAssumption
<1>2. IsFiniteSet({init_task} \cup KThreads)
  BY <1>1, FS_Union
<1>3. IsFiniteSet(Tasks)
  BY <1>1, <1>2, FS_Union DEF Tasks
<1> QED BY <1>3, FS_CardinalityType DEF TaskCount

\* The walk with the links nx is the function that its definition describes.
LEMMA VisitIs ==
  ASSUME NEW nx
  PROVE /\ VisitOf(nx)[0] = init_task
        /\ \A i \in 0..TaskCount : \A k \in 0..TaskCount : k = i + 1 =>
             VisitOf(nx)[k] = Follow(VisitOf(nx)[i], nx)
<1>1. TaskCount \in Nat
  BY TasksFinite
<1>2. \E f : IsVisit(f, TaskCount, nx)
  BY <1>1, VisitExists
<1>3. PICK v : v = VisitOf(nx)
  OBVIOUS
<1>4. IsVisit(v, TaskCount, nx)
  BY <1>2, <1>3 DEF VisitOf
<1>5. v = [i \in 0..TaskCount |-> IF i = 0 THEN init_task ELSE Follow(v[i - 1], nx)]
  BY <1>4 DEF IsVisit
<1>6. v[0] = init_task
  BY <1>1, <1>5
<1>7. ASSUME NEW i \in 0..TaskCount, NEW k \in 0..TaskCount, k = i + 1
      PROVE v[k] = Follow(v[i], nx)
  <2>1. k # 0 /\ k - 1 = i
    BY <1>1, <1>7
  <2> QED BY <1>5, <2>1
<1> QED BY <1>3, <1>6, <1>7

\* w is the whole ring with the links nx, from the head on.
Chain(w, nx) ==
  /\ w \in Seq(Tasks) /\ Len(w) >= 1 /\ w[1] = init_task
  /\ \A i \in 1..Len(w) : nx[w[i]] = IF i = Len(w) THEN init_task ELSE w[i + 1]
  /\ \A i, j \in 1..Len(w) : w[i] = w[j] => i = j

\* A ring has at most as many tasks as there are.
LEMMA ChainLength ==
  ASSUME NEW w, NEW nx, Chain(w, nx)
  PROVE Len(w) \in Nat /\ Len(w) >= 1 /\ Len(w) <= TaskCount
<1>1. /\ w \in Seq(Tasks) /\ Len(w) \in Nat /\ Len(w) >= 1
      /\ \A i, j \in 1..Len(w) : w[i] = w[j] => i = j
  BY DEF Chain
<1>2. w \in Injection(1..Len(w), Tasks)
  BY <1>1 DEF Injection, IsInjective
<1>3. Cardinality(1..Len(w)) <= TaskCount
  BY <1>2, TasksFinite, FS_Injection DEF TaskCount
<1>4. Cardinality(1..Len(w)) = Len(w)
  BY <1>1, FS_Interval
<1> QED BY <1>1, <1>3, <1>4

\* A walk meets exactly the ring.
LEMMA WalkIs ==
  ASSUME NEW w, NEW nx, Chain(w, nx)
  PROVE WalkOf(VisitOf(nx)) = w
<1>1. PICK n : n = Len(w)
  OBVIOUS
<1>2. PICK v : v = VisitOf(nx)
  OBVIOUS
<1>3. PICK c : c = TaskCount
  OBVIOUS
<1>4. n \in Nat /\ n >= 1 /\ n <= c /\ c \in Nat
  BY <1>1, <1>3, ChainLength, TasksFinite
<1>5. /\ v[0] = init_task
      /\ \A i \in 0..c : \A k \in 0..c : k = i + 1 => v[k] = Follow(v[i], nx)
  BY <1>2, <1>3, VisitIs
<1>6. /\ w \in Seq(Tasks) /\ w[1] = init_task
      /\ \A i \in 1..n : w[i] \in Tasks
      /\ \A i \in 1..n : nx[w[i]] = IF i = n THEN init_task ELSE w[i + 1]
      /\ \A i, j \in 1..n : w[i] = w[j] => i = j
  BY <1>1 DEF Chain
<1>7. \A i \in 1..n : Follow(w[i], nx) = nx[w[i]]
  BY <1>6, TasksAssumption DEF Follow
<1>8. \A i \in 1..n : v[i - 1] = w[i]
  <2>1. PICK T : T = {i \in 1..n : v[i - 1] # w[i]}
    OBVIOUS
  <2>2. ASSUME NEW m \in T PROVE \E y \in T : y < m
    <3>1. m \in 1..n /\ v[m - 1] # w[m]
      BY <2>1
    <3>2. m # 1
      BY <3>1, <1>5, <1>6
    <3>3. PICK l : l = m - 1
      OBVIOUS
    <3>4. l \in 1..n /\ l < m /\ l # n /\ l + 1 = m /\ l \in 0..c /\ l - 1 \in 0..c
          /\ l = (l - 1) + 1
      BY <3>1, <3>2, <3>3, <1>4
    <3>5. v[l] = Follow(v[l - 1], nx)
      BY <3>4, <1>5
    <3>6. CASE v[l - 1] = w[l]
      <4>1. v[l] = w[m]
        BY <3>4, <3>5, <3>6, <1>6, <1>7
      <4> QED BY <4>1, <3>1, <3>3
    <3>7. CASE v[l - 1] # w[l]
      BY <3>4, <3>7, <2>1
    <3> QED BY <3>6, <3>7
  <2>3. T = {}
    <3>1. T \subseteq Nat
      BY <2>1, <1>4
    <3> QED BY <3>1, <2>2, NoLeast
  <2> QED BY <2>1, <2>3
<1>9. v[n] = init_task
  <2>1. n \in 1..n /\ n - 1 \in 0..c /\ n \in 0..c /\ n = (n - 1) + 1
    BY <1>4
  <2>2. v[n - 1] = w[n] /\ v[n] = Follow(v[n - 1], nx)
    BY <2>1, <1>5, <1>8
  <2> QED BY <2>1, <2>2, <1>6, <1>7
<1>10. \A m \in 1..(n - 1) : v[m] # init_task
  <2> SUFFICES ASSUME NEW m \in 1..(n - 1), v[m] = init_task PROVE FALSE
    OBVIOUS
  <2>1. m + 1 \in 1..n /\ (m + 1) - 1 = m /\ 1 \in 1..n /\ m + 1 # 1
    BY <1>4
  <2>2. v[m] = w[m + 1]
    BY <2>1, <1>8
  <2> QED BY <2>1, <2>2, <1>6
<1>11. LengthOf(v) = n
  <2>1. n \in 1..c
    BY <1>4
  <2>2. \A k \in 1..c : v[k] = init_task /\ (\A m \in 1..(k - 1) : ~(v[m] = init_task)) => k = n
    <3> SUFFICES ASSUME NEW k \in 1..c, v[k] = init_task,
                        \A m \in 1..(k - 1) : ~(v[m] = init_task)
                 PROVE k = n
      OBVIOUS
    <3>1. ~(k < n)
      BY <1>4, <1>10
    <3>2. ~(n < k)
      BY <1>4, <1>9
    <3> QED BY <3>1, <3>2, <1>4
  <2>3. LengthOf(v) = CHOOSE k \in 1..c :
          v[k] = init_task /\ \A m \in 1..(k - 1) : ~(v[m] = init_task)
    BY <2>1, <1>3, <1>9 DEF LengthOf
  <2> QED BY <2>1, <2>2, <2>3, <1>9, <1>10
<1>12. WalkOf(v) = [i \in 1..n |-> w[i]]
  <2>1. WalkOf(v) = [i \in 1..n |-> IF i <= c THEN v[i - 1] ELSE NULL]
    BY <1>3, <1>11 DEF WalkOf
  <2>2. \A i \in 1..n : i <= c
    BY <1>4
  <2> QED BY <2>1, <2>2, <1>8
<1>13. w = [i \in 1..n |-> w[i]]
  BY <1>1, <1>6
<1> QED BY <1>2, <1>12, <1>13

\* A set that holds the head and is closed under the links holds the ring.
LEMMA Reached ==
  ASSUME NEW w, NEW nx, Chain(w, nx), NEW Q, init_task \in Q, \A t \in Q : nx[t] \in Q
  PROVE \A i \in 1..Len(w) : w[i] \in Q
<1>1. PICK n : n = Len(w) /\ n \in Nat
  BY ChainLength
<1>2. /\ w[1] = init_task
      /\ \A i \in 1..n : nx[w[i]] = IF i = n THEN init_task ELSE w[i + 1]
  BY <1>1 DEF Chain
<1>3. PICK T : T = {i \in 1..n : w[i] \notin Q}
  OBVIOUS
<1>4. ASSUME NEW m \in T PROVE \E y \in T : y < m
  <2>1. m \in 1..n /\ w[m] \notin Q /\ m # 1
    BY <1>2, <1>3
  <2>2. PICK l : l = m - 1
    OBVIOUS
  <2>3. l \in 1..n /\ l < m /\ l # n /\ l + 1 = m
    BY <2>1, <2>2, <1>1
  <2>4. w[m] = nx[w[l]]
    BY <2>3, <1>2
  <2>5. w[l] \notin Q
    BY <2>1, <2>4
  <2> QED BY <2>3, <2>5, <1>3
<1>5. T = {}
  <2>1. T \subseteq Nat
    BY <1>1, <1>3
  <2> QED BY <2>1, <1>4, NoLeast
<1> QED BY <1>1, <1>3, <1>5

\* What the last task of a ring links to is the head.
LEMMA LastIs ==
  ASSUME NEW w, NEW nx, Chain(w, nx), NEW i \in 1..Len(w), nx[w[i]] = init_task
  PROVE i = Len(w)
<1>1. PICK n : n = Len(w) /\ n \in Nat /\ n >= 1
  BY ChainLength
<1>2. /\ w[1] = init_task
      /\ \A j \in 1..n : nx[w[j]] = IF j = n THEN init_task ELSE w[j + 1]
      /\ \A j, k \in 1..n : w[j] = w[k] => j = k
  BY <1>1 DEF Chain
<1>3. CASE i # n
  <2>1. i + 1 \in 1..n /\ 1 \in 1..n /\ i + 1 # 1
    BY <1>1, <1>3
  <2>2. w[i + 1] = w[1]
    BY <1>1, <1>2, <1>3
  <2> QED BY <2>1, <2>2, <1>2
<1> QED BY <1>1, <1>3

\* A ring with a new task behind its last one.
LEMMA Extended ==
  ASSUME NEW w, NEW nx \in [Tasks -> Pointers], Chain(w, nx), NEW p \in Tasks,
         \A i \in 1..Len(w) : w[i] # p, nx[p] = init_task
  PROVE Chain(Append(w, p), [nx EXCEPT ![w[Len(w)]] = p])
<1>1. PICK n : n = Len(w) /\ n \in Nat /\ n >= 1
  BY ChainLength
<1>2. PICK u : u = Append(w, p)
  OBVIOUS
<1>3. PICK mx : mx = [nx EXCEPT ![w[n]] = p]
  OBVIOUS
<1>4. /\ w \in Seq(Tasks) /\ w[1] = init_task
      /\ \A i \in 1..n : w[i] \in Tasks
      /\ \A i \in 1..n : nx[w[i]] = IF i = n THEN init_task ELSE w[i + 1]
      /\ \A i, j \in 1..n : w[i] = w[j] => i = j
      /\ \A i \in 1..n : w[i] # p
  BY <1>1 DEF Chain
<1>5. /\ u \in Seq(Tasks) /\ Len(u) = n + 1 /\ u[n + 1] = p
      /\ \A i \in 1..n : u[i] = w[i]
  BY <1>1, <1>2, <1>4
<1>6. n \in 1..n /\ 1 \in 1..n /\ n + 1 >= 1
  BY <1>1
<1>7. /\ mx[w[n]] = p /\ mx[p] = init_task
      /\ \A i \in 1..n : i # n => mx[w[i]] = w[i + 1]
  BY <1>3, <1>4, <1>6
<1>8. ASSUME NEW i \in 1..(n + 1)
      PROVE mx[u[i]] = IF i = n + 1 THEN init_task ELSE u[i + 1]
  <2>1. CASE i = n + 1
    BY <2>1, <1>5, <1>7
  <2>2. CASE i = n
    <3>1. i # n + 1 /\ i \in 1..n
      BY <2>2, <1>1
    <3> QED BY <3>1, <2>2, <1>5, <1>7
  <2>3. CASE i # n + 1 /\ i # n
    <3>1. i \in 1..n /\ i + 1 \in 1..n
      BY <2>3, <1>1
    <3> QED BY <3>1, <2>3, <1>5, <1>7
  <2> QED BY <2>1, <2>2, <2>3
<1>9. ASSUME NEW i \in 1..(n + 1), NEW j \in 1..(n + 1), u[i] = u[j] PROVE i = j
  <2>1. (i \in 1..n \/ i = n + 1) /\ (j \in 1..n \/ j = n + 1)
    BY <1>1
  <2> QED BY <2>1, <1>4, <1>5, <1>9
<1>10. u[1] = init_task
  BY <1>4, <1>5, <1>6
<1>11. Chain(u, mx)
  BY <1>5, <1>6, <1>8, <1>9, <1>10 DEF Chain
<1> QED BY <1>1, <1>2, <1>3, <1>11

\* The walk is the ring through every added task, and no task but the head
\* is its own predecessor.
QInv ==
  /\ Chain(Walk, list_next)
  /\ \A t \in Queued : \E i \in 1..Len(Walk) : Walk[i] = t
  /\ \A t \in Tasks : t # init_task => list_prev[t] # t

\* What a walk meets, as a set.
LEMMA MembersAre ==
  ASSUME QInv
  PROVE \A t : t \in TQ!Members <=> \E i \in 1..Len(Walk) : Walk[i] = t
<1>1. DOMAIN Walk = 1..Len(Walk)
  BY DEF QInv, Chain
<1> QED BY <1>1 DEF TQ!Members

\* A ring with the new links is the new walk.
LEMMA WalkBecomes ==
  ASSUME NEW w, Chain(w, list_next')
  PROVE Walk' = w
BY WalkIs, WalkNow

\* At the beginning the head is alone.
LEMMA InitQInv == Init => QInv /\ TQ!TQInit
<1> SUFFICES ASSUME Init PROVE QInv /\ TQ!TQInit
  OBVIOUS
<1>1. PICK w : w = <<init_task>>
  OBVIOUS
<1>2. w \in Seq(Tasks) /\ Len(w) = 1 /\ w[1] = init_task /\ init_task \in Tasks
  BY <1>1 DEF Tasks
<1>3. list_next[init_task] = init_task
  BY <1>2 DEF Init
<1>4. \A i \in 1..Len(w) : i = 1 /\ i = Len(w)
  BY <1>2
<1>5. Chain(w, list_next)
  BY <1>2, <1>3, <1>4 DEF Chain
<1>6. Walk = w
  BY <1>5, WalkIs, WalkNow
<1>7. \A t \in Queued : \E i \in 1..Len(Walk) : Walk[i] = t
  <2>1. Queued = {init_task}
    BY <1>2 DEF Queued, Init
  <2> QED BY <2>1, <1>2, <1>6
<1>8. \A t \in Tasks : t # init_task => list_prev[t] # t
  BY TasksAssumption DEF Init
<1>9. QInv
  BY <1>5, <1>6, <1>7, <1>8 DEF QInv
<1>10. TQ!TQInit
  BY <1>1, <1>6 DEF Init, TQ!TQInit
<1> QED BY <1>9, <1>10

\* A step that leaves the links and the states alone leaves the walk alone.
LEMMA QQuiet ==
  ASSUME QInv, list_next' = list_next, list_prev' = list_prev, Queued' = Queued
  PROVE QInv' /\ Walk' = Walk
<1>1. Walk' = Walk
  BY WalkNow
<1> QED BY <1>1 DEF QInv

\* A step of the abstract queue, or none.
Simulates == [TQ!TQNext]_(TQ!tqvars)

\* A step that also leaves the processor where it is is none.
LEMMA QStutter ==
  ASSUME QInv, list_next' = list_next, list_prev' = list_prev, state' = state, cur' = cur
  PROVE QInv' /\ Simulates
<1>1. Queued' = Queued
  BY DEF Queued
<1>2. QInv' /\ Walk' = Walk
  BY <1>1, QQuiet
<1> QED BY <1>2 DEF Simulates, TQ!tqvars

\* The first store of __list_add changes the head's list.prev only.
LEMMA QAddNextPrev ==
  ASSUME IInv, QInv, AddNextPrev
  PROVE QInv' /\ Simulates
<1>1. /\ list_next' = list_next /\ state' = state /\ cur' = cur
      /\ list_prev' = [list_prev EXCEPT ![init_task] = top(cur).arg]
  BY DEF AddNextPrev
<1>2. Queued' = Queued /\ Walk' = Walk
  BY <1>1, WalkNow DEF Queued
<1>3. \A t \in Tasks : t # init_task => list_prev'[t] # t
  BY <1>1, CurProps DEF QInv, TypeOK
<1>4. QInv'
  BY <1>1, <1>2, <1>3 DEF QInv
<1> QED BY <1>1, <1>2, <1>4 DEF Simulates, TQ!tqvars

\* While a descriptor is being linked the ring is the added tasks.
LEMMA RingOnly ==
  ASSUME IInv, QInv, NEW pv, Ring(list_next, pv, Queued)
  PROVE \A i \in 1..Len(Walk) : Walk[i] \in Queued
<1>1. init_task \in Queued /\ \A t \in Queued : list_next[t] \in Queued
  BY DEF IInv, QueuedLive, Ring
<1>2. Chain(Walk, list_next)
  BY DEF QInv
<1> QED BY <1>1, <1>2, Reached

\* What the task that is being linked and its predecessor are.
LEMMA Linking ==
  ASSUME IInv, QInv, top(cur).at \in {"add_new_next", "add_new_prev", "add_prev_next"}
  PROVE /\ top(cur).arg \in Tasks /\ top(cur).arg # init_task
        /\ \A i \in 1..Len(Walk) : Walk[i] # top(cur).arg
        /\ top(cur).prev = Walk[Len(Walk)] /\ top(cur).prev # top(cur).arg
<1> DEFINE p == top(cur).arg
           pr == top(cur).prev
           pv == [list_prev EXCEPT ![init_task] = pr]
<1>1. p \in Tasks /\ p \notin Queued /\ init_task \in Queued /\ p # init_task
      /\ init_task \in Tasks
  BY DEF IInv, NewTask, QueuedLive, CreateHeld, Live, Queued
<1>2. Ring(list_next, pv, Queued)
  BY DEF IInv, RingInv
<1>3. pv[init_task] = pr
  BY <1>1, CurProps DEF TypeOK
<1> HIDE DEF p, pr, pv
<1>4. pr \in Queued /\ list_next[pr] = init_task
  BY <1>1, <1>2, <1>3 DEF Ring
<1>5. \A i \in 1..Len(Walk) : Walk[i] \in Queued
  BY <1>2, RingOnly
<1>6. PICK i \in 1..Len(Walk) : Walk[i] = pr
  BY <1>4 DEF QInv
<1>7. Chain(Walk, list_next) /\ list_next[Walk[i]] = init_task
  BY <1>4, <1>6 DEF QInv
<1>8. i = Len(Walk)
  BY <1>7, LastIs
<1> QED BY <1>1, <1>4, <1>5, <1>6, <1>8 DEF p, pr

\* The second store changes a link that no walk follows.
LEMMA QAddNewNext ==
  ASSUME IInv, QInv, AddNewNext
  PROVE QInv' /\ Simulates
<1>1. /\ list_prev' = list_prev /\ state' = state /\ cur' = cur
      /\ list_next' = [list_next EXCEPT ![top(cur).arg] = init_task]
      /\ top(cur).at = "add_new_next"
  BY DEF AddNewNext, Here
<1>2. \A i \in 1..Len(Walk) : Walk[i] # top(cur).arg
  BY <1>1, Linking
<1>3. Chain(Walk, list_next)
  BY DEF QInv
<1>4. \A i \in 1..Len(Walk) : Walk[i] \in Tasks
  BY <1>3 DEF Chain
<1>5. \A i \in 1..Len(Walk) : list_next'[Walk[i]] = list_next[Walk[i]]
  BY <1>1, <1>2, <1>4, CurProps DEF TypeOK
<1>6. Chain(Walk, list_next')
  BY <1>3, <1>5 DEF Chain
<1>7. Walk' = Walk
  BY <1>6, WalkBecomes
<1>8. Queued' = Queued
  BY <1>1 DEF Queued
<1>9. QInv'
  BY <1>1, <1>6, <1>7, <1>8 DEF QInv
<1> QED BY <1>1, <1>7, <1>9 DEF Simulates, TQ!tqvars

\* The third store: the new task's predecessor is another task.
LEMMA QAddNewPrev ==
  ASSUME IInv, QInv, AddNewPrev
  PROVE QInv' /\ Simulates
<1>1. /\ list_next' = list_next /\ state' = state /\ cur' = cur
      /\ list_prev' = [list_prev EXCEPT ![top(cur).arg] = top(cur).prev]
      /\ top(cur).at = "add_new_prev"
  BY DEF AddNewPrev, Here
<1>2. Queued' = Queued /\ Walk' = Walk
  BY <1>1, WalkNow DEF Queued
<1>3. top(cur).prev # top(cur).arg
  BY <1>1, Linking
<1>4. \A t \in Tasks : t # init_task => list_prev'[t] # t
  BY <1>1, <1>3, CurProps DEF QInv, TypeOK
<1>5. QInv'
  BY <1>1, <1>2, <1>4 DEF QInv
<1> QED BY <1>1, <1>2, <1>5 DEF Simulates, TQ!tqvars

\* The last store appends the new task to the queue.
LEMMA QAddPrevNext ==
  ASSUME IInv, QInv, AddPrevNext
  PROVE QInv' /\ Simulates
<1> DEFINE p == top(cur).arg
<1>1. /\ list_prev' = list_prev /\ state' = state /\ cur' = cur
      /\ list_next' = [list_next EXCEPT ![top(cur).prev] = p]
      /\ top(cur).at = "add_prev_next"
  BY DEF AddPrevNext, Here
<1>2. /\ p \in Tasks /\ \A i \in 1..Len(Walk) : Walk[i] # p
      /\ top(cur).prev = Walk[Len(Walk)]
  BY <1>1, Linking
<1>3. list_next[p] = init_task
  BY <1>1 DEF IInv, RingInv
<1>4. Chain(Walk, list_next) /\ list_next \in [Tasks -> Pointers]
  BY CurProps DEF QInv, TypeOK
<1> HIDE DEF p
<1>5. PICK w : w = Walk
  OBVIOUS
<1>6. Chain(Append(w, p), [list_next EXCEPT ![w[Len(w)]] = p])
  BY <1>2, <1>3, <1>4, <1>5, Extended
<1>7. Chain(Append(w, p), list_next')
  BY <1>1, <1>2, <1>5, <1>6
<1>8. Walk' = Append(w, p)
  BY <1>7, WalkBecomes
<1>9. Queued' = Queued
  BY <1>1 DEF Queued
<1>10. \A t \in Queued : \E i \in 1..Len(Append(w, p)) : Append(w, p)[i] = t
  <2>1. w \in Seq(Tasks)
    BY <1>4, <1>5 DEF Chain
  <2>2. Len(Append(w, p)) = Len(w) + 1 /\ \A i \in 1..Len(w) : Append(w, p)[i] = w[i]
    BY <2>1, <1>2
  <2>3. \A i \in 1..Len(w) : i \in 1..(Len(w) + 1)
    BY <2>1
  <2> QED BY <2>2, <2>3, <1>5 DEF QInv
<1>11. QInv'
  BY <1>1, <1>7, <1>8, <1>9, <1>10 DEF QInv
<1>12. TQ!Enqueue(p)
  <2>1. p \notin TQ!Members
    BY <1>2, MembersAre
  <2> QED BY <2>1, <1>1, <1>5, <1>8 DEF TQ!Enqueue
<1> QED BY <1>2, <1>11, <1>12 DEF Simulates, TQ!TQNext

\* task_add makes a member of the queue ready.
LEMMA QSetRunning ==
  ASSUME IInv, QInv, SetRunning
  PROVE QInv' /\ Simulates
<1> DEFINE p == top(cur).arg
           q == list_prev[p]
<1>1. /\ list_prev' = list_prev /\ list_next' = list_next /\ cur' = cur
      /\ state' = [state EXCEPT ![p] = "RUNNING"]
      /\ top(cur).at = "set_running"
  BY DEF SetRunning, Here, queue_vars
<1>2. p \notin Queued /\ init_task \in Queued /\ p \in Tasks
  BY DEF IInv, NewTask, QueuedLive, SetRunning, Here, CreateHeld, Live
<1>3. Ring(list_next, list_prev, Queued \cup {p})
  BY <1>1 DEF IInv, RingInv
<1> HIDE DEF p
<1>4. q \in Queued \cup {p} /\ list_next[q] = p
  BY <1>3 DEF Ring
<1>5. q # p
  BY <1>2 DEF QInv
<1> HIDE DEF q
<1>6. PICK i \in 1..Len(Walk) : Walk[i] = q
  BY <1>4, <1>5 DEF QInv
<1>7. \E j \in 1..Len(Walk) : Walk[j] = p
  <2>1. PICK n : n = Len(Walk) /\ n \in Nat /\ n >= 1
    BY ChainLength DEF QInv
  <2>2. list_next[Walk[i]] = (IF i = n THEN init_task ELSE Walk[i + 1]) /\ Walk[1] = init_task
    BY <2>1 DEF QInv, Chain
  <2>3. 1 \in 1..n /\ (i # n => i + 1 \in 1..n)
    BY <2>1
  <2> QED BY <2>1, <2>2, <2>3, <1>4, <1>6
<1>8. state[p] = "DEAD" /\ Queued' = Queued \cup {p}
  BY <1>1, <1>2, CurProps DEF Queued, TypeOK
<1>9. Walk' = Walk
  BY <1>1, WalkNow
<1>10. QInv'
  BY <1>1, <1>7, <1>8, <1>9 DEF QInv
<1>11. TQ!MakeReady(p)
  <2>1. p \in TQ!Members
    BY <1>7, MembersAre
  <2> QED BY <2>1, <1>1, <1>8, <1>9 DEF TQ!MakeReady
<1> QED BY <1>2, <1>10, <1>11 DEF Simulates, TQ!TQNext

\* sys_exit finishes the running task.
LEMMA QExitZombie ==
  ASSUME IInv, QInv, ExitZombie
  PROVE QInv' /\ Simulates
<1>1. /\ list_prev' = list_prev /\ list_next' = list_next /\ cur' = cur
      /\ state' = [state EXCEPT ![cur] = "ZOMBIE"]
  BY DEF ExitZombie, queue_vars
<1>2. Queued' = Queued
  <2>1. cur \in Queued
    BY DEF IInv, QueuedLive
  <2> QED BY <1>1, <2>1, CurProps DEF Queued, TypeOK
<1>3. QInv' /\ Walk' = Walk
  BY <1>1, <1>2, QQuiet
<1>4. TQ!Finish
  BY <1>1, <1>3 DEF TQ!Finish
<1> QED BY <1>3, <1>4 DEF Simulates, TQ!TQNext

\* cpu_switch_to gives the processor to a ready member of the queue.
LEMMA QCpuSwitchTo ==
  ASSUME IInv, ZInv, QInv, CpuSwitchTo
  PROVE QInv' /\ Simulates
<1>1. /\ list_prev' = list_prev /\ list_next' = list_next /\ state' = state
      /\ cur' = top(cur).arg
      /\ top(cur).at = "cpu_switch" /\ top(cur).op \in {"tick", "exit"}
  BY DEF CpuSwitchTo, Here, queue_vars
<1>2. Queued' = Queued
  BY <1>1 DEF Queued
<1>3. QInv' /\ Walk' = Walk
  BY <1>1, <1>2, QQuiet
<1>4. top(cur).arg \in Queued /\ state[top(cur).arg] = "RUNNING"
  BY <1>1, CurProps DEF ZInv, CpuTarget, SwitchArgOK
<1>5. top(cur).arg \in TQ!Members
  BY <1>4, MembersAre DEF QInv
<1>6. TQ!Dispatch(top(cur).arg)
  BY <1>1, <1>3, <1>4, <1>5 DEF TQ!Dispatch
<1>7. top(cur).arg \in Tasks
  BY <1>4 DEF Queued
<1> QED BY <1>3, <1>6, <1>7 DEF Simulates, TQ!TQNext

\* Every step of the scheduler is one of the abstract queue, or none.
LEMMA NextQInv == IInv /\ ZInv /\ QInv /\ [Next]_vars => QInv' /\ Simulates
<1> SUFFICES ASSUME IInv, ZInv, QInv, [Next]_vars PROVE QInv' /\ Simulates
  OBVIOUS
<1>1. CASE Boot \/ ret_from_fork
  <2>1. UNCHANGED <<list_next, list_prev, state, cur>>
    BY <1>1 DEF Boot, BootKthread, BootExecv, BootIrq, ret_from_fork, queue_vars
  <2> QED BY <2>1, QStutter
<1>2. CASE CreateBegin \/ CreateAlloc \/ CreateCopy \/ CreateMmBack \/ CreateEnd
  <2>1. UNCHANGED <<list_next, list_prev, state, cur>>
    BY <1>2 DEF CreateBegin, CreateAlloc, CreateCopy, CreateMmBack, CreateEnd, queue_vars
  <2> QED BY <2>1, QStutter
<1>3. CASE Create
  BY <1>2, <1>3, QAddNextPrev, QAddNewNext, QAddNewPrev, QAddPrevNext, QSetRunning DEF Create
<1>4. CASE Exit
  <2>1. CASE ~ExitZombie
    <3>1. UNCHANGED <<list_next, list_prev, state, cur>>
      BY <1>4, <2>1 DEF Exit, ScheduleBegin, SelectNext, SelectEnd, queue_vars
    <3> QED BY <3>1, QStutter
  <2> QED BY <2>1, QExitZombie
<1>5. CASE Switch
  <2>1. CASE ~CpuSwitchTo
    <3>1. UNCHANGED <<list_next, list_prev, state, cur>>
      BY <1>5, <2>1 DEF Switch, LoadNext, SwitchBegin, SwitchCheck, SwitchEnd, SwitchReturn,
                        queue_vars
    <3> QED BY <3>1, QStutter
  <2> QED BY <2>1, QCpuSwitchTo
<1>6. CASE Syscall \/ scheduler_tick
  <2>1. UNCHANGED <<list_next, list_prev, state, cur>>
    BY <1>6 DEF Syscall, SysExecv, SysExit, scheduler_tick, queue_vars
  <2> QED BY <2>1, QStutter
<1>7. CASE UNCHANGED vars
  <2>1. UNCHANGED <<list_next, list_prev, state, cur>>
    BY <1>7 DEF vars
  <2> QED BY <2>1, QStutter
<1> QED BY <1>1, <1>3, <1>4, <1>5, <1>6, <1>7 DEF Next, Kernel

\* The linked list of tasks implements the abstract queue, for any number of
\* tasks: one ring through every added task, new tasks at its tail, nothing
\* lost, and the processor only to ready members, whatever interleaving of
\* creations, exits, ticks and switches.
THEOREM QueueRefined == Spec => ImplementsTaskQueue
<1>1. Init => ZInv
  BY InitZInv
<1>2. IInv /\ ZInv /\ [Next]_vars => ZInv'
  BY NextZInv
<1>3. Init => QInv /\ TQ!TQInit
  BY InitQInv
<1>4. IInv /\ ZInv /\ QInv /\ [Next]_vars => QInv' /\ [TQ!TQNext]_(TQ!tqvars)
  BY NextQInv DEF Simulates
<1> QED BY <1>1, <1>2, <1>3, <1>4, Inductive, PTL DEF Spec, ImplementsTaskQueue, TQ!TQSpec
=============================================================================
