--------------------------- MODULE ExceptionProofs ---------------------------
(***************************************************************************)
(* Proofs about Exception: for any tasks and any depth of nesting, an      *)
(* exception returns exactly to what it interrupted, and a process at EL0  *)
(* has its own stack pointer.                                              *)
(***************************************************************************)
EXTENDS Exception, TLAPS

\* The top of a non-empty kernel stack is an activation.
LEMMA TopTyped ==
  ASSUME TypeOK, ~AtUser
  PROVE  /\ Len(stack[cur]) \in Nat \ {0}
         /\ top \in ActivationSet
         /\ stack[cur] \in Seq(ActivationSet)
  BY DEF TypeOK, AtUser, top

\* Replacing the top activation by one of the same kind, of the same origin,
\* disturbs nothing below it.
LEMMA SetTopKeeps ==
  ASSUME IInv, ~AtUser, NEW a \in ActivationSet, SetTop(a), cur' = cur,
         usp' = usp,
         ActivationOK(a, cur, Len(stack[cur])), a.op = top.op, a.from.sp = top.from.sp
  PROVE  /\ stack' \in [Tasks -> Seq(ActivationSet)]
         /\ Len(stack'[cur]) = Len(stack[cur])
         /\ ~AtUser' /\ top' = a
         /\ Activations' /\ Suspended' /\ UserInv'
PROOF
<1> DEFINE n == Len(stack[cur])
           r == [stack[cur] EXCEPT ![n] = a]
<1>1. /\ n \in Nat \ {0} /\ stack[cur] \in Seq(ActivationSet) /\ cur \in Tasks
      /\ stack \in [Tasks -> Seq(ActivationSet)]
  BY TopTyped DEF IInv, TypeOK
<1>2. r \in Seq(ActivationSet) /\ Len(r) = n /\ r[n] = a
      /\ \A i \in 1..n : i # n => r[i] = stack[cur][i]
  BY <1>1
<1>3. stack' = [stack EXCEPT ![cur] = r]
  BY <1>1 DEF SetTop
<1> HIDE DEF r
<1>4. stack'[cur] = r /\ \A t \in Tasks : t # cur => stack'[t] = stack[t]
  BY <1>1, <1>3
<1>5. stack' \in [Tasks -> Seq(ActivationSet)]
  BY <1>1, <1>2, <1>3
<1>6. ~AtUser' /\ top' = a
  BY <1>1, <1>2, <1>4 DEF AtUser, top
<1>7. Activations'
  <2> SUFFICES ASSUME NEW t \in Tasks, NEW i \in 1..Len(stack'[t])
               PROVE  ActivationOK(stack'[t][i], t, i)
    BY DEF Activations
  <2>1. CASE t # cur
    BY <2>1, <1>4 DEF IInv, Activations
  <2>2. CASE t = cur /\ i = n
    BY <2>2, <1>2, <1>4
  <2>3. CASE t = cur /\ i # n
    <3>1. i \in 1..Len(stack[t]) /\ stack'[t][i] = stack[t][i]
      BY <2>3, <1>2, <1>4
    <3> QED BY <3>1 DEF IInv, Activations
  <2> QED BY <2>1, <2>2, <2>3
<1>8. Suspended'
  <2> SUFFICES ASSUME NEW t \in Tasks, NEW i \in 1..Len(stack'[t]),
                      t # cur \/ i < Len(stack'[t])
               PROVE  Interruptible(stack'[t][i])
    BY DEF Suspended
  <2>1. i \in 1..Len(stack[t]) /\ stack'[t][i] = stack[t][i]
        /\ (t # cur \/ i < Len(stack[t]))
    <3>1. CASE t # cur
      BY <3>1, <1>4
    <3>2. CASE t = cur
      BY <3>2, <1>1, <1>2, <1>4
    <3> QED BY <3>1, <3>2
  <2> QED BY <2>1 DEF IInv, Suspended
<1>9. UserInv'
  <2>1. \A t \in Tasks : stack[t] # << >> => stack'[t] # << >>
    BY <1>1, <1>2, <1>4
  <2>2. \A u \in Users :
          /\ stack[u] # << >>
          /\ stack'[u][1].op = stack[u][1].op
          /\ stack'[u][1].from.sp = stack[u][1].from.sp
    <3> SUFFICES ASSUME NEW u \in Users
                 PROVE  /\ stack[u] # << >>
                        /\ stack'[u][1].op = stack[u][1].op
                        /\ stack'[u][1].from.sp = stack[u][1].from.sp
      OBVIOUS
    <3>1. CASE u # cur
      BY <3>1, <1>4 DEF IInv, UserInv, Tasks
    <3>2. CASE u = cur
      <4>1. r[1].op = stack[cur][1].op /\ r[1].from.sp = stack[cur][1].from.sp
        <5>1. CASE n = 1
          BY <5>1, <1>2 DEF top
        <5>2. CASE n # 1
          BY <5>2, <1>1, <1>2
        <5> QED BY <5>1, <5>2
      <4> QED BY <3>2, <4>1, <1>4 DEF AtUser
    <3> QED BY <3>1, <3>2
  <2> QED BY <2>1, <2>2 DEF IInv, UserInv, Tasks
<1> QED BY <1>2, <1>4, <1>5, <1>6, <1>7, <1>8, <1>9

\* Facts about the constant records.
LEMMA FramesTyped ==
  /\ UserEntry \in Frames /\ NoFrame \in Frames
  /\ UserEntry.pc = <<"EL0", 0>> /\ UserEntry.el = 0 /\ UserEntry.sp = 0
  BY ExceptionAssumption DEF UserEntry, NoFrame, Frames, Contexts, Levels

LEMMA InitInv == Init => IInv
PROOF
<1> SUFFICES ASSUME Init PROVE IInv
  OBVIOUS
<1> DEFINE f(t) == IF t \in Users
                   THEN activation("fork", "start", UserEntry, UserEntry)
                   ELSE activation("kthread", IF t = cur THEN "main" ELSE "start",
                                   NoFrame, NoFrame)
<1>1. \A t \in Tasks : stack[t] = <<f(t)>> /\ Len(stack[t]) = 1 /\ stack[t][1] = f(t)
  BY DEF Init
<1>2. \A t \in Tasks : f(t) \in ActivationSet
  BY FramesTyped DEF activation, ActivationSet, Places
<1>3. TypeOK
  <2>1. stack \in [Tasks -> Seq(ActivationSet)]
    <3>1. \A t \in Tasks : <<f(t)>> \in Seq(ActivationSet)
      BY <1>2
    <3>2. stack = [t \in Tasks |-> <<f(t)>>]
      BY DEF Init
    <3> HIDE DEF f
    <3> QED BY <3>1, <3>2
  <2> QED BY <2>1, ExceptionAssumption
          DEF Init, TypeOK, Tasks, Contexts, Levels
<1>4. Activations
  <2> SUFFICES ASSUME NEW t \in Tasks PROVE ActivationOK(f(t), t, 1)
    BY <1>1 DEF Activations
  <2> QED BY ExceptionAssumption DEF ActivationOK, activation, Tasks
<1>5. Suspended
  <2> SUFFICES ASSUME NEW t \in Tasks PROVE Interruptible(f(t))
    BY <1>1 DEF Suspended
  <2> QED BY DEF Interruptible, activation
<1>6. ~AtUser /\ top = f(cur)
  BY <1>1 DEF Init, AtUser, top, Tasks
<1>7. MaskInv /\ RegsInv /\ OwnStackPointer
  BY <1>6 DEF MaskInv, RegsInv, OwnStackPointer, Interruptible, activation, Init
<1>8. UserInv
  <2>1. \A t \in Tasks : stack[t] # << >>
    BY <1>1
  <2>2. \A u \in Users : stack[u][1].op = "fork"
    <3>1. \A u \in Users : stack[u][1] = activation("fork", "start", UserEntry, UserEntry)
      BY <1>1 DEF Tasks
    <3> QED BY <3>1 DEF activation
  <2> QED BY <2>1, <2>2 DEF UserInv, Tasks
<1> QED BY <1>3, <1>4, <1>5, <1>7, <1>8 DEF IInv

\* Taking an exception with interrupts enabled.
LEMMA TakeInv ==
  ASSUME IInv, ~lost, ~masked, NEW op \in {"irq", "svc"}, TakeException(op)
  PROVE  IInv'
PROOF
<1> DEFINE n == Len(stack[cur])
           fr == [pc |-> Where, el |-> EL, sp |-> IF AtUser THEN sp_el0 ELSE NULL]
           a == activation(op, "entry", fr, NoFrame)
           r == Append(stack[cur], a)
<1>1. /\ cur \in Tasks /\ stack[cur] \in Seq(ActivationSet) /\ n \in Nat
      /\ stack \in [Tasks -> Seq(ActivationSet)] /\ sp_el0 \in Sps
      /\ AtUser <=> n = 0
  BY DEF IInv, TypeOK, AtUser
<1>2. Where \in Contexts
  <2>1. CASE AtUser
    <3>1. cur \in Users
      BY <2>1 DEF IInv, UserInv, AtUser, Tasks, TypeOK
    <3> QED BY <2>1, <3>1, <1>1 DEF Where, Contexts, IInv, TypeOK
  <2>2. CASE ~AtUser
    <3>1. top.at \in Places
      BY <2>2, TopTyped DEF IInv, ActivationSet
    <3>2. Where = <<"EL1", n, top.at>>
      BY <2>2 DEF Where
    <3> QED BY <3>1, <3>2, <1>1 DEF Contexts
  <2> QED BY <2>1, <2>2
<1>3. fr \in Frames
  BY <1>2 DEF IInv, TypeOK, Frames, EL, Levels
<1>4. /\ a \in ActivationSet /\ a.op = op /\ a.at = "entry" /\ a.from = fr
      /\ fr.pc = Where /\ fr.el = EL /\ fr.sp = IF AtUser THEN sp_el0 ELSE NULL
  BY <1>3, FramesTyped DEF activation, ActivationSet, Places
<1>5. stack' = [stack EXCEPT ![cur] = r]
  BY DEF TakeException
<1> HIDE DEF fr, a
<1>6. /\ r \in Seq(ActivationSet) /\ Len(r) = n + 1 /\ r[n + 1] = a
      /\ \A i \in 1..n : r[i] = stack[cur][i]
      /\ r # << >>
  <2>1. stack[cur] \in Seq(ActivationSet) /\ a \in ActivationSet
    BY <1>1, <1>4
  <2> QED BY <2>1
<1> HIDE DEF r
<1>7. /\ stack'[cur] = r /\ \A t \in Tasks : t # cur => stack'[t] = stack[t]
      /\ stack' \in [Tasks -> Seq(ActivationSet)]
      /\ cur' = cur /\ usp' = usp /\ lost' = lost /\ sp_el0' = sp_el0
      /\ elr' = Where /\ spsr' = EL /\ masked' = TRUE
  BY <1>1, <1>5, <1>6 DEF TakeException, user
<1>8. ~AtUser' /\ top' = a
  BY <1>1, <1>6, <1>7 DEF AtUser, top
<1>9. TypeOK'
  BY <1>2, <1>7 DEF IInv, TypeOK, TakeException, EL, Levels, user
<1>10. ActivationOK(a, cur, n + 1)
  <2>1. cur \in KThreads => n # 0
    BY <1>1 DEF IInv, UserInv, AtUser
  <2>2. EL = IF n + 1 = 1 THEN 0 ELSE 1
    BY <1>1 DEF EL
  <2> QED BY <2>1, <2>2, <1>1, <1>2, <1>4 DEF ActivationOK
<1>11. Activations'
  <2> SUFFICES ASSUME NEW t \in Tasks, NEW i \in 1..Len(stack'[t])
               PROVE  ActivationOK(stack'[t][i], t, i)
    BY DEF Activations
  <2>1. CASE t # cur
    BY <2>1, <1>7 DEF IInv, Activations
  <2>2. CASE t = cur /\ i = n + 1
    BY <2>2, <1>6, <1>7, <1>10
  <2>3. CASE t = cur /\ i # n + 1
    <3>1. i \in 1..Len(stack[t]) /\ stack'[t][i] = stack[t][i]
      BY <2>3, <1>1, <1>6, <1>7
    <3> QED BY <3>1 DEF IInv, Activations
  <2> QED BY <2>1, <2>2, <2>3
<1>12. Suspended'
  <2> SUFFICES ASSUME NEW t \in Tasks, NEW i \in 1..Len(stack'[t]),
                      t # cur \/ i < Len(stack'[t])
               PROVE  Interruptible(stack'[t][i])
    BY <1>7 DEF Suspended
  <2>1. CASE t # cur
    BY <2>1, <1>7 DEF IInv, Suspended
  <2>2. CASE t = cur
    <3>1. i \in 1..n /\ stack'[t][i] = stack[cur][i]
      BY <2>2, <1>1, <1>6, <1>7
    <3>2. CASE i < n
      BY <2>2, <3>1, <3>2 DEF IInv, Suspended
    <3>3. CASE i = n
      BY <3>1, <3>3, <1>1 DEF IInv, MaskInv, top
    <3> QED BY <3>1, <3>2, <3>3, <1>1
  <2> QED BY <2>1, <2>2
<1>13. MaskInv'
  BY <1>4, <1>7, <1>8 DEF MaskInv, Interruptible
<1>14. RegsInv'
  <2>1. EL = 0 => AtUser
    BY DEF EL
  <2>2. a.from.el = 0 => sp_el0 = a.from.sp
    BY <2>1, <1>4
  <2> QED BY <2>2, <1>4, <1>7, <1>8 DEF RegsInv
<1>15. UserInv'
  <2>1. \A t \in Tasks : stack[t] # << >> => stack'[t] # << >>
    BY <1>6, <1>7
  <2>2. \A u \in Users : (stack'[u] # << >> /\ stack'[u][1].op # "fork")
                          => stack'[u][1].from.sp = usp[u]
    <3> SUFFICES ASSUME NEW u \in Users, stack'[u] # << >>,
                        stack'[u][1].op # "fork"
                 PROVE  stack'[u][1].from.sp = usp[u]
      OBVIOUS
    <3>1. CASE u # cur
      BY <3>1, <1>7 DEF IInv, UserInv, Tasks
    <3>2. CASE u = cur /\ n = 0
      <4>1. r[1] = a /\ sp_el0 = usp[cur]
        BY <3>2, <1>1, <1>6 DEF IInv, OwnStackPointer
      <4> QED BY <3>2, <4>1, <1>1, <1>4, <1>7
    <3>3. CASE u = cur /\ n # 0
      <4>1. r[1] = stack[cur][1] /\ stack[cur] # << >>
        BY <3>3, <1>1, <1>6 DEF AtUser
      <4> QED BY <3>3, <4>1, <1>7 DEF IInv, UserInv
    <3> QED BY <3>1, <3>2, <3>3
  <2> QED BY <2>1, <2>2, <1>7 DEF IInv, UserInv, Tasks
<1>16. OwnStackPointer'
  BY <1>8 DEF OwnStackPointer
<1> QED BY <1>9, <1>11, <1>12, <1>13, <1>14, <1>15, <1>16 DEF IInv

\* A process computes at EL0.
LEMMA UserStepInv == IInv /\ UserStep => IInv'
PROOF
<1> SUFFICES ASSUME IInv, UserStep PROVE IInv'
  OBVIOUS
<1>1. cur \in Users /\ stack[cur] = << >>
  BY DEF UserStep, AtUser, IInv, UserInv, TypeOK, Tasks
<1>2. PICK sp \in Sps : usp' = [usp EXCEPT ![cur] = sp] /\ sp_el0' = sp
  BY DEF UserStep
<1>3. TypeOK'
  BY <1>1 DEF UserStep, IInv, TypeOK
<1>4. Activations' /\ Suspended' /\ MaskInv' /\ RegsInv'
  BY DEF UserStep, IInv, Activations, Suspended, MaskInv, RegsInv, AtUser, top
<1>5. UserInv'
  <2>1. \A u \in Users : stack[u] # << >> => usp'[u] = usp[u]
    BY <1>1, <1>2 DEF IInv, TypeOK
  <2> QED BY <2>1 DEF UserStep, IInv, UserInv
<1>6. OwnStackPointer'
  BY <1>1, <1>2 DEF OwnStackPointer, UserStep, IInv, TypeOK
<1> QED BY <1>3, <1>4, <1>5, <1>6 DEF IInv

\* The steps that only move the top activation to another place `at', which
\* agrees with the mask they leave.
LEMMA MoveInv ==
  ASSUME IInv, ~AtUser, NEW at \in Places, MoveTo(at), masked' \in BOOLEAN,
         UNCHANGED <<cur, regs, user, lost>>,
         ActivationOK([top EXCEPT !.at = at], cur, Len(stack[cur])),
         masked' <=> ~Interruptible([top EXCEPT !.at = at]),
         at \notin {"entry", "exitElr", "eret"}
  PROVE  IInv'
PROOF
<1> DEFINE a == [top EXCEPT !.at = at]
<1>1. top \in ActivationSet
  BY TopTyped DEF IInv
<1>2. a \in ActivationSet /\ a.from = top.from /\ a.at = at /\ a.op = top.op
  BY <1>1 DEF ActivationSet
<1>3. /\ SetTop(a) /\ ActivationOK(a, cur, Len(stack[cur])) /\ cur' = cur
      /\ usp' = usp /\ upc' = upc /\ lost' = lost /\ elr' = elr /\ spsr' = spsr
      /\ sp_el0' = sp_el0 /\ masked' \in BOOLEAN
      /\ masked' <=> ~Interruptible(a)
  BY DEF MoveTo, user, regs
<1> HIDE DEF a
<1>4. /\ stack' \in [Tasks -> Seq(ActivationSet)]
      /\ ~AtUser' /\ top' = a
      /\ Activations' /\ Suspended' /\ UserInv'
  BY <1>2, <1>3, SetTopKeeps
<1>5. TypeOK'
  BY <1>3, <1>4 DEF IInv, TypeOK
<1>6. MaskInv' /\ RegsInv' /\ OwnStackPointer'
  BY <1>2, <1>3, <1>4 DEF MaskInv, RegsInv, OwnStackPointer
<1> QED BY <1>4, <1>5, <1>6 DEF IInv

\* The top activation is one its task may have there.
LEMMA TopOK ==
  ASSUME IInv, ~AtUser
  PROVE  ActivationOK(top, cur, Len(stack[cur])) /\ top \in ActivationSet
  BY TopTyped DEF IInv, Activations, top, TypeOK

\* Moving an exception past its entry keeps it well formed.
LEMMA MovedOK ==
  ASSUME IInv, ~AtUser, top.op \in {"irq", "svc"}, top.at # "entry",
         NEW at \in Places \ {"entry", "main", "start"}
  PROVE  ActivationOK([top EXCEPT !.at = at], cur, Len(stack[cur]))
  BY TopOK DEF ActivationOK, ActivationSet

LEMMA MovesInv ==
  IInv /\ (IrqIgnored \/ Open \/ Close \/ SvcHalt \/ KthreadStart) => IInv'
PROOF
<1> SUFFICES ASSUME IInv, IrqIgnored \/ Open \/ Close \/ SvcHalt \/ KthreadStart
             PROVE  IInv'
  OBVIOUS
<1> USE DEF Here
<1>1. CASE IrqIgnored
  <2>1. ~AtUser /\ top \in ActivationSet
        /\ ActivationOK([top EXCEPT !.at = "exit"], cur, Len(stack[cur]))
    BY <1>1, TopOK, MovedOK DEF IrqIgnored, Places
  <2>2. masked
    BY <1>1, <2>1 DEF IrqIgnored, IInv, MaskInv, Interruptible
  <2> QED BY <1>1, <2>1, <2>2, MoveInv
          DEF IrqIgnored, Places, Interruptible, ActivationSet
<1>2. CASE Open
  <2>1. ~AtUser /\ top \in ActivationSet
        /\ ActivationOK([top EXCEPT !.at = "open"], cur, Len(stack[cur]))
    BY <1>2, TopOK, MovedOK DEF Open, Places
  <2> QED BY <1>2, <2>1, MoveInv
          DEF Open, enable_irq, Places, Interruptible, ActivationSet
<1>3. CASE Close
  <2>1. ~AtUser /\ top \in ActivationSet
        /\ ActivationOK([top EXCEPT !.at = "exit"], cur, Len(stack[cur]))
    BY <1>3, TopOK, MovedOK DEF Close, Places
  <2> QED BY <1>3, <2>1, MoveInv
          DEF Close, disable_irq, Places, Interruptible, ActivationSet
<1>4. CASE SvcHalt
  <2>1. ~AtUser /\ top \in ActivationSet
        /\ ActivationOK([top EXCEPT !.at = "halt"], cur, Len(stack[cur]))
    BY <1>4, TopOK, MovedOK DEF SvcHalt, Places
  <2>2. masked
    BY <1>4, <2>1 DEF SvcHalt, IInv, MaskInv, Interruptible
  <2> QED BY <1>4, <2>1, <2>2, MoveInv
          DEF SvcHalt, Places, Interruptible, ActivationSet
<1>5. CASE KthreadStart
  <2>1. ~AtUser /\ top \in ActivationSet
        /\ ActivationOK([top EXCEPT !.at = "main"], cur, Len(stack[cur]))
    BY <1>5, TopOK DEF KthreadStart, ActivationOK, ActivationSet
  <2>2. ~masked
    BY <1>5, <2>1 DEF KthreadStart, IInv, MaskInv, Interruptible
  <2>3. masked' \in BOOLEAN /\ ~masked' /\ MoveTo("main")
        /\ UNCHANGED <<cur, regs, user, lost>>
    BY <1>5, <2>2 DEF KthreadStart, IInv, TypeOK
  <2>4. Interruptible([top EXCEPT !.at = "main"])
    BY <2>1 DEF Interruptible, ActivationSet
  <2>5. "main" \in Places
    BY DEF Places
  <2> QED BY <2>1, <2>3, <2>4, <2>5, MoveInv
<1> QED BY <1>1, <1>2, <1>3, <1>4, <1>5

\* kernel_entry stores what the exception left in the registers.
LEMMA EntryInv == IInv /\ kernel_entry => IInv'
PROOF
<1> SUFFICES ASSUME IInv, kernel_entry PROVE IInv'
  OBVIOUS
<1> DEFINE sv == [pc |-> elr, el |-> spsr,
                  sp |-> IF top.from.el = 0 THEN sp_el0 ELSE NULL]
           a == [top EXCEPT !.at = "handler", !.saved = sv]
<1>1. /\ ~AtUser /\ top.op \in {"irq", "svc"} /\ top.at = "entry"
      /\ ActivationOK(top, cur, Len(stack[cur])) /\ top \in ActivationSet
      /\ Len(stack[cur]) \in Nat \ {0}
  BY TopOK, TopTyped DEF kernel_entry, Here, IInv
<1>2. elr = top.from.pc /\ spsr = top.from.el
      /\ (top.from.el = 0 => sp_el0 = top.from.sp)
  BY <1>1 DEF IInv, RegsInv
<1>3. sv = top.from
  <2>1. top.from \in Frames
    BY <1>1 DEF ActivationSet
  <2>2. top.from.el # 0 => top.from.sp = NULL
    <3> DEFINE n == Len(stack[cur])
    <3>1. n \in Nat \ {0} /\ ActivationOK(top, cur, n)
      BY <1>1
    <3> HIDE DEF n
    <3>2. n = 1 \/ n > 1
      BY <3>1
    <3> QED BY <1>1, <3>1, <3>2 DEF ActivationOK
  <2>3. sv.pc = top.from.pc /\ sv.el = top.from.el /\ sv.sp = top.from.sp
    BY <1>2, <2>2
  <2> QED BY <2>1, <2>3 DEF Frames
<1>4. a = [top EXCEPT !.at = "handler", !.saved = top.from]
  BY <1>3
<1>5. SetTop(a) /\ cur' = cur /\ UNCHANGED <<masked, regs, user, lost>>
  BY DEF kernel_entry
<1> HIDE DEF a, sv
<1>6. /\ a \in ActivationSet /\ a.from = top.from /\ a.at = "handler"
      /\ a.op = top.op /\ a.saved = top.from
  BY <1>1, <1>4 DEF ActivationSet, Places
<1>7. ActivationOK(a, cur, Len(stack[cur]))
  BY <1>1, <1>6 DEF ActivationOK
<1>8. /\ stack' \in [Tasks -> Seq(ActivationSet)]
      /\ ~AtUser' /\ top' = a
      /\ Activations' /\ Suspended' /\ UserInv'
  <2>1. usp' = usp
    BY <1>5 DEF user
  <2> QED BY <1>1, <1>5, <1>6, <1>7, <2>1, SetTopKeeps
<1>9. TypeOK'
  BY <1>5, <1>8 DEF IInv, TypeOK, regs, user
<1>10. MaskInv'
  <2>1. masked
    BY <1>1 DEF IInv, MaskInv, Interruptible
  <2> QED BY <2>1, <1>1, <1>5, <1>6, <1>8 DEF MaskInv, Interruptible
<1>11. RegsInv' /\ OwnStackPointer'
  BY <1>1, <1>6, <1>8 DEF RegsInv, OwnStackPointer
<1> QED BY <1>8, <1>9, <1>10, <1>11 DEF IInv

\* kernel_exit loads sp_el0 from the frame.
LEMMA ExitSpInv == IInv /\ ExitSp => IInv'
PROOF
<1> SUFFICES ASSUME IInv, ExitSp PROVE IInv'
  OBVIOUS
<1> DEFINE a == [top EXCEPT !.at = "exitElr"]
<1>1. /\ ~AtUser
      /\ \/ top.op \in {"irq", "svc"} /\ top.at = "exit"
         \/ top.op = "fork" /\ top.at = "start"
      /\ ActivationOK(top, cur, Len(stack[cur])) /\ top \in ActivationSet
  BY TopOK DEF ExitSp, Here, IInv
<1>2. /\ a \in ActivationSet /\ a.from = top.from /\ a.at = "exitElr"
      /\ a.op = top.op /\ a.saved = top.saved
  BY <1>1 DEF ActivationSet, Places
<1>3. /\ SetTop(a) /\ cur' = cur /\ masked' = masked /\ usp' = usp /\ upc' = upc
      /\ lost' = lost
      /\ elr' = elr /\ spsr' = spsr /\ sp_el0' = SpOf(top.saved)
  BY DEF ExitSp, MoveTo, user
<1> HIDE DEF a
<1>4. ActivationOK(a, cur, Len(stack[cur]))
  BY <1>1, <1>2 DEF ActivationOK
<1>5. /\ stack' \in [Tasks -> Seq(ActivationSet)]
      /\ ~AtUser' /\ top' = a
      /\ Activations' /\ Suspended' /\ UserInv'
  BY <1>1, <1>2, <1>3, <1>4, SetTopKeeps
<1>6. TypeOK'
  <2>1. top.saved.el = 0 => top.saved.sp \in Sps
    BY <1>1, FramesTyped, ExceptionAssumption DEF ActivationOK
  <2>2. SpOf(top.saved) \in Sps
    BY <2>1 DEF SpOf, IInv, TypeOK
  <2> QED BY <2>2, <1>3, <1>5 DEF IInv, TypeOK
<1>8. RegsInv'
  BY <1>1, <1>2, <1>3, <1>5 DEF RegsInv, ActivationOK, SpOf
<1>7. MaskInv'
  BY <1>1, <1>2, <1>3, <1>5 DEF MaskInv, Interruptible, IInv
<1>9. OwnStackPointer'
  BY <1>5 DEF OwnStackPointer
<1> QED BY <1>5, <1>6, <1>7, <1>8, <1>9 DEF IInv

\* kernel_exit loads elr_el1 and spsr_el1 from the frame.
LEMMA ExitElrInv == IInv /\ ExitElr => IInv'
PROOF
<1> SUFFICES ASSUME IInv, ExitElr PROVE IInv'
  OBVIOUS
<1> DEFINE a == [top EXCEPT !.at = "eret"]
<1>1. /\ ~AtUser
      /\ top.op \in {"irq", "svc", "fork"} /\ top.at = "exitElr"
      /\ ActivationOK(top, cur, Len(stack[cur])) /\ top \in ActivationSet
  BY TopOK DEF ExitElr, Here, IInv
<1>2. /\ a \in ActivationSet /\ a.from = top.from /\ a.at = "eret"
      /\ a.op = top.op /\ a.saved = top.saved
  BY <1>1 DEF ActivationSet, Places
<1>3. /\ SetTop(a) /\ cur' = cur /\ masked' = masked /\ usp' = usp /\ upc' = upc
      /\ lost' = lost
      /\ elr' = top.saved.pc /\ spsr' = top.saved.el /\ sp_el0' = sp_el0
  BY DEF ExitElr, MoveTo, user
<1> HIDE DEF a
<1>4. ActivationOK(a, cur, Len(stack[cur]))
  BY <1>1, <1>2 DEF ActivationOK
<1>5. /\ stack' \in [Tasks -> Seq(ActivationSet)]
      /\ ~AtUser' /\ top' = a
      /\ Activations' /\ Suspended' /\ UserInv'
  BY <1>1, <1>2, <1>3, <1>4, SetTopKeeps
<1>6. TypeOK'
  <2>1. top.saved \in Frames
    BY <1>1 DEF ActivationSet
  <2> QED BY <2>1, <1>3, <1>5 DEF IInv, TypeOK, Frames
<1>8. RegsInv'
  BY <1>1, <1>2, <1>3, <1>5 DEF RegsInv, ActivationOK, IInv
<1>7. MaskInv'
  BY <1>1, <1>2, <1>3, <1>5 DEF MaskInv, Interruptible, IInv
<1>9. OwnStackPointer'
  BY <1>5 DEF OwnStackPointer
<1> QED BY <1>5, <1>6, <1>7, <1>8, <1>9 DEF IInv

\* The switch happens between two interruptible places.
LEMMA SwitchInv == IInv /\ cpu_switch_to => IInv'
PROOF
<1> SUFFICES ASSUME IInv, cpu_switch_to PROVE IInv'
  OBVIOUS
<1>1. PICK t \in Tasks \ {cur} :
        /\ stack[t] # << >>
        /\ stack[t][Len(stack[t])].at \in {"open", "start"}
        /\ cur' = t
  BY DEF cpu_switch_to
<1>2. /\ UNCHANGED <<stack, masked, regs, user, lost>>
      /\ ~AtUser /\ top.at = "open"
  BY DEF cpu_switch_to, Here
<1>3. ~AtUser' /\ top' = stack[t][Len(stack[t])]
  BY <1>1, <1>2 DEF AtUser, top
<1>4. TypeOK'
  BY <1>1, <1>2 DEF IInv, TypeOK, regs, user
<1>5. Activations' /\ UserInv'
  BY <1>1, <1>2 DEF IInv, Activations, UserInv, AtUser, user
<1>6. Suspended'
  <2> SUFFICES ASSUME NEW u \in Tasks, NEW i \in 1..Len(stack[u])
               PROVE  Interruptible(stack[u][i]) \/ (u = t /\ ~(i < Len(stack[u])))
    BY <1>1, <1>2 DEF Suspended
  <2>1. CASE u # cur \/ i < Len(stack[u])
    BY <2>1 DEF IInv, Suspended
  <2>2. CASE u = cur /\ ~(i < Len(stack[u]))
    <3>1. i = Len(stack[cur])
      BY <2>2 DEF IInv, TypeOK
    <3> QED BY <2>2, <3>1, <1>2 DEF Interruptible, top
  <2> QED BY <2>1, <2>2
<1>7. MaskInv' /\ RegsInv' /\ OwnStackPointer'
  BY <1>1, <1>2, <1>3
     DEF MaskInv, RegsInv, OwnStackPointer, Interruptible, IInv, AtUser
<1> QED BY <1>4, <1>5, <1>6, <1>7 DEF IInv

\* eret either goes astray, and nothing more happens, or pops the activation.
LEMMA EretInv == IInv /\ eret => IInv'
PROOF
<1> SUFFICES ASSUME IInv, eret PROVE IInv'
  OBVIOUS
<1> DEFINE n == Len(stack[cur])
<1>1. /\ ~AtUser /\ top.op \in {"irq", "svc", "fork"} /\ top.at = "eret"
      /\ ActivationOK(top, cur, n) /\ top \in ActivationSet
      /\ n \in Nat \ {0} /\ stack[cur] \in Seq(ActivationSet) /\ ~lost
  BY TopOK, TopTyped DEF eret, Here, IInv
<1>2. /\ cur' = cur /\ upc' = upc
      /\ elr' = elr /\ spsr' = spsr /\ sp_el0' = sp_el0
  BY DEF eret, regs, user
<1>3. CASE ~Returns
  <2>1. lost' = TRUE /\ stack' = stack /\ masked' = masked /\ usp' = usp
    BY <1>3 DEF eret
  <2>2. TypeOK'
    BY <2>1, <1>2 DEF IInv, TypeOK
  <2>3. Activations' /\ Suspended' /\ UserInv' /\ OwnStackPointer'
    BY <2>1, <1>2 DEF IInv, Activations, Suspended, UserInv, OwnStackPointer
  <2>4. MaskInv' /\ RegsInv'
    BY <2>1, <1>2 DEF IInv, MaskInv, RegsInv, AtUser, top
  <2> QED BY <2>2, <2>3, <2>4 DEF IInv
<1>4. CASE Returns
  <2>0. n \in Nat \ {0} /\ (n # 1 => n > 1 /\ n - 1 \in 1..(n - 1))
    <3>1. \A k \in Nat \ {0} : k # 1 => k > 1 /\ k - 1 \in 1..(k - 1)
      OBVIOUS
    <3> HIDE DEF n
    <3> QED BY <3>1, <1>1
  <2> DEFINE r == SubSeq(stack[cur], 1, n - 1)
  <2>1. /\ stack' = [stack EXCEPT ![cur] = r] /\ masked' = FALSE /\ lost' = lost
        /\ usp' = IF top.op = "fork" THEN [usp EXCEPT ![cur] = sp_el0] ELSE usp
    BY <1>4 DEF eret
  <2>2. /\ r \in Seq(ActivationSet) /\ Len(r) = n - 1
        /\ \A i \in 1..(n - 1) : r[i] = stack[cur][i]
    BY <1>1
  <2> HIDE DEF r
  <2>3. cur \in Tasks /\ stack \in [Tasks -> Seq(ActivationSet)]
    BY DEF IInv, TypeOK
  <2>4. /\ stack'[cur] = r /\ \A t \in Tasks : t # cur => stack'[t] = stack[t]
        /\ stack' \in [Tasks -> Seq(ActivationSet)]
    BY <2>1, <2>2, <2>3
  <2>5. TypeOK'
    BY <2>1, <2>4, <1>2 DEF IInv, TypeOK
  <2>6. \A t \in Tasks : \A i \in 1..Len(stack'[t]) :
          /\ i \in 1..Len(stack[t]) /\ stack'[t][i] = stack[t][i]
          /\ t = cur => i < Len(stack[t])
    <3> SUFFICES ASSUME NEW t \in Tasks, NEW i \in 1..Len(stack'[t])
                 PROVE  /\ i \in 1..Len(stack[t]) /\ stack'[t][i] = stack[t][i]
                        /\ t = cur => i < Len(stack[t])
      OBVIOUS
    <3>1. CASE t # cur
      BY <3>1, <2>4
    <3>2. CASE t = cur
      BY <3>2, <2>2, <2>4, <1>1
    <3> QED BY <3>1, <3>2
  <2>7. Activations'
    BY <2>6 DEF IInv, Activations
  <2>8. \A t \in Tasks : \A i \in 1..Len(stack'[t]) : Interruptible(stack'[t][i])
    BY <2>6 DEF IInv, Suspended
  <2>9. Suspended'
    BY <2>8 DEF Suspended
  <2>10. AtUser' <=> n = 1
    <3>1. n - 1 = 0 <=> n = 1
      <4> HIDE DEF n
      <4> QED BY <2>0
    <3>2. r = << >> <=> Len(r) = 0
      <4>1. \A s \in Seq(ActivationSet) : s = << >> <=> Len(s) = 0
        OBVIOUS
      <4>2. r \in Seq(ActivationSet)
        BY <2>2
      <4> QED BY <4>1, <4>2
    <3> QED BY <3>1, <3>2, <2>2, <2>4, <1>2 DEF AtUser
  <2>11. n # 1 => top' = stack[cur][n - 1] /\ Interruptible(top')
    <3> SUFFICES ASSUME n # 1
                 PROVE  top' = stack[cur][n - 1] /\ Interruptible(top')
      OBVIOUS
    <3>1. n - 1 \in 1..Len(stack'[cur]) /\ Len(stack'[cur]) = n - 1
      BY <2>0, <2>2, <2>4
    <3> QED BY <3>1, <2>2, <2>3, <2>4, <2>8, <1>2 DEF top
  <2>12. MaskInv'
    BY <2>1, <2>10, <2>11 DEF MaskInv
  <2>13. RegsInv'
    BY <2>10, <2>11 DEF RegsInv, Interruptible
  <2>14. UserInv'
    <3>1. \A t \in Tasks \ {cur} : stack'[t] # << >>
      BY <2>4 DEF IInv, UserInv
    <3>2. cur \in KThreads => stack'[cur] # << >>
      <4> SUFFICES ASSUME cur \in KThreads PROVE stack'[cur] # << >>
        OBVIOUS
      <4>1. n # 1
        BY <1>1 DEF ActivationOK
      <4> QED BY <4>1, <2>10, <1>2 DEF AtUser
    <3>3. \A u \in Users : (stack'[u] # << >> /\ stack'[u][1].op # "fork")
                            => stack'[u][1].from.sp = usp'[u]
      <4> SUFFICES ASSUME NEW u \in Users, stack'[u] # << >>,
                          stack'[u][1].op # "fork"
                   PROVE  stack'[u][1].from.sp = usp'[u]
        OBVIOUS
      <4>1. 1 \in 1..Len(stack'[u]) /\ u \in Tasks
        BY <2>4 DEF Tasks
      <4>2. stack'[u][1] = stack[u][1] /\ stack[u] # << >>
        BY <4>1, <2>6
      <4>3. usp'[u] = usp[u]
        <5>1. CASE u # cur
          BY <5>1, <2>1 DEF IInv, TypeOK
        <5>2. CASE u = cur
          BY <5>2, <2>1, <2>10, <1>1, <1>2 DEF ActivationOK, AtUser
        <5> QED BY <5>1, <5>2
      <4> QED BY <4>2, <4>3 DEF IInv, UserInv
    <3> QED BY <3>1, <3>2, <3>3, <1>2 DEF UserInv, Tasks
  <2>15. OwnStackPointer'
    <3> SUFFICES ASSUME n = 1 PROVE sp_el0 = usp'[cur]
      BY <2>10, <1>2 DEF OwnStackPointer
    <3>1. cur \in Users /\ top = stack[cur][1]
      BY <1>1, <2>3 DEF ActivationOK, Tasks, top
    <3>2. CASE top.op \in {"irq", "svc"}
      <4>1. top.from.sp = usp[cur] /\ usp' = usp
        BY <3>1, <3>2, <2>1, <1>1 DEF IInv, UserInv, AtUser
      <4> QED BY <4>1, <3>2, <1>1 DEF ActivationOK, IInv, RegsInv
    <3>3. CASE top.op = "fork"
      BY <3>1, <3>3, <2>1 DEF IInv, TypeOK
    <3> QED BY <3>2, <3>3, <1>1
  <2> QED BY <2>5, <2>7, <2>9, <2>12, <2>13, <2>14, <2>15 DEF IInv
<1> QED BY <1>3, <1>4

LEMMA NextInv == IInv /\ [Next]_vars => IInv'
PROOF
<1> SUFFICES ASSUME IInv, [Next]_vars PROVE IInv'
  OBVIOUS
<1>1. CASE TakeIrq
  BY <1>1, TakeInv DEF TakeIrq
<1>2. CASE TakeSvc
  <2>1. ~masked
    BY <1>2 DEF TakeSvc, IInv, MaskInv
  <2> QED BY <1>2, <2>1, TakeInv DEF TakeSvc
<1>3. CASE UNCHANGED vars
  BY <1>3 DEF vars, regs, user, IInv, TypeOK, Activations, Suspended, MaskInv,
              RegsInv, UserInv, OwnStackPointer, AtUser, top
<1> QED BY <1>1, <1>2, <1>3, UserStepInv, EntryInv, MovesInv, SwitchInv, ExitSpInv,
           ExitElrInv, EretInv DEF Next

\* The invariant of entry and return holds for any set of threads and
\* processes and any depth of nested interrupts.
THEOREM ExceptionInductive == Spec => []IInv
PROOF
<1> QED BY InitInv, NextInv, PTL DEF Spec

\* Registers, stacks and frames keep their types.
THEOREM ExceptionTypeCorrect == Spec => []TypeOK
PROOF
<1>1. IInv => TypeOK
  BY DEF IInv
<1> QED BY <1>1, ExceptionInductive, PTL

\* kernel_exit's eret of an interrupt or a system call always finds in
\* elr_el1 and spsr_el1 what that exception put there, although the window
\* of scheduler_tick and el0_svc lets others overwrite both.
THEOREM ReturnsExactly == Spec => []ReturnExact
PROOF
<1>1. IInv => ReturnExact
  BY DEF IInv, RegsInv, ReturnExact, Here, Returns
<1> QED BY <1>1, ExceptionInductive, PTL

\* A process always finds its own stack pointer in sp_el0 when it resumes at
\* EL0, although kernel_entry from EL1 and cpu_switch_to do not save it.
THEOREM StackPointerOwned == Spec => []OwnStackPointer
PROOF
<1>1. IInv => OwnStackPointer
  BY DEF IInv
<1> QED BY <1>1, ExceptionInductive, PTL

=============================================================================
