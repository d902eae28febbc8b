----------------------------- MODULE BootProofs -----------------------------
(***************************************************************************)
(* Proofs about Boot: from any contents of the registers on, for any       *)
(* period of the timer and any set of devices, timer_init leaves exactly   *)
(* the timer on, no expiry is lost and no jiffy is short; and for any      *)
(* layout of the memory, mapping the flash adds its sections and nothing   *)
(* else to the kernel's page tables.                                       *)
(*                                                                         *)
(* The calls the CPU still has to make are one of 19 lists, the places in  *)
(* timer_init and in timer_handler.  The invariant says for each of them   *)
(* what the registers hold and how the counter stands to the compare       *)
(* value.                                                                  *)
(***************************************************************************)
EXTENDS Boot, SequenceTheorems, WellFoundedInduction, TLAPS

(***************************************************************************)
(* The places of timer_init (I), of timer_handler (H) and those they       *)
(* share (T), named by the number of calls that are left.                  *)
(***************************************************************************)
T0 == << >>
T1 == <<"enable_irq">>
T2 == <<"enable_cntv", "enable_irq">>
D1 == <<"irq_dispatch">>
H3 == <<"jiffies++", "enable_cntv", "enable_irq">>
H4 == <<"raw_write_cntv_cval_el0", "jiffies++", "enable_cntv", "enable_irq">>
H5 == <<"raw_read_cntvct_el0", "raw_write_cntv_cval_el0", "jiffies++", "enable_cntv",
        "enable_irq">>
H6 == <<"gicd_clear_pending", "raw_read_cntvct_el0", "raw_write_cntv_cval_el0",
        "jiffies++", "enable_cntv", "enable_irq">>
H7 == <<"disable_cntv", "gicd_clear_pending", "raw_read_cntvct_el0",
        "raw_write_cntv_cval_el0", "jiffies++", "enable_cntv", "enable_irq">>
I3 == <<"raw_write_cntv_cval_el0", "enable_cntv", "enable_irq">>
I4 == <<"raw_read_cntvct_el0", "raw_write_cntv_cval_el0", "enable_cntv", "enable_irq">>
I5 == <<"disable_cntv", "raw_read_cntvct_el0", "raw_write_cntv_cval_el0",
        "enable_cntv", "enable_irq">>
I6 == <<"gicd_enable_int", "disable_cntv", "raw_read_cntvct_el0",
        "raw_write_cntv_cval_el0", "enable_cntv", "enable_irq">>
I7 == <<"gicd_clear_pending", "gicd_enable_int", "disable_cntv", "raw_read_cntvct_el0",
        "raw_write_cntv_cval_el0", "enable_cntv", "enable_irq">>
I8 == <<"gicd_set_target", "gicd_clear_pending", "gicd_enable_int", "disable_cntv",
        "raw_read_cntvct_el0", "raw_write_cntv_cval_el0", "enable_cntv", "enable_irq">>
I9 == <<"gicd_set_priority", "gicd_set_target", "gicd_clear_pending", "gicd_enable_int",
        "disable_cntv", "raw_read_cntvct_el0", "raw_write_cntv_cval_el0", "enable_cntv",
        "enable_irq">>
I10 == <<"gicd_config", "gicd_set_priority", "gicd_set_target", "gicd_clear_pending",
         "gicd_enable_int", "disable_cntv", "raw_read_cntvct_el0",
         "raw_write_cntv_cval_el0", "enable_cntv", "enable_irq">>
I11 == <<"init_gicc", "gicd_config", "gicd_set_priority", "gicd_set_target",
         "gicd_clear_pending", "gicd_enable_int", "disable_cntv", "raw_read_cntvct_el0",
         "raw_write_cntv_cval_el0", "enable_cntv", "enable_irq">>
I12 == <<"init_gicd", "init_gicc", "gicd_config", "gicd_set_priority", "gicd_set_target",
         "gicd_clear_pending", "gicd_enable_int", "disable_cntv", "raw_read_cntvct_el0",
         "raw_write_cntv_cval_el0", "enable_cntv", "enable_irq">>

Places == {T0, T1, T2, D1, H3, H4, H5, H6, H7, I3, I4, I5, I6, I7, I8, I9, I10, I11, I12}

\* The first call of each place.
LEMMA Heads ==
  /\ T0 = << >>
  /\ << >> \notin {T1, T2, D1, H3, H4, H5, H6, H7, I3, I4, I5, I6, I7, I8, I9, I10, I11, I12}
  /\ Head(T1) = "enable_irq" /\ Head(T2) = "enable_cntv" /\ Head(D1) = "irq_dispatch"
  /\ Head(H3) = "jiffies++" /\ Head(H4) = "raw_write_cntv_cval_el0"
  /\ Head(H5) = "raw_read_cntvct_el0" /\ Head(H6) = "gicd_clear_pending"
  /\ Head(H7) = "disable_cntv" /\ Head(I3) = "raw_write_cntv_cval_el0"
  /\ Head(I4) = "raw_read_cntvct_el0" /\ Head(I5) = "disable_cntv"
  /\ Head(I6) = "gicd_enable_int" /\ Head(I7) = "gicd_clear_pending"
  /\ Head(I8) = "gicd_set_target" /\ Head(I9) = "gicd_set_priority"
  /\ Head(I10) = "gicd_config" /\ Head(I11) = "init_gicc" /\ Head(I12) = "init_gicd"
  /\ I7 # H6 /\ I5 # H7 /\ I4 # H5 /\ I3 # H4
BY DEF Places, T0, T1, T2, D1, H3, H4, H5, H6, H7, I3, I4, I5, I6, I7, I8, I9, I10, I11, I12

\* The place after each call.
LEMMA Tails ==
  /\ Tail(I12) = I11 /\ Tail(I11) = I10 /\ Tail(I10) = I9 /\ Tail(I9) = I8 /\ Tail(I8) = I7
  /\ Tail(I7) = I6 /\ Tail(I6) = I5 /\ Tail(I5) = I4 /\ Tail(I4) = I3 /\ Tail(I3) = T2
  /\ Tail(H7) = H6 /\ Tail(H6) = H5 /\ Tail(H5) = H4 /\ Tail(H4) = H3 /\ Tail(H3) = T2
  /\ Tail(T2) = T1 /\ Tail(T1) = T0
<1>1. Tail(I12) = I11 BY DEF I12, I11
<1>2. Tail(I11) = I10 BY DEF I11, I10
<1>3. Tail(I10) = I9 BY DEF I10, I9
<1>4. Tail(I9) = I8 BY DEF I9, I8
<1>5. Tail(I8) = I7 BY DEF I8, I7
<1>6. Tail(I7) = I6 BY DEF I7, I6
<1>7. Tail(I6) = I5 BY DEF I6, I5
<1>8. Tail(I5) = I4 BY DEF I5, I4
<1>9. Tail(I4) = I3 BY DEF I4, I3
<1>10. Tail(I3) = T2 BY DEF I3, T2
<1>11. Tail(H7) = H6 BY DEF H7, H6
<1>12. Tail(H6) = H5 BY DEF H6, H5
<1>13. Tail(H5) = H4 BY DEF H5, H4
<1>14. Tail(H4) = H3 BY DEF H4, H3
<1>15. Tail(H3) = T2 BY DEF H3, T2
<1>16. Tail(T2) = T1 BY DEF T2, T1
<1>17. Tail(T1) = T0 BY DEF T1, T0
<1> QED BY <1>1, <1>2, <1>3, <1>4, <1>5, <1>6, <1>7, <1>8, <1>9, <1>10, <1>11, <1>12,
           <1>13, <1>14, <1>15, <1>16, <1>17

\* The entries of two sequences put together.
LEMMA Joined ==
  ASSUME NEW S, NEW a \in Seq(S), NEW b \in Seq(S), NEW d, d = a \o b
  PROVE /\ d \in Seq(S) /\ Len(d) = Len(a) + Len(b)
        /\ \A i \in 1..Len(a) : d[i] = a[i]
        /\ \A i \in 1..Len(b) : d[Len(a) + i] = b[i]
<1>1. /\ d \in Seq(S) /\ Len(d) = Len(a) + Len(b)
      /\ \A i \in 1..Len(a) + Len(b) : d[i] = IF i <= Len(a) THEN a[i] ELSE b[i - Len(a)]
  BY ConcatProperties
<1>2. ASSUME NEW i \in 1..Len(a) PROVE d[i] = a[i]
  <2>1. i \in 1..Len(a) + Len(b) /\ i <= Len(a)
    OBVIOUS
  <2> QED BY <1>1, <2>1
<1>3. ASSUME NEW i \in 1..Len(b) PROVE d[Len(a) + i] = b[i]
  <2>1. /\ Len(a) + i \in 1..Len(a) + Len(b) /\ ~(Len(a) + i <= Len(a))
        /\ (Len(a) + i) - Len(a) = i
    OBVIOUS
  <2>2. d[Len(a) + i] = b[(Len(a) + i) - Len(a)]
    BY <1>1, <2>1
  <2> QED BY <2>1, <2>2
<1> QED BY <1>1, <1>2, <1>3

\* timer_init, called by init_main before it enables interrupts, and the
\* handler begin at the first of their places.
LEMMA Starts == G!timer_init \o <<"enable_irq">> = I12 /\ G!timer_handler = H7
<1>1. G!timer_handler = H7
  BY DEF G!timer_handler, H7
<1> DEFINE S == {"init_gicd", "init_gicc", "gicd_config", "gicd_set_priority",
                 "gicd_set_target", "gicd_clear_pending", "gicd_enable_int",
                 "disable_cntv", "raw_read_cntvct_el0", "raw_write_cntv_cval_el0",
                 "enable_cntv", "enable_irq"}
           a == G!gic_v3_initialize
           b == <<"disable_cntv", "raw_read_cntvct_el0", "raw_write_cntv_cval_el0",
                  "enable_cntv">>
           c == <<"enable_irq">>
           d == a \o b
           e == d \o c
<1>2. a \in Seq(S) /\ Len(a) = 7
  BY DEF G!gic_v3_initialize
<1>3. I12 \in Seq(S) /\ Len(I12) = 12
  BY DEF I12
<1>4. b \in Seq(S) /\ Len(b) = 4 /\ c \in Seq(S) /\ Len(c) = 1
  OBVIOUS
<1>5. /\ a[1] = I12[1] /\ a[2] = I12[2] /\ a[3] = I12[3] /\ a[4] = I12[4]
      /\ a[5] = I12[5] /\ a[6] = I12[6] /\ a[7] = I12[7]
      /\ b[1] = I12[8] /\ b[2] = I12[9] /\ b[3] = I12[10] /\ b[4] = I12[11] /\ c[1] = I12[12]
  BY DEF G!gic_v3_initialize, I12
<1>6. G!timer_init \o <<"enable_irq">> = e
  BY DEF G!timer_init
<1> HIDE DEF S, a, b, c
<1>7. /\ d \in Seq(S) /\ Len(d) = 7 + 4
      /\ \A i \in 1..7 : d[i] = a[i]
      /\ \A i \in 1..4 : d[7 + i] = b[i]
  <2>1. /\ d \in Seq(S) /\ Len(d) = Len(a) + Len(b)
        /\ \A i \in 1..Len(a) : d[i] = a[i]
        /\ \A i \in 1..Len(b) : d[Len(a) + i] = b[i]
    <3>1. d = a \o b
      OBVIOUS
    <3> HIDE DEF d
    <3>2. a \in Seq(S) /\ b \in Seq(S)
      BY <1>2, <1>4
    <3>3. d \in Seq(S)
      BY <3>1, <3>2, Joined
    <3>4. Len(d) = Len(a) + Len(b)
      BY <3>1, <3>2, Joined
    <3>5. \A i \in 1..Len(a) : d[i] = a[i]
      BY <3>1, <3>2, Joined
    <3>6. \A i \in 1..Len(b) : d[Len(a) + i] = b[i]
      BY <3>1, <3>2, Joined
    <3> QED BY <3>3, <3>4, <3>5, <3>6
  <2> HIDE DEF d
  <2> QED BY <1>2, <1>4, <2>1, Zenon
<1> HIDE DEF d
<1>8. /\ e \in Seq(S) /\ Len(e) = 11 + 1
      /\ \A i \in 1..11 : e[i] = d[i]
      /\ \A i \in 1..1 : e[11 + i] = c[i]
  <2>1. Len(d) = 11
    BY <1>7
  <2>2. /\ e \in Seq(S) /\ Len(e) = Len(d) + Len(c)
        /\ \A i \in 1..Len(d) : e[i] = d[i]
        /\ \A i \in 1..Len(c) : e[Len(d) + i] = c[i]
    <3>1. e = d \o c
      OBVIOUS
    <3> HIDE DEF e
    <3>2. d \in Seq(S) /\ c \in Seq(S)
      BY <1>4, <1>7
    <3>3. e \in Seq(S)
      BY <3>1, <3>2, Joined
    <3>4. Len(e) = Len(d) + Len(c)
      BY <3>1, <3>2, Joined
    <3>5. \A i \in 1..Len(d) : e[i] = d[i]
      BY <3>1, <3>2, Joined
    <3>6. \A i \in 1..Len(c) : e[Len(d) + i] = c[i]
      BY <3>1, <3>2, Joined
    <3> QED BY <3>3, <3>4, <3>5, <3>6
  <2> HIDE DEF e
  <2> QED BY <1>4, <2>1, <2>2, Zenon
<1> HIDE DEF e
<1>9. /\ d[8] = b[1] /\ d[9] = b[2] /\ d[10] = b[3] /\ d[11] = b[4] /\ e[12] = c[1]
  <2>1. /\ 1 \in 1..4 /\ 2 \in 1..4 /\ 3 \in 1..4 /\ 4 \in 1..4 /\ 1 \in 1..1
        /\ 7 + 1 = 8 /\ 7 + 2 = 9 /\ 7 + 3 = 10 /\ 7 + 4 = 11 /\ 11 + 1 = 12
    OBVIOUS
  <2> QED BY <1>7, <1>8, <2>1
<1>10. ASSUME NEW i \in 1..12 PROVE e[i] = I12[i]
  <2>1. CASE i \in 1..7
    <3>1. e[i] = a[i]
      BY <1>7, <1>8, <2>1
    <3> QED BY <1>5, <2>1, <3>1
  <2>2. CASE i \in 8..11
    <3>1. e[i] = d[i]
      BY <1>8, <2>2
    <3> QED BY <1>5, <1>9, <2>2, <3>1
  <2>3. CASE i = 12
    BY <1>5, <1>9, <2>3
  <2> QED BY <2>1, <2>2, <2>3
<1>11. e = I12
  <2>1. Len(e) = Len(I12) /\ \A i \in 1..Len(e) : e[i] = I12[i]
    BY <1>3, <1>8, <1>10
  <2> QED BY <1>3, <1>8, <2>1, SeqEqual
<1> QED BY <1>1, <1>6, <1>11

\* The places that begin with a given call.
LEMMA Called ==
  ASSUME todo \in Places, NEW n, G!Call(n)
  PROVE /\ todo' = Tail(todo) /\ todo # T0 /\ Head(todo) = n
        /\ n = "init_gicd" => todo = I12 /\ todo' = I11
        /\ n = "init_gicc" => todo = I11 /\ todo' = I10
        /\ n = "gicd_config" => todo = I10 /\ todo' = I9
        /\ n = "gicd_set_priority" => todo = I9 /\ todo' = I8
        /\ n = "gicd_set_target" => todo = I8 /\ todo' = I7
        /\ n = "gicd_clear_pending" => (todo = I7 /\ todo' = I6) \/ (todo = H6 /\ todo' = H5)
        /\ n = "gicd_enable_int" => todo = I6 /\ todo' = I5
        /\ n = "disable_cntv" => (todo = I5 /\ todo' = I4) \/ (todo = H7 /\ todo' = H6)
        /\ n = "raw_read_cntvct_el0" => (todo = I4 /\ todo' = I3) \/ (todo = H5 /\ todo' = H4)
        /\ n = "raw_write_cntv_cval_el0" =>
             (todo = I3 /\ todo' = T2) \/ (todo = H4 /\ todo' = H3)
        /\ n = "jiffies++" => todo = H3 /\ todo' = T2
        /\ n = "enable_cntv" => todo = T2 /\ todo' = T1
        /\ n = "enable_irq" => todo = T1 /\ todo' = T0
<1>1. todo # << >> /\ Head(todo) = n /\ todo' = Tail(todo)
  BY DEF G!Call
<1>2. todo # T0
  BY <1>1, Heads
<1>3. todo \in Places \ {T0}
  BY <1>2
<1>4. n = "init_gicd" => todo = I12 /\ todo' = I11
  <2>1. n = "init_gicd" => todo = I12
    BY <1>1, <1>3, Heads DEF Places
  <2> QED BY <1>1, <2>1, Tails
<1>5. n = "init_gicc" => todo = I11 /\ todo' = I10
  <2>1. n = "init_gicc" => todo = I11
    BY <1>1, <1>3, Heads DEF Places
  <2> QED BY <1>1, <2>1, Tails
<1>6. n = "gicd_config" => todo = I10 /\ todo' = I9
  <2>1. n = "gicd_config" => todo = I10
    BY <1>1, <1>3, Heads DEF Places
  <2> QED BY <1>1, <2>1, Tails
<1>7. n = "gicd_set_priority" => todo = I9 /\ todo' = I8
  <2>1. n = "gicd_set_priority" => todo = I9
    BY <1>1, <1>3, Heads DEF Places
  <2> QED BY <1>1, <2>1, Tails
<1>8. n = "gicd_set_target" => todo = I8 /\ todo' = I7
  <2>1. n = "gicd_set_target" => todo = I8
    BY <1>1, <1>3, Heads DEF Places
  <2> QED BY <1>1, <2>1, Tails
<1>9. n = "gicd_clear_pending" => (todo = I7 /\ todo' = I6) \/ (todo = H6 /\ todo' = H5)
  <2>1. n = "gicd_clear_pending" => todo = I7 \/ todo = H6
    BY <1>1, <1>3, Heads DEF Places
  <2> QED BY <1>1, <2>1, Tails
<1>10. n = "gicd_enable_int" => todo = I6 /\ todo' = I5
  <2>1. n = "gicd_enable_int" => todo = I6
    BY <1>1, <1>3, Heads DEF Places
  <2> QED BY <1>1, <2>1, Tails
<1>11. n = "disable_cntv" => (todo = I5 /\ todo' = I4) \/ (todo = H7 /\ todo' = H6)
  <2>1. n = "disable_cntv" => todo = I5 \/ todo = H7
    BY <1>1, <1>3, Heads DEF Places
  <2> QED BY <1>1, <2>1, Tails
<1>12. n = "raw_read_cntvct_el0" => (todo = I4 /\ todo' = I3) \/ (todo = H5 /\ todo' = H4)
  <2>1. n = "raw_read_cntvct_el0" => todo = I4 \/ todo = H5
    BY <1>1, <1>3, Heads DEF Places
  <2> QED BY <1>1, <2>1, Tails
<1>13. n = "raw_write_cntv_cval_el0" => (todo = I3 /\ todo' = T2) \/ (todo = H4 /\ todo' = H3)
  <2>1. n = "raw_write_cntv_cval_el0" => todo = I3 \/ todo = H4
    BY <1>1, <1>3, Heads DEF Places
  <2> QED BY <1>1, <2>1, Tails
<1>14. n = "jiffies++" => todo = H3 /\ todo' = T2
  <2>1. n = "jiffies++" => todo = H3
    BY <1>1, <1>3, Heads DEF Places
  <2> QED BY <1>1, <2>1, Tails
<1>15. n = "enable_cntv" => todo = T2 /\ todo' = T1
  <2>1. n = "enable_cntv" => todo = T2
    BY <1>1, <1>3, Heads DEF Places
  <2> QED BY <1>1, <2>1, Tails
<1>16. n = "enable_irq" => todo = T1 /\ todo' = T0
  <2>1. n = "enable_irq" => todo = T1
    BY <1>1, <1>3, Heads DEF Places
  <2> QED BY <1>1, <2>1, Tails
<1> QED BY <1>1, <1>2, <1>4, <1>5, <1>6, <1>7, <1>8, <1>9, <1>10, <1>11, <1>12, <1>13,
           <1>14, <1>15, <1>16

(***************************************************************************)
(* Registers.                                                              *)
(***************************************************************************)
\* How many registers there are of each kind.
LEMMA RegisterSets ==
  /\ G!Registers(G!INT_PER_REG) = [0..1 -> SUBSET (0..31)]
  /\ G!Registers(G!IPRIORITY_PER_REG) = [0..15 -> SUBSET (0..31)]
  /\ G!Registers(G!ITARGETSR_PER_REG) = [0..15 -> SUBSET (0..31)]
  /\ G!Registers(G!ICFGR_PER_REG) = [0..3 -> SUBSET (0..31)]
<1>1. G!regs_nr(32) - 1 = 1 /\ G!regs_nr(4) - 1 = 15 /\ G!regs_nr(16) - 1 = 3
  BY DEF G!regs_nr, G!GIC_INT_MAX
<1> QED BY <1>1 DEF G!Registers, G!Bits, G!INT_PER_REG, G!IPRIORITY_PER_REG,
                    G!ITARGETSR_PER_REG, G!ICFGR_PER_REG

\* Writing a bit of a set or clear register changes that interrupt's only.
LEMMA WriteProps ==
  ASSUME NEW regs \in [0..1 -> SUBSET (0..31)], NEW irq \in G!Interrupts
  PROVE /\ G!WriteSet(regs, irq) \in [0..1 -> SUBSET (0..31)]
        /\ G!WriteClear(regs, irq) \in [0..1 -> SUBSET (0..31)]
        /\ \A j \in G!Interrupts :
             /\ G!IsSet(G!WriteSet(regs, irq), j) <=> (G!IsSet(regs, j) \/ j = irq)
             /\ G!IsSet(G!WriteClear(regs, irq), j) <=> (G!IsSet(regs, j) /\ j # irq)
<1>1. irq \in 0..63 /\ G!Interrupts = 0..63
  BY DEF G!Interrupts, G!GIC_INT_MAX
<1>2. \A j \in 0..63 : j \div 32 \in 0..1 /\ j % 32 \in 0..31
  OBVIOUS
<1>3. \A j \in 0..63 : j \div 32 = irq \div 32 /\ j % 32 = irq % 32 => j = irq
  BY <1>1
<1> DEFINE q == irq \div 32
           m == irq % 32
<1>4. q \in 0..1 /\ m \in 0..31
  BY <1>1, <1>2
<1>5. /\ G!WriteSet(regs, irq) = [regs EXCEPT ![q] = @ \cup {m}]
      /\ G!WriteClear(regs, irq) = [regs EXCEPT ![q] = @ \ {m}]
  BY DEF G!WriteSet, G!WriteClear, G!INT_PER_REG
<1> HIDE DEF q, m
<1>6. /\ G!WriteSet(regs, irq) \in [0..1 -> SUBSET (0..31)]
      /\ G!WriteClear(regs, irq) \in [0..1 -> SUBSET (0..31)]
  BY <1>4, <1>5
<1>7. ASSUME NEW j \in G!Interrupts
      PROVE /\ G!IsSet(G!WriteSet(regs, irq), j) <=> (G!IsSet(regs, j) \/ j = irq)
            /\ G!IsSet(G!WriteClear(regs, irq), j) <=> (G!IsSet(regs, j) /\ j # irq)
  <2> DEFINE jq == j \div 32
             jm == j % 32
  <2>1. jq \in 0..1 /\ (jq = q /\ jm = m <=> j = irq)
    BY <1>1, <1>2, <1>3 DEF q, m
  <2>2. \A r : G!IsSet(r, j) <=> jm \in r[jq]
    BY DEF G!IsSet, G!INT_PER_REG
  <2> HIDE DEF jq, jm
  <2> QED BY <1>4, <1>5, <2>1, <2>2
<1> QED BY <1>6, <1>7

\* Where the fields of a register are: those of two interrupts that share a
\* register do not overlap.
LEMMA FieldPlaces ==
  ASSUME NEW per \in Nat, NEW size \in Nat, NEW n \in Nat,
         (per = 4 /\ size = 8 /\ n = 15) \/ (per = 16 /\ size = 2 /\ n = 3)
  PROVE /\ \A j \in 0..63 : j \div per \in 0..n
        /\ \A j \in 0..63 : \A b \in 0..(size - 1) : b + (j % per) * size \in 0..31
        /\ \A j, k \in 0..63 : \A b, c \in 0..(size - 1) :
             j \div per = k \div per /\ b + (j % per) * size = c + (k % per) * size
               => j = k /\ b = c
<1>1. CASE per = 4 /\ size = 8 /\ n = 15
  <2>1. /\ \A j \in 0..63 : j \div 4 \in 0..15
        /\ \A j \in 0..63 : \A b \in 0..7 : b + (j % 4) * 8 \in 0..31
        /\ \A j, k \in 0..63 : \A b, c \in 0..7 :
             j \div 4 = k \div 4 /\ b + (j % 4) * 8 = c + (k % 4) * 8 => j = k /\ b = c
    OBVIOUS
  <2> QED BY <1>1, <2>1
<1>2. CASE per = 16 /\ size = 2 /\ n = 3
  <2>1. /\ \A j \in 0..63 : j \div 16 \in 0..3
        /\ \A j \in 0..63 : \A b \in 0..1 : b + (j % 16) * 2 \in 0..31
        /\ \A j, k \in 0..63 : \A b, c \in 0..1 :
             j \div 16 = k \div 16 /\ b + (j % 16) * 2 = c + (k % 16) * 2 => j = k /\ b = c
    OBVIOUS
  <2> QED BY <1>2, <2>1
<1> QED BY <1>1, <1>2

\* Registers 0 to n, and the values of a field.
Regs(n) == [0..n -> SUBSET (0..31)]
Values(size) == SUBSET (0..(size - 1))

\* Setting the field of one interrupt keeps the fields of all others.
LEMMA SetFieldProps ==
  ASSUME NEW per \in Nat, NEW size \in Nat, NEW n \in Nat,
         (per = 4 /\ size = 8 /\ n = 15) \/ (per = 16 /\ size = 2 /\ n = 3),
         NEW regs \in Regs(n), NEW irq \in G!Interrupts, NEW v \in Values(size),
         NEW k \in G!Interrupts
  PROVE /\ G!SetField(regs, irq, v, per, size) \in Regs(n)
        /\ k = irq => G!Field(G!SetField(regs, irq, v, per, size), k, per, size) = v
        /\ k # irq => G!Field(G!SetField(regs, irq, v, per, size), k, per, size) =
                        G!Field(regs, k, per, size)
<1> DEFINE q(j) == j \div per
           sh(j) == (j % per) * size
           new == (regs[q(irq)] \ {b + sh(irq) : b \in 0..(size - 1)})
                    \cup {b + sh(irq) : b \in v}
           res == G!SetField(regs, irq, v, per, size)
<1>1. /\ \A j \in 0..63 : q(j) \in 0..n
      /\ \A j \in 0..63 : \A b \in 0..(size - 1) : b + sh(j) \in 0..31
      /\ \A j, l \in 0..63 : \A b, c \in 0..(size - 1) :
           q(j) = q(l) /\ b + sh(j) = c + sh(l) => j = l /\ b = c
  BY FieldPlaces
<1>2. res = [regs EXCEPT ![q(irq)] = new]
  BY DEF G!SetField, G!Shifted
<1>3. \A r, j : G!Field(r, j, per, size) = {b \in 0..(size - 1) : b + sh(j) \in r[q(j)]}
  BY DEF G!Field
<1> HIDE DEF q, sh, res
<1>0. /\ regs \in [0..n -> SUBSET (0..31)] /\ v \in SUBSET (0..(size - 1))
      /\ irq \in 0..63 /\ k \in 0..63
  <2>1. regs \in [0..n -> SUBSET (0..31)] /\ v \in SUBSET (0..(size - 1))
    BY DEF Regs, Values
  <2>2. irq \in 0..63 /\ k \in 0..63
    BY DEF G!Interrupts, G!GIC_INT_MAX
  <2> QED BY <2>1, <2>2
<1>4. \A x : x \in new <=> \/ x \in regs[q(irq)] /\ ~\E b \in 0..(size - 1) : x = b + sh(irq)
                          \/ \E b \in v : x = b + sh(irq)
  OBVIOUS
<1> HIDE DEF new
<1>5. new \subseteq 0..31
  <2> SUFFICES ASSUME NEW x \in new PROVE x \in 0..31
    OBVIOUS
  <2>1. regs[q(irq)] \subseteq 0..31 /\ v \subseteq 0..(size - 1)
    BY <1>0, <1>1
  <2>2. \A b \in v : b + sh(irq) \in 0..31
    BY <1>0, <1>1, <2>1
  <2>3. x \in regs[q(irq)] \/ \E b \in v : x = b + sh(irq)
    BY <1>4, Zenon
  <2> QED BY <2>1, <2>2, <2>3
<1>6. res \in Regs(n)
  <2>1. res \in [0..n -> SUBSET (0..31)]
    BY <1>0, <1>1, <1>2, <1>5
  <2> QED BY <2>1 DEF Regs
<1>7. /\ res[q(irq)] = new
      /\ \A j \in 0..63 : q(j) # q(irq) => res[q(j)] = regs[q(j)]
  BY <1>0, <1>1, <1>2
<1>8. ASSUME NEW j \in 0..63
      PROVE {b \in 0..(size - 1) : b + sh(j) \in res[q(j)]} =
            IF j = irq THEN v ELSE {b \in 0..(size - 1) : b + sh(j) \in regs[q(j)]}
  <2>1. CASE q(j) # q(irq)
    BY <1>7, <2>1
  <2>2. CASE j = irq
    <3>1. ASSUME NEW b \in 0..(size - 1)
          PROVE b + sh(irq) \in new <=> b \in v
      <4>1. \A c \in 0..(size - 1) : b + sh(irq) = c + sh(irq) => b = c
        BY <1>0, <1>1
      <4>2. v \subseteq 0..(size - 1)
        BY <1>0
      <4> QED BY <1>4, <4>1, <4>2
    <3> QED BY <1>0, <1>7, <2>2, <3>1
  <2>3. CASE j # irq /\ q(j) = q(irq)
    <3>1. ASSUME NEW b \in 0..(size - 1)
          PROVE b + sh(j) \in new <=> b + sh(j) \in regs[q(irq)]
      <4>1. \A c \in 0..(size - 1) : b + sh(j) # c + sh(irq)
        BY <1>0, <1>1, <2>3
      <4>2. v \subseteq 0..(size - 1)
        BY <1>0
      <4> QED BY <1>4, <4>1, <4>2
    <3> QED BY <1>7, <2>3, <3>1
  <2> QED BY <2>1, <2>2, <2>3
<1>9. ASSUME NEW j \in 0..63
      PROVE G!Field(res, j, per, size) = IF j = irq THEN v ELSE G!Field(regs, j, per, size)
  <2>1. G!Field(res, j, per, size) = {b \in 0..(size - 1) : b + sh(j) \in res[q(j)]}
    BY <1>3
  <2>2. G!Field(regs, j, per, size) = {b \in 0..(size - 1) : b + sh(j) \in regs[q(j)]}
    BY <1>3
  <2> QED BY <1>8, <2>1, <2>2
<1> QED BY <1>0, <1>6, <1>9 DEF res

\* The same for the registers of priorities and targets, and for those of
\* triggers.
LEMMA SetFieldOf8 ==
  ASSUME NEW regs \in [0..15 -> SUBSET (0..31)], NEW v \in SUBSET (0..7)
  PROVE /\ G!SetField(regs, 27, v, 4, 8) \in [0..15 -> SUBSET (0..31)]
        /\ \A j \in 0..63 : G!Field(G!SetField(regs, 27, v, 4, 8), j, 4, 8) =
             IF j = 27 THEN v ELSE G!Field(regs, j, 4, 8)
<1>1. PICK per \in Nat, size \in Nat, n \in Nat, irq \in G!Interrupts :
        per = 4 /\ size = 8 /\ n = 15 /\ irq = 27
  BY DEF G!Interrupts, G!GIC_INT_MAX
<1>2. v \in Values(size) /\ regs \in Regs(n)
  BY <1>1 DEF Values, Regs
<1>3. /\ G!SetField(regs, irq, v, per, size) \in [0..n -> SUBSET (0..31)]
      /\ \A j \in 0..63 : G!Field(G!SetField(regs, irq, v, per, size), j, per, size) =
           IF j = irq THEN v ELSE G!Field(regs, j, per, size)
  <2>1. (per = 4 /\ size = 8 /\ n = 15) \/ (per = 16 /\ size = 2 /\ n = 3)
    BY <1>1
  <2>2. G!SetField(regs, irq, v, per, size) \in [0..n -> SUBSET (0..31)]
    BY <1>2, <2>1, SetFieldProps DEF Regs
  <2>3. ASSUME NEW j \in 0..63
        PROVE G!Field(G!SetField(regs, irq, v, per, size), j, per, size) =
                IF j = irq THEN v ELSE G!Field(regs, j, per, size)
    <3>0. j \in G!Interrupts
      BY DEF G!Interrupts, G!GIC_INT_MAX
    <3>1. j = irq => G!Field(G!SetField(regs, irq, v, per, size), j, per, size) = v
      BY <1>2, <2>1, <3>0, SetFieldProps
    <3>2. j # irq => G!Field(G!SetField(regs, irq, v, per, size), j, per, size) =
                        G!Field(regs, j, per, size)
      BY <1>2, <2>1, <3>0, SetFieldProps
    <3> QED BY <3>1, <3>2
  <2> QED BY <2>2, <2>3
<1> QED BY <1>1, <1>3, Zenon

\* As above, with two bits for each interrupt.
LEMMA SetFieldOf2 ==
  ASSUME NEW regs \in [0..3 -> SUBSET (0..31)], NEW v \in SUBSET (0..1)
  PROVE /\ G!SetField(regs, 27, v, 16, 2) \in [0..3 -> SUBSET (0..31)]
        /\ \A j \in 0..63 : G!Field(G!SetField(regs, 27, v, 16, 2), j, 16, 2) =
             IF j = 27 THEN v ELSE G!Field(regs, j, 16, 2)
<1>1. PICK per \in Nat, size \in Nat, n \in Nat, irq \in G!Interrupts :
        per = 16 /\ size = 2 /\ n = 3 /\ irq = 27
  BY DEF G!Interrupts, G!GIC_INT_MAX
<1>2. v \in Values(size) /\ regs \in Regs(n)
  BY <1>1 DEF Values, Regs
<1>3. /\ G!SetField(regs, irq, v, per, size) \in [0..n -> SUBSET (0..31)]
      /\ \A j \in 0..63 : G!Field(G!SetField(regs, irq, v, per, size), j, per, size) =
           IF j = irq THEN v ELSE G!Field(regs, j, per, size)
  <2>1. (per = 4 /\ size = 8 /\ n = 15) \/ (per = 16 /\ size = 2 /\ n = 3)
    BY <1>1
  <2>2. G!SetField(regs, irq, v, per, size) \in [0..n -> SUBSET (0..31)]
    BY <1>2, <2>1, SetFieldProps DEF Regs
  <2>3. ASSUME NEW j \in 0..63
        PROVE G!Field(G!SetField(regs, irq, v, per, size), j, per, size) =
                IF j = irq THEN v ELSE G!Field(regs, j, per, size)
    <3>0. j \in G!Interrupts
      BY DEF G!Interrupts, G!GIC_INT_MAX
    <3>1. j = irq => G!Field(G!SetField(regs, irq, v, per, size), j, per, size) = v
      BY <1>2, <2>1, <3>0, SetFieldProps
    <3>2. j # irq => G!Field(G!SetField(regs, irq, v, per, size), j, per, size) =
                        G!Field(regs, j, per, size)
      BY <1>2, <2>1, <3>0, SetFieldProps
    <3> QED BY <3>1, <3>2
  <2> QED BY <2>2, <2>3
<1> QED BY <1>1, <1>3, Zenon

(***************************************************************************)
(* The invariant.                                                          *)
(***************************************************************************)
\* What the calls made so far have put into the registers.  Before init_gicd
\* they hold anything.
Enabled == todo # I12 =>
  \A irq \in 0..63 : G!IsSet(isenabler, irq) <=>
    (irq = 27 /\ todo \notin {I11, I10, I9, I8, I7, I6})
Priorities == todo # I12 =>
  \A irq \in 0..63 : G!Field(ipriorityr, irq, 4, 8) =
    IF irq = 27 /\ todo \notin {I11, I10, I9} THEN {} ELSE 0..7
Triggers == todo # I12 =>
  \A irq \in 16..63 : G!Field(icfgr, irq, 16, 2) =
    IF irq = 27 /\ todo \notin {I11, I10} THEN {1} ELSE {}
Targets == todo # I12 =>
  \A irq \in 0..63 :
    irq >= 32 \/ (irq = 27 /\ todo \notin {I11, I10, I9, I8}) =>
      G!Field(itargetsr, irq, 4, 8) = {0}

\* The pending bit of the timer.
Latched == G!IsSet(ispendr, 27)

\* The timer runs from enable_cntv to disable_cntv; while it does, the compare
\* value is one period after the counter was read; it has the pending bit set
\* when it is reached, and the bit is only set when it is.
TimerInv ==
  /\ cntv => todo \in {T1, T0, D1, H7}
  /\ todo \in {T1, T0, D1, H7, H3, T2} => rem = Ticks - since
  /\ cntv /\ rem = 0 => Latched
  /\ Latched => since = Ticks
  /\ todo \in {I11, I10, I9, I8, I7, I6, I5, I4, I3, H5, H4, H3, T2} => ~Latched
  /\ todo \in {I12, I11, I10, I9, I8, I7, I6, I5, I4, H7, H6, H5} => since = Ticks

GInv ==
  /\ G!TypeOK
  /\ todo \in Places /\ (todo # T0 => masked)
  /\ Enabled /\ Priorities /\ Triggers /\ Targets
  /\ TimerInv

\* The state from which timer_init begins, with any contents of the
\* registers.
Start ==
  /\ G!TypeOK
  /\ cntv = FALSE /\ since = Ticks /\ masked /\ todo = I12

\* Boot starts with some of them.
LEMMA InitStart == Init => Start
<1> SUFFICES ASSUME Init PROVE Start
  OBVIOUS
<1>1. G!Init
  BY DEF Init
<1>2. PICK r \in {{}, 0..31} :
        /\ isenabler = [i \in 0..1 |-> r] /\ ispendr = [i \in 0..1 |-> r]
        /\ ipriorityr = [i \in 0..15 |-> r] /\ itargetsr = [i \in 0..15 |-> r]
        /\ icfgr = [i \in 0..3 |-> r]
  <2>1. /\ G!regs_nr(G!INT_PER_REG) - 1 = 1 /\ G!regs_nr(G!IPRIORITY_PER_REG) - 1 = 15
        /\ G!regs_nr(G!ITARGETSR_PER_REG) - 1 = 15 /\ G!regs_nr(G!ICFGR_PER_REG) - 1 = 3
    BY DEF G!regs_nr, G!GIC_INT_MAX, G!INT_PER_REG, G!IPRIORITY_PER_REG,
           G!ITARGETSR_PER_REG, G!ICFGR_PER_REG
  <2>2. G!Bits = 0..31
    BY DEF G!Bits
  <2> QED BY <1>1, <2>1, <2>2 DEF G!Init
<1>3. r \in SUBSET (0..31)
  OBVIOUS
<1>4. /\ isenabler \in G!Registers(G!INT_PER_REG) /\ ispendr \in G!Registers(G!INT_PER_REG)
      /\ ipriorityr \in G!Registers(G!IPRIORITY_PER_REG)
      /\ itargetsr \in G!Registers(G!ITARGETSR_PER_REG)
      /\ icfgr \in G!Registers(G!ICFGR_PER_REG)
  BY <1>2, <1>3, RegisterSets
<1>5. /\ gicd \in BOOLEAN /\ gicc \in BOOLEAN /\ line \subseteq Others
      /\ cntv \in BOOLEAN /\ masked \in BOOLEAN
  BY <1>1 DEF G!Init
<1>6. rem \in 0..Ticks /\ since \in 0..Ticks /\ jiffies \in 0..(JiffyWrap - 1)
  BY <1>1, BootAssumption DEF G!Init, G!GicConstants
<1>7. cntv = FALSE /\ since = Ticks /\ masked /\ todo = I12
  BY <1>1, Starts DEF G!Init
<1> QED BY <1>4, <1>5, <1>6, <1>7 DEF Start, G!TypeOK

\* The invariant holds there.
LEMMA StartInv == Start => GInv
<1>1. /\ I12 \in Places /\ I12 # T0 /\ I12 \notin {T1, D1, H7, H3, T2}
      /\ I12 \notin {I11, I10, I9, I8, I7, I6, I5, I4, I3, H5, H4}
  BY Heads DEF Places
<1> QED BY <1>1 DEF Start, GInv, Enabled, Priorities, Triggers, Targets, TimerInv

(***************************************************************************)
(* The steps.                                                              *)
(***************************************************************************)
\* The registers' values by which the invariant is stated.
LEMMA Names ==
  /\ G!TIMER_IRQ = 27 /\ G!Interrupts = 0..63 /\ G!EDGE = {1} /\ G!PRIO_MIN = 0..7
  /\ G!IPRIORITY_PER_REG = 4 /\ G!IPRIORITY_SIZE = 8 /\ G!ITARGETSR_PER_REG = 4
  /\ G!ITARGETSR_SIZE = 8 /\ G!ICFGR_PER_REG = 16 /\ G!ICFGR_SIZE = 2
  /\ G!INT_PER_REG = 32 /\ G!GIC_INTNO_PPI0 = 16 /\ G!GIC_INTNO_SPI0 = 32
  /\ G!GIC_INT_MAX = 64
BY DEF G!TIMER_IRQ, G!Interrupts, G!GIC_INT_MAX, G!EDGE, G!PRIO_MIN, G!IPRIORITY_PER_REG,
       G!IPRIORITY_SIZE, G!ITARGETSR_PER_REG, G!ITARGETSR_SIZE, G!ICFGR_PER_REG,
       G!ICFGR_SIZE, G!INT_PER_REG, G!GIC_INTNO_PPI0, G!GIC_INTNO_SPI0

\* The types, with the registers counted.
LEMMA Types ==
  G!TypeOK <=>
    /\ gicd \in BOOLEAN /\ gicc \in BOOLEAN
    /\ isenabler \in [0..1 -> SUBSET (0..31)] /\ ispendr \in [0..1 -> SUBSET (0..31)]
    /\ ipriorityr \in [0..15 -> SUBSET (0..31)] /\ itargetsr \in [0..15 -> SUBSET (0..31)]
    /\ icfgr \in [0..3 -> SUBSET (0..31)]
    /\ line \subseteq Others
    /\ cntv \in BOOLEAN /\ rem \in 0..Ticks /\ since \in 0..Ticks
    /\ jiffies \in 0..(JiffyWrap - 1) /\ masked \in BOOLEAN
BY RegisterSets DEF G!TypeOK

\* The same after a step.
LEMMA TypesAfter ==
  G!TypeOK' <=>
    /\ gicd' \in BOOLEAN /\ gicc' \in BOOLEAN
    /\ isenabler' \in [0..1 -> SUBSET (0..31)] /\ ispendr' \in [0..1 -> SUBSET (0..31)]
    /\ ipriorityr' \in [0..15 -> SUBSET (0..31)] /\ itargetsr' \in [0..15 -> SUBSET (0..31)]
    /\ icfgr' \in [0..3 -> SUBSET (0..31)]
    /\ line' \subseteq Others
    /\ cntv' \in BOOLEAN /\ rem' \in 0..Ticks /\ since' \in 0..Ticks
    /\ jiffies' \in 0..(JiffyWrap - 1) /\ masked' \in BOOLEAN
BY RegisterSets DEF G!TypeOK

\* A step that leaves the configuration alone and stays on the same side of
\* every configuring call keeps what is said of it.
LEMMA ConfigKept ==
  ASSUME GInv, isenabler' = isenabler, ipriorityr' = ipriorityr, icfgr' = icfgr,
         itargetsr' = itargetsr,
         todo # I12, todo' # I12,
         todo \notin {I10, I9, I8, I6},
         todo \in {I11, I7} \/ todo' \notin {I11, I10, I9, I8, I7, I6},
         todo = I11 => todo' = I10, todo = I7 => todo' = I6
  PROVE Enabled' /\ Priorities' /\ Triggers' /\ Targets'
<1>1. CASE todo = I11
  BY <1>1, Heads DEF GInv, Enabled, Priorities, Triggers, Targets
<1>2. CASE todo = I7
  BY <1>2, Heads DEF GInv, Enabled, Priorities, Triggers, Targets
<1>3. CASE todo \notin {I11, I7}
  BY <1>3, Heads DEF GInv, Enabled, Priorities, Triggers, Targets
<1> QED BY <1>1, <1>2, <1>3

\* init_gicd.
LEMMA InitGicd ==
  ASSUME GInv, G!init_gicd
  PROVE GInv'
<1>1. todo = I12 /\ todo' = I11 /\ masked' = masked /\ cntv' = cntv /\ rem' = rem
      /\ since' = since /\ jiffies' = jiffies /\ line' = line /\ gicc' = gicc /\ gicd' = TRUE
  <2>1. G!Call("init_gicd")
    BY DEF G!init_gicd
  <2> QED BY <2>1, Called DEF GInv, G!init_gicd, G!timer
<1>2. /\ isenabler' = [r \in 0..1 |-> {}] /\ ispendr' = [r \in 0..1 |-> {}]
      /\ ipriorityr' = [r \in 0..15 |-> 0..31]
      /\ itargetsr' = [r \in 0..15 |-> IF r >= 8 THEN {0, 8, 16, 24} ELSE itargetsr[r]]
      /\ icfgr' = [r \in 0..3 |-> IF r >= 1 THEN {} ELSE icfgr[r]]
  <2>1. /\ DOMAIN isenabler = 0..1 /\ DOMAIN ispendr = 0..1 /\ DOMAIN ipriorityr = 0..15
        /\ DOMAIN itargetsr = 0..15 /\ DOMAIN icfgr = 0..3
    BY Types DEF GInv
  <2>2. 32 \div 4 = 8 /\ 16 \div 16 = 1
    OBVIOUS
  <2> QED BY <2>1, <2>2, Names DEF G!init_gicd, G!Bits, G!CORE0_BMAP
<1>3. G!TypeOK'
  <2>1. /\ isenabler' \in [0..1 -> SUBSET (0..31)] /\ ispendr' \in [0..1 -> SUBSET (0..31)]
        /\ ipriorityr' \in [0..15 -> SUBSET (0..31)]
    BY <1>2
  <2>2. itargetsr' \in [0..15 -> SUBSET (0..31)] /\ icfgr' \in [0..3 -> SUBSET (0..31)]
    BY <1>2, Types DEF GInv
  <2> QED BY <1>1, <2>1, <2>2, Types, TypesAfter DEF GInv
<1>4. \A j \in 0..63 : /\ j \div 32 \in 0..1 /\ j \div 4 \in 0..15 /\ j \div 16 \in 0..3
                       /\ (j >= 32 => j \div 4 >= 8) /\ (j >= 16 => j \div 16 >= 1)
                       /\ \A b \in 0..7 : b + (j % 4) * 8 \in 0..31
                       /\ \A b \in 0..7 : b + (j % 4) * 8 \in {0, 8, 16, 24} <=> b = 0
  OBVIOUS
<1>5. \A j \in 0..63 : ~G!IsSet(isenabler', j) /\ ~G!IsSet(ispendr', j)
  BY <1>2, <1>4 DEF G!IsSet, G!INT_PER_REG
<1>6. \A j \in 0..63 : G!Field(ipriorityr', j, 4, 8) = 0..7
  BY <1>2, <1>4 DEF G!Field
<1>7. \A j \in 16..63 : G!Field(icfgr', j, 16, 2) = {}
  BY <1>2, <1>4 DEF G!Field
<1>8. \A j \in 0..63 : j >= 32 => G!Field(itargetsr', j, 4, 8) = {0}
  <2> SUFFICES ASSUME NEW j \in 0..63, j >= 32
               PROVE {b \in 0..7 : b + (j % 4) * 8 \in itargetsr'[j \div 4]} = {0}
    BY DEF G!Field
  <2>1. itargetsr'[j \div 4] = {0, 8, 16, 24}
    BY <1>2, <1>4
  <2> QED BY <1>4, <2>1
<1>9. Enabled' /\ Priorities' /\ Triggers' /\ Targets'
  BY <1>1, <1>5, <1>6, <1>7, <1>8 DEF Enabled, Priorities, Triggers, Targets
<1>10. TimerInv'
  <2>1. ~Latched'
    BY <1>5 DEF Latched
  <2>2. ~cntv /\ since = Ticks
    BY <1>1, Heads DEF GInv, TimerInv
  <2>3. I11 \notin {T1, T0, D1, H7, H3, T2}
    BY Heads
  <2> QED BY <1>1, <2>1, <2>2, <2>3 DEF TimerInv
<1> QED BY <1>1, <1>3, <1>9, <1>10, Heads DEF GInv, Places

\* The calls of gic_v3_initialize after init_gicd leave the timer off and its
\* pending bit clear.
LEMMA TimerKept ==
  ASSUME GInv, cntv' = cntv, since' = since, ispendr' = ispendr,
         todo \in {I11, I10, I9, I8, I6}, todo' \in {I10, I9, I8, I7, I5}
  PROVE TimerInv'
<1>1. ~cntv /\ ~Latched /\ since = Ticks
  BY Heads DEF GInv, TimerInv
<1>2. todo' \notin {T1, T0, D1, H7, H3, T2}
  <2>1. Head(todo') \in {"gicd_config", "gicd_set_priority", "gicd_set_target",
                         "gicd_clear_pending", "disable_cntv"}
    BY Heads
  <2> QED BY <2>1, Heads
<1>3. ~Latched'
  BY <1>1 DEF Latched
<1> QED BY <1>1, <1>2, <1>3 DEF TimerInv

\* init_gicc.
LEMMA InitGicc ==
  ASSUME GInv, G!init_gicc
  PROVE GInv'
<1>1. todo = I11 /\ todo' = I10
  BY Called DEF GInv, G!init_gicc
<1>2. /\ gicc' = TRUE
      /\ UNCHANGED <<gicd, isenabler, ispendr, ipriorityr, itargetsr, icfgr, line, cntv, rem,
                     since, jiffies, masked>>
  BY DEF G!init_gicc, G!fields, G!timer
<1>3. G!TypeOK'
  BY <1>2, Types, TypesAfter DEF GInv
<1>4. Enabled' /\ Priorities' /\ Triggers' /\ Targets'
  BY <1>1, <1>2, ConfigKept, Heads
<1>5. TimerInv'
  BY <1>1, <1>2, TimerKept
<1> QED BY <1>1, <1>2, <1>3, <1>4, <1>5, Heads DEF GInv, Places

\* gicd_config changes the trigger of the timer only.
LEMMA Config ==
  ASSUME GInv, G!gicd_config
  PROVE GInv'
<1>1. todo = I10 /\ todo' = I9
  BY Called DEF GInv, G!gicd_config
<1>2. /\ icfgr' = G!SetField(icfgr, 27, {1}, 16, 2)
      /\ UNCHANGED <<gicd, gicc, isenabler, ispendr, ipriorityr, itargetsr, line, cntv, rem,
                     since, jiffies, masked>>
  BY Names DEF G!gicd_config, G!fields, G!timer
<1>3. /\ icfgr' \in [0..3 -> SUBSET (0..31)]
      /\ \A j \in 0..63 : G!Field(icfgr', j, 16, 2) =
           IF j = 27 THEN {1} ELSE G!Field(icfgr, j, 16, 2)
  <2>1. icfgr \in [0..3 -> SUBSET (0..31)]
    BY Types DEF GInv
  <2>2. {1} \in SUBSET (0..1)
    OBVIOUS
  <2> QED BY <1>2, <2>1, <2>2, SetFieldOf2
<1>4. G!TypeOK'
  BY <1>2, <1>3, Types, TypesAfter DEF GInv
<1>5. Triggers'
  <2>1. 16..63 \subseteq 0..63 /\ todo # I12 /\ todo' \notin {I12, I11, I10}
    BY <1>1, Heads
  <2>2. \A j \in 16..63 : G!Field(icfgr, j, 16, 2) = {}
    BY <1>1, <2>1 DEF GInv, Triggers
  <2>3. \A j \in 16..63 : G!Field(icfgr', j, 16, 2) = IF j = 27 THEN {1} ELSE {}
    BY <1>3, <2>1, <2>2
  <2> QED BY <2>1, <2>3 DEF Triggers
<1>6. Enabled' /\ Priorities' /\ Targets'
  BY <1>1, <1>2, Heads DEF GInv, Enabled, Priorities, Targets
<1>7. TimerInv'
  BY <1>1, <1>2, TimerKept
<1> QED BY <1>1, <1>2, <1>4, <1>5, <1>6, <1>7, Heads DEF GInv, Places

\* gicd_set_priority changes the priority of the timer only.
LEMMA SetPriority ==
  ASSUME GInv, G!gicd_set_priority
  PROVE GInv'
<1>1. todo = I9 /\ todo' = I8
  BY Called DEF GInv, G!gicd_set_priority
<1>2. /\ ipriorityr' = G!SetField(ipriorityr, 27, {}, 4, 8)
      /\ UNCHANGED <<gicd, gicc, isenabler, ispendr, icfgr, itargetsr, line, cntv, rem,
                     since, jiffies, masked>>
  BY Names DEF G!gicd_set_priority, G!fields, G!timer
<1>3. /\ ipriorityr' \in [0..15 -> SUBSET (0..31)]
      /\ \A j \in 0..63 : G!Field(ipriorityr', j, 4, 8) =
           IF j = 27 THEN {} ELSE G!Field(ipriorityr, j, 4, 8)
  <2>1. ipriorityr \in [0..15 -> SUBSET (0..31)]
    BY Types DEF GInv
  <2>2. {} \in SUBSET (0..7)
    OBVIOUS
  <2> QED BY <1>2, <2>1, <2>2, SetFieldOf8
<1>4. G!TypeOK'
  BY <1>2, <1>3, Types, TypesAfter DEF GInv
<1>5. Priorities'
  BY <1>1, <1>3, Heads DEF GInv, Priorities
<1>6. Enabled' /\ Triggers' /\ Targets'
  BY <1>1, <1>2, Heads DEF GInv, Enabled, Triggers, Targets
<1>7. TimerInv'
  BY <1>1, <1>2, TimerKept
<1> QED BY <1>1, <1>2, <1>4, <1>5, <1>6, <1>7, Heads DEF GInv, Places

\* gicd_set_target changes the target of the timer only.
LEMMA SetTarget ==
  ASSUME GInv, G!gicd_set_target
  PROVE GInv'
<1>1. todo = I8 /\ todo' = I7
  BY Called DEF GInv, G!gicd_set_target
<1>2. /\ itargetsr' = G!SetField(itargetsr, 27, {0}, 4, 8)
      /\ UNCHANGED <<gicd, gicc, isenabler, ispendr, icfgr, ipriorityr, line, cntv, rem,
                     since, jiffies, masked>>
  BY Names DEF G!gicd_set_target, G!fields, G!timer
<1>3. /\ itargetsr' \in [0..15 -> SUBSET (0..31)]
      /\ \A j \in 0..63 : G!Field(itargetsr', j, 4, 8) =
           IF j = 27 THEN {0} ELSE G!Field(itargetsr, j, 4, 8)
  <2>1. itargetsr \in [0..15 -> SUBSET (0..31)]
    BY Types DEF GInv
  <2>2. {0} \in SUBSET (0..7)
    OBVIOUS
  <2> QED BY <1>2, <2>1, <2>2, SetFieldOf8
<1>4. G!TypeOK'
  BY <1>2, <1>3, Types, TypesAfter DEF GInv
<1>5. Targets'
  BY <1>1, <1>3, Heads DEF GInv, Targets
<1>6. Enabled' /\ Triggers' /\ Priorities'
  BY <1>1, <1>2, Heads DEF GInv, Enabled, Triggers, Priorities
<1>7. TimerInv'
  BY <1>1, <1>2, TimerKept
<1> QED BY <1>1, <1>2, <1>4, <1>5, <1>6, <1>7, Heads DEF GInv, Places

\* gicd_enable_int enables the timer only.
LEMMA EnableInt ==
  ASSUME GInv, G!gicd_enable_int
  PROVE GInv'
<1>1. todo = I6 /\ todo' = I5
  BY Called DEF GInv, G!gicd_enable_int
<1>2. /\ isenabler' = G!WriteSet(isenabler, 27)
      /\ UNCHANGED <<gicd, gicc, ispendr, icfgr, ipriorityr, itargetsr, line, cntv, rem,
                     since, jiffies, masked>>
  BY Names DEF G!gicd_enable_int, G!fields, G!timer
<1>3. /\ isenabler' \in [0..1 -> SUBSET (0..31)]
      /\ \A j \in 0..63 : G!IsSet(isenabler', j) <=> (G!IsSet(isenabler, j) \/ j = 27)
  <2>1. isenabler \in [0..1 -> SUBSET (0..31)] /\ 27 \in G!Interrupts
    BY Types, Names DEF GInv
  <2>2. /\ isenabler' \in [0..1 -> SUBSET (0..31)]
        /\ \A j \in G!Interrupts : G!IsSet(isenabler', j) <=> (G!IsSet(isenabler, j) \/ j = 27)
    BY <1>2, <2>1, WriteProps
  <2> QED BY <2>2, Names
<1>4. G!TypeOK'
  BY <1>2, <1>3, Types, TypesAfter DEF GInv
<1>5. Enabled'
  BY <1>1, <1>3, Heads DEF GInv, Enabled
<1>6. Targets' /\ Triggers' /\ Priorities'
  BY <1>1, <1>2, Heads DEF GInv, Targets, Triggers, Priorities
<1>7. TimerInv'
  BY <1>1, <1>2, TimerKept
<1> QED BY <1>1, <1>2, <1>4, <1>5, <1>6, <1>7, Heads DEF GInv, Places

\* The constants of the timer.
LEMMA Constants == Ticks \in Nat /\ Ticks >= 1 /\ JiffyWrap \in Nat /\ JiffyWrap >= 2
BY BootAssumption DEF G!GicConstants

\* The configuration of a step that follows gic_v3_initialize.
LEMMA Configured ==
  ASSUME GInv, todo \notin {I12, I11, I10, I9, I8, I7, I6},
         todo' \notin {I12, I11, I10, I9, I8, I7, I6},
         UNCHANGED <<isenabler, ipriorityr, icfgr, itargetsr>>
  PROVE Enabled' /\ Priorities' /\ Triggers' /\ Targets'
BY ConfigKept

\* A change of the timer sets its pending bit when it makes the line rise.
LEMMA LatchProps ==
  ASSUME GInv, G!Latch, todo \notin {I12, I11, I10}
  PROVE /\ ispendr' \in [0..1 -> SUBSET (0..31)]
        /\ Latched' <=> (Latched \/ (~(cntv /\ rem = 0) /\ cntv' /\ rem' = 0))
<1>1. G!Edge(27)
  <2>1. 27 \in 16..63
    OBVIOUS
  <2>2. G!Field(icfgr, 27, 16, 2) = {1}
    BY <2>1, Heads DEF GInv, Triggers
  <2> QED BY <2>2, Names DEF G!Edge
<1>2. ispendr \in [0..1 -> SUBSET (0..31)] /\ 27 \in G!Interrupts
  BY Types, Names DEF GInv
<1>3. /\ G!WriteSet(ispendr, 27) \in [0..1 -> SUBSET (0..31)]
      /\ G!IsSet(G!WriteSet(ispendr, 27), 27)
  BY <1>2, WriteProps
<1>4. ispendr' = IF ~(cntv /\ rem = 0) /\ cntv' /\ rem' = 0
                 THEN G!WriteSet(ispendr, 27) ELSE ispendr
  BY <1>1, Names DEF G!Latch, G!TimerLine
<1> QED BY <1>2, <1>3, <1>4 DEF Latched

\* gicd_clear_pending, with the timer off.
LEMMA ClearPending ==
  ASSUME GInv, G!gicd_clear_pending
  PROVE GInv'
<1>1. (todo = I7 /\ todo' = I6) \/ (todo = H6 /\ todo' = H5)
  BY Called DEF GInv, G!gicd_clear_pending
<1>2. /\ ispendr' = G!WriteClear(ispendr, 27)
      /\ UNCHANGED <<gicd, gicc, isenabler, icfgr, ipriorityr, itargetsr, line, cntv, rem,
                     since, jiffies, masked>>
  BY Names DEF G!gicd_clear_pending, G!fields, G!timer
<1>3. ispendr' \in [0..1 -> SUBSET (0..31)] /\ ~Latched'
  <2>1. ispendr \in [0..1 -> SUBSET (0..31)] /\ 27 \in G!Interrupts
    BY Types, Names DEF GInv
  <2> QED BY <1>2, <2>1, WriteProps DEF Latched
<1>4. G!TypeOK'
  BY <1>2, <1>3, Types, TypesAfter DEF GInv
<1>5. Enabled' /\ Priorities' /\ Triggers' /\ Targets'
  <2>1. CASE todo = I7 /\ todo' = I6
    BY <1>2, <2>1, ConfigKept, Heads
  <2>2. CASE todo = H6 /\ todo' = H5
    BY <1>2, <2>2, Configured, Heads
  <2> QED BY <1>1, <2>1, <2>2
<1>6. ~cntv /\ since = Ticks
  <2>1. todo \notin {T1, T0, D1, H7}
    BY <1>1, Heads
  <2> QED BY <1>1, <2>1 DEF GInv, TimerInv
<1>7. TimerInv'
  <2>1. todo' \notin {T1, T0, D1, H7, H3, T2}
    BY <1>1, Heads
  <2> QED BY <1>2, <1>3, <1>6, <2>1 DEF TimerInv
<1> QED BY <1>1, <1>2, <1>4, <1>5, <1>7, Heads DEF GInv, Places

\* disable_cntv.
LEMMA DisableCntv ==
  ASSUME GInv, G!disable_cntv
  PROVE GInv'
<1>1. (todo = I5 /\ todo' = I4) \/ (todo = H7 /\ todo' = H6)
  BY Called DEF GInv, G!disable_cntv
<1>2. /\ cntv' = FALSE
      /\ UNCHANGED <<gicd, gicc, isenabler, ispendr, icfgr, ipriorityr, itargetsr, line, rem,
                     since, jiffies, masked>>
  BY DEF G!disable_cntv, G!gic, G!fields
<1>3. G!TypeOK'
  BY <1>2, Types, TypesAfter DEF GInv
<1>4. Enabled' /\ Priorities' /\ Triggers' /\ Targets'
  BY <1>1, <1>2, Configured, Heads
<1>5. TimerInv'
  <2>1. todo' \notin {T1, T0, D1, H7, H3, T2} /\ since = Ticks
    BY <1>1, Heads DEF GInv, TimerInv
  <2>2. Latched' = Latched /\ (todo = I5 => ~Latched)
    BY <1>2 DEF GInv, TimerInv, Latched
  <2>3. H6 \notin {I11, I10, I9, I8, I7, I6, I5, I4, I3, H5, H4, H3, T2}
    BY Heads
  <2> QED BY <1>1, <1>2, <2>1, <2>2, <2>3 DEF TimerInv
<1> QED BY <1>1, <1>2, <1>3, <1>4, <1>5, Heads DEF GInv, Places

\* raw_read_cntvct_el0, with the pending bit clear.
LEMMA ReadCounter ==
  ASSUME GInv, G!raw_read_cntvct_el0
  PROVE GInv'
<1>1. (todo = I4 /\ todo' = I3) \/ (todo = H5 /\ todo' = H4)
  BY Called DEF GInv, G!raw_read_cntvct_el0
<1>2. /\ since' = 0
      /\ UNCHANGED <<gicd, gicc, isenabler, ispendr, icfgr, ipriorityr, itargetsr, line, cntv,
                     rem, jiffies, masked>>
  BY DEF G!raw_read_cntvct_el0, G!gic, G!fields
<1>3. G!TypeOK'
  BY <1>2, Types, TypesAfter, Constants DEF GInv
<1>4. Enabled' /\ Priorities' /\ Triggers' /\ Targets'
  BY <1>1, <1>2, Configured, Heads
<1>5. ~Latched' /\ ~cntv
  <2>1. todo \notin {T1, T0, D1, H7}
    BY <1>1, Heads
  <2> QED BY <1>1, <1>2, <2>1 DEF GInv, TimerInv, Latched
<1>6. todo' \notin {T1, T0, D1, H7, H3, T2}
  BY <1>1, Heads
<1>7. todo' \notin {I12, I11, I10, I9, I8, I7, I6, I5, I4, H7, H6, H5}
  <2>1. CASE todo' = I3
    BY <2>1, Heads
  <2>2. CASE todo' = H4
    BY <2>2, Heads
  <2> QED BY <1>1, <2>1, <2>2
<1>8. TimerInv'
  BY <1>2, <1>5, <1>6, <1>7 DEF TimerInv
<1> QED BY <1>1, <1>2, <1>3, <1>4, <1>8, Heads DEF GInv, Places

\* raw_write_cntv_cval_el0, with the timer off.
LEMMA WriteCompare ==
  ASSUME GInv, G!raw_write_cntv_cval_el0
  PROVE GInv'
<1>1. (todo = I3 /\ todo' = T2) \/ (todo = H4 /\ todo' = H3)
  BY Called DEF GInv, G!raw_write_cntv_cval_el0
<1>2. /\ rem' = Ticks - since /\ G!Latch
      /\ UNCHANGED <<gicd, gicc, isenabler, icfgr, ipriorityr, itargetsr, line, cntv,
                     since, jiffies, masked>>
  BY DEF G!raw_write_cntv_cval_el0, G!fields
<1>3. ~cntv /\ ~Latched
  <2>1. todo \notin {T1, T0, D1, H7}
    BY <1>1, Heads
  <2> QED BY <1>1, <2>1 DEF GInv, TimerInv
<1>4. ispendr' \in [0..1 -> SUBSET (0..31)] /\ ~Latched'
  <2>1. todo \notin {I12, I11, I10}
    BY <1>1, Heads
  <2> QED BY <1>2, <1>3, <2>1, LatchProps
<1>5. G!TypeOK'
  <2>1. rem' \in 0..Ticks
    BY <1>2, Constants, Types DEF GInv
  <2> QED BY <1>2, <1>4, <2>1, Types, TypesAfter DEF GInv
<1>6. Enabled' /\ Priorities' /\ Triggers' /\ Targets'
  BY <1>1, <1>2, Configured, Heads
<1>7. todo' \notin {I12, I11, I10, I9, I8, I7, I6, I5, I4, H7, H6, H5}
  BY <1>1, Heads
<1>8. TimerInv'
  BY <1>2, <1>3, <1>4, <1>7 DEF TimerInv
<1> QED BY <1>1, <1>2, <1>5, <1>6, <1>8, Heads DEF GInv, Places

\* jiffies++.
LEMMA Jiffy ==
  ASSUME GInv, G!CountJiffy
  PROVE GInv'
<1>1. todo = H3 /\ todo' = T2
  BY Called DEF GInv, G!CountJiffy
<1>2. /\ jiffies' = (jiffies + 1) % JiffyWrap
      /\ UNCHANGED <<gicd, gicc, isenabler, ispendr, icfgr, ipriorityr, itargetsr, line, cntv,
                     rem, since, masked>>
  BY DEF G!CountJiffy, G!gic, G!fields
<1>3. G!TypeOK'
  <2>1. jiffies' \in 0..(JiffyWrap - 1)
    BY <1>2, Constants, Types DEF GInv
  <2> QED BY <1>2, <2>1, Types, TypesAfter DEF GInv
<1>4. Enabled' /\ Priorities' /\ Triggers' /\ Targets'
  BY <1>1, <1>2, Configured, Heads
<1>5. TimerInv'
  <2>1. H3 \notin {T1, T0, D1, H7} /\ T2 \notin {T1, T0, D1, H7}
        /\ T2 \notin {I12, I11, I10, I9, I8, I7, I6, I5, I4, H7, H6, H5}
    BY Heads
  <2>2. Latched' = Latched
    BY <1>2 DEF Latched
  <2> QED BY <1>1, <1>2, <2>1, <2>2 DEF GInv, TimerInv
<1> QED BY <1>1, <1>2, <1>3, <1>4, <1>5, Heads DEF GInv, Places

\* enable_cntv: a value that is reached already makes the line rise.
LEMMA EnableCntv ==
  ASSUME GInv, G!enable_cntv
  PROVE GInv'
<1>1. todo = T2 /\ todo' = T1
  BY Called DEF GInv, G!enable_cntv
<1>2. /\ cntv' = TRUE /\ G!Latch
      /\ UNCHANGED <<gicd, gicc, isenabler, icfgr, ipriorityr, itargetsr, line, rem,
                     since, jiffies, masked>>
  BY DEF G!enable_cntv, G!fields
<1>3. ~cntv /\ ~Latched /\ rem = Ticks - since
  <2>1. todo \notin {T1, T0, D1, H7}
    BY <1>1, Heads
  <2> QED BY <1>1, <2>1 DEF GInv, TimerInv
<1>4. ispendr' \in [0..1 -> SUBSET (0..31)] /\ (Latched' <=> rem = 0)
  <2>1. todo \notin {I12, I11, I10}
    BY <1>1, Heads
  <2> QED BY <1>2, <1>3, <2>1, LatchProps
<1>5. G!TypeOK'
  BY <1>2, <1>4, Types, TypesAfter DEF GInv
<1>6. Enabled' /\ Priorities' /\ Triggers' /\ Targets'
  BY <1>1, <1>2, Configured, Heads
<1>7. /\ T1 \notin {I12, I11, I10, I9, I8, I7, I6, I5, I4, H7, H6, H5}
      /\ T1 \notin {I3, H4, H3, T2}
  BY Heads
<1>8. rem = 0 => since = Ticks
  BY <1>3, Constants, Types DEF GInv
<1>9. TimerInv'
  BY <1>1, <1>2, <1>3, <1>4, <1>7, <1>8 DEF TimerInv
<1> QED BY <1>1, <1>2, <1>5, <1>6, <1>9, Heads DEF GInv, Places

\* A step between calls that leaves controller and timer alone.
LEMMA Between ==
  ASSUME GInv,
         UNCHANGED <<gicd, gicc, isenabler, ispendr, icfgr, ipriorityr, itargetsr, cntv, rem,
                     since, jiffies>>,
         line' \subseteq Others, masked' \in BOOLEAN,
         todo \in {T0, T1, D1}, todo' \in {T0, T1, D1, H7},
         todo' = H7 => since = Ticks, todo' # T0 => masked'
  PROVE GInv'
<1>1. G!TypeOK'
  BY Types, TypesAfter DEF GInv
<1>2. Enabled' /\ Priorities' /\ Triggers' /\ Targets'
  BY Configured, Heads
<1>3. TimerInv'
  <2>1. Latched' = Latched
    BY DEF Latched
  <2>2. todo' \notin {I12, I11, I10, I9, I8, I7, I6, I5, I4, I3, H6, H5, H4, H3, T2}
    BY Heads
  <2> QED BY <2>1, <2>2 DEF GInv, TimerInv
<1> QED BY <1>1, <1>2, <1>3 DEF GInv, Places

\* gic_v3_find_pending_irq only finds pending interrupts.
LEMMA FoundPending ==
  ASSUME G!gic_v3_find_pending_irq = 27
  PROVE G!Pending(27)
<1> DEFINE found == {irq \in G!Interrupts : G!Pending(irq)}
<1>1. G!gic_v3_find_pending_irq = IF found = {} THEN 64 ELSE G!Min(found)
  BY Names DEF G!gic_v3_find_pending_irq
<1>2. found \subseteq Nat
  BY Names
<1>3. found # {} => G!Min(found) \in found
  <2> SUFFICES ASSUME found # {} PROVE G!Min(found) \in found
    OBVIOUS
  <2> HIDE DEF found
  <2>1. \E x \in found : \A y \in found : x =< y
    <3> DEFINE R == OpToRel(<, Nat)
    <3>1. IsWellFoundedOn(R, Nat)
      BY NatLessThanWellFounded
    <3>2. \A x, y \in Nat : <<y, x>> \in R <=> y < x
      BY DEF OpToRel
    <3> HIDE DEF R
    <3>3. PICK x \in found : \A y \in found : ~(<<y, x>> \in R)
      BY <1>2, <3>1, WFMin
    <3>4. \A y \in found : ~(y < x)
      BY <1>2, <3>2, <3>3
    <3> QED BY <1>2, <3>4
  <2> QED BY <2>1 DEF G!Min
<1> HIDE DEF found
<1>4. 27 \in found
  BY <1>1, <1>3
<1> QED BY <1>4 DEF found

\* enable_irq, the interrupt, the masking of interrupts and the dispatch.
LEMMA InterruptSteps ==
  ASSUME GInv, G!enable_irq \/ G!TakeIrq \/ G!Mask \/ G!irq_dispatch
  PROVE GInv'
<1>1. UNCHANGED <<gicd, gicc, isenabler, ispendr, icfgr, ipriorityr, itargetsr, cntv, rem,
                  since, jiffies, line>>
  BY DEF G!enable_irq, G!TakeIrq, G!Mask, G!irq_dispatch, G!gic, G!fields, G!timer
<1>2. line' \subseteq Others /\ masked \in BOOLEAN
  BY <1>1, Types DEF GInv
<1>3. CASE G!enable_irq
  <2>1. todo = T1 /\ todo' = T0 /\ masked' = FALSE
    BY <1>3, Called DEF GInv, G!enable_irq
  <2> QED BY <1>1, <1>2, <2>1, Between, Heads
<1>4. CASE G!TakeIrq
  <2>1. todo = T0 /\ todo' = D1 /\ masked' = TRUE
    BY <1>4 DEF G!TakeIrq, T0, D1
  <2> QED BY <1>1, <1>2, <2>1, Between, Heads
<1>5. CASE G!Mask
  <2>1. todo = T0 /\ todo' = T1 /\ masked' = TRUE
    BY <1>5 DEF G!Mask, T0, T1
  <2> QED BY <1>1, <1>2, <2>1, Between, Heads
<1>6. CASE G!irq_dispatch
  <2>1. todo = D1 /\ masked' = masked
        /\ todo' = IF G!gic_v3_find_pending_irq = 27 THEN H7 ELSE T1
    BY <1>6, Starts, Names DEF G!irq_dispatch, D1, T1
  <2>2. masked
    BY <2>1, Heads DEF GInv
  <2>3. ASSUME todo' = H7 PROVE since = Ticks
    <3>1. G!Pending(27)
      BY <2>1, <2>3, FoundPending, Heads
    <3>2. G!Edge(27)
      <4>1. 27 \in 16..63
        OBVIOUS
      <4>2. G!Field(icfgr, 27, 16, 2) = {1}
        BY <2>1, <4>1, Heads DEF GInv, Triggers
      <4> QED BY <4>2, Names DEF G!Edge
    <3>3. Latched
      BY <3>1, <3>2 DEF G!Pending, Latched
    <3> QED BY <3>3 DEF GInv, TimerInv
  <2> QED BY <1>1, <1>2, <2>1, <2>2, <2>3, Between
<1> QED BY <1>3, <1>4, <1>5, <1>6

\* A device changes its line.
LEMMA DeviceStep ==
  ASSUME GInv, NEW irq \in Others, G!Device(irq)
  PROVE GInv'
<1>1. UNCHANGED <<gicd, gicc, isenabler, ispendr, icfgr, ipriorityr, itargetsr, cntv, rem,
                  since, jiffies, masked, todo>>
  BY DEF G!Device, G!gic, G!fields, G!timer
<1>2. line' \subseteq Others
  BY Types DEF GInv, G!Device
<1>3. G!TypeOK'
  BY <1>1, <1>2, Types, TypesAfter DEF GInv
<1>4. Latched' = Latched
  BY <1>1 DEF Latched
<1> QED BY <1>1, <1>3, <1>4 DEF GInv, Enabled, Priorities, Triggers, Targets, TimerInv

\* The counter goes on.
LEMMA CountStep ==
  ASSUME GInv, G!Count
  PROVE GInv'
<1>1. /\ UNCHANGED <<gicd, gicc, isenabler, icfgr, ipriorityr, itargetsr, line, cntv, jiffies,
                     masked, todo>>
      /\ G!Latch
  BY DEF G!Count, G!fields
<1>2. rem \in 0..Ticks /\ since \in 0..Ticks /\ cntv \in BOOLEAN
  BY Types DEF GInv
<1>3. /\ rem' = IF rem = 0 THEN 0 ELSE rem - 1
      /\ since' = IF since = Ticks THEN Ticks ELSE since + 1
  <2>1. rem' = G!Max({rem - 1, 0}) /\ since' = G!Min({since + 1, Ticks})
    BY DEF G!Count
  <2>2. G!Max({rem - 1, 0}) = IF rem = 0 THEN 0 ELSE rem - 1
    <3>1. \E x \in {rem - 1, 0} : \A y \in {rem - 1, 0} : x >= y
      BY <1>2, Constants
    <3>2. /\ G!Max({rem - 1, 0}) \in {rem - 1, 0}
          /\ \A y \in {rem - 1, 0} : G!Max({rem - 1, 0}) >= y
      BY <3>1 DEF G!Max
    <3> QED BY <1>2, <3>2, Constants
  <2>3. G!Min({since + 1, Ticks}) = IF since = Ticks THEN Ticks ELSE since + 1
    <3>1. \E x \in {since + 1, Ticks} : \A y \in {since + 1, Ticks} : x =< y
      BY <1>2, Constants
    <3>2. /\ G!Min({since + 1, Ticks}) \in {since + 1, Ticks}
          /\ \A y \in {since + 1, Ticks} : G!Min({since + 1, Ticks}) =< y
      BY <3>1 DEF G!Min
    <3> QED BY <1>2, <3>2, Constants
  <2> QED BY <2>1, <2>2, <2>3
<1>4. /\ rem' \in 0..Ticks /\ since' \in 0..Ticks
      /\ rem = Ticks - since => rem' = Ticks - since'
      /\ since = Ticks => since' = Ticks
      /\ rem = Ticks - since /\ rem # 0 /\ rem' = 0 => since' = Ticks
  BY <1>2, <1>3, Constants
<1>5. /\ ispendr' \in [0..1 -> SUBSET (0..31)]
      /\ Latched' <=> (Latched \/ (cntv /\ rem # 0 /\ rem' = 0))
  <2>1. CASE cntv
    <3>1. todo \notin {I12, I11, I10}
      BY <2>1, Heads DEF GInv, TimerInv
    <3> QED BY <1>1, <2>1, <3>1, LatchProps
  <2>2. CASE ~cntv
    <3>1. ispendr' = ispendr
      BY <1>1, <2>2 DEF G!Latch, G!TimerLine
    <3> QED BY <2>2, <3>1, Types DEF GInv, Latched
  <2> QED BY <1>2, <2>1, <2>2
<1>6. G!TypeOK'
  BY <1>1, <1>4, <1>5, Types, TypesAfter DEF GInv
<1>7. cntv => /\ rem = Ticks - since
              /\ todo \notin {I11, I10, I9, I8, I7, I6, I5, I4, I3, H5, H4, H3, T2}
  BY Heads DEF GInv, TimerInv
<1>8. TimerInv'
  BY <1>1, <1>2, <1>4, <1>5, <1>7 DEF GInv, TimerInv
<1> QED BY <1>1, <1>6, <1>8 DEF GInv, Enabled, Priorities, Triggers, Targets

\* Every step keeps the invariant.
LEMMA NextInv == GInv /\ [Next]_vars => GInv'
<1> SUFFICES ASSUME GInv, [Next]_vars PROVE GInv'
  OBVIOUS
<1>1. ASSUME UNCHANGED gvars PROVE GInv'
  <2>1. UNCHANGED <<gicd, gicc, isenabler, ispendr, icfgr, ipriorityr, itargetsr, cntv, rem,
                    since, jiffies, masked, todo, line>>
    BY <1>1 DEF gvars
  <2>2. G!TypeOK'
    BY <2>1, Types, TypesAfter DEF GInv
  <2>3. Latched' = Latched
    BY <2>1 DEF Latched
  <2> QED BY <2>1, <2>2, <2>3 DEF GInv, Enabled, Priorities, Triggers, Targets, TimerInv
<1>2. CASE InitMm
  BY <1>1, <1>2 DEF InitMm
<1>3. CASE Cpu
  <2>1. G!Cpu
    BY <1>3 DEF Cpu, Machine
  <2> QED BY <2>1, InitGicd, InitGicc, Config, SetPriority, SetTarget, ClearPending,
             EnableInt, DisableCntv, EnableCntv, ReadCounter, WriteCompare, Jiffy,
             InterruptSteps DEF G!Cpu
<1>4. CASE TakeIrq \/ Mask
  BY <1>4, InterruptSteps DEF TakeIrq, Mask, Machine
<1>5. CASE Count
  BY <1>5, CountStep DEF Count, Machine
<1>6. CASE \E irq \in Others : Device(irq)
  BY <1>6, DeviceStep DEF Device, Machine
<1>7. CASE UNCHANGED vars
  BY <1>1, <1>7 DEF vars
<1> QED BY <1>2, <1>3, <1>4, <1>5, <1>6, <1>7 DEF Next

\* The invariant holds whatever the registers held before timer_init.
THEOREM Inductive == Start /\ [][Next]_vars => []GInv
BY StartInv, NextInv, PTL

\* The machine starts in such a state.
LEMMA SpecInv == Spec => []GInv
BY InitStart, Inductive, PTL DEF Spec

(***************************************************************************)
(* The properties.                                                         *)
(***************************************************************************)
\* Whenever interrupts are on, exactly the timer is enabled, at the highest
\* priority and edge triggered, and every other interrupt is masked.
THEOREM TimerAlone == Spec => []OnlyTimerOn
<1>1. GInv => OnlyTimerOn
  <2> SUFFICES ASSUME GInv, ~masked, NEW irq \in 0..63
               PROVE LET other == irq # 27 IN
                 /\ G!IsSet(isenabler, irq) = ~other
                 /\ G!Field(ipriorityr, irq, 4, 8) = IF other THEN 0..7 ELSE {}
                 /\ irq >= 16 => G!Field(icfgr, irq, 16, 2) = IF other THEN {} ELSE {1}
                 /\ irq >= 32 \/ ~other => G!Field(itargetsr, irq, 4, 8) = {0}
    BY Names DEF OnlyTimerOn, G!OnlyTimerOn
  <2>1. todo = T0
    BY DEF GInv
  <2>2. T0 \notin {I12, I11, I10, I9, I8, I7, I6}
    BY Heads
  <2>3. G!IsSet(isenabler, irq) <=> irq = 27
    BY <2>1, <2>2 DEF GInv, Enabled
  <2>4. G!Field(ipriorityr, irq, 4, 8) = IF irq = 27 THEN {} ELSE 0..7
    BY <2>1, <2>2 DEF GInv, Priorities
  <2>5. irq >= 16 => G!Field(icfgr, irq, 16, 2) = IF irq = 27 THEN {1} ELSE {}
    BY <2>1, <2>2 DEF GInv, Triggers
  <2>6. irq >= 32 \/ irq = 27 => G!Field(itargetsr, irq, 4, 8) = {0}
    BY <2>1, <2>2 DEF GInv, Targets
  <2>7. G!IsSet(isenabler, irq) \in BOOLEAN
    BY DEF G!IsSet
  <2> QED BY <2>3, <2>4, <2>5, <2>6, <2>7
<1> QED BY <1>1, SpecInv, PTL

\* No expiry of the timer is lost.
THEOREM ExpiriesKept == Spec => []NoLostExpiry
<1>1. GInv => NoLostExpiry
  BY Names DEF GInv, TimerInv, Latched, NoLostExpiry, G!NoLostExpiry, G!TimerLine, G!Pending
<1> QED BY <1>1, SpecInv, PTL

\* The counter is read for the next period only after a whole one.
THEOREM JiffiesWhole == Spec => JiffyNotShort
<1>1. GInv /\ [Next]_vars => [G!raw_read_cntvct_el0 => since = Ticks]_(G!vars)
  <2> SUFFICES ASSUME GInv, G!raw_read_cntvct_el0 PROVE since = Ticks
    OBVIOUS
  <2>1. todo = I4 \/ todo = H5
    BY Called DEF GInv, G!raw_read_cntvct_el0
  <2> QED BY <2>1 DEF GInv, TimerInv
<1>2. JiffyNotShort <=> [][G!raw_read_cntvct_el0 => since = Ticks]_(G!vars)
  BY DEF JiffyNotShort, G!JiffyNotShort
<1> QED BY <1>1, <1>2, SpecInv, PTL DEF Spec

(***************************************************************************)
(* The kernel's page tables.                                               *)
(*                                                                         *)
(* A section is found through three entries.  The tables are a tree: no    *)
(* two entries lead to the same table, so that an entry that is filled     *)
(* adds one section and changes no other.                                  *)
(***************************************************************************)
\* The numbers of the memory layout.
LEMMA Layout ==
  /\ FAN \in Nat /\ FAN >= 1 /\ PFLASH1_VA \in Nat /\ PFLASH1_PA \in Nat
  /\ L!Sections \in Nat /\ L!PAGING_PAGES \in Nat
  /\ FAN <= PFLASH1_VA /\ PFLASH1_VA + L!Sections <= FAN * FAN * FAN
  /\ 2 * L!Sections < L!PAGING_PAGES
  /\ DOMAIN BootMap = 0..(FAN - 1)
<1>1. /\ FAN \in Nat /\ FAN >= 1 /\ PFLASH1_VA \in Nat /\ PFLASH1_PA \in Nat
      /\ PFLASH1_SIZE \in Nat /\ PAGE_SIZE \in Nat /\ PAGE_SIZE >= 1 /\ PAGING_MEMORY \in Nat
      /\ FAN <= PFLASH1_VA /\ PFLASH1_VA + L!Sections <= FAN * FAN * FAN
      /\ 2 * L!Sections < L!PAGING_PAGES
      /\ DOMAIN BootMap = 0..(FAN - 1)
  BY BootAssumption DEF L!MemLayoutConstants
<1>2. L!SECTION_SIZE \in Nat /\ L!SECTION_SIZE >= 1
  BY <1>1 DEF L!SECTION_SIZE
<1>3. PFLASH1_SIZE \div L!SECTION_SIZE \in Nat
  BY <1>1, <1>2
<1>4. L!Sections \in Nat
  BY <1>3 DEF L!Sections
<1>5. L!PAGING_PAGES \in Nat
  BY <1>1 DEF L!PAGING_PAGES
<1> QED BY <1>1, <1>4, <1>5

\* The entries of a section, one for each table.
LEMMA Levels ==
  ASSUME NEW s \in Nat
  PROVE /\ L!Level(s, 0) = s % FAN
        /\ L!Level(s, 1) = (s \div FAN) % FAN
        /\ L!Level(s, 2) = (s \div (FAN * FAN)) % FAN
<1>1. s \div 1 = s
  OBVIOUS
<1> QED BY <1>1 DEF L!Level

\* A section is given by its three entries.
LEMMA Digits ==
  ASSUME NEW s \in Nat, s < FAN * FAN * FAN
  PROVE \E t, c, r \in Nat : /\ t = L!Level(s, 2) /\ c = L!Level(s, 1) /\ r = L!Level(s, 0)
                             /\ s = FAN * (FAN * t + c) + r
<1>1. FAN \in Nat /\ FAN >= 1
  BY Layout
<1>2. PICK m, r : m = s \div FAN /\ r = s % FAN
  OBVIOUS
<1>3. m \in Nat /\ r \in 0..(FAN - 1) /\ s = FAN * m + r
  <2>1. m \in Nat
    BY <1>1, <1>2
  <2>2. r \in 0..(FAN - 1)
    BY <1>1, <1>2
  <2>3. s = FAN * m + r
    BY <1>1, <1>2
  <2> QED BY <2>1, <2>2, <2>3
<1>4. PICK t, c : t = m \div FAN /\ c = m % FAN
  OBVIOUS
<1>5. t \in Nat /\ c \in 0..(FAN - 1) /\ m = FAN * t + c
  <2>1. t \in Nat
    BY <1>1, <1>3, <1>4
  <2>2. c \in 0..(FAN - 1)
    BY <1>1, <1>3, <1>4
  <2>3. m = FAN * t + c
    BY <1>1, <1>3, <1>4
  <2> QED BY <2>1, <2>2, <2>3
<1>6. t = s \div (FAN * FAN)
  <2>1. s \div (FAN * FAN) = (s \div FAN) \div FAN
    BY <1>1
  <2> QED BY <1>2, <1>4, <2>1, Zenon
<1>7. t < FAN
  <2>1. s \div (FAN * FAN) < FAN
    BY <1>1
  <2> QED BY <1>6, <2>1, Zenon
<1>8. t % FAN = t
  BY <1>1, <1>5, <1>7
<1>9. L!Level(s, 2) = t
  <2>1. L!Level(s, 2) = (s \div (FAN * FAN)) % FAN
    BY Levels
  <2> QED BY <1>6, <1>8, <2>1, Zenon
<1>10. L!Level(s, 1) = c /\ L!Level(s, 0) = r
  <2>1. L!Level(s, 1) = (s \div FAN) % FAN /\ L!Level(s, 0) = s % FAN
    BY Levels
  <2> QED BY <1>2, <1>4, <2>1, Zenon
<1>11. s = FAN * (FAN * t + c) + r
  BY <1>1, <1>3, <1>5
<1>12. t \in Nat /\ c \in Nat /\ r \in Nat
  BY <1>1, <1>3, <1>5
<1> QED BY <1>9, <1>10, <1>11, <1>12

\* Different sections have different entries.
LEMMA LevelsApart ==
  ASSUME NEW a \in Nat, NEW b \in Nat, a < FAN * FAN * FAN, b < FAN * FAN * FAN,
         L!Level(a, 2) = L!Level(b, 2), L!Level(a, 1) = L!Level(b, 1),
         L!Level(a, 0) = L!Level(b, 0)
  PROVE a = b
<1>1. PICK t, c, r \in Nat : /\ t = L!Level(a, 2) /\ c = L!Level(a, 1) /\ r = L!Level(a, 0)
                             /\ a = FAN * (FAN * t + c) + r
  BY Digits
<1>2. PICK u, d, e \in Nat : /\ u = L!Level(b, 2) /\ d = L!Level(b, 1) /\ e = L!Level(b, 0)
                             /\ b = FAN * (FAN * u + d) + e
  BY Digits
<1>3. t = u /\ c = d /\ r = e
  BY <1>1, <1>2
<1> QED BY <1>1, <1>2, <1>3

\* The sections of the first table.
LEMMA LevelsLow ==
  ASSUME NEW s \in 0..(FAN - 1)
  PROVE L!Level(s, 2) = 0 /\ L!Level(s, 1) = 0 /\ L!Level(s, 0) = s
<1>1. FAN \in Nat /\ FAN >= 1 /\ s \in Nat /\ s < FAN
  BY Layout
<1>2. s \div FAN = 0 /\ s % FAN = s /\ 0 % FAN = 0
  BY <1>1
<1>3. s \div (FAN * FAN) = (s \div FAN) \div FAN /\ 0 \div FAN = 0
  BY <1>1
<1> QED BY <1>1, <1>2, <1>3, Levels

\* Entry j of table x is v.
Entry(t, x, j, v) == L!Has(t, x, j) /\ t[x][j] = v

\* Filling an entry.
LEMMA PutProps ==
  ASSUME NEW t, NEW k, NEW i, NEW v
  PROVE /\ DOMAIN L!Put(t, k, i, v) = DOMAIN t \cup {k}
        /\ Entry(L!Put(t, k, i, v), k, i, v)
        /\ \A x, j, w : x # k \/ j # i =>
             (Entry(L!Put(t, k, i, v), x, j, w) <=> Entry(t, x, j, w))
<1> DEFINE dom == (IF k \in DOMAIN t THEN DOMAIN t[k] ELSE {}) \cup {i}
           row == [j \in dom |-> IF j = i THEN v ELSE t[k][j]]
           p == [x \in DOMAIN t \cup {k} |-> IF x # k THEN t[x] ELSE row]
<1>1. L!Put(t, k, i, v) = p
  BY DEF L!Put
<1>2. DOMAIN p = DOMAIN t \cup {k} /\ p[k] = row /\ \A x \in DOMAIN t : x # k => p[x] = t[x]
  OBVIOUS
<1>3. DOMAIN row = dom /\ row[i] = v /\ \A j \in dom : j # i => row[j] = t[k][j]
  OBVIOUS
<1>4. i \in dom /\ \A j : j # i => (j \in dom <=> (k \in DOMAIN t /\ j \in DOMAIN t[k]))
  OBVIOUS
<1> HIDE DEF p, row, dom
<1>5. \A x, j, w : Entry(p, x, j, w) <=> x \in DOMAIN p /\ j \in DOMAIN p[x] /\ p[x][j] = w
  BY DEF Entry, L!Has
<1>6. \A x, j, w : Entry(t, x, j, w) <=> x \in DOMAIN t /\ j \in DOMAIN t[x] /\ t[x][j] = w
  BY DEF Entry, L!Has
<1>7. Entry(p, k, i, v)
  BY <1>2, <1>3, <1>4, <1>5
<1>8. ASSUME NEW x, NEW j, NEW w, x # k PROVE Entry(p, x, j, w) <=> Entry(t, x, j, w)
  BY <1>2, <1>5, <1>6, <1>8
<1>9. ASSUME NEW j, NEW w, j # i PROVE Entry(p, k, j, w) <=> Entry(t, k, j, w)
  BY <1>2, <1>3, <1>4, <1>5, <1>6, <1>9
<1> QED BY <1>1, <1>2, <1>7, <1>8, <1>9

\* An entry has one value.
LEMMA EntryUnique ==
  /\ \A t, x, j, v, w : Entry(t, x, j, v) /\ Entry(t, x, j, w) => v = w
  /\ \A t, x, j : L!Has(t, x, j) <=> Entry(t, x, j, t[x][j])
  /\ \A t, x, j, v : Entry(t, x, j, v) => x \in DOMAIN t /\ L!Has(t, x, j) /\ t[x][j] = v
BY DEF Entry, L!Has

\* The tables of the second and of the third level, and the sections.
Pud(t, u) == \E i : Entry(t, -1, i, u)
Pmd(t, m) == \E u, i : Pud(t, u) /\ Entry(t, u, i, m)
Section(t, i, j, k, v) ==
  \E u, m : Entry(t, -1, i, u) /\ Entry(t, u, j, m) /\ Entry(t, m, k, v)

\* Pages that alloc_page handed out, those from f on.
Handed(f) == f..(L!PAGING_PAGES - 1)

\* The tables are a tree.
Tree(t, f) ==
  /\ DOMAIN t \subseteq {-1, -2, -3} \cup Handed(f)
  /\ \A u : Pud(t, u) => u \in {-2} \cup Handed(f)
  /\ \A m : Pmd(t, m) => m \in {-3} \cup Handed(f)
  /\ \A u : Pud(t, u) => ~Pmd(t, u)
  /\ \A i, j, u : Entry(t, -1, i, u) /\ Entry(t, -1, j, u) => i = j
  /\ \A u, w, i, j, m : Pud(t, u) /\ Pud(t, w) /\ Entry(t, u, i, m) /\ Entry(t, w, j, m)
                          => u = w /\ i = j

\* The page that get_free_page returns is none of the tables.
LEMMA NewPage ==
  ASSUME NEW t, NEW f \in 1..L!PAGING_PAGES, Tree(t, f)
  PROVE /\ f - 1 \in 0..(L!PAGING_PAGES - 1) /\ f - 1 \in Handed(f - 1)
        /\ Handed(f) \subseteq Handed(f - 1)
        /\ f - 1 \notin {-1, -2, -3} /\ f - 1 \notin DOMAIN t
        /\ ~Pud(t, f - 1) /\ ~Pmd(t, f - 1)
<1>1. L!PAGING_PAGES \in Nat
  BY Layout
<1>2. /\ f - 1 \in 0..(L!PAGING_PAGES - 1) /\ f - 1 \in Handed(f - 1)
      /\ Handed(f) \subseteq Handed(f - 1)
      /\ f - 1 \notin {-1, -2, -3} /\ f - 1 \notin Handed(f)
  BY <1>1 DEF Handed
<1>3. f - 1 \notin {-1, -2, -3} \cup Handed(f)
  BY <1>2
<1> QED BY <1>2, <1>3 DEF Tree

\* A new table of the second level.
LEMMA AddPud ==
  ASSUME NEW t, NEW f \in 1..L!PAGING_PAGES, Tree(t, f), NEW i, ~L!Has(t, -1, i),
         NEW n, n = f - 1, NEW t2, t2 = L!Put(t, -1, i, n)
  PROVE /\ Tree(t2, n) /\ Entry(t2, -1, i, n)
        /\ \A a, b, c, v : Section(t2, a, b, c, v) <=> Section(t, a, b, c, v)
<1>1. /\ n \in Handed(n) /\ Handed(f) \subseteq Handed(n) /\ n \notin {-1, -2, -3}
      /\ n \notin DOMAIN t /\ ~Pud(t, n) /\ ~Pmd(t, n)
  BY NewPage
<1>2. /\ DOMAIN t2 = DOMAIN t \cup {-1} /\ Entry(t2, -1, i, n)
      /\ \A x, j, w : x # -1 \/ j # i => (Entry(t2, x, j, w) <=> Entry(t, x, j, w))
  BY PutProps
<1>3. \A w : ~Entry(t, -1, i, w) /\ (Entry(t2, -1, i, w) => w = n)
  BY <1>2, EntryUnique
<1>4. \A j, w : ~Entry(t, n, j, w) /\ ~Entry(t2, n, j, w)
  BY <1>1, <1>2, EntryUnique
<1>5. \A u : Pud(t2, u) <=> (Pud(t, u) \/ u = n)
  BY <1>2, <1>3 DEF Pud
<1>6. /\ ~Pud(t, -1)
  BY DEF Tree, Handed
<1>7. \A u, j, m : Pud(t2, u) /\ Entry(t2, u, j, m) => Pud(t, u) /\ Entry(t, u, j, m)
  BY <1>1, <1>2, <1>4, <1>5, <1>6
<1>8. \A u, j, m : Pud(t, u) /\ Entry(t, u, j, m) => Pud(t2, u) /\ Entry(t2, u, j, m)
  BY <1>2, <1>5, <1>6
<1>9. \A m : Pmd(t2, m) <=> Pmd(t, m)
  BY <1>7, <1>8 DEF Pmd
<1>10. Tree(t2, n)
  <2>1. DOMAIN t2 \subseteq {-1, -2, -3} \cup Handed(n)
    BY <1>1, <1>2 DEF Tree
  <2>2. \A u : Pud(t2, u) => u \in {-2} \cup Handed(n)
    BY <1>1, <1>5 DEF Tree
  <2>3. \A m : Pmd(t2, m) => m \in {-3} \cup Handed(n)
    BY <1>1, <1>9 DEF Tree
  <2>4. \A u : Pud(t2, u) => ~Pmd(t2, u)
    BY <1>1, <1>5, <1>9 DEF Tree
  <2>5. \A a, b, u : Entry(t2, -1, a, u) /\ Entry(t2, -1, b, u) => a = b
    <3>1. \A a : ~Entry(t, -1, a, n)
      BY <1>1 DEF Pud
    <3> QED BY <1>2, <1>3, <3>1 DEF Tree
  <2>6. \A u, w, a, b, m : Pud(t2, u) /\ Pud(t2, w) /\ Entry(t2, u, a, m) /\ Entry(t2, w, b, m)
                            => u = w /\ a = b
    BY <1>7 DEF Tree
  <2> QED BY <2>1, <2>2, <2>3, <2>4, <2>5, <2>6 DEF Tree
<1>11. ASSUME NEW a, NEW b, NEW c, NEW v
       PROVE Section(t2, a, b, c, v) <=> Section(t, a, b, c, v)
  <2>1. \A m : Pmd(t, m) => m # -1
    BY DEF Tree, Handed
  <2>2. ASSUME NEW u, NEW m, Entry(t2, -1, a, u), Entry(t2, u, b, m), Entry(t2, m, c, v)
        PROVE Section(t, a, b, c, v)
    <3>1. u # n
      BY <1>4, <2>2
    <3>2. Entry(t, -1, a, u)
      BY <1>2, <1>3, <2>2, <3>1
    <3>3. Pud(t, u) /\ Entry(t, u, b, m)
      BY <1>7, <2>2, <3>2, <1>5 DEF Pud
    <3>4. Pmd(t, m)
      BY <3>3 DEF Pmd
    <3>5. Entry(t, m, c, v)
      BY <1>2, <2>1, <2>2, <3>4
    <3> QED BY <3>2, <3>3, <3>5 DEF Section
  <2>3. ASSUME NEW u, NEW m, Entry(t, -1, a, u), Entry(t, u, b, m), Entry(t, m, c, v)
        PROVE Section(t2, a, b, c, v)
    <3>1. Pud(t, u) /\ Pmd(t, m)
      BY <2>3 DEF Pud, Pmd
    <3>2. Entry(t2, -1, a, u)
      BY <1>2, <1>3, <2>3
    <3>3. Entry(t2, u, b, m)
      BY <1>8, <2>3, <3>1
    <3>4. Entry(t2, m, c, v)
      BY <1>2, <2>1, <2>3, <3>1
    <3> QED BY <3>2, <3>3, <3>4 DEF Section
  <2> QED BY <2>2, <2>3 DEF Section
<1> QED BY <1>2, <1>10, <1>11

\* A new table of the third level.
LEMMA AddPmd ==
  ASSUME NEW t, NEW f \in 1..L!PAGING_PAGES, Tree(t, f), NEW u0, Pud(t, u0),
         NEW i, ~L!Has(t, u0, i), NEW n, n = f - 1, NEW t2, t2 = L!Put(t, u0, i, n)
  PROVE /\ Tree(t2, n) /\ Entry(t2, u0, i, n)
        /\ \A a, u : Entry(t2, -1, a, u) <=> Entry(t, -1, a, u)
        /\ \A a, b, c, v : Section(t2, a, b, c, v) <=> Section(t, a, b, c, v)
<1>1. /\ n \in Handed(n) /\ Handed(f) \subseteq Handed(n) /\ n \notin {-1, -2, -3}
      /\ n \notin DOMAIN t /\ ~Pud(t, n) /\ ~Pmd(t, n)
  BY NewPage
<1>2. /\ DOMAIN t2 = DOMAIN t \cup {u0} /\ Entry(t2, u0, i, n)
      /\ \A x, j, w : x # u0 \/ j # i => (Entry(t2, x, j, w) <=> Entry(t, x, j, w))
  BY PutProps
<1>3. \A w : ~Entry(t, u0, i, w) /\ (Entry(t2, u0, i, w) => w = n)
  BY <1>2, EntryUnique
<1>4. u0 \in {-2} \cup Handed(f) /\ u0 # -1 /\ u0 # n
  BY <1>1 DEF Tree, Handed
<1>5. \A j, w : ~Entry(t2, n, j, w)
  BY <1>1, <1>2, <1>4, EntryUnique
<1>6. \A a, u : Entry(t2, -1, a, u) <=> Entry(t, -1, a, u)
  BY <1>2, <1>4
<1>7. \A u : Pud(t2, u) <=> Pud(t, u)
  BY <1>6 DEF Pud
<1>8. \A u, j, m : Entry(t2, u, j, m) => Entry(t, u, j, m) \/ (u = u0 /\ j = i /\ m = n)
  BY <1>2, <1>3
<1>9. \A u, j, m : Entry(t, u, j, m) => Entry(t2, u, j, m)
  BY <1>2, <1>3
<1>10. \A m : Pmd(t2, m) <=> (Pmd(t, m) \/ m = n)
  BY <1>2, <1>7, <1>8, <1>9 DEF Pmd
<1>11. Tree(t2, n)
  <2>1. DOMAIN t2 \subseteq {-1, -2, -3} \cup Handed(n)
    BY <1>1, <1>2, <1>4 DEF Tree
  <2>2. \A u : Pud(t2, u) => u \in {-2} \cup Handed(n)
    BY <1>1, <1>7 DEF Tree
  <2>3. \A m : Pmd(t2, m) => m \in {-3} \cup Handed(n)
    BY <1>1, <1>10 DEF Tree
  <2>4. \A u : Pud(t2, u) => ~Pmd(t2, u)
    BY <1>1, <1>7, <1>10 DEF Tree
  <2>5. \A a, b, u : Entry(t2, -1, a, u) /\ Entry(t2, -1, b, u) => a = b
    BY <1>6 DEF Tree
  <2>6. ASSUME NEW u, NEW w, NEW a, NEW b, NEW m,
               Pud(t2, u), Pud(t2, w), Entry(t2, u, a, m), Entry(t2, w, b, m)
        PROVE u = w /\ a = b
    <3>1. Pud(t, u) /\ Pud(t, w)
      BY <1>7, <2>6
    <3>2. CASE m = n
      <4>1. ~Entry(t, u, a, n) /\ ~Entry(t, w, b, n)
        BY <1>1, <3>1 DEF Pmd
      <4> QED BY <1>8, <2>6, <3>2, <4>1
    <3>3. CASE m # n
      <4>1. Entry(t, u, a, m) /\ Entry(t, w, b, m)
        BY <1>8, <2>6, <3>3
      <4> QED BY <3>1, <4>1 DEF Tree
    <3> QED BY <3>2, <3>3
  <2> QED BY <2>1, <2>2, <2>3, <2>4, <2>5, <2>6 DEF Tree
<1>12. ASSUME NEW a, NEW b, NEW c, NEW v
       PROVE Section(t2, a, b, c, v) <=> Section(t, a, b, c, v)
  <2>1. ASSUME NEW u, NEW m, Entry(t2, -1, a, u), Entry(t2, u, b, m), Entry(t2, m, c, v)
        PROVE Section(t, a, b, c, v)
    <3>1. m # n /\ Entry(t, -1, a, u)
      BY <1>5, <1>6, <2>1
    <3>2. Entry(t, u, b, m)
      BY <1>8, <2>1, <3>1
    <3>3. Pud(t, u)
      BY <3>1 DEF Pud
    <3>4. Pmd(t, m)
      BY <3>2, <3>3 DEF Pmd
    <3>5. m # u0
      BY <3>4 DEF Tree
    <3>6. Entry(t, m, c, v)
      BY <1>2, <2>1, <3>5
    <3> QED BY <3>1, <3>2, <3>6 DEF Section
  <2>2. Section(t, a, b, c, v) => Section(t2, a, b, c, v)
    BY <1>9 DEF Section
  <2> QED BY <2>1, <2>2 DEF Section
<1> QED BY <1>2, <1>6, <1>11, <1>12

\* A new section: no other is added, and none is changed.
LEMMA AddSection ==
  ASSUME NEW t, NEW f \in Nat, Tree(t, f), NEW i0, NEW u0, Entry(t, -1, i0, u0),
         NEW j0, NEW m0, Entry(t, u0, j0, m0), NEW k0, ~L!Has(t, m0, k0), NEW v0,
         NEW t2, t2 = L!Put(t, m0, k0, v0)
  PROVE /\ Tree(t2, f)
        /\ \A a, b, c, v : Section(t2, a, b, c, v) <=>
             (Section(t, a, b, c, v) \/ (a = i0 /\ b = j0 /\ c = k0 /\ v = v0))
<1>1. /\ DOMAIN t2 = DOMAIN t \cup {m0} /\ Entry(t2, m0, k0, v0)
      /\ \A x, j, w : x # m0 \/ j # k0 => (Entry(t2, x, j, w) <=> Entry(t, x, j, w))
  BY PutProps
<1>2. \A w : ~Entry(t, m0, k0, w) /\ (Entry(t2, m0, k0, w) => w = v0)
  BY <1>1, EntryUnique
<1>3. Pud(t, u0) /\ Pmd(t, m0)
  BY DEF Pud, Pmd
<1>4. m0 \in {-3} \cup Handed(f) /\ m0 # -1 /\ ~Pud(t, m0)
  <2>1. m0 \in {-3} \cup Handed(f) /\ ~Pud(t, m0)
    BY <1>3 DEF Tree
  <2> QED BY <2>1 DEF Handed
<1>5. \A a, u : Entry(t2, -1, a, u) <=> Entry(t, -1, a, u)
  BY <1>1, <1>4
<1>6. \A u : Pud(t2, u) <=> Pud(t, u)
  BY <1>5 DEF Pud
<1>7. \A u, j, m : Pud(t, u) => (Entry(t2, u, j, m) <=> Entry(t, u, j, m))
  BY <1>1, <1>4
<1>8. \A m : Pmd(t2, m) <=> Pmd(t, m)
  BY <1>6, <1>7 DEF Pmd
<1>9. Tree(t2, f)
  <2>1. DOMAIN t2 \subseteq {-1, -2, -3} \cup Handed(f)
    BY <1>1, <1>4 DEF Tree
  <2>2. \A u : Pud(t2, u) => u \in {-2} \cup Handed(f) /\ ~Pmd(t2, u)
    BY <1>6, <1>8 DEF Tree
  <2>3. \A m : Pmd(t2, m) => m \in {-3} \cup Handed(f)
    BY <1>8 DEF Tree
  <2>4. \A a, b, u : Entry(t2, -1, a, u) /\ Entry(t2, -1, b, u) => a = b
    BY <1>5 DEF Tree
  <2>5. \A u, w, a, b, m : Pud(t2, u) /\ Pud(t2, w) /\ Entry(t2, u, a, m) /\ Entry(t2, w, b, m)
                            => u = w /\ a = b
    BY <1>6, <1>7 DEF Tree
  <2> QED BY <2>1, <2>2, <2>3, <2>4, <2>5 DEF Tree
<1>10. ASSUME NEW a, NEW b, NEW c, NEW v
       PROVE Section(t2, a, b, c, v) <=>
               (Section(t, a, b, c, v) \/ (a = i0 /\ b = j0 /\ c = k0 /\ v = v0))
  <2>1. ASSUME NEW u, NEW m, Entry(t2, -1, a, u), Entry(t2, u, b, m), Entry(t2, m, c, v)
        PROVE Section(t, a, b, c, v) \/ (a = i0 /\ b = j0 /\ c = k0 /\ v = v0)
    <3>1. Entry(t, -1, a, u) /\ Pud(t, u)
      BY <1>5, <2>1 DEF Pud
    <3>2. Entry(t, u, b, m)
      BY <1>7, <2>1, <3>1
    <3>3. CASE m = m0 /\ c = k0
      <4>1. u = u0 /\ b = j0
        BY <1>3, <3>1, <3>2, <3>3 DEF Tree
      <4>2. a = i0
        BY <3>1, <4>1 DEF Tree
      <4> QED BY <1>2, <2>1, <3>3, <4>1, <4>2
    <3>4. CASE m # m0 \/ c # k0
      <4>1. Entry(t, m, c, v)
        BY <1>1, <2>1, <3>4
      <4> QED BY <3>1, <3>2, <4>1 DEF Section
    <3> QED BY <3>3, <3>4
  <2>2. ASSUME NEW u, NEW m, Entry(t, -1, a, u), Entry(t, u, b, m), Entry(t, m, c, v)
        PROVE Section(t2, a, b, c, v)
    <3>1. Pud(t, u) /\ Entry(t2, -1, a, u)
      BY <1>5, <2>2 DEF Pud
    <3>2. Entry(t2, u, b, m)
      BY <1>7, <2>2, <3>1
    <3>3. Entry(t2, m, c, v)
      BY <1>1, <1>2, <2>2
    <3> QED BY <3>1, <3>2, <3>3 DEF Section
  <2>3. Section(t2, i0, j0, k0, v0)
    <3>1. Entry(t2, -1, i0, u0) /\ Entry(t2, u0, j0, m0)
      BY <1>3, <1>5, <1>7
    <3> QED BY <1>1, <3>1 DEF Section
  <2> QED BY <2>1, <2>2, <2>3 DEF Section
<1> QED BY <1>9, <1>10

\* The sections that are mapped: those of start.S, and those of the flash that
\* map_kernel_sections has behind.
Wanted(n, i, j, k, v) ==
  \/ \E s \in 0..(FAN - 1) : i = 0 /\ j = 0 /\ k = s /\ v = BootMap[s]
  \/ \E s \in 0..(L!Sections - 1) :
       /\ s < n /\ v = PFLASH1_PA + s
       /\ i = L!Level(PFLASH1_VA + s, 2) /\ j = L!Level(PFLASH1_VA + s, 1)
       /\ k = L!Level(PFLASH1_VA + s, 0)

LInv ==
  /\ done \in 0..(L!Sections + 1) /\ free \in 1..L!PAGING_PAGES
  /\ done <= L!Sections => free >= L!PAGING_PAGES - 2 * done
  /\ Tree(tbl, free)
  /\ \A i, j, k, v : Section(tbl, i, j, k, v) <=> Wanted(done, i, j, k, v)

\* start.S maps the memory.
LEMMA InitLInv == L!Init => LInv
<1> SUFFICES ASSUME L!Init PROVE LInv
  OBVIOUS
<1>1. done = 0 /\ free = L!PAGING_PAGES
      /\ tbl = [k \in {-1, -2, -3} |-> IF k = -3 THEN BootMap ELSE [i \in {0} |-> k - 1]]
  BY DEF L!Init
<1>2. /\ DOMAIN tbl = {-1, -2, -3} /\ tbl[-3] = BootMap
      /\ tbl[-1] = [i \in {0} |-> -2] /\ tbl[-2] = [i \in {0} |-> -3]
  BY <1>1
<1>3. \A x, j, v : Entry(tbl, x, j, v) <=>
        x \in DOMAIN tbl /\ j \in DOMAIN tbl[x] /\ tbl[x][j] = v
  BY DEF Entry, L!Has
<1>4. \A i, u : Entry(tbl, -1, i, u) <=> i = 0 /\ u = -2
  BY <1>2, <1>3
<1>5. \A i, m : Entry(tbl, -2, i, m) <=> i = 0 /\ m = -3
  BY <1>2, <1>3
<1>6. \A k, v : Entry(tbl, -3, k, v) <=> k \in 0..(FAN - 1) /\ v = BootMap[k]
  <2>1. \A k, v : Entry(tbl, -3, k, v) <=> k \in DOMAIN BootMap /\ BootMap[k] = v
    BY <1>2, <1>3
  <2>2. DOMAIN BootMap = 0..(FAN - 1)
    BY Layout
  <2> QED BY <2>1, <2>2, Zenon
<1>7. \A u : Pud(tbl, u) <=> u = -2
  BY <1>4 DEF Pud
<1>8. \A m : Pmd(tbl, m) <=> m = -3
  BY <1>5, <1>7 DEF Pmd
<1>9. Tree(tbl, free)
  BY <1>2, <1>4, <1>5, <1>7, <1>8 DEF Tree
<1>10. \A i, j, k, v : Section(tbl, i, j, k, v) <=>
          i = 0 /\ j = 0 /\ k \in 0..(FAN - 1) /\ v = BootMap[k]
  BY <1>4, <1>5, <1>6 DEF Section
<1>11. \A i, j, k, v : Wanted(0, i, j, k, v) <=>
          i = 0 /\ j = 0 /\ k \in 0..(FAN - 1) /\ v = BootMap[k]
  BY Layout DEF Wanted
<1>12. done \in 0..(L!Sections + 1) /\ free \in 1..L!PAGING_PAGES
       /\ (done <= L!Sections => free >= L!PAGING_PAGES - 2 * done)
  BY <1>1, Layout
<1> QED BY <1>1, <1>9, <1>10, <1>11, <1>12 DEF LInv

\* The table below an entry of the first table.
LEMMA NextPud ==
  ASSUME NEW t, NEW f \in 1..L!PAGING_PAGES, Tree(t, f), NEW i,
         NEW r, r = L!NextTable(t, -1, i, f - 1)
  PROVE /\ r.free \in {f - 1, f} /\ Tree(r.tbl, r.free) /\ Entry(r.tbl, -1, i, r.next)
        /\ \A a, b, c, v : Section(r.tbl, a, b, c, v) <=> Section(t, a, b, c, v)
<1>1. CASE L!Has(t, -1, i)
  <2>1. r.tbl = t /\ r.next = t[-1][i] /\ r.free = (f - 1) + 1
    BY <1>1 DEF L!NextTable
  <2>2. r.free = f
    BY <2>1
  <2> QED BY <1>1, <2>1, <2>2, EntryUnique
<1>2. CASE ~L!Has(t, -1, i)
  <2>1. PICK n : n = f - 1
    OBVIOUS
  <2>2. r.tbl = L!Put(t, -1, i, n) /\ r.next = n /\ r.free = n
    BY <1>2, <2>1 DEF L!NextTable
  <2> QED BY <1>2, <2>1, <2>2, AddPud
<1> QED BY <1>1, <1>2

\* The table below an entry of a table of the second level.
LEMMA NextPmd ==
  ASSUME NEW t, NEW f \in 1..L!PAGING_PAGES, Tree(t, f), NEW a0, NEW u0, Entry(t, -1, a0, u0),
         NEW i, NEW r, r = L!NextTable(t, u0, i, f - 1)
  PROVE /\ r.free \in {f - 1, f} /\ Tree(r.tbl, r.free)
        /\ Entry(r.tbl, -1, a0, u0) /\ Entry(r.tbl, u0, i, r.next)
        /\ \A a, b, c, v : Section(r.tbl, a, b, c, v) <=> Section(t, a, b, c, v)
<1>1. CASE L!Has(t, u0, i)
  <2>1. r.tbl = t /\ r.next = t[u0][i] /\ r.free = (f - 1) + 1
    BY <1>1 DEF L!NextTable
  <2>2. r.free = f
    BY <2>1
  <2> QED BY <1>1, <2>1, <2>2, EntryUnique
<1>2. CASE ~L!Has(t, u0, i)
  <2>1. PICK n : n = f - 1
    OBVIOUS
  <2>2. r.tbl = L!Put(t, u0, i, n) /\ r.next = n /\ r.free = n
    BY <1>2, <2>1 DEF L!NextTable
  <2>3. Pud(t, u0)
    BY DEF Pud
  <2> QED BY <1>2, <2>1, <2>2, <2>3, AddPmd
<1> QED BY <1>1, <1>2

\* No section of the flash is wanted before its turn.
LEMMA NotYet ==
  ASSUME NEW s \in 0..(L!Sections - 1), NEW n \in Nat, n <= s, NEW v
  PROVE ~Wanted(n, L!Level(PFLASH1_VA + s, 2), L!Level(PFLASH1_VA + s, 1),
                   L!Level(PFLASH1_VA + s, 0), v)
<1> DEFINE a == PFLASH1_VA + s
<1>1. a \in Nat /\ a >= FAN /\ a < FAN * FAN * FAN
  BY Layout
<1>2. ASSUME NEW b \in 0..(FAN - 1),
             L!Level(a, 2) = 0, L!Level(a, 1) = 0, L!Level(a, 0) = b
      PROVE FALSE
  <2>1. L!Level(b, 2) = 0 /\ L!Level(b, 1) = 0 /\ L!Level(b, 0) = b
    BY LevelsLow
  <2>2. b \in Nat /\ b < FAN
    BY Layout
  <2>3. b < FAN * FAN * FAN
    BY <1>1, <2>2, Layout
  <2> HIDE DEF a
  <2>4. a = b
    BY <1>1, <1>2, <2>1, <2>2, <2>3, LevelsApart
  <2> QED BY <1>1, <2>2, <2>4, Layout
<1>3. ASSUME NEW b \in 0..(L!Sections - 1), b < n,
             L!Level(a, 2) = L!Level(PFLASH1_VA + b, 2),
             L!Level(a, 1) = L!Level(PFLASH1_VA + b, 1),
             L!Level(a, 0) = L!Level(PFLASH1_VA + b, 0)
      PROVE FALSE
  <2>1. PICK c : c = PFLASH1_VA + b
    OBVIOUS
  <2>2. c \in Nat /\ c < FAN * FAN * FAN /\ c # a
    BY <1>3, <2>1, Layout
  <2> HIDE DEF a
  <2>3. a = c
    BY <1>1, <1>3, <2>1, <2>2, LevelsApart
  <2> QED BY <2>2, <2>3
<1> QED BY <1>2, <1>3 DEF Wanted

\* One section of the flash: exactly that one is added.
LEMMA MapStep == LInv /\ L!map_kernel_section => LInv'
<1> SUFFICES ASSUME LInv, L!map_kernel_section PROVE LInv'
  OBVIOUS
<1>1. /\ done \in Nat /\ done < L!Sections /\ done' = done + 1
      /\ free \in 1..L!PAGING_PAGES /\ free >= L!PAGING_PAGES - 2 * done
      /\ done \in 0..(L!Sections - 1)
  BY Layout DEF LInv, L!map_kernel_section
<1>2. free \in Nat /\ free >= 3 /\ free <= L!PAGING_PAGES
  BY <1>1, Layout
<1>3. PICK i, j, k : /\ i = L!Level(PFLASH1_VA + done, 2) /\ j = L!Level(PFLASH1_VA + done, 1)
                     /\ k = L!Level(PFLASH1_VA + done, 0)
  OBVIOUS
<1>4. PICK pud : pud = L!NextTable(tbl, -1, i, free - 1)
  OBVIOUS
<1>5. PICK pmd : pmd = L!NextTable(pud.tbl, pud.next, j, pud.free - 1)
  OBVIOUS
<1>6. PICK w : w = PFLASH1_PA + done
  OBVIOUS
<1>7. /\ tbl' = IF L!Has(pmd.tbl, pmd.next, k) THEN pmd.tbl ELSE L!Put(pmd.tbl, pmd.next, k, w)
      /\ free' = pmd.free
  BY <1>3, <1>4, <1>5, <1>6, Zenon DEF L!map_kernel_section
<1>8. Tree(tbl, free)
  BY DEF LInv
<1>9. /\ pud.free \in {free - 1, free} /\ Tree(pud.tbl, pud.free)
      /\ Entry(pud.tbl, -1, i, pud.next)
      /\ \A a, b, c, v : Section(pud.tbl, a, b, c, v) <=> Section(tbl, a, b, c, v)
  BY <1>1, <1>4, <1>8, NextPud
<1>10. pud.free \in 1..L!PAGING_PAGES /\ pud.free \in Nat
  BY <1>2, <1>9, Layout
<1>11. /\ pmd.free \in {pud.free - 1, pud.free} /\ Tree(pmd.tbl, pmd.free)
       /\ Entry(pmd.tbl, -1, i, pud.next) /\ Entry(pmd.tbl, pud.next, j, pmd.next)
       /\ \A a, b, c, v : Section(pmd.tbl, a, b, c, v) <=> Section(pud.tbl, a, b, c, v)
  <2>1. PICK t, u, f : t = pud.tbl /\ u = pud.next /\ f = pud.free
    OBVIOUS
  <2> QED BY <1>5, <1>9, <1>10, <2>1, NextPmd
<1>12. pmd.free \in Nat /\ pmd.free >= free - 2 /\ pmd.free <= free
  BY <1>2, <1>9, <1>10, <1>11
<1>13. \A a, b, c, v : Section(pmd.tbl, a, b, c, v) <=> Wanted(done, a, b, c, v)
  BY <1>9, <1>11 DEF LInv
<1>14. ~L!Has(pmd.tbl, pmd.next, k)
  <2>1. SUFFICES ASSUME L!Has(pmd.tbl, pmd.next, k) PROVE FALSE
    OBVIOUS
  <2>2. PICK v : Entry(pmd.tbl, pmd.next, k, v)
    BY <2>1, EntryUnique
  <2>3. Section(pmd.tbl, i, j, k, v)
    BY <1>11, <2>2 DEF Section
  <2>4. Wanted(done, i, j, k, v)
    BY <1>13, <2>3
  <2>5. ~Wanted(done, i, j, k, v)
    BY <1>1, <1>3, NotYet
  <2> QED BY <2>4, <2>5
<1>15. tbl' = L!Put(pmd.tbl, pmd.next, k, w)
  BY <1>7, <1>14
<1>16. /\ Tree(tbl', free')
       /\ \A a, b, c, v : Section(tbl', a, b, c, v) <=>
            (Section(pmd.tbl, a, b, c, v) \/ (a = i /\ b = j /\ c = k /\ v = w))
  <2>1. PICK t, f, m, t2, u : /\ t = pmd.tbl /\ f = pmd.free /\ m = pmd.next /\ t2 = tbl'
                              /\ u = pud.next
    OBVIOUS
  <2>2. f \in Nat /\ Tree(t, f) /\ Entry(t, -1, i, u) /\ Entry(t, u, j, m) /\ ~L!Has(t, m, k)
        /\ t2 = L!Put(t, m, k, w)
    BY <1>11, <1>12, <1>14, <1>15, <2>1
  <2>3. /\ Tree(t2, f)
        /\ \A a, b, c, v : Section(t2, a, b, c, v) <=>
            (Section(t, a, b, c, v) \/ (a = i /\ b = j /\ c = k /\ v = w))
    BY <2>2, AddSection
  <2> QED BY <1>7, <2>1, <2>3
<1>17. \A a, b, c, v : Wanted(done + 1, a, b, c, v) <=>
         (Wanted(done, a, b, c, v) \/ (a = i /\ b = j /\ c = k /\ v = w))
  <2>1. \A s \in 0..(L!Sections - 1) : s < done + 1 <=> s < done \/ s = done
    BY <1>1, Layout
  <2> DEFINE F(s, a, b, c, v) ==
               /\ v = PFLASH1_PA + s
               /\ a = L!Level(PFLASH1_VA + s, 2) /\ b = L!Level(PFLASH1_VA + s, 1)
               /\ c = L!Level(PFLASH1_VA + s, 0)
             B(a, b, c, v) ==
               \E s \in 0..(FAN - 1) : a = 0 /\ b = 0 /\ c = s /\ v = BootMap[s]
  <2>2. \A n, a, b, c, v : Wanted(n, a, b, c, v) <=>
          B(a, b, c, v) \/ \E s \in 0..(L!Sections - 1) : s < n /\ F(s, a, b, c, v)
    BY DEF Wanted
  <2>3. \A a, b, c, v : F(done, a, b, c, v) <=> (a = i /\ b = j /\ c = k /\ v = w)
    BY <1>3, <1>6, Zenon
  <2> HIDE DEF F, B
  <2> QED BY <1>1, <2>1, <2>2, <2>3
<1>18. /\ done' \in 0..(L!Sections + 1) /\ free' \in 1..L!PAGING_PAGES
       /\ (done' <= L!Sections => free' >= L!PAGING_PAGES - 2 * done')
  BY <1>1, <1>2, <1>7, <1>12, Layout
<1>19. \A a, b, c, v : Section(tbl', a, b, c, v) <=> Wanted(done', a, b, c, v)
  BY <1>1, <1>13, <1>16, <1>17
<1> QED BY <1>16, <1>18, <1>19 DEF LInv

\* When all are mapped, nothing changes any more.
LEMMA MmStep == LInv /\ L!init_mm => LInv'
<1> SUFFICES ASSUME LInv, L!init_mm PROVE LInv'
  OBVIOUS
<1>1. done = L!Sections /\ done' = done + 1 /\ tbl' = tbl /\ free' = free
  BY DEF L!init_mm
<1>2. \A a, b, c, v : Wanted(done + 1, a, b, c, v) <=> Wanted(done, a, b, c, v)
  <2>1. \A s \in 0..(L!Sections - 1) : s < done + 1 /\ s < done
    BY <1>1, Layout
  <2> QED BY <2>1 DEF Wanted
<1>3. done' \in 0..(L!Sections + 1) /\ ~(done' <= L!Sections)
  BY <1>1, Layout
<1> QED BY <1>1, <1>2, <1>3 DEF LInv

\* Nothing else touches the tables.
LEMMA NextLInv == LInv /\ [Next]_vars => LInv'
<1> SUFFICES ASSUME LInv, [Next]_vars PROVE LInv'
  OBVIOUS
<1>1. CASE UNCHANGED lvars
  BY <1>1 DEF LInv, lvars
<1>2. CASE InitMm
  BY <1>2, MapStep, MmStep DEF InitMm
<1> QED BY <1>1, <1>2 DEF Next, vars, Cpu, TakeIrq, Mask, Count, Device, Machine

\* The invariant of the page tables, in every state.
LEMMA SpecLInv == Spec => []LInv
<1>1. Init => LInv
  BY InitLInv DEF Init
<1> QED BY <1>1, NextLInv, PTL DEF Spec

\* What the processor finds for an address, walking the tables.
LEMMA MappedIs ==
  ASSUME LInv, NEW s \in Nat
  PROVE /\ \A v : Section(tbl, L!Level(s, 2), L!Level(s, 1), L!Level(s, 0), v) =>
             L!Mapped(s) = v
        /\ (\A v : ~Section(tbl, L!Level(s, 2), L!Level(s, 1), L!Level(s, 0), v)) =>
             L!Mapped(s) = 0
<1>1. PICK i, j, k : i = L!Level(s, 2) /\ j = L!Level(s, 1) /\ k = L!Level(s, 0)
  OBVIOUS
<1> DEFINE e(x, l) == IF x = 0 THEN 0 ELSE IF L!Has(tbl, x, L!Level(s, l))
                                       THEN tbl[x][L!Level(s, l)] ELSE 0
           f(x, n) == IF x = 0 THEN 0 ELSE IF L!Has(tbl, x, n) THEN tbl[x][n] ELSE 0
<1>2. L!Mapped(s) = f(f(f(-1, i), j), k)
  <2>1. L!Mapped(s) = e(e(e(-1, 2), 1), 0)
    BY Zenon DEF L!Mapped
  <2>2. \A x : e(x, 2) = f(x, i) /\ e(x, 1) = f(x, j) /\ e(x, 0) = f(x, k)
    BY <1>1, Zenon
  <2> HIDE DEF e, f
  <2> QED BY <2>1, <2>2, Zenon
<1>3. \A x, n, v : x # 0 /\ Entry(tbl, x, n, v) => f(x, n) = v
  BY DEF Entry
<1>4. \A x, n : (\A v : ~Entry(tbl, x, n, v)) => f(x, n) = 0
  BY EntryUnique
<1>5. \A n : f(0, n) = 0
  OBVIOUS
<1>6. \A u : Pud(tbl, u) => u # 0
  BY DEF LInv, Tree, Handed
<1>7. \A m : Pmd(tbl, m) => m # 0
  BY DEF LInv, Tree, Handed
<1> HIDE DEF e, f
<1>8. ASSUME NEW v, Section(tbl, i, j, k, v) PROVE L!Mapped(s) = v
  <2>1. PICK u, m : Entry(tbl, -1, i, u) /\ Entry(tbl, u, j, m) /\ Entry(tbl, m, k, v)
    BY <1>8 DEF Section
  <2>2. u # 0 /\ m # 0
    BY <1>6, <1>7, <2>1 DEF Pud, Pmd
  <2> QED BY <1>2, <1>3, <2>1, <2>2
<1>9. ASSUME \A v : ~Section(tbl, i, j, k, v) PROVE L!Mapped(s) = 0
  <2>1. CASE \A u : ~Entry(tbl, -1, i, u)
    BY <1>2, <1>4, <1>5, <2>1
  <2>2. ASSUME NEW u, Entry(tbl, -1, i, u), \A m : ~Entry(tbl, u, j, m) PROVE L!Mapped(s) = 0
    BY <1>2, <1>3, <1>4, <1>5, <2>2
  <2>3. ASSUME NEW u, Entry(tbl, -1, i, u), NEW m, Entry(tbl, u, j, m) PROVE L!Mapped(s) = 0
    <3>1. u # 0 /\ m # 0
      BY <1>6, <1>7, <2>3 DEF Pud, Pmd
    <3>2. \A v : ~Entry(tbl, m, k, v)
      BY <1>9, <2>3 DEF Section
    <3>3. f(-1, i) = u /\ f(u, j) = m /\ f(m, k) = 0
      BY <1>3, <1>4, <2>3, <3>1, <3>2
    <3> QED BY <1>2, <3>3
  <2> QED BY <2>1, <2>2, <2>3
<1> QED BY <1>1, <1>8, <1>9

\* The memory stays mapped as start.S mapped it, and the flash is mapped as far
\* as map_kernel_sections has come.
LEMMA MappedInv ==
  ASSUME LInv
  PROVE /\ \A s \in 0..(FAN - 1) : L!Mapped(s) = BootMap[s]
        /\ \A s \in 0..(L!Sections - 1) : s < done => L!Mapped(PFLASH1_VA + s) = PFLASH1_PA + s
        /\ \A s \in 0..(L!Sections - 1) : ~(s < done) => L!Mapped(PFLASH1_VA + s) = 0
<1>1. done \in Nat
  BY Layout DEF LInv
<1>2. \A a, b, c, v : Section(tbl, a, b, c, v) <=> Wanted(done, a, b, c, v)
  BY DEF LInv
<1>3. ASSUME NEW s \in 0..(FAN - 1) PROVE L!Mapped(s) = BootMap[s]
  <2>1. Wanted(done, 0, 0, s, BootMap[s])
    BY DEF Wanted
  <2>2. Section(tbl, L!Level(s, 2), L!Level(s, 1), L!Level(s, 0), BootMap[s])
    BY <1>2, <2>1, LevelsLow, Zenon
  <2>3. s \in Nat
    BY Layout
  <2> QED BY <2>2, <2>3, MappedIs
<1>4. ASSUME NEW s \in 0..(L!Sections - 1) PROVE PFLASH1_VA + s \in Nat
  BY Layout
<1>5. ASSUME NEW s \in 0..(L!Sections - 1), s < done
      PROVE L!Mapped(PFLASH1_VA + s) = PFLASH1_PA + s
  <2>1. PICK a, v : a = PFLASH1_VA + s /\ v = PFLASH1_PA + s
    OBVIOUS
  <2>2. Wanted(done, L!Level(a, 2), L!Level(a, 1), L!Level(a, 0), v)
    BY <1>5, <2>1, Zenon DEF Wanted
  <2>3. a \in Nat
    BY <1>4, <2>1
  <2> QED BY <1>2, <2>1, <2>2, <2>3, MappedIs
<1>6. ASSUME NEW s \in 0..(L!Sections - 1), ~(s < done) PROVE L!Mapped(PFLASH1_VA + s) = 0
  <2>1. PICK a : a = PFLASH1_VA + s
    OBVIOUS
  <2>2. done <= s
    BY <1>1, <1>6, Layout
  <2>3. \A v : ~Wanted(done, L!Level(a, 2), L!Level(a, 1), L!Level(a, 0), v)
    BY <1>1, <2>1, <2>2, NotYet
  <2>4. a \in Nat
    BY <1>4, <2>1
  <2> QED BY <1>2, <2>1, <2>3, <2>4, MappedIs
<1> QED BY <1>3, <1>5, <1>6

\* KernelMapExact, for every layout of the memory: map_kernel_section leaves
\* the sections that start.S mapped and adds those of the flash one by one,
\* each at its address, in tables that are those of start.S or pages that
\* alloc_page handed out and no other table uses.
THEOREM MapExact == Spec => []KernelMapExact
<1>1. ASSUME LInv PROVE KernelMapExact
  <2>1. L!TypeOK
    <3>1. done \in 0..(L!Sections + 1) /\ free \in 0..L!PAGING_PAGES
      BY <1>1, Layout DEF LInv
    <3>2. DOMAIN tbl \subseteq {-1, -2, -3} \cup free..(L!PAGING_PAGES - 1)
      BY <1>1 DEF LInv, Tree, Handed
    <3> QED BY <3>1, <3>2 DEF L!TypeOK
  <2>2. L!KernelMapExact
    BY <1>1, MappedInv, Layout DEF L!KernelMapExact
  <2> QED BY <2>1, <2>2 DEF KernelMapExact
<1> QED BY <1>1, SpecLInv, PTL

\* Dividing by the size of a page, or of a section.
LEMMA DivExact ==
  ASSUME NEW n \in Nat, n >= 1, NEW q \in Nat, NEW r \in Nat, r < n
  PROVE (q * n + r) \div n = q
OBVIOUS

\* A quotient is rounded down.
LEMMA DivBounds ==
  ASSUME NEW n \in Nat, n >= 1, NEW a \in Nat
  PROVE /\ a \div n \in Nat /\ (a \div n) * n <= a
        /\ \A b \in Nat : a < b * n => a \div n < b
<1>1. a \div n \in Nat
  OBVIOUS
<1>2. (a \div n) * n <= a
  OBVIOUS
<1>3. ASSUME NEW b \in Nat, a < b * n PROVE a \div n < b
  BY <1>3
<1> QED BY <1>1, <1>2, <1>3

\* A multiple of the divisor is divided on its own.
LEMMA DivSum ==
  ASSUME NEW n \in Nat, n >= 1, NEW a \in Nat, NEW b \in Nat, b % n = 0
  PROVE (a + b) \div n = a \div n + b \div n
<1>1. PICK q, r : q = a \div n /\ r = a % n
  OBVIOUS
<1>2. PICK d, e : d = b \div n /\ e = b % n
  OBVIOUS
<1>3. q \in Nat /\ d \in Nat
  BY <1>1, <1>2
<1>4. r \in Nat /\ r < n
  BY <1>1
<1>5. a = n * q + r
  BY <1>1
<1>6. b = n * d + e
  BY <1>2
<1>7. e = 0
  BY <1>2
<1>8. a + b = (q + d) * n + r
  BY <1>3, <1>4, <1>5, <1>6, <1>7
<1>9. (a + b) \div n = q + d
  <2>1. q + d \in Nat
    BY <1>3
  <2> QED BY <1>4, <1>8, <2>1, DivExact
<1> QED BY <1>1, <1>2, <1>9

\* PageOfAddress, for every layout of the memory: once the flash is mapped,
\* free_page finds the page of every address that get_free_page may return,
\* and the kernel reaches that page where it is in memory.
THEOREM PageFound == Spec => []PageOfAddress
<1>1. ASSUME LInv PROVE PageOfAddress
  <2> SUFFICES ASSUME NEW p \in 0..(L!PAGING_PAGES - 1)
               PROVE  LET v == L!va(L!pfn_to_pa(p)) IN
                      /\ \A o \in {0, 1, PAGE_SIZE - 1} : L!pa_to_pfn(L!pa_of(v + o)) = p
                      /\ L!pa_to_pfn(L!pa_of(v + PAGE_SIZE)) = p + 1
                      /\ L!Mapped(v \div L!SECTION_SIZE) = L!pa_of(v) \div L!SECTION_SIZE
    BY DEF PageOfAddress, L!PageOfAddress
  <2>1. PICK v : v = L!va(L!pfn_to_pa(p))
    OBVIOUS
  <2>2. /\ PAGE_SIZE \in Nat /\ PAGE_SIZE > 1 /\ FAN \in Nat /\ FAN >= 1 /\ MEM_BASE \in Nat
        /\ IMAGE_OFFSET \in Nat /\ LOW_SIZE \in Nat /\ PAGING_MEMORY \in Nat
        /\ PAGING_MEMORY % PAGE_SIZE = 0 /\ MEM_BASE % L!SECTION_SIZE = 0
        /\ \A s \in 0..(FAN - 1) :
             s * L!SECTION_SIZE < IMAGE_OFFSET + LOW_SIZE + PAGING_MEMORY =>
               BootMap[s] = s + MEM_BASE \div L!SECTION_SIZE
        /\ IMAGE_OFFSET + LOW_SIZE + PAGING_MEMORY <= FAN * L!SECTION_SIZE
    BY BootAssumption DEF L!MemLayoutConstants
  <2>3. L!SECTION_SIZE \in Nat /\ L!SECTION_SIZE >= 1
    BY <2>2 DEF L!SECTION_SIZE
  <2>4. p \in Nat /\ p + 1 <= L!PAGING_PAGES
    BY Layout
  <2>5. v = p * PAGE_SIZE + IMAGE_OFFSET + LOW_SIZE
    BY <2>1, <2>2, <2>4 DEF L!va, L!pfn_to_pa, L!LOW_MEM, L!IMAGE_START
  <2>6. \A o \in Nat : L!pa_to_pfn(L!pa_of(v + o)) = (p * PAGE_SIZE + o) \div PAGE_SIZE
    <3>1. ASSUME NEW o \in Nat
          PROVE L!pa_of(v + o) - L!LOW_MEM = p * PAGE_SIZE + o
      BY <2>2, <2>4, <2>5 DEF L!pa_of, L!LOW_MEM, L!IMAGE_START
    <3> QED BY <3>1, Zenon DEF L!pa_to_pfn
  <2>7. ASSUME NEW o \in {0, 1, PAGE_SIZE - 1} PROVE L!pa_to_pfn(L!pa_of(v + o)) = p
    <3>1. o \in Nat /\ o \in 0..(PAGE_SIZE - 1)
      BY <2>2
    <3>2. PAGE_SIZE >= 1 /\ o < PAGE_SIZE
      BY <2>2, <3>1
    <3>3. (p * PAGE_SIZE + o) \div PAGE_SIZE = p
      BY <2>2, <2>4, <3>1, <3>2, DivExact
    <3> QED BY <2>6, <3>1, <3>3
  <2>8. L!pa_to_pfn(L!pa_of(v + PAGE_SIZE)) = p + 1
    <3>1. p * PAGE_SIZE + PAGE_SIZE = (p + 1) * PAGE_SIZE + 0
      BY <2>2, <2>4
    <3>2. p + 1 \in Nat /\ 0 \in Nat /\ 0 < PAGE_SIZE /\ PAGE_SIZE >= 1
      BY <2>2, <2>4
    <3>3. ((p + 1) * PAGE_SIZE + 0) \div PAGE_SIZE = p + 1
      <4>1. PICK q : q = p + 1
        OBVIOUS
      <4> QED BY <2>2, <3>2, <4>1, DivExact
    <3> QED BY <2>2, <2>6, <3>1, <3>3
  <2>9. L!Mapped(v \div L!SECTION_SIZE) = L!pa_of(v) \div L!SECTION_SIZE
    <3>1. PICK s, z : s = v \div L!SECTION_SIZE /\ z = L!SECTION_SIZE
      OBVIOUS
    <3>2. (p + 1) * PAGE_SIZE <= PAGING_MEMORY
      <4>1. (PAGING_MEMORY \div PAGE_SIZE) * PAGE_SIZE <= PAGING_MEMORY
            /\ PAGING_MEMORY \div PAGE_SIZE \in Nat
        <5>1. PAGE_SIZE >= 1
          BY <2>2
        <5> QED BY <2>2, <5>1, DivBounds
      <4> QED BY <2>2, <2>4, <4>1 DEF L!PAGING_PAGES
    <3>3. v \in Nat /\ v < IMAGE_OFFSET + LOW_SIZE + PAGING_MEMORY
      BY <2>2, <2>4, <2>5, <3>2
    <3>4. v < FAN * z
      BY <2>2, <2>3, <3>1, <3>3
    <3>5. s \in Nat /\ s * z <= v /\ s < FAN
      BY <2>2, <2>3, <3>1, <3>3, <3>4, DivBounds
    <3>6. s \in 0..(FAN - 1) /\ s * z < IMAGE_OFFSET + LOW_SIZE + PAGING_MEMORY
      BY <2>2, <2>3, <3>1, <3>3, <3>5
    <3>7. BootMap[s] = s + MEM_BASE \div z
      BY <2>2, <3>1, <3>6
    <3>8. (v + MEM_BASE) \div z = s + MEM_BASE \div z
      BY <2>2, <2>3, <3>1, <3>3, DivSum
    <3>9. L!Mapped(s) = BootMap[s]
      BY <1>1, <3>6, MappedInv
    <3> QED BY <3>1, <3>7, <3>8, <3>9, Zenon DEF L!pa_of
  <2> QED BY <2>1, <2>7, <2>8, <2>9
<1> QED BY <1>1, SpecLInv, PTL
=============================================================================
