---------------------------- MODULE ProcMemProofs ----------------------------
(***************************************************************************)
(* Proofs about ProcMem: the memory of processes, for any number of        *)
(* processes and pages, any size of a page and of a table, and any         *)
(* programs that fit.  kmalloc returns memory that was never used, which   *)
(* is what copy_process relies on (StaleMm is FALSE).                      *)
(***************************************************************************)
EXTENDS ProcMem, SequenceTheorems, FiniteSetTheorems, WellFoundedInduction, TLAPS

(***************************************************************************)
(* Arithmetic of addresses.                                                *)
(***************************************************************************)
\* The entry i of the table k of a level, among all entries of the level.
Kid(k, i) == FAN * k + i
Slots == 0..(FAN - 1)

\* Where an entry is in its level tells the table and the position.
LEMMA KidUnique ==
  ASSUME NEW k \in Nat, NEW i \in Slots, NEW j \in Nat, NEW h \in Slots
  PROVE Kid(k, i) \in Nat /\ (Kid(k, i) = Kid(j, h) => k = j /\ i = h)
<1>1. FAN \in Nat /\ FAN > 1
  BY ProcMemAssumption
<1>2. PICK x : x = FAN * k
  OBVIOUS
<1>3. PICK y : y = FAN * j
  OBVIOUS
<1>4. x \in Nat /\ y \in Nat
  BY <1>1, <1>2, <1>3
<1>5. Kid(k, i) \in Nat
  BY <1>1, <1>2, <1>4 DEF Kid, Slots
<1>6. k < j => x + FAN <= y
  <2> SUFFICES ASSUME k < j PROVE x + FAN <= y
    OBVIOUS
  <2>1. k + 1 <= j
    OBVIOUS
  <2>2. FAN * (k + 1) <= FAN * j
    BY <1>1, <2>1
  <2>3. FAN * (k + 1) = FAN * k + FAN
    BY <1>1
  <2> QED BY <2>2, <2>3, <1>1, <1>2, <1>3
<1>7. j < k => y + FAN <= x
  <2> SUFFICES ASSUME j < k PROVE y + FAN <= x
    OBVIOUS
  <2>1. j + 1 <= k
    OBVIOUS
  <2>2. FAN * (j + 1) <= FAN * k
    BY <1>1, <2>1
  <2>3. FAN * (j + 1) = FAN * j + FAN
    BY <1>1
  <2> QED BY <2>2, <2>3, <1>1, <1>2, <1>3
<1>8. ASSUME Kid(k, i) = Kid(j, h) PROVE k = j /\ i = h
  <2>1. x + i = y + h
    BY <1>2, <1>3, <1>8 DEF Kid
  <2>2. k = j
    BY <2>1, <1>1, <1>4, <1>6, <1>7 DEF Slots
  <2> QED BY <2>1, <2>2, <1>2, <1>3, <1>4, <1>1 DEF Slots
<1> QED BY <1>5, <1>8

\* Dividing by a product is dividing twice.
LEMMA DivTwice ==
  ASSUME NEW a \in Nat, NEW s \in Nat, s > 0, NEW n \in Nat, n > 0
  PROVE a \div (s * n) = (a \div s) \div n
<1>1. PICK q, r : q = a \div s /\ r = a % s
  OBVIOUS
<1>2. q \in Nat /\ r \in Nat /\ r < s /\ a = s * q + r
  BY <1>1
<1>3. PICK u, v : u = q \div n /\ v = q % n
  OBVIOUS
<1>4. u \in Nat /\ v \in Nat /\ v < n /\ q = n * u + v
  BY <1>2, <1>3
<1>5. PICK m : m = s * n
  OBVIOUS
<1>6. m \in Nat /\ m > 0
  BY <1>5
<1>7. s * q = m * u + s * v
  BY <1>4, <1>5
<1>8. s * v + s <= m
  <2>1. v + 1 <= n
    BY <1>4
  <2>2. s * (v + 1) <= s * n
    BY <2>1, <1>4
  <2> QED BY <2>2, <1>4, <1>5
<1>9. PICK w : w = s * v + r
  OBVIOUS
<1>10. PICK x : x = s * v
  OBVIOUS
<1>11. x \in Nat
  BY <1>10, <1>4
<1>12. w \in Nat /\ w < m
  BY <1>2, <1>8, <1>9, <1>10, <1>11, <1>6
<1>13. a = m * u + w
  <2>1. PICK y : y = m * u
    OBVIOUS
  <2>2. y \in Nat
    BY <2>1, <1>6, <1>4
  <2>3. PICK z : z = s * q
    OBVIOUS
  <2>4. z = y + x
    BY <1>7, <2>1, <2>3, <1>10
  <2> QED BY <1>2, <1>9, <1>10, <2>1, <2>2, <2>3, <2>4, <1>11
<1>14. a \div m = u
  BY <1>13, <1>12, <1>6, <1>4
<1> QED BY <1>14, <1>5, <1>3, <1>1

\* The table an address has on a level and its entry there are the address's
\* number on the level below.
LEMMA Levels ==
  ASSUME NEW a \in Nat, NEW l \in Nat, 1 <= l, l <= 4
  PROVE /\ Span(l) \in Nat \ {0} /\ Span(l - 1) \in Nat \ {0}
        /\ a \div Span(l) \in Nat /\ a \div Span(l - 1) \in Nat
        /\ Index(a, l - 1) \in Slots
        /\ a \div Span(l - 1) = Kid(a \div Span(l), Index(a, l - 1))
<1>1. FAN \in Nat /\ FAN > 1 /\ PAGE_SIZE \in Nat /\ PAGE_SIZE > 0
  BY ProcMemAssumption
<1>2. Span(0) = PAGE_SIZE /\ Span(1) = Span(0) * FAN /\ Span(2) = Span(1) * FAN
      /\ Span(3) = Span(2) * FAN /\ Span(4) = Span(3) * FAN
  BY <1>1 DEF Span
<1>3. Span(0) \in Nat /\ Span(0) > 0
  BY <1>1, <1>2
<1>4. Span(1) \in Nat /\ Span(1) > 0
  BY <1>1, <1>2, <1>3
<1>5. Span(2) \in Nat /\ Span(2) > 0
  BY <1>1, <1>2, <1>4
<1>6. Span(3) \in Nat /\ Span(3) > 0
  BY <1>1, <1>2, <1>5
<1>7. Span(4) \in Nat /\ Span(4) > 0
  BY <1>1, <1>2, <1>6
<1>8. PICK s : s = Span(l - 1)
  OBVIOUS
<1>9. PICK b : b = Span(l)
  OBVIOUS
<1>10. l = 1 \/ l = 2 \/ l = 3 \/ l = 4
  OBVIOUS
<1>11. b = s * FAN /\ s \in Nat /\ s > 0
  BY <1>10, <1>2, <1>3, <1>4, <1>5, <1>6, <1>8, <1>9
<1>12. b \in Nat /\ b > 0
  BY <1>11, <1>1
<1>13. PICK q : q = a \div s
  OBVIOUS
<1>14. q \in Nat /\ a \div b \in Nat
  BY <1>11, <1>12, <1>13
<1>15. a \div b = q \div FAN
  BY <1>11, <1>13, DivTwice, <1>1
<1>16. PICK u, v : u = q \div FAN /\ v = q % FAN
  OBVIOUS
<1>17. u \in Nat /\ v \in Nat /\ v < FAN /\ q = FAN * u + v
  BY <1>14, <1>1, <1>16
<1>18. Index(a, l - 1) = v
  BY <1>8, <1>13, <1>16 DEF Index
<1>19. v \in Slots
  BY <1>17, <1>1 DEF Slots
<1>20. q = Kid(u, v)
  BY <1>17 DEF Kid
<1>21. a \div b = u
  BY <1>15, <1>16
<1>22. Span(l) \in Nat \ {0} /\ Span(l - 1) \in Nat \ {0}
  BY <1>8, <1>9, <1>11, <1>12
<1>23. a \div Span(l) = u /\ a \div Span(l - 1) = q
  BY <1>8, <1>9, <1>13, <1>21
<1> QED BY <1>14, <1>17, <1>18, <1>19, <1>20, <1>22, <1>23

(***************************************************************************)
(* Choices: alloc_page and the first empty entry of a list.                *)
(***************************************************************************)
\* A set of natural numbers has a least member.
LEMMA Least ==
  ASSUME NEW T, T \subseteq Nat, T # {}
  PROVE \E x \in T : \A y \in T : x <= y
<1> DEFINE R == OpToRel(<, Nat)
<1>1. IsWellFoundedOn(R, Nat)
  BY NatLessThanWellFounded
<1>2. \A x, y \in Nat : <<y, x>> \in R <=> y < x
  BY DEF OpToRel
<1> HIDE DEF R
<1>3. PICK x \in T : \A y \in T : ~(<<y, x>> \in R)
  BY <1>1, WFMin
<1>4. \A y \in T : ~(y < x)
  BY <1>2, <1>3
<1> QED BY <1>4

\* The pages that are free.
FreePages(c) == {p \in Pages : c[p] = 0}

\* While a page is free, alloc_page finds one that is.
LEMMA AllocPage ==
  ASSUME NEW c, FreePages(c) # {}
  PROVE alloc_page(c) \in Pages /\ c[alloc_page(c)] = 0
<1>1. NP \in Nat
  BY ProcMemAssumption
<1>2. FreePages(c) \subseteq 1..NP
  BY DEF FreePages, Pages
<1> DEFINE T == {NP - p : p \in FreePages(c)}
<1>3. T \subseteq Nat /\ T # {}
  BY <1>1, <1>2
<1>4. PICK x \in T : \A y \in T : x <= y
  BY <1>3, Least
<1>5. PICK p \in FreePages(c) : x = NP - p
  BY <1>4
<1>6. \A r \in FreePages(c) : p >= r
  <2> TAKE r \in FreePages(c)
  <2>1. NP - r \in T
    OBVIOUS
  <2>2. NP - p <= NP - r
    BY <1>4, <1>5, <2>1
  <2> QED BY <2>2, <1>1, <1>2, <1>5
<1>7. Max(FreePages(c)) \in FreePages(c)
  BY <1>6 DEF Max
<1>8. alloc_page(c) = Max(FreePages(c))
  BY DEF alloc_page, FreePages
<1> QED BY <1>7, <1>8 DEF FreePages

\* The first empty entry of a list that is used up to m.
LEMMA FirstEmpty ==
  ASSUME NEW f, NEW n \in Nat, NEW m \in Nat, m < n, DOMAIN f = 1..n,
         \A i \in 1..n : f[i] # 0 <=> i <= m
  PROVE First(f) = m + 1
<1> DEFINE z == {i \in DOMAIN f : f[i] = 0}
<1>1. m + 1 \in z
  OBVIOUS
<1>2. \A y \in z : y \in Nat /\ m + 1 <= y
  OBVIOUS
<1> HIDE DEF z
<1>3. Min(z) \in z /\ \A y \in z : Min(z) <= y
  BY <1>1, <1>2 DEF Min
<1>4. Min(z) = m + 1
  BY <1>1, <1>2, <1>3
<1>5. First(f) = IF z = {} THEN 0 ELSE Min(z)
  BY DEF First, z
<1> QED BY <1>1, <1>4, <1>5

(***************************************************************************)
(* What copy_process maps.                                                 *)
(***************************************************************************)
\* The pages of an area that starts on a page.
LEMMA Area ==
  ASSUME NEW start \in Nat, NEW size \in Nat
  PROVE \E n \in Nat :
          /\ UserPages(start, size) \in Seq(Nat) /\ Len(UserPages(start, size)) = n
          /\ \A i \in 1..n : UserPages(start, size)[i] = start + (i - 1) * PAGE_SIZE
          /\ \A b \in Nat : b < size => b \div PAGE_SIZE < n
          /\ \A k \in Nat : k < n => k * PAGE_SIZE < size
<1>1. PAGE_SIZE \in Nat /\ PAGE_SIZE > 0
  BY ProcMemAssumption
<1>2. PICK q, r : q = size \div PAGE_SIZE /\ r = size % PAGE_SIZE
  OBVIOUS
<1>3. q \in Nat /\ r \in Nat /\ r < PAGE_SIZE /\ size = PAGE_SIZE * q + r
  BY <1>1, <1>2
<1>4. PICK n : n = IF r # 0 THEN q + 1 ELSE q
  OBVIOUS
<1>5. n \in Nat
  BY <1>3, <1>4
<1> DEFINE F == [i \in 1..n |-> start + (i - 1) * PAGE_SIZE]
<1>6. UserPages(start, size) = F
  BY <1>2, <1>4 DEF UserPages
<1>7. \A i \in 1..n : start + (i - 1) * PAGE_SIZE \in Nat
  <2> TAKE i \in 1..n
  <2>1. PICK x : x = i - 1
    OBVIOUS
  <2>2. x \in Nat
    BY <2>1, <1>5
  <2>3. x * PAGE_SIZE \in Nat
    BY <2>2, <1>1
  <2> QED BY <2>1, <2>3
<1>8. F \in [1..n -> Nat]
  BY <1>7
<1>9. F \in Seq(Nat) /\ Len(F) = n
  BY <1>8, <1>5
<1>10. \A b \in Nat : b < size => b \div PAGE_SIZE < n
  <2> TAKE b \in Nat
  <2> HAVE b < size
  <2>1. PICK u, v : u = b \div PAGE_SIZE /\ v = b % PAGE_SIZE
    OBVIOUS
  <2>2. u \in Nat /\ v \in Nat /\ v < PAGE_SIZE /\ b = PAGE_SIZE * u + v
    BY <1>1, <2>1
  <2>3. SUFFICES ASSUME u >= n PROVE FALSE
    BY <2>1, <2>2, <1>5
  <2>4. PAGE_SIZE * u >= PAGE_SIZE * n
    BY <2>3, <2>2, <1>1, <1>5
  <2>5. PAGE_SIZE * n >= size
    <3>1. CASE r # 0
      <4>1. PAGE_SIZE * (q + 1) = PAGE_SIZE * q + PAGE_SIZE
        BY <1>1, <1>3
      <4>2. PICK x : x = PAGE_SIZE * q
        OBVIOUS
      <4>3. x \in Nat
        BY <4>2, <1>1, <1>3
      <4> QED BY <4>1, <4>2, <4>3, <3>1, <1>3, <1>4, <1>1
    <3>2. CASE r = 0
      <4>2. PICK x : x = PAGE_SIZE * q
        OBVIOUS
      <4>3. x \in Nat
        BY <4>2, <1>1, <1>3
      <4> QED BY <4>2, <4>3, <3>2, <1>3, <1>4, <1>1
    <3> QED BY <3>1, <3>2
  <2>6. PICK x, y : x = PAGE_SIZE * u /\ y = PAGE_SIZE * n
    OBVIOUS
  <2>7. x \in Nat /\ y \in Nat
    BY <2>6, <2>2, <1>1, <1>5
  <2> QED BY <2>2, <2>4, <2>5, <2>6, <2>7
<1>11. \A k \in Nat : k < n => k * PAGE_SIZE < size
  <2> TAKE k \in Nat
  <2> HAVE k < n
  <2>1. PICK x, y : x = PAGE_SIZE * k /\ y = PAGE_SIZE * q
    OBVIOUS
  <2>2. x \in Nat /\ y \in Nat
    BY <2>1, <1>3, <1>1
  <2>3. x = k * PAGE_SIZE
    BY <2>1, <1>1
  <2>4. CASE r # 0
    <3>1. k <= q
      BY <2>4, <1>4, <1>3
    <3>2. x <= y
      BY <3>1, <2>1, <1>1, <1>3
    <3> QED BY <3>2, <2>1, <2>2, <2>3, <2>4, <1>3
  <2>5. CASE r = 0
    <3>1. k + 1 <= q
      BY <2>5, <1>4, <1>3
    <3>2. PAGE_SIZE * (k + 1) <= PAGE_SIZE * q
      BY <3>1, <1>1, <1>3
    <3>3. PAGE_SIZE * (k + 1) = PAGE_SIZE * k + PAGE_SIZE
      BY <1>1
    <3>4. x + PAGE_SIZE <= y
      BY <3>2, <3>3, <2>1
    <3> QED BY <3>4, <2>1, <2>2, <2>3, <2>5, <1>3, <1>1
  <2> QED BY <2>4, <2>5
<1>12. \A i \in 1..n : F[i] = start + (i - 1) * PAGE_SIZE
  OBVIOUS
<1> QED BY <1>5, <1>6, <1>9, <1>10, <1>11, <1>12

\* The stack is the last page below USER_MAX, and the program, n pages from
\* address 0, is below the stack.
MapShape(size, N, n) ==
  /\ N \in Nat /\ n \in Nat /\ n < N /\ USER_MAX = N * PAGE_SIZE
  /\ UserMap(size) \in Seq(Nat) /\ Len(UserMap(size)) = n + 1
  /\ UserMap(size)[1] \div PAGE_SIZE = N - 1
  /\ \A i \in 2..(n + 1) : UserMap(size)[i] \div PAGE_SIZE = i - 2
  /\ \A i \in 1..(n + 1) : UserMap(size)[i] < USER_MAX
  /\ \A b \in Nat : b < size => b \div PAGE_SIZE < n
  /\ \A k \in Nat : k < n => k * PAGE_SIZE < size

\* The map of a program that fits has this shape.
LEMMA MapOf ==
  ASSUME NEW size \in Sizes
  PROVE \E N, n \in Nat : MapShape(size, N, n)
<1>1. PAGE_SIZE \in Nat /\ PAGE_SIZE > 0 /\ USER_MAX \in Nat /\ USER_MAX % PAGE_SIZE = 0
  BY ProcMemAssumption
<1>2. size \in Nat /\ size <= USER_MAX - PAGE_SIZE
  BY ProcMemAssumption DEF USER_STACK_SZ
<1>3. PICK N : N = USER_MAX \div PAGE_SIZE
  OBVIOUS
<1>4. N \in Nat /\ USER_MAX = PAGE_SIZE * N
  BY <1>1, <1>3
<1>5. USER_MAX - PAGE_SIZE \in Nat
  BY <1>1, <1>2
<1>6. N >= 1
  <2>1. CASE N = 0
    BY <2>1, <1>4, <1>1, <1>5
  <2> QED BY <2>1, <1>4
<1> DEFINE top == USER_MAX - PAGE_SIZE
<1> DEFINE S == UserPages(top, PAGE_SIZE)
<1> DEFINE G == UserPages(0, size)
<1>7. PICK s \in Nat : /\ S \in Seq(Nat) /\ Len(S) = s
                       /\ \A i \in 1..s : S[i] = top + (i - 1) * PAGE_SIZE
                       /\ \A b \in Nat : b < PAGE_SIZE => b \div PAGE_SIZE < s
                       /\ \A k \in Nat : k < s => k * PAGE_SIZE < PAGE_SIZE
  BY <1>1, <1>5, Area
<1>8. s = 1
  <2>1. 0 \div PAGE_SIZE = 0
    BY <1>1
  <2>2. 0 < s
    BY <1>7, <2>1, <1>1
  <2>3. ~(1 < s)
    <3>1. SUFFICES ASSUME 1 < s PROVE FALSE
      OBVIOUS
    <3>2. 1 * PAGE_SIZE < PAGE_SIZE
      BY <3>1, <1>7
    <3> QED BY <3>2, <1>1
  <2> QED BY <2>2, <2>3, <1>7
<1>9. PICK n \in Nat : /\ G \in Seq(Nat) /\ Len(G) = n
                       /\ \A i \in 1..n : G[i] = 0 + (i - 1) * PAGE_SIZE
                       /\ \A b \in Nat : b < size => b \div PAGE_SIZE < n
                       /\ \A k \in Nat : k < n => k * PAGE_SIZE < size
  <2>1. 0 \in Nat
    OBVIOUS
  <2> QED BY <1>2, <2>1, Area, Zenon
<1>10. n < N
  <2>1. SUFFICES ASSUME n >= N PROVE FALSE
    BY <1>4, <1>9
  <2>2. N - 1 \in Nat /\ N - 1 < n
    BY <2>1, <1>6, <1>4
  <2>3. (N - 1) * PAGE_SIZE < size
    BY <2>2, <1>9
  <2>4. (N - 1) * PAGE_SIZE = PAGE_SIZE * N - PAGE_SIZE
    BY <1>1, <1>4
  <2>5. PICK x : x = (N - 1) * PAGE_SIZE
    OBVIOUS
  <2>6. x < size /\ x = USER_MAX - PAGE_SIZE
    BY <2>3, <2>4, <2>5, <1>4
  <2> QED BY <2>6, <1>2, <1>1
<1>11. S[1] = top
  BY <1>7, <1>8, <1>1
<1>12. top = PAGE_SIZE * (N - 1)
  BY <1>1, <1>4
<1>13. top \div PAGE_SIZE = N - 1
  <2>1. N - 1 \in Nat
    BY <1>4, <1>6
  <2>2. PICK m : m = N - 1
    OBVIOUS
  <2>3. (PAGE_SIZE * m) \div PAGE_SIZE = m
    BY <2>1, <2>2, <1>1
  <2> QED BY <2>2, <2>3, <1>12
<1>14. \A i \in 1..n : G[i] \div PAGE_SIZE = i - 1 /\ G[i] < top
  <2> TAKE i \in 1..n
  <2>1. PICK m : m = i - 1
    OBVIOUS
  <2>2. m \in Nat /\ m < n
    BY <2>1, <1>9
  <2>3. PICK x : x = m * PAGE_SIZE
    OBVIOUS
  <2>4. x \in Nat /\ x \div PAGE_SIZE = m
    BY <2>2, <2>3, <1>1
  <2>5. G[i] = x
    BY <1>9, <2>1, <2>3, <2>4
  <2>6. x < size
    BY <1>9, <2>2, <2>3
  <2> QED BY <2>1, <2>4, <2>5, <2>6, <1>2, <1>1
<1>15. UserMap(size) = S \o G
  BY DEF UserMap, USER_STACK_SZ
<1> HIDE DEF S, G
<1>16. /\ UserMap(size) \in Seq(Nat) /\ Len(UserMap(size)) = n + 1
       /\ \A i \in 1..(n + 1) : UserMap(size)[i] = IF i <= 1 THEN S[i] ELSE G[i - 1]
  <2>1. /\ S \o G \in Seq(Nat) /\ Len(S \o G) = Len(S) + Len(G)
        /\ \A i \in 1..(Len(S) + Len(G)) :
             (S \o G)[i] = IF i <= Len(S) THEN S[i] ELSE G[i - Len(S)]
    BY <1>7, <1>9, ConcatProperties
  <2>2. Len(S) = 1 /\ Len(G) = n /\ 1 + n = n + 1
    BY <1>7, <1>8, <1>9
  <2> QED BY <2>1, <2>2, <1>15
<1>17. UserMap(size)[1] = top
  BY <1>16, <1>11
<1>18. \A i \in 2..(n + 1) : UserMap(size)[i] \div PAGE_SIZE = i - 2 /\ UserMap(size)[i] < top
  <2> TAKE i \in 2..(n + 1)
  <2>1. i - 1 \in 1..n /\ ~(i <= 1) /\ i \in 1..(n + 1)
    BY <1>9
  <2>2. UserMap(size)[i] = G[i - 1]
    BY <2>1, <1>16
  <2>3. G[i - 1] \div PAGE_SIZE = i - 1 - 1 /\ G[i - 1] < top
    BY <2>1, <1>14
  <2>4. i - 1 - 1 = i - 2
    OBVIOUS
  <2> QED BY <2>2, <2>3, <2>4
<1>19. \A i \in 1..(n + 1) : UserMap(size)[i] < USER_MAX
  <2> TAKE i \in 1..(n + 1)
  <2>1. UserMap(size)[i] \in Nat
    BY <1>16
  <2>2. CASE i = 1
    BY <2>2, <1>17, <1>1
  <2>3. CASE i \in 2..(n + 1)
    BY <2>1, <2>3, <1>18, <1>1
  <2> QED BY <2>2, <2>3
<1>20. USER_MAX = N * PAGE_SIZE
  BY <1>4, <1>1
<1>21. UserMap(size)[1] \div PAGE_SIZE = N - 1
  BY <1>17, <1>13
<1>22. MapShape(size, N, n)
  BY <1>4, <1>9, <1>10, <1>16, <1>18, <1>19, <1>20, <1>21 DEF MapShape
<1> QED BY <1>22, <1>4, <1>9

\* The number, on a level, of the entry for the i-th page of the map.
Num(size, i, l) == UserMap(size)[i] \div Span(l)

\* The top of the tree: all user addresses are below one first table.
LEMMA TopLevel ==
  ASSUME NEW a \in Nat, a < USER_MAX
  PROVE a \div Span(4) = 0
<1>1. a < Span(4) /\ Span(4) \in Nat \ {0}
  BY Levels, ProcMemAssumption
<1>2. PICK s : s = Span(4)
  OBVIOUS
<1> QED BY <1>1, <1>2

\* The numbers of the pages of the map: different pages have different
\* numbers on level 0.
LEMMA MapNumbers ==
  ASSUME NEW size \in Sizes
  PROVE /\ UserMap(size) \in Seq(Nat) /\ Len(UserMap(size)) \in Nat \ {0}
        /\ Len(UserMap(size)) <= MAX_USER_PAGES
        /\ \A i \in 1..Len(UserMap(size)) :
             /\ UserMap(size)[i] \in Nat
             /\ \A l \in 0..4 : Num(size, i, l) \in Nat
             /\ Num(size, i, 4) = 0
             /\ \A l \in 0..3 : Index(UserMap(size)[i], l) \in Slots
             /\ \A l \in 0..3 : Num(size, i, l)
                                  = Kid(Num(size, i, l + 1), Index(UserMap(size)[i], l))
        /\ \A i, j \in 1..Len(UserMap(size)) : Num(size, i, 0) = Num(size, j, 0) => i = j
<1>1. PICK N, n \in Nat : MapShape(size, N, n)
  BY MapOf
<1>2. UserMap(size) \in Seq(Nat) /\ Len(UserMap(size)) = n + 1
  BY <1>1 DEF MapShape
<1>3. Len(UserMap(size)) <= MAX_USER_PAGES
  BY ProcMemAssumption
<1>4. ASSUME NEW i \in 1..(n + 1)
      PROVE /\ UserMap(size)[i] \in Nat
            /\ \A l \in 0..4 : Num(size, i, l) \in Nat
            /\ Num(size, i, 4) = 0
            /\ \A l \in 0..3 : Index(UserMap(size)[i], l) \in Slots
            /\ \A l \in 0..3 : Num(size, i, l)
                                 = Kid(Num(size, i, l + 1), Index(UserMap(size)[i], l))
  <2>1. PICK a : a = UserMap(size)[i]
    OBVIOUS
  <2>2. a \in Nat /\ a < USER_MAX
    BY <2>1, <1>1, <1>2 DEF MapShape
  <2>3. \A l \in 0..4 : Num(size, i, l) = a \div Span(l)
    BY <2>1 DEF Num
  <2>4. Num(size, i, 4) = 0
    BY <2>2, <2>3, TopLevel
  <2>5. ASSUME NEW l \in 0..3
        PROVE /\ Num(size, i, l) \in Nat /\ Index(a, l) \in Slots
              /\ Num(size, i, l) = Kid(Num(size, i, l + 1), Index(a, l))
    <3>1. l + 1 \in Nat /\ 1 <= l + 1 /\ l + 1 <= 4 /\ l + 1 - 1 = l
      OBVIOUS
    <3>2. /\ a \div Span(l) \in Nat /\ Index(a, l) \in Slots
          /\ a \div Span(l) = Kid(a \div Span(l + 1), Index(a, l))
      BY <3>1, <2>2, Levels
    <3>3. l \in 0..4 /\ l + 1 \in 0..4
      OBVIOUS
    <3> QED BY <3>2, <3>3, <2>3
  <2>6. \A l \in 0..4 : Num(size, i, l) \in Nat
    BY <2>4, <2>5
  <2> QED BY <2>1, <2>2, <2>4, <2>5, <2>6
<1>5. ASSUME NEW i \in 1..(n + 1), NEW j \in 1..(n + 1), Num(size, i, 0) = Num(size, j, 0)
      PROVE i = j
  <2>1. \A h \in 1..(n + 1) : Num(size, h, 0) = UserMap(size)[h] \div PAGE_SIZE
    BY DEF Num, Span
  <2>2. Num(size, 1, 0) = N - 1 /\ n < N
    BY <2>1, <1>1 DEF MapShape
  <2>3. \A h \in 2..(n + 1) : Num(size, h, 0) = h - 2
    BY <2>1, <1>1 DEF MapShape
  <2> QED BY <2>2, <2>3, <1>5, <1>1
<1>6. Len(UserMap(size)) \in Nat \ {0}
  BY <1>2
<1> QED BY <1>2, <1>3, <1>4, <1>5, <1>6

\* The tables of a program are finitely many.
LEMMA TablesFinite ==
  ASSUME NEW size \in Sizes
  PROVE /\ IsFiniteSet(TablesFor(size)) /\ Cardinality(TablesFor(size)) \in Nat
        /\ Cardinality(TablesFor(size)) <= MAX_PGTBL_PAGES
        /\ \A l \in 1..3, i \in 1..Len(UserMap(size)) : <<l, Num(size, i, l)>> \in TablesFor(size)
        /\ \A y \in TablesFor(size) :
             \E l \in 1..3, i \in 1..Len(UserMap(size)) : y = <<l, Num(size, i, l)>>
<1>1. PICK n : n = Len(UserMap(size))
  OBVIOUS
<1>2. n \in Nat /\ UserMap(size) \in Seq(Nat)
  BY <1>1, MapNumbers
<1>3. DOMAIN UserMap(size) = 1..n
  BY <1>1, <1>2
<1>4. TablesFor(size) = {<<l, Num(size, i, l)>> : l \in 1..3, i \in 1..n}
  BY <1>3 DEF TablesFor, Num
<1> DEFINE D == (1..3) \X (1..n)
<1> DEFINE f == [x \in D |-> <<x[1], Num(size, x[2], x[1])>>]
<1>5. IsFiniteSet(D)
  <2>1. 1 \in Int /\ 3 \in Int /\ n \in Int
    BY <1>2
  <2>2. IsFiniteSet(1..3)
    BY <2>1, FS_Interval, Zenon
  <2>3. IsFiniteSet(1..n)
    BY <2>1, FS_Interval, Zenon
  <2> QED BY <2>2, <2>3, FS_Product
<1>6. f \in Surjection(D, TablesFor(size))
  <2>1. f \in [D -> TablesFor(size)]
    BY <1>4
  <2>2. \A y \in TablesFor(size) : \E x \in D : f[x] = y
    <3> TAKE y \in TablesFor(size)
    <3>1. PICK l \in 1..3, i \in 1..n : y = <<l, Num(size, i, l)>>
      BY <1>4
    <3>2. <<l, i>> \in D /\ f[<<l, i>>] = y
      BY <3>1
    <3> QED BY <3>2
  <2> QED BY <2>1, <2>2 DEF Surjection
<1>7. IsFiniteSet(TablesFor(size))
  BY <1>5, <1>6, FS_Surjection
<1>8. Cardinality(TablesFor(size)) \in Nat
  BY <1>7, FS_CardinalityType
<1>9. Cardinality(TablesFor(size)) <= MAX_PGTBL_PAGES
  BY ProcMemAssumption
<1> QED BY <1>1, <1>4, <1>7, <1>8, <1>9

(***************************************************************************)
(* The pages as forest.  A node <<q, l, k>> is the place of a page of the  *)
(* process q: its task page (l = 5), its first table (4), the table k of a *)
(* level (3, 2, 1), or its user page k (0).  P gives each node its page.   *)
(***************************************************************************)
Val(P, x) == IF x \in DOMAIN P THEN P[x] ELSE 0

PageTypes(c, t) == c \in [Pages -> 0..1] /\ t \in [Pages -> [Slots -> 0..NP]]

\* Each node has a page of its own, and there are no other pages in use.
Placed(c, P) ==
  /\ \A x \in DOMAIN P : P[x] \in Pages /\ c[P[x]] = 1
  /\ \A x, y \in DOMAIN P : P[x] = P[y] => x = y
  /\ \A p \in Pages : c[p] # 0 => \E x \in DOMAIN P : P[x] = p

\* The entries of the tables of a process are the pages one level down, and
\* there is no page without the table above it.
Linked(t, P, A) ==
  /\ \A q \in A, l \in 1..4, k \in Nat, i \in Slots :
       <<q, l, k>> \in DOMAIN P => t[P[<<q, l, k>>]][i] = Val(P, <<q, l - 1, Kid(k, i)>>)
  /\ \A q \in A, l \in 1..4, k \in Nat, i \in Slots :
       <<q, l - 1, Kid(k, i)>> \in DOMAIN P => <<q, l, k>> \in DOMAIN P

Forest(c, t, P, A) == PageTypes(c, t) /\ Placed(c, P) /\ Linked(t, P, A)

\* P with one more node; what get_free_page makes of count and of the tables,
\* and a table with an entry filled in.
Ext(P, z, p) == [y \in DOMAIN P \cup {z} |-> IF y = z THEN p ELSE P[y]]
Taken(c, p) == [c EXCEPT ![p] = 1]
Cleared(t, p) == [t EXCEPT ![p] = empty]
Entered(t, x, i, p) == [t EXCEPT ![x] = [t[x] EXCEPT ![i] = p]]

\* Types after taking a page and after filling in an entry.
LEMMA TypesTaken ==
  ASSUME NEW c, NEW t, NEW p \in Pages, PageTypes(c, t)
  PROVE PageTypes(Taken(c, p), Cleared(t, p))
<1>1. empty \in [Slots -> 0..NP]
  BY ProcMemAssumption DEF empty, Slots
<1>2. Taken(c, p) \in [Pages -> 0..1]
  BY DEF PageTypes, Taken
<1>3. Cleared(t, p) \in [Pages -> [Slots -> 0..NP]]
  BY <1>1 DEF PageTypes, Cleared
<1> QED BY <1>2, <1>3 DEF PageTypes

\* Filling in an entry keeps the types.
LEMMA TypesEntered ==
  ASSUME NEW c, NEW t, NEW x \in Pages, NEW i \in Slots, NEW p \in Pages, PageTypes(c, t)
  PROVE PageTypes(c, Entered(t, x, i, p))
<1>1. t[x] \in [Slots -> 0..NP] /\ p \in 0..NP
  BY ProcMemAssumption DEF PageTypes, Pages
<1>2. [t[x] EXCEPT ![i] = p] \in [Slots -> 0..NP]
  BY <1>1
<1> QED BY <1>2 DEF PageTypes, Entered

\* A node that is new gets a page that was free.
LEMMA PlacedExt ==
  ASSUME NEW c, NEW P, NEW z, NEW p \in Pages, c \in [Pages -> 0..1], Placed(c, P),
         c[p] = 0, z \notin DOMAIN P
  PROVE Placed(Taken(c, p), Ext(P, z, p))
<1> DEFINE P2 == Ext(P, z, p)
<1> DEFINE c2 == Taken(c, p)
<1>1. DOMAIN P2 = DOMAIN P \cup {z} /\ P2[z] = p /\ \A y \in DOMAIN P : P2[y] = P[y]
  BY DEF Ext
<1>2. c2[p] = 1 /\ \A r \in Pages : r # p => c2[r] = c[r]
  BY DEF Taken
<1>3. \A y \in DOMAIN P : P[y] # p
  BY DEF Placed
<1> HIDE DEF P2, c2
<1>4. \A x \in DOMAIN P2 : P2[x] \in Pages /\ c2[P2[x]] = 1
  BY <1>1, <1>2, <1>3 DEF Placed
<1>5. \A x, y \in DOMAIN P2 : P2[x] = P2[y] => x = y
  BY <1>1, <1>3 DEF Placed
<1>6. \A r \in Pages : c2[r] # 0 => \E x \in DOMAIN P2 : P2[x] = r
  BY <1>1, <1>2 DEF Placed
<1> QED BY <1>4, <1>5, <1>6 DEF Placed, P2, c2

\* A table or a page is added below a table, which had no entry for it.
LEMMA Grow ==
  ASSUME NEW c, NEW t, NEW P, NEW A, NEW q \in A, NEW l \in 1..4, NEW k \in Nat,
         NEW i \in Slots, NEW p \in Pages, Forest(c, t, P, A), c[p] = 0,
         <<q, l, k>> \in DOMAIN P, <<q, l - 1, Kid(k, i)>> \notin DOMAIN P
  PROVE Forest(Taken(c, p), Entered(Cleared(t, p), P[<<q, l, k>>], i, p),
               Ext(P, <<q, l - 1, Kid(k, i)>>, p), A)
<1>1. PICK z : z = <<q, l - 1, Kid(k, i)>>
  OBVIOUS
<1>2. PICK x : x = <<q, l, k>>
  OBVIOUS
<1>3. PICK g : g = P[x]
  OBVIOUS
<1>4. g \in Pages /\ c[g] = 1 /\ g # p
  BY <1>2, <1>3 DEF Forest, Placed
<1> DEFINE P2 == Ext(P, z, p)
<1> DEFINE t1 == Cleared(t, p)
<1> DEFINE t2 == Entered(t1, g, i, p)
<1>5. Placed(Taken(c, p), P2)
  BY <1>1, PlacedExt DEF Forest, PageTypes
<1>6. PageTypes(Taken(c, p), t1)
  BY TypesTaken DEF Forest
<1>7. PageTypes(Taken(c, p), t2)
  BY <1>4, <1>6, TypesEntered
<1>8. DOMAIN P2 = DOMAIN P \cup {z} /\ P2[z] = p /\ \A y \in DOMAIN P : P2[y] = P[y]
  BY <1>1 DEF Ext
<1>9. \A y \in DOMAIN P : Val(P2, y) = Val(P, y)
  BY <1>8 DEF Val
<1>10. \A y : y # z => Val(P2, y) = Val(P, y)
  BY <1>8 DEF Val
<1>11. Val(P2, z) = p
  BY <1>8 DEF Val
<1>12. t1[p] = empty /\ \A r \in Pages : r # p => t1[r] = t[r]
  BY DEF Cleared, Forest, PageTypes
<1>13. t1[g] \in [Slots -> 0..NP]
  BY <1>6, <1>4 DEF PageTypes
<1>14. /\ t2[g][i] = p /\ \A h \in Slots : h # i => t2[g][h] = t[g][h]
       /\ t2[p] = empty /\ \A r \in Pages : r # p /\ r # g => t2[r] = t[r]
  <2>1. t1 \in [Pages -> [Slots -> 0..NP]]
    BY <1>6 DEF PageTypes
  <2>2. t2 = [t1 EXCEPT ![g] = [t1[g] EXCEPT ![i] = p]]
    BY DEF Entered
  <2> HIDE DEF t1, t2
  <2>3. t2[g] = [t1[g] EXCEPT ![i] = p]
    BY <2>1, <2>2, <1>4
  <2>4. t2[g][i] = p /\ \A h \in Slots : h # i => t2[g][h] = t1[g][h]
    BY <2>3, <1>13
  <2>5. \A r \in Pages : r # g => t2[r] = t1[r]
    BY <2>1, <2>2
  <2> QED BY <2>4, <2>5, <1>12, <1>4
<1> HIDE DEF P2, t1, t2
<1>15. ASSUME NEW r \in A, NEW m \in 1..4, NEW n \in Nat, NEW j \in Slots,
              <<r, m, n>> \in DOMAIN P2
       PROVE t2[P2[<<r, m, n>>]][j] = Val(P2, <<r, m - 1, Kid(n, j)>>)
  <2>1. CASE <<r, m, n>> = z
    <3>1. <<r, m - 1, Kid(n, j)>> \notin DOMAIN P
      BY <2>1, <1>1 DEF Forest, Linked
    <3>2. <<r, m - 1, Kid(n, j)>> # z
      BY <2>1
    <3>3. Val(P2, <<r, m - 1, Kid(n, j)>>) = 0
      BY <3>1, <3>2, <1>10 DEF Val
    <3>4. empty[j] = 0
      BY DEF empty, Slots
    <3> QED BY <3>3, <3>4, <2>1, <1>8, <1>14
  <2>2. CASE <<r, m, n>> = x
    <3>1. P2[<<r, m, n>>] = g /\ r = q /\ m = l /\ n = k
      BY <2>2, <1>2, <1>3, <1>8
    <3>2. CASE j = i
      BY <3>1, <3>2, <1>1, <1>11, <1>14
    <3>3. CASE j # i
      <4>1. <<r, m - 1, Kid(n, j)>> # z
        BY <3>1, <3>3, <1>1, KidUnique
      <4>2. t[g][j] = Val(P, <<r, m - 1, Kid(n, j)>>)
        BY <3>1, <1>2, <1>3 DEF Forest, Linked
      <4> QED BY <4>1, <4>2, <3>1, <3>3, <1>10, <1>14
    <3> QED BY <3>2, <3>3
  <2>3. CASE <<r, m, n>> # z /\ <<r, m, n>> # x
    <3>1. <<r, m, n>> \in DOMAIN P
      BY <2>3, <1>8, <1>15
    <3>2. P[<<r, m, n>>] \in Pages /\ P[<<r, m, n>>] # p /\ P[<<r, m, n>>] # g
      BY <2>3, <3>1, <1>2, <1>3 DEF Forest, Placed
    <3>3. <<r, m - 1, Kid(n, j)>> # z
      <4>1. SUFFICES ASSUME <<r, m - 1, Kid(n, j)>> = z PROVE FALSE
        OBVIOUS
      <4>2. r = q /\ m - 1 = l - 1 /\ Kid(n, j) = Kid(k, i)
        BY <4>1, <1>1
      <4>3. n = k /\ m = l
        BY <4>2, KidUnique
      <4> QED BY <4>2, <4>3, <2>3, <1>2
    <3>4. t[P[<<r, m, n>>]][j] = Val(P, <<r, m - 1, Kid(n, j)>>)
      BY <3>1 DEF Forest, Linked
    <3> QED BY <3>1, <3>2, <3>3, <3>4, <1>8, <1>10, <1>14
  <2> QED BY <2>1, <2>2, <2>3
<1>16. ASSUME NEW r \in A, NEW m \in 1..4, NEW n \in Nat, NEW j \in Slots,
              <<r, m - 1, Kid(n, j)>> \in DOMAIN P2
       PROVE <<r, m, n>> \in DOMAIN P2
  <2>1. CASE <<r, m - 1, Kid(n, j)>> = z
    <3>1. r = q /\ m - 1 = l - 1 /\ Kid(n, j) = Kid(k, i)
      BY <2>1, <1>1
    <3>2. n = k /\ m = l
      BY <3>1, KidUnique
    <3> QED BY <3>1, <3>2, <1>8
  <2>2. CASE <<r, m - 1, Kid(n, j)>> \in DOMAIN P
    BY <2>2, <1>8 DEF Forest, Linked
  <2> QED BY <2>1, <2>2, <1>16, <1>8
<1>17. Linked(t2, P2, A)
  BY <1>15, <1>16 DEF Linked
<1>18. Forest(Taken(c, p), t2, P2, A)
  BY <1>5, <1>7, <1>17 DEF Forest
<1> QED BY <1>18, <1>1, <1>2, <1>3 DEF P2, t1, t2

\* A process that has no tables gets its task page, or its first table.
LEMMA Plant ==
  ASSUME NEW c, NEW t, NEW P, NEW A, NEW q, NEW h \in {4, 5}, NEW p \in Pages,
         Forest(c, t, P, A), c[p] = 0,
         \A l \in 0..4, k \in Nat : <<q, l, k>> \notin DOMAIN P,
         <<q, h, 0>> \notin DOMAIN P
  PROVE Forest(Taken(c, p), Cleared(t, p), Ext(P, <<q, h, 0>>, p), A \cup {q})
<1>1. PICK z : z = <<q, h, 0>>
  OBVIOUS
<1> DEFINE P2 == Ext(P, z, p)
<1> DEFINE t2 == Cleared(t, p)
<1>2. Placed(Taken(c, p), P2)
  BY <1>1, PlacedExt DEF Forest, PageTypes
<1>3. PageTypes(Taken(c, p), t2)
  BY TypesTaken DEF Forest
<1>4. DOMAIN P2 = DOMAIN P \cup {z} /\ P2[z] = p /\ \A y \in DOMAIN P : P2[y] = P[y]
  BY <1>1 DEF Ext
<1>5. \A y : y # z => Val(P2, y) = Val(P, y)
  BY <1>4 DEF Val
<1>6. t2[p] = empty /\ \A r \in Pages : r # p => t2[r] = t[r]
  BY DEF Cleared, Forest, PageTypes
<1> HIDE DEF P2, t2
<1>7. ASSUME NEW r \in A \cup {q}, NEW m \in 1..4, NEW n \in Nat, NEW j \in Slots,
             <<r, m, n>> \in DOMAIN P2
      PROVE t2[P2[<<r, m, n>>]][j] = Val(P2, <<r, m - 1, Kid(n, j)>>)
  <2>1. <<r, m - 1, Kid(n, j)>> # z
    BY <1>1
  <2>2. CASE <<r, m, n>> = z
    <3>1. r = q /\ m - 1 \in 0..4 /\ Kid(n, j) \in Nat
      BY <2>2, <1>1, KidUnique
    <3>2. Val(P2, <<r, m - 1, Kid(n, j)>>) = 0
      BY <3>1, <2>1, <1>5 DEF Val
    <3>3. empty[j] = 0
      BY DEF empty, Slots
    <3> QED BY <3>2, <3>3, <2>2, <1>4, <1>6
  <2>3. CASE <<r, m, n>> # z
    <3>1. <<r, m, n>> \in DOMAIN P
      BY <2>3, <1>4, <1>7
    <3>2. r # q
      BY <3>1
    <3>3. P[<<r, m, n>>] \in Pages /\ P[<<r, m, n>>] # p
      BY <3>1 DEF Forest, Placed
    <3>4. t[P[<<r, m, n>>]][j] = Val(P, <<r, m - 1, Kid(n, j)>>)
      BY <3>1, <3>2 DEF Forest, Linked
    <3> QED BY <3>1, <3>3, <3>4, <2>1, <1>4, <1>5, <1>6
  <2> QED BY <2>2, <2>3
<1>8. ASSUME NEW r \in A \cup {q}, NEW m \in 1..4, NEW n \in Nat, NEW j \in Slots,
             <<r, m - 1, Kid(n, j)>> \in DOMAIN P2
      PROVE <<r, m, n>> \in DOMAIN P2
  <2>1. <<r, m - 1, Kid(n, j)>> # z
    BY <1>1
  <2>2. <<r, m - 1, Kid(n, j)>> \in DOMAIN P
    BY <2>1, <1>4, <1>8
  <2>3. m - 1 \in 0..4 /\ Kid(n, j) \in Nat
    BY KidUnique
  <2>4. r # q
    BY <2>2, <2>3
  <2> QED BY <2>2, <2>4, <1>4 DEF Forest, Linked
<1>9. Linked(t2, P2, A \cup {q})
  BY <1>7, <1>8 DEF Linked
<1>10. Forest(Taken(c, p), t2, P2, A \cup {q})
  BY <1>2, <1>3, <1>9 DEF Forest
<1> QED BY <1>10, <1>1 DEF P2, t2

\* What is left of the forest when a process is removed: of its own pages the
\* first table, which no one walks any more.
Kept(P, q) == {x \in DOMAIN P : ~\E l \in 0..5, k \in Nat : l # 4 /\ x = <<q, l, k>>}
Pruned(P, q) == [x \in Kept(P, q) |-> P[x]]

\* The pages of the removed process are free again, and no others.
LEMMA Prune ==
  ASSUME NEW c, NEW t, NEW P, NEW A, NEW q, NEW d, Forest(c, t, P, A),
         d \in [Pages -> 0..1],
         \A p \in Pages : (\E x \in DOMAIN P \ Kept(P, q) : P[x] = p) => d[p] = 0,
         \A p \in Pages : ~(\E x \in DOMAIN P \ Kept(P, q) : P[x] = p) => d[p] = c[p]
  PROVE Forest(d, t, Pruned(P, q), A \ {q})
<1> DEFINE P2 == Pruned(P, q)
<1>1. DOMAIN P2 = Kept(P, q) /\ \A y \in Kept(P, q) : P2[y] = P[y]
  BY DEF Pruned
<1>2. Kept(P, q) \subseteq DOMAIN P
  BY DEF Kept
<1>3. PageTypes(d, t)
  BY DEF Forest, PageTypes
<1> HIDE DEF P2
<1>4. ASSUME NEW x \in DOMAIN P2 PROVE P2[x] \in Pages /\ d[P2[x]] = 1
  <2>1. x \in DOMAIN P /\ P2[x] = P[x] /\ P[x] \in Pages /\ c[P[x]] = 1
    BY <1>1, <1>2 DEF Forest, Placed
  <2>2. ~\E y \in DOMAIN P \ Kept(P, q) : P[y] = P[x]
    BY <2>1, <1>1 DEF Forest, Placed
  <2> QED BY <2>1, <2>2
<1>5. \A x, y \in DOMAIN P2 : P2[x] = P2[y] => x = y
  BY <1>1, <1>2 DEF Forest, Placed
<1>6. ASSUME NEW p \in Pages, d[p] # 0 PROVE \E x \in DOMAIN P2 : P2[x] = p
  <2>1. ~\E y \in DOMAIN P \ Kept(P, q) : P[y] = p
    BY <1>6
  <2>2. c[p] # 0
    BY <2>1, <1>6
  <2>3. PICK x \in DOMAIN P : P[x] = p
    BY <2>2 DEF Forest, Placed
  <2> QED BY <2>1, <2>3, <1>1
<1>7. Placed(d, P2)
  BY <1>4, <1>5, <1>6 DEF Placed
<1>8. ASSUME NEW r \in A \ {q}, NEW l, NEW k
      PROVE /\ <<r, l, k>> \in DOMAIN P2 <=> <<r, l, k>> \in DOMAIN P
            /\ Val(P2, <<r, l, k>>) = Val(P, <<r, l, k>>)
  <2>1. \A m, n : <<r, l, k>> # <<q, m, n>>
    OBVIOUS
  <2>2. <<r, l, k>> \in DOMAIN P2 <=> <<r, l, k>> \in DOMAIN P
    BY <2>1, <1>1 DEF Kept
  <2> QED BY <2>2, <1>1 DEF Val
<1>9. ASSUME NEW r \in A \ {q}, NEW l \in 1..4, NEW k \in Nat, NEW i \in Slots,
             <<r, l, k>> \in DOMAIN P2
      PROVE t[P2[<<r, l, k>>]][i] = Val(P2, <<r, l - 1, Kid(k, i)>>)
  <2>1. <<r, l, k>> \in DOMAIN P /\ P2[<<r, l, k>>] = P[<<r, l, k>>]
    BY <1>1, <1>2, <1>9
  <2>2. t[P[<<r, l, k>>]][i] = Val(P, <<r, l - 1, Kid(k, i)>>)
    BY <2>1 DEF Forest, Linked
  <2> QED BY <2>1, <2>2, <1>8
<1>10. ASSUME NEW r \in A \ {q}, NEW l \in 1..4, NEW k \in Nat, NEW i \in Slots,
              <<r, l - 1, Kid(k, i)>> \in DOMAIN P2
       PROVE <<r, l, k>> \in DOMAIN P2
  <2>1. <<r, l - 1, Kid(k, i)>> \in DOMAIN P
    BY <1>8, <1>10
  <2>2. <<r, l, k>> \in DOMAIN P
    BY <2>1 DEF Forest, Linked
  <2> QED BY <2>2, <1>8
<1>11. Linked(t, P2, A \ {q})
  BY <1>9, <1>10 DEF Linked
<1> QED BY <1>3, <1>7, <1>11 DEF Forest, P2

(***************************************************************************)
(* What alloc_user_page works on.                                          *)
(***************************************************************************)
States == {"none", "new", "running", "zombie"}
Mems == [state : States, page : 0..NP, pgd : 0..NP, size : Nat,
         vma : [1..MAX_USER_PAGES -> 0..NP], pgtbl_page : [1..MAX_PGTBL_PAGES -> 0..NP]]
Works == [count : [Pages -> 0..1], tbl : [Pages -> [Slots -> 0..NP]], mm : Mems,
          new : 0..NP, idx : Nat]
\* The fields of what a step leaves.
IsW(s, c, t, m, n, x) ==
  s.count = c /\ s.tbl = t /\ s.mm = m /\ s.new = n /\ s.idx = x
WithTable(m, j, p) == [m EXCEPT !.pgtbl_page[j] = p]

\* get_free_page takes a page that is free and clears it.
LEMMA GetFreePage ==
  ASSUME NEW s \in Works, FreePages(s.count) # {}
  PROVE \E p \in Pages :
          /\ s.count[p] = 0 /\ get_free_page(s) \in Works
          /\ IsW(get_free_page(s), Taken(s.count, p), Cleared(s.tbl, p), s.mm, p, s.idx)
<1>1. PICK p : p = alloc_page(s.count)
  OBVIOUS
<1>2. p \in Pages /\ s.count[p] = 0
  BY <1>1, AllocPage
<1>3. PICK n : n = get_free_page(s)
  OBVIOUS
<1>4. n = [s EXCEPT !.count[p] = 1, !.tbl[p] = empty, !.new = p]
  BY <1>1, <1>3 DEF get_free_page
<1>5. IsW(n, Taken(s.count, p), Cleared(s.tbl, p), s.mm, p, s.idx)
  BY <1>4 DEF IsW, Works, Taken, Cleared
<1>6. PageTypes(Taken(s.count, p), Cleared(s.tbl, p)) /\ p \in 0..NP
  <2>1. PageTypes(s.count, s.tbl)
    BY DEF PageTypes, Works
  <2>2. PageTypes(Taken(s.count, p), Cleared(s.tbl, p))
    BY <1>2, <2>1, TypesTaken
  <2> QED BY <1>2, <2>2, ProcMemAssumption DEF Pages
<1>7. n \in Works
  BY <1>4, <1>5, <1>6 DEF IsW, Works, PageTypes
<1> QED BY <1>2, <1>3, <1>5, <1>7

\* An entry that is there stays.
LEMMA EnsuredOld ==
  ASSUME NEW s \in Works, NEW g, NEW i, s.tbl[g][i] # 0
  PROVE Ensured(s, g, i) \in Works /\ IsW(Ensured(s, g, i), s.count, s.tbl, s.mm, 0, s.idx)
BY ProcMemAssumption DEF Ensured, Works, IsW

\* An entry that is empty gets a page.
LEMMA EnsuredNew ==
  ASSUME NEW s \in Works, NEW g \in Pages, NEW i \in Slots, s.tbl[g][i] = 0,
         FreePages(s.count) # {}
  PROVE \E p \in Pages :
          /\ s.count[p] = 0 /\ Ensured(s, g, i) \in Works
          /\ IsW(Ensured(s, g, i), Taken(s.count, p), Entered(Cleared(s.tbl, p), g, i, p),
                 s.mm, p, s.idx)
<1>1. PICK p \in Pages :
          /\ s.count[p] = 0 /\ get_free_page(s) \in Works
          /\ IsW(get_free_page(s), Taken(s.count, p), Cleared(s.tbl, p), s.mm, p, s.idx)
  BY GetFreePage
<1>2. PICK n : n = get_free_page(s)
  OBVIOUS
<1>3. PICK r : r = Ensured(s, g, i)
  OBVIOUS
<1>4. r = [n EXCEPT !.tbl[g][i] = p]
  BY <1>1, <1>2, <1>3 DEF Ensured, IsW
<1>5. IsW(r, Taken(s.count, p), Entered(Cleared(s.tbl, p), g, i, p), s.mm, p, s.idx)
  BY <1>1, <1>2, <1>4 DEF IsW, Entered, Works
<1>6. PageTypes(Taken(s.count, p), Entered(Cleared(s.tbl, p), g, i, p))
  BY TypesTaken, TypesEntered DEF PageTypes, Works
<1>7. r \in Works
  BY <1>1, <1>2, <1>4, <1>5, <1>6 DEF IsW, Works, PageTypes
<1> QED BY <1>1, <1>3, <1>5, <1>7

\* A table that is there is not recorded again.
LEMMA EnsuredTableOld ==
  ASSUME NEW s \in Works, NEW g, NEW i, s.tbl[g][i] # 0
  PROVE /\ EnsuredTable(s, g, i) \in Works
        /\ IsW(EnsuredTable(s, g, i), s.count, s.tbl, s.mm, 0, s.idx)
<1>1. PICK n : n = Ensured(s, g, i)
  OBVIOUS
<1>2. n \in Works /\ IsW(n, s.count, s.tbl, s.mm, 0, s.idx)
  BY <1>1, EnsuredOld
<1>3. n.new = 0
  BY <1>2 DEF IsW
<1> QED BY <1>1, <1>2, <1>3 DEF EnsuredTable

\* A new table is recorded.
LEMMA EnsuredTableNew ==
  ASSUME NEW s \in Works, NEW g \in Pages, NEW i \in Slots, s.tbl[g][i] = 0,
         FreePages(s.count) # {}
  PROVE \E p \in Pages :
          /\ s.count[p] = 0 /\ EnsuredTable(s, g, i) \in Works
          /\ IsW(EnsuredTable(s, g, i), Taken(s.count, p),
                 Entered(Cleared(s.tbl, p), g, i, p), WithTable(s.mm, s.idx, p), p, s.idx + 1)
<1>1. PICK p \in Pages :
          /\ s.count[p] = 0 /\ Ensured(s, g, i) \in Works
          /\ IsW(Ensured(s, g, i), Taken(s.count, p), Entered(Cleared(s.tbl, p), g, i, p),
                 s.mm, p, s.idx)
  BY EnsuredNew
<1>2. PICK n : n = Ensured(s, g, i)
  OBVIOUS
<1>3. PICK r : r = EnsuredTable(s, g, i)
  OBVIOUS
<1>4. PICK c : c = Taken(s.count, p)
  OBVIOUS
<1>5. PICK t : t = Entered(Cleared(s.tbl, p), g, i, p)
  OBVIOUS
<1>6. n \in Works /\ IsW(n, c, t, s.mm, p, s.idx)
  BY <1>1, <1>2, <1>4, <1>5
<1>7. p # 0 /\ p \in 0..NP
  BY <1>1, ProcMemAssumption DEF Pages
<1>8. r = [n EXCEPT !.mm.pgtbl_page[s.idx] = p, !.idx = @ + 1]
  BY <1>2, <1>3, <1>6, <1>7 DEF EnsuredTable, IsW
<1>9. r.count = c /\ r.tbl = t /\ r.new = p
  BY <1>6, <1>8 DEF IsW, Works
<1>10. r.mm = WithTable(s.mm, s.idx, p)
  BY <1>6, <1>8 DEF IsW, Works, WithTable
<1>11. r.idx = s.idx + 1
  BY <1>6, <1>8 DEF IsW, Works
<1>12. WithTable(s.mm, s.idx, p) \in Mems
  <2>1. s.mm \in Mems
    BY DEF Works
  <2>2. PICK m, x : m = s.mm /\ x = s.idx
    OBVIOUS
  <2>3. [m.pgtbl_page EXCEPT ![x] = p] \in [1..MAX_PGTBL_PAGES -> 0..NP]
    BY <2>1, <2>2, <1>7 DEF Mems
  <2> QED BY <2>1, <2>2, <2>3 DEF Mems, WithTable
<1>13. r \in Works
  <2>1. DOMAIN r = {"count", "tbl", "mm", "new", "idx"}
    BY <1>6, <1>8 DEF Works
  <2>2. c \in [Pages -> 0..1] /\ t \in [Pages -> [Slots -> 0..NP]] /\ s.idx + 1 \in Nat
    BY <1>6 DEF Works, IsW
  <2> QED BY <1>6, <1>7, <1>8, <1>9, <1>10, <1>11, <1>12, <2>2 DEF Works
<1> QED BY <1>1, <1>3, <1>4, <1>5, <1>9, <1>10, <1>11, <1>13 DEF IsW

(***************************************************************************)
(* The lists, and the pages that are still needed.                         *)
(***************************************************************************)
\* The first m entries of pgtbl_page are the tables of q, each once.
Listed(g, P, q, m) ==
  /\ m \in Nat /\ m <= MAX_PGTBL_PAGES
  /\ \A i \in 1..MAX_PGTBL_PAGES : g[i] # 0 <=> i <= m
  /\ \A i, j \in 1..m : g[i] = g[j] => i = j
  /\ \A i \in 1..m : \E l \in 1..3, k \in Nat :
       <<q, l, k>> \in DOMAIN P /\ g[i] = P[<<q, l, k>>]
  /\ \A l \in 1..3, k \in Nat : <<q, l, k>> \in DOMAIN P => \E i \in 1..m : g[i] = P[<<q, l, k>>]

\* The tables a program has still to get.
Missing(P, q, size) == {y \in TablesFor(size) : <<q, y[1], y[2]>> \notin DOMAIN P}

\* There are pages for w user pages and for the missing tables, and room in
\* pgtbl_page for them.
Enough(c, P, q, size, w, m) ==
  /\ Cardinality(FreePages(c)) >= w + Cardinality(Missing(P, q, size))
  /\ m + Cardinality(Missing(P, q, size)) <= MAX_PGTBL_PAGES

Mid(s, P, A, q, size, w, m) ==
  /\ s \in Works /\ Forest(s.count, s.tbl, P, A) /\ Listed(s.mm.pgtbl_page, P, q, m)
  /\ m < MAX_PGTBL_PAGES => s.idx = m + 1
  /\ Enough(s.count, P, q, size, w, m)

\* P2 has the node z more than P, if P did not have it.
Grew(P, P2, z) ==
  DOMAIN P2 = DOMAIN P \cup {z} /\ \A y \in DOMAIN P : P2[y] = P[y]

\* A new table at the end of the list.
LEMMA ListedMore ==
  ASSUME NEW g, NEW P, NEW q, NEW m, NEW l \in 1..3, NEW k \in Nat, NEW p \in Pages,
         g \in [1..MAX_PGTBL_PAGES -> 0..NP], Listed(g, P, q, m), m < MAX_PGTBL_PAGES,
         <<q, l, k>> \notin DOMAIN P, \A x \in DOMAIN P : P[x] # p
  PROVE Listed([g EXCEPT ![m + 1] = p], Ext(P, <<q, l, k>>, p), q, m + 1)
<1>1. m \in Nat /\ MAX_PGTBL_PAGES \in Nat /\ p # 0
  BY ProcMemAssumption DEF Listed, Pages
<1>2. PICK z : z = <<q, l, k>>
  OBVIOUS
<1> DEFINE P2 == Ext(P, z, p)
<1> DEFINE h == [g EXCEPT ![m + 1] = p]
<1>3. DOMAIN P2 = DOMAIN P \cup {z} /\ P2[z] = p /\ \A y \in DOMAIN P : P2[y] = P[y]
  BY <1>2 DEF Ext
<1>4. m + 1 \in 1..MAX_PGTBL_PAGES
  BY <1>1
<1>5. h[m + 1] = p /\ \A i \in 1..MAX_PGTBL_PAGES : i # m + 1 => h[i] = g[i]
  BY <1>4
<1> HIDE DEF P2, h
<1>6. \A i \in 1..MAX_PGTBL_PAGES : h[i] # 0 <=> i <= m + 1
  BY <1>1, <1>5 DEF Listed
<1>7. \A i \in 1..m : /\ h[i] = g[i] /\ h[i] # p
                      /\ \E a \in 1..3, b \in Nat :
                           <<q, a, b>> \in DOMAIN P /\ g[i] = P[<<q, a, b>>]
  <2> TAKE i \in 1..m
  <2>1. i \in 1..MAX_PGTBL_PAGES /\ i # m + 1
    BY <1>1
  <2>2. PICK a \in 1..3, b \in Nat : <<q, a, b>> \in DOMAIN P /\ g[i] = P[<<q, a, b>>]
    BY DEF Listed
  <2>3. h[i] = g[i] /\ h[i] # p
    BY <2>1, <2>2, <1>5
  <2> QED BY <2>2, <2>3
<1>8. ASSUME NEW i \in 1..(m + 1), NEW j \in 1..(m + 1), h[i] = h[j] PROVE i = j
  <2>1. CASE i = m + 1 /\ j = m + 1
    BY <2>1
  <2>2. CASE i \in 1..m /\ j \in 1..m
    BY <2>2, <1>7, <1>8 DEF Listed
  <2>3. CASE i = m + 1 /\ j \in 1..m
    BY <2>3, <1>5, <1>7, <1>8
  <2>4. CASE j = m + 1 /\ i \in 1..m
    BY <2>4, <1>5, <1>7, <1>8
  <2> QED BY <2>1, <2>2, <2>3, <2>4, <1>1
<1>9. ASSUME NEW i \in 1..(m + 1)
      PROVE \E a \in 1..3, b \in Nat : <<q, a, b>> \in DOMAIN P2 /\ h[i] = P2[<<q, a, b>>]
  <2>1. CASE i = m + 1
    BY <2>1, <1>2, <1>3, <1>5
  <2>2. CASE i \in 1..m
    <3>1. PICK a \in 1..3, b \in Nat : <<q, a, b>> \in DOMAIN P /\ g[i] = P[<<q, a, b>>]
      BY <2>2, <1>7
    <3> QED BY <3>1, <2>2, <1>3, <1>7
  <2>3. i = m + 1 \/ i \in 1..m
    BY <1>1
  <2> QED BY <2>1, <2>2, <2>3
<1>10. ASSUME NEW a \in 1..3, NEW b \in Nat, <<q, a, b>> \in DOMAIN P2
       PROVE \E i \in 1..(m + 1) : h[i] = P2[<<q, a, b>>]
  <2>1. CASE <<q, a, b>> = z
    <3>1. m + 1 \in 1..(m + 1)
      BY <1>1
    <3> QED BY <3>1, <2>1, <1>3, <1>5
  <2>2. CASE <<q, a, b>> # z
    <3>1. <<q, a, b>> \in DOMAIN P
      BY <2>2, <1>3, <1>10
    <3>2. PICK i \in 1..m : g[i] = P[<<q, a, b>>]
      BY <3>1 DEF Listed
    <3>3. i \in 1..(m + 1)
      BY <1>1
    <3> QED BY <3>1, <3>2, <3>3, <1>3, <1>7
  <2> QED BY <2>1, <2>2
<1>11. m + 1 \in Nat /\ m + 1 <= MAX_PGTBL_PAGES
  BY <1>1
<1>12. Listed(h, P2, q, m + 1)
  BY <1>6, <1>8, <1>9, <1>10, <1>11 DEF Listed
<1> QED BY <1>12, <1>2 DEF h, P2

\* The list of the tables of q is about no other nodes.
LEMMA ListedSame ==
  ASSUME NEW g, NEW P, NEW P2, NEW q, NEW m, Listed(g, P, q, m),
         \A l \in 1..3, k \in Nat : <<q, l, k>> \in DOMAIN P2 <=> <<q, l, k>> \in DOMAIN P,
         \A l \in 1..3, k \in Nat : <<q, l, k>> \in DOMAIN P => P2[<<q, l, k>>] = P[<<q, l, k>>]
  PROVE Listed(g, P2, q, m)
<1>1. \A i \in 1..m : \E l \in 1..3, k \in Nat :
        <<q, l, k>> \in DOMAIN P2 /\ g[i] = P2[<<q, l, k>>]
  <2> TAKE i \in 1..m
  <2>1. PICK l \in 1..3, k \in Nat : <<q, l, k>> \in DOMAIN P /\ g[i] = P[<<q, l, k>>]
    BY DEF Listed
  <2> QED BY <2>1
<1>2. \A l \in 1..3, k \in Nat : <<q, l, k>> \in DOMAIN P2 => \E i \in 1..m : g[i] = P2[<<q, l, k>>]
  BY DEF Listed
<1> QED BY <1>1, <1>2 DEF Listed

\* Counting free pages and missing tables.
LEMMA FreeFinite ==
  ASSUME NEW c
  PROVE IsFiniteSet(FreePages(c)) /\ Cardinality(FreePages(c)) \in Nat
<1>1. 1 \in Int /\ NP \in Int
  BY ProcMemAssumption
<1>2. IsFiniteSet(1..NP)
  BY <1>1, FS_Interval, Zenon
<1>3. FreePages(c) \in SUBSET (1..NP)
  BY DEF FreePages, Pages
<1>4. IsFiniteSet(FreePages(c))
  BY <1>2, <1>3, FS_Subset
<1> QED BY <1>4, FS_CardinalityType

\* Taking a page leaves one page less.
LEMMA FreeTaken ==
  ASSUME NEW c \in [Pages -> 0..1], NEW p \in Pages, c[p] = 0
  PROVE Cardinality(FreePages(Taken(c, p))) = Cardinality(FreePages(c)) - 1
<1>1. FreePages(Taken(c, p)) = FreePages(c) \ {p}
  BY DEF FreePages, Taken
<1>2. p \in FreePages(c)
  BY DEF FreePages
<1> QED BY <1>1, <1>2, FreeFinite, FS_RemoveElement

\* The missing tables are finitely many.
LEMMA MissingFinite ==
  ASSUME NEW size \in Sizes, NEW P, NEW q
  PROVE IsFiniteSet(Missing(P, q, size)) /\ Cardinality(Missing(P, q, size)) \in Nat
<1>1. Missing(P, q, size) \in SUBSET TablesFor(size)
  BY DEF Missing
<1>2. IsFiniteSet(Missing(P, q, size))
  BY <1>1, TablesFinite, FS_Subset
<1> QED BY <1>2, FS_CardinalityType

\* A table that is no longer missing.
LEMMA MissingLess ==
  ASSUME NEW size \in Sizes, NEW P, NEW P2, NEW q, NEW l, NEW k,
         <<l, k>> \in TablesFor(size), <<q, l, k>> \notin DOMAIN P, Grew(P, P2, <<q, l, k>>)
  PROVE /\ Cardinality(Missing(P2, q, size)) = Cardinality(Missing(P, q, size)) - 1
        /\ Cardinality(Missing(P, q, size)) >= 1
<1>1. Missing(P2, q, size) = Missing(P, q, size) \ {<<l, k>>}
  <2>1. \A y \in TablesFor(size) : \E a, b : y = <<a, b>>
    BY TablesFinite
  <2> QED BY <2>1 DEF Missing, Grew
<1>2. <<l, k>> \in Missing(P, q, size)
  BY DEF Missing
<1>3. Cardinality(Missing(P2, q, size)) = Cardinality(Missing(P, q, size)) - 1
  <2>1. PICK M, x : M = Missing(P, q, size) /\ x = <<l, k>>
    OBVIOUS
  <2>2. IsFiniteSet(M) /\ x \in M
    BY <2>1, <1>2, MissingFinite
  <2>3. Cardinality(M \ {x}) = Cardinality(M) - 1
    BY <2>2, FS_RemoveElement
  <2> QED BY <2>1, <2>3, <1>1
<1>4. Cardinality(Missing(P2, q, size)) \in Nat /\ Cardinality(Missing(P, q, size)) \in Nat
  BY MissingFinite
<1> QED BY <1>3, <1>4

(***************************************************************************)
(* The steps of alloc_user_page.                                           *)
(***************************************************************************)
\* The rest of the mm is left alone.
SameMm(m, n) ==
  n.state = m.state /\ n.page = m.page /\ n.pgd = m.pgd /\ n.size = m.size /\ n.vma = m.vma

\* While tables or pages are needed, a page is free.
LEMMA SomeFree ==
  ASSUME NEW c, Cardinality(FreePages(c)) >= 1
  PROVE FreePages(c) # {}
<1>1. SUFFICES ASSUME FreePages(c) = {} PROVE FALSE
  OBVIOUS
<1> QED BY <1>1, FS_EmptySet

\* The node below an entry is there exactly if the entry is not empty.
LEMMA EntryNode ==
  ASSUME NEW c, NEW t, NEW P, NEW A, NEW q \in A, NEW l \in 1..4, NEW k \in Nat,
         NEW i \in Slots, Forest(c, t, P, A), <<q, l, k>> \in DOMAIN P
  PROVE /\ P[<<q, l, k>>] \in Pages
        /\ t[P[<<q, l, k>>]][i] # 0 <=> <<q, l - 1, Kid(k, i)>> \in DOMAIN P
        /\ t[P[<<q, l, k>>]][i] # 0 => t[P[<<q, l, k>>]][i] = P[<<q, l - 1, Kid(k, i)>>]
<1>1. t[P[<<q, l, k>>]][i] = Val(P, <<q, l - 1, Kid(k, i)>>)
  BY DEF Forest, Linked
<1>2. \A x \in DOMAIN P : P[x] \in Pages /\ P[x] # 0
  BY ProcMemAssumption DEF Forest, Placed, Pages
<1> QED BY <1>1, <1>2 DEF Val

\* One step of alloc_user_page: from the table g, which is the table k of the
\* level l, through its entry i to the page j of the level h below; and what
\* it leaves.
StepHyp(s, P, A, q, size, w, m, l, k, i, h, j, g) ==
  /\ q \in A /\ size \in Sizes /\ w \in Nat /\ m \in Nat /\ Mid(s, P, A, q, size, w, m)
  /\ k \in Nat /\ i \in Slots /\ h = l - 1 /\ j = Kid(k, i)
  /\ <<q, l, k>> \in DOMAIN P /\ g = P[<<q, l, k>>]
StepRes(s, P, A, q, size, w, i, h, j, g, n, P2, m2) ==
  /\ m2 \in Nat /\ Mid(n, P2, A, q, size, w, m2) /\ Grew(P, P2, <<q, h, j>>)
  /\ n.tbl[g][i] = P2[<<q, h, j>>] /\ SameMm(s.mm, n.mm)

\* A step of alloc_user_page down to a table.
LEMMA TableStep ==
  ASSUME NEW s, NEW P, NEW A, NEW q, NEW size, NEW w, NEW m, NEW l \in 2..4, NEW k, NEW i,
         NEW h, NEW j, NEW g, StepHyp(s, P, A, q, size, w, m, l, k, i, h, j, g),
         <<h, j>> \in TablesFor(size)
  PROVE \E P2, m2 : StepRes(s, P, A, q, size, w, i, h, j, g, EnsuredTable(s, g, i), P2, m2)
<1> /\ q \in A /\ size \in Sizes /\ w \in Nat /\ m \in Nat /\ Mid(s, P, A, q, size, w, m)
    /\ k \in Nat /\ i \in Slots /\ <<q, l, k>> \in DOMAIN P /\ g = P[<<q, l, k>>]
    /\ <<l - 1, Kid(k, i)>> \in TablesFor(size)
  BY DEF StepHyp
<1>1. PICK n : n = EnsuredTable(s, g, i)
  OBVIOUS
<1>2. PICK z : z = <<q, l - 1, Kid(k, i)>>
  OBVIOUS
<1>8. z = <<q, h, j>>
  BY <1>2 DEF StepHyp
<1>3. l \in 1..4 /\ l - 1 \in 1..3
  OBVIOUS
<1>4. s \in Works /\ Forest(s.count, s.tbl, P, A)
  BY DEF Mid
<1>5. /\ g \in Pages
      /\ s.tbl[g][i] # 0 <=> z \in DOMAIN P
      /\ s.tbl[g][i] # 0 => s.tbl[g][i] = P[z]
  BY <1>2, <1>3, <1>4, EntryNode
<1>6. CASE z \in DOMAIN P
  <2>1. n \in Works /\ IsW(n, s.count, s.tbl, s.mm, 0, s.idx)
    BY <1>1, <1>4, <1>5, <1>6, EnsuredTableOld
  <2>2. Mid(n, P, A, q, size, w, m)
    BY <2>1 DEF Mid, IsW
  <2>3. Grew(P, P, z)
    BY <1>6 DEF Grew
  <2>4. n.tbl[g][i] = P[z]
    BY <2>1, <1>5, <1>6 DEF IsW
  <2>5. SameMm(s.mm, n.mm)
    BY <2>1 DEF IsW, SameMm
  <2> QED BY <2>2, <2>3, <2>4, <2>5, <1>1, <1>8 DEF StepRes
<1>7. CASE z \notin DOMAIN P
  <2>1. Cardinality(Missing(P, q, size)) \in Nat /\ Cardinality(Missing(P, q, size)) >= 1
    <3>1. <<l - 1, Kid(k, i)>> \in Missing(P, q, size)
      BY <1>7, <1>2 DEF Missing
    <3>2. Missing(P, q, size) # {}
      BY <3>1
    <3>3. Cardinality(Missing(P, q, size)) # 0
      BY <3>2, MissingFinite, FS_EmptySet
    <3> QED BY <3>3, MissingFinite
  <2>2. Cardinality(FreePages(s.count)) >= 1 /\ m < MAX_PGTBL_PAGES
    <3>1. PICK x, y : /\ x = Cardinality(FreePages(s.count))
                      /\ y = Cardinality(Missing(P, q, size))
      OBVIOUS
    <3>2. x >= w + y /\ m + y <= MAX_PGTBL_PAGES
      BY <3>1 DEF Mid, Enough
    <3>3. x \in Nat /\ y \in Nat /\ y >= 1
      BY <3>1, <2>1, FreeFinite
    <3>4. MAX_PGTBL_PAGES \in Nat
      BY ProcMemAssumption
    <3>5. x >= 1 /\ m < MAX_PGTBL_PAGES
      BY <3>2, <3>3, <3>4
    <3> QED BY <3>1, <3>5
  <2>3. PICK p \in Pages :
          /\ s.count[p] = 0 /\ n \in Works
          /\ IsW(n, Taken(s.count, p), Entered(Cleared(s.tbl, p), g, i, p),
                 WithTable(s.mm, s.idx, p), p, s.idx + 1)
    BY <2>2, <1>1, <1>4, <1>5, <1>7, SomeFree, EnsuredTableNew
  <2>4. PICK P2 : P2 = Ext(P, z, p)
    OBVIOUS
  <2>5. Grew(P, P2, z) /\ P2[z] = p
    BY <2>4, <1>7 DEF Grew, Ext
  <2>6. Forest(n.count, n.tbl, P2, A)
    BY <2>3, <2>4, <1>2, <1>3, <1>4, <1>7, Grow DEF IsW
  <2>7. s.idx = m + 1
    BY <2>2 DEF Mid
  <2>8. PICK f : f = s.mm.pgtbl_page
    OBVIOUS
  <2>9. f \in [1..MAX_PGTBL_PAGES -> 0..NP] /\ Listed(f, P, q, m)
    BY <2>8, <1>4 DEF Mid, Works, Mems
  <2>10. \A x \in DOMAIN P : P[x] # p
    BY <2>3, <1>4 DEF Forest, Placed
  <2>11. Kid(k, i) \in Nat
    BY KidUnique
  <2>12. Listed([f EXCEPT ![m + 1] = p], P2, q, m + 1)
    BY <2>2, <2>3, <2>4, <2>9, <2>10, <2>11, <1>2, <1>3, <1>7, ListedMore
  <2>13. n.mm.pgtbl_page = [f EXCEPT ![m + 1] = p] /\ SameMm(s.mm, n.mm)
    <3>1. n.mm = WithTable(s.mm, m + 1, p) /\ s.mm \in Mems
      BY <2>3, <2>7, <1>4 DEF IsW, Works
    <3> QED BY <3>1, <2>8 DEF WithTable, Mems, SameMm
  <2>14. n.idx = m + 1 + 1
    BY <2>3, <2>7 DEF IsW
  <2>15. Enough(n.count, P2, q, size, w, m + 1)
    <3>1. Cardinality(FreePages(n.count)) = Cardinality(FreePages(s.count)) - 1
      BY <2>3, <1>4, FreeTaken DEF IsW, Works
    <3>2. Cardinality(Missing(P2, q, size)) = Cardinality(Missing(P, q, size)) - 1
      BY <2>5, <1>2, <1>7, MissingLess
    <3>3. Cardinality(FreePages(s.count)) >= w + Cardinality(Missing(P, q, size))
          /\ m + Cardinality(Missing(P, q, size)) <= MAX_PGTBL_PAGES
      BY DEF Mid, Enough
    <3>4. Cardinality(FreePages(s.count)) \in Nat
      BY FreeFinite
    <3>5. PICK x, y : /\ x = Cardinality(FreePages(s.count))
                      /\ y = Cardinality(Missing(P, q, size))
      OBVIOUS
    <3>6. x \in Nat /\ y \in Nat /\ x >= w + y /\ m + y <= MAX_PGTBL_PAGES
      BY <3>3, <3>4, <3>5, <2>1
    <3>7. MAX_PGTBL_PAGES \in Nat
      BY ProcMemAssumption
    <3>8. x - 1 >= w + (y - 1) /\ m + 1 + (y - 1) <= MAX_PGTBL_PAGES
      BY <3>6, <3>7
    <3> QED BY <3>1, <3>2, <3>5, <3>8 DEF Enough
  <2>16. Mid(n, P2, A, q, size, w, m + 1)
    BY <2>3, <2>6, <2>12, <2>13, <2>14, <2>15 DEF Mid
  <2>17. n.tbl[g][i] = P2[z]
    <3>1. n.tbl = Entered(Cleared(s.tbl, p), g, i, p)
      BY <2>3 DEF IsW
    <3>2. PageTypes(Taken(s.count, p), Cleared(s.tbl, p))
      BY <1>4, TypesTaken DEF Forest
    <3>3. PICK t : t = Cleared(s.tbl, p)
      OBVIOUS
    <3>4. t \in [Pages -> [Slots -> 0..NP]]
      BY <3>2, <3>3 DEF PageTypes
    <3> QED BY <3>1, <3>3, <3>4, <1>5, <2>5 DEF Entered
  <2>18. m + 1 \in Nat
    OBVIOUS
  <2> QED BY <2>5, <2>13, <2>16, <2>17, <2>18, <1>1, <1>8 DEF StepRes
<1> QED BY <1>6, <1>7

\* The last step of alloc_user_page, to a page that was not there.
LEMMA LeafStep ==
  ASSUME NEW s, NEW P, NEW A, NEW q, NEW size, NEW w, NEW m, NEW k, NEW i, NEW j, NEW g,
         StepHyp(s, P, A, q, size, w, m, 1, k, i, 0, j, g),
         <<q, 0, j>> \notin DOMAIN P, w >= 1, NEW v, v = w - 1
  PROVE \E P2 : StepRes(s, P, A, q, size, v, i, 0, j, g, Ensured(s, g, i), P2, m)
<1> /\ q \in A /\ size \in Sizes /\ w \in Nat /\ m \in Nat /\ Mid(s, P, A, q, size, w, m)
    /\ k \in Nat /\ i \in Slots /\ <<q, 1, k>> \in DOMAIN P /\ g = P[<<q, 1, k>>]
    /\ <<q, 0, Kid(k, i)>> \notin DOMAIN P
  BY DEF StepHyp
<1>1. PICK n : n = Ensured(s, g, i)
  OBVIOUS
<1>2. PICK z : z = <<q, 0, Kid(k, i)>>
  OBVIOUS
<1>17. z = <<q, 0, j>>
  BY <1>2 DEF StepHyp
<1>3. 1 \in 1..4 /\ 1 - 1 = 0
  OBVIOUS
<1>4. s \in Works /\ Forest(s.count, s.tbl, P, A)
  BY DEF Mid
<1>5. g \in Pages /\ s.tbl[g][i] = 0
  BY <1>2, <1>3, <1>4, EntryNode
<1>6. Cardinality(FreePages(s.count)) \in Nat /\ Cardinality(Missing(P, q, size)) \in Nat
  BY FreeFinite, MissingFinite
<1>7. Cardinality(FreePages(s.count)) >= 1
  BY <1>6 DEF Mid, Enough
<1>8. PICK p \in Pages :
        /\ s.count[p] = 0 /\ n \in Works
        /\ IsW(n, Taken(s.count, p), Entered(Cleared(s.tbl, p), g, i, p), s.mm, p, s.idx)
  BY <1>1, <1>4, <1>5, <1>7, SomeFree, EnsuredNew
<1>9. PICK P2 : P2 = Ext(P, z, p)
  OBVIOUS
<1>10. Grew(P, P2, z) /\ P2[z] = p
  BY <1>2, <1>9 DEF Grew, Ext
<1>11. Forest(n.count, n.tbl, P2, A)
  BY <1>2, <1>3, <1>4, <1>8, <1>9, Grow DEF IsW
<1>12. Listed(n.mm.pgtbl_page, P2, q, m)
  <2>1. Listed(s.mm.pgtbl_page, P, q, m) /\ n.mm = s.mm
    BY <1>8 DEF Mid, IsW
  <2>2. \A l \in 1..3, b \in Nat : <<q, l, b>> # z
    BY <1>2
  <2>3. \A l \in 1..3, b \in Nat : <<q, l, b>> \in DOMAIN P2 <=> <<q, l, b>> \in DOMAIN P
    BY <2>2, <1>10 DEF Grew
  <2>4. \A l \in 1..3, b \in Nat : <<q, l, b>> \in DOMAIN P => P2[<<q, l, b>>] = P[<<q, l, b>>]
    BY <1>10 DEF Grew
  <2> QED BY <2>1, <2>3, <2>4, ListedSame
<1>13. Enough(n.count, P2, q, size, v, m)
  <2>1. Cardinality(FreePages(n.count)) = Cardinality(FreePages(s.count)) - 1
    BY <1>8, <1>4, FreeTaken DEF IsW, Works
  <2>2. Missing(P2, q, size) = Missing(P, q, size)
    <3>1. \A y \in TablesFor(size) : \E a \in 1..3 : \E b : y = <<a, b>>
      BY TablesFinite
    <3>2. \A y \in TablesFor(size) : <<q, y[1], y[2]>> # z
      BY <3>1, <1>2
    <3> QED BY <3>2, <1>10 DEF Missing, Grew
  <2>3. Cardinality(FreePages(s.count)) >= w + Cardinality(Missing(P, q, size))
        /\ m + Cardinality(Missing(P, q, size)) <= MAX_PGTBL_PAGES
    BY DEF Mid, Enough
  <2> QED BY <2>1, <2>2, <2>3, <1>6 DEF Enough
<1>14. n.idx = s.idx /\ SameMm(s.mm, n.mm)
  BY <1>8 DEF IsW, SameMm
<1>15. Mid(n, P2, A, q, size, v, m)
  BY <1>8, <1>11, <1>12, <1>13, <1>14 DEF Mid
<1>16. n.tbl[g][i] = P2[z]
  <2>1. n.tbl = Entered(Cleared(s.tbl, p), g, i, p)
    BY <1>8 DEF IsW
  <2>2. PageTypes(Taken(s.count, p), Cleared(s.tbl, p))
    BY <1>4, TypesTaken DEF Forest
  <2>3. PICK t : t = Cleared(s.tbl, p)
    OBVIOUS
  <2>4. t \in [Pages -> [Slots -> 0..NP]]
    BY <2>2, <2>3 DEF PageTypes
  <2> QED BY <2>1, <2>3, <2>4, <1>5, <1>10 DEF Entered
<1> QED BY <1>1, <1>17, <1>10, <1>14, <1>15, <1>16 DEF StepRes

\* The rest of alloc_user_page at the table t of each level, with x.
AtPte(a, x, t) ==
  LET n == Ensured(x, t, Index(a, 0)) IN Recorded(n, n.tbl[t][Index(a, 0)])
AtPmd(a, x, t) ==
  LET n == EnsuredTable(x, t, Index(a, 1)) IN AtPte(a, n, n.tbl[t][Index(a, 1)])
AtPud(a, x, t) ==
  LET n == EnsuredTable(x, t, Index(a, 2)) IN AtPmd(a, n, n.tbl[t][Index(a, 2)])
AtPgd(a, x, t) ==
  LET n == EnsuredTable(x, t, Index(a, 3)) IN AtPud(a, n, n.tbl[t][Index(a, 3)])

\* alloc_user_page is these steps.
LEMMA AllocSteps ==
  ASSUME NEW a, NEW mm
  PROVE alloc_user_page(a, mm)
          = AtPgd(a, [count |-> count, tbl |-> tbl, mm |-> mm, new |-> 0,
                      idx |-> First(mm.pgtbl_page)], mm.pgd)
BY Zenon DEF alloc_user_page, AtPgd, AtPud, AtPmd, AtPte

(***************************************************************************)
(* A process with the first n pages of its map.                            *)
(***************************************************************************)
HasNode(l, k, size, n) ==
  \/ l \in {4, 5} /\ k = 0
  \/ l \in 0..3 /\ \E i \in 1..n : k = Num(size, i, l)
Nodes(P, q, size, n) ==
  \A l \in 0..5, k \in Nat : <<q, l, k>> \in DOMAIN P <=> HasNode(l, k, size, n)

\* What its task_struct says of its pages.
Filled(m, P, q, n) ==
  /\ m.page = P[<<q, 5, 0>>] /\ m.pgd = P[<<q, 4, 0>>]
  /\ \A i \in 1..MAX_USER_PAGES :
       m.vma[i] = IF i <= n THEN P[<<q, 0, Num(m.size, i, 0)>>] ELSE 0

\* P2 has more nodes of q than P, and otherwise the same.
GrewBy(P, P2, q) ==
  /\ DOMAIN P \subseteq DOMAIN P2 /\ \A y \in DOMAIN P : P2[y] = P[y]
  /\ \A y \in DOMAIN P2 \ DOMAIN P : \E l \in 0..5, k \in Nat : y = <<q, l, k>>

\* The next page of a map has a number of its own.
LEMMA FreshLeaf ==
  ASSUME NEW size \in Sizes, NEW P, NEW q, NEW n \in Nat, n < Len(UserMap(size)),
         Nodes(P, q, size, n)
  PROVE <<q, 0, Num(size, n + 1, 0)>> \notin DOMAIN P
<1>1. n + 1 \in 1..Len(UserMap(size)) /\ Len(UserMap(size)) \in Nat
  BY MapNumbers
<1>2. Num(size, n + 1, 0) \in Nat
  BY <1>1, MapNumbers
<1>3. \A i \in 1..n : Num(size, i, 0) # Num(size, n + 1, 0)
  <2> TAKE i \in 1..n
  <2>1. i \in 1..Len(UserMap(size)) /\ i # n + 1
    BY <1>1
  <2> QED BY <2>1, <1>1, MapNumbers
<1> QED BY <1>2, <1>3 DEF Nodes, HasNode

\* The nodes after the tables and the page of the next address are there.
LEMMA NodesNext ==
  ASSUME NEW size \in Sizes, NEW P, NEW P2, NEW q, NEW n \in Nat, n < Len(UserMap(size)),
         Nodes(P, q, size, n),
         DOMAIN P2 = DOMAIN P \cup {<<q, l, Num(size, n + 1, l)>> : l \in 0..3}
  PROVE Nodes(P2, q, size, n + 1)
<1> SUFFICES ASSUME NEW l \in 0..5, NEW k \in Nat
             PROVE <<q, l, k>> \in DOMAIN P2 <=> HasNode(l, k, size, n + 1)
  BY DEF Nodes
<1>1. <<q, l, k>> \in DOMAIN P2 <=>
        <<q, l, k>> \in DOMAIN P \/ (l \in 0..3 /\ k = Num(size, n + 1, l))
  OBVIOUS
<1>2. (\E i \in 1..(n + 1) : k = Num(size, i, l)) <=>
        (\E i \in 1..n : k = Num(size, i, l)) \/ k = Num(size, n + 1, l)
  <2>1. \A i \in 1..(n + 1) : i \in 1..n \/ i = n + 1
    OBVIOUS
  <2>2. n + 1 \in 1..(n + 1) /\ \A i \in 1..n : i \in 1..(n + 1)
    OBVIOUS
  <2> QED BY <2>1, <2>2
<1>3. <<q, l, k>> \in DOMAIN P <=> HasNode(l, k, size, n)
  BY DEF Nodes
<1> QED BY <1>1, <1>2, <1>3 DEF HasNode

\* What alloc_user_page starts with.
LEMMA MidStart ==
  ASSUME NEW P, NEW A, NEW q \in A, NEW size \in Sizes, NEW w \in Nat, NEW m \in Nat,
         NEW mm \in Mems, Forest(count, tbl, P, A), Listed(mm.pgtbl_page, P, q, m),
         Enough(count, P, q, size, w, m),
         NEW s, s = [count |-> count, tbl |-> tbl, mm |-> mm, new |-> 0,
                     idx |-> First(mm.pgtbl_page)]
  PROVE Mid(s, P, A, q, size, w, m)
<1>1. PICK g : g = mm.pgtbl_page
  OBVIOUS
<1>2. g \in [1..MAX_PGTBL_PAGES -> 0..NP] /\ MAX_PGTBL_PAGES \in Nat
  BY <1>1, ProcMemAssumption DEF Mems
<1>3. m <= MAX_PGTBL_PAGES /\ \A i \in 1..MAX_PGTBL_PAGES : g[i] # 0 <=> i <= m
  BY <1>1 DEF Listed
<1>4. m < MAX_PGTBL_PAGES => First(g) = m + 1
  BY <1>2, <1>3, FirstEmpty
<1>5. m = MAX_PGTBL_PAGES => First(g) = 0
  BY <1>2, <1>3 DEF First
<1>6. First(g) \in Nat
  BY <1>2, <1>3, <1>4, <1>5
<1>7. s \in Works
  BY <1>1, <1>6, ProcMemAssumption DEF Works, Forest, PageTypes
<1> QED BY <1>1, <1>4, <1>7 DEF Mid

\* The page is recorded in vma.
LEMMA RecordedPage ==
  ASSUME NEW s \in Works, NEW n \in Nat, n < MAX_USER_PAGES, NEW pa \in 0..NP,
         \A i \in 1..MAX_USER_PAGES : s.mm.vma[i] # 0 <=> i <= n
  PROVE /\ Recorded(s, pa).count = s.count /\ Recorded(s, pa).tbl = s.tbl
        /\ Recorded(s, pa).mm \in Mems
        /\ Recorded(s, pa).mm.state = s.mm.state /\ Recorded(s, pa).mm.size = s.mm.size
        /\ Recorded(s, pa).mm.page = s.mm.page /\ Recorded(s, pa).mm.pgd = s.mm.pgd
        /\ Recorded(s, pa).mm.pgtbl_page = s.mm.pgtbl_page
        /\ Recorded(s, pa).mm.vma = [s.mm.vma EXCEPT ![n + 1] = pa]
<1>1. s.mm \in Mems /\ s.mm.vma \in [1..MAX_USER_PAGES -> 0..NP] /\ MAX_USER_PAGES \in Nat
  BY ProcMemAssumption DEF Works, Mems
<1>2. PICK f : f = s.mm.vma
  OBVIOUS
<1>3. First(f) = n + 1
  BY <1>1, <1>2, FirstEmpty
<1>4. PICK r : r = Recorded(s, pa)
  OBVIOUS
<1>5. r = [s EXCEPT !.mm.vma[n + 1] = pa]
  BY <1>2, <1>3, <1>4 DEF Recorded
<1>6. r.count = s.count /\ r.tbl = s.tbl /\ r.mm = [s.mm EXCEPT !.vma[n + 1] = pa]
  BY <1>5 DEF Works
<1>7. [s.mm.vma EXCEPT ![n + 1] = pa] \in [1..MAX_USER_PAGES -> 0..NP]
  BY <1>1
<1>8. r.mm.vma = [s.mm.vma EXCEPT ![n + 1] = pa]
  BY <1>1, <1>6 DEF Mems
<1>9. /\ r.mm.state = s.mm.state /\ r.mm.size = s.mm.size /\ r.mm.page = s.mm.page
      /\ r.mm.pgd = s.mm.pgd /\ r.mm.pgtbl_page = s.mm.pgtbl_page
  BY <1>1, <1>6 DEF Mems
<1>10. r.mm \in Mems
  BY <1>1, <1>6, <1>7 DEF Mems
<1> QED BY <1>4, <1>6, <1>8, <1>9, <1>10

\* A process in copy_process with n pages of its map, and pages for w more.
Ready(c, t, mm, P, A, q, n, w, m) ==
  /\ mm \in Mems /\ mm.size \in Sizes
  /\ Forest(c, t, P, A) /\ Listed(mm.pgtbl_page, P, q, m) /\ Enough(c, P, q, mm.size, w, m)
  /\ Filled(mm, P, q, n) /\ Nodes(P, q, mm.size, n)

\* One page more, of the w that were to come.
PageAdded(s, mm, P, P2, A, q, n, w, m2) ==
  /\ m2 \in Nat /\ Ready(s.count, s.tbl, s.mm, P2, A, q, n + 1, w - 1, m2)
  /\ GrewBy(P, P2, q) /\ s.mm.state = mm.state /\ s.mm.size = mm.size

\* alloc_user_page adds the tables and the page of one address.
LEMMA AllocUserPage ==
  ASSUME NEW P, NEW A, NEW q \in A, NEW n \in Nat, NEW w \in Nat, w >= 1, NEW m \in Nat,
         NEW mm, Ready(count, tbl, mm, P, A, q, n, w, m), n < Len(UserMap(mm.size)),
         NEW s, s = alloc_user_page(UserMap(mm.size)[n + 1], mm)
  PROVE \E P2, m2 : PageAdded(s, mm, P, P2, A, q, n, w, m2)
<1>1. PICK size, a : size = mm.size /\ a = UserMap(size)[n + 1]
  OBVIOUS
<1>2. /\ mm \in Mems /\ size \in Sizes /\ Forest(count, tbl, P, A)
      /\ Listed(mm.pgtbl_page, P, q, m) /\ Enough(count, P, q, size, w, m)
      /\ Filled(mm, P, q, n) /\ Nodes(P, q, size, n)
  BY <1>1 DEF Ready
<1>3. n + 1 \in 1..Len(UserMap(size)) /\ n < MAX_USER_PAGES /\ MAX_USER_PAGES \in Nat
  <2>1. Len(UserMap(size)) \in Nat /\ Len(UserMap(size)) <= MAX_USER_PAGES
    BY <1>2, MapNumbers
  <2>2. n < Len(UserMap(size))
    BY <1>1
  <2> QED BY <2>1, <2>2, ProcMemAssumption
<1>4. PICK n3, n2, n1, n0 : /\ n3 = Num(size, n + 1, 3) /\ n2 = Num(size, n + 1, 2)
                            /\ n1 = Num(size, n + 1, 1) /\ n0 = Num(size, n + 1, 0)
  OBVIOUS
<1>5. PICK i3, i2, i1, i0 : /\ i3 = Index(a, 3) /\ i2 = Index(a, 2)
                            /\ i1 = Index(a, 1) /\ i0 = Index(a, 0)
  OBVIOUS
<1>6. n3 \in Nat /\ n2 \in Nat /\ n1 \in Nat /\ n0 \in Nat
  BY <1>2, <1>3, <1>4, MapNumbers
<1>7. i3 \in Slots /\ i2 \in Slots /\ i1 \in Slots /\ i0 \in Slots
  BY <1>1, <1>2, <1>3, <1>5, MapNumbers
<1>8. n3 = Kid(0, i3) /\ n2 = Kid(n3, i2) /\ n1 = Kid(n2, i1) /\ n0 = Kid(n1, i0)
  <2>1. Num(size, n + 1, 4) = 0
    BY <1>2, <1>3, MapNumbers
  <2>2. \A l \in 0..3 : Num(size, n + 1, l) = Kid(Num(size, n + 1, l + 1), Index(a, l))
    BY <1>1, <1>2, <1>3, MapNumbers
  <2>3. Num(size, n + 1, 3) = Kid(Num(size, n + 1, 4), Index(a, 3))
    BY <2>2
  <2>4. Num(size, n + 1, 2) = Kid(Num(size, n + 1, 3), Index(a, 2))
    BY <2>2
  <2>5. Num(size, n + 1, 1) = Kid(Num(size, n + 1, 2), Index(a, 1))
    BY <2>2
  <2>6. Num(size, n + 1, 0) = Kid(Num(size, n + 1, 1), Index(a, 0))
    BY <2>2
  <2> QED BY <2>1, <2>3, <2>4, <2>5, <2>6, <1>4, <1>5
<1>9. /\ <<3, n3>> \in TablesFor(size) /\ <<2, n2>> \in TablesFor(size)
      /\ <<1, n1>> \in TablesFor(size)
  BY <1>2, <1>3, <1>4, TablesFinite
<1>10. <<q, 0, n0>> \notin DOMAIN P
  BY <1>1, <1>2, <1>4, FreshLeaf
<1>11. <<q, 4, 0>> \in DOMAIN P /\ mm.pgd = P[<<q, 4, 0>>]
  BY <1>2 DEF Nodes, HasNode, Filled
<1>12. PICK s0 : s0 = [count |-> count, tbl |-> tbl, mm |-> mm, new |-> 0,
                       idx |-> First(mm.pgtbl_page)]
  OBVIOUS
<1>13. Mid(s0, P, A, q, size, w, m) /\ s0.mm = mm
  <2>1. Mid(s0, P, A, q, size, w, m)
    BY <1>2, <1>12, MidStart
  <2> QED BY <2>1, <1>12
<1>14. PICK s1 : s1 = EnsuredTable(s0, mm.pgd, i3)
  OBVIOUS
<1>15. PICK P1, m1 : StepRes(s0, P, A, q, size, w, i3, 3, n3, mm.pgd, s1, P1, m1)
  <2>1. StepHyp(s0, P, A, q, size, w, m, 4, 0, i3, 3, n3, mm.pgd)
    BY <1>2, <1>7, <1>8, <1>11, <1>13 DEF StepHyp
  <2>2. 4 \in 2..4
    OBVIOUS
  <2> QED BY <2>1, <2>2, <1>9, <1>14, TableStep
<1>16. PICK pud : pud = s1.tbl[mm.pgd][i3]
  OBVIOUS
<1>17. PICK s2 : s2 = EnsuredTable(s1, pud, i2)
  OBVIOUS
<1>18. PICK P2, m2 : StepRes(s1, P1, A, q, size, w, i2, 2, n2, pud, s2, P2, m2)
  <2>1. StepHyp(s1, P1, A, q, size, w, m1, 3, n3, i2, 2, n2, pud)
    BY <1>2, <1>6, <1>7, <1>8, <1>15, <1>16 DEF StepHyp, StepRes, Grew
  <2>2. 3 \in 2..4
    OBVIOUS
  <2> QED BY <2>1, <2>2, <1>9, <1>17, TableStep
<1>19. PICK pmd : pmd = s2.tbl[pud][i2]
  OBVIOUS
<1>20. PICK s3 : s3 = EnsuredTable(s2, pmd, i1)
  OBVIOUS
<1>21. PICK P3, m3 : StepRes(s2, P2, A, q, size, w, i1, 1, n1, pmd, s3, P3, m3)
  <2>1. StepHyp(s2, P2, A, q, size, w, m2, 2, n2, i1, 1, n1, pmd)
    BY <1>2, <1>6, <1>7, <1>8, <1>18, <1>19 DEF StepHyp, StepRes, Grew
  <2>2. 2 \in 2..4
    OBVIOUS
  <2> QED BY <2>1, <2>2, <1>9, <1>20, TableStep
<1>22. PICK pte : pte = s3.tbl[pmd][i1]
  OBVIOUS
<1>23. PICK s4 : s4 = Ensured(s3, pte, i0)
  OBVIOUS
<1>23a. PICK v : v = w - 1
  OBVIOUS
<1>24. PICK P4 : StepRes(s3, P3, A, q, size, v, i0, 0, n0, pte, s4, P4, m3)
  <2>1. StepHyp(s3, P3, A, q, size, w, m3, 1, n1, i0, 0, n0, pte)
    BY <1>2, <1>6, <1>7, <1>8, <1>21, <1>22 DEF StepHyp, StepRes, Grew
  <2>2. <<q, 0, n0>> \notin DOMAIN P3
    BY <1>10, <1>15, <1>18, <1>21 DEF StepRes, Grew
  <2> QED BY <2>1, <2>2, <1>23, <1>23a, LeafStep
<1>25. PICK pa : pa = s4.tbl[pte][i0]
  OBVIOUS
<1>26. s = Recorded(s4, pa)
  <2>1. s = AtPgd(a, s0, mm.pgd)
    <3>1. s = alloc_user_page(a, mm)
      BY <1>1
    <3>2. alloc_user_page(a, mm) = AtPgd(a, s0, mm.pgd)
      BY <1>12, AllocSteps
    <3> QED BY <3>1, <3>2
  <2>2. AtPgd(a, s0, mm.pgd) = AtPud(a, s1, pud)
    BY <1>5, <1>14, <1>16 DEF AtPgd
  <2>3. AtPud(a, s1, pud) = AtPmd(a, s2, pmd)
    BY <1>5, <1>17, <1>19 DEF AtPud
  <2>4. AtPmd(a, s2, pmd) = AtPte(a, s3, pte)
    BY <1>5, <1>20, <1>22 DEF AtPmd
  <2>5. AtPte(a, s3, pte) = Recorded(s4, pa)
    BY <1>5, <1>23, <1>25 DEF AtPte
  <2> QED BY <2>1, <2>2, <2>3, <2>4, <2>5
<1>27. DOMAIN P4 = DOMAIN P \cup {<<q, l, Num(size, n + 1, l)>> : l \in 0..3}
  <2>1. DOMAIN P4 = DOMAIN P \cup {<<q, 3, n3>>, <<q, 2, n2>>, <<q, 1, n1>>, <<q, 0, n0>>}
    BY <1>15, <1>18, <1>21, <1>24 DEF Grew, StepRes
  <2>2. 0..3 = {0, 1, 2, 3}
    OBVIOUS
  <2> QED BY <2>1, <2>2, <1>4
<1>28. \A y \in DOMAIN P : P4[y] = P[y]
  BY <1>15, <1>18, <1>21, <1>24 DEF Grew, StepRes
<1>29. GrewBy(P, P4, q)
  <2>1. \A l \in 0..3 : l \in 0..5 /\ Num(size, n + 1, l) \in Nat
    <3>1. \A l \in 0..4 : Num(size, n + 1, l) \in Nat
      BY <1>2, <1>3, MapNumbers
    <3> QED BY <3>1
  <2> QED BY <2>1, <1>27, <1>28 DEF GrewBy
<1>30. SameMm(mm, s4.mm)
  BY <1>13, <1>15, <1>18, <1>21, <1>24 DEF SameMm, StepRes
<1>31. /\ s4 \in Works /\ Forest(s4.count, s4.tbl, P4, A) /\ Listed(s4.mm.pgtbl_page, P4, q, m3)
       /\ Enough(s4.count, P4, q, size, w - 1, m3)
  BY <1>23a, <1>24 DEF Mid, StepRes
<1>32. <<q, 0, n0>> \in DOMAIN P4 /\ pa = P4[<<q, 0, n0>>] /\ pa \in 0..NP
  <2>1. <<q, 0, n0>> \in DOMAIN P4
    BY <1>24 DEF Grew, StepRes
  <2> QED BY <2>1, <1>24, <1>25, <1>31, ProcMemAssumption DEF Forest, Placed, Pages, StepRes
<1>33. \A i \in 1..MAX_USER_PAGES : s4.mm.vma[i] # 0 <=> i <= n
  <2> TAKE i \in 1..MAX_USER_PAGES
  <2>1. s4.mm.vma[i] = IF i <= n THEN P[<<q, 0, Num(size, i, 0)>>] ELSE 0
    BY <1>1, <1>2, <1>30 DEF Filled, SameMm
  <2>2. ASSUME i <= n PROVE P[<<q, 0, Num(size, i, 0)>>] # 0
    <3>1. i \in 1..Len(UserMap(size)) /\ i \in 1..n
      BY <1>3, <2>2, MapNumbers, <1>2
    <3>2. Num(size, i, 0) \in Nat
      BY <3>1, <1>2, MapNumbers
    <3>3. <<q, 0, Num(size, i, 0)>> \in DOMAIN P
      BY <3>1, <3>2, <1>2 DEF Nodes, HasNode
    <3> QED BY <3>3, <1>2, ProcMemAssumption DEF Forest, Placed, Pages
  <2> QED BY <2>1, <2>2
<1>34. /\ s.count = s4.count /\ s.tbl = s4.tbl /\ s.mm \in Mems
       /\ s.mm.state = s4.mm.state /\ s.mm.size = s4.mm.size
       /\ s.mm.page = s4.mm.page /\ s.mm.pgd = s4.mm.pgd
       /\ s.mm.pgtbl_page = s4.mm.pgtbl_page
       /\ s.mm.vma = [s4.mm.vma EXCEPT ![n + 1] = pa]
  BY <1>3, <1>26, <1>31, <1>32, <1>33, RecordedPage
<1>35. s.mm.size = size /\ s.mm.state = mm.state
  BY <1>1, <1>30, <1>34 DEF SameMm
<1>36. Nodes(P4, q, size, n + 1)
  BY <1>1, <1>2, <1>27, NodesNext
<1>37. Filled(s.mm, P4, q, n + 1)
  <2>1. s.mm.page = P4[<<q, 5, 0>>] /\ s.mm.pgd = P4[<<q, 4, 0>>]
    <3>1. <<q, 5, 0>> \in DOMAIN P
      BY <1>2 DEF Nodes, HasNode
    <3> QED BY <3>1, <1>2, <1>11, <1>28, <1>30, <1>34 DEF Filled, SameMm
  <2>2. ASSUME NEW i \in 1..MAX_USER_PAGES
        PROVE s.mm.vma[i] = IF i <= n + 1 THEN P4[<<q, 0, Num(size, i, 0)>>] ELSE 0
    <3>1. s4.mm.vma \in [1..MAX_USER_PAGES -> 0..NP]
      BY <1>31 DEF Works, Mems
    <3>2. CASE i = n + 1
      <4>1. s.mm.vma[i] = pa
        BY <3>1, <3>2, <1>34
      <4>2. pa = P4[<<q, 0, Num(size, i, 0)>>]
        BY <3>2, <1>4, <1>32
      <4> QED BY <4>1, <4>2, <3>2
    <3>3. CASE i # n + 1
      <4>1. s.mm.vma[i] = s4.mm.vma[i]
        BY <3>1, <3>3, <1>34
      <4>2. s.mm.vma[i] = IF i <= n THEN P[<<q, 0, Num(size, i, 0)>>] ELSE 0
        BY <4>1, <1>1, <1>2, <1>30 DEF Filled, SameMm
      <4>3. CASE i <= n
        <5>1. i \in 1..Len(UserMap(size)) /\ i \in 1..n
          BY <1>3, <4>3, MapNumbers, <1>2
        <5>2. Num(size, i, 0) \in Nat
          BY <5>1, <1>2, MapNumbers
        <5>3. <<q, 0, Num(size, i, 0)>> \in DOMAIN P
          BY <5>1, <5>2, <1>2 DEF Nodes, HasNode
        <5> QED BY <5>3, <4>2, <4>3, <1>28
      <4>4. CASE ~(i <= n)
        BY <4>2, <4>4, <3>3
      <4> QED BY <4>3, <4>4
    <3> QED BY <3>2, <3>3
  <2> QED BY <2>1, <2>2, <1>35 DEF Filled
<1>38. Ready(s.count, s.tbl, s.mm, P4, A, q, n + 1, w - 1, m3)
  BY <1>2, <1>31, <1>34, <1>35, <1>36, <1>37 DEF Ready
<1>39. m3 \in Nat
  BY <1>21 DEF StepRes
<1> QED BY <1>1, <1>29, <1>35, <1>38, <1>39 DEF PageAdded

(***************************************************************************)
(* The inductive invariant.  P is the forest of all processes.             *)
(***************************************************************************)
\* How many pages of its map a process has.
PagesOf(q) ==
  IF copying # NULL /\ copying.proc = q
  THEN Len(UserMap(proc[q].size)) - Len(copying.todo)
  ELSE Len(UserMap(proc[q].size))

\* A process and its pages; and what is left of one that was removed.
Tree(mm, P, q, n) ==
  /\ mm.size \in Sizes /\ n \in Nat /\ n <= Len(UserMap(mm.size))
  /\ Nodes(P, q, mm.size, n) /\ Filled(mm, P, q, n)
  /\ \E m : Listed(mm.pgtbl_page, P, q, m)
Stump(mm, P, q) ==
  /\ mm.pgd = P[<<q, 4, 0>>]
  /\ \A l \in 0..5, k \in Nat : <<q, l, k>> \in DOMAIN P <=> l = 4 /\ k = 0

\* The queue: a process is in it once, from the end of copy_process until it
\* is removed.
Queue ==
  /\ proc \in [Procs -> Mems] /\ ring \in Seq(Procs)
  /\ \A i, j \in 1..Len(ring) : ring[i] = ring[j] => i = j
  /\ walk \in Int /\ -1 <= walk /\ walk <= Len(ring)
  /\ walk # 0 => copying = NULL
  /\ \A q \in Procs : /\ InQueue(q) => proc[q].state \in {"running", "zombie"}
                      /\ proc[q].state = "running" => InQueue(q)

\* copy_process: the addresses still to map are the rest of the map.
Copying == copying # NULL =>
  /\ copying \in [proc : Procs, todo : Seq(Nat)]
  /\ proc[copying.proc].state = "new"
  /\ \A i \in 1..Len(copying.todo) :
       copying.todo[i] = UserMap(proc[copying.proc].size)[PagesOf(copying.proc) + i]

Trees(P) ==
  /\ Forest(count, tbl, P, Alive)
  /\ \A x \in DOMAIN P : \E q \in Alive \cup Removed, l \in 0..5, k \in Nat : x = <<q, l, k>>
  /\ \A q \in Alive : Tree(proc[q], P, q, PagesOf(q))
  /\ \A q \in Removed : Stump(proc[q], P, q)

\* copy_process has the pages it will need.
Supply(P) == copying # NULL =>
  \E m \in Nat : /\ Listed(proc[copying.proc].pgtbl_page, P, copying.proc, m)
                 /\ Enough(count, P, copying.proc, proc[copying.proc].size,
                           Len(copying.todo), m)

IInv == \E P : Queue /\ Copying /\ Trees(P) /\ Supply(P)

(***************************************************************************)
(* Processes that a step does not concern.                                 *)
(***************************************************************************)
\* P and P2 have the same nodes of q.
Agree(P, P2, q) ==
  /\ \A l \in 0..5, k \in Nat : <<q, l, k>> \in DOMAIN P2 <=> <<q, l, k>> \in DOMAIN P
  /\ \A l \in 0..5, k \in Nat : <<q, l, k>> \in DOMAIN P => P2[<<q, l, k>>] = P[<<q, l, k>>]

\* The same task_struct but for the state.
SameTree(m, n) ==
  /\ n.page = m.page /\ n.pgd = m.pgd /\ n.size = m.size
  /\ n.vma = m.vma /\ n.pgtbl_page = m.pgtbl_page

\* A tree is there as long as its nodes are.
LEMMA TreeKept ==
  ASSUME NEW mm, NEW m2, NEW P, NEW P2, NEW q, NEW n, Tree(mm, P, q, n), Agree(P, P2, q),
         SameTree(mm, m2)
  PROVE Tree(m2, P2, q, n)
<1>1. /\ mm.size \in Sizes /\ n \in Nat /\ n <= Len(UserMap(mm.size))
      /\ Nodes(P, q, mm.size, n) /\ Filled(mm, P, q, n)
  BY DEF Tree
<1>2. PICK m : Listed(mm.pgtbl_page, P, q, m)
  BY DEF Tree
<1>3. Nodes(P2, q, mm.size, n)
  BY <1>1 DEF Nodes, Agree
<1>4. Listed(mm.pgtbl_page, P2, q, m)
  <2>1. \A l \in 1..3 : l \in 0..5
    OBVIOUS
  <2>2. \A l \in 1..3, k \in Nat : <<q, l, k>> \in DOMAIN P2 <=> <<q, l, k>> \in DOMAIN P
    BY <2>1 DEF Agree
  <2>3. \A l \in 1..3, k \in Nat : <<q, l, k>> \in DOMAIN P => P2[<<q, l, k>>] = P[<<q, l, k>>]
    BY <2>1 DEF Agree
  <2> QED BY <2>2, <2>3, <1>2, ListedSame
<1>5. Filled(m2, P2, q, n)
  <2>1. m2.page = P2[<<q, 5, 0>>] /\ m2.pgd = P2[<<q, 4, 0>>]
    <3>1. <<q, 5, 0>> \in DOMAIN P /\ <<q, 4, 0>> \in DOMAIN P
      BY <1>1 DEF Nodes, HasNode
    <3> QED BY <3>1, <1>1 DEF Filled, Agree, SameTree
  <2>2. ASSUME NEW i \in 1..MAX_USER_PAGES
        PROVE m2.vma[i] = IF i <= n THEN P2[<<q, 0, Num(m2.size, i, 0)>>] ELSE 0
    <3>1. m2.vma[i] = IF i <= n THEN P[<<q, 0, Num(mm.size, i, 0)>>] ELSE 0
      BY <1>1 DEF Filled, SameTree
    <3>2. CASE i <= n
      <4>1. i \in 1..n /\ i \in 1..Len(UserMap(mm.size))
        BY <3>2, <1>1, MapNumbers
      <4>2. Num(mm.size, i, 0) \in Nat
        BY <4>1, <1>1, MapNumbers
      <4>3. <<q, 0, Num(mm.size, i, 0)>> \in DOMAIN P
        BY <4>1, <4>2, <1>1 DEF Nodes, HasNode
      <4> QED BY <3>1, <3>2, <4>2, <4>3 DEF Agree, SameTree
    <3>3. CASE ~(i <= n)
      BY <3>1, <3>3
    <3> QED BY <3>2, <3>3
  <2> QED BY <2>1, <2>2 DEF Filled
<1> QED BY <1>1, <1>3, <1>4, <1>5 DEF Tree, SameTree

\* So is a stump.
LEMMA StumpKept ==
  ASSUME NEW mm, NEW m2, NEW P, NEW P2, NEW q, Stump(mm, P, q), Agree(P, P2, q),
         SameTree(mm, m2)
  PROVE Stump(m2, P2, q)
<1>1. <<q, 4, 0>> \in DOMAIN P
  BY DEF Stump
<1>2. m2.pgd = P2[<<q, 4, 0>>]
  BY <1>1 DEF Stump, Agree, SameTree
<1>3. \A l \in 0..5, k \in Nat : <<q, l, k>> \in DOMAIN P2 <=> l = 4 /\ k = 0
  BY DEF Stump, Agree
<1> QED BY <1>2, <1>3 DEF Stump

\* Growing and pruning the tree of a process leaves the others.
LEMMA AgreeGrew ==
  ASSUME NEW P, NEW P2, NEW q, NEW r, r # q, GrewBy(P, P2, q)
  PROVE Agree(P, P2, r)
<1>1. \A l, k, a, b : <<r, l, k>> # <<q, a, b>>
  OBVIOUS
<1> QED BY <1>1 DEF Agree, GrewBy

\* And pruning it.
LEMMA AgreePruned ==
  ASSUME NEW P, NEW q, NEW r, r # q
  PROVE Agree(P, Pruned(P, q), r)
<1>1. \A l, k, a, b : <<r, l, k>> # <<q, a, b>>
  OBVIOUS
<1>2. DOMAIN Pruned(P, q) = Kept(P, q) /\ \A x \in Kept(P, q) : Pruned(P, q)[x] = P[x]
  BY DEF Pruned
<1>3. \A l, k : <<r, l, k>> \in Kept(P, q) <=> <<r, l, k>> \in DOMAIN P
  BY <1>1 DEF Kept
<1> QED BY <1>2, <1>3 DEF Agree

\* A forest that stays as it is.
LEMMA AgreeSelf ==
  ASSUME NEW P, NEW q
  PROVE Agree(P, P, q)
BY DEF Agree

\* A step that changes no pages and no lists of pages.
LEMMA TreesSame ==
  ASSUME NEW P, Trees(P), count' = count, tbl' = tbl, Alive' = Alive, Removed' = Removed,
         \A q \in Procs : SameTree(proc[q], proc'[q]),
         \A q \in Alive : PagesOf(q)' = PagesOf(q)
  PROVE Trees(P)'
<1>1. Forest(count, tbl, P, Alive)' 
  BY DEF Trees
<1>2. \A x \in DOMAIN P : \E q \in Alive' \cup Removed', l \in 0..5, k \in Nat : x = <<q, l, k>>
  BY DEF Trees
<1>3. ASSUME NEW q \in Alive' PROVE Tree(proc'[q], P, q, PagesOf(q)')
  <2>1. q \in Alive /\ q \in Procs
    BY <1>3 DEF Alive
  <2>2. Tree(proc[q], P, q, PagesOf(q))
    BY <2>1 DEF Trees
  <2>3. Tree(proc'[q], P, q, PagesOf(q))
    BY <2>1, <2>2, AgreeSelf, TreeKept
  <2> QED BY <2>1, <2>3
<1>4. ASSUME NEW q \in Removed' PROVE Stump(proc'[q], P, q)
  <2>1. q \in Removed /\ q \in Procs
    BY <1>4 DEF Removed
  <2>2. Stump(proc[q], P, q)
    BY <2>1 DEF Trees
  <2> QED BY <2>1, <2>2, AgreeSelf, StumpKept
<1> QED BY <1>1, <1>2, <1>3, <1>4 DEF Trees

(***************************************************************************)
(* The steps that change no pages.                                         *)
(***************************************************************************)
\* At the start there are no processes and no pages in use.
LEMMA InitIInv == Init => IInv
<1> SUFFICES ASSUME Init PROVE IInv
  OBVIOUS
<1>1. PICK P : P = [x \in {} |-> 0]
  OBVIOUS
<1>2. DOMAIN P = {}
  BY <1>1
<1>3. none \in Mems
  <2>1. [i \in 1..MAX_USER_PAGES |-> 0] \in [1..MAX_USER_PAGES -> 0..NP]
    BY ProcMemAssumption
  <2>2. [i \in 1..MAX_PGTBL_PAGES |-> 0] \in [1..MAX_PGTBL_PAGES -> 0..NP]
    BY ProcMemAssumption
  <2> QED BY <2>1, <2>2, ProcMemAssumption DEF none, Mems, States
<1>4. ring = << >> /\ Len(ring) = 0 /\ DOMAIN ring = {} /\ ring \in Seq(Procs)
  BY DEF Init
<1>5. \A q \in Procs : ~InQueue(q) /\ proc[q].state = "none"
  BY <1>4 DEF InQueue, Init, none
<1>6. Alive = {} /\ Removed = {}
  BY <1>5 DEF Alive, Removed, Init
<1>7. Queue
  <2>1. proc \in [Procs -> Mems]
    BY <1>3 DEF Init
  <2>2. walk = 0 /\ copying = NULL
    BY DEF Init
  <2> QED BY <2>1, <2>2, <1>4, <1>5 DEF Queue
<1>8. Copying /\ Supply(P)
  BY DEF Init, Copying, Supply
<1>9. Forest(count, tbl, P, Alive)
  <2>1. empty \in [Slots -> 0..NP]
    BY ProcMemAssumption DEF empty, Slots
  <2>2. PageTypes(count, tbl)
    BY <2>1 DEF PageTypes, Init
  <2>3. Placed(count, P)
    BY <1>2 DEF Placed, Init
  <2>4. Linked(tbl, P, Alive)
    BY <1>6 DEF Linked
  <2> QED BY <2>2, <2>3, <2>4 DEF Forest
<1>10. Trees(P)
  BY <1>2, <1>6, <1>9 DEF Trees
<1> QED BY <1>7, <1>8, <1>10 DEF IInv

\* The parts of the state that Alive and Removed are made of.
LEMMA SameSets ==
  ASSUME ring' = ring, copying' = copying,
         \A q \in Procs : (proc'[q].state = "zombie" /\ ~InQueue(q))
                            <=> (proc[q].state = "zombie" /\ ~InQueue(q))
  PROVE Alive' = Alive /\ Removed' = Removed
BY DEF Alive, Removed, InQueue

\* A process becomes a zombie.
LEMMA ExitStep ==
  ASSUME NEW P, Queue, Copying, Trees(P), Supply(P), NEW q \in Procs, Exit(q)
  PROVE Queue' /\ Copying' /\ Trees(P)' /\ Supply(P)'
<1>1. /\ copying = NULL /\ walk = 0 /\ proc[q].state = "running"
      /\ proc' = [proc EXCEPT ![q].state = "zombie"]
      /\ count' = count /\ tbl' = tbl /\ ring' = ring /\ copying' = copying /\ walk' = walk
  BY DEF Exit, Idle
<1>2. proc \in [Procs -> Mems] /\ InQueue(q)
  BY <1>1 DEF Queue
<1>3. \A r \in Procs : r # q => proc'[r] = proc[r]
  BY <1>1, <1>2
<1>4. proc'[q].state = "zombie" /\ proc'[q] \in Mems /\ SameTree(proc[q], proc'[q])
  <2>1. proc'[q] = [proc[q] EXCEPT !.state = "zombie"]
    BY <1>1, <1>2
  <2>2. proc[q] \in Mems
    BY <1>2
  <2> QED BY <2>1, <2>2 DEF Mems, States, SameTree
<1>5. proc' \in [Procs -> Mems]
  BY <1>1, <1>2, <1>4
<1>6. \A r \in Procs : SameTree(proc[r], proc'[r])
  BY <1>3, <1>4 DEF SameTree
<1>7. Alive' = Alive /\ Removed' = Removed
  BY <1>1, <1>2, <1>3, SameSets
<1>8. \A r \in Alive : PagesOf(r)' = PagesOf(r)
  BY <1>1, <1>6 DEF PagesOf, SameTree, Alive
<1>9. Trees(P)'
  BY <1>1, <1>6, <1>7, <1>8, TreesSame
<1>10. \A r \in Procs : InQueue(r)' <=> InQueue(r)
  BY <1>1 DEF InQueue
<1>11. Queue'
  BY <1>1, <1>2, <1>3, <1>4, <1>5, <1>10 DEF Queue
<1>12. Copying' /\ Supply(P)'
  BY <1>1 DEF Copying, Supply
<1> QED BY <1>9, <1>11, <1>12

\* copy_process links the new process into the queue.
LEMMA CopyEndStep ==
  ASSUME NEW P, Queue, Copying, Trees(P), Supply(P), CopyEnd
  PROVE Queue' /\ Copying' /\ Trees(P)' /\ Supply(P)'
<1>1. PICK q : q = copying.proc
  OBVIOUS
<1>2. /\ copying # NULL /\ copying.todo = << >>
      /\ proc' = [proc EXCEPT ![q].state = "running"]
      /\ ring' = Append(ring, q) /\ copying' = NULL
      /\ count' = count /\ tbl' = tbl /\ walk' = walk
  BY <1>1 DEF CopyEnd
<1>3. q \in Procs /\ proc[q].state = "new"
  BY <1>1, <1>2 DEF Copying
<1>4. proc \in [Procs -> Mems] /\ ring \in Seq(Procs) /\ walk = 0
  BY <1>2 DEF Queue
<1>5. \A r \in Procs : r # q => proc'[r] = proc[r]
  BY <1>2, <1>4
<1>6. proc'[q].state = "running" /\ proc'[q] \in Mems /\ SameTree(proc[q], proc'[q])
  <2>1. proc'[q] = [proc[q] EXCEPT !.state = "running"]
    BY <1>2, <1>3, <1>4
  <2>2. proc[q] \in Mems
    BY <1>3, <1>4
  <2> QED BY <2>1, <2>2 DEF Mems, States, SameTree
<1>7. proc' \in [Procs -> Mems]
  BY <1>2, <1>4, <1>6
<1>8. \A r \in Procs : SameTree(proc[r], proc'[r])
  BY <1>5, <1>6 DEF SameTree
<1>9. /\ ring' \in Seq(Procs) /\ Len(ring') = Len(ring) + 1
      /\ \A i \in 1..Len(ring) : ring'[i] = ring[i]
      /\ ring'[Len(ring) + 1] = q
  BY <1>2, <1>3, <1>4, AppendProperties
<1>10. DOMAIN ring = 1..Len(ring) /\ DOMAIN ring' = 1..(Len(ring) + 1) /\ Len(ring) \in Nat
  BY <1>4, <1>9
<1>11. \A r \in Procs : InQueue(r)' <=> InQueue(r) \/ r = q
  <2>1. \A i \in 1..(Len(ring) + 1) : i \in 1..Len(ring) \/ i = Len(ring) + 1
    BY <1>10
  <2>2. Len(ring) + 1 \in 1..(Len(ring) + 1) /\ \A i \in 1..Len(ring) : i \in 1..(Len(ring) + 1)
    BY <1>10
  <2> QED BY <2>1, <2>2, <1>9, <1>10 DEF InQueue
<1>12. ~InQueue(q)
  BY <1>3 DEF Queue
<1>13. Alive' = Alive
  BY <1>1, <1>2, <1>3, <1>11 DEF Alive
<1>14. Removed' = Removed
  BY <1>3, <1>5, <1>6, <1>11 DEF Removed
<1>15. \A r \in Alive : PagesOf(r)' = PagesOf(r)
  <2> TAKE r \in Alive
  <2>1. r \in Procs /\ proc'[r].size = proc[r].size
    BY <1>8 DEF Alive, SameTree
  <2>2. PagesOf(r)' = Len(UserMap(proc[r].size))
    BY <2>1, <1>2 DEF PagesOf
  <2>3. CASE r = q
    <3>1. proc[q].size \in Sizes
      BY <2>3 DEF Trees, Tree
    <3>2. Len(UserMap(proc[q].size)) \in Nat /\ Len(copying.todo) = 0
      BY <3>1, <1>2, MapNumbers
    <3> QED BY <2>2, <2>3, <3>2, <1>1, <1>2 DEF PagesOf
  <2>4. CASE r # q
    BY <2>2, <2>4, <1>1 DEF PagesOf
  <2> QED BY <2>3, <2>4
<1>16. Trees(P)'
  BY <1>2, <1>8, <1>13, <1>14, <1>15, TreesSame
<1>17. \A i, j \in 1..Len(ring') : ring'[i] = ring'[j] => i = j
  <2>1. \A i \in 1..Len(ring) : ring[i] # q
    BY <1>10, <1>12 DEF InQueue
  <2>2. \A i \in 1..(Len(ring) + 1) : i \in 1..Len(ring) \/ i = Len(ring) + 1
    BY <1>10
  <2>3. \A i, j \in 1..Len(ring) : ring[i] = ring[j] => i = j
    BY DEF Queue
  <2> QED BY <2>1, <2>2, <2>3, <1>9
<1>18. Queue'
  <2>1. walk' \in Int /\ -1 <= walk' /\ walk' <= Len(ring') /\ (walk' # 0 => copying' = NULL)
    BY <1>2, <1>4, <1>9, <1>10
  <2>2. ASSUME NEW r \in Procs
        PROVE /\ InQueue(r)' => proc'[r].state \in {"running", "zombie"}
              /\ proc'[r].state = "running" => InQueue(r)'
    BY <1>5, <1>6, <1>11 DEF Queue
  <2> QED BY <2>1, <2>2, <1>7, <1>9, <1>17 DEF Queue
<1>19. Copying' /\ Supply(P)'
  BY <1>2 DEF Copying, Supply
<1> QED BY <1>16, <1>18, <1>19

\* The walk of clear_zombie over processes that are no zombies.
LEMMA WalkStep ==
  ASSUME NEW P, Queue, Copying, Trees(P), Supply(P),
         count' = count, tbl' = tbl, proc' = proc, ring' = ring, copying' = copying,
         walk' \in Int, -1 <= walk', walk' <= Len(ring), walk' # 0 => copying = NULL
  PROVE Queue' /\ Copying' /\ Trees(P)' /\ Supply(P)'
<1>1. Alive' = Alive /\ Removed' = Removed
  BY SameSets
<1>2. \A q \in Procs : SameTree(proc[q], proc'[q])
  BY DEF SameTree
<1>3. \A q \in Alive : PagesOf(q)' = PagesOf(q)
  BY DEF PagesOf
<1>4. Trees(P)'
  BY <1>1, <1>2, <1>3, TreesSame
<1>5. Queue'
  BY DEF Queue, InQueue
<1>6. Copying'
  BY DEF Copying, PagesOf
<1>7. Supply(P)'
  BY DEF Supply
<1> QED BY <1>4, <1>5, <1>6, <1>7

(***************************************************************************)
(* copy_process takes pages.                                               *)
(***************************************************************************)
\* get_free_page for the task page and for the first table.
Bases == [count : [Pages -> 0..1], tbl : [Pages -> [Slots -> 0..NP]], new : 0..NP]

\* It takes a page that is free and clears it.
LEMMA GetBasePage ==
  ASSUME NEW s \in Bases, FreePages(s.count) # {}
  PROVE \E p \in Pages :
          /\ s.count[p] = 0 /\ get_free_page(s) \in Bases
          /\ get_free_page(s).count = Taken(s.count, p)
          /\ get_free_page(s).tbl = Cleared(s.tbl, p) /\ get_free_page(s).new = p
<1>1. PICK p : p = alloc_page(s.count)
  OBVIOUS
<1>2. p \in Pages /\ s.count[p] = 0
  BY <1>1, AllocPage
<1>3. PICK n : n = get_free_page(s)
  OBVIOUS
<1>4. n = [s EXCEPT !.count[p] = 1, !.tbl[p] = empty, !.new = p]
  BY <1>1, <1>3 DEF get_free_page
<1>5. n.count = Taken(s.count, p) /\ n.tbl = Cleared(s.tbl, p) /\ n.new = p
  BY <1>4 DEF Bases, Taken, Cleared
<1>6. PageTypes(s.count, s.tbl)
  BY DEF PageTypes, Bases
<1>7. PageTypes(Taken(s.count, p), Cleared(s.tbl, p)) /\ p \in 0..NP
  BY <1>2, <1>6, TypesTaken, ProcMemAssumption DEF Pages
<1>8. n \in Bases
  BY <1>4, <1>5, <1>7 DEF Bases, PageTypes
<1> QED BY <1>2, <1>3, <1>5, <1>8

\* The pages of a process that has none yet: none of the nodes is there.
LEMMA NoNodes ==
  ASSUME NEW P, Trees(P), NEW q, q \notin Alive, q \notin Removed
  PROVE \A l, k : <<q, l, k>> \notin DOMAIN P
<1> SUFFICES ASSUME NEW l, NEW k, <<q, l, k>> \in DOMAIN P PROVE FALSE
  OBVIOUS
<1>1. PICK r \in Alive \cup Removed, a \in 0..5, b \in Nat : <<q, l, k>> = <<r, a, b>>
  BY DEF Trees
<1> QED BY <1>1

\* P2 is P with the task page and the first table of q.
Based(P, P2, A, q, size, s1, s2) ==
  /\ Forest(s2.count, s2.tbl, P2, A \cup {q})
  /\ DOMAIN P2 = DOMAIN P \cup {<<q, 5, 0>>, <<q, 4, 0>>}
  /\ \A y \in DOMAIN P : P2[y] = P[y]
  /\ P2[<<q, 5, 0>>] = s1.new /\ P2[<<q, 4, 0>>] = s2.new
  /\ s1.new \in 0..NP /\ s2.new \in 0..NP
  /\ Cardinality(FreePages(s2.count)) >= Len(UserMap(size)) + Cardinality(TablesFor(size))

\* The new process has a task page and a first table, and the pages it needs
\* are there.
LEMMA BaseTree ==
  ASSUME NEW P, NEW A, NEW q, NEW c, NEW t, NEW size \in Sizes, Forest(c, t, P, A),
         \A l, k : <<q, l, k>> \notin DOMAIN P,
         Cardinality(FreePages(c)) >= Needed(size),
         NEW s0, s0 = [count |-> c, tbl |-> t, new |-> 0],
         NEW s1, s1 = get_free_page(s0), NEW s2, s2 = get_free_page(s1)
  PROVE \E P2 : Based(P, P2, A, q, size, s1, s2)
<1>1. /\ Len(UserMap(size)) \in Nat /\ Cardinality(TablesFor(size)) \in Nat
      /\ Cardinality(FreePages(c)) \in Nat
  BY MapNumbers, TablesFinite, FreeFinite
<1>2. Cardinality(FreePages(c)) >= 2 + Len(UserMap(size)) + Cardinality(TablesFor(size))
  BY DEF Needed
<1>3. s0 \in Bases /\ s0.count = c /\ s0.tbl = t
  BY ProcMemAssumption DEF Bases, Forest, PageTypes
<1>4. FreePages(c) # {}
  BY <1>1, <1>2, SomeFree
<1>5. PICK p \in Pages : /\ c[p] = 0 /\ s1 \in Bases
                         /\ s1.count = Taken(c, p) /\ s1.tbl = Cleared(t, p) /\ s1.new = p
  BY <1>3, <1>4, GetBasePage
<1>6. PICK P1 : P1 = Ext(P, <<q, 5, 0>>, p)
  OBVIOUS
<1>7. Forest(s1.count, s1.tbl, P1, A \cup {q})
  <2>1. \A l \in 0..4, k \in Nat : <<q, l, k>> \notin DOMAIN P
    OBVIOUS
  <2>2. 5 \in {4, 5} /\ <<q, 5, 0>> \notin DOMAIN P
    OBVIOUS
  <2>3. Forest(Taken(c, p), Cleared(t, p), Ext(P, <<q, 5, 0>>, p), A \cup {q})
    BY <2>1, <2>2, <1>5, Plant
  <2> QED BY <2>3, <1>5, <1>6
<1>8. /\ DOMAIN P1 = DOMAIN P \cup {<<q, 5, 0>>} /\ P1[<<q, 5, 0>>] = p
      /\ \A y \in DOMAIN P : P1[y] = P[y]
  BY <1>6 DEF Ext
<1>9. Cardinality(FreePages(s1.count)) = Cardinality(FreePages(c)) - 1
  BY <1>5, FreeTaken DEF Forest, PageTypes
<1>10. FreePages(s1.count) # {}
  BY <1>1, <1>2, <1>9, SomeFree
<1>11. PICK r \in Pages : /\ s1.count[r] = 0 /\ s2 \in Bases
                          /\ s2.count = Taken(s1.count, r) /\ s2.tbl = Cleared(s1.tbl, r)
                          /\ s2.new = r
  BY <1>5, <1>10, GetBasePage
<1>12. PICK P2 : P2 = Ext(P1, <<q, 4, 0>>, r)
  OBVIOUS
<1>13. <<q, 4, 0>> \notin DOMAIN P1
  BY <1>8
<1>14. Forest(s2.count, s2.tbl, P2, A \cup {q})
  <2>1. \A l \in 0..4, k \in Nat : <<q, l, k>> \notin DOMAIN P1
    BY <1>8
  <2>2. 4 \in {4, 5} /\ (A \cup {q}) \cup {q} = A \cup {q}
    OBVIOUS
  <2>3. PICK B : B = A \cup {q}
    OBVIOUS
  <2>4. Forest(Taken(s1.count, r), Cleared(s1.tbl, r), Ext(P1, <<q, 4, 0>>, r), B \cup {q})
    BY <2>1, <2>2, <2>3, <1>7, <1>11, <1>13, Plant
  <2> QED BY <2>2, <2>3, <2>4, <1>11, <1>12
<1>15. /\ DOMAIN P2 = DOMAIN P1 \cup {<<q, 4, 0>>} /\ P2[<<q, 4, 0>>] = r
       /\ \A y \in DOMAIN P1 : P2[y] = P1[y]
  BY <1>12, <1>13 DEF Ext
<1>16. Cardinality(FreePages(s2.count)) = Cardinality(FreePages(s1.count)) - 1
  BY <1>11, <1>5, FreeTaken DEF Bases
<1>17. Cardinality(FreePages(s2.count)) >= Len(UserMap(size)) + Cardinality(TablesFor(size))
  BY <1>1, <1>2, <1>9, <1>16
<1>18. s1.new \in 0..NP /\ s2.new \in 0..NP
  BY <1>5, <1>11 DEF Bases
<1>19. DOMAIN P2 = DOMAIN P \cup {<<q, 5, 0>>, <<q, 4, 0>>}
  BY <1>8, <1>15
<1>20. (\A y \in DOMAIN P : P2[y] = P[y]) /\ P2[<<q, 5, 0>>] = s1.new /\ P2[<<q, 4, 0>>] = s2.new
  BY <1>5, <1>8, <1>11, <1>15
<1> QED BY <1>14, <1>17, <1>18, <1>19, <1>20 DEF Based

\* copy_process begins.
LEMMA CopyBeginStep ==
  ASSUME ~StaleMm, NEW P, Queue, Copying, Trees(P), Supply(P), NEW q \in Procs,
         NEW size \in Sizes, CopyBegin(q, size)
  PROVE \E P2 : Queue' /\ Copying' /\ Trees(P2)' /\ Supply(P2)'
<1>1. PICK s0 : s0 = [count |-> count, tbl |-> tbl, new |-> 0]
  OBVIOUS
<1>2. PICK s1 : s1 = get_free_page(s0)
  OBVIOUS
<1>3. PICK s2 : s2 = get_free_page(s1)
  OBVIOUS
<1>4. /\ copying = NULL /\ walk = 0 /\ proc[q].state = "none"
      /\ Cardinality({p \in Pages : count[p] = 0}) >= Needed(size)
      /\ copying' = [proc |-> q, todo |-> UserMap(size)]
      /\ ring' = ring /\ walk' = walk
  BY DEF CopyBegin, Idle
<1>5. PICK mm \in Mm :
        /\ count' = s2.count /\ tbl' = s2.tbl
        /\ proc' = [proc EXCEPT ![q] = [mm EXCEPT !.state = "new", !.page = s1.new,
                                                  !.pgd = s2.new, !.size = size]]
  BY <1>1, <1>2, <1>3 DEF CopyBegin
<1>6. mm = none
  BY <1>5 DEF Mm
<1>7. proc \in [Procs -> Mems] /\ ring \in Seq(Procs)
  BY DEF Queue
<1>8. ~InQueue(q)
  BY <1>4 DEF Queue
<1>9. q \notin Alive /\ q \notin Removed
  BY <1>4, <1>8 DEF Alive, Removed
<1>10. PICK P2 :
          /\ Forest(s2.count, s2.tbl, P2, Alive \cup {q})
          /\ DOMAIN P2 = DOMAIN P \cup {<<q, 5, 0>>, <<q, 4, 0>>}
          /\ \A y \in DOMAIN P : P2[y] = P[y]
          /\ P2[<<q, 5, 0>>] = s1.new /\ P2[<<q, 4, 0>>] = s2.new
          /\ s1.new \in 0..NP /\ s2.new \in 0..NP
          /\ Cardinality(FreePages(s2.count))
               >= Len(UserMap(size)) + Cardinality(TablesFor(size))
  <2>1. PICK A : A = Alive
    OBVIOUS
  <2>2. PICK c, t : c = count /\ t = tbl
    OBVIOUS
  <2>3. Forest(c, t, P, A)
    BY <2>1, <2>2 DEF Trees
  <2>4. Cardinality(FreePages(c)) >= Needed(size)
    BY <2>2, <1>4 DEF FreePages
  <2>5. \A l, k : <<q, l, k>> \notin DOMAIN P
    BY <1>9, NoNodes
  <2>6. s0 = [count |-> c, tbl |-> t, new |-> 0]
    BY <1>1, <2>2
  <2>7. PICK P2 : Based(P, P2, A, q, size, s1, s2)
    BY <2>3, <2>4, <2>5, <2>6, <1>2, <1>3, BaseTree
  <2> QED BY <2>1, <2>7 DEF Based
<1>11. \A l, k : <<q, l, k>> \notin DOMAIN P
  BY <1>9, NoNodes
<1>12. PICK new : new = [none EXCEPT !.state = "new", !.page = s1.new,
                                     !.pgd = s2.new, !.size = size]
  OBVIOUS
<1>13. /\ new.state = "new" /\ new.page = s1.new /\ new.pgd = s2.new /\ new.size = size
       /\ new.vma = [i \in 1..MAX_USER_PAGES |-> 0]
       /\ new.pgtbl_page = [i \in 1..MAX_PGTBL_PAGES |-> 0]
  BY <1>12 DEF none
<1>14. new \in Mems
  <2>1. [i \in 1..MAX_USER_PAGES |-> 0] \in [1..MAX_USER_PAGES -> 0..NP]
    BY ProcMemAssumption
  <2>2. [i \in 1..MAX_PGTBL_PAGES |-> 0] \in [1..MAX_PGTBL_PAGES -> 0..NP]
    BY ProcMemAssumption
  <2>3. size \in Nat
    BY ProcMemAssumption
  <2>4. DOMAIN new = {"state", "page", "pgd", "size", "vma", "pgtbl_page"}
    BY <1>12 DEF none
  <2> QED BY <2>1, <2>2, <2>3, <2>4, <1>10, <1>12, <1>13 DEF Mems, States, none
<1>15. proc' = [proc EXCEPT ![q] = new]
  BY <1>5, <1>6, <1>12
<1>16. proc' \in [Procs -> Mems] /\ proc'[q] = new /\ \A r \in Procs : r # q => proc'[r] = proc[r]
  BY <1>7, <1>14, <1>15
<1>17. Len(UserMap(size)) \in Nat \ {0} /\ UserMap(size) \in Seq(Nat)
  BY MapNumbers
<1>18. copying' # NULL /\ copying'.proc = q /\ copying'.todo = UserMap(size)
       /\ copying' \in [proc : Procs, todo : Seq(Nat)]
  BY <1>4, <1>17, ProcMemAssumption
<1>19. \A r \in Procs : InQueue(r)' <=> InQueue(r)
  BY <1>4 DEF InQueue
<1>20. Alive' = Alive \cup {q} /\ Removed' = Removed
  <2>1. Alive' = Alive \cup {q}
    BY <1>4, <1>18, <1>19 DEF Alive
  <2>2. Removed' = Removed
    BY <1>4, <1>13, <1>16, <1>19 DEF Removed
  <2> QED BY <2>1, <2>2
<1>21. PagesOf(q)' = 0 /\ \A r \in Alive : PagesOf(r)' = PagesOf(r)
  <2>1. PagesOf(q)' = 0
    BY <1>13, <1>16, <1>17, <1>18 DEF PagesOf
  <2>2. \A r \in Alive : r \in Procs /\ r # q /\ proc'[r] = proc[r]
    BY <1>9, <1>16 DEF Alive
  <2>3. \A r \in Alive : PagesOf(r)' = Len(UserMap(proc[r].size))
    BY <2>2, <1>18 DEF PagesOf
  <2>4. \A r \in Alive : PagesOf(r) = Len(UserMap(proc[r].size))
    BY <1>4 DEF PagesOf
  <2> QED BY <2>1, <2>3, <2>4
<1>22. GrewBy(P, P2, q)
  BY <1>10 DEF GrewBy
<1>23. Queue'
  <2>1. ASSUME NEW r \in Procs
        PROVE /\ InQueue(r)' => proc'[r].state \in {"running", "zombie"}
              /\ proc'[r].state = "running" => InQueue(r)'
    <3>1. CASE r = q
      BY <3>1, <1>8, <1>13, <1>16, <1>19
    <3>2. CASE r # q
      BY <3>2, <1>16, <1>19 DEF Queue
    <3> QED BY <3>1, <3>2
  <2>2. /\ \A i, j \in 1..Len(ring') : ring'[i] = ring'[j] => i = j
        /\ walk' \in Int /\ -1 <= walk' /\ walk' <= Len(ring')
    BY <1>4 DEF Queue
  <2> QED BY <2>1, <2>2, <1>4, <1>7, <1>16 DEF Queue
<1>24. Copying'
  BY <1>13, <1>16, <1>17, <1>18, <1>21 DEF Copying
<1>25. Nodes(P2, q, size, 0)
  <2> SUFFICES ASSUME NEW l \in 0..5, NEW k \in Nat
               PROVE <<q, l, k>> \in DOMAIN P2 <=> HasNode(l, k, size, 0)
    BY DEF Nodes
  <2>1. <<q, l, k>> \in DOMAIN P2 <=> (l = 5 \/ l = 4) /\ k = 0
    BY <1>10, <1>11
  <2> QED BY <2>1 DEF HasNode
<1>26. Listed(new.pgtbl_page, P2, q, 0)
  <2>1. \A l \in 1..3, k \in Nat : <<q, l, k>> \notin DOMAIN P2
    BY <1>10, <1>11
  <2> QED BY <2>1, <1>13, ProcMemAssumption DEF Listed
<1>27. Filled(new, P2, q, 0)
  BY <1>10, <1>13 DEF Filled
<1>28. Tree(new, P2, q, 0)
  BY <1>13, <1>17, <1>25, <1>26, <1>27 DEF Tree
<1>29. Enough(count', P2, q, size, Len(UserMap(size)), 0)
  <2>1. \A y \in TablesFor(size) : <<q, y[1], y[2]>> \notin DOMAIN P2
    <3> TAKE y \in TablesFor(size)
    <3>1. PICK l \in 1..3, i \in 1..Len(UserMap(size)) : y = <<l, Num(size, i, l)>>
      BY TablesFinite
    <3>2. y[1] = l /\ l # 4 /\ l # 5
      BY <3>1
    <3> QED BY <3>2, <1>10, <1>11
  <2>2. Missing(P2, q, size) = TablesFor(size)
    BY <2>1 DEF Missing
  <2>3. 0 + Cardinality(TablesFor(size)) <= MAX_PGTBL_PAGES
    BY TablesFinite
  <2> QED BY <2>2, <2>3, <1>5, <1>10 DEF Enough
<1>30. Supply(P2)'
  <2>1. /\ Listed(proc'[q].pgtbl_page, P2, q, 0)
        /\ Enough(count', P2, q, proc'[q].size, Len(copying'.todo), 0)
    BY <1>13, <1>16, <1>18, <1>26, <1>29
  <2>2. 0 \in Nat
    OBVIOUS
  <2> QED BY <2>1, <2>2, <1>18 DEF Supply
<1>31. Trees(P2)'
  <2>1. Forest(count, tbl, P2, Alive)'
    BY <1>5, <1>10, <1>20
  <2>2. \A x \in DOMAIN P2 : \E r \in Alive' \cup Removed', l \in 0..5, k \in Nat : x = <<r, l, k>>
    <3> TAKE x \in DOMAIN P2
    <3>1. CASE x \in DOMAIN P
      <4>1. PICK r \in Alive \cup Removed, l \in 0..5, k \in Nat : x = <<r, l, k>>
        BY <3>1 DEF Trees
      <4>2. r \in Alive' \cup Removed'
        BY <1>20
      <4> QED BY <4>1, <4>2
    <3>2. CASE x = <<q, 5, 0>> \/ x = <<q, 4, 0>>
      <4>1. q \in Alive' \cup Removed'
        BY <1>20
      <4>2. 0 \in Nat /\ 4 \in 0..5 /\ 5 \in 0..5
        OBVIOUS
      <4> QED BY <3>2, <4>1, <4>2
    <3> QED BY <3>1, <3>2, <1>10
  <2>3. ASSUME NEW r \in Alive' PROVE Tree(proc'[r], P2, r, PagesOf(r)')
    <3>1. CASE r = q
      BY <3>1, <1>16, <1>21, <1>28
    <3>2. CASE r # q
      <4>1. r \in Alive /\ r \in Procs
        BY <3>2, <2>3, <1>20 DEF Alive
      <4>2. Tree(proc[r], P, r, PagesOf(r)) /\ Agree(P, P2, r)
        BY <4>1, <3>2, <1>22, AgreeGrew DEF Trees
      <4>3. SameTree(proc[r], proc'[r])
        BY <4>1, <3>2, <1>16 DEF SameTree
      <4> QED BY <4>1, <4>2, <4>3, <1>21, TreeKept
    <3> QED BY <3>1, <3>2
  <2>4. ASSUME NEW r \in Removed' PROVE Stump(proc'[r], P2, r)
    <3>1. r \in Removed /\ r \in Procs /\ r # q
      BY <2>4, <1>9, <1>20 DEF Removed
    <3>2. Stump(proc[r], P, r) /\ Agree(P, P2, r)
      BY <3>1, <1>22, AgreeGrew DEF Trees
    <3>3. SameTree(proc[r], proc'[r])
      BY <3>1, <1>16 DEF SameTree
    <3> QED BY <3>2, <3>3, StumpKept
  <2> QED BY <2>1, <2>2, <2>3, <2>4 DEF Trees
<1> QED BY <1>23, <1>24, <1>30, <1>31

\* copy_process maps one page.
LEMMA CopyPageStep ==
  ASSUME NEW P, Queue, Copying, Trees(P), Supply(P), CopyPage
  PROVE \E P2 : Queue' /\ Copying' /\ Trees(P2)' /\ Supply(P2)'
<1>1. PICK q, todo, mm : q = copying.proc /\ todo = copying.todo /\ mm = proc[q]
  OBVIOUS
<1>2. PICK s : s = alloc_user_page(Head(todo), mm)
  OBVIOUS
<1>3. /\ copying # NULL /\ todo # << >>
      /\ count' = s.count /\ tbl' = s.tbl /\ proc' = [proc EXCEPT ![q] = s.mm]
      /\ copying' = [copying EXCEPT !.todo = Tail(@)]
      /\ ring' = ring /\ walk' = walk
  BY <1>1, <1>2 DEF CopyPage
<1>4. /\ copying \in [proc : Procs, todo : Seq(Nat)] /\ q \in Procs /\ todo \in Seq(Nat)
      /\ mm.state = "new"
  BY <1>1, <1>3 DEF Copying
<1>5. proc \in [Procs -> Mems] /\ mm \in Mems /\ ring \in Seq(Procs) /\ walk = 0
  BY <1>1, <1>3, <1>4 DEF Queue
<1>6. /\ Len(todo) \in Nat /\ Len(todo) >= 1 /\ Head(todo) = todo[1]
      /\ Tail(todo) \in Seq(Nat) /\ Len(Tail(todo)) = Len(todo) - 1
      /\ \A i \in 1..Len(Tail(todo)) : Tail(todo)[i] = todo[i + 1]
  BY <1>3, <1>4, HeadTailProperties
<1>7. q \in Alive
  BY <1>1, <1>3, <1>4 DEF Alive
<1>8. PICK A : A = Alive
  OBVIOUS
<1>9. PICK n : n = PagesOf(q)
  OBVIOUS
<1>10. Tree(mm, P, q, n) /\ Forest(count, tbl, P, A)
  BY <1>1, <1>7, <1>8, <1>9 DEF Trees
<1>11. mm.size \in Sizes /\ n \in Nat /\ n <= Len(UserMap(mm.size))
  BY <1>10 DEF Tree
<1>12. n = Len(UserMap(mm.size)) - Len(todo) /\ Len(UserMap(mm.size)) \in Nat
  BY <1>1, <1>3, <1>9, <1>11, MapNumbers DEF PagesOf
<1>13. n < Len(UserMap(mm.size))
  BY <1>6, <1>12
<1>14. \A i \in 1..Len(todo) : todo[i] = UserMap(mm.size)[n + i]
  BY <1>1, <1>3, <1>9 DEF Copying
<1>15. s = alloc_user_page(UserMap(mm.size)[n + 1], mm)
  BY <1>2, <1>6, <1>14
<1>16. PICK m \in Nat : /\ Listed(mm.pgtbl_page, P, q, m)
                        /\ Enough(count, P, q, mm.size, Len(todo), m)
  BY <1>1, <1>3 DEF Supply
<1>17. PICK w : w = Len(todo)
  OBVIOUS
<1>18. Ready(count, tbl, mm, P, A, q, n, w, m)
  BY <1>5, <1>10, <1>16, <1>17 DEF Ready, Tree
<1>19. PICK P2, m2 :
          /\ m2 \in Nat /\ Ready(s.count, s.tbl, s.mm, P2, A, q, n + 1, w - 1, m2)
          /\ GrewBy(P, P2, q) /\ s.mm.state = mm.state /\ s.mm.size = mm.size
  <2>1. q \in A /\ w \in Nat /\ w >= 1
    BY <1>6, <1>7, <1>8, <1>17
  <2>2. \E P2, m2 : PageAdded(s, mm, P, P2, A, q, n, w, m2)
    BY <2>1, <1>11, <1>13, <1>15, <1>16, <1>18, AllocUserPage
  <2> QED BY <2>2 DEF PageAdded
<1>20. /\ s.mm \in Mems /\ Forest(s.count, s.tbl, P2, A)
       /\ Listed(s.mm.pgtbl_page, P2, q, m2) /\ Enough(s.count, P2, q, mm.size, w - 1, m2)
       /\ Filled(s.mm, P2, q, n + 1) /\ Nodes(P2, q, mm.size, n + 1)
  BY <1>19 DEF Ready
<1>21. /\ proc' \in [Procs -> Mems] /\ proc'[q] = s.mm
       /\ \A r \in Procs : r # q => proc'[r] = proc[r]
  BY <1>3, <1>4, <1>5, <1>20
<1>22. /\ copying' \in [proc : Procs, todo : Seq(Nat)] /\ copying'.proc = q
       /\ copying'.todo = Tail(todo) /\ copying' # NULL
  <2>1. /\ copying' \in [proc : Procs, todo : Seq(Nat)] /\ copying'.proc = q
        /\ copying'.todo = Tail(todo)
    BY <1>1, <1>3, <1>4, <1>6
  <2> QED BY <2>1, ProcMemAssumption
<1>23. \A r \in Procs : InQueue(r)' <=> InQueue(r)
  BY <1>3 DEF InQueue
<1>24. Alive' = Alive /\ Removed' = Removed
  <2>1. Alive' = Alive
    BY <1>1, <1>3, <1>22, <1>23 DEF Alive
  <2>2. \A r \in Procs : proc'[r].state = proc[r].state
    BY <1>1, <1>19, <1>21
  <2>3. Removed' = Removed
    BY <2>2, <1>23 DEF Removed
  <2> QED BY <2>1, <2>3
<1>25. PagesOf(q)' = n + 1
  BY <1>6, <1>12, <1>19, <1>21, <1>22 DEF PagesOf
<1>26. \A r \in Alive : r # q => PagesOf(r)' = PagesOf(r)
  <2>1. \A r \in Alive : r # q => proc'[r] = proc[r]
    BY <1>21 DEF Alive
  <2> QED BY <2>1, <1>1, <1>22 DEF PagesOf
<1>27. Queue'
  <2>1. ASSUME NEW r \in Procs
        PROVE /\ InQueue(r)' => proc'[r].state \in {"running", "zombie"}
              /\ proc'[r].state = "running" => InQueue(r)'
    <3>1. proc'[r].state = proc[r].state
      BY <1>1, <1>19, <1>21
    <3> QED BY <3>1, <1>23 DEF Queue
  <2>2. /\ \A i, j \in 1..Len(ring') : ring'[i] = ring'[j] => i = j
        /\ walk' \in Int /\ -1 <= walk' /\ walk' <= Len(ring')
    BY <1>3 DEF Queue
  <2> QED BY <2>1, <2>2, <1>3, <1>5, <1>21 DEF Queue
<1>28. Copying'
  <2>1. \A i \in 1..Len(Tail(todo)) : Tail(todo)[i] = UserMap(mm.size)[(n + 1) + i]
    <3> TAKE i \in 1..Len(Tail(todo))
    <3>1. i + 1 \in 1..Len(todo) /\ n + (i + 1) = (n + 1) + i
      BY <1>6, <1>11
    <3>2. todo[i + 1] = UserMap(mm.size)[n + (i + 1)]
      BY <3>1, <1>14
    <3> QED BY <3>1, <3>2, <1>6
  <2>2. proc'[q].state = "new" /\ proc'[q].size = mm.size
    BY <1>4, <1>19, <1>21
  <2> QED BY <2>1, <2>2, <1>22, <1>25 DEF Copying
<1>29. Supply(P2)'
  <2>1. Listed(proc'[q].pgtbl_page, P2, q, m2)
        /\ Enough(count', P2, q, proc'[q].size, Len(copying'.todo), m2)
    BY <1>3, <1>6, <1>17, <1>19, <1>20, <1>21, <1>22
  <2> QED BY <2>1, <1>19, <1>22 DEF Supply
<1>30. Tree(s.mm, P2, q, n + 1)
  <2>1. n + 1 \in Nat /\ n + 1 <= Len(UserMap(mm.size))
    BY <1>11, <1>12, <1>13
  <2> QED BY <2>1, <1>11, <1>19, <1>20 DEF Tree
<1>31. Trees(P2)'
  <2>1. Forest(count, tbl, P2, Alive)'
    BY <1>3, <1>8, <1>20, <1>24
  <2>2. \A x \in DOMAIN P2 : \E r \in Alive' \cup Removed', l \in 0..5, k \in Nat : x = <<r, l, k>>
    <3> TAKE x \in DOMAIN P2
    <3>1. CASE x \in DOMAIN P
      <4>1. PICK r \in Alive \cup Removed, l \in 0..5, k \in Nat : x = <<r, l, k>>
        BY <3>1 DEF Trees
      <4> QED BY <4>1, <1>24
    <3>2. CASE x \notin DOMAIN P
      <4>1. PICK l \in 0..5, k \in Nat : x = <<q, l, k>>
        BY <3>2, <1>19 DEF GrewBy
      <4>2. q \in Alive' \cup Removed'
        BY <1>7, <1>24
      <4> QED BY <4>1, <4>2
    <3> QED BY <3>1, <3>2
  <2>3. ASSUME NEW r \in Alive' PROVE Tree(proc'[r], P2, r, PagesOf(r)')
    <3>1. CASE r = q
      BY <3>1, <1>21, <1>25, <1>30
    <3>2. CASE r # q
      <4>1. r \in Alive /\ r \in Procs
        BY <3>2, <2>3, <1>24 DEF Alive
      <4>2. Tree(proc[r], P, r, PagesOf(r)) /\ Agree(P, P2, r)
        BY <4>1, <3>2, <1>19, AgreeGrew DEF Trees
      <4>3. SameTree(proc[r], proc'[r])
        BY <4>1, <3>2, <1>21 DEF SameTree
      <4> QED BY <3>2, <4>1, <4>2, <4>3, <1>26, TreeKept
    <3> QED BY <3>1, <3>2
  <2>4. ASSUME NEW r \in Removed' PROVE Stump(proc'[r], P2, r)
    <3>1. r \in Removed /\ r \in Procs /\ r # q
      BY <2>4, <1>1, <1>4, <1>24 DEF Removed
    <3>2. Stump(proc[r], P, r) /\ Agree(P, P2, r)
      BY <3>1, <1>19, AgreeGrew DEF Trees
    <3>3. SameTree(proc[r], proc'[r])
      BY <3>1, <1>21 DEF SameTree
    <3> QED BY <3>2, <3>3, StumpKept
  <2> QED BY <2>1, <2>2, <2>3, <2>4 DEF Trees
<1> QED BY <1>27, <1>28, <1>29, <1>31

(***************************************************************************)
(* delete_process                                                          *)
(***************************************************************************)
\* list_del takes the process out of the queue and no other.
LEMMA UnlinkedRing ==
  ASSUME ring \in Seq(Procs), \A i, j \in 1..Len(ring) : ring[i] = ring[j] => i = j,
         NEW q, InQueue(q), NEW new, new = Unlinked(q)
  PROVE /\ new \in Seq(Procs) /\ Len(new) = Len(ring) - 1
        /\ \A i, j \in 1..Len(new) : new[i] = new[j] => i = j
        /\ \A r : (\E i \in DOMAIN new : new[i] = r) <=> InQueue(r) /\ r # q
<1>1. PICK n : n = Len(ring)
  OBVIOUS
<1>2. n \in Nat /\ DOMAIN ring = 1..n
  BY <1>1
<1>3. PICK at : at = CHOOSE i \in DOMAIN ring : ring[i] = q
  OBVIOUS
<1>4. at \in 1..n /\ ring[at] = q
  BY <1>2, <1>3 DEF InQueue
<1>5. new = [i \in 1..(n - 1) |-> IF i < at THEN ring[i] ELSE ring[i + 1]]
  BY <1>1, <1>3 DEF Unlinked
<1>6. n - 1 \in Nat
  BY <1>2, <1>4
<1>7. \A i \in 1..(n - 1) : new[i] = IF i < at THEN ring[i] ELSE ring[i + 1]
  BY <1>5
<1>8. \A i \in 1..(n - 1) : i \in 1..n /\ i + 1 \in 1..n
  BY <1>2
<1>9. new \in Seq(Procs) /\ Len(new) = n - 1 /\ DOMAIN new = 1..(n - 1)
  <2>1. \A i \in 1..n : ring[i] \in Procs
    BY <1>1
  <2>2. new \in [1..(n - 1) -> Procs]
    BY <2>1, <1>5, <1>8
  <2> QED BY <2>2, <1>6
<1>10. ASSUME NEW i \in 1..(n - 1), NEW j \in 1..(n - 1), new[i] = new[j] PROVE i = j
  <2>1. \A a, b \in 1..n : ring[a] = ring[b] => a = b
    BY <1>1
  <2>2. PICK a : a = IF i < at THEN i ELSE i + 1
    OBVIOUS
  <2>3. PICK b : b = IF j < at THEN j ELSE j + 1
    OBVIOUS
  <2>4. a \in 1..n /\ b \in 1..n /\ new[i] = ring[a] /\ new[j] = ring[b]
    BY <1>7, <1>8, <2>2, <2>3
  <2>5. a = b
    BY <2>1, <2>4, <1>10
  <2> QED BY <2>2, <2>3, <2>5, <1>4, <1>2
<1>11. ASSUME NEW r PROVE (\E i \in DOMAIN new : new[i] = r) <=> InQueue(r) /\ r # q
  <2>1. ASSUME NEW i \in 1..(n - 1), new[i] = r PROVE InQueue(r) /\ r # q
    <3>1. PICK a : a = IF i < at THEN i ELSE i + 1
      OBVIOUS
    <3>2. a \in 1..n /\ ring[a] = r /\ a # at
      BY <3>1, <2>1, <1>7, <1>8, <1>4
    <3> QED BY <3>2, <1>1, <1>2, <1>4 DEF InQueue
  <2>2. ASSUME InQueue(r), r # q PROVE \E i \in 1..(n - 1) : new[i] = r
    <3>1. PICK a \in 1..n : ring[a] = r
      BY <2>2, <1>2 DEF InQueue
    <3>2. a # at
      BY <3>1, <2>2, <1>4
    <3>3. CASE a < at
      <4>1. a \in 1..(n - 1)
        BY <3>3, <1>4, <1>2
      <4> QED BY <4>1, <3>1, <3>3, <1>7
    <3>4. CASE a > at
      <4>1. a - 1 \in 1..(n - 1) /\ ~(a - 1 < at) /\ (a - 1) + 1 = a
        BY <3>4, <1>4, <1>2
      <4> QED BY <4>1, <3>1, <1>7
    <3> QED BY <3>2, <3>3, <3>4, <1>4, <1>2
  <2> QED BY <2>1, <2>2, <1>9
<1> QED BY <1>1, <1>9, <1>10, <1>11

\* A set without members, and one with a single member.
LEMMA CountOne ==
  ASSUME NEW S
  PROVE /\ S = {} => Cardinality(S) = 0
        /\ \A x : S = {x} => Cardinality(S) = 1
BY FS_EmptySet, FS_Singleton

\* The vma entries up to the first empty one are all user pages.
AllUser(mm, P, q, n) ==
  /\ UserPart(mm) = 1..n /\ n \in Nat /\ n <= MAX_USER_PAGES
  /\ \A i \in 1..n : /\ Num(mm.size, i, 0) \in Nat
                     /\ <<q, 0, Num(mm.size, i, 0)>> \in DOMAIN P
                     /\ mm.vma[i] = P[<<q, 0, Num(mm.size, i, 0)>>]

\* So delete_process finds every user page.
LEMMA UserPartAll ==
  ASSUME NEW mm, NEW P, NEW q, NEW n, Tree(mm, P, q, n), NEW c, Placed(c, P)
  PROVE AllUser(mm, P, q, n)
<1>1. /\ mm.size \in Sizes /\ n \in Nat /\ n <= Len(UserMap(mm.size))
      /\ Nodes(P, q, mm.size, n) /\ Filled(mm, P, q, n)
  BY DEF Tree
<1>2. MAX_USER_PAGES \in Nat /\ n <= MAX_USER_PAGES /\ Len(UserMap(mm.size)) \in Nat
  <2>1. Len(UserMap(mm.size)) \in Nat /\ Len(UserMap(mm.size)) <= MAX_USER_PAGES
    BY <1>1, MapNumbers
  <2> QED BY <2>1, <1>1, ProcMemAssumption
<1>3. ASSUME NEW i \in 1..n
      PROVE /\ Num(mm.size, i, 0) \in Nat
            /\ <<q, 0, Num(mm.size, i, 0)>> \in DOMAIN P
            /\ mm.vma[i] = P[<<q, 0, Num(mm.size, i, 0)>>]
  <2>1. i \in 1..Len(UserMap(mm.size)) /\ i \in 1..MAX_USER_PAGES
    BY <1>1, <1>2
  <2>2. Num(mm.size, i, 0) \in Nat
    BY <2>1, <1>1, MapNumbers
  <2>3. <<q, 0, Num(mm.size, i, 0)>> \in DOMAIN P
    BY <2>2, <1>1 DEF Nodes, HasNode
  <2> QED BY <2>1, <2>2, <2>3, <1>1 DEF Filled
<1>4. \A i \in 1..n : mm.vma[i] # 0
  <2>1. \A x \in DOMAIN P : P[x] # 0
    BY ProcMemAssumption DEF Placed, Pages
  <2> QED BY <1>3, <2>1
<1>5. \A i \in 1..MAX_USER_PAGES : i > n => mm.vma[i] = 0
  <2> TAKE i \in 1..MAX_USER_PAGES
  <2> HAVE i > n
  <2>1. ~(i <= n)
    BY <1>1
  <2> QED BY <2>1, <1>1 DEF Filled
<1>6. ASSUME NEW i \in 1..MAX_USER_PAGES PROVE (\A j \in 1..i : mm.vma[j] # 0) <=> i <= n
  <2>1. CASE i <= n
    BY <2>1, <1>1, <1>4
  <2>2. CASE i > n
    <3>1. i \in 1..i /\ mm.vma[i] = 0
      BY <2>2, <1>5
    <3> QED BY <3>1, <2>2, <1>1
  <2> QED BY <2>1, <2>2, <1>1
<1>7. UserPart(mm) = 1..n
  BY <1>1, <1>2, <1>6 DEF UserPart
<1> QED BY <1>1, <1>2, <1>3, <1>7 DEF AllUser

\* What delete_process does to the counts: each page of the process but its
\* first table is free.
Releases(P, q, c, d) ==
  /\ d \in [Pages -> 0..1]
  /\ \A p \in Pages : (\E x \in DOMAIN P \ Kept(P, q) : P[x] = p) => d[p] = 0
  /\ \A p \in Pages : ~(\E x \in DOMAIN P \ Kept(P, q) : P[x] = p) => d[p] = c[p]

\* delete_process frees each page of the process once, but for the first
\* table.
LEMMA FreedPages ==
  ASSUME NEW P, NEW A, NEW q, NEW n, proc[q] \in Mems, Tree(proc[q], P, q, n),
         Forest(count, tbl, P, A)
  PROVE Releases(P, q, count, Freed(q))
<1>a. PICK mm, d : mm = proc[q] /\ d = Freed(q)
  OBVIOUS
<1>b. mm \in Mems /\ Tree(mm, P, q, n)
  BY <1>a
<1>1. /\ Placed(count, P) /\ count \in [Pages -> 0..1]
  BY DEF Forest, PageTypes
<1>2. \A x, y \in DOMAIN P : P[x] = P[y] => x = y
  BY <1>1 DEF Placed
<1>3. /\ UserPart(mm) = 1..n /\ n \in Nat /\ n <= MAX_USER_PAGES
      /\ \A i \in 1..n : /\ Num(mm.size, i, 0) \in Nat
                         /\ <<q, 0, Num(mm.size, i, 0)>> \in DOMAIN P
                         /\ mm.vma[i] = P[<<q, 0, Num(mm.size, i, 0)>>]
  <2>1. PICK c : c = count
    OBVIOUS
  <2>2. Placed(c, P)
    BY <1>1, <2>1
  <2>3. AllUser(mm, P, q, n)
    BY <1>b, <2>2, UserPartAll
  <2> QED BY <2>3 DEF AllUser
<1>4. /\ mm.size \in Sizes /\ n <= Len(UserMap(mm.size))
      /\ Nodes(P, q, mm.size, n) /\ Filled(mm, P, q, n)
  BY <1>b DEF Tree
<1>5. PICK m : Listed(mm.pgtbl_page, P, q, m)
  BY <1>b DEF Tree
<1>6. mm.page = P[<<q, 5, 0>>] /\ <<q, 5, 0>> \in DOMAIN P
  BY <1>4 DEF Filled, Nodes, HasNode
<1> DEFINE U(p) == {i \in 1..n : mm.vma[i] = p}
<1> DEFINE V(p) == {i \in 1..MAX_PGTBL_PAGES : mm.pgtbl_page[i] = p}
<1> DEFINE T(p) == IF mm.page = p THEN 1 ELSE 0
<1>7. d = [p \in Pages |-> count[p] - Cardinality(U(p)) - Cardinality(V(p)) - T(p)]
  BY <1>a, <1>3 DEF Freed
<1>8. ASSUME NEW p \in Pages, NEW x \in DOMAIN P, P[x] = p
      PROVE /\ \A i \in U(p) : x = <<q, 0, Num(mm.size, i, 0)>>
            /\ \A i \in V(p) : \E l \in 1..3, k \in Nat : x = <<q, l, k>>
            /\ T(p) = 1 => x = <<q, 5, 0>>
  <2>1. \A i \in U(p) : x = <<q, 0, Num(mm.size, i, 0)>>
    <3> TAKE i \in U(p)
    <3>1. i \in 1..n /\ mm.vma[i] = p
      OBVIOUS
    <3>2. <<q, 0, Num(mm.size, i, 0)>> \in DOMAIN P /\ P[<<q, 0, Num(mm.size, i, 0)>>] = p
      BY <3>1, <1>3
    <3> QED BY <3>2, <1>2, <1>8
  <2>2. \A i \in V(p) : \E l \in 1..3, k \in Nat : x = <<q, l, k>>
    <3> TAKE i \in V(p)
    <3>1. mm.pgtbl_page[i] = p /\ p # 0 /\ i \in 1..MAX_PGTBL_PAGES
      BY ProcMemAssumption DEF Pages
    <3>2. m \in Nat /\ i \in 1..m
      BY <3>1, <1>5, ProcMemAssumption DEF Listed
    <3>3. PICK l \in 1..3, k \in Nat :
            <<q, l, k>> \in DOMAIN P /\ mm.pgtbl_page[i] = P[<<q, l, k>>]
      BY <3>2, <1>5 DEF Listed
    <3> QED BY <3>1, <3>3, <1>2, <1>8
  <2>3. T(p) = 1 => x = <<q, 5, 0>>
    BY <1>2, <1>6, <1>8
  <2> QED BY <2>1, <2>2, <2>3
<1>9. ASSUME NEW p \in Pages PROVE T(p) \in {0, 1} /\ (mm.page = p => T(p) = 1)
  OBVIOUS
<1>10. ASSUME NEW p \in Pages, NEW x \in DOMAIN P \ Kept(P, q), P[x] = p
       PROVE d[p] = 0
  <2>1. count[p] = 1
    BY <1>1, <1>10 DEF Placed
  <2>2. PICK l \in 0..5, k \in Nat : l # 4 /\ x = <<q, l, k>>
    BY <1>10 DEF Kept
  <2>3. x \in DOMAIN P
    BY <1>10
  <2>4. /\ \A i \in U(p) : x = <<q, 0, Num(mm.size, i, 0)>>
        /\ \A i \in V(p) : \E a \in 1..3, b \in Nat : x = <<q, a, b>>
        /\ T(p) = 1 => x = <<q, 5, 0>>
    BY <2>3, <1>8, <1>10
  <2>5. CASE l = 0
    <3>1. PICK i \in 1..n : k = Num(mm.size, i, 0)
      BY <2>2, <2>3, <2>5, <1>4 DEF Nodes, HasNode
    <3>2. i \in U(p)
      BY <3>1, <2>2, <2>5, <1>3, <1>10
    <3>3. ASSUME NEW j \in U(p) PROVE j = i
      <4>1. Num(mm.size, j, 0) = Num(mm.size, i, 0)
        BY <3>1, <3>3, <2>2, <2>4, <2>5
      <4>2. i \in 1..Len(UserMap(mm.size)) /\ j \in 1..Len(UserMap(mm.size))
        BY <1>3, <1>4, MapNumbers
      <4> QED BY <4>1, <4>2, <1>4, MapNumbers
    <3>4. U(p) = {i}
      BY <3>2, <3>3
    <3>5. V(p) = {}
      BY <2>2, <2>4, <2>5
    <3>6. T(p) = 0
      BY <2>2, <2>4, <2>5, <1>9
    <3>7. Cardinality(U(p)) = 1 /\ Cardinality(V(p)) = 0
      BY <3>4, <3>5, CountOne
    <3>8. d[p] = count[p] - Cardinality(U(p)) - Cardinality(V(p)) - T(p)
      BY <1>7
    <3> HIDE DEF U, V, T
    <3> QED BY <3>6, <3>7, <3>8, <2>1
  <2>6. CASE l \in 1..3
    <3>1. PICK i \in 1..m : mm.pgtbl_page[i] = p
      BY <2>2, <2>3, <2>6, <1>5, <1>10 DEF Listed
    <3>2. m \in Nat /\ m <= MAX_PGTBL_PAGES /\ MAX_PGTBL_PAGES \in Nat
      BY <1>5, ProcMemAssumption DEF Listed
    <3>3. i \in V(p)
      BY <3>1, <3>2
    <3>4. ASSUME NEW j \in V(p) PROVE j = i
      <4>1. mm.pgtbl_page[j] = p /\ p # 0 /\ j \in 1..MAX_PGTBL_PAGES
        BY <3>4, ProcMemAssumption DEF Pages
      <4>2. j \in 1..m
        BY <4>1, <3>2, <1>5 DEF Listed
      <4> QED BY <4>1, <4>2, <3>1, <1>5 DEF Listed
    <3>5. V(p) = {i}
      BY <3>3, <3>4
    <3>6. U(p) = {}
      BY <2>2, <2>4, <2>6
    <3>7. T(p) = 0
      BY <2>2, <2>4, <2>6, <1>9
    <3>8. Cardinality(U(p)) = 0 /\ Cardinality(V(p)) = 1
      BY <3>5, <3>6, CountOne
    <3>9. d[p] = count[p] - Cardinality(U(p)) - Cardinality(V(p)) - T(p)
      BY <1>7
    <3> HIDE DEF U, V, T
    <3> QED BY <3>7, <3>8, <3>9, <2>1
  <2>7. CASE l = 5
    <3>1. k = 0
      BY <2>2, <2>3, <2>7, <1>4 DEF Nodes, HasNode
    <3>2. mm.page = p
      BY <3>1, <2>2, <2>7, <1>6, <1>10
    <3>3. T(p) = 1
      BY <3>2, <1>9
    <3>4. U(p) = {}
      BY <2>2, <2>4, <2>7
    <3>5. V(p) = {}
      BY <2>2, <2>4, <2>7
    <3>6. Cardinality(U(p)) = 0 /\ Cardinality(V(p)) = 0
      BY <3>4, <3>5, CountOne
    <3>7. d[p] = count[p] - Cardinality(U(p)) - Cardinality(V(p)) - T(p)
      BY <1>7
    <3> HIDE DEF U, V, T
    <3> QED BY <3>3, <3>6, <3>7, <2>1
  <2> QED BY <2>2, <2>5, <2>6, <2>7
<1>11. ASSUME NEW p \in Pages, ~\E x \in DOMAIN P \ Kept(P, q) : P[x] = p
       PROVE d[p] = count[p]
  <2>1. \A l \in 0..5, k \in Nat : l # 4 /\ <<q, l, k>> \in DOMAIN P => P[<<q, l, k>>] # p
    <3> TAKE l \in 0..5, k \in Nat
    <3> HAVE l # 4 /\ <<q, l, k>> \in DOMAIN P
    <3>1. <<q, l, k>> \notin Kept(P, q)
      BY DEF Kept
    <3> QED BY <3>1, <1>11
  <2>2. U(p) = {}
    <3> SUFFICES ASSUME NEW i \in U(p) PROVE FALSE
      OBVIOUS
    <3>1. i \in 1..n /\ mm.vma[i] = p
      OBVIOUS
    <3>2. /\ Num(mm.size, i, 0) \in Nat /\ <<q, 0, Num(mm.size, i, 0)>> \in DOMAIN P
          /\ P[<<q, 0, Num(mm.size, i, 0)>>] = p
      BY <3>1, <1>3
    <3>3. 0 \in 0..5 /\ 0 # 4
      OBVIOUS
    <3> QED BY <3>2, <3>3, <2>1
  <2>3. V(p) = {}
    <3> SUFFICES ASSUME NEW i \in V(p) PROVE FALSE
      OBVIOUS
    <3>1. mm.pgtbl_page[i] = p /\ p # 0 /\ i \in 1..MAX_PGTBL_PAGES
      BY ProcMemAssumption DEF Pages
    <3>2. m \in Nat /\ i \in 1..m
      BY <3>1, <1>5, ProcMemAssumption DEF Listed
    <3>3. PICK l \in 1..3, k \in Nat :
            <<q, l, k>> \in DOMAIN P /\ mm.pgtbl_page[i] = P[<<q, l, k>>]
      BY <3>2, <1>5 DEF Listed
    <3> QED BY <3>1, <3>3, <2>1
  <2>4. T(p) = 0
    BY <2>1, <1>6
  <2>5. Cardinality(U(p)) = 0 /\ Cardinality(V(p)) = 0
    BY <2>2, <2>3, CountOne
  <2>6. d[p] = count[p] - Cardinality(U(p)) - Cardinality(V(p)) - T(p) /\ count[p] \in 0..1
    BY <1>1, <1>7
  <2> HIDE DEF U, V, T
  <2> QED BY <2>4, <2>5, <2>6
<1>12. d \in [Pages -> 0..1]
  <2>1. \A p \in Pages : d[p] \in 0..1
    BY <1>1, <1>10, <1>11
  <2>2. DOMAIN d = Pages /\ d = [p \in Pages |-> d[p]]
    BY <1>7
  <2> HIDE DEF U, V, T
  <2> QED BY <2>1, <2>2
<1> HIDE DEF U, V, T
<1> QED BY <1>a, <1>10, <1>11, <1>12 DEF Releases

\* delete_process takes a zombie out of the queue and frees its pages.
LEMMA DeleteStep ==
  ASSUME NEW P, Queue, Copying, Trees(P), copying = NULL, NEW q \in Procs, InQueue(q),
         proc[q].state = "zombie", delete_process(q), walk' \in {0, -1}
  PROVE \E P2 : Queue' /\ Copying' /\ Trees(P2)' /\ Supply(P2)'
<1>1. /\ count' = Freed(q) /\ ring' = Unlinked(q)
      /\ tbl' = tbl /\ proc' = proc /\ copying' = copying
  BY DEF delete_process
<1>2. /\ proc \in [Procs -> Mems] /\ ring \in Seq(Procs)
      /\ \A i, j \in 1..Len(ring) : ring[i] = ring[j] => i = j
  BY DEF Queue
<1>3. PICK new : new = ring'
  OBVIOUS
<1>4. /\ new \in Seq(Procs) /\ Len(new) = Len(ring) - 1
      /\ \A i, j \in 1..Len(new) : new[i] = new[j] => i = j
      /\ \A r : (\E i \in DOMAIN new : new[i] = r) <=> InQueue(r) /\ r # q
  BY <1>1, <1>2, <1>3, UnlinkedRing
<1>5. \A r \in Procs : InQueue(r)' <=> InQueue(r) /\ r # q
  <2> TAKE r \in Procs
  <2>1. InQueue(r)' <=> \E i \in DOMAIN new : new[i] = r
    BY <1>3 DEF InQueue
  <2> QED BY <2>1, <1>4
<1>6. q \in Alive
  BY DEF Alive
<1>7. Alive' = Alive \ {q}
  BY <1>1, <1>5 DEF Alive
<1>8. Removed' = Removed \cup {q}
  BY <1>1, <1>5 DEF Removed
<1>9. PICK A, n, mm, d : A = Alive /\ n = PagesOf(q) /\ mm = proc[q] /\ d = count'
  OBVIOUS
<1>10. Forest(count, tbl, P, A) /\ Tree(mm, P, q, n) /\ mm \in Mems
  BY <1>2, <1>6, <1>9 DEF Trees
<1>12. /\ d \in [Pages -> 0..1]
       /\ \A p \in Pages : (\E x \in DOMAIN P \ Kept(P, q) : P[x] = p) => d[p] = 0
       /\ \A p \in Pages : ~(\E x \in DOMAIN P \ Kept(P, q) : P[x] = p) => d[p] = count[p]
  <2>1. proc[q] \in Mems /\ Tree(proc[q], P, q, n)
    BY <1>9, <1>10
  <2>2. Releases(P, q, count, Freed(q))
    BY <2>1, <1>10, FreedPages
  <2> QED BY <2>2, <1>1, <1>9 DEF Releases
<1>13. PICK P2 : P2 = Pruned(P, q)
  OBVIOUS
<1>14. Forest(d, tbl, P2, A \ {q})
  <2>1. PICK c, t : c = count /\ t = tbl
    OBVIOUS
  <2>2. /\ Forest(c, t, P, A)
        /\ \A p \in Pages : ~(\E x \in DOMAIN P \ Kept(P, q) : P[x] = p) => d[p] = c[p]
    BY <2>1, <1>10, <1>12
  <2>3. Forest(d, t, Pruned(P, q), A \ {q})
    BY <2>2, <1>12, Prune
  <2> QED BY <2>1, <2>3, <1>13
<1>15. DOMAIN P2 = Kept(P, q) /\ \A x \in Kept(P, q) : P2[x] = P[x]
  BY <1>13 DEF Pruned
<1>16. Kept(P, q) \subseteq DOMAIN P
  BY DEF Kept
<1>17. Queue'
  <2>1. ASSUME NEW r \in Procs
        PROVE /\ InQueue(r)' => proc'[r].state \in {"running", "zombie"}
              /\ proc'[r].state = "running" => InQueue(r)'
    BY <1>1, <1>5 DEF Queue
  <2>2. walk' \in Int /\ -1 <= walk' /\ walk' <= Len(ring') /\ (walk' # 0 => copying' = NULL)
    <3>1. Len(new) \in Nat
      BY <1>4
    <3> QED BY <3>1, <1>1, <1>3
  <2>3. ring' \in Seq(Procs) /\ \A i, j \in 1..Len(ring') : ring'[i] = ring'[j] => i = j
    BY <1>3, <1>4
  <2> QED BY <2>1, <2>2, <2>3, <1>1, <1>2 DEF Queue
<1>18. Copying' /\ Supply(P2)'
  BY <1>1 DEF Copying, Supply
<1>19. Trees(P2)'
  <2>1. Forest(count, tbl, P2, Alive)'
    BY <1>1, <1>7, <1>9, <1>14
  <2>2. \A x \in DOMAIN P2 : \E r \in Alive' \cup Removed', l \in 0..5, k \in Nat : x = <<r, l, k>>
    <3> TAKE x \in DOMAIN P2
    <3>1. x \in DOMAIN P
      BY <1>15, <1>16
    <3>2. PICK r \in Alive \cup Removed, l \in 0..5, k \in Nat : x = <<r, l, k>>
      BY <3>1 DEF Trees
    <3>3. r \in Alive' \cup Removed'
      BY <1>7, <1>8
    <3> QED BY <3>2, <3>3
  <2>3. ASSUME NEW r \in Alive' PROVE Tree(proc'[r], P2, r, PagesOf(r)')
    <3>1. r \in Alive /\ r # q
      BY <2>3, <1>7
    <3>2. Tree(proc[r], P, r, PagesOf(r)) /\ Agree(P, P2, r)
      BY <3>1, <1>13, AgreePruned DEF Trees
    <3>3. PagesOf(r)' = PagesOf(r)
      BY <1>1 DEF PagesOf
    <3>4. SameTree(proc[r], proc'[r])
      BY <1>1 DEF SameTree
    <3> QED BY <3>2, <3>3, <3>4, TreeKept
  <2>4. ASSUME NEW r \in Removed' PROVE Stump(proc'[r], P2, r)
    <3>1. CASE r = q
      <4>1. Nodes(P, q, mm.size, n) /\ mm.pgd = P[<<q, 4, 0>>]
        BY <1>10 DEF Tree, Filled
      <4>2. ASSUME NEW l \in 0..5, NEW k \in Nat
            PROVE <<q, l, k>> \in DOMAIN P2 <=> l = 4 /\ k = 0
        <5>1. <<q, l, k>> \in DOMAIN P2 <=> <<q, l, k>> \in DOMAIN P /\ l = 4
          BY <1>15 DEF Kept
        <5>2. <<q, 4, k>> \in DOMAIN P <=> k = 0
          BY <4>1 DEF Nodes, HasNode
        <5> QED BY <5>1, <5>2
      <4>3. <<q, 4, 0>> \in DOMAIN P2
        BY <4>2
      <4>4. mm.pgd = P2[<<q, 4, 0>>]
        BY <4>1, <4>3, <1>15
      <4>5. Stump(mm, P2, q)
        BY <4>2, <4>4 DEF Stump
      <4> QED BY <3>1, <4>5, <1>1, <1>9
    <3>2. CASE r # q
      <4>1. r \in Removed
        BY <2>4, <3>2, <1>8
      <4>2. Stump(proc[r], P, r) /\ Agree(P, P2, r)
        BY <4>1, <3>2, <1>13, AgreePruned DEF Trees
      <4>3. SameTree(proc[r], proc'[r])
        BY <1>1 DEF SameTree
      <4> QED BY <4>2, <4>3, StumpKept
    <3> QED BY <3>1, <3>2
  <2> QED BY <2>1, <2>2, <2>3, <2>4 DEF Trees
<1> QED BY <1>17, <1>18, <1>19

\* A step of clear_zombie.
LEMMA ClearStep ==
  ASSUME NEW P, Queue, Copying, Trees(P), Supply(P), clear_zombie
  PROVE \E P2 : Queue' /\ Copying' /\ Trees(P2)' /\ Supply(P2)'
<1>1. walk \in Nat \ {0} /\ copying = NULL /\ walk <= Len(ring) /\ ring \in Seq(Procs)
  BY DEF clear_zombie, Queue
<1>2. Len(ring) \in Nat /\ DOMAIN ring = 1..Len(ring)
  BY <1>1
<1>3. CASE walk \in DOMAIN ring /\ proc[ring[walk]].state = "zombie"
  <2>1. PICK q : q = ring[walk]
    OBVIOUS
  <2>2. q \in Procs /\ InQueue(q) /\ proc[q].state = "zombie"
    BY <2>1, <1>1, <1>2, <1>3 DEF InQueue
  <2>3. delete_process(q) /\ walk' \in {0, -1}
    BY <2>1, <1>3 DEF clear_zombie
  <2> QED BY <2>2, <2>3, <1>1, DeleteStep
<1>4. CASE ~(walk \in DOMAIN ring /\ proc[ring[walk]].state = "zombie")
  <2>1. /\ walk' = IF walk = Len(ring) THEN 0 ELSE walk + 1
        /\ count' = count /\ tbl' = tbl /\ proc' = proc /\ ring' = ring /\ copying' = copying
    BY <1>4 DEF clear_zombie
  <2>2. walk' \in Int /\ -1 <= walk' /\ walk' <= Len(ring)
    <3>1. PICK w, n, v : w = walk /\ n = Len(ring) /\ v = walk'
      OBVIOUS
    <3>2. w \in Nat /\ n \in Nat /\ w <= n /\ v = IF w = n THEN 0 ELSE w + 1
      BY <3>1, <2>1, <1>1, <1>2
    <3>3. v \in Int /\ -1 <= v /\ v <= n
      BY <3>2
    <3> QED BY <3>1, <3>3
  <2>3. Queue' /\ Copying' /\ Trees(P)' /\ Supply(P)'
    BY <2>1, <2>2, <1>1, WalkStep
  <2> QED BY <2>3
<1> QED BY <1>3, <1>4

\* Every step keeps the invariant.
LEMMA NextIInv ==
  ASSUME ~StaleMm, IInv, [Next]_vars
  PROVE IInv'
<1>1. PICK P : Queue /\ Copying /\ Trees(P) /\ Supply(P)
  BY DEF IInv
<1> SUFFICES \E P2 : Queue' /\ Copying' /\ Trees(P2)' /\ Supply(P2)'
  BY DEF IInv
<1>2. ASSUME NEW q \in Procs, Exit(q)
      PROVE \E P2 : Queue' /\ Copying' /\ Trees(P2)' /\ Supply(P2)'
  <2>1. Queue' /\ Copying' /\ Trees(P)' /\ Supply(P)'
    BY <1>1, <1>2, ExitStep
  <2> QED BY <2>1
<1>3. ASSUME NEW q \in Procs, Delete(q)
      PROVE \E P2 : Queue' /\ Copying' /\ Trees(P2)' /\ Supply(P2)'
  <2>1. /\ copying = NULL /\ InQueue(q) /\ proc[q].state = "zombie" /\ delete_process(q)
        /\ walk' \in {0, -1}
    BY <1>3 DEF Delete, Idle, InQueue
  <2> QED BY <1>1, <2>1, DeleteStep
<1>4. ASSUME NEW q \in Procs, NEW size \in Sizes, CopyBegin(q, size)
      PROVE \E P2 : Queue' /\ Copying' /\ Trees(P2)' /\ Supply(P2)'
  BY <1>1, <1>4, CopyBeginStep
<1>5. CASE CopyPage
  BY <1>1, <1>5, CopyPageStep
<1>6. CASE CopyEnd
  <2>1. Queue' /\ Copying' /\ Trees(P)' /\ Supply(P)'
    BY <1>1, <1>6, CopyEndStep
  <2> QED BY <2>1
<1>7. CASE ClearBegin
  <2>1. /\ copying = NULL /\ ring # << >> /\ walk' = 1
        /\ count' = count /\ tbl' = tbl /\ proc' = proc /\ ring' = ring /\ copying' = copying
    BY <1>7 DEF ClearBegin, Idle
  <2>2. ring \in Seq(Procs)
    BY <1>1 DEF Queue
  <2>3. walk' \in Int /\ -1 <= walk' /\ walk' <= Len(ring)
    BY <2>1, <2>2
  <2>4. Queue' /\ Copying' /\ Trees(P)' /\ Supply(P)'
    BY <2>1, <2>3, <1>1, WalkStep
  <2> QED BY <2>4
<1>8. CASE clear_zombie
  BY <1>1, <1>8, ClearStep
<1>9. CASE UNCHANGED vars
  <2>1. /\ count' = count /\ tbl' = tbl /\ proc' = proc /\ ring' = ring /\ copying' = copying
        /\ walk' = walk
    BY <1>9 DEF vars
  <2>2. walk' \in Int /\ -1 <= walk' /\ walk' <= Len(ring) /\ (walk' # 0 => copying = NULL)
    BY <2>1, <1>1 DEF Queue
  <2>3. Queue' /\ Copying' /\ Trees(P)' /\ Supply(P)'
    BY <2>1, <2>2, <1>1, WalkStep
  <2> QED BY <2>3
<1> QED BY <1>2, <1>3, <1>4, <1>5, <1>6, <1>7, <1>8, <1>9 DEF Next

\* So it always holds.
LEMMA InductiveInvariant == ~StaleMm => (Spec => []IInv)
<1> SUFFICES ASSUME ~StaleMm PROVE Spec => []IInv
  OBVIOUS
<1>1. Init => IInv
  BY InitIInv
<1>2. IInv /\ [Next]_vars => IInv'
  BY NextIInv
<1> QED BY <1>1, <1>2, PTL DEF Spec

(***************************************************************************)
(* What the MMU finds is the forest.                                       *)
(***************************************************************************)
\* The pages of a process on a level.
Level(P, q, l) == {P[<<q, l, k>>] : k \in {j \in Nat : <<q, l, j>> \in DOMAIN P}}

\* Every number is an entry of a table of the level above.
LEMMA KidOf ==
  ASSUME NEW k \in Nat
  PROVE \E j \in Nat, i \in Slots : k = Kid(j, i)
<1>1. FAN \in Nat /\ FAN > 1
  BY ProcMemAssumption
<1>2. PICK u, v : u = k \div FAN /\ v = k % FAN
  OBVIOUS
<1>3. u \in Nat /\ v \in Nat /\ v < FAN /\ k = FAN * u + v
  BY <1>1, <1>2
<1>4. v \in Slots
  BY <1>1, <1>3 DEF Slots
<1> QED BY <1>3, <1>4 DEF Kid

\* The entries of the tables of a level that are not empty are the pages of
\* the level below.
LEMMA BelowLevel ==
  ASSUME NEW P, NEW A, NEW q \in A, Forest(count, tbl, P, A), NEW l \in 1..4, NEW g, g = l - 1
  PROVE Below(Level(P, q, l)) = Level(P, q, g)
<1>1. /\ \A k \in Nat, i \in Slots :
           <<q, l, k>> \in DOMAIN P => tbl[P[<<q, l, k>>]][i] = Val(P, <<q, g, Kid(k, i)>>)
      /\ \A k \in Nat, i \in Slots :
           <<q, g, Kid(k, i)>> \in DOMAIN P => <<q, l, k>> \in DOMAIN P
  BY DEF Forest, Linked
<1>2. \A x \in DOMAIN P : P[x] # 0
  BY ProcMemAssumption DEF Forest, Placed, Pages
<1>3. ASSUME NEW p \in Below(Level(P, q, l)) PROVE p \in Level(P, q, g)
  <2>1. p # 0 /\ \E x \in Level(P, q, l), i \in Slots : p = tbl[x][i]
    BY <1>3 DEF Below, Slots
  <2>2. PICK x \in Level(P, q, l), i \in Slots : p = tbl[x][i]
    BY <2>1
  <2>3. PICK k \in Nat : <<q, l, k>> \in DOMAIN P /\ x = P[<<q, l, k>>]
    BY <2>2 DEF Level
  <2>4. p = Val(P, <<q, g, Kid(k, i)>>)
    BY <2>2, <2>3, <1>1
  <2>5. <<q, g, Kid(k, i)>> \in DOMAIN P /\ p = P[<<q, g, Kid(k, i)>>]
    BY <2>1, <2>4 DEF Val
  <2>6. Kid(k, i) \in Nat
    BY KidUnique
  <2> QED BY <2>5, <2>6 DEF Level
<1>4. ASSUME NEW p \in Level(P, q, g) PROVE p \in Below(Level(P, q, l))
  <2>1. PICK k \in Nat : <<q, g, k>> \in DOMAIN P /\ p = P[<<q, g, k>>]
    BY <1>4 DEF Level
  <2>2. PICK j \in Nat, i \in Slots : k = Kid(j, i)
    BY KidOf
  <2>3. <<q, l, j>> \in DOMAIN P
    BY <2>1, <2>2, <1>1
  <2>4. tbl[P[<<q, l, j>>]][i] = p /\ p # 0
    BY <2>1, <2>2, <2>3, <1>1, <1>2 DEF Val
  <2>5. P[<<q, l, j>>] \in Level(P, q, l)
    BY <2>3 DEF Level
  <2> QED BY <2>4, <2>5 DEF Below, Slots
<1> QED BY <1>3, <1>4

\* The tables and the user pages of a process that is there.
Reached(P, q) ==
  /\ Level(P, q, 4) = {proc[q].pgd} /\ Level(P, q, 5) = {proc[q].page}
  /\ Tables(q) = Level(P, q, 3) \cup Level(P, q, 2) \cup Level(P, q, 1)
  /\ Leaves(q) = Level(P, q, 0)

\* They are what the tables lead to.
LEMMA ReachedAll ==
  ASSUME NEW P, Trees(P), NEW q \in Alive
  PROVE Reached(P, q)
<1>1. PICK A : A = Alive
  OBVIOUS
<1>2. q \in A /\ Forest(count, tbl, P, A)
  BY <1>1 DEF Trees
<1>3. Nodes(P, q, proc[q].size, PagesOf(q)) /\ Filled(proc[q], P, q, PagesOf(q))
  BY DEF Trees, Tree
<1>4. \A l \in {4, 5}, k \in Nat : <<q, l, k>> \in DOMAIN P <=> k = 0
  BY <1>3 DEF Nodes, HasNode
<1>5. Level(P, q, 4) = {proc[q].pgd} /\ Level(P, q, 5) = {proc[q].page}
  BY <1>3, <1>4 DEF Filled, Level
<1>6. Below(Level(P, q, 4)) = Level(P, q, 3)
  BY <1>2, BelowLevel
<1>7. Below(Level(P, q, 3)) = Level(P, q, 2)
  BY <1>2, BelowLevel
<1>8. Below(Level(P, q, 2)) = Level(P, q, 1)
  BY <1>2, BelowLevel
<1>9. Below(Level(P, q, 1)) = Level(P, q, 0)
  BY <1>2, BelowLevel
<1> QED BY <1>5, <1>6, <1>7, <1>8, <1>9 DEF Reached, Tables, Leaves

\* The page of a node of the process.
NodeOf(P, q, p) == \E l \in 0..5, k \in Nat : <<q, l, k>> \in DOMAIN P /\ P[<<q, l, k>>] = p

\* All its pages are its nodes.
LEMMA OwnNodes ==
  ASSUME NEW P, NEW q, Reached(P, q), NEW p
  PROVE p \in Own(q) <=> NodeOf(P, q, p)
<1>1. Own(q) = UNION {Level(P, q, l) : l \in 0..5}
  <2>1. 0..5 = {0, 1, 2, 3, 4, 5}
    OBVIOUS
  <2> QED BY <2>1 DEF Reached, Own
<1>2. \A l : p \in Level(P, q, l) <=> \E k \in Nat : <<q, l, k>> \in DOMAIN P /\ P[<<q, l, k>>] = p
  BY DEF Level
<1> QED BY <1>1, <1>2 DEF NodeOf

(***************************************************************************)
(* Isolation.                                                              *)
(***************************************************************************)
\* The types.
LEMMA Types == ASSUME NEW P, Queue, Trees(P) PROVE TypeOK
<1>1. count \in [Pages -> 0..1] /\ tbl \in [Pages -> [Slots -> 0..NP]]
  BY DEF Trees, Forest, PageTypes
<1>2. \A q \in Procs : /\ proc[q].state \in {"none", "new", "running", "zombie"}
                       /\ proc[q].page \in 0..NP /\ proc[q].pgd \in 0..NP
  BY DEF Queue, Mems, States
<1>3. ring \in Seq(Procs) /\ walk \in Int /\ -1 <= walk /\ walk <= Len(ring)
  BY DEF Queue
<1>4. Len(ring) \in Nat /\ \A i \in DOMAIN ring : ring[i] \in Procs
  BY <1>3
<1>5. walk \in -1..Len(ring)
  BY <1>3, <1>4
<1> QED BY <1>1, <1>2, <1>4, <1>5 DEF TypeOK, Slots

\* The invariant implies isolation.
LEMMA InvIsolated == IInv => Isolated
<1> SUFFICES ASSUME IInv PROVE Isolated
  OBVIOUS
<1>1. PICK P : Queue /\ Copying /\ Trees(P) /\ Supply(P)
  BY DEF IInv
<1>2. /\ \A x \in DOMAIN P : P[x] \in Pages /\ count[P[x]] = 1
      /\ \A x, y \in DOMAIN P : P[x] = P[y] => x = y
  BY <1>1 DEF Trees, Forest, Placed
<1>3. \A q \in Alive : Reached(P, q)
  BY <1>1, ReachedAll
<1>4. \A q \in Alive : \A p \in Own(q) :
        \E l \in 0..5, k \in Nat : <<q, l, k>> \in DOMAIN P /\ P[<<q, l, k>>] = p
  <2> TAKE q \in Alive
  <2> TAKE p \in Own(q)
  <2>1. Reached(P, q)
    BY <1>3
  <2>2. NodeOf(P, q, p)
    BY <2>1, OwnNodes
  <2> QED BY <2>2 DEF NodeOf
<1>5. TypeOK
  BY <1>1, Types
<1>6. ASSUME NEW q \in Alive
      PROVE /\ \A p \in Own(q) : count[p] = 1
            /\ Leaves(q) \cap (Tables(q) \cup {proc[q].page, proc[q].pgd}) = {}
  <2>1. \A p \in Own(q) : count[p] = 1
    <3> TAKE p \in Own(q)
    <3>1. \E l \in 0..5, k \in Nat : <<q, l, k>> \in DOMAIN P /\ P[<<q, l, k>>] = p
      BY <1>4
    <3>2. PICK x \in DOMAIN P : P[x] = p
      BY <3>1
    <3> QED BY <3>2, <1>2
  <2>2. ASSUME NEW l \in 1..5, NEW p, p \in Level(P, q, 0), p \in Level(P, q, l)
        PROVE FALSE
    <3>1. PICK k \in Nat : <<q, 0, k>> \in DOMAIN P /\ p = P[<<q, 0, k>>]
      BY <2>2 DEF Level
    <3>2. PICK j \in Nat : <<q, l, j>> \in DOMAIN P /\ p = P[<<q, l, j>>]
      BY <2>2 DEF Level
    <3>3. <<q, 0, k>> = <<q, l, j>>
      BY <3>1, <3>2, <1>2
    <3> QED BY <3>3
  <2>3. Reached(P, q)
    BY <1>3
  <2>4. 1 \in 1..5 /\ 2 \in 1..5 /\ 3 \in 1..5 /\ 4 \in 1..5 /\ 5 \in 1..5
    OBVIOUS
  <2>5. Leaves(q) \cap (Tables(q) \cup {proc[q].page, proc[q].pgd}) = {}
    BY <2>2, <2>3, <2>4, Zenon DEF Reached
  <2> QED BY <2>1, <2>5
<1>7. ASSUME NEW q \in Alive, NEW r \in Alive, q # r PROVE Own(q) \cap Own(r) = {}
  <2> SUFFICES ASSUME NEW p \in Own(q), p \in Own(r) PROVE FALSE
    OBVIOUS
  <2>1. PICK l \in 0..5, k \in Nat : <<q, l, k>> \in DOMAIN P /\ P[<<q, l, k>>] = p
    BY <1>4
  <2>2. PICK g \in 0..5, j \in Nat : <<r, g, j>> \in DOMAIN P /\ P[<<r, g, j>>] = p
    BY <1>4
  <2>3. <<q, l, k>> = <<r, g, j>>
    BY <2>1, <2>2, <1>2
  <2> QED BY <2>3, <1>7
<1> QED BY <1>5, <1>6, <1>7 DEF Isolated

\* No page is used twice: what the tables of a process lead to is allocated,
\* is not one of its tables or its task page, and is not a page of any other
\* process, through copy_process, exit, delete_process and clear_zombie.
THEOREM IsolatedHolds == ~StaleMm => (Spec => []Isolated)
<1>1. IInv => Isolated
  BY InvIsolated
<1> QED BY <1>1, InductiveInvariant, PTL

\* The invariant implies that the pages in use are those of the processes.
LEMMA InvPagesAccounted == IInv => PagesAccounted
<1> SUFFICES ASSUME IInv PROVE PagesAccounted
  OBVIOUS
<1>1. PICK P : Queue /\ Copying /\ Trees(P) /\ Supply(P)
  BY DEF IInv
<1>2. Placed(count, P) /\ count \in [Pages -> 0..1]
  BY <1>1 DEF Trees, Forest, PageTypes
<1>3. \A q \in Alive : Reached(P, q)
  BY <1>1, ReachedAll
<1>4. ASSUME NEW p \in Pages, count[p] # 0
      PROVE p \in (UNION {Own(q) : q \in Alive}) \cup {proc[q].pgd : q \in Removed}
  <2>1. PICK x \in DOMAIN P : P[x] = p
    BY <1>2, <1>4 DEF Placed
  <2>2. PICK q \in Alive \cup Removed, l \in 0..5, k \in Nat : x = <<q, l, k>>
    BY <1>1 DEF Trees
  <2>3. CASE q \in Alive
    <3>1. p \in Own(q)
      <4>1. NodeOf(P, q, p)
        BY <2>1, <2>2 DEF NodeOf
      <4> QED BY <4>1, <2>3, <1>3, OwnNodes
    <3> QED BY <3>1, <2>3
  <2>4. CASE q \in Removed
    <3>1. Stump(proc[q], P, q)
      BY <2>4, <1>1 DEF Trees
    <3>2. l = 4 /\ k = 0 /\ proc[q].pgd = P[<<q, 4, 0>>]
      BY <3>1, <2>1, <2>2 DEF Stump
    <3>3. proc[q].pgd = p
      BY <3>2, <2>1, <2>2
    <3> QED BY <3>3, <2>4
  <2> QED BY <2>2, <2>3, <2>4
<1>5. ASSUME NEW q \in Alive, NEW p \in Own(q) PROVE p \in Pages /\ count[p] # 0
  <2>1. PICK l \in 0..5, k \in Nat : <<q, l, k>> \in DOMAIN P /\ P[<<q, l, k>>] = p
    <3>1. NodeOf(P, q, p)
      BY <1>3, OwnNodes
    <3> QED BY <3>1 DEF NodeOf
  <2> QED BY <2>1, <1>2 DEF Placed
<1>6. ASSUME NEW q \in Removed PROVE proc[q].pgd \in Pages /\ count[proc[q].pgd] # 0
  <2>1. Stump(proc[q], P, q)
    BY <1>1 DEF Trees
  <2>2. <<q, 4, 0>> \in DOMAIN P /\ proc[q].pgd = P[<<q, 4, 0>>]
    BY <2>1 DEF Stump
  <2> QED BY <2>2, <1>2 DEF Placed
<1>7. {p \in Pages : count[p] # 0} \subseteq
        (UNION {Own(q) : q \in Alive}) \cup {proc[q].pgd : q \in Removed}
  BY <1>4
<1>8. (UNION {Own(q) : q \in Alive}) \cup {proc[q].pgd : q \in Removed}
        \subseteq {p \in Pages : count[p] # 0}
  BY <1>5, <1>6
<1> QED BY <1>7, <1>8 DEF PagesAccounted

\* No page is lost: the pages in use are at all times those of the processes
\* there are, and the first tables of the processes that were removed, which
\* delete_process leaves behind.
THEOREM PagesAccountedHolds == ~StaleMm => (Spec => []PagesAccounted)
<1>1. IInv => PagesAccounted
  BY InvPagesAccounted
<1> QED BY <1>1, InductiveInvariant, PTL

(***************************************************************************)
(* The map of a process.                                                   *)
(***************************************************************************)
\* What the MMU finds for an address in one table.
Entry(a, t, l) == IF t = 0 THEN 0 ELSE tbl[t][Index(a, l)]

\* It is the page of the address on the level below.
LEMMA EntryLevel ==
  ASSUME NEW P, NEW A, NEW q \in A, Forest(count, tbl, P, A), NEW l \in 1..4, NEW g, g = l - 1,
         NEW a \in Nat
  PROVE Entry(a, Val(P, <<q, l, a \div Span(l)>>), g) = Val(P, <<q, g, a \div Span(g)>>)
<1>1. PICK k, i, j : k = a \div Span(l) /\ i = Index(a, g) /\ j = a \div Span(g)
  OBVIOUS
<1>2. k \in Nat /\ i \in Slots /\ j = Kid(k, i)
  <2>1. l \in Nat /\ 1 <= l /\ l <= 4
    OBVIOUS
  <2> QED BY <2>1, <1>1, Levels
<1>3. /\ <<q, l, k>> \in DOMAIN P => tbl[P[<<q, l, k>>]][i] = Val(P, <<q, g, j>>)
      /\ <<q, g, j>> \in DOMAIN P => <<q, l, k>> \in DOMAIN P
  BY <1>2 DEF Forest, Linked
<1>4. \A x \in DOMAIN P : P[x] # 0
  BY ProcMemAssumption DEF Forest, Placed, Pages
<1>5. PICK t : t = Val(P, <<q, l, k>>)
  OBVIOUS
<1>6. (IF t = 0 THEN 0 ELSE tbl[t][i]) = Val(P, <<q, g, j>>)
  <2>1. CASE <<q, l, k>> \in DOMAIN P
    <3>1. t = P[<<q, l, k>>] /\ t # 0
      BY <2>1, <1>4, <1>5 DEF Val
    <3> QED BY <3>1, <2>1, <1>3
  <2>2. CASE <<q, l, k>> \notin DOMAIN P
    BY <2>2, <1>3, <1>5 DEF Val
  <2> QED BY <2>1, <2>2
<1> QED BY <1>1, <1>5, <1>6 DEF Entry

\* The page of a user address is its node on level 0.
LEMMA WalkNode ==
  ASSUME NEW P, Trees(P), NEW q \in Alive, NEW a \in Nat, a < USER_MAX
  PROVE Walk(q, a) = Val(P, <<q, 0, a \div PAGE_SIZE>>)
<1>1. PICK A : A = Alive
  OBVIOUS
<1>2. q \in A /\ Forest(count, tbl, P, A)
  BY <1>1 DEF Trees
<1>3. Nodes(P, q, proc[q].size, PagesOf(q)) /\ proc[q].pgd = P[<<q, 4, 0>>]
  BY DEF Trees, Tree, Filled
<1>4. proc[q].pgd = Val(P, <<q, 4, a \div Span(4)>>)
  <2>1. a \div Span(4) = 0
    BY TopLevel
  <2>2. <<q, 4, 0>> \in DOMAIN P
    BY <1>3 DEF Nodes, HasNode
  <2> QED BY <2>1, <2>2, <1>3 DEF Val
<1>5. Entry(a, proc[q].pgd, 3) = Val(P, <<q, 3, a \div Span(3)>>)
  BY <1>2, <1>4, EntryLevel
<1>6. Entry(a, Val(P, <<q, 3, a \div Span(3)>>), 2) = Val(P, <<q, 2, a \div Span(2)>>)
  BY <1>2, EntryLevel
<1>7. Entry(a, Val(P, <<q, 2, a \div Span(2)>>), 1) = Val(P, <<q, 1, a \div Span(1)>>)
  BY <1>2, EntryLevel
<1>8. Entry(a, Val(P, <<q, 1, a \div Span(1)>>), 0) = Val(P, <<q, 0, a \div Span(0)>>)
  BY <1>2, EntryLevel
<1>9. Walk(q, a) = Entry(a, Entry(a, Entry(a, Entry(a, proc[q].pgd, 3), 2), 1), 0)
  BY DEF Walk, Entry
<1>10. Span(0) = PAGE_SIZE
  BY DEF Span
<1> QED BY <1>5, <1>6, <1>7, <1>8, <1>9, <1>10

\* A process in the queue has all the pages of its map.
LEMMA AllPages ==
  ASSUME NEW q \in Procs, InQueue(q), Queue, Copying
  PROVE PagesOf(q) = Len(UserMap(proc[q].size))
<1>1. proc[q].state \in {"running", "zombie"}
  BY DEF Queue
<1>2. ~(copying # NULL /\ copying.proc = q)
  BY <1>1 DEF Copying
<1> QED BY <1>2 DEF PagesOf

\* The pages of the map are the page of the stack and those the program
\* reaches into.
LEMMA MapBytes ==
  ASSUME NEW size \in Sizes, NEW a \in Nat, a < USER_MAX
  PROVE (\E i \in 1..Len(UserMap(size)) : a \div PAGE_SIZE = Num(size, i, 0)) <=>
          \/ a >= USER_MAX - USER_STACK_SZ
          \/ \E b \in 0..(size - 1) : b \div PAGE_SIZE = a \div PAGE_SIZE
<1>1. PICK N, n \in Nat : MapShape(size, N, n)
  BY MapOf
<1>2. /\ PAGE_SIZE \in Nat /\ PAGE_SIZE > 0 /\ size \in Nat
  BY ProcMemAssumption
<1>3. PICK k, r : k = a \div PAGE_SIZE /\ r = a % PAGE_SIZE
  OBVIOUS
<1>4. k \in Nat /\ r \in Nat /\ r < PAGE_SIZE /\ a = PAGE_SIZE * k + r
  BY <1>2, <1>3
<1>5. n < N /\ USER_MAX = N * PAGE_SIZE /\ Len(UserMap(size)) = n + 1
  BY <1>1 DEF MapShape
<1>6. Num(size, 1, 0) = N - 1 /\ \A i \in 2..(n + 1) : Num(size, i, 0) = i - 2
  BY <1>1 DEF MapShape, Num, Span
<1>7. (\E i \in 1..(n + 1) : k = Num(size, i, 0)) <=> k = N - 1 \/ k < n
  <2>1. k = N - 1 => \E i \in 1..(n + 1) : k = Num(size, i, 0)
    <3>1. 1 \in 1..(n + 1)
      OBVIOUS
    <3> QED BY <3>1, <1>6
  <2>2. k < n => \E i \in 1..(n + 1) : k = Num(size, i, 0)
    <3> HAVE k < n
    <3>1. PICK i : i = k + 2
      OBVIOUS
    <3>2. i \in 2..(n + 1) /\ i \in 1..(n + 1) /\ i - 2 = k
      BY <3>1, <1>4
    <3>3. Num(size, i, 0) = i - 2
      BY <3>2, <1>6
    <3> QED BY <3>2, <3>3
  <2>3. ASSUME NEW i \in 1..(n + 1), k = Num(size, i, 0) PROVE k = N - 1 \/ k < n
    <3>1. CASE i = 1
      BY <3>1, <2>3, <1>6
    <3>2. CASE i # 1
      <4>1. i \in 2..(n + 1)
        BY <3>2
      <4> QED BY <4>1, <2>3, <1>6
    <3> QED BY <3>1, <3>2
  <2> QED BY <2>1, <2>2, <2>3
<1>8. a >= USER_MAX - USER_STACK_SZ <=> k = N - 1
  <2>1. PICK x, y : x = PAGE_SIZE * k /\ y = PAGE_SIZE * N
    OBVIOUS
  <2>2. x \in Nat /\ y \in Nat /\ y = USER_MAX /\ a = x + r
    BY <2>1, <1>2, <1>4, <1>5
  <2>3. k = N - 1 => x = y - PAGE_SIZE
    <3> HAVE k = N - 1
    <3>1. PAGE_SIZE * (N - 1) = PAGE_SIZE * N - PAGE_SIZE
      BY <1>2
    <3> QED BY <3>1, <2>1
  <2>4. k < N - 1 => x + PAGE_SIZE <= y - PAGE_SIZE
    <3> HAVE k < N - 1
    <3>1. k + 2 <= N
      BY <1>4
    <3>2. PAGE_SIZE * (k + 2) <= PAGE_SIZE * N
      BY <3>1, <1>2, <1>4
    <3>3. PAGE_SIZE * (k + 2) = PAGE_SIZE * k + PAGE_SIZE + PAGE_SIZE
      BY <1>2, <1>4
    <3> QED BY <3>2, <3>3, <2>1, <2>2, <1>2
  <2>5. k > N - 1 => x >= y
    <3> HAVE k > N - 1
    <3>1. N <= k
      BY <1>4
    <3> QED BY <3>1, <2>1, <1>2, <1>4
  <2>6. a >= y - PAGE_SIZE <=> k = N - 1
    BY <2>2, <2>3, <2>4, <2>5, <1>2, <1>4
  <2> QED BY <2>2, <2>6 DEF USER_STACK_SZ
<1>9. (\E b \in 0..(size - 1) : b \div PAGE_SIZE = k) <=> k < n
  <2>1. ASSUME NEW b \in 0..(size - 1), b \div PAGE_SIZE = k PROVE k < n
    <3>1. b \in Nat /\ b < size
      BY <1>2
    <3> QED BY <3>1, <2>1, <1>1 DEF MapShape
  <2>2. ASSUME k < n PROVE \E b \in 0..(size - 1) : b \div PAGE_SIZE = k
    <3>1. PICK b : b = k * PAGE_SIZE
      OBVIOUS
    <3>2. b \in Nat /\ b < size
      BY <3>1, <2>2, <1>1, <1>2, <1>4 DEF MapShape
    <3>3. b \div PAGE_SIZE = k
      BY <3>1, <1>2, <1>4
    <3>4. b \in 0..(size - 1)
      BY <3>2, <1>2
    <3> QED BY <3>3, <3>4
  <2> QED BY <2>1, <2>2
<1> QED BY <1>3, <1>5, <1>7, <1>8, <1>9

\* The invariant implies that the map of a process in the queue is the one it
\* was made for.
LEMMA InvMappedExact == IInv => MappedExact
<1> SUFFICES ASSUME IInv PROVE MappedExact
  OBVIOUS
<1>1. PICK P : Queue /\ Copying /\ Trees(P) /\ Supply(P)
  BY DEF IInv
<1>2. /\ \A x \in DOMAIN P : P[x] # 0
      /\ \A x, y \in DOMAIN P : P[x] = P[y] => x = y
  BY <1>1, ProcMemAssumption DEF Trees, Forest, Placed, Pages
<1> SUFFICES ASSUME NEW q \in Alive, InQueue(q)
    PROVE /\ \A a \in 0..(USER_MAX - 1) :
               (Walk(q, a) # 0) <=>
                 \/ a >= USER_MAX - USER_STACK_SZ
                 \/ \E b \in 0..(proc[q].size - 1) : b \div PAGE_SIZE = a \div PAGE_SIZE
          /\ \A a, b \in 0..(USER_MAX - 1) :
               Walk(q, a) = Walk(q, b) /\ Walk(q, a) # 0 => a \div PAGE_SIZE = b \div PAGE_SIZE
          /\ {proc[q].vma[i] : i \in 1..MAX_USER_PAGES} \ {0} = Leaves(q)
          /\ {proc[q].pgtbl_page[i] : i \in 1..MAX_PGTBL_PAGES} \ {0} = Tables(q)
  BY DEF MappedExact
<1>3. q \in Procs
  BY DEF Alive
<1>4. PICK n : n = Len(UserMap(proc[q].size))
  OBVIOUS
<1>5. PagesOf(q) = n
  BY <1>1, <1>3, <1>4, AllPages
<1>6. /\ proc[q].size \in Sizes /\ Nodes(P, q, proc[q].size, n) /\ Filled(proc[q], P, q, n)
      /\ \E m : Listed(proc[q].pgtbl_page, P, q, m)
  BY <1>1, <1>5 DEF Trees, Tree
<1>7. n \in Nat /\ n <= MAX_USER_PAGES /\ MAX_USER_PAGES \in Nat
  BY <1>4, <1>6, MapNumbers, ProcMemAssumption
<1>8. \A i \in 1..n : Num(proc[q].size, i, 0) \in Nat
  BY <1>4, <1>6, MapNumbers
<1>9. \A k \in Nat : <<q, 0, k>> \in DOMAIN P <=> \E i \in 1..n : k = Num(proc[q].size, i, 0)
  BY <1>6 DEF Nodes, HasNode
<1>10. \A a \in 0..(USER_MAX - 1) : /\ a \in Nat /\ a < USER_MAX /\ a \div PAGE_SIZE \in Nat
                                    /\ Walk(q, a) = Val(P, <<q, 0, a \div PAGE_SIZE>>)
  <2> TAKE a \in 0..(USER_MAX - 1)
  <2>1. a \in Nat /\ a < USER_MAX
    BY ProcMemAssumption
  <2>2. a \div PAGE_SIZE \in Nat
    BY <2>1, ProcMemAssumption
  <2> QED BY <2>1, <2>2, <1>1, WalkNode
<1>11. ASSUME NEW a \in 0..(USER_MAX - 1)
       PROVE (Walk(q, a) # 0) <=>
               \/ a >= USER_MAX - USER_STACK_SZ
               \/ \E b \in 0..(proc[q].size - 1) : b \div PAGE_SIZE = a \div PAGE_SIZE
  <2>1. Walk(q, a) # 0 <=> <<q, 0, a \div PAGE_SIZE>> \in DOMAIN P
    BY <1>2, <1>10 DEF Val
  <2>2. Walk(q, a) # 0 <=> \E i \in 1..n : a \div PAGE_SIZE = Num(proc[q].size, i, 0)
    BY <2>1, <1>9, <1>10
  <2>3. a \in Nat /\ a < USER_MAX
    BY <1>10
  <2> QED BY <2>2, <2>3, <1>4, <1>6, MapBytes
<1>12. ASSUME NEW a \in 0..(USER_MAX - 1), NEW b \in 0..(USER_MAX - 1),
              Walk(q, a) = Walk(q, b), Walk(q, a) # 0
       PROVE a \div PAGE_SIZE = b \div PAGE_SIZE
  <2>1. PICK x, y : x = <<q, 0, a \div PAGE_SIZE>> /\ y = <<q, 0, b \div PAGE_SIZE>>
    OBVIOUS
  <2>2. Walk(q, a) = Val(P, x) /\ Walk(q, b) = Val(P, y)
    BY <2>1, <1>10
  <2>3. x \in DOMAIN P /\ y \in DOMAIN P /\ P[x] = P[y]
    BY <2>2, <1>12 DEF Val
  <2>4. x = y
    BY <2>3, <1>2
  <2> QED BY <2>1, <2>4
<1>13. Reached(P, q)
  BY <1>1, ReachedAll
<1>14. {proc[q].vma[i] : i \in 1..MAX_USER_PAGES} \ {0} = Leaves(q)
  <2>1. \A i \in 1..MAX_USER_PAGES :
          proc[q].vma[i] = IF i <= n THEN P[<<q, 0, Num(proc[q].size, i, 0)>>] ELSE 0
    BY <1>6 DEF Filled
  <2>2. Leaves(q) = Level(P, q, 0)
    BY <1>13 DEF Reached
  <2>3. ASSUME NEW i \in 1..MAX_USER_PAGES, proc[q].vma[i] # 0
        PROVE proc[q].vma[i] \in Level(P, q, 0)
    <3>1. i \in 1..n /\ proc[q].vma[i] = P[<<q, 0, Num(proc[q].size, i, 0)>>]
      BY <2>1, <2>3, <1>7
    <3>2. Num(proc[q].size, i, 0) \in Nat /\ <<q, 0, Num(proc[q].size, i, 0)>> \in DOMAIN P
      BY <3>1, <1>8, <1>9
    <3> QED BY <3>1, <3>2 DEF Level
  <2>4. ASSUME NEW p \in Level(P, q, 0)
        PROVE p # 0 /\ \E i \in 1..MAX_USER_PAGES : p = proc[q].vma[i]
    <3>1. PICK k \in Nat : <<q, 0, k>> \in DOMAIN P /\ p = P[<<q, 0, k>>]
      BY <2>4 DEF Level
    <3>2. PICK i \in 1..n : k = Num(proc[q].size, i, 0)
      BY <3>1, <1>9
    <3>3. i \in 1..MAX_USER_PAGES /\ i <= n
      BY <1>7
    <3> QED BY <3>1, <3>2, <3>3, <2>1, <1>2
  <2> QED BY <2>2, <2>3, <2>4
<1>15. {proc[q].pgtbl_page[i] : i \in 1..MAX_PGTBL_PAGES} \ {0} = Tables(q)
  <2>1. PICK m : Listed(proc[q].pgtbl_page, P, q, m)
    BY <1>6
  <2>2. Tables(q) = Level(P, q, 3) \cup Level(P, q, 2) \cup Level(P, q, 1)
    BY <1>13 DEF Reached
  <2>3. \A p : p \in Tables(q) <=>
          \E l \in 1..3, k \in Nat : <<q, l, k>> \in DOMAIN P /\ p = P[<<q, l, k>>]
    <3>1. 1..3 = {1, 2, 3}
      OBVIOUS
    <3> QED BY <3>1, <2>2 DEF Level
  <2>4. ASSUME NEW i \in 1..MAX_PGTBL_PAGES, proc[q].pgtbl_page[i] # 0
        PROVE proc[q].pgtbl_page[i] \in Tables(q)
    <3>1. i \in 1..m
      BY <2>1, <2>4, ProcMemAssumption DEF Listed
    <3> QED BY <3>1, <2>1, <2>3 DEF Listed
  <2>5. ASSUME NEW p \in Tables(q)
        PROVE p # 0 /\ \E i \in 1..MAX_PGTBL_PAGES : p = proc[q].pgtbl_page[i]
    <3>1. PICK l \in 1..3, k \in Nat : <<q, l, k>> \in DOMAIN P /\ p = P[<<q, l, k>>]
      BY <2>3
    <3>2. PICK i \in 1..m : proc[q].pgtbl_page[i] = P[<<q, l, k>>]
      BY <3>1, <2>1 DEF Listed
    <3>3. i \in 1..MAX_PGTBL_PAGES
      BY <2>1, ProcMemAssumption DEF Listed
    <3> QED BY <3>1, <3>2, <3>3, <1>2
  <2> QED BY <2>4, <2>5
<1> QED BY <1>11, <1>12, <1>14, <1>15

\* The pages copy_process maps are exact: in a process in the queue every byte
\* of the program and of the stack has a page, no address outside them has one,
\* two pages of addresses share none, and vma and pgtbl_page, by which
\* delete_process frees, name all the pages and all the tables.
THEOREM MappedExactHolds == ~StaleMm => (Spec => []MappedExact)
<1>1. IInv => MappedExact
  BY InvMappedExact
<1> QED BY <1>1, InductiveInvariant, PTL

=============================================================================
