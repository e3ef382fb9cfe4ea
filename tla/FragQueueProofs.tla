---------------------------- MODULE FragQueueProofs ----------------------------
EXTENDS FragQueue, SequenceTheorems, WellFoundedInduction, TLAPS

\* A set of numbers that is not empty has a least one.
LEMMA LeastExists ==
  ASSUME NEW T \in SUBSET Nat, T # {}
  PROVE  \E m \in T : \A n \in T : m <= n
<1>1. IsWellFoundedOn(OpToRel(<, Nat), Nat)
  BY NatLessThanWellFounded
<1>2. PICK m \in T : \A n \in T : <<n, m>> \notin OpToRel(<, Nat)
  BY <1>1, WFMin
<1>3. \A n \in T : ~(n < m)
  BY <1>2 DEF OpToRel
<1> QED
  BY <1>3

\* Writing a sequence is writing its commands one after the other.
LEMMA WriteSteps ==
  ASSUME NEW cmds, Len(cmds) \in Nat, Write(cmds)
  PROVE  \E a : /\ a[0] = ring /\ ring' = a[Len(cmds)]
                /\ \A i \in 1 .. Len(cmds) : a[i] = WriteCmd(a[i - 1], cmds[i])
<1> DEFINE N == Len(cmds)
           To(f, n) == f = [i \in 0 .. n |-> IF i = 0 THEN ring ELSE WriteCmd(f[i - 1], cmds[i])]
           T == {n \in 0 .. N : ~ \E f : To(f, n)}
<1>1. T = {}
  <2> SUFFICES ASSUME T # {} PROVE FALSE
    OBVIOUS
  <2>1. PICK m \in T : \A n \in T : m <= n
    <3>1. T \in SUBSET Nat
      OBVIOUS
    <3> HIDE DEF T
    <3> QED
      BY <3>1, LeastExists
  <2>2. m \in 0 .. N /\ ~ \E f : To(f, m)
    BY <2>1
  <2>3. m # 0
    <3> SUFFICES ASSUME m = 0 PROVE FALSE
      OBVIOUS
    <3> DEFINE g == [i \in 0 .. 0 |-> ring]
    <3>1. g = [i \in 0 .. 0 |-> IF i = 0 THEN ring ELSE WriteCmd(g[i - 1], cmds[i])]
      OBVIOUS
    <3>2. To(g, m)
      BY <3>1
    <3> QED
      BY <2>2, <3>2
  <2>4. m - 1 \in 0 .. N /\ m - 1 \notin T
    <3>1. m - 1 \in 0 .. N /\ ~(m <= m - 1)
      BY <2>2, <2>3
    <3> HIDE DEF T
    <3> QED
      BY <2>1, <3>1
  <2>5. PICK f : To(f, m - 1)
    BY <2>4
  <2> DEFINE g == [i \in 0 .. m |-> IF i = m THEN WriteCmd(f[m - 1], cmds[m]) ELSE f[i]]
  <2>6. \A i \in 0 .. m - 1 : g[i] = f[i]
    BY <2>2
  <2>7. ASSUME NEW i \in 0 .. m
        PROVE  g[i] = IF i = 0 THEN ring ELSE WriteCmd(g[i - 1], cmds[i])
    <3>1. CASE i = m
      <4>1. g[m - 1] = f[m - 1] /\ g[m] = WriteCmd(f[m - 1], cmds[m])
        BY <2>2, <2>3, <2>6
      <4> HIDE DEF g
      <4> QED
        BY <2>3, <3>1, <4>1
    <3>2. CASE i # m
      <4>1. i \in 0 .. m - 1 /\ g[i] = f[i]
        BY <2>2, <2>6, <3>2
      <4>2. f[i] = IF i = 0 THEN ring ELSE WriteCmd(f[i - 1], cmds[i])
        BY <2>5, <4>1
      <4>3. i # 0 => g[i - 1] = f[i - 1]
        BY <2>2, <2>6, <4>1
      <4> HIDE DEF g
      <4> QED
        BY <4>1, <4>2, <4>3
    <3> QED
      BY <3>1, <3>2
  <2>8. g = [i \in 0 .. m |-> IF i = 0 THEN ring ELSE WriteCmd(g[i - 1], cmds[i])]
    <3> DEFINE h == [i \in 0 .. m |-> IF i = 0 THEN ring ELSE WriteCmd(g[i - 1], cmds[i])]
    <3>1. \A i \in 0 .. m : g[i] = h[i]
      <4> SUFFICES ASSUME NEW i \in 0 .. m PROVE g[i] = h[i]
        OBVIOUS
      <4>1. h[i] = IF i = 0 THEN ring ELSE WriteCmd(g[i - 1], cmds[i])
        OBVIOUS
      <4> HIDE DEF g, h
      <4> QED
        BY <2>7, <4>1
    <3>2. g = [i \in 0 .. m |-> g[i]] /\ h = [i \in 0 .. m |-> h[i]]
      OBVIOUS
    <3> HIDE DEF g, h
    <3>3. g = h
      BY <3>1, <3>2
    <3> QED
      BY <3>3 DEF h
  <2>9. To(g, m)
    BY <2>8
  <2> QED
    BY <2>2, <2>9
<1>2. \E f : To(f, N)
  <2>1. N \in 0 .. N
    OBVIOUS
  <2>2. N \notin T
    BY <1>1
  <2> QED
    BY <2>1, <2>2
<1> DEFINE after == CHOOSE f : f = [i \in 0 .. Len(cmds) |->
                      IF i = 0 THEN ring ELSE WriteCmd(f[i - 1], cmds[i])]
<1>3. ring' = after[Len(cmds)]
  BY DEF Write
<1>4. after = [i \in 0 .. Len(cmds) |-> IF i = 0 THEN ring ELSE WriteCmd(after[i - 1], cmds[i])]
  BY <1>2
<1> HIDE DEF after
<1>5. after[0] = ring
  BY <1>4
<1>6. \A i \in 1 .. Len(cmds) : after[i] = WriteCmd(after[i - 1], cmds[i])
  BY <1>4
<1> QED
  BY <1>3, <1>5, <1>6

-----------------------------------------------------------------------------
(* The fragment CCCB: sizes, space, and what a written sequence leaves.     *)

Cmds == [op : {"wait", "cmd", "update", "pad"}, job : Jobs \cup {NoJob}, size : Nat]
Rings == [w : 0 .. CccbSize - 1, r : 0 .. CccbSize - 1, cmds : Seq(Cmds), dropped : BOOLEAN]

\* The sizes of the commands of s sum up to n; e are the partial sums.
Sums(s, n) ==
    \E e \in [0 .. Len(s) -> Nat] :
      /\ e[0] = 0 /\ e[Len(s)] = n
      /\ \A i \in 1 .. Len(s) : e[i] = e[i - 1] + s[i].size
      /\ \A i, k \in 0 .. Len(s) : i <= k => e[i] <= e[k]

\* What lies between the offsets r and w.
Gap(w, r) == IF w >= r THEN w - r ELSE w - r + CccbSize

\* What is written and not consumed.
Used(rg) == Gap(rg.w, rg.r)

\* What writing n at w costs, and the offset after it.
Wraps(w, n) == CccbSize - w < n + PadSize
Cost(w, n) == IF Wraps(w, n) THEN n + (CccbSize - w) ELSE n
Moved(w, n) == IF Wraps(w, n) THEN n ELSE w + n

RingOk(rg) ==
    /\ rg \in Rings
    /\ rg.w = 0 \/ rg.w + PadSize <= CccbSize
    /\ Sums(rg.cmds, Used(rg))

\* new is old with c after it, and perhaps padding before c.
Adds(old, new, c) ==
    \/ new = old \o <<c>>
    \/ \E pad \in Cmds : pad.op = "pad" /\ new = old \o <<pad, c>>

\* Masking an offset of the ring wraps it at most once.
LEMMA WrapsOnce ==
  ASSUME NEW x \in Int, 0 <= x, x < 2 * CccbSize
  PROVE  x % CccbSize = IF x < CccbSize THEN x ELSE x - CccbSize
  BY FragQueueAssumption

\* get_cccb_space() is what is not used, less one.
LEMMA SpaceIs ==
  ASSUME NEW rg \in Rings
  PROVE  /\ Used(rg) \in 0 .. CccbSize - 1
         /\ (rg.r - rg.w + CccbSize - 1) % CccbSize = CccbSize - 1 - Used(rg)
<1>1. rg.w \in 0 .. CccbSize - 1 /\ rg.r \in 0 .. CccbSize - 1 /\ CccbSize \in Nat \ {0}
  BY FragQueueAssumption DEF Rings
<1>2. Used(rg) \in 0 .. CccbSize - 1
  BY <1>1 DEF Used, Gap
<1> DEFINE x == rg.r - rg.w + CccbSize - 1
<1>3. x \in Int /\ 0 <= x /\ x < 2 * CccbSize
  BY <1>1
<1>4. (IF x < CccbSize THEN x ELSE x - CccbSize) = CccbSize - 1 - Used(rg)
  BY <1>1 DEF Used, Gap
<1> HIDE DEF x
<1>5. x % CccbSize = CccbSize - 1 - Used(rg)
  BY <1>3, <1>4, WrapsOnce
<1> QED
  BY <1>2, <1>5 DEF x

\* No command, no size.
LEMMA SumsEmpty == Sums(<<>>, 0)
<1> DEFINE e == [i \in 0 .. 0 |-> 0]
<1>1. Len(<<>>) = 0 /\ e \in [0 .. 0 -> Nat] /\ e[0] = 0
  OBVIOUS
<1> HIDE DEF e
<1> QED
  BY <1>1 DEF Sums

\* One command.
LEMMA SumsOne ==
  ASSUME NEW c \in Cmds
  PROVE  Sums(<<c>>, c.size)
<1> DEFINE e == [i \in 0 .. 1 |-> IF i = 0 THEN 0 ELSE c.size]
<1>1. c.size \in Nat /\ Len(<<c>>) = 1 /\ <<c>>[1] = c
  BY DEF Cmds
<1>2. e \in [0 .. 1 -> Nat] /\ e[0] = 0 /\ e[1] = c.size
  BY <1>1
<1> HIDE DEF e
<1>3. \A i \in 1 .. 1 : e[i] = e[i - 1] + <<c>>[i].size
  BY <1>1, <1>2
<1>4. \A i, k \in 0 .. 1 : i <= k => e[i] <= e[k]
  BY <1>1, <1>2
<1> QED
  BY <1>1, <1>2, <1>3, <1>4 DEF Sums

\* One sequence after the other.
LEMMA SumsConcat ==
  ASSUME NEW s \in Seq(Cmds), NEW t \in Seq(Cmds), NEW m \in Nat, NEW n \in Nat,
         Sums(s, m), Sums(t, n)
  PROVE  Sums(s \o t, m + n)
<1> DEFINE u == s \o t
<1>1. PICK d \in [0 .. Len(s) -> Nat] :
        /\ d[0] = 0 /\ d[Len(s)] = m
        /\ \A i \in 1 .. Len(s) : d[i] = d[i - 1] + s[i].size
        /\ \A i, k \in 0 .. Len(s) : i <= k => d[i] <= d[k]
  BY DEF Sums
<1>2. PICK f \in [0 .. Len(t) -> Nat] :
        /\ f[0] = 0 /\ f[Len(t)] = n
        /\ \A i \in 1 .. Len(t) : f[i] = f[i - 1] + t[i].size
        /\ \A i, k \in 0 .. Len(t) : i <= k => f[i] <= f[k]
  BY DEF Sums
<1>3. /\ Len(u) = Len(s) + Len(t) /\ Len(s) \in Nat /\ Len(t) \in Nat
      /\ \A i \in 1 .. Len(u) : u[i] = IF i <= Len(s) THEN s[i] ELSE t[i - Len(s)]
  BY ConcatProperties
<1> HIDE DEF u
<1> DEFINE e == [i \in 0 .. Len(u) |-> IF i <= Len(s) THEN d[i] ELSE m + f[i - Len(s)]]
<1>4. \A i \in 0 .. Len(s) : e[i] = d[i]
  BY <1>3
<1>5. \A i \in Len(s) .. Len(u) : e[i] = m + f[i - Len(s)]
  BY <1>1, <1>2, <1>3
<1>6. e \in [0 .. Len(u) -> Nat]
  BY <1>1, <1>2, <1>3
<1> HIDE DEF e
<1>7. e[0] = 0 /\ e[Len(u)] = m + n
  BY <1>1, <1>2, <1>3, <1>4, <1>5
<1>8. ASSUME NEW i \in 1 .. Len(u) PROVE e[i] = e[i - 1] + u[i].size
  <2>1. CASE i <= Len(s)
    <3>1. i \in 1 .. Len(s) /\ i \in 0 .. Len(s) /\ i - 1 \in 0 .. Len(s)
      BY <1>3, <2>1
    <3>2. e[i] = d[i] /\ e[i - 1] = d[i - 1] /\ u[i] = s[i]
      BY <1>3, <1>4, <2>1, <3>1
    <3>3. d[i] = d[i - 1] + s[i].size
      BY <1>1, <3>1
    <3> QED
      BY <3>2, <3>3
  <2>2. CASE i > Len(s)
    <3> DEFINE j == i - Len(s)
    <3>1. j \in 1 .. Len(t) /\ j \in 0 .. Len(t) /\ j - 1 \in 0 .. Len(t) /\ i - 1 \in Len(s) .. Len(u) /\ i \in Len(s) .. Len(u)
      BY <1>3, <2>2
    <3>2. (i - 1) - Len(s) = j - 1
      BY <1>3
    <3>3. e[i] = m + f[j] /\ e[i - 1] = m + f[j - 1]
      BY <1>5, <3>1, <3>2
    <3>4. u[i] = t[j]
      BY <1>3, <2>2
    <3> HIDE DEF j
    <3>5. f[j] = f[j - 1] + t[j].size /\ f[j - 1] \in Nat /\ f[j] \in Nat
      <4>1. f[j - 1] \in Nat
        BY <1>2, <3>1
      <4>2. f[j] \in Nat
        BY <1>2, <3>1
      <4>3. f[j] = f[j - 1] + t[j].size
        BY <1>2, <3>1
      <4> QED
        BY <4>1, <4>2, <4>3
    <3>6. t[j].size \in Nat
      <4>1. t[j] \in Cmds
        BY <1>3, <3>1, ElementOfSeq
      <4> QED
        BY <4>1 DEF Cmds
    <3>7. u[i].size = t[j].size
      BY <3>4
    <3>8. \A x, y \in Nat : m + (x + y) = (m + x) + y
      OBVIOUS
    <3>9. e[i] = m + (f[j - 1] + t[j].size) /\ e[i - 1] + u[i].size = (m + f[j - 1]) + t[j].size
      BY <3>3, <3>5, <3>7
    <3>10. m + (f[j - 1] + t[j].size) = (m + f[j - 1]) + t[j].size
      BY <3>5, <3>6, <3>8
    <3> QED
      BY <3>9, <3>10
  <2> QED
    BY <1>3, <2>1, <2>2
<1>9. ASSUME NEW i \in 0 .. Len(u), NEW k \in 0 .. Len(u), i <= k PROVE e[i] <= e[k]
  <2>1. CASE k <= Len(s)
    BY <1>1, <1>3, <1>4, <1>9, <2>1
  <2>2. CASE i > Len(s)
    <3>1. i - Len(s) \in 0 .. Len(t) /\ k - Len(s) \in 0 .. Len(t) /\ i - Len(s) <= k - Len(s)
      BY <1>3, <1>9, <2>2
    <3>2. e[i] = m + f[i - Len(s)] /\ e[k] = m + f[k - Len(s)]
      BY <1>3, <1>5, <1>9, <2>2
    <3>3. f[i - Len(s)] <= f[k - Len(s)] /\ f[i - Len(s)] \in Nat /\ f[k - Len(s)] \in Nat
      BY <1>2, <3>1
    <3> QED
      BY <3>2, <3>3
  <2>3. CASE i <= Len(s) /\ k > Len(s)
    <3>1. i \in 0 .. Len(s) /\ Len(s) \in 0 .. Len(s) /\ k \in Len(s) .. Len(u) /\ k - Len(s) \in 0 .. Len(t)
      BY <1>3, <2>3
    <3>2. e[i] = d[i] /\ e[k] = m + f[k - Len(s)]
      BY <1>4, <1>5, <3>1
    <3>4. d[i] \in Nat /\ d[i] <= d[Len(s)] /\ d[Len(s)] = m
      BY <1>1, <2>3, <3>1
    <3>3. f[k - Len(s)] \in Nat
      BY <1>2, <3>1
    <3> QED
      BY <3>2, <3>3, <3>4
  <2> QED
    BY <1>3, <2>1, <2>2, <2>3
<1> QED
  BY <1>6, <1>7, <1>8, <1>9 DEF Sums, u

\* What is consumed is part of what is used.
LEMMA SumsTail ==
  ASSUME NEW s \in Seq(Cmds), NEW n \in Nat, Sums(s, n), s # <<>>
  PROVE  Head(s).size \in 0 .. n /\ Sums(Tail(s), n - Head(s).size)
<1>1. PICK d \in [0 .. Len(s) -> Nat] :
        /\ d[0] = 0 /\ d[Len(s)] = n
        /\ \A i \in 1 .. Len(s) : d[i] = d[i - 1] + s[i].size
        /\ \A i, k \in 0 .. Len(s) : i <= k => d[i] <= d[k]
  BY DEF Sums
<1> DEFINE t == Tail(s)
<1>2. /\ t \in Seq(Cmds) /\ Len(t) = Len(s) - 1 /\ Len(s) \in Nat \ {0} /\ Len(t) \in Nat
      /\ \A i \in 1 .. Len(t) : t[i] = s[i + 1]
      /\ Head(s) = s[1] /\ s[1] \in Cmds
  BY HeadTailProperties, EmptySeq, LenProperties
<1>3. s[1].size \in Nat /\ d[1] = s[1].size /\ d[1] <= n
  BY <1>1, <1>2 DEF Cmds
<1> HIDE DEF t
<1> DEFINE e == [i \in 0 .. Len(t) |-> d[i + 1] - d[1]]
<1>4. ASSUME NEW i \in 0 .. Len(t)
      PROVE  d[i + 1] \in Nat /\ d[1] <= d[i + 1] /\ e[i] = d[i + 1] - d[1]
  <2>1. i + 1 \in 0 .. Len(s) /\ 1 \in 0 .. Len(s) /\ 1 <= i + 1
    BY <1>2
  <2>2. d[i + 1] \in Nat /\ d[1] <= d[i + 1]
    BY <1>1, <2>1
  <2> QED
    BY <2>2
<1>5. e \in [0 .. Len(t) -> Nat]
  BY <1>3, <1>4
<1>6. e[0] = 0 /\ e[Len(t)] = n - s[1].size
  BY <1>1, <1>2, <1>3, <1>4
<1> HIDE DEF e
<1>7. ASSUME NEW i \in 1 .. Len(t) PROVE e[i] = e[i - 1] + t[i].size
  <2>1. e[i] = d[i + 1] - d[1] /\ e[i - 1] = d[i] - d[1] /\ t[i] = s[i + 1]
    BY <1>2, <1>4
  <2>2. i + 1 \in 1 .. Len(s) /\ i \in 0 .. Len(s) /\ i + 1 \in 0 .. Len(s) /\ (i + 1) - 1 = i
    BY <1>2
  <2>3. d[i + 1] = d[i] + s[i + 1].size /\ d[i] \in Nat /\ d[i + 1] \in Nat
    BY <1>1, <2>2
  <2>4. s[i + 1].size \in Nat
    <3>1. s[i + 1] \in Cmds
      BY <2>2, ElementOfSeq
    <3> QED
      BY <3>1 DEF Cmds
  <2>5. \A x, y, z \in Nat : (x + y) - z = (x - z) + y
    OBVIOUS
  <2>6. e[i] = (d[i] + s[i + 1].size) - d[1] /\ e[i - 1] + t[i].size = (d[i] - d[1]) + s[i + 1].size
    BY <2>1, <2>3
  <2>7. (d[i] + s[i + 1].size) - d[1] = (d[i] - d[1]) + s[i + 1].size
    BY <1>3, <2>3, <2>4, <2>5
  <2> QED
    BY <2>6, <2>7
<1>8. ASSUME NEW i \in 0 .. Len(t), NEW k \in 0 .. Len(t), i <= k PROVE e[i] <= e[k]
  <2>1. i + 1 \in 0 .. Len(s) /\ k + 1 \in 0 .. Len(s) /\ i + 1 <= k + 1
    BY <1>2, <1>8
  <2>2. d[i + 1] <= d[k + 1] /\ d[i + 1] \in Nat /\ d[k + 1] \in Nat
    BY <1>1, <2>1
  <2> QED
    BY <1>3, <1>4, <2>2
<1>9. s[1].size \in 0 .. n
  BY <1>3
<1>10. Sums(t, n - s[1].size)
  BY <1>5, <1>6, <1>7, <1>8 DEF Sums
<1> QED
  BY <1>2, <1>9, <1>10 DEF t

\* Where the write offset goes, and what is used then.
LEMMA WriteOffset ==
  ASSUME NEW w \in 0 .. CccbSize - 1, NEW r \in 0 .. CccbSize - 1, NEW n \in Nat,
         w = 0 \/ w + PadSize <= CccbSize, Gap(w, r) + Cost(w, n) <= CccbSize - 1
  PROVE  /\ Moved(w, n) \in 0 .. CccbSize - 1
         /\ Moved(w, n) = 0 \/ Moved(w, n) + PadSize <= CccbSize
         /\ Gap(Moved(w, n), r) = Gap(w, r) + Cost(w, n)
         /\ Wraps(w, n) => w >= r /\ n < r
<1>1. CccbSize \in Nat \ {0} /\ PadSize \in Nat \ {0}
  BY FragQueueAssumption
<1>2. CASE Wraps(w, n)
  <2>1. Cost(w, n) = n + (CccbSize - w) /\ Moved(w, n) = n
    BY <1>2 DEF Cost, Moved
  <2>2. w >= r /\ n < r
    BY <1>1, <2>1 DEF Gap
  <2> QED
    BY <1>1, <2>1, <2>2 DEF Gap
<1>3. CASE ~Wraps(w, n)
  <2>1. Cost(w, n) = n /\ Moved(w, n) = w + n /\ w + n + PadSize <= CccbSize
    BY <1>1, <1>3 DEF Cost, Moved, Wraps
  <2> QED
    BY <1>1, <1>3, <2>1 DEF Gap
<1> QED
  BY <1>2, <1>3

\* Writing a command that there is room for, and for the padding before it.
LEMMA OneWrite ==
  ASSUME NEW rg, RingOk(rg), NEW c \in Cmds, Used(rg) + Cost(rg.w, c.size) <= CccbSize - 1
  PROVE  /\ RingOk(WriteCmd(rg, c))
         /\ WriteCmd(rg, c).r = rg.r /\ WriteCmd(rg, c).dropped = rg.dropped
         /\ Used(WriteCmd(rg, c)) = Used(rg) + Cost(rg.w, c.size)
         /\ WriteCmd(rg, c).w = Moved(rg.w, c.size)
         /\ Adds(rg.cmds, WriteCmd(rg, c).cmds, c)
<1> DEFINE new == WriteCmd(rg, c)
           left == CccbSize - rg.w
           wraps == Wraps(rg.w, c.size)
           pad == [op |-> "pad", job |-> NoJob, size |-> left]
           more == IF wraps THEN <<pad, c>> ELSE <<c>>
           end == Moved(rg.w, c.size)
           k == Cost(rg.w, c.size)
<1>1. /\ rg \in Rings /\ rg.w \in 0 .. CccbSize - 1 /\ rg.r \in 0 .. CccbSize - 1
      /\ rg.cmds \in Seq(Cmds) /\ rg.dropped \in BOOLEAN /\ c.size \in Nat
      /\ rg.w = 0 \/ rg.w + PadSize <= CccbSize
      /\ Sums(rg.cmds, Used(rg)) /\ CccbSize \in Nat \ {0} /\ PadSize \in Nat \ {0}
  BY FragQueueAssumption DEF RingOk, Rings, Cmds
<1>2. /\ Used(rg) \in 0 .. CccbSize - 1
      /\ (rg.r - rg.w + CccbSize - 1) % CccbSize = CccbSize - 1 - Used(rg)
  BY <1>1, SpaceIs
<1>3. left \in 1 .. CccbSize /\ k = IF wraps THEN c.size + left ELSE c.size
  BY <1>1 DEF Cost
<1>4. pad \in Cmds /\ pad.op = "pad" /\ pad.size = left
  BY <1>3 DEF Cmds
<1>5. k \in Nat /\ k = c.size + (IF wraps THEN left ELSE 0)
  BY <1>1, <1>3
<1>6. new = [w |-> end, r |-> rg.r, cmds |-> rg.cmds \o more, dropped |-> rg.dropped]
  <2>1. wraps <=> left < c.size + PadSize
    BY DEF Wraps
  <2>2. end = IF wraps THEN c.size ELSE rg.w + c.size
    BY DEF Moved
  <2>3. ~(CccbSize - 1 - Used(rg) < k)
    <3>1. Used(rg) \in Int /\ Used(rg) + k <= CccbSize - 1
      BY <1>2
    <3> HIDE DEF k
    <3> QED
      BY <1>1, <1>5, <3>1
  <2>4. ~((rg.r - rg.w + CccbSize - 1) % CccbSize < c.size + (IF wraps THEN left ELSE 0))
    BY <1>2, <1>5, <2>3
  <2>5. new = [rg EXCEPT !.w = end, !.cmds = rg.cmds \o more]
    <3> HIDE DEF end, k
    <3> QED
      BY <1>1, <2>1, <2>2, <2>4 DEF WriteCmd
  <2> QED
    BY <1>1, <2>5 DEF Rings
<1>7. /\ end \in 0 .. CccbSize - 1 /\ (end = 0 \/ end + PadSize <= CccbSize)
      /\ Gap(end, rg.r) = Used(rg) + k
  BY <1>1, WriteOffset DEF Used
<1>8. Used(new) = Used(rg) + k
  <2>1. new.w = end /\ new.r = rg.r
    BY <1>6
  <2>2. Used(new) = Gap(end, rg.r)
    BY <2>1 DEF Used
  <2> QED
    BY <1>7, <2>2
<1>9. more \in Seq(Cmds) /\ Sums(more, k)
  <2>1. <<c>> \in Seq(Cmds) /\ <<pad>> \in Seq(Cmds) /\ <<pad, c>> \in Seq(Cmds)
    BY <1>4
  <2>2. Sums(<<c>>, c.size) /\ Sums(<<pad>>, left)
    BY <1>4, SumsOne
  <2>3. <<pad, c>> = <<pad>> \o <<c>>
    OBVIOUS
  <2>4. Sums(<<pad>> \o <<c>>, left + c.size)
    <3>1. left \in Nat
      BY <1>1
    <3> HIDE DEF left, pad
    <3> QED
      BY <1>1, <2>1, <2>2, <3>1, SumsConcat
  <2>5. left + c.size = c.size + left
    BY <1>1, <1>3
  <2>6. CASE wraps
    <3>1. k = left + c.size /\ more = <<pad, c>>
      BY <1>3, <2>5, <2>6
    <3> QED
      BY <2>1, <2>3, <2>4, <3>1
  <2>7. CASE ~wraps
    <3>1. k = c.size /\ more = <<c>>
      BY <1>1, <1>3, <2>7
    <3> QED
      BY <2>1, <2>2, <3>1
  <2> QED
    BY <2>6, <2>7
<1>10. rg.cmds \o more \in Seq(Cmds) /\ Sums(rg.cmds \o more, Used(rg) + k)
  <2>1. Used(rg) \in Nat
    BY <1>2
  <2> HIDE DEF more, k
  <2>2. Sums(rg.cmds \o more, Used(rg) + k)
    BY <1>1, <1>5, <1>9, <2>1, SumsConcat
  <2>3. rg.cmds \o more \in Seq(Cmds)
    BY <1>1, <1>9, ConcatProperties
  <2> QED
    BY <2>2, <2>3
<1>11. RingOk(new)
  <2> HIDE DEF new, end, more, k
  <2> QED
    BY <1>1, <1>6, <1>7, <1>8, <1>10 DEF RingOk, Rings
<1>12. new.cmds = rg.cmds \o <<c>> \/ new.cmds = rg.cmds \o <<pad, c>>
  <2>1. new.cmds = rg.cmds \o more
    <3> HIDE DEF new, more, end
    <3> QED
      BY <1>6
  <2>2. more = <<c>> \/ more = <<pad, c>>
    OBVIOUS
  <2> HIDE DEF new, more, pad
  <2> QED
    BY <2>1, <2>2
<1>13. new.r = rg.r /\ new.dropped = rg.dropped /\ new.w = end
  BY <1>6
<1>14. Adds(rg.cmds, new.cmds, c)
  <2> HIDE DEF pad, new
  <2> QED
    BY <1>4, <1>12 DEF Adds
<1> QED
  BY <1>8, <1>11, <1>13, <1>14

\* Where the writing of n from w stands after e of it: at v, with u used.
Along(w, n, g, v, u, e) ==
    \/ v = w + e /\ u = g + e
    \/ Wraps(w, n) /\ v <= e /\ u <= g + (CccbSize - w) + e

\* The room that is found for a sequence is room for each of its commands: the
\* ring is wrapped at most once.
LEMMA RoomForEach ==
  ASSUME NEW w \in 0 .. CccbSize - 1, NEW r \in 0 .. CccbSize - 1, NEW n \in Nat,
         w = 0 \/ w + PadSize <= CccbSize, Gap(w, r) + Cost(w, n) <= CccbSize - 1,
         NEW v \in 0 .. CccbSize - 1, NEW u \in Nat, NEW e \in Nat, NEW z \in Nat,
         e + z <= n, Along(w, n, Gap(w, r), v, u, e)
  PROVE  u + Cost(v, z) <= CccbSize - 1 /\ Along(w, n, Gap(w, r), Moved(v, z), u + Cost(v, z), e + z)
<1> DEFINE g == Gap(w, r)
<1>1. CccbSize \in Nat \ {0} /\ PadSize \in Nat \ {0} /\ g \in Nat
  BY FragQueueAssumption DEF Gap
<1>2. Wraps(w, n) => w >= r /\ n < r /\ g + (n + (CccbSize - w)) <= CccbSize - 1
  <2>1. Wraps(w, n) => w >= r /\ n < r
    BY WriteOffset
  <2> QED
    BY <2>1 DEF Cost
<1>3. g + n <= CccbSize - 1
  BY <1>1 DEF Cost
<1>4. CASE v = w + e /\ u = g + e /\ Wraps(v, z)
  <2>1. Wraps(w, n)
    BY <1>1, <1>4 DEF Wraps
  <2>2. Cost(v, z) = z + (CccbSize - v) /\ Moved(v, z) = z
    BY <1>4 DEF Cost, Moved
  <2> HIDE DEF g
  <2>3. u + Cost(v, z) = g + (CccbSize - w) + z
    BY <1>1, <1>4, <2>2
  <2>4. g + (CccbSize - w) + z <= CccbSize - 1
    BY <1>1, <1>2, <2>1
  <2>5. Along(w, n, g, Moved(v, z), u + Cost(v, z), e + z)
    BY <1>1, <2>1, <2>2, <2>3 DEF Along
  <2> QED
    BY <2>3, <2>4, <2>5 DEF g
<1>5. CASE v = w + e /\ u = g + e /\ ~Wraps(v, z)
  <2>1. Cost(v, z) = z /\ Moved(v, z) = v + z
    BY <1>5 DEF Cost, Moved
  <2> HIDE DEF g
  <2>2. u + Cost(v, z) = g + (e + z) /\ Moved(v, z) = w + (e + z) /\ g + (e + z) <= CccbSize - 1
    BY <1>1, <1>3, <1>5, <2>1
  <2>3. Along(w, n, g, Moved(v, z), u + Cost(v, z), e + z)
    BY <2>2 DEF Along
  <2> QED
    BY <2>2, <2>3 DEF g
<1>6. CASE Wraps(w, n) /\ v <= e /\ u <= g + (CccbSize - w) + e
  <2>1. ~Wraps(v, z)
    BY <1>1, <1>2, <1>6 DEF Wraps
  <2>2. Cost(v, z) = z /\ Moved(v, z) = v + z
    BY <2>1 DEF Cost, Moved
  <2> HIDE DEF g
  <2>3. /\ u + Cost(v, z) <= g + (CccbSize - w) + (e + z) /\ Moved(v, z) <= e + z
        /\ u + Cost(v, z) <= CccbSize - 1
    BY <1>1, <1>2, <1>6, <2>2
  <2>4. Along(w, n, g, Moved(v, z), u + Cost(v, z), e + z)
    BY <1>6, <2>3 DEF Along
  <2> QED
    BY <2>3, <2>4 DEF g
<1> QED
  BY <1>4, <1>5, <1>6 DEF Along

-----------------------------------------------------------------------------
(* The inductive invariant.                                                *)

\* The order of the jobs of a queue: that of their submissions, and the
\* paired job before the chained one.
Rank(j) == 2 * j[1] + (IF j[2] = "f" THEN 1 ELSE 0)

\* A submission as Submit leaves it.
LastFragOf(n) == <<n, IF Kind(n) = "pair" THEN "p" ELSE "f">>

SubsOk ==
    /\ sub \in Seq([kind : {"frag", "pair", "full"}, same : BOOLEAN, chained : BOOLEAN,
                    after : Jobs \cup {NoJob}])
    /\ Len(sub) <= MaxSubmits
    /\ \A n \in 1 .. Len(sub) :
         /\ IsChained(n) => Kind(n) = "full"
         /\ sub[n].after = IF n = 1 THEN NoJob ELSE LastFragOf(n - 1)

TypeOK ==
    /\ SubsOk
    /\ deps \in [Jobs -> Nat]
    /\ entity \in [Queues -> Seq(Jobs)]
    /\ ready \in [Queues -> BOOLEAN]
    /\ waitsFor \in [Queues -> Jobs \cup {NoJob}]
    /\ scheduled \subseteq Jobs
    /\ pending \in [Queues -> Seq(Jobs)]
    /\ cccbFence \in [Jobs -> {"fresh", "waiting", "gone"}]
    /\ waiter \in [job : Jobs \cup {NoJob}, size : Nat]
    /\ seqno \in [Jobs -> Nat]
    /\ lastSeqno \in [Queues -> Nat]
    /\ geomRing \in Seq(Jobs)
    /\ timeline \in [Queues -> Nat]

Ascending(s) == \A i, k \in 1 .. Len(s) : i < k => Rank(s[i]) < Rank(s[k])

Elems(s) == {s[i] : i \in 1 .. Len(s)}

\* s lists the jobs of a set in the order of their queue.
Lists(s, S) == Ascending(s) /\ Elems(s) = S

OfQueue(q) == {j \in Submitted : Queue(j) = q}

\* A scheduler takes the jobs of its queue in their order; a fragment job
\* that is written with its geometry job is taken after it.
SchedOk ==
    /\ scheduled \subseteq Submitted
    /\ \A q \in Queues : Lists(entity[q], OfQueue(q) \ scheduled)
    /\ \A j \in scheduled, k \in Submitted \ scheduled :
         Queue(j) = Queue(k) => Rank(j) < Rank(k)
    /\ \A j \in scheduled : WithGeometry(j) => GeomOf(j) \in scheduled

\* Whose done fence is initialised, in which order, and what has gone before.
SeqnoOk ==
    /\ \A j \in Jobs : seqno[j] # 0 => j \in Submitted /\ seqno[j] <= lastSeqno[Queue(j)]
    /\ \A j \in scheduled : seqno[j] # 0
    /\ \A j \in Submitted : WithGeometry(j) => (seqno[j] = 0 <=> seqno[GeomOf(j)] = 0)
    /\ \A j, k \in Jobs :
         seqno[j] # 0 /\ seqno[k] # 0 /\ Queue(j) = Queue(k) /\ Rank(j) < Rank(k)
           => seqno[j] < seqno[k]
    /\ \A j \in Jobs, k \in Submitted :
         seqno[j] # 0 /\ (\/ Queue(k) = "frag" /\ k[1] < j[1]
                          \/ Queue(k) = Queue(j) /\ Rank(k) < Rank(j) /\ ~WithGeometry(j))
           => k \in scheduled

\* Only a job whose done fence is initialised asks for space, the one that
\* waits is held back, and so is its size.
FenceOk ==
    /\ \A j \in Jobs : cccbFence[j] # "fresh" => j \in Submitted
    /\ \A j \in Submitted : Queue(j) = "frag" /\ Owner(j) /\ cccbFence[j] # "fresh" => seqno[j] # 0
    /\ waiter.job # NoJob =>
         /\ waiter.job \in Submitted /\ Queue(waiter.job) = "frag"
         /\ cccbFence[waiter.job] = "waiting"
         /\ SequenceSize(waiter.job) <= waiter.size
         /\ \E q \in Queues :
              /\ waitsFor[q] = waiter.job /\ entity[q] # <<>> /\ ~ready[q]
              /\ IF q = "geom" THEN waiter.job = PairedOf(Head(entity.geom))
                 ELSE /\ waiter.job = Head(entity.frag)
                      /\ WithGeometry(waiter.job) => GeomOf(waiter.job) \in scheduled

\* What prepare_job has found out about the job that is run next.
ReadyOk ==
    /\ ready.geom => /\ entity.geom # <<>> /\ seqno[Head(entity.geom)] # 0
                     /\ cccbFence[PairedOf(Head(entity.geom))] = "gone"
    /\ ready.frag => /\ entity.frag # <<>>
                     /\ LET j == Head(entity.frag)
                        IN  IF WithGeometry(j) THEN GeomOf(j) \in scheduled
                            ELSE seqno[j] # 0 /\ cccbFence[j] = "gone"

\* The commands of a job have been written.
IsWritten(j) ==
    /\ j \in Submitted /\ Queue(j) = "frag"
    /\ IF WithGeometry(j) THEN GeomOf(j) \in scheduled ELSE j \in scheduled

\* The job with whose command a job is executed.
Carrier(j) == IF j[2] = "p" /\ Combinable(j[1]) THEN ChainedOf(j) ELSE j

\* The order of commands: the jobs', and waits, command and update of a job.
Place(c) == 3 * Rank(c.job) + (CASE c.op = "wait" -> 0 [] c.op = "cmd" -> 1 [] OTHER -> 2)

Follows(c, d) == Place(c) <= Place(d) /\ (d.op # "wait" => Place(c) < Place(d))

InPlace(s) ==
    \A i, k \in 1 .. Len(s) :
      i < k /\ s[i].op # "pad" /\ s[k].op # "pad" => Follows(s[i], s[k])

\* The fragment CCCB and the geometry CCCB hold what is left to be executed.
CommandsOk ==
    /\ InPlace(ring.cmds)
    /\ \A c \in Elems(ring.cmds) : c.op # "pad" =>
         /\ IsWritten(c.job)
         /\ c.op # "wait" => Carrier(c.job) = c.job
    /\ \A j \in Submitted : IsWritten(j) /\ j \notin executed =>
         \E c \in Elems(ring.cmds) : c.op = "cmd" /\ c.job = Carrier(j)
    /\ \A j \in scheduled : Queue(j) = "geom" /\ j \notin executed =>
         \E c \in Elems(ring.cmds) : c.op = "wait" /\ c.job = PairedOf(j)
    /\ Lists(geomRing, {j \in scheduled : Queue(j) = "geom"} \ executed)

\* What the GPU has executed, and what its timelines tell of it.
ExecutedOk ==
    /\ \A j \in executed : IF Queue(j) = "geom" THEN j \in scheduled ELSE IsWritten(j)
    /\ \A j \in executed, k \in Submitted :
         Queue(k) = Queue(j) /\ Rank(k) < Rank(j) => k \in executed
    /\ \A q \in Queues : timeline[q] # 0 =>
         \E k \in executed :
           /\ Queue(k) = q /\ seqno[k] = timeline[q]
           /\ q = "frag" => \A c \in Elems(ring.cmds) :
                c.op = "update" => Rank(k) < Rank(c.job)

\* The scheduler's pending lists hold what is left to finish.
DoneOk ==
    /\ listened = scheduled
    /\ signaled = finished
    /\ finished \subseteq executed \cap scheduled
    /\ \A q \in Queues : Lists(pending[q], {j \in scheduled : Queue(j) = q} \ finished)
    /\ \A j \in finished, k \in Submitted :
         Queue(k) = Queue(j) /\ Rank(k) < Rank(j) => k \in finished

\* A ring that has room for a sequence of that size.
FitsIn(rg, size) == Used(rg) + Cost(rg.w, size) <= CccbSize - 1

SpaceOk ==
    /\ RingOk(ring) /\ ~ring.dropped
    /\ \A j \in Submitted :
         Queue(j) = "frag" /\ Owner(j) /\ cccbFence[j] = "gone" /\ ~Written(j)
           => FitsIn(ring, SequenceSize(j))

IInv ==
    /\ TypeOK /\ SchedOk /\ SeqnoOk /\ FenceOk /\ ReadyOk /\ SpaceOk
    /\ CommandsOk /\ ExecutedOk /\ DoneOk

-----------------------------------------------------------------------------
(* What writing a sequence does to the commands of the ring.               *)

\* One more command after the others, with padding before it or not.
LEMMA OneMore ==
  ASSUME NEW old \in Seq(Cmds), NEW new, NEW c \in Cmds, c.op # "pad", InPlace(old),
         \A i \in 1 .. Len(old) : old[i].op # "pad" => Follows(old[i], c),
         Adds(old, new, c)
  PROVE  /\ InPlace(new)
         /\ \A d \in Cmds : d.op # "pad" => (d \in Elems(new) <=> d \in Elems(old) \/ d = c)
<1>1. PICK more \in Seq(Cmds) :
        /\ new = old \o more /\ Len(more) \in Nat \ {0} /\ more[Len(more)] = c
        /\ \A i \in 1 .. Len(more) : i # Len(more) => more[i].op = "pad"
  <2>1. CASE new = old \o <<c>>
    <3> DEFINE more == <<c>>
    <3>1. more \in Seq(Cmds) /\ Len(more) = 1 /\ more[1] = c /\ new = old \o more
      BY <2>1
    <3> HIDE DEF more
    <3>2. Len(more) \in Nat \ {0} /\ more[Len(more)] = c
      BY <3>1
    <3>3. \A i \in 1 .. Len(more) : i # Len(more) => more[i].op = "pad"
      BY <3>1
    <3> QED
      BY <3>1, <3>2, <3>3
  <2>2. CASE \E pad \in Cmds : pad.op = "pad" /\ new = old \o <<pad, c>>
    <3>1. PICK pad \in Cmds : pad.op = "pad" /\ new = old \o <<pad, c>>
      BY <2>2
    <3> DEFINE more == <<pad, c>>
    <3>2. /\ more \in Seq(Cmds) /\ Len(more) = 2 /\ more[1] = pad /\ more[2] = c
          /\ new = old \o more
      BY <3>1
    <3> HIDE DEF more
    <3>3. Len(more) \in Nat \ {0} /\ more[Len(more)] = c
      BY <3>2
    <3>4. \A i \in 1 .. Len(more) : i # Len(more) => more[i].op = "pad"
      <4>1. \A i \in 1 .. 2 : i # 2 => i = 1
        OBVIOUS
      <4> QED
        BY <3>1, <3>2, <4>1
    <3> QED
      BY <3>2, <3>3, <3>4
  <2> QED
    BY <2>1, <2>2 DEF Adds
<1> DEFINE L == Len(old)  M == Len(more)
<1>2. /\ L \in Nat /\ Len(new) = L + M /\ M \in Nat \ {0}
      /\ \A i \in 1 .. L + M : new[i] = IF i <= L THEN old[i] ELSE more[i - L]
  BY <1>1, ConcatProperties, LenProperties
<1>3. \A i \in 1 .. L : new[i] = old[i]
  BY <1>2
<1>4. new[L + M] = c
  BY <1>1, <1>2
<1>5. ASSUME NEW i \in 1 .. Len(new), new[i].op # "pad", i > L
      PROVE  i = L + M
  <2>1. i - L \in 1 .. M /\ new[i] = more[i - L]
    BY <1>2, <1>5
  <2>2. i - L = M
    BY <1>1, <1>5, <2>1
  <2> QED
    BY <1>2, <2>2
<1>6. InPlace(new)
  <2> SUFFICES ASSUME NEW i \in 1 .. Len(new), NEW k \in 1 .. Len(new), i < k,
                      new[i].op # "pad", new[k].op # "pad"
               PROVE  Follows(new[i], new[k])
    BY DEF InPlace
  <2>1. i <= L
    <3> SUFFICES ASSUME i > L PROVE FALSE
      BY <1>2
    <3>1. i = L + M
      BY <1>5
    <3> QED
      BY <1>2, <3>1
  <2>2. i \in 1 .. L /\ new[i] = old[i]
    BY <1>2, <1>3, <2>1
  <2>3. CASE k <= L
    <3>1. k \in 1 .. L /\ new[k] = old[k]
      BY <1>2, <1>3, <2>3
    <3> QED
      BY <2>2, <3>1 DEF InPlace
  <2>4. CASE k > L
    <3>1. new[k] = c
      BY <1>4, <1>5, <2>4
    <3> QED
      BY <2>2, <3>1
  <2> QED
    BY <1>2, <2>3, <2>4
<1>7. ASSUME NEW d \in Cmds, d.op # "pad"
      PROVE  d \in Elems(new) <=> d \in Elems(old) \/ d = c
  <2>1. ASSUME d \in Elems(new) PROVE d \in Elems(old) \/ d = c
    <3>1. PICK i \in 1 .. Len(new) : new[i] = d
      BY <2>1 DEF Elems
    <3>2. CASE i <= L
      <4>1. i \in 1 .. L /\ old[i] = d
        BY <1>2, <1>3, <3>1, <3>2
      <4> QED
        BY <4>1 DEF Elems
    <3>3. CASE i > L
      BY <1>4, <1>5, <1>7, <3>1, <3>3
    <3> QED
      BY <1>2, <3>2, <3>3
  <2>2. ASSUME d \in Elems(old) PROVE d \in Elems(new)
    <3>1. PICK i \in 1 .. L : old[i] = d
      BY <2>2 DEF Elems
    <3>2. i \in 1 .. Len(new) /\ new[i] = d
      BY <1>2, <1>3, <3>1
    <3> QED
      BY <3>2 DEF Elems
  <2>3. c \in Elems(new)
    <3>1. L + M \in 1 .. Len(new)
      BY <1>2
    <3> QED
      BY <1>4, <3>1 DEF Elems
  <2> QED
    BY <2>1, <2>2, <2>3
<1> QED
  BY <1>6, <1>7

\* What run_job writes has room, is in its place, and is all that is written.
LEMMA WriteAll ==
  ASSUME RingOk(ring), NEW s \in Seq(Cmds), NEW n \in Nat, Sums(s, n), Fits(n), Write(s),
         \A i \in 1 .. Len(s) : s[i].op # "pad",
         InPlace(ring.cmds), InPlace(s),
         \A i \in 1 .. Len(ring.cmds), k \in 1 .. Len(s) :
           ring.cmds[i].op # "pad" => Follows(ring.cmds[i], s[k])
  PROVE  /\ RingOk(ring') /\ ring'.r = ring.r /\ ring'.dropped = ring.dropped
         /\ InPlace(ring'.cmds)
         /\ \A d \in Cmds : d.op # "pad" =>
              (d \in Elems(ring'.cmds) <=> d \in Elems(ring.cmds) \/ d \in Elems(s))
<1> DEFINE N == Len(s)
           g == Gap(ring.w, ring.r)
<1>1. /\ ring \in Rings /\ ring.w \in 0 .. CccbSize - 1 /\ ring.r \in 0 .. CccbSize - 1
      /\ ring.cmds \in Seq(Cmds) /\ (ring.w = 0 \/ ring.w + PadSize <= CccbSize)
      /\ CccbSize \in Nat \ {0} /\ N \in Nat
  BY FragQueueAssumption DEF RingOk, Rings
<1>2. g + Cost(ring.w, n) <= CccbSize - 1
  <2>1. g \in 0 .. CccbSize - 1 /\ Space = CccbSize - 1 - g
    BY <1>1, SpaceIs DEF Used, Space
  <2>2. Cost(ring.w, n) = IF n + PadSize > CccbSize - ring.w THEN n + (CccbSize - ring.w) ELSE n
    BY <1>1, FragQueueAssumption DEF Cost, Wraps
  <2>3. Space >= Cost(ring.w, n) /\ Cost(ring.w, n) \in Nat
    BY <1>1, <2>2 DEF Fits
  <2> HIDE DEF g
  <2> QED
    BY <1>1, <2>1, <2>3
<1>3. PICK e \in [0 .. N -> Nat] :
        /\ e[0] = 0 /\ e[N] = n
        /\ \A i \in 1 .. N : e[i] = e[i - 1] + s[i].size
        /\ \A i, k \in 0 .. N : i <= k => e[i] <= e[k]
  BY DEF Sums
<1>4. PICK a : /\ a[0] = ring /\ ring' = a[N]
               /\ \A i \in 1 .. N : a[i] = WriteCmd(a[i - 1], s[i])
  BY <1>1, WriteSteps
<1> DEFINE P(i) ==
             /\ RingOk(a[i]) /\ a[i].r = ring.r /\ a[i].dropped = ring.dropped
             /\ InPlace(a[i].cmds)
             /\ \A d \in Cmds : d.op # "pad" =>
                  (d \in Elems(a[i].cmds) <=> d \in Elems(ring.cmds) \/ \E m \in 1 .. i : s[m] = d)
             /\ Along(ring.w, n, g, a[i].w, Used(a[i]), e[i])
<1>5. P(0)
  <2>1. Along(ring.w, n, g, ring.w, Used(ring), 0)
    <3>1. g \in Nat /\ Used(ring) = g
      BY <1>1 DEF Used, Gap
    <3> HIDE DEF g
    <3> QED
      BY <1>1, <3>1 DEF Along
  <2> HIDE DEF g
  <2> QED
    BY <1>3, <1>4, <2>1
<1>6. ASSUME NEW i \in 1 .. N, P(i - 1) PROVE P(i)
  <2> DEFINE rg == a[i - 1]  c == s[i]
  <2>1. /\ c \in Cmds /\ c.op # "pad" /\ c.size \in Nat /\ a[i] = WriteCmd(rg, c)
        /\ i \in 0 .. N /\ i - 1 \in 0 .. N
    <3>1. c \in Cmds /\ c.op # "pad"
      BY <1>1, ElementOfSeq
    <3>2. i \in 0 .. N /\ i - 1 \in 0 .. N
      BY <1>1
    <3>3. a[i] = WriteCmd(rg, c)
      BY <1>4
    <3> HIDE DEF c, rg
    <3> QED
      BY <3>1, <3>2, <3>3 DEF Cmds
  <2>2. e[i - 1] \in Nat /\ e[i] = e[i - 1] + c.size /\ e[i - 1] + c.size <= n
    <3>1. e[i - 1] \in Nat /\ e[i] = e[i - 1] + c.size
      BY <1>3, <2>1
    <3>2. e[i] <= n
      BY <1>1, <1>3, <2>1
    <3> QED
      BY <3>1, <3>2
  <2>3. /\ RingOk(rg) /\ rg.r = ring.r /\ rg.dropped = ring.dropped /\ InPlace(rg.cmds)
        /\ Along(ring.w, n, g, rg.w, Used(rg), e[i - 1])
        /\ \A d \in Cmds : d.op # "pad" =>
             (d \in Elems(rg.cmds) <=> d \in Elems(ring.cmds) \/ \E m \in 1 .. i - 1 : s[m] = d)
    BY <1>6
  <2> HIDE DEF c, rg, g, P
  <2>4. rg \in Rings /\ rg.w \in 0 .. CccbSize - 1 /\ rg.cmds \in Seq(Cmds)
    BY <2>3 DEF RingOk, Rings
  <2>5. Used(rg) \in Nat
    BY <2>4, SpaceIs
  <2>6. /\ Used(rg) + Cost(rg.w, c.size) <= CccbSize - 1
        /\ Along(ring.w, n, g, Moved(rg.w, c.size), Used(rg) + Cost(rg.w, c.size), e[i])
    <3>1. g + Cost(ring.w, n) <= CccbSize - 1 /\ Along(ring.w, n, g, rg.w, Used(rg), e[i - 1])
      BY <1>2, <2>3
    <3>2. /\ Used(rg) + Cost(rg.w, c.size) <= CccbSize - 1
          /\ Along(ring.w, n, g, Moved(rg.w, c.size), Used(rg) + Cost(rg.w, c.size), e[i - 1] + c.size)
      BY <1>1, <2>1, <2>2, <2>4, <2>5, <3>1, RoomForEach DEF g
    <3> QED
      BY <2>2, <3>2
  <2>7. /\ RingOk(a[i]) /\ a[i].r = rg.r /\ a[i].dropped = rg.dropped
        /\ Used(a[i]) = Used(rg) + Cost(rg.w, c.size) /\ a[i].w = Moved(rg.w, c.size)
        /\ Adds(rg.cmds, a[i].cmds, c)
    BY <2>1, <2>3, <2>6, OneWrite
  <2>8. ASSUME NEW k \in 1 .. Len(rg.cmds), rg.cmds[k].op # "pad"
        PROVE  Follows(rg.cmds[k], c)
    <3>1. rg.cmds[k] \in Cmds
      BY <2>4, ElementOfSeq
    <3>2. rg.cmds[k] \in Elems(rg.cmds)
      BY DEF Elems
    <3>3. CASE rg.cmds[k] \in Elems(ring.cmds)
      <4>1. PICK m \in 1 .. Len(ring.cmds) : ring.cmds[m] = rg.cmds[k]
        BY <3>3 DEF Elems
      <4>2. Follows(ring.cmds[m], s[i])
        BY <2>8, <4>1
      <4> QED
        BY <4>1, <4>2 DEF c
    <3>4. CASE \E m \in 1 .. i - 1 : s[m] = rg.cmds[k]
      <4>1. PICK m \in 1 .. i - 1 : s[m] = rg.cmds[k]
        BY <3>4
      <4>2. m \in 1 .. Len(s) /\ m < i
        BY <1>1
      <4>3. Follows(s[m], s[i])
        BY <2>8, <4>1, <4>2 DEF InPlace
      <4> QED
        BY <4>1, <4>3 DEF c
    <3> QED
      BY <2>3, <2>8, <3>1, <3>2, <3>3, <3>4
  <2>9. /\ InPlace(a[i].cmds)
        /\ \A d \in Cmds : d.op # "pad" => (d \in Elems(a[i].cmds) <=> d \in Elems(rg.cmds) \/ d = c)
    <3> DEFINE old == rg.cmds  new == a[i].cmds
    <3>1. /\ old \in Seq(Cmds) /\ InPlace(old) /\ Adds(old, new, c)
          /\ \A k \in 1 .. Len(old) : old[k].op # "pad" => Follows(old[k], c)
      BY <2>3, <2>4, <2>7, <2>8
    <3> HIDE DEF old, new
    <3>2. /\ InPlace(new)
          /\ \A d \in Cmds : d.op # "pad" => (d \in Elems(new) <=> d \in Elems(old) \/ d = c)
      BY <2>1, <3>1, OneMore
    <3> QED
      BY <3>2 DEF old, new
  <2>10. \A d : (\E m \in 1 .. i : s[m] = d) <=> (\E m \in 1 .. i - 1 : s[m] = d) \/ d = c
    <3>1. \A m \in 1 .. i : m \in 1 .. i - 1 \/ m = i
      OBVIOUS
    <3>2. 1 .. i - 1 \subseteq 1 .. i /\ i \in 1 .. i
      OBVIOUS
    <3> QED
      BY <3>1, <3>2 DEF c
  <2>11. \A d \in Cmds : d.op # "pad" =>
           (d \in Elems(a[i].cmds) <=> d \in Elems(ring.cmds) \/ \E m \in 1 .. i : s[m] = d)
    BY <2>3, <2>9, <2>10
  <2> QED
    BY <2>3, <2>6, <2>7, <2>9, <2>11 DEF P
<1>7. P(N)
  <2> HIDE DEF P, N
  <2>0. N \in 0 .. N
    BY <1>1
  <2> DEFINE T == {i \in 0 .. N : ~P(i)}
  <2> SUFFICES ASSUME T # {} PROVE FALSE
    BY <2>0
  <2>1. T \in SUBSET Nat
    OBVIOUS
  <2> HIDE DEF T
  <2>2. PICK m \in T : \A i \in T : m <= i
    BY <2>1, LeastExists
  <2>3. m \in 0 .. N /\ ~P(m)
    BY <2>2 DEF T
  <2>4. m # 0
    BY <1>5, <2>3
  <2>5. m \in 1 .. N /\ m - 1 \in 0 .. N /\ ~(m <= m - 1)
    BY <1>1, <2>3, <2>4
  <2>6. P(m - 1)
    BY <2>2, <2>5 DEF T
  <2> QED
    BY <1>6, <2>3, <2>5, <2>6
<1> QED
  <2>1. P(N) => /\ RingOk(ring') /\ ring'.r = ring.r /\ ring'.dropped = ring.dropped
                /\ InPlace(ring'.cmds)
                /\ \A d \in Cmds : d.op # "pad" =>
                     (d \in Elems(ring'.cmds) <=> d \in Elems(ring.cmds) \/ \E m \in 1 .. N : s[m] = d)
    BY <1>4
  <2> HIDE DEF P
  <2> QED
    BY <1>7, <2>1 DEF Elems

-----------------------------------------------------------------------------
(* Jobs.                                                                   *)

\* What a job is, and which jobs of its submission go with it.
LEMMA JobFacts ==
  ASSUME NEW j \in Jobs
  PROVE  /\ j = <<j[1], j[2]>> /\ j[1] \in 1 .. MaxSubmits /\ j[1] \in Nat /\ j[2] \in {"g", "p", "f"}
         /\ GeomOf(j) \in Jobs /\ GeomOf(j)[1] = j[1] /\ GeomOf(j)[2] = "g"
         /\ PairedOf(j) \in Jobs /\ PairedOf(j)[1] = j[1] /\ PairedOf(j)[2] = "p"
         /\ ChainedOf(j) \in Jobs /\ ChainedOf(j)[1] = j[1] /\ ChainedOf(j)[2] = "f"
         /\ Queue(j) \in Queues /\ (Queue(j) = "geom" <=> j[2] = "g")
         /\ j # NoJob
<1>1. j = <<j[1], j[2]>> /\ j[1] \in 1 .. MaxSubmits /\ j[2] \in {"g", "p", "f"}
  BY DEF Jobs
<1>2. j # NoJob
  BY FragQueueAssumption
<1> QED
  BY <1>1, <1>2, FragQueueAssumption DEF GeomOf, PairedOf, ChainedOf, Queue, Queues, Jobs

\* The order of a queue is that of the submissions, p before f.
LEMMA RankFacts ==
  ASSUME NEW j \in Jobs, NEW k \in Jobs
  PROVE  /\ Rank(j) \in Nat /\ Rank(k) \in Nat
         /\ j[1] < k[1] => Rank(j) < Rank(k)
         /\ Rank(j) < Rank(k) => j[1] < k[1] \/ (j[1] = k[1] /\ j[2] # "f" /\ k[2] = "f")
         /\ Queue(j) = Queue(k) /\ Rank(j) = Rank(k) => j = k
<1>1. /\ j = <<j[1], j[2]>> /\ j[1] \in Nat /\ j[2] \in {"g", "p", "f"}
      /\ k = <<k[1], k[2]>> /\ k[1] \in Nat /\ k[2] \in {"g", "p", "f"}
  BY JobFacts
<1>2. Rank(j) \in Nat /\ Rank(k) \in Nat
  BY <1>1 DEF Rank
<1>3. j[1] < k[1] => Rank(j) < Rank(k)
  BY <1>1 DEF Rank
<1>4. Rank(j) < Rank(k) => j[1] < k[1] \/ (j[1] = k[1] /\ j[2] # "f" /\ k[2] = "f")
  BY <1>1 DEF Rank
<1>5. ASSUME Queue(j) = Queue(k), Rank(j) = Rank(k) PROVE j = k
  <2>1. j[1] = k[1] /\ (j[2] = "f" <=> k[2] = "f")
    BY <1>1, <1>5 DEF Rank
  <2>2. j[2] = "g" <=> k[2] = "g"
    BY <1>1, <1>5 DEF Queue
  <2>3. j[2] = k[2]
    BY <1>1, <2>1, <2>2
  <2> QED
    BY <1>1, <2>1, <2>3
<1> QED
  BY <1>2, <1>3, <1>4, <1>5

-----------------------------------------------------------------------------
(* Sizes.                                                                  *)

\* Division by the number of UFOs of a command.
LEMMA DivMod ==
  ASSUME NEW n \in Nat
  PROVE  /\ n \div MaxUfos \in Nat /\ n % MaxUfos \in 0 .. MaxUfos - 1
         /\ n = MaxUfos * (n \div MaxUfos) + (n % MaxUfos)
  BY FragQueueAssumption

\* The size of the UFO commands is a number, and not zero when there is a UFO.
LEMMA UfoCmdsNat ==
  ASSUME NEW n \in Nat
  PROVE  /\ UfoCmdsSize(n) \in Nat /\ (n # 0 => UfoCmdsSize(n) # 0)
<1>1. /\ n \div MaxUfos \in Nat /\ n % MaxUfos \in 0 .. MaxUfos - 1
      /\ n = MaxUfos * (n \div MaxUfos) + (n % MaxUfos) /\ MaxUfos \in Nat \ {0}
  BY DivMod, FragQueueAssumption
<1> DEFINE d == n \div MaxUfos  m == n % MaxUfos
<1>2. UfoCmdsSize(n) = d + (IF m = 0 THEN 0 ELSE 1)
  BY DEF UfoCmdsSize
<1>3. d \in Nat /\ m \in Nat /\ (d = 0 /\ m = 0 => n = 0)
  <2>1. MaxUfos * 0 + 0 = 0
    BY <1>1
  <2> QED
    BY <1>1, <2>1
<1> HIDE DEF d, m
<1> QED
  BY <1>2, <1>3

\* A dependency less never takes more commands.
LEMMA UfoCmdsLess ==
  ASSUME NEW a \in Nat, NEW b \in Nat, a <= b
  PROVE  UfoCmdsSize(a) <= UfoCmdsSize(b)
<1> DEFINE da == a \div MaxUfos  ma == a % MaxUfos  db == b \div MaxUfos  mb == b % MaxUfos
<1>1. /\ da \in Nat /\ ma \in 0 .. MaxUfos - 1 /\ a = MaxUfos * da + ma
      /\ db \in Nat /\ mb \in 0 .. MaxUfos - 1 /\ b = MaxUfos * db + mb /\ MaxUfos \in Nat \ {0}
  BY DivMod, FragQueueAssumption
<1>2. /\ UfoCmdsSize(a) = da + (IF ma = 0 THEN 0 ELSE 1)
      /\ UfoCmdsSize(b) = db + (IF mb = 0 THEN 0 ELSE 1)
  BY DEF UfoCmdsSize
<1> HIDE DEF da, ma, db, mb
<1>3. da <= db
  <2> SUFFICES ASSUME da >= db + 1 PROVE FALSE
    BY <1>1
  <2>1. MaxUfos * da >= MaxUfos * (db + 1)
    BY <1>1
  <2>2. MaxUfos * (db + 1) = MaxUfos * db + MaxUfos
    BY <1>1
  <2> DEFINE x == MaxUfos * da  y == MaxUfos * db  z == MaxUfos * (db + 1)
  <2>3. /\ x \in Nat /\ y \in Nat /\ x >= z /\ z = y + MaxUfos /\ a = x + ma /\ b = y + mb
    BY <1>1, <2>1, <2>2
  <2> HIDE DEF x, y, z
  <2> QED
    BY <1>1, <2>3
<1>4. da = db => ma <= mb
  BY <1>1
<1> QED
  BY <1>1, <1>2, <1>3, <1>4

\* One UFO takes one command.
LEMMA UfoCmdsOne == UfoCmdsSize(1) = 1
<1>1. CASE MaxUfos = 1
  BY <1>1 DEF UfoCmdsSize
<1>2. CASE MaxUfos # 1
  <2>1. 1 \div MaxUfos = 0 /\ 1 % MaxUfos = 1
    BY <1>2, FragQueueAssumption
  <2> QED
    BY <2>1 DEF UfoCmdsSize
<1> QED
  BY <1>1, <1>2

-----------------------------------------------------------------------------
(* Space.                                                                  *)

\* Fits(): what is used and what the sequence costs is not all of the ring.
LEMMA FitsIs ==
  ASSUME ring \in Rings, NEW n \in Nat
  PROVE  Fits(n) <=> FitsIn(ring, n)
<1>1. /\ ring.w \in 0 .. CccbSize - 1 /\ CccbSize \in Nat \ {0}
      /\ Used(ring) \in 0 .. CccbSize - 1 /\ Space = CccbSize - 1 - Used(ring)
  BY SpaceIs, FragQueueAssumption DEF Rings, Space
<1>2. Cost(ring.w, n) = IF n + PadSize > CccbSize - ring.w THEN n + (CccbSize - ring.w) ELSE n
  BY <1>1, FragQueueAssumption DEF Cost, Wraps
<1>3. Cost(ring.w, n) \in Nat
  BY <1>1, <1>2
<1>4. Fits(n) <=> Space >= Cost(ring.w, n)
  BY <1>2 DEF Fits
<1> QED
  BY <1>1, <1>3, <1>4 DEF FitsIn

\* Less fits where more does, also when more has been consumed.
LEMMA FitsInLess ==
  ASSUME NEW rg \in Rings, NEW new \in Rings, new.w = rg.w, Used(new) <= Used(rg),
         NEW m \in Nat, NEW n \in Nat, m <= n, FitsIn(rg, n)
  PROVE  FitsIn(new, m)
<1>1. /\ rg.w \in 0 .. CccbSize - 1 /\ CccbSize \in Nat \ {0} /\ PadSize \in Nat \ {0}
      /\ Used(rg) \in 0 .. CccbSize - 1 /\ Used(new) \in 0 .. CccbSize - 1
  BY SpaceIs, FragQueueAssumption DEF Rings
<1>2. Cost(rg.w, m) \in Nat /\ Cost(rg.w, n) \in Nat /\ Cost(rg.w, m) <= Cost(rg.w, n)
  BY <1>1 DEF Cost, Wraps
<1> QED
  BY <1>1, <1>2 DEF FitsIn

-----------------------------------------------------------------------------
(* The sequences that run_job writes.                                      *)

WaitOf(j) == [op |-> "wait", job |-> j, size |-> 1]
CmdOf(j) == [op |-> "cmd", job |-> j, size |-> CmdSize]
UpdateOf(j) == [op |-> "update", job |-> j, size |-> 1]

\* The commands of a job and their places in the order of commands.
LEMMA Commands ==
  ASSUME NEW j \in Jobs
  PROVE  /\ WaitOf(j) \in Cmds /\ CmdOf(j) \in Cmds /\ UpdateOf(j) \in Cmds
         /\ Place(WaitOf(j)) = 3 * Rank(j) /\ Place(CmdOf(j)) = 3 * Rank(j) + 1
         /\ Place(UpdateOf(j)) = 3 * Rank(j) + 2
<1>1. Rank(j) \in Nat
  BY RankFacts
<1>2. WaitOf(j) \in Cmds /\ CmdOf(j) \in Cmds /\ UpdateOf(j) \in Cmds
  BY FragQueueAssumption DEF WaitOf, CmdOf, UpdateOf, Cmds
<1>3. /\ WaitOf(j).op = "wait" /\ WaitOf(j).job = j
      /\ CmdOf(j).op = "cmd" /\ CmdOf(j).job = j
      /\ UpdateOf(j).op = "update" /\ UpdateOf(j).job = j
  BY DEF WaitOf, CmdOf, UpdateOf
<1>4. Place(WaitOf(j)) = 3 * Rank(j) + 0 /\ Place(CmdOf(j)) = 3 * Rank(j) + 1
      /\ Place(UpdateOf(j)) = 3 * Rank(j) + 2
  BY <1>3 DEF Place
<1> QED
  BY <1>1, <1>2, <1>4

\* The elements of a concatenation.
LEMMA ElemsConcat ==
  ASSUME NEW S, NEW s \in Seq(S), NEW t \in Seq(S)
  PROVE  s \o t \in Seq(S) /\ Elems(s \o t) = Elems(s) \cup Elems(t)
<1> DEFINE u == s \o t
<1>1. /\ Len(u) = Len(s) + Len(t) /\ Len(s) \in Nat /\ Len(t) \in Nat /\ u \in Seq(S)
      /\ \A i \in 1 .. Len(s) + Len(t) : u[i] = IF i <= Len(s) THEN s[i] ELSE t[i - Len(s)]
  BY ConcatProperties, LenProperties
<1> HIDE DEF u
<1>2. ASSUME NEW i \in 1 .. Len(u) PROVE u[i] \in Elems(s) \cup Elems(t)
  <2>1. CASE i <= Len(s)
    <3>1. i \in 1 .. Len(s) /\ u[i] = s[i]
      BY <1>1, <2>1
    <3> QED
      BY <3>1 DEF Elems
  <2>2. CASE i > Len(s)
    <3>1. i - Len(s) \in 1 .. Len(t) /\ u[i] = t[i - Len(s)]
      BY <1>1, <2>2
    <3> QED
      BY <3>1 DEF Elems
  <2> QED
    BY <1>1, <2>1, <2>2
<1>3. ASSUME NEW i \in 1 .. Len(s) PROVE s[i] \in Elems(u)
  <2>1. i \in 1 .. Len(u) /\ u[i] = s[i]
    BY <1>1
  <2> QED
    BY <2>1 DEF Elems
<1>4. ASSUME NEW i \in 1 .. Len(t) PROVE t[i] \in Elems(u)
  <2>1. Len(s) + i \in 1 .. Len(u) /\ ~(Len(s) + i <= Len(s)) /\ (Len(s) + i) - Len(s) = i
    BY <1>1
  <2>2. u[Len(s) + i] = t[i]
    BY <1>1, <2>1
  <2> QED
    BY <2>1, <2>2 DEF Elems
<1>5. Elems(u) = Elems(s) \cup Elems(t)
  <2>1. \A x \in Elems(u) : x \in Elems(s) \cup Elems(t)
    BY <1>2 DEF Elems
  <2>2. \A x \in Elems(s) : x \in Elems(u)
    BY <1>3 DEF Elems
  <2>3. \A x \in Elems(t) : x \in Elems(u)
    BY <1>4 DEF Elems
  <2> QED
    BY <2>1, <2>2, <2>3
<1> QED
  BY <1>1, <1>5 DEF u

\* A concatenation is in order when its parts are and the second follows the first.
LEMMA InPlaceConcat ==
  ASSUME NEW s \in Seq(Cmds), NEW t \in Seq(Cmds), InPlace(s), InPlace(t),
         \A c \in Elems(s), d \in Elems(t) : Follows(c, d)
  PROVE  InPlace(s \o t)
<1> DEFINE u == s \o t
<1>1. /\ Len(u) = Len(s) + Len(t) /\ Len(s) \in Nat /\ Len(t) \in Nat
      /\ \A i \in 1 .. Len(s) + Len(t) : u[i] = IF i <= Len(s) THEN s[i] ELSE t[i - Len(s)]
  BY ConcatProperties, LenProperties
<1> HIDE DEF u
<1>2. ASSUME NEW i \in 1 .. Len(u), NEW k \in 1 .. Len(u), i < k, u[i].op # "pad", u[k].op # "pad"
      PROVE  Follows(u[i], u[k])
  <2>1. CASE k <= Len(s)
    <3>1. i \in 1 .. Len(s) /\ k \in 1 .. Len(s) /\ u[i] = s[i] /\ u[k] = s[k]
      BY <1>1, <1>2, <2>1
    <3> QED
      BY <1>2, <3>1 DEF InPlace
  <2>2. CASE i > Len(s)
    <3> DEFINE x == i - Len(s)  y == k - Len(s)
    <3>1. x \in 1 .. Len(t) /\ y \in 1 .. Len(t) /\ x < y /\ u[i] = t[x] /\ u[k] = t[y]
      BY <1>1, <1>2, <2>2
    <3> HIDE DEF x, y
    <3> QED
      BY <1>2, <3>1 DEF InPlace
  <2>3. CASE i <= Len(s) /\ k > Len(s)
    <3>1. i \in 1 .. Len(s) /\ u[i] = s[i] /\ k - Len(s) \in 1 .. Len(t) /\ u[k] = t[k - Len(s)]
      BY <1>1, <2>3
    <3>2. u[i] \in Elems(s) /\ u[k] \in Elems(t)
      BY <3>1 DEF Elems
    <3> QED
      BY <3>2
  <2> QED
    BY <1>1, <2>1, <2>2, <2>3
<1> QED
  BY <1>2 DEF InPlace, u

\* The wait commands of a job: their size, their order, what they are.
LEMMA WaitsShape ==
  ASSUME NEW j \in Jobs, NEW n \in Nat
  PROVE  /\ Waits(j, n) \in Seq(Cmds) /\ Sums(Waits(j, n), UfoCmdsSize(n))
         /\ InPlace(Waits(j, n)) /\ Elems(Waits(j, n)) \subseteq {WaitOf(j)}
         /\ n # 0 => WaitOf(j) \in Elems(Waits(j, n))
<1> DEFINE m == UfoCmdsSize(n)
           s == Waits(j, n)
<1>1. m \in Nat /\ (n # 0 => m # 0)
  BY UfoCmdsNat
<1>2. s = [i \in 1 .. m |-> WaitOf(j)] /\ WaitOf(j) \in Cmds
  BY Commands DEF Waits, WaitOf
<1> HIDE DEF m, s
<1>3. s \in Seq(Cmds) /\ Len(s) = m /\ \A i \in 1 .. m : s[i] = WaitOf(j)
  BY <1>1, <1>2
<1>4. Elems(s) \subseteq {WaitOf(j)}
  BY <1>3 DEF Elems
<1>5. n # 0 => WaitOf(j) \in Elems(s)
  <2>1. n # 0 => 1 \in 1 .. Len(s)
    BY <1>1, <1>3
  <2> QED
    BY <1>3, <2>1 DEF Elems
<1>6. InPlace(s)
  <2>1. WaitOf(j).op = "wait" /\ Place(WaitOf(j)) = 3 * Rank(j) /\ Rank(j) \in Nat
    BY Commands, RankFacts DEF WaitOf
  <2>2. Follows(WaitOf(j), WaitOf(j))
    BY <2>1 DEF Follows
  <2> QED
    BY <1>3, <2>2 DEF InPlace
<1>7. Sums(s, m)
  <2> DEFINE e == [i \in 0 .. m |-> i]
  <2>1. e \in [0 .. m -> Nat] /\ e[0] = 0 /\ e[m] = m /\ \A i \in 0 .. m : e[i] = i
    BY <1>1
  <2> HIDE DEF e
  <2>2. \A i \in 1 .. m : s[i].size = 1
    BY <1>3 DEF WaitOf
  <2>3. \A i \in 1 .. m : e[i] = e[i - 1] + s[i].size
    BY <1>1, <2>1, <2>2
  <2>4. \A i, k \in 0 .. m : i <= k => e[i] <= e[k]
    BY <1>1, <2>1
  <2> QED
    BY <1>3, <2>1, <2>3, <2>4 DEF Sums
<1> QED
  BY <1>3, <1>4, <1>5, <1>6, <1>7 DEF m, s

\* The geometry or fragment command of a job and the update of its fence.
LEMMA BodyShape ==
  ASSUME NEW j \in Jobs
  PROVE  /\ Body(j) \in Seq(Cmds) /\ Sums(Body(j), CmdSize + 1)
         /\ InPlace(Body(j)) /\ Elems(Body(j)) = {CmdOf(j), UpdateOf(j)}
<1>1. Body(j) = <<CmdOf(j), UpdateOf(j)>> /\ CmdOf(j) \in Cmds /\ UpdateOf(j) \in Cmds
  BY Commands DEF Body, CmdOf, UpdateOf
<1> DEFINE s == <<CmdOf(j), UpdateOf(j)>>
<1>2. s \in Seq(Cmds) /\ Len(s) = 2 /\ s[1] = CmdOf(j) /\ s[2] = UpdateOf(j)
      /\ s = <<CmdOf(j)>> \o <<UpdateOf(j)>> /\ <<CmdOf(j)>> \in Seq(Cmds) /\ <<UpdateOf(j)>> \in Seq(Cmds)
  BY <1>1
<1> HIDE DEF s
<1>3. \A i \in 1 .. 2 : i = 1 \/ i = 2
  OBVIOUS
<1>4. Elems(s) = {CmdOf(j), UpdateOf(j)}
  BY <1>2, <1>3 DEF Elems
<1>5. InPlace(s)
  <2>1. Follows(CmdOf(j), UpdateOf(j))
    <3>1. Rank(j) \in Nat
      BY RankFacts
    <3> QED
      BY <3>1, Commands DEF Follows
  <2>2. \A i, k \in 1 .. 2 : i < k => i = 1 /\ k = 2
    OBVIOUS
  <2> QED
    BY <1>2, <2>1, <2>2 DEF InPlace
<1>6. Sums(s, CmdSize + 1)
  <2>1. CmdOf(j).size = CmdSize /\ UpdateOf(j).size = 1 /\ CmdSize \in Nat
    BY FragQueueAssumption DEF CmdOf, UpdateOf
  <2>2. Sums(<<CmdOf(j)>>, CmdSize) /\ Sums(<<UpdateOf(j)>>, 1)
    BY <1>1, <2>1, SumsOne
  <2> QED
    BY <1>2, <2>1, <2>2, SumsConcat
<1> QED
  BY <1>1, <1>2, <1>4, <1>5, <1>6 DEF s

\* No command at all takes no space.
LEMMA NothingShape ==
  /\ <<>> \in Seq(Cmds) /\ Sums(<<>>, 0) /\ InPlace(<<>>) /\ Elems(<<>>) = {}
<1>1. <<>> \in Seq(Cmds) /\ Len(<<>>) = 0 /\ 1 .. 0 = {}
  OBVIOUS
<1> QED
  BY <1>1, SumsEmpty DEF InPlace, Elems

\* The commands of a job, in the space that pvr_job computes for them.
LEMMA JobCmdsShape ==
  ASSUME NEW j \in Jobs, deps[j] \in Nat
  PROVE  /\ JobCmdsSize(deps[j]) \in Nat
         /\ JobCmds(j) \in Seq(Cmds) /\ Sums(JobCmds(j), JobCmdsSize(deps[j]))
         /\ InPlace(JobCmds(j)) /\ CmdOf(j) \in Elems(JobCmds(j))
         /\ Elems(JobCmds(j)) \subseteq {WaitOf(j), CmdOf(j), UpdateOf(j)}
<1> DEFINE s == Waits(j, deps[j])  m == UfoCmdsSize(deps[j])
<1>1. /\ s \in Seq(Cmds) /\ Sums(s, m) /\ InPlace(s) /\ Elems(s) \subseteq {WaitOf(j)}
      /\ m \in Nat
  BY WaitsShape, UfoCmdsNat
<1>2. /\ Body(j) \in Seq(Cmds) /\ Sums(Body(j), CmdSize + 1)
      /\ InPlace(Body(j)) /\ Elems(Body(j)) = {CmdOf(j), UpdateOf(j)}
  BY BodyShape
<1>3. CmdSize + 1 \in Nat /\ CmdSize \in Nat
  BY FragQueueAssumption
<1>4. JobCmdsSize(deps[j]) = m + (CmdSize + 1)
  BY <1>1, <1>3, UfoCmdsOne DEF JobCmdsSize
<1>5. JobCmds(j) = s \o Body(j)
  BY DEF JobCmds
<1> HIDE DEF s, m
<1>6. Sums(s \o Body(j), m + (CmdSize + 1))
  BY <1>1, <1>2, <1>3, SumsConcat
<1>7. \A c \in Elems(s), d \in Elems(Body(j)) : Follows(c, d)
  <2>1. Rank(j) \in Nat
    BY RankFacts
  <2>2. Follows(WaitOf(j), CmdOf(j)) /\ Follows(WaitOf(j), UpdateOf(j))
    BY <2>1, Commands DEF Follows
  <2> QED
    BY <1>1, <1>2, <2>2
<1>8. InPlace(s \o Body(j))
  BY <1>1, <1>2, <1>7, InPlaceConcat
<1>9. s \o Body(j) \in Seq(Cmds) /\ Elems(s \o Body(j)) = Elems(s) \cup Elems(Body(j))
  BY <1>1, <1>2, ElemsConcat
<1>10. JobCmdsSize(deps[j]) \in Nat
  BY <1>1, <1>3, <1>4
<1> QED
  BY <1>1, <1>2, <1>4, <1>5, <1>6, <1>8, <1>9, <1>10

\* The commands of a paired job and of the one chained to it: what the
\* geometry queue's scheduler writes.
LEMMA PairCmdsShape ==
  ASSUME NEW p \in Jobs, p[2] = "p", deps \in [Jobs -> Nat]
  PROVE  /\ SequenceSize(p) \in Nat
         /\ PairCmds(p) \in Seq(Cmds) /\ Sums(PairCmds(p), SequenceSize(p))
         /\ InPlace(PairCmds(p)) /\ WaitOf(p) \in Elems(PairCmds(p))
         /\ ~Combinable(p[1]) => CmdOf(p) \in Elems(PairCmds(p))
         /\ IsChained(p[1]) => CmdOf(ChainedOf(p)) \in Elems(PairCmds(p))
         /\ \A c \in Elems(PairCmds(p)) :
              \/ c = WaitOf(p)
              \/ ~Combinable(p[1]) /\ c \in {CmdOf(p), UpdateOf(p)}
              \/ IsChained(p[1])
                   /\ c \in {WaitOf(ChainedOf(p)), CmdOf(ChainedOf(p)), UpdateOf(ChainedOf(p))}
<1> DEFINE f == ChainedOf(p)
           a == UfoCmdsSize(deps[p] + 1)
           b == IF Combinable(p[1]) THEN 0 ELSE CmdSize + UfoCmdsSize(1)
           d == IF IsChained(p[1]) THEN JobCmdsSize(deps[f]) ELSE 0
           s == Waits(p, deps[p] + 1)
           t == IF Combinable(p[1]) THEN <<>> ELSE Body(p)
           u == IF IsChained(p[1]) THEN JobCmds(f) ELSE <<>>
<1>1. f \in Jobs /\ f[1] = p[1] /\ f[2] = "f" /\ deps[p] + 1 \in Nat \ {0} /\ deps[f] \in Nat
  BY JobFacts
<1>2. SequenceSize(p) = a + b + d /\ PairCmds(p) = (s \o t) \o u
  BY DEF SequenceSize, PairCmds
<1>3. /\ s \in Seq(Cmds) /\ Sums(s, a) /\ InPlace(s) /\ Elems(s) \subseteq {WaitOf(p)}
      /\ WaitOf(p) \in Elems(s) /\ a \in Nat
  BY <1>1, WaitsShape, UfoCmdsNat
<1>4. /\ t \in Seq(Cmds) /\ Sums(t, b) /\ InPlace(t) /\ b \in Nat
      /\ Elems(t) = IF Combinable(p[1]) THEN {} ELSE {CmdOf(p), UpdateOf(p)}
  <2>1. CmdSize + 1 \in Nat /\ UfoCmdsSize(1) = 1
    BY UfoCmdsOne, FragQueueAssumption
  <2>2. CASE Combinable(p[1])
    BY <2>2, NothingShape
  <2>3. CASE ~Combinable(p[1])
    BY <2>1, <2>3, BodyShape
  <2> QED
    BY <2>2, <2>3
<1>5. /\ u \in Seq(Cmds) /\ Sums(u, d) /\ InPlace(u) /\ d \in Nat
      /\ Elems(u) \subseteq {WaitOf(f), CmdOf(f), UpdateOf(f)}
      /\ IsChained(p[1]) => CmdOf(f) \in Elems(u)
      /\ ~IsChained(p[1]) => Elems(u) = {}
  <2>1. CASE IsChained(p[1])
    BY <1>1, <2>1, JobCmdsShape
  <2>2. CASE ~IsChained(p[1])
    BY <2>2, NothingShape
  <2> QED
    BY <2>1, <2>2
<1>6. Rank(p) \in Nat /\ Rank(f) = Rank(p) + 1
  BY <1>1, RankFacts, JobFacts DEF Rank
<1>7. /\ Follows(WaitOf(p), CmdOf(p)) /\ Follows(WaitOf(p), UpdateOf(p))
      /\ \A c \in {WaitOf(p), CmdOf(p), UpdateOf(p)}, e \in {WaitOf(f), CmdOf(f), UpdateOf(f)} :
           Follows(c, e)
  <2>1. /\ Place(WaitOf(p)) = 3 * Rank(p) /\ Place(CmdOf(p)) = 3 * Rank(p) + 1
        /\ Place(UpdateOf(p)) = 3 * Rank(p) + 2
        /\ Place(WaitOf(f)) = 3 * Rank(p) + 3 /\ Place(CmdOf(f)) = 3 * Rank(p) + 4
        /\ Place(UpdateOf(f)) = 3 * Rank(p) + 5
    BY <1>1, <1>6, Commands
  <2> QED
    BY <1>6, <2>1 DEF Follows
<1> HIDE DEF f, a, b, d, s, t, u
<1>8. \A c \in Elems(s), e \in Elems(t) : Follows(c, e)
  BY <1>3, <1>4, <1>7
<1>9. s \o t \in Seq(Cmds) /\ Elems(s \o t) = Elems(s) \cup Elems(t)
  BY <1>3, <1>4, ElemsConcat
<1>10. Sums(s \o t, a + b) /\ a + b \in Nat
  BY <1>3, <1>4, SumsConcat
<1>11. InPlace(s \o t)
  BY <1>3, <1>4, <1>8, InPlaceConcat
<1>12. \A c \in Elems(s \o t), e \in Elems(u) : Follows(c, e)
  BY <1>3, <1>4, <1>5, <1>7, <1>9
<1>13. (s \o t) \o u \in Seq(Cmds) /\ Elems((s \o t) \o u) = Elems(s) \cup Elems(t) \cup Elems(u)
  <2> DEFINE v == s \o t
  <2>1. v \in Seq(Cmds) /\ Elems(v) = Elems(s) \cup Elems(t)
    BY <1>9
  <2> HIDE DEF v
  <2>2. v \o u \in Seq(Cmds) /\ Elems(v \o u) = Elems(v) \cup Elems(u)
    BY <1>5, <2>1, ElemsConcat
  <2> QED
    BY <2>1, <2>2 DEF v
<1>14. Sums((s \o t) \o u, a + b + d) /\ a + b + d \in Nat
  <2> DEFINE v == s \o t  n == a + b
  <2>1. v \in Seq(Cmds) /\ Sums(v, n) /\ n \in Nat
    BY <1>9, <1>10
  <2> HIDE DEF v, n
  <2>2. Sums(v \o u, n + d) /\ n + d \in Nat
    BY <1>5, <2>1, SumsConcat
  <2> QED
    BY <2>2 DEF v, n
<1>15. InPlace((s \o t) \o u)
  BY <1>5, <1>9, <1>11, <1>12, InPlaceConcat
<1>16. ASSUME NEW c \in Elems(PairCmds(p))
       PROVE  \/ c = WaitOf(p)
              \/ ~Combinable(p[1]) /\ c \in {CmdOf(p), UpdateOf(p)}
              \/ IsChained(p[1]) /\ c \in {WaitOf(f), CmdOf(f), UpdateOf(f)}
  BY <1>2, <1>3, <1>4, <1>5, <1>13
<1> QED
  BY <1>2, <1>3, <1>4, <1>5, <1>13, <1>14, <1>15, <1>16 DEF f

\* A dependency that signals leaves a sequence no longer than it was.
LEMMA SequenceSizeLess ==
  ASSUME deps \in [Jobs -> Nat], deps' \in [Jobs -> Nat], NEW j \in Jobs,
         \A k \in Jobs : deps'[k] <= deps[k], sub'[j[1]] = sub[j[1]]
  PROVE  SequenceSize(j) \in Nat /\ SequenceSize(j)' \in Nat /\ SequenceSize(j)' <= SequenceSize(j)
<1> DEFINE f == ChainedOf(j)
           a == UfoCmdsSize(deps[j] + 1)  b == IF Combinable(j[1]) THEN 0 ELSE CmdSize + UfoCmdsSize(1)
           x == UfoCmdsSize(deps[j])      y == UfoCmdsSize(deps[f])
           an == UfoCmdsSize(deps'[j] + 1)
           xn == UfoCmdsSize(deps'[j])    yn == UfoCmdsSize(deps'[f])
<1>1. /\ f \in Jobs /\ deps[j] \in Nat /\ deps'[j] \in Nat /\ deps[f] \in Nat /\ deps'[f] \in Nat
      /\ deps'[j] <= deps[j] /\ deps'[f] <= deps[f] /\ deps'[j] + 1 <= deps[j] + 1
      /\ deps[j] + 1 \in Nat /\ deps'[j] + 1 \in Nat
  BY JobFacts
<1>2. /\ a \in Nat /\ x \in Nat /\ y \in Nat /\ an \in Nat /\ xn \in Nat /\ yn \in Nat
      /\ an <= a /\ xn <= x /\ yn <= y
  BY <1>1, UfoCmdsNat, UfoCmdsLess
<1>3. CmdSize \in Nat /\ UfoCmdsSize(1) = 1 /\ b \in Nat
  BY UfoCmdsOne, FragQueueAssumption
<1>4. SequenceSize(j) = IF j[2] # "p" THEN 1 + x + CmdSize
                        ELSE a + b + (IF IsChained(j[1]) THEN 1 + y + CmdSize ELSE 0)
  BY <1>3 DEF SequenceSize, JobCmdsSize
<1>5. SequenceSize(j)' = IF j[2] # "p" THEN 1 + xn + CmdSize
                         ELSE an + b + (IF IsChained(j[1]) THEN 1 + yn + CmdSize ELSE 0)
  BY <1>3 DEF SequenceSize, JobCmdsSize, Combinable, IsChained
<1> HIDE DEF a, b, x, y, an, xn, yn, f
<1> QED
  BY <1>2, <1>3, <1>4, <1>5

-----------------------------------------------------------------------------
(* What the firmware takes off the ring.                                   *)

\* Moving the read offset over what is used frees as much of the ring.
LEMMA ReadOffset ==
  ASSUME NEW w \in 0 .. CccbSize - 1, NEW r \in 0 .. CccbSize - 1, NEW z \in 0 .. Gap(w, r)
  PROVE  (r + z) % CccbSize \in 0 .. CccbSize - 1 /\ Gap(w, (r + z) % CccbSize) = Gap(w, r) - z
<1> DEFINE v == (r + z) % CccbSize
<1>1. CccbSize \in Nat \ {0} /\ Gap(w, r) \in 0 .. CccbSize - 1 /\ z \in Nat
  BY FragQueueAssumption DEF Gap
<1>2. v = IF r + z < CccbSize THEN r + z ELSE (r + z) - CccbSize
  <2>1. r + z \in Int /\ 0 <= r + z /\ r + z < 2 * CccbSize
    BY <1>1
  <2> QED
    BY <2>1, WrapsOnce
<1> HIDE DEF v
<1>3. CASE w >= r
  <2>1. z \in 0 .. w - r
    BY <1>3 DEF Gap
  <2> QED
    BY <1>1, <1>2, <1>3, <2>1 DEF Gap, v
<1>4. CASE w < r
  <2>1. z \in 0 .. w - r + CccbSize
    BY <1>1, <1>4 DEF Gap
  <2> QED
    BY <1>1, <1>2, <1>4, <2>1 DEF Gap, v
<1> QED
  BY <1>3, <1>4

\* A ring whose first command has been read.
Read(rg) == [rg EXCEPT !.r = (@ + Head(rg.cmds).size) % CccbSize, !.cmds = Tail(@)]

\* Reading moves the read offset and takes the command off the ring.
LEMMA ReadIs ==
  ASSUME NEW rg \in Rings
  PROVE  /\ Read(rg) = [w |-> rg.w, r |-> (rg.r + Head(rg.cmds).size) % CccbSize,
                        cmds |-> Tail(rg.cmds), dropped |-> rg.dropped]
         /\ Read(rg).w = rg.w /\ Read(rg).r = (rg.r + Head(rg.cmds).size) % CccbSize
         /\ Read(rg).cmds = Tail(rg.cmds) /\ Read(rg).dropped = rg.dropped
<1> DEFINE v == (rg.r + Head(rg.cmds).size) % CccbSize  t == Tail(rg.cmds)
<1>1. Read(rg) = [rg EXCEPT !.r = v, !.cmds = t]
  BY DEF Read
<1> HIDE DEF v, t
<1>2. Read(rg) = [w |-> rg.w, r |-> v, cmds |-> t, dropped |-> rg.dropped]
  BY <1>1 DEF Rings
<1>3. Read(rg).w = rg.w /\ Read(rg).r = v /\ Read(rg).cmds = t /\ Read(rg).dropped = rg.dropped
  BY <1>2
<1> QED
  BY <1>2, <1>3 DEF v, t

\* The firmware reads one command: the ring stays consistent and uses no more.
LEMMA OneRead ==
  ASSUME RingOk(ring), ring.cmds # <<>>, NEW new, new = Read(ring)
  PROVE  /\ RingOk(new) /\ new.w = ring.w /\ new.dropped = ring.dropped /\ Used(new) <= Used(ring)
         /\ new.cmds = Tail(ring.cmds) /\ Head(ring.cmds) \in Cmds
         /\ Elems(ring.cmds) = {Head(ring.cmds)} \cup Elems(Tail(ring.cmds))
         /\ InPlace(ring.cmds) =>
              /\ InPlace(new.cmds)
              /\ \A d \in Elems(new.cmds) :
                   d.op # "pad" /\ Head(ring.cmds).op # "pad" => Follows(Head(ring.cmds), d)
<1> DEFINE s == ring.cmds  c == Head(s)  t == Tail(s)  w == ring.w  r == ring.r  z == c.size
           u == Used(ring)  v == (r + z) % CccbSize
<1>1. /\ w \in 0 .. CccbSize - 1 /\ r \in 0 .. CccbSize - 1 /\ s \in Seq(Cmds)
      /\ ring.dropped \in BOOLEAN /\ (w = 0 \/ w + PadSize <= CccbSize)
      /\ Sums(s, u) /\ CccbSize \in Nat \ {0} /\ ring \in Rings
      /\ ring = [w |-> w, r |-> r, cmds |-> s, dropped |-> ring.dropped]
  BY FragQueueAssumption DEF RingOk, Rings
<1>2. u \in 0 .. CccbSize - 1 /\ u = Gap(w, r)
  BY <1>1, SpaceIs DEF Used
<1>3. /\ t \in Seq(Cmds) /\ Len(t) = Len(s) - 1 /\ Len(s) \in Nat \ {0} /\ Len(t) \in Nat
      /\ \A i \in 1 .. Len(t) : t[i] = s[i + 1]
      /\ c = s[1] /\ c \in Cmds
  BY <1>1, HeadTailProperties, EmptySeq, LenProperties
<1>4. z \in 0 .. u /\ Sums(t, u - z) /\ z \in Nat
  <2>1. u \in Nat
    BY <1>2
  <2> HIDE DEF u
  <2> QED
    BY <1>1, <2>1, <1>3, SumsTail DEF Cmds
<1>5. new = [w |-> w, r |-> v, cmds |-> t, dropped |-> ring.dropped]
  BY <1>1, ReadIs
<1>6. new.w = w /\ new.r = v /\ new.cmds = t /\ new.dropped = ring.dropped
  BY <1>1, ReadIs
<1> HIDE DEF u, z, c, t
<1>7. v \in 0 .. CccbSize - 1 /\ Gap(w, v) = u - z
  <2>1. z \in 0 .. Gap(w, r)
    BY <1>2, <1>4
  <2> QED
    BY <1>1, <1>2, <2>1, ReadOffset
<1>8. Used(new) = u - z
  BY <1>7, <1>6 DEF Used
<1>9. RingOk(new) /\ Used(new) <= u
  <2> HIDE DEF v, w, r, s
  <2>1. new \in Rings
    BY <1>1, <1>3, <1>5, <1>7 DEF Rings
  <2>2. Sums(new.cmds, Used(new))
    BY <1>4, <1>6, <1>8
  <2>3. new.w = 0 \/ new.w + PadSize <= CccbSize
    BY <1>1, <1>6
  <2>4. Used(new) <= u
    BY <1>2, <1>4, <1>8
  <2> QED
    BY <2>1, <2>2, <2>3, <2>4 DEF RingOk
<1>10. Elems(s) = {c} \cup Elems(t)
  <2>1. ASSUME NEW i \in 1 .. Len(s) PROVE i = 1 \/ (i - 1 \in 1 .. Len(t) /\ t[i - 1] = s[i])
    <3> HIDE DEF s
    <3>1. i # 1 => i - 1 \in 1 .. Len(t) /\ (i - 1) + 1 = i
      BY <1>3
    <3> QED
      BY <1>3, <3>1
  <2>2. \A i \in 1 .. Len(t) : i + 1 \in 1 .. Len(s) /\ t[i] = s[i + 1]
    BY <1>3
  <2>3. 1 \in 1 .. Len(s)
    BY <1>3
  <2> HIDE DEF s
  <2>4. \A x \in Elems(s) : x \in {c} \cup Elems(t)
    BY <1>3, <2>1 DEF Elems
  <2>5. \A x \in Elems(t) : x \in Elems(s)
    BY <2>2 DEF Elems
  <2>6. c \in Elems(s)
    BY <1>3, <2>3 DEF Elems
  <2> QED
    BY <2>4, <2>5, <2>6
<1>11. ASSUME InPlace(s)
       PROVE  /\ InPlace(t)
              /\ \A d \in Elems(t) : d.op # "pad" /\ c.op # "pad" => Follows(c, d)
  <2> HIDE DEF s
  <2>1. ASSUME NEW i \in 1 .. Len(t), NEW k \in 1 .. Len(t), i < k, t[i].op # "pad", t[k].op # "pad"
        PROVE  Follows(t[i], t[k])
    <3>1. i + 1 \in 1 .. Len(s) /\ k + 1 \in 1 .. Len(s) /\ i + 1 < k + 1
          /\ t[i] = s[i + 1] /\ t[k] = s[k + 1]
      BY <1>3, <2>1
    <3> QED
      BY <1>11, <2>1, <3>1 DEF InPlace
  <2>2. ASSUME NEW k \in 1 .. Len(t), t[k].op # "pad", c.op # "pad" PROVE Follows(c, t[k])
    <3>1. 1 \in 1 .. Len(s) /\ k + 1 \in 1 .. Len(s) /\ 1 < k + 1 /\ t[k] = s[k + 1] /\ c = s[1]
      BY <1>3, <2>2
    <3> QED
      BY <1>11, <2>2, <3>1 DEF InPlace
  <2> QED
    BY <2>1, <2>2 DEF InPlace, Elems
<1> QED
  BY <1>3, <1>6, <1>9, <1>10, <1>11 DEF c, t, u

-----------------------------------------------------------------------------
(* Lists of jobs.                                                          *)

\* The first job of a list is the least, and the rest list the others.
LEMMA ListsHead ==
  ASSUME NEW s \in Seq(Jobs), NEW S, Lists(s, S), s # <<>>
  PROVE  /\ Head(s) \in S /\ Head(s) \in Jobs /\ Tail(s) \in Seq(Jobs)
         /\ Lists(Tail(s), S \ {Head(s)})
         /\ \A j \in S : j # Head(s) => Rank(Head(s)) < Rank(j)
<1> DEFINE t == Tail(s)  h == Head(s)
<1>1. /\ t \in Seq(Jobs) /\ Len(t) = Len(s) - 1 /\ Len(s) \in Nat \ {0} /\ Len(t) \in Nat
      /\ \A i \in 1 .. Len(t) : t[i] = s[i + 1]
      /\ h = s[1] /\ h \in Jobs
  BY HeadTailProperties, EmptySeq, LenProperties
<1>2. Ascending(s) /\ S = Elems(s)
  BY DEF Lists
<1> HIDE DEF t, h
<1>3. \A i \in 1 .. Len(t) : i + 1 \in 1 .. Len(s) /\ 1 < i + 1
  BY <1>1
<1>4. 1 \in 1 .. Len(s)
  BY <1>1
<1>5. h \in S
  BY <1>1, <1>2, <1>4 DEF Elems
<1>6. \A i \in 1 .. Len(t) : t[i] \in S /\ Rank(h) < Rank(t[i]) /\ t[i] \in Jobs
  <2> SUFFICES ASSUME NEW i \in 1 .. Len(t) PROVE t[i] \in S /\ Rank(h) < Rank(t[i]) /\ t[i] \in Jobs
    OBVIOUS
  <2>1. t[i] = s[i + 1] /\ i + 1 \in 1 .. Len(s)
    BY <1>1, <1>3
  <2>2. t[i] \in S
    BY <1>2, <2>1 DEF Elems
  <2>3. Rank(h) < Rank(t[i])
    BY <1>1, <1>2, <1>3, <1>4, <2>1 DEF Ascending
  <2>4. t[i] \in Jobs
    BY <1>1, ElementOfSeq
  <2> QED
    BY <2>2, <2>3, <2>4
<1>7. \A j \in S : j = h \/ j \in Elems(t)
  <2> SUFFICES ASSUME NEW i \in 1 .. Len(s) PROVE s[i] = h \/ s[i] \in Elems(t)
    BY <1>2 DEF Elems
  <2>1. CASE i = 1
    BY <1>1, <2>1
  <2>2. CASE i # 1
    <3>1. i - 1 \in 1 .. Len(t) /\ t[i - 1] = s[i]
      BY <1>1, <2>2
    <3> QED
      BY <3>1 DEF Elems
  <2> QED
    BY <2>1, <2>2
<1>8. h \notin Elems(t)
  <2>1. Rank(h) \in Nat
    BY <1>1, RankFacts
  <2> QED
    BY <1>6, <2>1 DEF Elems
<1>9. Elems(t) = S \ {h}
  BY <1>6, <1>7, <1>8 DEF Elems
<1>10. Ascending(t)
  <2> SUFFICES ASSUME NEW i \in 1 .. Len(t), NEW k \in 1 .. Len(t), i < k
               PROVE  Rank(t[i]) < Rank(t[k])
    BY DEF Ascending
  <2>1. t[i] = s[i + 1] /\ t[k] = s[k + 1] /\ i + 1 \in 1 .. Len(s) /\ k + 1 \in 1 .. Len(s)
        /\ i + 1 < k + 1
    BY <1>1, <1>3
  <2> QED
    BY <1>2, <2>1 DEF Ascending
<1>11. \A j \in S : j # h => Rank(h) < Rank(j)
  BY <1>6, <1>7 DEF Elems
<1> QED
  BY <1>1, <1>5, <1>9, <1>10, <1>11 DEF Lists, t, h

\* A job above all others is appended to a list.
LEMMA ListsAppend ==
  ASSUME NEW s \in Seq(Jobs), NEW S, Lists(s, S), NEW j \in Jobs,
         \A k \in S : Rank(k) < Rank(j)
  PROVE  /\ Append(s, j) \in Seq(Jobs) /\ Append(s, j) = s \o <<j>>
         /\ Lists(Append(s, j), S \cup {j})
<1> DEFINE t == Append(s, j)
<1>1. /\ t \in Seq(Jobs) /\ Len(t) = Len(s) + 1 /\ Len(s) \in Nat
      /\ \A i \in 1 .. Len(s) : t[i] = s[i]
      /\ t[Len(s) + 1] = j /\ t = s \o <<j>>
  BY AppendProperties, LenProperties
<1>2. Ascending(s) /\ S = Elems(s)
  BY DEF Lists
<1> HIDE DEF t
<1>3. \A i \in 1 .. Len(t) : (i \in 1 .. Len(s) /\ t[i] = s[i]) \/ (i = Len(s) + 1 /\ t[i] = j)
  BY <1>1
<1>4. Elems(t) = S \cup {j}
  <2>1. \A x \in Elems(t) : x \in S \cup {j}
    BY <1>2, <1>3 DEF Elems
  <2>2. \A i \in 1 .. Len(s) : i \in 1 .. Len(t) /\ s[i] = t[i]
    BY <1>1
  <2>3. \A x \in S : x \in Elems(t)
    BY <1>2, <2>2 DEF Elems
  <2>4. j \in Elems(t)
    <3>1. Len(s) + 1 \in 1 .. Len(t)
      BY <1>1
    <3> QED
      BY <1>1, <3>1 DEF Elems
  <2> QED
    BY <2>1, <2>3, <2>4
<1>5. Ascending(t)
  <2> SUFFICES ASSUME NEW i \in 1 .. Len(t), NEW k \in 1 .. Len(t), i < k
               PROVE  Rank(t[i]) < Rank(t[k])
    BY DEF Ascending
  <2>1. i \in 1 .. Len(s) /\ t[i] = s[i]
    BY <1>1, <1>3
  <2>2. CASE k \in 1 .. Len(s) /\ t[k] = s[k]
    BY <1>2, <2>1, <2>2 DEF Ascending
  <2>3. CASE t[k] = j
    BY <1>2, <2>1, <2>3 DEF Elems
  <2> QED
    BY <1>3, <2>2, <2>3
<1> QED
  BY <1>1, <1>4, <1>5 DEF Lists, t

\* The pending list without the jobs at its head that are finished.
LEMMA ListsUnfinished ==
  ASSUME NEW q, NEW fin, NEW S, pending[q] \in Seq(Jobs), Lists(pending[q], S),
         \A j, k \in S : k \in fin /\ Rank(j) < Rank(k) => j \in fin
  PROVE  Unfinished(q, fin) \in Seq(Jobs) /\ Lists(Unfinished(q, fin), S \ fin)
<1> DEFINE s == pending[q]
           First(i) == /\ \A k \in 1 .. i - 1 : s[k] \in fin
                       /\ i <= Len(s) => s[i] \notin fin
           first == CHOOSE i \in 1 .. Len(s) + 1 : First(i)
           t == SubSeq(s, first, Len(s))
<1>1. s \in Seq(Jobs) /\ Len(s) \in Nat /\ Ascending(s) /\ S = Elems(s)
      /\ \A i \in 1 .. Len(s) : s[i] \in Jobs
  BY LenProperties, ElementOfSeq DEF Lists
<1>2. Unfinished(q, fin) = t
  BY DEF Unfinished
<1> HIDE DEF s
<1>3. \E i \in 1 .. Len(s) + 1 : First(i)
  <2> DEFINE T == {i \in 1 .. Len(s) + 1 : i <= Len(s) => s[i] \notin fin}
  <2>1. T \in SUBSET Nat /\ Len(s) + 1 \in T
    BY <1>1
  <2> HIDE DEF T
  <2>2. PICK m \in T : \A i \in T : m <= i
    BY <2>1, LeastExists
  <2>3. m \in 1 .. Len(s) + 1 /\ (m <= Len(s) => s[m] \notin fin)
    BY <2>2 DEF T
  <2>4. ASSUME NEW k \in 1 .. m - 1 PROVE s[k] \in fin
    <3>1. k \in 1 .. Len(s) + 1 /\ ~(m <= k)
      BY <1>1, <2>3
    <3>2. k \notin T
      BY <2>2, <3>1
    <3> QED
      BY <3>1, <3>2 DEF T
  <2> QED
    BY <2>3, <2>4
<1>4. first \in 1 .. Len(s) + 1 /\ First(first)
  <2> HIDE DEF First
  <2> QED
    BY <1>3
<1> HIDE DEF first
<1>5. /\ t \in Seq(Jobs) /\ Len(t) = Len(s) - first + 1 /\ Len(t) \in Nat
      /\ \A i \in 1 .. Len(t) : t[i] = s[first + i - 1]
  <2>1. first \in Int /\ Len(s) \in Int /\ \A i \in first .. Len(s) : s[i] \in Jobs
    BY <1>1, <1>4
  <2>2. /\ SubSeq(s, first, Len(s)) \in Seq(Jobs)
        /\ Len(SubSeq(s, first, Len(s))) = IF first <= Len(s) THEN Len(s) - first + 1 ELSE 0
        /\ \A i \in 1 .. Len(s) - first + 1 : SubSeq(s, first, Len(s))[i] = s[first + i - 1]
    BY <2>1, SubSeqProperties
  <2> QED
    BY <1>1, <1>4, <2>2
<1> HIDE DEF t
<1>6. \A i \in 1 .. Len(t) : first + i - 1 \in first .. Len(s) /\ first + i - 1 \in 1 .. Len(s)
  BY <1>1, <1>4, <1>5
<1>7. ASSUME NEW i \in first .. Len(s) PROVE s[i] \notin fin
  <2>1. first \in 1 .. Len(s) /\ i \in 1 .. Len(s) /\ s[first] \notin fin /\ first <= i
    BY <1>1, <1>4, <1>7
  <2>2. s[first] \in S /\ s[i] \in S
    BY <1>1, <2>1 DEF Elems
  <2>3. CASE first = i
    BY <2>1, <2>3
  <2>4. CASE first # i
    <3>1. Rank(s[first]) < Rank(s[i])
      BY <1>1, <2>1, <2>4 DEF Ascending
    <3> QED
      BY <2>1, <2>2, <3>1
  <2> QED
    BY <2>3, <2>4
<1>8. Elems(t) = S \ fin
  <2>1. ASSUME NEW i \in 1 .. Len(t) PROVE t[i] \in S \ fin
    <3>1. t[i] = s[first + i - 1] /\ first + i - 1 \in first .. Len(s) /\ first + i - 1 \in 1 .. Len(s)
      BY <1>5, <1>6
    <3> QED
      BY <1>1, <1>7, <3>1 DEF Elems
  <2>2. ASSUME NEW i \in 1 .. Len(s), s[i] \notin fin PROVE s[i] \in Elems(t)
    <3>1. ~(i \in 1 .. first - 1)
      BY <1>4, <2>2
    <3>2. i - first + 1 \in 1 .. Len(t) /\ first + (i - first + 1) - 1 = i
      BY <1>1, <1>4, <1>5, <3>1
    <3>3. t[i - first + 1] = s[i]
      BY <1>5, <3>2
    <3> QED
      BY <3>2, <3>3 DEF Elems
  <2> QED
    BY <1>1, <2>1, <2>2 DEF Elems
<1>9. Ascending(t)
  <2> SUFFICES ASSUME NEW i \in 1 .. Len(t), NEW k \in 1 .. Len(t), i < k
               PROVE  Rank(t[i]) < Rank(t[k])
    BY DEF Ascending
  <2>1. /\ t[i] = s[first + i - 1] /\ t[k] = s[first + k - 1] /\ first + i - 1 < first + k - 1
        /\ first + i - 1 \in 1 .. Len(s) /\ first + k - 1 \in 1 .. Len(s)
    BY <1>4, <1>5, <1>6
  <2> QED
    BY <1>1, <2>1 DEF Ascending
<1> QED
  BY <1>2, <1>5, <1>8, <1>9 DEF Lists

-----------------------------------------------------------------------------
(* Submissions.                                                            *)

\* Which jobs of a submission there are.
LEMMA Family ==
  ASSUME SubsOk, NEW j \in Submitted
  PROVE  /\ j \in Jobs /\ j[1] \in 1 .. Len(sub) /\ Len(sub) \in Nat
         /\ IsChained(j[1]) \in BOOLEAN /\ Combinable(j[1]) \in BOOLEAN
         /\ Combinable(j[1]) => IsChained(j[1])
         /\ j[2] # "f" \/ IsChained(j[1]) => GeomOf(j) \in Submitted /\ PairedOf(j) \in Submitted
         /\ IsChained(j[1]) => ChainedOf(j) \in Submitted
<1> DEFINE n == j[1]
<1>1. j \in Jobs /\ n <= Len(sub) /\ j[2] \in JobsOfKind(Kind(n))
  BY DEF Submitted
<1>2. /\ n \in 1 .. MaxSubmits /\ j[2] \in {"g", "p", "f"}
      /\ GeomOf(j) \in Jobs /\ GeomOf(j)[1] = n /\ GeomOf(j)[2] = "g"
      /\ PairedOf(j) \in Jobs /\ PairedOf(j)[1] = n /\ PairedOf(j)[2] = "p"
      /\ ChainedOf(j) \in Jobs /\ ChainedOf(j)[1] = n /\ ChainedOf(j)[2] = "f"
  BY <1>1, JobFacts
<1>3. Len(sub) \in Nat /\ n \in 1 .. Len(sub)
  BY <1>1, <1>2, LenProperties, FragQueueAssumption DEF SubsOk
<1>4. /\ sub[n] \in [kind : {"frag", "pair", "full"}, same : BOOLEAN, chained : BOOLEAN,
                      after : Jobs \cup {NoJob}]
      /\ IsChained(n) => Kind(n) = "full"
  BY <1>3, ElementOfSeq DEF SubsOk
<1>5. IsChained(n) \in BOOLEAN /\ Kind(n) \in {"frag", "pair", "full"} /\ sub[n].same \in BOOLEAN
  BY <1>4 DEF IsChained, Kind
<1>6. Combinable(n) \in BOOLEAN /\ (Combinable(n) => IsChained(n))
  BY <1>5, FragQueueAssumption DEF Combinable
<1>7. j[2] # "f" \/ IsChained(n) => {"g", "p"} \subseteq JobsOfKind(Kind(n))
  BY <1>1, <1>2, <1>4, <1>5 DEF JobsOfKind
<1>8. IsChained(n) => "f" \in JobsOfKind(Kind(n))
  BY <1>4 DEF JobsOfKind
<1> QED
  BY <1>1, <1>2, <1>3, <1>5, <1>6, <1>7, <1>8 DEF Submitted

\* What depends on the submissions only.
LEMMA SubSame ==
  ASSUME UNCHANGED sub
  PROVE  /\ Submitted' = Submitted
         /\ \A q : OfQueue(q)' = OfQueue(q)
         /\ \A j : /\ WithGeometry(j)' <=> WithGeometry(j)
                   /\ Owner(j)' <=> Owner(j)
                   /\ Carrier(j)' = Carrier(j)
<1>1. Submitted' = Submitted
  BY DEF Submitted, Kind
<1>2. \A j : WithGeometry(j)' <=> WithGeometry(j)
  BY DEF WithGeometry, IsChained
<1>3. \A j : Owner(j)' <=> Owner(j)
  BY <1>2 DEF Owner
<1>4. \A j : Carrier(j)' = Carrier(j)
  BY DEF Carrier, Combinable, IsChained
<1>5. \A q : OfQueue(q)' = OfQueue(q)
  BY <1>1 DEF OfQueue
<1> QED
  BY <1>1, <1>2, <1>3, <1>4, <1>5

\* Which commands are written depends on the submissions and on scheduled.
LEMMA WrittenSame ==
  ASSUME UNCHANGED <<sub, scheduled>>, NEW j
  PROVE  /\ IsWritten(j)' <=> IsWritten(j)
         /\ Written(j)' <=> Written(j)
  BY SubSame DEF IsWritten, Written

-----------------------------------------------------------------------------
(* Parts of the invariant that a step does not touch.                      *)

\* A step that leaves the schedulers' queues alone.
LEMMA SchedSame ==
  ASSUME SchedOk, UNCHANGED <<sub, entity, scheduled>>
  PROVE  SchedOk'
  BY SubSame DEF SchedOk

\* A step that initialises no fence and runs no job.
LEMMA SeqnoSame ==
  ASSUME SeqnoOk, UNCHANGED <<sub, seqno, lastSeqno, scheduled>>
  PROVE  SeqnoOk'
  BY SubSame DEF SeqnoOk

\* A step that leaves what prepare_job has found out alone.
LEMMA ReadySame ==
  ASSUME ReadyOk, UNCHANGED <<sub, ready, entity, seqno, cccbFence, scheduled>>
  PROVE  ReadyOk'
  BY SubSame DEF ReadyOk

\* The space of a sequence depends on the submissions and on the dependencies.
LEMMA SizeSame ==
  ASSUME UNCHANGED <<sub, deps>>, NEW j
  PROVE  SequenceSize(j)' = SequenceSize(j)
  BY DEF SequenceSize, Combinable, IsChained

\* A step that leaves the CCCB fences alone.
LEMMA FenceSame ==
  ASSUME FenceOk, UNCHANGED <<sub, deps, seqno, cccbFence, waiter, waitsFor, entity, ready, scheduled>>
  PROVE  FenceOk'
  BY SubSame, SizeSame DEF FenceOk

\* A step that leaves the ring and who was promised space in it alone.
LEMMA SpaceSame ==
  ASSUME SpaceOk, UNCHANGED <<sub, deps, cccbFence, scheduled, ring>>
  PROVE  SpaceOk'
  BY SubSame, SizeSame, WrittenSame DEF SpaceOk

\* A step that writes, reads and executes nothing.
LEMMA CommandsSame ==
  ASSUME CommandsOk, UNCHANGED <<sub, scheduled, executed, ring, geomRing>>
  PROVE  CommandsOk'
  BY SubSame, WrittenSame DEF CommandsOk

\* A step that writes and executes nothing.
LEMMA ExecutedSame ==
  ASSUME ExecutedOk, UNCHANGED <<sub, scheduled, executed, ring, timeline, seqno>>
  PROVE  ExecutedOk'
  BY SubSame, WrittenSame DEF ExecutedOk

\* A step that leaves the schedulers' pending lists alone.
LEMMA DoneSame ==
  ASSUME DoneOk, UNCHANGED <<sub, scheduled, executed, listened, signaled, finished, pending>>
  PROVE  DoneOk'
  BY SubSame DEF DoneOk

-----------------------------------------------------------------------------
(* A submission.                                                           *)

\* pvr_submit_jobs appends one submission and its jobs, and changes no earlier one.
LEMMA SubmitGrows ==
  ASSUME TypeOK, Submit
  PROVE  \E n \in 1 .. MaxSubmits, kind \in {"frag", "pair", "full"} :
           /\ n = Len(sub) + 1 /\ Kind(n)' = kind /\ SubsOk'
           /\ deps' \in [Jobs -> Nat] /\ \A j \in Jobs : j[1] < n => deps'[j] = deps[j]
           /\ entity'["geom"] = IF kind = "frag" THEN entity["geom"]
                                ELSE Append(entity["geom"], <<n, "g">>)
           /\ entity'["frag"] = CASE kind = "frag" -> Append(entity["frag"], <<n, "f">>)
                                  [] kind = "pair" -> Append(entity["frag"], <<n, "p">>)
                                  [] OTHER -> Append(Append(entity["frag"], <<n, "p">>), <<n, "f">>)
           /\ entity' = [q \in Queues |-> entity'[q]]
           /\ \A m \in 1 .. n - 1 : sub'[m] = sub[m]
           /\ Len(sub') = n
<1>1. Len(sub) < MaxSubmits
  BY DEF Submit
<1>2. /\ MaxSubmits \in Nat /\ MaxDeps \in Nat
      /\ sub \in Seq([kind : {"frag", "pair", "full"}, same : BOOLEAN, chained : BOOLEAN,
                      after : Jobs \cup {NoJob}])
      /\ Len(sub) \in Nat
  BY FragQueueAssumption, LenProperties DEF TypeOK, SubsOk
<1>12. PICK n \in 1 .. MaxSubmits : n = Len(sub) + 1
  BY <1>1, <1>2
<1>13. PICK kind \in Kinds, same \in BOOLEAN, covered \in BOOLEAN,
           prDeps \in 0 .. MaxDeps, fragDeps \in 0 .. MaxDeps :
         LET m == Len(sub) + 1
             chained == CanChain(kind, covered, prDeps, fragDeps)
             frags == (IF kind = "frag" THEN <<>> ELSE <<<<m, "p">>>>)
                      \o (IF kind = "pair" THEN <<>> ELSE <<<<m, "f">>>>)
         IN  /\ kind = "frag" => prDeps = 0
             /\ kind = "pair" => fragDeps = 0
             /\ kind # "full" => ~covered
             /\ (kind = "full" /\ fragDeps = 0) => covered
             /\ same => chained /\ CombinePr
             /\ Outstanding + prDeps + fragDeps <= MaxDeps
             /\ sub' = Append(sub, [kind |-> kind, same |-> same, chained |-> chained,
                                    after |-> LastQueuedFrag])
             /\ deps' = [deps EXCEPT ![<<m, "p">>] = prDeps, ![<<m, "f">>] = fragDeps]
             /\ entity' = [geom |-> IF kind = "frag" THEN entity.geom
                                    ELSE Append(entity.geom, <<m, "g">>),
                           frag |-> entity.frag \o frags]
  BY Zenon DEF Submit
<1> DEFINE chained == CanChain(kind, covered, prDeps, fragDeps)
           rec == [kind |-> kind, same |-> same, chained |-> chained, after |-> LastQueuedFrag]
           Subs == [kind : {"frag", "pair", "full"}, same : BOOLEAN, chained : BOOLEAN,
                    after : Jobs \cup {NoJob}]
           frags == (IF kind = "frag" THEN <<>> ELSE <<<<n, "p">>>>)
                    \o (IF kind = "pair" THEN <<>> ELSE <<<<n, "f">>>>)
<1>14. /\ sub' = Append(sub, rec)
       /\ deps' = [deps EXCEPT ![<<n, "p">>] = prDeps, ![<<n, "f">>] = fragDeps]
       /\ entity' = [geom |-> IF kind = "frag" THEN entity.geom ELSE Append(entity.geom, <<n, "g">>),
                     frag |-> entity.frag \o frags]
  BY <1>12, <1>13, Zenon
<1>3. /\ kind \in {"frag", "pair", "full"} /\ sub \in Seq(Subs) /\ n - 1 = Len(sub)
  BY <1>2, <1>12, FragQueueAssumption
<1>4. LastQueuedFrag = (IF n = 1 THEN NoJob ELSE LastFragOf(n - 1)) /\ LastQueuedFrag \in Jobs \cup {NoJob}
  <2>1. sub = <<>> <=> Len(sub) = 0
    BY <1>2, EmptySeq
  <2>2. LastQueuedFrag = IF n = 1 THEN NoJob ELSE LastFragOf(n - 1)
    BY <1>2, <1>3, <1>12, <2>1 DEF LastQueuedFrag, LastFragOf
  <2>3. n # 1 => LastFragOf(n - 1) \in Jobs
    BY <1>2, <1>12 DEF LastFragOf, Jobs
  <2> QED
    BY <2>2, <2>3
<1>5. chained \in BOOLEAN /\ (chained => kind = "full") /\ rec \in Subs
      /\ rec.kind = kind /\ rec.chained = chained /\ rec.after = LastQueuedFrag
  <2>1. chained \in BOOLEAN /\ (chained => kind = "full")
    BY DEF CanChain, FragChainCanFit, CanFit
  <2> HIDE DEF chained
  <2> QED
    BY <1>3, <1>4, <2>1
<1> HIDE DEF rec
<1>6. /\ sub' \in Seq(Subs) /\ Len(sub') = n /\ sub'[n] = rec
      /\ \A m \in 1 .. n - 1 : sub'[m] = sub[m]
  <2>1. sub' = Append(sub, rec)
    BY <1>14 DEF rec
  <2> QED
    BY <1>2, <1>3, <1>5, <1>12, <2>1, AppendProperties
<1>7. SubsOk'
  <2>1. Len(sub') <= MaxSubmits
    BY <1>2, <1>6, <1>12
  <2>2. ASSUME NEW m \in 1 .. n
        PROVE  /\ sub'[m].chained => sub'[m].kind = "full"
               /\ sub'[m].after = IF m = 1 THEN NoJob ELSE LastFragOf(m - 1)'
    <3>1. m # 1 => LastFragOf(m - 1)' = LastFragOf(m - 1)
      <4>1. m # 1 => m - 1 \in 1 .. n - 1
        BY <1>2, <1>12
      <4> QED
        BY <1>6, <4>1 DEF LastFragOf, Kind
    <3>2. CASE m = n
      BY <1>4, <1>5, <1>6, <3>1, <3>2
    <3>3. CASE m # n
      <4>1. m \in 1 .. Len(sub) /\ m \in 1 .. n - 1
        BY <1>2, <1>3, <1>12, <3>3
      <4>2. /\ sub[m].chained => sub[m].kind = "full"
            /\ sub[m].after = IF m = 1 THEN NoJob ELSE LastFragOf(m - 1)
        BY <4>1 DEF TypeOK, SubsOk, IsChained, Kind
      <4> QED
        BY <1>6, <3>1, <4>1, <4>2
    <3> QED
      BY <3>2, <3>3
  <2> QED
    BY <1>6, <2>1, <2>2 DEF SubsOk, IsChained, Kind
<1>8. Kind(n)' = kind
  <2>1. sub'[n].kind = kind
    BY <1>5, <1>6
  <2> QED
    BY <2>1 DEF Kind
<1>9. deps' \in [Jobs -> Nat] /\ \A j \in Jobs : j[1] < n => deps'[j] = deps[j]
  <2>1. deps \in [Jobs -> Nat] /\ prDeps \in Nat /\ fragDeps \in Nat
    BY <1>2 DEF TypeOK
  <2>2. \A j \in Jobs : j[1] < n => j # <<n, "p">> /\ j # <<n, "f">>
    BY <1>2 DEF Jobs
  <2> QED
    BY <1>14, <2>1, <2>2
<1>10. /\ entity'["geom"] = IF kind = "frag" THEN entity["geom"] ELSE Append(entity["geom"], <<n, "g">>)
       /\ entity'["frag"] = CASE kind = "frag" -> Append(entity["frag"], <<n, "f">>)
                              [] kind = "pair" -> Append(entity["frag"], <<n, "p">>)
                              [] OTHER -> Append(Append(entity["frag"], <<n, "p">>), <<n, "f">>)
       /\ entity' = [q \in Queues |-> entity'[q]]
  <2> DEFINE p == <<n, "p">>  f == <<n, "f">>  e == entity["frag"]
  <2>1. e \in Seq(Jobs) /\ p \in Jobs /\ f \in Jobs
    BY DEF TypeOK, Queues, Jobs
  <2>2. /\ entity'["geom"] = IF kind = "frag" THEN entity["geom"] ELSE Append(entity["geom"], <<n, "g">>)
        /\ entity'["frag"] = e \o frags
        /\ entity' = [q \in Queues |-> entity'[q]]
    <3> HIDE DEF frags
    <3> QED
      BY <1>14 DEF Queues
  <2>3. frags = CASE kind = "frag" -> <<>> \o <<f>>
                  [] kind = "pair" -> <<p>> \o <<>>
                  [] OTHER -> <<p>> \o <<f>>
    <3> HIDE DEF p, f
    <3> QED
      BY <1>3 DEF p, f
  <2> HIDE DEF p, f, e, frags
  <2>4. <<p>> \in Seq(Jobs) /\ <<f>> \in Seq(Jobs) /\ Append(e, p) \in Seq(Jobs)
    BY <2>1
  <2>5. Append(e, f) = e \o <<f>> /\ Append(e, p) = e \o <<p>>
        /\ Append(Append(e, p), f) = Append(e, p) \o <<f>>
    BY <2>1, <2>4, AppendIsConcat
  <2>6. (e \o <<p>>) \o <<f>> = e \o (<<p>> \o <<f>>) /\ <<>> \o <<f>> = <<f>> /\ <<p>> \o <<>> = <<p>>
    BY <2>1, <2>4, ConcatAssociative, ConcatEmptySeq
  <2>7. e \o frags = CASE kind = "frag" -> Append(e, f)
                       [] kind = "pair" -> Append(e, p)
                       [] OTHER -> Append(Append(e, p), f)
    BY <1>3, <2>3, <2>5, <2>6
  <2> QED
    BY <2>2, <2>7 DEF e, p, f
<1> QED
  BY <1>3, <1>6, <1>7, <1>8, <1>9, <1>10, <1>12

\* A submission adds jobs of a higher rank, and changes nothing about others.
LEMMA SubmitJobs ==
  ASSUME IInv, Submit
  PROVE  /\ \A j \in Submitted :
              /\ j \in Submitted' /\ (WithGeometry(j)' <=> WithGeometry(j)) /\ (Owner(j)' <=> Owner(j))
              /\ Carrier(j)' = Carrier(j) /\ SequenceSize(j)' = SequenceSize(j)
         /\ \A j \in Submitted' \ Submitted :
              /\ j \in Jobs /\ GeomOf(j) \notin Submitted
              /\ \A k \in Submitted : k[1] < j[1] /\ Rank(k) < Rank(j)
<1>1. PICK n \in 1 .. MaxSubmits, kind \in {"frag", "pair", "full"} :
           /\ n = Len(sub) + 1 /\ Kind(n)' = kind /\ SubsOk'
           /\ deps' \in [Jobs -> Nat] /\ \A j \in Jobs : j[1] < n => deps'[j] = deps[j]
           /\ \A m \in 1 .. n - 1 : sub'[m] = sub[m]
           /\ Len(sub') = n
  BY SubmitGrows DEF IInv
<1>2. n \in Nat /\ Len(sub) \in Nat /\ SubsOk
  BY <1>1, LenProperties DEF IInv, TypeOK, SubsOk
<1>3. ASSUME NEW j \in Jobs, j[1] < n
      PROVE  /\ sub'[j[1]] = sub[j[1]] /\ deps'[j] = deps[j]
             /\ deps'[ChainedOf(j)] = deps[ChainedOf(j)]
  <2>1. j[1] \in 1 .. n - 1 /\ ChainedOf(j) \in Jobs /\ ChainedOf(j)[1] = j[1]
    BY <1>2, <1>3, JobFacts
  <2> QED
    BY <1>1, <1>3, <2>1
<1>4. ASSUME NEW j \in Submitted
      PROVE  /\ j \in Jobs /\ j[1] < n
             /\ j \in Submitted' /\ (WithGeometry(j)' <=> WithGeometry(j)) /\ (Owner(j)' <=> Owner(j))
             /\ Carrier(j)' = Carrier(j) /\ SequenceSize(j)' = SequenceSize(j)
  <2>1. j \in Jobs /\ j[1] <= Len(sub) /\ j[1] \in Nat /\ j[2] \in JobsOfKind(Kind(j[1]))
    BY JobFacts DEF Submitted
  <2>2. j[1] < n /\ j[1] <= n
    BY <1>1, <1>2, <2>1
  <2>3. sub'[j[1]] = sub[j[1]] /\ deps'[j] = deps[j] /\ deps'[ChainedOf(j)] = deps[ChainedOf(j)]
    BY <1>3, <2>1, <2>2
  <2>4. j \in Submitted'
    BY <1>1, <2>1, <2>2, <2>3 DEF Submitted, Kind
  <2>5. WithGeometry(j)' <=> WithGeometry(j)
    BY <2>3 DEF WithGeometry, IsChained
  <2>6. Owner(j)' <=> Owner(j)
    BY <2>5 DEF Owner
  <2>7. Carrier(j)' = Carrier(j)
    BY <2>3 DEF Carrier, Combinable, IsChained
  <2>8. SequenceSize(j)' = SequenceSize(j)
    BY <2>3 DEF SequenceSize, Combinable, IsChained
  <2> QED
    BY <2>1, <2>2, <2>4, <2>5, <2>6, <2>7, <2>8
<1>5. ASSUME NEW j \in Submitted' \ Submitted
      PROVE  j \in Jobs /\ j[1] = n /\ GeomOf(j) \notin Submitted
  <2>1. j \in Jobs /\ j[1] <= n /\ j[1] \in Nat /\ (j[2] \in JobsOfKind(Kind(j[1])))'
    BY <1>1, JobFacts DEF Submitted
  <2>2. j[1] = n
    <3> SUFFICES ASSUME j[1] < n PROVE FALSE
      BY <1>2, <2>1
    <3>1. sub'[j[1]] = sub[j[1]] /\ j[1] <= Len(sub)
      BY <1>1, <1>2, <1>3, <2>1
    <3> QED
      BY <2>1, <3>1, <1>5 DEF Submitted, Kind
  <2>3. GeomOf(j)[1] = n
    BY <2>1, <2>2, JobFacts
  <2> QED
    BY <1>2, <1>4, <2>1, <2>2, <2>3
<1>6. ASSUME NEW j \in Submitted' \ Submitted, NEW k \in Submitted
      PROVE  k[1] < j[1] /\ Rank(k) < Rank(j)
  <2>1. k[1] < j[1] /\ k \in Jobs /\ j \in Jobs
    BY <1>4, <1>5
  <2> QED
    BY <2>1, RankFacts
<1> QED
  BY <1>4, <1>5, <1>6

\* The scheduler's entities list the new jobs after the old ones.
LEMMA SubmitEntities ==
  ASSUME IInv, Submit
  PROVE  /\ entity' \in [Queues -> Seq(Jobs)]
         /\ \A q \in Queues : Lists(entity[q], OfQueue(q) \ scheduled)'
         /\ \A q \in Queues : entity[q] # <<>> => entity'[q] # <<>> /\ Head(entity'[q]) = Head(entity[q])
<1>1. PICK n \in 1 .. MaxSubmits, kind \in {"frag", "pair", "full"} :
           /\ n = Len(sub) + 1 /\ Kind(n)' = kind /\ SubsOk'
           /\ entity'["geom"] = IF kind = "frag" THEN entity["geom"]
                                ELSE Append(entity["geom"], <<n, "g">>)
           /\ entity'["frag"] = CASE kind = "frag" -> Append(entity["frag"], <<n, "f">>)
                                  [] kind = "pair" -> Append(entity["frag"], <<n, "p">>)
                                  [] OTHER -> Append(Append(entity["frag"], <<n, "p">>), <<n, "f">>)
           /\ entity' = [q \in Queues |-> entity'[q]]
           /\ \A m \in 1 .. n - 1 : sub'[m] = sub[m]
           /\ Len(sub') = n
  BY SubmitGrows DEF IInv
<1> DEFINE g == <<n, "g">>  p == <<n, "p">>  f == <<n, "f">>
           eg == entity["geom"]  ef == entity["frag"]
           G == OfQueue("geom") \ scheduled  F == OfQueue("frag") \ scheduled
<1>2. /\ n \in Nat /\ Len(sub) \in Nat /\ g \in Jobs /\ p \in Jobs /\ f \in Jobs
      /\ Queue(g) = "geom" /\ Queue(p) = "frag" /\ Queue(f) = "frag"
      /\ g[1] = n /\ p[1] = n /\ f[1] = n /\ g[2] = "g" /\ p[2] = "p" /\ f[2] = "f"
  BY <1>1, LenProperties DEF IInv, TypeOK, SubsOk, Jobs, Queue
<1>3. UNCHANGED scheduled /\ scheduled \subseteq Submitted
  BY DEF Submit, IInv, SchedOk
<1>4. /\ \A j \in Submitted : j \in Submitted' /\ j \in Jobs
      /\ \A j \in Submitted' \ Submitted : j \in Jobs /\ \A k \in Submitted : Rank(k) < Rank(j)
  BY SubmitJobs DEF Submitted
<1>5. ASSUME NEW j \in Jobs, j[1] = n
      PROVE  j \notin Submitted /\ (j \in Submitted' <=> j[2] \in JobsOfKind(kind))
  <2>1. j \notin Submitted
    BY <1>1, <1>2, <1>5 DEF Submitted
  <2>2. j \in Submitted' <=> j[2] \in JobsOfKind(kind)
    BY <1>1, <1>2, <1>5 DEF Submitted
  <2> QED
    BY <2>1, <2>2
<1>6. \A j \in Submitted' : j \in Submitted \/ (j \in {g, p, f} /\ j[2] \in JobsOfKind(kind))
  <2> SUFFICES ASSUME NEW j \in Submitted', j \notin Submitted
               PROVE  j \in {g, p, f} /\ j[2] \in JobsOfKind(kind)
    OBVIOUS
  <2>1. j \in Jobs /\ j[1] <= n /\ j[1] \in Nat /\ j = <<j[1], j[2]>> /\ j[2] \in {"g", "p", "f"}
    BY <1>1, JobFacts DEF Submitted
  <2>2. j[1] = n
    <3> SUFFICES ASSUME j[1] < n PROVE FALSE
      BY <1>2, <2>1
    <3>1. j[1] \in 1 .. n - 1 /\ j[1] <= Len(sub)
      BY <1>1, <1>2, <2>1, JobFacts
    <3>2. sub'[j[1]] = sub[j[1]] /\ (j[2] \in JobsOfKind(Kind(j[1])))'
      BY <1>1, <3>1 DEF Submitted
    <3> QED
      BY <2>1, <3>1, <3>2 DEF Submitted, Kind
  <2> QED
    BY <1>5, <2>1, <2>2
<1>7. /\ eg \in Seq(Jobs) /\ ef \in Seq(Jobs) /\ Lists(eg, G) /\ Lists(ef, F)
  BY DEF IInv, TypeOK, SchedOk, Queues
<1>8. /\ \A j \in G : j \in Submitted /\ Queue(j) = "geom"
      /\ \A j \in F : j \in Submitted /\ Queue(j) = "frag"
  BY DEF OfQueue
<1>9. \A k \in Submitted : Rank(k) < Rank(g) /\ Rank(k) < Rank(p) /\ Rank(k) < Rank(f)
  <2> SUFFICES ASSUME NEW k \in Submitted
               PROVE  Rank(k) < Rank(g) /\ Rank(k) < Rank(p) /\ Rank(k) < Rank(f)
    OBVIOUS
  <2>1. k \in Jobs /\ k[1] < n
    BY <1>1, <1>2, JobFacts DEF Submitted
  <2> HIDE DEF g, p, f
  <2> QED
    BY <1>2, <2>1, RankFacts
<1>10. Rank(p) < Rank(f)
  BY <1>2 DEF Rank
<1>11. /\ (OfQueue("geom") \ scheduled)' = G \cup (IF kind = "frag" THEN {} ELSE {g})
       /\ (OfQueue("frag") \ scheduled)' = CASE kind = "frag" -> F \cup {f}
                                          [] kind = "pair" -> F \cup {p}
                                          [] OTHER -> (F \cup {p}) \cup {f}
  <2>1. \A j \in {g, p, f} : j \notin Submitted /\ (j \in Submitted' <=> j[2] \in JobsOfKind(kind))
    BY <1>2, <1>5
  <2>2. JobsOfKind(kind) = CASE kind = "frag" -> {"f"} [] kind = "pair" -> {"g", "p"}
                             [] OTHER -> {"g", "p", "f"}
    BY DEF JobsOfKind
  <2> HIDE DEF g, p, f
  <2>3. (OfQueue("geom") \ scheduled)' = G \cup (IF kind = "frag" THEN {} ELSE {g})
    BY <1>2, <1>3, <1>4, <1>6, <2>1, <2>2 DEF OfQueue
  <2>4. (OfQueue("frag") \ scheduled)' = F \cup ({p, f} \cap Submitted')
    BY <1>2, <1>3, <1>4, <1>6, <2>1, <2>2 DEF OfQueue
  <2>5. {p, f} \cap Submitted' = CASE kind = "frag" -> {f} [] kind = "pair" -> {p} [] OTHER -> {p, f}
    BY <1>2, <2>1, <2>2
  <2> QED
    BY <2>3, <2>4, <2>5
<1> HIDE DEF g, p, f
<1>12. /\ entity'["geom"] \in Seq(Jobs)
       /\ Lists(entity'["geom"], G \cup (IF kind = "frag" THEN {} ELSE {g}))
       /\ eg # <<>> => entity'["geom"] # <<>> /\ Head(entity'["geom"]) = Head(eg)
  <2>1. CASE kind = "frag"
    BY <1>1, <1>7, <2>1
  <2>2. CASE kind # "frag"
    <3>1. entity'["geom"] = Append(eg, g)
      BY <1>1, <2>2 DEF g
    <3>2. \A k \in G : Rank(k) < Rank(g)
      BY <1>8, <1>9
    <3>3. Append(eg, g) \in Seq(Jobs) /\ Lists(Append(eg, g), G \cup {g})
      BY <1>2, <1>7, <3>2, ListsAppend
    <3>4. eg # <<>> => Append(eg, g) # <<>> /\ Head(Append(eg, g)) = Head(eg)
      BY <1>2, <1>7, AppendProperties, HeadTailAppend
    <3> QED
      BY <2>2, <3>1, <3>3, <3>4
  <2> QED
    BY <2>1, <2>2
<1>13. ASSUME NEW j \in {p, f}
       PROVE  /\ Append(ef, j) \in Seq(Jobs) /\ Lists(Append(ef, j), F \cup {j})
              /\ Append(ef, j) # <<>> /\ (ef # <<>> => Head(Append(ef, j)) = Head(ef))
  <2>1. \A k \in F : Rank(k) < Rank(j)
    BY <1>8, <1>9
  <2>2. j \in Jobs
    BY <1>2
  <2>3. Append(ef, j) \in Seq(Jobs) /\ Lists(Append(ef, j), F \cup {j})
    BY <1>7, <2>1, <2>2, ListsAppend
  <2>4. Append(ef, j) # <<>> /\ (ef # <<>> => Head(Append(ef, j)) = Head(ef))
    BY <1>7, <2>2, AppendProperties, HeadTailAppend
  <2> QED
    BY <2>3, <2>4
<1>14. /\ Append(Append(ef, p), f) \in Seq(Jobs)
       /\ Lists(Append(Append(ef, p), f), (F \cup {p}) \cup {f})
       /\ Append(Append(ef, p), f) # <<>> /\ (ef # <<>> => Head(Append(Append(ef, p), f)) = Head(ef))
  <2> DEFINE e == Append(ef, p)
  <2>1. \A k \in F \cup {p} : Rank(k) < Rank(f)
    BY <1>8, <1>9, <1>10
  <2>2. e \in Seq(Jobs) /\ Lists(e, F \cup {p}) /\ e # <<>> /\ (ef # <<>> => Head(e) = Head(ef))
    BY <1>13
  <2> HIDE DEF e
  <2>3. Append(e, f) \in Seq(Jobs) /\ Lists(Append(e, f), (F \cup {p}) \cup {f})
    BY <1>2, <2>1, <2>2, ListsAppend
  <2>4. Append(e, f) # <<>> /\ Head(Append(e, f)) = Head(e)
    BY <1>2, <2>2, AppendProperties, HeadTailAppend
  <2> QED
    BY <2>2, <2>3, <2>4 DEF e
<1>15. /\ entity'["frag"] \in Seq(Jobs) /\ Lists(entity'["frag"], (OfQueue("frag") \ scheduled)')
       /\ ef # <<>> => entity'["frag"] # <<>> /\ Head(entity'["frag"]) = Head(ef)
  <2>1. CASE kind = "frag"
    BY <1>1, <1>11, <1>13, <2>1 DEF p, f
  <2>2. CASE kind = "pair"
    BY <1>1, <1>11, <1>13, <2>2 DEF p, f
  <2>3. CASE kind = "full"
    BY <1>1, <1>11, <1>14, <2>3 DEF p, f
  <2> QED
    BY <2>1, <2>2, <2>3
<1>16. \A q \in Queues : q = "geom" \/ q = "frag"
  BY DEF Queues
<1>17. entity' \in [Queues -> Seq(Jobs)]
  BY <1>1, <1>12, <1>15, <1>16
<1>18. \A q \in Queues : Lists(entity'[q], (OfQueue(q) \ scheduled)')
  <2>1. Lists(entity'["geom"], (OfQueue("geom") \ scheduled)')
    BY <1>11, <1>12
  <2> QED
    BY <1>15, <1>16, <2>1
<1>19. \A q \in Queues : Lists(entity[q], OfQueue(q) \ scheduled)'
  BY <1>18 DEF Lists, Ascending, Elems
<1> QED
  BY <1>12, <1>15, <1>16, <1>17, <1>19

\* A submission preserves the invariant.
LEMMA SubmitKeeps ==
  ASSUME IInv, Submit
  PROVE  IInv'
<1>1. UNCHANGED <<ready, waitsFor, scheduled, cccbFence, waiter, seqno, lastSeqno, pending, inFlight,
                  signaled, listened, finished, ring, geomRing, timeline, executed, event>>
  BY DEF Submit, fenceVars, doneVars, fwVars
<1>2. ASSUME NEW j \in Submitted
      PROVE  /\ j \in Jobs
             /\ j \in Submitted' /\ (WithGeometry(j)' <=> WithGeometry(j)) /\ (Owner(j)' <=> Owner(j))
             /\ Carrier(j)' = Carrier(j) /\ SequenceSize(j)' = SequenceSize(j)
             /\ (IsWritten(j)' <=> IsWritten(j)) /\ (Written(j)' <=> Written(j))
  <2>1. /\ j \in Jobs
        /\ j \in Submitted' /\ (WithGeometry(j)' <=> WithGeometry(j)) /\ (Owner(j)' <=> Owner(j))
        /\ Carrier(j)' = Carrier(j) /\ SequenceSize(j)' = SequenceSize(j)
    BY SubmitJobs DEF Submitted
  <2>2. IsWritten(j)' <=> IsWritten(j)
    BY <1>1, <2>1 DEF IsWritten
  <2>3. Written(j)' <=> Written(j)
    BY <1>1 DEF Written
  <2> QED
    BY <2>1, <2>2, <2>3
<1>3. ASSUME NEW j \in Submitted' \ Submitted
      PROVE  /\ j \in Jobs /\ GeomOf(j) \in Jobs /\ GeomOf(j) \notin Submitted
             /\ seqno[j] = 0 /\ seqno[GeomOf(j)] = 0 /\ cccbFence[j] = "fresh"
             /\ j \notin scheduled /\ j \notin executed /\ j \notin finished
             /\ ~IsWritten(j)'
             /\ \A k \in Submitted : k[1] < j[1] /\ Rank(k) < Rank(j)
  <2>1. /\ j \in Jobs /\ GeomOf(j) \in Jobs /\ GeomOf(j) \notin Submitted
        /\ \A k \in Submitted : k[1] < j[1] /\ Rank(k) < Rank(j)
    BY SubmitJobs, JobFacts
  <2>2. seqno[j] = 0 /\ seqno[GeomOf(j)] = 0
    BY <1>3, <2>1 DEF IInv, SeqnoOk
  <2>3. cccbFence[j] = "fresh"
    BY <1>3, <2>1 DEF IInv, FenceOk
  <2>4. j \notin scheduled /\ GeomOf(j) \notin scheduled
    BY <1>3, <2>1 DEF IInv, SchedOk
  <2>5. j \notin executed /\ j \notin finished
    BY <1>3, <2>4 DEF IInv, ExecutedOk, IsWritten, DoneOk
  <2>6. ~IsWritten(j)'
    BY <1>1, <2>4 DEF IsWritten
  <2> QED
    BY <2>1, <2>2, <2>3, <2>4, <2>5, <2>6
<1>4. scheduled \subseteq Submitted
  BY DEF IInv, SchedOk
<1>5. TypeOK'
  <2>1. SubsOk' /\ deps' \in [Jobs -> Nat]
    BY SubmitGrows DEF IInv
  <2>2. entity' \in [Queues -> Seq(Jobs)]
    BY SubmitEntities
  <2> QED
    BY <1>1, <2>1, <2>2 DEF IInv, TypeOK
<1>6. SchedOk'
  <2>1. (scheduled \subseteq Submitted)'
    BY <1>1, <1>2, <1>4
  <2>2. \A q \in Queues : Lists(entity[q], OfQueue(q) \ scheduled)'
    BY SubmitEntities
  <2>3. \A j \in scheduled, k \in Submitted' \ scheduled : Queue(j) = Queue(k) => Rank(j) < Rank(k)
    BY <1>3, <1>4 DEF IInv, SchedOk
  <2>4. \A j \in scheduled : WithGeometry(j)' => GeomOf(j) \in scheduled
    BY <1>2, <1>4 DEF IInv, SchedOk
  <2> QED
    BY <1>1, <2>1, <2>2, <2>3, <2>4 DEF SchedOk
<1>7. SeqnoOk'
  <2>1. \A j \in Jobs : seqno[j] # 0 => j \in Submitted' /\ seqno[j] <= lastSeqno[Queue(j)]
    BY <1>2 DEF IInv, SeqnoOk
  <2>2. \A j \in scheduled : seqno[j] # 0
    BY DEF IInv, SeqnoOk
  <2>3. \A j \in Submitted' : WithGeometry(j)' => (seqno[j] = 0 <=> seqno[GeomOf(j)] = 0)
    BY <1>2, <1>3 DEF IInv, SeqnoOk
  <2>4. \A j, k \in Jobs :
         seqno[j] # 0 /\ seqno[k] # 0 /\ Queue(j) = Queue(k) /\ Rank(j) < Rank(k)
           => seqno[j] < seqno[k]
    BY DEF IInv, SeqnoOk
  <2>5. ASSUME NEW j \in Jobs, NEW k \in Submitted', seqno[j] # 0,
               \/ Queue(k) = "frag" /\ k[1] < j[1]
               \/ Queue(k) = Queue(j) /\ Rank(k) < Rank(j) /\ ~WithGeometry(j)'
        PROVE  k \in scheduled
    <3>1. j \in Submitted
      BY <2>5 DEF IInv, SeqnoOk
    <3>2. CASE k \in Submitted
      BY <1>2, <2>5, <3>1, <3>2 DEF IInv, SeqnoOk
    <3>3. CASE k \notin Submitted
      <4>1. j[1] < k[1] /\ Rank(j) < Rank(k) /\ j[1] \in Nat /\ k[1] \in Nat
            /\ Rank(j) \in Nat /\ Rank(k) \in Nat
        BY <1>3, <3>1, <3>3, JobFacts, RankFacts
      <4> QED
        BY <2>5, <4>1
    <3> QED
      BY <3>2, <3>3
  <2> QED
    BY <1>1, <2>1, <2>2, <2>3, <2>4, <2>5 DEF SeqnoOk
<1>8. FenceOk'
  <2>1. \A j \in Jobs : cccbFence[j] # "fresh" => j \in Submitted'
    BY <1>2 DEF IInv, FenceOk
  <2>2. \A j \in Submitted' : Queue(j) = "frag" /\ Owner(j)' /\ cccbFence[j] # "fresh" => seqno[j] # 0
    BY <1>2, <1>3 DEF IInv, FenceOk
  <2>3. ASSUME waiter.job # NoJob
        PROVE  (/\ waiter.job \in Submitted /\ Queue(waiter.job) = "frag"
                /\ cccbFence[waiter.job] = "waiting"
                /\ SequenceSize(waiter.job) <= waiter.size
                /\ \E q \in Queues :
                     /\ waitsFor[q] = waiter.job /\ entity[q] # <<>> /\ ~ready[q]
                     /\ IF q = "geom" THEN waiter.job = PairedOf(Head(entity.geom))
                        ELSE /\ waiter.job = Head(entity.frag)
                             /\ WithGeometry(waiter.job) => GeomOf(waiter.job) \in scheduled)'
    <3>0. PICK w : w = waiter.job
      OBVIOUS
    <3>1. /\ w \in Submitted /\ Queue(w) = "frag" /\ cccbFence[w] = "waiting"
          /\ SequenceSize(w) <= waiter.size
      BY <2>3, <3>0 DEF IInv, FenceOk
    <3>2. PICK q \in Queues :
              /\ waitsFor[q] = w /\ entity[q] # <<>> /\ ~ready[q]
              /\ IF q = "geom" THEN w = PairedOf(Head(entity.geom))
                 ELSE /\ w = Head(entity.frag)
                      /\ WithGeometry(w) => GeomOf(w) \in scheduled
      BY <2>3, <3>0 DEF IInv, FenceOk
    <3>3. entity'[q] # <<>> /\ Head(entity'[q]) = Head(entity[q]) /\ q \in {"geom", "frag"}
      BY <3>2, SubmitEntities DEF Queues
    <3>4. w \in Submitted' /\ (WithGeometry(w)' <=> WithGeometry(w)) /\ SequenceSize(w)' = SequenceSize(w)
      BY <1>2, <3>1
    <3>5. IF q = "geom" THEN w = PairedOf(Head(entity'["geom"]))
          ELSE w = Head(entity'["frag"]) /\ (WithGeometry(w)' => GeomOf(w) \in scheduled)
      BY <3>2, <3>3, <3>4
    <3>6. SequenceSize(w)' <= waiter'.size
      BY <1>1, <3>1, <3>4
    <3>7. SequenceSize(waiter.job)' <= waiter'.size
      BY <1>1, <3>0, <3>6 DEF SequenceSize, Combinable, IsChained
    <3>8. WithGeometry(waiter.job)' <=> WithGeometry(w)'
      BY <1>1, <3>0 DEF WithGeometry, IsChained
    <3>9. w = waiter'.job /\ UNCHANGED <<waitsFor, ready, scheduled, cccbFence>>
      BY <1>1, <3>0
    <3>10. /\ waitsFor'[q] = waiter'.job /\ entity'[q] # <<>> /\ ~ready'[q]
           /\ IF q = "geom" THEN waiter'.job = PairedOf(Head(entity'["geom"]))
              ELSE /\ waiter'.job = Head(entity'["frag"])
                   /\ WithGeometry(waiter.job)' => GeomOf(waiter'.job) \in scheduled'
      BY <3>2, <3>3, <3>5, <3>8, <3>9
    <3> QED
      BY <3>1, <3>2, <3>4, <3>7, <3>9, <3>10
  <2>4. waiter'.job = waiter.job
    BY <1>1
  <2> QED
    BY <1>1, <2>1, <2>2, <2>3, <2>4 DEF FenceOk
<1>9. ReadyOk'
  <2>1. ASSUME ready.geom
        PROVE  /\ entity'.geom # <<>> /\ seqno[Head(entity'.geom)] # 0
               /\ cccbFence[PairedOf(Head(entity'.geom))] = "gone"
    <3>1. entity.geom # <<>> /\ seqno[Head(entity.geom)] # 0
          /\ cccbFence[PairedOf(Head(entity.geom))] = "gone"
      BY <2>1 DEF IInv, ReadyOk
    <3>2. entity'.geom # <<>> /\ Head(entity'.geom) = Head(entity.geom)
      BY <3>1, SubmitEntities DEF Queues
    <3> QED
      BY <3>1, <3>2
  <2>2. ASSUME ready.frag
        PROVE  (/\ entity.frag # <<>>
                /\ LET j == Head(entity.frag)
                   IN  IF WithGeometry(j) THEN GeomOf(j) \in scheduled
                       ELSE seqno[j] # 0 /\ cccbFence[j] = "gone")'
    <3>0. PICK j : j = Head(entity.frag)
      OBVIOUS
    <3>1. entity.frag # <<>> /\ (IF WithGeometry(j) THEN GeomOf(j) \in scheduled
                                 ELSE seqno[j] # 0 /\ cccbFence[j] = "gone")
      BY <2>2, <3>0 DEF IInv, ReadyOk
    <3>2. entity'.frag # <<>> /\ Head(entity'.frag) = j
      BY <3>0, <3>1, SubmitEntities DEF Queues
    <3>3. j \in Submitted
      <4>1. entity["frag"] \in Seq(Jobs) /\ Lists(entity["frag"], OfQueue("frag") \ scheduled)
        BY DEF IInv, TypeOK, SchedOk, Queues
      <4>2. j \in OfQueue("frag") \ scheduled
        BY <3>0, <3>1, <4>1, ListsHead
      <4> QED
        BY <4>2 DEF OfQueue
    <3>4. IF WithGeometry(j)' THEN GeomOf(j) \in scheduled'
          ELSE seqno'[j] # 0 /\ cccbFence'[j] = "gone"
      BY <1>1, <1>2, <3>1, <3>3
    <3> QED
      BY <3>2, <3>4 DEF WithGeometry, IsChained
  <2> QED
    BY <1>1, <2>1, <2>2 DEF ReadyOk
<1>10. SpaceOk'
  <2>1. RingOk(ring) /\ ~ring.dropped
    BY DEF IInv, SpaceOk
  <2>2. \A j \in Submitted' :
           Queue(j) = "frag" /\ Owner(j)' /\ cccbFence[j] = "gone" /\ ~Written(j)'
             => FitsIn(ring, SequenceSize(j)')
    BY <1>2, <1>3 DEF IInv, SpaceOk
  <2> QED
    BY <1>1, <2>1, <2>2 DEF SpaceOk, RingOk, FitsIn, Used, Gap, Cost, Wraps
<1>11. CommandsOk'
  <2>1. InPlace(ring.cmds)
    BY DEF IInv, CommandsOk
  <2>2. \A c \in Elems(ring.cmds) : c.op # "pad" =>
           /\ IsWritten(c.job)'
           /\ c.op # "wait" => Carrier(c.job)' = c.job
    BY <1>2 DEF IInv, CommandsOk, IsWritten
  <2>3. \A j \in Submitted' : IsWritten(j)' /\ j \notin executed =>
           \E c \in Elems(ring.cmds) : c.op = "cmd" /\ c.job = Carrier(j)'
    BY <1>2, <1>3 DEF IInv, CommandsOk
  <2>4. \A j \in scheduled : Queue(j) = "geom" /\ j \notin executed =>
           \E c \in Elems(ring.cmds) : c.op = "wait" /\ c.job = PairedOf(j)
    BY DEF IInv, CommandsOk
  <2>5. Lists(geomRing, {j \in scheduled : Queue(j) = "geom"} \ executed)
    BY DEF IInv, CommandsOk
  <2> QED
    BY <1>1, <2>1, <2>2, <2>3, <2>4, <2>5 DEF CommandsOk
<1>12. ExecutedOk'
  <2>1. \A j \in executed : j \in Submitted /\ (IF Queue(j) = "geom" THEN j \in scheduled ELSE IsWritten(j))
    BY <1>4 DEF IInv, ExecutedOk, IsWritten
  <2>2. \A j \in executed : IF Queue(j) = "geom" THEN j \in scheduled ELSE IsWritten(j)'
    BY <1>2, <2>1
  <2>3. ASSUME NEW j \in executed, NEW k \in Submitted', Queue(k) = Queue(j), Rank(k) < Rank(j)
        PROVE  k \in executed
    <3>1. CASE k \in Submitted
      BY <2>3, <3>1 DEF IInv, ExecutedOk
    <3>2. CASE k \notin Submitted
      <4>1. Rank(j) < Rank(k) /\ Rank(j) \in Nat /\ Rank(k) \in Nat
        BY <1>2, <1>3, <2>1, <3>2, RankFacts
      <4> QED
        BY <2>3, <4>1
    <3> QED
      BY <3>1, <3>2
  <2>4. \A q \in Queues : timeline[q] # 0 =>
         \E k \in executed :
           /\ Queue(k) = q /\ seqno[k] = timeline[q]
           /\ q = "frag" => \A c \in Elems(ring.cmds) :
                c.op = "update" => Rank(k) < Rank(c.job)
    BY DEF IInv, ExecutedOk
  <2> QED
    BY <1>1, <2>2, <2>3, <2>4 DEF ExecutedOk
<1>13. DoneOk'
  <2>1. /\ listened = scheduled /\ signaled = finished /\ finished \subseteq executed \cap scheduled
        /\ \A q \in Queues : Lists(pending[q], {j \in scheduled : Queue(j) = q} \ finished)
    BY DEF IInv, DoneOk
  <2>2. ASSUME NEW j \in finished, NEW k \in Submitted', Queue(k) = Queue(j), Rank(k) < Rank(j)
        PROVE  k \in finished
    <3>1. j \in Submitted
      BY <1>4, <2>1
    <3>2. CASE k \in Submitted
      BY <2>2, <3>2 DEF IInv, DoneOk
    <3>3. CASE k \notin Submitted
      <4>1. Rank(j) < Rank(k) /\ Rank(j) \in Nat /\ Rank(k) \in Nat
        BY <1>2, <1>3, <3>1, <3>3, RankFacts
      <4> QED
        BY <2>2, <4>1
    <3> QED
      BY <3>2, <3>3
  <2> QED
    BY <1>1, <2>1, <2>2 DEF DoneOk
<1> QED
  BY <1>5, <1>6, <1>7, <1>8, <1>9, <1>10, <1>11, <1>12, <1>13 DEF IInv

-----------------------------------------------------------------------------
(* Dependencies and the firmware.                                          *)

\* A dependency that signals preserves the invariant: sequences only shrink.
LEMMA DepSignaledKeeps ==
  ASSUME IInv, NEW d \in Jobs, DepSignaled(d)
  PROVE  IInv'
<1>1. UNCHANGED <<sub, entity, ready, waitsFor, scheduled, cccbFence, waiter, seqno, lastSeqno,
                  pending, inFlight, signaled, listened, finished, ring, geomRing, timeline,
                  executed, event>>
      /\ deps[d] > 0 /\ deps' = [deps EXCEPT ![d] = @ - 1]
  BY DEF DepSignaled, schedVars, fenceVars, doneVars, fwVars
<1>2. deps \in [Jobs -> Nat] /\ deps' \in [Jobs -> Nat] /\ \A k \in Jobs : deps'[k] <= deps[k]
  BY <1>1 DEF IInv, TypeOK
<1>3. TypeOK'
  BY <1>1, <1>2 DEF IInv, TypeOK, SubsOk, LastFragOf, IsChained, Kind
<1>4. SchedOk' /\ SeqnoOk' /\ ReadyOk' /\ CommandsOk' /\ ExecutedOk' /\ DoneOk'
  BY <1>1, SchedSame, SeqnoSame, ReadySame, CommandsSame, ExecutedSame, DoneSame DEF IInv
<1>5. ASSUME NEW j \in Jobs
      PROVE  SequenceSize(j) \in Nat /\ SequenceSize(j)' \in Nat /\ SequenceSize(j)' <= SequenceSize(j)
  BY <1>1, <1>2, SequenceSizeLess
<1>6. Submitted' = Submitted /\ \A j \in Jobs : (Owner(j)' <=> Owner(j)) /\ (Written(j)' <=> Written(j))
  BY <1>1, SubSame, WrittenSame
<1>7. FenceOk'
  <2>1. PICK w : w = waiter.job
    OBVIOUS
  <2>2. w # NoJob => SequenceSize(w)' <= waiter'.size
    <3> SUFFICES ASSUME w # NoJob PROVE SequenceSize(w)' <= waiter'.size
      OBVIOUS
    <3>1. w \in Submitted /\ SequenceSize(w) <= waiter.size
      BY <2>1 DEF IInv, FenceOk
    <3>2. waiter' = waiter /\ waiter.size \in Nat /\ w \in Jobs
      BY <1>1, <3>1 DEF IInv, TypeOK, Submitted
    <3> QED
      BY <1>5, <3>1, <3>2
  <2>3. w = waiter'.job
    BY <1>1, <2>1
  <2>4. waiter'.job # NoJob => SequenceSize(waiter.job)' <= waiter'.size
    BY <2>2, <2>3 DEF SequenceSize, Combinable, IsChained
  <2>5. WithGeometry(waiter.job)' <=> WithGeometry(waiter.job)
    BY <1>1 DEF WithGeometry, IsChained
  <2>6. /\ \A j \in Jobs : cccbFence[j] # "fresh" => j \in Submitted
        /\ \A j \in Submitted : Queue(j) = "frag" /\ Owner(j)' /\ cccbFence[j] # "fresh" => seqno[j] # 0
    BY <1>6 DEF IInv, FenceOk, Submitted
  <2>7. waiter.job # NoJob =>
         /\ waiter.job \in Submitted /\ Queue(waiter.job) = "frag"
         /\ cccbFence[waiter.job] = "waiting"
         /\ \E q \in Queues :
              /\ waitsFor[q] = waiter.job /\ entity[q] # <<>> /\ ~ready[q]
              /\ IF q = "geom" THEN waiter.job = PairedOf(Head(entity.geom))
                 ELSE /\ waiter.job = Head(entity.frag)
                      /\ WithGeometry(waiter.job)' => GeomOf(waiter.job) \in scheduled
    BY <2>5 DEF IInv, FenceOk
  <2>8. UNCHANGED <<Submitted, seqno, cccbFence, waitsFor, entity, ready, waiter, scheduled>>
    BY <1>1, <1>6
  <2> QED
    BY <2>4, <2>6, <2>7, <2>8 DEF FenceOk
<1>8. SpaceOk'
  <2>1. ring \in Rings /\ ring' = ring /\ RingOk(ring) /\ ~ring.dropped
    BY <1>1 DEF IInv, SpaceOk, RingOk
  <2>2. ring.w \in 0 .. CccbSize - 1 /\ Used(ring) \in Nat
    BY <2>1, SpaceIs, FragQueueAssumption DEF Rings
  <2>3. ASSUME NEW j \in Submitted', Queue(j) = "frag", Owner(j)', cccbFence'[j] = "gone", ~Written(j)'
        PROVE  FitsIn(ring, SequenceSize(j)')
    <3>1. j \in Submitted /\ j \in Jobs
      BY <1>6, <2>3 DEF Submitted
    <3>2. FitsIn(ring, SequenceSize(j))
      BY <1>1, <1>6, <2>3, <3>1 DEF IInv, SpaceOk
    <3>3. Used(ring) <= Used(ring)
      BY <2>2
    <3> QED
      BY <1>5, <2>1, <3>1, <3>2, <3>3, FitsInLess
  <2> QED
    BY <2>1, <2>3 DEF SpaceOk, RingOk, FitsIn, Used, Gap, Cost, Wraps
<1> QED
  BY <1>3, <1>4, <1>7, <1>8 DEF IInv

\* What the timeline has reached has been executed.
LEMMA TimelineTells ==
  ASSUME IInv, NEW j \in Submitted, seqno[j] # 0, timeline[Queue(j)] >= seqno[j]
  PROVE  j \in executed
<1> DEFINE q == Queue(j)
<1>1. j \in Jobs /\ q \in Queues /\ seqno[j] \in Nat /\ timeline[q] \in Nat
  BY JobFacts DEF IInv, TypeOK, Submitted
<1>2. timeline[q] # 0
  BY <1>1
<1>3. PICK k \in executed : Queue(k) = q /\ seqno[k] = timeline[q]
  BY <1>1, <1>2 DEF IInv, ExecutedOk
<1>4. k \in Jobs
  BY DEF IInv, ExecutedOk, SchedOk, Submitted, IsWritten
<1>5. ~(Rank(k) < Rank(j))
  <2> SUFFICES ASSUME Rank(k) < Rank(j) PROVE FALSE
    OBVIOUS
  <2>1. seqno[k] < seqno[j]
    BY <1>1, <1>2, <1>3, <1>4 DEF IInv, SeqnoOk
  <2> QED
    BY <1>1, <1>3, <2>1
<1>6. Rank(j) < Rank(k) \/ j = k
  BY <1>1, <1>3, <1>4, <1>5, RankFacts
<1> QED
  BY <1>3, <1>6 DEF IInv, ExecutedOk

\* Jobs are written in the order of their queue.
LEMMA WrittenDown ==
  ASSUME IInv, NEW j, IsWritten(j), NEW k \in Submitted, Queue(k) = "frag", Rank(k) < Rank(j)
  PROVE  IsWritten(k)
<1>1. j \in Submitted /\ Queue(j) = "frag" /\ j \in Jobs /\ k \in Jobs
  BY DEF IsWritten, Submitted
<1>2. k \in scheduled => IsWritten(k)
  BY DEF IInv, SchedOk, IsWritten
<1>3. CASE ~WithGeometry(j)
  <2>1. j \in scheduled
    BY <1>3 DEF IsWritten
  <2>2. ~(Rank(j) < Rank(k))
    BY <1>1, RankFacts
  <2>3. k \in scheduled
    BY <1>1, <2>1, <2>2 DEF IInv, SchedOk
  <2> QED
    BY <1>2, <2>3
<1>4. CASE WithGeometry(j)
  <2>1. GeomOf(j) \in scheduled
    BY <1>4 DEF IsWritten
  <2>2. k[1] < j[1] \/ (k[1] = j[1] /\ k[2] # "f" /\ j[2] = "f")
    BY <1>1, RankFacts
  <2>3. CASE k[1] < j[1]
    <3>1. GeomOf(j) \in Jobs /\ GeomOf(j)[1] = j[1]
      BY <1>1, JobFacts
    <3>2. seqno[GeomOf(j)] # 0
      BY <2>1 DEF IInv, SeqnoOk
    <3>3. k \in scheduled
      BY <2>3, <3>1, <3>2 DEF IInv, SeqnoOk
    <3> QED
      BY <1>2, <3>3
  <2>4. CASE k[1] = j[1] /\ k[2] # "f"
    <3>1. k[2] = "p" /\ GeomOf(k) = GeomOf(j)
      BY <1>1, <2>4, JobFacts DEF GeomOf
    <3> QED
      BY <2>1, <3>1 DEF IsWritten, WithGeometry
  <2> QED
    BY <2>2, <2>3, <2>4
<1> QED
  BY <1>3, <1>4

\* A geometry job that the GPU executes preserves the invariant.
LEMMA FwGeomKeeps ==
  ASSUME IInv, FwGeom
  PROVE  IInv'
<1>1. UNCHANGED <<sub, deps, entity, ready, waitsFor, scheduled, cccbFence, waiter, seqno, lastSeqno,
                  pending, inFlight, signaled, listened, finished, ring>>
      /\ geomRing # <<>> /\ geomRing' = Tail(geomRing)
  BY DEF FwGeom, schedVars, fenceVars, doneVars
<1>2. PICK j : j = Head(geomRing) /\ executed' = executed \cup {j}
               /\ timeline' = [timeline EXCEPT !.geom = seqno[j]]
  BY DEF FwGeom
<1> DEFINE S == {k \in scheduled : Queue(k) = "geom"}
<1>3. /\ j \in S \ executed /\ j \in Jobs /\ Tail(geomRing) \in Seq(Jobs)
      /\ Lists(Tail(geomRing), (S \ executed) \ {j})
      /\ \A k \in S \ executed : k # j => Rank(j) < Rank(k)
  <2>1. geomRing \in Seq(Jobs) /\ Lists(geomRing, S \ executed)
    BY DEF IInv, TypeOK, CommandsOk
  <2> HIDE DEF S
  <2> QED
    BY <1>1, <1>2, <2>1, ListsHead
<1>4. j \in Submitted /\ seqno[j] \in Nat
  BY <1>3 DEF IInv, SchedOk, TypeOK
<1>5. TypeOK'
  BY <1>1, <1>2, <1>3, <1>4 DEF IInv, TypeOK, SubsOk, LastFragOf, IsChained, Kind, Queues
<1>6. SchedOk' /\ SeqnoOk' /\ FenceOk' /\ ReadyOk' /\ SpaceOk'
  BY <1>1, SchedSame, SeqnoSame, FenceSame, ReadySame, SpaceSame DEF IInv
<1>7. Submitted' = Submitted /\ \A k : (IsWritten(k)' <=> IsWritten(k)) /\ Carrier(k)' = Carrier(k)
  BY <1>1, SubSame, WrittenSame
<1>8. CommandsOk'
  <2>1. (S \ executed) \ {j} = {k \in scheduled' : Queue(k) = "geom"} \ executed'
    BY <1>1, <1>2
  <2>2. Lists(geomRing', {k \in scheduled' : Queue(k) = "geom"} \ executed')
    BY <1>1, <1>3, <2>1
  <2>3. /\ InPlace(ring.cmds)
        /\ \A c \in Elems(ring.cmds) : c.op # "pad" =>
             /\ IsWritten(c.job)'
             /\ c.op # "wait" => Carrier(c.job)' = c.job
    BY <1>7 DEF IInv, CommandsOk
  <2>4. \A k \in Submitted : IsWritten(k)' /\ k \notin executed' =>
           \E c \in Elems(ring.cmds) : c.op = "cmd" /\ c.job = Carrier(k)'
    BY <1>2, <1>7 DEF IInv, CommandsOk
  <2>5. \A k \in scheduled : Queue(k) = "geom" /\ k \notin executed' =>
           \E c \in Elems(ring.cmds) : c.op = "wait" /\ c.job = PairedOf(k)
    BY <1>2 DEF IInv, CommandsOk
  <2>6. Lists(geomRing, {k \in scheduled : Queue(k) = "geom"} \ executed)'
    BY <2>2 DEF Lists, Ascending, Elems
  <2>7. UNCHANGED <<Submitted, ring, scheduled>>
    BY <1>1, <1>7
  <2> QED
    BY <2>3, <2>4, <2>5, <2>6, <2>7 DEF CommandsOk
<1>9. ExecutedOk'
  <2>1. \A k \in executed' : IF Queue(k) = "geom" THEN k \in scheduled ELSE IsWritten(k)
    BY <1>2, <1>3 DEF IInv, ExecutedOk
  <2>2. ASSUME NEW m \in executed', NEW k \in Submitted, Queue(k) = Queue(m), Rank(k) < Rank(m)
        PROVE  k \in executed'
    <3>1. CASE m \in executed
      BY <1>2, <2>2, <3>1 DEF IInv, ExecutedOk
    <3>2. CASE m = j
      <4>1. k \in Jobs /\ ~(Rank(j) < Rank(k)) /\ k # j
        BY <1>3, <2>2, <3>2, RankFacts DEF Submitted
      <4>2. k \in scheduled
        BY <1>3, <2>2, <3>2, <4>1 DEF IInv, SchedOk
      <4> QED
        BY <1>2, <1>3, <2>2, <3>2, <4>1, <4>2
    <3> QED
      BY <1>2, <2>2, <3>1, <3>2
  <2>3. ASSUME NEW q \in Queues, timeline'[q] # 0
        PROVE  \E k \in executed' :
                  /\ Queue(k) = q /\ seqno[k] = timeline'[q]
                  /\ q = "frag" => \A c \in Elems(ring.cmds) : c.op = "update" => Rank(k) < Rank(c.job)
    <3>1. CASE q = "geom"
      <4>1. timeline'[q] = seqno[j]
        BY <1>2, <3>1 DEF IInv, TypeOK, Queues
      <4> QED
        BY <1>2, <1>3, <3>1, <4>1
    <3>2. CASE q = "frag"
      <4>1. timeline'[q] = timeline[q]
        BY <1>2, <3>2 DEF IInv, TypeOK, Queues
      <4> QED
        BY <1>2, <2>3, <4>1 DEF IInv, ExecutedOk
    <3> QED
      BY <3>1, <3>2 DEF Queues
  <2> QED
    BY <1>1, <1>7, <2>1, <2>2, <2>3 DEF ExecutedOk
<1>10. DoneOk'
  BY <1>1, <1>2, <1>7 DEF IInv, DoneOk
<1> QED
  BY <1>5, <1>6, <1>8, <1>9, <1>10 DEF IInv

\* A command of the fragment CCCB that the firmware executes preserves the invariant.
LEMMA FwFragKeeps ==
  ASSUME IInv, FwFrag
  PROVE  IInv'
<1>1. UNCHANGED <<sub, deps, entity, ready, waitsFor, scheduled, cccbFence, waiter, seqno, lastSeqno,
                  pending, inFlight, signaled, listened, finished, geomRing>>
      /\ ring.cmds # <<>>
  BY DEF FwFrag, schedVars, fenceVars, doneVars
<1>2. PICK c : /\ c = Head(ring.cmds)
               /\ c.op = "wait" => (c.job[2] = "p" => timeline.geom >= seqno[GeomOf(c.job)])
               /\ ring' = [ring EXCEPT !.r = (@ + c.size) % CccbSize, !.cmds = Tail(@)]
               /\ executed' = IF c.op = "cmd" THEN executed \cup Executes(c.job) ELSE executed
               /\ timeline' = IF c.op = "update" THEN [timeline EXCEPT !.frag = seqno[c.job]]
                              ELSE timeline
  BY DEF FwFrag
<1> DEFINE old == Elems(ring.cmds)  new == Elems(ring'.cmds)
<1>3. /\ RingOk(ring') /\ ring'.w = ring.w /\ ring'.dropped = ring.dropped /\ Used(ring') <= Used(ring)
      /\ c \in Cmds /\ old = {c} \cup new
      /\ InPlace(ring'.cmds)
      /\ \A d \in new : d.op # "pad" /\ c.op # "pad" => Follows(c, d)
  <2>1. RingOk(ring) /\ InPlace(ring.cmds)
    BY DEF IInv, SpaceOk, CommandsOk
  <2>2. ring' = Read(ring)
    BY <1>2 DEF Read
  <2> QED
    BY <1>1, <1>2, <2>1, <2>2, OneRead
<1>4. c.op # "pad" => /\ IsWritten(c.job) /\ c.job \in Submitted /\ c.job \in Jobs /\ Queue(c.job) = "frag"
                      /\ c.op # "wait" => Carrier(c.job) = c.job
  BY <1>3 DEF IInv, CommandsOk, IsWritten, Submitted
<1>5. Submitted' = Submitted /\ \A k : (IsWritten(k)' <=> IsWritten(k)) /\ Carrier(k)' = Carrier(k)
  BY <1>1, SubSame, WrittenSame
<1>6. ASSUME c.op = "cmd", NEW k \in Executes(c.job)
      PROVE  IsWritten(k) /\ k \in Jobs /\ k \in Submitted /\ Rank(k) <= Rank(c.job)
  <2>1. CASE k = c.job
    BY <1>4, <1>6, <2>1, RankFacts
  <2>2. CASE k # c.job
    <3>1. c.job[2] = "f" /\ Combinable(c.job[1]) /\ k = PairedOf(c.job)
      BY <1>6, <2>2 DEF Executes
    <3>2. SubsOk
      BY DEF IInv, TypeOK
    <3>3. IsChained(c.job[1]) /\ k \in Submitted
      BY <1>4, <1>6, <3>1, <3>2, Family
    <3>4. k[1] = c.job[1] /\ k[2] = "p" /\ k \in Jobs
      BY <1>4, <1>6, <3>1, JobFacts
    <3>5. GeomOf(c.job) \in scheduled /\ GeomOf(k) = GeomOf(c.job)
      BY <1>4, <1>6, <3>1, <3>3, <3>4 DEF IsWritten, WithGeometry, GeomOf
    <3>6. IsWritten(k)
      BY <3>3, <3>4, <3>5 DEF IsWritten, WithGeometry, Queue
    <3>7. ~(Rank(c.job) < Rank(k)) /\ Rank(c.job) \in Nat /\ Rank(k) \in Nat
      BY <1>4, <1>6, <3>1, <3>4, RankFacts
    <3> QED
      BY <3>3, <3>4, <3>6, <3>7
  <2> QED
    BY <2>1, <2>2
\* The command of a job that is not executed stays in the ring.
<1>7. ASSUME NEW k \in Submitted, IsWritten(k), k \notin executed'
      PROVE  \E d \in new : d.op = "cmd" /\ d.job = Carrier(k)
  <2>1. k \notin executed
    BY <1>2, <1>7
  <2>2. PICK d \in old : d.op = "cmd" /\ d.job = Carrier(k)
    BY <1>7, <2>1 DEF IInv, CommandsOk
  <2>3. d # c
    <3> SUFFICES ASSUME d = c PROVE FALSE
      OBVIOUS
    <3>1. k \in Jobs /\ k = <<k[1], k[2]>> /\ c.job = Carrier(k) /\ c.op = "cmd"
      BY <2>2, JobFacts DEF Submitted
    <3>2. k \in Executes(c.job)
      <4>1. CASE k[2] = "p" /\ Combinable(k[1])
        <5>1. c.job = ChainedOf(k)
          BY <3>1, <4>1 DEF Carrier
        <5> QED
          BY <3>1, <4>1, <5>1 DEF Executes, ChainedOf, PairedOf
      <4>2. CASE ~(k[2] = "p" /\ Combinable(k[1]))
        BY <3>1, <4>2 DEF Carrier, Executes
      <4> QED
        BY <4>1, <4>2
    <3> QED
      BY <1>2, <1>7, <3>1, <3>2
  <2> QED
    BY <1>3, <2>2, <2>3
<1>8. TypeOK'
  <2>1. timeline' \in [Queues -> Nat]
    BY <1>2, <1>4 DEF IInv, TypeOK, Queues
  <2> QED
    BY <1>1, <2>1 DEF IInv, TypeOK, SubsOk, LastFragOf, IsChained, Kind
<1>9. SchedOk' /\ SeqnoOk' /\ FenceOk' /\ ReadyOk'
  BY <1>1, SchedSame, SeqnoSame, FenceSame, ReadySame DEF IInv
<1>10. SpaceOk'
  <2>1. ring \in Rings /\ ring' \in Rings /\ ~ring.dropped
    BY <1>3 DEF IInv, SpaceOk, RingOk
  <2>2. ASSUME NEW j \in Submitted, Queue(j) = "frag", Owner(j), cccbFence[j] = "gone", ~Written(j)
        PROVE  FitsIn(ring', SequenceSize(j))
    <3>1. FitsIn(ring, SequenceSize(j))
      BY <2>2 DEF IInv, SpaceOk
    <3>2. j \in Jobs /\ deps \in [Jobs -> Nat]
      BY DEF Submitted, IInv, TypeOK
    <3>3. SequenceSize(j) \in Nat /\ SequenceSize(j) <= SequenceSize(j)
      <4>1. \A k \in Jobs : deps'[k] <= deps[k]
        BY <1>1, <3>2
      <4>2. SequenceSize(j) \in Nat
        BY <1>1, <3>2, <4>1, SequenceSizeLess
      <4> QED
        BY <4>2
    <3> QED
      BY <1>3, <2>1, <3>1, <3>3, FitsInLess
  <2>3. \A j : (Owner(j)' <=> Owner(j)) /\ (Written(j)' <=> Written(j)) /\ SequenceSize(j)' = SequenceSize(j)
    BY <1>1, SubSame, WrittenSame, SizeSame
  <2>4. RingOk(ring)' /\ ~ring'.dropped
    BY <1>3, <2>1 DEF RingOk
  <2>5. \A j \in Submitted' : Queue(j) = "frag" /\ Owner(j)' /\ cccbFence'[j] = "gone" /\ ~Written(j)'
           => FitsIn(ring', SequenceSize(j)')
    BY <1>1, <1>5, <2>2, <2>3
  <2> QED
    BY <2>4, <2>5 DEF SpaceOk, FitsIn, Used, Gap, Cost, Wraps
<1>11. CommandsOk'
  <2>1. \A d \in new : d.op # "pad" =>
             /\ IsWritten(d.job)'
             /\ d.op # "wait" => Carrier(d.job)' = d.job
    BY <1>3, <1>5 DEF IInv, CommandsOk
  <2>2. \A k \in Submitted : IsWritten(k)' /\ k \notin executed' =>
           \E d \in new : d.op = "cmd" /\ d.job = Carrier(k)'
    BY <1>5, <1>7
  <2>3. ASSUME NEW k \in scheduled, Queue(k) = "geom", k \notin executed'
        PROVE  \E d \in new : d.op = "wait" /\ d.job = PairedOf(k)
    <3>1. k \notin executed /\ k \in Submitted /\ seqno[k] # 0 /\ k \in Jobs
      BY <1>2, <2>3 DEF IInv, SchedOk, SeqnoOk, Submitted
    <3>2. PICK d \in old : d.op = "wait" /\ d.job = PairedOf(k)
      BY <2>3, <3>1 DEF IInv, CommandsOk
    <3>3. d # c
      <4> SUFFICES ASSUME d = c PROVE FALSE
        OBVIOUS
      <4>3. k = <<k[1], k[2]>> /\ k[2] = "g" /\ PairedOf(k)[1] = k[1] /\ PairedOf(k)[2] = "p"
        BY <2>3, <3>1, JobFacts
      <4>4. GeomOf(PairedOf(k)) = k
        BY <4>3 DEF GeomOf
      <4>1. c.job[2] = "p" /\ GeomOf(c.job) = k
        BY <3>2, <4>3, <4>4
      <4>2. timeline[Queue(k)] >= seqno[k]
        BY <1>2, <2>3, <3>2, <4>1
      <4> QED
        BY <3>1, <4>2, TimelineTells
    <3> QED
      BY <1>3, <3>2, <3>3
  <2>4. Lists(geomRing, {k \in scheduled : Queue(k) = "geom"} \ executed')
    <3>1. {k \in scheduled : Queue(k) = "geom"} \ executed' = {k \in scheduled : Queue(k) = "geom"} \ executed
      <4>1. c.op = "cmd" => \A k \in Executes(c.job) : Queue(k) = "frag"
        BY <1>6 DEF IsWritten
      <4> QED
        BY <1>2, <4>1
    <3> QED
      BY <3>1 DEF IInv, CommandsOk
  <2>5. Lists(geomRing, {k \in scheduled : Queue(k) = "geom"} \ executed)'
    BY <1>1, <2>4 DEF Lists, Ascending, Elems
  <2> QED
    BY <1>1, <1>3, <1>5, <2>1, <2>2, <2>3, <2>5 DEF CommandsOk
<1>12. ExecutedOk'
  <2>1. \A k \in executed' : IF Queue(k) = "geom" THEN k \in scheduled ELSE IsWritten(k)
    BY <1>2, <1>6 DEF IInv, ExecutedOk, IsWritten
  <2>2. ASSUME NEW j \in executed', NEW k \in Submitted, Queue(k) = Queue(j), Rank(k) < Rank(j)
        PROVE  k \in executed'
    <3>1. CASE j \in executed
      BY <1>2, <2>2, <3>1 DEF IInv, ExecutedOk
    <3>2. CASE j \notin executed
      <4>1. c.op = "cmd" /\ j \in Executes(c.job)
        BY <1>2, <2>2, <3>2
      <4>2. IsWritten(j) /\ j \in Jobs /\ Rank(j) <= Rank(c.job) /\ Queue(j) = "frag"
        BY <1>6, <4>1 DEF IsWritten
      <4>3. IsWritten(k) /\ k \in Jobs
        BY <2>2, <4>2, WrittenDown DEF Submitted
      <4> SUFFICES ASSUME k \notin executed' PROVE FALSE
        OBVIOUS
      <4>4. PICK d \in new : d.op = "cmd" /\ d.job = Carrier(k)
        BY <1>7, <4>3
      <4>5. Follows(c, d)
        BY <1>3, <4>1, <4>4
      <4>6. Carrier(k) \in Jobs /\ Rank(Carrier(k)) <= Rank(k) + 1 /\ Rank(k) \in Nat
        BY <4>3, JobFacts, RankFacts DEF Carrier, Rank
      <4>7. Rank(c.job) < Rank(Carrier(k))
        <5>1. Rank(c.job) \in Nat /\ Rank(Carrier(k)) \in Nat
          BY <1>4, <4>1, <4>6, RankFacts
        <5> QED
          BY <4>1, <4>4, <4>5, <5>1 DEF Follows, Place
      <4>8. Rank(j) \in Nat /\ Rank(c.job) \in Nat /\ Rank(Carrier(k)) \in Nat
        BY <1>4, <4>1, <4>2, <4>6, RankFacts
      <4> QED
        BY <2>2, <4>2, <4>6, <4>7, <4>8
    <3> QED
      BY <3>1, <3>2
  <2>3. ASSUME NEW q \in Queues, timeline'[q] # 0
        PROVE  \E k \in executed' :
                  /\ Queue(k) = q /\ seqno[k] = timeline'[q]
                  /\ q = "frag" => \A d \in new : d.op = "update" => Rank(k) < Rank(d.job)
    <3>1. CASE q = "geom" \/ c.op # "update"
      <4>1. timeline'[q] = timeline[q]
        BY <1>2, <3>1 DEF IInv, TypeOK, Queues
      <4>2. PICK k \in executed :
                  /\ Queue(k) = q /\ seqno[k] = timeline[q]
                  /\ q = "frag" => \A d \in old : d.op = "update" => Rank(k) < Rank(d.job)
        BY <2>3, <4>1 DEF IInv, ExecutedOk
      <4> QED
        BY <1>2, <1>3, <4>1, <4>2
    <3>2. CASE q = "frag" /\ c.op = "update"
      <4>1. timeline'[q] = seqno[c.job] /\ executed' = executed
        BY <1>2, <3>2 DEF IInv, TypeOK, Queues
      <4>2. \A d \in new : d.op = "update" => d.job \in Jobs /\ Rank(c.job) < Rank(d.job)
        <5> SUFFICES ASSUME NEW d \in new, d.op = "update" PROVE d.job \in Jobs /\ Rank(c.job) < Rank(d.job)
          OBVIOUS
        <5>1. d.job \in Jobs
          BY <1>3 DEF IInv, CommandsOk, IsWritten, Submitted
        <5>2. Follows(c, d) /\ Rank(c.job) \in Nat /\ Rank(d.job) \in Nat
          BY <1>3, <1>4, <3>2, <5>1, RankFacts
        <5> QED
          BY <3>2, <5>1, <5>2 DEF Follows, Place
      <4>3. c.job \in executed
        <5> SUFFICES ASSUME c.job \notin executed PROVE FALSE
          OBVIOUS
        <5>1. PICK d \in new : d.op = "cmd" /\ d.job = c.job
          BY <1>4, <1>7, <3>2, <4>1
        <5>2. Follows(c, d) /\ Rank(c.job) \in Nat
          BY <1>3, <1>4, <3>2, <5>1, RankFacts
        <5> QED
          BY <3>2, <5>1, <5>2 DEF Follows, Place
      <4> QED
        BY <1>4, <3>2, <4>1, <4>2, <4>3
    <3> QED
      BY <3>1, <3>2 DEF Queues
  <2> QED
    BY <1>1, <1>5, <2>1, <2>2, <2>3 DEF ExecutedOk
<1>13. DoneOk'
  BY <1>1, <1>2, <1>5 DEF IInv, DoneOk
<1> QED
  BY <1>8, <1>9, <1>10, <1>11, <1>12, <1>13 DEF IInv

-----------------------------------------------------------------------------
(* Finishing.                                                              *)

\* What is found done has been executed, and so is all before it.
LEMMA DoneNowFacts ==
  ASSUME IInv, NEW q \in Queues, NEW j \in DoneNow(q)
  PROVE  /\ j \in scheduled /\ j \in executed /\ j \in Submitted /\ Queue(j) = q /\ j \notin finished
         /\ \A k \in Submitted : Queue(k) = q /\ Rank(k) < Rank(j) => k \in finished \cup DoneNow(q)
<1> DEFINE s == pending[q]  S == {k \in scheduled : Queue(k) = q} \ finished
<1>1. s \in Seq(Jobs) /\ Ascending(s) /\ Elems(s) = S /\ signaled = finished
  BY DEF IInv, TypeOK, DoneOk, Lists
<1>2. PICK i \in DOMAIN s : j = s[i] /\ (\A m \in 1 .. i : timeline[q] >= seqno[s[m]]) /\ j \notin signaled
  BY DEF DoneNow
<1>3. Len(s) \in Nat /\ DOMAIN s = 1 .. Len(s) /\ i \in 1 .. Len(s)
  BY <1>1, <1>2, LenProperties
<1>4. j \in S
  BY <1>1, <1>2, <1>3 DEF Elems
<1>5. j \in Submitted /\ seqno[j] # 0 /\ j \in Jobs
  BY <1>4 DEF IInv, SchedOk, SeqnoOk, Submitted
<1>6. j \in executed
  BY <1>2, <1>3, <1>4, <1>5, TimelineTells
<1>7. ASSUME NEW k \in Submitted, Queue(k) = q, Rank(k) < Rank(j), k \notin finished
      PROVE  k \in DoneNow(q)
  <2>1. k \in Jobs /\ Rank(k) \in Nat /\ Rank(j) \in Nat
    BY <1>5, RankFacts DEF Submitted
  <2>2. k \in scheduled
    BY <1>4, <1>7, <2>1 DEF IInv, SchedOk
  <2>3. PICK m \in 1 .. Len(s) : k = s[m]
    BY <1>1, <1>7, <2>2 DEF Elems
  <2>4. m < i
    <3>1. ~(i < m)
      BY <1>1, <1>2, <1>3, <1>7, <2>1, <2>3 DEF Ascending
    <3>2. m # i
      BY <1>2, <1>7, <2>1, <2>3
    <3> QED
      BY <1>3, <2>3, <3>1, <3>2
  <2>5. \A n \in 1 .. m : timeline[q] >= seqno[s[n]]
    BY <1>2, <1>3, <2>3, <2>4
  <2> QED
    BY <1>1, <1>3, <1>7, <2>3, <2>5 DEF DoneNow
<1> QED
  BY <1>1, <1>2, <1>4, <1>5, <1>6, <1>7

\* The done fences of the queues of A are signalled, and what has finished is
\* taken off the lists of B.
LEMMA FinishingKeeps ==
  ASSUME IInv, UNCHANGED <<sub, scheduled, executed, listened>>, NEW A \in SUBSET Queues, NEW B, A \subseteq B,
         NEW done, done = UNION {DoneNow(q) : q \in A},
         signaled' = signaled \cup done, finished' = finished \cup done,
         pending' = [q \in Queues |-> IF q \in B THEN Unfinished(q, finished') ELSE pending[q]]
  PROVE  DoneOk' /\ pending' \in [Queues -> Seq(Jobs)]
<1>1. ASSUME NEW j \in done
      PROVE  /\ Queue(j) \in A /\ j \in scheduled /\ j \in executed /\ j \in Submitted
             /\ \A k \in Submitted : Queue(k) = Queue(j) /\ Rank(k) < Rank(j) => k \in finished'
  <2>1. PICK q \in A : j \in DoneNow(q)
    OBVIOUS
  <2>2. q \in Queues /\ DoneNow(q) \subseteq done
    OBVIOUS
  <2> QED
    BY <2>1, <2>2, DoneNowFacts
<1>2. listened = scheduled /\ signaled = finished /\ finished \subseteq executed \cap scheduled
  BY DEF IInv, DoneOk
<1>3. ASSUME NEW j \in finished', NEW k \in Submitted, Queue(k) = Queue(j), Rank(k) < Rank(j)
      PROVE  k \in finished'
  <2>1. CASE j \in finished
    BY <1>3, <2>1 DEF IInv, DoneOk
  <2>2. CASE j \in done
    BY <1>1, <1>3, <2>2
  <2> QED
    BY <2>1, <2>2
<1>4. ASSUME NEW q \in Queues
      PROVE  pending'[q] \in Seq(Jobs) /\ Lists(pending'[q], {j \in scheduled : Queue(j) = q} \ finished')
  <2> DEFINE S == {j \in scheduled : Queue(j) = q} \ finished
  <2>1. pending[q] \in Seq(Jobs) /\ Lists(pending[q], S)
    BY DEF IInv, TypeOK, DoneOk
  <2>2. \A j \in S : j \in Submitted /\ Queue(j) = q
    BY DEF IInv, SchedOk
  <2>3. S \ finished' = {j \in scheduled : Queue(j) = q} \ finished'
    OBVIOUS
  <2>4. CASE q \in B
    <3>1. \A j, k \in S : k \in finished' /\ Rank(j) < Rank(k) => j \in finished'
      BY <1>3, <2>2
    <3>2. Unfinished(q, finished') \in Seq(Jobs) /\ Lists(Unfinished(q, finished'), S \ finished')
      <4> HIDE DEF S
      <4> QED
        BY <2>1, <3>1, ListsUnfinished
    <3> QED
      BY <2>3, <2>4, <3>2
  <2>5. CASE q \notin B
    <3>1. {j \in scheduled : Queue(j) = q} \ finished' = S
      BY <1>1, <2>5
    <3> QED
      BY <2>1, <2>5, <3>1
  <2> QED
    BY <2>4, <2>5
<1>5. pending' \in [Queues -> Seq(Jobs)]
  BY <1>4
<1>6. listened' = scheduled' /\ signaled' = finished' /\ finished' \subseteq executed' \cap scheduled'
  BY <1>1, <1>2
<1>7. \A q \in Queues : Lists(pending[q], {j \in scheduled : Queue(j) = q} \ finished)'
  BY <1>4 DEF Lists, Ascending, Elems
<1>8. Submitted' = Submitted
  BY SubSame
<1> QED
  BY <1>3, <1>5, <1>6, <1>7, <1>8 DEF DoneOk

\* The waiter is woken when there is room for it.
LEMMA WakeKeeps ==
  ASSUME IInv, NEW looked, WakeWaiter(looked),
         UNCHANGED <<sub, deps, entity, ready, waitsFor, scheduled, seqno, ring>>
  PROVE  /\ FenceOk' /\ ReadyOk' /\ SpaceOk'
         /\ cccbFence' \in [Jobs -> {"fresh", "waiting", "gone"}]
         /\ waiter' \in [job : Jobs \cup {NoJob}, size : Nat]
<1>1. CASE ~(looked /\ WaiterFits)
  <2>1. UNCHANGED <<waiter, cccbFence>>
    BY <1>1 DEF WakeWaiter
  <2>2. FenceOk' /\ ReadyOk' /\ SpaceOk'
    BY <2>1, FenceSame, ReadySame, SpaceSame DEF IInv
  <2> QED
    BY <2>1, <2>2 DEF IInv, TypeOK
<1>2. CASE looked /\ WaiterFits
  <2>1. PICK w : w = waiter.job
    OBVIOUS
  <2>2. /\ w # NoJob /\ Fits(waiter.size)
        /\ waiter' = [job |-> NoJob, size |-> 0] /\ cccbFence' = [cccbFence EXCEPT ![w] = "gone"]
    BY <1>2, <2>1 DEF WakeWaiter, WaiterFits
  <2>3. /\ w \in Submitted /\ w \in Jobs /\ Queue(w) = "frag" /\ cccbFence[w] = "waiting"
        /\ SequenceSize(w) <= waiter.size /\ waiter.size \in Nat
        /\ cccbFence \in [Jobs -> {"fresh", "waiting", "gone"}] /\ deps \in [Jobs -> Nat]
    BY <2>1, <2>2 DEF IInv, FenceOk, TypeOK, Submitted
  <2>4. \A j \in Jobs : cccbFence'[j] = IF j = w THEN "gone" ELSE cccbFence[j]
    BY <2>2, <2>3
  <2>5. /\ Submitted' = Submitted
        /\ \A j : /\ WithGeometry(j)' <=> WithGeometry(j)
                  /\ Owner(j)' <=> Owner(j)
                  /\ SequenceSize(j)' = SequenceSize(j)
                  /\ Written(j)' <=> Written(j)
    BY SubSame, SizeSame, WrittenSame
  <2>6. FenceOk'
    <3>1. \A j \in Jobs : cccbFence'[j] # "fresh" => j \in Submitted
      BY <2>3, <2>4 DEF IInv, FenceOk
    <3>2. \A j \in Submitted : Queue(j) = "frag" /\ Owner(j) /\ cccbFence'[j] # "fresh" => seqno[j] # 0
      BY <2>3, <2>4 DEF IInv, FenceOk, Submitted
    <3> QED
      BY <2>2, <2>5, <3>1, <3>2 DEF FenceOk
  <2>7. ReadyOk'
    <3>1. \A j : cccbFence[j] = "gone" => cccbFence'[j] = "gone"
      BY <2>2, <2>3
    <3> QED
      BY <2>5, <3>1 DEF IInv, ReadyOk
  <2>8. SpaceOk'
    <3>1. RingOk(ring) /\ ~ring.dropped /\ ring \in Rings
      BY DEF IInv, SpaceOk, RingOk
    <3>2. FitsIn(ring, SequenceSize(w))
      <4>1. FitsIn(ring, waiter.size)
        BY <2>2, <2>3, <3>1, FitsIs
      <4>2. SequenceSize(w) \in Nat
        BY <2>3, SequenceSizeLess
      <4>3. Used(ring) \in Nat
        BY <3>1, SpaceIs, FragQueueAssumption
      <4> QED
        BY <2>3, <3>1, <4>1, <4>2, <4>3, FitsInLess
    <3>3. \A j \in Submitted : Queue(j) = "frag" /\ Owner(j) /\ cccbFence'[j] = "gone" /\ ~Written(j)
             => FitsIn(ring, SequenceSize(j))
      BY <2>4, <3>2 DEF IInv, SpaceOk, Submitted
    <3>4. RingOk(ring)' /\ ~ring'.dropped
      BY <3>1 DEF RingOk
    <3>5. \A j \in Submitted' : Queue(j) = "frag" /\ Owner(j)' /\ cccbFence'[j] = "gone" /\ ~Written(j)'
             => FitsIn(ring', SequenceSize(j)')
      BY <2>5, <3>3
    <3> QED
      BY <3>4, <3>5 DEF SpaceOk, FitsIn, Used, Gap, Cost, Wraps
  <2> QED
    BY <2>2, <2>3, <2>6, <2>7, <2>8
<1> QED
  BY <1>1, <1>2

\* Signalling what the timelines show as done preserves the invariant.
LEMMA ProcessKeeps ==
  ASSUME IInv, Process
  PROVE  IInv'
<1>1. UNCHANGED <<sub, deps, entity, ready, waitsFor, scheduled, seqno, lastSeqno, listened,
                  ring, geomRing, timeline, executed>>
  BY DEF Process, schedVars
<1>2. PICK A : A = {q \in Queues : inFlight[q] # 0}
  OBVIOUS
<1>3. PICK done : done = UNION {DoneNow(q) : q \in A}
  OBVIOUS
<1>4. /\ WakeWaiter("frag" \in A)
      /\ signaled' = signaled \cup done
      /\ finished' = finished \cup (done \cap listened)
      /\ pending' = [q \in Queues |-> Unfinished(q, finished')]
  BY <1>2, <1>3 DEF Process
<1>5. FenceOk' /\ ReadyOk' /\ SpaceOk'
      /\ cccbFence' \in [Jobs -> {"fresh", "waiting", "gone"}]
      /\ waiter' \in [job : Jobs \cup {NoJob}, size : Nat]
  BY <1>1, <1>4, WakeKeeps
<1>6. DoneOk' /\ pending' \in [Queues -> Seq(Jobs)]
  <2>1. done \cap listened = done
    BY <1>2, <1>3, DoneNowFacts DEF IInv, DoneOk
  <2>2. A \in SUBSET Queues /\ A \subseteq Queues
    BY <1>2
  <2>3. pending' = [q \in Queues |-> IF q \in Queues THEN Unfinished(q, finished') ELSE pending[q]]
    BY <1>4
  <2> QED
    BY <1>1, <1>3, <1>4, <2>1, <2>2, <2>3, FinishingKeeps
<1>7. SchedOk' /\ SeqnoOk' /\ CommandsOk' /\ ExecutedOk'
  BY <1>1, SchedSame, SeqnoSame, CommandsSame, ExecutedSame DEF IInv
<1>8. TypeOK'
  BY <1>1, <1>5, <1>6 DEF IInv, TypeOK, SubsOk, LastFragOf, IsChained, Kind
<1> QED
  BY <1>5, <1>6, <1>7, <1>8 DEF IInv

\* A timeout of a job, with the queue stopped and started, preserves the invariant.
LEMMA TimedOutKeeps ==
  ASSUME IInv, NEW q \in Queues, TimedOut(q)
  PROVE  IInv'
<1>1. UNCHANGED <<sub, deps, entity, ready, waitsFor, scheduled, seqno, lastSeqno,
                  ring, geomRing, timeline, executed, event>>
  BY DEF TimedOut, schedVars, fwVars
<1>2. PICK done : done = DoneNow(q)
  OBVIOUS
<1>3. PICK listed : listed = {pending[q][i] : i \in DOMAIN pending[q]}
  OBVIOUS
<1>4. /\ WakeWaiter(q = "frag")
      /\ signaled' = signaled \cup done
      /\ finished' = finished \cup (listed \cap signaled')
      /\ listened' = listened \cup listed
      /\ pending' = [pending EXCEPT ![q] = Unfinished(q, finished')]
  BY <1>2, <1>3 DEF TimedOut, FullRecovery
<1>5. FenceOk' /\ ReadyOk' /\ SpaceOk'
      /\ cccbFence' \in [Jobs -> {"fresh", "waiting", "gone"}]
      /\ waiter' \in [job : Jobs \cup {NoJob}, size : Nat]
  BY <1>1, <1>4, WakeKeeps
<1>6. listed = {j \in scheduled : Queue(j) = q} \ finished
  <2>1. pending[q] \in Seq(Jobs) /\ Elems(pending[q]) = {j \in scheduled : Queue(j) = q} \ finished
    BY DEF IInv, TypeOK, DoneOk, Lists
  <2>2. DOMAIN pending[q] = 1 .. Len(pending[q])
    BY <2>1, LenProperties
  <2> QED
    BY <1>3, <2>1, <2>2 DEF Elems
<1>7. listened' = listened /\ finished' = finished \cup done
  <2>1. listened = scheduled /\ signaled = finished
    BY DEF IInv, DoneOk
  <2>2. done \subseteq listed
    BY <1>2, <1>6, DoneNowFacts
  <2> QED
    BY <1>4, <1>6, <2>1, <2>2
<1>8. DoneOk' /\ pending' \in [Queues -> Seq(Jobs)]
  <2>1. PICK A : A = {q}
    OBVIOUS
  <2>2. A \in SUBSET Queues /\ A \subseteq A /\ done = UNION {DoneNow(k) : k \in A}
    BY <1>2, <2>1
  <2>3. pending' = [k \in Queues |-> IF k \in A THEN Unfinished(k, finished') ELSE pending[k]]
    BY <1>4, <2>1 DEF IInv, TypeOK
  <2>4. signaled' = signaled \cup done /\ finished' = finished \cup done
        /\ UNCHANGED <<sub, scheduled, executed, listened>>
    BY <1>1, <1>4, <1>7
  <2> QED
    BY <2>2, <2>3, <2>4, FinishingKeeps
<1>9. SchedOk' /\ SeqnoOk' /\ CommandsOk' /\ ExecutedOk'
  BY <1>1, SchedSame, SeqnoSame, CommandsSame, ExecutedSame DEF IInv
<1>10. TypeOK'
  BY <1>1, <1>5, <1>8 DEF IInv, TypeOK, SubsOk, LastFragOf, IsChained, Kind
<1> QED
  BY <1>5, <1>8, <1>9, <1>10 DEF IInv

-----------------------------------------------------------------------------
(* prepare_job.                                                            *)

\* The first job of a queue is the lowest of those that have not been run.
LEMMA FirstOfQueue ==
  ASSUME IInv, NEW q \in Queues, entity[q] # <<>>
  PROVE  /\ Head(entity[q]) \in Submitted /\ Head(entity[q]) \in Jobs
         /\ Queue(Head(entity[q])) = q /\ Head(entity[q]) \notin scheduled
         /\ Tail(entity[q]) \in Seq(Jobs)
         /\ Lists(Tail(entity[q]), (OfQueue(q) \ scheduled) \ {Head(entity[q])})
         /\ \A k \in Submitted : Queue(k) = q /\ k \notin scheduled /\ k # Head(entity[q])
              => Rank(Head(entity[q])) < Rank(k)
<1>1. entity[q] \in Seq(Jobs) /\ Lists(entity[q], OfQueue(q) \ scheduled)
  BY DEF IInv, TypeOK, SchedOk
<1>2. \A k : k \in OfQueue(q) <=> k \in Submitted /\ Queue(k) = q
  BY DEF OfQueue
<1>3. /\ Head(entity[q]) \in OfQueue(q) \ scheduled /\ Head(entity[q]) \in Jobs
      /\ Tail(entity[q]) \in Seq(Jobs)
      /\ Lists(Tail(entity[q]), (OfQueue(q) \ scheduled) \ {Head(entity[q])})
      /\ \A k \in OfQueue(q) \ scheduled : k # Head(entity[q]) => Rank(Head(entity[q])) < Rank(k)
  BY <1>1, ListsHead
<1> QED
  BY <1>2, <1>3

\* Job j is what the first job of a queue seeks space for, and the jobs whose
\* space is part of that of j do not ask for any.
SeeksFor(q, j, freed) ==
  /\ j \in Submitted /\ Queue(j) = "frag"
  /\ IF q = "geom" THEN j = PairedOf(Head(entity.geom))
     ELSE j = Head(entity.frag) /\ (WithGeometry(j) => GeomOf(j) \in scheduled)
  /\ \A k \in freed : k \in Submitted /\ ~Owner(k) /\ GeomOf(k) \notin scheduled

\* Whoever holds a job back is found in the other queue, and the job is not j.
LEMMA OtherWaiter ==
  ASSUME IInv, NEW q \in Queues, Preparing(q), NEW j, NEW freed, SeeksFor(q, j, freed),
         NEW w, w = waiter.job, w # NoJob
  PROVE  /\ w \notin {j} \cup freed
         /\ \E r \in Queues \ {q} :
              /\ waitsFor[r] = w /\ entity[r] # <<>> /\ ~ready[r]
              /\ IF r = "geom" THEN w = PairedOf(Head(entity.geom))
                 ELSE /\ w = Head(entity.frag)
                      /\ WithGeometry(w) => GeomOf(w) \in scheduled
<1>1. /\ w \in Submitted /\ w \in Jobs /\ Queue(w) = "frag" /\ cccbFence[w] = "waiting"
  BY DEF IInv, FenceOk, Submitted
<1>2. PICK r \in Queues :
              /\ waitsFor[r] = w /\ entity[r] # <<>> /\ ~ready[r]
              /\ IF r = "geom" THEN w = PairedOf(Head(entity.geom))
                 ELSE /\ w = Head(entity.frag)
                      /\ WithGeometry(w) => GeomOf(w) \in scheduled
  BY DEF IInv, FenceOk
<1>3. r # q
  BY <1>1, <1>2 DEF Preparing
<1>4. /\ j \in Submitted /\ j \in Jobs
      /\ IF q = "geom" THEN j = PairedOf(Head(entity.geom))
         ELSE j = Head(entity.frag) /\ (WithGeometry(j) => GeomOf(j) \in scheduled)
      /\ \A k \in freed : k \in Submitted /\ ~Owner(k) /\ GeomOf(k) \notin scheduled
  BY DEF SeeksFor, Submitted
<1>5. entity[q] # <<>>
  BY DEF Preparing
<1>6. ASSUME entity["geom"] # <<>>
      PROVE  /\ Head(entity.geom) \notin scheduled
             /\ PairedOf(Head(entity.geom))[2] = "p"
             /\ GeomOf(PairedOf(Head(entity.geom))) = Head(entity.geom)
  <2>0. "geom" \in Queues
    BY DEF Queues
  <2> DEFINE h == Head(entity["geom"])
  <2>1. h \in Jobs /\ Queue(h) = "geom" /\ h \notin scheduled
    BY <1>6, <2>0, FirstOfQueue
  <2>2. h = <<h[1], h[2]>> /\ h[2] = "g" /\ PairedOf(h)[1] = h[1] /\ PairedOf(h)[2] = "p"
    BY <2>1, JobFacts
  <2> HIDE DEF h
  <2>3. GeomOf(PairedOf(h)) = h
    BY <2>2 DEF GeomOf
  <2> QED
    BY <2>1, <2>2, <2>3 DEF h
<1>7. w # j
  <2> SUFFICES ASSUME w = j PROVE FALSE
    OBVIOUS
  <2>1. /\ j = PairedOf(Head(entity.geom)) /\ entity["geom"] # <<>>
        /\ WithGeometry(j) => GeomOf(j) \in scheduled
    BY <1>2, <1>3, <1>4, <1>5 DEF Queues
  <2> QED
    BY <1>6, <2>1 DEF WithGeometry
<1>8. w \notin freed
  <2> SUFFICES ASSUME w \in freed PROVE FALSE
    OBVIOUS
  <2>1. ~Owner(w) /\ GeomOf(w) \notin scheduled
    BY <1>4
  <2>2. w[2] # "p" /\ WithGeometry(w)
    BY <2>1 DEF Owner
  <2> QED
    BY <1>2, <1>6, <2>1, <2>2 DEF Queues
<1> QED
  BY <1>2, <1>3, <1>7, <1>8

\* pvr_queue_get_job_cccb_fence(), called by prepare_job.
LEMMA SpaceSought ==
  ASSUME IInv, NEW q \in Queues, Preparing(q), NEW j, NEW freed, NEW bail \in BOOLEAN,
         SeeksFor(q, j, freed), GetCccbFence(q, j, freed, bail),
         UNCHANGED <<sub, deps, entity, scheduled, ring>>,
         \A k \in Jobs : seqno[k] # 0 => seqno'[k] # 0,
         Owner(j) => seqno'[j] # 0
  PROVE  /\ FenceOk' /\ SpaceOk'
         /\ cccbFence' \in [Jobs -> {"fresh", "waiting", "gone"}]
         /\ waiter' \in [job : Jobs \cup {NoJob}, size : Nat]
         /\ waitsFor' \in [Queues -> Jobs \cup {NoJob}]
         /\ ready' \in [Queues -> BOOLEAN]
         /\ \A k \in Queues : k # q => ready'[k] = ready[k]
         /\ \A k \in Jobs : cccbFence[k] = "gone" => cccbFence'[k] = "gone"
         /\ ready'[q] => bail \/ cccbFence'[j] = "gone"
<1> DEFINE found == bail \/ cccbFence[j] = "gone" \/ Fits(SequenceSize(j))
           behind == waiter.job \notin {NoJob, j}
           size == SequenceSize(j)
<1>1. /\ ready' = [ready EXCEPT ![q] = found]
      /\ waitsFor' = [waitsFor EXCEPT ![q] = IF found THEN NoJob ELSE IF behind THEN waiter.job ELSE j]
      /\ waiter' = IF found \/ behind THEN waiter ELSE [job |-> j, size |-> size]
      /\ cccbFence' = [k \in Jobs |->
                         IF found /\ ~bail /\ k \in {j} \cup freed THEN "gone"
                         ELSE IF ~found /\ ~behind /\ k = j THEN "waiting"
                         ELSE cccbFence[k]]
  BY DEF GetCccbFence
<1>2. /\ cccbFence \in [Jobs -> {"fresh", "waiting", "gone"}]
      /\ waiter \in [job : Jobs \cup {NoJob}, size : Nat]
      /\ waitsFor \in [Queues -> Jobs \cup {NoJob}]
      /\ ready \in [Queues -> BOOLEAN]
      /\ deps \in [Jobs -> Nat]
  BY DEF IInv, TypeOK
<1>3. /\ j \in Submitted /\ j \in Jobs /\ Queue(j) = "frag" /\ entity[q] # <<>>
      /\ IF q = "geom" THEN j = PairedOf(Head(entity.geom))
         ELSE j = Head(entity.frag) /\ (WithGeometry(j) => GeomOf(j) \in scheduled)
      /\ \A k \in freed : k \in Submitted /\ ~Owner(k)
  BY DEF SeeksFor, Submitted, Preparing
<1>4. size \in Nat
  <2>1. \A k \in Jobs : deps'[k] <= deps[k]
    BY <1>2
  <2> QED
    BY <1>2, <1>3, <2>1, SequenceSizeLess
<1>5. found \in BOOLEAN
  BY DEF Fits
<1>6. /\ Submitted' = Submitted
      /\ \A k : /\ WithGeometry(k)' <=> WithGeometry(k)
                /\ Owner(k)' <=> Owner(k)
                /\ SequenceSize(k)' = SequenceSize(k)
                /\ Written(k)' <=> Written(k)
  BY SubSame, SizeSame, WrittenSame
<1>7. found /\ ~bail /\ cccbFence[j] # "gone" => FitsIn(ring, size)
  <2>1. ring \in Rings
    BY DEF IInv, SpaceOk, RingOk
  <2> HIDE DEF size
  <2>2. Fits(size) => FitsIn(ring, size)
    BY <1>4, <2>1, FitsIs
  <2> QED
    BY <2>2 DEF size
<1> HIDE DEF found, behind, size
<1>8. /\ cccbFence' \in [Jobs -> {"fresh", "waiting", "gone"}]
      /\ waiter' \in [job : Jobs \cup {NoJob}, size : Nat]
      /\ waitsFor' \in [Queues -> Jobs \cup {NoJob}]
      /\ ready' \in [Queues -> BOOLEAN]
  <2>1. cccbFence' \in [Jobs -> {"fresh", "waiting", "gone"}]
    BY <1>1, <1>2
  <2>2. waiter' \in [job : Jobs \cup {NoJob}, size : Nat]
    BY <1>1, <1>2, <1>3, <1>4
  <2>3. waiter.job \in Jobs \cup {NoJob}
    BY <1>2
  <2>4. waitsFor' \in [Queues -> Jobs \cup {NoJob}]
    BY <1>1, <1>2, <1>3, <2>3
  <2>5. ready' \in [Queues -> BOOLEAN]
    BY <1>1, <1>2, <1>5
  <2> QED
    BY <2>1, <2>2, <2>4, <2>5
<1>9. ASSUME NEW k \in Jobs
      PROVE  cccbFence'[k] = IF found /\ ~bail /\ k \in {j} \cup freed THEN "gone"
                             ELSE IF ~found /\ ~behind /\ k = j THEN "waiting" ELSE cccbFence[k]
  BY <1>1
<1>10. \A k \in Jobs : cccbFence[k] = "gone" => cccbFence'[k] = "gone"
  BY <1>9 DEF found
<1>11. ready'[q] => bail \/ cccbFence'[j] = "gone"
  BY <1>1, <1>2, <1>3, <1>9
<1>12. SpaceOk'
  <2>1. ASSUME NEW k \in Submitted, Queue(k) = "frag", Owner(k), cccbFence'[k] = "gone", ~Written(k)
        PROVE  FitsIn(ring, SequenceSize(k))
    <3>1. k \in Jobs /\ k \notin freed
      BY <1>3, <2>1 DEF Submitted
    <3>2. CASE cccbFence[k] = "gone"
      BY <2>1, <3>2 DEF IInv, SpaceOk
    <3>3. CASE cccbFence[k] # "gone"
      BY <1>7, <1>9, <2>1, <3>1, <3>3 DEF size
    <3> QED
      BY <3>2, <3>3
  <2>2. RingOk(ring)' /\ ~ring'.dropped
    BY DEF IInv, SpaceOk, RingOk
  <2>3. \A k \in Submitted' : Queue(k) = "frag" /\ Owner(k)' /\ cccbFence'[k] = "gone" /\ ~Written(k)'
             => FitsIn(ring', SequenceSize(k)')
    BY <1>6, <2>1
  <2> QED
    BY <2>2, <2>3 DEF SpaceOk, FitsIn, Used, Gap, Cost, Wraps
<1>13. FenceOk'
  <2>1. \A k \in Jobs : cccbFence'[k] # "fresh" => k \in Submitted'
    BY <1>3, <1>6, <1>9 DEF IInv, FenceOk
  <2>2. ASSUME NEW k \in Submitted, Queue(k) = "frag", Owner(k), cccbFence'[k] # "fresh"
        PROVE  seqno'[k] # 0
    <3>1. k \in Jobs /\ k \notin freed
      BY <1>3, <2>2 DEF Submitted
    <3>2. CASE k = j
      BY <2>2, <3>2
    <3>3. CASE k # j
      BY <1>9, <2>2, <3>1, <3>3 DEF IInv, FenceOk
    <3> QED
      BY <3>2, <3>3
  <2>3. ASSUME waiter'.job # NoJob
        PROVE  \E w : /\ w = waiter'.job /\ w \in Submitted /\ Queue(w) = "frag" /\ cccbFence'[w] = "waiting"
                      /\ SequenceSize(w) <= waiter'.size
                      /\ \E r \in Queues :
                           /\ waitsFor'[r] = w /\ entity[r] # <<>> /\ ~ready'[r]
                           /\ IF r = "geom" THEN w = PairedOf(Head(entity.geom))
                              ELSE /\ w = Head(entity.frag)
                                   /\ WithGeometry(w) => GeomOf(w) \in scheduled
    <3>1. CASE found \/ behind
      <4>1. waiter' = waiter
        BY <1>1, <3>1
      <4>2. PICK w : w = waiter.job
        OBVIOUS
      <4>3. /\ w # NoJob /\ w \in Submitted /\ Queue(w) = "frag" /\ cccbFence[w] = "waiting"
            /\ SequenceSize(w) <= waiter.size /\ w \in Jobs
        BY <2>3, <4>1, <4>2 DEF IInv, FenceOk, Submitted
      <4>4. w \notin {j} \cup freed
        BY <4>2, <4>3, OtherWaiter
      <4>5. PICK r \in Queues \ {q} :
              /\ waitsFor[r] = w /\ entity[r] # <<>> /\ ~ready[r]
              /\ IF r = "geom" THEN w = PairedOf(Head(entity.geom))
                 ELSE /\ w = Head(entity.frag)
                      /\ WithGeometry(w) => GeomOf(w) \in scheduled
        BY <4>2, <4>3, OtherWaiter
      <4>6. waitsFor'[r] = w /\ ~ready'[r]
        BY <1>1, <1>2, <4>5
      <4>7. cccbFence'[w] = "waiting"
        BY <1>9, <4>3, <4>4
      <4> QED
        BY <4>1, <4>2, <4>3, <4>5, <4>6, <4>7
    <3>2. CASE ~found /\ ~behind
      <4>1. waiter' = [job |-> j, size |-> size] /\ waitsFor'[q] = j /\ ~ready'[q] /\ cccbFence'[j] = "waiting"
        BY <1>1, <1>2, <1>3, <1>9, <3>2
      <4>2. waiter'.job = j /\ SequenceSize(j) <= waiter'.size
        BY <1>4, <4>1 DEF size
      <4>3. q \in Queues /\ (q = "geom" \/ q = "frag")
        BY DEF Queues
      <4> QED
        BY <1>3, <4>1, <4>2, <4>3
    <3> QED
      BY <3>1, <3>2
  <2>4. ASSUME waiter'.job # NoJob
        PROVE  (/\ waiter.job \in Submitted /\ Queue(waiter.job) = "frag"
                /\ cccbFence[waiter.job] = "waiting"
                /\ SequenceSize(waiter.job) <= waiter.size
                /\ \E r \in Queues :
                     /\ waitsFor[r] = waiter.job /\ entity[r] # <<>> /\ ~ready[r]
                     /\ IF r = "geom" THEN waiter.job = PairedOf(Head(entity.geom))
                        ELSE /\ waiter.job = Head(entity.frag)
                             /\ WithGeometry(waiter.job) => GeomOf(waiter.job) \in scheduled)'
    <3>1. PICK w : /\ w = waiter'.job /\ w \in Submitted /\ Queue(w) = "frag" /\ cccbFence'[w] = "waiting"
                   /\ SequenceSize(w) <= waiter'.size
                   /\ \E r \in Queues :
                           /\ waitsFor'[r] = w /\ entity[r] # <<>> /\ ~ready'[r]
                           /\ IF r = "geom" THEN w = PairedOf(Head(entity.geom))
                              ELSE /\ w = Head(entity.frag)
                                   /\ WithGeometry(w) => GeomOf(w) \in scheduled
      BY <2>3, <2>4
    <3>2. SequenceSize(waiter.job)' = SequenceSize(w)'
      BY <3>1 DEF SequenceSize, Combinable, IsChained
    <3>3. WithGeometry(waiter.job)' <=> WithGeometry(w)'
      BY <3>1 DEF WithGeometry, IsChained
    <3>4. SequenceSize(w)' = SequenceSize(w) /\ (WithGeometry(w)' <=> WithGeometry(w))
      BY <1>6
    <3> QED
      BY <1>6, <3>1, <3>2, <3>3, <3>4
  <2> QED
    BY <1>6, <2>1, <2>2, <2>4 DEF FenceOk
<1> QED
  BY <1>1, <1>2, <1>8, <1>10, <1>11, <1>12, <1>13

\* A done fence that is initialised keeps its seqno.
LEMMA SeqnoKeepsExecuted ==
  ASSUME IInv, UNCHANGED <<sub, scheduled, executed, ring, timeline>>,
         \A k \in Jobs : seqno[k] # 0 => seqno'[k] = seqno[k]
  PROVE  ExecutedOk'
<1>1. Submitted' = Submitted /\ \A k : IsWritten(k)' <=> IsWritten(k)
  BY SubSame, WrittenSame
<1>2. \A k \in executed : k \in Jobs
  BY DEF IInv, ExecutedOk, SchedOk, Submitted, IsWritten
<1>3. /\ \A j \in executed : IF Queue(j) = "geom" THEN j \in scheduled ELSE IsWritten(j)
      /\ \A j \in executed, k \in Submitted :
           Queue(k) = Queue(j) /\ Rank(k) < Rank(j) => k \in executed
  BY DEF IInv, ExecutedOk
<1>4. \A q \in Queues : timeline[q] # 0 =>
         \E k \in executed :
           /\ Queue(k) = q /\ seqno'[k] = timeline[q]
           /\ q = "frag" => \A c \in Elems(ring.cmds) :
                c.op = "update" => Rank(k) < Rank(c.job)
  BY <1>2 DEF IInv, ExecutedOk
<1> QED
  BY <1>1, <1>3, <1>4 DEF ExecutedOk

\* Preparing a fragment job already written with its geometry preserves the invariant.
LEMMA PrepareWithGeometryKeeps ==
  ASSUME IInv, PrepareWithGeometry
  PROVE  IInv'
<1>1. UNCHANGED <<sub, deps, entity, scheduled, seqno, lastSeqno, pending, inFlight, signaled,
                  listened, finished, ring, geomRing, timeline, executed, event>>
      /\ Preparing("frag") /\ entity["frag"] # <<>>
  BY DEF PrepareWithGeometry, doneVars, fwVars, Preparing
<1>2. PICK j : j = Head(entity["frag"])
  OBVIOUS
<1> DEFINE bail == HasPmRef(GeomOf(j))
<1>3. bail \in BOOLEAN
  BY DEF HasPmRef
<1>4. WithGeometry(j) /\ GeomOf(j) \in scheduled /\ GetCccbFence("frag", j, {}, bail)
  BY <1>2 DEF PrepareWithGeometry
<1> HIDE DEF bail
<1>5. j \in Submitted /\ j \in Jobs /\ Queue(j) = "frag" /\ "frag" \in Queues
  BY <1>1, <1>2, FirstOfQueue DEF Queues
<1>6. SeeksFor("frag", j, {})
  BY <1>2, <1>4, <1>5 DEF SeeksFor
<1>7. seqno[j] # 0
  BY <1>4, <1>5 DEF IInv, SeqnoOk
<1>8. /\ FenceOk' /\ SpaceOk'
      /\ cccbFence' \in [Jobs -> {"fresh", "waiting", "gone"}]
      /\ waiter' \in [job : Jobs \cup {NoJob}, size : Nat]
      /\ waitsFor' \in [Queues -> Jobs \cup {NoJob}]
      /\ ready' \in [Queues -> BOOLEAN]
      /\ \A k \in Queues : k # "frag" => ready'[k] = ready[k]
      /\ \A k \in Jobs : cccbFence[k] = "gone" => cccbFence'[k] = "gone"
  BY <1>1, <1>3, <1>4, <1>5, <1>6, <1>7, SpaceSought
<1>9. SchedOk' /\ SeqnoOk' /\ CommandsOk' /\ ExecutedOk' /\ DoneOk'
  BY <1>1, SchedSame, SeqnoSame, CommandsSame, ExecutedSame, DoneSame DEF IInv
<1>10. TypeOK'
  BY <1>1, <1>8 DEF IInv, TypeOK, SubsOk, LastFragOf, IsChained, Kind
<1>11. ReadyOk'
  <2>1. ready'.geom => /\ entity.geom # <<>> /\ seqno[Head(entity.geom)] # 0
                       /\ cccbFence'[PairedOf(Head(entity.geom))] = "gone"
    <3> SUFFICES ASSUME ready'["geom"]
                 PROVE  /\ entity.geom # <<>> /\ seqno[Head(entity.geom)] # 0
                        /\ cccbFence'[PairedOf(Head(entity.geom))] = "gone"
      OBVIOUS
    <3>1. ready.geom /\ "geom" \in Queues
      BY <1>8 DEF Queues
    <3>2. entity.geom # <<>> /\ seqno[Head(entity.geom)] # 0
          /\ cccbFence[PairedOf(Head(entity.geom))] = "gone"
      BY <3>1 DEF IInv, ReadyOk
    <3>3. PairedOf(Head(entity["geom"])) \in Jobs
      BY <3>1, <3>2, FirstOfQueue, JobFacts
    <3> QED
      BY <1>8, <3>2, <3>3
  <2>2. WithGeometry(j)' /\ GeomOf(j) \in scheduled'
    BY <1>1, <1>4 DEF WithGeometry, IsChained
  <2>3. j = Head(entity'.frag) /\ entity'.frag # <<>>
    BY <1>1, <1>2
  <2>4. WithGeometry(Head(entity.frag))'
    BY <2>2, <2>3 DEF WithGeometry, IsChained
  <2> QED
    BY <1>1, <2>1, <2>2, <2>3, <2>4 DEF ReadyOk
<1> QED
  BY <1>8, <1>9, <1>10, <1>11 DEF IInv

\* Preparing a fragment job, with the search for space, preserves the invariant.
LEMMA PrepareFragKeeps ==
  ASSUME IInv, PrepareFrag
  PROVE  IInv'
<1>1. UNCHANGED <<sub, deps, entity, scheduled, pending, inFlight, signaled,
                  listened, finished, ring, geomRing, timeline, executed, event>>
      /\ Preparing("frag") /\ entity["frag"] # <<>>
  BY DEF PrepareFrag, doneVars, fwVars, Preparing
<1>2. PICK j : j = Head(entity["frag"])
  OBVIOUS
<1>3. /\ ~WithGeometry(j)
      /\ IF seqno[j] # 0
         THEN UNCHANGED <<seqno, lastSeqno>>
         ELSE /\ seqno' = [seqno EXCEPT ![j] = lastSeqno.frag + 1]
              /\ lastSeqno' = [lastSeqno EXCEPT !.frag = @ + 1]
      /\ GetCccbFence("frag", j, {}, FALSE)
  BY <1>2 DEF PrepareFrag
<1>4. /\ j \in Submitted /\ j \in Jobs /\ Queue(j) = "frag" /\ "frag" \in Queues /\ j \notin scheduled
      /\ \A k \in Submitted : Queue(k) = "frag" /\ k \notin scheduled /\ k # j => Rank(j) < Rank(k)
  BY <1>1, <1>2, FirstOfQueue DEF Queues
<1>5. SeeksFor("frag", j, {})
  BY <1>2, <1>3, <1>4 DEF SeeksFor
<1>6. /\ seqno \in [Jobs -> Nat] /\ lastSeqno \in [Queues -> Nat]
      /\ seqno' \in [Jobs -> Nat] /\ lastSeqno' \in [Queues -> Nat]
      /\ \A k \in Jobs : k # j \/ seqno[j] # 0 => seqno'[k] = seqno[k]
      /\ seqno[j] = 0 => seqno'[j] = lastSeqno["frag"] + 1 /\ lastSeqno'["frag"] = lastSeqno["frag"] + 1
      /\ \A q \in Queues : lastSeqno[q] <= lastSeqno'[q]
      /\ seqno'[j] # 0
  <2>1. seqno \in [Jobs -> Nat] /\ lastSeqno \in [Queues -> Nat]
    BY DEF IInv, TypeOK
  <2>2. CASE seqno[j] # 0
    BY <1>3, <1>4, <2>1, <2>2
  <2>3. CASE seqno[j] = 0
    BY <1>3, <1>4, <2>1, <2>3
  <2> QED
    BY <2>2, <2>3
<1>7. \A k \in Jobs : seqno[k] # 0 => seqno'[k] = seqno[k]
  BY <1>6
<1>8. /\ FenceOk' /\ SpaceOk'
      /\ cccbFence' \in [Jobs -> {"fresh", "waiting", "gone"}]
      /\ waiter' \in [job : Jobs \cup {NoJob}, size : Nat]
      /\ waitsFor' \in [Queues -> Jobs \cup {NoJob}]
      /\ ready' \in [Queues -> BOOLEAN]
      /\ \A k \in Queues : k # "frag" => ready'[k] = ready[k]
      /\ \A k \in Jobs : cccbFence[k] = "gone" => cccbFence'[k] = "gone"
      /\ ready'["frag"] => cccbFence'[j] = "gone"
  <2> DEFINE bail == FALSE
  <2>1. bail \in BOOLEAN /\ ~bail /\ GetCccbFence("frag", j, {}, bail)
    BY <1>3
  <2> HIDE DEF bail
  <2> QED
    BY <1>1, <1>4, <1>5, <1>6, <1>7, <2>1, SpaceSought
<1>9. SchedOk' /\ CommandsOk' /\ DoneOk'
  BY <1>1, SchedSame, CommandsSame, DoneSame DEF IInv
<1>10. ExecutedOk'
  BY <1>1, <1>7, SeqnoKeepsExecuted
<1>11. TypeOK'
  BY <1>1, <1>6, <1>8 DEF IInv, TypeOK, SubsOk, LastFragOf, IsChained, Kind
<1>12. Submitted' = Submitted /\ \A k : WithGeometry(k)' <=> WithGeometry(k)
  BY <1>1, SubSame
<1>13. SeqnoOk'
  <2>1. CASE seqno[j] # 0
    BY <1>1, <1>3, <2>1, SeqnoSame DEF IInv
  <2>2. CASE seqno[j] = 0
    <3>1. ASSUME NEW k \in Jobs, seqno'[k] # 0
          PROVE  k \in Submitted /\ seqno'[k] <= lastSeqno'[Queue(k)]
      <4>1. CASE k = j
        BY <1>4, <1>6, <2>2, <4>1
      <4>2. CASE k # j
        <5>1. k \in Submitted /\ seqno[k] <= lastSeqno[Queue(k)] /\ seqno'[k] = seqno[k] /\ Queue(k) \in Queues
          BY <1>6, <3>1, <4>2, JobFacts DEF IInv, SeqnoOk
        <5> QED
          BY <1>6, <5>1
      <4> QED
        BY <4>1, <4>2
    <3>2. \A k \in scheduled : seqno'[k] # 0
      BY <1>7 DEF IInv, SeqnoOk, SchedOk, Submitted
    <3>3. \A k \in Submitted : WithGeometry(k) => (seqno'[k] = 0 <=> seqno'[GeomOf(k)] = 0)
      <4> SUFFICES ASSUME NEW k \in Submitted, WithGeometry(k)
                   PROVE  seqno'[k] = 0 <=> seqno'[GeomOf(k)] = 0
        OBVIOUS
      <4>1. k \in Jobs /\ GeomOf(k) \in Jobs /\ Queue(GeomOf(k)) = "geom"
        BY JobFacts DEF Submitted
      <4>2. k # j /\ GeomOf(k) # j
        BY <1>3, <1>4, <4>1
      <4> QED
        BY <1>6, <4>1, <4>2 DEF IInv, SeqnoOk
    <3>4. ASSUME NEW k \in Jobs, seqno[k] # 0, Queue(k) = "frag"
          PROVE  Rank(k) < Rank(j) /\ seqno[k] < seqno'[j]
      <4>1. k \in Submitted /\ seqno[k] <= lastSeqno["frag"] /\ k # j
        BY <2>2, <3>4 DEF IInv, SeqnoOk
      <4>2. seqno[k] < seqno'[j]
        BY <1>4, <1>6, <2>2, <4>1
      <4>3. ~(Rank(j) < Rank(k))
        <5>0. SUFFICES ASSUME Rank(j) < Rank(k) PROVE FALSE
          OBVIOUS
        <5>1. WithGeometry(k)
          BY <1>4, <3>4, <5>0 DEF IInv, SeqnoOk
        <5>2. j[1] < k[1] \/ (j[1] = k[1] /\ j[2] # "f")
          BY <1>4, <5>0, RankFacts
        <5>3. CASE j[1] < k[1]
          <6>1. GeomOf(k) \in Jobs /\ GeomOf(k)[1] = k[1] /\ seqno[GeomOf(k)] # 0
            BY <3>4, <4>1, <5>1, JobFacts DEF IInv, SeqnoOk
          <6> QED
            BY <1>4, <5>3, <6>1 DEF IInv, SeqnoOk
        <5>4. CASE j[2] # "f"
          BY <1>3, <1>4, <5>4, JobFacts DEF WithGeometry
        <5> QED
          BY <5>2, <5>3, <5>4
      <4> QED
        BY <1>4, <3>4, <4>1, <4>2, <4>3, RankFacts
    <3>5. ASSUME NEW i \in Jobs, NEW k \in Jobs, seqno'[i] # 0, seqno'[k] # 0, Queue(i) = Queue(k),
                 Rank(i) < Rank(k)
          PROVE  seqno'[i] < seqno'[k]
      <4>1. CASE i = j
        <5>1. k # j
          BY <1>4, <3>5, <4>1, RankFacts
        <5>2. Rank(k) < Rank(j)
          BY <1>4, <1>6, <3>4, <3>5, <4>1, <5>1
        <5> QED
          BY <3>5, <4>1, <5>2, RankFacts
      <4>2. CASE i # j /\ k = j
        BY <1>4, <1>6, <3>4, <3>5, <4>2
      <4>3. CASE i # j /\ k # j
        BY <1>6, <3>5, <4>3 DEF IInv, SeqnoOk
      <4> QED
        BY <4>1, <4>2, <4>3
    <3>6. ASSUME NEW i \in Jobs, NEW k \in Submitted, seqno'[i] # 0,
                 \/ Queue(k) = "frag" /\ k[1] < i[1]
                 \/ Queue(k) = Queue(i) /\ Rank(k) < Rank(i) /\ ~WithGeometry(i)
          PROVE  k \in scheduled
      <4>1. CASE i = j
        <5>1. Queue(k) = "frag" /\ Rank(k) < Rank(j) /\ k \in Jobs
          BY <1>4, <3>6, <4>1, RankFacts DEF Submitted
        <5>2. k # j /\ ~(Rank(j) < Rank(k))
          BY <1>4, <5>1, RankFacts
        <5> QED
          BY <1>4, <5>1, <5>2
      <4>2. CASE i # j
        BY <1>6, <3>6, <4>2 DEF IInv, SeqnoOk
      <4> QED
        BY <4>1, <4>2
    <3> QED
      BY <1>1, <1>12, <3>1, <3>2, <3>3, <3>5, <3>6 DEF SeqnoOk
  <2> QED
    BY <2>1, <2>2
<1>14. ReadyOk'
  <2>1. ready'.geom => /\ entity.geom # <<>> /\ seqno'[Head(entity.geom)] # 0
                       /\ cccbFence'[PairedOf(Head(entity.geom))] = "gone"
    <3> SUFFICES ASSUME ready'["geom"]
                 PROVE  /\ entity.geom # <<>> /\ seqno'[Head(entity.geom)] # 0
                        /\ cccbFence'[PairedOf(Head(entity.geom))] = "gone"
      OBVIOUS
    <3>1. ready.geom /\ "geom" \in Queues
      BY <1>8 DEF Queues
    <3>2. entity.geom # <<>> /\ seqno[Head(entity.geom)] # 0
          /\ cccbFence[PairedOf(Head(entity.geom))] = "gone"
      BY <3>1 DEF IInv, ReadyOk
    <3>3. Head(entity["geom"]) \in Jobs /\ PairedOf(Head(entity["geom"])) \in Jobs
      BY <3>1, <3>2, FirstOfQueue, JobFacts
    <3> QED
      BY <1>7, <1>8, <3>2, <3>3
  <2>2. ~WithGeometry(j)'
    BY <1>3, <1>12
  <2>3. j = Head(entity'.frag) /\ entity'.frag # <<>>
    BY <1>1, <1>2
  <2>4. ~WithGeometry(Head(entity.frag))'
    BY <2>2, <2>3 DEF WithGeometry, IsChained
  <2> QED
    BY <1>1, <1>6, <1>8, <2>1, <2>3, <2>4 DEF ReadyOk
<1> QED
  BY <1>8, <1>9, <1>10, <1>11, <1>13, <1>14 DEF IInv

\* The geometry job at the head of its queue: what has been initialised and
\* run when it is the first to be prepared.
LEMMA GeomFirst ==
  ASSUME IInv, entity["geom"] # <<>>, NEW j, j = Head(entity["geom"]), seqno[j] = 0
  PROVE  /\ seqno[PairedOf(j)] = 0 /\ seqno[ChainedOf(j)] = 0
         /\ \A k \in Jobs : seqno[k] # 0 => k[1] < j[1] \/ (k[1] = j[1] /\ k \notin {j, PairedOf(j), ChainedOf(j)})
         /\ \A k \in Jobs : seqno[k] # 0 => k[1] < j[1]
<1>1. /\ j \in Submitted /\ j \in Jobs /\ Queue(j) = "geom" /\ j \notin scheduled
      /\ j[1] \in Nat /\ j = <<j[1], j[2]>> /\ j[2] = "g"
  <2>1. "geom" \in Queues
    BY DEF Queues
  <2>2. j \in Submitted /\ j \in Jobs /\ Queue(j) = "geom" /\ j \notin scheduled
    BY <2>1, FirstOfQueue
  <2> QED
    BY <2>2, JobFacts
<1>2. /\ PairedOf(j) \in Jobs /\ PairedOf(j)[1] = j[1] /\ PairedOf(j)[2] = "p" /\ Queue(PairedOf(j)) = "frag"
      /\ ChainedOf(j) \in Jobs /\ ChainedOf(j)[1] = j[1] /\ ChainedOf(j)[2] = "f" /\ Queue(ChainedOf(j)) = "frag"
      /\ GeomOf(PairedOf(j)) = j /\ GeomOf(ChainedOf(j)) = j
  <2>1. /\ PairedOf(j) \in Jobs /\ PairedOf(j)[1] = j[1] /\ PairedOf(j)[2] = "p"
        /\ ChainedOf(j) \in Jobs /\ ChainedOf(j)[1] = j[1] /\ ChainedOf(j)[2] = "f"
    BY <1>1, JobFacts
  <2>2. Queue(PairedOf(j)) = "frag" /\ Queue(ChainedOf(j)) = "frag"
    BY <2>1 DEF Queue
  <2>3. GeomOf(PairedOf(j)) = j /\ GeomOf(ChainedOf(j)) = j
    BY <1>1, <2>1 DEF GeomOf
  <2> QED
    BY <2>1, <2>2, <2>3
<1>3. PairedOf(j) \in Submitted /\ PairedOf(j) \notin scheduled
  <2>1. SubsOk
    BY DEF IInv, TypeOK
  <2>2. PairedOf(j) \in Submitted
    BY <1>1, <2>1, Family
  <2>3. WithGeometry(PairedOf(j))
    BY <1>2 DEF WithGeometry
  <2> QED
    BY <1>1, <1>2, <2>2, <2>3 DEF IInv, SchedOk
<1>4. seqno[PairedOf(j)] = 0
  BY <1>2, <1>3 DEF IInv, SeqnoOk, WithGeometry
\* A fragment job of this submission or a later one needs j, or its pair.
<1>5. ASSUME NEW k \in Jobs, seqno[k] # 0, Queue(k) = "frag"
      PROVE  k[1] < j[1]
  <2>1. k \in Submitted
    BY <1>5 DEF IInv, SeqnoOk
  <2>2. k # PairedOf(j)
    BY <1>4, <1>5
  <2>3. CASE WithGeometry(k)
    <3>1. GeomOf(k) \in Jobs /\ Queue(GeomOf(k)) = "geom" /\ GeomOf(k)[1] = k[1] /\ GeomOf(k)[2] = "g"
          /\ seqno[GeomOf(k)] # 0
      BY <1>5, <2>1, <2>3, JobFacts DEF IInv, SeqnoOk
    <3>2. GeomOf(k) # j /\ ~WithGeometry(GeomOf(k))
      BY <1>1, <3>1 DEF WithGeometry
    <3>3. ~(Rank(j) < Rank(GeomOf(k)))
      BY <1>1, <3>1, <3>2 DEF IInv, SeqnoOk
    <3>4. ~(j[1] < GeomOf(k)[1])
      BY <1>1, <3>1, <3>3, RankFacts
    <3>5. k[1] # j[1]
      BY <1>1, <3>1, <3>2 DEF GeomOf
    <3> QED
      BY <1>1, <1>5, <3>1, <3>4, <3>5, JobFacts
  <2>4. CASE ~WithGeometry(k)
    <3>1. ~(Rank(PairedOf(j)) < Rank(k))
      BY <1>2, <1>3, <1>5, <2>4 DEF IInv, SeqnoOk
    <3>2. ~(j[1] < k[1])
      BY <1>2, <1>5, <3>1, RankFacts
    <3>3. k[1] # j[1]
      <4> SUFFICES ASSUME k[1] = j[1] PROVE FALSE
        OBVIOUS
      <4>1. k = <<k[1], k[2]>> /\ k[2] = "f"
        BY <1>5, <2>4, JobFacts DEF WithGeometry
      <4>2. Rank(PairedOf(j)) < Rank(k)
        BY <1>1, <1>2, <4>1 DEF Rank
      <4> QED
        BY <3>1, <4>2
    <3> QED
      BY <1>1, <1>5, <3>2, <3>3, JobFacts
  <2> QED
    BY <2>3, <2>4
<1>6. ASSUME NEW k \in Jobs, seqno[k] # 0, Queue(k) = "geom"
      PROVE  k[1] < j[1]
  <2>1. k = <<k[1], k[2]>> /\ k[2] = "g" /\ k # j /\ k[1] \in Nat
    BY <1>6, JobFacts
  <2>2. ~WithGeometry(k) /\ k[1] # j[1]
    BY <1>1, <2>1 DEF WithGeometry
  <2>3. ~(Rank(j) < Rank(k))
    BY <1>1, <1>6, <2>2 DEF IInv, SeqnoOk
  <2>4. ~(j[1] < k[1])
    BY <1>1, <2>3, RankFacts
  <2> QED
    BY <1>1, <2>1, <2>2, <2>4
<1>7. \A k \in Jobs : seqno[k] # 0 => k[1] < j[1]
  BY <1>5, <1>6, JobFacts DEF Queues
<1>8. seqno[ChainedOf(j)] = 0
  BY <1>1, <1>2, <1>7
<1> QED
  BY <1>4, <1>7, <1>8

\* When a geometry job may be prepared, the fragment jobs of all earlier
\* submissions have been run.
LEMMA EarlierFragsRun ==
  ASSUME IInv, NEW j \in Submitted, sub[j[1]].after \in scheduled \cup {NoJob}
  PROVE  \A k \in Submitted : Queue(k) = "frag" /\ k[1] < j[1] => k \in scheduled
<1> SUFFICES ASSUME NEW k \in Submitted, Queue(k) = "frag", k[1] < j[1], k \notin scheduled
             PROVE  FALSE
  OBVIOUS
<1> DEFINE n == j[1]  m == j[1] - 1  last == LastFragOf(m)
<1>1. SubsOk /\ n \in 1 .. Len(sub) /\ n \in Nat /\ k \in Jobs /\ k[1] \in 1 .. Len(sub) /\ k[1] \in Nat
  <2>1. SubsOk
    BY DEF IInv, TypeOK
  <2> QED
    BY <2>1, Family, JobFacts
<1>2. n # 1 /\ m \in 1 .. Len(sub) /\ m \in Nat /\ k[1] <= m
  BY <1>1
<1>3. m \in 1 .. MaxSubmits
  <2>1. Len(sub) \in Nat /\ Len(sub) <= MaxSubmits
    BY <1>1, LenProperties DEF SubsOk
  <2> QED
    BY <1>2, <2>1, FragQueueAssumption
<1>4. sub[n].after = last
  BY <1>1, <1>2 DEF SubsOk
<1>5. last \in Jobs /\ Queue(last) = "frag" /\ last[1] = m /\ last[2] \in {"p", "f"}
      /\ (last[2] = "p" <=> Kind(m) = "pair")
  BY <1>3 DEF LastFragOf, Jobs, Queue
<1>6. last \in scheduled
  BY <1>4, <1>5, FragQueueAssumption
<1> HIDE DEF last, m, n
<1>7. Rank(last) < Rank(k)
  BY <1>5, <1>6 DEF IInv, SchedOk
<1>8. k[1] = m /\ last[2] # "f" /\ k[2] = "f"
  <2>1. last[1] < k[1] \/ (last[1] = k[1] /\ last[2] # "f" /\ k[2] = "f")
    BY <1>1, <1>5, <1>7, RankFacts
  <2> QED
    BY <1>1, <1>2, <1>5, <2>1
<1>9. Kind(m) = "pair" /\ "f" \in JobsOfKind(Kind(m))
  BY <1>5, <1>8 DEF Submitted
<1> QED
  BY <1>9 DEF JobsOfKind

\* Preparing a geometry job and the fragment job it carries preserves the invariant.
LEMMA PrepareGeomKeeps ==
  ASSUME IInv, PrepareGeom
  PROVE  IInv'
<1>1. UNCHANGED <<sub, deps, entity, scheduled, pending, inFlight, signaled,
                  listened, finished, ring, geomRing, timeline, executed, event>>
      /\ Preparing("geom") /\ entity["geom"] # <<>>
  BY DEF PrepareGeom, doneVars, fwVars, Preparing
<1>2. PICK j : j = Head(entity["geom"])
  OBVIOUS
<1> DEFINE n == j[1]  p == PairedOf(j)  f == ChainedOf(j)
           freed == IF IsChained(n) THEN {f} ELSE {}
           last == lastSeqno.frag
<1>3. /\ sub[n].after \in scheduled \cup {NoJob}
      /\ IF seqno[j] # 0
         THEN UNCHANGED <<seqno, lastSeqno>>
         ELSE /\ seqno' = [k \in Jobs |->
                             IF k = j THEN lastSeqno.geom + 1
                             ELSE IF k = p THEN PairSeqnos(n, last)[1]
                             ELSE IF k = f THEN PairSeqnos(n, last)[2]
                             ELSE seqno[k]]
              /\ lastSeqno' = [geom |-> lastSeqno.geom + 1,
                               frag |-> last + IF IsChained(n) THEN 2 ELSE 1]
      /\ GetCccbFence("geom", p, freed, FALSE)
  BY <1>2, Zenon DEF PrepareGeom
<1>4. /\ j \in Submitted /\ j \in Jobs /\ Queue(j) = "geom" /\ "geom" \in Queues /\ j \notin scheduled
      /\ \A k \in Submitted : Queue(k) = "geom" /\ k \notin scheduled /\ k # j => Rank(j) < Rank(k)
  BY <1>1, <1>2, FirstOfQueue DEF Queues
<1>5. /\ j[1] \in Nat /\ j = <<j[1], j[2]>> /\ j[2] = "g"
      /\ p \in Jobs /\ p[1] = j[1] /\ p[2] = "p" /\ Queue(p) = "frag"
      /\ f \in Jobs /\ f[1] = j[1] /\ f[2] = "f" /\ Queue(f) = "frag"
      /\ GeomOf(p) = j /\ GeomOf(f) = j /\ p # j /\ f # j /\ p # f
  <2> HIDE DEF p, f
  <2>1. /\ j[1] \in Nat /\ j = <<j[1], j[2]>> /\ j[2] = "g"
        /\ p \in Jobs /\ p[1] = j[1] /\ p[2] = "p"
        /\ f \in Jobs /\ f[1] = j[1] /\ f[2] = "f"
    BY <1>4, JobFacts DEF p, f
  <2>2. GeomOf(p) = j /\ GeomOf(f) = j
    BY <2>1 DEF GeomOf
  <2>3. Queue(p) = "frag" /\ Queue(f) = "frag"
    BY <2>1 DEF Queue
  <2> QED
    BY <2>1, <2>2, <2>3
<1>6. /\ p \in Submitted /\ (IsChained(n) => f \in Submitted) /\ IsChained(n) \in BOOLEAN
      /\ WithGeometry(p) /\ (WithGeometry(f) <=> IsChained(n))
  <2>1. SubsOk
    BY DEF IInv, TypeOK
  <2>2. p \in Submitted /\ (IsChained(n) => f \in Submitted) /\ IsChained(n) \in BOOLEAN
    BY <1>4, <1>5, <2>1, Family
  <2>3. WithGeometry(p) /\ (WithGeometry(f) <=> IsChained(n))
    BY <1>5 DEF WithGeometry
  <2> QED
    BY <2>2, <2>3
<1>7. SeeksFor("geom", p, freed)
  <2>1. \A k \in freed : k \in Submitted /\ ~Owner(k) /\ GeomOf(k) \notin scheduled
    BY <1>4, <1>5, <1>6 DEF Owner
  <2> QED
    BY <1>2, <1>5, <1>6, <2>1 DEF SeeksFor
<1>8. /\ seqno \in [Jobs -> Nat] /\ lastSeqno \in [Queues -> Nat]
      /\ lastSeqno["geom"] \in Nat /\ last \in Nat
  BY DEF IInv, TypeOK, Queues
<1>9. ASSUME seqno[j] = 0
      PROVE  /\ seqno' = [k \in Jobs |-> IF k = j THEN lastSeqno["geom"] + 1
                                         ELSE IF k = p THEN last + 1
                                         ELSE IF k = f THEN IF IsChained(n) THEN last + 2 ELSE 0
                                         ELSE seqno[k]]
             /\ lastSeqno' = [geom |-> lastSeqno["geom"] + 1,
                              frag |-> last + IF IsChained(n) THEN 2 ELSE 1]
             /\ seqno[p] = 0 /\ seqno[f] = 0
             /\ \A k \in Jobs : seqno[k] # 0 => k[1] < j[1]
  <2>1. PairSeqnos(n, last)[1] = last + 1 /\ PairSeqnos(n, last)[2] = IF IsChained(n) THEN last + 2 ELSE 0
    BY DEF PairSeqnos
  <2>2. seqno[p] = 0 /\ seqno[f] = 0 /\ \A k \in Jobs : seqno[k] # 0 => k[1] < j[1]
    BY <1>1, <1>2, <1>9, GeomFirst
  <2> HIDE DEF n, p, f, last
  <2> QED
    BY <1>3, <1>9, <2>1, <2>2
<1>20. GetCccbFence("geom", p, freed, FALSE) /\ sub[n].after \in scheduled \cup {NoJob}
       /\ (seqno[j] # 0 => UNCHANGED <<seqno, lastSeqno>>)
  BY <1>3
<1> HIDE DEF p, f, last, freed
<1>10. /\ seqno' \in [Jobs -> Nat] /\ lastSeqno' \in [Queues -> Nat]
       /\ \A k \in Jobs : seqno[k] # 0 => seqno'[k] = seqno[k]
       /\ \A k \in Jobs : k \notin {j, p, f} => seqno'[k] = seqno[k]
       /\ \A q \in Queues : lastSeqno[q] <= lastSeqno'[q]
  <2>1. CASE seqno[j] # 0
    BY <1>8, <1>20, <2>1 DEF Queues
  <2>2. CASE seqno[j] = 0
    <3>1. seqno' \in [Jobs -> Nat] /\ lastSeqno' \in [Queues -> Nat]
      BY <1>6, <1>8, <1>9, <2>2 DEF Queues
    <3>2. \A q \in Queues : lastSeqno[q] <= lastSeqno'[q]
      BY <1>6, <1>8, <1>9, <2>2 DEF Queues, last
    <3>3. \A k \in Jobs : k \notin {j, p, f} => seqno'[k] = seqno[k]
      BY <1>9, <2>2
    <3>4. \A k \in Jobs : seqno[k] # 0 => seqno'[k] = seqno[k]
      BY <1>9, <2>2, <3>3
    <3> QED
      BY <3>1, <3>2, <3>3, <3>4
  <2> QED
    BY <2>1, <2>2
<1>11. seqno'[j] # 0 /\ seqno'[p] # 0
  <2>1. CASE seqno[j] # 0
    <3>1. seqno[p] # 0
      BY <1>5, <1>6, <2>1 DEF IInv, SeqnoOk
    <3> QED
      BY <1>4, <1>5, <1>10, <2>1, <3>1
  <2>2. CASE seqno[j] = 0
    BY <1>4, <1>5, <1>8, <1>9, <2>2
  <2> QED
    BY <2>1, <2>2
<1>12. /\ FenceOk' /\ SpaceOk'
       /\ cccbFence' \in [Jobs -> {"fresh", "waiting", "gone"}]
       /\ waiter' \in [job : Jobs \cup {NoJob}, size : Nat]
       /\ waitsFor' \in [Queues -> Jobs \cup {NoJob}]
       /\ ready' \in [Queues -> BOOLEAN]
       /\ \A k \in Queues : k # "geom" => ready'[k] = ready[k]
       /\ \A k \in Jobs : cccbFence[k] = "gone" => cccbFence'[k] = "gone"
       /\ ready'["geom"] => cccbFence'[p] = "gone"
  <2> DEFINE bail == FALSE
  <2>1. bail \in BOOLEAN /\ ~bail /\ GetCccbFence("geom", p, freed, bail)
    BY <1>20
  <2>2. \A k \in Jobs : seqno[k] # 0 => seqno'[k] # 0
    BY <1>10
  <2> HIDE DEF bail
  <2> QED
    BY <1>1, <1>4, <1>7, <1>11, <2>1, <2>2, SpaceSought
<1>13. SchedOk' /\ CommandsOk' /\ DoneOk'
  BY <1>1, SchedSame, CommandsSame, DoneSame DEF IInv
<1>14. ExecutedOk'
  BY <1>1, <1>10, SeqnoKeepsExecuted
<1>15. TypeOK'
  BY <1>1, <1>10, <1>12 DEF IInv, TypeOK, SubsOk, LastFragOf, IsChained, Kind
<1>16. Submitted' = Submitted /\ \A k : WithGeometry(k)' <=> WithGeometry(k)
  BY <1>1, SubSame
<1>17. SeqnoOk'
  <2>1. CASE seqno[j] # 0
    BY <1>1, <1>20, <2>1, SeqnoSame DEF IInv
  <2>2. CASE seqno[j] = 0
    <3>0. /\ seqno'[j] = lastSeqno["geom"] + 1 /\ lastSeqno'["geom"] = lastSeqno["geom"] + 1
          /\ seqno'[p] = last + 1
          /\ seqno'[f] = (IF IsChained(n) THEN last + 2 ELSE 0)
          /\ lastSeqno'["frag"] = last + (IF IsChained(n) THEN 2 ELSE 1)
      BY <1>4, <1>5, <1>9, <2>2
    <3>1. ASSUME NEW k \in Jobs, seqno'[k] # 0
          PROVE  k \in Submitted /\ seqno'[k] <= lastSeqno'[Queue(k)]
      <4>1. CASE k = j
        BY <1>4, <1>8, <3>0, <4>1
      <4>2. CASE k = p
        BY <1>5, <1>6, <1>8, <3>0, <4>2
      <4>3. CASE k = f
        BY <1>5, <1>6, <1>8, <3>0, <3>1, <4>3
      <4>4. CASE k \notin {j, p, f}
        <5>1. seqno'[k] = seqno[k] /\ Queue(k) \in Queues
          BY <1>10, <4>4, JobFacts
        <5>2. k \in Submitted /\ seqno[k] <= lastSeqno[Queue(k)]
          BY <3>1, <5>1 DEF IInv, SeqnoOk
        <5> QED
          BY <1>8, <1>10, <5>1, <5>2
      <4> QED
        BY <4>1, <4>2, <4>3, <4>4
    <3>2. \A k \in scheduled : seqno'[k] # 0
      BY <1>10 DEF IInv, SeqnoOk, SchedOk, Submitted
    <3>3. ASSUME NEW k \in Submitted, WithGeometry(k)
          PROVE  seqno'[k] = 0 <=> seqno'[GeomOf(k)] = 0
      <4>1. /\ k \in Jobs /\ GeomOf(k) \in Jobs /\ GeomOf(k)[1] = k[1] /\ GeomOf(k)[2] = "g"
            /\ k[2] # "g" /\ k = <<k[1], k[2]>> /\ k[2] \in {"g", "p", "f"}
        BY <3>3, JobFacts DEF Submitted, WithGeometry
      <4>2. CASE k \in {p, f}
        BY <1>5, <1>6, <1>8, <1>11, <3>0, <3>3, <4>2
      <4>3. CASE k \notin {p, f}
        <5>1. k # j /\ GeomOf(k) # p /\ GeomOf(k) # f
          BY <1>5, <4>1
        <5>2. GeomOf(k) # j
          <6> SUFFICES ASSUME GeomOf(k) = j PROVE FALSE
            OBVIOUS
          <6>1. k[1] = j[1] /\ (k[2] = "p" \/ k[2] = "f")
            BY <4>1
          <6> QED
            BY <4>1, <4>3, <6>1 DEF p, f, PairedOf, ChainedOf
        <5> QED
          BY <1>10, <3>3, <4>1, <4>3, <5>1, <5>2 DEF IInv, SeqnoOk
      <4> QED
        BY <4>2, <4>3
    <3>4. ASSUME NEW k \in Jobs, k \notin {j, p, f}, seqno'[k] # 0
          PROVE  /\ seqno'[k] = seqno[k] /\ seqno[k] # 0 /\ k[1] < j[1] /\ seqno[k] \in Nat
                 /\ Rank(k) < Rank(j) /\ Rank(k) < Rank(p) /\ Rank(k) < Rank(f)
                 /\ Queue(k) \in Queues /\ seqno[k] <= lastSeqno[Queue(k)]
      <4>1. seqno'[k] = seqno[k] /\ seqno[k] # 0 /\ Queue(k) \in Queues /\ seqno[k] \in Nat
        BY <1>8, <1>10, <3>4, JobFacts
      <4>2. k[1] < j[1]
        BY <1>9, <2>2, <4>1
      <4>3. Rank(k) < Rank(j) /\ Rank(k) < Rank(p) /\ Rank(k) < Rank(f)
        BY <1>4, <1>5, <4>2, RankFacts
      <4> QED
        BY <4>1, <4>2, <4>3 DEF IInv, SeqnoOk
    <3>5. ASSUME NEW i \in Jobs, NEW k \in Jobs, seqno'[i] # 0, seqno'[k] # 0, Queue(i) = Queue(k),
                 Rank(i) < Rank(k)
          PROVE  seqno'[i] < seqno'[k]
      <4>0. /\ Rank(i) \in Nat /\ Rank(k) \in Nat /\ Rank(j) \in Nat /\ Rank(p) \in Nat /\ Rank(f) \in Nat
            /\ Rank(p) < Rank(f) /\ i # k
        <5>1. Rank(p) < Rank(f)
          BY <1>5 DEF Rank
        <5> QED
          BY <1>4, <1>5, <3>5, <5>1, RankFacts
      <4>1. CASE i \notin {j, p, f} /\ k \notin {j, p, f}
        <5>1. seqno[i] < seqno[k]
          BY <3>4, <3>5, <4>1 DEF IInv, SeqnoOk
        <5> QED
          BY <3>4, <3>5, <4>1, <5>1
      <4>2. CASE i \notin {j, p, f} /\ k = j
        BY <1>4, <1>8, <3>0, <3>4, <3>5, <4>2
      <4>3. CASE i \notin {j, p, f} /\ k \in {p, f}
        <5>1. seqno'[i] <= last /\ seqno'[i] \in Nat
          BY <1>5, <3>4, <3>5, <4>3 DEF last
        <5> QED
          BY <1>6, <1>8, <3>0, <3>5, <4>3, <5>1
      <4>4. CASE i \in {j, p, f} /\ k \notin {j, p, f}
        BY <3>4, <3>5, <4>0, <4>4
      <4>5. CASE i \in {j, p, f} /\ k \in {j, p, f}
        <5>1. i = p /\ k = f
          BY <1>4, <1>5, <3>5, <4>0, <4>5
        <5> QED
          BY <1>6, <1>8, <3>0, <3>5, <5>1
      <4> QED
        BY <4>1, <4>2, <4>3, <4>4, <4>5
    <3>6. ASSUME NEW i \in Jobs, NEW k \in Submitted, seqno'[i] # 0,
                 \/ Queue(k) = "frag" /\ k[1] < i[1]
                 \/ Queue(k) = Queue(i) /\ Rank(k) < Rank(i) /\ ~WithGeometry(i)
          PROVE  k \in scheduled
      <4>1. CASE i \notin {j, p, f}
        BY <3>4, <3>6, <4>1 DEF IInv, SeqnoOk
      <4>2. CASE i \in {j, p, f}
        <5>1. \A m \in Submitted : Queue(m) = "frag" /\ m[1] < j[1] => m \in scheduled
          BY <1>4, <1>20, EarlierFragsRun
        <5>2. CASE Queue(k) = "frag" /\ k[1] < i[1]
          BY <1>5, <4>2, <5>1, <5>2
        <5>3. CASE Queue(k) = Queue(i) /\ Rank(k) < Rank(i) /\ ~WithGeometry(i)
          <6>1. i = j
            <7>1. i # p
              BY <1>6, <5>3
            <7>2. i = f => ~IsChained(n)
              BY <1>6, <5>3
            <7>3. i # f
              BY <1>6, <3>0, <3>6, <7>2
            <7> QED
              BY <4>2, <7>1, <7>3
          <6>2. Queue(k) = "geom" /\ k # j /\ ~(Rank(j) < Rank(k)) /\ k \in Jobs
            BY <1>4, <5>3, <6>1, RankFacts DEF Submitted
          <6> QED
            BY <1>4, <6>2
        <5> QED
          BY <3>6, <5>2, <5>3
      <4> QED
        BY <4>1, <4>2
    <3> QED
      BY <1>1, <1>16, <3>1, <3>2, <3>3, <3>5, <3>6 DEF SeqnoOk
  <2> QED
    BY <2>1, <2>2
<1>18. ReadyOk'
  <2>1. j = Head(entity'.geom) /\ entity'.geom # <<>>
    BY <1>1, <1>2
  <2>2. ready'.geom => /\ seqno'[Head(entity'.geom)] # 0
                       /\ cccbFence'[PairedOf(Head(entity'.geom))] = "gone"
    BY <1>11, <1>12, <2>1 DEF p
  <2>3. ready'.frag => /\ entity.frag # <<>>
                       /\ LET k == Head(entity.frag)
                          IN  IF WithGeometry(k) THEN GeomOf(k) \in scheduled
                              ELSE seqno'[k] # 0 /\ cccbFence'[k] = "gone"
    <3> SUFFICES ASSUME ready'["frag"]
                 PROVE  /\ entity.frag # <<>>
                        /\ LET k == Head(entity.frag)
                           IN  IF WithGeometry(k) THEN GeomOf(k) \in scheduled
                               ELSE seqno'[k] # 0 /\ cccbFence'[k] = "gone"
      OBVIOUS
    <3>1. ready.frag /\ "frag" \in Queues
      BY <1>12 DEF Queues
    <3>2. /\ entity.frag # <<>>
          /\ LET k == Head(entity.frag)
             IN  IF WithGeometry(k) THEN GeomOf(k) \in scheduled
                 ELSE seqno[k] # 0 /\ cccbFence[k] = "gone"
      BY <3>1 DEF IInv, ReadyOk
    <3>3. Head(entity["frag"]) \in Jobs
      BY <3>1, <3>2, FirstOfQueue
    <3> QED
      BY <1>10, <1>12, <3>2, <3>3
  <2>4. WithGeometry(Head(entity.frag))' <=> WithGeometry(Head(entity.frag))
    BY <1>1 DEF WithGeometry, IsChained
  <2> QED
    BY <1>1, <2>1, <2>2, <2>3, <2>4 DEF ReadyOk
<1> QED
  BY <1>12, <1>13, <1>14, <1>15, <1>17, <1>18 DEF IInv

-----------------------------------------------------------------------------
(* run_job.                                                                *)

\* What prepare_job found out about the job that is run.
LEMMA ReadyJob ==
  ASSUME IInv, NEW q \in Queues, ready[q]
  PROVE  /\ entity[q] # <<>> /\ seqno[Head(entity[q])] # 0
         /\ q = "geom" => cccbFence[PairedOf(Head(entity[q]))] = "gone"
         /\ q = "frag" => IF WithGeometry(Head(entity[q])) THEN GeomOf(Head(entity[q])) \in scheduled
                          ELSE cccbFence[Head(entity[q])] = "gone"
<1>1. CASE q = "geom"
  BY <1>1 DEF IInv, ReadyOk
<1>2. CASE q = "frag"
  <2>1. PICK j : j = Head(entity[q])
    OBVIOUS
  <2>2. /\ entity[q] # <<>>
        /\ IF WithGeometry(j) THEN GeomOf(j) \in scheduled ELSE seqno[j] # 0 /\ cccbFence[j] = "gone"
    BY <1>2, <2>1 DEF IInv, ReadyOk
  <2>3. j \in Submitted
    BY <2>1, <2>2, FirstOfQueue
  <2>4. seqno[j] # 0
    BY <2>2, <2>3 DEF IInv, SeqnoOk
  <2> QED
    BY <1>2, <2>1, <2>2, <2>4
<1> QED
  BY <1>1, <1>2 DEF Queues

\* What running a job does, other than writing commands.
LEMMA RanKeeps ==
  ASSUME IInv, NEW q \in Queues, ready[q], NEW j, j = Head(entity[q]), NEW written, Ran(q, j, written)
  PROVE  /\ SchedOk' /\ SeqnoOk' /\ FenceOk' /\ ReadyOk' /\ DoneOk'
         /\ (geomRing' \in Seq(Jobs) => TypeOK')
         /\ scheduled' = scheduled \cup {j}
         /\ j \in Submitted /\ j \in Jobs /\ Queue(j) = q /\ j \notin scheduled
         /\ UNCHANGED <<sub, deps, waitsFor, cccbFence, waiter, seqno, lastSeqno, signaled, finished,
                        timeline, executed, event>>
<1>1. /\ entity' = [entity EXCEPT ![q] = Tail(@)]
      /\ ready' = [ready EXCEPT ![q] = FALSE]
      /\ scheduled' = scheduled \cup {j}
      /\ pending' = [pending EXCEPT ![q] = Append(@, j)]
      /\ listened' = listened \cup {j}
      /\ UNCHANGED <<sub, deps, waitsFor, cccbFence, waiter, seqno, lastSeqno, signaled, finished,
                     timeline, executed, event>>
  BY DEF Ran, fenceVars
<1>2. /\ entity[q] # <<>> /\ seqno[j] # 0
      /\ q = "frag" /\ WithGeometry(j) => GeomOf(j) \in scheduled
  BY ReadyJob
<1>3. /\ j \in Submitted /\ j \in Jobs /\ Queue(j) = q /\ j \notin scheduled
      /\ Tail(entity[q]) \in Seq(Jobs)
      /\ Lists(Tail(entity[q]), (OfQueue(q) \ scheduled) \ {j})
      /\ \A k \in Submitted : Queue(k) = q /\ k \notin scheduled /\ k # j => Rank(j) < Rank(k)
  BY <1>2, FirstOfQueue
<1>4. /\ entity \in [Queues -> Seq(Jobs)] /\ ready \in [Queues -> BOOLEAN]
      /\ pending \in [Queues -> Seq(Jobs)] /\ scheduled \subseteq Jobs
  BY DEF IInv, TypeOK
<1>5. /\ \A r \in Queues : entity'[r] = IF r = q THEN Tail(entity[q]) ELSE entity[r]
      /\ \A r \in Queues : ready'[r] = IF r = q THEN FALSE ELSE ready[r]
      /\ \A r \in Queues : pending'[r] = IF r = q THEN Append(pending[q], j) ELSE pending[r]
  BY <1>1, <1>4
<1>6. /\ Submitted' = Submitted /\ \A r : OfQueue(r)' = OfQueue(r)
      /\ \A k : /\ WithGeometry(k)' <=> WithGeometry(k)
                /\ Owner(k)' <=> Owner(k)
                /\ SequenceSize(k)' = SequenceSize(k)
  BY <1>1, SubSame, SizeSame
<1>7. WithGeometry(j) => GeomOf(j) \in scheduled
  <2>1. q = "geom" => ~WithGeometry(j)
    BY <1>3, JobFacts DEF WithGeometry
  <2> QED
    BY <1>2, <2>1 DEF Queues
<1>8. SchedOk'
  <2>1. scheduled' \subseteq Submitted
    BY <1>1, <1>3 DEF IInv, SchedOk
  <2>2. ASSUME NEW r \in Queues
        PROVE  Lists(entity'[r], OfQueue(r) \ scheduled')
    <3>1. CASE r = q
      <4>1. OfQueue(q) \ scheduled' = (OfQueue(q) \ scheduled) \ {j}
        BY <1>1
      <4> QED
        BY <1>3, <1>5, <3>1, <4>1
    <3>2. CASE r # q
      <4>1. j \notin OfQueue(r)
        BY <1>3, <3>2 DEF OfQueue
      <4>2. OfQueue(r) \ scheduled' = OfQueue(r) \ scheduled
        BY <1>1, <4>1
      <4> QED
        BY <1>5, <3>2, <4>2 DEF IInv, SchedOk
    <3> QED
      BY <3>1, <3>2
  <2>3. \A i \in scheduled', k \in Submitted \ scheduled' : Queue(i) = Queue(k) => Rank(i) < Rank(k)
    BY <1>1, <1>3 DEF IInv, SchedOk
  <2>4. \A i \in scheduled' : WithGeometry(i) => GeomOf(i) \in scheduled'
    BY <1>1, <1>7 DEF IInv, SchedOk
  <2>5. \A r \in Queues : Lists(entity[r], OfQueue(r) \ scheduled)'
    BY <1>6, <2>2 DEF Lists, Ascending, Elems
  <2> QED
    BY <1>6, <2>1, <2>3, <2>4, <2>5 DEF SchedOk
<1>9. SeqnoOk'
  BY <1>1, <1>2, <1>6 DEF IInv, SeqnoOk
<1>10. FenceOk'
  <2>1. /\ \A k \in Jobs : cccbFence'[k] # "fresh" => k \in Submitted'
        /\ \A k \in Submitted' : Queue(k) = "frag" /\ Owner(k)' /\ cccbFence'[k] # "fresh" => seqno'[k] # 0
    BY <1>1, <1>6 DEF IInv, FenceOk
  <2>2. ASSUME waiter'.job # NoJob
        PROVE  (/\ waiter.job \in Submitted /\ Queue(waiter.job) = "frag"
                /\ cccbFence[waiter.job] = "waiting"
                /\ SequenceSize(waiter.job) <= waiter.size
                /\ \E r \in Queues :
                     /\ waitsFor[r] = waiter.job /\ entity[r] # <<>> /\ ~ready[r]
                     /\ IF r = "geom" THEN waiter.job = PairedOf(Head(entity.geom))
                        ELSE /\ waiter.job = Head(entity.frag)
                             /\ WithGeometry(waiter.job) => GeomOf(waiter.job) \in scheduled)'
    <3>1. PICK w : w = waiter.job /\ w = waiter'.job
      BY <1>1
    <3>2. /\ w \in Submitted /\ Queue(w) = "frag" /\ cccbFence[w] = "waiting"
          /\ SequenceSize(w) <= waiter.size
      BY <2>2, <3>1 DEF IInv, FenceOk
    <3>3. PICK r \in Queues :
              /\ waitsFor[r] = w /\ entity[r] # <<>> /\ ~ready[r]
              /\ IF r = "geom" THEN w = PairedOf(Head(entity.geom))
                 ELSE /\ w = Head(entity.frag)
                      /\ WithGeometry(w) => GeomOf(w) \in scheduled
      BY <2>2, <3>1 DEF IInv, FenceOk
    <3>4. r # q /\ (r = "geom" \/ r = "frag")
      BY <3>3 DEF Queues
    <3>5. /\ waitsFor'[r] = w /\ entity'[r] # <<>> /\ ~ready'[r]
          /\ IF r = "geom" THEN w = PairedOf(Head(entity'.geom))
             ELSE /\ w = Head(entity'.frag)
                  /\ WithGeometry(w)' => GeomOf(w) \in scheduled'
      BY <1>1, <1>5, <1>6, <3>3, <3>4
    <3>6. SequenceSize(waiter.job)' = SequenceSize(w)'
      BY <3>1 DEF SequenceSize, Combinable, IsChained
    <3>7. WithGeometry(waiter.job)' <=> WithGeometry(w)'
      BY <3>1 DEF WithGeometry, IsChained
    <3>8. SequenceSize(w)' <= waiter'.size
      BY <1>1, <1>6, <3>2
    <3>9. w \in Submitted' /\ cccbFence'[w] = "waiting"
      BY <1>1, <1>6, <3>2
    <3> QED
      BY <3>1, <3>2, <3>3, <3>5, <3>6, <3>7, <3>8, <3>9
  <2> QED
    BY <2>1, <2>2 DEF FenceOk
<1>11. ReadyOk'
  <2>1. ready'.geom => /\ entity'.geom # <<>> /\ seqno'[Head(entity'.geom)] # 0
                       /\ cccbFence'[PairedOf(Head(entity'.geom))] = "gone"
    BY <1>1, <1>5 DEF IInv, ReadyOk, Queues
  <2>2. ASSUME ready'["frag"]
        PROVE  /\ entity'.frag # <<>>
               /\ LET k == Head(entity'.frag)
                  IN  IF WithGeometry(k) THEN GeomOf(k) \in scheduled'
                      ELSE seqno'[k] # 0 /\ cccbFence'[k] = "gone"
    <3>1. ready.frag /\ entity'.frag = entity.frag
      BY <1>5, <2>2 DEF Queues
    <3>2. PICK k : k = Head(entity.frag)
      OBVIOUS
    <3>3. /\ entity.frag # <<>>
          /\ IF WithGeometry(k) THEN GeomOf(k) \in scheduled
             ELSE seqno[k] # 0 /\ cccbFence[k] = "gone"
      BY <3>1, <3>2 DEF IInv, ReadyOk
    <3>4. IF WithGeometry(k) THEN GeomOf(k) \in scheduled'
          ELSE seqno'[k] # 0 /\ cccbFence'[k] = "gone"
      BY <1>1, <3>3
    <3> QED
      BY <3>1, <3>2, <3>3, <3>4
  <2>3. PICK k : k = Head(entity'.frag)
    OBVIOUS
  <2>4. (WithGeometry(k)' <=> WithGeometry(k)) /\ (WithGeometry(Head(entity.frag))' <=> WithGeometry(k)')
    BY <1>6, <2>3 DEF WithGeometry, IsChained
  <2> QED
    BY <2>1, <2>2, <2>3, <2>4 DEF ReadyOk
<1>12. DoneOk' /\ pending' \in [Queues -> Seq(Jobs)]
  <2>1. listened' = scheduled' /\ signaled' = finished' /\ finished' \subseteq executed' \cap scheduled'
    BY <1>1 DEF IInv, DoneOk
  <2>2. ASSUME NEW r \in Queues
        PROVE  pending'[r] \in Seq(Jobs) /\ Lists(pending'[r], {k \in scheduled' : Queue(k) = r} \ finished)
    <3> DEFINE S == {k \in scheduled : Queue(k) = r} \ finished
    <3>1. pending[r] \in Seq(Jobs) /\ Lists(pending[r], S)
      BY DEF IInv, TypeOK, DoneOk
    <3>2. CASE r = q
      <4>1. {k \in scheduled' : Queue(k) = r} \ finished = S \cup {j}
        BY <1>1, <1>3, <3>2 DEF IInv, DoneOk
      <4>2. \A k \in S : Rank(k) < Rank(j)
        BY <1>3, <3>2 DEF IInv, SchedOk
      <4>3. Append(pending[r], j) \in Seq(Jobs) /\ Lists(Append(pending[r], j), S \cup {j})
        <5> HIDE DEF S
        <5> QED
          BY <1>3, <3>1, <4>2, ListsAppend
      <4> QED
        BY <1>5, <3>2, <4>1, <4>3
    <3>3. CASE r # q
      <4>1. {k \in scheduled' : Queue(k) = r} \ finished = S
        BY <1>1, <1>3, <3>3
      <4> QED
        BY <1>5, <3>1, <3>3, <4>1
    <3> QED
      BY <3>2, <3>3
  <2>3. \A r \in Queues : Lists(pending[r], {k \in scheduled : Queue(k) = r} \ finished)'
    BY <1>1, <2>2 DEF Lists, Ascending, Elems
  <2>4. \A i \in finished', k \in Submitted' :
         Queue(k) = Queue(i) /\ Rank(k) < Rank(i) => k \in finished'
    BY <1>1, <1>6 DEF IInv, DoneOk
  <2>5. pending' \in [Queues -> Seq(Jobs)]
    <3>1. pending' = [r \in Queues |-> pending'[r]]
      BY <1>1, <1>4
    <3> QED
      BY <2>2, <3>1
  <2> QED
    BY <2>1, <2>3, <2>4, <2>5 DEF DoneOk
<1>13. geomRing' \in Seq(Jobs) => TypeOK'
  <2>1. entity' \in [Queues -> Seq(Jobs)] /\ ready' \in [Queues -> BOOLEAN] /\ scheduled' \subseteq Jobs
    BY <1>1, <1>3, <1>4
  <2> QED
    BY <1>1, <1>12, <2>1 DEF IInv, TypeOK, SubsOk, LastFragOf, IsChained, Kind
<1> QED
  BY <1>1, <1>3, <1>8, <1>9, <1>10, <1>11, <1>12, <1>13

\* Running a fragment job already written with its geometry preserves the invariant.
LEMMA RunWithGeometryKeeps ==
  ASSUME IInv, RunWithGeometry
  PROVE  IInv'
<1>1. PICK j : j = Head(entity["frag"])
  OBVIOUS
<1>2. "frag" \in Queues /\ ready["frag"] /\ WithGeometry(j) /\ Ran("frag", j, {})
      /\ UNCHANGED <<ring, geomRing>>
  BY <1>1 DEF RunWithGeometry, Queues
<1>3. /\ SchedOk' /\ SeqnoOk' /\ FenceOk' /\ ReadyOk' /\ DoneOk'
      /\ (geomRing' \in Seq(Jobs) => TypeOK')
      /\ scheduled' = scheduled \cup {j}
      /\ j \in Submitted /\ j \in Jobs /\ Queue(j) = "frag" /\ j \notin scheduled
      /\ UNCHANGED <<sub, deps, cccbFence, seqno, timeline, executed>>
  BY <1>1, <1>2, RanKeeps
<1>4. TypeOK'
  BY <1>2, <1>3 DEF IInv, TypeOK
<1>5. /\ Submitted' = Submitted
      /\ \A k : /\ WithGeometry(k)' <=> WithGeometry(k)
                /\ Owner(k)' <=> Owner(k)
                /\ Carrier(k)' = Carrier(k)
                /\ SequenceSize(k)' = SequenceSize(k)
  BY <1>3, SubSame, SizeSame
<1>6. \A k \in Jobs : GeomOf(k) \in scheduled' <=> GeomOf(k) \in scheduled
  <2>1. \A k \in Jobs : Queue(GeomOf(k)) = "geom"
    BY JobFacts
  <2> QED
    BY <1>3, <2>1
<1>7. \A k : IsWritten(k)' <=> IsWritten(k)
  BY <1>2, <1>3, <1>5, <1>6 DEF IsWritten, Submitted
<1>8. \A k \in Submitted : Owner(k) => (Written(k)' <=> Written(k))
  BY <1>2, <1>3, <1>6 DEF Written, Owner, Submitted
<1>9. SpaceOk'
  <2>1. RingOk(ring)' /\ ~ring'.dropped
    BY <1>2 DEF IInv, SpaceOk, RingOk
  <2>2. \A k \in Submitted' : Queue(k) = "frag" /\ Owner(k)' /\ cccbFence'[k] = "gone" /\ ~Written(k)'
             => FitsIn(ring', SequenceSize(k)')
    BY <1>2, <1>3, <1>5, <1>8 DEF IInv, SpaceOk
  <2> QED
    BY <2>1, <2>2 DEF SpaceOk, FitsIn, Used, Gap, Cost, Wraps
<1>10. CommandsOk'
  <2>1. {k \in scheduled' : Queue(k) = "geom"} = {k \in scheduled : Queue(k) = "geom"}
    BY <1>3
  <2>2. Lists(geomRing, {k \in scheduled' : Queue(k) = "geom"} \ executed)
    BY <2>1 DEF IInv, CommandsOk
  <2>3. Lists(geomRing, {k \in scheduled : Queue(k) = "geom"} \ executed)'
    BY <1>2, <1>3, <2>2 DEF Lists, Ascending, Elems
  <2>4. /\ InPlace(ring.cmds)
        /\ \A c \in Elems(ring.cmds) : c.op # "pad" =>
             /\ IsWritten(c.job)'
             /\ c.op # "wait" => Carrier(c.job)' = c.job
    BY <1>5, <1>7 DEF IInv, CommandsOk
  <2>5. \A k \in Submitted : IsWritten(k)' /\ k \notin executed =>
           \E c \in Elems(ring.cmds) : c.op = "cmd" /\ c.job = Carrier(k)'
    BY <1>5, <1>7 DEF IInv, CommandsOk
  <2>6. \A k \in scheduled' : Queue(k) = "geom" /\ k \notin executed =>
           \E c \in Elems(ring.cmds) : c.op = "wait" /\ c.job = PairedOf(k)
    BY <1>3 DEF IInv, CommandsOk
  <2> QED
    BY <1>2, <1>3, <1>5, <2>3, <2>4, <2>5, <2>6 DEF CommandsOk
<1>11. ExecutedOk'
  <2>1. \A k \in executed : IF Queue(k) = "geom" THEN k \in scheduled' ELSE IsWritten(k)'
    BY <1>3, <1>7 DEF IInv, ExecutedOk
  <2> QED
    BY <1>2, <1>3, <1>5, <2>1 DEF IInv, ExecutedOk
<1> QED
  BY <1>3, <1>4, <1>9, <1>10, <1>11 DEF IInv

\* Only one sequence of commands at a time has found space and is not written.
LEMMA OneOwner ==
  ASSUME IInv, NEW j \in Submitted, NEW k \in Submitted, j # k,
         Queue(j) = "frag", Owner(j), cccbFence[j] = "gone",
         Queue(k) = "frag", Owner(k), cccbFence[k] = "gone"
  PROVE  Written(j) \/ Written(k)
<1>1. j \in Jobs /\ k \in Jobs /\ seqno[j] # 0 /\ seqno[k] # 0
  BY DEF IInv, FenceOk, Submitted
<1>2. \A i \in Submitted : i \in scheduled => Written(i)
  BY DEF IInv, SchedOk, Written, WithGeometry
<1>3. ASSUME NEW a \in {j, k}, NEW b \in {j, k}, Rank(a) < Rank(b)
      PROVE  Written(a)
  <2>1. a[1] < b[1] \/ (a[1] = b[1] /\ b[2] = "f")
    BY <1>1, <1>3, RankFacts
  <2>2. a \in scheduled
    <3>1. CASE b[2] = "p"
      BY <1>1, <2>1, <3>1 DEF IInv, SeqnoOk
    <3>2. CASE b[2] # "p"
      BY <1>1, <1>3, <3>2 DEF Owner, IInv, SeqnoOk
    <3> QED
      BY <3>1, <3>2
  <2> QED
    BY <1>2, <2>2
<1>4. Rank(j) < Rank(k) \/ Rank(k) < Rank(j)
  BY <1>1, RankFacts
<1> QED
  BY <1>3, <1>4

\* A sequence of commands, for jobs of which none was written before, is
\* written in the space that was found for it.
LEMMA WriteKeeps ==
  ASSUME IInv, NEW j \in Submitted, Queue(j) = "frag", Owner(j), cccbFence[j] = "gone",
         ~Written(j), Written(j)',
         NEW s \in Seq(Cmds), Sums(s, SequenceSize(j)), InPlace(s), Write(s), NEW J,
         \A c \in Elems(s) : c.op # "pad" /\ c.job \in J,
         \A k \in J : k \in Submitted /\ Queue(k) = "frag" /\ ~IsWritten(k),
         \A k \in Submitted : IsWritten(k)' <=> IsWritten(k) \/ k \in J,
         scheduled \subseteq scheduled',
         UNCHANGED <<sub, deps, cccbFence, seqno, timeline, executed>>
  PROVE  /\ SpaceOk' /\ ExecutedOk' /\ InPlace(ring'.cmds)
         /\ \A c \in Elems(ring'.cmds) :
              c \in Cmds /\ (c.op # "pad" => c \in Elems(ring.cmds) \/ c \in Elems(s))
         /\ \A c \in Elems(ring.cmds) \cup Elems(s) : c.op # "pad" => c \in Elems(ring'.cmds)
<1>1. /\ Submitted' = Submitted
      /\ \A k : /\ Owner(k)' <=> Owner(k)
                /\ SequenceSize(k)' = SequenceSize(k)
  BY SubSame, SizeSame
<1>2. /\ RingOk(ring) /\ ring \in Rings /\ ring.cmds \in Seq(Cmds) /\ InPlace(ring.cmds) /\ ~ring.dropped
  BY DEF IInv, SpaceOk, RingOk, CommandsOk, Rings
<1>3. j \in Jobs /\ SequenceSize(j) \in Nat
  <2>1. deps \in [Jobs -> Nat] /\ j \in Jobs
    BY DEF IInv, TypeOK, Submitted
  <2>2. deps' \in [Jobs -> Nat] /\ \A k \in Jobs : deps'[k] <= deps[k]
    BY <2>1
  <2> QED
    BY <2>1, <2>2, SequenceSizeLess
<1>4. Fits(SequenceSize(j))
  <2>1. FitsIn(ring, SequenceSize(j))
    BY DEF IInv, SpaceOk
  <2> QED
    BY <1>2, <1>3, <2>1, FitsIs
<1>5. ASSUME NEW i, IsWritten(i), NEW k \in J
      PROVE  i \in Jobs /\ k \in Jobs /\ Rank(i) < Rank(k)
  <2>1. /\ i \in Submitted /\ i \in Jobs /\ Queue(i) = "frag"
        /\ k \in Submitted /\ k \in Jobs /\ Queue(k) = "frag" /\ ~IsWritten(k)
    BY <1>5 DEF IsWritten, Submitted
  <2>2. ~(Rank(k) < Rank(i))
    BY <1>5, <2>1, WrittenDown
  <2> QED
    BY <1>5, <2>1, <2>2, RankFacts
<1>6. ASSUME NEW c \in Elems(ring.cmds), c.op # "pad", NEW d \in Elems(s)
      PROVE  Follows(c, d)
  <2>1. IsWritten(c.job) /\ d.job \in J
    BY <1>6 DEF IInv, CommandsOk
  <2>2. Rank(c.job) < Rank(d.job) /\ Rank(c.job) \in Nat /\ Rank(d.job) \in Nat
    BY <1>5, <2>1, RankFacts
  <2> QED
    BY <2>2 DEF Follows, Place
<1>7. /\ RingOk(ring') /\ ring'.dropped = ring.dropped
      /\ InPlace(ring'.cmds)
      /\ \A d \in Cmds : d.op # "pad" =>
           (d \in Elems(ring'.cmds) <=> d \in Elems(ring.cmds) \/ d \in Elems(s))
  <2>1. \A i \in 1 .. Len(s) : s[i].op # "pad"
    BY DEF Elems
  <2>2. \A i \in 1 .. Len(ring.cmds), k \in 1 .. Len(s) :
           ring.cmds[i].op # "pad" => Follows(ring.cmds[i], s[k])
    BY <1>6 DEF Elems
  <2> QED
    BY <1>2, <1>3, <1>4, <2>1, <2>2, WriteAll
<1>8. \A t \in Seq(Cmds) : Elems(t) \subseteq Cmds
  <2> SUFFICES ASSUME NEW t \in Seq(Cmds), NEW i \in 1 .. Len(t) PROVE t[i] \in Cmds
    BY DEF Elems
  <2> QED
    BY ElementOfSeq
<1>9. ring' \in Rings /\ ring'.cmds \in Seq(Cmds)
  BY <1>7 DEF RingOk, Rings
<1>10. /\ \A c \in Elems(ring'.cmds) :
              c \in Cmds /\ (c.op # "pad" => c \in Elems(ring.cmds) \/ c \in Elems(s))
       /\ \A c \in Elems(ring.cmds) \cup Elems(s) : c.op # "pad" => c \in Elems(ring'.cmds)
  BY <1>2, <1>7, <1>8, <1>9
<1>11. SpaceOk'
  <2>1. RingOk(ring)' /\ ~ring'.dropped
    BY <1>2, <1>7 DEF RingOk
  <2>2. ASSUME NEW k \in Submitted, Queue(k) = "frag", Owner(k), cccbFence[k] = "gone", ~Written(k)'
        PROVE  FALSE
    <3>1. k # j
      BY <2>2
    <3>2. Written(k) => Written(k)'
      BY DEF Written
    <3> QED
      BY <2>2, <3>1, <3>2, OneOwner
  <2>3. \A k \in Submitted' : Queue(k) = "frag" /\ Owner(k)' /\ cccbFence'[k] = "gone" /\ ~Written(k)'
             => FitsIn(ring', SequenceSize(k)')
    BY <1>1, <2>2
  <2> QED
    BY <2>1, <2>3 DEF SpaceOk, FitsIn, Used, Gap, Cost, Wraps
<1>12. ExecutedOk'
  <2>1. \A k \in executed : IF Queue(k) = "geom" THEN k \in scheduled ELSE IsWritten(k)
    BY DEF IInv, ExecutedOk
  <2>2. \A k \in executed : IF Queue(k) = "geom" THEN k \in scheduled' ELSE IsWritten(k)'
    BY <2>1 DEF IsWritten
  <2>3. ASSUME NEW q \in Queues, timeline[q] # 0
        PROVE  \E k \in executed :
                 /\ Queue(k) = q /\ seqno[k] = timeline[q]
                 /\ q = "frag" => \A c \in Elems(ring'.cmds) : c.op = "update" => Rank(k) < Rank(c.job)
    <3>1. PICK k \in executed :
                 /\ Queue(k) = q /\ seqno[k] = timeline[q]
                 /\ q = "frag" => \A c \in Elems(ring.cmds) : c.op = "update" => Rank(k) < Rank(c.job)
      BY <2>3 DEF IInv, ExecutedOk
    <3>2. ASSUME q = "frag", NEW c \in Elems(ring'.cmds), c.op = "update"
          PROVE  Rank(k) < Rank(c.job)
      <4>1. CASE c \in Elems(ring.cmds)
        BY <3>1, <3>2, <4>1
      <4>2. CASE c \in Elems(s)
        BY <1>5, <2>1, <3>1, <3>2, <4>2
      <4> QED
        BY <1>10, <3>2, <4>1, <4>2
    <3> QED
      BY <3>1, <3>2
  <2>4. \A i \in executed, k \in Submitted : Queue(k) = Queue(i) /\ Rank(k) < Rank(i) => k \in executed
    BY DEF IInv, ExecutedOk
  <2> QED
    BY <1>1, <2>2, <2>3, <2>4 DEF ExecutedOk
<1> QED
  BY <1>7, <1>10, <1>11, <1>12

\* Running a fragment job, which writes its commands, preserves the invariant.
LEMMA RunFragKeeps ==
  ASSUME IInv, RunFrag
  PROVE  IInv'
<1>1. PICK j : j = Head(entity["frag"])
  OBVIOUS
<1> DEFINE s == JobCmds(j)
<1>2. /\ "frag" \in Queues /\ ready["frag"] /\ ~WithGeometry(j) /\ Write(s)
      /\ Ran("frag", j, {j}) /\ UNCHANGED geomRing
  BY <1>1 DEF RunFrag, Queues
<1>3. /\ SchedOk' /\ SeqnoOk' /\ FenceOk' /\ ReadyOk' /\ DoneOk'
      /\ (geomRing' \in Seq(Jobs) => TypeOK')
      /\ scheduled' = scheduled \cup {j}
      /\ j \in Submitted /\ j \in Jobs /\ Queue(j) = "frag" /\ j \notin scheduled
      /\ UNCHANGED <<sub, deps, cccbFence, seqno, timeline, executed>>
  BY <1>1, <1>2, RanKeeps
<1>4. TypeOK'
  BY <1>2, <1>3 DEF IInv, TypeOK
<1>5. cccbFence[j] = "gone"
  BY <1>1, <1>2, ReadyJob
<1>6. /\ Submitted' = Submitted
      /\ \A k : /\ WithGeometry(k)' <=> WithGeometry(k)
                /\ Carrier(k)' = Carrier(k)
  BY <1>3, SubSame
<1>7. j[2] # "p" /\ Owner(j) /\ ~Written(j) /\ Written(j)' /\ ~IsWritten(j) /\ Carrier(j) = j
  BY <1>2, <1>3, JobFacts DEF WithGeometry, Owner, Written, IsWritten, Carrier
<1>8. \A k \in Jobs : GeomOf(k) \in scheduled' <=> GeomOf(k) \in scheduled
  <2>1. \A k \in Jobs : Queue(GeomOf(k)) = "geom"
    BY JobFacts
  <2> QED
    BY <1>3, <2>1
<1>9. \A k \in Submitted : IsWritten(k)' <=> IsWritten(k) \/ k \in {j}
  BY <1>2, <1>3, <1>6, <1>8 DEF IsWritten, Submitted
<1>10. /\ s \in Seq(Cmds) /\ Sums(s, SequenceSize(j)) /\ InPlace(s) /\ CmdOf(j) \in Elems(s)
       /\ \A c \in Elems(s) : c \in {WaitOf(j), CmdOf(j), UpdateOf(j)}
  <2>1. deps[j] \in Nat
    BY <1>3 DEF IInv, TypeOK
  <2>2. SequenceSize(j) = JobCmdsSize(deps[j])
    BY <1>7 DEF SequenceSize
  <2> QED
    BY <1>3, <2>1, <2>2, JobCmdsShape
<1>11. \A c \in Elems(s) : c.op # "pad" /\ c.job = j
  BY <1>10 DEF WaitOf, CmdOf, UpdateOf
<1> HIDE DEF s
<1>12. /\ SpaceOk' /\ ExecutedOk' /\ InPlace(ring'.cmds)
       /\ \A c \in Elems(ring'.cmds) :
            c \in Cmds /\ (c.op # "pad" => c \in Elems(ring.cmds) \/ c \in Elems(s))
       /\ \A c \in Elems(ring.cmds) \cup Elems(s) : c.op # "pad" => c \in Elems(ring'.cmds)
  <2> DEFINE J == {j}
  <2>1. \A c \in Elems(s) : c.op # "pad" /\ c.job \in J
    BY <1>11
  <2>2. \A k \in J : k \in Submitted /\ Queue(k) = "frag" /\ ~IsWritten(k)
    BY <1>3, <1>7
  <2>3. \A k \in Submitted : IsWritten(k)' <=> IsWritten(k) \/ k \in J
    BY <1>9
  <2>4. scheduled \subseteq scheduled'
    BY <1>3
  <2> HIDE DEF J
  <2> QED
    BY <1>2, <1>3, <1>5, <1>7, <1>10, <2>1, <2>2, <2>3, <2>4, WriteKeeps
<1>13. CommandsOk'
  <2>1. {k \in scheduled' : Queue(k) = "geom"} = {k \in scheduled : Queue(k) = "geom"}
    BY <1>3
  <2>2. Lists(geomRing, {k \in scheduled' : Queue(k) = "geom"} \ executed)
    BY <2>1 DEF IInv, CommandsOk
  <2>3. Lists(geomRing, {k \in scheduled : Queue(k) = "geom"} \ executed)'
    BY <1>2, <1>3, <2>2 DEF Lists, Ascending, Elems
  <2>4. ASSUME NEW c \in Elems(ring'.cmds), c.op # "pad"
        PROVE  IsWritten(c.job)' /\ (c.op # "wait" => Carrier(c.job)' = c.job)
    <3>1. CASE c \in Elems(ring.cmds)
      <4>1. IsWritten(c.job) /\ c.job \in Submitted /\ (c.op # "wait" => Carrier(c.job) = c.job)
        BY <2>4, <3>1 DEF IInv, CommandsOk, IsWritten
      <4> QED
        BY <1>6, <1>9, <4>1
    <3>2. CASE c \in Elems(s)
      BY <1>3, <1>6, <1>7, <1>9, <1>11, <3>2
    <3> QED
      BY <1>12, <2>4, <3>1, <3>2
  <2>5. ASSUME NEW k \in Submitted, IsWritten(k)', k \notin executed
        PROVE  \E c \in Elems(ring'.cmds) : c.op = "cmd" /\ c.job = Carrier(k)'
    <3>1. CASE IsWritten(k)
      <4>1. PICK c \in Elems(ring.cmds) : c.op = "cmd" /\ c.job = Carrier(k)
        BY <2>5, <3>1 DEF IInv, CommandsOk
      <4> QED
        BY <1>6, <1>12, <4>1
    <3>2. CASE k = j
      BY <1>6, <1>7, <1>10, <1>12, <3>2 DEF CmdOf
    <3> QED
      BY <1>9, <2>5, <3>1, <3>2
  <2>6. ASSUME NEW k \in scheduled', Queue(k) = "geom", k \notin executed
        PROVE  \E c \in Elems(ring'.cmds) : c.op = "wait" /\ c.job = PairedOf(k)
    <3>1. PICK c \in Elems(ring.cmds) : c.op = "wait" /\ c.job = PairedOf(k)
      BY <1>3, <2>6 DEF IInv, CommandsOk
    <3> QED
      BY <1>12, <3>1
  <2> QED
    BY <1>3, <1>6, <1>12, <2>3, <2>4, <2>5, <2>6 DEF CommandsOk
<1> QED
  BY <1>3, <1>4, <1>12, <1>13 DEF IInv

\* Running a geometry job, which writes both jobs' commands, preserves the invariant.
LEMMA RunGeomKeeps ==
  ASSUME IInv, RunGeom
  PROVE  IInv'
<1>1. PICK j : j = Head(entity["geom"])
  OBVIOUS
<1>2. PICK p : p = PairedOf(j)
  OBVIOUS
<1>3. PICK f : f = ChainedOf(j)
  OBVIOUS
<1> DEFINE s == PairCmds(p)  n == j[1]
           written == {j, PairedOf(j)} \cup (IF IsChained(n) THEN {ChainedOf(j)} ELSE {})
<1>4. /\ "geom" \in Queues /\ ready["geom"] /\ Write(s)
      /\ Ran("geom", j, written) /\ geomRing' = Append(geomRing, j)
  BY <1>1, <1>2 DEF RunGeom, Queues
<1> HIDE DEF written
<1>5. /\ SchedOk' /\ SeqnoOk' /\ FenceOk' /\ ReadyOk' /\ DoneOk'
      /\ (geomRing' \in Seq(Jobs) => TypeOK')
      /\ scheduled' = scheduled \cup {j}
      /\ j \in Submitted /\ j \in Jobs /\ Queue(j) = "geom" /\ j \notin scheduled
      /\ UNCHANGED <<sub, deps, cccbFence, seqno, timeline, executed>>
  BY <1>1, <1>4, RanKeeps
<1>6. cccbFence[p] = "gone"
  BY <1>1, <1>2, <1>4, ReadyJob
<1>7. /\ j = <<j[1], j[2]>> /\ j[2] = "g"
      /\ p \in Jobs /\ p[1] = n /\ p[2] = "p" /\ f \in Jobs /\ f[1] = n /\ f[2] = "f"
      /\ ChainedOf(p) = f
  <2>1. /\ j = <<j[1], j[2]>> /\ j[2] = "g"
        /\ p \in Jobs /\ p[1] = n /\ p[2] = "p" /\ f \in Jobs /\ f[1] = n /\ f[2] = "f"
    BY <1>2, <1>3, <1>5, JobFacts
  <2> QED
    BY <1>3, <2>1 DEF ChainedOf
<1>8. Queue(p) = "frag" /\ Queue(f) = "frag" /\ GeomOf(p) = j /\ GeomOf(f) = j /\ p # f
  BY <1>7 DEF Queue, GeomOf
<1>9. /\ p \in Submitted /\ IsChained(n) \in BOOLEAN /\ (IsChained(n) => f \in Submitted)
      /\ (Combinable(n) => IsChained(n))
  <2>1. SubsOk
    BY DEF IInv, TypeOK
  <2> QED
    BY <1>2, <1>3, <1>5, <1>7, <2>1, Family
<1>10. /\ Submitted' = Submitted
       /\ \A k : /\ WithGeometry(k)' <=> WithGeometry(k)
                 /\ Carrier(k)' = Carrier(k)
  BY <1>5, SubSame
<1>11. WithGeometry(p) /\ (WithGeometry(f) <=> IsChained(n)) /\ Carrier(f) = f
       /\ Carrier(p) = IF Combinable(n) THEN f ELSE p
  BY <1>7 DEF WithGeometry, Carrier
<1>12. Owner(p) /\ ~Written(p) /\ Written(p)'
  BY <1>5, <1>7, <1>8 DEF Owner, Written
<1> DEFINE J == {p} \cup (IF IsChained(n) THEN {f} ELSE {})
<1>13. \A k \in J : k \in Submitted /\ Queue(k) = "frag" /\ ~IsWritten(k) /\ WithGeometry(k) /\ GeomOf(k) = j
  BY <1>5, <1>8, <1>9, <1>11 DEF IsWritten
<1>14. \A k \in Submitted : IsWritten(k)' <=> IsWritten(k) \/ k \in J
  <2> SUFFICES ASSUME NEW k \in Submitted PROVE IsWritten(k)' <=> IsWritten(k) \/ k \in J
    OBVIOUS
  <2>1. /\ k \in Jobs /\ k = <<k[1], k[2]>> /\ k[2] \in {"g", "p", "f"}
        /\ GeomOf(k)[1] = k[1]
    BY JobFacts DEF Submitted
  <2>2. CASE Queue(k) = "frag" /\ WithGeometry(k) /\ GeomOf(k) = j
    <3>1. k \in J
      <4>1. k[1] = n /\ (k[2] = "p" \/ k[2] = "f")
        BY <2>1, <2>2 DEF WithGeometry
      <4>2. p = <<n, "p">> /\ f = <<n, "f">>
        BY <1>2, <1>3 DEF PairedOf, ChainedOf
      <4>3. k = p \/ k = f
        BY <2>1, <4>1, <4>2
      <4> QED
        BY <1>11, <2>2, <4>3
    <3> QED
      BY <1>5, <1>10, <2>2, <3>1 DEF IsWritten
  <2>3. CASE ~(Queue(k) = "frag" /\ WithGeometry(k) /\ GeomOf(k) = j)
    <3>1. k \notin J
      BY <1>13, <2>3
    <3>2. Queue(k) = "frag" => k # j
      BY <1>5
    <3> QED
      BY <1>5, <1>10, <2>3, <3>1, <3>2 DEF IsWritten
  <2> QED
    BY <2>2, <2>3
<1>15. /\ s \in Seq(Cmds) /\ Sums(s, SequenceSize(p)) /\ InPlace(s) /\ WaitOf(p) \in Elems(s)
       /\ ~Combinable(n) => CmdOf(p) \in Elems(s)
       /\ IsChained(n) => CmdOf(f) \in Elems(s)
       /\ \A c \in Elems(s) :
            \/ c = WaitOf(p)
            \/ ~Combinable(n) /\ c \in {CmdOf(p), UpdateOf(p)}
            \/ IsChained(n) /\ c \in {WaitOf(f), CmdOf(f), UpdateOf(f)}
  <2>1. deps \in [Jobs -> Nat]
    BY DEF IInv, TypeOK
  <2> QED
    BY <1>7, <2>1, PairCmdsShape
<1>16. \A c \in Elems(s) : c.op # "pad" /\ c.job \in J /\ (c.op # "wait" => Carrier(c.job) = c.job)
  BY <1>11, <1>15 DEF WaitOf, CmdOf, UpdateOf
<1> HIDE DEF s, J
<1>17. /\ SpaceOk' /\ ExecutedOk' /\ InPlace(ring'.cmds)
       /\ \A c \in Elems(ring'.cmds) :
            c \in Cmds /\ (c.op # "pad" => c \in Elems(ring.cmds) \/ c \in Elems(s))
       /\ \A c \in Elems(ring.cmds) \cup Elems(s) : c.op # "pad" => c \in Elems(ring'.cmds)
  <2>1. scheduled \subseteq scheduled'
    BY <1>5
  <2> QED
    BY <1>4, <1>5, <1>6, <1>8, <1>9, <1>12, <1>13, <1>14, <1>15, <1>16, <2>1, WriteKeeps
<1>18. /\ geomRing' \in Seq(Jobs)
       /\ Lists(geomRing', {k \in scheduled' : Queue(k) = "geom"} \ executed)
  <2> DEFINE S == {k \in scheduled : Queue(k) = "geom"} \ executed
  <2>1. geomRing \in Seq(Jobs) /\ Lists(geomRing, S)
    BY DEF IInv, TypeOK, CommandsOk
  <2>2. {k \in scheduled' : Queue(k) = "geom"} \ executed = S \cup {j}
    BY <1>5 DEF IInv, ExecutedOk
  <2>3. \A k \in S : Rank(k) < Rank(j)
    BY <1>5 DEF IInv, SchedOk
  <2>4. Append(geomRing, j) \in Seq(Jobs) /\ Lists(Append(geomRing, j), S \cup {j})
    <3> HIDE DEF S
    <3> QED
      BY <1>5, <2>1, <2>3, ListsAppend
  <2> QED
    BY <1>4, <2>2, <2>4
<1>19. CommandsOk'
  <2>3. Lists(geomRing, {k \in scheduled : Queue(k) = "geom"} \ executed)'
    BY <1>5, <1>18 DEF Lists, Ascending, Elems
  <2>4. ASSUME NEW c \in Elems(ring'.cmds), c.op # "pad"
        PROVE  IsWritten(c.job)' /\ (c.op # "wait" => Carrier(c.job)' = c.job)
    <3>1. CASE c \in Elems(ring.cmds)
      <4>1. IsWritten(c.job) /\ c.job \in Submitted /\ (c.op # "wait" => Carrier(c.job) = c.job)
        BY <2>4, <3>1 DEF IInv, CommandsOk, IsWritten
      <4> QED
        BY <1>10, <1>14, <4>1
    <3>2. CASE c \in Elems(s)
      BY <1>10, <1>13, <1>14, <1>16, <3>2
    <3> QED
      BY <1>17, <2>4, <3>1, <3>2
  <2>5. ASSUME NEW k \in Submitted, IsWritten(k)', k \notin executed
        PROVE  \E c \in Elems(ring'.cmds) : c.op = "cmd" /\ c.job = Carrier(k)'
    <3>1. CASE IsWritten(k)
      <4>1. PICK c \in Elems(ring.cmds) : c.op = "cmd" /\ c.job = Carrier(k)
        BY <2>5, <3>1 DEF IInv, CommandsOk
      <4> QED
        BY <1>10, <1>17, <4>1
    <3>2. CASE k \in J
      <4>1. CmdOf(Carrier(k)) \in Elems(s)
        BY <1>9, <1>11, <1>15, <3>2 DEF J
      <4> QED
        BY <1>10, <1>17, <4>1 DEF CmdOf
    <3> QED
      BY <1>14, <2>5, <3>1, <3>2
  <2>6. ASSUME NEW k \in scheduled', Queue(k) = "geom", k \notin executed
        PROVE  \E c \in Elems(ring'.cmds) : c.op = "wait" /\ c.job = PairedOf(k)
    <3>1. CASE k = j
      BY <1>2, <1>15, <1>17, <3>1 DEF WaitOf
    <3>2. CASE k # j
      <4>1. PICK c \in Elems(ring.cmds) : c.op = "wait" /\ c.job = PairedOf(k)
        BY <1>5, <2>6, <3>2 DEF IInv, CommandsOk
      <4> QED
        BY <1>17, <4>1
    <3> QED
      BY <3>1, <3>2
  <2> QED
    BY <1>5, <1>10, <1>17, <2>3, <2>4, <2>5, <2>6 DEF CommandsOk
<1> QED
  BY <1>5, <1>17, <1>18, <1>19 DEF IInv

-----------------------------------------------------------------------------
(* The theorems.                                                           *)

\* The invariant holds at first.
LEMMA InitInvariant == Init => IInv
<1> SUFFICES ASSUME Init PROVE IInv
  OBVIOUS
<1>1. /\ CccbSize \in Nat \ {0} /\ MaxSubmits \in Nat /\ <<>> \in Seq(Cmds) /\ <<>> \in Seq(Jobs)
      /\ Len(<<>>) = 0
  BY FragQueueAssumption
<1>2. Submitted = {} /\ scheduled = {} /\ executed = {} /\ finished = {}
  <2>1. \A j \in Jobs : ~(j[1] <= 0) /\ j[1] \in Nat
    BY <1>1 DEF Jobs
  <2> QED
    BY <1>1, <2>1 DEF Init, Submitted
<1>3. \A S : (S = {}) => Lists(<<>>, S)
  BY <1>1 DEF Lists, Ascending, Elems
<1>4. TypeOK
  <2>1. SubsOk
    BY <1>1 DEF Init, SubsOk
  <2> QED
    BY <1>1, <2>1 DEF Init, TypeOK
<1>5. SchedOk
  <2>1. \A q \in Queues : entity[q] = <<>> /\ OfQueue(q) \ scheduled = {}
    BY <1>2 DEF Init, OfQueue
  <2> QED
    BY <1>2, <1>3, <2>1 DEF SchedOk
<1>6. SeqnoOk
  BY <1>2 DEF Init, SeqnoOk
<1>7. FenceOk
  BY <1>2 DEF Init, FenceOk
<1>8. ReadyOk
  BY DEF Init, ReadyOk, Queues
<1>9. SpaceOk
  <2>1. ring = [w |-> 0, r |-> 0, cmds |-> <<>>, dropped |-> FALSE]
    BY DEF Init
  <2>2. Used(ring) = 0 /\ ring \in Rings
    BY <1>1, <2>1 DEF Used, Gap, Rings
  <2>3. RingOk(ring)
    BY <2>1, <2>2, SumsEmpty DEF RingOk
  <2> QED
    BY <1>2, <2>1, <2>3 DEF SpaceOk
<1>10. CommandsOk
  <2>1. ring.cmds = <<>> /\ geomRing = <<>> /\ Elems(ring.cmds) = {}
    BY <1>1 DEF Init, Elems
  <2>2. InPlace(ring.cmds)
    BY <1>1, <2>1 DEF InPlace
  <2>3. Lists(geomRing, {j \in scheduled : Queue(j) = "geom"} \ executed)
    BY <1>2, <1>3, <2>1
  <2> QED
    BY <1>2, <2>1, <2>2, <2>3 DEF CommandsOk
<1>11. ExecutedOk
  BY <1>2 DEF Init, ExecutedOk
<1>12. DoneOk
  <2>1. \A q \in Queues : pending[q] = <<>> /\ {j \in scheduled : Queue(j) = q} \ finished = {}
    BY <1>2 DEF Init
  <2>2. listened = scheduled /\ signaled = finished
    BY DEF Init
  <2> QED
    BY <1>2, <1>3, <2>1, <2>2 DEF DoneOk
<1> QED
  BY <1>4, <1>5, <1>6, <1>7, <1>8, <1>9, <1>10, <1>11, <1>12 DEF IInv

\* Every step preserves the invariant.
LEMMA NextInvariant == IInv /\ [Next]_vars => IInv'
<1> SUFFICES ASSUME IInv, [Next]_vars PROVE IInv'
  OBVIOUS
<1>1. CASE UNCHANGED vars
  <2>1. UNCHANGED <<sub, deps, entity, ready, waitsFor, scheduled, cccbFence, waiter, seqno, lastSeqno,
                    pending, inFlight, signaled, listened, finished, ring, geomRing, timeline,
                    executed, event>>
    BY <1>1 DEF vars, schedVars, fenceVars, doneVars, fwVars
  <2>2. TypeOK'
    BY <2>1 DEF IInv, TypeOK, SubsOk, LastFragOf, IsChained, Kind
  <2> QED
    BY <2>1, <2>2, SchedSame, SeqnoSame, FenceSame, ReadySame, SpaceSame, CommandsSame,
       ExecutedSame, DoneSame DEF IInv
<1>2. CASE Submit
  BY <1>2, SubmitKeeps
<1>3. CASE \E j \in Jobs : DepSignaled(j)
  BY <1>3, DepSignaledKeeps
<1>4. CASE PrepareGeom
  BY <1>4, PrepareGeomKeeps
<1>5. CASE PrepareFrag
  BY <1>5, PrepareFragKeeps
<1>6. CASE PrepareWithGeometry
  BY <1>6, PrepareWithGeometryKeeps
<1>7. CASE RunGeom
  BY <1>7, RunGeomKeeps
<1>8. CASE RunFrag
  BY <1>8, RunFragKeeps
<1>9. CASE RunWithGeometry
  BY <1>9, RunWithGeometryKeeps
<1>10. CASE FwGeom
  BY <1>10, FwGeomKeeps
<1>11. CASE FwFrag
  BY <1>11, FwFragKeeps
<1>12. CASE Process
  BY <1>12, ProcessKeeps
<1>13. CASE \E q \in Queues : TimedOut(q)
  BY <1>13, TimedOutKeeps
<1> QED
  BY <1>1, <1>2, <1>3, <1>4, <1>5, <1>6, <1>7, <1>8, <1>9, <1>10, <1>11, <1>12, <1>13 DEF Next

\* The queues, fences, lists and rings always fit together as IInv says, for
\* any number of submissions and any size of the CCCB.
THEOREM Invariant == Spec => []IInv
<1>1. Init => IInv
  BY InitInvariant
<1>2. IInv /\ [Next]_vars => IInv'
  BY NextInvariant
<1> QED
  BY <1>1, <1>2, PTL DEF Spec

\* No command is dropped for want of space, whoever writes it: what
\* prepare_job checked is at least what run_job writes (patch 0002).
THEOREM NothingIsDropped == Spec => []NothingDropped
<1>1. IInv => NothingDropped
  BY DEF IInv, SpaceOk, NothingDropped
<1> QED
  BY <1>1, Invariant, PTL

\* Space that prepare_job has found is there until run_job uses it: nobody
\* else writes to the fragment CCCB in between.
THEOREM FoundSpaceIsKept == Spec => []FoundSpaceStays
<1>1. ASSUME IInv PROVE FoundSpaceStays
  <2> SUFFICES ASSUME NEW j \in Submitted, Queue(j) = "frag", Owner(j), cccbFence[j] = "gone", ~Written(j)
               PROVE  Fits(SequenceSize(j))
    BY DEF FoundSpaceStays
  <2>1. FitsIn(ring, SequenceSize(j)) /\ ring \in Rings
    BY <1>1 DEF IInv, SpaceOk, RingOk
  <2>2. SequenceSize(j) \in Nat
    <3>1. deps \in [Jobs -> Nat] /\ j \in Jobs
      BY <1>1 DEF IInv, TypeOK, Submitted
    <3>2. j[2] # "p" => JobCmdsSize(deps[j]) \in Nat
      BY <3>1, JobCmdsShape
    <3> QED
      BY <3>1, <3>2, PairCmdsShape DEF SequenceSize
  <2> QED
    BY <2>1, <2>2, FitsIs
<1> QED
  BY <1>1, Invariant, PTL

\* The seqno of a job whose commands are written is set.
LEMMA WrittenHasSeqno ==
  ASSUME IInv, NEW j, IsWritten(j)
  PROVE  j \in Jobs /\ Queue(j) = "frag" /\ seqno[j] # 0 /\ seqno[j] \in Nat
<1>1. j \in Submitted /\ j \in Jobs /\ Queue(j) = "frag" /\ seqno \in [Jobs -> Nat]
  BY DEF IsWritten, IInv, TypeOK, Submitted
<1>2. CASE WithGeometry(j)
  BY <1>1, <1>2 DEF IsWritten, IInv, SeqnoOk
<1>3. CASE ~WithGeometry(j)
  BY <1>1, <1>3 DEF IsWritten, IInv, SeqnoOk
<1> QED
  BY <1>1, <1>2, <1>3

\* The updates in the fragment CCCB raise its timeline, one after the other.
THEOREM UpdatesAreAscending == Spec => []UpdatesAscend
<1>1. ASSUME IInv PROVE UpdatesAscend
  <2> DEFINE cmds == ring.cmds
  <2>1. cmds \in Seq(Cmds) /\ InPlace(cmds) /\ timeline["frag"] \in Nat
    BY <1>1 DEF IInv, SpaceOk, RingOk, Rings, CommandsOk, TypeOK, Queues
  <2>2. DOMAIN cmds = 1 .. Len(cmds)
    BY <2>1, LenProperties
  <2>3. ASSUME NEW i \in DOMAIN cmds, cmds[i].op = "update"
        PROVE  /\ cmds[i] \in Elems(cmds) /\ cmds[i].job \in Jobs /\ Queue(cmds[i].job) = "frag"
               /\ seqno[cmds[i].job] # 0 /\ seqno[cmds[i].job] \in Nat
    <3>1. cmds[i] \in Elems(cmds)
      BY <2>2 DEF Elems
    <3>2. IsWritten(cmds[i].job)
      BY <1>1, <2>3, <3>1 DEF IInv, CommandsOk
    <3> QED
      BY <1>1, <3>1, <3>2, WrittenHasSeqno
  <2>4. ASSUME NEW i \in DOMAIN cmds, cmds[i].op = "update"
        PROVE  seqno[cmds[i].job] > timeline["frag"]
    <3>1. CASE timeline["frag"] = 0
      BY <2>3, <2>4, <3>1
    <3>2. CASE timeline["frag"] # 0
      <4>1. PICK k \in executed : /\ Queue(k) = "frag" /\ seqno[k] = timeline["frag"]
                                  /\ \A c \in Elems(cmds) : c.op = "update" => Rank(k) < Rank(c.job)
        BY <1>1, <3>2 DEF IInv, ExecutedOk, Queues
      <4>2. k \in Jobs
        BY <1>1, <4>1 DEF IInv, ExecutedOk, IsWritten, Submitted
      <4>3. Rank(k) < Rank(cmds[i].job)
        BY <2>3, <2>4, <4>1
      <4>4. seqno[k] < seqno[cmds[i].job]
        BY <1>1, <2>3, <2>4, <3>2, <4>1, <4>2, <4>3 DEF IInv, SeqnoOk
      <4> QED
        BY <2>1, <2>3, <2>4, <4>1, <4>4
    <3> QED
      BY <3>1, <3>2
  <2>5. ASSUME NEW i \in DOMAIN cmds, NEW k \in DOMAIN cmds, cmds[i].op = "update", cmds[k].op = "update",
               i < k
        PROVE  seqno[cmds[i].job] < seqno[cmds[k].job]
    <3>1. Follows(cmds[i], cmds[k])
      BY <2>1, <2>2, <2>5 DEF InPlace
    <3>2. Rank(cmds[i].job) \in Nat /\ Rank(cmds[k].job) \in Nat
      BY <2>3, <2>5, RankFacts
    <3>3. Rank(cmds[i].job) < Rank(cmds[k].job)
      BY <2>5, <3>1, <3>2 DEF Follows, Place
    <3> QED
      BY <1>1, <2>3, <2>5, <3>3 DEF IInv, SeqnoOk
  <2> QED
    BY <2>4, <2>5 DEF UpdatesAscend
<1> QED
  BY <1>1, Invariant, PTL

\* The job registered for CCCB space is held back by its scheduler, so that
\* pvr_queue_check_job_waiting_for_cccb_space() finds it as it expects.
THEOREM WaiterIsKnown == Spec => []WaiterIsHeldBack
<1>1. ASSUME IInv PROVE WaiterIsHeldBack
  <2> SUFFICES ASSUME waiter.job # NoJob
               PROVE  /\ cccbFence[waiter.job] = "waiting"
                      /\ \E q \in Queues :
                           /\ waitsFor[q] = waiter.job /\ entity[q] # <<>> /\ ~ready[q]
                           /\ Head(entity[q]) \in {waiter.job, GeomOf(waiter.job)}
    BY DEF WaiterIsHeldBack
  <2>1. cccbFence[waiter.job] = "waiting"
    BY <1>1 DEF IInv, FenceOk
  <2>2. PICK q \in Queues :
              /\ waitsFor[q] = waiter.job /\ entity[q] # <<>> /\ ~ready[q]
              /\ IF q = "geom" THEN waiter.job = PairedOf(Head(entity.geom))
                 ELSE waiter.job = Head(entity.frag)
    BY <1>1 DEF IInv, FenceOk
  <2>3. Head(entity[q]) \in Jobs /\ Queue(Head(entity[q])) = q
    BY <1>1, <2>2, FirstOfQueue
  <2>4. CASE q = "geom"
    <3> DEFINE h == Head(entity[q])
    <3>1. h = <<h[1], h[2]>> /\ h[2] = "g" /\ PairedOf(h)[1] = h[1]
      BY <2>3, <2>4, JobFacts
    <3> HIDE DEF h
    <3>2. GeomOf(PairedOf(h)) = h
      BY <3>1 DEF GeomOf
    <3> QED
      BY <2>1, <2>2, <2>4, <3>2 DEF h
  <2>5. CASE q = "frag"
    BY <2>1, <2>2, <2>5
  <2> QED
    BY <2>4, <2>5 DEF Queues
<1> QED
  BY <1>1, Invariant, PTL

-----------------------------------------------------------------------------
(* The queues implement JobOrder.                                          *)

\* A job that was submitted before another to the same queue has a lower rank.
LEMMA BeforeHasLowerRank ==
  ASSUME NEW j \in Jobs, NEW k \in BeforeIn(Queue(j), j)
  PROVE  k \in Jobs /\ Queue(k) = Queue(j) /\ Rank(k) < Rank(j)
<1>1. k \in Jobs /\ Queue(k) = Queue(j) /\ (k[1] < j[1] \/ (k[1] = j[1] /\ k[2] = "p" /\ j[2] = "f"))
  BY DEF BeforeIn
<1>2. CASE k[1] < j[1]
  BY <1>1, <1>2, RankFacts
<1>3. CASE k[1] = j[1] /\ k[2] = "p" /\ j[2] = "f"
  BY <1>1, <1>3, JobFacts DEF Rank
<1> QED
  BY <1>1, <1>2, <1>3

\* A fragment job's command is reached after its geometry job is executed.
LEMMA GeometryFirst ==
  ASSUME IInv, FwFrag, NEW j \in executed' \ executed, GeomOf(j) \in Submitted
  PROVE  Queue(j) = "frag" /\ GeomOf(j) \in executed
<1>1. PICK c : /\ c = Head(ring.cmds)
               /\ executed' = IF c.op = "cmd" THEN executed \cup Executes(c.job) ELSE executed
  BY DEF FwFrag
<1>2. ring.cmds # <<>> /\ c.op = "cmd" /\ j \in Executes(c.job)
  BY <1>1 DEF FwFrag
<1>3. /\ c \in Cmds /\ Elems(ring.cmds) = {c} \cup Elems(Tail(ring.cmds))
      /\ \A d \in Elems(Tail(ring.cmds)) : d.op # "pad" => Follows(c, d)
  <2>1. RingOk(ring) /\ InPlace(ring.cmds)
    BY DEF IInv, SpaceOk, CommandsOk
  <2>2. PICK new : new = Read(ring)
    OBVIOUS
  <2> QED
    BY <1>1, <1>2, <2>1, <2>2, OneRead
<1>4. IsWritten(c.job) /\ c.job \in Submitted /\ c.job \in Jobs /\ Queue(c.job) = "frag"
  BY <1>2, <1>3 DEF IInv, CommandsOk, IsWritten, Submitted
<1>5. /\ j \in Jobs /\ j[1] = c.job[1] /\ GeomOf(j) = GeomOf(c.job) /\ Queue(j) = "frag"
      /\ (j = c.job \/ (c.job[2] = "f" /\ Combinable(c.job[1])))
  <2>1. CASE j = c.job
    BY <1>4, <2>1
  <2>2. CASE j # c.job
    <3>1. c.job[2] = "f" /\ Combinable(c.job[1]) /\ j = PairedOf(c.job)
      BY <1>2, <2>2 DEF Executes
    <3>2. j \in Jobs /\ j[1] = c.job[1] /\ j[2] = "p"
      BY <1>4, <3>1, JobFacts
    <3> QED
      BY <3>1, <3>2 DEF GeomOf, Queue
  <2> QED
    BY <2>1, <2>2
<1> DEFINE g == GeomOf(c.job)  p == PairedOf(c.job)
<1>6. /\ g \in Jobs /\ g[1] = c.job[1] /\ g[2] = "g" /\ Queue(g) = "geom" /\ g \in Submitted
      /\ p \in Jobs /\ p[1] = c.job[1] /\ p[2] = "p" /\ Queue(p) = "frag"
      /\ PairedOf(g) = p /\ GeomOf(p) = g
  <2>1. /\ g \in Jobs /\ g[1] = c.job[1] /\ g[2] = "g" /\ p \in Jobs /\ p[1] = c.job[1] /\ p[2] = "p"
    BY <1>4, JobFacts
  <2>2. PairedOf(g) = p /\ GeomOf(p) = g
    BY <2>1 DEF PairedOf, GeomOf
  <2>3. Queue(g) = "geom" /\ Queue(p) = "frag"
    BY <2>1 DEF Queue
  <2> QED
    BY <1>5, <2>1, <2>2, <2>3
<1>7. p \in Submitted
  <2>1. SubsOk
    BY DEF IInv, TypeOK
  <2> QED
    BY <1>6, <2>1, Family
<1> HIDE DEF g, p
<1>8. Rank(p) <= Rank(c.job) /\ Rank(p) \in Nat /\ Rank(c.job) \in Nat
  BY <1>4, <1>6, RankFacts DEF Rank
<1>9. g \in scheduled
  <2>1. IsWritten(p)
    <3>1. CASE Rank(p) < Rank(c.job)
      BY <1>4, <1>6, <1>7, <3>1, WrittenDown
    <3>2. CASE p = c.job
      BY <1>4, <3>2
    <3>3. Rank(p) = Rank(c.job) => p = c.job
      BY <1>4, <1>6, RankFacts
    <3> QED
      BY <1>8, <3>1, <3>2, <3>3
  <2> QED
    BY <1>6, <2>1 DEF IsWritten, WithGeometry
<1>10. g \in executed
  <2> SUFFICES ASSUME g \notin executed PROVE FALSE
    OBVIOUS
  <2>1. PICK d \in Elems(ring.cmds) : d.op = "wait" /\ d.job = p
    BY <1>6, <1>9 DEF IInv, CommandsOk
  <2>2. Follows(c, d)
    BY <1>2, <1>3, <2>1
  <2> QED
    BY <1>2, <1>8, <2>1, <2>2 DEF Follows, Place
<1> QED
  BY <1>5, <1>10 DEF g

\* What the GPU executes is a step of the abstract job order.
LEMMA ExecuteStep ==
  ASSUME IInv, IInv', FwGeom \/ FwFrag
  PROVE  Order!Execute
<1>1. UNCHANGED <<sub, scheduled, finished>> /\ executed \subseteq executed'
  <2>1. CASE FwGeom
    BY <2>1 DEF FwGeom, schedVars, doneVars
  <2>2. CASE FwFrag
    BY <2>2 DEF FwFrag, schedVars, doneVars
  <2> QED
    BY <2>1, <2>2
<1>2. Submitted' = Submitted
  BY <1>1, SubSame
<1>3. \A j \in executed' : j \in Submitted /\ j \in Jobs
  <2>1. \A j \in executed' : (IF Queue(j) = "geom" THEN j \in scheduled ELSE IsWritten(j))'
    BY DEF IInv, ExecutedOk
  <2>2. \A j \in executed' : IF Queue(j) = "geom" THEN j \in scheduled' ELSE j \in Submitted'
    BY <2>1 DEF IsWritten
  <2>3. scheduled' \subseteq Submitted'
    BY DEF IInv, SchedOk
  <2> QED
    BY <1>2, <2>2, <2>3 DEF Submitted
<1>4. ASSUME NEW j \in executed' \ executed
      PROVE  (BeforeIn(Queue(j), j) \cup NeedsGeom(j)) \cap Submitted \subseteq executed'
  <2>1. ASSUME NEW k \in BeforeIn(Queue(j), j), k \in Submitted
        PROVE  k \in executed'
    <3>1. Queue(k) = Queue(j) /\ Rank(k) < Rank(j)
      BY <1>3, BeforeHasLowerRank
    <3>2. \A i \in executed', m \in Submitted' : Queue(m) = Queue(i) /\ Rank(m) < Rank(i) => m \in executed'
      BY DEF IInv, ExecutedOk
    <3> QED
      BY <1>2, <2>1, <3>1, <3>2
  <2>2. ASSUME NEW k \in NeedsGeom(j), k \in Submitted
        PROVE  k \in executed'
    <3>1. j[2] # "g" /\ k = GeomOf(j)
      BY <2>2 DEF NeedsGeom
    <3>2. CASE FwFrag
      BY <1>1, <2>2, <3>1, <3>2, GeometryFirst
    <3>3. CASE FwGeom
      <4>1. PICK h : h = Head(geomRing) /\ executed' = executed \cup {h} /\ geomRing # <<>>
        BY <3>3 DEF FwGeom
      <4> DEFINE S == {i \in scheduled : Queue(i) = "geom"} \ executed
      <4>2. /\ geomRing \in Seq(Jobs)
            /\ Lists(geomRing, S)
            /\ \A i \in S : i \in Jobs /\ Queue(i) = "geom"
        BY DEF IInv, TypeOK, CommandsOk
      <4>3. Queue(h) = "geom" /\ h \in Jobs
        <5> HIDE DEF S
        <5>1. h \in S
          BY <4>1, <4>2, ListsHead
        <5> QED
          BY <4>2, <5>1
      <4>4. j = h /\ j[2] = "g"
        BY <4>1, <4>3, JobFacts
      <4> QED
        BY <3>1, <4>4
    <3> QED
      BY <3>2, <3>3
  <2> QED
    BY <2>1, <2>2
<1> QED
  BY <1>1, <1>2, <1>3, <1>4 DEF Order!Execute

\* What the driver signals is a step of the abstract job order.
LEMMA FinishStep ==
  ASSUME IInv, IInv', Process \/ \E q \in Queues : TimedOut(q)
  PROVE  Order!Finish
<1>1. UNCHANGED <<sub, executed>> /\ finished \subseteq finished'
  <2>1. CASE Process
    BY <2>1 DEF Process
  <2>2. CASE \E q \in Queues : TimedOut(q)
    BY <2>2 DEF TimedOut, fwVars, FullRecovery
  <2> QED
    BY <2>1, <2>2
<1>2. Submitted' = Submitted
  BY <1>1, SubSame
<1>3. finished' \subseteq executed /\ \A j \in finished' : j \in Jobs
  <2>1. finished' \subseteq executed' \cap scheduled' /\ scheduled' \subseteq Jobs
    BY DEF IInv, DoneOk, TypeOK
  <2> QED
    BY <1>1, <2>1
<1>4. ASSUME NEW j \in finished' \ finished
      PROVE  BeforeIn(Queue(j), j) \cap Submitted \subseteq finished'
  <2> SUFFICES ASSUME NEW k \in BeforeIn(Queue(j), j), k \in Submitted PROVE k \in finished'
    OBVIOUS
  <2>1. Queue(k) = Queue(j) /\ Rank(k) < Rank(j)
    BY <1>3, BeforeHasLowerRank
  <2>2. \A i \in finished', m \in Submitted' : Queue(m) = Queue(i) /\ Rank(m) < Rank(i) => m \in finished'
    BY DEF IInv, DoneOk
  <2> QED
    BY <1>2, <2>1, <2>2
<1> QED
  BY <1>1, <1>2, <1>3, <1>4 DEF Order!Finish

\* Every step is a step of the abstract job order or leaves it as it is.
LEMMA OrderStep ==
  ASSUME IInv, IInv', [Next]_vars
  PROVE  [Order!JobOrderNext]_(Order!jvars)
<1>1. CASE Submit
  <2>1. UNCHANGED <<executed, finished>> /\ Submitted \subseteq Submitted' /\ Submitted' \subseteq Jobs
    BY <1>1, SubmitJobs DEF Submit, doneVars, fwVars, Submitted
  <2> QED
    BY <2>1 DEF Order!JobOrderNext, Order!Submit
<1>2. CASE FwGeom \/ FwFrag
  BY <1>2, ExecuteStep DEF Order!JobOrderNext
<1>3. CASE Process \/ \E q \in Queues : TimedOut(q)
  BY <1>3, FinishStep DEF Order!JobOrderNext
<1>4. CASE UNCHANGED <<sub, executed, finished>>
  <2>1. Submitted' = Submitted
    BY <1>4, SubSame
  <2> QED
    BY <1>4, <2>1 DEF Order!jvars
<1>5. CASE \E j \in Jobs : DepSignaled(j)
  BY <1>4, <1>5 DEF DepSignaled, doneVars, fwVars
<1>6. CASE PrepareGeom \/ PrepareFrag \/ PrepareWithGeometry
  BY <1>4, <1>6 DEF PrepareGeom, PrepareFrag, PrepareWithGeometry, doneVars, fwVars
<1>7. CASE RunGeom \/ RunFrag \/ RunWithGeometry
  BY <1>4, <1>7 DEF RunGeom, RunFrag, RunWithGeometry, Ran
<1>8. CASE UNCHANGED vars
  BY <1>4, <1>8 DEF vars, doneVars, fwVars
<1> QED
  BY <1>1, <1>2, <1>3, <1>5, <1>6, <1>7, <1>8 DEF Next

\* The queues keep the promise of JobOrder: jobs are executed in the order of
\* their queue and after their geometry, and finish in that order after it.
THEOREM Implementation == Spec => ImplementsJobOrder
<1>1. Init => Order!JobOrderInit
  <2> SUFFICES ASSUME Init PROVE Order!JobOrderInit
    OBVIOUS
  <2>1. \A j \in Jobs : ~(j[1] <= 0)
    BY FragQueueAssumption DEF Jobs
  <2>2. Submitted = {}
    BY <2>1 DEF Init, Submitted
  <2> QED
    BY <2>2 DEF Init, Order!JobOrderInit
<1>2. IInv /\ IInv' /\ [Next]_vars => [Order!JobOrderNext]_(Order!jvars)
  BY OrderStep
<1> QED
  BY <1>1, <1>2, Invariant, PTL DEF Spec, ImplementsJobOrder, Order!JobOrderSpec
=============================================================================
