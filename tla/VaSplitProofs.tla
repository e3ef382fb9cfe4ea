---------------------------- MODULE VaSplitProofs ----------------------------
(***************************************************************************)
(* Facts about ranges, look-ups and splits that hold of any tree of        *)
(* mappings that do not overlap, whatever the size of the address space    *)
(* and wherever its managed and its reserved ranges lie.                   *)
(***************************************************************************)
EXTENDS VaSplit, WellFoundedInduction, TLAPS

USE VaSplitAssumption

\* A mapping or a request: it has an address and is not empty.
IsRange(x) == x.addr \in Nat /\ x.range \in Nat \ {0}

\* Two of them have no address in common.
Apart(v, w) == End(v) <= w.addr \/ End(w) <= v.addr

\* The tree: its mappings are apart.
Tree(vas) ==
    /\ \A v \in vas : IsRange(v) /\ RangeValid(v.addr, v.range)
    /\ \A v, w \in vas : v # w => Apart(v, w)

\* Where the managed range and the reserved one allow a mapping.
Allowed(from, to) ==
    /\ to < AddrSpace /\ MmStart <= from /\ to <= MmStart + MmRange
    /\ ~(KRange # 0 /\ from < KStart + KRange /\ KStart < to)

-----------------------------------------------------------------------------
(* Ranges.                                                                 *)

\* drm_gpuvm_range_valid(): its sums do not wrap once the first one does not.
LEMMA RangeValidIs ==
  ASSUME NEW a \in Nat, NEW n \in Nat
  PROVE  RangeValid(a, n) <=> Allowed(a, a + n)
<1>1. a + n < AddrSpace => Add(a, n) = a + n
  BY DEF Add
<1>2. RangeValid(a, n) => a + n < AddrSpace
  BY DEF RangeValid, Overflows, Addrs
<1> QED
  BY <1>1, <1>2 DEF RangeValid, Overflows, InMmRange, InKernelNode, Allowed, Addrs

\* A part of a valid range is valid.
LEMMA PartValid ==
  ASSUME NEW a \in Nat, NEW n \in Nat, RangeValid(a, n),
         NEW b \in Nat, NEW m \in Nat, a <= b, b + m <= a + n
  PROVE  RangeValid(b, m)
  BY RangeValidIs DEF Allowed, Addrs

\* Apart is having no address in common.
LEMMA ApartIs ==
  ASSUME NEW v, NEW w, IsRange(v), IsRange(w)
  PROVE  /\ Cover(v) \cap Cover(w) = {} <=> Apart(v, w)
         /\ Apart(v, w) <=> ~Overlaps(v, w)
<1>1. v.addr \in Nat /\ w.addr \in Nat /\ End(v) \in Nat /\ End(w) \in Nat
      /\ v.addr < End(v) /\ w.addr < End(w)
  BY DEF IsRange, End
<1>2. ASSUME Apart(v, w) PROVE Cover(v) \cap Cover(w) = {}
  BY <1>1, <1>2 DEF Cover, Apart
<1>3. ASSUME ~Apart(v, w) PROVE Cover(v) \cap Cover(w) # {}
  <2>1. CASE v.addr <= w.addr
    <3>1. w.addr \in Cover(v) /\ w.addr \in Cover(w)
      BY <1>1, <1>3, <2>1 DEF Cover, Apart
    <3> QED
      BY <3>1
  <2>2. CASE w.addr <= v.addr
    <3>1. v.addr \in Cover(v) /\ v.addr \in Cover(w)
      BY <1>1, <1>3, <2>2 DEF Cover, Apart
    <3> QED
      BY <3>1
  <2> QED
    BY <1>1, <2>1, <2>2
<1>4. Apart(v, w) <=> ~Overlaps(v, w)
  BY <1>1 DEF Apart, Overlaps
<1> QED
  BY <1>2, <1>3, <1>4

\* drm_gpuva_insert() is not refused where nothing is in the way.
LEMMA Inserted ==
  ASSUME NEW vas, Tree(vas), NEW v, IsRange(v), RangeValid(v.addr, v.range),
         \A w \in vas : Apart(w, v)
  PROVE  Insert(vas, v) = vas \cup {v} /\ Tree(vas \cup {v})
<1>1. \A w \in vas : Cover(w) \cap Cover(v) = {}
  BY ApartIs DEF Tree
<1>2. \A w \in vas : Apart(v, w)
  BY DEF Apart
<1> QED
  BY <1>1, <1>2 DEF Insert, Tree

\* What is removed from a tree leaves a tree.
LEMMA Removed ==
  ASSUME NEW vas, Tree(vas), NEW S
  PROVE  Tree(vas \ S)
  BY DEF Tree

-----------------------------------------------------------------------------
(* Look-ups.                                                               *)

\* A set of mappings that is not empty has a leftmost one.
LEMMA LeftmostIs ==
  ASSUME NEW S, \A v \in S : v.addr \in Nat, S # {}
  PROVE  Leftmost(S) \in S /\ \A w \in S : Leftmost(S).addr <= w.addr
<1> DEFINE A == {v.addr : v \in S}
<1>1. A \subseteq Nat /\ A # {}
  OBVIOUS
<1>2. \E m \in A : \A n \in A : m <= n
  <2>1. IsWellFoundedOn(OpToRel(<, Nat), Nat)
    BY NatLessThanWellFounded
  <2> HIDE DEF A
  <2>2. PICK m \in A : \A n \in A : <<n, m>> \notin OpToRel(<, Nat)
    BY <1>1, <2>1, WFMin
  <2>3. \A n \in A : ~(n < m)
    BY <1>1, <2>2 DEF OpToRel
  <2> QED
    BY <1>1, <2>3
<1>3. \E v \in S : \A w \in S : v.addr <= w.addr
  BY <1>2
<1> QED
  BY <1>3 DEF Leftmost

\* drm_gpuva_it_iter_first(): the first of the mappings that are in the interval.
LEMMA IterFirstIs ==
  ASSUME NEW vas, Tree(vas), NEW start \in Int, NEW last \in Int
  PROVE  \/ /\ IterFirst(vas, start, last) = NoVa
            /\ \A w \in vas : ~(w.addr <= last /\ End(w) - 1 >= start)
         \/ /\ IterFirst(vas, start, last) \in vas
            /\ IterFirst(vas, start, last).addr <= last
            /\ End(IterFirst(vas, start, last)) - 1 >= start
            /\ \A w \in vas : w.addr <= last /\ End(w) - 1 >= start =>
                                 IterFirst(vas, start, last).addr <= w.addr
<1> DEFINE S == {v \in vas : v.addr <= last /\ End(v) - 1 >= start}
<1>1. IterFirst(vas, start, last) = Leftmost(S)
  BY DEF IterFirst
<1>2. \A v \in S : v.addr \in Nat
  BY DEF Tree, IsRange
<1>3. CASE S = {}
  BY <1>1, <1>3 DEF Leftmost
<1>4. CASE S # {}
  <2>1. Leftmost(S) \in S /\ \A w \in S : Leftmost(S).addr <= w.addr
    BY <1>2, <1>4, LeftmostIs
  <2> QED
    BY <1>1, <2>1
<1> QED
  BY <1>3, <1>4

\* A mapping that is in the interval, and begins no later than it, is the first.
LEMMA IterFirstFinds ==
  ASSUME NEW vas, Tree(vas), NEW start \in Nat, NEW last \in Nat, NEW v \in vas,
         v.addr <= start, start < End(v), start <= last
  PROVE  IterFirst(vas, start, last) = v
<1> DEFINE f == IterFirst(vas, start, last)
<1>1. v.addr \in Nat /\ End(v) \in Nat
  BY DEF Tree, IsRange, End
<1>2. v.addr <= last /\ End(v) - 1 >= start
  BY <1>1
<1>3. f \in vas /\ End(f) - 1 >= start /\ f.addr <= v.addr
  BY <1>2, IterFirstIs
<1>4. f.addr \in Nat /\ End(f) \in Nat
  BY <1>3 DEF Tree, IsRange, End
<1>5. ~Apart(f, v)
  BY <1>1, <1>3, <1>4 DEF Apart
<1> QED
  BY <1>3, <1>5 DEF Tree

\* The successor in the list begins where this mapping ends or later, and nothing
\* lies between.
LEMMA NextVaIs ==
  ASSUME NEW vas, Tree(vas), NEW va \in vas
  PROVE  \/ /\ NextVa(vas, va) = NoVa
            /\ \A w \in vas : w.addr <= va.addr
         \/ /\ NextVa(vas, va) \in vas /\ NextVa(vas, va) # va
            /\ End(va) <= NextVa(vas, va).addr
            /\ \A w \in vas : w.addr <= va.addr \/ NextVa(vas, va).addr <= w.addr
<1> DEFINE S == {v \in vas : v.addr > va.addr}
<1>1. NextVa(vas, va) = Leftmost(S)
  BY DEF NextVa
<1>2. \A v \in vas : v.addr \in Nat /\ End(v) \in Nat /\ v.addr < End(v)
  BY DEF Tree, IsRange, End
<1>3. CASE S = {}
  BY <1>1, <1>2, <1>3 DEF Leftmost
<1>4. CASE S # {}
  <2>1. Leftmost(S) \in S /\ \A w \in S : Leftmost(S).addr <= w.addr
    BY <1>2, <1>4, LeftmostIs
  <2>2. Leftmost(S) # va
    BY <1>2, <2>1
  <2>3. Apart(Leftmost(S), va)
    BY <2>1, <2>2 DEF Tree
  <2>4. End(va) <= Leftmost(S).addr
    BY <1>2, <2>1, <2>3 DEF Apart
  <2>5. \A w \in vas : w.addr <= va.addr \/ Leftmost(S).addr <= w.addr
    BY <1>2, <2>1
  <2>6. Leftmost(S) \in vas
    BY <2>1
  <2> HIDE DEF S
  <2> QED
    BY <1>1, <2>2, <2>4, <2>5, <2>6
<1> QED
  BY <1>3, <1>4

-----------------------------------------------------------------------------
(* Splits.                                                                 *)

\* What stays of a mapping before a request's range, and after it.
Before(va, r) == IF NeedsPrev(va, r) THEN {PrevPart(va, r)} ELSE {}
After(va, r) == IF NeedsNext(va, r) THEN {NextPart(va, r)} ELSE {}

\* A tree with the parts that can be inserted.
With(vas, parts) == vas \cup UNION {Insert(vas, p) : p \in parts}

\* A part is within its mapping and keeps its object and the offset of its addresses.
PartOf(p, va) ==
    /\ IsRange(p) /\ va.addr <= p.addr /\ End(p) <= End(va)
    /\ p.obj = va.obj /\ p.offset = va.offset + (p.addr - va.addr)

\* The formula that op_remap_cb's callers use for the offset of the part after the
\* range gives the same in each position of the mapping.
LEMMA PartsAre ==
  ASSUME NEW va, IsRange(va), va.offset \in Nat, NEW r, IsRange(r), r.kind \in {"map", "unmap"},
         Overlaps(va, r)
  PROVE  /\ \A p \in Before(va, r) : PartOf(p, va) /\ p.addr = va.addr /\ End(p) = r.addr
         /\ \A p \in After(va, r) : PartOf(p, va) /\ p.addr = End(r) /\ End(p) = End(va)
         /\ \A p \in Before(va, r) \cup After(va, r) :
               p = [addr |-> p.addr, range |-> p.range, obj |-> p.obj, offset |-> p.offset]
         /\ CutStart(va, r) = IF NeedsPrev(va, r) THEN r.addr ELSE va.addr
         /\ CutEnd(va, r) = IF NeedsNext(va, r) THEN End(r) ELSE End(va)
<1>1. /\ va.addr \in Nat /\ va.range \in Nat /\ End(va) = va.addr + va.range /\ va.range > 0
      /\ r.addr \in Nat /\ r.range \in Nat /\ End(r) = r.addr + r.range /\ r.range > 0
  BY DEF IsRange, End
<1>2. va.addr < End(r) /\ r.addr < End(va)
  BY DEF Overlaps
<1>3. ASSUME NeedsPrev(va, r)
      PROVE  /\ PartOf(PrevPart(va, r), va) /\ PrevPart(va, r).addr = va.addr
             /\ End(PrevPart(va, r)) = r.addr
  BY <1>1, <1>2, <1>3 DEF NeedsPrev, PrevPart, PartOf, End, IsRange
<1>4. NextOffset(va, r) = va.offset + (End(r) - va.addr)
  BY <1>1, <1>2 DEF NextOffset
<1>5. ASSUME NeedsNext(va, r)
      PROVE  /\ PartOf(NextPart(va, r), va) /\ NextPart(va, r).addr = End(r)
             /\ End(NextPart(va, r)) = End(va)
  <2>1. NextPart(va, r) = [addr |-> End(r), range |-> End(va) - End(r), obj |-> va.obj,
                           offset |-> va.offset + (End(r) - va.addr)]
    BY <1>4 DEF NextPart
  <2>2. /\ NextPart(va, r).addr = End(r) /\ NextPart(va, r).range = End(va) - End(r)
        /\ NextPart(va, r).obj = va.obj
        /\ NextPart(va, r).offset = va.offset + (End(r) - va.addr)
    BY <2>1
  <2>3. End(NextPart(va, r)) = End(va)
    BY <1>1, <2>2 DEF End
  <2>4. IsRange(NextPart(va, r))
    BY <1>1, <1>2, <1>5, <2>2 DEF NeedsNext, IsRange
  <2>5. va.addr <= NextPart(va, r).addr /\ End(NextPart(va, r)) <= End(va)
    BY <1>1, <1>2, <2>2, <2>3
  <2> QED
    BY <2>2, <2>3, <2>4, <2>5 DEF PartOf
<1>6. \A p \in Before(va, r) \cup After(va, r) :
         p = [addr |-> p.addr, range |-> p.range, obj |-> p.obj, offset |-> p.offset]
  BY DEF Before, After, PrevPart, NextPart
<1>7. CutStart(va, r) = IF NeedsPrev(va, r) THEN r.addr ELSE va.addr
  BY <1>3 DEF CutStart
<1>8. CutEnd(va, r) = IF NeedsNext(va, r) THEN End(r) ELSE End(va)
  BY <1>5 DEF CutEnd
<1> QED
  BY <1>3, <1>5, <1>6, <1>7, <1>8 DEF Before, After

\* The union of no set and of one.
LEMMA UnionFew == UNION {} = {} /\ \A x : UNION {x} = x
<1>1. UNION {} = {}
  OBVIOUS
<1>2. ASSUME NEW x PROVE UNION {x} = x
  OBVIOUS
<1> QED
  BY <1>1, <1>2

\* The parts of a mapping get where the mapping was, none is refused.
LEMMA SplitTree ==
  ASSUME NEW vas, Tree(vas), NEW va \in vas, va.offset \in Nat,
         NEW r, IsRange(r), r.kind \in {"map", "unmap"}, Overlaps(va, r),
         NEW tree1, tree1 = With(vas \ {va}, Before(va, r)),
         NEW tree2, tree2 = With(tree1, After(va, r))
  PROVE  /\ tree2 = (vas \ {va}) \cup Before(va, r) \cup After(va, r) /\ Tree(tree2)
         /\ va \notin Before(va, r) \cup After(va, r)
<1> DEFINE old == vas \ {va}
           prev == Before(va, r)
           next == After(va, r)
<1>1. IsRange(va) /\ RangeValid(va.addr, va.range) /\ Tree(old)
  BY Removed DEF Tree
<1>2. /\ \A p \in prev : PartOf(p, va) /\ p.addr = va.addr /\ End(p) = r.addr
      /\ \A p \in next : PartOf(p, va) /\ p.addr = End(r) /\ End(p) = End(va)
  BY <1>1, PartsAre
<1>3. ASSUME NEW p, PartOf(p, va) PROVE IsRange(p) /\ RangeValid(p.addr, p.range)
  BY <1>1, <1>3, PartValid DEF PartOf, IsRange, End
<1>4. ASSUME NEW p, PartOf(p, va), NEW w \in old PROVE Apart(w, p)
  <2>1. Apart(w, va) /\ IsRange(w)
    BY DEF Tree
  <2>2. /\ w.addr \in Nat /\ End(w) \in Nat /\ p.addr \in Nat /\ End(p) \in Nat
        /\ va.addr \in Nat /\ End(va) \in Nat /\ va.addr <= p.addr /\ End(p) <= End(va)
    BY <1>1, <1>4, <2>1 DEF PartOf, IsRange, End
  <2> QED
    BY <2>1, <2>2 DEF Apart
<1>5. ASSUME NEW p \in prev, NEW n \in next PROVE Apart(p, n)
  <2>1. End(p) = r.addr /\ n.addr = End(r) /\ r.addr \in Nat /\ End(r) \in Nat /\ r.addr <= End(r)
    BY <1>2 DEF IsRange, End
  <2> QED
    BY <2>1 DEF Apart
<1>6. va \notin prev \cup next
  <2>1. va.addr \in Nat /\ End(va) \in Nat /\ r.addr \in Nat /\ End(r) \in Nat
    BY <1>1 DEF IsRange, End
  <2> QED
    BY <1>2, <2>1 DEF Overlaps
<1>7. (prev = {} \/ \E p \in prev : prev = {p}) /\ (next = {} \/ \E n \in next : next = {n})
  BY DEF Before, After
<1> HIDE DEF prev, next, old
<1>8. tree1 = old \cup prev /\ Tree(tree1)
  <2>0. tree1 = old \cup UNION {Insert(old, p) : p \in prev}
    BY DEF prev, old, With
  <2>1. CASE prev = {}
    <3>1. tree1 = old
      <4>1. {Insert(old, p) : p \in prev} = {}
        BY <2>1
      <4> QED
        BY <2>0, <4>1, UnionFew
    <3> QED
      BY <1>1, <2>1, <3>1
  <2>2. ASSUME NEW p \in prev, prev = {p} PROVE tree1 = old \cup prev /\ Tree(tree1)
    <3>1. Insert(old, p) = old \cup {p} /\ Tree(old \cup {p})
      BY <1>1, <1>2, <1>3, <1>4, Inserted
    <3>2. tree1 = old \cup {p}
      <4>1. {Insert(old, q) : q \in prev} = {old \cup {p}}
        BY <2>2, <3>1
      <4>2. UNION {old \cup {p}} = old \cup {p}
        BY UnionFew
      <4> QED
        BY <2>0, <4>1, <4>2
    <3> QED
      BY <2>2, <3>1, <3>2
  <2> QED
    BY <1>7, <2>1, <2>2
<1>9. tree2 = tree1 \cup next /\ Tree(tree2)
  <2>0. tree2 = tree1 \cup UNION {Insert(tree1, p) : p \in next}
    BY DEF next, With
  <2>1. CASE next = {}
    <3>1. tree2 = tree1
      <4>1. {Insert(tree1, p) : p \in next} = {}
        BY <2>1
      <4> QED
        BY <2>0, <4>1, UnionFew
    <3>2. tree1 \cup next = tree1
      BY <2>1
    <3>3. Tree(tree2)
      BY <1>8, <3>1
    <3> QED
      BY <3>1, <3>2, <3>3
  <2>2. ASSUME NEW n \in next, next = {n} PROVE tree2 = tree1 \cup next /\ Tree(tree2)
    <3>1. \A w \in tree1 : Apart(w, n)
      BY <1>2, <1>4, <1>5, <1>8
    <3>2. Insert(tree1, n) = tree1 \cup {n} /\ Tree(tree1 \cup {n})
      BY <1>2, <1>3, <1>8, <3>1, Inserted
    <3>3. tree2 = tree1 \cup {n}
      <4>1. {Insert(tree1, q) : q \in next} = {tree1 \cup {n}}
        BY <2>2, <3>2
      <4>2. UNION {tree1 \cup {n}} = tree1 \cup {n}
        BY UnionFew
      <4> QED
        BY <2>0, <4>1, <4>2
    <3> QED
      BY <2>2, <3>2, <3>3
  <2> QED
    BY <1>7, <2>1, <2>2
<1> QED
  BY <1>6, <1>8, <1>9 DEF old, prev, next

==============================================================================
