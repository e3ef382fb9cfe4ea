---------------------------- MODULE GpuVmOpsProofs ----------------------------
(***************************************************************************)
(* Operation lists, for an address space of any size, any objects and any  *)
(* callers.                                                                *)
(*                                                                         *)
(* A list is made from the tree as it was and applied to the tree as it    *)
(* is.  What the tree was is kept by the history variable before, and the  *)
(* inductive invariant says how the two differ at any time: the mappings   *)
(* of the operations processed are gone and their parts have come          *)
(* (Executed).  An operation still to come then finds its mapping, since   *)
(* no other operation is about it and a part lies within the mapping it    *)
(* was a part of (Listed).                                                 *)
(***************************************************************************)
EXTENDS GpuVmOps, VaSplitProofs, FiniteSetTheorems, SequenceTheorems

Mappings == [addr : Nat, range : Nat, obj : Objects, offset : Nat]

Operations == [op : {"map", "unmap", "remap", "prefetch"}, va : Mappings,
               prev : SUBSET Mappings, next : SUBSET Mappings]

Types ==
    /\ vas \subseteq Mappings /\ Tree(vas)
    /\ stage \in [Callers -> {"idle", "walk", "made", "freeing"}]
    /\ request \in [Callers -> Requests \cup {NoRequest}]
    /\ cursor \in [Callers -> SUBSET Mappings]
    /\ ops \in [Callers -> Seq(Operations)]
    /\ done \in [Callers -> Nat]
    /\ before \in [Callers -> SUBSET Mappings]

\* One list at a time.
Alone == \A c, d \in Callers : stage[c] # "idle" /\ stage[d] # "idle" => c = d

Resting(c) == ops[c] = <<>> /\ done[c] = 0

\* The mappings of a tree that a request is about.
About(tree, r) ==
    {v \in tree : IF r.kind = "bo_unmap" THEN v.obj = r.obj ELSE Overlaps(v, r)}

\* About each of them the list has one operation, or it will be visited; the map
\* operation comes last.
Covers(r, tree, cur, list) ==
    /\ cur \subseteq About(tree, r)
    /\ \A i \in DOMAIN list :
         IF list[i].op = "map"
         THEN r.kind = "map" /\ list[i] = MapOp(r) /\ i = Len(list) /\ cur = {}
         ELSE list[i].va \in About(tree, r) \ cur /\ list[i] = OpFor(list[i].va, r)
    /\ \A i, j \in DOMAIN list :
         list[i].op # "map" /\ list[j].op # "map" /\ list[i].va = list[j].va => i = j
    /\ \A v \in About(tree, r) \ cur : \E i \in DOMAIN list : list[i].op # "map" /\ list[i].va = v

HasMap(list) == \E i \in DOMAIN list : list[i].op = "map"

Listed(c) ==
    /\ request[c] \in Requests /\ RangeValid(request[c].addr, request[c].range)
    /\ Tree(before[c])
    /\ Covers(request[c], before[c], cursor[c], ops[c])
    /\ done[c] <= Len(ops[c])
    /\ stage[c] = "walk" => done[c] = 0
    /\ stage[c] = "made" => cursor[c] = {} /\ (request[c].kind = "map" => HasMap(ops[c]))

\* What the first operations of a list take from the tree, and what they add.
OldOf(op) == IF op.op \in {"unmap", "remap"} THEN {op.va} ELSE {}
NewOf(op) == op.prev \cup op.next \cup (IF op.op = "map" THEN {op.va} ELSE {})
Gone(list, n) == UNION {OldOf(list[i]) : i \in 1 .. n}
Come(list, n) == UNION {NewOf(list[i]) : i \in 1 .. n}

\* The tree after the first n operations.
AfterOps(tree, list, n) == (tree \ Gone(list, n)) \cup Come(list, n)

Executed(c) == vas = AfterOps(before[c], ops[c], done[c])

IInv ==
    /\ Types
    /\ Alone
    /\ \A c \in Callers : stage[c] = "idle" => Resting(c)
    /\ \A c \in Callers : stage[c] \in {"walk", "made"} => Listed(c) /\ Executed(c)

USE GpuVmOpsAssumption

-----------------------------------------------------------------------------
(* Requests, operations and lists.                                         *)

\* What a request is.
LEMMA RequestIs ==
  ASSUME NEW r \in Requests
  PROVE  /\ IsRange(r) /\ r.kind \in Kinds /\ r.offset \in Nat
         /\ r.kind = "map" => r.obj \in Objects
<1>1. /\ r.kind \in Kinds /\ r.addr \in Addrs /\ r.range \in 1 .. MmRange
      /\ r.obj \in Objects \cup {NoObject} /\ r.offset \in 0 .. ObjSize - 1
  BY DEF Requests
<1>2. r.kind = "map" => r.obj # NoObject
  BY DEF Requests
<1> QED
  BY <1>1, <1>2 DEF IsRange, Addrs

\* What is appended to a list is its last element, the others stay.
LEMMA Appended ==
  ASSUME NEW S, NEW s \in Seq(S), NEW e \in S, NEW t, t = Append(s, e)
  PROVE  /\ t \in Seq(S) /\ Len(s) \in Nat /\ Len(t) = Len(s) + 1
         /\ DOMAIN s = 1 .. Len(s) /\ DOMAIN t = 1 .. Len(s) + 1
         /\ \A i \in 1 .. Len(s) : t[i] = s[i] /\ i # Len(s) + 1
         /\ t[Len(s) + 1] = e
  OBVIOUS

\* The operation for a mapping is about it, and leaves of it what the split leaves.
LEMMA OpForIs ==
  ASSUME NEW va \in Mappings, NEW r \in Requests, IsRange(va),
         r.kind = "bo_unmap" \/ Overlaps(va, r)
  PROVE  /\ OpFor(va, r) \in Operations /\ OpFor(va, r).va = va /\ OpFor(va, r).op # "map"
         /\ r.kind = "prefetch" => OldOf(OpFor(va, r)) = {} /\ NewOf(OpFor(va, r)) = {}
         /\ r.kind # "prefetch" => OldOf(OpFor(va, r)) = {va}
         /\ r.kind = "bo_unmap" => NewOf(OpFor(va, r)) = {} /\ OpFor(va, r).op = "unmap"
         /\ r.kind \in {"map", "unmap"} =>
              /\ OpFor(va, r).prev = Before(va, r) /\ OpFor(va, r).next = After(va, r)
              /\ NewOf(OpFor(va, r)) = Before(va, r) \cup After(va, r)
              /\ OpFor(va, r).op = IF NeedsPrev(va, r) \/ NeedsNext(va, r) THEN "remap" ELSE "unmap"
<1>1. IsRange(r) /\ r.kind \in Kinds
  BY RequestIs
<1>2. CASE r.kind = "prefetch"
  <2>1. OpFor(va, r) = [op |-> "prefetch", va |-> va, prev |-> {}, next |-> {}]
    BY <1>2 DEF OpFor
  <2> QED
    BY <1>2, <2>1 DEF Operations, OldOf, NewOf
<1>3. CASE r.kind = "bo_unmap"
  <2>1. OpFor(va, r) = [op |-> "unmap", va |-> va, prev |-> {}, next |-> {}]
    BY <1>3 DEF OpFor
  <2> QED
    BY <1>3, <2>1 DEF Operations, OldOf, NewOf
<1>4. CASE r.kind \in {"map", "unmap"}
  <2> DEFINE what == IF NeedsPrev(va, r) \/ NeedsNext(va, r) THEN "remap" ELSE "unmap"
  <2>1. OpFor(va, r) = [op |-> what, va |-> va, prev |-> Prev(va, r), next |-> Rest(va, r)]
    BY <1>4 DEF OpFor
  <2>2. Prev(va, r) = Before(va, r) /\ Rest(va, r) = After(va, r)
    BY DEF Prev, Rest, Before, After
  <2>3. Before(va, r) \cup After(va, r) \subseteq Mappings
    <3> SUFFICES ASSUME NEW p \in Before(va, r) \cup After(va, r) PROVE p \in Mappings
      OBVIOUS
    <3>1. /\ PartOf(p, va)
          /\ p = [addr |-> p.addr, range |-> p.range, obj |-> p.obj, offset |-> p.offset]
      BY <1>1, <1>4, PartsAre DEF Mappings
    <3>2. /\ p.addr \in Nat /\ p.range \in Nat /\ p.obj \in Objects /\ p.offset \in Nat
      BY <3>1 DEF PartOf, IsRange, Mappings
    <3> QED
      BY <3>1, <3>2 DEF Mappings
  <2>4. what \in {"map", "unmap", "remap", "prefetch"} /\ what # "map" /\ what \in {"unmap", "remap"}
    OBVIOUS
  <2> HIDE DEF what
  <2>5. OpFor(va, r) \in Operations
    BY <2>1, <2>2, <2>3, <2>4 DEF Operations
  <2>6. OpFor(va, r).op = what
    BY <2>1
  <2> QED
    BY <1>4, <2>1, <2>2, <2>4, <2>5, <2>6 DEF OldOf, NewOf, what
<1> QED
  BY <1>1, <1>2, <1>3, <1>4 DEF Kinds

\* The map operation is a mapping of the request's range.
LEMMA MapOpIs ==
  ASSUME NEW r \in Requests, r.kind = "map"
  PROVE  /\ MapOp(r) \in Operations /\ MapOp(r).op = "map"
         /\ MapOp(r).va.addr = r.addr /\ MapOp(r).va.range = r.range
         /\ MapOp(r).va.obj = r.obj /\ MapOp(r).va.offset = r.offset
         /\ OldOf(MapOp(r)) = {} /\ NewOf(MapOp(r)) = {MapOp(r).va}
<1>1. IsRange(r) /\ r.offset \in Nat /\ r.obj \in Objects
  BY RequestIs
<1>2. [addr |-> r.addr, range |-> r.range, obj |-> r.obj, offset |-> r.offset] \in Mappings
  BY <1>1 DEF Mappings, IsRange
<1> QED
  BY <1>2 DEF MapOp, Operations, OldOf, NewOf

-----------------------------------------------------------------------------
(* Making a list.                                                          *)

\* At first everything is to be visited.
LEMMA CoversNothingYet ==
  ASSUME NEW r, NEW tree
  PROVE  Covers(r, tree, About(tree, r), <<>>)
BY DEF Covers

\* A visit adds the operation about the mapping.
LEMMA CoversVisited ==
  ASSUME NEW r \in Requests, NEW tree, tree \subseteq Mappings, Tree(tree),
         NEW cur, NEW list \in Seq(Operations), Covers(r, tree, cur, list), NEW va \in cur,
         NEW longer, longer = Append(list, OpFor(va, r))
  PROVE  longer \in Seq(Operations) /\ Covers(r, tree, cur \ {va}, longer)
<1>1. va \in About(tree, r) /\ va \in Mappings /\ IsRange(va) /\ (r.kind = "bo_unmap" \/ Overlaps(va, r))
  BY DEF Covers, About, Tree
<1> DEFINE op == OpFor(va, r)
<1>2. op \in Operations /\ op.va = va /\ op.op # "map"
  BY <1>1, OpForIs
<1> HIDE DEF op
<1>3. longer = Append(list, op)
  BY DEF op
<1> DEFINE n == Len(list)
<1>4. /\ longer \in Seq(Operations) /\ DOMAIN list = 1 .. n /\ DOMAIN longer = 1 .. n + 1 /\ n \in Nat
      /\ \A i \in 1 .. n : longer[i] = list[i] /\ i # n + 1
      /\ longer[n + 1] = op
  BY <1>2, <1>3, Appended
<1> HIDE DEF n
<1>5. \A i \in 1 .. n : list[i].op # "map" /\ list[i].va \in About(tree, r) \ cur
                        /\ list[i] = OpFor(list[i].va, r)
  BY <1>4 DEF Covers
<1>6. \A i \in 1 .. n + 1 : i \in 1 .. n \/ i = n + 1
  BY <1>4
<1>7. ASSUME NEW i \in DOMAIN longer
      PROVE  /\ longer[i].op # "map"
             /\ longer[i].va \in About(tree, r) \ (cur \ {va}) /\ longer[i] = OpFor(longer[i].va, r)
  <2>1. CASE i \in 1 .. n
    BY <1>4, <1>5, <2>1
  <2>2. CASE i = n + 1
    BY <1>1, <1>2, <1>4, <2>2 DEF op
  <2> QED
    BY <1>4, <1>6, <2>1, <2>2
<1>8. ASSUME NEW i \in DOMAIN longer, NEW j \in DOMAIN longer, longer[i].va = longer[j].va
      PROVE  i = j
  <2>1. CASE i \in 1 .. n /\ j \in 1 .. n
    BY <1>4, <1>5, <1>8, <2>1 DEF Covers
  <2>2. CASE i = n + 1 /\ j \in 1 .. n
    BY <1>2, <1>4, <1>5, <1>8, <2>2
  <2>3. CASE i \in 1 .. n /\ j = n + 1
    BY <1>2, <1>4, <1>5, <1>8, <2>3
  <2> QED
    BY <1>4, <1>6, <2>1, <2>2, <2>3
<1>9. ASSUME NEW v \in About(tree, r) \ (cur \ {va})
      PROVE  \E i \in DOMAIN longer : longer[i].op # "map" /\ longer[i].va = v
  <2>1. CASE v = va
    <3>1. n + 1 \in DOMAIN longer
      BY <1>4
    <3> QED
      BY <1>2, <1>4, <2>1, <3>1
  <2>2. CASE v # va
    <3>1. PICK i \in DOMAIN list : list[i].op # "map" /\ list[i].va = v
      BY <2>2 DEF Covers
    <3>2. i \in DOMAIN longer /\ longer[i] = list[i]
      BY <1>4
    <3> QED
      BY <3>1, <3>2
  <2> QED
    BY <2>1, <2>2
<1>10. cur \ {va} \subseteq About(tree, r)
  BY DEF Covers
<1> QED
  BY <1>4, <1>7, <1>8, <1>9, <1>10 DEF Covers

\* The map operation is added when there is nothing left to visit.
LEMMA CoversMapped ==
  ASSUME NEW r \in Requests, r.kind = "map", NEW tree,
         NEW list \in Seq(Operations), Covers(r, tree, {}, list), ~HasMap(list),
         NEW longer, longer = Append(list, MapOp(r))
  PROVE  longer \in Seq(Operations) /\ Covers(r, tree, {}, longer) /\ HasMap(longer)
<1> DEFINE op == MapOp(r)
<1>2. op \in Operations /\ op.op = "map"
  BY MapOpIs
<1> HIDE DEF op
<1>3. longer = Append(list, op)
  BY DEF op
<1> DEFINE n == Len(list)
<1>4. /\ longer \in Seq(Operations) /\ DOMAIN list = 1 .. n /\ DOMAIN longer = 1 .. n + 1 /\ n \in Nat
      /\ \A i \in 1 .. n : longer[i] = list[i] /\ i # n + 1
      /\ longer[n + 1] = op /\ Len(longer) = n + 1
  BY <1>2, <1>3, Appended
<1> HIDE DEF n
<1>5. \A i \in 1 .. n : list[i].op # "map" /\ list[i].va \in About(tree, r) \ {}
                        /\ list[i] = OpFor(list[i].va, r)
  BY <1>4 DEF Covers, HasMap
<1>6. \A i \in 1 .. n + 1 : i \in 1 .. n \/ i = n + 1
  BY <1>4
<1>7. ASSUME NEW i \in DOMAIN longer
      PROVE  IF longer[i].op = "map"
             THEN r.kind = "map" /\ longer[i] = MapOp(r) /\ i = Len(longer) /\ {} = {}
             ELSE longer[i].va \in About(tree, r) \ {} /\ longer[i] = OpFor(longer[i].va, r)
  <2>1. CASE i \in 1 .. n
    BY <1>4, <1>5, <2>1
  <2>2. CASE i = n + 1
    BY <1>2, <1>4, <2>2 DEF op
  <2> QED
    BY <1>4, <1>6, <2>1, <2>2
<1>8. ASSUME NEW i \in DOMAIN longer, NEW j \in DOMAIN longer,
             longer[i].op # "map", longer[j].op # "map", longer[i].va = longer[j].va
      PROVE  i = j
  <2>1. i \in 1 .. n /\ j \in 1 .. n
    BY <1>2, <1>4, <1>6, <1>8
  <2> QED
    BY <1>4, <1>5, <1>8, <2>1 DEF Covers
<1>9. ASSUME NEW v \in About(tree, r) \ {}
      PROVE  \E i \in DOMAIN longer : longer[i].op # "map" /\ longer[i].va = v
  <2>1. PICK i \in DOMAIN list : list[i].op # "map" /\ list[i].va = v
    BY DEF Covers
  <2>2. i \in DOMAIN longer /\ longer[i] = list[i]
    BY <1>4
  <2> QED
    BY <2>1, <2>2
<1>10. HasMap(longer)
  <2>1. n + 1 \in DOMAIN longer
    BY <1>4
  <2> QED
    BY <1>2, <1>4, <2>1 DEF HasMap
<1> QED
  BY <1>4, <1>7, <1>8, <1>9, <1>10 DEF Covers

-----------------------------------------------------------------------------
(* Processing a list.                                                      *)

\* One operation more adds what it takes and what it leaves.
LEMMA OneMore ==
  ASSUME NEW list, NEW n \in Nat
  PROVE  /\ Gone(list, 0) = {} /\ Come(list, 0) = {}
         /\ Gone(list, n + 1) = Gone(list, n) \cup OldOf(list[n + 1])
         /\ Come(list, n + 1) = Come(list, n) \cup NewOf(list[n + 1])
<1>1. \A i : i \in 1 .. n + 1 <=> (i \in 1 .. n \/ i = n + 1)
  OBVIOUS
<1>2. 1 .. 0 = {}
  OBVIOUS
<1>3. Gone(list, n + 1) = Gone(list, n) \cup OldOf(list[n + 1])
  BY <1>1 DEF Gone
<1>4. Come(list, n + 1) = Come(list, n) \cup NewOf(list[n + 1])
  BY <1>1 DEF Come
<1> QED
  BY <1>2, <1>3, <1>4 DEF Gone, Come

\* A list that covers a request, the request and the tree it was made from.
MadeFrom(r, tree, list) ==
    /\ r \in Requests /\ RangeValid(r.addr, r.range)
    /\ Tree(tree) /\ tree \subseteq Mappings
    /\ list \in Seq(Operations) /\ Covers(r, tree, {}, list)

\* Each operation but the map is about a mapping of the tree, no two about one.
LEMMA OperationIs ==
  ASSUME NEW r, NEW tree, NEW list, MadeFrom(r, tree, list), NEW i \in DOMAIN list, list[i].op # "map"
  PROVE  /\ list[i].va \in tree /\ list[i].va \in Mappings /\ IsRange(list[i].va)
         /\ r.kind = "bo_unmap" \/ Overlaps(list[i].va, r)
         /\ r.kind = "bo_unmap" => list[i].va.obj = r.obj
         /\ list[i] = OpFor(list[i].va, r)
<1>1. list[i].va \in About(tree, r) /\ list[i] = OpFor(list[i].va, r)
  BY DEF MadeFrom, Covers
<1> QED
  BY <1>1 DEF MadeFrom, About, Tree

\* What an operation but the map leaves lies within its mapping, on one side of the
\* request's range.
LEMMA LeftIs ==
  ASSUME NEW r, NEW tree, NEW list, MadeFrom(r, tree, list), NEW i \in DOMAIN list, list[i].op # "map",
         NEW p \in NewOf(list[i])
  PROVE  /\ r.kind \in {"map", "unmap"} /\ OldOf(list[i]) = {list[i].va}
         /\ p \in Before(list[i].va, r) \cup After(list[i].va, r)
         /\ PartOf(p, list[i].va) /\ Apart(p, r) /\ p # list[i].va
         /\ \A v \in tree : v # list[i].va => Apart(p, v)
         /\ p \notin tree
<1>1. /\ list[i].va \in tree /\ list[i].va \in Mappings /\ IsRange(list[i].va)
      /\ r.kind = "bo_unmap" \/ Overlaps(list[i].va, r)
      /\ list[i] = OpFor(list[i].va, r)
  BY OperationIs
<1>2. r \in Requests /\ IsRange(r) /\ r.kind \in Kinds /\ Tree(tree)
  BY RequestIs DEF MadeFrom
<1> DEFINE va == list[i].va
<1> HIDE DEF va
<1>3. va \in tree /\ va \in Mappings /\ IsRange(va) /\ (r.kind = "bo_unmap" \/ Overlaps(va, r))
      /\ list[i] = OpFor(va, r)
  BY <1>1 DEF va
<1>4. r.kind \in {"map", "unmap"} /\ OldOf(list[i]) = {va} /\ p \in Before(va, r) \cup After(va, r)
  BY <1>2, <1>3, OpForIs DEF Kinds
<1>5. va.offset \in Nat /\ Overlaps(va, r)
  BY <1>3, <1>4 DEF Mappings
<1>6. PartOf(p, va) /\ (End(p) = r.addr \/ p.addr = End(r))
  BY <1>2, <1>3, <1>4, <1>5, PartsAre
<1>7. Apart(p, r)
  BY <1>2, <1>6 DEF Apart, PartOf, IsRange, End
<1>8. p # va
  BY <1>2, <1>3, <1>5, <1>6, <1>7, ApartIs
<1>9. ASSUME NEW v \in tree, v # va PROVE Apart(p, v)
  <2>1. Apart(v, va) /\ IsRange(v)
    BY <1>2, <1>3, <1>9 DEF Tree
  <2> QED
    BY <1>3, <1>6, <2>1 DEF Apart, PartOf, IsRange, End
<1>10. ~Apart(p, p)
  BY <1>6 DEF PartOf, IsRange, Apart, End
<1> QED
  BY <1>4, <1>6, <1>7, <1>8, <1>9, <1>10 DEF va

\* An operation that is still to come finds its mapping in the tree.
LEMMA StillThere ==
  ASSUME NEW r, NEW tree, NEW list, MadeFrom(r, tree, list), NEW n \in Nat,
         NEW i \in DOMAIN list, list[i].op # "map", n < i
  PROVE  list[i].va \in AfterOps(tree, list, n)
<1>1. list[i].va \in tree
  BY OperationIs
<1>2. ASSUME list[i].va \in Gone(list, n) PROVE FALSE
  <2>1. PICK j \in 1 .. n : list[i].va \in OldOf(list[j])
    BY <1>2 DEF Gone
  <2>2. list[j].op # "map" /\ list[j].va = list[i].va
    BY <2>1 DEF OldOf
  <2>3. DOMAIN list = 1 .. Len(list) /\ Len(list) \in Nat
    BY DEF MadeFrom
  <2>4. j \in DOMAIN list /\ j # i
    BY <2>3
  <2> QED
    BY <2>2, <2>4 DEF MadeFrom, Covers
<1> QED
  BY <1>1, <1>2 DEF AfterOps

\* What has come before the map operation was not there.
LEMMA ComeIsNew ==
  ASSUME NEW r, NEW tree, NEW list, MadeFrom(r, tree, list), NEW n \in Nat, n < Len(list),
         NEW p \in Come(list, n)
  PROVE  p \notin tree /\ Apart(p, r)
<1>1. PICK i \in 1 .. n : p \in NewOf(list[i])
  BY DEF Come
<1>2. DOMAIN list = 1 .. Len(list) /\ Len(list) \in Nat
  BY DEF MadeFrom
<1>a. i \in Nat /\ 1 <= i /\ i <= n
  BY <1>1
<1>b. 1 <= i /\ i < Len(list)
  BY <1>2, <1>a
<1>c. Len(list) \in Nat /\ DOMAIN list = 1 .. Len(list)
  BY <1>2
<1> DEFINE len == Len(list)
<1> HIDE DEF len
<1>d. len \in Nat /\ i < len
  BY <1>b, <1>c DEF len
<1>e. i \in 1 .. len /\ i # len
  BY <1>a, <1>d
<1>3. i \in DOMAIN list /\ i # Len(list)
  BY <1>c, <1>e DEF len
<1>4. list[i].op # "map"
  BY <1>3 DEF MadeFrom, Covers
<1> QED
  BY <1>1, <1>3, <1>4, LeftIs

\* Processing an operation does to the tree what it says, and nothing is refused.
LEMMA NextApplied ==
  ASSUME NEW r, NEW tree, NEW list, MadeFrom(r, tree, list), NEW n \in Nat, n < Len(list),
         NEW old, old = AfterOps(tree, list, n), Tree(old), old \subseteq Mappings,
         NEW new, new = Applied(old, list[n + 1])
  PROVE  new = AfterOps(tree, list, n + 1) /\ Tree(new) /\ new \subseteq Mappings
<1> DEFINE op == list[n + 1]
<1>1. n + 1 \in DOMAIN list /\ op \in Operations
  BY DEF MadeFrom
<1> DEFINE gone == Gone(list, n)
           come == Come(list, n)
<1>2. old = (tree \ gone) \cup come
      /\ AfterOps(tree, list, n + 1) = (tree \ (gone \cup OldOf(op))) \cup (come \cup NewOf(op))
  BY OneMore DEF AfterOps
<1>3. come \cap tree = {}
  BY ComeIsNew
<1>4. r \in Requests /\ IsRange(r) /\ r.kind \in Kinds /\ RangeValid(r.addr, r.range)
  BY RequestIs DEF MadeFrom
<1>5. \A p \in come : Apart(p, r)
  BY ComeIsNew
<1>6. CASE op.op # "map"
  <2> DEFINE va == op.va
  <2>1. /\ va \in tree /\ va \in Mappings /\ IsRange(va) /\ (r.kind = "bo_unmap" \/ Overlaps(va, r))
        /\ op = OpFor(va, r)
    BY <1>1, <1>6, OperationIs
  <2>2. va \in old
    BY <1>1, <1>6, StillThere
  <2>3. new = Applied(old, op)
    OBVIOUS
  <2> HIDE DEF op, va, gone, come
  <2>4. CASE r.kind = "prefetch"
    <3>1. OldOf(op) = {} /\ NewOf(op) = {} /\ op.op # "map"
      BY <1>4, <2>1, <2>4, OpForIs
    <3>2. op.op = "prefetch"
      BY <1>1, <3>1 DEF Operations, OldOf
    <3>3. new = old
      BY <2>3, <3>2 DEF Applied
    <3> QED
      BY <1>2, <3>1, <3>3
  <2>5. CASE r.kind = "bo_unmap"
    <3>1. OldOf(op) = {va} /\ NewOf(op) = {} /\ op.op = "unmap" /\ op.va = va
      BY <1>4, <2>1, <2>5, OpForIs
    <3>2. new = old \ {va}
      BY <2>3, <3>1 DEF Applied
    <3>3. Tree(old \ {va}) /\ old \ {va} \subseteq Mappings
      BY Removed
    <3>4. Tree(new) /\ new \subseteq Mappings
      BY <3>2, <3>3
    <3>5. new = (tree \ (gone \cup OldOf(op))) \cup (come \cup NewOf(op))
      BY <1>2, <1>3, <2>1, <3>1, <3>2
    <3> QED
      BY <1>2, <3>4, <3>5
  <2>6. CASE r.kind \in {"map", "unmap"}
    <3>1. /\ OldOf(op) = {va} /\ op.prev = Before(va, r) /\ op.next = After(va, r)
          /\ NewOf(op) = Before(va, r) \cup After(va, r) /\ op.va = va
          /\ op.op = IF NeedsPrev(va, r) \/ NeedsNext(va, r) THEN "remap" ELSE "unmap"
          /\ Overlaps(va, r)
      BY <1>4, <2>1, <2>6, OpForIs
    <3>2. Before(va, r) \cup After(va, r) \subseteq Mappings
      BY <1>1, <3>1 DEF Operations
    <3>3. va.offset \in Nat
      BY <2>1 DEF Mappings
    <3>4. new = (old \ {va}) \cup Before(va, r) \cup After(va, r) /\ Tree(new)
      <4>1. CASE op.op = "unmap"
        <5>1. Before(va, r) = {} /\ After(va, r) = {}
          BY <3>1, <4>1 DEF Before, After
        <5>2. new = old \ {va}
          BY <2>3, <3>1, <4>1 DEF Applied
        <5>3. Tree(old \ {va})
          BY Removed
        <5>4. (old \ {va}) \cup {} \cup {} = old \ {va}
          OBVIOUS
        <5> QED
          BY <5>1, <5>2, <5>3, <5>4
      <4>2. CASE op.op = "remap"
        <5> DEFINE tree1 == With(old \ {va}, Before(va, r))
                   tree2 == With(tree1, After(va, r))
        <5>1. tree1 = With(old \ {va}, Before(va, r)) /\ tree2 = With(tree1, After(va, r))
          OBVIOUS
        <5> HIDE DEF tree1, tree2
        <5>2. new = tree2
          <6>1. Applied(old, op) = With(With(old \ {op.va}, op.prev), op.next)
            BY <4>2 DEF Applied, With
          <6> QED
            BY <2>3, <3>1, <5>1, <6>1
        <5>3. Overlaps(va, r)
          BY <3>1
        <5>c. tree1 = With(old \ {va}, Before(va, r))
          BY <5>1
        <5>d. tree2 = With(tree1, After(va, r))
          BY <5>1
        <5>e. IsRange(r) /\ r.kind \in {"map", "unmap"} /\ va \in old /\ va.offset \in Nat
          BY <1>4, <2>2, <2>6, <3>3
        <5>4. tree2 = (old \ {va}) \cup Before(va, r) \cup After(va, r) /\ Tree(tree2)
          BY <5>e, <5>c, <5>d, <5>3, SplitTree
        <5> QED
          BY <5>2, <5>4
      <4> QED
        BY <3>1, <4>1, <4>2
    <3>5. new \subseteq Mappings
      BY <3>2, <3>4
    <3>6. (old \ {va}) \cup Before(va, r) \cup After(va, r)
          = (tree \ (gone \cup {va})) \cup (come \cup (Before(va, r) \cup After(va, r)))
      BY <1>2, <1>3, <2>1
    <3> QED
      BY <1>2, <3>1, <3>4, <3>5, <3>6
  <2> QED
    BY <1>4, <2>4, <2>5, <2>6 DEF Kinds
<1>7. CASE op.op = "map"
  <2>1. r.kind = "map" /\ op = MapOp(r) /\ n + 1 = Len(list)
    BY <1>1, <1>7 DEF MadeFrom, Covers
  <2> DEFINE m == MapOp(r).va
  <2>2. /\ m.addr = r.addr /\ m.range = r.range /\ OldOf(op) = {} /\ NewOf(op) = {m}
        /\ op.op = "map" /\ op.va = m /\ m \in Mappings
    BY <1>1, <1>4, <2>1, MapOpIs DEF Operations
  <2>3. ASSUME NEW v \in tree \ gone PROVE Apart(v, r)
    <3>1. IsRange(v)
      BY DEF MadeFrom, Tree
    <3>2. ~Overlaps(v, r)
      <4> SUFFICES ASSUME Overlaps(v, r) PROVE FALSE
        OBVIOUS
      <4>1. v \in About(tree, r) \ {}
        BY <2>1 DEF About
      <4>2. PICK i \in DOMAIN list : list[i].op # "map" /\ list[i].va = v
        BY <4>1 DEF MadeFrom, Covers
      <4>3. DOMAIN list = 1 .. Len(list)
        BY DEF MadeFrom
      <4>4. i \in 1 .. n
        BY <1>7, <2>1, <4>2, <4>3
      <4>5. OldOf(list[i]) = {v}
        <5>1. list[i] = OpFor(v, r) /\ v \in Mappings
          BY <4>2, OperationIs
        <5> QED
          BY <1>4, <2>1, <3>1, <5>1, OpForIs
      <4> QED
        BY <4>4, <4>5 DEF Gone
    <3> QED
      BY <1>4, <3>1, <3>2, ApartIs
  <2>4. \A v \in old : Apart(v, r)
    BY <1>2, <1>5, <2>3
  <2> HIDE DEF m
  <2>5. IsRange(m) /\ RangeValid(m.addr, m.range) /\ \A v \in old : Apart(v, m)
    BY <1>4, <2>2, <2>4 DEF IsRange, Apart, End
  <2>6. new = Insert(old, m)
    BY <2>2 DEF Applied
  <2>7. Insert(old, m) = old \cup {m} /\ Tree(old \cup {m})
    BY <2>5, Inserted
  <2> QED
    BY <1>2, <2>2, <2>6, <2>7
<1> QED
  BY <1>6, <1>7


-----------------------------------------------------------------------------
(* What a list is about.                                                   *)

\* A set with at most two elements.
LEMMA TwoAtMost ==
  ASSUME NEW S, NEW x, NEW y, S \subseteq {x, y}
  PROVE  Cardinality(S) <= 2
<1>1. IsFiniteSet({x}) /\ Cardinality({x}) = 1
  BY FS_Singleton
<1>2. /\ IsFiniteSet({x} \cup {y})
      /\ Cardinality({x} \cup {y}) = 1 \/ Cardinality({x} \cup {y}) = 1 + 1
  BY <1>1, FS_AddElement
<1>3. {x} \cup {y} = {x, y}
  OBVIOUS
<1>4. IsFiniteSet({x, y}) /\ (Cardinality({x, y}) = 1 \/ Cardinality({x, y}) = 1 + 1)
  BY <1>2, <1>3
<1>5. IsFiniteSet(S) /\ Cardinality(S) <= Cardinality({x, y})
  BY <1>4, FS_Subset
<1>6. Cardinality(S) \in Nat
  BY <1>5, FS_CardinalityType
<1> QED
  BY <1>4, <1>5, <1>6

\* Of the mappings a range overlaps one at most begins before it, and one at most
\* ends behind it.
LEMMA OneEachSide ==
  ASSUME NEW tree, Tree(tree), NEW r, IsRange(r), NEW v \in tree, NEW w \in tree,
         Overlaps(v, r), Overlaps(w, r),
         \/ NeedsPrev(v, r) /\ NeedsPrev(w, r)
         \/ NeedsNext(v, r) /\ NeedsNext(w, r)
  PROVE  v = w
<1>1. IsRange(v) /\ IsRange(w) /\ (v # w => Apart(v, w))
  BY DEF Tree
<1>2. /\ v.addr \in Nat /\ End(v) \in Nat /\ w.addr \in Nat /\ End(w) \in Nat
      /\ r.addr \in Nat /\ End(r) \in Nat /\ r.addr < End(r)
  BY <1>1 DEF IsRange, End
<1> QED
  BY <1>1, <1>2 DEF Apart, Overlaps, NeedsPrev, NeedsNext

\* A list has two operations that split a mapping at most.
LEMMA RemapsAtMostTwo ==
  ASSUME NEW r, NEW tree, NEW list, MadeFrom(r, tree, list)
  PROVE  Cardinality({i \in DOMAIN list : list[i].op = "remap"}) <= 2
<1> DEFINE S == {i \in DOMAIN list : list[i].op = "remap"}
           P == {i \in S : NeedsPrev(list[i].va, r)}
           N == {i \in S : NeedsNext(list[i].va, r)}
<1>1. r \in Requests /\ IsRange(r) /\ r.kind \in Kinds /\ Tree(tree)
  BY RequestIs DEF MadeFrom
<1>2. ASSUME NEW i \in S
      PROVE  /\ list[i].va \in tree /\ Overlaps(list[i].va, r)
             /\ NeedsPrev(list[i].va, r) \/ NeedsNext(list[i].va, r)
  <2> DEFINE va == list[i].va
  <2>1. /\ va \in tree /\ va \in Mappings /\ IsRange(va)
        /\ r.kind = "bo_unmap" \/ Overlaps(va, r)
        /\ list[i] = OpFor(va, r) /\ list[i].op = "remap"
    BY OperationIs
  <2> HIDE DEF va
  <2>2. r.kind # "prefetch" /\ r.kind # "bo_unmap"
    BY <1>1, <2>1, OpForIs DEF OldOf, OpFor
  <2>3. Overlaps(va, r) /\ (NeedsPrev(va, r) \/ NeedsNext(va, r))
    BY <1>1, <2>1, <2>2, OpForIs DEF Kinds
  <2> QED
    BY <2>1, <2>3 DEF va
<1>3. ASSUME NEW i \in S, NEW j \in S, list[i].va = list[j].va PROVE i = j
  BY <1>3 DEF MadeFrom, Covers
<1>4. ASSUME NEW i \in P, NEW j \in P PROVE i = j
  <2>1. list[i].va = list[j].va
    BY <1>1, <1>2, OneEachSide
  <2> QED
    BY <1>3, <2>1
<1>5. ASSUME NEW i \in N, NEW j \in N PROVE i = j
  <2>1. list[i].va = list[j].va
    BY <1>1, <1>2, OneEachSide
  <2> QED
    BY <1>3, <2>1
<1>6. S \subseteq P \cup N
  BY <1>2
<1> HIDE DEF S, P, N
<1>7. \E x : P \subseteq {x}
  BY <1>4
<1>8. \E y : N \subseteq {y}
  BY <1>5
<1>9. PICK x, y : P \subseteq {x} /\ N \subseteq {y}
  BY <1>7, <1>8
<1>10. S \subseteq {x, y}
  BY <1>6, <1>9
<1> QED
  BY <1>10, TwoAtMost DEF S

-----------------------------------------------------------------------------
(* What a list does in the end.                                            *)

\* Without the map operation a list takes all that a request is about, or nothing.
LEMMA AllGone ==
  ASSUME NEW r, NEW tree, NEW list, MadeFrom(r, tree, list)
  PROVE  Gone(list, Len(list)) = IF r.kind = "prefetch" THEN {} ELSE About(tree, r)
<1>1. r \in Requests /\ IsRange(r) /\ r.kind \in Kinds /\ Tree(tree) /\ DOMAIN list = 1 .. Len(list)
  BY RequestIs DEF MadeFrom
<1>2. ASSUME NEW i \in DOMAIN list, list[i].op # "map"
      PROVE  OldOf(list[i]) = IF r.kind = "prefetch" THEN {} ELSE {list[i].va}
  <2> DEFINE va == list[i].va
  <2>1. va \in Mappings /\ IsRange(va) /\ (r.kind = "bo_unmap" \/ Overlaps(va, r)) /\ list[i] = OpFor(va, r)
    BY <1>2, OperationIs
  <2> HIDE DEF va
  <2>2. OldOf(list[i]) = IF r.kind = "prefetch" THEN {} ELSE {va}
    BY <1>1, <2>1, OpForIs
  <2> QED
    BY <2>2 DEF va
<1>3. ASSUME NEW i \in DOMAIN list, list[i].op = "map" PROVE OldOf(list[i]) = {}
  BY <1>3 DEF OldOf
<1>4. CASE r.kind = "prefetch"
  <2>1. \A i \in 1 .. Len(list) : OldOf(list[i]) = {}
    BY <1>1, <1>2, <1>3, <1>4
  <2> QED
    BY <1>4, <2>1 DEF Gone
<1>5. CASE r.kind # "prefetch"
  <2>1. ASSUME NEW v \in About(tree, r) PROVE v \in Gone(list, Len(list))
    <3>1. v \in About(tree, r) \ {}
      OBVIOUS
    <3>2. PICK i \in DOMAIN list : list[i].op # "map" /\ list[i].va = v
      BY <3>1 DEF MadeFrom, Covers
    <3>3. OldOf(list[i]) = {v}
      BY <1>2, <1>5, <3>2
    <3> QED
      BY <1>1, <3>3 DEF Gone
  <2>2. ASSUME NEW v \in Gone(list, Len(list)) PROVE v \in About(tree, r)
    <3>1. PICK i \in 1 .. Len(list) : v \in OldOf(list[i])
      BY DEF Gone
    <3>2. i \in DOMAIN list /\ list[i].op # "map" /\ v = list[i].va
      BY <1>1, <1>2, <1>3, <1>5, <3>1
    <3> QED
      BY <3>2 DEF MadeFrom, Covers
  <2> QED
    BY <1>5, <2>1, <2>2
<1> QED
  BY <1>4, <1>5

\* What comes are the parts of the mappings, and the mapping asked for.
LEMMA AllCome ==
  ASSUME NEW r, NEW tree, NEW list, MadeFrom(r, tree, list), r.kind = "map" => HasMap(list)
  PROVE  /\ r.kind \in {"prefetch", "bo_unmap"} => Come(list, Len(list)) = {}
         /\ r.kind \in {"map", "unmap"} =>
              Come(list, Len(list)) = (IF r.kind = "map" THEN {MapOp(r).va} ELSE {})
                                      \cup UNION {Before(v, r) \cup After(v, r) : v \in About(tree, r)}
<1>1. r \in Requests /\ IsRange(r) /\ r.kind \in Kinds /\ Tree(tree) /\ DOMAIN list = 1 .. Len(list)
  BY RequestIs DEF MadeFrom
<1>2. ASSUME NEW i \in DOMAIN list, list[i].op # "map"
      PROVE  NewOf(list[i]) = IF r.kind \in {"map", "unmap"}
                              THEN Before(list[i].va, r) \cup After(list[i].va, r) ELSE {}
  <2> DEFINE va == list[i].va
  <2>1. va \in Mappings /\ IsRange(va) /\ (r.kind = "bo_unmap" \/ Overlaps(va, r)) /\ list[i] = OpFor(va, r)
    BY <1>2, OperationIs
  <2> HIDE DEF va
  <2>2. NewOf(list[i]) = IF r.kind \in {"map", "unmap"} THEN Before(va, r) \cup After(va, r) ELSE {}
    BY <1>1, <2>1, OpForIs DEF Kinds
  <2> QED
    BY <2>2 DEF va
<1>3. ASSUME NEW i \in DOMAIN list, list[i].op = "map"
      PROVE  r.kind = "map" /\ NewOf(list[i]) = {MapOp(r).va}
  <2>1. r.kind = "map" /\ list[i] = MapOp(r)
    BY <1>3 DEF MadeFrom, Covers
  <2> QED
    BY <1>1, <2>1, MapOpIs
<1>4. CASE r.kind \in {"prefetch", "bo_unmap"}
  <2>1. \A i \in 1 .. Len(list) : NewOf(list[i]) = {}
    BY <1>1, <1>2, <1>3, <1>4
  <2> QED
    BY <1>4, <2>1 DEF Come
<1>5. CASE r.kind \in {"map", "unmap"}
  <2> DEFINE all == UNION {Before(v, r) \cup After(v, r) : v \in About(tree, r)}
             own == IF r.kind = "map" THEN {MapOp(r).va} ELSE {}
  <2>1. ASSUME NEW p \in Come(list, Len(list)) PROVE p \in own \cup all
    <3>1. PICK i \in 1 .. Len(list) : p \in NewOf(list[i])
      BY DEF Come
    <3>2. CASE list[i].op = "map"
      BY <1>1, <1>3, <3>1, <3>2
    <3>3. CASE list[i].op # "map"
      <4>1. p \in Before(list[i].va, r) \cup After(list[i].va, r)
        BY <1>1, <1>2, <1>5, <3>1, <3>3
      <4>2. list[i].va \in About(tree, r)
        BY <1>1, <3>3 DEF MadeFrom, Covers
      <4> QED
        BY <4>1, <4>2
    <3> QED
      BY <3>2, <3>3
  <2>2. ASSUME NEW p \in all PROVE p \in Come(list, Len(list))
    <3>1. PICK v \in About(tree, r) : p \in Before(v, r) \cup After(v, r)
      OBVIOUS
    <3>2. v \in About(tree, r) \ {}
      OBVIOUS
    <3>3. PICK i \in DOMAIN list : list[i].op # "map" /\ list[i].va = v
      BY <3>2 DEF MadeFrom, Covers
    <3>4. p \in NewOf(list[i])
      BY <1>2, <1>5, <3>1, <3>3
    <3> QED
      BY <1>1, <3>4 DEF Come
  <2>3. ASSUME NEW p \in own PROVE p \in Come(list, Len(list))
    <3>1. r.kind = "map" /\ p = MapOp(r).va
      OBVIOUS
    <3>2. PICK i \in DOMAIN list : list[i].op = "map"
      BY <3>1 DEF HasMap
    <3>3. p \in NewOf(list[i])
      BY <1>3, <3>1, <3>2
    <3> QED
      BY <1>1, <3>3 DEF Come
  <2> HIDE DEF all, own
  <2>4. Come(list, Len(list)) = own \cup all
    BY <2>1, <2>2, <2>3
  <2> QED
    BY <1>5, <2>4 DEF all, own
<1> QED
  BY <1>1, <1>4, <1>5 DEF Kinds

\* The translation asked for, of the tree a list was made from.
WantedOf(r, tree, a) ==
    CASE r.kind = "map" /\ a \in Cover(r) ->
            {[obj |-> r.obj, page |-> r.offset + (a - r.addr)]}
      [] r.kind = "unmap" /\ a \in Cover(r) -> {}
      [] r.kind = "bo_unmap" -> {t \in Translate(tree, a) : t.obj # r.obj}
      [] OTHER -> Translate(tree, a)

\* A mapping and a part of it translate an address alike, and every address of a
\* mapping that the request's range leaves out is in a part.
LEMMA PartTranslates ==
  ASSUME NEW va, IsRange(va), va.offset \in Nat, NEW r, IsRange(r), r.kind \in {"map", "unmap"},
         Overlaps(va, r), NEW a \in Nat
  PROVE  /\ \A p \in Before(va, r) \cup After(va, r) : a \in Cover(p) =>
              /\ a \in Cover(va) /\ a \notin Cover(r)
              /\ p.obj = va.obj /\ p.offset + (a - p.addr) = va.offset + (a - va.addr)
         /\ a \in Cover(va) /\ a \notin Cover(r) =>
              \E p \in Before(va, r) \cup After(va, r) : a \in Cover(p)
<1>1. /\ va.addr \in Nat /\ End(va) \in Nat /\ r.addr \in Nat /\ End(r) \in Nat
      /\ va.addr < End(va) /\ r.addr < End(r)
  BY DEF IsRange, End
<1>2. /\ \A p \in Before(va, r) : PartOf(p, va) /\ p.addr = va.addr /\ End(p) = r.addr
      /\ \A p \in After(va, r) : PartOf(p, va) /\ p.addr = End(r) /\ End(p) = End(va)
  BY PartsAre
<1>3. ASSUME NEW p \in Before(va, r) \cup After(va, r), a \in Cover(p)
      PROVE  /\ a \in Cover(va) /\ a \notin Cover(r)
             /\ p.obj = va.obj /\ p.offset + (a - p.addr) = va.offset + (a - va.addr)
  <2>1. PartOf(p, va) /\ (End(p) = r.addr \/ p.addr = End(r))
    BY <1>2
  <2>2. p.addr \in Nat /\ End(p) \in Nat /\ p.addr <= a /\ a < End(p)
    BY <1>3, <2>1 DEF PartOf, IsRange, End, Cover
  <2>3. p.obj = va.obj /\ p.offset = va.offset + (p.addr - va.addr) /\ va.addr <= p.addr /\ End(p) <= End(va)
    BY <2>1 DEF PartOf
  <2>4. a \in Cover(va) /\ a \notin Cover(r)
    BY <1>1, <2>1, <2>2, <2>3 DEF Cover
  <2>5. p.offset + (a - p.addr) = va.offset + (a - va.addr)
    BY <1>1, <2>2, <2>3
  <2> QED
    BY <2>3, <2>4, <2>5
<1>4. ASSUME a \in Cover(va), a \notin Cover(r)
      PROVE  \E p \in Before(va, r) \cup After(va, r) : a \in Cover(p)
  <2>1. va.addr <= a /\ a < End(va) /\ (a < r.addr \/ End(r) <= a)
    BY <1>1, <1>4 DEF Cover
  <2>2. CASE a < r.addr
    <3>1. NeedsPrev(va, r)
      BY <1>1, <2>1, <2>2 DEF NeedsPrev
    <3>2. PICK p \in Before(va, r) : TRUE
      BY <3>1 DEF Before
    <3>3. p.addr = va.addr /\ End(p) = r.addr
      BY <1>2
    <3> QED
      BY <1>1, <2>1, <2>2, <3>2, <3>3 DEF Cover
  <2>3. CASE End(r) <= a
    <3>1. NeedsNext(va, r)
      BY <1>1, <2>1, <2>3 DEF NeedsNext
    <3>2. PICK p \in After(va, r) : TRUE
      BY <3>1 DEF After
    <3>3. p.addr = End(r) /\ End(p) = End(va)
      BY <1>2
    <3> QED
      BY <1>1, <2>1, <2>3, <3>2, <3>3 DEF Cover
  <2> QED
    BY <2>1, <2>2, <2>3
<1> QED
  BY <1>3, <1>4

\* The translation of an address by one mapping.
Page(v, a) == [obj |-> v.obj, page |-> v.offset + (a - v.addr)]

\* The translation of an address by a tree.
LEMMA TranslateIs ==
  ASSUME NEW tree, NEW a
  PROVE  Translate(tree, a) = {Page(v, a) : v \in {w \in tree : a \in Cover(w)}}
BY DEF Translate, Page

\* A list processed to its end has done to every address what is asked for.
LEMMA InTheEndWanted ==
  ASSUME NEW r, NEW tree, NEW list, MadeFrom(r, tree, list), r.kind = "map" => HasMap(list),
         NEW final, final = AfterOps(tree, list, Len(list)), NEW a \in Addrs
  PROVE  Translate(final, a) = WantedOf(r, tree, a)
<1>1. r \in Requests /\ IsRange(r) /\ r.kind \in Kinds /\ Tree(tree) /\ tree \subseteq Mappings
  BY RequestIs DEF MadeFrom
<1>2. a \in Nat
  BY DEF Addrs
<1>3. CASE r.kind = "prefetch"
  <2>1. final = (tree \ {}) \cup {}
    BY <1>3, AllGone, AllCome DEF AfterOps
  <2>2. final = tree
    BY <2>1
  <2> QED
    BY <1>3, <2>2 DEF WantedOf
<1>4. CASE r.kind = "bo_unmap"
  <2>1. final = (tree \ About(tree, r)) \cup {}
    BY <1>4, AllGone, AllCome DEF AfterOps
  <2>2. final = {v \in tree : v.obj # r.obj}
    BY <1>4, <2>1 DEF About
  <2>3. Translate(final, a) = {t \in Translate(tree, a) : t.obj # r.obj}
    <3>1. \A v : Page(v, a).obj = v.obj
      BY DEF Page
    <3>2. {Page(v, a) : v \in {w \in final : a \in Cover(w)}}
          = {t \in {Page(v, a) : v \in {w \in tree : a \in Cover(w)}} : t.obj # r.obj}
      BY <2>2, <3>1
    <3> QED
      BY <3>2, TranslateIs
  <2> QED
    BY <1>4, <2>3 DEF WantedOf
<1>5. CASE r.kind \in {"map", "unmap"}
  <2> DEFINE about == About(tree, r)
             parts == UNION {Before(v, r) \cup After(v, r) : v \in about}
             own == IF r.kind = "map" THEN {MapOp(r).va} ELSE {}
  <2>1. final = (tree \ about) \cup (own \cup parts)
    BY <1>5, AllGone, AllCome DEF AfterOps
  <2>2. \A v \in about : v \in tree /\ Overlaps(v, r) /\ IsRange(v) /\ v.offset \in Nat
    BY <1>1, <1>5 DEF About, Tree, Mappings
  <2>3. ASSUME NEW v \in tree \ about, a \in Cover(v) PROVE a \notin Cover(r)
    <3>1. IsRange(v) /\ ~Overlaps(v, r)
      BY <1>1, <1>5 DEF About, Tree
    <3>2. Cover(v) \cap Cover(r) = {}
      BY <1>1, <3>1, ApartIs
    <3> QED
      BY <2>3, <3>2
  <2>4. ASSUME NEW p \in parts, a \in Cover(p)
        PROVE  a \notin Cover(r) /\ \E v \in about : a \in Cover(v) /\ Page(p, a) = Page(v, a)
    <3>1. PICK v \in about : p \in Before(v, r) \cup After(v, r)
      OBVIOUS
    <3>2. v \in tree /\ Overlaps(v, r) /\ IsRange(v) /\ v.offset \in Nat
      BY <2>2
    <3>3. /\ a \in Cover(v) /\ a \notin Cover(r)
          /\ p.obj = v.obj /\ p.offset + (a - p.addr) = v.offset + (a - v.addr)
      BY <1>1, <1>2, <1>5, <2>4, <3>1, <3>2, PartTranslates
    <3> QED
      BY <3>3 DEF Page
  <2>5. ASSUME NEW v \in about, a \in Cover(v), a \notin Cover(r)
        PROVE  \E p \in parts : a \in Cover(p)
    <3>1. v \in tree /\ Overlaps(v, r) /\ IsRange(v) /\ v.offset \in Nat
      BY <2>2
    <3>2. PICK p \in Before(v, r) \cup After(v, r) : a \in Cover(p)
      BY <1>1, <1>2, <1>5, <2>5, <3>1, PartTranslates
    <3>3. p \in parts
      BY <3>2
    <3> QED
      BY <3>2, <3>3
  <2>6. \A m \in own : r.kind = "map" /\ Cover(m) = Cover(r)
                       /\ Page(m, a) = [obj |-> r.obj, page |-> r.offset + (a - r.addr)]
    BY <1>1, MapOpIs DEF Cover, End, Page
  <2>7. r.kind = "map" => \E m : own = {m}
    OBVIOUS
  <2>8. r.kind # "map" => own = {}
    OBVIOUS
  <2> HIDE DEF parts, own
  <2>9. CASE a \in Cover(r)
    <3>1. \A w \in final : a \in Cover(w) => w \in own
      BY <2>1, <2>3, <2>4, <2>9
    <3>2. {w \in final : a \in Cover(w)} = own
      BY <2>1, <2>6, <2>9, <3>1
    <3>3. Translate(final, a) = {Page(v, a) : v \in own}
      BY <3>2, TranslateIs
    <3>4. CASE r.kind = "map"
      <4>1. PICK m : own = {m}
        BY <2>7, <3>4
      <4>2. Translate(final, a) = {Page(m, a)}
        BY <3>3, <4>1
      <4>3. Page(m, a) = [obj |-> r.obj, page |-> r.offset + (a - r.addr)]
        BY <2>6, <4>1
      <4> QED
        BY <2>9, <3>4, <4>2, <4>3 DEF WantedOf
    <3>5. CASE r.kind = "unmap"
      <4>1. Translate(final, a) = {}
        BY <2>8, <3>3, <3>5
      <4> QED
        BY <2>9, <3>5, <4>1 DEF WantedOf
    <3> QED
      BY <1>5, <3>4, <3>5
  <2>10. CASE a \notin Cover(r)
    <3>1. ASSUME NEW w \in final, a \in Cover(w)
          PROVE  \E v \in tree : a \in Cover(v) /\ Page(w, a) = Page(v, a)
      <4>1. w \notin own
        BY <2>6, <2>10, <3>1
      <4> QED
        BY <2>1, <2>2, <2>4, <3>1, <4>1
    <3>2. ASSUME NEW v \in tree, a \in Cover(v)
          PROVE  \E w \in final : a \in Cover(w) /\ Page(w, a) = Page(v, a)
      <4>1. CASE v \notin about
        BY <2>1, <3>2, <4>1
      <4>2. CASE v \in about
        <5>1. PICK p \in parts : a \in Cover(p)
          BY <2>5, <2>10, <3>2, <4>2
        <5>2. PICK u \in about : a \in Cover(u) /\ Page(p, a) = Page(u, a)
          BY <2>4, <5>1
        <5>3. u = v
          <6>1. IsRange(u) /\ IsRange(v) /\ (u # v => Apart(u, v))
            BY <1>1, <2>2, <3>2 DEF Tree
          <6>2. Cover(u) \cap Cover(v) # {}
            BY <3>2, <5>2
          <6> QED
            BY <6>1, <6>2, ApartIs
        <5> QED
          BY <2>1, <5>1, <5>2, <5>3
      <4> QED
        BY <4>1, <4>2
    <3>3. {Page(v, a) : v \in {w \in final : a \in Cover(w)}}
          = {Page(v, a) : v \in {w \in tree : a \in Cover(w)}}
      BY <3>1, <3>2
    <3>4. Translate(final, a) = Translate(tree, a)
      BY <3>3, TranslateIs
    <3> QED
      BY <1>5, <2>10, <3>4 DEF WantedOf
  <2> QED
    BY <2>9, <2>10
<1> QED
  BY <1>1, <1>3, <1>4, <1>5 DEF Kinds

-----------------------------------------------------------------------------
(* The steps.                                                              *)

\* Only the thread that has a list does anything; the others have none.
LEMMA OthersRest ==
  ASSUME IInv, NEW c \in Callers, stage[c] # "idle" \/ \A d \in Callers : stage[d] = "idle",
         NEW d \in Callers, d # c
  PROVE  stage[d] = "idle" /\ Resting(d)
BY DEF IInv, Alone

\* A state in which one thread at most has a list, as it should be.
LEMMA Combine ==
  ASSUME Types', NEW c \in Callers,
         \A d \in Callers : d # c => stage'[d] = "idle" /\ Resting(d)',
         stage'[c] = "idle" => Resting(c)',
         stage'[c] \in {"walk", "made"} => Listed(c)' /\ Executed(c)'
  PROVE  IInv'
<1>1. Alone'
  BY DEF Alone
<1>2. \A d \in Callers : stage'[d] \in {"walk", "made"} => d = c
  OBVIOUS
<1> QED
  BY <1>1, <1>2 DEF IInv

\* Initially no thread has one.
LEMMA InitIInv == Init => IInv
<1> SUFFICES ASSUME Init PROVE IInv
  OBVIOUS
<1>1. Types
  <2>1. Tree({})
    BY DEF Tree
  <2> QED
    BY <2>1 DEF Init, Types
<1>2. Alone /\ \A c \in Callers : stage[c] = "idle" /\ Resting(c)
  BY DEF Init, Alone, Resting
<1> QED
  BY <1>1, <1>2 DEF IInv

\* Create(): nothing is listed yet, everything the request is about is to be visited.
LEMMA CreateStep ==
  ASSUME IInv, NEW c \in Callers, NEW r \in Requests, Create(c, r)
  PROVE  IInv'
<1>1. /\ \A d \in Callers : stage[d] = "idle"
      /\ RangeValid(r.addr, r.range)
      /\ request' = [request EXCEPT ![c] = r]
      /\ before' = [before EXCEPT ![c] = vas]
      /\ stage' = [stage EXCEPT ![c] = "walk"]
      /\ cursor' = [cursor EXCEPT ![c] = Visited(r)]
      /\ vas' = vas /\ ops' = ops /\ done' = done
  BY DEF Create
<1>2. Types
  BY DEF IInv
<1>3. Visited(r) = About(vas, r)
  BY DEF Visited, About
<1>4. Visited(r) \subseteq Mappings
  BY <1>2, <1>3 DEF Types, About
<1>5. Types'
  BY <1>1, <1>2, <1>4 DEF Types
<1>6. \A d \in Callers : d # c => stage'[d] = "idle" /\ Resting(d)'
  BY <1>1, <1>2, OthersRest DEF Types, Resting
<1>7. /\ request'[c] = r /\ before'[c] = vas /\ stage'[c] = "walk" /\ cursor'[c] = About(vas, r)
      /\ ops'[c] = <<>> /\ done'[c] = 0
  BY <1>1, <1>2, <1>3 DEF Types, IInv, Resting
<1>8. Listed(c)'
  <2>1. Covers(r, vas, About(vas, r), <<>>) /\ Len(<<>>) = 0
    BY CoversNothingYet
  <2> QED
    BY <1>1, <1>2, <1>7, <2>1 DEF Listed, Types
<1>9. Executed(c)'
  <2>1. AfterOps(vas, <<>>, 0) = (vas \ {}) \cup {}
    BY OneMore DEF AfterOps
  <2> QED
    BY <1>1, <1>7, <2>1 DEF Executed
<1> QED
  BY <1>5, <1>6, <1>7, <1>8, <1>9, Combine

\* drm_gpuva_sm_step(): the operation is at the end of the list, or the list is freed.
LEMMA AddOpDoes ==
  ASSUME NEW c \in Callers, NEW op, NEW rest, AddOp(c, op, rest), Types
  PROVE  /\ cursor' = [cursor EXCEPT ![c] = rest]
         /\ \/ ops' = [ops EXCEPT ![c] = Append(ops[c], op)] /\ stage' = stage
            \/ ops' = ops /\ stage' = [stage EXCEPT ![c] = "freeing"]
BY DEF AddOp

\* A step that adds an operation to a list.
LEMMA AddOpStep ==
  ASSUME IInv, NEW c \in Callers, stage[c] = "walk", NEW op \in Operations, NEW rest \in SUBSET Mappings,
         AddOp(c, op, rest), vas' = vas, request' = request, done' = done, before' = before,
         Covers(request[c], before[c], rest, Append(ops[c], op))
  PROVE  IInv'
<1>1. Types /\ Listed(c) /\ Executed(c)
  BY DEF IInv
<1>2. /\ cursor' = [cursor EXCEPT ![c] = rest]
      /\ \/ ops' = [ops EXCEPT ![c] = Append(ops[c], op)] /\ stage' = stage
         \/ ops' = ops /\ stage' = [stage EXCEPT ![c] = "freeing"]
  BY <1>1, AddOpDoes
<1>3. ops[c] \in Seq(Operations) /\ Append(ops[c], op) \in Seq(Operations)
  BY <1>1 DEF Types
<1>4. Types'
  BY <1>1, <1>2, <1>3 DEF Types
<1>5. \A d \in Callers : d # c => stage'[d] = "idle" /\ Resting(d)'
  BY <1>1, <1>2, OthersRest DEF Types, Resting
<1>6. CASE ops' = [ops EXCEPT ![c] = Append(ops[c], op)] /\ stage' = stage
  <2>1. /\ ops'[c] = Append(ops[c], op) /\ stage'[c] = "walk" /\ cursor'[c] = rest
        /\ done'[c] = 0 /\ done[c] = 0
    BY <1>1, <1>2, <1>6 DEF Types, Listed
  <2>2. 0 <= Len(Append(ops[c], op))
    BY <1>3
  <2>3. Listed(c)'
    BY <1>1, <2>1, <2>2 DEF Listed
  <2>4. AfterOps(before[c], ops[c], 0) = (before[c] \ {}) \cup {}
    BY OneMore DEF AfterOps
  <2>5. AfterOps(before[c], Append(ops[c], op), 0) = (before[c] \ {}) \cup {}
    BY OneMore DEF AfterOps
  <2>6. Executed(c)'
    BY <1>1, <2>1, <2>4, <2>5 DEF Executed
  <2> QED
    BY <1>4, <1>5, <2>1, <2>3, <2>6, Combine
<1>7. CASE ops' = ops /\ stage' = [stage EXCEPT ![c] = "freeing"]
  <2>1. stage'[c] = "freeing"
    BY <1>1, <1>7 DEF Types
  <2> QED
    BY <1>4, <1>5, <2>1, Combine
<1> QED
  BY <1>2, <1>6, <1>7

\* The walk: what it visits is no longer to be visited.
LEMMA VisitStep ==
  ASSUME IInv, NEW c \in Callers, Visit(c)
  PROVE  IInv'
<1>1. Types /\ Listed(c)
  BY DEF IInv, Visit
<1> DEFINE va == Leftmost(cursor[c])
           op == OpFor(va, request[c])
<1>2. /\ stage[c] = "walk" /\ cursor[c] # {} /\ AddOp(c, op, cursor[c] \ {va})
      /\ vas' = vas /\ request' = request /\ done' = done /\ before' = before
  BY DEF Visit
<1>3. cursor[c] \subseteq Mappings /\ before[c] \subseteq Mappings /\ ops[c] \in Seq(Operations)
  BY <1>1 DEF Types
<1>4. va \in cursor[c]
  <2>1. \A v \in cursor[c] : v.addr \in Nat
    BY <1>3 DEF Mappings
  <2> QED
    BY <1>2, <2>1, LeftmostIs
<1> HIDE DEF va
<1>5. /\ request[c] \in Requests /\ Tree(before[c])
      /\ Covers(request[c], before[c], cursor[c], ops[c])
  BY <1>1 DEF Listed
<1>6. va \in About(before[c], request[c]) /\ va \in Mappings
  BY <1>3, <1>4, <1>5 DEF Covers
<1>7. IsRange(va) /\ (request[c].kind = "bo_unmap" \/ Overlaps(va, request[c]))
  BY <1>5, <1>6 DEF About, Tree
<1>8. op \in Operations
  BY <1>5, <1>6, <1>7, OpForIs
<1>9. Covers(request[c], before[c], cursor[c] \ {va}, Append(ops[c], op))
  BY <1>3, <1>4, <1>5, CoversVisited
<1>10. cursor[c] \ {va} \in SUBSET Mappings
  BY <1>3
<1> HIDE DEF op
<1> QED
  BY <1>2, <1>8, <1>9, <1>10, AddOpStep

\* The map operation comes when all mappings have been visited.
LEMMA AddMapStep ==
  ASSUME IInv, NEW c \in Callers, AddMap(c)
  PROVE  IInv'
<1>1. Types /\ Listed(c)
  BY DEF IInv, AddMap
<1> DEFINE op == MapOp(request[c])
<1>2. /\ stage[c] = "walk" /\ cursor[c] = {} /\ request[c].kind = "map"
      /\ \A i \in DOMAIN ops[c] : ops[c][i].op # "map"
      /\ AddOp(c, op, {})
      /\ vas' = vas /\ request' = request /\ done' = done /\ before' = before
  BY DEF AddMap
<1>3. /\ request[c] \in Requests /\ Covers(request[c], before[c], {}, ops[c]) /\ ~HasMap(ops[c])
      /\ ops[c] \in Seq(Operations)
  BY <1>1, <1>2 DEF Listed, Types, HasMap
<1>4. op \in Operations
  BY <1>2, <1>3, MapOpIs
<1>5. Covers(request[c], before[c], {}, Append(ops[c], op))
  BY <1>2, <1>3, CoversMapped
<1> HIDE DEF op
<1> QED
  BY <1>2, <1>4, <1>5, AddOpStep

\* The list is made.
LEMMA MadeStep ==
  ASSUME IInv, NEW c \in Callers, Made(c)
  PROVE  IInv'
<1>1. Types /\ Listed(c) /\ Executed(c)
  BY DEF IInv, Made
<1>2. /\ stage[c] = "walk" /\ cursor[c] = {}
      /\ request[c].kind = "map" => HasMap(ops[c])
      /\ stage' = [stage EXCEPT ![c] = "made"]
      /\ vas' = vas /\ request' = request /\ cursor' = cursor /\ ops' = ops /\ done' = done
      /\ before' = before
  BY DEF Made, HasMap
<1>3. Types'
  BY <1>1, <1>2 DEF Types
<1>4. \A d \in Callers : d # c => stage'[d] = "idle" /\ Resting(d)'
  BY <1>1, <1>2, OthersRest DEF Types, Resting
<1>5. stage'[c] = "made"
  BY <1>1, <1>2 DEF Types
<1>6. Listed(c)' /\ Executed(c)'
  BY <1>1, <1>2, <1>5 DEF Listed, Executed
<1> QED
  BY <1>3, <1>4, <1>5, <1>6, Combine

\* A list that is made covers its request.
LEMMA MadeIs ==
  ASSUME IInv, NEW c \in Callers, stage[c] = "made"
  PROVE  /\ MadeFrom(request[c], before[c], ops[c])
         /\ request[c].kind = "map" => HasMap(ops[c])
         /\ done[c] \in Nat /\ done[c] <= Len(ops[c]) /\ Len(ops[c]) \in Nat
         /\ vas = AfterOps(before[c], ops[c], done[c])
         /\ Tree(vas) /\ vas \subseteq Mappings
<1>1. Types /\ Listed(c) /\ Executed(c)
  BY DEF IInv
<1>2. before[c] \subseteq Mappings /\ ops[c] \in Seq(Operations) /\ done[c] \in Nat
  BY <1>1 DEF Types
<1>3. Len(ops[c]) \in Nat
  BY <1>2
<1>4. cursor[c] = {} /\ Covers(request[c], before[c], {}, ops[c])
  BY <1>1 DEF Listed
<1> QED
  BY <1>1, <1>2, <1>3, <1>4 DEF Listed, Executed, MadeFrom, Types

\* The next operation is processed.
LEMMA ProcessStep ==
  ASSUME IInv, NEW c \in Callers, Process(c)
  PROVE  IInv'
<1>1. Types /\ Listed(c)
  BY DEF IInv, Process
<1> DEFINE n == done[c]
<1>2. /\ stage[c] = "made" /\ n < Len(ops[c])
      /\ vas' = Applied(vas, ops[c][n + 1])
      /\ done' = [done EXCEPT ![c] = n + 1]
      /\ stage' = stage /\ request' = request /\ cursor' = cursor /\ ops' = ops /\ before' = before
  BY DEF Process
<1>3. /\ MadeFrom(request[c], before[c], ops[c])
      /\ n \in Nat /\ Len(ops[c]) \in Nat /\ vas = AfterOps(before[c], ops[c], n)
      /\ Tree(vas) /\ vas \subseteq Mappings
  BY <1>2, MadeIs
<1> HIDE DEF n
<1>4. /\ vas' = AfterOps(before[c], ops[c], n + 1)
      /\ Tree(vas') /\ vas' \subseteq Mappings
  BY <1>2, <1>3, NextApplied
<1>5. n + 1 \in Nat /\ n + 1 <= Len(ops[c])
  BY <1>2, <1>3
<1>6. Types'
  <2>1. done' \in [Callers -> Nat]
    BY <1>1, <1>2, <1>5 DEF Types
  <2>2. Tree(vas)'
    BY <1>4 DEF Tree
  <2> QED
    BY <1>1, <1>2, <1>4, <2>1, <2>2 DEF Types
<1>7. \A d \in Callers : d # c => stage'[d] = "idle" /\ Resting(d)'
  BY <1>1, <1>2, OthersRest DEF Types, Resting
<1>8. done'[c] = n + 1
  BY <1>1, <1>2 DEF Types
<1>9. Listed(c)'
  BY <1>1, <1>2, <1>5, <1>8 DEF Listed
<1>10. Executed(c)'
  BY <1>2, <1>4, <1>8 DEF Executed
<1> QED
  BY <1>2, <1>6, <1>7, <1>9, <1>10, Combine

\* The caller is through, or gives the rest up.
LEMMA FinishStep ==
  ASSUME IInv, NEW c \in Callers, Finish(c)
  PROVE  IInv'
<1>1. Types
  BY DEF IInv
<1>2. /\ stage[c] = "made" /\ stage' = [stage EXCEPT ![c] = "freeing"]
      /\ vas' = vas /\ request' = request /\ cursor' = cursor /\ ops' = ops /\ done' = done
      /\ before' = before
  BY DEF Finish
<1>3. Types'
  BY <1>1, <1>2 DEF Types
<1>4. \A d \in Callers : d # c => stage'[d] = "idle" /\ Resting(d)'
  BY <1>1, <1>2, OthersRest DEF Types, Resting
<1>5. stage'[c] = "freeing"
  BY <1>1, <1>2 DEF Types
<1> QED
  BY <1>3, <1>4, <1>5, Combine

\* ks_drm_gpuva_ops_free().
LEMMA OpsFreeStep ==
  ASSUME IInv, NEW c \in Callers, OpsFree(c)
  PROVE  IInv'
<1>1. Types
  BY DEF IInv
<1>2. /\ stage[c] = "freeing" /\ stage' = [stage EXCEPT ![c] = "idle"]
      /\ ops' = [ops EXCEPT ![c] = <<>>] /\ done' = [done EXCEPT ![c] = 0]
      /\ cursor' = [cursor EXCEPT ![c] = {}]
      /\ request' = [request EXCEPT ![c] = NoRequest]
      /\ before' = [before EXCEPT ![c] = {}]
      /\ vas' = vas
  BY DEF OpsFree
<1>3. <<>> \in Seq(Operations)
  OBVIOUS
<1>4. Types'
  BY <1>1, <1>2, <1>3 DEF Types
<1>5. \A d \in Callers : d # c => stage'[d] = "idle" /\ Resting(d)'
  BY <1>1, <1>2, OthersRest DEF Types, Resting
<1>6. stage'[c] = "idle" /\ Resting(c)'
  BY <1>1, <1>2 DEF Types, Resting
<1> QED
  BY <1>4, <1>5, <1>6, Combine

\* Every step preserves the invariant.
LEMMA Invariance == IInv /\ [Next]_vars => IInv'
<1> SUFFICES ASSUME IInv, [Next]_vars PROVE IInv'
  OBVIOUS
<1>1. CASE UNCHANGED vars
  BY <1>1 DEF vars, IInv, Types, Alone, Resting, Listed, Executed
<1>2. CASE Next
  <2>1. PICK c \in Callers : \/ \E r \in Requests : Create(c, r)
                             \/ Visit(c) \/ AddMap(c) \/ Made(c) \/ Process(c) \/ Finish(c) \/ OpsFree(c)
    BY <1>2 DEF Next
  <2>2. ASSUME NEW r \in Requests, Create(c, r) PROVE IInv'
    BY <2>2, CreateStep
  <2> QED
    BY <2>1, <2>2, VisitStep, AddMapStep, MadeStep, ProcessStep, FinishStep, OpsFreeStep
<1> QED
  BY <1>1, <1>2

\* The inductive invariant holds of every reachable state.
LEMMA Inductive == Spec => []IInv
BY InitIInv, Invariance, PTL DEF Spec

-----------------------------------------------------------------------------
(* Theorems.                                                               *)

\* At most two operations of a list split a mapping, and every operation still to be
\* processed is about a mapping that is there.
THEOREM NoOperationIsStale == Spec => []OpsAreCurrent
<1>1. IInv => OpsAreCurrent
  <2> SUFFICES ASSUME IInv, NEW c \in Callers, stage[c] = "made"
               PROVE  /\ Cardinality({i \in DOMAIN ops[c] : ops[c][i].op = "remap"}) <= 2
                      /\ \A i \in done[c] + 1 .. Len(ops[c]) :
                            ops[c][i].op # "map" => ops[c][i].va \in vas
    BY DEF OpsAreCurrent
  <2>1. /\ MadeFrom(request[c], before[c], ops[c])
        /\ done[c] \in Nat /\ Len(ops[c]) \in Nat /\ vas = AfterOps(before[c], ops[c], done[c])
    BY MadeIs
  <2>2. DOMAIN ops[c] = 1 .. Len(ops[c])
    BY <2>1 DEF MadeFrom
  <2>3. ASSUME NEW i \in done[c] + 1 .. Len(ops[c]), ops[c][i].op # "map" PROVE ops[c][i].va \in vas
    <3>1. i \in DOMAIN ops[c] /\ done[c] < i
      BY <2>1, <2>2
    <3> QED
      BY <2>1, <2>3, <3>1, StillThere
  <2> QED
    BY <2>1, <2>3, RemapsAtMostTwo
<1> QED
  BY Inductive, <1>1, PTL

\* A list that is processed to its end leaves every address translated as the request
\* wants it, and no other address translated otherwise than before.
THEOREM ListsDoWhatIsAsked == Spec => []ProcessedIsWanted
<1>1. IInv => ProcessedIsWanted
  <2> SUFFICES ASSUME IInv, NEW c \in Callers, stage[c] = "made", done[c] = Len(ops[c]), NEW a \in Addrs
               PROVE  Translate(vas, a) = Wanted(c, a)
    BY DEF ProcessedIsWanted
  <2>1. /\ MadeFrom(request[c], before[c], ops[c])
        /\ request[c].kind = "map" => HasMap(ops[c])
        /\ vas = AfterOps(before[c], ops[c], Len(ops[c]))
    BY MadeIs
  <2>2. Translate(vas, a) = WantedOf(request[c], before[c], a)
    BY <2>1, InTheEndWanted
  <2>3. Wanted(c, a) = WantedOf(request[c], before[c], a)
    BY DEF Wanted, WantedOf
  <2> QED
    BY <2>2, <2>3
<1> QED
  BY Inductive, <1>1, PTL

-----------------------------------------------------------------------------
(* Memory.                                                                 *)

\* The memory of a thread's list.
ListMemory(c, list) == At(c, 0, {"ops"}) \cup UNION {At(c, n, ToSet(Pieces(list[n]))) : n \in DOMAIN list}

\* Memory that nothing points to any more.
Lost(m) == m[3] = "unmap" /\ "next" \in CanFail

\* Only a list has memory, apart from what was lost.
HeapIs ==
    /\ (\A c \in Callers : stage[c] = "idle") => \A m \in heap : Lost(m)
    /\ \A c \in Callers : stage[c] # "idle" =>
         /\ ListMemory(c, ops[c]) \subseteq heap
         /\ \A m \in heap \ ListMemory(c, ops[c]) : Lost(m)

\* A sequence of one element.
LEMMA OneElement ==
  ASSUME NEW S, NEW e \in S
  PROVE  <<e>> \in Seq(S) /\ Len(<<e>>) = 1 /\ <<e>>[1] = e
OBVIOUS

Parts == {"op", "unmap", "prev", "next"}

\* Its pieces are allocated in their order.
LEMMA PiecesAre ==
  ASSUME NEW op, NEW s, s = Pieces(op)
  PROVE  /\ s \in Seq(Parts) /\ Len(s) \in 1 .. 4 /\ s[1] = "op"
         /\ Len(s) >= 2 => s[2] = "unmap"
         /\ Len(s) >= 3 => s[3] \in {"prev", "next"}
         /\ Len(s) = 4 => s[3] = "prev" /\ s[4] = "next"
<1> DEFINE P == IF op.prev = {} THEN <<>> ELSE <<"prev">>
           N == IF op.next = {} THEN <<>> ELSE <<"next">>
           U == <<"unmap">> \o P
           V == U \o N
<1>1. s = <<"op">> \/ s = <<"op">> \o V
  <2>1. <<"op">> \o <<>> = <<"op">>
    OBVIOUS
  <2> QED
    BY <2>1 DEF Pieces
<1>2. /\ <<"op">> \in Seq(Parts) /\ Len(<<"op">>) = 1 /\ <<"op">>[1] = "op"
      /\ <<"unmap">> \in Seq(Parts) /\ Len(<<"unmap">>) = 1 /\ <<"unmap">>[1] = "unmap"
      /\ <<"prev">> \in Seq(Parts) /\ Len(<<"prev">>) = 1 /\ <<"prev">>[1] = "prev"
      /\ <<"next">> \in Seq(Parts) /\ Len(<<"next">>) = 1 /\ <<"next">>[1] = "next"
      /\ <<>> \in Seq(Parts) /\ Len(<<>>) = 0
  <2>1. \A e \in Parts : <<e>> \in Seq(Parts) /\ Len(<<e>>) = 1 /\ <<e>>[1] = e
    BY OneElement
  <2>2. <<>> \in Seq(Parts) /\ Len(<<>>) = 0
    BY EmptySeq
  <2>3. "op" \in Parts /\ "unmap" \in Parts /\ "prev" \in Parts /\ "next" \in Parts
    BY DEF Parts
  <2>4. <<"op">> \in Seq(Parts) /\ Len(<<"op">>) = 1 /\ <<"op">>[1] = "op"
    BY <2>1, <2>3
  <2>5. <<"unmap">> \in Seq(Parts) /\ Len(<<"unmap">>) = 1 /\ <<"unmap">>[1] = "unmap"
    BY <2>1, <2>3
  <2>6. <<"prev">> \in Seq(Parts) /\ Len(<<"prev">>) = 1 /\ <<"prev">>[1] = "prev"
    BY <2>1, <2>3
  <2>7. <<"next">> \in Seq(Parts) /\ Len(<<"next">>) = 1 /\ <<"next">>[1] = "next"
    BY <2>1, <2>3
  <2> QED
    BY <2>2, <2>4, <2>5, <2>6, <2>7
<1>3. P \in Seq(Parts) /\ (Len(P) = 0 \/ (Len(P) = 1 /\ P[1] = "prev"))
  BY <1>2
<1>4. N \in Seq(Parts) /\ (Len(N) = 0 \/ (Len(N) = 1 /\ N[1] = "next"))
  BY <1>2
<1> HIDE DEF P, N
<1>5. /\ U \in Seq(Parts) /\ Len(U) = 1 + Len(P)
      /\ \A i \in 1 .. 1 + Len(P) : U[i] = IF i <= 1 THEN <<"unmap">>[i] ELSE P[i - 1]
  BY <1>2, <1>3, ConcatProperties
<1> HIDE DEF U
<1>6. /\ V \in Seq(Parts) /\ Len(V) = Len(U) + Len(N)
      /\ \A i \in 1 .. Len(U) + Len(N) : V[i] = IF i <= Len(U) THEN U[i] ELSE N[i - Len(U)]
  <2>1. U \in Seq(Parts) /\ N \in Seq(Parts) /\ V = U \o N
    BY <1>4, <1>5
  <2> HIDE DEF V
  <2> QED
    BY <2>1, ConcatProperties
<1> HIDE DEF V
<1>7. /\ <<"op">> \o V \in Seq(Parts) /\ Len(<<"op">> \o V) = 1 + Len(V)
      /\ \A i \in 1 .. 1 + Len(V) : (<<"op">> \o V)[i] = IF i <= 1 THEN <<"op">>[i] ELSE V[i - 1]
  BY <1>2, <1>6, ConcatProperties
<1>8. U[1] = "unmap" /\ (Len(P) = 1 => U[2] = "prev")
  BY <1>2, <1>3, <1>5
<1>9. /\ V[1] = "unmap"
      /\ Len(V) >= 2 => V[2] \in {"prev", "next"}
      /\ Len(V) = 3 => V[2] = "prev" /\ V[3] = "next"
      /\ Len(V) \in 1 .. 3
  BY <1>3, <1>4, <1>5, <1>6, <1>8
<1>10. CASE s = <<"op">>
  BY <1>2, <1>10
<1>11. CASE s = <<"op">> \o V
  BY <1>2, <1>6, <1>7, <1>9, <1>11
<1> QED
  BY <1>1, <1>10, <1>11

\* The labels free what was copied before a piece that could not be; if that is the
\* last one they forget the copy of the unmap.
LEMMA FailureFrees ==
  ASSUME NEW op, NEW i \in DOMAIN Pieces(op)
  PROVE  ToSet(SubSeq(Pieces(op), 1, i - 1)) \subseteq
            FreedAfter(Pieces(op)[i]) \cup (IF Pieces(op)[i] = "next" THEN {"unmap"} ELSE {})
<1> DEFINE s == Pieces(op)
<1>1. /\ s \in Seq(Parts) /\ Len(s) \in 1 .. 4 /\ s[1] = "op"
      /\ Len(s) >= 2 => s[2] = "unmap"
      /\ Len(s) >= 3 => s[3] \in {"prev", "next"}
      /\ Len(s) = 4 => s[3] = "prev" /\ s[4] = "next"
  BY PiecesAre
<1> HIDE DEF s
<1>2. Len(s) \in Nat /\ DOMAIN s = 1 .. Len(s)
  BY <1>1, LenProperties
<1>3. i \in 1 .. Len(s)
  BY <1>2 DEF s
<1> DEFINE t == SubSeq(s, 1, i - 1)
<1>4. DOMAIN t = 1 .. i - 1 /\ \A j \in 1 .. i - 1 : t[j] = s[j]
  BY <1>1, <1>2, <1>3
<1> HIDE DEF t
<1>5. ToSet(t) = {s[j] : j \in 1 .. i - 1}
  BY <1>4 DEF ToSet
<1> DEFINE len == Len(s)
<1> HIDE DEF len
<1>6. i = 1 \/ i = 2 \/ i = 3 \/ i = 4
  <2>1. i \in 1 .. len /\ len \in 1 .. 4
    BY <1>1, <1>3 DEF len
  <2> QED
    BY <2>1
<1>7. /\ s[1] = "op" /\ (i >= 2 => s[2] = "unmap") /\ (i = 3 => s[3] \in {"prev", "next"})
      /\ i = 4 => s[3] = "prev" /\ s[4] = "next"
  BY <1>1, <1>3, <1>6
<1>8. ASSUME NEW e \in {s[j] : j \in 1 .. i - 1}
      PROVE  e \in FreedAfter(s[i]) \cup (IF s[i] = "next" THEN {"unmap"} ELSE {})
  <2>1. PICK j \in 1 .. i - 1 : e = s[j]
    OBVIOUS
  <2>2. CASE i = 1
    BY <2>1, <2>2
  <2>3. CASE i = 2
    <3>1. j = 1
      BY <2>1, <2>3
    <3> QED
      BY <1>7, <2>1, <2>3, <3>1 DEF FreedAfter
  <2>4. CASE i = 3
    <3>1. j = 1 \/ j = 2
      BY <2>1, <2>4
    <3> QED
      BY <1>7, <2>1, <2>4, <3>1 DEF FreedAfter
  <2>5. CASE i = 4
    <3>1. j = 1 \/ j = 2 \/ j = 3
      BY <2>1, <2>5
    <3> QED
      BY <1>7, <2>1, <2>5, <3>1 DEF FreedAfter
  <2> QED
    BY <1>6, <2>2, <2>3, <2>4, <2>5
<1> QED
  BY <1>5, <1>8 DEF s, t

\* A list that is one operation longer has that operation's memory as well.
LEMMA MemoryGrows ==
  ASSUME NEW c, NEW op \in Operations, NEW list \in Seq(Operations), NEW longer, longer = Append(list, op)
  PROVE  ListMemory(c, longer) = ListMemory(c, list) \cup At(c, Len(list) + 1, ToSet(Pieces(op)))
<1> DEFINE n == Len(list)
           Mem(l, i) == At(c, i, ToSet(Pieces(l[i])))
<1>1. /\ DOMAIN list = 1 .. n /\ DOMAIN longer = 1 .. n + 1 /\ n \in Nat
      /\ \A i \in 1 .. n : longer[i] = list[i] /\ i # n + 1
      /\ longer[n + 1] = op
  BY Appended
<1> HIDE DEF n
<1>2. \A i : i \in DOMAIN longer <=> (i \in DOMAIN list \/ i = n + 1)
  BY <1>1
<1>3. \A i \in DOMAIN list : Mem(longer, i) = Mem(list, i)
  BY <1>1
<1>4. Mem(longer, n + 1) = At(c, n + 1, ToSet(Pieces(op)))
  BY <1>1
<1> HIDE DEF Mem
<1>5. UNION {Mem(longer, i) : i \in DOMAIN longer}
      = Mem(longer, n + 1) \cup UNION {Mem(list, i) : i \in DOMAIN list}
  BY <1>2, <1>3
<1> QED
  BY <1>4, <1>5 DEF ListMemory, Mem, n

\* Nothing changes for a list whose memory and whose operations stay as they are.
LEMMA HeapStays ==
  ASSUME IInv, HeapIs, NEW c \in Callers, stage[c] # "idle", heap' = heap, ops' = ops,
         stage'[c] # "idle", \A d \in Callers : d # c => stage'[d] = "idle"
  PROVE  HeapIs'
<1>1. ListMemory(c, ops[c]) \subseteq heap /\ \A m \in heap \ ListMemory(c, ops[c]) : Lost(m)
  BY DEF HeapIs
<1> QED
  BY <1>1 DEF HeapIs

\* Losing more changes nothing for a list whose operations stay as they are.
LEMMA HeapLoses ==
  ASSUME IInv, HeapIs, NEW c \in Callers, stage[c] # "idle", NEW more, heap' = heap \cup more,
         \A m \in more : Lost(m), ops' = ops,
         stage'[c] # "idle", \A d \in Callers : d # c => stage'[d] = "idle"
  PROVE  HeapIs'
<1>1. ListMemory(c, ops[c]) \subseteq heap' /\ \A m \in heap' \ ListMemory(c, ops[c]) : Lost(m)
  BY DEF HeapIs
<1> QED
  BY <1>1 DEF HeapIs, Lost

\* An operation that is added brings its memory; of one that is not, at most the copy
\* of its unmap is left.
LEMMA AddOpHeap ==
  ASSUME IInv, HeapIs, NEW c \in Callers, stage[c] = "walk",
         NEW op \in Operations, NEW rest, AddOp(c, op, rest)
  PROVE  HeapIs'
<1>1. /\ Types /\ ops[c] \in Seq(Operations)
      /\ ListMemory(c, ops[c]) \subseteq heap /\ \A m \in heap \ ListMemory(c, ops[c]) : Lost(m)
  BY DEF IInv, HeapIs, Types
<1>2. \A d \in Callers : d # c => stage[d] = "idle"
  BY OthersRest
<1> DEFINE n == Len(ops[c]) + 1
<1>3. CASE /\ heap' = heap \cup At(c, n, ToSet(Pieces(op)))
           /\ ops' = [ops EXCEPT ![c] = Append(ops[c], op)]
           /\ stage' = stage
  <2>1. ops'[c] = Append(ops[c], op)
    BY <1>1, <1>3 DEF Types
  <2>2. ListMemory(c, ops'[c]) \subseteq heap' /\ \A m \in heap' \ ListMemory(c, ops'[c]) : Lost(m)
    <3>1. ListMemory(c, Append(ops[c], op)) = ListMemory(c, ops[c]) \cup At(c, n, ToSet(Pieces(op)))
      BY <1>1, MemoryGrows
    <3>2. ListMemory(c, ops'[c]) = ListMemory(c, Append(ops[c], op))
      BY <2>1
    <3> HIDE DEF n
    <3> QED
      BY <1>1, <1>3, <3>1, <3>2
  <2> QED
    BY <1>2, <1>3, <2>2 DEF HeapIs, Lost
<1>4. ASSUME NEW i \in DOMAIN Pieces(op), Pieces(op)[i] \in CanFail,
             heap' = heap \cup (At(c, n, ToSet(SubSeq(Pieces(op), 1, i - 1)))
                                  \ At(c, n, FreedAfter(Pieces(op)[i]))),
             stage' = [stage EXCEPT ![c] = "freeing"], ops' = ops
      PROVE  HeapIs'
  <2> DEFINE more == At(c, n, ToSet(SubSeq(Pieces(op), 1, i - 1))) \ At(c, n, FreedAfter(Pieces(op)[i]))
  <2>1. ToSet(SubSeq(Pieces(op), 1, i - 1)) \subseteq
           FreedAfter(Pieces(op)[i]) \cup (IF Pieces(op)[i] = "next" THEN {"unmap"} ELSE {})
    BY <1>4, FailureFrees
  <2>2. \A S, T, U : S \subseteq T \cup U =>
           \A m \in At(c, n, S) \ At(c, n, T) : \E e \in U : m = <<c, n, e>>
    BY DEF At
  <2>3. ASSUME NEW m \in more PROVE Lost(m)
    <3> DEFINE S == ToSet(SubSeq(Pieces(op), 1, i - 1))
               T == FreedAfter(Pieces(op)[i])
               U == IF Pieces(op)[i] = "next" THEN {"unmap"} ELSE {}
    <3>0. m \in At(c, n, S) \ At(c, n, T) /\ S \subseteq T \cup U
      BY <2>1, <2>3
    <3>1. PICK e \in U : m = <<c, n, e>>
      <4> HIDE DEF S, T, U, n
      <4> QED
        BY <2>2, <3>0
    <3>2. Pieces(op)[i] = "next" /\ e = "unmap"
      BY <3>1
    <3> QED
      BY <1>4, <3>1, <3>2 DEF Lost
  <2>4. heap' = heap \cup more
    BY <1>4
  <2>5. stage'[c] = "freeing" /\ \A d \in Callers : d # c => stage'[d] = "idle"
    BY <1>1, <1>2, <1>4 DEF Types
  <2> HIDE DEF more
  <2> QED
    BY <1>4, <2>3, <2>4, <2>5, HeapLoses
<1> QED
  BY <1>3, <1>4 DEF AddOp

\* drm_gpuvm_sm_map_ops_create() and its like: the head of the list.
LEMMA CreateHeap ==
  ASSUME IInv, HeapIs, NEW c \in Callers, NEW r \in Requests, Create(c, r)
  PROVE  HeapIs'
<1>1. /\ \A d \in Callers : stage[d] = "idle"
      /\ stage' = [stage EXCEPT ![c] = "walk"]
      /\ heap' = heap \cup At(c, 0, {"ops"})
      /\ ops' = ops
  BY DEF Create
<1>2. (\A m \in heap : Lost(m)) /\ Types /\ ops[c] = <<>>
  BY <1>1 DEF HeapIs, IInv, Resting
<1>3. stage'[c] = "walk" /\ \A d \in Callers : d # c => stage'[d] = "idle"
  BY <1>1, <1>2 DEF Types
<1>4. ListMemory(c, <<>>) = At(c, 0, {"ops"}) \cup {}
  <2>1. {At(c, n, ToSet(Pieces(<<>>[n]))) : n \in DOMAIN <<>>} = {}
    OBVIOUS
  <2> QED
    BY <2>1, UnionFew DEF ListMemory
<1>5. ListMemory(c, ops'[c]) \subseteq heap' /\ \A m \in heap' \ ListMemory(c, ops'[c]) : Lost(m)
  <2>1. ops'[c] = <<>>
    BY <1>1, <1>2
  <2>2. heap' = heap \cup At(c, 0, {"ops"})
    BY <1>1
  <2>3. ListMemory(c, ops'[c]) = ListMemory(c, <<>>)
    BY <2>1
  <2>4. At(c, 0, {"ops"}) \cup {} = At(c, 0, {"ops"})
    OBVIOUS
  <2> QED
    BY <1>2, <1>4, <2>2, <2>3, <2>4
<1> QED
  BY <1>3, <1>5 DEF HeapIs, Lost

\* ks_drm_gpuva_ops_free() leaves nothing of the list.
LEMMA OpsFreeHeap ==
  ASSUME IInv, HeapIs, NEW c \in Callers, OpsFree(c)
  PROVE  HeapIs'
<1>1. stage[c] = "freeing" /\ stage' = [stage EXCEPT ![c] = "idle"]
      /\ heap' = heap \ ListMemory(c, ops[c])
  BY DEF OpsFree, ListMemory
<1>2. (\A m \in heap \ ListMemory(c, ops[c]) : Lost(m)) /\ Types
  BY <1>1 DEF HeapIs, IInv
<1>3. \A d \in Callers : d # c => stage[d] = "idle"
  BY <1>1, OthersRest
<1>4. \A d \in Callers : stage'[d] = "idle"
  BY <1>1, <1>2, <1>3 DEF Types
<1>5. \A m \in heap' : Lost(m)
  BY <1>1, <1>2
<1> QED
  BY <1>4, <1>5 DEF HeapIs, Lost

\* Every step preserves it.
LEMMA HeapInvariance ==
  ASSUME IInv, HeapIs, [Next]_vars
  PROVE  HeapIs'
<1>1. CASE UNCHANGED vars
  BY <1>1 DEF vars, HeapIs, Lost
<1>2. CASE Next
  <2>1. PICK c \in Callers : \/ \E r \in Requests : Create(c, r)
                             \/ Visit(c) \/ AddMap(c) \/ Made(c) \/ Process(c) \/ Finish(c) \/ OpsFree(c)
    BY <1>2 DEF Next
  <2>2. Types
    BY DEF IInv
  <2>3. ASSUME NEW r \in Requests, Create(c, r) PROVE HeapIs'
    BY <2>3, CreateHeap
  <2>4. CASE Visit(c)
    <3> DEFINE va == Leftmost(cursor[c])
               op == OpFor(va, request[c])
    <3>1. /\ stage[c] = "walk" /\ cursor[c] # {} /\ AddOp(c, op, cursor[c] \ {va})
      BY <2>4 DEF Visit
    <3>2. Listed(c) /\ cursor[c] \subseteq Mappings
      BY <2>2, <3>1 DEF IInv, Types
    <3>3. va \in cursor[c]
      <4>1. \A v \in cursor[c] : v.addr \in Nat
        BY <3>2 DEF Mappings
      <4> QED
        BY <3>1, <4>1, LeftmostIs
    <3> HIDE DEF va
    <3>4. va \in About(before[c], request[c]) /\ va \in Mappings /\ request[c] \in Requests /\ Tree(before[c])
      BY <3>2, <3>3 DEF Listed, Covers
    <3>5. IsRange(va) /\ (request[c].kind = "bo_unmap" \/ Overlaps(va, request[c]))
      BY <3>4 DEF About, Tree
    <3>6. op \in Operations
      BY <3>4, <3>5, OpForIs
    <3> HIDE DEF op
    <3> QED
      BY <3>1, <3>6, AddOpHeap
  <2>5. CASE AddMap(c)
    <3> DEFINE op == MapOp(request[c])
    <3>1. stage[c] = "walk" /\ request[c].kind = "map" /\ AddOp(c, op, {})
      BY <2>5 DEF AddMap
    <3>2. request[c] \in Requests
      BY <3>1 DEF IInv, Listed
    <3>3. op \in Operations
      BY <3>1, <3>2, MapOpIs
    <3> HIDE DEF op
    <3> QED
      BY <3>1, <3>3, AddOpHeap
  <2>6. CASE Made(c)
    <3>1. stage[c] = "walk" /\ stage' = [stage EXCEPT ![c] = "made"] /\ heap' = heap /\ ops' = ops
      BY <2>6 DEF Made
    <3>2. stage'[c] = "made" /\ \A d \in Callers : d # c => stage'[d] = "idle"
      BY <2>2, <3>1, OthersRest DEF Types
    <3> QED
      BY <3>1, <3>2, HeapStays
  <2>7. CASE Process(c)
    <3>1. stage[c] = "made" /\ stage' = stage /\ heap' = heap /\ ops' = ops
      BY <2>7 DEF Process
    <3>2. stage'[c] = "made" /\ \A d \in Callers : d # c => stage'[d] = "idle"
      BY <3>1, OthersRest
    <3> QED
      BY <3>1, <3>2, HeapStays
  <2>8. CASE Finish(c)
    <3>1. stage[c] = "made" /\ stage' = [stage EXCEPT ![c] = "freeing"] /\ heap' = heap /\ ops' = ops
      BY <2>8 DEF Finish
    <3>2. stage'[c] = "freeing" /\ \A d \in Callers : d # c => stage'[d] = "idle"
      BY <2>2, <3>1, OthersRest DEF Types
    <3> QED
      BY <3>1, <3>2, HeapStays
  <2>9. CASE OpsFree(c)
    BY <2>9, OpsFreeHeap
  <2> QED
    BY <2>1, <2>3, <2>4, <2>5, <2>6, <2>7, <2>8, <2>9
<1> QED
  BY <1>1, <1>2

\* Whatever allocation fails, what a list points to is allocated until the list is
\* freed, and nothing else is but copies of unmaps, where copying "next" can fail.
THEOREM OnlyUnmapCopiesAreLost == Spec => []OnlyUnmapCopiesLeak
<1>1. Init => HeapIs
  BY DEF Init, HeapIs
<1>2. IInv /\ HeapIs /\ [Next]_vars => HeapIs'
  BY HeapInvariance
<1>3. IInv /\ HeapIs => OnlyUnmapCopiesLeak
  <2> SUFFICES ASSUME IInv, HeapIs PROVE OnlyUnmapCopiesLeak
    OBVIOUS
  <2> DEFINE Heads == {<<c, 0, "ops">> : c \in {d \in Callers : stage[d] # "idle"}}
             Body(c) == UNION {At(c, n, ToSet(Pieces(ops[c][n]))) : n \in DOMAIN ops[c]}
  <2>1. \A c \in Callers : ops[c] = <<>> => Body(c) = {}
    <3> SUFFICES ASSUME NEW c \in Callers, ops[c] = <<>> PROVE Body(c) = {}
      OBVIOUS
    <3>1. {At(c, n, ToSet(Pieces(ops[c][n]))) : n \in DOMAIN ops[c]} = {}
      OBVIOUS
    <3> QED
      BY <3>1, UnionFew
  <2>2. \A c : ListMemory(c, ops[c]) = At(c, 0, {"ops"}) \cup Body(c)
    BY DEF ListMemory
  <2>3. \A c : At(c, 0, {"ops"}) = {<<c, 0, "ops">>}
    BY DEF At
  <2>4. Held = Heads \cup UNION {Body(c) : c \in Callers}
    BY DEF Held
  <2> HIDE DEF Body
  <2>5. CASE \A c \in Callers : stage[c] = "idle"
    <3>1. (\A m \in heap : Lost(m)) /\ \A c \in Callers : Body(c) = {}
      BY <2>1, <2>5 DEF HeapIs, IInv, Resting
    <3>2. Heads = {} /\ UNION {Body(c) : c \in Callers} = {}
      BY <2>5, <3>1
    <3> QED
      BY <2>4, <3>1, <3>2 DEF OnlyUnmapCopiesLeak, Lost
  <2>6. CASE \E c \in Callers : stage[c] # "idle"
    <3>1. PICK c \in Callers : stage[c] # "idle"
      BY <2>6
    <3>2. \A d \in Callers : d # c => stage[d] = "idle" /\ Body(d) = {}
      BY <2>1, <3>1, OthersRest DEF Resting
    <3>3. Heads = {<<c, 0, "ops">>}
      BY <3>1, <3>2
    <3>4. UNION {Body(d) : d \in Callers} = Body(c)
      BY <3>2
    <3>5. Held = ListMemory(c, ops[c])
      BY <2>2, <2>3, <2>4, <3>3, <3>4
    <3> QED
      BY <3>1, <3>5 DEF HeapIs, OnlyUnmapCopiesLeak, Lost
  <2> QED
    BY <2>5, <2>6
<1> QED
  BY Inductive, <1>1, <1>2, <1>3, PTL DEF Spec

==============================================================================
