----------------------------- MODULE GpuVmProofs -----------------------------
(***************************************************************************)
(* The GPU VA manager, for an address space of any size, any managed and   *)
(* reserved range, any objects and any number of threads.                  *)
(*                                                                         *)
(* The lock makes the requests one after the other (Locked).  Between two  *)
(* callbacks of a request the tree is one, with no mapping in the way of   *)
(* another, and the mapping the walk goes to next is the first that is     *)
(* left in the request's range, if one is (Reached).  So the mappings that *)
(* are split at the two ends of the range are one each, what is mapped at  *)
(* the end finds its range free, and no insertion is refused.              *)
(***************************************************************************)
EXTENDS GpuVm, VaSplitProofs

Mappings == [addr: Nat, range: Nat, obj: Objects, offset: Nat]

\* What the manager's callers pass on to it, once it is found valid.
Valid(r) ==
    /\ IsRange(r) /\ RangeValid(r.addr, r.range) /\ r.kind \in {"map", "unmap"}
    /\ r.kind = "map" => r.obj \in Objects /\ r.offset \in Nat

Types ==
    /\ vas \subseteq Mappings /\ Tree(vas)
    /\ pc \in [Binders -> {"idle", "running", "ok", "failed"}]
    /\ request \in [Binders -> Requests \cup {NoRequest}]
    /\ cursor \in [Binders -> Mappings \cup {NoVa}]
    /\ spare \in [Binders -> SUBSET {"new", "prev", "next"}]

\* One request at a time.
Locked == \A b \in Binders : pc[b] # "idle" => lock = b /\ Valid(request[b])

\* Where the walk is, and what is preallocated for the rest of it.
Reached ==
    \A b \in Binders : pc[b] = "running" =>
        /\ Walking(b) => cursor[b] \in vas /\ request[b].addr < End(cursor[b])
        /\ \A v \in vas : Overlaps(v, request[b]) => Walking(b) /\ cursor[b].addr <= v.addr
        /\ "prev" \in spare[b] \/ (Walking(b) => request[b].addr <= cursor[b].addr)
        /\ "next" \in spare[b] \/ ~Walking(b)

IInv == Types /\ Locked /\ Reached /\ LinkedToOwnObject /\ PageTablesMatch

USE GpuVmAssumption, VaSplitAssumption

\* Nothing is mapped at the start.
LEMMA InitHolds == Init => IInv
  BY DEF Init, IInv, Types, Tree, Locked, Reached, LinkedToOwnObject, PageTablesMatch

-----------------------------------------------------------------------------
(* A request under way.                                                    *)

\* A mapping of the tree.
LEMMA MappingIs ==
  ASSUME Types, NEW v \in vas
  PROVE  /\ v \in Mappings /\ IsRange(v) /\ v # NoVa /\ v.obj \in Objects /\ v.offset \in Nat
         /\ v.addr \in Nat /\ End(v) \in Nat /\ v.addr < End(v) /\ End(v) < AddrSpace
         /\ Cover(v) \subseteq Addrs /\ Allowed(v.addr, End(v))
<1>1. v \in Mappings /\ IsRange(v) /\ RangeValid(v.addr, v.range)
  BY DEF Types, Tree
<1>2. v # NoVa
  BY <1>1 DEF Mappings
<1>3. v.addr \in Nat /\ v.range \in Nat /\ v.range > 0 /\ v.obj \in Objects /\ v.offset \in Nat
  BY <1>1 DEF Mappings, IsRange
<1>4. Allowed(v.addr, End(v))
  BY <1>1, <1>3, RangeValidIs DEF End
<1>5. End(v) \in Nat /\ v.addr < End(v) /\ End(v) < AddrSpace
  BY <1>3, <1>4 DEF End, Allowed
<1>6. Cover(v) \subseteq Addrs
  BY <1>3, <1>5 DEF Cover, Addrs
<1> QED
  BY <1>1, <1>2, <1>3, <1>4, <1>5, <1>6

\* A request.
LEMMA RequestIs ==
  ASSUME NEW r, Valid(r)
  PROVE  /\ r.addr \in Nat /\ End(r) \in Nat /\ r.addr < End(r) /\ End(r) < AddrSpace
         /\ End(r) = r.addr + r.range /\ r.range \in Nat /\ Cover(r) \subseteq Addrs
<1>1. r.addr \in Nat /\ r.range \in Nat /\ r.range > 0
  BY DEF Valid, IsRange
<1>2. Allowed(r.addr, End(r))
  BY <1>1, RangeValidIs DEF Valid, End
<1> QED
  BY <1>1, <1>2 DEF Allowed, End, Cover, Addrs

\* A valid bind op is a request.
LEMMA RequestsAre ==
  ASSUME NEW r \in Requests, RangeValid(r.addr, r.range)
  PROVE  Valid(r)
<1>1. /\ r.addr \in Nat /\ r.range \in Nat \ {0} /\ r.kind \in {"map", "unmap"}
      /\ r.kind = "map" => r.obj \in Objects /\ r.offset \in Nat
  BY DEF Requests, Addrs
<1> QED
  BY <1>1 DEF Valid, IsRange

\* While a thread is at work the others are idle.
LEMMA Alone ==
  ASSUME IInv, NEW b \in Binders, pc[b] # "idle"
  PROVE  lock = b /\ Valid(request[b]) /\ \A c \in Binders : c # b => pc[c] = "idle"
  BY DEF IInv, Locked

\* The walk is at a mapping that the range overlaps, the first one left.
LEMMA WalkIs ==
  ASSUME IInv, NEW b \in Binders, pc[b] = "running", Walking(b)
  PROVE  /\ cursor[b] \in vas /\ Overlaps(cursor[b], request[b])
         /\ \A v \in vas : Overlaps(v, request[b]) => cursor[b].addr <= v.addr
  BY DEF IInv, Reached, Walking, Overlaps

\* When it is done nothing is left in the range.
LEMMA WalkOver ==
  ASSUME IInv, NEW b \in Binders, pc[b] = "running", ~Walking(b)
  PROVE  \A v \in vas : Apart(v, request[b])
<1>1. Valid(request[b]) /\ Types
  BY Alone DEF IInv
<1>2. \A v \in vas : IsRange(v) /\ ~Overlaps(v, request[b])
  BY <1>1, MappingIs DEF IInv, Reached
<1> QED
  BY <1>1, <1>2, ApartIs DEF Valid

\* The step to the next mapping, once this one is gone or only what is outside of the
\* range is left of it: there is none left before.
LEMMA Advanced ==
  ASSUME Types, NEW va \in vas, NEW r, Valid(r), Overlaps(va, r),
         \A v \in vas : Overlaps(v, r) => va.addr <= v.addr,
         NEW tree, \A v \in tree : Overlaps(v, r) => v \in vas /\ v # va,
         vas \ {va} \subseteq tree,
         NEW c, c = Advance(vas, va, r)
  PROVE  /\ c \in vas \cup {NoVa}
         /\ c # NoVa /\ c.addr < End(r) =>
               c \in tree /\ r.addr < End(c) /\ r.addr <= c.addr /\ End(va) < End(r)
         /\ \A v \in tree : Overlaps(v, r) => c # NoVa /\ c.addr < End(r) /\ c.addr <= v.addr
<1>1. Tree(vas)
  BY DEF Types
<1>2. /\ va.addr \in Nat /\ End(va) \in Nat /\ va.addr < End(va)
      /\ r.addr \in Nat /\ End(r) \in Nat /\ va.addr < End(r) /\ r.addr < End(va)
  BY MappingIs, RequestIs DEF Overlaps
<1>3. ASSUME NEW v \in tree, Overlaps(v, r)
      PROVE  v \in vas /\ v.addr \in Nat /\ v.addr < End(r) /\ End(va) <= v.addr
  <2>1. v \in vas /\ v # va /\ va.addr <= v.addr /\ v.addr < End(r)
    BY <1>3 DEF Overlaps
  <2>2. v.addr \in Nat /\ End(v) \in Nat /\ v.addr < End(v) /\ Apart(v, va)
    BY <1>1, <2>1, MappingIs DEF Tree
  <2> QED
    BY <1>2, <2>1, <2>2 DEF Apart
<1>4. CASE r.kind = "map" /\ End(va) >= End(r)
  <2>1. c = NoVa
    BY <1>4 DEF Advance
  <2>2. \A v \in tree : ~Overlaps(v, r)
    BY <1>2, <1>3, <1>4
  <2> QED
    BY <2>1, <2>2
<1>5. CASE ~(r.kind = "map" /\ End(va) >= End(r))
  <2>1. c = NextVa(vas, va)
    BY <1>5 DEF Advance
  <2>2. CASE c = NoVa /\ \A w \in vas : w.addr <= va.addr
    <3>1. \A v \in tree : ~Overlaps(v, r)
      BY <1>2, <1>3, <2>2
    <3> QED
      BY <2>2, <3>1
  <2>3. CASE /\ c \in vas /\ c # va /\ End(va) <= c.addr
             /\ \A w \in vas : w.addr <= va.addr \/ c.addr <= w.addr
    <3>1. c \in tree /\ c # NoVa /\ c.addr \in Nat /\ End(c) \in Nat /\ c.addr < End(c)
      BY <2>3, MappingIs
    <3>2. ASSUME NEW v \in tree, Overlaps(v, r) PROVE c.addr < End(r) /\ c.addr <= v.addr
      BY <1>2, <1>3, <2>3, <3>1, <3>2
    <3>3. r.addr < End(c) /\ r.addr <= c.addr /\ (c.addr < End(r) => End(va) < End(r))
      BY <1>2, <2>3, <3>1
    <3> QED
      BY <2>3, <3>1, <3>2, <3>3
  <2> QED
    BY <1>1, <2>1, <2>2, <2>3, NextVaIs
<1> QED
  BY <1>4, <1>5

-----------------------------------------------------------------------------
(* The callbacks.                                                          *)

\* A callback goes on with the one request there is.
LEMMA GoesOn ==
  ASSUME IInv, NEW b \in Binders, pc[b] = "running", UNCHANGED <<lock, request, pc>>,
         vas' \subseteq Mappings, Tree(vas'), cursor'[b] \in Mappings \cup {NoVa},
         cursor' = [cursor EXCEPT ![b] = cursor'[b]],
         spare'[b] \in SUBSET {"new", "prev", "next"}, spare' = [spare EXCEPT ![b] = spare'[b]],
         LET c == cursor'[b]  r == request[b]  walking == c # NoVa /\ c.addr < End(r) IN
           /\ walking => c \in vas' /\ r.addr < End(c)
           /\ \A v \in vas' : Overlaps(v, r) => walking /\ c.addr <= v.addr
           /\ "prev" \in spare'[b] \/ (walking => r.addr <= c.addr)
           /\ "next" \in spare'[b] \/ ~walking
  PROVE  Types' /\ Locked' /\ Reached'
<1>1. Types'
  <2>1. cursor' \in [Binders -> Mappings \cup {NoVa}]
    BY DEF IInv, Types
  <2>2. spare' \in [Binders -> SUBSET {"new", "prev", "next"}]
    BY DEF IInv, Types
  <2> QED
    BY <2>1, <2>2 DEF IInv, Types
<1>2. Locked'
  BY DEF IInv, Locked
<1>3. Reached'
  <2> SUFFICES ASSUME NEW c \in Binders, pc'[c] = "running"
               PROVE  /\ Walking(c)' => cursor'[c] \in vas' /\ request'[c].addr < End(cursor'[c])
                      /\ \A v \in vas' : Overlaps(v, request'[c]) => Walking(c)' /\ cursor'[c].addr <= v.addr
                      /\ "prev" \in spare'[c] \/ (Walking(c)' => request'[c].addr <= cursor'[c].addr)
                      /\ "next" \in spare'[c] \/ ~Walking(c)'
    BY DEF Reached
  <2>1. c = b
    BY Alone
  <2> QED
    BY <2>1 DEF Walking
<1> QED
  BY <1>1, <1>2, <1>3

\* The mapping the range covers is gone.
LEMMA UnmapVaKeeps ==
  ASSUME IInv, NEW b \in Binders, UnmapVa(b)
  PROVE  IInv'
<1> DEFINE va == cursor[b]
           r == request[b]
<1>0. /\ Types /\ LinkedToOwnObject /\ PageTablesMatch /\ pc[b] = "running" /\ Walking(b) /\ Valid(r)
      /\ va \in vas /\ Overlaps(va, r) /\ \A v \in vas : Overlaps(v, r) => va.addr <= v.addr
      /\ r.addr \in Nat /\ End(r) \in Nat
      /\ va.addr \in Nat /\ End(va) \in Nat /\ r.addr <= va.addr
  <2>1. Types /\ LinkedToOwnObject /\ PageTablesMatch /\ pc[b] = "running" /\ Walking(b)
    BY DEF IInv, UnmapVa
  <2>2. Valid(r)
    BY <2>1, Alone
  <2>3. va \in vas /\ Overlaps(va, r) /\ \A v \in vas : Overlaps(v, r) => va.addr <= v.addr
    BY <2>1, WalkIs
  <2>4. r.addr \in Nat /\ End(r) \in Nat /\ va.addr \in Nat /\ End(va) \in Nat
    BY <2>1, <2>2, <2>3, MappingIs, RequestIs
  <2>5. r.addr <= va.addr
    BY <2>4 DEF UnmapVa, NeedsPrev
  <2> QED
    BY <2>1, <2>2, <2>3, <2>4, <2>5
<1>1. /\ vas' = vas \ {va} /\ vmBo' = Unlink(vmBo, va) /\ UNCHANGED <<lock, request, pc, spare>>
      /\ ptes' = [a \in Addrs |-> IF va.addr <= a /\ a < End(va) THEN Unmapped ELSE ptes[a]]
      /\ cursor' = [cursor EXCEPT ![b] = Advance(vas, va, r)]
  BY DEF UnmapVa, ClearPtes
<1>2. cursor'[b] = Advance(vas, va, r)
  BY <1>0, <1>1 DEF Types
<1> HIDE DEF va, r
<1>3. vas' \subseteq Mappings /\ Tree(vas')
  BY <1>0, <1>1, Removed DEF Types
<1>4. LET c == cursor'[b]  walking == c # NoVa /\ c.addr < End(r) IN
        /\ c \in vas \cup {NoVa}
        /\ walking => c \in vas' /\ r.addr < End(c) /\ r.addr <= c.addr /\ End(va) < End(r)
        /\ \A v \in vas' : Overlaps(v, r) => walking /\ c.addr <= v.addr
  BY <1>0, <1>1, <1>2, Advanced
<1>5. Types' /\ Locked' /\ Reached'
  <2>1. cursor'[b] \in Mappings \cup {NoVa}
    BY <1>0, <1>4 DEF Types
  <2>2. spare'[b] \in SUBSET {"new", "prev", "next"} /\ spare' = [spare EXCEPT ![b] = spare'[b]]
    BY <1>0, <1>1 DEF Types
  <2>3. cursor' = [cursor EXCEPT ![b] = cursor'[b]]
    BY <1>1, <1>2
  <2>4. "next" \in spare'[b]
    BY <1>0, <1>1 DEF IInv, Reached
  <2>5. LET c == cursor'[b]  R == request[b]  walking == c # NoVa /\ c.addr < End(R) IN
           /\ walking => c \in vas' /\ R.addr < End(c)
           /\ \A v \in vas' : Overlaps(v, R) => walking /\ c.addr <= v.addr
           /\ "prev" \in spare'[b] \/ (walking => R.addr <= c.addr)
           /\ "next" \in spare'[b] \/ ~walking
    BY <1>4, <2>4 DEF r
  <2> QED
    BY <1>0, <1>1, <1>3, <2>1, <2>2, <2>3, <2>5, GoesOn
<1>6. LinkedToOwnObject'
  BY <1>0, <1>1 DEF LinkedToOwnObject, Unlink
<1>7. PageTablesMatch'
  <2>1. ASSUME NEW v \in vas', NEW a \in Cover(v)
        PROVE  ptes'[a] = [obj |-> v.obj, page |-> v.offset + (a - v.addr)]
    <3>1. v \in vas /\ v # va /\ a \in Addrs /\ a \in Int /\ v.addr <= a /\ a < End(v)
          /\ v.addr \in Nat /\ End(v) \in Nat
      BY <1>0, <1>1, <2>1, MappingIs DEF Cover
    <3>2. Apart(v, va)
      BY <1>0, <3>1 DEF Types, Tree
    <3>3. ~(va.addr <= a /\ a < End(va))
      BY <1>0, <3>1, <3>2 DEF Apart
    <3> QED
      BY <1>0, <1>1, <3>1, <3>3 DEF PageTablesMatch
  <2>2. ASSUME NEW a \in Addrs, ptes'[a] # Unmapped PROVE \E v \in vas' : a \in Cover(v)
    <3>1. ptes[a] # Unmapped /\ ~(va.addr <= a /\ a < End(va)) /\ a \in Int
      BY <1>1, <2>2 DEF Addrs
    <3>2. PICK v \in vas : a \in Cover(v)
      BY <1>0, <3>1 DEF PageTablesMatch
    <3>3. v # va
      BY <1>0, <3>1, <3>2 DEF Cover
    <3> QED
      BY <1>1, <3>2, <3>3
  <2> QED
    BY <2>1, <2>2 DEF PageTablesMatch
<1> QED
  BY <1>5, <1>6, <1>7 DEF IInv

\* The callback for a split has its preallocated mappings, and they are inserted.
LEMMA Remaps ==
  ASSUME IInv, NEW b \in Binders, RemapVa(b)
  PROVE  LET va == cursor[b]
             r == request[b]
             prev == Before(va, r)
             next == After(va, r)
             used == (IF prev = {} THEN {} ELSE {"prev"}) \cup (IF next = {} THEN {} ELSE {"next"})
         IN  /\ used \subseteq spare[b]
             /\ vas' = (vas \ {va}) \cup prev \cup next /\ Tree(vas') /\ vas' \subseteq Mappings
             /\ va \notin prev \cup next
             /\ ptes' = [a \in Addrs |-> IF CutStart(va, r) <= a /\ a < CutEnd(va, r)
                                         THEN Unmapped ELSE ptes[a]]
             /\ vmBo' = Unlink(Link(vmBo, [p \in prev \cup next |-> PartsBo(va, r)]), va)
             /\ cursor' = [cursor EXCEPT ![b] = Advance(vas, va, r)]
             /\ spare' = [spare EXCEPT ![b] = spare[b] \ used]
             /\ UNCHANGED <<lock, request, pc>>
<1> DEFINE va == cursor[b]
           r == request[b]
           prev == Before(va, r)
           next == After(va, r)
           used == (IF prev = {} THEN {} ELSE {"prev"}) \cup (IF next = {} THEN {} ELSE {"next"})
           tree1 == (vas \ {va}) \cup UNION {Insert(vas \ {va}, p) : p \in prev}
           tree2 == tree1 \cup UNION {Insert(tree1, p) : p \in next}
<1>0. /\ Types /\ pc[b] = "running" /\ Walking(b) /\ Valid(r) /\ va \in vas /\ Overlaps(va, r)
  BY Alone, WalkIs DEF IInv, RemapVa
<1>1. /\ va \in Mappings /\ IsRange(va) /\ va.offset \in Nat /\ va.obj \in Objects
      /\ IsRange(r) /\ r.kind \in {"map", "unmap"} /\ Tree(vas) /\ r.addr \in Nat /\ va.addr \in Nat
  BY <1>0, MappingIs, RequestIs DEF Valid, Types
<1>2. used \subseteq spare[b]
  <2>1. prev # {} => "prev" \in spare[b]
    BY <1>0, <1>1 DEF IInv, Reached, Before, NeedsPrev
  <2>2. "next" \in spare[b]
    BY <1>0 DEF IInv, Reached
  <2> QED
    BY <2>1, <2>2
<1>3. /\ ptes' = [a \in Addrs |-> IF CutStart(va, r) <= a /\ a < CutEnd(va, r)
                                  THEN Unmapped ELSE ptes[a]]
      /\ vas' = tree2
      /\ vmBo' = Unlink(Link(vmBo, [p \in prev \cup next |-> PartsBo(va, r)]), va)
      /\ cursor' = [cursor EXCEPT ![b] = Advance(vas, va, r)]
      /\ spare' = [spare EXCEPT ![b] = spare[b] \ used]
      /\ UNCHANGED <<lock, request, pc>>
  BY <1>2 DEF RemapVa, ClearPtes, Before, After
<1>4. vas' = (vas \ {va}) \cup prev \cup next /\ Tree(vas') /\ va \notin prev \cup next
  <2>1. tree1 = With(vas \ {va}, Before(va, r))
    BY DEF With
  <2>2. tree2 = With(tree1, After(va, r))
    BY DEF With
  <2> HIDE DEF tree1, tree2, va, r
  <2>3. tree2 = (vas \ {va}) \cup prev \cup next /\ Tree(tree2) /\ va \notin prev \cup next
    BY <1>0, <1>1, <2>1, <2>2, SplitTree
  <2> QED
    BY <1>3, <2>3
<1>5. prev \cup next \subseteq Mappings
  <2> SUFFICES ASSUME NEW p \in prev \cup next PROVE p \in Mappings
    OBVIOUS
  <2>1. PartOf(p, va) /\ p = [addr |-> p.addr, range |-> p.range, obj |-> p.obj, offset |-> p.offset]
    BY <1>0, <1>1, PartsAre
  <2>2. p.addr \in Nat /\ p.range \in Nat /\ p.obj \in Objects /\ p.offset \in Nat
    BY <1>1, <2>1 DEF PartOf, IsRange
  <2> QED
    BY <2>1, <2>2 DEF Mappings
<1>6. vas' \subseteq Mappings
  BY <1>0, <1>4, <1>5 DEF Types
<1> QED
  BY <1>2, <1>3, <1>4, <1>6

\* What is left of the mapping the range cuts is mapped as it was.
LEMMA RemapVaKeeps ==
  ASSUME IInv, NEW b \in Binders, RemapVa(b)
  PROVE  IInv'
<1> DEFINE va == cursor[b]
           r == request[b]
           prev == Before(va, r)
           next == After(va, r)
           used == (IF prev = {} THEN {} ELSE {"prev"}) \cup (IF next = {} THEN {} ELSE {"next"})
<1>0. /\ Types /\ LinkedToOwnObject /\ PageTablesMatch /\ pc[b] = "running" /\ Walking(b) /\ Valid(r)
      /\ va \in vas /\ Overlaps(va, r) /\ \A v \in vas : Overlaps(v, r) => va.addr <= v.addr
      /\ va.obj \in Objects /\ va.offset \in Nat /\ IsRange(va) /\ IsRange(r)
      /\ r.addr \in Nat /\ End(r) \in Nat /\ r.addr < End(r)
      /\ va.addr \in Nat /\ End(va) \in Nat /\ va.addr < End(va)
  <2>1. Types /\ LinkedToOwnObject /\ PageTablesMatch /\ pc[b] = "running" /\ Walking(b)
    BY DEF IInv, RemapVa
  <2>2. Valid(r)
    BY <2>1, Alone
  <2>3. va \in vas /\ Overlaps(va, r) /\ \A v \in vas : Overlaps(v, r) => va.addr <= v.addr
    BY <2>1, WalkIs
  <2> QED
    BY <2>1, <2>2, <2>3, MappingIs, RequestIs DEF Valid
<1>1. /\ used \subseteq spare[b]
      /\ vas' = (vas \ {va}) \cup prev \cup next /\ Tree(vas') /\ vas' \subseteq Mappings
      /\ va \notin prev \cup next
      /\ ptes' = [a \in Addrs |-> IF CutStart(va, r) <= a /\ a < CutEnd(va, r)
                                  THEN Unmapped ELSE ptes[a]]
      /\ vmBo' = Unlink(Link(vmBo, [p \in prev \cup next |-> PartsBo(va, r)]), va)
      /\ cursor' = [cursor EXCEPT ![b] = Advance(vas, va, r)]
      /\ spare' = [spare EXCEPT ![b] = spare[b] \ used]
      /\ UNCHANGED <<lock, request, pc>>
  BY Remaps
<1>2. cursor'[b] = Advance(vas, va, r) /\ spare'[b] = spare[b] \ used
  BY <1>0, <1>1 DEF Types
<1>3. /\ \A p \in prev : PartOf(p, va) /\ p.addr = va.addr /\ End(p) = r.addr
      /\ \A p \in next : PartOf(p, va) /\ p.addr = End(r) /\ End(p) = End(va)
      /\ CutStart(va, r) = IF va.addr < r.addr THEN r.addr ELSE va.addr
      /\ CutEnd(va, r) = IF End(va) > End(r) THEN End(r) ELSE End(va)
      /\ va.addr < r.addr <=> prev # {}
      /\ End(va) > End(r) <=> next # {}
  <2>1. /\ NeedsPrev(va, r) <=> va.addr < r.addr
        /\ NeedsNext(va, r) <=> End(va) > End(r)
    BY DEF NeedsPrev, NeedsNext
  <2>2. (NeedsPrev(va, r) <=> prev # {}) /\ (NeedsNext(va, r) <=> next # {})
    BY DEF Before, After
  <2> HIDE DEF va, r
  <2> QED
    BY <1>0, <2>1, <2>2, PartsAre DEF Valid
<1> DEFINE prevUsed == prev # {}
           nextUsed == next # {}
<1>4. ("prev" \in used <=> prevUsed) /\ ("next" \in used <=> nextUsed)
  OBVIOUS
<1> HIDE DEF va, r, used
<1>5. \A v \in vas' : Overlaps(v, r) => v \in vas /\ v # va
  <2>1. \A p \in prev \cup next : ~Overlaps(p, r)
    BY <1>0, <1>3 DEF Overlaps
  <2> HIDE DEF prev, next
  <2> QED
    BY <1>1, <2>1
<1>6. LET c == cursor'[b]  walking == c # NoVa /\ c.addr < End(r) IN
        /\ c \in vas \cup {NoVa}
        /\ walking => c \in vas' /\ r.addr < End(c) /\ r.addr <= c.addr /\ End(va) < End(r)
        /\ \A v \in vas' : Overlaps(v, r) => walking /\ c.addr <= v.addr
  <2>1. vas \ {va} \subseteq vas'
    BY <1>1
  <2> QED
    BY <1>0, <1>2, <1>5, <2>1, Advanced
<1>7. Types' /\ Locked' /\ Reached'
  <2>1. cursor'[b] \in Mappings \cup {NoVa}
    BY <1>0, <1>6 DEF Types
  <2>2. spare'[b] \in SUBSET {"new", "prev", "next"} /\ spare' = [spare EXCEPT ![b] = spare'[b]]
    BY <1>0, <1>1, <1>2 DEF Types
  <2>3. cursor' = [cursor EXCEPT ![b] = cursor'[b]]
    BY <1>1, <1>2
  <2>4. "next" \in spare[b]
    BY <1>0 DEF IInv, Reached
  <2>5. LET c == cursor'[b]  R == request[b]  walking == c # NoVa /\ c.addr < End(R) IN
           /\ walking => c \in vas' /\ R.addr < End(c)
           /\ \A v \in vas' : Overlaps(v, R) => walking /\ c.addr <= v.addr
           /\ "prev" \in spare'[b] \/ (walking => R.addr <= c.addr)
           /\ "next" \in spare'[b] \/ ~walking
    <3> DEFINE c == cursor'[b]
               walking == c # NoVa /\ c.addr < End(r)
    <3>1. "next" \in spare'[b] \/ nextUsed
      BY <1>2, <1>4, <2>4
    <3>2. nextUsed => ~walking
      BY <1>0, <1>3, <1>6
    <3> QED
      BY <1>6, <3>1, <3>2 DEF r
  <2> QED
    BY <1>0, <1>1, <2>1, <2>2, <2>3, <2>5, GoesOn
<1>8. LinkedToOwnObject'
  <2>1. \A p \in prev \cup next : p.obj = va.obj
    BY <1>3 DEF PartOf
  <2> HIDE DEF prev, next
  <2>2. vmBo[va] = va.obj /\ DOMAIN vmBo = vas /\ \A v \in vas : vmBo[v] = v.obj
    BY <1>0 DEF LinkedToOwnObject
  <2> DEFINE new == [p \in prev \cup next |-> PartsBo(va, r)]
             linked == Link(vmBo, new)
  <2>3. DOMAIN new = prev \cup next /\ \A p \in prev \cup next : new[p] = vmBo[va]
    BY DEF PartsBo
  <2> HIDE DEF new
  <2>4. /\ DOMAIN linked = vas \cup prev \cup next
        /\ \A v \in vas \cup prev \cup next : linked[v] = v.obj
    BY <2>1, <2>2, <2>3 DEF Link
  <2>5. vmBo' = Unlink(linked, va)
    BY <1>1 DEF new
  <2> HIDE DEF linked
  <2>6. DOMAIN vmBo' = (vas \cup prev \cup next) \ {va}
    BY <2>4, <2>5 DEF Unlink
  <2>7. \A v \in (vas \cup prev \cup next) \ {va} : vmBo'[v] = v.obj
    BY <2>4, <2>5 DEF Unlink
  <2>8. vas' = (vas \cup prev \cup next) \ {va}
    BY <1>1
  <2> QED
    BY <2>6, <2>7, <2>8 DEF LinkedToOwnObject
<1>9. PageTablesMatch'
  <2>1. ASSUME NEW v \in vas \ {va}, NEW a \in Cover(v)
        PROVE  ptes'[a] = [obj |-> v.obj, page |-> v.offset + (a - v.addr)]
    <3>1. a \in Addrs /\ a \in Int /\ v.addr <= a /\ a < End(v) /\ v.addr \in Nat /\ End(v) \in Nat
      BY <1>0, MappingIs DEF Cover
    <3>2. Apart(v, va)
      BY <1>0 DEF Types, Tree
    <3>3. ~(va.addr <= a /\ a < End(va))
      BY <1>0, <3>1, <3>2 DEF Apart
    <3>4. ~(CutStart(va, r) <= a /\ a < CutEnd(va, r))
      BY <1>0, <1>3, <3>1, <3>3
    <3> QED
      BY <1>0, <1>1, <3>1, <3>4 DEF PageTablesMatch
  <2>2. ASSUME NEW p \in prev \cup next, NEW a \in Cover(p)
        PROVE  ptes'[a] = [obj |-> p.obj, page |-> p.offset + (a - p.addr)]
    <3>1. /\ PartOf(p, va) /\ p.addr \in Nat /\ End(p) \in Nat /\ a \in Int
          /\ p.addr <= a /\ a < End(p) /\ va.addr <= a /\ a < End(va)
      BY <1>0, <1>3 DEF Cover, PartOf, IsRange, End
    <3>2. a \in Cover(va) /\ a \in Addrs
      BY <1>0, <3>1, MappingIs DEF Cover
    <3>3. ~(CutStart(va, r) <= a /\ a < CutEnd(va, r))
      <4>1. CASE p \in prev
        BY <1>0, <1>3, <3>1, <4>1
      <4>2. CASE p \in next
        BY <1>0, <1>3, <3>1, <4>2
      <4> QED
        BY <4>1, <4>2
    <3>4. ptes'[a] = [obj |-> va.obj, page |-> va.offset + (a - va.addr)]
      BY <1>0, <1>1, <3>2, <3>3 DEF PageTablesMatch
    <3>5. p.obj = va.obj /\ p.offset = va.offset + (p.addr - va.addr)
      BY <3>1 DEF PartOf
    <3>6. p.offset + (a - p.addr) = va.offset + (a - va.addr)
      BY <1>0, <3>1, <3>5
    <3> QED
      BY <3>4, <3>5, <3>6
  <2>3. ASSUME NEW a \in Addrs, ptes'[a] # Unmapped PROVE \E v \in vas' : a \in Cover(v)
    <3>1. ptes[a] # Unmapped /\ ~(CutStart(va, r) <= a /\ a < CutEnd(va, r)) /\ a \in Int
      BY <1>1, <2>3 DEF Addrs
    <3>2. PICK v \in vas : a \in Cover(v)
      BY <1>0, <3>1 DEF PageTablesMatch
    <3>3. CASE v # va
      BY <1>1, <3>2, <3>3
    <3>4. CASE v = va
      <4>1. va.addr <= a /\ a < End(va)
        BY <1>0, <3>1, <3>2, <3>4 DEF Cover
      <4>2. (va.addr < r.addr /\ a < r.addr) \/ (End(va) > End(r) /\ End(r) <= a)
        BY <1>0, <1>3, <3>1, <4>1
      <4>3. ASSUME va.addr < r.addr, a < r.addr PROVE \E p \in prev : a \in Cover(p)
        <5>1. PICK p \in prev : p.addr = va.addr /\ End(p) = r.addr
          BY <1>3, <4>3
        <5> QED
          BY <1>0, <3>1, <4>1, <4>3, <5>1 DEF Cover
      <4>4. ASSUME End(va) > End(r), End(r) <= a PROVE \E p \in next : a \in Cover(p)
        <5>1. PICK p \in next : p.addr = End(r) /\ End(p) = End(va)
          BY <1>3, <4>4
        <5> QED
          BY <1>0, <3>1, <4>1, <4>4, <5>1 DEF Cover
      <4> QED
        BY <1>1, <4>2, <4>3, <4>4
    <3> QED
      BY <3>3, <3>4
  <2> HIDE DEF prev, next
  <2>4. \A v \in vas' : v \in vas \ {va} \/ v \in prev \cup next
    BY <1>1
  <2> QED
    BY <2>1, <2>2, <2>3, <2>4 DEF PageTablesMatch
<1> QED
  BY <1>7, <1>8, <1>9 DEF IInv

\* A range that is free is mapped, and its insertion is not refused.
LEMMA MapVaKeeps ==
  ASSUME IInv, NEW b \in Binders, MapVa(b)
  PROVE  IInv'
<1> DEFINE r == request[b]
           va == [addr |-> r.addr, range |-> r.range, obj |-> r.obj, offset |-> r.offset]
<1>0. /\ Types /\ LinkedToOwnObject /\ PageTablesMatch /\ Valid(r) /\ pc[b] = "running" /\ lock = b
      /\ \A v \in vas : Apart(v, r)
      /\ r.kind = "map" /\ r.obj \in Objects /\ r.offset \in Nat
      /\ r.addr \in Nat /\ r.range \in Nat /\ End(r) \in Nat
  <2>1. Types /\ LinkedToOwnObject /\ PageTablesMatch /\ pc[b] = "running" /\ ~Walking(b) /\ r.kind = "map"
    BY DEF IInv, MapVa
  <2>2. Valid(r) /\ lock = b
    BY <2>1, Alone
  <2>3. \A v \in vas : Apart(v, r)
    BY <2>1, WalkOver
  <2> QED
    BY <2>1, <2>2, <2>3, RequestIs DEF Valid
<1>1. /\ ptes' = [a \in Addrs |-> IF a \in Cover(r)
                                  THEN [obj |-> r.obj, page |-> r.offset + (a - r.addr)] ELSE ptes[a]]
      /\ vas' = Insert(vas, va) /\ vmBo' = Link(vmBo, [v \in {va} |-> r.obj])
      /\ spare' = [spare EXCEPT ![b] = spare[b] \ {"new"}]
      /\ pc' = [pc EXCEPT ![b] = "ok"] /\ UNCHANGED <<lock, request, cursor>>
  BY DEF MapVa
<1>2. /\ va \in Mappings /\ IsRange(va) /\ RangeValid(va.addr, va.range) /\ Cover(va) = Cover(r)
      /\ va.addr = r.addr /\ va.obj = r.obj /\ va.offset = r.offset
      /\ \A v \in vas : Apart(v, va)
  <2>1. va.addr = r.addr /\ va.obj = r.obj /\ va.offset = r.offset /\ va.range = r.range
    OBVIOUS
  <2>2. va \in Mappings
    BY <1>0, WalkOver DEF Mappings, Valid, MapVa
  <2> HIDE DEF va, r
  <2> QED
    BY <1>0, <2>1, <2>2 DEF Valid, IsRange, Cover, Apart, End
<1> HIDE DEF va, r
<1>3. vas' = vas \cup {va} /\ Tree(vas')
  <2>1. Tree(vas)
    BY <1>0 DEF Types
  <2>2. Insert(vas, va) = vas \cup {va} /\ Tree(vas \cup {va})
    BY <1>2, <2>1, Inserted
  <2> QED
    BY <1>1, <2>2
<1>4. Types'
  <2>1. vas' \subseteq Mappings
    BY <1>0, <1>2, <1>3 DEF Types
  <2>2. /\ pc' \in [Binders -> {"idle", "running", "ok", "failed"}]
        /\ request' \in [Binders -> Requests \cup {NoRequest}]
        /\ cursor' \in [Binders -> Mappings \cup {NoVa}]
        /\ spare' \in [Binders -> SUBSET {"new", "prev", "next"}]
    BY <1>0, <1>1 DEF Types
  <2> QED
    BY <1>3, <2>1, <2>2 DEF Types
<1>5. Locked' /\ Reached'
  <2>1. \A c \in Binders : pc'[c] # "running" /\ (pc'[c] # "idle" => c = b)
    BY <1>0, <1>1, Alone DEF Types
  <2> QED
    BY <1>0, <1>1, <2>1 DEF Locked, Reached, r
<1>6. LinkedToOwnObject'
  <2> DEFINE new == [v \in {va} |-> r.obj]
  <2>1. DOMAIN new = {va} /\ new[va] = va.obj
    BY <1>2
  <2>2. vmBo' = Link(vmBo, new)
    BY <1>1
  <2> HIDE DEF new
  <2>3. DOMAIN vmBo' = vas \cup {va} /\ \A v \in vas \cup {va} : vmBo'[v] = v.obj
    BY <1>0, <2>1, <2>2 DEF LinkedToOwnObject, Link
  <2> QED
    BY <1>3, <2>3 DEF LinkedToOwnObject
<1>7. PageTablesMatch'
  <2>1. ASSUME NEW v \in vas, NEW a \in Cover(v)
        PROVE  ptes'[a] = [obj |-> v.obj, page |-> v.offset + (a - v.addr)]
    <3>1. a \in Addrs /\ a \in Int /\ v.addr <= a /\ a < End(v) /\ v.addr \in Nat /\ End(v) \in Nat
      BY <1>0, MappingIs DEF Cover
    <3>2. a \notin Cover(r)
      BY <1>0, <3>1 DEF Apart, Cover
    <3> QED
      BY <1>0, <1>1, <3>1, <3>2 DEF PageTablesMatch
  <2>2. ASSUME NEW a \in Cover(va)
        PROVE  ptes'[a] = [obj |-> va.obj, page |-> va.offset + (a - va.addr)]
    <3>1. a \in Cover(r) /\ a \in Addrs
      BY <1>0, <1>2, RequestIs
    <3>2. ptes'[a] = [obj |-> r.obj, page |-> r.offset + (a - r.addr)]
      BY <1>1, <3>1
    <3> QED
      BY <1>2, <3>2
  <2>3. ASSUME NEW a \in Addrs, ptes'[a] # Unmapped PROVE \E v \in vas' : a \in Cover(v)
    BY <1>0, <1>1, <1>2, <1>3, <2>3 DEF PageTablesMatch
  <2> QED
    BY <1>3, <2>1, <2>2, <2>3 DEF PageTablesMatch
<1> QED
  BY <1>4, <1>5, <1>6, <1>7 DEF IInv

\* The walk begins at the first mapping in the range.
LEMMA BeginKeeps ==
  ASSUME IInv, NEW b \in Binders, NEW r \in Requests, Begin(b, r)
  PROVE  IInv'
<1>0. /\ Types /\ lock = Nobody /\ RangeValid(r.addr, r.range) /\ Tree(vas)
      /\ \A c \in Binders : pc[c] = "idle"
  BY DEF IInv, Types, Begin, Locked
<1>1. /\ Valid(r) /\ r.addr \in Nat /\ End(r) \in Nat /\ r.addr < End(r)
      /\ End(r) = r.addr + r.range /\ r.range \in Nat
  BY <1>0, RequestsAre, RequestIs
<1> DEFINE c == FindFirst(r.addr, r.range)
<1>2. /\ lock' = b /\ request' = [request EXCEPT ![b] = r] /\ pc' = [pc EXCEPT ![b] = "running"]
      /\ cursor' = [cursor EXCEPT ![b] = c] /\ spare' = [spare EXCEPT ![b] = Spares(r)]
      /\ UNCHANGED <<vas, vmBo, ptes>>
  BY DEF Begin
<1>3. \/ c = NoVa /\ \A v \in vas : ~Overlaps(v, r)
      \/ c \in vas /\ Overlaps(c, r) /\ \A v \in vas : Overlaps(v, r) => c.addr <= v.addr
  <2>1. c = IterFirst(vas, r.addr, End(r) - 1) /\ End(r) - 1 \in Int
    BY <1>1 DEF FindFirst
  <2>2. \A v \in vas : (v.addr <= End(r) - 1 /\ End(v) - 1 >= r.addr) <=> Overlaps(v, r)
    BY <1>0, <1>1, MappingIs DEF Overlaps
  <2> HIDE DEF c
  <2> QED
    BY <1>0, <1>1, <2>1, <2>2, IterFirstIs
<1> HIDE DEF c
<1>4. Types'
  <2>1. c \in Mappings \cup {NoVa}
    BY <1>0, <1>3 DEF Types
  <2>2. Spares(r) \in SUBSET {"new", "prev", "next"}
    BY DEF Spares
  <2>3. /\ pc' \in [Binders -> {"idle", "running", "ok", "failed"}]
        /\ request' \in [Binders -> Requests \cup {NoRequest}]
    BY <1>0, <1>2 DEF Types
  <2>4. cursor' \in [Binders -> Mappings \cup {NoVa}]
    BY <1>0, <1>2, <2>1 DEF Types
  <2>5. spare' \in [Binders -> SUBSET {"new", "prev", "next"}]
    BY <1>0, <1>2, <2>2 DEF Types
  <2> QED
    BY <1>0, <1>2, <2>3, <2>4, <2>5 DEF Types
<1>5. request'[b] = r /\ cursor'[b] = c /\ {"prev", "next"} \subseteq spare'[b]
      /\ \A d \in Binders : pc'[d] # "idle" => d = b
  BY <1>0, <1>2 DEF Types, Spares
<1>6. Locked'
  BY <1>1, <1>2, <1>5 DEF Locked
<1>7. Reached'
  <2>1. Walking(b)' = (c # NoVa /\ c.addr < End(r))
    BY <1>5 DEF Walking
  <2>2. \A v \in vas : v # NoVa
    BY <1>0, MappingIs
  <2>3. /\ Walking(b)' => c \in vas' /\ r.addr < End(c)
        /\ \A v \in vas' : Overlaps(v, r) => Walking(b)' /\ c.addr <= v.addr
    BY <1>2, <1>3, <2>1, <2>2 DEF Overlaps
  <2> QED
    BY <1>5, <2>3 DEF Reached
<1>8. LinkedToOwnObject' /\ PageTablesMatch'
  BY <1>2 DEF IInv, LinkedToOwnObject, PageTablesMatch
<1> QED
  BY <1>4, <1>6, <1>7, <1>8 DEF IInv

\* A request ends, one way or the other, and the thread returns.
LEMMA EndKeeps ==
  ASSUME IInv, NEW b \in Binders, UnmapDone(b) \/ CallbackFails(b) \/ Return(b)
  PROVE  IInv'
<1>0. Types /\ pc[b] # "idle" /\ UNCHANGED <<vas, vmBo, ptes>>
  BY DEF IInv, Types, UnmapDone, CallbackFails, Return
<1>1. Types'
  BY <1>0 DEF Types, UnmapDone, CallbackFails, Return
<1>2. \A c \in Binders : pc'[c] # "running" /\ (pc'[c] # "idle" => c = b /\ lock' = b /\ request' = request)
  BY <1>0, Alone DEF Types, UnmapDone, CallbackFails, Return
<1>3. Locked' /\ Reached'
  BY <1>0, <1>2, Alone DEF Locked, Reached
<1>4. LinkedToOwnObject' /\ PageTablesMatch'
  BY <1>0 DEF IInv, LinkedToOwnObject, PageTablesMatch
<1> QED
  BY <1>1, <1>3, <1>4 DEF IInv

\* The invariant holds throughout.
LEMMA Invariance == Spec => []IInv
<1>1. IInv /\ [Next]_vars => IInv'
  <2> SUFFICES ASSUME IInv, [Next]_vars PROVE IInv'
    OBVIOUS
  <2>1. CASE Next
    BY <2>1, BeginKeeps, UnmapVaKeeps, RemapVaKeeps, MapVaKeeps, EndKeeps DEF Next
  <2>2. CASE UNCHANGED vars
    <3>1. Types' /\ Locked' /\ Reached'
      BY <2>2 DEF vars, binderVars, IInv, Types, Locked, Reached, Walking
    <3>2. LinkedToOwnObject' /\ PageTablesMatch'
      BY <2>2 DEF vars, IInv, LinkedToOwnObject, PageTablesMatch
    <3> QED
      BY <3>1, <3>2 DEF IInv
  <2> QED
    BY <2>1, <2>2
<1> QED
  BY <1>1, InitHolds, PTL DEF Spec

-----------------------------------------------------------------------------
(* What the run checks.                                                    *)

\* After every callback the page tables translate an address as the mapping that covers
\* it says: a part of a split keeps the pages of its addresses in each position of the
\* range (the formulas for its offset in sm_map and sm_unmap), and no insertion is refused.
THEOREM PageTablesAreTheTree == Spec => []PageTablesMatch
<1>1. IInv => PageTablesMatch
  BY DEF IInv
<1> QED
  BY <1>1, Invariance, PTL

\* The mappings of the tree, and no others, are linked, to the vm_bo of their own object
\* (drm_gpuva_link(), and patch 0007 for the parts of a split).
THEOREM LinksAreRight == Spec => []LinkedToOwnObject
<1>1. IInv => LinkedToOwnObject
  BY DEF IInv
<1> QED
  BY <1>1, Invariance, PTL

\* The walk never goes to a mapping that a callback has removed (the successor is read
\* before the callback, drm_gpuvm_for_each_va_range_safe()).
THEOREM CursorIsAlive == Spec => []CursorAlive
<1>1. IInv => CursorAlive
  BY DEF IInv, Reached, CursorAlive
<1> QED
  BY <1>1, Invariance, PTL

\* No callback finds the mapping it needs for a part of a split used up.
THEOREM SparesAreEnough == Spec => []SparesSuffice
<1>1. IInv => SparesSuffice
  BY DEF IInv, Types, SparesSuffice
<1> QED
  BY <1>1, Invariance, PTL

\* Nothing is mapped outside of the managed range or in the reserved one
\* (drm_gpuvm_range_valid()).
THEOREM MappedIsAllowed == Spec => []MappedWhereAllowed
<1>1. IInv => MappedWhereAllowed
  <2> SUFFICES ASSUME IInv, NEW a \in Addrs, ptes[a] # Unmapped
               PROVE  MmStart <= a /\ a < MmStart + MmRange /\ ~(KStart <= a /\ a < KStart + KRange)
    BY DEF MappedWhereAllowed
  <2>1. PICK v \in vas : a \in Cover(v)
    BY DEF IInv, PageTablesMatch
  <2>2. /\ v.addr \in Nat /\ End(v) \in Nat /\ Allowed(v.addr, End(v))
        /\ a \in Int /\ v.addr <= a /\ a < End(v)
    BY <2>1, MappingIs DEF IInv, Cover
  <2> QED
    BY <2>2 DEF Allowed, Addrs
<1> QED
  BY <1>1, Invariance, PTL

\* drm_gpuva_find(), drm_gpuva_find_next() and drm_gpuva_find_prev() find the mapping that
\* is there.
THEOREM LookUpsDoFind == Spec => []LookUpsFind
<1>1. IInv => LookUpsFind
  <2> SUFFICES ASSUME IInv, NEW v \in vas
               PROVE  Find(v.addr, v.range) = v /\ FindNext(v.addr) = v /\ FindPrev(End(v)) = v
    BY DEF LookUpsFind
  <2>0. /\ Tree(vas) /\ v # NoVa /\ v.addr \in Nat /\ End(v) \in Nat /\ v.addr < End(v)
        /\ End(v) < AddrSpace /\ Allowed(v.addr, End(v)) /\ End(v) = v.addr + v.range /\ v.range \in Nat
    BY MappingIs DEF IInv, Types, IsRange, End
  <2>1. Find(v.addr, v.range) = v
    <3>1. IterFirst(vas, v.addr, v.addr + v.range - 1) = v
      BY <2>0, IterFirstFinds
    <3> QED
      BY <2>0, <3>1 DEF Find, FindFirst
  <2>2. FindNext(v.addr) = v
    <3>1. RangeValid(v.addr, 1)
      BY <2>0, RangeValidIs DEF Allowed, Addrs
    <3>2. IterFirst(vas, v.addr, v.addr + 1) = v
      BY <2>0, IterFirstFinds
    <3> QED
      BY <3>1, <3>2 DEF FindNext
  <2>3. FindPrev(End(v)) = v
    <3> DEFINE before == End(v) - 1
    <3>1. (End(v) - 1) % AddrSpace = before /\ before \in Nat /\ before + 1 = End(v)
      BY <2>0
    <3> HIDE DEF before
    <3>2. RangeValid(before, 1)
      BY <2>0, <3>1, RangeValidIs DEF Allowed, Addrs
    <3>3. IterFirst(vas, before, End(v)) = v
      BY <2>0, <3>1, IterFirstFinds
    <3> QED
      BY <3>1, <3>2, <3>3 DEF FindPrev
  <2> QED
    BY <2>1, <2>2, <2>3
<1> QED
  BY <1>1, Invariance, PTL

-----------------------------------------------------------------------------
(* What the manager implements: AddressSpace, where the request and its    *)
(* status are those of the thread that has the lock.                       *)

\* The step of the thread with the lock, as AddressSpace sees it.
LEMMA OwnerIs ==
  ASSUME IInv, NEW b \in Binders, pc[b] # "idle"
  PROVE  /\ lock = b /\ b # Nobody /\ Owner(request, NoRequest) = request[b] /\ Owner(pc, "idle") = pc[b]
         /\ UNCHANGED lock => /\ Owner(request, NoRequest)' = request'[b]
                              /\ Owner(pc, "idle")' = pc'[b]
         /\ Space!Requested = Cover(request[b])
<1>1. lock = b /\ b # Nobody /\ Valid(request[b])
  BY Alone
<1>2. Owner(request, NoRequest) = request[b] /\ Owner(pc, "idle") = pc[b]
  BY <1>1 DEF Owner
<1>3. UNCHANGED lock => Owner(request, NoRequest)' = request'[b] /\ Owner(pc, "idle")' = pc'[b]
  BY <1>1 DEF Owner
<1>4. Space!Requested = {a \in Addrs : request[b].addr <= a /\ a < request[b].addr + request[b].range}
  BY <1>2 DEF Space!Requested
<1>5. Cover(request[b]) = {a \in Addrs : request[b].addr <= a /\ a < request[b].addr + request[b].range}
  BY <1>1, RequestIs DEF Cover, Addrs
<1> QED
  BY <1>1, <1>2, <1>3, <1>4, <1>5

\* A callback clears the mapping, or the part of it, that is in the range.
LEMMA ClearsImplement ==
  ASSUME IInv, NEW b \in Binders, UnmapVa(b) \/ RemapVa(b)
  PROVE  Space!Clear
<1> DEFINE va == cursor[b]
           r == request[b]
<1>1. /\ pc[b] = "running" /\ Walking(b) /\ va \in vas /\ Overlaps(va, r) /\ Valid(r) /\ Types
  BY Alone, WalkIs DEF IInv, UnmapVa, RemapVa
<1>2. /\ r.addr \in Nat /\ End(r) \in Nat /\ va.addr \in Nat /\ End(va) \in Nat
      /\ IsRange(va) /\ IsRange(r) /\ r.kind \in {"map", "unmap"} /\ va.offset \in Nat
      /\ va.addr < End(va) /\ r.addr < End(r)
  BY <1>1, MappingIs, RequestIs DEF Valid
<1>3. UNCHANGED <<lock, request, pc>>
  BY Remaps DEF UnmapVa
<1>4. ASSUME NEW from \in Nat, NEW to \in Nat, r.addr <= from, to <= End(r),
             ptes' = [a \in Addrs |-> IF from <= a /\ a < to THEN Unmapped ELSE ptes[a]]
      PROVE  Space!Clear
  <2> DEFINE cleared == {a \in Addrs : from <= a /\ a < to}
  <2>1. cleared \in SUBSET Space!Requested
    <3>1. Space!Requested = Cover(r)
      BY <1>1, OwnerIs
    <3>2. \A a \in cleared : a \in Cover(r)
      BY <1>2, <1>4 DEF Cover, Addrs
    <3> QED
      BY <3>1, <3>2
  <2>2. ptes' = [a \in Addrs |-> IF a \in cleared THEN Unmapped ELSE ptes[a]]
    BY <1>4
  <2>3. Owner(pc, "idle") = "running" /\ UNCHANGED <<Owner(request, NoRequest), Owner(pc, "idle")>>
    BY <1>1, <1>3, OwnerIs
  <2> HIDE DEF cleared
  <2> QED
    BY <2>1, <2>2, <2>3 DEF Space!Clear
<1>5. CASE UnmapVa(b)
  <2>1. r.addr <= va.addr /\ End(va) <= End(r)
    BY <1>2, <1>5 DEF UnmapVa, NeedsPrev, NeedsNext
  <2> QED
    BY <1>2, <1>4, <1>5, <2>1 DEF UnmapVa, ClearPtes
<1>6. CASE RemapVa(b)
  <2>1. /\ CutStart(va, r) = IF va.addr < r.addr THEN r.addr ELSE va.addr
        /\ CutEnd(va, r) = IF End(va) > End(r) THEN End(r) ELSE End(va)
    BY <1>1, <1>2, PartsAre DEF NeedsPrev, NeedsNext
  <2>2. /\ CutStart(va, r) \in Nat /\ CutEnd(va, r) \in Nat
        /\ r.addr <= CutStart(va, r) /\ CutEnd(va, r) <= End(r)
    BY <1>2, <2>1
  <2>3. ptes' = [a \in Addrs |-> IF CutStart(va, r) <= a /\ a < CutEnd(va, r)
                                 THEN Unmapped ELSE ptes[a]]
    BY <1>6, Remaps
  <2> QED
    BY <1>4, <2>2, <2>3
<1> QED
  BY <1>5, <1>6

\* When the walk is over no address of the range has a translation.
LEMMA RangeIsClear ==
  ASSUME IInv, NEW b \in Binders, pc[b] = "running", ~Walking(b)
  PROVE  \A a \in Space!Requested : ptes[a] = Unmapped
<1> SUFFICES ASSUME NEW a \in Cover(request[b]), ptes[a] # Unmapped PROVE FALSE
  BY OwnerIs
<1>1. Valid(request[b]) /\ Types /\ PageTablesMatch
  BY Alone DEF IInv
<1>2. a \in Addrs /\ a \in Int /\ request[b].addr <= a /\ a < End(request[b])
      /\ request[b].addr \in Nat /\ End(request[b]) \in Nat
  BY <1>1, RequestIs DEF Cover
<1>3. PICK v \in vas : a \in Cover(v)
  BY <1>1, <1>2 DEF PageTablesMatch
<1>4. v.addr \in Nat /\ End(v) \in Nat /\ v.addr <= a /\ a < End(v) /\ Apart(v, request[b])
  BY <1>1, <1>3, MappingIs, WalkOver DEF Cover
<1> QED
  BY <1>2, <1>4 DEF Apart

\* The other steps.
LEMMA StepsImplement ==
  ASSUME IInv, Next
  PROVE  Space!AddressSpaceNext
<1>0. Types
  BY DEF IInv
<1>1. ASSUME NEW b \in Binders, NEW r \in Requests, Begin(b, r) PROVE Space!Begin(r)
  <2>1. lock = Nobody /\ lock' = b /\ b # Nobody /\ request'[b] = r /\ pc'[b] = "running" /\ UNCHANGED ptes
    BY <1>0, <1>1 DEF Begin, Types
  <2>2. Owner(pc, "idle") = "idle" /\ Owner(pc, "idle")' = "running" /\ Owner(request, NoRequest)' = r
    BY <2>1 DEF Owner
  <2> QED
    BY <2>1, <2>2 DEF Space!Begin
<1>2. ASSUME NEW b \in Binders, MapVa(b) PROVE Space!CommitMap
  <2> DEFINE r == request[b]
  <2>1. pc[b] = "running" /\ ~Walking(b) /\ r.kind = "map" /\ UNCHANGED <<lock, request>> /\ pc'[b] = "ok"
    BY <1>0, <1>2 DEF MapVa, Types
  <2>2. /\ Owner(pc, "idle") = "running" /\ Owner(request, NoRequest) = r
        /\ Owner(pc, "idle")' = "ok" /\ Owner(request, NoRequest)' = r /\ Space!Requested = Cover(r)
    BY <2>1, OwnerIs
  <2>3. \A a \in Space!Requested : ptes[a] = Unmapped
    BY <2>1, RangeIsClear
  <2>4. ptes' = [a \in Addrs |-> IF a \in Space!Requested
                                 THEN [obj |-> r.obj, page |-> r.offset + (a - r.addr)] ELSE ptes[a]]
    BY <1>2, <2>2 DEF MapVa
  <2> QED
    BY <2>1, <2>2, <2>3, <2>4 DEF Space!CommitMap
<1>3. ASSUME NEW b \in Binders, UnmapDone(b) PROVE Space!CommitUnmap
  <2>1. pc[b] = "running" /\ ~Walking(b) /\ request[b].kind = "unmap" /\ UNCHANGED <<lock, request, ptes>>
        /\ pc'[b] = "ok"
    BY <1>0, <1>3 DEF UnmapDone, Types
  <2>2. /\ Owner(pc, "idle") = "running" /\ Owner(request, NoRequest) = request[b]
        /\ Owner(pc, "idle")' = "ok" /\ Owner(request, NoRequest)' = request[b]
    BY <2>1, OwnerIs
  <2>3. \A a \in Space!Requested : ptes[a] = Unmapped
    BY <2>1, RangeIsClear
  <2> QED
    BY <2>1, <2>2, <2>3 DEF Space!CommitUnmap
<1>4. ASSUME NEW b \in Binders, CallbackFails(b) PROVE Space!Fail
  <2>1. pc[b] = "running" /\ UNCHANGED <<lock, request, ptes>> /\ pc'[b] = "failed"
    BY <1>0, <1>4 DEF CallbackFails, Types
  <2>2. /\ Owner(pc, "idle") = "running" /\ Owner(request, NoRequest) = request[b]
        /\ Owner(pc, "idle")' = "failed" /\ Owner(request, NoRequest)' = request[b]
    BY <2>1, OwnerIs
  <2> QED
    BY <2>1, <2>2 DEF Space!Fail
<1>5. ASSUME NEW b \in Binders, Return(b) PROVE Space!Finish
  <2>1. pc[b] \in {"ok", "failed"} /\ lock' = Nobody /\ UNCHANGED ptes
    BY <1>5 DEF Return
  <2>2. Owner(pc, "idle") \in {"ok", "failed"}
    BY <2>1, OwnerIs
  <2>3. Owner(pc, "idle")' = "idle" /\ Owner(request, NoRequest)' = NoRequest
    BY <2>1 DEF Owner
  <2> QED
    BY <2>1, <2>2, <2>3 DEF Space!Finish
<1> QED
  BY <1>1, <1>2, <1>3, <1>4, <1>5, ClearsImplement DEF Next, Space!AddressSpaceNext

\* Mapping and unmapping act on the page tables as AddressSpace says, step by step: outside
\* of a request's range nothing changes, also in one that splits mappings at both ends or
\* fails half way, and within it the new translations come all at once.
THEOREM GpuVmImplementsAddressSpace == Spec => ImplementsAddressSpace
<1>1. Init => Space!AddressSpaceInit
  BY DEF Init, Space!AddressSpaceInit, Owner
<1>2. IInv /\ [Next]_vars => [Space!AddressSpaceNext]_(Space!svars)
  <2>1. UNCHANGED vars => UNCHANGED Space!svars
    BY DEF vars, binderVars, Space!svars, Owner
  <2> QED
    BY <2>1, StepsImplement
<1> QED
  BY <1>1, <1>2, Invariance, PTL DEF Spec, ImplementsAddressSpace, Space!AddressSpaceSpec

==============================================================================
