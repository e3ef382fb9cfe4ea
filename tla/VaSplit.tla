------------------------------ MODULE VaSplit ------------------------------
(***************************************************************************)
(* Ranges of a GPU address space, look-ups in the tree of its mappings,    *)
(* and how a request to map or unmap a range cuts a mapping it overlaps:   *)
(* what GpuVm, where a request acts at once, and GpuVmOps, where it only   *)
(* lists what is to be done, have in common.                               *)
(*                                                                         *)
(* Source: src/kernel/open-driver-spike/shim/drm_gpuvm.c and drm_gpuvm.h.  *)
(* Addresses, ranges and offsets count units of the smallest mapping.      *)
(***************************************************************************)
EXTENDS Integers

CONSTANTS
    AddrSpace,  \* addresses are integers modulo this power of two (2^64)
    MmStart,    \* gpuvm.mm_start
    MmRange,    \* gpuvm.mm_range
    KStart,     \* kernel_alloc_node.va.addr
    KRange,     \* kernel_alloc_node.va.range
    NoVa        \* a null drm_gpuva pointer

Addrs == 0 .. AddrSpace - 1

ASSUME VaSplitAssumption ==
    /\ AddrSpace \in Nat \ {0}
    /\ MmStart \in Addrs /\ MmRange \in Nat /\ MmStart + MmRange < AddrSpace
    /\ KStart \in Addrs /\ KRange \in Nat /\ KStart + KRange < AddrSpace

Add(a, b) == (a + b) % AddrSpace

\* Of a mapping or a request.
End(x) == x.addr + x.range

Cover(x) == x.addr .. End(x) - 1

Overlaps(v, w) == v.addr < End(w) /\ w.addr < End(v)

-----------------------------------------------------------------------------
(* Ranges and look-ups.                                                    *)

Overflows(addr, range) == addr + range >= AddrSpace

InMmRange(addr, range) == addr >= MmStart /\ Add(addr, range) <= MmStart + MmRange

InKernelNode(addr, range) ==
    KRange # 0 /\ addr < KStart + KRange /\ KStart < Add(addr, range)

\* Mutation of RangeValid: the sum is trusted not to wrap.
RangeValidWraps(addr, range) == InMmRange(addr, range) /\ ~InKernelNode(addr, range)

RangeValid(addr, range) ==
    ~Overflows(addr, range) /\ InMmRange(addr, range) /\ ~InKernelNode(addr, range)

Leftmost(S) ==
    IF S = {} THEN NoVa ELSE CHOOSE v \in S : \A w \in S : v.addr <= w.addr

\* drm_gpuva_it_iter_first(): the interval includes both of its ends.
IterFirst(tree, start, last) ==
    Leftmost({v \in tree : v.addr <= last /\ End(v) - 1 >= start})

\* The mapping after a given one in the address-ordered list.
NextVa(tree, va) == Leftmost({v \in tree : v.addr > va.addr})

\* Insertion is refused, without a word, if the range is invalid or taken.
Insert(tree, va) ==
    IF RangeValid(va.addr, va.range) /\ \A v \in tree : Cover(v) \cap Cover(va) = {}
    THEN tree \cup {va}
    ELSE tree

-----------------------------------------------------------------------------
(* What a request wants of the mapping the walk is at.                     *)

NeedsPrev(va, r) == va.addr < r.addr

NeedsNext(va, r) == End(va) > End(r)

PrevPart(va, r) ==
    [addr |-> va.addr, range |-> r.addr - va.addr, obj |-> va.obj, offset |-> va.offset]

\* Mutation of NextOffset: the part before the range is left out.
NextOffsetFromRange(va, r) ==
    IF va.addr <= r.addr THEN va.offset + r.range ELSE va.offset + End(r) - va.addr

\* The split of sm_map has a formula for each position of the mapping.
NextOffset(va, r) ==
    IF r.kind = "unmap" \/ va.addr > r.addr
    THEN va.offset + (End(r) - va.addr)
    ELSE IF va.addr = r.addr
         THEN va.offset + r.range
         ELSE va.offset + (r.addr - va.addr) + r.range

NextPart(va, r) ==
    [addr |-> End(r), range |-> End(va) - End(r), obj |-> va.obj, offset |-> NextOffset(va, r)]

\* What lies between the parts.
CutStart(va, r) == IF NeedsPrev(va, r) THEN End(PrevPart(va, r)) ELSE va.addr

CutEnd(va, r) == IF NeedsNext(va, r) THEN NextPart(va, r).addr ELSE End(va)

\* Mutation of Advance: an unmap request ends with the first mapping whose
\* beginning it keeps.
AdvanceStopsAtSplit(tree, va, r) ==
    IF End(va) >= End(r) \/ (r.kind = "unmap" /\ NeedsPrev(va, r)) THEN NoVa ELSE NextVa(tree, va)

\* The successor is read before the callback removes the mapping.  A map
\* request stops at a mapping that reaches the end of its range.
Advance(tree, va, r) ==
    IF r.kind = "map" /\ End(va) >= End(r) THEN NoVa ELSE NextVa(tree, va)

=============================================================================
