------------------------------- MODULE GpuVm -------------------------------
(***************************************************************************)
(* The GPU VA manager and the callbacks by which the PowerVR driver keeps  *)
(* its page tables and its lists in step with it: mapping and unmapping    *)
(* ranges of a GPU address space, where existing mappings that the range   *)
(* covers are removed and those it cuts are split.                         *)
(*                                                                         *)
(* Source: src/kernel/open-driver-spike/shim/drm_gpuvm.c and drm_gpuvm.h,  *)
(* and the callbacks as patches 0003 and 0007 of                           *)
(* src/kernel/powervr-backport leave them.                                 *)
(*                                                                         *)
(* A request walks the mappings that overlap its range in address order,   *)
(* one callback for each.  A callback either fails, and the request stops  *)
(* where it is, or changes the page tables, the tree and the lists.        *)
(* Addresses, ranges and offsets count units of the smallest mapping.      *)
(***************************************************************************)
EXTENDS VaSplit, FiniteSets

CONSTANTS
    Objects,    \* GEM objects
    ObjSize,    \* the size of each
    Binders,    \* threads that map and unmap
    Nobody,     \* no lock owner
    NoRequest,  \* no request
    Unmapped    \* an invalid page table entry

ASSUME GpuVmAssumption ==
    /\ ObjSize \in Nat
    /\ Nobody \notin Binders
    /\ NoVa \notin [addr: Nat, range: Nat, obj: Objects, offset: Nat]

VARIABLES
    vas,     \* the mappings in the interval tree
    vmBo,    \* linked mapping -> the object whose vm_bo lists it
    ptes,    \* the page tables: address -> [obj, page] or Unmapped
    lock,    \* the owner of vm_ctx->lock
    request, \* binder -> its bind op
    pc,      \* binder -> "idle", "running", "ok", "failed" or "oops"
    cursor,  \* binder -> the mapping the walk visits next
    spare    \* binder -> the preallocated mappings it has not used

binderVars == <<lock, request, pc, cursor, spare>>
vars == <<vas, vmBo, ptes, binderVars>>

-----------------------------------------------------------------------------
(* Look-ups.                                                               *)

FindFirst(addr, range) == IterFirst(vas, addr, addr + range - 1)

Find(addr, range) ==
    LET va == FindFirst(addr, range)
    IN  IF va = NoVa \/ va.addr # addr \/ va.range # range THEN NoVa ELSE va

FindPrev(start) ==
    LET before == (start - 1) % AddrSpace
    IN  IF RangeValid(before, 1) THEN IterFirst(vas, before, start) ELSE NoVa

\* Mutation of FindNext: the mapping that starts at the address is missed.
FindNextSkips(end) == IF RangeValid(end, 1) THEN IterFirst(vas, end + 1, end + 1) ELSE NoVa

FindNext(end) == IF RangeValid(end, 1) THEN IterFirst(vas, end, end + 1) ELSE NoVa

\* Mutation of PartsBo: the parts go to the object of the request, as
\* before patch 0007.
PartsBoOfRequest(va, r) == IF r.kind = "map" THEN r.obj ELSE vmBo[va]

\* The object whose vm_bo the parts of a split are linked to.
PartsBo(va, r) == vmBo[va]

-----------------------------------------------------------------------------
Requests ==
    {[kind |-> "map", addr |-> a, range |-> n, obj |-> o, offset |-> f] :
        a \in Addrs, n \in 1 .. ObjSize, o \in Objects, f \in 0 .. ObjSize - 1}
    \cup
    {[kind |-> "unmap", addr |-> a, range |-> n, obj |-> Nobody, offset |-> 0] :
        a \in Addrs, n \in 1 .. MmRange}

\* Mutation of Spares: an unmapping adds no mapping.
SparesForMap(r) == IF r.kind = "map" THEN {"new", "prev", "next"} ELSE {}

\* One preallocated mapping for each part a request can leave.
Spares(r) == IF r.kind = "map" THEN {"new", "prev", "next"} ELSE {"prev", "next"}

Init ==
    /\ vas = {}
    /\ vmBo = [v \in {} |-> Nobody]
    /\ ptes = [a \in Addrs |-> Unmapped]
    /\ lock = Nobody
    /\ request = [b \in Binders |-> NoRequest]
    /\ pc = [b \in Binders |-> "idle"]
    /\ cursor = [b \in Binders |-> NoVa]
    /\ spare = [b \in Binders |-> {}]

\* Mutation of Begin: mapping does not take the lock, as before patch 0003.
BeginMapUnlocked(b, r) ==
    /\ pc[b] = "idle"
    /\ r.kind = "map" \/ lock = Nobody
    /\ RangeValid(r.addr, r.range)
    /\ r.offset + r.range <= ObjSize \/ r.kind = "unmap"
    /\ lock' = IF r.kind = "map" THEN lock ELSE b
    /\ request' = [request EXCEPT ![b] = r]
    /\ pc' = [pc EXCEPT ![b] = "running"]
    /\ cursor' = [cursor EXCEPT ![b] = FindFirst(r.addr, r.range)]
    /\ spare' = [spare EXCEPT ![b] = Spares(r)]
    /\ UNCHANGED <<vas, vmBo, ptes>>

\* The bind op is prepared, the lock taken and the walk begun.  A request
\* with an invalid range or beyond its object is refused.
Begin(b, r) ==
    /\ pc[b] = "idle"
    /\ lock = Nobody
    /\ RangeValid(r.addr, r.range)
    /\ r.offset + r.range <= ObjSize \/ r.kind = "unmap"
    /\ lock' = b
    /\ request' = [request EXCEPT ![b] = r]
    /\ pc' = [pc EXCEPT ![b] = "running"]
    /\ cursor' = [cursor EXCEPT ![b] = FindFirst(r.addr, r.range)]
    /\ spare' = [spare EXCEPT ![b] = Spares(r)]
    /\ UNCHANGED <<vas, vmBo, ptes>>

Walking(b) == cursor[b] # NoVa /\ cursor[b].addr < End(request[b])

ClearPtes(from, to) ==
    ptes' = [a \in Addrs |-> IF from <= a /\ a < to THEN Unmapped ELSE ptes[a]]

Link(linked, bo) ==
    [v \in DOMAIN linked \cup DOMAIN bo |-> IF v \in DOMAIN bo THEN bo[v] ELSE linked[v]]

Unlink(linked, va) == [v \in DOMAIN linked \ {va} |-> linked[v]]

\* The range covers the mapping: it goes.
UnmapVa(b) ==
    LET va == cursor[b]
        r  == request[b]
    IN  /\ pc[b] = "running"
        /\ Walking(b)
        /\ ~NeedsPrev(va, r) /\ ~NeedsNext(va, r)
        /\ ClearPtes(va.addr, End(va))
        /\ vas' = vas \ {va}
        /\ vmBo' = Unlink(vmBo, va)
        /\ cursor' = [cursor EXCEPT ![b] = Advance(vas, va, r)]
        /\ UNCHANGED <<lock, request, pc, spare>>

\* The range cuts the mapping: up to two parts of it stay.  Only the cut is
\* cleared in the page tables.  Without a preallocated mapping for a part
\* the callback would follow a null pointer.
RemapVa(b) ==
    LET va    == cursor[b]
        r     == request[b]
        prev  == IF NeedsPrev(va, r) THEN {PrevPart(va, r)} ELSE {}
        next  == IF NeedsNext(va, r) THEN {NextPart(va, r)} ELSE {}
        used  == (IF prev = {} THEN {} ELSE {"prev"}) \cup (IF next = {} THEN {} ELSE {"next"})
        tree1 == (vas \ {va}) \cup UNION {Insert(vas \ {va}, p) : p \in prev}
        tree2 == tree1 \cup UNION {Insert(tree1, n) : n \in next}
    IN  /\ pc[b] = "running"
        /\ Walking(b)
        /\ NeedsPrev(va, r) \/ NeedsNext(va, r)
        /\ IF used \subseteq spare[b]
           THEN /\ ClearPtes(CutStart(va, r), CutEnd(va, r))
                /\ vas' = tree2
                /\ vmBo' = Unlink(Link(vmBo, [p \in prev \cup next |-> PartsBo(va, r)]), va)
                /\ cursor' = [cursor EXCEPT ![b] = Advance(vas, va, r)]
                /\ spare' = [spare EXCEPT ![b] = @ \ used]
                /\ UNCHANGED pc
           ELSE /\ pc' = [pc EXCEPT ![b] = "oops"]
                /\ UNCHANGED <<vas, vmBo, ptes, cursor, spare>>
        /\ UNCHANGED <<lock, request>>

\* After the walk a map request maps its range.
MapVa(b) ==
    LET r  == request[b]
        va == [addr |-> r.addr, range |-> r.range, obj |-> r.obj, offset |-> r.offset]
    IN  /\ pc[b] = "running"
        /\ ~Walking(b)
        /\ r.kind = "map"
        /\ ptes' = [a \in Addrs |->
                      IF a \in Cover(r)
                      THEN [obj |-> r.obj, page |-> r.offset + (a - r.addr)]
                      ELSE ptes[a]]
        /\ vas' = Insert(vas, va)
        /\ vmBo' = Link(vmBo, [v \in {va} |-> r.obj])
        /\ spare' = [spare EXCEPT ![b] = @ \ {"new"}]
        /\ pc' = [pc EXCEPT ![b] = "ok"]
        /\ UNCHANGED <<lock, request, cursor>>

\* After the walk an unmap request has nothing left to do.
UnmapDone(b) ==
    /\ pc[b] = "running"
    /\ ~Walking(b)
    /\ request[b].kind = "unmap"
    /\ pc' = [pc EXCEPT ![b] = "ok"]
    /\ UNCHANGED <<vas, vmBo, ptes, lock, request, cursor, spare>>

\* The page tables refuse a callback before it has changed anything.
CallbackFails(b) ==
    /\ pc[b] = "running"
    /\ Walking(b) \/ request[b].kind = "map"
    /\ pc' = [pc EXCEPT ![b] = "failed"]
    /\ UNCHANGED <<vas, vmBo, ptes, lock, request, cursor, spare>>

\* The lock is released and the bind op cleaned up.
Return(b) ==
    /\ pc[b] \in {"ok", "failed"}
    /\ lock' = Nobody
    /\ request' = [request EXCEPT ![b] = NoRequest]
    /\ pc' = [pc EXCEPT ![b] = "idle"]
    /\ cursor' = [cursor EXCEPT ![b] = NoVa]
    /\ spare' = [spare EXCEPT ![b] = {}]
    /\ UNCHANGED <<vas, vmBo, ptes>>

Next ==
    \E b \in Binders :
        \/ \E r \in Requests : Begin(b, r)
        \/ UnmapVa(b)
        \/ RemapVa(b)
        \/ MapVa(b)
        \/ UnmapDone(b)
        \/ CallbackFails(b)
        \/ Return(b)

Spec == Init /\ [][Next]_vars

-----------------------------------------------------------------------------
(* Properties.                                                             *)

\* Between two callbacks, finished or not, the page tables translate an
\* address exactly as the mapping that covers it says: no split moves an
\* offset, clears what stays or leaves what goes, no insertion is refused
\* unnoticed (drm_gpuva_map() and drm_gpuva_remap() ignore its result).
PageTablesMatch ==
    /\ \A v \in vas : \A a \in Cover(v) : ptes[a] = [obj |-> v.obj, page |-> v.offset + (a - v.addr)]
    /\ \A a \in Addrs : ptes[a] # Unmapped => \E v \in vas : a \in Cover(v)

\* Every mapping of the tree is linked, to the vm_bo of its own object, and
\* no other mapping is: the WARN of drm_gpuva_link().
LinkedToOwnObject ==
    /\ DOMAIN vmBo = vas
    /\ \A v \in vas : vmBo[v] = v.obj

\* Addresses outside the managed range or reserved for the kernel are never
\* mapped, though a request's end may wrap.
MappedWhereAllowed ==
    \A a \in Addrs : ptes[a] # Unmapped =>
        MmStart <= a /\ a < MmStart + MmRange /\ ~(KStart <= a /\ a < KStart + KRange)

\* The mapping a walk goes to next still exists when it gets there.
CursorAlive == \A b \in Binders : pc[b] = "running" /\ Walking(b) => cursor[b] \in vas

\* A walk splits at most one mapping at each end of the range: the one
\* mapping preallocated for each part is there when it is needed.
SparesSuffice == \A b \in Binders : pc[b] # "oops"

\* The look-ups find a mapping that is exactly the one asked for, or that is
\* adjacent to the address asked for, whenever there is one.
LookUpsFind ==
    \A v \in vas :
        /\ Find(v.addr, v.range) = v
        /\ FindNext(v.addr) = v
        /\ FindPrev(End(v)) = v

\* A request acts on the page tables as AddressSpace says: addresses outside
\* its range keep their translation at every step, those inside lose it and
\* then get the new one all at once, and a request that fails half way has
\* done nothing else.
Owner(f, none) == IF lock = Nobody THEN none ELSE f[lock]

Space == INSTANCE AddressSpace
    WITH space <- ptes, request <- Owner(request, NoRequest), status <- Owner(pc, "idle")

ImplementsAddressSpace == Space!AddressSpaceSpec
=============================================================================
