------------------------------ MODULE GpuVmOps ------------------------------
(***************************************************************************)
(* Operation lists of the GPU VA manager: a request to map, unmap or       *)
(* prefetch a range, or to unmap an object, first only lists what is to be *)
(* done; the caller processes the list in its order, or abandons it, and   *)
(* frees it.  Every piece of memory of a list is allocated on its own, and *)
(* any allocation may fail.                                                *)
(*                                                                         *)
(* Source: src/kernel/open-driver-spike/shim/drm_gpuvm.c, the *_ops_create *)
(* functions, drm_gpuva_sm_step() and ks_drm_gpuva_ops_free().             *)
(***************************************************************************)
EXTENDS VaSplit, Sequences, FiniteSets, SequencesExt

CONSTANTS
    Objects,   \* GEM objects
    ObjSize,   \* the size of each
    Callers,   \* threads that make requests of the VM
    CanFail,   \* the allocations that may fail: "ops", "op", "unmap", "prev", "next"
    NoObject,  \* no object
    NoRequest  \* no request

ASSUME GpuVmOpsAssumption ==
    /\ ObjSize \in Nat /\ CanFail \subseteq {"ops", "op", "unmap", "prev", "next"}
    /\ NoObject \notin Objects

VARIABLES
    vas,     \* the mappings in the interval tree
    stage,   \* caller -> "idle", "walk", "made" or "freeing"
    request, \* caller -> its request
    cursor,  \* caller -> the mappings its walk still visits
    ops,     \* caller -> its list, in order
    done,    \* caller -> how many of them it has processed
    heap,    \* the memory allocated: <<caller, position, part>>, by the place it was for
    before   \* caller -> the tree at the time of its request (history)

vars == <<vas, stage, request, cursor, ops, done, heap, before>>

Kinds == {"map", "unmap", "prefetch", "bo_unmap"}

\* Positions and mappings of a request; an object to unmap has no range.
Requests ==
    {r \in [kind : Kinds, addr : Addrs, range : 1 .. MmRange, obj : Objects \cup {NoObject},
            offset : 0 .. ObjSize - 1] :
        CASE r.kind = "map" -> r.obj # NoObject /\ r.offset + r.range <= ObjSize
          [] r.kind = "bo_unmap" -> r.obj # NoObject /\ r.addr = MmStart /\ r.range = 1
                                      /\ r.offset = 0
          [] OTHER -> r.obj = NoObject /\ r.offset = 0}

Init ==
    /\ vas = {}
    /\ stage = [c \in Callers |-> "idle"]
    /\ request = [c \in Callers |-> NoRequest]
    /\ cursor = [c \in Callers |-> {}]
    /\ ops = [c \in Callers |-> <<>>]
    /\ done = [c \in Callers |-> 0]
    /\ heap = {}
    /\ before = [c \in Callers |-> {}]

-----------------------------------------------------------------------------
(* One operation.                                                          *)

\* The mappings a request visits in address order, and the vm_bo's own list.
Visited(r) ==
    IF r.kind = "bo_unmap" THEN {v \in vas : v.obj = r.obj} ELSE {v \in vas : Overlaps(v, r)}

Prev(va, r) == IF NeedsPrev(va, r) THEN {PrevPart(va, r)} ELSE {}

Rest(va, r) == IF NeedsNext(va, r) THEN {NextPart(va, r)} ELSE {}

\* What the walk's callback, or the loop of the other two functions, is
\* called with for a mapping.
OpFor(va, r) ==
    LET op(kind, p, n) == [op |-> kind, va |-> va, prev |-> p, next |-> n] IN
    CASE r.kind = "prefetch" -> op("prefetch", {}, {})
      [] r.kind = "bo_unmap" -> op("unmap", {}, {})
      [] OTHER -> op(IF NeedsPrev(va, r) \/ NeedsNext(va, r) THEN "remap" ELSE "unmap",
                     Prev(va, r), Rest(va, r))

MapOp(r) ==
    [op |-> "map", prev |-> {}, next |-> {},
     va |-> [addr |-> r.addr, range |-> r.range, obj |-> r.obj, offset |-> r.offset]]

\* The pieces an operation is copied into, in the order of allocation.
Pieces(op) ==
    <<"op">> \o
    IF op.op # "remap" THEN <<>>
    ELSE <<"unmap">> \o (IF op.prev = {} THEN <<>> ELSE <<"prev">>)
                     \o (IF op.next = {} THEN <<>> ELSE <<"next">>)

\* What the error labels free when one allocation has failed: err_free_prev
\* comes after err_free_unmap, so a failure to copy "next" skips "unmap".
FreedAfter(failed) ==
    CASE failed = "op" -> {}
      [] failed = "unmap" -> {"op"}
      [] failed = "prev" -> {"unmap", "op"}
      [] failed = "next" -> {"prev", "op"}

At(c, n, parts) == {<<c, n, p>> : p \in parts}

\* drm_gpuva_sm_step(): the operation is copied, or one allocation fails.
AddOp(c, op, rest) ==
    LET n == Len(ops[c]) + 1 IN
    /\ cursor' = [cursor EXCEPT ![c] = rest]
    /\ \/ /\ heap' = heap \cup At(c, n, ToSet(Pieces(op)))
          /\ ops' = [ops EXCEPT ![c] = Append(@, op)]
          /\ UNCHANGED stage
       \/ \E i \in DOMAIN Pieces(op) :
            /\ Pieces(op)[i] \in CanFail
            /\ heap' = heap \cup (At(c, n, ToSet(SubSeq(Pieces(op), 1, i - 1)))
                                    \ At(c, n, FreedAfter(Pieces(op)[i])))
            /\ stage' = [stage EXCEPT ![c] = "freeing"]
            /\ UNCHANGED ops

-----------------------------------------------------------------------------
(* The life of a list.                                                     *)

\* Mutation of Create: a second list is made before the first is processed.
CreateEarly(c, r) ==
    /\ stage[c] = "idle"
    /\ RangeValid(r.addr, r.range)
    /\ request' = [request EXCEPT ![c] = r]
    /\ before' = [before EXCEPT ![c] = vas]
    /\ stage' = [stage EXCEPT ![c] = "walk"]
    /\ cursor' = [cursor EXCEPT ![c] = Visited(r)]
    /\ heap' = heap \cup At(c, 0, {"ops"})
    /\ UNCHANGED <<vas, ops, done>>

\* A request waits until the list of the one before is processed or
\* abandoned.  Nothing happens if its head cannot be allocated.
Create(c, r) ==
    /\ \A d \in Callers : stage[d] = "idle"
    /\ RangeValid(r.addr, r.range)
    /\ request' = [request EXCEPT ![c] = r]
    /\ before' = [before EXCEPT ![c] = vas]
    /\ stage' = [stage EXCEPT ![c] = "walk"]
    /\ cursor' = [cursor EXCEPT ![c] = Visited(r)]
    /\ heap' = heap \cup At(c, 0, {"ops"})
    /\ UNCHANGED <<vas, ops, done>>

\* The next mapping in address order.
Visit(c) ==
    /\ stage[c] = "walk" /\ cursor[c] # {}
    /\ LET va == Leftmost(cursor[c])
       IN  AddOp(c, OpFor(va, request[c]), cursor[c] \ {va})
    /\ UNCHANGED <<vas, request, done, before>>

\* A map request ends with the map operation itself.
AddMap(c) ==
    /\ stage[c] = "walk" /\ cursor[c] = {} /\ request[c].kind = "map"
    /\ \A i \in DOMAIN ops[c] : ops[c][i].op # "map"
    /\ AddOp(c, MapOp(request[c]), {})
    /\ UNCHANGED <<vas, request, done, before>>

Made(c) ==
    /\ stage[c] = "walk" /\ cursor[c] = {}
    /\ request[c].kind = "map" => \E i \in DOMAIN ops[c] : ops[c][i].op = "map"
    /\ stage' = [stage EXCEPT ![c] = "made"]
    /\ UNCHANGED <<vas, request, cursor, ops, done, heap, before>>

\* Mutation of Applied: the mapping stays in the tree, and its parts are
\* refused.
AppliedInsertFirst(tree, op) ==
    CASE op.op = "map" -> Insert(tree, op.va)
      [] op.op = "unmap" -> tree \ {op.va}
      [] op.op = "remap" -> (UNION {Insert(tree, p) : p \in op.prev \cup op.next}) \ {op.va}
      [] OTHER -> tree

\* ks_drm_gpuva_map(), _unmap() and _remap(): insertions that are refused are
\* not noticed.
Applied(tree, op) ==
    LET without == tree \ {op.va}
        first == without \cup UNION {Insert(without, p) : p \in op.prev} IN
    CASE op.op = "map" -> Insert(tree, op.va)
      [] op.op = "unmap" -> without
      [] op.op = "remap" -> first \cup UNION {Insert(first, p) : p \in op.next}
      [] OTHER -> tree

Process(c) ==
    /\ stage[c] = "made" /\ done[c] < Len(ops[c])
    /\ vas' = Applied(vas, ops[c][done[c] + 1])
    /\ done' = [done EXCEPT ![c] = @ + 1]
    /\ UNCHANGED <<stage, request, cursor, ops, heap, before>>

\* The caller is through, or gives the rest up.
Finish(c) ==
    /\ stage[c] = "made"
    /\ stage' = [stage EXCEPT ![c] = "freeing"]
    /\ UNCHANGED <<vas, request, cursor, ops, done, heap, before>>

\* Mutation of OpsFree: a remap's operation is freed, not what it points to.
OpsFreeFlat(c) ==
    /\ stage[c] = "freeing"
    /\ heap' = heap \ ({<<c, n, "op">> : n \in DOMAIN ops[c]} \cup At(c, 0, {"ops"}))
    /\ ops' = [ops EXCEPT ![c] = <<>>]
    /\ done' = [done EXCEPT ![c] = 0]
    /\ stage' = [stage EXCEPT ![c] = "idle"]
    /\ cursor' = [cursor EXCEPT ![c] = {}]
    /\ request' = [request EXCEPT ![c] = NoRequest]
    /\ before' = [before EXCEPT ![c] = {}]
    /\ UNCHANGED vas

OpsFree(c) ==
    /\ stage[c] = "freeing"
    /\ heap' = heap \ (At(c, 0, {"ops"})
                        \cup UNION {At(c, n, ToSet(Pieces(ops[c][n]))) : n \in DOMAIN ops[c]})
    /\ ops' = [ops EXCEPT ![c] = <<>>]
    /\ done' = [done EXCEPT ![c] = 0]
    /\ stage' = [stage EXCEPT ![c] = "idle"]
    /\ cursor' = [cursor EXCEPT ![c] = {}]
    /\ request' = [request EXCEPT ![c] = NoRequest]
    /\ before' = [before EXCEPT ![c] = {}]
    /\ UNCHANGED vas

Next ==
    \E c \in Callers :
        \/ \E r \in Requests : Create(c, r)
        \/ Visit(c) \/ AddMap(c) \/ Made(c) \/ Process(c) \/ Finish(c) \/ OpsFree(c)

Spec == Init /\ [][Next]_vars

-----------------------------------------------------------------------------
(* Properties.                                                             *)

\* The translation a set of mappings gives an address.
Translate(tree, a) ==
    {[obj |-> v.obj, page |-> v.offset + (a - v.addr)] : v \in {w \in tree : a \in Cover(w)}}

Wanted(c, a) ==
    LET r == request[c] IN
    CASE r.kind = "map" /\ a \in Cover(r) ->
            {[obj |-> r.obj, page |-> r.offset + (a - r.addr)]}
      [] r.kind = "unmap" /\ a \in Cover(r) -> {}
      [] r.kind = "bo_unmap" -> {t \in Translate(before[c], a) : t.obj # r.obj}
      [] OTHER -> Translate(before[c], a)

\* A list processed to its end has done to every address what the request
\* asks for, though no operation was looked at again after the first changed
\* the tree.
ProcessedIsWanted ==
    \A c \in Callers : stage[c] = "made" /\ done[c] = Len(ops[c]) =>
        \A a \in Addrs : Translate(vas, a) = Wanted(c, a)

\* "There can be an arbitrary amount of unmap operations, a maximum of two
\* remap operations and a single map operation": and each is about a mapping
\* that exists when its turn comes.
OpsAreCurrent ==
    \A c \in Callers : stage[c] = "made" =>
        /\ Cardinality({i \in DOMAIN ops[c] : ops[c][i].op = "remap"}) <= 2
        /\ \A i \in done[c] + 1 .. Len(ops[c]) : ops[c][i].op # "map" => ops[c][i].va \in vas

\* What the lists point to.
Held ==
    {<<c, 0, "ops">> : c \in {d \in Callers : stage[d] # "idle"}}
    \cup UNION {UNION {At(c, n, ToSet(Pieces(ops[c][n]))) : n \in DOMAIN ops[c]} : c \in Callers}

\* What a list points to is allocated until the list is freed, and of what is
\* allocated and in no list there are only copies of the unmap of a remap, left
\* over by requests that could not copy "next".
OnlyUnmapCopiesLeak ==
    /\ Held \subseteq heap
    /\ \A m \in heap \ Held : m[3] = "unmap" /\ "next" \in CanFail

\* All memory belongs to a list: ks_drm_gpuva_ops_free() frees a list "including
\* all the ops associated with it", and every failing request ends there.
MemoryIsTheLists == heap = Held

=============================================================================
