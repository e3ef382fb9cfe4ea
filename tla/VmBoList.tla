------------------------------ MODULE VmBoList ------------------------------
(***************************************************************************)
(* The vm_bo structures of the GPU VA manager: one for each object mapped  *)
(* in a VM, counted by references, found through the object's list, and    *)
(* linked into two lists of the VM, of external and of evicted objects.    *)
(* A submission walks both lists to lock and to validate every object.     *)
(* The walk holds no spinlock while it works on an element: it moves the   *)
(* elements to a list of its own, takes a reference on each, and splices   *)
(* its list back when it ends.                                             *)
(*                                                                         *)
(* Source: src/kernel/open-driver-spike/shim/drm_gpuvm.c, for a VM without *)
(* DRM_GPUVM_RESV_PROTECTED, as the PowerVR driver sets it up.             *)
(*                                                                         *)
(* A step is what runs under one spinlock or between two of them.  The     *)
(* order of a list is left out: no property depends on it.  Locks are      *)
(* dma-resv locks; that of an object is its GEM gpuva lock too.            *)
(***************************************************************************)
EXTENDS Integers, FiniteSets

CONSTANTS
    Objects,      \* GEM objects
    LocalObjects, \* those that share the VM's dma-resv: not external
    VmBos,        \* memory for drm_gpuvm_bo structures (bound)
    Walkers,      \* threads that submit
    Clients,      \* threads that map, unmap and evict
    MaxVas,       \* mappings of one vm_bo (bound)
    Vm,           \* the VM's own dma-resv
    None,         \* a null pointer, or no owner
    Out,          \* a list entry that is linked to itself
    Main          \* a list entry that is on the VM's list

Lists == {"extobj", "evict"}
Threads == Walkers \cup Clients

ASSUME VmBoListAssumption ==
    /\ LocalObjects \subseteq Objects /\ Vm \notin Objects
    /\ Walkers \cap Clients = {} /\ None \notin Threads \cup Objects \cup VmBos \cup {Vm}
    /\ Out \notin Walkers /\ Main \notin Walkers /\ Out # Main
    /\ IsFiniteSet(Walkers) /\ IsFiniteSet(Clients)
    /\ MaxVas \in Nat

VARIABLES
    obj,      \* vm_bo -> its object; None when the memory is free
    kref,     \* vm_bo -> its reference count
    numVas,   \* vm_bo -> the length of list.gpuva
    evicted,  \* vm_bo -> its evicted flag
    inGem,    \* the vm_bos on their object's list
    dying,    \* vm_bo -> the thread inside drm_gpuvm_bo_destroy, or None
    link,     \* list -> vm_bo -> Out, Main, or the walker whose list has it
    owner,    \* list -> the walker whose list local_list points to, or None
    outer,    \* whether map requests hold the VM's lock, too: never changes
    vmKref,   \* the VM's reference count
    open,     \* whether the driver holds its reference on the VM
    lock,     \* dma-resv -> its owner
    pc,       \* walker -> where it is
    list,     \* walker -> the list it walks
    cur,      \* thread -> the vm_bo it works on and holds a reference of
    contended,\* walker -> the lock it lost, to be taken first
    owed,     \* walker -> list -> the vm_bos listed when the walk began (history)
    state,    \* client -> where it is
    target    \* client -> the objects whose locks it holds

boVars == <<obj, kref, numVas, evicted, inGem, dying>>
walkVars == <<pc, list, contended>>
clientVars == <<state, target>>
vars == <<boVars, link, owner, vmKref, open, outer, lock, walkVars, cur, owed, clientVars>>

Resv(o) == IF o \in LocalObjects THEN Vm ELSE o

IsExtobj(o) == o \notin LocalObjects

Allocated == {b \in VmBos : obj[b] # None}

Init ==
    /\ obj = [b \in VmBos |-> None] /\ kref = [b \in VmBos |-> 0]
    /\ numVas = [b \in VmBos |-> 0] /\ evicted = [b \in VmBos |-> FALSE]
    /\ inGem = {} /\ dying = [b \in VmBos |-> None]
    /\ link = [l \in Lists |-> [b \in VmBos |-> Out]]
    /\ owner = [l \in Lists |-> None]
    /\ outer \in BOOLEAN /\ vmKref = 1 /\ open = TRUE
    /\ lock = [r \in Objects \cup {Vm} |-> None]
    /\ pc = [w \in Walkers |-> "idle"] /\ list = [w \in Walkers |-> "extobj"]
    /\ cur = [t \in Threads |-> None]
    /\ contended = [w \in Walkers |-> None]
    /\ owed = [w \in Walkers |-> [l \in Lists |-> {}]]
    /\ state = [c \in Clients |-> "idle"] /\ target = [c \in Clients |-> {}]

-----------------------------------------------------------------------------
(* References and lists.                                                   *)

\* A thread inside drm_gpuvm_bo_destroy() does nothing else.
Free(t) == \A b \in VmBos : dying[b] # t

\* The count drops; the last reference starts the destruction.  A vm_bo that
\* is gone is owed to no walk.
Put(t, b) ==
    /\ kref' = [kref EXCEPT ![b] = @ - 1]
    /\ dying' = IF kref[b] = 1 THEN [dying EXCEPT ![b] = t] ELSE dying
    /\ owed' = IF kref[b] = 1
                 THEN [w \in Walkers |-> [l \in Lists |-> owed[w][l] \ {b}]] ELSE owed

ListAdd(l, b) ==
    link' = IF link[l][b] = Out THEN [link EXCEPT ![l][b] = Main] ELSE link

ListDel(l, b) == link' = [link EXCEPT ![l][b] = Out]

\* The three parts of drm_gpuvm_bo_destroy(): each list under its spinlock,
\* then the object's list and the memory.
DestroyUnlist(b, l) ==
    /\ dying[b] # None /\ link[l][b] # Out
    /\ ListDel(l, b)
    /\ UNCHANGED <<boVars, owner, vmKref, open, outer, lock, walkVars, cur, owed, clientVars>>

DestroyFree(b) ==
    /\ dying[b] # None
    /\ \A l \in Lists : link[l][b] = Out
    /\ inGem' = inGem \ {b}
    /\ obj' = [obj EXCEPT ![b] = None]
    /\ kref' = [kref EXCEPT ![b] = 0]
    /\ numVas' = [numVas EXCEPT ![b] = 0]
    /\ evicted' = [evicted EXCEPT ![b] = FALSE]
    /\ dying' = [dying EXCEPT ![b] = None]
    /\ vmKref' = vmKref - 1
    /\ UNCHANGED <<link, owner, open, outer, lock, walkVars, cur, owed, clientVars>>

-----------------------------------------------------------------------------
(* A submission: drm_gpuvm_exec_lock(), then drm_gpuvm_validate(), then    *)
(* the job and the unlocking.                                              *)

Lock(t, r) == lock[r] \in {None, t} /\ lock' = [lock EXCEPT ![r] = t]

Unlocked(t) == [r \in DOMAIN lock |-> IF lock[r] = t THEN None ELSE lock[r]]

Go(w, where) == pc' = [pc EXCEPT ![w] = where]

Listed(l) == {b \in VmBos : link[l][b] # Out /\ dying[b] = None}

Begin(w) ==
    /\ pc[w] = "idle" /\ open
    /\ Go(w, "vm")
    /\ UNCHANGED <<boVars, link, owner, vmKref, open, outer, lock, list, contended, cur, owed,
                   clientVars>>

\* After losing a lock a submission waits for that one, holding nothing.
LockContended(w) ==
    /\ pc[w] = "vm" /\ contended[w] # None
    /\ Lock(w, contended[w])
    /\ contended' = [contended EXCEPT ![w] = None]
    /\ UNCHANGED <<boVars, link, owner, vmKref, open, outer, pc, list, cur, owed, clientVars>>

\* Mutation of PrepareVm: the VM's lock is not taken.
PrepareVmUnlocked(w) ==
    /\ pc[w] = "vm" /\ contended[w] = None
    /\ Go(w, "next")
    /\ list' = [list EXCEPT ![w] = "extobj"]
    /\ owed' = [owed EXCEPT ![w]["extobj"] = Listed("extobj")]
    /\ UNCHANGED <<boVars, link, owner, vmKref, open, outer, lock, contended, cur, clientVars>>

PrepareVm(w) ==
    /\ pc[w] = "vm" /\ contended[w] = None
    /\ Lock(w, Vm)
    /\ Go(w, "next")
    /\ list' = [list EXCEPT ![w] = "extobj"]
    /\ owed' = [owed EXCEPT ![w]["extobj"] = Listed("extobj")]
    /\ UNCHANGED <<boVars, link, owner, vmKref, open, outer, contended, cur, clientVars>>

\* The VM's lock is held by a thread this submission may be holding up.
PrepareVmFails(w) ==
    /\ pc[w] = "vm" /\ contended[w] = None
    /\ lock[Vm] \notin {None, w} /\ \E r \in DOMAIN lock : lock[r] = w
    /\ lock' = Unlocked(w)
    /\ contended' = [contended EXCEPT ![w] = Vm]
    /\ UNCHANGED <<boVars, link, owner, vmKref, open, outer, pc, list, cur, owed, clientVars>>

\* get_next_vm_bo_from_list(): the reference on the previous element is
\* dropped before the spinlock is taken.
PutPrevious(w) ==
    /\ pc[w] \in {"next", "stop"} /\ Free(w) /\ cur[w] # None
    /\ Put(w, cur[w])
    /\ cur' = [cur EXCEPT ![w] = None]
    /\ UNCHANGED <<obj, numVas, evicted, inGem, link, owner, vmKref, open, outer, lock, walkVars,
                   clientVars>>

\* Mutation of NextVmBo: an element in destruction is taken like any other.
NextVmBoTakesDead(w) ==
    LET l == list[w]
        onMain == {b \in VmBos : link[l][b] = Main} IN
    /\ pc[w] = "next" /\ Free(w) /\ cur[w] = None
    /\ owner' = IF owner[l] = None THEN [owner EXCEPT ![l] = w] ELSE owner
    /\ \/ \E b \in onMain :
            /\ link' = [link EXCEPT ![l][b] = w] /\ kref' = [kref EXCEPT ![b] = @ + 1]
            /\ cur' = [cur EXCEPT ![w] = b] /\ Go(w, "body")
       \/ onMain = {} /\ Go(w, "restore") /\ UNCHANGED <<link, kref, cur>>
    /\ UNCHANGED <<obj, numVas, evicted, inGem, dying, vmKref, open, outer, lock, list, contended,
                   owed, clientVars>>

\* Under the spinlock: elements whose count is zero are unlinked, the first
\* other one is moved to the walk's own list.
NextVmBo(w) ==
    LET l == list[w]
        onMain == {b \in VmBos : link[l][b] = Main}
        dead == {b \in onMain : kref[b] = 0} IN
    /\ pc[w] = "next" /\ Free(w) /\ cur[w] = None
    /\ owner' = IF owner[l] = None THEN [owner EXCEPT ![l] = w] ELSE owner
    /\ \/ \E b \in onMain \ dead, gone \in SUBSET dead :
            /\ link' = [link EXCEPT ![l] = [x \in VmBos |->
                           IF x = b THEN w ELSE IF x \in gone THEN Out ELSE @[x]]]
            /\ kref' = [kref EXCEPT ![b] = @ + 1]
            /\ cur' = [cur EXCEPT ![w] = b]
            /\ Go(w, "body")
       \/ /\ onMain = dead
          /\ link' = [link EXCEPT ![l] = [x \in VmBos |-> IF x \in dead THEN Out ELSE @[x]]]
          /\ Go(w, "restore")
          /\ UNCHANGED <<kref, cur>>
    /\ UNCHANGED <<obj, numVas, evicted, inGem, dying, vmKref, open, outer, lock, list, contended,
                   owed, clientVars>>

\* Mutation of PrepareObject: the object's lock is not taken.
PrepareObjectUnlocked(w) ==
    /\ pc[w] = "body" /\ list[w] = "extobj"
    /\ Go(w, "next")
    /\ UNCHANGED <<boVars, link, owner, vmKref, open, outer, lock, list, contended, cur, owed,
                   clientVars>>

\* exec_prepare_obj() on the object of an external vm_bo.
PrepareObject(w) ==
    /\ pc[w] = "body" /\ list[w] = "extobj"
    /\ Lock(w, Resv(obj[cur[w]]))
    /\ Go(w, "next")
    /\ UNCHANGED <<boVars, link, owner, vmKref, open, outer, list, contended, cur, owed,
                   clientVars>>

\* The driver's vm_bo_validate(): the object is brought back, under its lock.
ValidateObject(w) ==
    /\ pc[w] = "body" /\ list[w] = "evict"
    /\ Lock(w, Resv(obj[cur[w]]))
    /\ evicted' = [evicted EXCEPT ![cur[w]] = FALSE]
    /\ ListDel("evict", cur[w])
    /\ Go(w, "next")
    /\ UNCHANGED <<obj, kref, numVas, inGem, dying, owner, vmKref, open, outer, list, contended,
                   cur,
                   owed, clientVars>>

\* Either fails when another thread has the lock, or for want of memory.  The
\* reference is then put without the object's lock.
BodyFails(w) ==
    /\ pc[w] = "body"
    /\ LET r == Resv(obj[cur[w]]) IN
       contended' = [contended EXCEPT ![w] = IF lock[r] \in {None, w} THEN None ELSE r]
    /\ Go(w, "stop")
    /\ UNCHANGED <<boVars, link, owner, vmKref, open, outer, lock, list, cur, owed, clientVars>>

\* __restore_vm_bo_list(): what local_list points to goes back to the list.
Restored(l) ==
    /\ link' = IF owner[l] = None THEN link ELSE
                 [link EXCEPT ![l] = [b \in VmBos |-> IF @[b] = owner[l] THEN Main ELSE @[b]]]
    /\ owner' = [owner EXCEPT ![l] = None]

\* The walk ends; the next list is begun, or the submission is ready.
RestoreVmBoList(w) ==
    /\ pc[w] = "restore"
    /\ Restored(list[w])
    /\ IF list[w] = "extobj"
         THEN /\ Go(w, "next")
              /\ list' = [list EXCEPT ![w] = "evict"]
              /\ owed' = [owed EXCEPT ![w]["evict"] = Listed("evict")]
         ELSE Go(w, "ready") /\ UNCHANGED <<list, owed>>
    /\ UNCHANGED <<boVars, vmKref, open, outer, lock, contended, cur, clientVars>>

\* Mutation of RestoreAndRetry: a walk cut short leaves its list behind.
RestoreAndRetryForgets(w) ==
    /\ pc[w] = "stop" /\ Free(w) /\ cur[w] = None
    /\ lock' = Unlocked(w)
    /\ Go(w, IF contended[w] = None THEN "idle" ELSE "vm")
    /\ UNCHANGED <<boVars, link, owner, vmKref, open, outer, list, contended, cur, owed,
                   clientVars>>

\* Mutation of RestoreAndRetry: after losing a lock, and with it all others,
\* the submission only continues the walk.
RestoreAndRetryMidWalk(w) ==
    /\ pc[w] = "stop" /\ Free(w) /\ cur[w] = None
    /\ UNCHANGED <<link, owner>>
    /\ lock' = Unlocked(w)
    /\ Go(w, "next")
    /\ UNCHANGED <<boVars, vmKref, open, outer, list, contended, cur, owed, clientVars>>

\* A walk cut short restores its list as well; every lock is dropped, and
\* the submission starts over if it lost a lock and fails otherwise.
RestoreAndRetry(w) ==
    /\ pc[w] = "stop" /\ Free(w) /\ cur[w] = None
    /\ Restored(list[w])
    /\ lock' = Unlocked(w)
    /\ Go(w, IF contended[w] = None THEN "idle" ELSE "vm")
    /\ UNCHANGED <<boVars, vmKref, open, outer, list, contended, cur, owed, clientVars>>

Submit(w) ==
    /\ pc[w] = "ready"
    /\ lock' = Unlocked(w)
    /\ Go(w, "idle")
    /\ owed' = [owed EXCEPT ![w] = [l \in Lists |-> {}]]
    /\ UNCHANGED <<boVars, link, owner, vmKref, open, outer, list, contended, cur, clientVars>>

-----------------------------------------------------------------------------
(* The driver's other threads.                                             *)

Enter(c, where) == state' = [state EXCEPT ![c] = where]

\* A map or unmap request unlinks what was mapped in its range, of whatever
\* object.  A client locks all these objects, as drm_gpuva_unlink() asserts,
\* and may hold the VM's lock too, as drm_gpuvm_exec_lock() does.
LockToBind(c) ==
    /\ state[c] = "idle"
    /\ \E os \in SUBSET Objects \ {{}} :
         LET needed == {Resv(o) : o \in os} \cup IF outer THEN {Vm} ELSE {} IN
         /\ \A r \in needed : lock[r] = None
         /\ lock' = [r \in DOMAIN lock |-> IF r \in needed THEN c ELSE lock[r]]
         /\ target' = [target EXCEPT ![c] = os]
    /\ Enter(c, "bind")
    /\ UNCHANGED <<boVars, link, owner, vmKref, open, outer, walkVars, cur, owed>>

LockToEvict(c) ==
    /\ state[c] = "idle"
    /\ \E o \in Objects :
         /\ lock[Resv(o)] = None
         /\ lock' = [lock EXCEPT ![Resv(o)] = c]
         /\ target' = [target EXCEPT ![c] = {o}]
    /\ Enter(c, "evict")
    /\ UNCHANGED <<boVars, link, owner, vmKref, open, outer, walkVars, cur, owed>>

OfTarget(c) == {b \in inGem : obj[b] \in target[c]}

\* A client comes upon a vm_bo that another thread is destroying without the
\* object's lock.  It would count up from zero, or list, what is about to be
\* freed: undefined, and the client is not followed any further.
FindsDying(c) ==
    /\ state[c] \in {"bind", "evict"} /\ Free(c)
    /\ \E b \in OfTarget(c) : dying[b] # None
    /\ Enter(c, "undefined")
    /\ UNCHANGED <<boVars, link, owner, vmKref, open, outer, lock, walkVars, cur, owed, target>>

\* drm_gpuvm_bo_obtain(): the object's vm_bo with one more reference, or a
\* new one.
Obtain(c) ==
    /\ state[c] = "bind" /\ Free(c) /\ open
    /\ \E o \in target[c] :
         LET found == {b \in OfTarget(c) : obj[b] = o} IN
         \/ \E b \in found :
              /\ dying[b] = None
              /\ kref' = [kref EXCEPT ![b] = @ + 1]
              /\ cur' = [cur EXCEPT ![c] = b]
              /\ UNCHANGED <<obj, inGem, vmKref>>
         \/ /\ found = {}
            /\ \E b \in VmBos \ Allocated :
                 /\ obj' = [obj EXCEPT ![b] = o]
                 /\ kref' = [kref EXCEPT ![b] = 1]
                 /\ inGem' = inGem \cup {b}
                 /\ cur' = [cur EXCEPT ![c] = b]
            /\ vmKref' = vmKref + 1
    /\ Enter(c, "obtained")
    /\ UNCHANGED <<numVas, evicted, dying, link, owner, open, outer, lock, walkVars, owed,
                   target>>

ExtobjAdd(c) ==
    /\ state[c] = "obtained"
    /\ IF IsExtobj(obj[cur[c]]) THEN ListAdd("extobj", cur[c]) ELSE UNCHANGED link
    /\ Enter(c, "listed")
    /\ UNCHANGED <<boVars, owner, vmKref, open, outer, lock, walkVars, cur, owed, target>>

\* The mapping takes a reference of its own, then the client's is dropped;
\* or the map request fails, and the client's is dropped alone.
LinkVa(c) ==
    /\ state[c] = "listed" /\ cur[c] # None
    /\ numVas[cur[c]] < MaxVas
    /\ numVas' = [numVas EXCEPT ![cur[c]] = @ + 1]
    /\ cur' = [cur EXCEPT ![c] = None]
    /\ Enter(c, "bind")
    /\ UNCHANGED <<obj, kref, evicted, inGem, dying, link, owner, vmKref, open, outer, lock,
                   walkVars,
                   owed, target>>

MapFails(c) ==
    /\ state[c] = "listed" /\ cur[c] # None
    /\ Put(c, cur[c])
    /\ cur' = [cur EXCEPT ![c] = None]
    /\ Enter(c, "bind")
    /\ UNCHANGED <<obj, numVas, evicted, inGem, link, owner, vmKref, open, outer, lock, walkVars,
                   target>>

UnlinkVa(c) ==
    /\ state[c] = "bind" /\ Free(c)
    /\ \E b \in OfTarget(c) :
         /\ numVas[b] > 0
         /\ numVas' = [numVas EXCEPT ![b] = @ - 1]
         /\ Put(c, b)
    /\ UNCHANGED <<obj, evicted, inGem, link, owner, vmKref, open, outer, lock, walkVars, cur,
                   clientVars>>

\* drm_gpuvm_bo_gem_evict(): every vm_bo of the object.
Evict(c) ==
    /\ state[c] = "evict"
    /\ \E b \in OfTarget(c) :
         /\ ~evicted[b] /\ dying[b] = None
         /\ evicted' = [evicted EXCEPT ![b] = TRUE]
         /\ ListAdd("evict", b)
    /\ UNCHANGED <<obj, kref, numVas, inGem, dying, owner, vmKref, open, outer, lock, walkVars,
                   cur,
                   owed, clientVars>>

Unlock(c) ==
    /\ state[c] \in {"bind", "evict"} /\ Free(c)
    /\ lock' = Unlocked(c)
    /\ Enter(c, "idle")
    /\ target' = [target EXCEPT ![c] = {}]
    /\ UNCHANGED <<boVars, link, owner, vmKref, open, outer, walkVars, cur, owed>>

\* The driver's reference on the VM is dropped once nothing submits any more.
CloseVm ==
    /\ open
    /\ \A w \in Walkers : pc[w] = "idle"
    /\ \A c \in Clients : state[c] = "idle"
    /\ open' = FALSE
    /\ vmKref' = vmKref - 1
    /\ UNCHANGED <<boVars, link, owner, outer, lock, walkVars, cur, owed, clientVars>>

WalkerStep(w) ==
    \/ Begin(w) \/ LockContended(w) \/ PrepareVm(w) \/ PrepareVmFails(w)
    \/ PutPrevious(w) \/ NextVmBo(w) \/ PrepareObject(w) \/ ValidateObject(w) \/ BodyFails(w)
    \/ RestoreVmBoList(w) \/ RestoreAndRetry(w) \/ Submit(w)

ClientStep(c) ==
    \/ LockToBind(c) \/ LockToEvict(c) \/ Obtain(c) \/ ExtobjAdd(c) \/ LinkVa(c) \/ MapFails(c)
    \/ UnlinkVa(c) \/ Evict(c) \/ FindsDying(c) \/ Unlock(c)

Next ==
    \/ \E w \in Walkers : WalkerStep(w)
    \/ \E c \in Clients : ClientStep(c)
    \/ \E b \in VmBos : DestroyFree(b) \/ \E l \in Lists : DestroyUnlist(b, l)
    \/ CloseVm

Spec == Init /\ [][Next]_vars

-----------------------------------------------------------------------------
(* Properties.                                                             *)

\* A vm_bo whose memory is free is on no list and nobody works on it.
NothingDangles ==
    \A b \in VmBos \ Allocated :
        /\ b \notin inGem /\ \A l \in Lists : link[l][b] = Out
        /\ \A t \in Threads : cur[t] # b

\* The list a walk keeps on its stack is empty when the walk is over, and
\* local_list points to no list but that of the walk under way.
NoForgottenElement ==
    \A l \in Lists : \A w \in Walkers :
        \/ pc[w] \in {"next", "body", "stop", "restore"} /\ list[w] = l
        \/ owner[l] # w /\ \A b \in VmBos : link[l][b] # w

\* A walk meets no local_list but its own: the warning of
\* get_next_vm_bo_from_list() never fires.
WalksAlone ==
    \A w \in Walkers : pc[w] \in {"body", "stop", "restore"} => owner[list[w]] = w

\* A submission that goes ahead holds the lock of every external object that
\* was listed when its walk began and is still mapped, and none that it found
\* evicted is evicted still.
EveryObjectReady ==
    \A w \in Walkers : pc[w] = "ready" =>
        /\ \A b \in owed[w]["extobj"] : lock[Resv(obj[b])] = w
        /\ \A b \in owed[w]["evict"] : ~evicted[b]

\* The last reference is dropped under the object's lock, as the comment on
\* drm_gpuvm_bo_put() demands and drm_gpuvm_bo_destroy() asserts.  There is one
\* exception: a walk that could not lock or validate the object breaks off and
\* puts its reference all the same, and where map requests do without the VM's
\* lock one of them may have dropped every other reference in the meantime.
LastPutLocked ==
    \A b \in VmBos : dying[b] # None =>
        \/ lock[Resv(obj[b])] = dying[b]
        \/ ~outer /\ dying[b] \in Walkers /\ pc[dying[b]] = "stop"

\* With the VM's lock held by map requests too, nobody who looks through the
\* list of an object finds a vm_bo there that another thread is destroying,
\* however many walks break off with a reference in hand.
FoundAlive == outer => \A c \in Clients : state[c] # "undefined"

=============================================================================
