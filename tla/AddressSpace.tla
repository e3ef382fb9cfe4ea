---------------------------- MODULE AddressSpace ----------------------------
(***************************************************************************)
(* What the GPU VA manager and its driver promise to whoever maps and      *)
(* unmaps ranges of a GPU address space: what an address translates to,    *)
(* one request at a time, and nothing of the mappings it is built from.    *)
(* GpuVm implements it.                                                    *)
(***************************************************************************)
EXTENDS Integers

CONSTANTS
    Addrs,     \* the addresses, a set of integers
    Requests,  \* records [kind, addr, range, obj, offset]
    Unmapped,  \* an address without translation
    NoRequest  \* no request is being executed

VARIABLES
    space,    \* address -> [obj, page] or Unmapped
    request,  \* the request being executed or just finished
    status    \* "idle", "running", "ok" or "failed"

svars == <<space, request, status>>

Requested == {a \in Addrs : request.addr <= a /\ a < request.addr + request.range}

AddressSpaceInit ==
    /\ space = [a \in Addrs |-> Unmapped]
    /\ request = NoRequest
    /\ status = "idle"

Begin(r) ==
    /\ status = "idle"
    /\ status' = "running"
    /\ request' = r
    /\ UNCHANGED space

\* Some of the requested addresses lose their translation.
Clear ==
    /\ status = "running"
    /\ \E cleared \in SUBSET Requested :
         space' = [a \in Addrs |-> IF a \in cleared THEN Unmapped ELSE space[a]]
    /\ UNCHANGED <<request, status>>

\* Once all of them have, a map request gives them theirs, all at once.
CommitMap ==
    /\ status = "running"
    /\ request.kind = "map"
    /\ \A a \in Requested : space[a] = Unmapped
    /\ space' = [a \in Addrs |->
                   IF a \in Requested
                   THEN [obj |-> request.obj, page |-> request.offset + (a - request.addr)]
                   ELSE space[a]]
    /\ status' = "ok"
    /\ UNCHANGED request

\* An unmap request succeeds when none of them has a translation left.
CommitUnmap ==
    /\ status = "running"
    /\ request.kind = "unmap"
    /\ \A a \in Requested : space[a] = Unmapped
    /\ status' = "ok"
    /\ UNCHANGED <<space, request>>

\* A request that fails leaves what it has cleared cleared.
Fail ==
    /\ status = "running"
    /\ status' = "failed"
    /\ UNCHANGED <<space, request>>

Finish ==
    /\ status \in {"ok", "failed"}
    /\ status' = "idle"
    /\ request' = NoRequest
    /\ UNCHANGED space

AddressSpaceNext ==
    \/ \E r \in Requests : Begin(r)
    \/ Clear
    \/ CommitMap
    \/ CommitUnmap
    \/ Fail
    \/ Finish

AddressSpaceSpec == AddressSpaceInit /\ [][AddressSpaceNext]_svars
=============================================================================
