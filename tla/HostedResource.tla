--------------------------- MODULE HostedResource ---------------------------
(***************************************************************************)
(* What every binding of llattice promises about a value that a managed    *)
(* language lends to the native side, without counters, addresses, locks   *)
(* or threads.  A host context (a Raku or Julia object kept alive for the  *)
(* native side) is adopted by exactly one resource, the resource is owned  *)
(* by any number of handles, and the host context is dropped once, after   *)
(* its last handle is closed.                                              *)
(***************************************************************************)
CONSTANTS Handles,       \* owned references to a resource
          HostContexts,  \* objects of the managed language lent to a resource
          Null

VARIABLES owner,  \* owner[h]: the host context behind handle h, or Null
          life    \* life[x]: where host context x is in its life

hrVars == <<owner, life>>

HRInit ==
    /\ owner = [h \in Handles |-> Null]
    /\ life = [x \in HostContexts |-> "unused"]

\* A fresh host context becomes a resource, owned by one handle.
Adopt(h, x) ==
    /\ owner[h] = Null
    /\ life[x] = "unused"
    /\ owner' = [owner EXCEPT ![h] = x]
    /\ life' = [life EXCEPT ![x] = "rooted"]

\* A second handle on the resource of an open handle.
Share(h, g) ==
    /\ owner[h] # Null
    /\ owner[g] = Null
    /\ owner' = [owner EXCEPT ![g] = owner[h]]
    /\ UNCHANGED life

CloseHandle(h) ==
    /\ owner[h] # Null
    /\ owner' = [owner EXCEPT ![h] = Null]
    /\ UNCHANGED life

\* The managed language is told to forget a context no handle owns any more.
DropHost(x) ==
    /\ life[x] = "rooted"
    /\ \A h \in Handles : owner[h] # x
    /\ life' = [life EXCEPT ![x] = "dropped"]
    /\ UNCHANGED owner

HRNext ==
    \/ \E h \in Handles, x \in HostContexts : Adopt(h, x)
    \/ \E h, g \in Handles : Share(h, g)
    \/ \E h \in Handles : CloseHandle(h)
    \/ \E x \in HostContexts : DropHost(x)

HRSafety == HRInit /\ [][HRNext]_hrVars

\* A context that stays without a handle is dropped in the end.
HRSpec == HRSafety /\ \A x \in HostContexts : WF_hrVars(DropHost(x))
=============================================================================
