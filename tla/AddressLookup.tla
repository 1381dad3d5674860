----------------------------- MODULE AddressLookup -----------------------------
(***************************************************************************)
(* CAddressLookup (src/private/net/address_lookup.cpp): one thread starts, *)
(* polls and gives up lookups, while the system resolves each one and      *)
(* writes the outcome into the state the lookup was started with.  That    *)
(* state must outlive the system's last write, and nothing waits for it.   *)
(***************************************************************************)
EXTENDS Naturals, FiniteSets, Platform

CONSTANT Lookups      \* SNativeLookup allocations, one per Start

ASSUME LookupAssumption == None \notin Lookups    \* None is the null m_pLookup

VARIABLES lkMemory,   \* the state of each: none, live, freed, left (to the system)
          lkSystem,   \* what the system does with it: none, queued, working, done
          lkResult,   \* its address list: none, allocated, freed
          lkEvent,    \* Windows: its event is open
          lookup,     \* m_pLookup
          lkPending,  \* Terminate found the lookup pending and has yet to cancel it
          lkNeeded    \* lookups the system held when Terminate asked

lookupVars == <<lkMemory, lkSystem, lkResult, lkEvent, lookup, lkPending, lkNeeded>>

LookupInit ==
    /\ lkMemory = [l \in Lookups |-> "none"]
    /\ lkSystem = [l \in Lookups |-> "none"]
    /\ lkResult = [l \in Lookups |-> "none"]
    /\ lkEvent = [l \in Lookups |-> FALSE]
    /\ lookup = None /\ lkPending = FALSE /\ lkNeeded = {}

InProgress(l) == lkSystem[l] \in {"queued", "working"}

\* The system takes the lookup, has its answer at once (Windows), or refuses it.
StartLookup(l) ==
    /\ lookup = None /\ lkMemory[l] = "none"
    /\ \/ /\ lkMemory' = [lkMemory EXCEPT ![l] = "live"]
          /\ lkSystem' = [lkSystem EXCEPT ![l] = IF OnLinux THEN "queued" ELSE "working"]
          /\ lkEvent' = [lkEvent EXCEPT ![l] = OnWindows]
          /\ lookup' = l
          /\ UNCHANGED lkResult
       \/ /\ OnWindows
          /\ lkMemory' = [lkMemory EXCEPT ![l] = "live"]
          /\ lkSystem' = [lkSystem EXCEPT ![l] = "done"]
          /\ lkResult' = [lkResult EXCEPT ![l] = "allocated"]
          /\ lkEvent' = [lkEvent EXCEPT ![l] = TRUE]
          /\ lookup' = l
       \/ /\ lkMemory' = [lkMemory EXCEPT ![l] = "freed"]
          /\ UNCHANGED <<lkSystem, lkResult, lkEvent, lookup>>
    /\ UNCHANGED <<lkPending, lkNeeded>>

\* Release, freeaddrinfo and the end of the unique_ptr.
FreeLookup(l) ==
    /\ lkResult' = [lkResult EXCEPT ![l] = IF @ = "allocated" THEN "freed" ELSE @]
    /\ lkEvent' = [lkEvent EXCEPT ![l] = FALSE]
    /\ lkMemory' = [lkMemory EXCEPT ![l] = "freed"]

LeaveLookup(l) ==
    /\ lkMemory' = [lkMemory EXCEPT ![l] = "left"]
    /\ UNCHANGED <<lkResult, lkEvent>>

\* Nothing while the system works on it; then the answer, and the lookup is over.
PollLookup ==
    /\ lookup # None /\ ~lkPending /\ ~InProgress(lookup)
    /\ FreeLookup(lookup)
    /\ lookup' = None
    /\ UNCHANGED <<lkSystem, lkPending, lkNeeded>>

\* A Terminate that frees whatever gai_cancel answers.
TerminateFreesAtOnce ==
    /\ OnLinux /\ lookup # None
    /\ FreeLookup(lookup)
    /\ lookup' = None
    /\ UNCHANGED <<lkSystem, lkPending, lkNeeded>>

\* gai_cancel takes back what no thread of the resolver has begun.
TerminateOnLinux ==
    /\ OnLinux /\ lookup # None
    /\ lkNeeded' = IF lkSystem[lookup] = "working" THEN lkNeeded \cup {lookup} ELSE lkNeeded
    /\ lkSystem' = [lkSystem EXCEPT ![lookup] = IF @ = "queued" THEN "done" ELSE @]
    /\ IF lkSystem[lookup] = "working" THEN LeaveLookup(lookup) ELSE FreeLookup(lookup)
    /\ lookup' = None
    /\ UNCHANGED lkPending

\* Windows is asked first and told to cancel afterwards, and may finish in between.
TerminateAsks ==
    /\ OnWindows /\ lookup # None /\ ~lkPending
    /\ IF InProgress(lookup)
       THEN lkPending' = TRUE /\ lkNeeded' = lkNeeded \cup {lookup}
            /\ UNCHANGED <<lkMemory, lkResult, lkEvent, lookup>>
       ELSE FreeLookup(lookup) /\ lookup' = None /\ UNCHANGED <<lkPending, lkNeeded>>
    /\ UNCHANGED lkSystem

TerminateCancels ==
    /\ lkPending
    /\ LeaveLookup(lookup)
    /\ lookup' = None /\ lkPending' = FALSE
    /\ UNCHANGED <<lkSystem, lkNeeded>>
-----------------------------------------------------------------------------
(* The system's resolver *)

ResolverTakes(l) ==
    /\ lkSystem[l] = "queued"
    /\ lkSystem' = [lkSystem EXCEPT ![l] = "working"]
    /\ UNCHANGED <<lkMemory, lkResult, lkEvent, lookup, lkPending, lkNeeded>>

\* It writes the status, and with success the list of addresses.
ResolverAnswers(l, result) ==
    /\ lkSystem[l] = "working"
    /\ lkSystem' = [lkSystem EXCEPT ![l] = "done"]
    /\ lkResult' = [lkResult EXCEPT ![l] = result]
    /\ UNCHANGED <<lkMemory, lkEvent, lookup, lkPending, lkNeeded>>

LookupNext ==
    \/ \E l \in Lookups : StartLookup(l) \/ ResolverTakes(l)
    \/ \E l \in Lookups, result \in {"none", "allocated"} : ResolverAnswers(l, result)
    \/ PollLookup \/ TerminateOnLinux \/ TerminateAsks \/ TerminateCancels
-----------------------------------------------------------------------------
(* Properties *)

\* The system never writes into the state of a lookup that was freed, however Poll, Terminate and
\* the resolver's steps fall.
ResolverWritesIntoLive == \A l \in Lookups : InProgress(l) => lkMemory[l] # "freed"

\* A lookup is left behind only if the system held it when Terminate asked; of one that is freed the
\* address list and the event go too.
LookupsAreFreed ==
    \A l \in Lookups :
       /\ lkMemory[l] = "left" => l \in lkNeeded
       /\ lkMemory[l] = "freed" => lkResult[l] # "allocated" /\ ~lkEvent[l]
       /\ lkMemory[l] = "live" => l = lookup
=============================================================================
