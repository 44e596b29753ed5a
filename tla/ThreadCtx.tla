------------------------------- MODULE ThreadCtx -------------------------------
(***************************************************************************)
(* The namespaces of a thread (emu/core/thread_ctx.go): the table by       *)
(* tunnel, the list and its iterator, and the rule that only a namespace   *)
(* without clients is removed.  The clients of a namespace are counted     *)
(* only; their tables are NsTables.  A request with several tunnels stops  *)
(* at the first error and keeps what it did: it is a sequence of actions.  *)
(***************************************************************************)
EXTENDS EpocIter

CONSTANTS
    Tunnels,     \* keys of namespaces
    MaxClients,  \* clients of a namespace (a bound)
    MaxNsEpoc      \* additions and removals of namespaces (a bound)

VARIABLES
    nsList,      \* nsHead, its epoc and its iterator
    mapNs,       \* the tunnels with a namespace
    addNs, removeNs,          \* counters of the thread
    added, removed,           \* addClient and removeClient of each namespace
    clients      \* the clients that exist, by tunnel

nsVars == <<mapNs, addNs, removeNs, added, removed, clients>>
threadVars == <<nsList, nsVars>>

\* ctx_add of one tunnel; plugins are then added, and if that fails the
\* namespace stays
AddNs(t) ==
    /\ nsList.epoc < MaxNsEpoc
    /\ t \notin mapNs
    /\ mapNs' = mapNs \cup {t}
    /\ addNs' = addNs + 1
    /\ added' = [added EXCEPT ![t] = 0]
    /\ removed' = [removed EXCEPT ![t] = 0]
    /\ UNCHANGED <<removeNs, clients>>
    /\ nsList' = Appended(nsList, t)

\* mutation of RemoveNs: the counters are not looked at
RemoveNsAlways(t) ==
    /\ nsList.epoc < MaxNsEpoc
    /\ t \in mapNs
    /\ mapNs' = mapNs \ {t}
    /\ removeNs' = removeNs + 1
    /\ UNCHANGED <<addNs, added, removed, clients>>
    /\ nsList' = Unlinked(nsList, t)

\* ctx_remove of one tunnel: refused while the counters of the namespace say
\* that it has active clients
RemoveNs(t) ==
    /\ nsList.epoc < MaxNsEpoc
    /\ t \in mapNs
    /\ added[t] - removed[t] = 0
    /\ mapNs' = mapNs \ {t}
    /\ removeNs' = removeNs + 1
    /\ UNCHANGED <<addNs, added, removed, clients>>
    /\ nsList' = Unlinked(nsList, t)

\* ctx_client_add and ctx_client_remove look the namespace up first
AddNsClient(t) ==
    /\ t \in mapNs
    /\ clients[t] < MaxClients
    /\ added[t] < 2 * MaxClients
    /\ added' = [added EXCEPT ![t] = @ + 1]
    /\ clients' = [clients EXCEPT ![t] = @ + 1]
    /\ UNCHANGED <<nsList, mapNs, addNs, removeNs, removed>>

RemoveNsClient(t) ==
    /\ t \in mapNs
    /\ clients[t] > 0
    /\ removed' = [removed EXCEPT ![t] = @ + 1]
    /\ clients' = [clients EXCEPT ![t] = @ - 1]
    /\ UNCHANGED <<nsList, mapNs, addNs, removeNs, added>>

\* ctx_iter
NsIter == IterRpc(nsList, nsList') /\ UNCHANGED nsVars

ThreadInit ==
    /\ nsList = EmptyList
    /\ mapNs = {} /\ addNs = 0 /\ removeNs = 0
    /\ added = [t \in Tunnels |-> 0]
    /\ removed = [t \in Tunnels |-> 0]
    /\ clients = [t \in Tunnels |-> 0]

ThreadNext ==
    \/ \E t \in Tunnels : AddNs(t) \/ RemoveNs(t) \/ AddNsClient(t) \/ RemoveNsClient(t)
    \/ NsIter

ThreadSpec == ThreadInit /\ [][ThreadNext]_threadVars

-----------------------------------------------------------------------------
\* A client never outlives its namespace: every client that exists is in a
\* namespace that the table of the thread still has.
NoOrphans == \A t \in Tunnels : clients[t] > 0 => t \in mapNs

\* The list, the table and the counters of the thread agree.
NsListIsTable ==
    /\ IsInjective(nsList.items)
    /\ Range(nsList.items) = mapNs
    /\ addNs - removeNs = Len(nsList.items)

\* Clients are in namespaces of the table, which is the list and is
\* counted right, and ctx_iter gives every namespace once or is refused.
NamespacesSound == NoOrphans /\ NsListIsTable /\ AnswersSound(nsList)
=============================================================================
