------------------------------- MODULE EpocIter -------------------------------
(***************************************************************************)
(* The lists of the core and the resumable iterators of the RPC interface. *)
(* ctx_iter walks over the namespaces of a thread                          *)
(* (emu/core/thread_ctx.go) and ctx_client_iter over the clients of a      *)
(* namespace (emu/core/ns_ctx.go), a few items per request, while other    *)
(* requests add and remove items.  The owner of the list counts its        *)
(* changes in epoc; an iterator remembers the epoc of its reset and        *)
(* refuses to move when it differs.                                        *)
(*                                                                         *)
(* A list is a record:                                                     *)
(*   items     the linked list, first to last                              *)
(*   epoc      number of changes of the list                               *)
(*   iterEpoc  epoc at the last reset                                      *)
(*   ready     a reset was done and the end was not reached                *)
(*   cur       the node the iterator points at: it is left as it is when   *)
(*             its item is removed, and only epoc keeps it from being used *)
(*   seen      history: what the requests were given since the reset       *)
(***************************************************************************)
EXTENDS Naturals, SequencesExt

CONSTANT Counts    \* how many items a request asks for

ASSUME CountsAssumption == Counts \subseteq Nat

Head_ == "head"    \* the node of the list itself

EmptyList ==
    [items |-> <<>>, epoc |-> 0, iterEpoc |-> 0, ready |-> FALSE, cur |-> Head_, seen |-> <<>>]

\* AddLast
Appended(l, x) == [l EXCEPT !.items = Append(l.items, x), !.epoc = l.epoc + 1]

\* position of the node in the list; the list's own node ends it
Position(items, x) ==
    IF \E i \in DOMAIN items : items[i] = x
    THEN CHOOSE i \in DOMAIN items : items[i] = x
    ELSE Len(items) + 1

\* RemoveNode of the item, which is in the list
Unlinked(l, x) ==
    [l EXCEPT !.items = RemoveAt(l.items, Position(l.items, x)), !.epoc = l.epoc + 1]

\* GetNext: up to n items from position pos, given out after those in before;
\* the end of the list is noticed in the request that reaches it
GetNext(l, pos, before, n) ==
    LET stop == IF pos + n <= Len(l.items) + 1 THEN pos + n ELSE Len(l.items) + 1
        given == before \o SubSeq(l.items, pos, stop - 1)
    IN  IF stop <= Len(l.items)
        THEN [l EXCEPT !.seen = given, !.cur = l.items[stop], !.ready = TRUE]
        ELSE [l EXCEPT !.seen = given, !.cur = Head_, !.ready = FALSE]

\* an iteration request that resets the iterator and goes on from there
IterReset(l, n) == GetNext([l EXCEPT !.iterEpoc = l.epoc], 1, <<>>, n)

\* a request that goes on from the last one; it is refused, without a change,
\* when the iterator has stopped or the list has changed
CanGoOn(l) == l.ready /\ l.iterEpoc = l.epoc
IterNext(l, n) == GetNext(l, Position(l.items, l.cur), l.seen, n)

\* what the iteration command may make of the list
IterRpc(l, l2) ==
    \E n \in Counts : l2 = IterReset(l, n) \/ (CanGoOn(l) /\ l2 = IterNext(l, n))

\* Between two changes of the list the answers since the reset are a prefix of
\* it, and an iterator that stops by itself has given out the whole list, each
\* item once.
AnswersSound(l) ==
    l.iterEpoc = l.epoc =>
        /\ IsPrefix(l.seen, l.items)
        /\ ~l.ready => l.seen = l.items
=============================================================================
