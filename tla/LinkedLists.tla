---------------------------- MODULE LinkedLists -----------------------------
(***************************************************************************)
(* The firmware keeps its queues and block lists as doubly linked lists    *)
(* threaded through arrays.  Here such a list is the sequence of its       *)
(* entries, head first; these operators are the ones Sequences lacks.      *)
(***************************************************************************)
EXTENDS Integers, Sequences

InList(q, b) == \E i \in 1 .. Len(q) : q[i] = b

\* The list without the entry at position i.
RemoveAtIndex(q, i) ==
    [j \in 1 .. Len(q) - 1 |-> IF j < i THEN q[j] ELSE q[j + 1]]

\* Wrong: every entry is taken for the head.
UnlinkHead(q, b) == IF q = <<>> THEN q ELSE RemoveAtIndex(q, 1)

\* Unlink entry b, which may be on no list yet.
Unlink(q, b) ==
    IF InList(q, b) THEN RemoveAtIndex(q, CHOOSE i \in 1 .. Len(q) : q[i] = b)
    ELSE q
=============================================================================
