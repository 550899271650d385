-------------------------- MODULE MCPairedBarriers --------------------------
(***************************************************************************)
(* Loop bodies for PairedBarriers.  Operations 1, 2, ... touch memory;     *)
(* 11, 12, ... are barriers; 21 is a token operation without an            *)
(* instruction.                                                            *)
(***************************************************************************)
EXTENDS PairedBarriers

CONSTANTS w1, w2

O(kind, id, uses) ==
    [kind |-> kind, id |-> id, uses |-> uses, handle |-> 0, ticket |-> 0, sites |-> {}]
Arrive(id, handle, uses) == [O("arrive", id, uses) EXCEPT !.handle = handle]
Wait(id, handle, arrive, uses) ==
    [O("wait", id, uses) EXCEPT !.handle = handle, !.ticket = arrive]

\* A store, a barrier, the reads of it, a barrier, the store that overwrites it.
Reuse == <<O("mem", 1, {}), O("full", 11, {1}), O("mem", 2, {11}),
           O("full", 12, {2}), O("mem", 3, {12})>>

\* Two barriers in a row; the second also orders another store, through a join.
Joined == <<O("mem", 1, {}), O("mem", 2, {}), O("full", 11, {1}),
            O("join", 21, {11, 2}), O("full", 12, {21}), O("mem", 3, {12})>>

\* As Joined, but the second barrier takes the order of both and their completion
\* of neither.
Stripped == <<O("mem", 1, {}), O("mem", 2, {}), O("full", 11, {1}),
              O("free", 21, {11, 2}), O("full", 12, {21}), O("mem", 3, {12})>>

\* Two barriers that no token orders: each arm may have its own order.
Apart == <<O("mem", 1, {}), O("full", 11, {1}), O("full", 12, {}), O("mem", 2, {11})>>

\* A full barrier inside an arrive and its wait, with memory between.
Nested == <<O("mem", 1, {}), Arrive(31, 11, {1}), O("full", 12, {}),
            Wait(11, 11, 31, {31}), O("mem", 2, {11})>>

Bodies == {Reuse, Joined, Stripped, Apart, Nested}
=============================================================================
