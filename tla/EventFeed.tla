------------------------------ MODULE EventFeed ------------------------------
(***************************************************************************)
(* What a feed of chain events promises, and what TokenPipeline takes for  *)
(* granted of its reports: the chain produces events one after the other,  *)
(* and a feed reports some of them, each at most once and in their order.  *)
(* Nothing is promised of events that are left out.                        *)
(***************************************************************************)
EXTENDS Naturals, Sequences

CONSTANTS
    Feeds,
    Events     \* what an event may be

VARIABLES
    chain,     \* the events so far
    reported   \* per feed: positions of the chain it has reported, in order

vars == <<chain, reported>>

Last(f) == IF reported[f] = <<>> THEN 0 ELSE reported[f][Len(reported[f])]

Happen(e) ==
    /\ chain' = Append(chain, e)
    /\ UNCHANGED reported

Report(f) ==
    /\ \E n \in Last(f) + 1 .. Len(chain) :
          reported' = [reported EXCEPT ![f] = Append(@, n)]
    /\ UNCHANGED chain

Init ==
    /\ chain = <<>>
    /\ reported = [f \in Feeds |-> <<>>]

Next == (\E e \in Events : Happen(e)) \/ (\E f \in Feeds : Report(f))

Spec == Init /\ [][Next]_vars
=============================================================================
