------------------------------ MODULE MCFeeds ------------------------------
(* Feeds with a log subscription and a shred stream, on the same events. *)
EXTENDS Feeds

CONSTANTS pump, jito

MCEvents == {[kind |-> "create", feeds |-> {pump, jito}],
             [kind |-> "trade", feeds |-> {pump, jito}],
             [kind |-> "empty", feeds |-> {pump}]}
=============================================================================
