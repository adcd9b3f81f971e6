---------------------------- MODULE MCNorthbound ----------------------------
(* A bounded instance of Northbound: one thread for good and room for one  *)
(* more, so that connections queue, threads are added, time out and are    *)
(* added again, while a scrape and accepted events go on beside each other;*)
(* of the events some are answered 416 after they were enqueued, and some  *)
(* requests are answered 416 and are none.                                 *)
EXTENDS Northbound

CONSTANTS c1, c2, b1, d1, none

TwoConns == {c1, c2}
OneBase  == {b1}
OneMore  == {d1}
SomeKinds == {"metrics", "event", "outside", "badrange"}

=============================================================================
