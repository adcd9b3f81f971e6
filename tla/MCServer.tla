------------------------------ MODULE MCServer ------------------------------
(* Bounded instances of Server: more connections than descriptors, so that *)
(* numbers are reused, and connections that wait for a worker.             *)
EXTENDS Server, TLC

CONSTANTS c1, c2, c3, f1, f2, w1, w2

OneWorker  == {w1}
TwoWorkers == {w1, w2}

TwoClients   == {c1, c2}
ThreeClients == {c1, c2, c3}

TwoFds == {f1, f2}
OneFd  == {f2}
NoFds  == {}

GoodOrBad == {"frame", "bad"}
OnlyGood  == {"frame"}
PartOrBad == {"part", "bad"}

Symmetry ==
  Permutations(Clients) \cup Permutations(Fds) \cup Permutations(Workers)

=============================================================================
