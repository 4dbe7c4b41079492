--------------------------- MODULE MCAsyncFutures ---------------------------
(* Small instances of AsyncFutures for TLC. *)
EXTENDS AsyncFutures, TLC
CONSTANTS w1, w2, host, c1

OneWorker == {w1}
TwoWorkers == {w1, w2}
Hosts == {host}
None == {}
OneCallback == {c1}
=============================================================================
