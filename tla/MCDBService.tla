---------------------------- MODULE MCDBService ----------------------------
(* Small instances of the queues between the server and the engine. *)
EXTENDS DBService

CONSTANTS server, script, s1, s2, t1, w1, w2

TwoProcesses == {server, script}
ThreeThreads == {s1, s2, t1}
TwoWorkers == {w1, w2}

Owner == (s1 :> server) @@ (s2 :> server) @@ (t1 :> script)
Pids == (server :> 1) @@ (script :> 2)
=============================================================================
