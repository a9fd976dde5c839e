-------------------------- MODULE MCWorkerSandbox --------------------------
(* Small instances of WorkerSandbox for TLC: two sandboxes for one worker. *)
EXTENDS WorkerSandbox

CONSTANTS s1, s2

OneWorker == [s \in Sandbox |-> 1]

Mount(denied, writable, inside) == [denied |-> denied, writable |-> writable, inside |-> inside]

(* A configuration the policy accepts and one it refuses for its mount. *)
TwoPolicies == {[allowed |-> TRUE, mounts |-> {Mount(FALSE, TRUE, TRUE), Mount(FALSE, FALSE, FALSE)}],
                [allowed |-> TRUE, mounts |-> {Mount(FALSE, TRUE, FALSE)}]}
=============================================================================
