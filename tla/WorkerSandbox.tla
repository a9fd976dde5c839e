--------------------------- MODULE WorkerSandbox ---------------------------
(***************************************************************************)
(* agentManager/sandbox/worker_sandbox.py against the Docker daemon.       *)
(*                                                                         *)
(* A sandbox belongs to one caller at a time.  exec_for_task hands the     *)
(* command to a pool of one thread and waits for it with a timeout; the    *)
(* thread, the daemon and the caller go on independently, and leaving the  *)
(* pool's block waits for the thread once more.  Two sandboxes may be made *)
(* for one worker (the second to follow or to overlap the first): their    *)
(* containers have the same name.                                          *)
(*                                                                         *)
(* The daemon is external: it refuses a name that is taken, a call on a    *)
(* container that is gone, and any call when it has a fault; a container   *)
(* that is killed or removed ends the commands that run in it.  A command  *)
(* of its own may run for ever.                                            *)
(***************************************************************************)
EXTENDS Sequences, Integers

CONSTANTS
    Sandbox,
    worker_id,   \* the worker each sandbox is for
    Policies,    \* the configurations, as far as the policy looks at them
    MaxCreated,  \* bound: containers in a behaviour
    MaxExecs,    \* bound: commands of a sandbox
    MaxFaults    \* bound: calls the daemon fails

ASSUME SandboxAssumption ==
    /\ Sandbox # {}
    /\ {MaxCreated, MaxExecs, MaxFaults} \subseteq Nat
    /\ \A p \in Policies : p.allowed \in BOOLEAN
          /\ \A m \in p.mounts : {m.denied, m.writable, m.inside} \subseteq BOOLEAN

VARIABLES
    containers,  \* the daemon's containers: which sandbox made them and their state
    policy,      \* config of a sandbox
    container,   \* self.container (0: None)
    pc,          \* where the caller is
    command,     \* the thread of the pool
    issued,      \* number of commands submitted
    answer,      \* result_holder: the command whose output it has (0: none)
    errors,      \* calls of the timeout cleanup that failed
    result,      \* what the last exec_for_task returned
    faults

vars == <<containers, policy, container, pc, command, issued, answer, errors, result, faults>>

State == {"created", "running", "exited", "removed"}

Result == [kind : {"none", "output", "error", "timeout"}, command : Nat,
           cleanup : {"not_needed", "removed", "failed"}]

NoResult == [kind |-> "none", command |-> 0, cleanup |-> "not_needed"]

TypeOK ==
    /\ containers \in Seq([owner : Sandbox, state : State])
    /\ policy \in [Sandbox -> Policies]
    /\ container \in [Sandbox -> 0 .. Len(containers)]
    /\ pc \in [Sandbox -> {"outside", "starting", "ready", "waiting", "kill", "remove", "join",
                           "stop", "stop_kill", "discard"}]
    /\ command \in [Sandbox -> {"none", "submitted", "executing", "done", "raised"}]
    /\ issued \in [Sandbox -> Nat] /\ answer \in [Sandbox -> Nat]
    /\ errors \in [Sandbox -> SUBSET {"kill", "remove"}]
    /\ result \in [Sandbox -> Result]
    /\ faults \in Nat

Init ==
    /\ containers = <<>>
    /\ policy \in [Sandbox -> Policies]
    /\ container = [s \in Sandbox |-> 0]
    /\ pc = [s \in Sandbox |-> "outside"]
    /\ command = [s \in Sandbox |-> "none"]
    /\ issued = [s \in Sandbox |-> 0] /\ answer = [s \in Sandbox |-> 0]
    /\ errors = [s \in Sandbox |-> {}]
    /\ result = [s \in Sandbox |-> NoResult]
    /\ faults = 0

Goto(s, step) == pc' = [pc EXCEPT ![s] = step]

(* validate_policy: an allowed image, no denied mount, and nothing writable *)
(* outside of the task's workspace.                                         *)
PolicyAccepts(p) ==
    /\ p.allowed
    /\ \A m \in p.mounts : ~m.denied /\ (m.writable => m.inside)

----------------------------------------------------------------------------
(* The daemon.                                                             *)

Own(s) == IF container[s] = 0 THEN "removed" ELSE containers[container[s]].state

NameTaken(s) ==
    \E i \in DOMAIN containers :
        containers[i].state # "removed" /\ worker_id[containers[i].owner] = worker_id[s]

Fault == faults < MaxFaults /\ faults' = faults + 1

(* The container of s goes into a new state; when it does not run there     *)
(* any more, its command ends.                                              *)
Becomes(s, state) ==
    /\ containers' = [containers EXCEPT ![container[s]].state = state]
    /\ IF state # "running" /\ command[s] = "executing"
       THEN /\ command' = [command EXCEPT ![s] = "done"]
            /\ answer' = [answer EXCEPT ![s] = issued[s]]
       ELSE UNCHANGED <<command, answer>>
    /\ UNCHANGED faults

(* A call on the container that the daemon refuses, in the states given or  *)
(* by a fault.                                                              *)
CallFails(s, states) ==
    /\ \/ Own(s) \in states /\ UNCHANGED faults
       \/ Own(s) \notin states /\ Fault
    /\ UNCHANGED <<containers, command, answer>>

----------------------------------------------------------------------------
(* __enter__                                                               *)

CreateContainer(s) ==
    /\ pc[s] = "outside" /\ Len(containers) < MaxCreated
    /\ PolicyAccepts(policy[s]) /\ ~NameTaken(s)
    /\ containers' = Append(containers, [owner |-> s, state |-> "created"])
    /\ container' = [container EXCEPT ![s] = Len(containers')]
    /\ result' = [result EXCEPT ![s] = NoResult]
    /\ Goto(s, "starting")
    /\ UNCHANGED <<policy, command, issued, answer, errors, faults>>

StartContainer(s) ==
    /\ pc[s] = "starting" /\ Own(s) = "created"
    /\ Becomes(s, "running")
    /\ Goto(s, "ready")
    /\ UNCHANGED <<policy, container, issued, errors, result>>

(* __enter__ raises, so __exit__ is never called: the container stays. *)
StartFails(s) ==
    /\ pc[s] = "starting"
    /\ CallFails(s, {"removed"})
    /\ Goto(s, "outside")
    /\ UNCHANGED <<policy, container, issued, errors, result>>

----------------------------------------------------------------------------
(* exec_for_task                                                           *)

(* Mutant: the holder of the output is shared by the calls. *)
Submit_sharedHolder(s) ==
    /\ pc[s] = "ready" /\ issued[s] < MaxExecs
    /\ command' = [command EXCEPT ![s] = "submitted"]
    /\ issued' = [issued EXCEPT ![s] = @ + 1]
    /\ errors' = [errors EXCEPT ![s] = {}]
    /\ result' = [result EXCEPT ![s] = NoResult]
    /\ Goto(s, "waiting")
    /\ UNCHANGED <<containers, policy, container, answer, faults>>

(* A new pool, and a new holder for the output. *)
Submit(s) ==
    /\ pc[s] = "ready" /\ issued[s] < MaxExecs
    /\ command' = [command EXCEPT ![s] = "submitted"]
    /\ issued' = [issued EXCEPT ![s] = @ + 1]
    /\ answer' = [answer EXCEPT ![s] = 0]
    /\ errors' = [errors EXCEPT ![s] = {}]
    /\ result' = [result EXCEPT ![s] = NoResult]
    /\ Goto(s, "waiting")
    /\ UNCHANGED <<containers, policy, container, faults>>

(* _exec_task in the thread: exec_run reaches the container or raises, its  *)
(* output arrives at some time, perhaps never.                              *)
ExecRun(s) ==
    /\ command[s] = "submitted"
    /\ \/ /\ Own(s) = "running"
          /\ command' = [command EXCEPT ![s] = "executing"]
          /\ UNCHANGED faults
       \/ /\ \/ Own(s) # "running" /\ UNCHANGED faults
             \/ Own(s) = "running" /\ Fault
          /\ command' = [command EXCEPT ![s] = "raised"]
    /\ UNCHANGED <<containers, policy, container, pc, issued, answer, errors, result>>

CommandEnds(s) ==
    /\ command[s] = "executing"
    /\ command' = [command EXCEPT ![s] = "done"]
    /\ answer' = [answer EXCEPT ![s] = issued[s]]
    /\ UNCHANGED <<containers, policy, container, pc, issued, errors, result, faults>>

Finished(s) == command[s] \in {"done", "raised"}

(* The command ended in time. *)
Collect(s) ==
    /\ pc[s] = "waiting" /\ Finished(s)
    /\ result' = [result EXCEPT ![s] =
          [kind |-> IF command[s] = "raised" THEN "error" ELSE "output", command |-> answer[s],
           cleanup |-> "not_needed"]]
    /\ Goto(s, "ready")
    /\ UNCHANGED <<containers, policy, container, command, issued, answer, errors, faults>>

TimeOut(s) ==
    /\ pc[s] = "waiting" /\ ~Finished(s)
    /\ Goto(s, "kill")
    /\ UNCHANGED <<containers, policy, container, command, issued, answer, errors, result, faults>>

(* Mutant: kill and remove share one try block. *)
Kill_skipsRemove(s) ==
    /\ pc[s] = "kill"
    /\ \/ Own(s) = "running" /\ Becomes(s, "exited") /\ Goto(s, "remove") /\ UNCHANGED errors
       \/ /\ CallFails(s, {"created", "exited", "removed"})
          /\ errors' = [errors EXCEPT ![s] = @ \union {"kill"}]
          /\ Goto(s, "join")
    /\ UNCHANGED <<policy, container, issued, result>>

(* _cleanup_after_timeout: kill, and remove whatever kill did. *)
Kill(s) ==
    /\ pc[s] = "kill"
    /\ \/ Own(s) = "running" /\ Becomes(s, "exited") /\ UNCHANGED errors
       \/ CallFails(s, {"created", "exited", "removed"})
          /\ errors' = [errors EXCEPT ![s] = @ \union {"kill"}]
    /\ Goto(s, "remove")
    /\ UNCHANGED <<policy, container, issued, result>>

ForceRemove(s) ==
    /\ pc[s] = "remove"
    /\ \/ Own(s) # "removed" /\ Becomes(s, "removed") /\ UNCHANGED errors
       \/ CallFails(s, {"removed"}) /\ errors' = [errors EXCEPT ![s] = @ \union {"remove"}]
    /\ Goto(s, "join")
    /\ UNCHANGED <<policy, container, issued, result>>

(* Mutant: one failed call of the two is not reported. *)
CleanupStatus_anySuccess(s) == IF errors[s] # {"kill", "remove"} THEN "removed" ELSE "failed"

CleanupStatus(s) == IF errors[s] = {} THEN "removed" ELSE "failed"

(* Leaving the pool's block waits for the thread; its answer comes too late *)
(* and is dropped.                                                          *)
Join(s) ==
    /\ pc[s] = "join" /\ Finished(s)
    /\ result' = [result EXCEPT ![s] = [kind |-> "timeout", command |-> issued[s],
                                        cleanup |-> CleanupStatus(s)]]
    /\ Goto(s, "ready")
    /\ UNCHANGED <<containers, policy, container, command, issued, answer, errors, faults>>

----------------------------------------------------------------------------
(* __exit__: stop, or else kill, and remove; every refusal is logged only. *)

Leave(s) ==
    /\ pc[s] = "ready"
    /\ Goto(s, "stop")
    /\ UNCHANGED <<containers, policy, container, command, issued, answer, errors, result, faults>>

(* Mutant: a container that was stopped is not removed. *)
StopContainer_keeps(s) ==
    /\ pc[s] = "stop"
    /\ \/ /\ Own(s) # "removed"
          /\ Becomes(s, IF Own(s) = "running" THEN "exited" ELSE Own(s))
          /\ Goto(s, "outside")
       \/ CallFails(s, {"removed"}) /\ Goto(s, "stop_kill")
    /\ UNCHANGED <<policy, container, issued, errors, result>>

StopContainer(s) ==
    /\ pc[s] = "stop"
    /\ \/ /\ Own(s) # "removed"
          /\ Becomes(s, IF Own(s) = "running" THEN "exited" ELSE Own(s))
          /\ Goto(s, "discard")
       \/ CallFails(s, {"removed"}) /\ Goto(s, "stop_kill")
    /\ UNCHANGED <<policy, container, issued, errors, result>>

KillContainer(s) ==
    /\ pc[s] = "stop_kill"
    /\ \/ Own(s) = "running" /\ Becomes(s, "exited")
       \/ CallFails(s, {"created", "exited", "removed"})
    /\ Goto(s, "discard")
    /\ UNCHANGED <<policy, container, issued, errors, result>>

RemoveContainer(s) ==
    /\ pc[s] = "discard"
    /\ \/ Own(s) # "removed" /\ Becomes(s, "removed")
       \/ CallFails(s, {"removed"})
    /\ Goto(s, "outside")
    /\ UNCHANGED <<policy, container, issued, errors, result>>

(* The call does not get through at all, which only APIErrors are expected  *)
(* to say: cleanup gives up, whatever is left to be done.                   *)
CleanupFails(s) ==
    /\ pc[s] \in {"stop", "stop_kill"}
    /\ Fault
    /\ Goto(s, "outside")
    /\ UNCHANGED <<containers, policy, container, command, issued, answer, errors, result>>

(* What the caller and its thread do without being asked again. *)
Advance(s) ==
    \/ StartContainer(s) \/ StartFails(s)
    \/ ExecRun(s) \/ Collect(s) \/ TimeOut(s) \/ Kill(s) \/ ForceRemove(s) \/ Join(s)
    \/ StopContainer(s) \/ KillContainer(s) \/ RemoveContainer(s) \/ CleanupFails(s)

Next == \E s \in Sandbox :
            Advance(s) \/ CreateContainer(s) \/ Submit(s) \/ CommandEnds(s) \/ Leave(s)

(* The caller and the thread run on; a command need not end. *)
Fairness == \A s \in Sandbox : WF_vars(Advance(s))

Spec == Init /\ [][Next]_vars /\ Fairness

----------------------------------------------------------------------------
(* What exec_for_task returns is about the command it was called with: the  *)
(* answer of a command that timed out, however late it comes, is never the  *)
(* result of a later one, and an output was really given                    *)
(* (worker_sandbox.py:301-318, 326-338).                                    *)
AnswersAreOwn ==
    \A s \in Sandbox :
        /\ result[s].kind \in {"output", "timeout"} => result[s].command = issued[s]
        /\ result[s].kind = "error" => result[s].command = 0

(* A timeout that reports its cleanup as "removed" has removed the          *)
(* container: nothing of the command runs on.  It reports "failed" only for *)
(* a fault of the daemon, or when the container was gone before             *)
(* (worker_sandbox.py:366-391, docs/sandbox.md:54).                         *)
CleanupIsTruthful ==
    \A s \in Sandbox : result[s].kind = "timeout" =>
        \/ result[s].cleanup = "removed" /\ Own(s) = "removed" /\ Finished(s)
        \/ result[s].cleanup = "failed" /\ (faults > 0 \/ Own(s) = "removed")

(* A container outlives the block it was made for only when the daemon      *)
(* failed a call; no order of timeouts, cleanups and late answers leaves    *)
(* one behind, to hold the worker's name (worker_sandbox.py:219, 431-447).  *)
OnlyFaultsLeaveContainers ==
    faults = 0 => \A i \in DOMAIN containers :
        containers[i].state # "removed" =>
            /\ pc[containers[i].owner] # "outside"
            /\ container[containers[i].owner] = i

(* A call of exec_for_task returns even when its command never ends, unless *)
(* the command survived the cleanup: then the caller waits for the thread   *)
(* as long as the command runs (worker_sandbox.py:323-338).                 *)
ExecReturns ==
    \A s \in Sandbox :
        (pc[s] = "waiting") ~> \/ pc[s] = "ready"
                               \/ pc[s] = "join" /\ errors[s] = {"kill", "remove"}
=============================================================================
