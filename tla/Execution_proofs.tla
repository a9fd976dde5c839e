--------------------------- MODULE Execution_proofs ---------------------------
(***************************************************************************)
(* Theorems about two components that see to the execution of tasks, each  *)
(* on its own: the container sandbox (WorkerSandbox), for any number of    *)
(* sandboxes, containers, commands and faults, and the scheduler with the  *)
(* resource allocator (TaskScheduler), for any tasks, amounts, holders and *)
(* nesting.                                                                *)
(*                                                                         *)
(* For each of them an inductive invariant (IInv, SchedulingInv) is        *)
(* defined, then proved to hold initially and to be kept by every action,  *)
(* and the theorems follow at the end of its part.                         *)
(***************************************************************************)
EXTENDS WorkerSandbox, TaskScheduler, FiniteSetTheorems, SequenceTheorems, TLAPS

----------------------------------------------------------------------------
(* WorkerSandbox: the inductive invariant.                                 *)

(* A sandbox refers to a container it has made, so that no two refer to the *)
(* same one.                                                                *)
OwnerInv == \A s \in Sandbox : container[s] # 0 => containers[container[s]].owner = s

(* The holder of the output has the output of the last command or nothing.  *)
HolderInv == \A s \in Sandbox :
    /\ command[s] = "done" => answer[s] = issued[s]
    /\ command[s] \in {"submitted", "executing", "raised"} => answer[s] = 0

(* What the calls of the caller have made of the container, step by step.   *)
ContainerFits(s) ==
    /\ pc[s] = "starting" => faults > 0 \/ Own(s) = "created"
    /\ pc[s] \in {"ready", "waiting", "kill"} => faults > 0 \/ Own(s) \in {"running", "removed"}
    /\ pc[s] \in {"waiting", "kill"} => errors[s] = {}
    /\ pc[s] \in {"remove", "join"} /\ errors[s] # {} => faults > 0 \/ Own(s) = "removed"
    /\ pc[s] = "join" /\ errors[s] = {} => Own(s) = "removed"

ContainerInv == \A s \in Sandbox : ContainerFits(s)

IInv ==
    /\ TypeOK
    /\ OwnerInv
    /\ HolderInv /\ AnswersAreOwn
    /\ ContainerInv /\ CleanupIsTruthful
    /\ OnlyFaultsLeaveContainers

----------------------------------------------------------------------------
(* The daemon.                                                             *)

LEMMA ContainersAreTyped ==
    ASSUME TypeOK
    PROVE  /\ DOMAIN containers = 1 .. Len(containers) /\ Len(containers) \in Nat
           /\ \A i \in 1 .. Len(containers) :
                 containers[i] \in [owner : Sandbox, state : State] /\ containers[i].owner \in Sandbox
<1>1. containers \in Seq([owner : Sandbox, state : State])
  BY DEF TypeOK
<1>2. \A i \in 1 .. Len(containers) : containers[i] \in [owner : Sandbox, state : State]
  BY <1>1, ElementOfSeq
<1> QED
  BY <1>1, <1>2, LenProperties

(* A container that changes its state: it is the sandbox's own, and the    *)
(* others are left alone.                                                  *)
LEMMA BecomesChangesOne ==
    ASSUME TypeOK, OwnerInv, NEW s \in Sandbox, NEW state \in State,
           Own(s) # "removed", Becomes(s, state), UNCHANGED container
    PROVE  /\ containers' \in Seq([owner : Sandbox, state : State])
           /\ Len(containers') = Len(containers) /\ DOMAIN containers' = DOMAIN containers
           /\ container[s] \in DOMAIN containers
           /\ \A i \in DOMAIN containers :
                 /\ containers'[i].owner = containers[i].owner
                 /\ containers'[i].state = IF i = container[s] THEN state ELSE containers[i].state
           /\ Own(s)' = state
           /\ \A r \in Sandbox \ {s} : Own(r)' = Own(r)
           /\ OwnerInv'
           /\ faults' = faults
<1>1. container[s] \in 1 .. Len(containers)
  BY DEF TypeOK, Own
<1>2. containers' = [containers EXCEPT ![container[s]].state = state]
  BY DEF Becomes
<1> DEFINE changed == [containers[container[s]] EXCEPT !.state = state]
<1>3. containers[container[s]] \in [owner : Sandbox, state : State]
  BY <1>1, ContainersAreTyped
<1>4. changed \in [owner : Sandbox, state : State] /\ changed.state = state
      /\ changed.owner = containers[container[s]].owner
  BY <1>3
<1>5. containers' = [containers EXCEPT ![container[s]] = changed]
  BY <1>2
<1> HIDE DEF changed
<1>6. containers' \in Seq([owner : Sandbox, state : State]) /\ Len(containers') = Len(containers)
  BY <1>1, <1>4, <1>5 DEF TypeOK
<1>7. DOMAIN containers' = DOMAIN containers /\ DOMAIN containers = 1 .. Len(containers)
  BY <1>6 DEF TypeOK
<1>8. \A i \in DOMAIN containers :
         /\ containers'[i].owner = containers[i].owner
         /\ containers'[i].state = IF i = container[s] THEN state ELSE containers[i].state
  BY <1>1, <1>4, <1>5, <1>7 DEF TypeOK
<1>9. \A r \in Sandbox : /\ container'[r] = container[r]
                         /\ container[r] # 0 => container[r] \in DOMAIN containers
  BY <1>7 DEF TypeOK
<1>10. OwnerInv'
  BY <1>8, <1>9 DEF OwnerInv
<1>11. Own(s)' = state
  BY <1>1, <1>7, <1>8, <1>9 DEF Own
<1>12. ASSUME NEW r \in Sandbox \ {s} PROVE Own(r)' = Own(r)
  <2>1. CASE container[r] = 0
    BY <2>1, <1>9 DEF Own
  <2>2. CASE container[r] # 0
    <3>1. container[r] # container[s]
      BY <2>2, <1>1, <1>9 DEF OwnerInv
    <3> QED
      BY <2>2, <3>1, <1>8, <1>9 DEF Own
  <2> QED
    BY <2>1, <2>2
<1> QED
  BY <1>1, <1>6, <1>7, <1>8, <1>10, <1>11, <1>12 DEF Becomes

(* Whatever the container becomes, the thread's answer stays the command's. *)
LEMMA BecomesKeepsHolder ==
    ASSUME TypeOK, HolderInv, NEW s \in Sandbox, NEW state, Becomes(s, state), UNCHANGED issued
    PROVE  /\ command' \in [Sandbox -> {"none", "submitted", "executing", "done", "raised"}]
           /\ answer' \in [Sandbox -> Nat]
           /\ HolderInv'
           /\ \A r \in Sandbox : Finished(r) => Finished(r)'
<1>1. CASE state # "running" /\ command[s] = "executing"
  <2>1. /\ command' = [command EXCEPT ![s] = "done"]
        /\ answer' = [answer EXCEPT ![s] = issued[s]]
    BY <1>1 DEF Becomes
  <2>2. /\ command' \in [Sandbox -> {"none", "submitted", "executing", "done", "raised"}]
        /\ answer' \in [Sandbox -> Nat]
    BY <2>1 DEF TypeOK
  <2>3. HolderInv'
    BY <2>1 DEF TypeOK, HolderInv
  <2> QED
    BY <2>1, <2>2, <2>3 DEF Finished, TypeOK
<1>2. CASE ~(state # "running" /\ command[s] = "executing")
  <2>1. UNCHANGED <<command, answer>>
    BY <1>2 DEF Becomes
  <2> QED
    BY <2>1 DEF TypeOK, HolderInv, Finished
<1> QED
  BY <1>1, <1>2

(* A refused call changes nothing but the number of faults. *)
LEMMA RefusalCounts ==
    ASSUME TypeOK, NEW s \in Sandbox, NEW states, CallFails(s, states)
    PROVE  /\ faults' \in Nat /\ faults' >= faults
           /\ Own(s) \in states \/ faults' > 0
           /\ UNCHANGED <<containers, command, answer>>
BY DEF CallFails, Fault, TypeOK

(* The invariants about thread, container and result after a call, whatever *)
(* the caller does next.                                                    *)
LEMMA CallKeeps ==
    ASSUME IInv, NEW s \in Sandbox, NEW state \in State, NEW states,
           (Own(s) # "removed" /\ Becomes(s, state)) \/ CallFails(s, states),
           UNCHANGED <<policy, container, issued, result>>
    PROVE  /\ containers' \in Seq([owner : Sandbox, state : State])
           /\ Len(containers') = Len(containers)
           /\ command' \in [Sandbox -> {"none", "submitted", "executing", "done", "raised"}]
           /\ answer' \in [Sandbox -> Nat]
           /\ faults' \in Nat /\ faults' >= faults
           /\ OwnerInv' /\ HolderInv' /\ AnswersAreOwn' /\ CleanupIsTruthful'
           /\ \A i \in 1 .. Len(containers) :
                 /\ containers'[i].owner = containers[i].owner
                 /\ containers'[i].state # "removed" => containers[i].state # "removed"
           /\ \A r \in Sandbox \ {s} : Own(r)' = Own(r)
           /\ \/ Own(s) # "removed" /\ Own(s)' = state /\ faults' = faults
              \/ Own(s)' = Own(s) /\ (Own(s) \in states \/ faults' > 0)
<1>1. CASE Own(s) # "removed" /\ Becomes(s, state)
  <2>1. /\ containers' \in Seq([owner : Sandbox, state : State])
        /\ Len(containers') = Len(containers)
        /\ container[s] \in 1 .. Len(containers)
        /\ \A i \in 1 .. Len(containers) :
              /\ containers'[i].owner = containers[i].owner
              /\ containers'[i].state = IF i = container[s] THEN state ELSE containers[i].state
        /\ OwnerInv' /\ faults' = faults /\ Own(s)' = state
        /\ \A r \in Sandbox \ {s} : Own(r)' = Own(r)
    <3>1. TypeOK /\ OwnerInv /\ UNCHANGED container
      BY DEF IInv
    <3>2. DOMAIN containers = 1 .. Len(containers)
      BY <3>1, ContainersAreTyped
    <3>3. /\ containers' \in Seq([owner : Sandbox, state : State])
          /\ Len(containers') = Len(containers)
          /\ container[s] \in DOMAIN containers
          /\ \A i \in DOMAIN containers :
                /\ containers'[i].owner = containers[i].owner
                /\ containers'[i].state = IF i = container[s] THEN state ELSE containers[i].state
          /\ OwnerInv' /\ faults' = faults /\ Own(s)' = state
          /\ \A r \in Sandbox \ {s} : Own(r)' = Own(r)
      BY <1>1, <3>1, BecomesChangesOne
    <3> QED
      BY <3>2, <3>3
  <2>2. /\ command' \in [Sandbox -> {"none", "submitted", "executing", "done", "raised"}]
        /\ answer' \in [Sandbox -> Nat]
        /\ HolderInv'
        /\ \A r \in Sandbox : Finished(r) => Finished(r)'
    BY <1>1, BecomesKeepsHolder DEF IInv
  <2>3. AnswersAreOwn'
    BY DEF IInv, AnswersAreOwn
  <2>4. CleanupIsTruthful'
    <3> SUFFICES ASSUME NEW r \in Sandbox, result[r].kind = "timeout"
                 PROVE  \/ result[r].cleanup = "removed" /\ Own(r)' = "removed" /\ Finished(r)'
                        \/ result[r].cleanup = "failed" /\ (faults' > 0 \/ Own(r)' = "removed")
      BY DEF CleanupIsTruthful
    <3>1. CASE r = s
      BY <3>1, <1>1, <2>1 DEF IInv, CleanupIsTruthful
    <3> QED
      BY <3>1, <2>1, <2>2 DEF IInv, CleanupIsTruthful
  <2>5. containers[container[s]].state # "removed"
    BY <1>1, <2>1 DEF Own
  <2>6. faults' \in Nat /\ faults' >= faults
    BY <2>1 DEF IInv, TypeOK
  <2>7. \A i \in 1 .. Len(containers) :
           containers'[i].state # "removed" => containers[i].state # "removed"
    BY <2>1, <2>5
  <2> QED
    BY <1>1, <2>1, <2>2, <2>3, <2>4, <2>6, <2>7
<1>2. CASE CallFails(s, states)
  <2>1. /\ faults' \in Nat /\ faults' >= faults
        /\ Own(s) \in states \/ faults' > 0
        /\ UNCHANGED <<containers, command, answer>>
    BY <1>2, RefusalCounts DEF IInv
  <2>2. \A r \in Sandbox : Own(r)' = Own(r) /\ Finished(r)' = Finished(r)
    BY <2>1 DEF Own, Finished
  <2>3. OwnerInv' /\ HolderInv' /\ AnswersAreOwn'
    BY <2>1 DEF IInv, OwnerInv, HolderInv, AnswersAreOwn
  <2>4. CleanupIsTruthful'
    BY <2>1, <2>2 DEF IInv, CleanupIsTruthful, TypeOK
  <2>5. /\ containers' \in Seq([owner : Sandbox, state : State])
        /\ command' \in [Sandbox -> {"none", "submitted", "executing", "done", "raised"}]
        /\ answer' \in [Sandbox -> Nat]
    BY <2>1 DEF IInv, TypeOK
  <2> QED
    BY <2>1, <2>2, <2>3, <2>4, <2>5
<1> QED
  BY <1>1, <1>2

----------------------------------------------------------------------------
(* The invariant.                                                          *)

LEMMA InitIsSafe == Init => IInv
<1> SUFFICES ASSUME Init PROVE IInv
  OBVIOUS
<1>1. TypeOK
  <2>1. containers \in Seq([owner : Sandbox, state : State]) /\ Len(containers) = 0
    BY DEF Init
  <2> QED
    BY <2>1 DEF Init, TypeOK, Result, NoResult
<1> QED
  BY <1>1 DEF Init, IInv, OwnerInv, HolderInv, AnswersAreOwn, ContainerInv, ContainerFits,
              CleanupIsTruthful, OnlyFaultsLeaveContainers, Own, NoResult

LEMMA CreateContainerIsSafe ==
    ASSUME IInv, NEW s \in Sandbox, CreateContainer(s)
    PROVE  IInv'
<1> DEFINE new == [owner |-> s, state |-> "created"]
<1> DEFINE n == Len(containers)
<1>1. n \in Nat /\ DOMAIN containers = 1 .. n /\ containers \in Seq([owner : Sandbox, state : State])
  BY DEF IInv, TypeOK
<1>2. new \in [owner : Sandbox, state : State] /\ new.owner = s /\ new.state = "created"
  BY DEF State
<1>3. containers' = Append(containers, new)
  BY DEF CreateContainer
<1> HIDE DEF new
<1>4. /\ containers' \in Seq([owner : Sandbox, state : State]) /\ Len(containers') = n + 1
      /\ DOMAIN containers' = 1 .. n + 1
      /\ containers'[n + 1] = new
      /\ \A i \in 1 .. n : containers'[i] = containers[i]
  BY <1>1, <1>2, <1>3
<1>5. container' = [container EXCEPT ![s] = n + 1]
  BY <1>4 DEF CreateContainer
<1> HIDE DEF n
<1>6. container' \in [Sandbox -> 0 .. n + 1] /\ container'[s] = n + 1
      /\ \A r \in Sandbox \ {s} : container'[r] = container[r]
  BY <1>1, <1>5 DEF IInv, TypeOK, n
<1>7. \A r \in Sandbox : container[r] \in 0 .. n
  BY DEF IInv, TypeOK, n
<1>8. /\ pc[s] = "outside" /\ pc' = [pc EXCEPT ![s] = "starting"]
      /\ result' = [result EXCEPT ![s] = NoResult]
      /\ UNCHANGED <<policy, command, issued, answer, errors, faults>>
  BY DEF CreateContainer, Goto
<1>9. TypeOK'
  BY <1>4, <1>6, <1>8 DEF IInv, TypeOK, Result, NoResult
<1>10. Own(s)' = "created" /\ \A r \in Sandbox \ {s} : Own(r)' = Own(r)
  BY <1>1, <1>2, <1>4, <1>6, <1>7 DEF Own
<1>11. OwnerInv'
  BY <1>1, <1>2, <1>4, <1>6, <1>7 DEF IInv, OwnerInv
<1>12. HolderInv' /\ AnswersAreOwn'
  BY <1>8 DEF IInv, TypeOK, HolderInv, AnswersAreOwn, NoResult
<1>13. ContainerInv'
  BY <1>8, <1>10 DEF IInv, TypeOK, ContainerInv, ContainerFits
<1>14. CleanupIsTruthful'
  BY <1>8, <1>10 DEF IInv, TypeOK, CleanupIsTruthful, Finished, NoResult
<1>15. OnlyFaultsLeaveContainers'
  <2> SUFFICES ASSUME faults = 0, NEW i \in 1 .. n + 1, containers'[i].state # "removed"
               PROVE  /\ pc'[containers'[i].owner] # "outside"
                      /\ container'[containers'[i].owner] = i
    BY <1>4, <1>8 DEF OnlyFaultsLeaveContainers
  <2>1. CASE i = n + 1
    BY <2>1, <1>2, <1>4, <1>6, <1>8 DEF IInv, TypeOK
  <2>2. CASE i \in 1 .. n
    <3>1. containers[i].owner \in Sandbox
      BY <2>2, ContainersAreTyped DEF IInv, n
    <3>2. pc[containers[i].owner] # "outside" /\ container[containers[i].owner] = i
      BY <2>2, <1>1, <1>4 DEF IInv, OnlyFaultsLeaveContainers
    <3> QED
      BY <3>1, <3>2, <2>2, <1>4, <1>6, <1>8 DEF IInv, TypeOK
  <2> QED
    BY <2>1, <2>2, <1>1
<1> QED
  BY <1>9, <1>11, <1>12, <1>13, <1>14, <1>15 DEF IInv

(* A step of the caller that is a call on the container: what is left to be *)
(* shown is where the caller goes with what.                                *)
LEMMA CallIsSafe ==
    ASSUME IInv, NEW s \in Sandbox, NEW state \in State, NEW states,
           (Own(s) # "removed" /\ Becomes(s, state)) \/ CallFails(s, states),
           UNCHANGED <<policy, container, issued, result>>,
           NEW step \in {"outside", "starting", "ready", "waiting", "kill", "remove", "join",
                         "stop", "stop_kill", "discard"},
           Goto(s, step),
           errors' \in [Sandbox -> SUBSET {"kill", "remove"}],
           \A r \in Sandbox \ {s} : errors'[r] = errors[r],
           ContainerFits(s)',
           step # "outside" \/ faults' > 0 \/ Own(s)' = "removed"
    PROVE  IInv'
<1>1. /\ containers' \in Seq([owner : Sandbox, state : State])
      /\ Len(containers') = Len(containers)
      /\ command' \in [Sandbox -> {"none", "submitted", "executing", "done", "raised"}]
      /\ answer' \in [Sandbox -> Nat]
      /\ faults' \in Nat /\ faults' >= faults
      /\ OwnerInv' /\ HolderInv' /\ AnswersAreOwn' /\ CleanupIsTruthful'
      /\ \A i \in 1 .. Len(containers) :
            /\ containers'[i].owner = containers[i].owner
            /\ containers'[i].state # "removed" => containers[i].state # "removed"
      /\ \A r \in Sandbox \ {s} : Own(r)' = Own(r)
  BY CallKeeps
<1>2. /\ pc' \in [Sandbox -> {"outside", "starting", "ready", "waiting", "kill", "remove", "join",
                              "stop", "stop_kill", "discard"}]
      /\ pc'[s] = step
      /\ \A r \in Sandbox \ {s} : pc'[r] = pc[r]
  BY DEF IInv, TypeOK, Goto
<1>3. TypeOK'
  BY <1>1, <1>2 DEF IInv, TypeOK
<1>4. ContainerInv'
  <2> SUFFICES ASSUME NEW r \in Sandbox \ {s} PROVE ContainerFits(r)'
    BY DEF ContainerInv
  <2>1. ContainerFits(r)
    BY DEF IInv, ContainerInv
  <2>2. pc'[r] = pc[r] /\ errors'[r] = errors[r] /\ Own(r)' = Own(r) /\ (faults > 0 => faults' > 0)
    BY <1>1, <1>2 DEF IInv, TypeOK
  <2> QED
    BY <2>1, <2>2 DEF ContainerFits
<1>5. OnlyFaultsLeaveContainers'
  <2> SUFFICES ASSUME faults' = 0, NEW i \in DOMAIN containers', containers'[i].state # "removed"
               PROVE  /\ pc'[containers'[i].owner] # "outside"
                      /\ container'[containers'[i].owner] = i
    BY DEF OnlyFaultsLeaveContainers
  <2>0. i \in 1 .. Len(containers)
    BY <1>1
  <2>1. containers'[i].owner = containers[i].owner /\ containers[i].state # "removed" /\ faults = 0
    <3>1. faults \in Nat
      BY DEF IInv, TypeOK
    <3> QED
      BY <3>1, <2>0, <1>1
  <2>2. pc[containers[i].owner] # "outside" /\ container[containers[i].owner] = i
    BY <2>0, <2>1 DEF IInv, OnlyFaultsLeaveContainers, TypeOK
  <2>3. containers[i].owner \in Sandbox /\ i # 0
    BY <2>0, ContainersAreTyped DEF IInv
  <2>4. CASE containers[i].owner = s
    BY <2>1, <2>2, <2>3, <2>4, <1>2 DEF Own
  <2> QED
    BY <2>1, <2>2, <2>3, <2>4, <1>2
<1> QED
  BY <1>1, <1>3, <1>4, <1>5 DEF IInv

LEMMA StartIsSafe ==
    ASSUME IInv, NEW s \in Sandbox, StartContainer(s) \/ StartFails(s)
    PROVE  IInv'
<1>1. UNCHANGED <<policy, container, issued, errors, result>>
  BY DEF StartContainer, StartFails
<1>2. errors' \in [Sandbox -> SUBSET {"kill", "remove"}]
  BY <1>1 DEF IInv, TypeOK
<1>3. CASE StartContainer(s)
  <2>1. Own(s) # "removed" /\ Becomes(s, "running") /\ Goto(s, "ready") /\ "running" \in State
    BY <1>3 DEF StartContainer, State
  <2>2. Own(s)' = "running"
    BY <2>1, <1>1, BecomesChangesOne DEF IInv
  <2>3. ContainerFits(s)'
    BY <2>1, <2>2 DEF ContainerFits, Goto, IInv, TypeOK
  <2> QED
    BY <1>1, <1>2, <2>1, <2>3, CallIsSafe
<1>4. CASE StartFails(s)
  <2>1. pc[s] = "starting" /\ CallFails(s, {"removed"}) /\ Goto(s, "outside")
    BY <1>4 DEF StartFails
  <2>2. Own(s)' = Own(s) /\ (Own(s) = "removed" \/ faults' > 0)
    BY <2>1, <1>1, RefusalCounts DEF IInv, Own
  <2>3. ContainerFits(s)'
    BY <2>1 DEF ContainerFits, Goto, IInv, TypeOK
  <2> QED
    BY <1>1, <1>2, <2>1, <2>2, <2>3, CallIsSafe DEF State
<1> QED
  BY <1>3, <1>4

(* The clean-up after a timeout. *)
LEMMA TimeoutCleanupIsSafe ==
    ASSUME IInv, NEW s \in Sandbox, Kill(s) \/ ForceRemove(s)
    PROVE  IInv'
<1>1. TypeOK /\ OwnerInv /\ ContainerFits(s)
  BY DEF IInv, ContainerInv
<1>2. UNCHANGED <<policy, container, issued, result>>
  BY DEF Kill, ForceRemove
<1>3. CASE Kill(s)
  <2>1. pc[s] = "kill" /\ Goto(s, "remove")
    BY <1>3 DEF Kill
  <2>2. errors[s] = {} /\ (faults > 0 \/ Own(s) \in {"running", "removed"})
    BY <1>1, <2>1 DEF ContainerFits
  <2>3. CASE Own(s) = "running" /\ Becomes(s, "exited") /\ UNCHANGED errors
    <3>1. errors' \in [Sandbox -> SUBSET {"kill", "remove"}] /\ pc'[s] = "remove" /\ errors'[s] = {}
      BY <1>1, <2>1, <2>2, <2>3 DEF TypeOK, Goto
    <3>2. ContainerFits(s)'
      BY <3>1 DEF ContainerFits
    <3> QED
      BY <1>2, <2>1, <2>3, <3>1, <3>2, CallIsSafe DEF State
  <2>4. CASE /\ CallFails(s, {"created", "exited", "removed"})
             /\ errors' = [errors EXCEPT ![s] = @ \union {"kill"}]
    <3>1. errors' \in [Sandbox -> SUBSET {"kill", "remove"}] /\ pc'[s] = "remove"
          /\ errors'[s] = {"kill"} /\ \A r \in Sandbox \ {s} : errors'[r] = errors[r]
      BY <1>1, <2>1, <2>2, <2>4 DEF TypeOK, Goto
    <3>2. /\ faults' \in Nat /\ faults' >= faults
          /\ Own(s) \in {"created", "exited", "removed"} \/ faults' > 0
          /\ UNCHANGED containers
      BY <1>1, <2>4, RefusalCounts
    <3>3. Own(s)' = Own(s)
      BY <1>2, <3>2 DEF Own
    <3>4. faults' > 0 \/ Own(s)' = "removed"
      BY <1>1, <2>2, <3>2, <3>3 DEF TypeOK
    <3>5. ContainerFits(s)'
      BY <3>1, <3>4 DEF ContainerFits
    <3> QED
      BY <1>2, <2>1, <2>4, <3>1, <3>5, CallIsSafe DEF State
  <2> QED
    BY <1>3, <2>3, <2>4 DEF Kill
<1>4. CASE ForceRemove(s)
  <2>1. pc[s] = "remove" /\ Goto(s, "join")
    BY <1>4 DEF ForceRemove
  <2>2. errors[s] # {} => faults > 0 \/ Own(s) = "removed"
    BY <1>1, <2>1 DEF ContainerFits
  <2>3. CASE Own(s) # "removed" /\ Becomes(s, "removed") /\ UNCHANGED errors
    <3>1. errors' \in [Sandbox -> SUBSET {"kill", "remove"}] /\ pc'[s] = "join"
      BY <1>1, <2>1, <2>3 DEF TypeOK, Goto
    <3>2. Own(s)' = "removed"
      BY <1>1, <1>2, <2>3, BecomesChangesOne DEF State
    <3>3. ContainerFits(s)'
      BY <3>1, <3>2 DEF ContainerFits
    <3> QED
      BY <1>2, <2>1, <2>3, <3>1, <3>3, CallIsSafe DEF State
  <2>4. CASE /\ CallFails(s, {"removed"})
             /\ errors' = [errors EXCEPT ![s] = @ \union {"remove"}]
    <3>1. errors' \in [Sandbox -> SUBSET {"kill", "remove"}] /\ pc'[s] = "join"
          /\ errors'[s] # {} /\ \A r \in Sandbox \ {s} : errors'[r] = errors[r]
      BY <1>1, <2>1, <2>4 DEF TypeOK, Goto
    <3>2. /\ Own(s) \in {"removed"} \/ faults' > 0
          /\ UNCHANGED containers
      BY <1>1, <2>4, RefusalCounts
    <3>3. Own(s)' = Own(s)
      BY <1>2, <3>2 DEF Own
    <3>4. ContainerFits(s)'
      BY <3>1, <3>2, <3>3 DEF ContainerFits
    <3> QED
      BY <1>2, <2>1, <2>4, <3>1, <3>4, CallIsSafe DEF State
  <2> QED
    BY <1>4, <2>3, <2>4 DEF ForceRemove
<1> QED
  BY <1>3, <1>4

(* The calls of __exit__. *)
LEMMA LeavingIsSafe ==
    ASSUME IInv, NEW s \in Sandbox, StopContainer(s) \/ KillContainer(s) \/ RemoveContainer(s)
    PROVE  IInv'
<1>1. TypeOK /\ OwnerInv
  BY DEF IInv
<1>2. UNCHANGED <<policy, container, issued, errors, result>>
  BY DEF StopContainer, KillContainer, RemoveContainer
<1>3. errors' \in [Sandbox -> SUBSET {"kill", "remove"}]
  BY <1>1, <1>2 DEF TypeOK
<1>4. ASSUME NEW step \in {"outside", "stop_kill", "discard"}, Goto(s, step)
      PROVE  ContainerFits(s)'
  <2>1. pc'[s] = step
    BY <1>1, <1>4 DEF Goto, TypeOK
  <2> QED
    BY <2>1 DEF ContainerFits
<1>5. CASE StopContainer(s)
  <2>1. CASE /\ Own(s) # "removed" /\ Goto(s, "discard")
             /\ Becomes(s, IF Own(s) = "running" THEN "exited" ELSE Own(s))
    <3>1. (IF Own(s) = "running" THEN "exited" ELSE Own(s)) \in State
      BY <1>1, ContainersAreTyped DEF Own, State, TypeOK
    <3> QED
      BY <1>2, <1>3, <1>4, <2>1, <3>1, CallIsSafe
  <2>2. CASE CallFails(s, {"removed"}) /\ Goto(s, "stop_kill")
    BY <1>2, <1>3, <1>4, <2>2, CallIsSafe DEF State
  <2> QED
    BY <1>5, <2>1, <2>2 DEF StopContainer
<1>6. CASE KillContainer(s)
  <2>1. Goto(s, "discard") /\ \/ Own(s) # "removed" /\ Becomes(s, "exited")
                              \/ CallFails(s, {"created", "exited", "removed"})
    BY <1>6 DEF KillContainer
  <2> QED
    BY <1>2, <1>3, <1>4, <2>1, CallIsSafe DEF State
<1>7. CASE RemoveContainer(s)
  <2>1. Goto(s, "outside")
    BY <1>7 DEF RemoveContainer
  <2>2. CASE Own(s) # "removed" /\ Becomes(s, "removed")
    <3>1. Own(s)' = "removed"
      BY <1>1, <1>2, <2>2, BecomesChangesOne DEF State
    <3> QED
      BY <1>2, <1>3, <1>4, <2>1, <2>2, <3>1, CallIsSafe DEF State
  <2>3. CASE CallFails(s, {"removed"})
    <3>1. Own(s)' = Own(s) /\ (Own(s) = "removed" \/ faults' > 0)
      BY <1>1, <1>2, <2>3, RefusalCounts DEF Own
    <3> QED
      BY <1>2, <1>3, <1>4, <2>1, <2>3, <3>1, CallIsSafe DEF State
  <2> QED
    BY <1>7, <2>2, <2>3 DEF RemoveContainer
<1> QED
  BY <1>5, <1>6, <1>7

(* A step that leaves the containers alone: what is left to be shown is     *)
(* about thread and result, and where the caller goes.                      *)
LEMMA QuietIsSafe ==
    ASSUME IInv, NEW s \in Sandbox,
           UNCHANGED <<containers, container>>, faults' >= faults,
           TypeOK', HolderInv', AnswersAreOwn',
           \A r \in Sandbox \ {s} : /\ pc'[r] = pc[r] /\ errors'[r] = errors[r]
                                    /\ result'[r] = result[r] /\ command'[r] = command[r],
           ContainerFits(s)',
           \/ result'[s] = result[s] /\ (Finished(s) => Finished(s)')
           \/ result'[s].kind # "timeout"
           \/ result'[s].cleanup = "removed" /\ Own(s) = "removed" /\ Finished(s)'
           \/ result'[s].cleanup = "failed" /\ (faults > 0 \/ Own(s) = "removed"),
           pc[s] # "outside" => pc'[s] # "outside" \/ faults' > 0
    PROVE  IInv'
<1>1. faults \in Nat /\ faults' \in Nat
  BY DEF IInv, TypeOK
<1>2. \A r \in Sandbox : Own(r)' = Own(r)
  BY DEF Own
<1>3. OwnerInv'
  BY DEF IInv, OwnerInv
<1>4. ContainerInv'
  <2> SUFFICES ASSUME NEW r \in Sandbox \ {s} PROVE ContainerFits(r)'
    BY DEF ContainerInv
  <2>1. ContainerFits(r)
    BY DEF IInv, ContainerInv
  <2> QED
    BY <1>1, <1>2, <2>1 DEF ContainerFits
<1>5. CleanupIsTruthful'
  <2> SUFFICES ASSUME NEW r \in Sandbox, result'[r].kind = "timeout"
               PROVE  \/ result'[r].cleanup = "removed" /\ Own(r)' = "removed" /\ Finished(r)'
                      \/ result'[r].cleanup = "failed" /\ (faults' > 0 \/ Own(r)' = "removed")
    BY DEF CleanupIsTruthful
  <2>1. result[r].kind = "timeout" =>
           \/ result[r].cleanup = "removed" /\ Own(r) = "removed" /\ Finished(r)
           \/ result[r].cleanup = "failed" /\ (faults > 0 \/ Own(r) = "removed")
    BY DEF IInv, CleanupIsTruthful
  <2>2. CASE r = s
    BY <1>1, <1>2, <2>1, <2>2
  <2>3. CASE r # s
    BY <1>1, <1>2, <2>1, <2>3 DEF Finished
  <2> QED
    BY <2>2, <2>3
<1>6. OnlyFaultsLeaveContainers'
  <2> SUFFICES ASSUME faults' = 0, NEW i \in DOMAIN containers, containers[i].state # "removed"
               PROVE  /\ pc'[containers[i].owner] # "outside"
                      /\ container[containers[i].owner] = i
    BY DEF OnlyFaultsLeaveContainers
  <2>1. pc[containers[i].owner] # "outside" /\ container[containers[i].owner] = i
    BY <1>1 DEF IInv, OnlyFaultsLeaveContainers
  <2>2. containers[i].owner \in Sandbox
    BY ContainersAreTyped DEF IInv
  <2> QED
    BY <2>1, <2>2
<1> QED
  BY <1>3, <1>4, <1>5, <1>6 DEF IInv

(* A command is submitted, taken up by the thread, and ends. *)
LEMMA CommandIsSafe ==
    ASSUME IInv, NEW s \in Sandbox, Submit(s) \/ ExecRun(s) \/ CommandEnds(s)
    PROVE  IInv'
<1>1. TypeOK /\ ContainerFits(s)
  BY DEF IInv, ContainerInv
<1>2. UNCHANGED <<containers, policy, container>>
  BY DEF Submit, ExecRun, CommandEnds
<1>3. CASE Submit(s)
  <2>1. /\ pc[s] = "ready" /\ pc' = [pc EXCEPT ![s] = "waiting"]
        /\ command' = [command EXCEPT ![s] = "submitted"]
        /\ issued' = [issued EXCEPT ![s] = @ + 1]
        /\ answer' = [answer EXCEPT ![s] = 0]
        /\ errors' = [errors EXCEPT ![s] = {}]
        /\ result' = [result EXCEPT ![s] = NoResult]
        /\ faults' = faults
    BY <1>3 DEF Submit, Goto
  <2>2. TypeOK'
    BY <1>1, <1>2, <2>1 DEF TypeOK, Result, NoResult
  <2>3. HolderInv' /\ AnswersAreOwn'
    BY <1>1, <2>1 DEF IInv, TypeOK, HolderInv, AnswersAreOwn, NoResult
  <2>4. ContainerFits(s)'
    BY <1>1, <1>2, <2>1 DEF TypeOK, ContainerFits, Own
  <2>5. result'[s].kind # "timeout" /\ pc'[s] # "outside"
    BY <1>1, <2>1 DEF TypeOK, NoResult
  <2>6. /\ \A r \in Sandbox \ {s} : /\ pc'[r] = pc[r] /\ errors'[r] = errors[r]
                                    /\ result'[r] = result[r] /\ command'[r] = command[r]
        /\ faults' >= faults
    BY <1>1, <2>1 DEF TypeOK
  <2> QED
    BY <1>2, <2>2, <2>3, <2>4, <2>5, <2>6, QuietIsSafe
<1>4. CASE ExecRun(s)
  <2>1. /\ command[s] = "submitted"
        /\ UNCHANGED <<pc, issued, answer, errors, result>>
        /\ \/ command' = [command EXCEPT ![s] = "executing"]
           \/ command' = [command EXCEPT ![s] = "raised"]
        /\ faults' \in Nat /\ faults' >= faults
    BY <1>1, <1>4 DEF ExecRun, Fault, TypeOK
  <2>2. TypeOK'
    BY <1>1, <1>2, <2>1 DEF TypeOK
  <2>3. HolderInv' /\ AnswersAreOwn'
    BY <1>1, <2>1 DEF IInv, TypeOK, HolderInv, AnswersAreOwn
  <2>4. ContainerFits(s)'
    BY <1>1, <1>2, <2>1 DEF TypeOK, ContainerFits, Own
  <2>5. result'[s] = result[s] /\ ~Finished(s) /\ pc'[s] = pc[s]
    BY <2>1 DEF Finished
  <2>6. \A r \in Sandbox \ {s} : command'[r] = command[r]
    BY <1>1, <2>1 DEF TypeOK
  <2> QED
    BY <1>2, <2>1, <2>2, <2>3, <2>4, <2>5, <2>6, QuietIsSafe
<1>5. CASE CommandEnds(s)
  <2>1. /\ command[s] = "executing"
        /\ UNCHANGED <<pc, issued, errors, result, faults>>
        /\ command' = [command EXCEPT ![s] = "done"]
        /\ answer' = [answer EXCEPT ![s] = issued[s]]
    BY <1>5 DEF CommandEnds
  <2>2. TypeOK'
    BY <1>1, <1>2, <2>1 DEF TypeOK
  <2>3. HolderInv' /\ AnswersAreOwn'
    BY <1>1, <2>1 DEF IInv, TypeOK, HolderInv, AnswersAreOwn
  <2>4. ContainerFits(s)'
    BY <1>1, <1>2, <2>1 DEF ContainerFits, Own
  <2>5. result'[s] = result[s] /\ ~Finished(s) /\ pc'[s] = pc[s]
    BY <2>1 DEF Finished
  <2>6. (\A r \in Sandbox \ {s} : command'[r] = command[r]) /\ faults' >= faults
    BY <1>1, <2>1 DEF TypeOK
  <2> QED
    BY <1>2, <2>1, <2>2, <2>3, <2>4, <2>5, <2>6, QuietIsSafe
<1> QED
  BY <1>3, <1>4, <1>5

(* A call of exec_for_task returns: an output or an error of its own        *)
(* command, or, after the clean-up, a timeout.                              *)
LEMMA ResultIsSafe ==
    ASSUME IInv, NEW s \in Sandbox, Collect(s) \/ Join(s)
    PROVE  IInv'
<1>1. TypeOK /\ ContainerFits(s) /\ HolderInv
  BY DEF IInv, ContainerInv
<1>2. /\ UNCHANGED <<containers, policy, container, command, issued, answer, errors, faults>>
      /\ pc' = [pc EXCEPT ![s] = "ready"]
      /\ Finished(s)
  BY DEF Collect, Join, Goto
<1>3. HolderInv' /\ faults' >= faults /\ Finished(s)' /\ pc'[s] = "ready"
      /\ issued[s] \in Nat /\ answer[s] \in Nat
  BY <1>1, <1>2 DEF HolderInv, Finished, TypeOK
<1>4. ASSUME NEW new \in Result, result' = [result EXCEPT ![s] = new],
             /\ new.kind \in {"output", "timeout"} => new.command = issued[s]
             /\ new.kind = "error" => new.command = 0,
             \/ new.kind # "timeout"
             \/ new.cleanup = "removed" /\ Own(s) = "removed"
             \/ new.cleanup = "failed" /\ (faults > 0 \/ Own(s) = "removed"),
             faults > 0 \/ Own(s) \in {"running", "removed"}
      PROVE  IInv'
  <2>1. TypeOK' /\ result'[s] = new
    BY <1>1, <1>2, <1>4 DEF TypeOK
  <2>2. /\ \A r \in Sandbox \ {s} : /\ pc'[r] = pc[r] /\ errors'[r] = errors[r]
                                    /\ result'[r] = result[r] /\ command'[r] = command[r]
    BY <1>1, <1>2, <1>4 DEF TypeOK
  <2>3. AnswersAreOwn'
    BY <1>2, <1>4, <2>1, <2>2 DEF IInv, AnswersAreOwn
  <2>4. ContainerFits(s)'
    BY <1>2, <1>3, <1>4 DEF ContainerFits, Own
  <2> QED
    BY <1>2, <1>3, <1>4, <2>1, <2>2, <2>3, <2>4, QuietIsSafe
<1>5. CASE Collect(s)
  <2> DEFINE new == [kind |-> IF command[s] = "raised" THEN "error" ELSE "output",
                     command |-> answer[s], cleanup |-> "not_needed"]
  <2>1. pc[s] = "waiting" /\ result' = [result EXCEPT ![s] = new]
    BY <1>5 DEF Collect
  <2>2. new \in Result /\ new.kind # "timeout"
    BY <1>3 DEF Result
  <2>3. /\ new.kind \in {"output", "timeout"} => new.command = issued[s]
        /\ new.kind = "error" => new.command = 0
    BY <1>1, <1>2 DEF HolderInv, Finished
  <2>4. faults > 0 \/ Own(s) \in {"running", "removed"}
    BY <1>1, <2>1 DEF ContainerFits
  <2> HIDE DEF new
  <2> QED
    BY <1>4, <2>1, <2>2, <2>3, <2>4
<1>6. CASE Join(s)
  <2> DEFINE new == [kind |-> "timeout", command |-> issued[s], cleanup |-> CleanupStatus(s)]
  <2>1. pc[s] = "join" /\ result' = [result EXCEPT ![s] = new]
    BY <1>6 DEF Join
  <2>2. new \in Result /\ new.kind = "timeout" /\ new.command = issued[s]
        /\ new.cleanup = CleanupStatus(s)
    BY <1>3 DEF Result, CleanupStatus
  <2>3. /\ errors[s] # {} => faults > 0 \/ Own(s) = "removed"
        /\ errors[s] = {} => Own(s) = "removed"
    BY <1>1, <2>1 DEF ContainerFits
  <2>4. \/ new.cleanup = "removed" /\ Own(s) = "removed"
        \/ new.cleanup = "failed" /\ (faults > 0 \/ Own(s) = "removed")
    BY <2>2, <2>3 DEF CleanupStatus
  <2> HIDE DEF new
  <2> QED
    BY <1>4, <2>1, <2>2, <2>3, <2>4
<1> QED
  BY <1>5, <1>6

(* The other steps of the caller. *)
LEMMA CallerIsSafe ==
    ASSUME IInv, NEW s \in Sandbox, TimeOut(s) \/ Leave(s) \/ CleanupFails(s)
    PROVE  IInv'
<1>1. TypeOK /\ ContainerFits(s)
  BY DEF IInv, ContainerInv
<1>2. /\ UNCHANGED <<containers, policy, container, command, issued, answer, errors, result>>
      /\ faults' \in Nat /\ faults' >= faults
  BY <1>1 DEF TimeOut, Leave, CleanupFails, Fault, TypeOK
<1>3. PICK step \in {"kill", "stop", "outside"} :
         /\ pc' = [pc EXCEPT ![s] = step]
         /\ step = "kill" => pc[s] = "waiting"
         /\ step = "outside" => faults' > 0
  BY <1>1 DEF TimeOut, Leave, CleanupFails, Fault, Goto, TypeOK
<1>4. pc'[s] = step /\ \A r \in Sandbox \ {s} : pc'[r] = pc[r]
  BY <1>1, <1>3 DEF TypeOK
<1>5. TypeOK'
  BY <1>1, <1>2, <1>3 DEF TypeOK
<1>6. HolderInv' /\ AnswersAreOwn'
  BY <1>2 DEF IInv, HolderInv, AnswersAreOwn
<1>7. ContainerFits(s)'
  BY <1>1, <1>2, <1>3, <1>4 DEF ContainerFits, Own, TypeOK
<1>8. Finished(s) => Finished(s)'
  BY <1>2 DEF Finished
<1> QED
  BY <1>2, <1>3, <1>4, <1>5, <1>6, <1>7, <1>8, QuietIsSafe

LEMMA NextIsSafe == IInv /\ [Next]_vars => IInv'
<1>1. ASSUME IInv, Next PROVE IInv'
  <2>1. PICK s \in Sandbox :
           Advance(s) \/ CreateContainer(s) \/ Submit(s) \/ CommandEnds(s) \/ Leave(s)
    BY <1>1 DEF Next
  <2>2. CASE StartContainer(s) \/ StartFails(s)
    BY <1>1, <2>2, StartIsSafe
  <2>3. CASE Kill(s) \/ ForceRemove(s)
    BY <1>1, <2>3, TimeoutCleanupIsSafe
  <2>4. CASE StopContainer(s) \/ KillContainer(s) \/ RemoveContainer(s)
    BY <1>1, <2>4, LeavingIsSafe
  <2>5. CASE Submit(s) \/ ExecRun(s) \/ CommandEnds(s)
    BY <1>1, <2>5, CommandIsSafe
  <2>6. CASE Collect(s) \/ Join(s)
    BY <1>1, <2>6, ResultIsSafe
  <2>7. CASE TimeOut(s) \/ Leave(s) \/ CleanupFails(s)
    BY <1>1, <2>7, CallerIsSafe
  <2>8. CASE CreateContainer(s)
    BY <1>1, <2>8, CreateContainerIsSafe
  <2> QED
    BY <2>1, <2>2, <2>3, <2>4, <2>5, <2>6, <2>7, <2>8 DEF Advance
<1>2. ASSUME IInv, UNCHANGED vars PROVE IInv'
  <2>1. UNCHANGED <<containers, policy, container, pc, command, issued, answer, errors, result, faults>>
    BY <1>2 DEF vars
  <2>2. \A s \in Sandbox : Own(s)' = Own(s) /\ Finished(s)' = Finished(s)
    BY <2>1 DEF Own, Finished
  <2>3. TypeOK' /\ OwnerInv' /\ HolderInv' /\ AnswersAreOwn'
    BY <1>2, <2>1 DEF IInv, TypeOK, OwnerInv, HolderInv, AnswersAreOwn
  <2>4. ContainerInv' /\ CleanupIsTruthful' /\ OnlyFaultsLeaveContainers'
    BY <1>2, <2>1, <2>2 DEF IInv, ContainerInv, ContainerFits, CleanupIsTruthful,
                           OnlyFaultsLeaveContainers
  <2> QED
    BY <2>3, <2>4 DEF IInv
<1> QED
  BY <1>1, <1>2

LEMMA AlwaysSafe == Spec => []IInv
  BY InitIsSafe, NextIsSafe, PTL DEF Spec

----------------------------------------------------------------------------
(* The theorems.                                                           *)

(* Every variable of the sandboxes keeps its type. *)
THEOREM TypeCorrect == Spec => []TypeOK
<1>1. IInv => TypeOK
  BY DEF IInv
<1> QED
  BY <1>1, AlwaysSafe, PTL

(* exec_for_task answers for the command it was called with, however many   *)
(* timeouts and late answers came before (worker_sandbox.py:301-318).       *)
THEOREM AnswersAreTheCommands == Spec => []AnswersAreOwn
<1>1. IInv => AnswersAreOwn
  BY DEF IInv
<1> QED
  BY <1>1, AlwaysSafe, PTL

(* What a timeout reports of its clean-up is what was done                  *)
(* (worker_sandbox.py:366-391).                                             *)
THEOREM CleanupIsReported == Spec => []CleanupIsTruthful
<1>1. IInv => CleanupIsTruthful
  BY DEF IInv
<1> QED
  BY <1>1, AlwaysSafe, PTL

(* Without a fault of the daemon no container outlives its block, for any   *)
(* number of sandboxes that share their workers' names                      *)
(* (worker_sandbox.py:431-447).                                             *)
THEOREM NothingIsLeftBehind == Spec => []OnlyFaultsLeaveContainers
<1>1. IInv => OnlyFaultsLeaveContainers
  BY DEF IInv
<1> QED
  BY <1>1, AlwaysSafe, PTL

----------------------------------------------------------------------------
(* TaskScheduler: numbers and sequences.                                   *)

(* Induction over the natural numbers for a set.  If n were missing, adding *)
(* one would map the numbers of P up to n into those of them that are not   *)
(* 0, and no two to the same one.                                           *)
LEMMA InductionOverNat ==
    ASSUME NEW P, 0 \in P, \A n \in Nat : n \in P => n + 1 \in P
    PROVE  Nat \subseteq P
<1> SUFFICES ASSUME NEW n \in Nat, n \notin P
             PROVE  FALSE
  OBVIOUS
<1> DEFINE A == P \cap (0 .. n)
           B == A \ {0}
           next == [x \in A |-> x + 1]
<1>1. IsFiniteSet(A)
  <2>1. IsFiniteSet(0 .. n)
    BY ONLY FS_Interval, n \in Nat
  <2>2. A \in SUBSET (0 .. n)
    OBVIOUS
  <2> HIDE DEF A
  <2> QED  BY ONLY <2>1, <2>2, FS_Subset
<1>2. Cardinality(A) \in Nat /\ 0 \in A
  BY <1>1, FS_CardinalityType
<1>3. next \in [A -> B]
  OBVIOUS
<1>4. \A x, y \in A : next[x] = next[y] => x = y
  OBVIOUS
<1>5. IsFiniteSet(B) /\ Cardinality(B) = Cardinality(A) - 1
  <2> HIDE DEF A
  <2> QED  BY ONLY <1>1, <1>2, FS_RemoveElement
<1> HIDE DEF A, B, next
<1> QED  BY <1>1, <1>2, <1>3, <1>4, <1>5, FS_PigeonHole

(* A set of numbers that is not empty has a least one. *)
LEMMA LeastNumber ==
    ASSUME NEW S \in SUBSET Nat, S # {}
    PROVE  \E n \in S : \A m \in S : n <= m
<1> SUFFICES ASSUME \A n \in S : \E m \in S : m < n
             PROVE  FALSE
  OBVIOUS
<1> DEFINE P == {n \in Nat : \A m \in S : m >= n}
<1>1. 0 \in P
  OBVIOUS
<1>2. \A n \in Nat : n \in P => n + 1 \in P
  OBVIOUS
<1>3. Nat \subseteq P
  <2> HIDE DEF P
  <2> QED  BY ONLY <1>1, <1>2, InductionOverNat
<1>4. PICK n \in S : TRUE
  OBVIOUS
<1> QED  BY <1>3, <1>4, n + 1 \in P

(* RemoveFirst takes out one entry, and the entries behind it move up.      *)
LEMMA RemoveFirstFacts ==
    ASSUME NEW S, NEW s \in Seq(S), NEW e, \E i \in 1 .. Len(s) : s[i] = e
    PROVE  \E k \in 1 .. Len(s) :
              /\ s[k] = e
              /\ RemoveFirst(s, e) \in Seq(S)
              /\ Len(RemoveFirst(s, e)) = Len(s) - 1
              /\ \A i \in 1 .. Len(s) - 1 :
                    RemoveFirst(s, e)[i] = IF i < k THEN s[i] ELSE s[i + 1]
<1> DEFINE I == {i \in 1 .. Len(s) : s[i] = e}
           k == Min(I)
<1>1. RemoveFirst(s, e) = RemoveAt(s, k)
  BY DEF RemoveFirst, SelectInSeq
<1>2. Len(s) \in Nat /\ \A i \in 1 .. Len(s) : s[i] \in S
  BY LenProperties, ElementOfSeq
<1>3. k \in 1 .. Len(s) /\ s[k] = e
  <2>1. I \in SUBSET Nat /\ I # {}
    BY <1>2
  <2>2. \E n \in I : \A m \in I : n <= m
    BY <2>1, LeastNumber
  <2> QED
    BY <2>2 DEF Min
<1> HIDE DEF k
<1> DEFINE a == SubSeq(s, 1, k - 1)
           b == SubSeq(s, k + 1, Len(s))
<1>4. /\ a \in Seq(S) /\ Len(a) = k - 1
      /\ \A i \in 1 .. k - 1 : a[i] = s[i]
  BY <1>2, <1>3, SubSeqProperties, 1 \in Int, k - 1 \in Int, 1 .. k - 1 \subseteq 1 .. Len(s)
<1>5. /\ b \in Seq(S) /\ Len(b) = Len(s) - k
      /\ \A i \in 1 .. Len(s) - k : b[i] = s[k + i]
  BY <1>2, <1>3, SubSeqProperties
<1> HIDE DEF a, b
<1>6. /\ a \o b \in Seq(S)
      /\ Len(a \o b) = Len(s) - 1
      /\ \A i \in 1 .. Len(s) - 1 : (a \o b)[i] = IF i < k THEN s[i] ELSE s[i + 1]
  <2>1. /\ a \o b \in Seq(S)
        /\ Len(a \o b) = Len(a) + Len(b)
        /\ \A i \in 1 .. Len(a) + Len(b) : (a \o b)[i] = IF i <= Len(a) THEN a[i] ELSE b[i - Len(a)]
    BY <1>4, <1>5, ConcatProperties
  <2>2. Len(a) + Len(b) = Len(s) - 1
    BY <1>2, <1>3, <1>4, <1>5
  <2>3. ASSUME NEW i \in 1 .. Len(s) - 1
        PROVE  (a \o b)[i] = IF i < k THEN s[i] ELSE s[i + 1]
    <3>1. CASE i < k
      BY <3>1, <2>1, <2>2, <1>2, <1>3, <1>4
    <3>2. CASE ~(i < k)
      <4>1. PICK j \in 1 .. Len(s) - k : j = i - (k - 1)
        BY <3>2, <1>2, <1>3
      <4>2. (a \o b)[i] = b[j]
        BY <4>1, <3>2, <2>1, <2>2, <1>2, <1>3, <1>4
      <4>3. b[j] = s[k + j] /\ k + j = i + 1
        BY <4>1, <1>2, <1>3, <1>5
      <4> QED
        BY <4>2, <4>3, <3>2
    <3> QED BY <3>1, <3>2
  <2> QED BY <2>1, <2>2, <2>3
<1>7. RemoveAt(s, k) = a \o b
  BY DEF RemoveAt, a, b
<1> QED  BY <1>1, <1>3, <1>6, <1>7

----------------------------------------------------------------------------
(* TaskScheduler: the inductive invariant.                                 *)

(* The innermost call alone may be between two executions, and what the     *)
(* others have in execution is running, each task once, for one of the     *)
(* results still allowed.                                                  *)
FrameInv ==
    /\ \A i \in DOMAIN frames : frames[i].task = None => i = Len(frames)
    /\ \A i \in DOMAIN frames : frames[i].task # None => status[frames[i].task] = "running"
    /\ \A i, j \in DOMAIN frames :
           frames[i].task # None /\ frames[i].task = frames[j].task => i = j
    /\ \A i \in DOMAIN frames : frames[i].task # None => frames[i].left # 0

QueueInv ==
    /\ \A i \in DOMAIN queue : status[queue[i]] = "scheduled"
    /\ \A t \in Task : status[t] = "scheduled" => \E i \in DOMAIN queue : queue[i] = t
    /\ \A i, j \in DOMAIN queue : queue[i] = queue[j] => i = j

(* The tasks scheduled so far, which number the next one.                   *)
Known == {t \in Task : status[t] # "absent"}

(* Behind another entry comes one that was scheduled later or refused.      *)
OrderInv ==
    /\ IsFiniteSet(Known)
    /\ \A t \in Known : arrival[t] < Cardinality(Known)
    /\ \A i, j \in DOMAIN queue : i < j => \/ arrival[queue[i]] < arrival[queue[j]]
                                           \/ queue[j] \in refused

AllocationInv ==
    /\ \A t \in Task : allocations[t] = IF status[t] = "running" THEN resources[t] ELSE None
    /\ IsFiniteSet(Units)
    /\ Allocated <= Capacity

SchedulingInv == SchedulingTypeOK /\ FrameInv /\ QueueInv /\ OrderInv /\ AllocationInv

----------------------------------------------------------------------------
(* The queue and the allocations. *)

(* Of the entries without t's, each other one is there, once and in order.  *)
LEMMA WithoutEntry ==
    ASSUME SchedulingTypeOK, QueueInv, OrderInv, NEW t \in Task,
           status[t] = "scheduled"
    PROVE  LET rest == Popped(t)
           IN  /\ rest \in Seq(Task)
               /\ \A i \in DOMAIN rest : rest[i] # t /\ status[rest[i]] = "scheduled"
               /\ \A u \in Task : status[u] = "scheduled" /\ u # t =>
                      \E i \in DOMAIN rest : rest[i] = u
               /\ \A i, j \in DOMAIN rest : rest[i] = rest[j] => i = j
               /\ \A i, j \in DOMAIN rest : i < j =>
                      arrival[rest[i]] < arrival[rest[j]] \/ rest[j] \in refused
<1> DEFINE rest == Popped(t)
<1>1. queue \in Seq(Task) /\ Len(queue) \in Nat /\ DOMAIN queue = 1 .. Len(queue)
  BY LenProperties DEF SchedulingTypeOK
<1>2. \E i \in 1 .. Len(queue) : queue[i] = t
  BY <1>1 DEF QueueInv
<1>3. PICK k \in 1 .. Len(queue) :
          /\ queue[k] = t
          /\ rest \in Seq(Task)
          /\ Len(rest) = Len(queue) - 1
          /\ \A i \in 1 .. Len(queue) - 1 :
                 rest[i] = IF i < k THEN queue[i] ELSE queue[i + 1]
  <2>1. rest = RemoveFirst(queue, t)
    BY DEF Popped
  <2> HIDE DEF rest
  <2>2. PICK k \in 1 .. Len(queue) :
            /\ queue[k] = t
            /\ RemoveFirst(queue, t) \in Seq(Task)
            /\ Len(RemoveFirst(queue, t)) = Len(queue) - 1
            /\ \A i \in 1 .. Len(queue) - 1 :
                  RemoveFirst(queue, t)[i] = IF i < k THEN queue[i] ELSE queue[i + 1]
    BY ONLY <1>1, <1>2, RemoveFirstFacts
  <2> QED
    BY <2>1, <2>2
<1> HIDE DEF rest
<1>4. DOMAIN rest = 1 .. Len(queue) - 1
  BY <1>1, <1>3, LenProperties
<1> DEFINE at(i) == IF i < k THEN i ELSE i + 1
<1>5. \A i \in DOMAIN rest : /\ at(i) \in DOMAIN queue \ {k}
                             /\ rest[i] = queue[at(i)]
  BY <1>1, <1>3, <1>4
<1>6. \A i, j \in DOMAIN rest : (at(i) = at(j) => i = j) /\ (i < j => at(i) < at(j))
  BY <1>1, <1>3, <1>4
<1>7. \A j \in DOMAIN queue \ {k} : \E i \in DOMAIN rest : at(i) = j
  <2> SUFFICES ASSUME NEW j \in DOMAIN queue \ {k}
               PROVE  \E i \in DOMAIN rest : at(i) = j
    OBVIOUS
  <2>1. CASE j < k
    BY <2>1, <1>1, <1>3, <1>4
  <2>2. CASE j > k
    <3>1. j - 1 \in DOMAIN rest /\ at(j - 1) = j
      BY <2>2, <1>1, <1>3, <1>4
    <3> QED
      BY <3>1
  <2> QED
    BY <2>1, <2>2, <1>1, <1>3
<1> HIDE DEF at
<1>8. \A i \in DOMAIN rest : rest[i] # t /\ status[rest[i]] = "scheduled"
  <2>1. k \in DOMAIN queue /\ queue[k] = t
    BY <1>1, <1>3
  <2> QED
    BY <2>1, <1>5 DEF QueueInv
<1>9. ASSUME NEW u \in Task, status[u] = "scheduled", u # t
      PROVE  \E i \in DOMAIN rest : rest[i] = u
  <2>1. PICK j \in DOMAIN queue : queue[j] = u
    BY <1>9 DEF QueueInv
  <2>2. j # k
    BY <2>1, <1>3, <1>9
  <2> QED
    BY <2>1, <2>2, <1>5, <1>7
<1>10. \A i, j \in DOMAIN rest : rest[i] = rest[j] => i = j
  BY <1>5, <1>6 DEF QueueInv
<1>11. \A i, j \in DOMAIN rest : i < j =>
           arrival[rest[i]] < arrival[rest[j]] \/ rest[j] \in refused
  BY <1>5, <1>6 DEF OrderInv
<1> QED
  BY <1>3, <1>8, <1>9, <1>10, <1>11 DEF rest

(* What is granted was free, and what is held grows by it. *)
LEMMA GrantKeepsBounds ==
    ASSUME SchedulingTypeOK, IsFiniteSet(Units), Allocated <= Capacity,
           NEW h \in Task \union Other, NEW n \in Nat, CanAllocate(h, n),
           allocations' = [allocations EXCEPT ![h] = n]
    PROVE  IsFiniteSet(Units') /\ Allocated' <= Capacity
<1> USE TaskSchedulerAssumption DEF TaskSchedulerAssumption
<1> DEFINE granted == {h} \X (1 .. n)
<1>1. allocations \in [Task \union Other -> Nat \union {None}] /\ h \notin Holders
  BY DEF SchedulingTypeOK, Holders, CanAllocate
<1>2. Holders' = Holders \union {h}
  BY <1>1 DEF Holders
<1>3. Units' = Units \union granted
  <2>1. allocations'[h] = n /\ \A g \in Holders : allocations'[g] = allocations[g]
    BY <1>1 DEF Holders
  <2> QED
    BY <1>2, <2>1 DEF Units
<1>4. Units \intersect granted = {}
  BY <1>1 DEF Units
<1>5. IsFiniteSet(granted) /\ Cardinality(granted) = n
  <2>1. IsFiniteSet({h}) /\ Cardinality({h}) = 1
    BY FS_Singleton
  <2>2. IsFiniteSet(1 .. n) /\ Cardinality(1 .. n) = n
    BY FS_Interval
  <2>3. /\ IsFiniteSet(granted)
        /\ Cardinality(granted) = Cardinality({h}) * Cardinality(1 .. n)
    BY <2>1, <2>2, FS_Product
  <2> HIDE DEF granted
  <2>4. Cardinality({h}) * Cardinality(1 .. n) = 1 * n /\ 1 * n = n
    BY ONLY <2>1, <2>2, n \in Nat
  <2> QED
    BY <2>3, <2>4
<1> HIDE DEF granted
<1>6. IsFiniteSet(Units') /\ Cardinality(Units') = Cardinality(Units) + n
  <2>1. /\ IsFiniteSet(Units \union granted)
        /\ Cardinality(Units \union granted)
             = Cardinality(Units) + Cardinality(granted)
                 - Cardinality(Units \intersect granted)
    BY <1>5, FS_Union
  <2>2. Cardinality(Units \intersect granted) = 0
    BY <1>4, FS_EmptySet
  <2>3. Cardinality(Units) \in Nat
    BY FS_CardinalityType
  <2> QED
    BY <1>3, <1>5, <2>1, <2>2, <2>3
<1>7. Cardinality(Units) \in Nat /\ Capacity - Cardinality(Units) >= n
  BY FS_CardinalityType DEF CanAllocate, Allocated
<1> QED
  BY <1>6, <1>7 DEF Allocated

(* Giving back frees room. *)
LEMMA ReturnKeepsBounds ==
    ASSUME SchedulingTypeOK, IsFiniteSet(Units),
           Allocated <= Capacity,
           NEW h \in Task \union Other, allocations' = [allocations EXCEPT ![h] = None]
    PROVE  IsFiniteSet(Units') /\ Allocated' <= Capacity
<1> USE TaskSchedulerAssumption DEF TaskSchedulerAssumption
<1>1. allocations \in [Task \union Other -> Nat \union {None}]
  BY DEF SchedulingTypeOK
<1>2. Holders' = Holders \ {h}
  BY <1>1 DEF Holders
<1>3. \A g \in Holders' : allocations'[g] = allocations[g]
  BY <1>1, <1>2 DEF Holders
<1>4. Units' \subseteq Units
  BY <1>2, <1>3 DEF Units
<1>5. IsFiniteSet(Units') /\ Cardinality(Units') <= Cardinality(Units)
  BY <1>4, FS_Subset
<1> QED
  BY <1>5, FS_CardinalityType DEF Allocated


----------------------------------------------------------------------------
(* The calls. *)

FrameType == [left : Nat \union {None}, task : Task \union {None}]

LEMMA FrameFacts ==
    ASSUME SchedulingTypeOK
    PROVE  /\ frames \in Seq(FrameType) /\ Len(frames) \in Nat
           /\ DOMAIN frames = 1 .. Len(frames)
           /\ \A i \in DOMAIN frames : frames[i] \in FrameType
           /\ Inside => Len(frames) \in DOMAIN frames /\ Frame = frames[Len(frames)]
           /\ ~Inside => Len(frames) = 0
<1>1. frames \in Seq(FrameType)
  BY DEF SchedulingTypeOK, FrameType
<1>2. Len(frames) \in Nat /\ DOMAIN frames = 1 .. Len(frames)
  BY <1>1, LenProperties
<1>3. \A i \in DOMAIN frames : frames[i] \in FrameType
  BY <1>1, <1>2, ElementOfSeq
<1>4. (Inside => Len(frames) \in Nat \ {0}) /\ (~Inside => Len(frames) = 0)
  BY <1>1, EmptySeq DEF Inside
<1> QED
  BY <1>1, <1>2, <1>3, <1>4 DEF Frame, Last

(* A call returns. *)
LEMMA FrontFacts ==
    ASSUME SchedulingTypeOK, Inside
    PROVE  /\ Front(frames) \in Seq(FrameType)
           /\ DOMAIN Front(frames) = 1 .. Len(frames) - 1
           /\ \A i \in 1 .. Len(frames) - 1 : Front(frames)[i] = frames[i]
<1>1. /\ frames \in Seq(FrameType) /\ Len(frames) \in Nat \ {0}
      /\ \A i \in 1 .. Len(frames) : frames[i] \in FrameType
  BY FrameFacts
<1>2. PICK n \in Nat : n = Len(frames) - 1
  BY <1>1
<1>3. Front(frames) = SubSeq(frames, 1, n)
  BY <1>2 DEF Front
<1>4. \A i \in 1 .. n : frames[i] \in FrameType
  BY <1>1, <1>2
<1>5. /\ SubSeq(frames, 1, n) \in Seq(FrameType)
      /\ Len(SubSeq(frames, 1, n)) = IF 1 <= n THEN n - 1 + 1 ELSE 0
      /\ \A i \in 1 .. n - 1 + 1 : SubSeq(frames, 1, n)[i] = frames[1 + i - 1]
  BY ONLY <1>4, SubSeqProperties, 1 \in Int, n \in Int
<1>6. /\ Front(frames) \in Seq(FrameType) /\ Len(Front(frames)) = n
      /\ \A i \in 1 .. n : Front(frames)[i] = frames[i]
  BY <1>3, <1>5
<1> QED
  BY <1>2, <1>6, LenProperties

LEMMA ReturnKeepsFrames ==
    ASSUME SchedulingTypeOK, FrameInv, Inside,
           Frame.task = None,
           frames' = Front(frames), UNCHANGED status
    PROVE  frames' \in Seq(FrameType) /\ FrameInv'
<1>1. /\ Len(frames) \in DOMAIN frames /\ Len(frames) \in Nat
      /\ DOMAIN frames' = 1 .. Len(frames) - 1 /\ DOMAIN frames = 1 .. Len(frames)
      /\ \A i \in DOMAIN frames' : frames'[i] = frames[i]
  BY FrameFacts, FrontFacts
<1>2. \A i \in DOMAIN frames' : frames'[i].task # None
  BY <1>1 DEF FrameInv
<1> QED
  BY <1>1, <1>2, FrontFacts DEF FrameInv

(* A new call is between two executions, and the others are in one. *)
LEMMA CallKeepsFrames ==
    ASSUME SchedulingTypeOK, FrameInv, InCaller,
           NEW left \in Nat \union {None},
           frames' = Append(frames, [left |-> left, task |-> None]), UNCHANGED status
    PROVE  frames' \in Seq(FrameType) /\ FrameInv'
<1> DEFINE new == [left |-> left, task |-> None]
<1>1. new \in FrameType /\ new.task = None
  BY DEF FrameType
<1> HIDE DEF new
<1>2. /\ frames' \in Seq(FrameType) /\ Len(frames') = Len(frames) + 1
      /\ \A i \in 1 .. Len(frames) : frames'[i] = frames[i]
      /\ frames'[Len(frames) + 1] = new
  BY <1>1, FrameFacts, AppendProperties DEF new
<1>3. DOMAIN frames' = 1 .. Len(frames) + 1
  BY <1>2, LenProperties
<1>4. \A i \in 1 .. Len(frames) : frames'[i].task # None
  BY <1>2, FrameFacts DEF FrameInv, InCaller
<1> QED
  BY <1>1, <1>2, <1>3, <1>4, FrameFacts DEF FrameInv

(* The innermost call goes on: to an execution, or to the next iteration. *)
LEMMA MoveKeepsFrames ==
    ASSUME SchedulingTypeOK, Inside, NEW new \in FrameType,
           frames' = [frames EXCEPT ![Len(frames)] = new]
    PROVE  /\ frames' \in Seq(FrameType)
           /\ DOMAIN frames' = DOMAIN frames /\ Len(frames') = Len(frames)
           /\ frames'[Len(frames)] = new
           /\ \A i \in DOMAIN frames \ {Len(frames)} : frames'[i] = frames[i]
<1>1. /\ frames' \in Seq(FrameType) /\ Len(frames') = Len(frames)
      /\ \A i \in 1 .. Len(frames) :
             frames'[i] = IF i = Len(frames) THEN new ELSE frames[i]
  BY FrameFacts, ExceptSeq
<1>2. DOMAIN frames' = 1 .. Len(frames)
  BY <1>1, LenProperties
<1> QED
  BY <1>1, <1>2, FrameFacts

----------------------------------------------------------------------------
(* The steps. *)

(* Schedule numbers a task that was not known and puts it last. *)
LEMMA ScheduleKeeps ==
    ASSUME SchedulingInv, NEW t \in Task, NEW p \in Priority,
           NEW amount \in Amount,
           Schedule(t, p, amount)
    PROVE  SchedulingInv'
<1> USE TaskSchedulerAssumption DEF TaskSchedulerAssumption, SchedulingInv
<1>1. SchedulingTypeOK /\ status[t] = "absent" /\ t \in Task
  BY DEF Schedule
<1>2. /\ queue \in Seq(Task) /\ Len(queue) \in Nat /\ DOMAIN queue = 1 .. Len(queue)
      /\ \A i \in DOMAIN queue : queue[i] \in Task
  BY LenProperties, ElementOfSeq DEF SchedulingTypeOK
<1>3. /\ queue' \in Seq(Task) /\ Len(queue') = Len(queue) + 1
      /\ \A i \in 1 .. Len(queue) : queue'[i] = queue[i]
      /\ queue'[Len(queue) + 1] = t
  BY <1>2, AppendProperties DEF Schedule, Pushed
<1>4. DOMAIN queue' = 1 .. Len(queue) + 1
  BY <1>3, LenProperties
<1>5. status' = [status EXCEPT ![t] = "scheduled"] /\ t \notin Known
      /\ arrival' = [arrival EXCEPT ![t] = Cardinality(Known)]
  BY <1>1 DEF Schedule, Known
<1>6. Known' = Known \union {t}
  BY <1>5 DEF Known, SchedulingTypeOK
<1>7. /\ IsFiniteSet(Known') /\ Cardinality(Known') = Cardinality(Known) + 1
      /\ Cardinality(Known) \in Nat
  BY <1>5, <1>6, FS_AddElement, FS_CardinalityType DEF OrderInv
<1>8. SchedulingTypeOK'
  <2>1. status' \in [Task -> {"absent", "scheduled", "running", "completed", "failed"}]
    BY <1>5 DEF SchedulingTypeOK
  <2>2. arrival' \in [Task -> Nat]
    BY <1>5, <1>7 DEF SchedulingTypeOK
  <2>3. priority' \in [Task -> Nat] /\ resources' \in [Task -> Nat]
    BY DEF SchedulingTypeOK, Schedule
  <2> QED
    BY <1>3, <2>1, <2>2, <2>3 DEF SchedulingTypeOK, Schedule
<1>9. FrameInv'
  <2>1. \A i \in DOMAIN frames : frames[i].task # t
    BY <1>1 DEF FrameInv
  <2>2. \A i \in DOMAIN frames : frames[i].task # None => frames[i].task \in Task
    BY FrameFacts DEF FrameType
  <2> QED
    BY <1>5, <2>1, <2>2 DEF FrameInv, Schedule, SchedulingTypeOK
<1>10. QueueInv'
  <2>1. \A i \in DOMAIN queue : queue[i] # t
    BY <1>1 DEF QueueInv
  <2>2. \A i \in DOMAIN queue' : status'[queue'[i]] = "scheduled"
    <3> SUFFICES ASSUME NEW i \in DOMAIN queue'
                 PROVE  status'[queue'[i]] = "scheduled"
      OBVIOUS
    <3>1. CASE i = Len(queue) + 1
      BY <3>1, <1>2, <1>3, <1>4, <1>5 DEF SchedulingTypeOK
    <3>2. CASE i # Len(queue) + 1
      <4>1. i \in DOMAIN queue /\ queue'[i] = queue[i] /\ queue[i] \in Task
        BY <3>2, <1>2, <1>3, <1>4
      <4>2. status[queue[i]] = "scheduled"
        BY <4>1 DEF QueueInv
      <4> QED
        BY <4>1, <4>2, <1>5 DEF SchedulingTypeOK
    <3> QED
      BY <3>1, <3>2
  <2>3. ASSUME NEW u \in Task, status'[u] = "scheduled"
        PROVE  \E i \in DOMAIN queue' : queue'[i] = u
    <3>1. CASE u = t
      BY <3>1, <1>2, <1>3, <1>4
    <3>2. CASE u # t
      <4>1. status[u] = "scheduled"
        BY <3>2, <2>3, <1>5 DEF SchedulingTypeOK
      <4>2. PICK i \in DOMAIN queue : queue[i] = u
        BY <4>1 DEF QueueInv
      <4> QED
        BY <4>2, <1>2, <1>3, <1>4
    <3> QED
      BY <3>1, <3>2
  <2>4. \A i, j \in DOMAIN queue' : queue'[i] = queue'[j] => i = j
    BY <2>1, <1>2, <1>3, <1>4 DEF QueueInv
  <2> QED
    BY <2>2, <2>3, <2>4 DEF QueueInv
<1>11. OrderInv'
  <2>1. \A i \in DOMAIN queue : queue[i] # t /\ queue[i] \in Known
    BY <1>1, <1>2 DEF QueueInv, Known
  <2>2. \A u \in Known : arrival'[u] = arrival[u]
    BY <1>5 DEF SchedulingTypeOK, Known
  <2>3. arrival'[t] = Cardinality(Known)
    BY <1>5 DEF SchedulingTypeOK
  <2>4. \A u \in Known : arrival[u] \in Nat /\ arrival[u] < Cardinality(Known)
    BY DEF OrderInv, SchedulingTypeOK, Known
  <2>5. \A u \in Known' : arrival'[u] < Cardinality(Known')
    BY <1>6, <1>7, <2>2, <2>3, <2>4
  <2>6. ASSUME NEW i \in DOMAIN queue', NEW j \in DOMAIN queue', i < j
        PROVE  arrival'[queue'[i]] < arrival'[queue'[j]] \/ queue'[j] \in refused
    <3>1. CASE j = Len(queue) + 1
      <4>1. queue'[j] = t /\ queue'[i] = queue[i] /\ i \in DOMAIN queue
        BY <3>1, <2>6, <1>2, <1>3, <1>4
      <4>2. arrival'[queue[i]] = arrival[queue[i]] /\ arrival[queue[i]] < Cardinality(Known)
        BY <4>1, <2>1, <2>2, <2>4
      <4> QED
        BY <4>1, <4>2, <2>3
    <3>2. CASE j # Len(queue) + 1
      BY <3>2, <2>6, <2>1, <2>2, <1>2, <1>3, <1>4 DEF OrderInv
    <3> QED
      BY <3>1, <3>2
  <2> QED
    BY <1>7, <2>5, <2>6 DEF OrderInv, Schedule
<1>12. AllocationInv'
  <2>1. /\ Holders' = Holders /\ Units' = Units
        /\ Allocated' = Allocated
    BY DEF Schedule, Holders, Units, Allocated
  <2>2. \A u \in Task \ {t} : status'[u] = status[u] /\ resources'[u] = resources[u]
    BY <1>5 DEF Schedule, SchedulingTypeOK
  <2>3. status'[t] = "scheduled"
    BY <1>5 DEF SchedulingTypeOK
  <2> QED
    BY <1>1, <2>1, <2>2, <2>3 DEF AllocationInv, Schedule
<1> QED
  BY <1>8, <1>9, <1>10, <1>11, <1>12

(* What leaves the tasks and the queue alone. *)
LEMMA QueueUntouched ==
    ASSUME SchedulingInv, UNCHANGED <<taskVars, queue, refused>>
    PROVE  QueueInv' /\ OrderInv'
BY DEF SchedulingInv, QueueInv, OrderInv, Known, taskVars

LEMMA AllocationsUntouched ==
    ASSUME SchedulingInv, UNCHANGED <<taskVars, allocations>>
    PROVE  AllocationInv'
BY DEF SchedulingInv, AllocationInv, Allocated, Units, Holders, taskVars

LEMMA ExecuteScheduledKeeps ==
    ASSUME SchedulingInv, NEW limit \in Limit,
           ExecuteScheduled(limit)
    PROVE  SchedulingInv'
<1>1. frames' \in Seq(FrameType) /\ FrameInv'
  BY TaskSchedulerAssumption, CallKeepsFrames
     DEF TaskSchedulerAssumption, SchedulingInv, ExecuteScheduled, taskVars
<1>2. SchedulingTypeOK'
  BY <1>1 DEF SchedulingInv, SchedulingTypeOK, FrameType, ExecuteScheduled, taskVars
<1> QED
  BY <1>1, <1>2, QueueUntouched, AllocationsUntouched DEF SchedulingInv, ExecuteScheduled

LEMMA ReturnKeeps ==
    ASSUME SchedulingInv, Return
    PROVE  SchedulingInv'
<1>1. frames' \in Seq(FrameType) /\ FrameInv'
  BY ReturnKeepsFrames DEF SchedulingInv, Return, taskVars
<1>2. SchedulingTypeOK'
  BY <1>1 DEF SchedulingInv, SchedulingTypeOK, FrameType, Return, taskVars
<1> QED
  BY <1>1, <1>2, QueueUntouched, AllocationsUntouched DEF SchedulingInv, Return

(* Take and Release are what others do with the allocator. *)
LEMMA OthersKeep ==
    ASSUME SchedulingInv, NEW o \in Other,
           Release(o) \/ \E amount \in Amount : Take(o, amount)
    PROVE  SchedulingInv'
<1> USE TaskSchedulerAssumption DEF TaskSchedulerAssumption
<1>1. UNCHANGED <<taskVars, queue, refused, frames>>
  BY DEF Release, Take
<1>2. \E new \in Nat \union {None} : allocations' = [allocations EXCEPT ![o] = new]
  BY DEF Release, Take
<1>3. others' \in Nat
  BY DEF Release, Take, SchedulingInv, SchedulingTypeOK
<1>4. SchedulingTypeOK'
  BY <1>1, <1>2, <1>3 DEF SchedulingInv, SchedulingTypeOK, taskVars
<1>5. FrameInv'
  BY <1>1 DEF SchedulingInv, FrameInv, taskVars
<1>6. \A t \in Task : allocations'[t] = allocations[t]
  BY <1>2 DEF SchedulingInv, SchedulingTypeOK
<1>7. IsFiniteSet(Units') /\ Allocated' <= Capacity
  <2>1. CASE Release(o)
    BY <2>1, ReturnKeepsBounds DEF SchedulingInv, AllocationInv, Release
  <2>2. ASSUME NEW amount \in Amount, Take(o, amount)
        PROVE  IsFiniteSet(Units') /\ Allocated' <= Capacity
    BY <2>2, GrantKeepsBounds DEF SchedulingInv, AllocationInv, Take
  <2> QED
    BY <2>1, <2>2
<1>8. AllocationInv'
  BY <1>1, <1>6, <1>7 DEF SchedulingInv, AllocationInv, taskVars
<1> QED
  BY <1>1, <1>4, <1>5, <1>8, QueueUntouched DEF SchedulingInv

(* A refused entry goes behind all others. *)
LEMMA RefuseKeeps ==
    ASSUME SchedulingInv, NEW t \in Task, Refuse(t)
    PROVE  SchedulingInv'
<1> USE DEF SchedulingInv
<1>1. /\ status[t] = "scheduled" /\ Inside /\ Frame.task = None
      /\ queue' = Append(Popped(t), t) /\ refused' = refused \union {t}
      /\ frames' = Front(frames) /\ UNCHANGED <<taskVars, allocations, others>>
  BY DEF Refuse, Pop, Pushed
<1> DEFINE rest == Popped(t)
<1>2. /\ rest \in Seq(Task)
      /\ \A i \in DOMAIN rest : rest[i] # t /\ status[rest[i]] = "scheduled"
      /\ \A u \in Task : status[u] = "scheduled" /\ u # t =>
             \E i \in DOMAIN rest : rest[i] = u
      /\ \A i, j \in DOMAIN rest : rest[i] = rest[j] => i = j
      /\ \A i, j \in DOMAIN rest : i < j =>
             arrival[rest[i]] < arrival[rest[j]] \/ rest[j] \in refused
  BY <1>1, WithoutEntry
<1>3. queue' = Append(rest, t)
  BY <1>1
<1> HIDE DEF rest
<1>4. Len(rest) \in Nat /\ DOMAIN rest = 1 .. Len(rest)
  BY <1>2, LenProperties
<1>5. /\ queue' \in Seq(Task) /\ Len(queue') = Len(rest) + 1
      /\ \A i \in 1 .. Len(rest) : queue'[i] = rest[i]
      /\ queue'[Len(rest) + 1] = t
  BY <1>2, <1>3, AppendProperties
<1>6. DOMAIN queue' = 1 .. Len(rest) + 1
  BY <1>5, LenProperties
<1>7. frames' \in Seq(FrameType) /\ FrameInv'
  BY <1>1, ReturnKeepsFrames DEF taskVars
<1>8. SchedulingTypeOK'
  BY <1>1, <1>5, <1>7 DEF SchedulingTypeOK, FrameType, taskVars
<1>9. QueueInv'
  <2>1. \A i \in DOMAIN queue' : status[queue'[i]] = "scheduled"
    BY <1>1, <1>2, <1>4, <1>5, <1>6
  <2>2. ASSUME NEW u \in Task, status[u] = "scheduled"
        PROVE  \E i \in DOMAIN queue' : queue'[i] = u
    <3>1. CASE u = t
      BY <3>1, <1>4, <1>5, <1>6
    <3>2. CASE u # t
      BY <3>2, <2>2, <1>2, <1>4, <1>5, <1>6
    <3> QED
      BY <3>1, <3>2
  <2>3. \A i, j \in DOMAIN queue' : queue'[i] = queue'[j] => i = j
    BY <1>2, <1>4, <1>5, <1>6
  <2> QED
    BY <2>1, <2>2, <2>3, <1>1 DEF QueueInv, taskVars
<1>10. OrderInv'
  <2>1. Known' = Known /\ arrival' = arrival
    BY <1>1 DEF Known, taskVars
  <2>2. ASSUME NEW i \in DOMAIN queue', NEW j \in DOMAIN queue', i < j
        PROVE  arrival[queue'[i]] < arrival[queue'[j]] \/ queue'[j] \in refused'
    <3>1. CASE j = Len(rest) + 1
      BY <3>1, <1>1, <1>5
    <3>2. CASE j # Len(rest) + 1
      BY <3>2, <2>2, <1>1, <1>2, <1>4, <1>5, <1>6
    <3> QED
      BY <3>1, <3>2
  <2> QED
    BY <2>1, <2>2 DEF OrderInv
<1> QED
  BY <1>1, <1>7, <1>8, <1>9, <1>10, AllocationsUntouched

(* A started task leaves the queue and holds what it asked for. *)
LEMMA StartKeeps ==
    ASSUME SchedulingInv, NEW t \in Task, Start(t)
    PROVE  SchedulingInv'
<1> USE DEF SchedulingInv
<1>1. /\ status[t] = "scheduled" /\ Inside /\ Frame.task = None /\ Frame.left # 0
      /\ CanAllocate(t, resources[t]) /\ queue' = Popped(t)
      /\ allocations' = [allocations EXCEPT ![t] = resources[t]]
      /\ status' = [status EXCEPT ![t] = "running"]
      /\ frames' = [frames EXCEPT ![Len(frames)].task = t]
      /\ UNCHANGED <<priority, resources, arrival, refused, others>>
  BY DEF Start, Pop
<1> DEFINE rest == Popped(t)
<1>2. /\ rest \in Seq(Task)
      /\ \A i \in DOMAIN rest : rest[i] # t /\ status[rest[i]] = "scheduled"
      /\ \A u \in Task : status[u] = "scheduled" /\ u # t =>
             \E i \in DOMAIN rest : rest[i] = u
      /\ \A i, j \in DOMAIN rest : rest[i] = rest[j] => i = j
      /\ \A i, j \in DOMAIN rest : i < j =>
             arrival[rest[i]] < arrival[rest[j]] \/ rest[j] \in refused
  BY <1>1, WithoutEntry
<1>3. queue' = rest
  BY <1>1
<1> HIDE DEF rest
<1>4. /\ status'[t] = "running" /\ \A u \in Task \ {t} : status'[u] = status[u]
      /\ \A i \in DOMAIN rest : rest[i] \in Task
  BY <1>1, <1>2, LenProperties, ElementOfSeq DEF SchedulingTypeOK
<1> DEFINE new == [frames[Len(frames)] EXCEPT !.task = t]
<1>5. /\ new \in FrameType /\ new.task = t /\ new.left # 0
      /\ frames' = [frames EXCEPT ![Len(frames)] = new]
  <2>1. frames[Len(frames)] \in FrameType /\ frames[Len(frames)].left # 0
    BY <1>1, FrameFacts
  <2> QED
    BY <1>1, <2>1 DEF FrameType
<1> HIDE DEF new
<1>6. /\ frames' \in Seq(FrameType) /\ Len(frames') = Len(frames)
      /\ DOMAIN frames' = DOMAIN frames
      /\ frames'[Len(frames)] = new
      /\ \A i \in DOMAIN frames \ {Len(frames)} : frames'[i] = frames[i]
  BY <1>1, <1>5, MoveKeepsFrames
<1>7. resources[t] \in Nat
  BY DEF SchedulingTypeOK
<1>8. SchedulingTypeOK'
  <2>1. allocations' \in [Task \union Other -> Nat \union {None}]
    BY <1>1, <1>7 DEF SchedulingTypeOK
  <2>2. status' \in [Task -> {"absent", "scheduled", "running", "completed", "failed"}]
    BY <1>1 DEF SchedulingTypeOK
  <2> QED
    BY <1>1, <1>2, <1>3, <1>6, <2>1, <2>2 DEF SchedulingTypeOK, FrameType
<1>9. FrameInv'
  <2>1. t # None
    BY TaskSchedulerAssumption DEF TaskSchedulerAssumption
  <2>2. \A i \in DOMAIN frames \ {Len(frames)} :
            /\ frames[i].task \in Task \ {t} /\ status[frames[i].task] = "running"
    <3> SUFFICES ASSUME NEW i \in DOMAIN frames \ {Len(frames)}
                 PROVE  frames[i].task \in Task \ {t} /\ status[frames[i].task] = "running"
      OBVIOUS
    <3>1. frames[i].task \in Task \union {None}
      BY FrameFacts DEF FrameType
    <3>2. frames[i].task # None
      BY DEF FrameInv
    <3>3. status[frames[i].task] = "running"
      BY <3>2 DEF FrameInv
    <3> QED
      BY <3>1, <3>2, <3>3, <1>1
  <2>3. \A i \in DOMAIN frames' : frames'[i].task # None
    BY TaskSchedulerAssumption, <1>5, <1>6, <2>1, <2>2 DEF TaskSchedulerAssumption
  <2>4. \A i \in DOMAIN frames' : status'[frames'[i].task] = "running"
    BY <1>4, <1>5, <1>6, <2>2
  <2>5. ASSUME NEW i \in DOMAIN frames', NEW j \in DOMAIN frames',
               frames'[i].task = frames'[j].task
        PROVE  i = j
    <3>1. CASE i = Len(frames)
      BY <3>1, <2>5, <1>5, <1>6, <2>2
    <3>2. CASE j = Len(frames)
      BY <3>2, <2>5, <1>5, <1>6, <2>2
    <3>3. CASE i # Len(frames) /\ j # Len(frames)
      <4>1. frames[i].task # None /\ frames[i].task = frames[j].task
        BY <3>3, <2>3, <2>5, <1>6
      <4> QED
        BY <3>3, <4>1, <1>6 DEF FrameInv
    <3> QED
      BY <3>1, <3>2, <3>3
  <2>6. \A i \in DOMAIN frames' : frames'[i].left # 0
    BY <1>5, <1>6, <2>2, <2>1 DEF FrameInv
  <2> QED
    BY <2>3, <2>4, <2>5, <2>6 DEF FrameInv
<1>10. QueueInv'
  <2>1. \A i \in DOMAIN queue' : status'[queue'[i]] = "scheduled"
    BY <1>2, <1>3, <1>4
  <2>2. \A u \in Task : status'[u] = "scheduled" => \E i \in DOMAIN queue' : queue'[i] = u
    BY <1>2, <1>3, <1>4
  <2> QED
    BY <2>1, <2>2, <1>2, <1>3 DEF QueueInv
<1>11. OrderInv'
  <2>1. Known' = Known
    BY <1>1, <1>4 DEF Known
  <2> QED
    BY <2>1, <1>1, <1>2, <1>3 DEF OrderInv
<1>12. AllocationInv'
  <2>1. IsFiniteSet(Units') /\ Allocated' <= Capacity
    BY <1>1, <1>7, GrantKeepsBounds DEF AllocationInv
  <2>2. allocations'[t] = resources[t] /\ \A u \in Task \ {t} : allocations'[u] = allocations[u]
    BY <1>1 DEF SchedulingTypeOK
  <2> QED
    BY <1>1, <1>4, <2>1, <2>2 DEF AllocationInv
<1> QED
  BY <1>8, <1>9, <1>10, <1>11, <1>12

(* What was in execution gives back what it held. *)
LEMMA FinishKeeps ==
    ASSUME SchedulingInv, NEW t \in Task,
           NEW outcome \in {"completed", "failed"}, Finish(t, outcome)
    PROVE  SchedulingInv'
<1> USE DEF SchedulingInv
<1>1. /\ Inside /\ Frame.task = t
      /\ status' = [status EXCEPT ![t] = outcome]
      /\ allocations' = [allocations EXCEPT ![t] = None]
      /\ UNCHANGED <<priority, resources, arrival, queue, refused, others>>
  BY DEF Finish
<1>2. t # None
  BY TaskSchedulerAssumption DEF TaskSchedulerAssumption
<1>3. /\ frames[Len(frames)].task = t /\ frames[Len(frames)] \in FrameType
      /\ Len(frames) \in DOMAIN frames
  BY <1>1, FrameFacts
<1>4. status[t] = "running"
  BY <1>2, <1>3 DEF FrameInv
<1>5. /\ status'[t] = outcome /\ \A u \in Task \ {t} : status'[u] = status[u]
      /\ status' \in [Task -> {"absent", "scheduled", "running", "completed", "failed"}]
  BY <1>1 DEF SchedulingTypeOK
<1> DEFINE left == IF frames[Len(frames)].left = None THEN None ELSE frames[Len(frames)].left - 1
           new == [left |-> left, task |-> None]
<1>6. frames' = [frames EXCEPT ![Len(frames)] = new] /\ new.task = None
  BY DEF Finish
<1>7. left \in Nat \union {None}
  <2>1. frames[Len(frames)].left \in Nat \union {None} /\ frames[Len(frames)].left # 0
    BY <1>2, <1>3 DEF FrameType, FrameInv
  <2> QED
    BY <2>1
<1>8. new \in FrameType
  BY <1>7 DEF FrameType
<1> HIDE DEF new, left
<1>9. /\ frames' \in Seq(FrameType) /\ Len(frames') = Len(frames)
      /\ DOMAIN frames' = DOMAIN frames
      /\ frames'[Len(frames)] = new
      /\ \A i \in DOMAIN frames \ {Len(frames)} : frames'[i] = frames[i]
  BY <1>1, <1>6, <1>8, MoveKeepsFrames
<1>10. SchedulingTypeOK'
  <2>1. allocations' \in [Task \union Other -> Nat \union {None}]
    BY <1>1 DEF SchedulingTypeOK
  <2> QED
    BY <1>1, <1>5, <1>9, <2>1 DEF SchedulingTypeOK, FrameType
<1>11. FrameInv'
  <2>1. \A i \in DOMAIN frames \ {Len(frames)} :
            /\ frames[i].task # None /\ frames[i].task # t
            /\ frames[i].task \in Task /\ frames[i].left # 0
    <3> SUFFICES ASSUME NEW i \in DOMAIN frames \ {Len(frames)}
                 PROVE  /\ frames[i].task # None /\ frames[i].task # t
                        /\ frames[i].task \in Task /\ frames[i].left # 0
      OBVIOUS
    <3>1. frames[i].task # None
      BY DEF FrameInv
    <3>2. frames[i].task \in Task \union {None}
      BY FrameFacts DEF FrameType
    <3>3. frames[i].task # t
      BY <3>1, <1>3 DEF FrameInv
    <3> QED
      BY <3>1, <3>2, <3>3 DEF FrameInv
  <2>2. \A i \in DOMAIN frames' : frames'[i].task = None => i = Len(frames')
    BY <1>9, <2>1
  <2>3. \A i \in DOMAIN frames' : frames'[i].task # None =>
            status'[frames'[i].task] = "running" /\ frames'[i].left # 0
    BY <1>5, <1>6, <1>9, <2>1 DEF FrameInv
  <2>4. ASSUME NEW i \in DOMAIN frames', NEW j \in DOMAIN frames',
               frames'[i].task # None, frames'[i].task = frames'[j].task
        PROVE  i = j
    <3>1. i # Len(frames) /\ j # Len(frames)
      BY <2>4, <1>6, <1>9
    <3>2. frames[i].task # None /\ frames[i].task = frames[j].task
      BY <3>1, <2>4, <1>9
    <3> QED
      BY <3>1, <3>2, <1>9 DEF FrameInv
  <2> QED
    BY <2>2, <2>3, <2>4 DEF FrameInv
<1>12. QueueInv'
  <2>1. \A i \in DOMAIN queue : queue[i] # t /\ queue[i] \in Task
    BY <1>4, LenProperties, ElementOfSeq DEF QueueInv, SchedulingTypeOK
  <2>2. \A u \in Task : status'[u] = "scheduled" => status[u] = "scheduled"
    BY <1>5
  <2> QED
    BY <1>1, <1>5, <2>1, <2>2 DEF QueueInv
<1>13. OrderInv'
  <2>1. Known' = Known
    BY <1>4, <1>5 DEF Known
  <2> QED
    BY <2>1, <1>1 DEF OrderInv
<1>14. AllocationInv'
  <2>1. IsFiniteSet(Units') /\ Allocated' <= Capacity
    BY <1>1, ReturnKeepsBounds DEF AllocationInv
  <2>2. allocations'[t] = None /\ \A u \in Task \ {t} : allocations'[u] = allocations[u]
    BY <1>1 DEF SchedulingTypeOK
  <2> QED
    BY <1>1, <1>5, <2>1, <2>2 DEF AllocationInv
<1> QED
  BY <1>10, <1>11, <1>12, <1>13, <1>14

(* IInv is inductive. *)
LEMMA InitKeeps ==
    SchedulingInit => SchedulingInv
<1> USE TaskSchedulerAssumption DEF TaskSchedulerAssumption
<1> SUFFICES ASSUME SchedulingInit PROVE SchedulingInv
  OBVIOUS
<1>1. SchedulingTypeOK
  BY DEF SchedulingInit, SchedulingTypeOK
<1>2. DOMAIN frames = {} /\ DOMAIN queue = {}
  BY DEF SchedulingInit
<1>3. Known = {} /\ Units = {}
  BY DEF SchedulingInit, Known, Units, Holders
<1>4. AllocationInv
  <2>1. IsFiniteSet(Units) /\ Allocated = 0
    BY <1>3, FS_EmptySet DEF Allocated
  <2>2. \A t \in Task : allocations[t] = None /\ status[t] = "absent"
    BY DEF SchedulingInit
  <2> QED
    BY <2>1, <2>2 DEF AllocationInv
<1>5. OrderInv
  BY <1>2, <1>3, FS_EmptySet DEF OrderInv
<1>6. FrameInv
  BY <1>2 DEF FrameInv
<1>7. QueueInv
  BY <1>2 DEF QueueInv, SchedulingInit
<1> QED
  BY <1>1, <1>4, <1>5, <1>6, <1>7 DEF SchedulingInv

LEMMA StepKeeps ==
    SchedulingInv /\ [SchedulingNext]_schedulingVars => SchedulingInv'
<1> SUFFICES ASSUME SchedulingInv, [SchedulingNext]_schedulingVars PROVE SchedulingInv'
  OBVIOUS
<1>1. CASE Executes
  BY <1>1, ExecuteScheduledKeeps DEF Executes
<1>2. CASE Loop
  BY <1>2, ReturnKeeps, RefuseKeeps, StartKeeps DEF Loop
<1>3. ASSUME NEW t \in Task, Executor(t) PROVE SchedulingInv'
  BY <1>3, FinishKeeps DEF Executor
<1>4. ASSUME NEW t \in Task, NEW p \in Priority, NEW amount \in Amount,
             Schedule(t, p, amount)
      PROVE  SchedulingInv'
  BY <1>4, ScheduleKeeps
<1>5. ASSUME NEW o \in Other, Release(o) \/ \E amount \in Amount : Take(o, amount)
      PROVE  SchedulingInv'
  BY <1>5, OthersKeep
<1>6. CASE UNCHANGED schedulingVars
  <2>1. UNCHANGED <<taskVars, queue, refused, allocations, frames, others>>
    BY <1>6 DEF schedulingVars
  <2>2. SchedulingTypeOK' /\ FrameInv'
    BY <2>1 DEF SchedulingInv, SchedulingTypeOK, FrameInv, taskVars
  <2> QED
    BY <2>1, <2>2, QueueUntouched, AllocationsUntouched DEF SchedulingInv
<1> QED
  BY <1>1, <1>2, <1>3, <1>4, <1>5, <1>6 DEF SchedulingNext

LEMMA SchedulingInvHolds == SchedulingSpec => []SchedulingInv
BY InitKeeps, StepKeeps, PTL DEF SchedulingSpec

(* Type correctness of every behaviour. *)
THEOREM SchedulingTypes == SchedulingSpec => []SchedulingTypeOK
<1>1. SchedulingInv => SchedulingTypeOK
  BY DEF SchedulingInv
<1> QED
  BY <1>1, SchedulingInvHolds, PTL

(* Status, queue and allocations keep the same books. *)
THEOREM BooksAreKept == SchedulingSpec => []BooksAgree
<1>1. SchedulingInv => BooksAgree
  <2> SUFFICES ASSUME SchedulingInv PROVE BooksAgree
    OBVIOUS
  <2>1. \A i \in DOMAIN queue : queue[i] \in Task
    BY LenProperties, ElementOfSeq DEF SchedulingInv, SchedulingTypeOK
  <2>2. ToSet(queue) = {t \in Task : status[t] = "scheduled"}
    BY <2>1 DEF SchedulingInv, QueueInv, ToSet
  <2>3. IsInjective(queue)
    BY DEF SchedulingInv, QueueInv, IsInjective
  <2> QED
    BY <2>2, <2>3 DEF SchedulingInv, AllocationInv, BooksAgree
<1> QED
  BY <1>1, SchedulingInvHolds, PTL

(* No task starts ahead of one that is as urgent, was scheduled before and *)
(* never refused.                                                          *)
THEOREM StartsAreInOrder == SchedulingSpec => StartsInOrder
<1> DEFINE Body == \A t, u \in Task :
          /\ t # u /\ status[t] = "scheduled" /\ status'[t] = "running" /\ status[u] = "scheduled"
          => \/ priority[u] < priority[t]
             \/ priority[u] = priority[t] /\ (arrival[t] < arrival[u] \/ u \in refused)
<1>1. SchedulingInv /\ [SchedulingNext]_schedulingVars => [Body]_schedulingVars
  <2> SUFFICES ASSUME SchedulingInv, SchedulingNext, NEW t \in Task, NEW u \in Task, t # u,
                      status[t] = "scheduled", status'[t] = "running", status[u] = "scheduled"
               PROVE  \/ priority[u] < priority[t]
                      \/ priority[u] = priority[t] /\ (arrival[t] < arrival[u] \/ u \in refused)
    OBVIOUS
  <2>1. Start(t)
    <3>1. ASSUME NEW v \in Task, Start(v) PROVE v = t
      BY <3>1 DEF Start, SchedulingInv, SchedulingTypeOK
    <3>2. ASSUME NEW v \in Task, NEW outcome \in {"completed", "failed"}, Finish(v, outcome)
          PROVE  FALSE
      BY <3>2 DEF Finish, SchedulingInv, SchedulingTypeOK
    <3>3. ASSUME NEW v \in Task, NEW p, NEW amount, Schedule(v, p, amount) PROVE FALSE
      BY <3>3 DEF Schedule, SchedulingInv, SchedulingTypeOK
    <3>4. status' # status
      OBVIOUS
    <3> QED
      BY <3>1, <3>2, <3>3, <3>4
         DEF SchedulingNext, Executes, ExecuteScheduled, Loop, Return,
             Refuse, Executor, Release, Take,
             taskVars
  <2>2. PICK i \in DOMAIN queue :
            /\ queue[i] = t
            /\ \A j \in DOMAIN queue : \/ priority[queue[j]] < priority[t]
                                       \/ priority[queue[j]] = priority[t] /\ i <= j
    BY <2>1 DEF Start, Pop, IsTop
  <2>3. PICK j \in DOMAIN queue : queue[j] = u
    BY DEF SchedulingInv, QueueInv
  <2>4. i # j /\ i \in Nat /\ j \in Nat
    <3>1. queue \in Seq(Task)
      BY DEF SchedulingInv, SchedulingTypeOK
    <3>2. Len(queue) \in Nat /\ DOMAIN queue = 1 .. Len(queue)
      BY <3>1, LenProperties
    <3> QED
      BY <3>2, <2>2, <2>3
  <2>5. i < j => arrival[t] < arrival[u] \/ u \in refused
    BY <2>2, <2>3 DEF SchedulingInv, OrderInv
  <2> QED
    BY <2>2, <2>3, <2>4, <2>5
<1> QED
  BY <1>1, SchedulingInvHolds, PTL DEF SchedulingSpec, StartsInOrder
=============================================================================
