-------------------------- MODULE FailureDetector --------------------------
(***************************************************************************)
(* IsPodFailed, IsDeploymentFailed, IsJobFailed                            *)
(* (operator/controllers/failure_detector.go), and how the status they     *)
(* look at moves: the kubelet and the controllers of Kubernetes change it  *)
(* while the operator reads it now and then.                               *)
(***************************************************************************)
EXTENDS Naturals, Sequences

VARIABLE status  \* the status of the workload in the API server

RestartCountThreshold == 3

\* A Pod's container: [state, reason, started, restarts]; 3 restarts stand for 3
\* or more.
Container == [state : {"waiting", "running", "terminated"},
              reason : {"", "ContainerCreating", "CrashLoopBackOff", "ImagePullBackOff",
                        "ErrImagePull", "OOMKilled", "Error"},
              started : BOOLEAN, restarts : 0 .. RestartCountThreshold]

PodStatus == [kind : {"Pod"}, phase : {"Running", "Failed"}, containers : Seq(Container)]
DeploymentStatus == [kind : {"Deployment"}, unavailable : BOOLEAN, replicaFailure : BOOLEAN]
JobStatus == [kind : {"Job"}, failed : BOOLEAN, condition : BOOLEAN]
StatusType == PodStatus \union DeploymentStatus \union JobStatus

-----------------------------------------------------------------------------
(* Detection: the reason, or none *)

\* Bug: restarts count only while the container waits.
SignalOfWaiting(c) ==
    IF c.state # "waiting" THEN IF c.reason = "OOMKilled" THEN c.reason ELSE ""
    ELSE IF c.reason \in {"CrashLoopBackOff", "ImagePullBackOff", "ErrImagePull"} THEN c.reason
    ELSE IF c.restarts >= RestartCountThreshold THEN "BackOffRestarts"
    ELSE ""

Signal(c) ==
    IF c.state = "waiting" /\ c.reason \in {"CrashLoopBackOff", "ImagePullBackOff", "ErrImagePull"}
      THEN c.reason
    ELSE IF c.state = "terminated" /\ c.reason = "OOMKilled" THEN c.reason
    ELSE IF c.restarts >= RestartCountThreshold THEN "BackOffRestarts"
    ELSE ""

\* The first container that has a signal gives the reason.
IsPodFailed(pod) ==
    LET signals == SelectSeq([i \in DOMAIN pod.containers |-> Signal(pod.containers[i])],
                             LAMBDA s : s # "")
    IN  IF pod.phase = "Failed" THEN "Failed"
        ELSE IF signals # <<>> THEN Head(signals)
        ELSE ""

IsDeploymentFailed(dep) ==
    IF dep.unavailable THEN "UnavailableReplicas"
    ELSE IF dep.replicaFailure THEN "DeploymentReplicaFailure"
    ELSE ""

\* failed is Status.Failed > 0; the test for a job that also succeeded comes
\* after it and is never reached.
IsJobFailed(job) == IF job.failed \/ job.condition THEN "JobFailed" ELSE ""

Reason(s) ==
    CASE s.kind = "Pod" -> IsPodFailed(s)
      [] s.kind = "Deployment" -> IsDeploymentFailed(s)
      [] s.kind = "Job" -> IsJobFailed(s)

Failed == Reason(status) # ""

-----------------------------------------------------------------------------
(* Kubernetes *)

\* Container i of a Pod that has not ended goes from one state to another.
Moves(i, from, to, reason) ==
    /\ status.kind = "Pod" /\ status.phase # "Failed"
    /\ i \in DOMAIN status.containers
    /\ status.containers[i].state = from
    /\ status' = [status EXCEPT !.containers[i] =
                    [state |-> to, reason |-> reason,
                     started |-> @.started \/ to = "running",
                     restarts |-> IF to = "running" /\ @.started
                                     /\ @.restarts < RestartCountThreshold
                                  THEN @.restarts + 1 ELSE @.restarts]]

PullFails(i) == \E r \in {"ErrImagePull", "ImagePullBackOff"} : Moves(i, "waiting", "waiting", r)

Runs(i) == \E from \in {"waiting", "terminated"} : Moves(i, from, "running", "")

Crashes(i) == \E r \in {"OOMKilled", "Error"} : Moves(i, "running", "terminated", r)

BacksOff(i) == Moves(i, "terminated", "waiting", "CrashLoopBackOff")

\* A container that is not restarted ends the Pod.
Ends ==
    /\ status.kind = "Pod" /\ status.phase # "Failed"
    /\ \E i \in DOMAIN status.containers : status.containers[i].state = "terminated"
    /\ status' = [status EXCEPT !.phase = "Failed"]

DeploymentMoves ==
    /\ status.kind = "Deployment"
    /\ \E u, f \in BOOLEAN : status' = [status EXCEPT !.unavailable = u, !.replicaFailure = f]

\* The failed Pods of a Job are counted and never forgotten.
JobMoves ==
    /\ status.kind = "Job"
    /\ \E f, c \in BOOLEAN : status' = [status EXCEPT !.failed = @ \/ f, !.condition = @ \/ c]

ContainerMoves(i) == PullFails(i) \/ Runs(i) \/ Crashes(i) \/ BacksOff(i)

-----------------------------------------------------------------------------
(* Properties *)

\* A container that crashes again and again makes its Pod failed for good from
\* some point on, although between two crashes it runs and looks well: the
\* operator, which looks at a moment nobody chooses, cannot miss it for ever.
CrashLoopIsCaught ==
    \A i \in 1 .. 2 : []<><<Crashes(i)>>_status => <>[]Failed
=============================================================================
