------------------------------ MODULE Workflows ------------------------------
(***************************************************************************)
(* The workflow bridge: an approval is an instance, its task and the       *)
(* decisions recorded for it (apps/api/src/platform/platform-controls/     *)
(* workflow-bridge-service.ts).  The bridge checks nothing: a service      *)
(* reads the instance, and then records the decision, completes the task   *)
(* and completes the instance in three transactions.                       *)
(***************************************************************************)
EXTENDS ServiceCalls

CONSTANT Instances   \* identifiers of workflow_instance rows

VARIABLE instances

\* The change that an instance is to approve is its context.
Instance(contexts) ==
  [context : contexts, status : {"running", "completed"},
   task : {"none", "assigned", "completed"},
   decisions : SUBSET {"approved", "rejected", "returned"}]

Exists(i) == instances[i] # Absent

Running(i) == Exists(i) /\ instances[i].status = "running"

\* A mutant for Closing: the task is not looked for.
ClosingWithoutTask(i, decision, then) ==
  [at |-> "recordDecision", instance |-> i, decision |-> decision, task |-> "none",
   then |-> then]

\* How the services close an instance: the decision, the task that was found, and the
\* instance, and then whatever the decision asks for.
Closing(i, decision, then) ==
  [at |-> "recordDecision", instance |-> i, decision |-> decision,
   task |-> instances[i].task, then |-> then]

-------------------------------------------------------------------------------

\* startWorkflowInstance.
StartInstance(q) ==
  /\ req[q].at = "startInstance"
  /\ Unused(instances) # {}
  /\ LET i == CHOOSE j \in Unused(instances) : TRUE
     IN  /\ instances' = [instances EXCEPT ![i] =
                            [context |-> req[q].context, status |-> "running",
                             task |-> "none", decisions |-> {}]]
         /\ Writes(q, {i}, [at |-> "assignTask", instance |-> i, then |-> req[q].then])

\* assignWorkflowTask; what follows is told which instance it was.
AssignTask(q) ==
  /\ req[q].at = "assignTask"
  /\ LET i == req[q].instance
         next == req[q].then
     IN  /\ instances' = [instances EXCEPT ![i].task = "assigned"]
         /\ Writes(q, {i}, IF next = Done THEN Done ELSE [next EXCEPT !.instance = i])

\* recordWorkflowDecision appends, whatever the status of the instance.
RecordDecision(q) ==
  /\ req[q].at = "recordDecision"
  /\ LET i == req[q].instance
     IN  /\ instances' = [instances EXCEPT ![i].decisions = @ \cup {req[q].decision}]
         /\ Writes(q, {i}, [req[q] EXCEPT !.at = "completeTask"])

\* completeWorkflowTask, for the task that was found, if any.
CompleteTask(q) ==
  /\ req[q].at = "completeTask"
  /\ LET i == req[q].instance
         next == [req[q] EXCEPT !.at = "completeInstance"]
     IN  IF req[q].task = "none"
         THEN Reads(q, next) /\ UNCHANGED instances
         ELSE /\ instances' = [instances EXCEPT ![i].task = "completed"]
              /\ Writes(q, {i}, next)

\* completeWorkflowInstance.
CompleteInstance(q) ==
  /\ req[q].at = "completeInstance"
  /\ LET i == req[q].instance
     IN  /\ instances' = [instances EXCEPT ![i].status = "completed"]
         /\ Writes(q, {i}, req[q].then)

WorkflowStep(q) ==
  \/ StartInstance(q)
  \/ AssignTask(q)
  \/ RecordDecision(q)
  \/ CompleteTask(q)
  \/ CompleteInstance(q)

===============================================================================
