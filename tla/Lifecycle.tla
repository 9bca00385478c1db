----------------------------- MODULE Lifecycle -----------------------------
(***************************************************************************)
(* One source under the commands of several callers: its node in the       *)
(* component graph (lib/src/component_graph/graph.rs), the shared start,   *)
(* stop, teardown and reconfigure procedures of the managers               *)
(* (lib/src/managers/lifecycle_helpers.rs), DrasiLib's add and remove      *)
(* (lib/src/lib_core_ops/source_ops.rs), and the source's own start, stop  *)
(* and background task (components/sources/postgres/src/lib.rs).           *)
(*                                                                         *)
(* The graph's status has two writers: commands change it at once, under   *)
(* the graph's lock, and the source's own reports reach it later, through  *)
(* one channel, where a report that is not a valid transition is dropped.  *)
(* A command is a sequence of steps between which the lock is free.        *)
(***************************************************************************)
EXTENDS Naturals, Sequences, FiniteSets

CONSTANTS
    Callers,    \* tasks that issue commands
    Races,      \* which of the races named below may happen
    MaxCalls,   \* bound: commands issued
    MaxInst,    \* bound: runtime instances created
    MaxFaults   \* bound: failures of a start, a stop, a task, a wait

(* overlapping_start: a start is claimed while another start, stop, update *)
(*     or remove is under way, or one of these during a start.             *)
(* double_update: an update is claimed while another is under way.         *)
(* stale_runtime: the instance is replaced or removed between the look at  *)
(*     it and the transition that claims it.                               *)
(* late_reports: a command claims the node while reports of an earlier one *)
(*     wait in the channel.                                                *)
(* readd: the source is added again while a remove of it is under way.     *)
(* late_query: a query is registered on a source that is being removed.    *)
(* early_failure: the task fails before the source reports Running.        *)
AllRaces == {"overlapping_start", "double_update", "stale_runtime", "late_reports",
             "readd", "late_query", "early_failure"}

ASSUME LifecycleAssumption ==
    /\ Races \subseteq AllRaces
    /\ {MaxCalls, MaxInst, MaxFaults} \subseteq Nat

Instances == 1..MaxInst
None == 0

VARIABLES
    node,       \* graph: the node's status, or "Absent"
    runtime,    \* graph: the instance stored for it, or None
    dep,        \* graph: a query is registered on the source
    chan,       \* the update channel
    local,      \* of each instance: its own status
    alive,      \* of each instance: its background tasks
    held,       \* of each instance: task_handle refers to a live task
    created,    \* how many instances there are
    call,       \* of each caller: the command under way
    calls,      \* bound
    faults      \* bound

graph == <<node, runtime, dep>>
source == <<local, alive, held, created>>
vars == <<node, runtime, dep, chan, local, alive, held, created, call, calls, faults>>

Status == {"Added", "Starting", "Running", "Stopping", "Stopped", "Error", "Reconfiguring"}
Idle == [op |-> "none", at |-> "idle", rt |-> None, was |-> FALSE]
Steps == {"idle", "provision", "claim", "start", "spawn", "report", "revert", "stop", "abort",
          "failed", "wait", "take", "deregister", "replace"}

TypeOK ==
    /\ node \in Status \union {"Absent"}
    /\ runtime \in Instances \union {None}
    /\ dep \in BOOLEAN
    /\ chan \in Seq(Status)
    /\ local \in [Instances -> {"Starting", "Running", "Stopping", "Stopped", "Error"}]
    /\ alive \in [Instances -> Nat]
    /\ held \in [Instances -> BOOLEAN]
    /\ created \in 0..MaxInst
    /\ call \in [Callers -> [op : {"none", "add", "start", "stop", "remove", "update"},
                             at : Steps, rt : Instances \union {None}, was : BOOLEAN]]
    /\ calls \in 0..MaxCalls
    /\ faults \in 0..MaxFaults
    /\ node = "Absent" => runtime = None
    /\ \A i \in Instances : held[i] => alive[i] > 0

Init ==
    /\ node = "Absent" /\ runtime = None /\ dep = FALSE
    /\ chan = <<>>
    /\ local = [i \in Instances |-> "Stopped"]
    /\ alive = [i \in Instances |-> 0]
    /\ held = [i \in Instances |-> FALSE]
    /\ created = 0
    /\ call = [c \in Callers |-> Idle]
    /\ calls = 0 /\ faults = 0

Fault == faults < MaxFaults /\ faults' = faults + 1

----------------------------------------------------------------------------
(* The graph.                                                              *)

\* Mutant: a stop that fails may not end in Error.
NoErrorFromStopping(from, to) ==
    <<from, to>> \in
        {<<"Added", "Starting">>, <<"Added", "Stopped">>, <<"Stopped", "Starting">>,
         <<"Starting", "Running">>, <<"Starting", "Error">>, <<"Starting", "Stopped">>,
         <<"Starting", "Stopping">>, <<"Running", "Stopping">>, <<"Running", "Stopped">>,
         <<"Running", "Error">>, <<"Stopping", "Stopped">>,
         <<"Error", "Starting">>, <<"Error", "Stopped">>, <<"Error", "Stopping">>}
        \union ({"Added", "Stopped", "Running", "Error"} \X {"Reconfiguring"})
        \union ({"Reconfiguring"} \X {"Stopped", "Starting", "Error"})

\* is_valid_transition, for a source.
IsValidTransition(from, to) ==
    <<from, to>> \in
        {<<"Added", "Starting">>, <<"Added", "Stopped">>, <<"Stopped", "Starting">>,
         <<"Starting", "Running">>, <<"Starting", "Error">>, <<"Starting", "Stopped">>,
         <<"Starting", "Stopping">>, <<"Running", "Stopping">>, <<"Running", "Stopped">>,
         <<"Running", "Error">>, <<"Stopping", "Stopped">>, <<"Stopping", "Error">>,
         <<"Error", "Starting">>, <<"Error", "Stopped">>, <<"Error", "Stopping">>}
        \union ({"Added", "Stopped", "Running", "Error"} \X {"Reconfiguring"})
        \union ({"Reconfiguring"} \X {"Stopped", "Starting", "Error"})

\* update_status: a transition that is not valid leaves the node as it is.
Moved(to) == IF IsValidTransition(node, to) THEN to ELSE node

\* The graph update loop applies the next report.
ApplyUpdate ==
    /\ chan # <<>>
    /\ node' = Moved(Head(chan))
    /\ chan' = Tail(chan)
    /\ UNCHANGED <<runtime, dep, source, call, calls, faults>>

\* register_query needs the source's node; deregister has no such need.
RegisterQuery ==
    /\ node # "Absent" /\ ~dep
    /\ "late_query" \in Races \/ \A c \in Callers : call[c].op # "remove"
    /\ dep' = TRUE
    /\ UNCHANGED <<node, runtime, chan, source, call, calls, faults>>

DeregisterQuery ==
    /\ dep
    /\ dep' = FALSE
    /\ UNCHANGED <<node, runtime, chan, source, call, calls, faults>>

----------------------------------------------------------------------------
(* The commands: each begins with a look at the graph.                     *)

At(c, step) == call[c].at = step
Goto(c, step) == call' = [call EXCEPT ![c].at = step]
Return(c) == call' = [call EXCEPT ![c] = Idle]
UnderWay(op) == \E c \in Callers : call[c].op = op /\ ~At(c, "claim")
Claims(c, op) == At(c, "claim") /\ call[c].op = op /\ ("late_reports" \in Races \/ chan = <<>>)
Room == created + Cardinality({c \in Callers : call[c].op \in {"add", "update"}}) < MaxInst

\* get_runtime: the look and the claim that follows are under two locks.
Found(c) == IF "stale_runtime" \in Races THEN call[c].rt ELSE runtime

\* add_source registers the node; the others look up the runtime, remove
\* after it has seen that nothing depends on the source.
Call(c, op) ==
    /\ At(c, "idle")
    /\ calls < MaxCalls /\ calls' = calls + 1
    /\ op \in {"add", "update"} => Room
    /\ IF op = "add"
       THEN /\ node = "Absent"
            /\ "readd" \in Races \/ ~UnderWay("remove")
            /\ node' = "Added"
            /\ call' = [call EXCEPT ![c].op = op, ![c].at = "provision"]
       ELSE /\ runtime # None
            /\ op = "remove" => ~dep
            /\ call' = [call EXCEPT ![c].op = op, ![c].at = "claim", ![c].rt = runtime]
            /\ UNCHANGED node
    /\ UNCHANGED <<runtime, dep, chan, source, faults>>

\* provision_source, and a start if the library is running. set_runtime
\* needs the node.
Provision(c) ==
    /\ At(c, "provision")
    /\ created' = created + 1
    /\ IF node = "Absent" THEN UNCHANGED runtime /\ Return(c)
       ELSE /\ runtime' = created + 1
            /\ \/ Return(c)
               \/ call' = [call EXCEPT ![c].op = "start", ![c].at = "claim", ![c].rt = created + 1]
    /\ UNCHANGED <<node, dep, chan, local, alive, held, calls, faults>>

\* validate_and_transition is an error unless the node is, or is already, in
\* the state asked for.
Claim(c, op, to, next) ==
    /\ Claims(c, op)
    /\ IF Found(c) = None THEN UNCHANGED node /\ Return(c)
       ELSE /\ node' = Moved(to)
            /\ IF node' # to THEN Return(c)
               ELSE call' = [call EXCEPT ![c].at = next, ![c].rt = Found(c)]
    /\ UNCHANGED <<runtime, dep, chan, source, calls, faults>>

ClaimStart(c) ==
    /\ "overlapping_start" \in Races
           \/ ~\E op \in {"start", "stop", "remove", "update"} : UnderWay(op)
    /\ Claim(c, "start", "Starting", "start")

StopRace == "overlapping_start" \in Races \/ ~UnderWay("start")

ClaimStop(c) == StopRace /\ Claim(c, "stop", "Stopping", "stop")

\* teardown_component: not while stopping or reconfiguring; stop what runs.
ClaimRemove(c) ==
    /\ StopRace
    /\ Claims(c, "remove")
    /\ IF Found(c) = None \/ node \in {"Absent", "Stopping", "Reconfiguring"}
       THEN UNCHANGED node /\ Return(c)
       ELSE /\ node' = Moved("Stopping")
            /\ call' = [call EXCEPT ![c].at = IF node' = "Stopping" THEN "stop" ELSE "take",
                                    ![c].rt = Found(c)]
    /\ UNCHANGED <<runtime, dep, chan, source, calls, faults>>

\* reconfigure_component: whether to stop and to restart is read first.
ClaimUpdate(c) ==
    /\ StopRace
    /\ "double_update" \in Races \/ ~UnderWay("update")
    /\ Claims(c, "update")
    /\ IF Found(c) = None THEN UNCHANGED node /\ Return(c)
       ELSE /\ node' = Moved("Reconfiguring")
            /\ IF node' # "Reconfiguring" THEN Return(c)
               ELSE call' = [call EXCEPT
                       ![c].was = node \in {"Running", "Starting"},
                       ![c].at = IF IsValidTransition(node, "Stopping") THEN "stop" ELSE "replace",
                       ![c].rt = Found(c)]
    /\ UNCHANGED <<runtime, dep, chan, source, calls, faults>>

----------------------------------------------------------------------------
(* The source's start.                                                     *)

\* set_status: the source's own status, then a report to the graph.
SetStatus(i, s) == local' = [local EXCEPT ![i] = s] /\ chan' = Append(chan, s)

SourceStarts(c) ==
    LET i == call[c].rt
    IN /\ At(c, "start")
       /\ IF local[i] = "Running" THEN Return(c) /\ UNCHANGED <<local, chan>>
          ELSE SetStatus(i, "Starting") /\ Goto(c, "spawn")
       /\ UNCHANGED <<graph, alive, held, created, calls, faults>>

\* spawn_replication_task: the handle of an earlier task is overwritten.
SpawnTask(c) ==
    LET i == call[c].rt
    IN /\ At(c, "spawn")
       /\ alive' = [alive EXCEPT ![i] = @ + 1]
       /\ held' = [held EXCEPT ![i] = TRUE]
       /\ Goto(c, "report")
       /\ UNCHANGED <<graph, chan, local, created, calls, faults>>

\* Mutant: the graph is not told.
RunsSilently(c) ==
    /\ At(c, "report")
    /\ local' = [local EXCEPT ![call[c].rt] = "Running"]
    /\ Return(c)
    /\ UNCHANGED <<graph, chan, alive, held, created, calls, faults>>

ReportRunning(c) ==
    /\ At(c, "report")
    /\ SetStatus(call[c].rt, "Running")
    /\ Return(c)
    /\ UNCHANGED <<graph, alive, held, created, calls, faults>>

\* The task could not connect: it is joined, and may have reported the
\* failure before the start does.
StartFails(c) ==
    /\ At(c, "spawn")
    /\ Fault
    /\ local' = [local EXCEPT ![call[c].rt] = "Error"]
    /\ chan' \in {chan \o <<"Error">>, chan \o <<"Error", "Error">>}
    /\ Goto(c, "revert")
    /\ UNCHANGED <<graph, alive, held, created, calls>>

\* start_component reverts the node.
RevertStart(c) ==
    /\ At(c, "revert")
    /\ node' = Moved("Error")
    /\ Return(c)
    /\ UNCHANGED <<runtime, dep, chan, source, calls, faults>>

----------------------------------------------------------------------------
(* The source's stop.                                                      *)

AfterStop(c) == IF call[c].op = "stop" THEN Return(c) ELSE Goto(c, "wait")

\* stop_runtime reports for a source that has stopped already, if that is
\* the one in the graph.
SourceStops(c) ==
    LET i == call[c].rt
    IN /\ At(c, "stop")
       /\ CASE runtime # None /\ local[runtime] = "Stopped" ->
                 chan' = Append(chan, "Stopped") /\ UNCHANGED local /\ AfterStop(c)
            [] ~(runtime # None /\ local[runtime] = "Stopped") /\ local[i] = "Stopped" ->
                 UNCHANGED <<chan, local>> /\ AfterStop(c)
            [] OTHER -> SetStatus(i, "Stopping") /\ Goto(c, "abort")
       /\ UNCHANGED <<graph, alive, held, created, calls, faults>>

\* Mutant: the task is detached, not joined.
Detached(i) == UNCHANGED alive /\ held' = [held EXCEPT ![i] = FALSE]

\* Mutant: the handle of the joined task is kept.
HandleKept(i) == alive' = [alive EXCEPT ![i] = IF held[i] THEN @ - 1 ELSE @] /\ UNCHANGED held

\* abort_and_join_task.
Aborted(i) ==
    /\ alive' = [alive EXCEPT ![i] = IF held[i] THEN @ - 1 ELSE @]
    /\ held' = [held EXCEPT ![i] = FALSE]

AbortTask(c) ==
    LET i == call[c].rt
    IN /\ At(c, "abort")
       /\ Aborted(i)
       /\ SetStatus(i, "Stopped")
       /\ AfterStop(c)
       /\ UNCHANGED <<graph, created, calls, faults>>

\* The task panics while it is being aborted.
AbortFails(c) ==
    LET i == call[c].rt
    IN /\ At(c, "abort") /\ held[i]
       /\ Fault
       /\ Aborted(i)
       /\ SetStatus(i, "Error")
       /\ Goto(c, "failed")
       /\ UNCHANGED <<graph, created, calls>>

\* The node is put in Error; a teardown goes on, an update ends.
RevertStop(c) ==
    /\ At(c, "failed")
    /\ node' = Moved("Error")
    /\ IF call[c].op = "remove" THEN Goto(c, "wait") ELSE Return(c)
    /\ UNCHANGED <<runtime, dep, chan, source, calls, faults>>

\* wait_for_status.
Waited(c) ==
    /\ At(c, "wait") /\ node \in {"Stopped", "Error"}
    /\ Goto(c, IF call[c].op = "remove" THEN "take" ELSE "replace")
    /\ UNCHANGED <<graph, chan, source, calls, faults>>

\* After ten seconds, or when the node is gone.
WaitFails(c) ==
    /\ At(c, "wait") /\ node \notin {"Stopped", "Error"}
    /\ IF node = "Absent" THEN UNCHANGED faults ELSE Fault
    /\ IF call[c].op = "remove" THEN Goto(c, "take") /\ UNCHANGED node
       ELSE Return(c) /\ node' = Moved("Error")
    /\ UNCHANGED <<runtime, dep, chan, source, calls>>

----------------------------------------------------------------------------
(* The end of a remove and of an update.                                   *)

TakeRuntime(c) ==
    /\ At(c, "take")
    /\ runtime' = None
    /\ Goto(c, "deregister")
    /\ UNCHANGED <<node, dep, chan, source, calls, faults>>

\* A source with dependents stays, to be put in Error.
Deregister(c) ==
    /\ At(c, "deregister")
    /\ IF dep THEN node' = Moved("Error") /\ UNCHANGED runtime
       ELSE node' = "Absent" /\ runtime' = None
    /\ Return(c)
    /\ UNCHANGED <<dep, chan, source, calls, faults>>

\* init_and_replace, then a start of the new instance or Stopped.
Replace(c) ==
    /\ At(c, "replace")
    /\ IF runtime = None
       THEN node' = Moved("Error") /\ Return(c) /\ UNCHANGED runtime
       ELSE /\ runtime' = created + 1
            /\ IF call[c].was
               THEN /\ call' = [call EXCEPT ![c].op = "start", ![c].at = "claim",
                                            ![c].rt = created + 1]
                    /\ UNCHANGED node
               ELSE node' = Moved("Stopped") /\ Return(c)
    /\ created' = created + 1
    /\ UNCHANGED <<dep, chan, local, alive, held, calls, faults>>

----------------------------------------------------------------------------
(* The background task.                                                    *)

Dies(i) ==
    /\ alive' = [alive EXCEPT ![i] = @ - 1]
    /\ held' = [held EXCEPT ![i] = @ /\ alive[i] > 1]

TaskFails(i) ==
    /\ alive[i] > 0
    /\ "early_failure" \in Races \/ local[i] = "Running"
    /\ Fault
    /\ Dies(i)
    /\ SetStatus(i, "Error")
    /\ UNCHANGED <<graph, created, call, calls>>

\* The task looks at the source's status between two messages.
TaskQuits(i) ==
    /\ alive[i] > 0 /\ local[i] \in {"Stopping", "Stopped"}
    /\ Dies(i)
    /\ UNCHANGED <<graph, chan, local, created, call, calls, faults>>

Step(c) ==
    \/ Provision(c) \/ ClaimStart(c) \/ ClaimStop(c) \/ ClaimRemove(c) \/ ClaimUpdate(c)
    \/ SourceStarts(c) \/ SpawnTask(c) \/ ReportRunning(c) \/ RevertStart(c)
    \/ SourceStops(c) \/ AbortTask(c) \/ RevertStop(c) \/ Waited(c) \/ WaitFails(c)
    \/ TakeRuntime(c) \/ Deregister(c) \/ Replace(c)

Next ==
    \/ ApplyUpdate \/ RegisterQuery \/ DeregisterQuery
    \/ \E c \in Callers :
          \/ \E op \in {"add", "start", "stop", "remove", "update"} : Call(c, op)
          \/ Step(c) \/ StartFails(c) \/ AbortFails(c)
    \/ \E i \in Instances : TaskFails(i) \/ TaskQuits(i)

Spec == Init /\ [][Next]_vars

(* The update loop and the callers are tasks that tokio runs as long as    *)
(* they can run.                                                           *)
FairSpec == Spec /\ WF_vars(ApplyUpdate) /\ \A c \in Callers : WF_vars(Step(c))

----------------------------------------------------------------------------
Settled == chan = <<>> /\ \A c \in Callers : At(c, "idle")

(* When no command is under way and no report on its way, the graph tells  *)
(* the status of the instance it holds.                                    *)
GraphTellsTruth ==
    Settled /\ runtime # None =>
        /\ node \in {"Added", "Stopped"} => local[runtime] = "Stopped"
        /\ node = "Running" => local[runtime] = "Running"
        /\ node = "Error" => local[runtime] \in {"Error", "Stopped"}
        /\ node \in {"Added", "Stopped", "Running", "Error"}

(* No task outlives the commands that should have ended it: the only one   *)
(* is that of a running source the graph holds, and stop can reach it.     *)
NoStrayTask ==
    Settled => \A i \in Instances :
        IF i = runtime /\ local[i] = "Running" THEN alive[i] = 1 /\ held[i]
        ELSE held[i] = FALSE /\ (alive[i] > 0 => local[i] \in {"Stopping", "Stopped"})

(* A removed source is gone from the graph, or in Error: deregister can    *)
(* fail after the teardown, and then "Rather than returning an error (which *)
(* would leave an orphaned graph node with no runtime backing), set the    *)
(* component to Error state" (lib/src/lib_core_ops/source_ops.rs).         *)
OrphanInError ==
    Settled /\ node # "Absent" /\ runtime = None => node = "Error"

(* No command leaves the source between two states.                        *)
NotStuck ==
    node \in {"Starting", "Stopping", "Reconfiguring"}
        ~> node \in {"Absent", "Added", "Running", "Stopped", "Error"}

=============================================================================
