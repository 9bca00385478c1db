-------------------------- MODULE LifecycleProofs --------------------------
(***************************************************************************)
(* What holds of Lifecycle for any number of callers, commands, instances  *)
(* and failures: when nothing is under way the graph tells the truth, and  *)
(* no task outlives its source, as long as commands do not overlap in one  *)
(* of the ways the races name.                                             *)
(***************************************************************************)
EXTENDS Lifecycle, FiniteSetTheorems, SequenceTheorems, TLAPS

----------------------------------------------------------------------------
(* The inductive invariant.                                                *)

\* The callers that will create an instance, which there is room for.
Making == {c \in Callers : call[c].op \in {"add", "update"}}

RoomInv == IsFiniteSet(Making) /\ created + Cardinality(Making) <= MaxInst

\* The reports on their way, and the last of them.
Reports == {chan[k] : k \in DOMAIN chan}
Latest == chan[Len(chan)]

\* A caller that has claimed the node to start the source, or to stop it.
Starter(c) == call[c].op = "start" /\ ~At(c, "claim")
Stopper(c) == call[c].op \in {"stop", "remove", "update"} /\ ~At(c, "claim")

\* A caller that is about to stop the source, or to report that it stopped.
Stops == \E c \in Callers : call[c].at \in {"stop", "abort"}

\* The status of the source the graph holds.
Own == IF runtime = None THEN "Absent" ELSE local[runtime]

\* Where a node is whose source is not stopped.
Live == {"Starting", "Running", "Stopping", "Error", "Reconfiguring"}

StepsOf(op) ==
    CASE op = "none"   -> {"idle"}
      [] op = "add"    -> {"provision"}
      [] op = "start"  -> {"claim", "start", "spawn", "report", "revert"}
      [] op = "stop"   -> {"claim", "stop", "abort", "failed"}
      [] op = "remove" -> {"claim", "stop", "abort", "failed", "wait", "take", "deregister"}
      [] OTHER         -> {"claim", "stop", "abort", "failed", "wait", "replace"}

\* A command is at one of its steps.
StepInv == \A c \in Callers : call[c].at \in StepsOf(call[c].op)

\* An instance that is yet to be created has done nothing.
MadeInv ==
    /\ runtime <= created
    /\ \A c \in Callers : Starter(c) \/ Stopper(c) => call[c].rt \in 1..created
    /\ \A i \in Instances : i > created => local[i] = "Stopped" /\ alive[i] = 0

\* A start is alone, and so is an add.
TurnInv ==
    \A c, d \in Callers :
        /\ Starter(c) => ~Stopper(d) /\ (Starter(d) => c = d)
        /\ At(c, "provision") /\ At(d, "provision") => c = d

\* An instance has at most one task, whose handle it has; one that runs is in
\* the graph, and one between two states is in the hands of a caller.
TaskOf(i) ==
    /\ alive[i] = IF held[i] THEN 1 ELSE 0
    /\ local[i] = "Running" => held[i] /\ i = runtime
    /\ local[i] \in {"Stopped", "Error"} => ~held[i]
    /\ local[i] = "Starting" =>
          \E c \in Callers : call[c].rt = i /\ call[c].at \in {"spawn", "report"}
    /\ local[i] = "Stopping" => \E c \in Callers : call[c].rt = i /\ At(c, "abort")

TaskInv == \A i \in Instances : TaskOf(i)

\* A start is about the source in the graph, and goes through its steps.
StartInv ==
    \A c \in Callers : Starter(c) =>
        /\ call[c].rt = runtime
        /\ At(c, "start") => node = "Starting" /\ chan = <<>> /\ Own \in {"Stopped", "Error"}
        /\ At(c, "spawn") => Own = "Starting" /\ ~held[runtime]
        /\ At(c, "report") => Own = "Starting" /\ held[runtime]
        /\ call[c].at \in {"spawn", "report"} => node = "Starting" /\ Reports \subseteq {"Starting"}
        /\ At(c, "revert") => Own = "Error"

\* While a stop, a remove or an update is under way no source starts, and one
\* that has replaced the source it is about is stopped.
StopInv ==
    \A c \in Callers : Stopper(c) =>
        /\ Own \in {"Absent", "Stopped"} \/ call[c].rt = runtime
        /\ ~At(c, "stop") => Own # "Running"
        /\ Own # "Starting"
        /\ node \notin {"Starting", "Running"}
        /\ Reports \intersect {"Starting", "Running"} = {}

\* Nothing is in the way of an add, nor of a remove.
AddInv ==
    \A c \in Callers :
        /\ At(c, "provision") => /\ node \in {"Added", "Stopped"} /\ runtime = None
                                 /\ ~UnderWay("remove")
        /\ At(c, "deregister") => runtime = None
        /\ call[c].op = "remove" => ~dep

\* The reports there may be, and who will follow up on the last of them.
ReportInv ==
    /\ Reports \intersect {"Starting", "Running"} # {} =>
          Reports \subseteq {"Starting", "Running", "Error"} /\ Own \notin {"Absent", "Stopped"}
    /\ node = "Running" => Own \notin {"Absent", "Stopped"}
    /\ Own \notin {"Absent", "Stopped"} => node \in Live /\ "Stopped" \notin Reports
    /\ Reports \subseteq {"Starting", "Running", "Stopping", "Stopped", "Error"}
    /\ chan # <<>> => /\ Latest = "Starting" => UnderWay("start")
                      /\ Latest = "Running" => Own = "Running"
                      /\ Latest = "Stopping" => \E c \in Callers : At(c, "abort")

\* The node is, or will be after the reports, in this state.
RunComing ==
    /\ node \in {"Starting", "Running"} /\ Reports \subseteq {"Starting", "Running"}
    /\ IF chan = <<>> THEN node = "Running" ELSE Latest = "Running"

ErrorComing ==
    /\ node \in Live /\ Reports \subseteq {"Starting", "Running", "Stopping", "Error"}
    /\ IF chan = <<>> THEN node = "Error" ELSE Latest = "Error"

\* A source that runs or has failed is shown to, unless somebody is about to
\* change that.
OwnInv ==
    /\ Own = "Running" /\ (\A c \in Callers : ~Stopper(c)) => RunComing
    /\ Own = "Error" => ErrorComing \/ \E c \in Callers : call[c].at \in {"stop", "start"}

\* A node between two states has a caller or a report that takes it out.
NodeInv ==
    /\ node = "Reconfiguring" /\ Own \notin {"Absent", "Stopped"} => UnderWay("update")
    /\ runtime # None =>
        /\ node = "Stopping" => \/ chan # <<>> /\ Latest \in {"Stopped", "Error"}
                                \/ UnderWay("remove") \/ Stops
        /\ node = "Reconfiguring" => \/ UnderWay("remove") \/ UnderWay("update")
                                     \/ \E c \in Callers : call[c].op = "start"
        /\ node = "Starting" => \/ UnderWay("start")
                                \/ chan # <<>> /\ Latest \in {"Running", "Error"}

TInv == TypeOK /\ RoomInv /\ StepInv

IInv ==
    /\ TInv
    /\ MadeInv /\ TurnInv /\ TaskInv /\ StartInv /\ StopInv /\ AddInv
    /\ ReportInv /\ OwnInv /\ NodeInv

----------------------------------------------------------------------------
(* Types, for any races.                                                   *)

Ops == {"none", "add", "start", "stop", "remove", "update"}

Command == [op : Ops, at : Steps, rt : Instances \union {None}, was : BOOLEAN]

\* The steps of a command are steps.
LEMMA StepsSteps ==
    ASSUME NEW op \in Ops
    PROVE  StepsOf(op) \subseteq Steps
  BY DEF Ops, StepsOf, Steps

\* The caller's command is at this step now, with this instance.
Turns(c, op, at, rt) ==
    /\ call' \in [Callers -> Command]
    /\ \A d \in Callers : d # c => call'[d] = call[d]
    /\ call'[c].op = op /\ call'[c].at = at /\ call'[c].rt = rt

\* The ways a caller's own command changes, and no other.
LEMMA GotoTurns ==
    ASSUME TypeOK, NEW c \in Callers, NEW s \in Steps, Goto(c, s)
    PROVE  Turns(c, call[c].op, s, call[c].rt)
  <1>1. call \in [Callers -> Command]
    BY DEF TypeOK, Command, Ops
  <1>2. call' = [call EXCEPT ![c].at = s]
    BY DEF Goto
  <1> QED
    BY <1>1, <1>2 DEF Turns, Command

LEMMA ReturnTurns ==
    ASSUME TypeOK, NEW c \in Callers, Return(c)
    PROVE  Turns(c, "none", "idle", None)
  <1>1. call \in [Callers -> Command]
    BY DEF TypeOK, Command, Ops
  <1>2. Idle \in Command /\ Idle.op = "none" /\ Idle.at = "idle" /\ Idle.rt = None
    BY DEF Idle, Command, Ops, Steps
  <1> QED
    BY <1>1, <1>2 DEF Turns, Return

LEMMA ClaimTurns ==
    ASSUME TypeOK, NEW c \in Callers, NEW s \in Steps, NEW i \in Instances \union {None},
           call' = [call EXCEPT ![c].at = s, ![c].rt = i]
    PROVE  Turns(c, call[c].op, s, i)
  <1>1. call \in [Callers -> Command]
    BY DEF TypeOK, Command, Ops
  <1> QED
    BY <1>1 DEF Turns, Command

LEMMA UpdateTurns ==
    ASSUME TypeOK, NEW c \in Callers, NEW s \in Steps, NEW i \in Instances \union {None},
           NEW w \in BOOLEAN, call' = [call EXCEPT ![c].was = w, ![c].at = s, ![c].rt = i]
    PROVE  Turns(c, call[c].op, s, i)
  <1>1. call \in [Callers -> Command]
    BY DEF TypeOK, Command, Ops
  <1> DEFINE r == call[c]
             t == [r EXCEPT !.was = w, !.at = s, !.rt = i]
  <1>2. r \in Command /\ call' = [call EXCEPT ![c] = t]
    BY <1>1
  <1> HIDE DEF r
  <1>3. t \in Command /\ t.op = r.op /\ t.at = s /\ t.rt = i
    BY <1>2 DEF Command
  <1> HIDE DEF t
  <1>4. ASSUME NEW d \in Callers
        PROVE  call'[d] = IF d = c THEN t ELSE call[d]
    BY <1>1, <1>2, Zenon
  <1>5. call' \in [Callers -> Command]
    BY <1>1, <1>2, <1>3, Zenon
  <1> QED
    BY <1>3, <1>4, <1>5 DEF Turns, r

LEMMA CallTurns ==
    ASSUME TypeOK, NEW c \in Callers, NEW o \in Ops, NEW s \in Steps,
           NEW i \in Instances \union {None},
           call' = [call EXCEPT ![c].op = o, ![c].at = s, ![c].rt = i]
    PROVE  Turns(c, o, s, i)
  <1>1. call \in [Callers -> Command]
    BY DEF TypeOK, Command, Ops
  <1> QED
    BY <1>1 DEF Turns, Command

LEMMA AddTurns ==
    ASSUME TypeOK, NEW c \in Callers, call' = [call EXCEPT ![c].op = "add", ![c].at = "provision"]
    PROVE  Turns(c, "add", "provision", call[c].rt)
  <1>1. call \in [Callers -> Command]
    BY DEF TypeOK, Command, Ops
  <1>2. "add" \in Ops /\ "provision" \in Steps
    BY DEF Ops, Steps
  <1> QED
    BY <1>1, <1>2 DEF Turns, Command

\* A change of the caller's own command, its type and what is left to create.
LEMMA CommandChanged ==
    ASSUME TInv, NEW c \in Callers, NEW op, NEW at, NEW rt, Turns(c, op, at, rt),
           at \in StepsOf(op),
           \/ call[c].op \in {"add", "update"} /\ op \notin {"add", "update"}
                 /\ created' \in {created, created + 1}
           \/ (op \in {"add", "update"} => call[c].op \in {"add", "update"})
                 /\ created' = created
           \/ Room /\ created' = created
    PROVE  /\ call' \in [Callers -> Command] /\ RoomInv' /\ StepInv'
           /\ created' \in 0..MaxInst
  <1>1. call \in [Callers -> Command] /\ created \in 0..MaxInst /\ MaxInst \in Nat
    BY LifecycleAssumption DEF TInv, TypeOK, Command, Ops
  <1>2. call' \in [Callers -> Command]
    BY DEF Turns
  <1>3. /\ \A d \in Callers : d # c => call'[d] = call[d]
        /\ call'[c].op = op /\ call'[c].at = at
    BY DEF Turns
  <1>4. StepInv'
    BY <1>3 DEF TInv, StepInv
  <1>5. Making' = {d \in Callers : (d # c /\ call[d].op \in {"add", "update"})
                                     \/ (d = c /\ op \in {"add", "update"})}
    BY <1>3 DEF Making
  <1>6. IsFiniteSet(Making) /\ created + Cardinality(Making) <= MaxInst
    BY DEF TInv, RoomInv
  <1>7. Cardinality(Making) \in Nat
    BY <1>6, FS_CardinalityType
  <1>8. CASE c \in Making /\ c \notin Making'
    <2>1. Making' = Making \ {c}
      BY <1>5, <1>8 DEF Making
    <2>2. IsFiniteSet(Making') /\ Cardinality(Making') = Cardinality(Making) - 1
      BY <1>6, <1>8, <2>1, FS_RemoveElement
    <2>3. created' \in {created, created + 1}
      OBVIOUS
    <2>4. Cardinality(Making') \in Nat
      BY <2>2, FS_CardinalityType
    <2>5. created' + Cardinality(Making') <= MaxInst /\ created' \in 0..MaxInst
      BY <1>1, <1>6, <1>7, <2>2, <2>3, <2>4
    <2> QED
      BY <1>2, <1>4, <2>2, <2>5 DEF RoomInv
  <1>9. CASE c \in Making <=> c \in Making'
    <2>1. Making' = Making
      BY <1>5, <1>9 DEF Making
    <2>2. created' = created
      BY <1>3, <1>5, <1>9 DEF Making
    <2> QED
      BY <1>1, <1>2, <1>4, <1>6, <2>1, <2>2 DEF RoomInv
  <1>10. CASE c \notin Making /\ c \in Making'
    <2>1. Making' = Making \union {c}
      BY <1>5, <1>10 DEF Making
    <2>2. IsFiniteSet(Making') /\ Cardinality(Making') = Cardinality(Making) + 1
      BY <1>6, <1>10, <2>1, FS_AddElement
    <2>3. Room /\ created' = created
      BY <1>3, <1>5, <1>10 DEF Making
    <2>4. created + Cardinality(Making) < MaxInst
      BY <2>3 DEF Room, Making
    <2> QED
      BY <1>1, <1>2, <1>4, <1>7, <2>2, <2>3, <2>4 DEF RoomInv
  <1> QED
    BY <1>8, <1>9, <1>10

\* What a step leaves to show once the command's turn is known.
LEMMA TypedAgain ==
    ASSUME TInv, NEW c \in Callers, NEW op, NEW at, NEW rt, Turns(c, op, at, rt),
           at \in StepsOf(op), created' = created,
           op \in {"add", "update"} => call[c].op \in {"add", "update"}
    PROVE  call' \in [Callers -> Command] /\ created' \in 0..MaxInst /\ RoomInv' /\ StepInv'
  BY CommandChanged

\* What the instances are.
SourceType ==
    /\ local \in [Instances -> {"Starting", "Running", "Stopping", "Stopped", "Error"}]
    /\ alive \in [Instances -> Nat]
    /\ held \in [Instances -> BOOLEAN]
    /\ \A i \in Instances : held[i] => alive[i] > 0

\* What the graph and its reports are.
GraphType ==
    /\ node \in Status \union {"Absent"}
    /\ runtime \in Instances \union {None}
    /\ dep \in BOOLEAN
    /\ chan \in Seq(Status)
    /\ node = "Absent" => runtime = None

CountType == calls \in 0..MaxCalls /\ faults \in 0..MaxFaults

\* The type invariant by its parts, in this state and in the next.
LEMMA TypeParts ==
    TypeOK <=> /\ SourceType /\ GraphType /\ CountType
               /\ created \in 0..MaxInst /\ call \in [Callers -> Command]
  BY DEF TypeOK, SourceType, GraphType, CountType, Command, Ops

LEMMA TypePartsNext ==
    TypeOK' <=> /\ SourceType' /\ GraphType' /\ CountType'
                /\ created' \in 0..MaxInst /\ call' \in [Callers -> Command]
  BY DEF TypeOK, SourceType, GraphType, CountType, Command, Ops

\* The graph after a transition.
LEMMA MovedTyped ==
    ASSUME NEW to \in Status
    PROVE  /\ Moved(to) \in {node, to}
           /\ node = "Absent" => Moved(to) = "Absent"
  BY DEF Moved, IsValidTransition, Status

----------------------------------------------------------------------------
(* The effect of each step of a command on the command itself.             *)

Gone(c) == Turns(c, "none", "idle", None)

\* The instance a command finds.
LEMMA FoundTyped ==
    ASSUME TypeOK, NEW c \in Callers
    PROVE  Found(c) \in Instances \union {None}
  BY DEF TypeOK, Found

LEMMA StepNames ==
    /\ {"idle", "provision", "claim", "start", "spawn", "report", "revert", "stop", "abort"} \subseteq Steps
    /\ {"failed", "wait", "take", "deregister", "replace"} \subseteq Steps
    /\ {"none", "add", "start", "stop", "remove", "update"} \subseteq Ops
  BY DEF Steps, Ops

\* A command begins.
LEMMA CallEffect ==
    ASSUME TypeOK, NEW c \in Callers, NEW op \in {"add", "start", "stop", "remove", "update"},
           Call(c, op)
    PROVE  \/ /\ op = "add" /\ node = "Absent" /\ node' = "Added"
              /\ Turns(c, "add", "provision", call[c].rt)
           \/ /\ op # "add" /\ runtime # None /\ node' = node
              /\ op = "remove" => ~dep
              /\ Turns(c, op, "claim", runtime)
  <1>1. CASE op = "add"
    <2>1. /\ node = "Absent" /\ node' = "Added"
          /\ call' = [call EXCEPT ![c].op = "add", ![c].at = "provision"]
      BY <1>1 DEF Call
    <2> QED
      BY <1>1, <2>1, AddTurns
  <1>2. CASE op # "add"
    <2>1. /\ runtime # None /\ node' = node /\ (op = "remove" => ~dep)
          /\ call' = [call EXCEPT ![c].op = op, ![c].at = "claim", ![c].rt = runtime]
      BY <1>2 DEF Call
    <2>2. runtime \in Instances \union {None} /\ op \in Ops /\ "claim" \in Steps
      BY StepNames DEF TypeOK
    <2> QED
      BY <1>2, <2>1, <2>2, CallTurns
  <1> QED
    BY <1>1, <1>2

\* An add provides the instance, and may go on as a start.
LEMMA ProvisionEffect ==
    ASSUME TInv, NEW c \in Callers, Provision(c)
    PROVE  /\ created + 1 \in Instances
           /\ \/ node = "Absent" /\ runtime' = runtime /\ Gone(c)
              \/ /\ node # "Absent" /\ runtime' = created + 1
                 /\ Gone(c) \/ Turns(c, "start", "claim", created + 1)
  <1>0. TypeOK
    BY DEF TInv
  <1>1. created + 1 \in Instances
    <2>1. c \in Making
      BY DEF TInv, StepInv, StepsOf, Provision, At, Making, TypeOK
    <2>2. IsFiniteSet(Making) /\ created + Cardinality(Making) <= MaxInst
      BY DEF TInv, RoomInv
    <2>3. Cardinality(Making) \in Nat /\ Cardinality(Making) # 0
      BY <2>1, <2>2, FS_CardinalityType, FS_EmptySet
    <2> QED
      BY <2>2, <2>3, LifecycleAssumption DEF TInv, TypeOK, Instances
  <1>2. CASE node = "Absent"
    BY <1>0, <1>1, <1>2, ReturnTurns DEF Provision, Gone
  <1>3. CASE node # "Absent"
    <2>1. /\ runtime' = created + 1
          /\ \/ Return(c)
             \/ call' = [call EXCEPT ![c].op = "start", ![c].at = "claim", ![c].rt = created + 1]
      BY <1>3 DEF Provision
    <2>2. "start" \in Ops /\ "claim" \in Steps /\ created + 1 \in Instances \union {None}
      BY <1>1, StepNames
    <2> QED
      BY <1>0, <1>1, <1>3, <2>1, <2>2, ReturnTurns, CallTurns DEF Gone
  <1> QED
    BY <1>2, <1>3

\* A command claims the node, or gives up.
LEMMA ClaimEffect ==
    ASSUME TypeOK, NEW c \in Callers, NEW op, NEW to, NEW next \in Steps, Claim(c, op, to, next)
    PROVE  \/ Gone(c) /\ node' = node
           \/ /\ Found(c) # None /\ node' = to /\ Moved(to) = to
              /\ Turns(c, call[c].op, next, Found(c))
  <1>1. CASE Found(c) = None
    BY <1>1, ReturnTurns DEF Claim, Gone
  <1>2. CASE Found(c) # None
    <2>1. node' = Moved(to)
      BY <1>2 DEF Claim
    <2>2. CASE node' # to
      <3>1. Return(c)
        BY <1>2, <2>2 DEF Claim
      <3>2. node' = node
        BY <2>1, <2>2 DEF Moved
      <3> QED
        BY <3>1, <3>2, ReturnTurns DEF Gone
    <2>3. CASE node' = to
      <3>1. call' = [call EXCEPT ![c].at = next, ![c].rt = Found(c)]
        BY <1>2, <2>3 DEF Claim
      <3> QED
        BY <1>2, <2>1, <2>3, <3>1, FoundTyped, ClaimTurns
    <2> QED
      BY <2>2, <2>3
  <1> QED
    BY <1>1, <1>2

\* A remove stops what runs, and takes the rest as it is.
LEMMA RemoveEffect ==
    ASSUME TypeOK, NEW c \in Callers, ClaimRemove(c)
    PROVE  \/ Gone(c) /\ node' = node
           \/ /\ Found(c) # None /\ node \notin {"Absent", "Stopping", "Reconfiguring"}
              /\ node' = Moved("Stopping")
              /\ Turns(c, call[c].op, IF node' = "Stopping" THEN "stop" ELSE "take", Found(c))
  <1>1. CASE Found(c) = None \/ node \in {"Absent", "Stopping", "Reconfiguring"}
    BY <1>1, ReturnTurns DEF ClaimRemove, Gone
  <1>2. CASE ~(Found(c) = None \/ node \in {"Absent", "Stopping", "Reconfiguring"})
    <2> DEFINE next == IF node' = "Stopping" THEN "stop" ELSE "take"
    <2>1. /\ node' = Moved("Stopping")
          /\ call' = [call EXCEPT ![c].at = next, ![c].rt = Found(c)]
      BY <1>2 DEF ClaimRemove
    <2>2. next \in Steps
      BY StepNames
    <2> HIDE DEF next
    <2>3. Turns(c, call[c].op, next, Found(c))
      BY <2>1, <2>2, FoundTyped, ClaimTurns
    <2> QED
      BY <1>2, <2>1, <2>3 DEF next
  <1> QED
    BY <1>1, <1>2

\* An update stops what runs, and replaces the rest as it is.
LEMMA UpdateEffect ==
    ASSUME TypeOK, NEW c \in Callers, ClaimUpdate(c)
    PROVE  \/ Gone(c) /\ node' = node
           \/ /\ Found(c) # None /\ node' = "Reconfiguring" /\ Moved("Reconfiguring") = node'
              /\ Turns(c, call[c].op,
                       IF IsValidTransition(node, "Stopping") THEN "stop" ELSE "replace", Found(c))
  <1>1. CASE Found(c) = None
    BY <1>1, ReturnTurns DEF ClaimUpdate, Gone
  <1>2. CASE Found(c) # None
    <2> DEFINE next == IF IsValidTransition(node, "Stopping") THEN "stop" ELSE "replace"
               runs == node \in {"Running", "Starting"}
    <2>1. node' = Moved("Reconfiguring")
      BY <1>2 DEF ClaimUpdate
    <2>2. CASE node' # "Reconfiguring"
      <3>1. Return(c)
        BY <1>2, <2>2 DEF ClaimUpdate
      <3>2. node' = node
        BY <2>1, <2>2 DEF Moved
      <3> QED
        BY <3>1, <3>2, ReturnTurns DEF Gone
    <2>3. CASE node' = "Reconfiguring"
      <3>1. call' = [call EXCEPT ![c].was = runs, ![c].at = next, ![c].rt = Found(c)]
        BY <1>2, <2>3 DEF ClaimUpdate
      <3>2. next \in Steps /\ runs \in BOOLEAN
        BY StepNames
      <3> HIDE DEF next, runs
      <3>3. Turns(c, call[c].op, next, Found(c))
        BY <3>1, <3>2, FoundTyped, UpdateTurns
      <3> QED
        BY <1>2, <2>1, <2>3, <3>3 DEF next
    <2> QED
      BY <2>2, <2>3
  <1> QED
    BY <1>1, <1>2

\* The end of a stop: the command returns, or waits for the graph.
LEMMA AfterStopEffect ==
    ASSUME TypeOK, NEW c \in Callers, AfterStop(c)
    PROVE  \/ call[c].op = "stop" /\ Gone(c)
           \/ call[c].op # "stop" /\ Turns(c, call[c].op, "wait", call[c].rt)
  BY ReturnTurns, GotoTurns, StepNames DEF AfterStop, Gone

\* An update replaces the instance, and may go on as a start.
LEMMA ReplaceEffect ==
    ASSUME TInv, NEW c \in Callers, Replace(c)
    PROVE  /\ created + 1 \in Instances
           /\ \/ runtime = None /\ node' = Moved("Error") /\ runtime' = runtime /\ Gone(c)
              \/ /\ runtime # None /\ runtime' = created + 1
                 /\ \/ node' = node /\ Turns(c, "start", "claim", created + 1)
                    \/ node' = Moved("Stopped") /\ Gone(c)
  <1>0. TypeOK
    BY DEF TInv
  <1>1. created + 1 \in Instances
    <2>1. c \in Making
      BY DEF TInv, StepInv, StepsOf, Replace, At, Making, TypeOK
    <2>2. IsFiniteSet(Making) /\ created + Cardinality(Making) <= MaxInst
      BY DEF TInv, RoomInv
    <2>3. Cardinality(Making) \in Nat /\ Cardinality(Making) # 0
      BY <2>1, <2>2, FS_CardinalityType, FS_EmptySet
    <2> QED
      BY <2>2, <2>3, LifecycleAssumption DEF TInv, TypeOK, Instances
  <1>2. CASE runtime = None
    BY <1>0, <1>1, <1>2, ReturnTurns DEF Replace, Gone
  <1>3. CASE runtime # None
    <2>1. /\ runtime' = created + 1
          /\ \/ /\ node' = node
                /\ call' = [call EXCEPT ![c].op = "start", ![c].at = "claim", ![c].rt = created + 1]
             \/ node' = Moved("Stopped") /\ Return(c)
      BY <1>3 DEF Replace
    <2>2. "start" \in Ops /\ "claim" \in Steps /\ created + 1 \in Instances \union {None}
      BY <1>1, StepNames
    <2> QED
      BY <1>0, <1>1, <1>3, <2>1, <2>2, ReturnTurns, CallTurns DEF Gone
  <1> QED
    BY <1>2, <1>3

----------------------------------------------------------------------------
(* Types.                                                                  *)

\* The steps of a command, the ones that fail included.
Acts(c) ==
    \/ \E op \in {"add", "start", "stop", "remove", "update"} : Call(c, op)
    \/ Step(c) \/ StartFails(c) \/ AbortFails(c)

\* No step of a command changes the others, and each leads to one of its own.
LEMMA CommandStep ==
    ASSUME TInv, NEW c \in Callers, Acts(c)
    PROVE  call' \in [Callers -> Command] /\ created' \in 0..MaxInst /\ RoomInv' /\ StepInv'
  <1>0. TypeOK /\ call[c].at \in StepsOf(call[c].op) /\ call[c].op \in Ops
    BY DEF TInv, StepInv, TypeOK, Ops
  <1>1. ASSUME NEW op \in {"add", "start", "stop", "remove", "update"}, Call(c, op)
        PROVE  call' \in [Callers -> Command] /\ created' \in 0..MaxInst /\ RoomInv' /\ StepInv'
    <2>1. created' = created /\ (op \in {"add", "update"} => Room)
      BY <1>1 DEF Call, source
    <2>2. \/ Turns(c, "add", "provision", call[c].rt) /\ op = "add"
          \/ Turns(c, op, "claim", runtime) /\ op # "add"
      BY <1>0, <1>1, CallEffect
    <2>3. "provision" \in StepsOf("add") /\ (op # "add" => "claim" \in StepsOf(op))
      BY DEF StepsOf
    <2> QED
      BY <2>1, <2>2, <2>3, CommandChanged
  <1>2. ASSUME NEW op, NEW at, NEW rt, Turns(c, op, at, rt), at \in StepsOf(op), created' = created,
               op \in {"add", "update"} => call[c].op \in {"add", "update"}
        PROVE  call' \in [Callers -> Command] /\ created' \in 0..MaxInst /\ RoomInv' /\ StepInv'
    BY <1>2, TypedAgain
  <1>3. "idle" \in StepsOf("none") /\ "claim" \in StepsOf("start")
    BY DEF StepsOf
  <1>4. ASSUME Gone(c), created' = created
        PROVE  call' \in [Callers -> Command] /\ created' \in 0..MaxInst /\ RoomInv' /\ StepInv'
    BY <1>2, <1>3, <1>4 DEF Gone
  <1>5. CASE Provision(c)
    <2>1. call[c].op = "add" /\ created' = created + 1
      BY <1>0, <1>5 DEF Provision, At, StepsOf, Ops
    <2> QED
      BY <1>3, <1>5, <2>1, ProvisionEffect, CommandChanged DEF Gone
  <1>6. CASE ClaimStart(c) \/ ClaimStop(c)
    <2>1. PICK op, to, next :
             /\ <<op, to, next>> \in {<<"start", "Starting", "start">>, <<"stop", "Stopping", "stop">>}
             /\ Claim(c, op, to, next)
      BY <1>6 DEF ClaimStart, ClaimStop
    <2>2. call[c].op = op /\ next \in StepsOf(op) /\ next \in Steps /\ created' = created
      BY <2>1, StepNames DEF Claim, Claims, StepsOf, source
    <2> QED
      BY <1>0, <1>2, <1>4, <2>1, <2>2, ClaimEffect
  <1>7. CASE ClaimRemove(c)
    <2>1. call[c].op = "remove" /\ {"stop", "take"} \subseteq StepsOf("remove") /\ created' = created
      BY <1>7 DEF ClaimRemove, Claims, StepsOf, source
    <2> QED
      BY <1>0, <1>2, <1>4, <1>7, <2>1, RemoveEffect
  <1>8. CASE ClaimUpdate(c)
    <2>1. call[c].op = "update" /\ {"stop", "replace"} \subseteq StepsOf("update") /\ created' = created
      BY <1>8 DEF ClaimUpdate, Claims, StepsOf, source
    <2> QED
      BY <1>0, <1>2, <1>4, <1>8, <2>1, UpdateEffect
  <1>9. CASE ReportRunning(c) \/ RevertStart(c) \/ Deregister(c)
    <2>1. Return(c) /\ created' = created
      BY <1>9 DEF ReportRunning, RevertStart, Deregister, source
    <2> QED
      BY <1>0, <1>4, <2>1, ReturnTurns DEF Gone
  <1>10. CASE SourceStarts(c) \/ SpawnTask(c) \/ StartFails(c)
    <2>1. /\ call[c].op = "start" /\ created' = created
          /\ Return(c) \/ \E s \in {"spawn", "report", "revert"} : Goto(c, s)
      BY <1>0, <1>10 DEF SourceStarts, SpawnTask, StartFails, At, StepsOf, Ops
    <2>2. {"spawn", "report", "revert"} \subseteq StepsOf("start")
      BY DEF StepsOf
    <2> QED
      BY <1>0, <1>2, <1>4, <2>1, <2>2, ReturnTurns, GotoTurns, StepNames DEF Gone
  <1>11. CASE SourceStops(c) \/ AbortTask(c) \/ AbortFails(c)
    <2>1. /\ call[c].op \in {"stop", "remove", "update"} /\ created' = created
          /\ AfterStop(c) \/ Goto(c, "abort") \/ Goto(c, "failed")
      BY <1>0, <1>11 DEF SourceStops, AbortTask, AbortFails, At, StepsOf, Ops
    <2>2. /\ {"abort", "failed"} \subseteq StepsOf(call[c].op)
          /\ call[c].op # "stop" => "wait" \in StepsOf(call[c].op)
      BY <2>1 DEF StepsOf
    <2> QED
      BY <1>0, <1>2, <1>4, <2>1, <2>2, AfterStopEffect, GotoTurns, StepNames
  <1>12. CASE RevertStop(c) \/ Waited(c) \/ WaitFails(c) \/ TakeRuntime(c)
    <2>1. /\ created' = created
          /\ \/ Return(c)
             \/ call[c].op = "remove" /\ \E s \in {"wait", "take", "deregister"} : Goto(c, s)
             \/ call[c].op = "update" /\ Goto(c, "replace")
      BY <1>0, <1>12 DEF RevertStop, Waited, WaitFails, TakeRuntime, At, StepsOf, Ops, source
    <2>2. {"wait", "take", "deregister"} \subseteq StepsOf("remove") /\ "replace" \in StepsOf("update")
      BY DEF StepsOf
    <2> QED
      BY <1>0, <1>2, <1>4, <2>1, <2>2, ReturnTurns, GotoTurns, StepNames DEF Gone
  <1>13. CASE Replace(c)
    <2>1. call[c].op = "update" /\ created' = created + 1
      BY <1>0, <1>13 DEF Replace, At, StepsOf, Ops
    <2> QED
      BY <1>3, <1>13, <2>1, ReplaceEffect, CommandChanged DEF Gone
  <1> QED
    BY <1>1, <1>5, <1>6, <1>7, <1>8, <1>9, <1>10, <1>11, <1>12, <1>13 DEF Acts, Step

\* The types of the instances, of the graph and of the counters are kept.
LEMMA SourceTypeStep ==
    ASSUME TInv, Next
    PROVE  SourceType'
  <1>0. SourceType
    BY TypeParts DEF TInv
  <1>1. ASSUME NEW i, Aborted(i), \E s \in {"Stopped", "Error"} : local' = [local EXCEPT ![i] = s]
        PROVE  SourceType'
    <2>1. /\ alive' = [alive EXCEPT ![i] = IF held[i] THEN @ - 1 ELSE @]
          /\ held' = [held EXCEPT ![i] = FALSE]
      BY <1>1 DEF Aborted
    <2>2. local' \in [Instances -> {"Starting", "Running", "Stopping", "Stopped", "Error"}]
      BY <1>0, <1>1 DEF SourceType
    <2>3. held' \in [Instances -> BOOLEAN]
      BY <1>0, <2>1 DEF SourceType
    <2>4. \A j \in Instances : alive'[j] = IF j = i /\ held[i] THEN alive[j] - 1 ELSE alive[j]
      BY <1>0, <2>1 DEF SourceType
    <2>5. \A j \in Instances : alive'[j] \in Nat
      BY <1>0, <2>4 DEF SourceType
    <2>6. alive' \in [Instances -> Nat]
      BY <1>0, <2>1, <2>5 DEF SourceType
    <2>7. \A j \in Instances : held'[j] => held[j] /\ j # i
      BY <1>0, <2>1 DEF SourceType
    <2> QED
      BY <1>0, <2>2, <2>3, <2>4, <2>6, <2>7 DEF SourceType
  <1>2. ASSUME NEW i \in Instances, alive[i] > 0, Dies(i),
               local' \in {local, [local EXCEPT ![i] = "Error"]}
        PROVE  SourceType'
    <2>1. /\ alive' = [alive EXCEPT ![i] = @ - 1]
          /\ held' = [held EXCEPT ![i] = @ /\ alive[i] > 1]
      BY <1>2 DEF Dies
    <2>2. local' \in [Instances -> {"Starting", "Running", "Stopping", "Stopped", "Error"}]
      BY <1>0, <1>2 DEF SourceType
    <2>3. held' \in [Instances -> BOOLEAN]
      BY <1>0, <2>1 DEF SourceType
    <2>4. \A j \in Instances : alive'[j] = IF j = i THEN alive[j] - 1 ELSE alive[j]
      BY <1>0, <2>1 DEF SourceType
    <2>5. \A j \in Instances : alive'[j] \in Nat
      BY <1>0, <1>2, <2>4 DEF SourceType
    <2>6. alive' \in [Instances -> Nat]
      BY <1>0, <2>1, <2>5 DEF SourceType
    <2>7. \A j \in Instances : held'[j] => held[j] /\ (j = i => alive[i] > 1)
      BY <1>0, <2>1 DEF SourceType
    <2> QED
      BY <1>0, <2>2, <2>3, <2>4, <2>5, <2>6, <2>7 DEF SourceType
  <1>3. ASSUME NEW c \in Callers, SpawnTask(c)
        PROVE  SourceType'
    <2> DEFINE i == call[c].rt
    <2>1. /\ alive' = [alive EXCEPT ![i] = @ + 1] /\ local' = local
          /\ held' = [held EXCEPT ![i] = TRUE]
      BY <1>3 DEF SpawnTask
    <2> HIDE DEF i
    <2>2. held' \in [Instances -> BOOLEAN]
      BY <1>0, <2>1 DEF SourceType
    <2>3. \A j \in Instances : alive'[j] = IF j = i THEN alive[j] + 1 ELSE alive[j]
      BY <1>0, <2>1 DEF SourceType
    <2>4. \A j \in Instances : alive'[j] \in Nat
      BY <1>0, <2>3 DEF SourceType
    <2>5. alive' \in [Instances -> Nat]
      BY <1>0, <2>1, <2>4 DEF SourceType
    <2>6. \A j \in Instances : held'[j] => held[j] \/ j = i
      BY <1>0, <2>1 DEF SourceType
    <2> QED
      BY <1>0, <2>1, <2>2, <2>3, <2>5, <2>6 DEF SourceType
  <1>4. ASSUME UNCHANGED <<alive, held>>,
               local' = local \/ \E i, s : /\ s \in {"Starting", "Running", "Stopping", "Error"}
                                           /\ local' = [local EXCEPT ![i] = s]
        PROVE  SourceType'
    BY <1>0, <1>4 DEF SourceType
  <1>5. ASSUME NEW c \in Callers, AbortTask(c) \/ AbortFails(c)
        PROVE  SourceType'
    BY <1>1, <1>5 DEF AbortTask, AbortFails, SetStatus
  <1>6. ASSUME NEW i \in Instances, TaskFails(i) \/ TaskQuits(i)
        PROVE  SourceType'
    BY <1>2, <1>6 DEF TaskFails, TaskQuits, SetStatus
  <1>7. ASSUME NEW c \in Callers, SourceStarts(c) \/ ReportRunning(c) \/ StartFails(c) \/ SourceStops(c)
        PROVE  SourceType'
    BY <1>4, <1>7 DEF SourceStarts, ReportRunning, StartFails, SourceStops, SetStatus
  <1>8. ASSUME NEW c \in Callers,
               \/ \E op \in {"add", "start", "stop", "remove", "update"} : Call(c, op)
               \/ Provision(c) \/ ClaimStart(c) \/ ClaimStop(c) \/ ClaimRemove(c) \/ ClaimUpdate(c)
               \/ RevertStart(c) \/ RevertStop(c) \/ Waited(c) \/ WaitFails(c)
               \/ TakeRuntime(c) \/ Deregister(c) \/ Replace(c)
        PROVE  SourceType'
    <2>1. UNCHANGED <<local, alive, held>>
      BY <1>8 DEF Call, Provision, ClaimStart, ClaimStop, Claim, ClaimRemove, ClaimUpdate,
                  RevertStart, RevertStop, Waited, WaitFails, TakeRuntime, Deregister, Replace, source
    <2> QED
      BY <1>0, <2>1 DEF SourceType
  <1>9. CASE ApplyUpdate \/ RegisterQuery \/ DeregisterQuery
    BY <1>0, <1>9 DEF ApplyUpdate, RegisterQuery, DeregisterQuery, source, SourceType
  <1> QED
    BY <1>3, <1>5, <1>6, <1>7, <1>8, <1>9 DEF Next, Step

LEMMA GraphTypeStep ==
    ASSUME TInv, Next
    PROVE  GraphType'
  <1>0. GraphType /\ TypeOK
    BY TypeParts DEF TInv
  <1>1. ASSUME UNCHANGED <<runtime, dep>>, chan' \in Seq(Status),
               node' = node \/ \E to \in Status : node' = Moved(to)
        PROVE  GraphType'
    <2>1. node' \in Status \union {"Absent"} /\ (node' = "Absent" => node = "Absent")
      BY <1>0, <1>1, MovedTyped DEF GraphType, Status
    <2> QED
      BY <1>0, <1>1, <2>1 DEF GraphType
  <1>2. CASE ApplyUpdate
    BY <1>0, <1>1, <1>2 DEF GraphType, ApplyUpdate
  <1>3. CASE RegisterQuery \/ DeregisterQuery
    BY <1>0, <1>3 DEF GraphType, RegisterQuery, DeregisterQuery
  <1>4. ASSUME NEW c \in Callers, NEW op \in {"add", "start", "stop", "remove", "update"}, Call(c, op)
        PROVE  GraphType'
    <2>1. UNCHANGED <<runtime, dep, chan>>
      BY <1>4 DEF Call
    <2>2. node' = "Added" \/ (node' = node /\ runtime # None)
      BY <1>0, <1>4, CallEffect
    <2> QED
      BY <1>0, <2>1, <2>2 DEF GraphType, Status
  <1>5. ASSUME NEW c \in Callers, Provision(c) \/ Replace(c)
        PROVE  GraphType'
    <2>1. UNCHANGED <<dep, chan>>
      BY <1>5 DEF Provision, Replace
    <2>2. \/ node = "Absent" /\ UNCHANGED <<node, runtime>>
          \/ /\ node # "Absent" /\ node' = node /\ runtime' \in Instances
          \/ runtime = None /\ node' = Moved("Error") /\ runtime' = runtime
          \/ runtime # None /\ runtime' \in Instances /\ node' \in {node, Moved("Stopped")}
      BY <1>5, ProvisionEffect, ReplaceEffect DEF Provision
    <2>3. {"Error", "Stopped"} \subseteq Status /\ "Absent" \notin Status
      BY DEF Status
    <2> QED
      BY <1>0, <2>1, <2>2, <2>3, MovedTyped DEF GraphType
  <1>6. ASSUME NEW c \in Callers,
               \/ ClaimStart(c) \/ ClaimStop(c) \/ ClaimRemove(c) \/ ClaimUpdate(c)
               \/ RevertStart(c) \/ RevertStop(c) \/ Waited(c) \/ WaitFails(c)
        PROVE  GraphType'
    <2>1. UNCHANGED <<runtime, dep, chan>>
      BY <1>6 DEF ClaimStart, ClaimStop, Claim, ClaimRemove, ClaimUpdate,
                  RevertStart, RevertStop, Waited, WaitFails, graph
    <2>2. node' = node \/ \E to \in {"Starting", "Stopping", "Reconfiguring", "Error"} : node' = Moved(to)
      BY <1>6 DEF ClaimStart, ClaimStop, Claim, ClaimRemove, ClaimUpdate,
                  RevertStart, RevertStop, Waited, WaitFails, graph
    <2>3. {"Starting", "Stopping", "Reconfiguring", "Error"} \subseteq Status
      BY DEF Status
    <2> QED
      BY <1>0, <1>1, <2>1, <2>2, <2>3 DEF GraphType
  <1>7. ASSUME UNCHANGED graph,
               \/ chan' = chan
               \/ \E s \in {"Starting", "Running", "Stopping", "Stopped", "Error"} :
                      chan' = Append(chan, s)
               \/ chan' \in {chan \o <<"Error">>, chan \o <<"Error", "Error">>}
        PROVE  GraphType'
    <2>1. {"Starting", "Running", "Stopping", "Stopped", "Error"} \subseteq Status
      BY DEF Status
    <2>2. chan \in Seq(Status) /\ <<"Error">> \in Seq(Status) /\ <<"Error", "Error">> \in Seq(Status)
      BY <1>0, <2>1 DEF GraphType
    <2>3. chan' \in Seq(Status)
      <3>1. CASE chan' \in {chan \o <<"Error">>, chan \o <<"Error", "Error">>}
        BY <2>2, <3>1, ConcatProperties
      <3>2. CASE chan' = chan
        BY <2>2, <3>2
      <3>3. CASE \E s \in {"Starting", "Running", "Stopping", "Stopped", "Error"} :
                     chan' = Append(chan, s)
        BY <2>1, <2>2, <3>3
      <3> QED
        BY <1>7, <3>1, <3>2, <3>3
    <2> QED
      BY <1>0, <1>7, <2>3 DEF GraphType, graph
  <1>8. ASSUME NEW c \in Callers,
               \/ SourceStarts(c) \/ SpawnTask(c) \/ ReportRunning(c) \/ StartFails(c)
               \/ SourceStops(c) \/ AbortTask(c) \/ AbortFails(c)
        PROVE  GraphType'
    BY <1>7, <1>8 DEF SourceStarts, SpawnTask, ReportRunning, StartFails, SourceStops, AbortTask,
                      AbortFails, SetStatus
  <1>9. ASSUME NEW i \in Instances, TaskFails(i) \/ TaskQuits(i)
        PROVE  GraphType'
    BY <1>7, <1>9 DEF TaskFails, TaskQuits, SetStatus
  <1>10. ASSUME NEW c \in Callers, TakeRuntime(c) \/ Deregister(c)
         PROVE  GraphType'
    BY <1>0, <1>10, MovedTyped DEF TakeRuntime, Deregister, GraphType, Status
  <1> QED
    BY <1>2, <1>3, <1>4, <1>5, <1>6, <1>8, <1>9, <1>10 DEF Next, Step

LEMMA CountTypeStep ==
    ASSUME TInv, Next
    PROVE  CountType'
  <1>0. calls \in 0..MaxCalls /\ faults \in 0..MaxFaults /\ MaxCalls \in Nat /\ MaxFaults \in Nat
    BY LifecycleAssumption DEF TInv, TypeOK
  <1>1. /\ calls' = calls \/ (calls < MaxCalls /\ calls' = calls + 1)
        /\ faults' = faults \/ Fault
    <2>1. CASE ApplyUpdate \/ RegisterQuery \/ DeregisterQuery
      BY <2>1 DEF ApplyUpdate, RegisterQuery, DeregisterQuery
    <2>2. CASE \E c \in Callers, op \in {"add", "start", "stop", "remove", "update"} : Call(c, op)
      BY <2>2 DEF Call
    <2>3. CASE \E c \in Callers : \/ Provision(c) \/ ClaimStart(c) \/ ClaimStop(c)
                                    \/ ClaimRemove(c) \/ ClaimUpdate(c)
      BY <2>3 DEF Provision, ClaimStart, ClaimStop, Claim, ClaimRemove, ClaimUpdate
    <2>4. CASE \E c \in Callers : \/ SourceStarts(c) \/ SpawnTask(c) \/ ReportRunning(c)
                                    \/ StartFails(c) \/ RevertStart(c)
      BY <2>4 DEF SourceStarts, SpawnTask, ReportRunning, StartFails, RevertStart
    <2>5. CASE \E c \in Callers : \/ SourceStops(c) \/ AbortTask(c) \/ AbortFails(c)
                                    \/ RevertStop(c) \/ Waited(c) \/ WaitFails(c)
      BY <2>5 DEF SourceStops, AbortTask, AbortFails, RevertStop, Waited, WaitFails
    <2>6. CASE \E c \in Callers : TakeRuntime(c) \/ Deregister(c) \/ Replace(c)
      BY <2>6 DEF TakeRuntime, Deregister, Replace
    <2>7. CASE \E i \in Instances : TaskFails(i) \/ TaskQuits(i)
      BY <2>7 DEF TaskFails, TaskQuits
    <2> QED
      BY <2>1, <2>2, <2>3, <2>4, <2>5, <2>6, <2>7 DEF Next, Step
  <1> QED
    BY <1>0, <1>1 DEF CountType, Fault

\* Types are kept by every step, whatever the races.
LEMMA TypeStep ==
    ASSUME TInv, [Next]_vars
    PROVE  TInv'
  <1>1. CASE Next
    <2>1. SourceType' /\ GraphType' /\ CountType'
      BY <1>1, SourceTypeStep, GraphTypeStep, CountTypeStep
    <2>2. call' \in [Callers -> Command] /\ created' \in 0..MaxInst /\ RoomInv' /\ StepInv'
      <3>1. CASE \E c \in Callers : Acts(c)
        BY <3>1, CommandStep
      <3>2. CASE UNCHANGED <<call, created>>
        BY <3>2, TypeParts DEF TInv, RoomInv, StepInv, Making
      <3>3. (\E c \in Callers : Acts(c)) \/ UNCHANGED <<call, created>>
        BY <1>1 DEF Next, Acts, ApplyUpdate, RegisterQuery, DeregisterQuery, TaskFails, TaskQuits, source
      <3> QED
        BY <3>1, <3>2, <3>3
    <2> QED
      BY <2>1, <2>2, TypePartsNext DEF TInv
  <1>2. CASE UNCHANGED vars
    BY <1>2 DEF vars, TInv, TypeOK, RoomInv, StepInv, Making
  <1> QED
    BY <1>1, <1>2

\* Types hold at the start.
LEMMA InitTyped ==
    ASSUME Init
    PROVE  TInv
  <1>1. Making = {} /\ StepInv
    BY DEF Init, Making, Idle, StepInv, StepsOf
  <1>2. RoomInv
    BY <1>1, FS_EmptySet, LifecycleAssumption DEF Init, RoomInv
  <1>3. TypeOK
    <2>1. Idle \in Command
      BY DEF Idle, Command, Ops, Steps
    <2>2. SourceType
      BY DEF Init, SourceType
    <2>3. GraphType
      <3>1. dep \in BOOLEAN
        BY DEF Init
      <3>2. chan \in Seq(Status)
        BY DEF Init
      <3> QED
        BY <3>1, <3>2 DEF Init, GraphType
    <2>4. CountType /\ created \in 0..MaxInst
      BY LifecycleAssumption DEF Init, CountType
    <2> QED
      BY <2>1, <2>2, <2>3, <2>4, TypeParts DEF Init
  <1> QED
    BY <1>1, <1>2, <1>3 DEF TInv

\* The types hold throughout, whatever the races: a node that is gone has no
\* runtime, a task handle is that of a live task, and there is never more than
\* the instances the commands were let in for.
THEOREM TypeCorrect == Spec => []TypeOK
  <1>1. TInv => TypeOK
    BY DEF TInv
  <1> QED
    BY <1>1, InitTyped, TypeStep, PTL DEF Spec

----------------------------------------------------------------------------
(* The reports.                                                            *)

\* A report is sent, and is the last.
LEMMA ReportAppended ==
    ASSUME TypeOK, NEW s, chan' = Append(chan, s)
    PROVE  Reports' = Reports \union {s} /\ Latest' = s /\ chan' # <<>>
  <1>1. chan \in Seq(Status) /\ Len(chan) \in Nat /\ DOMAIN chan = 1..Len(chan)
    BY DEF TypeOK
  <1>2. /\ Len(chan') = Len(chan) + 1 /\ DOMAIN chan' = 1..(Len(chan) + 1)
        /\ \A k \in 1..Len(chan) : chan'[k] = chan[k]
        /\ chan'[Len(chan) + 1] = s
    BY <1>1
  <1>3. Latest' = s /\ chan' # <<>>
    BY <1>1, <1>2 DEF Latest
  <1>4. \A x : x \in Reports' <=> x \in Reports \union {s}
    BY <1>1, <1>2 DEF Reports
  <1> QED
    BY <1>3, <1>4

\* A failed start sends one report of it, or two.
LEMMA FailureReported ==
    ASSUME TypeOK, chan' \in {chan \o <<"Error">>, chan \o <<"Error", "Error">>}
    PROVE  Reports' = Reports \union {"Error"} /\ Latest' = "Error" /\ chan' # <<>>
  <1>1. chan \in Seq(Status) /\ Len(chan) \in Nat /\ DOMAIN chan = 1..Len(chan)
    BY DEF TypeOK
  <1>2. \E n \in {1, 2} : /\ Len(chan') = Len(chan) + n /\ DOMAIN chan' = 1..(Len(chan) + n)
                          /\ \A k \in 1..Len(chan) : chan'[k] = chan[k]
                          /\ \A k \in (Len(chan) + 1)..(Len(chan) + n) : chan'[k] = "Error"
    <2>1. CASE chan' = chan \o <<"Error">>
      BY <1>1, <2>1
    <2>2. CASE chan' = chan \o <<"Error", "Error">>
      BY <1>1, <2>2
    <2> QED
      BY <2>1, <2>2
  <1>3. PICK n \in {1, 2} : /\ Len(chan') = Len(chan) + n /\ DOMAIN chan' = 1..(Len(chan) + n)
                            /\ \A k \in 1..Len(chan) : chan'[k] = chan[k]
                            /\ \A k \in (Len(chan) + 1)..(Len(chan) + n) : chan'[k] = "Error"
    BY <1>2
  <1>4. Len(chan) + n \in (Len(chan) + 1)..(Len(chan) + n) /\ Len(chan) + 1 \in DOMAIN chan'
    BY <1>1, <1>3
  <1>5. Latest' = "Error" /\ chan' # <<>>
    BY <1>1, <1>3, <1>4 DEF Latest
  <1>6. \A k \in DOMAIN chan' : k \in DOMAIN chan \/ k \in (Len(chan) + 1)..(Len(chan) + n)
    BY <1>1, <1>3
  <1>7. DOMAIN chan \subseteq DOMAIN chan'
    BY <1>1, <1>3
  <1>8. \A x : x \in Reports' <=> x \in Reports \union {"Error"}
    BY <1>1, <1>3, <1>4, <1>6, <1>7 DEF Reports
  <1> QED
    BY <1>5, <1>8

\* The first report is taken.
LEMMA ReportTaken ==
    ASSUME TypeOK, chan # <<>>, chan' = Tail(chan)
    PROVE  /\ Head(chan) \in Reports /\ Reports' \subseteq Reports
           /\ chan' = <<>> => Head(chan) = Latest
           /\ chan' # <<>> => Latest' = Latest
  <1>1. chan \in Seq(Status) /\ Len(chan) \in Nat /\ DOMAIN chan = 1..Len(chan) /\ Len(chan) # 0
    BY DEF TypeOK
  <1>2. /\ Len(chan') = Len(chan) - 1 /\ DOMAIN chan' = 1..(Len(chan) - 1)
        /\ \A k \in 1..(Len(chan) - 1) : chan'[k] = chan[k + 1]
        /\ chan' \in Seq(Status)
    BY <1>1
  <1>3. Head(chan) = chan[1] /\ 1 \in DOMAIN chan
    BY <1>1
  <1>4. chan' = <<>> <=> Len(chan) = 1
    BY <1>1, <1>2
  <1>5. chan' # <<>> => Latest' = Latest
    BY <1>1, <1>2, <1>4 DEF Latest
  <1>6. \A k \in DOMAIN chan' : k + 1 \in DOMAIN chan
    BY <1>1, <1>2
  <1>7. Reports' \subseteq Reports
    BY <1>1, <1>2, <1>6 DEF Reports
  <1> QED
    BY <1>1, <1>3, <1>4, <1>5, <1>7 DEF Reports, Latest

LEMMA NoReports ==
    ASSUME chan = <<>>
    PROVE  Reports = {}
  BY DEF Reports

LEMMA ReportsKept ==
    ASSUME chan' = chan
    PROVE  Reports' = Reports /\ Latest' = Latest
  BY DEF Reports, Latest

\* What the place of a command says of it.
LEMMA StepsFit ==
    ASSUME TInv, NEW c \in Callers
    PROVE  /\ call[c].op \in Ops
           /\ (call[c].op = "none" <=> At(c, "idle"))
           /\ (call[c].op = "add" <=> At(c, "provision"))
           /\ (Starter(c) <=> call[c].at \in {"start", "spawn", "report", "revert"})
           /\ (Stopper(c) <=> call[c].at \in {"stop", "abort", "failed", "wait", "take",
                                              "deregister", "replace"})
           /\ call[c].at \in {"take", "deregister"} => call[c].op = "remove"
           /\ At(c, "replace") => call[c].op = "update"
           /\ At(c, "wait") => call[c].op \in {"remove", "update"}
  BY DEF TInv, TypeOK, Ops, StepInv, StepsOf, Starter, Stopper, At

----------------------------------------------------------------------------
(* The steps of the commands, without races.                               *)

Rest == /\ MadeInv /\ TurnInv /\ TaskInv /\ StartInv /\ StopInv /\ AddInv
        /\ ReportInv /\ OwnInv /\ NodeInv

\* The instances and those who hold them, while others move.
LEMMA TasksKept ==
    ASSUME TaskInv, NEW c \in Callers, UNCHANGED <<runtime, local, alive, held>>,
           \A d \in Callers : d # c => call'[d] = call[d],
           call[c].at \notin {"spawn", "report", "abort"}
    PROVE  TaskInv'
  <1> SUFFICES ASSUME NEW i \in Instances PROVE TaskOf(i)'
    BY DEF TaskInv
  <1>1. TaskOf(i) /\ local'[i] = local[i] /\ alive'[i] = alive[i] /\ held'[i] = held[i]
    BY DEF TaskInv
  <1> QED
    BY <1>1 DEF TaskOf, At

\* A command that gives up before it has claimed the node.
LEMMA Withdrawn ==
    ASSUME IInv, NEW c \in Callers, At(c, "claim"), Gone(c),
           UNCHANGED <<node, runtime, dep, chan, local, alive, held, created>>,
           call[c].op = "start" => runtime = None \/ node # "Reconfiguring"
    PROVE  Rest'
  <1>1. Own' = Own /\ Reports' = Reports /\ Latest' = Latest
    BY ReportsKept DEF Own
  <1>2. /\ \A d \in Callers : d # c => call'[d] = call[d]
        /\ call'[c].op = "none" /\ call'[c].at = "idle"
    BY DEF Gone, Turns
  <1>3. MadeInv'
    BY <1>2 DEF IInv, MadeInv, Starter, Stopper, At
  <1>4. TurnInv'
    BY <1>2 DEF IInv, TurnInv, Starter, Stopper, At
  <1>5. TaskInv'
    BY <1>2, TasksKept DEF IInv, At
  <1>6. StartInv'
    BY <1>1, <1>2 DEF IInv, StartInv, Starter, At
  <1>7. StopInv'
    BY <1>1, <1>2 DEF IInv, StopInv, Stopper, At
  <1>8. AddInv'
    BY <1>2 DEF IInv, AddInv, UnderWay, At
  <1>9. ReportInv'
    BY <1>1, <1>2 DEF IInv, ReportInv, UnderWay, At
  <1>10. OwnInv'
    BY <1>1, <1>2 DEF IInv, OwnInv, RunComing, ErrorComing, Stopper, At
  <1>11. NodeInv'
    BY <1>1, <1>2 DEF IInv, NodeInv, UnderWay, Stops, At
  <1> QED
    BY <1>3, <1>4, <1>5, <1>6, <1>7, <1>8, <1>9, <1>10, <1>11 DEF Rest

\* A start claims the node when no other command is under way.
LEMMA StartClaimed ==
    ASSUME IInv, Races = {}, NEW c \in Callers, ClaimStart(c)
    PROVE  Rest'
  <1>0. TInv /\ TypeOK
    BY DEF IInv, TInv
  <1>1. /\ chan = <<>> /\ call[c].op = "start" /\ At(c, "claim") /\ Found(c) = runtime
        /\ ~\E op \in {"start", "stop", "remove", "update"} : UnderWay(op)
        /\ UNCHANGED <<runtime, dep, chan, local, alive, held, created>>
        /\ Claim(c, "start", "Starting", "start")
    BY DEF ClaimStart, Claim, Claims, Found, source
  <1>2. Own' = Own /\ Reports' = Reports /\ Latest' = Latest /\ Reports = {}
    BY <1>1, ReportsKept, NoReports DEF Own
  <1>3. \A d \in Callers : ~Starter(d) /\ ~Stopper(d)
    BY <1>1, StepsFit DEF UnderWay, At, Starter, Stopper
  <1>4. \/ Gone(c) /\ node' = node /\ (runtime = None \/ node # "Reconfiguring")
        \/ /\ runtime # None /\ node' = "Starting"
           /\ node \in {"Added", "Stopped", "Error", "Reconfiguring", "Starting"}
           /\ Turns(c, "start", "start", runtime)
    <2>1. Moved("Starting") = "Starting" =>
             node \in {"Added", "Stopped", "Error", "Reconfiguring", "Starting"}
      BY DEF Moved, IsValidTransition
    <2>2. Found(c) # None /\ node = "Reconfiguring" => node' # node
      BY <1>1 DEF Claim, Moved, IsValidTransition
    <2> QED
      BY <1>0, <1>1, <2>1, <2>2, StepNames, ClaimEffect
  <1>5. CASE Gone(c) /\ node' = node /\ (runtime = None \/ node # "Reconfiguring")
    BY <1>1, <1>5, Withdrawn
  <1>6. CASE /\ runtime # None /\ node' = "Starting"
             /\ node \in {"Added", "Stopped", "Error", "Reconfiguring", "Starting"}
             /\ Turns(c, "start", "start", runtime)
    <2>1. /\ \A d \in Callers : d # c => call'[d] = call[d]
          /\ call'[c].op = "start" /\ call'[c].at = "start" /\ call'[c].rt = runtime
      BY <1>6 DEF Turns
    <2>2. runtime \in 1..created /\ runtime \in Instances /\ Own = local[runtime]
      BY <1>0, <1>6 DEF IInv, MadeInv, TypeOK, Own, Instances, None
    <2>3. Own \in {"Stopped", "Error"}
      <3>1. Own # "Running"
        BY <1>1, <1>3, <1>6 DEF IInv, OwnInv, RunComing, ReportInv, NodeInv
      <3>2. Own \notin {"Starting", "Stopping"}
        BY <1>3, <2>2, StepsFit DEF IInv, TaskInv, TaskOf, At
      <3> QED
        BY <1>0, <2>2, <3>1, <3>2 DEF TypeOK
    <2>5. MadeInv'
      BY <1>1, <2>1, <2>2 DEF IInv, MadeInv, Starter, Stopper, At
    <2>6. TurnInv'
      BY <1>3, <2>1 DEF IInv, TurnInv, Starter, Stopper, At
    <2>7. TaskInv'
      BY <1>1, <2>1, TasksKept DEF IInv, At
    <2>8. StartInv'
      BY <1>1, <1>2, <1>6, <2>1, <2>3 DEF IInv, StartInv, Starter, At
    <2>9. StopInv'
      BY <1>3, <2>1 DEF IInv, StopInv, Stopper, At
    <2>10. AddInv'
      BY <1>1, <1>6, <2>1 DEF IInv, AddInv, UnderWay, At
    <2>11. ReportInv'
      BY <1>1, <1>2, <1>6 DEF IInv, ReportInv, UnderWay, At, Live
    <2>12. OwnInv'
      BY <1>2, <2>1, <2>3 DEF IInv, OwnInv, RunComing, ErrorComing, Stopper, At
    <2>13. NodeInv'
      BY <1>6, <2>1 DEF IInv, NodeInv, UnderWay, Stops, At
    <2> QED
      BY <2>5, <2>6, <2>7, <2>8, <2>9, <2>10, <2>11, <2>12, <2>13 DEF Rest
  <1> QED
    BY <1>4, <1>5, <1>6

\* A source that a stop, a remove or an update may claim does not start.
LEMMA NotStarting ==
    ASSUME IInv, chan = <<>>, ~UnderWay("start"), runtime # None
    PROVE  /\ \A d \in Callers : ~Starter(d)
           /\ runtime \in 1..created /\ runtime \in Instances /\ Own = local[runtime]
           /\ Own # "Starting" /\ node # "Starting"
           /\ node \in {"Added", "Stopped"} => Own = "Stopped"
           /\ \A d \in Callers : ~At(d, "provision")
  <1>0. TInv /\ TypeOK
    BY DEF IInv, TInv
  <1>1. \A d \in Callers : ~Starter(d)
    BY DEF UnderWay, Starter
  <1>2. runtime \in 1..created /\ runtime \in Instances /\ Own = local[runtime]
    BY <1>0 DEF IInv, MadeInv, TypeOK, Own, Instances, None
  <1>3. Own # "Starting"
    BY <1>1, <1>2, StepsFit DEF IInv, TaskInv, TaskOf
  <1>4. node # "Starting"
    BY DEF IInv, NodeInv
  <1>5. node \in {"Added", "Stopped"} => Own = "Stopped"
    BY <1>0, <1>2 DEF IInv, ReportInv, Live, TypeOK
  <1>6. \A d \in Callers : ~At(d, "provision")
    BY DEF IInv, AddInv
  <1> QED
    BY <1>1, <1>2, <1>3, <1>4, <1>5, <1>6

\* A stop claims a source that does not start.
LEMMA StopClaimed ==
    ASSUME IInv, Races = {}, NEW c \in Callers, ClaimStop(c)
    PROVE  Rest'
  <1>0. TInv /\ TypeOK
    BY DEF IInv, TInv
  <1>1. /\ chan = <<>> /\ call[c].op = "stop" /\ At(c, "claim") /\ Found(c) = runtime
        /\ ~UnderWay("start")
        /\ UNCHANGED <<runtime, dep, chan, local, alive, held, created>>
        /\ Claim(c, "stop", "Stopping", "stop")
    BY DEF ClaimStop, StopRace, Claim, Claims, Found, source
  <1>2. Own' = Own /\ Reports' = Reports /\ Latest' = Latest /\ Reports = {}
    BY <1>1, ReportsKept, NoReports DEF Own
  <1>3. \/ Gone(c) /\ node' = node
        \/ /\ runtime # None /\ node' = "Stopping" /\ Moved("Stopping") = "Stopping"
           /\ Turns(c, "stop", "stop", runtime)
    BY <1>0, <1>1, StepNames, ClaimEffect
  <1>4. CASE Gone(c) /\ node' = node
    BY <1>1, <1>4, Withdrawn
  <1>5. CASE /\ runtime # None /\ node' = "Stopping" /\ Moved("Stopping") = "Stopping"
             /\ Turns(c, "stop", "stop", runtime)
    <2>1. /\ \A d \in Callers : d # c => call'[d] = call[d]
          /\ call'[c].op = "stop" /\ call'[c].at = "stop" /\ call'[c].rt = runtime
      BY <1>5 DEF Turns
    <2>2. /\ \A d \in Callers : ~Starter(d)
          /\ runtime \in 1..created /\ runtime \in Instances /\ Own # "Starting"
          /\ \A d \in Callers : ~At(d, "provision")
      BY <1>1, <1>5, NotStarting
    <2>3. node \notin {"Added", "Stopped"}
      BY <1>5 DEF Moved, IsValidTransition
    <2>4. MadeInv'
      BY <1>1, <2>1, <2>2 DEF IInv, MadeInv, Starter, Stopper, At
    <2>5. TurnInv'
      BY <2>1, <2>2 DEF IInv, TurnInv, Starter, Stopper, At
    <2>6. TaskInv'
      BY <1>1, <2>1, TasksKept DEF IInv, At
    <2>7. StartInv'
      BY <2>1, <2>2 DEF IInv, StartInv, Starter, At
    <2>8. StopInv'
      BY <1>1, <1>2, <1>5, <2>1, <2>2 DEF IInv, StopInv, Stopper, At
    <2>9. AddInv'
      BY <1>1, <2>1, <2>3 DEF IInv, AddInv, UnderWay, At
    <2>10. ReportInv'
      BY <1>1, <1>2, <1>5 DEF IInv, ReportInv, UnderWay, At, Live
    <2>11. OwnInv'
      BY <2>1 DEF IInv, OwnInv, RunComing, ErrorComing, Stopper, At
    <2>12. NodeInv'
      BY <1>5, <2>1 DEF IInv, NodeInv, UnderWay, Stops, At
    <2> QED
      BY <2>4, <2>5, <2>6, <2>7, <2>8, <2>9, <2>10, <2>11, <2>12 DEF Rest
  <1> QED
    BY <1>3, <1>4, <1>5

\* A remove claims a source that does not start.
LEMMA RemoveClaimed ==
    ASSUME IInv, Races = {}, NEW c \in Callers, ClaimRemove(c)
    PROVE  Rest'
  <1>0. TInv /\ TypeOK
    BY DEF IInv, TInv
  <1>1. /\ chan = <<>> /\ call[c].op = "remove" /\ At(c, "claim") /\ Found(c) = runtime
        /\ ~UnderWay("start")
        /\ UNCHANGED <<runtime, dep, chan, local, alive, held, created>>
    BY DEF ClaimRemove, StopRace, Claims, Found, source
  <1>2. Own' = Own /\ Reports' = Reports /\ Latest' = Latest /\ Reports = {}
    BY <1>1, ReportsKept, NoReports DEF Own
  <1>3. \/ Gone(c) /\ node' = node
        \/ /\ runtime # None /\ node \in {"Starting", "Running", "Error"} /\ node' = "Stopping"
           /\ Turns(c, "remove", "stop", runtime)
        \/ /\ runtime # None /\ node \in {"Added", "Stopped"} /\ node' = node
           /\ Turns(c, "remove", "take", runtime)
    <2>1. /\ node \in {"Starting", "Running", "Error"} => Moved("Stopping") = "Stopping"
          /\ node \in {"Added", "Stopped"} => Moved("Stopping") = node
      BY DEF Moved, IsValidTransition
    <2>2. node \in {"Starting", "Running", "Error", "Added", "Stopped", "Absent", "Stopping",
                    "Reconfiguring"}
      BY <1>0 DEF TypeOK, Status
    <2> QED
      BY <1>0, <1>1, <2>1, <2>2, RemoveEffect
  <1>4. CASE Gone(c) /\ node' = node
    BY <1>1, <1>4, Withdrawn
  <1>5. CASE /\ runtime # None /\ node \in {"Starting", "Running", "Error"} /\ node' = "Stopping"
             /\ Turns(c, "remove", "stop", runtime)
    <2>1. /\ \A d \in Callers : d # c => call'[d] = call[d]
          /\ call'[c].op = "remove" /\ call'[c].at = "stop" /\ call'[c].rt = runtime
      BY <1>5 DEF Turns
    <2>2. /\ \A d \in Callers : ~Starter(d)
          /\ runtime \in 1..created /\ runtime \in Instances /\ Own # "Starting"
          /\ \A d \in Callers : ~At(d, "provision")
      BY <1>1, <1>5, NotStarting
    <2>3. MadeInv'
      BY <1>1, <2>1, <2>2 DEF IInv, MadeInv, Starter, Stopper, At
    <2>4. TurnInv'
      BY <1>2, <1>5, <2>1, <2>2 DEF IInv, TurnInv, Starter, Stopper, At
    <2>5. TaskInv'
      BY <1>1, <2>1, TasksKept DEF IInv, At
    <2>6. StartInv'
      BY <1>2, <1>5, <2>1, <2>2 DEF IInv, StartInv, Starter, At
    <2>7. StopInv'
      BY <1>1, <1>2, <1>5, <2>1, <2>2 DEF IInv, StopInv, Stopper, At
    <2>8. AddInv'
      BY <1>1, <2>1, <2>2 DEF IInv, AddInv, UnderWay, At
    <2>9. ReportInv'
      BY <1>1, <1>2, <1>5 DEF IInv, ReportInv, UnderWay, At, Live
    <2>10. OwnInv'
      BY <1>2, <1>5, <2>1, <2>2 DEF IInv, OwnInv, RunComing, ErrorComing, Stopper, At
    <2>11. NodeInv'
      BY <1>2, <1>5, <2>1, <2>2 DEF IInv, NodeInv, UnderWay, Stops, At
    <2> QED
      BY <2>3, <2>4, <2>5, <2>6, <2>7, <2>8, <2>9, <2>10, <2>11 DEF Rest
  <1>6. CASE /\ runtime # None /\ node \in {"Added", "Stopped"} /\ node' = node
             /\ Turns(c, "remove", "take", runtime)
    <2>1. /\ \A d \in Callers : d # c => call'[d] = call[d]
          /\ call'[c].op = "remove" /\ call'[c].at = "take" /\ call'[c].rt = runtime
      BY <1>6 DEF Turns
    <2>2. /\ \A d \in Callers : ~Starter(d)
          /\ runtime \in 1..created /\ runtime \in Instances /\ Own = "Stopped"
          /\ \A d \in Callers : ~At(d, "provision")
      BY <1>1, <1>6, NotStarting
    <2>3. MadeInv'
      BY <1>1, <2>1, <2>2 DEF IInv, MadeInv, Starter, Stopper, At
    <2>4. TurnInv'
      BY <1>2, <1>6, <2>1, <2>2 DEF IInv, TurnInv, Starter, Stopper, At
    <2>5. TaskInv'
      BY <1>1, <2>1, TasksKept DEF IInv, At
    <2>6. StartInv'
      BY <1>2, <1>6, <2>1, <2>2 DEF IInv, StartInv, Starter, At
    <2>7. StopInv'
      BY <1>2, <1>6, <2>1, <2>2 DEF IInv, StopInv, Stopper, At
    <2>8. AddInv'
      BY <1>1, <2>1, <2>2 DEF IInv, AddInv, UnderWay, At
    <2>9. ReportInv'
      BY <1>1, <1>2, <1>6 DEF IInv, ReportInv, UnderWay, At, Live
    <2>10. OwnInv'
      BY <1>2, <1>6, <2>1, <2>2 DEF IInv, OwnInv, RunComing, ErrorComing, Stopper, At
    <2>11. NodeInv'
      BY <1>2, <1>6, <2>1, <2>2 DEF IInv, NodeInv, UnderWay, Stops, At
    <2> QED
      BY <2>3, <2>4, <2>5, <2>6, <2>7, <2>8, <2>9, <2>10, <2>11 DEF Rest
  <1> QED
    BY <1>3, <1>4, <1>5, <1>6

\* An update claims a source that does not start.
LEMMA UpdateClaimed ==
    ASSUME IInv, Races = {}, NEW c \in Callers, ClaimUpdate(c)
    PROVE  Rest'
  <1>0. TInv /\ TypeOK
    BY DEF IInv, TInv
  <1>1. /\ chan = <<>> /\ call[c].op = "update" /\ At(c, "claim") /\ Found(c) = runtime
        /\ ~UnderWay("start") /\ ~UnderWay("update")
        /\ UNCHANGED <<runtime, dep, chan, local, alive, held, created>>
    BY DEF ClaimUpdate, StopRace, Claims, Found, source
  <1>2. Own' = Own /\ Reports' = Reports /\ Latest' = Latest /\ Reports = {}
    BY <1>1, ReportsKept, NoReports DEF Own
  <1>3. \/ Gone(c) /\ node' = node
        \/ /\ runtime # None /\ node' = "Reconfiguring"
           /\ node \in {"Running", "Error"}
           /\ Turns(c, "update", "stop", runtime)
        \/ /\ runtime # None /\ node' = "Reconfiguring"
           /\ node \in {"Added", "Stopped", "Reconfiguring"}
           /\ Turns(c, "update", "replace", runtime)
    <2>1. Moved("Reconfiguring") = "Reconfiguring" =>
             node \in {"Added", "Stopped", "Running", "Error", "Reconfiguring"}
      BY DEF Moved, IsValidTransition
    <2>2. /\ node \in {"Running", "Error"} => IsValidTransition(node, "Stopping")
          /\ node \in {"Added", "Stopped", "Reconfiguring"} => ~IsValidTransition(node, "Stopping")
      BY DEF IsValidTransition
    <2> QED
      BY <1>0, <1>1, <2>1, <2>2, UpdateEffect
  <1>4. CASE Gone(c) /\ node' = node
    BY <1>1, <1>4, Withdrawn
  <1>5. CASE /\ runtime # None /\ node' = "Reconfiguring"
             /\ node \in {"Running", "Error"}
             /\ Turns(c, "update", "stop", runtime)
    <2>1. /\ \A d \in Callers : d # c => call'[d] = call[d]
          /\ call'[c].op = "update" /\ call'[c].at = "stop" /\ call'[c].rt = runtime
      BY <1>5 DEF Turns
    <2>2. /\ \A d \in Callers : ~Starter(d)
          /\ runtime \in 1..created /\ runtime \in Instances /\ Own # "Starting"
          /\ \A d \in Callers : ~At(d, "provision")
      BY <1>1, <1>5, NotStarting
    <2>3. MadeInv'
      BY <1>1, <2>1, <2>2 DEF IInv, MadeInv, Starter, Stopper, At
    <2>4. TurnInv'
      BY <1>2, <1>5, <2>1, <2>2 DEF IInv, TurnInv, Starter, Stopper, At
    <2>5. TaskInv'
      BY <1>1, <2>1, TasksKept DEF IInv, At
    <2>6. StartInv'
      BY <1>2, <1>5, <2>1, <2>2 DEF IInv, StartInv, Starter, At
    <2>7. StopInv'
      BY <1>1, <1>2, <1>5, <2>1, <2>2 DEF IInv, StopInv, Stopper, At
    <2>8. AddInv'
      BY <1>1, <2>1, <2>2 DEF IInv, AddInv, UnderWay, At
    <2>9. ReportInv'
      BY <1>1, <1>2, <1>5 DEF IInv, ReportInv, UnderWay, At, Live
    <2>10. OwnInv'
      BY <1>2, <1>5, <2>1, <2>2 DEF IInv, OwnInv, RunComing, ErrorComing, Stopper, At
    <2>11. NodeInv'
      BY <1>2, <1>5, <2>1, <2>2 DEF IInv, NodeInv, UnderWay, Stops, At
    <2> QED
      BY <2>3, <2>4, <2>5, <2>6, <2>7, <2>8, <2>9, <2>10, <2>11 DEF Rest
  <1>6. CASE /\ runtime # None /\ node' = "Reconfiguring"
             /\ node \in {"Added", "Stopped", "Reconfiguring"}
             /\ Turns(c, "update", "replace", runtime)
    <2>1. /\ \A d \in Callers : d # c => call'[d] = call[d]
          /\ call'[c].op = "update" /\ call'[c].at = "replace" /\ call'[c].rt = runtime
      BY <1>6 DEF Turns
    <2>2. /\ \A d \in Callers : ~Starter(d)
          /\ runtime \in 1..created /\ runtime \in Instances /\ Own = local[runtime]
          /\ node \in {"Added", "Stopped"} => Own = "Stopped"
          /\ \A d \in Callers : ~At(d, "provision")
      BY <1>1, <1>6, NotStarting
    <2>3. Own = "Stopped"
      BY <1>0, <1>1, <1>6, <2>2 DEF IInv, NodeInv, TypeOK
    <2>4. MadeInv'
      BY <1>1, <2>1, <2>2 DEF IInv, MadeInv, Starter, Stopper, At
    <2>5. TurnInv'
      BY <2>1, <2>2 DEF IInv, TurnInv, Starter, Stopper, At
    <2>6. TaskInv'
      BY <1>1, <2>1, TasksKept DEF IInv, At
    <2>7. StartInv'
      BY <2>1, <2>2 DEF IInv, StartInv, Starter, At
    <2>8. StopInv'
      BY <1>2, <1>6, <2>3 DEF IInv, StopInv, Stopper, At
    <2>9. AddInv'
      BY <1>1, <2>1, <2>2 DEF IInv, AddInv, UnderWay, At
    <2>10. ReportInv'
      BY <1>1, <1>2, <1>6 DEF IInv, ReportInv, UnderWay, At, Live
    <2>11. OwnInv'
      BY <1>2, <2>3 DEF IInv, OwnInv, RunComing, ErrorComing, Stopper, At
    <2>12. NodeInv'
      BY <1>6, <2>1 DEF IInv, NodeInv, UnderWay, Stops, At
    <2> QED
      BY <2>4, <2>5, <2>6, <2>7, <2>8, <2>9, <2>10, <2>11, <2>12 DEF Rest
  <1> QED
    BY <1>3, <1>4, <1>5, <1>6

\* A command begins.
LEMMA CallMade ==
    ASSUME IInv, Races = {}, NEW c \in Callers,
           NEW op \in {"add", "start", "stop", "remove", "update"}, Call(c, op)
    PROVE  Rest'
  <1>0. TInv /\ TypeOK
    BY DEF IInv, TInv
  <1>1. /\ At(c, "idle") /\ UNCHANGED <<runtime, dep, chan, local, alive, held, created>>
        /\ op = "add" => ~UnderWay("remove")
    BY DEF Call, source
  <1>2. Own' = Own /\ Reports' = Reports /\ Latest' = Latest
    BY <1>1, ReportsKept DEF Own
  <1>3. CASE op = "add"
    <2>1. node = "Absent" /\ node' = "Added" /\ Turns(c, "add", "provision", call[c].rt)
      BY <1>0, <1>3, CallEffect
    <2>2. /\ \A d \in Callers : d # c => call'[d] = call[d]
          /\ call'[c].op = "add" /\ call'[c].at = "provision"
      BY <2>1 DEF Turns, Gone
    <2>3. runtime = None /\ Own = "Absent" /\ \A d \in Callers : ~At(d, "provision")
      BY <1>0, <2>1 DEF TypeOK, IInv, AddInv, Own
    <2>4. call[c].op = "none"
      BY <1>0, <1>1, StepsFit
    <2>5. MadeInv'
      BY <1>1, <2>2 DEF IInv, MadeInv, Starter, Stopper, At
    <2>6. TurnInv'
      BY <2>2, <2>3 DEF IInv, TurnInv, Starter, Stopper, At
    <2>7. TaskInv'
      BY <1>1, <2>2, TasksKept DEF IInv, At
    <2>8. StartInv'
      BY <1>1, <2>2, <2>3 DEF IInv, StartInv, Starter, At
    <2>9. StopInv'
      BY <1>2, <2>1, <2>2, <2>3 DEF IInv, StopInv, Stopper, At
    <2>10. AddInv'
      BY <1>1, <1>3, <2>1, <2>2, <2>3 DEF IInv, AddInv, UnderWay, At
    <2>11. ReportInv'
      BY <1>1, <1>2, <2>1, <2>2, <2>3, <2>4 DEF IInv, ReportInv, UnderWay, At
    <2>12. OwnInv'
      BY <1>2, <2>3 DEF IInv, OwnInv, RunComing, ErrorComing, Stopper, At
    <2>13. NodeInv'
      BY <2>1 DEF IInv, NodeInv, UnderWay, Stops, At
    <2> QED
      BY <2>5, <2>6, <2>7, <2>8, <2>9, <2>10, <2>11, <2>12, <2>13 DEF Rest
  <1>4. CASE op # "add"
    <2>1. node' = node /\ runtime # None /\ Turns(c, op, "claim", runtime) /\ (op = "remove" => ~dep)
      BY <1>0, <1>4, CallEffect
    <2>2. /\ \A d \in Callers : d # c => call'[d] = call[d]
          /\ call'[c].op = op /\ call'[c].at = "claim"
      BY <2>1 DEF Turns, Gone
    <2>3. call[c].op = "none"
      BY <1>0, <1>1, StepsFit
    <2>4. MadeInv'
      BY <1>1, <2>2 DEF IInv, MadeInv, Starter, Stopper, At
    <2>5. TurnInv'
      BY <2>2 DEF IInv, TurnInv, Starter, Stopper, At
    <2>6. TaskInv'
      BY <1>1, <2>2, TasksKept DEF IInv, At
    <2>7. StartInv'
      BY <1>1, <1>2, <2>1, <2>2 DEF IInv, StartInv, Starter, At
    <2>8. StopInv'
      BY <1>1, <1>2, <2>1, <2>2 DEF IInv, StopInv, Stopper, At
    <2>9. AddInv'
      BY <1>1, <2>1, <2>2 DEF IInv, AddInv, UnderWay, At
    <2>10. ReportInv'
      BY <1>1, <1>2, <2>1, <2>2, <2>3 DEF IInv, ReportInv, UnderWay, At
    <2>11. OwnInv'
      BY <1>1, <1>2, <2>1, <2>2, <2>3 DEF IInv, OwnInv, RunComing, ErrorComing, Stopper, At
    <2>12. NodeInv'
      BY <1>1, <1>2, <2>1, <2>2, <2>3 DEF IInv, NodeInv, UnderWay, Stops, At
    <2> QED
      BY <2>4, <2>5, <2>6, <2>7, <2>8, <2>9, <2>10, <2>11, <2>12 DEF Rest
  <1> QED
    BY <1>3, <1>4

\* An add creates the instance and puts it in the graph.
LEMMA Provisioned ==
    ASSUME IInv, NEW c \in Callers, Provision(c)
    PROVE  Rest'
  <1>0. TInv /\ TypeOK
    BY DEF IInv, TInv
  <1>1. /\ At(c, "provision") /\ UNCHANGED <<node, dep, chan, local, alive, held>>
        /\ created' = created + 1 /\ created \in Nat
    BY <1>0 DEF Provision, TypeOK
  <1>2. node \in {"Added", "Stopped"} /\ runtime = None /\ ~UnderWay("remove")
    BY <1>1 DEF IInv, AddInv
  <1>3. /\ created + 1 \in Instances /\ runtime' = created + 1
        /\ Gone(c) \/ Turns(c, "start", "claim", created + 1)
    BY <1>0, <1>2, ProvisionEffect
  <1>4. Own = "Absent" /\ Own' = "Stopped" /\ Reports' = Reports /\ Latest' = Latest
    <2>1. created + 1 # None /\ local[created + 1] = "Stopped"
      BY <1>1, <1>3 DEF IInv, MadeInv, None
    <2> QED
      BY <1>1, <1>2, <1>3, <2>1, ReportsKept DEF Own
  <1>5. /\ \A d \in Callers : d # c => call'[d] = call[d]
        /\ \/ call'[c].op = "none" /\ call'[c].at = "idle"
           \/ call'[c].op = "start" /\ call'[c].at = "claim"
    BY <1>3 DEF Turns, Gone
  <1>6. \A i \in Instances : i # runtime /\ i \in Nat
    BY <1>2 DEF None, Instances
  <1>7. \A d \in Callers : ~Starter(d)
    BY <1>2 DEF IInv, StartInv, MadeInv, None
  <1>8. /\ call[c].op = "add"
        /\ \A d \in Callers : ~At(d, "deregister") /\ (d # c => ~At(d, "provision"))
    BY <1>1, <1>2, StepsFit DEF IInv, TurnInv, UnderWay, At
  <1>9. MadeInv'
    BY <1>1, <1>3, <1>5, <1>6 DEF IInv, MadeInv, Starter, Stopper, At
  <1>10. TurnInv'
    BY <1>5 DEF IInv, TurnInv, Starter, Stopper, At
  <1>11. TaskInv'
    BY <1>1, <1>5, <1>6 DEF IInv, TaskInv, TaskOf, At
  <1>12. StartInv'
    BY <1>5, <1>7 DEF IInv, StartInv, Starter, At
  <1>13. StopInv'
    BY <1>1, <1>4, <1>5 DEF IInv, StopInv, Stopper, At
  <1>14. AddInv'
    BY <1>1, <1>5, <1>8 DEF IInv, AddInv, UnderWay, At
  <1>15. ReportInv'
    BY <1>1, <1>4, <1>5, <1>8 DEF IInv, ReportInv, UnderWay, At
  <1>16. OwnInv'
    BY <1>4 DEF IInv, OwnInv, RunComing, ErrorComing, Stopper, At
  <1>17. NodeInv'
    BY <1>1, <1>2 DEF IInv, NodeInv, UnderWay, Stops, At
  <1> QED
    BY <1>9, <1>10, <1>11, <1>12, <1>13, <1>14, <1>15, <1>16, <1>17 DEF Rest

\* The one start there is.
LEMMA StartAlone ==
    ASSUME IInv, NEW c \in Callers, Starter(c)
    PROVE  /\ \A d \in Callers : ~Stopper(d) /\ (Starter(d) => d = c)
           /\ \A d \in Callers : call[d].at \in {"start", "spawn", "report", "revert"} => d = c
           /\ \A d \in Callers : call[d].at \notin {"stop", "abort", "failed", "wait", "take",
                                                   "deregister", "replace"}
           /\ call[c].rt = runtime /\ runtime \in 1..created /\ runtime \in Instances
           /\ runtime # None /\ Own = local[runtime]
  <1>0. TInv /\ TypeOK
    BY DEF IInv, TInv
  <1>1. \A d \in Callers : ~Stopper(d) /\ (Starter(d) => d = c)
    BY DEF IInv, TurnInv
  <1>2. call[c].rt = runtime /\ runtime \in 1..created
    BY DEF IInv, StartInv, MadeInv
  <1>3. runtime \in Instances /\ runtime # None
    BY <1>0, <1>2 DEF TypeOK, None
  <1> QED
    BY <1>0, <1>1, <1>2, <1>3, StepsFit DEF Own

\* A change of the source's own status, with its report.
LEMMA StatusSet ==
    ASSUME TypeOK, runtime \in Instances, NEW s, SetStatus(runtime, s), runtime' = runtime
    PROVE  /\ \A j \in Instances : local'[j] = IF j = runtime THEN s ELSE local[j]
           /\ Own' = s /\ Reports' = Reports \union {s} /\ Latest' = s /\ chan' # <<>>
  <1>1. local \in [Instances -> {"Starting", "Running", "Stopping", "Stopped", "Error"}] /\ runtime # None
    BY DEF TypeOK, Instances, None
  <1>2. local' = [local EXCEPT ![runtime] = s] /\ chan' = Append(chan, s)
    BY DEF SetStatus
  <1>3. \A j \in Instances : local'[j] = IF j = runtime THEN s ELSE local[j]
    BY <1>1, <1>2
  <1> QED
    BY <1>1, <1>2, <1>3, ReportAppended DEF Own

\* The source sets itself to Starting.
LEMMA Started ==
    ASSUME IInv, NEW c \in Callers, SourceStarts(c)
    PROVE  Rest'
  <1>0. TInv /\ TypeOK
    BY DEF IInv, TInv
  <1>1. At(c, "start") /\ Starter(c)
    BY <1>0, StepsFit DEF SourceStarts, At
  <1>2. /\ \A d \in Callers : ~Stopper(d) /\ (Starter(d) => d = c)
        /\ \A d \in Callers : call[d].at \in {"start", "spawn", "report", "revert"} => d = c
        /\ \A d \in Callers : call[d].at \notin {"stop", "abort", "failed", "wait", "take",
                                                "deregister", "replace"}
        /\ call[c].rt = runtime /\ runtime \in 1..created /\ runtime \in Instances
        /\ runtime # None /\ Own = local[runtime]
    BY <1>1, StartAlone
  <1>3. node = "Starting" /\ chan = <<>> /\ Own \in {"Stopped", "Error"} /\ call[c].op = "start"
    BY <1>1 DEF IInv, StartInv, Starter
  <1>4. /\ UNCHANGED <<node, runtime, dep, alive, held, created>>
        /\ SetStatus(runtime, "Starting") /\ Goto(c, "spawn") /\ ~held[runtime]
    BY <1>2, <1>3 DEF SourceStarts, graph, IInv, TaskInv, TaskOf
  <1>5. /\ \A j \in Instances : local'[j] = IF j = runtime THEN "Starting" ELSE local[j]
        /\ Own' = "Starting" /\ Reports' = {"Starting"} /\ Latest' = "Starting" /\ chan' # <<>>
    BY <1>0, <1>2, <1>3, <1>4, StatusSet, NoReports
  <1>6. Turns(c, "start", "spawn", runtime)
    BY <1>0, <1>2, <1>3, <1>4, GotoTurns, StepNames
  <1>7. /\ \A d \in Callers : d # c => call'[d] = call[d]
        /\ call'[c].op = "start" /\ call'[c].at = "spawn" /\ call'[c].rt = runtime
    BY <1>6 DEF Turns, Gone
  <1>8. MadeInv'
    <2>1. \A i \in Instances : i > created => i # runtime
      BY <1>0, <1>2 DEF TypeOK, Instances
    <2>2. \A i \in Instances : i > created => local'[i] = "Stopped" /\ alive'[i] = 0
      BY <1>4, <1>5, <2>1 DEF IInv, MadeInv
    <2> QED
      BY <1>2, <1>4, <1>7, <2>2 DEF IInv, MadeInv, Starter, Stopper, At
  <1>9. TurnInv'
    BY <1>2, <1>7 DEF IInv, TurnInv, Starter, Stopper, At
  <1>10. TaskInv'
    <2>1. ASSUME NEW i \in Instances, i # runtime
          PROVE  TaskOf(i)'
      <3>1. TaskOf(i) /\ local'[i] = local[i] /\ alive'[i] = alive[i] /\ held'[i] = held[i]
        BY <1>4, <1>5, <2>1 DEF IInv, TaskInv
      <3> QED
        BY <1>2, <2>1, <3>1 DEF TaskOf, At
    <2>2. TaskOf(runtime)'
      <3>1. TaskOf(runtime) /\ local'[runtime] = "Starting" /\ alive'[runtime] = alive[runtime]
        BY <1>2, <1>5, <1>4 DEF IInv, TaskInv
      <3> QED
        BY <1>4, <1>7, <3>1 DEF TaskOf
    <2> QED
      BY <1>4, <2>1, <2>2 DEF TaskInv
  <1>11. StartInv'
    BY <1>2, <1>3, <1>4, <1>5, <1>7 DEF IInv, StartInv, Starter, At
  <1>12. StopInv'
    BY <1>3, <1>7 DEF IInv, StopInv, Stopper, At
  <1>13. AddInv'
    BY <1>4, <1>7 DEF IInv, AddInv, UnderWay, At
  <1>14. ReportInv'
    BY <1>3, <1>4, <1>5, <1>7 DEF IInv, ReportInv, UnderWay, At, Live
  <1>15. OwnInv'
    BY <1>5 DEF IInv, OwnInv, RunComing, ErrorComing, Stopper, At
  <1>16. NodeInv'
    BY <1>3, <1>4, <1>7 DEF IInv, NodeInv, UnderWay, Stops, At
  <1> QED
    BY <1>8, <1>9, <1>10, <1>11, <1>12, <1>13, <1>14, <1>15, <1>16 DEF Rest

\* The source spawns its task.
LEMMA TaskSpawned ==
    ASSUME IInv, NEW c \in Callers, SpawnTask(c)
    PROVE  Rest'
  <1>0. TInv /\ TypeOK
    BY DEF IInv, TInv
  <1>1. At(c, "spawn") /\ Starter(c)
    BY <1>0, StepsFit DEF SpawnTask, At
  <1>2. /\ \A d \in Callers : ~Stopper(d) /\ (Starter(d) => d = c)
        /\ \A d \in Callers : call[d].at \in {"start", "spawn", "report", "revert"} => d = c
        /\ call[c].rt = runtime /\ runtime \in 1..created /\ runtime \in Instances
        /\ runtime # None /\ Own = local[runtime]
    BY <1>1, StartAlone
  <1>3. /\ node = "Starting" /\ Reports \subseteq {"Starting"} /\ Own = "Starting"
        /\ ~held[runtime] /\ call[c].op = "start"
    BY <1>1 DEF IInv, StartInv, Starter, At
  <1>4. /\ UNCHANGED <<node, runtime, dep, chan, local, created>> /\ Goto(c, "report")
        /\ alive' = [alive EXCEPT ![runtime] = @ + 1] /\ held' = [held EXCEPT ![runtime] = TRUE]
    BY <1>2 DEF SpawnTask, graph
  <1>5. /\ \A j \in Instances : j # runtime => alive'[j] = alive[j] /\ held'[j] = held[j]
        /\ alive'[runtime] = 1 /\ held'[runtime] = TRUE
    BY <1>0, <1>2, <1>3, <1>4 DEF TypeOK, IInv, TaskInv, TaskOf
  <1>6. Own' = Own /\ Reports' = Reports /\ Latest' = Latest
    BY <1>4, ReportsKept DEF Own
  <1>7. Turns(c, "start", "report", runtime)
    BY <1>0, <1>2, <1>3, <1>4, GotoTurns, StepNames
  <1>8. /\ \A d \in Callers : d # c => call'[d] = call[d]
        /\ call'[c].op = "start" /\ call'[c].at = "report" /\ call'[c].rt = runtime
    BY <1>7 DEF Turns, Gone
  <1>9. MadeInv'
    BY <1>2, <1>4, <1>8, <1>0 DEF IInv, MadeInv, Starter, Stopper, At, TypeOK
  <1>10. TurnInv'
    BY <1>2, <1>8 DEF IInv, TurnInv, Starter, Stopper, At
  <1>11. TaskInv'
    <2>1. ASSUME NEW i \in Instances, i # runtime
          PROVE  TaskOf(i)'
      <3>1. TaskOf(i) /\ local'[i] = local[i] /\ alive'[i] = alive[i] /\ held'[i] = held[i]
        BY <1>4, <1>5, <2>1 DEF IInv, TaskInv
      <3> QED
        BY <1>2, <1>8, <2>1, <3>1 DEF TaskOf, At
    <2>2. TaskOf(runtime)'
      <3>1. local'[runtime] = "Starting"
        BY <1>2, <1>3, <1>4
      <3> QED
        BY <1>4, <1>5, <1>8, <3>1 DEF TaskOf
    <2> QED
      BY <2>1, <2>2, <1>4 DEF TaskInv
  <1>12. StartInv'
    BY <1>2, <1>3, <1>4, <1>5, <1>6, <1>8 DEF IInv, StartInv, Starter, At
  <1>13. StopInv'
    BY <1>4, <1>6, <1>8 DEF IInv, StopInv, Stopper, At
  <1>14. AddInv'
    BY <1>4, <1>8 DEF IInv, AddInv, UnderWay, At
  <1>15. ReportInv'
    BY <1>1, <1>4, <1>6, <1>8 DEF IInv, ReportInv, UnderWay, At
  <1>16. OwnInv'
    BY <1>3, <1>6 DEF IInv, OwnInv, RunComing, ErrorComing, Stopper, At
  <1>17. NodeInv'
    BY <1>3, <1>4, <1>8 DEF IInv, NodeInv, UnderWay, Stops, At
  <1> QED
    BY <1>9, <1>10, <1>11, <1>12, <1>13, <1>14, <1>15, <1>16, <1>17 DEF Rest

\* The source reports Running.
LEMMA RunningReported ==
    ASSUME IInv, NEW c \in Callers, ReportRunning(c)
    PROVE  Rest'
  <1>0. TInv /\ TypeOK
    BY DEF IInv, TInv
  <1>1. At(c, "report") /\ Starter(c)
    BY <1>0, StepsFit DEF ReportRunning, At
  <1>2. /\ \A d \in Callers : ~Stopper(d) /\ (Starter(d) => d = c)
        /\ \A d \in Callers : call[d].at \in {"start", "spawn", "report", "revert"} => d = c
        /\ call[c].rt = runtime /\ runtime \in 1..created /\ runtime \in Instances
        /\ runtime # None /\ Own = local[runtime]
    BY <1>1, StartAlone
  <1>3. /\ node = "Starting" /\ Reports \subseteq {"Starting"} /\ Own = "Starting"
        /\ held[runtime]
    BY <1>1 DEF IInv, StartInv, Starter, At
  <1>4. /\ UNCHANGED <<node, runtime, dep, alive, held, created>>
        /\ SetStatus(runtime, "Running") /\ Return(c)
    BY <1>2, <1>3 DEF ReportRunning, graph
  <1>5. /\ \A j \in Instances : local'[j] = IF j = runtime THEN "Running" ELSE local[j]
        /\ Own' = "Running" /\ Reports' = Reports \union {"Running"} /\ Latest' = "Running" /\ chan' # <<>>
    BY <1>0, <1>2, <1>4, StatusSet
  <1>6. Gone(c)
    BY <1>0, <1>4, ReturnTurns DEF Gone
  <1>7. /\ \A d \in Callers : d # c => call'[d] = call[d]
        /\ call'[c].op = "none" /\ call'[c].at = "idle"
    BY <1>6 DEF Turns, Gone
  <1>8. MadeInv'
    <2>1. \A i \in Instances : i > created => i # runtime
      BY <1>0, <1>2 DEF TypeOK, Instances
    <2>2. \A i \in Instances : i > created => local'[i] = "Stopped" /\ alive'[i] = 0
      BY <1>4, <1>5, <2>1 DEF IInv, MadeInv
    <2> QED
      BY <1>4, <1>7, <2>2 DEF IInv, MadeInv, Starter, Stopper, At
  <1>9. TurnInv'
    BY <1>7 DEF IInv, TurnInv, Starter, Stopper, At
  <1>10. TaskInv'
    BY <1>2, <1>3, <1>4, <1>5, <1>7 DEF IInv, TaskInv, TaskOf, At
  <1>11. StartInv'
    BY <1>2, <1>7 DEF IInv, StartInv, Starter, At
  <1>12. StopInv'
    BY <1>3, <1>7 DEF IInv, StopInv, Stopper, At
  <1>13. AddInv'
    BY <1>4, <1>7 DEF IInv, AddInv, UnderWay, At
  <1>14. ReportInv'
    BY <1>3, <1>4, <1>5 DEF IInv, ReportInv, UnderWay, At, Live
  <1>15. OwnInv'
    BY <1>3, <1>4, <1>5 DEF IInv, OwnInv, RunComing, ErrorComing, Stopper, At
  <1>16. NodeInv'
    BY <1>3, <1>4, <1>5 DEF IInv, NodeInv, UnderWay, Stops, At
  <1> QED
    BY <1>8, <1>9, <1>10, <1>11, <1>12, <1>13, <1>14, <1>15, <1>16 DEF Rest

\* The source could not start.
LEMMA StartFailed ==
    ASSUME IInv, NEW c \in Callers, StartFails(c)
    PROVE  Rest'
  <1>0. TInv /\ TypeOK
    BY DEF IInv, TInv
  <1>1. At(c, "spawn") /\ Starter(c)
    BY <1>0, StepsFit DEF StartFails, At
  <1>2. /\ \A d \in Callers : ~Stopper(d) /\ (Starter(d) => d = c)
        /\ \A d \in Callers : call[d].at \in {"start", "spawn", "report", "revert"} => d = c
        /\ call[c].rt = runtime /\ runtime \in 1..created /\ runtime \in Instances
        /\ runtime # None /\ Own = local[runtime]
    BY <1>1, StartAlone
  <1>3. /\ node = "Starting" /\ Reports \subseteq {"Starting"} /\ Own = "Starting"
        /\ ~held[runtime] /\ call[c].op = "start"
    BY <1>1 DEF IInv, StartInv, Starter, At
  <1>4. /\ UNCHANGED <<node, runtime, dep, alive, held, created>> /\ Goto(c, "revert")
        /\ local' = [local EXCEPT ![runtime] = "Error"]
        /\ chan' \in {chan \o <<"Error">>, chan \o <<"Error", "Error">>}
    BY <1>2 DEF StartFails, graph
  <1>5. /\ \A j \in Instances : local'[j] = IF j = runtime THEN "Error" ELSE local[j]
        /\ Own' = "Error" /\ Reports' = Reports \union {"Error"} /\ Latest' = "Error" /\ chan' # <<>>
    BY <1>0, <1>2, <1>4, FailureReported DEF TypeOK, Own
  <1>6. Turns(c, "start", "revert", runtime)
    BY <1>0, <1>2, <1>3, <1>4, GotoTurns, StepNames
  <1>7. /\ \A d \in Callers : d # c => call'[d] = call[d]
        /\ call'[c].op = "start" /\ call'[c].at = "revert" /\ call'[c].rt = runtime
    BY <1>6 DEF Turns, Gone
  <1>8. MadeInv'
    <2>1. \A i \in Instances : i > created => i # runtime
      BY <1>0, <1>2 DEF TypeOK, Instances
    <2>2. \A i \in Instances : i > created => local'[i] = "Stopped" /\ alive'[i] = 0
      BY <1>4, <1>5, <2>1 DEF IInv, MadeInv
    <2> QED
      BY <1>2, <1>4, <1>7, <2>2 DEF IInv, MadeInv, Starter, Stopper, At
  <1>9. TurnInv'
    BY <1>2, <1>7 DEF IInv, TurnInv, Starter, Stopper, At
  <1>10. TaskInv'
    <2>1. ASSUME NEW i \in Instances, i # runtime
          PROVE  TaskOf(i)'
      <3>1. TaskOf(i) /\ local'[i] = local[i] /\ alive'[i] = alive[i] /\ held'[i] = held[i]
        BY <1>4, <1>5, <2>1 DEF IInv, TaskInv
      <3> QED
        BY <1>2, <1>7, <2>1, <3>1 DEF TaskOf, At
    <2>2. ASSUME NEW i \in Instances, i = runtime
          PROVE  TaskOf(i)'
      <3>1. TaskOf(i) /\ local'[i] = "Error" /\ ~held'[i] /\ alive'[i] = alive[i] /\ ~held[i]
        BY <1>3, <1>4, <1>5, <2>2 DEF IInv, TaskInv
      <3> QED
        BY <3>1 DEF TaskOf
    <2> QED
      BY <2>1, <2>2 DEF TaskInv
  <1>11. StartInv'
    BY <1>2, <1>4, <1>5, <1>7 DEF IInv, StartInv, Starter, At
  <1>12. StopInv'
    BY <1>3, <1>7 DEF IInv, StopInv, Stopper, At
  <1>13. AddInv'
    BY <1>4, <1>7 DEF IInv, AddInv, UnderWay, At
  <1>14. ReportInv'
    BY <1>3, <1>4, <1>5 DEF IInv, ReportInv, UnderWay, At, Live
  <1>15. OwnInv'
    BY <1>3, <1>4, <1>5 DEF IInv, OwnInv, RunComing, ErrorComing, Stopper, At, Live
  <1>16. NodeInv'
    BY <1>3, <1>4, <1>7 DEF IInv, NodeInv, UnderWay, Stops, At
  <1> QED
    BY <1>8, <1>9, <1>10, <1>11, <1>12, <1>13, <1>14, <1>15, <1>16 DEF Rest

\* A failed start puts the node in Error.
LEMMA StartReverted ==
    ASSUME IInv, NEW c \in Callers, RevertStart(c)
    PROVE  Rest'
  <1>0. TInv /\ TypeOK
    BY DEF IInv, TInv
  <1>1. At(c, "revert") /\ Starter(c)
    BY <1>0, StepsFit DEF RevertStart, At
  <1>2. /\ \A d \in Callers : ~Stopper(d) /\ (Starter(d) => d = c)
        /\ \A d \in Callers : call[d].at \in {"start", "spawn", "report", "revert"} => d = c
        /\ \A d \in Callers : call[d].at \notin {"stop", "abort", "failed", "wait", "take",
                                                "deregister", "replace"}
        /\ runtime \in Instances /\ runtime # None
    BY <1>1, StartAlone
  <1>3. Own = "Error" /\ ErrorComing
    BY <1>1, <1>2 DEF IInv, StartInv, OwnInv, Starter, At
  <1>4. UNCHANGED <<runtime, dep, chan, local, alive, held, created>> /\ Return(c) /\ node' = Moved("Error")
    BY DEF RevertStart, source
  <1>5. node' = "Error"
    BY <1>3, <1>4 DEF ErrorComing, Live, Moved, IsValidTransition
  <1>6. Own' = Own /\ Reports' = Reports /\ Latest' = Latest
    BY <1>4, ReportsKept DEF Own
  <1>7. Gone(c)
    BY <1>0, <1>4, ReturnTurns DEF Gone
  <1>8. /\ \A d \in Callers : d # c => call'[d] = call[d]
        /\ call'[c].op = "none" /\ call'[c].at = "idle"
    BY <1>7 DEF Turns, Gone
  <1>9. MadeInv'
    BY <1>4, <1>8 DEF IInv, MadeInv, Starter, Stopper, At
  <1>10. TurnInv'
    BY <1>8 DEF IInv, TurnInv, Starter, Stopper, At
  <1>11. TaskInv'
    BY <1>1, <1>4, <1>8, TasksKept DEF IInv, At
  <1>12. StartInv'
    BY <1>2, <1>8 DEF IInv, StartInv, Starter, At
  <1>13. StopInv'
    BY <1>4, <1>5, <1>6, <1>8 DEF IInv, StopInv, Stopper, At
  <1>14. AddInv'
    BY <1>2, <1>4, <1>8 DEF IInv, AddInv, UnderWay, At
  <1>15. ReportInv'
    BY <1>3, <1>4, <1>5, <1>6 DEF IInv, ReportInv, UnderWay, At, Live, ErrorComing
  <1>16. OwnInv'
    BY <1>3, <1>4, <1>5, <1>6 DEF IInv, OwnInv, RunComing, ErrorComing, Stopper, At, Live
  <1>17. NodeInv'
    BY <1>5 DEF IInv, NodeInv, UnderWay, Stops, At
  <1> QED
    BY <1>9, <1>10, <1>11, <1>12, <1>13, <1>14, <1>15, <1>16, <1>17 DEF Rest

----------------------------------------------------------------------------
(* The steps of a stop, a remove and an update, without races.             *)

\* The last report is one of them.
LEMMA LatestReport ==
    ASSUME TypeOK, chan # <<>>
    PROVE  Latest \in Reports
  <1>1. chan \in Seq(Status) /\ Len(chan) \in DOMAIN chan
    BY DEF TypeOK
  <1> QED
    BY <1>1 DEF Latest, Reports

\* Where Error leads, and Stopped.
LEMMA MovedError ==
    ASSUME TypeOK
    PROVE  /\ node \in Live => Moved("Error") = "Error"
           /\ node \notin Live => Moved("Error") = node /\ node \in {"Added", "Stopped", "Absent"}
  BY DEF TypeOK, Status, Live, Moved, IsValidTransition

LEMMA MovedStopped ==
    ASSUME TypeOK, node # "Absent"
    PROVE  Moved("Stopped") = "Stopped"
  BY DEF TypeOK, Status, Moved, IsValidTransition

\* What is known while the caller stops, removes or updates the source.
StopState(c) ==
    /\ \A d \in Callers : ~Starter(d)
    /\ \A d \in Callers : call[d].at \notin {"start", "spawn", "report", "revert"}
    /\ call[c].rt \in 1..created /\ call[c].rt \in Instances /\ call[c].rt # None
    /\ Own \in {"Absent", "Stopped"} \/ call[c].rt = runtime
    /\ Own # "Starting" /\ node \notin {"Starting", "Running"}
    /\ "Starting" \notin Reports /\ "Running" \notin Reports
    /\ chan # <<>> => Latest \notin {"Starting", "Running"}
    /\ \A i \in Instances : local[i] # "Starting"
    /\ ~At(c, "stop") => Own # "Running" /\ \A i \in Instances : local[i] # "Running"

LEMMA StopFacts ==
    ASSUME IInv, NEW c \in Callers, Stopper(c)
    PROVE  StopState(c)
  <1>0. TInv /\ TypeOK
    BY DEF IInv, TInv
  <1>1. \A d \in Callers : ~Starter(d)
    BY DEF IInv, TurnInv
  <1>2. \A d \in Callers : call[d].at \notin {"start", "spawn", "report", "revert"}
    BY <1>0, <1>1, StepsFit
  <1>3. call[c].rt \in 1..created /\ call[c].rt \in Instances /\ call[c].rt # None
    BY <1>0 DEF IInv, MadeInv, TypeOK, None
  <1>4. /\ Own \in {"Absent", "Stopped"} \/ call[c].rt = runtime
        /\ Own # "Starting" /\ node \notin {"Starting", "Running"}
        /\ "Starting" \notin Reports /\ "Running" \notin Reports
        /\ ~At(c, "stop") => Own # "Running"
    BY DEF IInv, StopInv
  <1>5. chan # <<>> => Latest \notin {"Starting", "Running"}
    BY <1>0, <1>4, LatestReport
  <1>6. \A i \in Instances : local[i] # "Starting"
    BY <1>2 DEF IInv, TaskInv, TaskOf
  <1>7. ~At(c, "stop") => \A i \in Instances : local[i] # "Running"
    BY <1>4 DEF IInv, TaskInv, TaskOf, Own, None, Instances
  <1> QED
    BY <1>1, <1>2, <1>3, <1>4, <1>5, <1>6, <1>7 DEF StopState

\* The source begins to stop, or has stopped already.
LEMMA SourceStopped ==
    ASSUME IInv, NEW c \in Callers, SourceStops(c)
    PROVE  Rest'
  <1>0. TInv /\ TypeOK
    BY DEF IInv, TInv
  <1>1. /\ At(c, "stop") /\ Stopper(c) /\ call[c].op \in {"stop", "remove", "update"}
        /\ UNCHANGED <<node, runtime, dep, alive, held, created>>
    BY <1>0, StepsFit DEF SourceStops, At, graph, Stopper
  <1>2. StopState(c)
    BY <1>1, StopFacts
  <1> USE DEF StopState
  <1>4. CASE runtime # None /\ local[runtime] = "Stopped"
    <2>1. chan' = Append(chan, "Stopped") /\ local' = local /\ AfterStop(c)
      BY <1>4 DEF SourceStops
    <2>2. /\ Own = "Stopped" /\ Own' = "Stopped" /\ Reports' = Reports \union {"Stopped"}
          /\ Latest' = "Stopped" /\ chan' # <<>>
      BY <1>0, <1>1, <1>4, <2>1, ReportAppended DEF Own
    <2>3. /\ \A d \in Callers : d # c => call'[d] = call[d]
          /\ \/ call'[c].op = "none" /\ call'[c].at = "idle" /\ call[c].op = "stop"
             \/ /\ call'[c].op = call[c].op /\ call'[c].at = "wait" /\ call'[c].rt = call[c].rt
                  /\ call[c].op \in {"remove", "update"}
      BY <1>0, <1>1, <2>1, AfterStopEffect DEF Turns, Gone
    <2>4. MadeInv'
      BY <1>1, <2>1, <2>3 DEF IInv, MadeInv, Starter, Stopper, At
    <2>5. TurnInv'
      BY <1>2, <2>1, <2>2, <2>3 DEF IInv, TurnInv, Starter, Stopper, At
    <2>6. TaskInv'
      BY <1>1, <2>1, <2>3, TasksKept DEF IInv, At
    <2>7. StartInv'
      BY <1>2, <2>1, <2>2, <2>3 DEF IInv, StartInv, Starter, At
    <2>8. StopInv'
      BY <1>1, <2>2 DEF IInv, StopInv, Stopper, At
    <2>9. AddInv'
      BY <1>1, <2>3 DEF IInv, AddInv, UnderWay, At
    <2>10. ReportInv'
      BY <1>1, <2>2 DEF IInv, ReportInv, UnderWay, At
    <2>11. OwnInv'
      BY <1>2, <2>1, <2>2, <2>3 DEF IInv, OwnInv, RunComing, ErrorComing, Stopper, At
    <2>12. NodeInv'
      BY <1>1, <1>2, <2>2, <2>3 DEF IInv, NodeInv, UnderWay, Stops, At
    <2> QED
      BY <2>4, <2>5, <2>6, <2>7, <2>8, <2>9, <2>10, <2>11, <2>12 DEF Rest
  <1>5. CASE ~(runtime # None /\ local[runtime] = "Stopped") /\ local[call[c].rt] = "Stopped"
    <2>1. chan' = chan /\ local' = local /\ AfterStop(c)
      BY <1>5 DEF SourceStops
    <2>2. runtime = None /\ Own = "Absent" /\ Own' = Own /\ Reports' = Reports /\ Latest' = Latest
      <3>1. runtime # None => local[runtime] # "Absent" /\ Own = local[runtime]
        BY <1>0 DEF TypeOK, Own
      <3>2. runtime = None
        BY <1>2, <1>5, <3>1
      <3> QED
        BY <1>1, <2>1, <3>2, ReportsKept DEF Own
    <2>3. /\ \A d \in Callers : d # c => call'[d] = call[d]
          /\ \/ call'[c].op = "none" /\ call'[c].at = "idle" /\ call[c].op = "stop"
             \/ /\ call'[c].op = call[c].op /\ call'[c].at = "wait" /\ call'[c].rt = call[c].rt
                  /\ call[c].op \in {"remove", "update"}
      BY <1>0, <1>1, <2>1, AfterStopEffect DEF Turns, Gone
    <2>4. MadeInv'
      BY <1>1, <2>1, <2>3 DEF IInv, MadeInv, Starter, Stopper, At
    <2>5. TurnInv'
      BY <1>2, <2>1, <2>2, <2>3 DEF IInv, TurnInv, Starter, Stopper, At
    <2>6. TaskInv'
      BY <1>1, <2>1, <2>3, TasksKept DEF IInv, At
    <2>7. StartInv'
      BY <1>2, <2>1, <2>2, <2>3 DEF IInv, StartInv, Starter, At
    <2>8. StopInv'
      BY <1>1, <2>2 DEF IInv, StopInv, Stopper, At
    <2>9. AddInv'
      BY <1>1, <2>3 DEF IInv, AddInv, UnderWay, At
    <2>10. ReportInv'
      BY <1>1, <2>1, <2>2, <2>3 DEF IInv, ReportInv, UnderWay, At
    <2>11. OwnInv'
      BY <1>2, <2>1, <2>2, <2>3 DEF IInv, OwnInv, RunComing, ErrorComing, Stopper, At
    <2>12. NodeInv'
      BY <1>1, <2>2 DEF IInv, NodeInv, UnderWay, Stops, At
    <2> QED
      BY <2>4, <2>5, <2>6, <2>7, <2>8, <2>9, <2>10, <2>11, <2>12 DEF Rest
  <1>6. CASE ~(runtime # None /\ local[runtime] = "Stopped") /\ local[call[c].rt] # "Stopped"
    <2>1. SetStatus(call[c].rt, "Stopping") /\ Goto(c, "abort")
      BY <1>6 DEF SourceStops
    <2>2. Turns(c, call[c].op, "abort", call[c].rt)
      BY <1>0, <2>1, GotoTurns, StepNames
    <2>3. /\ \A d \in Callers : d # c => call'[d] = call[d]
          /\ call'[c].op = call[c].op /\ call'[c].at = "abort" /\ call'[c].rt = call[c].rt
      BY <2>2 DEF Turns, Gone
    <2>4. /\ \A j \in Instances : local'[j] = IF j = call[c].rt THEN "Stopping" ELSE local[j]
          /\ Reports' = Reports \union {"Stopping"} /\ Latest' = "Stopping" /\ chan' # <<>>
      BY <1>0, <2>1, ReportAppended DEF SetStatus, TypeOK
    <2>5. \/ runtime = None /\ Own = "Absent" /\ Own' = "Absent"
          \/ runtime # None /\ runtime = call[c].rt /\ Own \notin {"Absent", "Stopped"} /\ Own' = "Stopping"
      BY <1>0, <1>1, <1>2, <1>6, <2>4 DEF Own, TypeOK
    <2>6. MadeInv'
      <3>1. \A i \in Instances : i > created => i # call[c].rt
        BY <1>0, <1>2 DEF TypeOK, Instances
      <3>2. \A i \in Instances : i > created => local'[i] = "Stopped" /\ alive'[i] = 0
        BY <1>1, <2>4, <3>1 DEF IInv, MadeInv
      <3> QED
        BY <1>1, <1>2, <2>3, <3>2 DEF IInv, MadeInv, Starter, Stopper, At
    <2>7. TurnInv'
      BY <1>1, <2>3 DEF IInv, TurnInv, Starter, Stopper, At
    <2>8. TaskInv'
      <3>1. ASSUME NEW i \in Instances, i # call[c].rt
            PROVE  TaskOf(i)'
        <4>1. TaskOf(i) /\ local'[i] = local[i] /\ alive'[i] = alive[i] /\ held'[i] = held[i]
          BY <1>1, <2>4, <3>1 DEF IInv, TaskInv
        <4> QED
          BY <1>1, <2>3, <3>1, <4>1 DEF TaskOf, At
      <3>2. ASSUME NEW i \in Instances, i = call[c].rt
            PROVE  TaskOf(i)'
        <4>1. TaskOf(i) /\ local'[i] = "Stopping" /\ alive'[i] = alive[i] /\ held'[i] = held[i]
          BY <1>1, <2>4, <3>2 DEF IInv, TaskInv
        <4> QED
          BY <2>3, <3>2, <4>1 DEF TaskOf, At
      <3> QED
        BY <3>1, <3>2 DEF TaskInv
    <2>9. StartInv'
      BY <1>1, <1>2, <2>3 DEF IInv, StartInv, Starter, At
    <2>10. StopInv'
      BY <1>1, <2>3, <2>4, <2>5 DEF IInv, StopInv, Stopper, At
    <2>11. AddInv'
      BY <1>1, <2>3 DEF IInv, AddInv, UnderWay, At
    <2>12. ReportInv'
      BY <1>1, <1>2, <2>3, <2>4, <2>5 DEF IInv, ReportInv, UnderWay, At
    <2>13. OwnInv'
      BY <1>2, <2>3, <2>4, <2>5 DEF IInv, OwnInv, RunComing, ErrorComing, Stopper, At
    <2>14. NodeInv'
      BY <1>1, <1>2, <2>3, <2>5 DEF IInv, NodeInv, UnderWay, Stops, At
    <2> QED
      BY <2>6, <2>7, <2>8, <2>9, <2>10, <2>11, <2>12, <2>13, <2>14 DEF Rest
  <1> QED
    BY <1>4, <1>5, <1>6

\* The one task an instance has is joined.
LEMMA TaskJoined ==
    ASSUME IInv, NEW i \in Instances, Aborted(i), NEW s, SetStatus(i, s)
    PROVE  /\ \A j \in Instances : j # i => /\ local'[j] = local[j]
                                           /\ alive'[j] = alive[j] /\ held'[j] = held[j]
           /\ local'[i] = s /\ alive'[i] = 0 /\ ~held'[i]
           /\ Reports' = Reports \union {s} /\ Latest' = s /\ chan' # <<>>
  <1>0. TInv /\ TypeOK
    BY DEF IInv, TInv
  <1>1. alive[i] = IF held[i] THEN 1 ELSE 0
    BY DEF IInv, TaskInv, TaskOf
  <1>2. /\ local' = [local EXCEPT ![i] = s] /\ held' = [held EXCEPT ![i] = FALSE]
        /\ alive' = [alive EXCEPT ![i] = IF held[i] THEN @ - 1 ELSE @]
    BY DEF Aborted, SetStatus
  <1>3. /\ \A j \in Instances : j # i => local'[j] = local[j] /\ alive'[j] = alive[j]
        /\ local'[i] = s /\ alive'[i] = 0
    BY <1>0, <1>1, <1>2 DEF TypeOK
  <1>4. /\ \A j \in Instances : j # i => held'[j] = held[j]
        /\ ~held'[i]
    BY <1>0, <1>2 DEF TypeOK
  <1> QED
    BY <1>0, <1>3, <1>4, ReportAppended DEF SetStatus

\* The source joins its task and reports Stopped.
LEMMA TaskAborted ==
    ASSUME IInv, NEW c \in Callers, AbortTask(c)
    PROVE  Rest'
  <1>0. TInv /\ TypeOK
    BY DEF IInv, TInv
  <1>1. /\ At(c, "abort") /\ Stopper(c) /\ call[c].op \in {"stop", "remove", "update"}
        /\ UNCHANGED <<node, runtime, dep, created>>
        /\ Aborted(call[c].rt) /\ SetStatus(call[c].rt, "Stopped") /\ AfterStop(c)
    BY <1>0, StepsFit DEF AbortTask, At, graph, Stopper
  <1>2. StopState(c)
    BY <1>1, StopFacts
  <1> USE DEF StopState
  <1>4. /\ \A j \in Instances : j # call[c].rt => /\ local'[j] = local[j]
                                                 /\ alive'[j] = alive[j] /\ held'[j] = held[j]
        /\ local'[call[c].rt] = "Stopped" /\ alive'[call[c].rt] = 0 /\ ~held'[call[c].rt]
        /\ Reports' = Reports \union {"Stopped"} /\ Latest' = "Stopped" /\ chan' # <<>>
    BY <1>1, <1>2, TaskJoined
  <1>5. \/ runtime = None /\ Own = "Absent" /\ Own' = "Absent"
        \/ runtime # None /\ Own' = "Stopped" /\ Own # "Absent"
    BY <1>0, <1>1, <1>2, <1>4 DEF Own, TypeOK
  <1>6. /\ \A d \in Callers : d # c => call'[d] = call[d]
        /\ \/ call'[c].op = "none" /\ call'[c].at = "idle" /\ call[c].op = "stop"
           \/ /\ call'[c].op = call[c].op /\ call'[c].at = "wait" /\ call'[c].rt = call[c].rt
              /\ call[c].op \in {"remove", "update"}
    BY <1>0, <1>1, AfterStopEffect DEF Turns, Gone
  <1>7. MadeInv'
    <2>1. \A i \in Instances : i > created => i # call[c].rt
      BY <1>0, <1>2 DEF TypeOK, Instances
    <2>2. \A i \in Instances : i > created => local'[i] = "Stopped" /\ alive'[i] = 0
      BY <1>4, <2>1 DEF IInv, MadeInv
    <2> QED
      BY <1>1, <1>2, <1>6, <2>2 DEF IInv, MadeInv, Starter, Stopper, At
  <1>8. TurnInv'
    BY <1>2, <1>4, <1>5, <1>6 DEF IInv, TurnInv, Starter, Stopper, At
  <1>9. TaskInv'
    <2>1. ASSUME NEW i \in Instances, i # call[c].rt
          PROVE  TaskOf(i)'
      <3>1. TaskOf(i) /\ local'[i] = local[i] /\ alive'[i] = alive[i] /\ held'[i] = held[i]
        BY <1>4, <2>1 DEF IInv, TaskInv
      <3> QED
        BY <1>1, <1>6, <2>1, <3>1 DEF TaskOf, At
    <2>2. ASSUME NEW i \in Instances, i = call[c].rt
          PROVE  TaskOf(i)'
      BY <1>4, <2>2 DEF TaskOf
    <2> QED
      BY <2>1, <2>2 DEF TaskInv
  <1>10. StartInv'
    BY <1>2, <1>4, <1>5, <1>6 DEF IInv, StartInv, Starter, At
  <1>11. StopInv'
    BY <1>1, <1>4, <1>5 DEF IInv, StopInv, Stopper, At
  <1>12. AddInv'
    BY <1>1, <1>6 DEF IInv, AddInv, UnderWay, At
  <1>13. ReportInv'
    BY <1>1, <1>2, <1>4, <1>5 DEF IInv, ReportInv, UnderWay, At
  <1>14. OwnInv'
    BY <1>2, <1>4, <1>5, <1>6 DEF IInv, OwnInv, RunComing, ErrorComing, Stopper, At
  <1>15. NodeInv'
    BY <1>1, <1>2, <1>4, <1>5, <1>6 DEF IInv, NodeInv, UnderWay, Stops, At
  <1> QED
    BY <1>7, <1>8, <1>9, <1>10, <1>11, <1>12, <1>13, <1>14, <1>15 DEF Rest

\* The source fails to join its task and reports Error.
LEMMA AbortFailed ==
    ASSUME IInv, NEW c \in Callers, AbortFails(c)
    PROVE  Rest'
  <1>0. TInv /\ TypeOK
    BY DEF IInv, TInv
  <1>1. /\ At(c, "abort") /\ Stopper(c) /\ call[c].op \in {"stop", "remove", "update"}
        /\ UNCHANGED <<node, runtime, dep, created>> /\ held[call[c].rt]
        /\ Aborted(call[c].rt) /\ SetStatus(call[c].rt, "Error") /\ Goto(c, "failed")
    BY <1>0, StepsFit DEF AbortFails, At, graph, Stopper
  <1>2. StopState(c)
    BY <1>1, StopFacts
  <1> USE DEF StopState
  <1>3. local[call[c].rt] # "Stopped"
    BY <1>1, <1>2 DEF IInv, TaskInv, TaskOf
  <1>4. /\ \A j \in Instances : j # call[c].rt => /\ local'[j] = local[j]
                                                 /\ alive'[j] = alive[j] /\ held'[j] = held[j]
        /\ local'[call[c].rt] = "Error" /\ alive'[call[c].rt] = 0 /\ ~held'[call[c].rt]
        /\ Reports' = Reports \union {"Error"} /\ Latest' = "Error" /\ chan' # <<>>
    BY <1>1, <1>2, TaskJoined
  <1>5. \/ runtime # call[c].rt /\ Own \in {"Absent", "Stopped"} /\ Own' = Own
        \/ runtime = call[c].rt /\ Own' = "Error" /\ Own \notin {"Absent", "Stopped"}
    <2>1. CASE runtime = call[c].rt
      BY <1>0, <1>1, <1>2, <1>3, <1>4 DEF Own, TypeOK
    <2>2. CASE runtime # call[c].rt
      <3>1. Own \in {"Absent", "Stopped"}
        BY <1>2, <2>2
      <3>2. Own' = Own
        BY <1>0, <1>1, <1>4, <2>2 DEF Own, TypeOK
      <3> QED
        BY <2>2, <3>1, <3>2
    <2> QED
      BY <2>1, <2>2
  <1>6. /\ \A d \in Callers : d # c => call'[d] = call[d]
        /\ call'[c].op = call[c].op /\ call'[c].at = "failed" /\ call'[c].rt = call[c].rt
    BY <1>0, <1>1, GotoTurns, StepNames DEF Turns
  <1>7. MadeInv'
    <2>1. \A i \in Instances : i > created => i # call[c].rt
      BY <1>0, <1>2 DEF TypeOK, Instances
    <2>2. \A i \in Instances : i > created => local'[i] = "Stopped" /\ alive'[i] = 0
      BY <1>4, <2>1 DEF IInv, MadeInv
    <2> QED
      BY <1>1, <1>2, <1>6, <2>2 DEF IInv, MadeInv, Starter, Stopper, At
  <1>8. TurnInv'
    BY <1>1, <1>6 DEF IInv, TurnInv, Starter, Stopper, At
  <1>9. TaskInv'
    <2>1. ASSUME NEW i \in Instances, i # call[c].rt
          PROVE  TaskOf(i)'
      <3>1. TaskOf(i) /\ local'[i] = local[i] /\ alive'[i] = alive[i] /\ held'[i] = held[i]
        BY <1>4, <2>1 DEF IInv, TaskInv
      <3> QED
        BY <1>1, <1>6, <2>1, <3>1 DEF TaskOf, At
    <2>2. ASSUME NEW i \in Instances, i = call[c].rt
          PROVE  TaskOf(i)'
      BY <1>4, <2>2 DEF TaskOf
    <2> QED
      BY <2>1, <2>2 DEF TaskInv
  <1>10. StartInv'
    BY <1>1, <1>2, <1>6 DEF IInv, StartInv, Starter, At
  <1>11. StopInv'
    BY <1>1, <1>4, <1>5, <1>6 DEF IInv, StopInv, Stopper, At
  <1>12. AddInv'
    BY <1>1, <1>6 DEF IInv, AddInv, UnderWay, At
  <1>13. ReportInv'
    BY <1>1, <1>4, <1>5 DEF IInv, ReportInv, UnderWay, At
  <1>14. OwnInv'
    BY <1>1, <1>4, <1>5 DEF IInv, OwnInv, RunComing, ErrorComing, Stopper, At, ReportInv, Live
  <1>15. NodeInv'
    BY <1>1, <1>4, <1>5, <1>6 DEF IInv, NodeInv, UnderWay, Stops, At
  <1> QED
    BY <1>7, <1>8, <1>9, <1>10, <1>11, <1>12, <1>13, <1>14, <1>15 DEF Rest

\* A failed stop puts the node in Error.
LEMMA StopReverted ==
    ASSUME IInv, NEW c \in Callers, RevertStop(c)
    PROVE  Rest'
  <1>0. TInv /\ TypeOK
    BY DEF IInv, TInv
  <1>1. /\ At(c, "failed") /\ Stopper(c) /\ call[c].op \in {"stop", "remove", "update"}
        /\ UNCHANGED <<runtime, dep, chan, local, alive, held, created>> /\ node' = Moved("Error")
    BY <1>0, StepsFit DEF RevertStop, At, source, Stopper
  <1>2. StopState(c)
    BY <1>1, StopFacts
  <1> USE DEF StopState
  <1>3. Own' = Own /\ Reports' = Reports /\ Latest' = Latest
    BY <1>1, ReportsKept DEF Own
  <1>4. /\ node \in Live => node' = "Error"
        /\ node \notin Live => node' = node /\ node \in {"Added", "Stopped", "Absent"}
    BY <1>0, <1>1, MovedError
  <1>5. /\ \A d \in Callers : d # c => call'[d] = call[d]
        /\ \/ call'[c].op = "none" /\ call'[c].at = "idle" /\ call[c].op # "remove"
           \/ /\ call'[c].op = "remove" /\ call'[c].at = "wait" /\ call'[c].rt = call[c].rt
              /\ call[c].op = "remove"
    BY <1>0, GotoTurns, ReturnTurns, StepNames DEF Turns, Gone, RevertStop
  <1>6. MadeInv'
    BY <1>1, <1>5 DEF IInv, MadeInv, Starter, Stopper, At
  <1>7. TurnInv'
    BY <1>2, <1>3, <1>4, <1>5 DEF IInv, TurnInv, Starter, Stopper, At
  <1>8. TaskInv'
    BY <1>1, <1>5, TasksKept DEF IInv, At
  <1>9. StartInv'
    BY <1>2, <1>3, <1>4, <1>5 DEF IInv, StartInv, Starter, At
  <1>10. StopInv'
    BY <1>1, <1>3, <1>4, <1>5 DEF IInv, StopInv, Stopper, At
  <1>11. AddInv'
    BY <1>1, <1>4, <1>5 DEF IInv, AddInv, UnderWay, At, Live
  <1>12. ReportInv'
    BY <1>1, <1>3, <1>4, <1>5 DEF IInv, ReportInv, UnderWay, At, Live
  <1>13. OwnInv'
    BY <1>1, <1>2, <1>3, <1>4, <1>5 DEF IInv, OwnInv, RunComing, ErrorComing, Stopper, At, Live, ReportInv
  <1>14. NodeInv'
    BY <1>2, <1>3, <1>4, <1>5 DEF IInv, NodeInv, UnderWay, Stops, At
  <1> QED
    BY <1>6, <1>7, <1>8, <1>9, <1>10, <1>11, <1>12, <1>13, <1>14 DEF Rest

\* The graph shows that the source has stopped.
LEMMA WaitOver ==
    ASSUME IInv, NEW c \in Callers, Waited(c)
    PROVE  Rest'
  <1>0. TInv /\ TypeOK
    BY DEF IInv, TInv
  <1>1. /\ At(c, "wait") /\ Stopper(c) /\ call[c].op \in {"remove", "update"}
        /\ UNCHANGED <<node, runtime, dep, chan, local, alive, held, created>>
        /\ node \in {"Stopped", "Error"}
    BY <1>0, StepsFit DEF Waited, At, graph, source, Stopper
  <1>2. StopState(c)
    BY <1>1, StopFacts
  <1> USE DEF StopState
  <1>3. Own' = Own /\ Reports' = Reports /\ Latest' = Latest
    BY <1>1, ReportsKept DEF Own
  <1>4. /\ \A d \in Callers : d # c => call'[d] = call[d]
        /\ call'[c].op = call[c].op /\ call'[c].rt = call[c].rt
        /\ call'[c].at = IF call[c].op = "remove" THEN "take" ELSE "replace"
    BY <1>0, GotoTurns, StepNames DEF Turns, Waited
  <1>5. MadeInv'
    BY <1>1, <1>2, <1>3, <1>4 DEF IInv, MadeInv, Starter, Stopper, At
  <1>6. TurnInv'
    BY <1>1, <1>2, <1>3, <1>4 DEF IInv, TurnInv, Starter, Stopper, At
  <1>7. TaskInv'
    BY <1>1, <1>4, TasksKept DEF IInv, At
  <1>8. StartInv'
    BY <1>1, <1>2, <1>3, <1>4 DEF IInv, StartInv, Starter, At
  <1>9. StopInv'
    BY <1>1, <1>2, <1>3, <1>4 DEF IInv, StopInv, Stopper, At
  <1>10. AddInv'
    BY <1>1, <1>2, <1>3, <1>4 DEF IInv, AddInv, UnderWay, At
  <1>11. ReportInv'
    BY <1>1, <1>2, <1>3, <1>4 DEF IInv, ReportInv, UnderWay, At
  <1>12. OwnInv'
    BY <1>1, <1>2, <1>3, <1>4 DEF IInv, OwnInv, RunComing, ErrorComing, Stopper, At
  <1>13. NodeInv'
    BY <1>1, <1>2, <1>3, <1>4 DEF IInv, NodeInv, UnderWay, Stops, At
  <1> QED
    BY <1>5, <1>6, <1>7, <1>8, <1>9, <1>10, <1>11, <1>12, <1>13 DEF Rest

\* The graph does not show it in time.
LEMMA WaitFailed ==
    ASSUME IInv, NEW c \in Callers, WaitFails(c)
    PROVE  Rest'
  <1>0. TInv /\ TypeOK
    BY DEF IInv, TInv
  <1>1. /\ At(c, "wait") /\ Stopper(c) /\ call[c].op \in {"remove", "update"}
        /\ UNCHANGED <<runtime, dep, chan, local, alive, held, created>>
    BY <1>0, StepsFit DEF WaitFails, At, source, Stopper
  <1>2. StopState(c)
    BY <1>1, StopFacts
  <1> USE DEF StopState
  <1>3. Own' = Own /\ Reports' = Reports /\ Latest' = Latest
    BY <1>1, ReportsKept DEF Own
  <1>4. CASE call[c].op = "remove"
    <2>1. node' = node /\ Turns(c, "remove", "take", call[c].rt)
      BY <1>0, <1>4, GotoTurns, StepNames DEF WaitFails
    <2>2. /\ \A d \in Callers : d # c => call'[d] = call[d]
          /\ call'[c].op = "remove" /\ call'[c].at = "take" /\ call'[c].rt = call[c].rt
      BY <2>1 DEF Turns, Gone
    <2>3. MadeInv'
      BY <1>1, <2>2 DEF IInv, MadeInv, Starter, Stopper, At
    <2>4. TurnInv'
      BY <1>2, <2>2 DEF IInv, TurnInv, Starter, Stopper, At
    <2>5. TaskInv'
      BY <1>1, <2>2, TasksKept DEF IInv, At
    <2>6. StartInv'
      BY <1>2, <2>2 DEF IInv, StartInv, Starter, At
    <2>7. StopInv'
      BY <1>1, <1>3, <2>1, <2>2 DEF IInv, StopInv, Stopper, At
    <2>8. AddInv'
      BY <1>1, <1>4, <2>2 DEF IInv, AddInv, UnderWay, At
    <2>9. ReportInv'
      BY <1>1, <1>3, <2>1, <2>2 DEF IInv, ReportInv, UnderWay, At
    <2>10. OwnInv'
      BY <1>1, <1>3, <2>1, <2>2 DEF IInv, OwnInv, RunComing, ErrorComing, Stopper, At
    <2>11. NodeInv'
      BY <1>2, <1>3, <1>4, <2>1, <2>2 DEF IInv, NodeInv, UnderWay, Stops, At
    <2> QED
      BY <2>3, <2>4, <2>5, <2>6, <2>7, <2>8, <2>9, <2>10, <2>11 DEF Rest
  <1>5. CASE call[c].op = "update"
    <2>1. node' = Moved("Error") /\ Gone(c)
      BY <1>0, <1>5, ReturnTurns DEF WaitFails, Gone
    <2>2. /\ \A d \in Callers : d # c => call'[d] = call[d]
          /\ call'[c].op = "none" /\ call'[c].at = "idle"
      BY <2>1 DEF Turns, Gone
    <2>3. /\ node \in Live => node' = "Error"
          /\ node \notin Live => node' = node /\ node \in {"Added", "Stopped", "Absent"}
      BY <1>0, <2>1, MovedError
    <2>4. MadeInv'
      BY <1>1, <2>2 DEF IInv, MadeInv, Starter, Stopper, At
    <2>5. TurnInv'
      BY <2>2 DEF IInv, TurnInv, Starter, Stopper, At
    <2>6. TaskInv'
      BY <1>1, <2>2, TasksKept DEF IInv, At
    <2>7. StartInv'
      BY <1>2, <2>2 DEF IInv, StartInv, Starter, At
    <2>8. StopInv'
      BY <1>1, <1>3, <2>2, <2>3 DEF IInv, StopInv, Stopper, At
    <2>9. AddInv'
      BY <1>1, <2>2, <2>3 DEF IInv, AddInv, UnderWay, At, Live
    <2>10. ReportInv'
      BY <1>1, <1>3, <2>2, <2>3 DEF IInv, ReportInv, UnderWay, At, Live
    <2>11. OwnInv'
      BY <1>1, <1>2, <1>3, <2>2, <2>3 DEF IInv, OwnInv, RunComing, ErrorComing, Stopper, At, Live, ReportInv
    <2>12. NodeInv'
      BY <2>3 DEF IInv, NodeInv, UnderWay, Stops, At
    <2> QED
      BY <2>4, <2>5, <2>6, <2>7, <2>8, <2>9, <2>10, <2>11, <2>12 DEF Rest
  <1> QED
    BY <1>1, <1>4, <1>5

----------------------------------------------------------------------------
(* The end of a remove and of an update, without races.                    *)

\* A remove takes the instance out of the graph.
LEMMA RuntimeTaken ==
    ASSUME IInv, NEW c \in Callers, TakeRuntime(c)
    PROVE  Rest'
  <1>0. TInv /\ TypeOK
    BY DEF IInv, TInv
  <1>1. /\ At(c, "take") /\ Stopper(c) /\ call[c].op = "remove"
        /\ UNCHANGED <<node, dep, chan, local, alive, held, created>> /\ runtime' = None
    BY <1>0, StepsFit DEF TakeRuntime, At, source, Stopper
  <1>2. StopState(c)
    BY <1>1, StopFacts
  <1> USE DEF StopState
  <1>3. Own' = "Absent" /\ Reports' = Reports /\ Latest' = Latest
    BY <1>1, ReportsKept DEF Own
  <1>4. /\ \A d \in Callers : d # c => call'[d] = call[d]
        /\ call'[c].op = "remove" /\ call'[c].at = "deregister" /\ call'[c].rt = call[c].rt
    BY <1>0, <1>1, GotoTurns, StepNames DEF Turns, TakeRuntime
  <1>5. runtime' <= created /\ created' = created
    BY <1>0, <1>1 DEF TypeOK, None
  <1>8. MadeInv'
    BY <1>1, <1>4, <1>5 DEF IInv, MadeInv, Starter, Stopper, At
  <1>9. TurnInv'
    BY <1>2, <1>4 DEF IInv, TurnInv, Starter, Stopper, At
  <1>10. TaskInv'
    BY <1>1, <1>2, <1>4 DEF IInv, TaskInv, TaskOf, At
  <1>11. StartInv'
    BY <1>2, <1>4 DEF IInv, StartInv, Starter, At
  <1>12. StopInv'
    BY <1>1, <1>3 DEF IInv, StopInv, Stopper, At
  <1>13. AddInv'
    BY <1>1, <1>4 DEF IInv, AddInv, UnderWay, At
  <1>14. ReportInv'
    BY <1>1, <1>2, <1>3, <1>4 DEF IInv, ReportInv, UnderWay, At
  <1>15. OwnInv'
    BY <1>3 DEF IInv, OwnInv, RunComing, ErrorComing, Stopper, At
  <1>16. NodeInv'
    BY <1>1, <1>3 DEF IInv, NodeInv, UnderWay, Stops, At
  <1> QED
    BY <1>8, <1>9, <1>10, <1>11, <1>12, <1>13, <1>14, <1>15, <1>16 DEF Rest

\* A remove takes the node out of the graph.
LEMMA Deregistered ==
    ASSUME IInv, NEW c \in Callers, Deregister(c)
    PROVE  Rest'
  <1>0. TInv /\ TypeOK
    BY DEF IInv, TInv
  <1>1. /\ At(c, "deregister") /\ Stopper(c) /\ call[c].op = "remove"
        /\ UNCHANGED <<dep, chan, local, alive, held, created>>
    BY <1>0, StepsFit DEF Deregister, At, source, Stopper
  <1>3. ~dep /\ runtime = None /\ \A d \in Callers : ~At(d, "provision")
    BY <1>1 DEF IInv, AddInv, UnderWay, At
  <1>4. node' = "Absent" /\ runtime' = runtime
    BY <1>3 DEF Deregister
  <1>5. Own = "Absent" /\ Own' = Own /\ Reports' = Reports /\ Latest' = Latest
    BY <1>1, <1>3, <1>4, ReportsKept DEF Own
  <1>6. /\ \A d \in Callers : d # c => call'[d] = call[d]
        /\ call'[c].op = "none" /\ call'[c].at = "idle"
    BY <1>0, ReturnTurns DEF Turns, Deregister
  <1>8. MadeInv'
    BY <1>1, <1>4, <1>6 DEF IInv, MadeInv, Starter, Stopper, At
  <1>9. TurnInv'
    BY <1>6 DEF IInv, TurnInv, Starter, Stopper, At
  <1>10. TaskInv'
    BY <1>1, <1>4, <1>6, TasksKept DEF IInv, At
  <1>11. StartInv'
    BY <1>4, <1>5, <1>6 DEF IInv, StartInv, Starter, At
  <1>12. StopInv'
    BY <1>4, <1>5, <1>6 DEF IInv, StopInv, Stopper, At
  <1>13. AddInv'
    BY <1>1, <1>4, <1>6 DEF IInv, AddInv, UnderWay, At
  <1>14. ReportInv'
    BY <1>1, <1>4, <1>5, <1>6 DEF IInv, ReportInv, UnderWay, At
  <1>15. OwnInv'
    BY <1>5 DEF IInv, OwnInv, RunComing, ErrorComing, Stopper, At
  <1>16. NodeInv'
    BY <1>4 DEF IInv, NodeInv, UnderWay, Stops, At
  <1> QED
    BY <1>8, <1>9, <1>10, <1>11, <1>12, <1>13, <1>14, <1>15, <1>16 DEF Rest

\* An update puts a new instance in the graph, if there is one to replace.
LEMMA Replaced ==
    ASSUME IInv, NEW c \in Callers, Replace(c)
    PROVE  Rest'
  <1>0. TInv /\ TypeOK
    BY DEF IInv, TInv
  <1>1. /\ At(c, "replace") /\ Stopper(c) /\ call[c].op = "update"
        /\ UNCHANGED <<dep, chan, local, alive, held>> /\ created' = created + 1 /\ created \in Nat
    BY <1>0, StepsFit DEF Replace, At, Stopper, TypeOK
  <1>2. StopState(c)
    BY <1>1, StopFacts
  <1> USE DEF StopState
  <1>4. Reports' = Reports /\ Latest' = Latest
    BY <1>1, ReportsKept
  <1>5. \A i \in Instances : i \in Nat
    BY DEF Instances
  <1>6. CASE runtime = None
    <2>1. node' = Moved("Error") /\ runtime' = runtime /\ Gone(c)
      BY <1>0, <1>6, ReplaceEffect
    <2>2. /\ \A d \in Callers : d # c => call'[d] = call[d]
          /\ call'[c].op = "none" /\ call'[c].at = "idle"
      BY <2>1 DEF Turns, Gone
    <2>3. /\ node \in Live => node' = "Error"
          /\ node \notin Live => node' = node
      BY <1>0, <2>1, MovedError
    <2>4. Own = "Absent" /\ Own' = "Absent" /\ runtime' <= created'
      BY <1>1, <1>6, <2>1 DEF Own, None
    <2>5. MadeInv'
      BY <1>1, <1>5, <2>2, <2>4 DEF IInv, MadeInv, Starter, Stopper, At
    <2>6. TurnInv'
      BY <2>2 DEF IInv, TurnInv, Starter, Stopper, At
    <2>7. TaskInv'
      BY <1>1, <2>1, <2>2 DEF IInv, TaskInv, TaskOf, At
    <2>8. StartInv'
      BY <2>1, <2>2, <2>4 DEF IInv, StartInv, Starter, At
    <2>9. StopInv'
      BY <1>4, <2>2, <2>3, <2>4 DEF IInv, StopInv, Stopper, At
    <2>10. AddInv'
      BY <1>1, <2>1, <2>2, <2>3 DEF IInv, AddInv, UnderWay, At, Live
    <2>11. ReportInv'
      BY <1>1, <1>4, <2>2, <2>3, <2>4 DEF IInv, ReportInv, UnderWay, At
    <2>12. OwnInv'
      BY <2>4 DEF IInv, OwnInv, RunComing, ErrorComing, Stopper, At
    <2>13. NodeInv'
      BY <1>6, <2>1, <2>4 DEF IInv, NodeInv, UnderWay, Stops, At
    <2> QED
      BY <2>5, <2>6, <2>7, <2>8, <2>9, <2>10, <2>11, <2>12, <2>13 DEF Rest
  <1>7. CASE runtime # None
    <2>1. /\ created + 1 \in Instances /\ runtime' = created + 1
          /\ \/ node' = node /\ Turns(c, "start", "claim", created + 1)
             \/ node' = "Stopped" /\ Gone(c)
      BY <1>0, <1>7, ReplaceEffect, MovedStopped DEF TypeOK
    <2>2. /\ \A d \in Callers : d # c => call'[d] = call[d]
          /\ \/ call'[c].op = "none" /\ call'[c].at = "idle" /\ node' = "Stopped"
             \/ call'[c].op = "start" /\ call'[c].at = "claim" /\ node' = node
      BY <2>1 DEF Turns, Gone
    <2>3. Own' = "Stopped" /\ runtime' <= created' /\ runtime' # None
      BY <1>1, <2>1 DEF Own, None, IInv, MadeInv
    <2>4. \A d \in Callers : ~At(d, "provision") /\ ~At(d, "deregister")
      BY <1>7 DEF IInv, AddInv
    <2>5. MadeInv'
      BY <1>1, <1>5, <2>2, <2>3 DEF IInv, MadeInv, Starter, Stopper, At
    <2>6. TurnInv'
      BY <2>2 DEF IInv, TurnInv, Starter, Stopper, At
    <2>7. TaskInv'
      BY <1>1, <1>2, <2>2 DEF IInv, TaskInv, TaskOf, At
    <2>8. StartInv'
      BY <1>2, <2>2 DEF IInv, StartInv, Starter, At
    <2>9. StopInv'
      BY <1>4, <2>2, <2>3 DEF IInv, StopInv, Stopper, At
    <2>10. AddInv'
      BY <1>1, <2>2, <2>4 DEF IInv, AddInv, UnderWay, At
    <2>11. ReportInv'
      BY <1>1, <1>2, <1>4, <2>2, <2>3 DEF IInv, ReportInv, UnderWay, At
    <2>12. OwnInv'
      BY <2>3 DEF IInv, OwnInv, RunComing, ErrorComing, Stopper, At
    <2>13. NodeInv'
      BY <1>1, <1>4, <1>7, <2>2, <2>3 DEF IInv, NodeInv, UnderWay, Stops, At
    <2> QED
      BY <2>5, <2>6, <2>7, <2>8, <2>9, <2>10, <2>11, <2>12, <2>13 DEF Rest
  <1> QED
    BY <1>6, <1>7

----------------------------------------------------------------------------
(* The steps of the graph and of the tasks, without races.                 *)

\* Where a report leads.
LEMMA MovedReport ==
    ASSUME TypeOK, NEW h \in {"Starting", "Running", "Stopping", "Stopped", "Error"}
    PROVE  /\ Moved(h) \in {node, h}
           /\ node \in {"Starting", "Running"} /\ h = "Running" => Moved(h) = h
           /\ node \in {"Starting", "Stopping"} /\ h = "Error" => Moved(h) = h
           /\ node = "Stopping" /\ h = "Stopped" => Moved(h) = h
           /\ node \in {"Added", "Stopped"} /\ h \in {"Stopping", "Error"} => Moved(h) = node
  BY DEF Moved, IsValidTransition

\* The graph applies a report, or drops it.
LEMMA UpdateApplied ==
    ASSUME IInv, ApplyUpdate
    PROVE  Rest'
  <1>0. TInv /\ TypeOK
    BY DEF IInv, TInv
  <1>1. /\ chan # <<>> /\ chan' = Tail(chan) /\ node' = Moved(Head(chan))
        /\ UNCHANGED <<runtime, dep, local, alive, held, created, call>>
    BY DEF ApplyUpdate, source
  <1>2. /\ Head(chan) \in Reports /\ Reports' \subseteq Reports /\ Latest \in Reports
        /\ chan' = <<>> => Head(chan) = Latest
        /\ chan' # <<>> => Latest' = Latest
    BY <1>0, <1>1, ReportTaken, LatestReport
  <1>3. Own' = Own /\ UnderWay("remove")' = UnderWay("remove") /\ UnderWay("start")' = UnderWay("start")
        /\ UnderWay("update")' = UnderWay("update") /\ Stops' = Stops
    BY <1>1 DEF Own, UnderWay, Stops, At
  <1>4. PICK h \in {"Starting", "Running", "Stopping", "Stopped", "Error"} : h = Head(chan)
    BY <1>2 DEF IInv, ReportInv
  <1>5. /\ node' \in {node, h}
        /\ node \in {"Starting", "Running"} /\ h = "Running" => node' = h
        /\ node \in {"Starting", "Stopping"} /\ h = "Error" => node' = h
        /\ node = "Stopping" /\ h = "Stopped" => node' = h
        /\ node \in {"Added", "Stopped"} /\ h \in {"Stopping", "Error"} => node' = node
    BY <1>0, <1>1, <1>4, MovedReport
  <1>6. h = "Error" /\ node \in Live => node' = "Error"
    BY <1>0, <1>1, <1>4, MovedError
  <1>7. MadeInv'
    BY <1>1 DEF IInv, MadeInv, Starter, Stopper, At
  <1>8. TurnInv'
    BY <1>1 DEF IInv, TurnInv, Starter, Stopper, At
  <1>9. TaskInv'
    BY <1>1 DEF IInv, TaskInv, TaskOf, At
  <1>10. StartInv'
    BY <1>1, <1>2, <1>3, <1>4, <1>5 DEF IInv, StartInv, Starter, At
  <1>11. StopInv'
    BY <1>1, <1>2, <1>3, <1>4, <1>5 DEF IInv, StopInv, Stopper, At
  <1>12. AddInv'
    <2>1. ASSUME NEW c \in Callers, At(c, "provision")
          PROVE  node' \in {"Added", "Stopped"}
      <3>1. node \in {"Added", "Stopped"} /\ runtime = None
        BY <2>1 DEF IInv, AddInv
      <3>2. h \notin {"Starting", "Running"}
        BY <1>2, <1>4, <3>1 DEF IInv, ReportInv, Own
      <3> QED
        BY <1>5, <3>1, <3>2
    <2> QED
      BY <1>1, <1>3, <2>1 DEF IInv, AddInv, At
  <1>13. ReportInv'
    BY <1>1, <1>2, <1>3, <1>4, <1>5 DEF IInv, ReportInv, At, Live
  <1>14. OwnInv'
    <2>1. RunComing => RunComing'
      BY <1>1, <1>2, <1>4, <1>5 DEF RunComing
    <2>2. ErrorComing => ErrorComing'
      BY <1>1, <1>2, <1>4, <1>5, <1>6 DEF ErrorComing, Live
    <2> QED
      BY <1>1, <1>3, <2>1, <2>2 DEF IInv, OwnInv, Stopper, At
  <1>15. NodeInv'
    <2>1. node' = "Reconfiguring" => node = "Reconfiguring"
      BY <1>4, <1>5
    <2>2. ASSUME runtime # None, node' = "Stopping"
          PROVE  \/ chan' # <<>> /\ Latest' \in {"Stopped", "Error"}
                 \/ UnderWay("remove") \/ Stops
      <3>1. CASE h = "Stopping"
        <4>1. Reports \intersect {"Starting", "Running"} = {}
          BY <1>2, <1>4, <3>1 DEF IInv, ReportInv
        <4>2. Latest \in {"Stopping", "Stopped", "Error"}
          BY <1>2, <4>1 DEF IInv, ReportInv
        <4>3. Latest = "Stopping" => Stops
          BY <1>1 DEF IInv, ReportInv, Stops, At
        <4> QED
          BY <1>2, <1>4, <3>1, <4>2, <4>3
      <3>2. CASE h # "Stopping"
        BY <1>2, <1>4, <1>5, <2>2, <3>2 DEF IInv, NodeInv
      <3> QED
        BY <3>1, <3>2
    <2>3. ASSUME runtime # None, node' = "Starting"
          PROVE  \/ UnderWay("start")
                 \/ chan' # <<>> /\ Latest' \in {"Running", "Error"}
      <3>1. CASE h = "Starting"
        <4>1. Latest \in {"Starting", "Running", "Error"}
          BY <1>2, <1>4, <3>1 DEF IInv, ReportInv
        <4>2. Latest = "Starting" => UnderWay("start")
          BY <1>1 DEF IInv, ReportInv
        <4> QED
          BY <1>2, <1>4, <3>1, <4>1, <4>2
      <3>2. CASE h # "Starting"
        BY <1>2, <1>4, <1>5, <2>3, <3>2 DEF IInv, NodeInv
      <3> QED
        BY <3>1, <3>2
    <2> QED
      BY <1>1, <1>3, <2>1, <2>2, <2>3 DEF IInv, NodeInv
  <1> QED
    BY <1>7, <1>8, <1>9, <1>10, <1>11, <1>12, <1>13, <1>14, <1>15 DEF Rest

\* A query comes, when nobody removes the source, or goes.
LEMMA QueryMoved ==
    ASSUME IInv, Races = {}, RegisterQuery \/ DeregisterQuery
    PROVE  Rest'
  <1>1. /\ UNCHANGED <<node, runtime, chan, local, alive, held, created, call>>
        /\ dep' => \A c \in Callers : call[c].op # "remove"
    BY DEF RegisterQuery, DeregisterQuery, source
  <1>2. Own' = Own /\ Reports' = Reports /\ Latest' = Latest
    BY <1>1, ReportsKept DEF Own
  <1>3. MadeInv'
    BY <1>1, <1>2 DEF IInv, MadeInv, Starter, Stopper, At
  <1>4. TurnInv'
    BY <1>1, <1>2 DEF IInv, TurnInv, Starter, Stopper, At
  <1>5. TaskInv'
    BY <1>1, <1>2 DEF IInv, TaskInv, TaskOf, At
  <1>6. StartInv'
    BY <1>1, <1>2 DEF IInv, StartInv, Starter, At
  <1>7. StopInv'
    BY <1>1, <1>2 DEF IInv, StopInv, Stopper, At
  <1>8. AddInv'
    BY <1>1, <1>2 DEF IInv, AddInv, UnderWay, At
  <1>9. ReportInv'
    BY <1>1, <1>2 DEF IInv, ReportInv, UnderWay, At
  <1>10. OwnInv'
    BY <1>1, <1>2 DEF IInv, OwnInv, RunComing, ErrorComing, Stopper, At
  <1>11. NodeInv'
    BY <1>1, <1>2 DEF IInv, NodeInv, UnderWay, Stops, At
  <1> QED
    BY <1>3, <1>4, <1>5, <1>6, <1>7, <1>8, <1>9, <1>10, <1>11 DEF Rest

\* The one task an instance has is gone.
LEMMA TaskDead ==
    ASSUME IInv, NEW i \in Instances, alive[i] > 0, Dies(i)
    PROVE  /\ held[i] /\ local[i] \notin {"Stopped", "Error"}
           /\ \A j \in Instances : j # i => alive'[j] = alive[j] /\ held'[j] = held[j]
           /\ alive'[i] = 0 /\ ~held'[i]
  <1>0. TInv /\ TypeOK
    BY DEF IInv, TInv
  <1>1. held[i] /\ alive[i] = 1 /\ local[i] \notin {"Stopped", "Error"}
    BY DEF IInv, TaskInv, TaskOf
  <1>2. alive' = [alive EXCEPT ![i] = @ - 1] /\ held' = [held EXCEPT ![i] = @ /\ alive[i] > 1]
    BY DEF Dies
  <1>3. (\A j \in Instances : j # i => alive'[j] = alive[j]) /\ alive'[i] = 0
    BY <1>0, <1>1, <1>2 DEF TypeOK
  <1>4. (\A j \in Instances : j # i => held'[j] = held[j]) /\ ~held'[i]
    <2>1. ~(alive[i] > 1)
      BY <1>1
    <2> QED
      BY <1>0, <1>2, <2>1 DEF TypeOK
  <1> QED
    BY <1>1, <1>3, <1>4

\* The task of a running source fails.
LEMMA TaskFailed ==
    ASSUME IInv, Races = {}, NEW i \in Instances, TaskFails(i)
    PROVE  Rest'
  <1>0. TInv /\ TypeOK
    BY DEF IInv, TInv
  <1>1. /\ alive[i] > 0 /\ local[i] = "Running" /\ Dies(i) /\ SetStatus(i, "Error")
        /\ UNCHANGED <<node, runtime, dep, created, call>>
    BY DEF TaskFails, graph
  <1>2. i = runtime /\ i # None /\ Own = "Running"
    BY <1>1 DEF IInv, TaskInv, TaskOf, Own, Instances, None
  <1>3. /\ \A j \in Instances : j # i => /\ local'[j] = local[j]
                                        /\ alive'[j] = alive[j] /\ held'[j] = held[j]
        /\ local'[i] = "Error" /\ alive'[i] = 0 /\ ~held'[i]
    BY <1>0, <1>1, TaskDead DEF SetStatus, TypeOK
  <1>4. Reports' = Reports \union {"Error"} /\ Latest' = "Error" /\ chan' # <<>>
    BY <1>0, <1>1, ReportAppended DEF SetStatus
  <1>5. Own' = "Error"
    BY <1>1, <1>2, <1>3 DEF Own
  <1>6. \A c \in Callers : ~Starter(c) /\ call[c].at \notin {"start", "spawn", "report", "revert"}
    <2>1. ASSUME NEW c \in Callers, Starter(c)
          PROVE  FALSE
      <3>1. call[c].at \in {"start", "spawn", "report", "revert"}
        BY <1>0, <2>1, StepsFit
      <3> QED
        BY <1>2, <2>1, <3>1 DEF IInv, StartInv, At
    <2> QED
      BY <1>0, <2>1, StepsFit
  <1>7. \A c \in Callers : Stopper(c) => At(c, "stop") /\ call[c].rt = runtime
    BY <1>2 DEF IInv, StopInv
  <1>8. MadeInv'
    <2>1. \A j \in Instances : j > created => j # i
      BY <1>0, <1>2 DEF IInv, MadeInv, TypeOK, Instances
    <2>2. \A j \in Instances : j > created => local'[j] = "Stopped" /\ alive'[j] = 0
      BY <1>3, <2>1 DEF IInv, MadeInv
    <2> QED
      BY <1>1, <2>2 DEF IInv, MadeInv, Starter, Stopper, At
  <1>9. TurnInv'
    BY <1>1 DEF IInv, TurnInv, Starter, Stopper, At
  <1>10. TaskInv'
    <2>1. ASSUME NEW j \in Instances, j # i
          PROVE  TaskOf(j)'
      <3>1. TaskOf(j) /\ local'[j] = local[j] /\ alive'[j] = alive[j] /\ held'[j] = held[j]
        BY <1>3, <2>1 DEF IInv, TaskInv
      <3> QED
        BY <1>1, <2>1, <3>1 DEF TaskOf, At
    <2>2. TaskOf(i)'
      BY <1>3 DEF TaskOf
    <2> QED
      BY <2>1, <2>2 DEF TaskInv
  <1>11. StartInv'
    BY <1>1, <1>6 DEF IInv, StartInv, Starter, At
  <1>12. StopInv'
    BY <1>1, <1>4, <1>5, <1>7 DEF IInv, StopInv, Stopper, At
  <1>13. AddInv'
    BY <1>1 DEF IInv, AddInv, UnderWay, At
  <1>14. ReportInv'
    BY <1>1, <1>2, <1>4, <1>5 DEF IInv, ReportInv, UnderWay, At
  <1>15. OwnInv'
    BY <1>1, <1>2, <1>4, <1>5, <1>7 DEF IInv, OwnInv, RunComing, ErrorComing, Stopper, At, Live
  <1>16. NodeInv'
    BY <1>1, <1>2, <1>4 DEF IInv, NodeInv, UnderWay, Stops, At
  <1> QED
    BY <1>8, <1>9, <1>10, <1>11, <1>12, <1>13, <1>14, <1>15, <1>16 DEF Rest

\* A task ends by itself while its source is being stopped.
LEMMA TaskQuit ==
    ASSUME IInv, NEW i \in Instances, TaskQuits(i)
    PROVE  Rest'
  <1>0. TInv /\ TypeOK
    BY DEF IInv, TInv
  <1>1. /\ alive[i] > 0 /\ local[i] \in {"Stopping", "Stopped"} /\ Dies(i)
        /\ UNCHANGED <<node, runtime, dep, chan, local, created, call>>
    BY DEF TaskQuits, graph
  <1>2. /\ held[i] /\ local[i] = "Stopping"
        /\ \A j \in Instances : j # i => alive'[j] = alive[j] /\ held'[j] = held[j]
        /\ alive'[i] = 0 /\ ~held'[i]
    BY <1>1, TaskDead
  <1>3. Own' = Own /\ Reports' = Reports /\ Latest' = Latest
    BY <1>1, ReportsKept DEF Own
  <1>4. MadeInv'
    <2>1. \A j \in Instances : alive[j] = 0 => alive'[j] = 0
      BY <1>2
    <2> QED
      BY <1>1, <2>1 DEF IInv, MadeInv, Starter, Stopper, At
  <1>5. TurnInv'
    BY <1>1, <1>3 DEF IInv, TurnInv, Starter, Stopper, At
  <1>6. TaskInv'
    <2>1. ASSUME NEW j \in Instances, j # i
          PROVE  TaskOf(j)'
      <3>1. TaskOf(j) /\ alive'[j] = alive[j] /\ held'[j] = held[j]
        BY <1>2, <2>1 DEF IInv, TaskInv
      <3> QED
        BY <1>1, <3>1 DEF TaskOf, At
    <2>2. TaskOf(i)'
      <3>1. TaskOf(i)
        BY DEF IInv, TaskInv
      <3> QED
        BY <1>1, <1>2, <3>1 DEF TaskOf, At
    <2> QED
      BY <2>1, <2>2 DEF TaskInv
  <1>7. StartInv'
    <2>1. Own = "Starting" => runtime \in Instances /\ runtime # i
      BY <1>0, <1>2 DEF Own, TypeOK
    <2>2. Own = "Starting" => held'[runtime] = held[runtime]
      BY <1>2, <2>1
    <2> QED
      BY <1>1, <1>3, <2>2 DEF IInv, StartInv, Starter, At
  <1>8. StopInv'
    BY <1>1, <1>3 DEF IInv, StopInv, Stopper, At
  <1>9. AddInv'
    BY <1>1, <1>3 DEF IInv, AddInv, UnderWay, At
  <1>10. ReportInv'
    BY <1>1, <1>3 DEF IInv, ReportInv, UnderWay, At
  <1>11. OwnInv'
    BY <1>1, <1>3 DEF IInv, OwnInv, RunComing, ErrorComing, Stopper, At
  <1>12. NodeInv'
    BY <1>1, <1>3 DEF IInv, NodeInv, UnderWay, Stops, At
  <1> QED
    BY <1>4, <1>5, <1>6, <1>7, <1>8, <1>9, <1>10, <1>11, <1>12 DEF Rest

----------------------------------------------------------------------------
(* The theorems.                                                           *)

\* The invariant holds at the start, and every step without races keeps it.
LEMMA InitInv ==
    ASSUME Init
    PROVE  IInv
  <1>1. TInv
    BY InitTyped
  <1>2. \A c \in Callers : call[c].op = "none" /\ call[c].at = "idle"
    BY DEF Init, Idle
  <1>3. Own = "Absent" /\ Reports = {} /\ chan = <<>>
    BY NoReports DEF Init, Own
  <1>4. MadeInv /\ TurnInv
    BY <1>2 DEF Init, MadeInv, TurnInv, Starter, Stopper, At, None
  <1>5. TaskInv
    BY DEF Init, TaskInv, TaskOf
  <1>6. StartInv /\ StopInv /\ AddInv
    BY <1>2, <1>3 DEF StartInv, StopInv, AddInv, Starter, Stopper, UnderWay, At
  <1>7. ReportInv /\ OwnInv /\ NodeInv
    BY <1>3 DEF Init, ReportInv, OwnInv, NodeInv
  <1> QED
    BY <1>1, <1>4, <1>5, <1>6, <1>7 DEF IInv

LEMMA StepInductive ==
    ASSUME IInv, Races = {}, NEW c \in Callers, Acts(c)
    PROVE  Rest'
  BY CallMade, Provisioned, StartClaimed, StopClaimed, RemoveClaimed, UpdateClaimed, Started,
     TaskSpawned, RunningReported, StartFailed, StartReverted, SourceStopped, TaskAborted,
     AbortFailed, StopReverted, WaitOver, WaitFailed, RuntimeTaken, Deregistered, Replaced
     DEF Acts, Step

LEMMA Inductive ==
    ASSUME IInv, Races = {}, [Next]_vars
    PROVE  IInv'
  <1>1. TInv'
    BY TypeStep DEF IInv
  <1>2. CASE Next
    <2>1. \/ ApplyUpdate \/ RegisterQuery \/ DeregisterQuery
          \/ \E c \in Callers : Acts(c)
          \/ \E i \in Instances : TaskFails(i) \/ TaskQuits(i)
      BY <1>2 DEF Next, Acts
    <2>2. Rest'
      BY <2>1, UpdateApplied, QueryMoved, StepInductive, TaskFailed, TaskQuit
    <2> QED
      BY <1>1, <2>2 DEF IInv, Rest
  <1>3. CASE UNCHANGED vars
    <2>1. UNCHANGED <<node, runtime, dep, chan, local, alive, held, created, call>>
      BY <1>3 DEF vars
    <2>2. Own' = Own /\ Reports' = Reports /\ Latest' = Latest
      BY <2>1, ReportsKept DEF Own
    <2>3. Rest'
      <3>1. MadeInv'
        BY <2>1, <2>2 DEF IInv, MadeInv, Starter, Stopper, At
      <3>2. TurnInv'
        BY <2>1, <2>2 DEF IInv, TurnInv, Starter, Stopper, At
      <3>3. TaskInv'
        BY <2>1, <2>2 DEF IInv, TaskInv, TaskOf, At
      <3>4. StartInv'
        BY <2>1, <2>2 DEF IInv, StartInv, Starter, At
      <3>5. StopInv'
        BY <2>1, <2>2 DEF IInv, StopInv, Stopper, At
      <3>6. AddInv'
        BY <2>1, <2>2 DEF IInv, AddInv, UnderWay, At
      <3>7. ReportInv'
        BY <2>1, <2>2 DEF IInv, ReportInv, UnderWay, At
      <3>8. OwnInv'
        BY <2>1, <2>2 DEF IInv, OwnInv, RunComing, ErrorComing, Stopper, At
      <3>9. NodeInv'
        BY <2>1, <2>2 DEF IInv, NodeInv, UnderWay, Stops, At
      <3> QED
        BY <3>1, <3>2, <3>3, <3>4, <3>5, <3>6, <3>7, <3>8, <3>9 DEF Rest
    <2> QED
      BY <1>1, <2>3 DEF IInv, Rest
  <1> QED
    BY <1>2, <1>3

\* What the invariant says when nothing is under way.
LEMMA TrueWhenSettled ==
    ASSUME IInv
    PROVE  GraphTellsTruth /\ NoStrayTask
  <1> SUFFICES ASSUME Settled PROVE GraphTellsTruth /\ NoStrayTask
    BY DEF GraphTellsTruth, NoStrayTask
  <1>0. TInv /\ TypeOK
    BY DEF IInv, TInv
  <1>1. chan = <<>> /\ \A c \in Callers : call[c].op = "none" /\ call[c].at = "idle"
    BY <1>0, StepsFit DEF Settled, At
  <1>2. \A c \in Callers : ~Starter(c) /\ ~Stopper(c)
    BY <1>1 DEF Starter, Stopper
  <1>3. ASSUME NEW i \in Instances
        PROVE  /\ local[i] \in {"Running", "Stopped", "Error"}
               /\ alive[i] = IF held[i] THEN 1 ELSE 0
               /\ local[i] = "Running" => held[i] /\ i = runtime
               /\ local[i] \in {"Stopped", "Error"} => ~held[i]
    <2>1. TaskOf(i) /\ local[i] \in {"Starting", "Running", "Stopping", "Stopped", "Error"}
      BY <1>0 DEF IInv, TaskInv, TypeOK
    <2> QED
      BY <1>1, <2>1 DEF TaskOf, At
  <1>4. NoStrayTask
    <2>1. ASSUME NEW i \in Instances
          PROVE  IF i = runtime /\ local[i] = "Running" THEN alive[i] = 1 /\ held[i]
                 ELSE held[i] = FALSE /\ (alive[i] > 0 => local[i] \in {"Stopping", "Stopped"})
      <3>1. held[i] \in BOOLEAN
        BY <1>0 DEF TypeOK
      <3>2. CASE local[i] = "Running"
        BY <1>3, <3>2
      <3>3. CASE local[i] # "Running"
        <4>1. ~held[i] /\ alive[i] = 0
          BY <1>3, <3>3
        <4> QED
          BY <3>1, <3>3, <4>1
      <3> QED
        BY <3>2, <3>3
    <2> QED
      BY <2>1 DEF NoStrayTask
  <1>5. GraphTellsTruth
    <2> SUFFICES ASSUME runtime # None
                 PROVE  /\ node \in {"Added", "Stopped"} => local[runtime] = "Stopped"
                        /\ node = "Running" => local[runtime] = "Running"
                        /\ node = "Error" => local[runtime] \in {"Error", "Stopped"}
                        /\ node \in {"Added", "Stopped", "Running", "Error"}
      BY DEF GraphTellsTruth
    <2>1. Own = local[runtime] /\ Own \in {"Running", "Stopped", "Error"}
      BY <1>0, <1>3 DEF Own, TypeOK
    <2>2. node \in {"Added", "Starting", "Running", "Stopping", "Stopped", "Error", "Reconfiguring"}
      BY <1>0 DEF TypeOK, Status
    <2>3. node \notin {"Starting", "Stopping", "Reconfiguring"}
      BY <1>1 DEF IInv, NodeInv, UnderWay, Stops
    <2>4. Own = "Running" => node = "Running"
      BY <1>1, <1>2 DEF IInv, OwnInv, RunComing
    <2>5. Own = "Error" => node = "Error"
      BY <1>1 DEF IInv, OwnInv, ErrorComing
    <2>6. Own = "Stopped" => node # "Running"
      BY DEF IInv, ReportInv
    <2> QED
      BY <2>1, <2>2, <2>3, <2>4, <2>5, <2>6
  <1> QED
    BY <1>4, <1>5

\* When commands do not race, the graph tells the truth about the source it
\* holds whenever nothing is under way: whatever failed, and in whatever order
\* the reports of the source and the changes of the commands reached the node.
THEOREM StatusTrue == ASSUME Races = {} PROVE Spec => []GraphTellsTruth
  <1>1. IInv /\ [Next]_vars => IInv'
    BY Inductive
  <1>2. IInv => GraphTellsTruth
    BY TrueWhenSettled
  <1> QED
    BY <1>1, <1>2, InitInv, PTL DEF Spec

\* When commands do not race, no task outlives its source: the only task that
\* is left when nothing is under way is that of the running source the graph
\* holds, and stop has its handle.
THEOREM NoTaskLeft == ASSUME Races = {} PROVE Spec => []NoStrayTask
  <1>1. IInv /\ [Next]_vars => IInv'
    BY Inductive
  <1>2. IInv => NoStrayTask
    BY TrueWhenSettled
  <1> QED
    BY <1>1, <1>2, InitInv, PTL DEF Spec

=============================================================================
