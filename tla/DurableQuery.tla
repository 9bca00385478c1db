---------------------------- MODULE DurableQuery ----------------------------
(***************************************************************************)
(* One continuous query with a persistent backend, reading one replayable  *)
(* source, over stops, crashes and restarts: DrasiQuery::start, its event  *)
(* processor, its bootstrap supervisor and stop (lib/src/queries/          *)
(* manager.rs), QueryOutputState (output_state.rs) and SequenceDedup.      *)
(*                                                                         *)
(* Every durable write is a step of its own, except where the code stages  *)
(* several of them in one session: the processor's transaction per event   *)
(* and the bootstrap handover.  A crash, or a failing write, may come      *)
(* between any two steps.                                                  *)
(*                                                                         *)
(* An element change is a position of the source's log; log[n] says        *)
(* whether it changes the query's result, in which case it adds the row n. *)
(***************************************************************************)
EXTENDS Integers, Sequences, FiniteSets

CONSTANTS
    Configs,            \* how a query and its source may be set up
    OutboxCapacity,     \* config.outbox_capacity
    SlowStop,           \* stop_common may time out on a processor it then aborts
    ReadsFail,          \* a start may fail to read its source checkpoints
    MaxLog,             \* bound: changes in the source
    MaxFaults           \* bound: crashes, stops, failures, config changes

Config == [policy : {"Strict", "AutoReset"},    \* resolved_recovery_policy
           bootstrap : BOOLEAN,     \* config.enable_bootstrap
           provider : BOOLEAN,      \* the source has a bootstrap provider
           wal : BOOLEAN]           \* the source honours resume_sequence (it has a WAL)

ASSUME ConfigAssumption ==
    /\ Configs \subseteq Config
    /\ SlowStop \in BOOLEAN
    /\ ReadsFail \in BOOLEAN
    /\ OutboxCapacity \in Nat \ {0}
    /\ MaxLog \in Nat
    /\ MaxFaults \in Nat

None == -1      \* an absent stored value

VARIABLES
    config,     \* the set-up, fixed
    log,        \* source: the changes so far
    floor,      \* source: changes up to here can no longer be replayed
    disk,       \* the query's durable state
    ram,        \* QueryOutputState
    pc,         \* what the query is doing
    plan,       \* OutputGenerationPlan.persisted of the wipe under way
    hydrate,    \* hydrate_output: this start resumed what it found
    resume,     \* settings.resume_from, or resume_sequence of a source with a WAL
    sub,        \* the last change the source sent on this subscription
    dedup,      \* SequenceDedup's checkpoint
    faults,     \* bound
    damaged,    \* history: the stored result sequence was lost
    base,       \* history: how many entries of the index came from a snapshot
    emitted,    \* history: the results of this output generation, by sequence
    seen        \* history: every result a subscriber could read

given == <<config, log, floor>>
run == <<hydrate, resume, sub, dedup>>
history == <<damaged, base, emitted, seen>>
vars == <<config, log, floor, disk, ram, pc, plan, hydrate, resume, sub, dedup,
          faults, damaged, base, emitted, seen>>

Policy == config.policy
EnableBootstrap == config.bootstrap
Provider == config.provider
Wal == config.wal

WipeSteps == {"w_marker", "w_seq", "w_gen", "w_outbox", "w_rows", "w_ram",
              "w_index", "w_ckpt", "w_nohash", "w_hash"}
StartSteps == WipeSteps \union {"first_index", "first_hash", "hydrate", "subscribe",
                                "bootstrap", "empty", "complete"}
Idle == {"down", "stopped", "error"}
Processing == {"running", "apply"}

Entry == [seq : Nat \ {0}, ev : Nat \ {0}]

NewDisk == [hash |-> "none",    \* config hash: none, current, reset marker, or of another config
            rseq |-> None,      \* result sequence
            gen |-> 0,          \* output generation
            outbox |-> {},
            rows |-> {},        \* live results
            index |-> <<>>,     \* the changes the graph indexes have absorbed, in order
            cseq |-> 0,         \* source checkpoint: sequence
            cpos |-> None]      \* source checkpoint: position

NewRam == [init |-> FALSE, seq |-> 0, gen |-> 0, outbox |-> {}, rows |-> {}]

Disk == [hash : {"none", "cur", "marker", "old"},
         rseq : Nat \union {None},
         gen : Nat,
         outbox : SUBSET Entry,
         rows : SUBSET (Nat \ {0}),
         index : Seq(Nat \ {0}),
         cseq : Nat,
         cpos : Nat \union {None}]

Ram == [init : BOOLEAN, seq : Nat, gen : Nat, outbox : SUBSET Entry, rows : SUBSET (Nat \ {0})]

TypeOK ==
    /\ config \in Config
    /\ log \in Seq(BOOLEAN)
    /\ floor \in Nat
    /\ disk \in Disk
    /\ ram \in Ram
    /\ pc \in StartSteps \union Idle \union Processing
    /\ plan \in Nat
    /\ hydrate \in BOOLEAN
    /\ resume \in Nat \union {None}
    /\ sub \in Nat
    /\ dedup \in Nat
    /\ faults \in 0..MaxFaults
    /\ damaged \in BOOLEAN
    /\ base \in Nat
    /\ emitted \in Seq(Nat \ {0})
    /\ seen \subseteq [gen : Nat, seq : Nat \ {0}, ev : Nat \ {0}]

Init ==
    /\ config \in Configs
    /\ log = <<>>
    /\ floor = 0
    /\ disk = NewDisk
    /\ ram = NewRam
    /\ pc = "down"
    /\ plan = 0
    /\ hydrate = FALSE
    /\ resume = None
    /\ sub = 0
    /\ dedup = 0
    /\ faults = 0
    /\ damaged = FALSE
    /\ base = 0
    /\ emitted = <<>>
    /\ seen = {}

----------------------------------------------------------------------------
(* The source: external, as this query uses it.                            *)

Publish ==
    /\ Len(log) < MaxLog
    /\ \E emits \in BOOLEAN : log' = Append(log, emits)
    /\ UNCHANGED <<config, floor, disk, ram, pc, plan, run, faults, history>>

\* The oldest change leaves the WAL (or the replication slot).
Prune ==
    /\ floor < Len(log)
    /\ floor' = floor + 1
    /\ UNCHANGED <<config, log, disk, ram, pc, plan, run, faults, history>>

----------------------------------------------------------------------------
(* Start: what to do with the state found on disk.                         *)

\* A bootstrap that never reached its boundary: the stored hash is current
\* but no result sequence was committed, or a wipe is unfinished.
BootstrapProblem ==
    /\ EnableBootstrap
    /\ \/ disk.hash = "cur" /\ disk.rseq = None
       \/ disk.hash = "marker"

\* Mutant: an absent result sequence is used as it is.
StoredRaw(n) == n

Stored(n) == IF n = None THEN 0 ELSE n

\* durable_output_is_dirty
Dirty == Stored(disk.rseq) > 0 \/ disk.gen > 0 \/ disk.outbox # {} \/ disk.rows # {}

\* Every wipe begins by planning the next generation; nothing is resumed.
BeginWipe ==
    /\ pc' = "w_marker"
    /\ plan' = disk.gen
    /\ hydrate' = FALSE
    /\ resume' = None
    /\ dedup' = 0
    /\ UNCHANGED <<given, disk, ram, sub, history>>

Refuse ==
    /\ pc' = "error"
    /\ UNCHANGED <<given, disk, ram, plan, run, faults, history>>

StartRefused ==
    /\ pc \in Idle
    /\ BootstrapProblem /\ Policy = "Strict"
    /\ Refuse

\* Mutant: leftovers without a hash are nobody's business.
StartWipesNoLeftovers ==
    /\ pc \in Idle
    /\ \/ BootstrapProblem /\ Policy = "AutoReset"
       \/ ~BootstrapProblem /\ disk.hash \in {"marker", "old"}
    /\ BeginWipe
    /\ UNCHANGED faults

\* An unfinished bootstrap under AutoReset, an unfinished wipe, another
\* configuration, or leftovers without any hash.
StartWipes ==
    /\ pc \in Idle
    /\ \/ BootstrapProblem /\ Policy = "AutoReset"
       \/ ~BootstrapProblem /\ disk.hash \in {"marker", "old"}
       \/ disk.hash = "none" /\ Dirty
    /\ BeginWipe
    /\ UNCHANGED faults

StartFirst ==
    /\ pc \in Idle
    /\ disk.hash = "none" /\ ~Dirty
    /\ pc' = "first_index"
    /\ hydrate' = FALSE
    /\ resume' = None
    /\ dedup' = 0
    /\ UNCHANGED <<given, disk, ram, plan, sub, faults, history>>

FirstIndex ==
    /\ pc = "first_index"
    /\ disk' = [disk EXCEPT !.index = <<>>]
    /\ pc' = "first_hash"
    /\ UNCHANGED <<given, ram, plan, run, faults, history>>

\* write_config_hash, then mark_initialized.
FirstHash ==
    /\ pc = "first_hash"
    /\ disk' = [disk EXCEPT !.hash = "cur"]
    /\ ram' = [ram EXCEPT !.init = TRUE]
    /\ pc' = "subscribe"
    /\ UNCHANGED <<given, plan, run, faults, history>>

\* A source with a WAL is replayed from the beginning when there is no
\* checkpoint yet (resume_sequence = 0).
StartResumes ==
    /\ pc \in Idle
    /\ ~BootstrapProblem /\ disk.hash = "cur"
    /\ pc' = "hydrate"
    /\ hydrate' = TRUE
    /\ resume' = IF disk.cpos = None /\ Wal THEN 0 ELSE disk.cpos
    /\ dedup' = disk.cseq
    /\ UNCHANGED <<given, disk, ram, plan, sub, faults, history>>

----------------------------------------------------------------------------
(* The wipe: rebuild_output_and_indexes_in_open_session and                *)
(* autoreset_rebuild_after_output_inconsistency.  Each write is durable    *)
(* when it is made.                                                        *)

WipeDisk(from, to, d) ==
    /\ pc = from
    /\ pc' = to
    /\ disk' = d
    /\ UNCHANGED <<given, ram, plan, run, faults>>

\* Mutant: the wipe begins without its marker.
WipeUnmarked ==
    /\ WipeDisk("w_marker", "w_seq", disk)
    /\ UNCHANGED history

WipeMarker ==
    /\ WipeDisk("w_marker", "w_seq", [disk EXCEPT !.hash = "marker"])
    /\ UNCHANGED history

WipeSeq ==
    /\ WipeDisk("w_seq", "w_gen", [disk EXCEPT !.rseq = 0])
    /\ damaged' = FALSE
    /\ UNCHANGED <<base, emitted, seen>>

\* Mutant: a generation found on disk is taken for the one being written.
NextGenerationReused(persisted) == IF persisted > ram.gen THEN persisted ELSE ram.gen + 1

\* next_output_generation: above both what is stored and what is in memory.
NextGeneration(persisted) == (IF persisted > ram.gen THEN persisted ELSE ram.gen) + 1

WipeGen ==
    /\ WipeDisk("w_gen", "w_outbox", [disk EXCEPT !.gen = NextGeneration(plan)])
    /\ emitted' = <<>>
    /\ UNCHANGED <<damaged, base, seen>>

WipeOutbox ==
    /\ WipeDisk("w_outbox", "w_rows", [disk EXCEPT !.outbox = {}])
    /\ UNCHANGED history

WipeRows ==
    /\ WipeDisk("w_rows", "w_ram", [disk EXCEPT !.rows = {}])
    /\ UNCHANGED history

\* Mutant: the in-memory output survives the wipe.
WipeRamKept ==
    /\ pc = "w_ram"
    /\ pc' = "w_index"
    /\ ram' = [ram EXCEPT !.init = TRUE, !.gen = NextGeneration(plan)]
    /\ UNCHANGED <<given, disk, plan, run, faults, history>>

\* reset_from_generation
WipeRam ==
    /\ pc = "w_ram"
    /\ pc' = "w_index"
    /\ ram' = [NewRam EXCEPT !.init = TRUE, !.gen = NextGeneration(plan)]
    /\ UNCHANGED <<given, disk, plan, run, faults, history>>

\* clear_persistent_indexes
WipeIndex ==
    /\ WipeDisk("w_index", "w_ckpt", [disk EXCEPT !.index = <<>>])
    /\ base' = 0
    /\ UNCHANGED <<damaged, emitted, seen>>

\* clear_checkpoints deletes the checkpoints, and then the hash with them.
WipeCkpt ==
    /\ WipeDisk("w_ckpt", "w_nohash", [disk EXCEPT !.cseq = 0, !.cpos = None])
    /\ UNCHANGED history

WipeNoHash ==
    /\ WipeDisk("w_nohash", "w_hash", [disk EXCEPT !.hash = "none"])
    /\ UNCHANGED history

\* The marker stays until the bootstrap to come has committed its boundary.
WipeHash ==
    /\ WipeDisk("w_hash", "subscribe",
                [disk EXCEPT !.hash = IF EnableBootstrap THEN "marker" ELSE "cur"])
    /\ UNCHANGED history

Wipe == \/ WipeMarker \/ WipeSeq \/ WipeGen \/ WipeOutbox \/ WipeRows \/ WipeRam
        \/ WipeIndex \/ WipeCkpt \/ WipeNoHash \/ WipeHash

----------------------------------------------------------------------------
(* Hydrate the in-memory output from what is stored.                       *)

\* load_durable_output: the stored sequence is zero and the rows are those of
\* a committed snapshot, or reconcile_durable_output accepts it all.
Reconciles ==
    LET stored == Stored(disk.rseq)
        numbers == {o.seq : o \in disk.outbox}
    IN  \/ /\ disk.rseq = 0 /\ disk.outbox = {}
           /\ disk.cseq > 0 \/ disk.cpos # None
        \/ /\ \A m, n \in numbers : m < n => m + 1 \in numbers
           /\ stored = 0 => disk.rows = {} /\ disk.outbox = {}
           /\ \A m \in numbers : m <= stored

\* What load_durable_output reads of the outbox, and hydrate() keeps.
Newest(entries) ==
    {o \in entries : \A p \in entries : p.seq - o.seq < OutboxCapacity}

\* What a subscriber can read: fetch_outbox, and the results dispatched.
Readable(gen, outbox) == {[gen |-> gen, seq |-> o.seq, ev |-> o.ev] : o \in outbox}

\* In memory since before the restart: disk is not read.
HydrateSkipped ==
    /\ pc = "hydrate"
    /\ ram.init
    /\ pc' = "subscribe"
    /\ UNCHANGED <<given, disk, ram, plan, run, faults, history>>

Hydrate ==
    /\ pc = "hydrate"
    /\ ~ram.init
    /\ Reconciles
    /\ ram' = [init |-> TRUE,
               seq |-> Stored(disk.rseq),
               gen |-> disk.gen,
               outbox |-> Newest(disk.outbox),
               rows |-> disk.rows]
    /\ seen' = seen \union Readable(ram'.gen, ram'.outbox)
    /\ pc' = "subscribe"
    /\ UNCHANGED <<given, disk, plan, run, faults, damaged, base, emitted>>

HydrateRefused ==
    /\ pc = "hydrate"
    /\ ~ram.init
    /\ ~Reconciles /\ Policy = "Strict"
    /\ Refuse

HydrateWipes ==
    /\ pc = "hydrate"
    /\ ~ram.init
    /\ ~Reconciles /\ Policy = "AutoReset"
    /\ BeginWipe
    /\ UNCHANGED faults

----------------------------------------------------------------------------
(* Subscribe to the source, and bootstrap from it.                         *)

Unavailable == resume # None /\ resume < floor

\* SourceError::PositionUnavailable
SubscribeRefused ==
    /\ pc = "subscribe"
    /\ Unavailable /\ Policy = "Strict"
    /\ Refuse

SubscribeWipes ==
    /\ pc = "subscribe"
    /\ Unavailable /\ Policy = "AutoReset"
    /\ BeginWipe
    /\ UNCHANGED faults

\* A source may rewind further than asked; the events it repeats carry
\* sequences the dedup filter knows, unless the checkpoint is a snapshot's.
SubscribeReplay ==
    /\ pc = "subscribe"
    /\ resume # None /\ ~Unavailable
    /\ sub' \in IF dedup > 0 THEN floor..resume ELSE {resume}
    /\ pc' = "running"
    /\ UNCHANGED <<given, disk, ram, plan, hydrate, resume, dedup, faults, history>>

\* No position to resume from: the source answers with a snapshot.
SubscribeBootstrap ==
    /\ pc = "subscribe"
    /\ resume = None
    /\ EnableBootstrap /\ Provider
    /\ sub' = Len(log)
    /\ pc' = IF hydrate THEN "error" ELSE "bootstrap"
    /\ UNCHANGED <<given, disk, ram, plan, hydrate, resume, dedup, faults, history>>

\* No snapshot either: changes from now on.
SubscribeLive ==
    /\ pc = "subscribe"
    /\ resume = None
    /\ ~(EnableBootstrap /\ Provider)
    /\ sub' = Len(log)
    /\ pc' = IF EnableBootstrap /\ ~hydrate THEN "empty" ELSE "running"
    /\ UNCHANGED <<given, disk, ram, plan, hydrate, resume, dedup, faults, history>>

\* Nothing to bootstrap: commit the empty output.
EmptyBootstrap ==
    /\ pc = "empty"
    /\ disk' = [disk EXCEPT !.rseq = 0]
    /\ pc' = "complete"
    /\ UNCHANGED <<given, ram, plan, run, faults, history>>

\* A bootstrap worker: each event has an index transaction of its own; its
\* rows stay in memory, without a sequence and without an outbox entry.
BootstrapEvent ==
    /\ pc = "bootstrap"
    /\ Len(disk.index) < sub
    /\ LET n == Len(disk.index) + 1
       IN  /\ disk' = [disk EXCEPT !.index = Append(@, n)]
           /\ ram' = [ram EXCEPT !.rows = IF log[n] THEN @ \union {n} ELSE @]
    /\ UNCHANGED <<given, pc, plan, run, faults, history>>

\* The supervisor's persist_bootstrap_boundary: one transaction.  A provider
\* that sent nothing may leave the position out.
Handover ==
    /\ pc = "bootstrap"
    /\ Len(disk.index) = sub
    /\ \E pos \in {sub} \union (IF sub = 0 THEN {None} ELSE {}) :
          disk' = [disk EXCEPT !.rows = @ \union ram.rows,
                               !.rseq = 0,
                               !.cseq = IF pos = None THEN @ ELSE 0,
                               !.cpos = IF pos = None THEN @ ELSE pos]
    /\ base' = sub
    /\ pc' = "complete"
    /\ UNCHANGED <<given, ram, plan, run, faults, damaged, emitted, seen>>

\* write_config_hash: the bootstrap is complete, the gate opens.
Complete ==
    /\ pc = "complete"
    /\ disk' = [disk EXCEPT !.hash = "cur"]
    /\ pc' = "running"
    /\ UNCHANGED <<given, ram, plan, run, faults, history>>

----------------------------------------------------------------------------
(* The event processor.                                                    *)

Arriving == sub + 1

SkipDuplicate ==
    /\ pc = "running"
    /\ sub < Len(log)
    /\ Arriving <= dedup
    /\ sub' = Arriving
    /\ UNCHANGED <<given, disk, ram, pc, plan, hydrate, resume, dedup, faults, history>>

\* process_source_change_with_hook, when the change has no effect on the
\* result: indexes and checkpoint in one transaction.
CommitQuietly ==
    /\ pc = "running"
    /\ sub < Len(log)
    /\ Arriving > dedup
    /\ ~log[Arriving]
    /\ disk' = [disk EXCEPT !.index = Append(@, Arriving), !.cseq = Arriving, !.cpos = Arriving]
    /\ sub' = Arriving
    /\ dedup' = Arriving
    /\ UNCHANGED <<given, ram, pc, plan, hydrate, resume, faults, history>>

\* ... and when it has: stage_durable_query_output adds the outbox entry, the
\* row and the result sequence to the same transaction.
Commit ==
    /\ pc = "running"
    /\ sub < Len(log)
    /\ Arriving > dedup
    /\ log[Arriving]
    /\ LET next == ram.seq + 1
           kept == {o \in disk.outbox : o.seq # next /\ o.seq > next - OutboxCapacity}
       IN  /\ disk' = [disk EXCEPT !.index = Append(@, Arriving),
                                   !.cseq = Arriving,
                                   !.cpos = Arriving,
                                   !.outbox = kept \union {[seq |-> next, ev |-> Arriving]},
                                   !.rows = @ \union {Arriving},
                                   !.rseq = next]
           /\ emitted' = Append(SubSeq(emitted, 1, ram.seq), Arriving)
    /\ sub' = Arriving
    /\ pc' = "apply"
    /\ UNCHANGED <<given, ram, plan, hydrate, resume, dedup, faults, damaged, base, seen>>

\* Mutant: the committed sequence is not installed in memory.
ApplyRowsOnly ==
    /\ pc = "apply"
    /\ ram' = [ram EXCEPT !.rows = @ \union {sub}]
    /\ dedup' = sub
    /\ pc' = "running"
    /\ UNCHANGED <<given, disk, plan, hydrate, resume, sub, faults, history>>

\* After the commit: dedup.advance, then dispatch_query_results installs the
\* committed sequence (apply_committed_sequence) and publishes the result.
Apply ==
    /\ pc = "apply"
    /\ LET kept == {o \in ram.outbox : Cardinality(ram.outbox) < OutboxCapacity
                                          \/ \E p \in ram.outbox : p.seq < o.seq}
       IN  ram' = [ram EXCEPT !.seq = disk.rseq,
                              !.outbox = kept \union {[seq |-> disk.rseq, ev |-> sub]},
                              !.rows = @ \union {sub}]
    /\ dedup' = sub
    /\ seen' = seen \union Readable(ram'.gen, ram'.outbox)
    /\ pc' = "running"
    /\ UNCHANGED <<given, disk, plan, hydrate, resume, sub, faults, damaged, base, emitted>>

----------------------------------------------------------------------------
(* Stops and failures.                                                     *)

Fault == faults < MaxFaults /\ faults' = faults + 1

\* A durable write, a read, a subscription, a bootstrap or a commit fails.
Fails ==
    /\ pc \in StartSteps \union {"running"}
    /\ Fault
    /\ pc' = "error"
    /\ UNCHANGED <<given, disk, ram, plan, run, history>>

\* A streaming-only query that cannot read its config hash wipes and starts
\* over; with bootstrap enabled a start that cannot read it is refused.
HashUnreadable ==
    /\ pc \in Idle
    /\ ~EnableBootstrap
    /\ Fault
    /\ BeginWipe

\* One that cannot read its checkpoints keeps what it has on disk, and goes on
\* as if it had none.
CheckpointsUnreadable ==
    /\ ReadsFail
    /\ pc \in Idle
    /\ ~EnableBootstrap /\ disk.hash = "cur"
    /\ Fault
    /\ pc' = "hydrate"
    /\ hydrate' = TRUE
    /\ resume' = None
    /\ dedup' = 0
    /\ UNCHANGED <<given, disk, ram, plan, sub, history>>

\* DrasiQuery::stop: bootstrap workers are aborted, the processor finishes the
\* event it is at, and the in-memory output stays.
Stop ==
    /\ pc \in {"running", "bootstrap"}
    /\ Fault
    /\ pc' = "stopped"
    /\ UNCHANGED <<given, disk, ram, plan, run, history>>

\* ... unless it does not finish within five seconds and is aborted.
StopAborts ==
    /\ SlowStop
    /\ pc = "apply"
    /\ Fault
    /\ pc' = "stopped"
    /\ UNCHANGED <<given, disk, ram, plan, run, history>>

\* The process dies, or the query object is dropped.
Crash ==
    /\ pc # "down"
    /\ Fault
    /\ pc' = "down"
    /\ ram' = NewRam
    /\ UNCHANGED <<given, disk, plan, run, history>>

\* The query comes back with another configuration: what is on disk, a marker
\* included, is of a foreign configuration from now on.
ConfigChange ==
    /\ pc = "down"
    /\ disk.hash \in {"cur", "marker"}
    /\ Fault
    /\ disk' = [disk EXCEPT !.hash = "old"]
    /\ UNCHANGED <<given, ram, pc, plan, run, history>>

\* External: a store without atomic sessions loses the last result sequence.
LoseSequence ==
    /\ pc = "down"
    /\ \E o \in disk.outbox : o.seq = disk.rseq
    /\ Fault
    /\ disk' = [disk EXCEPT !.rseq = @ - 1]
    /\ damaged' = TRUE
    /\ UNCHANGED <<given, ram, pc, plan, run, base, emitted, seen>>

----------------------------------------------------------------------------

Start == StartRefused \/ StartWipes \/ StartFirst \/ StartResumes

Starting ==
    \/ FirstIndex \/ FirstHash
    \/ Wipe
    \/ HydrateSkipped \/ Hydrate \/ HydrateRefused \/ HydrateWipes
    \/ SubscribeRefused \/ SubscribeWipes \/ SubscribeReplay
    \/ SubscribeBootstrap \/ SubscribeLive
    \/ EmptyBootstrap \/ BootstrapEvent \/ Handover \/ Complete

Process == SkipDuplicate \/ CommitQuietly \/ Commit \/ Apply

Trouble == \/ Fails \/ HashUnreadable \/ CheckpointsUnreadable
           \/ Stop \/ StopAborts \/ Crash \/ ConfigChange \/ LoseSequence

Next == Publish \/ Prune \/ Start \/ Starting \/ Process \/ Trouble

Spec == Init /\ [][Next]_vars

\* The runtime runs the query's own tasks; whoever operates it restarts a
\* query that is down.
FairSpec == Spec /\ WF_vars(Start) /\ WF_vars(Starting) /\ WF_vars(Process)

----------------------------------------------------------------------------
(* Properties *)

Resumable == disk.hash = "cur" /\ ~BootstrapProblem

Indexed == {disk.index[i] : i \in DOMAIN disk.index}

\* The indexed changes, snapshot aside, that changed the result.
Streamed == {disk.index[i] : i \in {j \in DOMAIN disk.index : j > base /\ log[disk.index[j]]}}

\* The outbox after the first n results of this generation.
Latest(n) == {[seq |-> k, ev |-> emitted[k]] : k \in {j \in 1..n : j > n - OutboxCapacity}}

\* Crash consistency.  Whatever a restart would resume from is exact: the
\* indexes hold consecutive changes, each once, the checkpoint is the last of
\* them, and rows, results, outbox and result sequence are what those changes
\* produce, in their order.  It holds between any two writes of a wipe, a
\* bootstrap or a transaction; and a query never processes events over a lost
\* result sequence.
CrashConsistent ==
    /\ Resumable /\ ~damaged =>
        /\ Reconciles
        /\ \A i \in DOMAIN disk.index : disk.index[i] = disk.index[1] + i - 1
        /\ disk.index # <<>> => disk.cpos = disk.index[Len(disk.index)]
        /\ disk.index = <<>> => disk.cpos \in {None, 0}
        /\ disk.rows = {n \in Indexed : log[n]}
        /\ \A j, k \in DOMAIN emitted : j < k => emitted[j] < emitted[k]
        /\ {emitted[k] : k \in DOMAIN emitted} = Streamed
        /\ Stored(disk.rseq) = Len(emitted)
        /\ disk.outbox = Latest(Len(emitted))
    /\ pc \in Processing => ~damaged

\* "In-memory state cannot diverge from durable output": between two events a
\* running query serves from memory exactly what a restart would load.
RamServesDisk ==
    pc = "running" =>
        /\ ram.gen = disk.gen
        /\ ram.seq = Stored(disk.rseq)
        /\ ram.rows = disk.rows
        /\ ram.outbox = disk.outbox

\* A subscriber never reads two different results under one (epoch, sequence),
\* over any number of wipes and crashes: it would skip the second as a
\* duplicate.
UniqueEpoch ==
    \A a, b \in seen : a.gen = b.gen /\ a.seq = b.seq => a.ev = b.ev

\* The query implements the result log its reactions rely on.
Log == INSTANCE ResultLog WITH Results <- 1..MaxLog, epoch <- disk.gen,
                               results <- emitted, up <- pc \in Processing
RefinesLog == Log!LogSpec

\* Under AutoReset a query that went down, wherever that was, runs again.
Recovers == pc = "down" ~> pc = "running"

=============================================================================
