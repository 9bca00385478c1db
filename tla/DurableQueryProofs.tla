------------------------- MODULE DurableQueryProofs -------------------------
(***************************************************************************)
(* What holds of DurableQuery for every log, every outbox capacity, every  *)
(* number of faults and every configuration, as long as a stopping         *)
(* processor is given the time to install what it committed (~SlowStop)    *)
(* and, for crash consistency, a start reads its checkpoints (~ReadsFail). *)
(***************************************************************************)
EXTENDS DurableQuery, FiniteSetTheorems, TLAPS

----------------------------------------------------------------------------
(* The inductive invariant.                                                *)

\* The entries are results of this generation, under their own numbers.
Logged(entries) == \A o \in entries : o.seq <= Len(emitted) /\ emitted[o.seq] = o.ev

\* No output of this generation, in any store.
Fresh ==
    /\ disk.outbox = {}
    /\ Stored(disk.rseq) = 0
    /\ emitted = <<>>
    /\ ~damaged

\* The stored output is that of this generation, or visibly short of it.
Sound ==
    /\ Logged(disk.outbox)
    /\ ~damaged => Stored(disk.rseq) = Len(emitted)
    /\ damaged => \E o \in disk.outbox : o.seq > Stored(disk.rseq)

\* What a start may find, hash by hash.
DiskInv ==
    /\ disk.hash = "cur" => Sound
    /\ disk.hash = "none" => Fresh
    /\ disk.hash = "none" /\ disk.gen = 0 => ram.seq = 0 /\ ram.gen = 0 /\ ram.outbox = {}

\* A wipe is marked as long as it is under way, plans a generation nobody has
\* used, and leaves nothing behind.
WipeInv ==
    /\ pc \in {"w_seq", "w_gen", "w_outbox", "w_rows", "w_ram", "w_index", "w_ckpt", "w_nohash"}
            => disk.hash = "marker"
    /\ pc = "w_hash" => disk.hash = "none"
    /\ pc \in {"w_marker", "w_seq", "w_gen"} => plan = disk.gen
    /\ pc = "w_gen" => Stored(disk.rseq) = 0 /\ ~damaged
    /\ pc = "w_outbox" => Stored(disk.rseq) = 0 /\ ~damaged /\ emitted = <<>>
    /\ pc \in {"w_outbox", "w_rows", "w_ram"} => disk.gen = NextGeneration(plan)
    /\ pc \in {"w_rows", "w_ram", "w_index", "w_ckpt", "w_nohash", "w_hash"} => Fresh

\* A start that did not resume finds nothing; one that did, knows the hash.
StartInv ==
    /\ pc \in {"first_index", "first_hash"} => Fresh /\ disk.hash = "none" /\ disk.gen = 0
    /\ pc \in WipeSteps \union {"first_index", "first_hash"} => resume = None /\ ~hydrate
    /\ pc = "hydrate" => disk.hash = "cur" /\ hydrate
    /\ pc = "subscribe" =>
            /\ ~damaged
            /\ disk.hash # "cur" =>
                    Fresh /\ EnableBootstrap /\ resume = None /\ ~hydrate
            /\ ~hydrate => Fresh /\ resume = None
    /\ pc \in {"bootstrap", "empty", "complete"} => Fresh
    /\ pc \in Processing => disk.hash = "cur" /\ ~damaged
    /\ pc = "down" => ram = NewRam

\* Memory is where the disk is.
RamCurrent == ram.seq = Stored(disk.rseq) /\ ram.gen = disk.gen /\ Logged(ram.outbox)

RamInv ==
    /\ pc \in {"w_index", "w_ckpt", "w_nohash", "w_hash", "subscribe", "bootstrap",
               "empty", "complete", "running"} => RamCurrent
    /\ disk.hash = "cur" /\ ram.init /\ pc # "apply" => RamCurrent
    /\ damaged => ~ram.init
    /\ pc = "apply" =>
            /\ disk.rseq = ram.seq + 1
            /\ ram.gen = disk.gen
            /\ Logged(ram.outbox)
            /\ sub > 0 /\ emitted[Len(emitted)] = sub

\* What was read in this generation is on record.
SeenInv ==
    \A s \in seen : /\ s.gen <= disk.gen
                    /\ s.gen = disk.gen => s.seq <= Len(emitted) /\ emitted[s.seq] = s.ev

Core == DiskInv /\ WipeInv /\ StartInv /\ RamInv

IInv == TypeOK /\ Len(log) <= MaxLog /\ Core /\ SeenInv /\ UniqueEpoch

----------------------------------------------------------------------------
(* Sequences and generations.                                              *)

\* The empty sequence is a sequence over any set.
LEMMA EmptySeq == ASSUME NEW S PROVE <<>> \in Seq(S)
  OBVIOUS

\* Appending keeps the elements there were and puts the new one last.
LEMMA Appended ==
    ASSUME NEW S, NEW s \in Seq(S), NEW n \in S
    PROVE  /\ Append(s, n) \in Seq(S)
           /\ Len(Append(s, n)) = Len(s) + 1
           /\ \A k \in 1..Len(s) : Append(s, n)[k] = s[k]
           /\ Append(s, n)[Len(s) + 1] = n
  OBVIOUS

\* The whole of a sequence, as stage_durable_query_output's next sequence
\* leaves it when memory is up to date.
LEMMA SubSeqAll == ASSUME NEW S, NEW s \in Seq(S) PROVE SubSeq(s, 1, Len(s)) = s
  OBVIOUS

\* next_output_generation is above what is stored.
LEMMA Generations ==
    ASSUME ram \in Ram, NEW n \in Nat
    PROVE  NextGeneration(n) \in Nat /\ NextGeneration(n) > n
  BY DEF Ram, NextGeneration

----------------------------------------------------------------------------
(* The three steps that move results: commit, apply, hydrate.              *)

\* A query that processes events numbers its next result after the last one.
LEMMA Working ==
    ASSUME IInv, pc = "running"
    PROVE  /\ ram.seq = Len(emitted) /\ ram.gen = disk.gen
           /\ Logged(ram.outbox) /\ Logged(disk.outbox)
           /\ disk.hash = "cur" /\ ~damaged
  BY DEF IInv, Core, DiskInv, StartInv, RamInv, RamCurrent, Sound, Processing

\* A committed result (stage_durable_query_output) is the next entry of its
\* generation, and every entry stored before keeps its number.
LEMMA Committed ==
    ASSUME IInv, Commit
    PROVE  /\ Arriving \in Nat \ {0} /\ Arriving <= Len(log) /\ sub' = Arriving
           /\ emitted' = Append(emitted, Arriving)
           /\ emitted' \in Seq(Nat \ {0})
           /\ Len(emitted') = ram.seq + 1
           /\ emitted'[Len(emitted')] = Arriving
           /\ \A k \in 1..Len(emitted) : emitted'[k] = emitted[k]
           /\ disk' \in Disk
           /\ disk'.rseq = ram.seq + 1
           /\ disk'.gen = disk.gen /\ disk.gen = ram.gen /\ disk'.hash = "cur" /\ ~damaged
           /\ Logged(disk.outbox)' /\ Logged(ram.outbox)'
  <1> DEFINE entry == [seq |-> ram.seq + 1, ev |-> Arriving]
  <1>1. /\ pc = "running" /\ Arriving \in Nat \ {0} /\ Arriving <= Len(log)
        /\ sub' = Arriving /\ ram' = ram
    BY DEF IInv, TypeOK, Commit, Arriving
  <1>2. /\ ram.seq = Len(emitted) /\ ram.gen = disk.gen
        /\ Logged(ram.outbox) /\ Logged(disk.outbox)
        /\ disk.hash = "cur" /\ ~damaged
    BY <1>1, Working
  <1>3. emitted \in Seq(Nat \ {0}) /\ disk \in Disk /\ ram \in Ram
    BY DEF IInv, TypeOK
  <1>4. emitted' = Append(emitted, Arriving)
    BY <1>2, <1>3, SubSeqAll DEF Commit
  <1>5. /\ emitted' \in Seq(Nat \ {0})
        /\ Len(emitted') = Len(emitted) + 1
        /\ \A k \in 1..Len(emitted) : emitted'[k] = emitted[k]
        /\ emitted'[Len(emitted) + 1] = Arriving
    BY <1>1, <1>3, <1>4, Appended
  <1>6. Append(disk.index, Arriving) \in Seq(Nat \ {0})
    BY <1>1, <1>3 DEF Disk
  <1>7. entry \in Entry
    BY <1>1, <1>3 DEF Ram, Entry
  <1>8. /\ disk' \in Disk
        /\ disk'.outbox \subseteq disk.outbox \union {entry}
        /\ disk'.rseq = ram.seq + 1 /\ disk'.gen = disk.gen /\ disk'.hash = disk.hash
    BY <1>1, <1>3, <1>6, <1>7 DEF Commit, Disk, Ram, Entry
  <1>9. \A o \in Entry : (o.seq <= Len(emitted) /\ emitted[o.seq] = o.ev)
                           => (o.seq <= Len(emitted') /\ emitted'[o.seq] = o.ev)
    BY <1>3, <1>5 DEF Entry
  <1>10. Logged(ram.outbox)'
    BY <1>1, <1>2, <1>3, <1>9 DEF Logged, Ram
  <1>11. Logged(disk.outbox)'
    <2> SUFFICES ASSUME NEW o \in disk'.outbox
                 PROVE  o.seq <= Len(emitted') /\ emitted'[o.seq] = o.ev
      BY DEF Logged
    <2>1. CASE o = entry
      BY <2>1, <1>2, <1>3, <1>5
    <2>2. CASE o \in disk.outbox
      BY <2>2, <1>2, <1>3, <1>9 DEF Logged, Disk
    <2> QED
      BY <2>1, <2>2, <1>8
  <1> QED
    BY <1>1, <1>2, <1>4, <1>5, <1>8, <1>10, <1>11

\* dispatch_query_results installs in memory exactly the sequence that was
\* committed, under the number and generation it was committed with.
LEMMA Applied ==
    ASSUME IInv, Apply
    PROVE  /\ ram' \in Ram
           /\ ram'.init = ram.init
           /\ ram'.seq = disk.rseq /\ disk.rseq = Len(emitted) /\ disk.rseq \in Nat \ {0}
           /\ ram'.gen = disk.gen
           /\ Logged(ram'.outbox)
           /\ disk.hash = "cur" /\ ~damaged
           /\ seen' = seen \union Readable(disk.gen, ram'.outbox)
  <1> DEFINE entry == [seq |-> disk.rseq, ev |-> sub]
  <1>1. /\ pc = "apply" /\ disk \in Disk /\ ram \in Ram /\ sub \in Nat
        /\ emitted \in Seq(Nat \ {0})
    BY DEF IInv, TypeOK, Apply
  <1>2. /\ disk.hash = "cur" /\ ~damaged
        /\ disk.rseq = ram.seq + 1 /\ ram.gen = disk.gen /\ Logged(ram.outbox)
        /\ sub > 0 /\ emitted[Len(emitted)] = sub
        /\ Stored(disk.rseq) = Len(emitted)
    BY <1>1 DEF IInv, Core, DiskInv, StartInv, RamInv, Sound, Processing
  <1>3. disk.rseq \in Nat \ {0} /\ disk.rseq = Len(emitted)
    BY <1>1, <1>2 DEF Ram, Stored, None
  <1>4. entry \in Entry
    BY <1>1, <1>2, <1>3 DEF Entry
  <1> DEFINE kept == {o \in ram.outbox : Cardinality(ram.outbox) < OutboxCapacity
                                          \/ \E p \in ram.outbox : p.seq < o.seq}
             box == kept \union {entry}
             rows == ram.rows \union {sub}
  <1>5. /\ ram' \in Ram
        /\ ram'.init = ram.init /\ ram'.seq = disk.rseq /\ ram'.gen = ram.gen
        /\ ram'.outbox \subseteq ram.outbox \union {entry}
    <2>1. ram' = [ram EXCEPT !.seq = disk.rseq, !.outbox = box, !.rows = rows]
      BY DEF Apply
    <2>2. box \subseteq ram.outbox \union {entry}
      OBVIOUS
    <2>3. box \in SUBSET Entry
      BY <1>1, <1>4, <2>2 DEF Ram
    <2>4. rows \in SUBSET (Nat \ {0})
      BY <1>1, <1>2 DEF Ram
    <2> HIDE DEF box, rows
    <2> QED
      BY <1>1, <1>3, <2>1, <2>2, <2>3, <2>4 DEF Ram
  <1>6. Logged(ram'.outbox)
    BY <1>1, <1>2, <1>3, <1>5 DEF Logged
  <1> QED
    BY <1>2, <1>3, <1>5, <1>6 DEF Apply

\* load_durable_output accepts only output that is all of this generation: a
\* lost result sequence leaves an outbox entry above it, which it refuses.
LEMMA Hydrated ==
    ASSUME IInv, Hydrate
    PROVE  /\ ram' \in Ram
           /\ ram'.seq = Stored(disk.rseq) /\ ram'.gen = disk.gen
           /\ Logged(ram'.outbox)
           /\ disk.hash = "cur" /\ ~damaged /\ hydrate
           /\ seen' = seen \union Readable(disk.gen, ram'.outbox)
  <1>1. pc = "hydrate" /\ Reconciles /\ disk \in Disk
    BY DEF IInv, TypeOK, Hydrate
  <1>2. disk.hash = "cur" /\ hydrate /\ Logged(disk.outbox)
    BY <1>1 DEF IInv, Core, DiskInv, StartInv, Sound
  <1>3. ~damaged
    <2> SUFFICES ASSUME damaged PROVE FALSE
      OBVIOUS
    <2>1. PICK o \in disk.outbox : o.seq > Stored(disk.rseq)
      BY <1>2 DEF IInv, Core, DiskInv, Sound
    <2>2. disk.outbox # {} /\ o.seq \in {p.seq : p \in disk.outbox}
      BY <2>1
    <2>3. o.seq <= Stored(disk.rseq)
      BY <1>1, <2>2 DEF Reconciles
    <2>4. o.seq \in Nat /\ Stored(disk.rseq) \in Nat
      BY <1>1, <2>1 DEF Disk, Entry, Stored, None
    <2> QED
      BY <2>1, <2>3, <2>4
  <1>4. Stored(disk.rseq) \in Nat /\ disk.gen \in Nat /\ disk.outbox \subseteq Entry
        /\ disk.rows \subseteq Nat \ {0}
    BY <1>1 DEF Disk, Stored, None
  <1>5. Newest(disk.outbox) \subseteq disk.outbox
    BY DEF Newest
  <1>6. /\ ram' \in Ram /\ ram'.seq = Stored(disk.rseq) /\ ram'.gen = disk.gen
        /\ ram'.outbox = Newest(disk.outbox)
    BY <1>4, <1>5 DEF Hydrate, Ram
  <1>7. Logged(ram'.outbox)
    BY <1>2, <1>5, <1>6 DEF Logged
  <1> QED
    BY <1>2, <1>3, <1>6, <1>7 DEF Hydrate

----------------------------------------------------------------------------
(* Types.                                                                  *)

\* Every step of the query keeps every variable in its type, and the source's
\* log within its bound.
LEMMA TypeStep ==
    ASSUME IInv, Next, ~SlowStop
    PROVE  TypeOK' /\ Len(log') <= MaxLog
  <1> USE DEF IInv, TypeOK, given, run, history, None
  <1>1. CASE Publish
    BY <1>1, ConfigAssumption DEF Publish
  <1>2. CASE Prune
    BY <1>2 DEF Prune
  <1>3. CASE StartRefused
    BY <1>3 DEF StartRefused, Refuse, Idle
  <1>4. CASE StartWipes
    BY <1>4 DEF StartWipes, BeginWipe, StartSteps, WipeSteps, Disk
  <1>5. CASE StartFirst
    BY <1>5 DEF StartFirst, StartSteps
  <1>6. CASE StartResumes
    BY <1>6 DEF StartResumes, StartSteps, Disk
  <1>7. CASE FirstIndex
    BY <1>7, EmptySeq DEF FirstIndex, Disk, StartSteps
  <1>8. CASE FirstHash
    BY <1>8 DEF FirstHash, Disk, Ram, StartSteps
  <1>9. CASE WipeMarker
    BY <1>9 DEF WipeMarker, WipeDisk, Disk, StartSteps, WipeSteps
  <1>10. CASE WipeSeq
    BY <1>10 DEF WipeSeq, WipeDisk, Disk, StartSteps, WipeSteps
  <1>11. CASE WipeGen
    <2>1. NextGeneration(plan) \in Nat
      BY Generations
    <2>2. disk' \in Disk
      BY <1>11, <2>1 DEF WipeGen, WipeDisk, Disk
    <2> QED
      BY <1>11, <2>2, EmptySeq DEF WipeGen, WipeDisk, StartSteps, WipeSteps
  <1>12. CASE WipeOutbox
    BY <1>12 DEF WipeOutbox, WipeDisk, Disk, StartSteps, WipeSteps
  <1>13. CASE WipeRows
    BY <1>13 DEF WipeRows, WipeDisk, Disk, StartSteps, WipeSteps
  <1>14. CASE WipeRam
    BY <1>14, Generations DEF WipeRam, Ram, NewRam, StartSteps, WipeSteps
  <1>15. CASE WipeIndex
    BY <1>15, EmptySeq DEF WipeIndex, WipeDisk, Disk, StartSteps, WipeSteps
  <1>16. CASE WipeCkpt
    BY <1>16 DEF WipeCkpt, WipeDisk, Disk, StartSteps, WipeSteps
  <1>17. CASE WipeNoHash
    BY <1>17 DEF WipeNoHash, WipeDisk, Disk, StartSteps, WipeSteps
  <1>18. CASE WipeHash
    BY <1>18 DEF WipeHash, WipeDisk, Disk, StartSteps
  <1>19. CASE HydrateSkipped
    BY <1>19 DEF HydrateSkipped, StartSteps
  <1>20. CASE Hydrate
    <2>1. ram' \in Ram /\ seen' = seen \union Readable(disk.gen, ram'.outbox)
      BY <1>20, Hydrated
    <2>2. seen' \subseteq [gen : Nat, seq : Nat \ {0}, ev : Nat \ {0}]
      BY <2>1 DEF Readable, Ram, Disk, Entry
    <2> QED
      BY <1>20, <2>1, <2>2 DEF Hydrate, StartSteps
  <1>21. CASE HydrateRefused
    BY <1>21 DEF HydrateRefused, Refuse, Idle
  <1>22. CASE HydrateWipes
    BY <1>22 DEF HydrateWipes, BeginWipe, StartSteps, WipeSteps, Disk
  <1>23. CASE SubscribeRefused
    BY <1>23 DEF SubscribeRefused, Refuse, Idle
  <1>24. CASE SubscribeWipes
    BY <1>24 DEF SubscribeWipes, BeginWipe, StartSteps, WipeSteps, Disk
  <1>25. CASE SubscribeReplay
    <2>1. sub' \in Nat
      BY <1>25 DEF SubscribeReplay, Unavailable
    <2> QED
      BY <1>25, <2>1 DEF SubscribeReplay, Processing
  <1>26. CASE SubscribeBootstrap
    BY <1>26 DEF SubscribeBootstrap, StartSteps, Idle
  <1>27. CASE SubscribeLive
    BY <1>27 DEF SubscribeLive, StartSteps, Processing
  <1>28. CASE EmptyBootstrap
    BY <1>28 DEF EmptyBootstrap, Disk, StartSteps
  <1>29. CASE BootstrapEvent
    <2>1. Len(disk.index) + 1 \in Nat \ {0}
      BY DEF Disk
    <2>2. disk' \in Disk
      BY <1>29, <2>1, Appended DEF BootstrapEvent, Disk
    <2>3. ram' \in Ram
      BY <1>29, <2>1 DEF BootstrapEvent, Ram
    <2> QED
      BY <1>29, <2>2, <2>3 DEF BootstrapEvent
  <1>30. CASE Handover
    <2>1. PICK pos \in Nat \union {None} :
               disk' = [disk EXCEPT !.rows = @ \union ram.rows,
                                    !.rseq = 0,
                                    !.cseq = IF pos = None THEN @ ELSE 0,
                                    !.cpos = IF pos = None THEN @ ELSE pos]
      BY <1>30 DEF Handover
    <2>2. disk' \in Disk
      BY <2>1 DEF Disk, Ram
    <2> QED
      BY <1>30, <2>2 DEF Handover, StartSteps
  <1>31. CASE Complete
    BY <1>31 DEF Complete, Disk, Processing
  <1>32. CASE SkipDuplicate
    BY <1>32 DEF SkipDuplicate, Arriving
  <1>33. CASE CommitQuietly
    <2>1. Arriving \in Nat \ {0}
      BY DEF Arriving
    <2>2. disk' \in Disk
      BY <1>33, <2>1, Appended DEF CommitQuietly, Disk
    <2> QED
      BY <1>33, <2>1, <2>2 DEF CommitQuietly
  <1>34. CASE Commit
    <2>1. disk' \in Disk /\ emitted' \in Seq(Nat \ {0}) /\ sub' \in Nat
      BY <1>34, Committed
    <2> QED
      BY <1>34, <2>1 DEF Commit, Processing
  <1>35. CASE Apply
    <2>1. ram' \in Ram /\ seen' = seen \union Readable(disk.gen, ram'.outbox)
      BY <1>35, Applied
    <2>2. seen' \subseteq [gen : Nat, seq : Nat \ {0}, ev : Nat \ {0}]
      BY <2>1 DEF Readable, Ram, Disk, Entry
    <2> QED
      BY <1>35, <2>1, <2>2 DEF Apply, Processing
  <1>36. CASE Fails
    BY <1>36, ConfigAssumption DEF Fails, Fault, Idle
  <1>37. CASE Stop
    BY <1>37, ConfigAssumption DEF Stop, Fault, Idle
  <1>38. CASE StopAborts
    BY <1>38 DEF StopAborts
  <1>39. CASE Crash
    BY <1>39, ConfigAssumption DEF Crash, Fault, Idle, Ram, NewRam
  <1>40. CASE ConfigChange
    <2>1. disk' \in Disk
      BY <1>40 DEF ConfigChange, Disk
    <2> QED
      BY <1>40, <2>1, ConfigAssumption, SMTT(30) DEF ConfigChange, Fault
  <1>41. CASE LoseSequence
    <2>1. disk.rseq - 1 \in Nat
      BY <1>41, SMTT(30) DEF LoseSequence, Disk, Entry
    <2>2. disk' \in Disk
      BY <1>41, <2>1 DEF LoseSequence, Disk
    <2> QED
      BY <1>41, <2>2, ConfigAssumption, SMTT(30) DEF LoseSequence, Fault
  <1>42. CASE HashUnreadable
    <2>1. disk.gen \in Nat /\ faults' \in 0..MaxFaults
      BY <1>42, ConfigAssumption DEF HashUnreadable, Fault, Disk
    <2> QED
      BY <1>42, <2>1 DEF HashUnreadable, BeginWipe, StartSteps, WipeSteps
  <1>43. CASE CheckpointsUnreadable
    BY <1>43, ConfigAssumption DEF CheckpointsUnreadable, Fault, StartSteps
  <1> QED
    BY <1>1, <1>2, <1>3, <1>4, <1>5, <1>6, <1>7, <1>8, <1>9, <1>10, <1>11, <1>12, <1>13,
       <1>14, <1>15, <1>16, <1>17, <1>18, <1>19, <1>20, <1>21, <1>22, <1>23, <1>24,
       <1>25, <1>26, <1>27, <1>28, <1>29, <1>30, <1>31, <1>32, <1>33, <1>34, <1>35,
       <1>36, <1>37, <1>38, <1>39, <1>40, <1>41, <1>42, <1>43
       DEF Next, Start, Starting, Wipe, Process, Trouble

----------------------------------------------------------------------------
(* What is on disk, in memory and under way.                               *)

\* Every step keeps the relations between what is on disk, what is in memory
\* and what the query is doing: the wipe's marker stands as long as the wipe is
\* under way, and a start that resumes finds its own output.
LEMMA CoreStep ==
    ASSUME IInv, Next, ~SlowStop
    PROVE  Core'
  <1> USE DEF IInv, Core, DiskInv, WipeInv, StartInv, RamInv, Fresh, Sound, RamCurrent, Logged,
              Stored, None, Processing, NewRam, WipeSteps, given, run, history,
              EnableBootstrap
  <1>1. CASE Publish
    BY <1>1 DEF Publish, NextGeneration
  <1>2. CASE Prune
    BY <1>2 DEF Prune, NextGeneration
  <1>3. CASE StartRefused
    BY <1>3 DEF StartRefused, Refuse, Idle, NextGeneration
  <1>4. CASE StartWipes
    BY <1>4 DEF StartWipes, TypeOK, Disk, Ram, BeginWipe, Idle
  <1>5. CASE StartFirst
    BY <1>5 DEF StartFirst, TypeOK, Disk, Ram, Idle, Dirty
  <1>6. CASE StartResumes
    BY <1>6 DEF StartResumes, TypeOK, Disk, Ram, Idle, BootstrapProblem
  <1>7. CASE FirstIndex
    BY <1>7 DEF FirstIndex, TypeOK, Disk, Ram
  <1>8. CASE FirstHash
    BY <1>8 DEF FirstHash, TypeOK, Disk, Ram
  <1>9. CASE WipeMarker
    BY <1>9 DEF WipeMarker, TypeOK, Disk, Ram, WipeDisk
  <1>10. CASE WipeSeq
    BY <1>10 DEF WipeSeq, TypeOK, Disk, Ram, WipeDisk
  <1>11. CASE WipeGen
    BY <1>11 DEF WipeGen, TypeOK, Disk, Ram, WipeDisk, NextGeneration
  <1>12. CASE WipeOutbox
    BY <1>12 DEF WipeOutbox, TypeOK, Disk, Ram, WipeDisk, NextGeneration
  <1>13. CASE WipeRows
    BY <1>13 DEF WipeRows, TypeOK, Disk, Ram, WipeDisk, NextGeneration
  <1>14. CASE WipeRam
    BY <1>14 DEF WipeRam, TypeOK, Disk, Ram, WipeDisk, NextGeneration
  <1>15. CASE WipeIndex
    BY <1>15 DEF WipeIndex, TypeOK, Disk, Ram, WipeDisk
  <1>16. CASE WipeCkpt
    BY <1>16 DEF WipeCkpt, TypeOK, Disk, Ram, WipeDisk
  <1>17. CASE WipeNoHash
    BY <1>17, SMTT(30) DEF WipeNoHash, TypeOK, Disk, Ram, WipeDisk, Entry
  <1>18. CASE WipeHash
    BY <1>18 DEF WipeHash, Config, TypeOK, Disk, Ram, WipeDisk
  <1>19. CASE HydrateSkipped
    BY <1>19 DEF HydrateSkipped, TypeOK, Disk, Ram, NextGeneration
  <1>20. CASE Hydrate
    BY <1>20, Hydrated DEF Hydrate
  <1>21. CASE HydrateRefused
    BY <1>21 DEF HydrateRefused, TypeOK, Disk, Ram, Refuse
  <1>22. CASE HydrateWipes
    BY <1>22 DEF HydrateWipes, TypeOK, Disk, Ram, BeginWipe
  <1>23. CASE SubscribeRefused
    BY <1>23 DEF SubscribeRefused, TypeOK, Disk, Ram, Refuse
  <1>24. CASE SubscribeWipes
    BY <1>24 DEF SubscribeWipes, TypeOK, Disk, Ram, BeginWipe
  <1>25. CASE SubscribeReplay
    BY <1>25 DEF SubscribeReplay, TypeOK, Disk, Ram
  <1>26. CASE SubscribeBootstrap
    BY <1>26 DEF SubscribeBootstrap, TypeOK, Disk, Ram
  <1>27. CASE SubscribeLive
    BY <1>27 DEF SubscribeLive, TypeOK, Disk, Ram
  <1>28. CASE EmptyBootstrap
    BY <1>28 DEF EmptyBootstrap, TypeOK, Disk, Ram
  <1>29. CASE BootstrapEvent
    BY <1>29 DEF BootstrapEvent, TypeOK, Disk, Ram
  <1>30. CASE Handover
    BY <1>30 DEF Handover, TypeOK, Disk, Ram
  <1>31. CASE Complete
    BY <1>31 DEF Complete, TypeOK, Disk, Ram
  <1>32. CASE SkipDuplicate
    BY <1>32 DEF SkipDuplicate, TypeOK, Disk, Ram
  <1>33. CASE CommitQuietly
    BY <1>33 DEF CommitQuietly, TypeOK, Disk, Ram
  <1>34. CASE Commit
    <2>1. /\ disk' \in Disk /\ disk'.rseq = ram.seq + 1 /\ ram.seq \in Nat
          /\ disk'.hash = "cur" /\ disk'.gen = disk.gen /\ disk.gen = ram.gen /\ ~damaged
          /\ Len(emitted') = ram.seq + 1 /\ emitted'[Len(emitted')] = Arriving
          /\ sub' = Arriving /\ Arriving \in Nat \ {0}
          /\ Logged(disk.outbox)' /\ Logged(ram.outbox)'
      BY <1>34, Committed DEF TypeOK, Ram
    <2>2. pc' = "apply" /\ ram' = ram /\ damaged' = damaged
      BY <1>34 DEF Commit
    <2>3. Stored(disk'.rseq) = Len(emitted')
      BY <2>1
    <2>4. DiskInv'
      BY <2>1, <2>2, <2>3
    <2>5. WipeInv'
      BY <2>2
    <2>6. StartInv'
      BY <2>1, <2>2
    <2>7. RamInv'
      BY <2>1, <2>2, <2>3
    <2> QED
      BY <2>4, <2>5, <2>6, <2>7
  <1>35. CASE Apply
    BY <1>35, Applied DEF Apply
  <1>36. CASE Fails
    BY <1>36 DEF Fails, TypeOK, Disk, Ram, Fault, StartSteps
  <1>37. CASE Stop
    BY <1>37 DEF Stop, TypeOK, Disk, Ram, Fault
  <1>38. CASE StopAborts
    BY <1>38 DEF StopAborts, TypeOK, Disk, Ram
  <1>39. CASE Crash
    BY <1>39 DEF Crash, TypeOK, Disk, Ram
  <1>40. CASE ConfigChange
    BY <1>40 DEF ConfigChange, TypeOK, Disk, Ram
  <1>41. CASE LoseSequence
    <2>1. PICK o \in disk.outbox : o.seq = disk.rseq
      BY <1>41 DEF LoseSequence
    <2>2. disk.rseq \in Nat \ {0}
      BY <2>1 DEF TypeOK, Disk, Entry
    <2>3. /\ disk'.rseq = disk.rseq - 1
          /\ UNCHANGED <<disk.outbox, disk.hash, disk.gen>>
      BY <1>41 DEF LoseSequence, TypeOK, Disk
    <2>4. disk.hash # "none"
      BY <2>1
    <2> QED
      BY <1>41, <2>1, <2>2, <2>3, <2>4 DEF LoseSequence
  <1>42. CASE HashUnreadable
    BY <1>42 DEF HashUnreadable, TypeOK, Disk, Ram, BeginWipe, Fault, Idle
  <1>43. CASE CheckpointsUnreadable
    BY <1>43 DEF CheckpointsUnreadable, TypeOK, Disk, Ram, Fault, Idle
  <1> QED
    BY <1>1, <1>2, <1>3, <1>4, <1>5, <1>6, <1>7, <1>8, <1>9, <1>10, <1>11, <1>12, <1>13,
       <1>14, <1>15, <1>16, <1>17, <1>18, <1>19, <1>20, <1>21, <1>22, <1>23, <1>24,
       <1>25, <1>26, <1>27, <1>28, <1>29, <1>30, <1>31, <1>32, <1>33, <1>34, <1>35,
       <1>36, <1>37, <1>38, <1>39, <1>40, <1>41, <1>42, <1>43
       DEF Next, Start, Starting, Wipe, Process, Trouble

----------------------------------------------------------------------------
(* What subscribers have read.                                             *)

\* Four actions touch what was read, the log it is compared with, or its
\* generation; the others leave all three alone.
LEMMA Unread ==
    ASSUME IInv, Next, ~SlowStop, ~WipeGen, ~Hydrate, ~Commit, ~Apply
    PROVE  UNCHANGED <<seen, emitted>> /\ disk'.gen = disk.gen
  <1> USE DEF IInv, TypeOK, given, run, history, BeginWipe, Refuse, WipeDisk
  <1>1. CASE \/ Publish \/ Prune \/ StartRefused \/ StartWipes \/ StartFirst \/ StartResumes
             \/ WipeRam \/ HydrateSkipped \/ HydrateRefused \/ HydrateWipes
             \/ SubscribeRefused \/ SubscribeWipes \/ SubscribeReplay \/ SubscribeBootstrap
             \/ SubscribeLive \/ SkipDuplicate \/ Fails \/ HashUnreadable
             \/ CheckpointsUnreadable \/ Stop \/ StopAborts \/ Crash
    BY <1>1 DEF Publish, Prune, StartRefused, StartWipes, StartFirst, StartResumes, WipeRam,
                HydrateSkipped, HydrateRefused, HydrateWipes, SubscribeRefused,
                SubscribeWipes, SubscribeReplay, SubscribeBootstrap, SubscribeLive,
                SkipDuplicate, Fails, HashUnreadable, CheckpointsUnreadable, Stop, StopAborts, Crash
  <1>2. CASE FirstIndex
    BY <1>2 DEF FirstIndex, Disk
  <1>3. CASE FirstHash
    BY <1>3 DEF FirstHash, Disk
  <1>4. CASE WipeMarker
    BY <1>4 DEF WipeMarker, Disk
  <1>5. CASE WipeSeq
    BY <1>5 DEF WipeSeq, Disk
  <1>6. CASE WipeOutbox
    BY <1>6 DEF WipeOutbox, Disk
  <1>7. CASE WipeRows
    BY <1>7 DEF WipeRows, Disk
  <1>8. CASE WipeIndex
    BY <1>8 DEF WipeIndex, Disk
  <1>9. CASE WipeCkpt
    BY <1>9 DEF WipeCkpt, Disk
  <1>10. CASE WipeNoHash
    BY <1>10 DEF WipeNoHash, Disk
  <1>11. CASE WipeHash
    BY <1>11 DEF WipeHash, Disk
  <1>12. CASE EmptyBootstrap
    BY <1>12 DEF EmptyBootstrap, Disk
  <1>13. CASE BootstrapEvent
    BY <1>13 DEF BootstrapEvent, Disk
  <1>14. CASE Handover
    BY <1>14 DEF Handover, Disk
  <1>15. CASE Complete
    BY <1>15 DEF Complete, Disk
  <1>16. CASE CommitQuietly
    BY <1>16 DEF CommitQuietly, Disk
  <1>17. CASE ConfigChange
    BY <1>17 DEF ConfigChange, Disk
  <1>18. CASE LoseSequence
    BY <1>18 DEF LoseSequence, Disk
  <1> QED
    BY <1>1, <1>2, <1>3, <1>4, <1>5, <1>6, <1>7, <1>8, <1>9, <1>10, <1>11, <1>12, <1>13,
       <1>14, <1>15, <1>16, <1>17, <1>18
       DEF Next, Start, Starting, Wipe, Process, Trouble

\* A result is read under the number it was given in its generation, and a
\* new generation is above all that were read.
LEMMA SeenStep ==
    ASSUME IInv, Next, ~SlowStop
    PROVE  SeenInv' /\ UniqueEpoch'
  <1> DEFINE OnRecord(s) == /\ s.gen <= disk.gen
                            /\ s.gen = disk.gen =>
                                 s.seq <= Len(emitted) /\ emitted[s.seq] = s.ev
  <1>1. /\ \A s \in seen : OnRecord(s)
        /\ disk.gen \in Nat /\ disk \in Disk /\ ram \in Ram /\ emitted \in Seq(Nat \ {0})
        /\ seen \subseteq [gen : Nat, seq : Nat \ {0}, ev : Nat \ {0}]
    BY DEF IInv, TypeOK, SeenInv, Disk
  <1>2. UniqueEpoch
    BY DEF IInv
  <1>3. CASE WipeGen
    <2>1. plan = disk.gen
      BY <1>3 DEF IInv, Core, WipeInv, WipeGen, WipeDisk
    <2>2. disk'.gen = NextGeneration(plan) /\ seen' = seen
      BY <1>1, <1>3 DEF WipeGen, WipeDisk, Disk
    <2>3. disk'.gen \in Nat /\ disk'.gen > disk.gen
      BY <1>1, <2>1, <2>2, Generations
    <2> QED
      BY <1>1, <1>2, <2>2, <2>3 DEF SeenInv, UniqueEpoch
  <1>4. CASE Commit
    <2>1. /\ \A k \in 1..Len(emitted) : emitted'[k] = emitted[k]
          /\ Len(emitted') = Len(emitted) + 1
          /\ disk'.gen = disk.gen /\ seen' = seen
      <3>1. pc = "running" /\ seen' = seen
        BY <1>4 DEF Commit
      <3> QED
        BY <1>4, <3>1, Committed, Working
    <2>2. \A s \in seen : s.seq \in Nat \ {0}
      BY <1>1
    <2> QED
      BY <1>1, <1>2, <2>1, <2>2 DEF SeenInv, UniqueEpoch
  <1>5. CASE Hydrate \/ Apply
    <2>1. PICK box \in SUBSET Entry :
               Logged(box) /\ seen' = seen \union Readable(disk.gen, box)
      BY <1>5, Hydrated, Applied DEF Ram
    <2>2. disk' = disk /\ emitted' = emitted
      BY <1>5 DEF Hydrate, Apply
    <2>3. \A s \in Readable(disk.gen, box) : OnRecord(s) /\ s.gen = disk.gen
      BY <1>1, <2>1 DEF Readable, Logged, Entry
    <2>4. \A s \in seen' : OnRecord(s)
      BY <1>1, <2>1, <2>3
    <2>5. SeenInv'
      BY <2>2, <2>4 DEF SeenInv
    <2>6. UniqueEpoch'
      <3> SUFFICES ASSUME NEW a \in seen', NEW b \in seen', a.gen = b.gen, a.seq = b.seq
                   PROVE  a.ev = b.ev
        BY DEF UniqueEpoch
      <3>1. CASE a \in seen /\ b \in seen
        BY <1>2, <3>1 DEF UniqueEpoch
      <3>2. CASE a.gen = disk.gen
        BY <2>4, <3>2
      <3> QED
        BY <2>1, <2>3, <3>1, <3>2
    <2> QED
      BY <2>5, <2>6
  <1>6. CASE ~WipeGen /\ ~Hydrate /\ ~Commit /\ ~Apply
    BY <1>1, <1>2, <1>6, Unread DEF SeenInv, UniqueEpoch
  <1> QED
    BY <1>3, <1>4, <1>5, <1>6

----------------------------------------------------------------------------
(* The invariant holds.                                                    *)

\* A query that was never started satisfies the invariant.
LEMMA Initially ==
    Init => IInv
  <1> SUFFICES ASSUME Init PROVE IInv
    OBVIOUS
  <1> USE DEF Init, NewDisk, NewRam
  <1>1. disk \in Disk
    BY EmptySeq DEF Disk, None
  <1>2. ram \in Ram
    BY DEF Ram
  <1>3. TypeOK
    <2>1. log \in Seq(BOOLEAN) /\ emitted \in Seq(Nat \ {0})
      BY EmptySeq
    <2>2. faults \in 0..MaxFaults /\ config \in Config
      BY ConfigAssumption
    <2> QED
      BY <1>1, <1>2, <2>1, <2>2 DEF TypeOK, None, Idle
  <1>4. Len(log) <= MaxLog
    BY ConfigAssumption
  <1>5. Core
    BY DEF Core, DiskInv, WipeInv, StartInv, RamInv, Fresh, Stored, None, Processing, WipeSteps
  <1>6. SeenInv /\ UniqueEpoch
    BY DEF SeenInv, UniqueEpoch
  <1> QED
    BY <1>3, <1>4, <1>5, <1>6 DEF IInv

\* No step, of the source, the query or its faults, leaves the invariant.
LEMMA Inductive ==
    ASSUME IInv, [Next]_vars, ~SlowStop
    PROVE  IInv'
  <1>1. CASE Next
    BY <1>1, TypeStep, CoreStep, SeenStep DEF IInv
  <1>2. CASE UNCHANGED vars
    BY <1>2 DEF vars, IInv, TypeOK, Core, DiskInv, WipeInv, StartInv, RamInv, Fresh, Sound,
                RamCurrent, Logged, NextGeneration, SeenInv, UniqueEpoch, EnableBootstrap
  <1> QED
    BY <1>1, <1>2

\* The invariant holds in every reachable state, for every configuration whose
\* processor may finish the event it is at when it is stopped.
LEMMA Invariant ==
    ASSUME ~SlowStop
    PROVE  Spec => []IInv
  <1>1. Init => IInv
    BY Initially
  <1>2. IInv /\ [Next]_vars => IInv'
    BY Inductive
  <1> QED
    BY <1>1, <1>2, PTL DEF Spec

\* Type correctness of the query's durable state, its QueryOutputState and its
\* bookkeeping, for every configuration, log and number of faults.
THEOREM TypeCorrect ==
    ASSUME ~SlowStop
    PROVE  Spec => []TypeOK
  <1>1. IInv => TypeOK
    BY DEF IInv
  <1> QED
    BY <1>1, Invariant, PTL

\* No subscriber reads two different results under one (generation, sequence),
\* over any number of wipes, crashes, lost sequences and configuration changes:
\* the deduplication of every reaction rests on it.
THEOREM EpochsUnambiguous ==
    ASSUME ~SlowStop
    PROVE  Spec => []UniqueEpoch
  <1>1. IInv => UniqueEpoch
    BY DEF IInv
  <1> QED
    BY <1>1, Invariant, PTL

----------------------------------------------------------------------------
(* The query implements the result log.                                    *)

\* A commit is an Emit of the result log.
LEMMA Appends ==
    ASSUME IInv, Commit
    PROVE  Log!Emit
  <1>1. /\ emitted' = Append(emitted, Arriving) /\ disk'.gen = disk.gen
        /\ Arriving \in Nat \ {0} /\ Arriving <= Len(log)
    BY Committed
  <1>2. Arriving \in 1..MaxLog
    BY <1>1, ConfigAssumption DEF IInv, TypeOK
  <1>3. pc \in Processing /\ pc' \in Processing
    BY DEF Commit, Processing
  <1> QED
    BY <1>1, <1>2, <1>3 DEF Log!Emit

\* The wipe's generation write is a Renew: next_output_generation is above the
\* generation that was stored when the wipe was planned.
LEMMA Renews ==
    ASSUME IInv, WipeGen
    PROVE  Log!Renew
  <1>1. plan = disk.gen
    BY DEF IInv, Core, WipeInv, WipeGen, WipeDisk
  <1>2. disk'.gen = NextGeneration(plan)
    BY DEF IInv, TypeOK, WipeGen, WipeDisk, Disk
  <1>3. disk'.gen > disk.gen
    BY <1>1, <1>2, Generations DEF IInv, TypeOK, Disk
  <1>4. pc \notin Processing /\ pc' \notin Processing /\ emitted' = <<>>
    BY DEF WipeGen, WipeDisk, Processing
  <1> QED
    BY <1>3, <1>4 DEF Log!Renew

\* Every step of the query is a step of the result log, or leaves it alone.
LEMMA Implements ==
    ASSUME IInv, [Next]_vars, ~SlowStop
    PROVE  [Log!LogNext]_Log!logVars
  <1>1. CASE Commit
    BY <1>1, Appends DEF Log!LogNext
  <1>2. CASE WipeGen
    BY <1>2, Renews DEF Log!LogNext
  <1>3. CASE UNCHANGED <<disk.gen, emitted>>
    BY <1>3 DEF Log!LogNext, Log!Open, Log!Close, Log!logVars
  <1>4. CASE Hydrate \/ Apply \/ UNCHANGED vars
    BY <1>3, <1>4 DEF Hydrate, Apply, vars
  <1>5. CASE Next /\ ~Commit /\ ~WipeGen /\ ~Hydrate /\ ~Apply
    BY <1>3, <1>5, Unread
  <1> QED
    BY <1>1, <1>2, <1>4, <1>5

\* The query, with its wipes, bootstraps, transactions and crashes, implements
\* the log of numbered results that its subscribers are promised (ResultLog).
THEOREM ImplementsResultLog ==
    ASSUME ~SlowStop
    PROVE  Spec => RefinesLog
  <1>1. Init => Log!LogInit
    BY DEF Init, NewDisk, Processing, Log!LogInit
  <1>2. IInv /\ [Next]_vars => [Log!LogNext]_Log!logVars
    BY Implements
  <1> QED
    BY <1>1, <1>2, Invariant, PTL DEF Spec, RefinesLog, Log!LogSpec

----------------------------------------------------------------------------
(* Crash consistency.  On top of IInv: what the indexes, the checkpoint,   *)
(* the rows and the outbox hold, wherever the query is.                    *)

\* The stored state is what the indexed changes produce.
Exact ==
    /\ \A i \in DOMAIN disk.index : disk.index[i] = disk.index[1] + i - 1 /\ disk.index[i] <= Len(log)
    /\ disk.index # <<>> => disk.cpos = disk.index[Len(disk.index)]
    /\ disk.index = <<>> => disk.cpos \in {None, 0}
    /\ disk.cseq # 0 => disk.index # <<>> /\ disk.cseq = disk.cpos
    /\ base <= Len(disk.index) /\ (base > 0 => disk.rseq # None)
    /\ disk.rows = {n \in Indexed : log[n]}
    /\ \A j, k \in DOMAIN emitted : j < k => emitted[j] < emitted[k]
    /\ {emitted[k] : k \in DOMAIN emitted} = Streamed
    /\ disk.outbox = Latest(Len(emitted))

\* Nothing indexed, no checkpoint and no rows.
Blank ==
    disk.index = <<>> /\ base = 0 /\ disk.cseq = 0 /\ disk.cpos = None /\ disk.rows = {}

\* A bootstrap has indexed the first changes and keeps their rows in memory.
Booting ==
    /\ base = 0 /\ disk.cseq = 0 /\ disk.cpos = None /\ disk.rows = {}
    /\ \A i \in DOMAIN disk.index : disk.index[i] = i
    /\ Len(disk.index) <= sub /\ sub <= Len(log)
    /\ ram.rows = {n \in Indexed : log[n]}

\* What a start would resume is exact; a wipe leaves nothing, in its order.
StoreInv ==
    /\ Resumable /\ ~damaged => Exact
    /\ disk.hash = "none" /\ disk.gen = 0 => Blank /\ disk.rseq = None
    /\ pc \in {"w_ram", "w_index", "w_ckpt", "w_nohash", "w_hash"} => disk.rows = {}
    /\ pc \in {"w_ckpt", "w_nohash", "w_hash"} => disk.index = <<>> /\ base = 0
    /\ pc \in {"w_nohash", "w_hash"} => disk.cseq = 0 /\ disk.cpos = None
    /\ pc \in {"w_index", "w_ckpt", "w_nohash", "w_hash"} => disk.gen > 0
    /\ pc \in {"subscribe", "bootstrap", "empty", "complete"} => disk.hash \in {"cur", "marker"}
    /\ pc = "subscribe" /\ ~hydrate => Blank /\ (EnableBootstrap => ~Resumable)
    /\ pc = "empty" => Blank
    /\ pc = "bootstrap" => Booting /\ ~Resumable
    /\ pc = "complete" => Exact /\ disk.rseq = 0

\* Where the subscription, the dedup filter and the resume position are.
PositionInv ==
    /\ pc \in {"hydrate", "subscribe"} /\ hydrate =>
            /\ Resumable /\ dedup = disk.cseq
            /\ resume = IF disk.cpos = None /\ Wal THEN 0 ELSE disk.cpos
    /\ pc \in WipeSteps \union {"first_index", "first_hash", "bootstrap", "empty", "complete"} => dedup = 0
    /\ pc = "subscribe" /\ ~hydrate => dedup = 0
    /\ pc \in Processing => Resumable
    /\ pc \in {"complete", "running"} =>
            /\ disk.index = <<>> => dedup = 0
            /\ disk.index # <<>> /\ dedup > 0 => dedup = disk.cpos /\ sub <= dedup
            /\ disk.index # <<>> /\ dedup = 0 => sub = disk.cpos
            /\ sub <= Len(log)
    /\ pc = "empty" => sub <= Len(log)
    /\ pc = "apply" => disk.index # <<>> /\ sub = disk.cpos

\* Memory holds what is stored.
RamExact == ram.rows = disk.rows /\ ram.outbox = disk.outbox

MemoryInv ==
    /\ pc \in {"w_index", "w_ckpt", "w_nohash", "w_hash", "subscribe", "empty", "complete",
               "running"} => RamExact
    /\ Resumable /\ ram.init /\ pc # "apply" => RamExact
    /\ disk.hash = "none" /\ disk.gen = 0 => ram.rows = {}
    /\ pc = "apply" => /\ disk.rows = ram.rows \union {sub}
                       /\ ram.outbox = Latest(Len(emitted) - 1)

ExactInv == StoreInv /\ PositionInv /\ MemoryInv

\* What the store says depends on the store alone.
LEMMA SameStore ==
    ASSUME UNCHANGED <<config, log, disk, base, emitted>>
    PROVE  /\ Exact' <=> Exact
           /\ Blank' <=> Blank
           /\ Resumable' <=> Resumable
           /\ Latest(Len(emitted) - 1)' = Latest(Len(emitted) - 1)
           /\ (Indexed' = Indexed)
  BY DEF Exact, Blank, Resumable, BootstrapProblem, EnableBootstrap, Indexed, Streamed, Latest

\* A start that is refused, begins, or goes on, the subscription, a duplicate,
\* and a fault touch neither the store nor memory.
LEMMA IdleExact ==
    ASSUME IInv, ExactInv, ~SlowStop, ~ReadsFail,
           UNCHANGED <<config, log, disk, base, emitted, ram, damaged>>,
           \/ Prune \/ Start \/ HydrateSkipped \/ HydrateRefused \/ HydrateWipes
           \/ SubscribeRefused \/ SubscribeWipes \/ SubscribeReplay \/ SubscribeBootstrap
           \/ SubscribeLive \/ SkipDuplicate
           \/ Fails \/ HashUnreadable \/ CheckpointsUnreadable \/ Stop \/ StopAborts
    PROVE  ExactInv'
  <1>1. /\ Exact' <=> Exact
        /\ Blank' <=> Blank
        /\ Resumable' <=> Resumable
        /\ Indexed' = Indexed
        /\ Latest(Len(emitted) - 1)' = Latest(Len(emitted) - 1)
    BY SameStore
  <1>0. Len(log) \in Nat /\ disk.cseq \in Nat /\ disk.cpos \in Nat \union {None}
    BY DEF IInv, TypeOK, Disk
  <1> USE DEF ExactInv, StoreInv, PositionInv, MemoryInv, RamExact, given, run, history,
              EnableBootstrap, Wal, WipeSteps, Processing
  <1>2. CASE Prune
    <2>1. Booting' <=> Booting
      BY <1>1, <1>2 DEF Prune, Booting
    <2> QED
      BY <1>1, <1>2, <2>1 DEF Prune
  <1>3. CASE StartRefused
    BY <1>1, <1>3 DEF StartRefused, Refuse, Idle
  <1>4. CASE StartWipes
    BY <1>1, <1>4 DEF StartWipes, BeginWipe, Idle
  <1>5. CASE StartFirst
    BY <1>1, <1>5 DEF StartFirst, Idle
  <1>6. CASE StartResumes
    <2>1. Resumable /\ pc # "apply"
      BY <1>6 DEF StartResumes, Resumable, Idle
    <2> QED
      BY <1>1, <1>6, <2>1 DEF StartResumes
  <1>7. CASE HydrateSkipped
    BY <1>1, <1>7 DEF HydrateSkipped, IInv, Core, StartInv
  <1>8. CASE HydrateRefused
    BY <1>1, <1>8 DEF HydrateRefused, Refuse
  <1>9. CASE HydrateWipes
    BY <1>1, <1>9 DEF HydrateWipes, BeginWipe
  <1>10. CASE SubscribeRefused
    BY <1>1, <1>10 DEF SubscribeRefused, Refuse
  <1>11. CASE SubscribeWipes
    BY <1>1, <1>11 DEF SubscribeWipes, BeginWipe
  <1>12. CASE SubscribeReplay
    <2>1. /\ pc = "subscribe" /\ pc' = "running" /\ hydrate /\ ~damaged
          /\ resume # None /\ UNCHANGED dedup
          /\ sub' \in IF dedup > 0 THEN floor..resume ELSE {resume}
      BY <1>12 DEF SubscribeReplay, IInv, Core, StartInv
    <2>2. /\ Resumable /\ Exact /\ dedup = disk.cseq /\ RamExact
          /\ resume = IF disk.cpos = None /\ Wal THEN 0 ELSE disk.cpos
      BY <2>1
    <2>3. /\ disk.index = <<>> => dedup = 0 /\ resume = 0
          /\ disk.index # <<>> => resume = disk.cpos /\ resume <= Len(log)
          /\ disk.index # <<>> /\ dedup > 0 => dedup = resume
          /\ resume \in Nat
      <3>1. disk.index # <<>> => Len(disk.index) \in DOMAIN disk.index /\ disk.index[Len(disk.index)] \in Nat
        BY DEF IInv, TypeOK, Disk
      <3> QED
        BY <1>0, <2>1, <2>2, <3>1 DEF Exact, None
    <2>4. sub' \in Nat /\ sub' <= resume /\ (dedup = 0 => sub' = resume)
      <3>1. resume \in Nat /\ floor \in Nat /\ dedup \in Nat
        BY <2>3 DEF IInv, TypeOK
      <3> HIDE DEF ExactInv
      <3> QED
        BY <2>1, <3>1
    <2>5. sub' <= Len(log)
      <3>1. resume \in Nat /\ resume <= Len(log)
        BY <1>0, <2>3
      <3> HIDE DEF ExactInv
      <3> QED
        BY <1>0, <2>4, <3>1
    <2> QED
      BY <1>0, <1>1, <2>1, <2>2, <2>3, <2>4, <2>5
  <1>13. CASE SubscribeBootstrap
    BY <1>0, <1>1, <1>13 DEF SubscribeBootstrap, Booting, Blank, Indexed
  <1>14. CASE SubscribeLive
    <2>1. /\ pc = "subscribe" /\ pc' = IF EnableBootstrap /\ ~hydrate THEN "empty" ELSE "running"
          /\ resume = None /\ ~damaged /\ sub' = Len(log) /\ UNCHANGED <<dedup, hydrate>>
          /\ RamExact
      BY <1>14 DEF SubscribeLive, IInv, Core, StartInv
    <2>2. disk.index = <<>> /\ dedup = 0
      <3>1. CASE hydrate
        <4>1. Exact /\ disk.cpos = None /\ dedup = disk.cseq
          BY <2>1, <3>1 DEF None
        <4>2. disk.index # <<>> => Len(disk.index) \in DOMAIN disk.index /\ disk.index[Len(disk.index)] \in Nat
          BY DEF IInv, TypeOK, Disk
        <4> QED
          BY <4>1, <4>2 DEF Exact, None
      <3>2. CASE ~hydrate
        BY <2>1, <3>2 DEF Blank
      <3> QED
        BY <3>1, <3>2
    <2>3. pc' = "running" => Resumable
      <3>1. CASE hydrate
        BY <2>1, <3>1
      <3>2. CASE ~hydrate /\ ~EnableBootstrap
        BY <2>1, <3>2 DEF Resumable, BootstrapProblem, IInv, Core, StartInv
      <3> QED
        BY <2>1, <3>1, <3>2
    <2>4. pc' = "empty" => Blank
      BY <2>1
    <2> QED
      BY <1>0, <1>1, <2>1, <2>2, <2>3, <2>4
  <1>15. CASE SkipDuplicate
    BY <1>0, <1>1, <1>15 DEF SkipDuplicate, Arriving, IInv, TypeOK
  <1>16. CASE Fails \/ Stop
    BY <1>1, <1>16 DEF Fails, Stop, StartSteps
  <1>17. CASE HashUnreadable
    BY <1>1, <1>17 DEF HashUnreadable, BeginWipe, Idle
  <1>18. CASE CheckpointsUnreadable \/ StopAborts
    BY <1>18 DEF CheckpointsUnreadable, StopAborts
  <1> QED
    BY <1>2, <1>3, <1>4, <1>5, <1>6, <1>7, <1>8, <1>9, <1>10, <1>11, <1>12, <1>13, <1>14,
       <1>15, <1>16, <1>17, <1>18 DEF Start

----------------------------------------------------------------------------
(* The outbox as a window on the results of this generation.               *)

\* How many of the latest results an outbox holds.
LEMMA LatestSize ==
    ASSUME NEW n \in Nat
    PROVE  Cardinality(Latest(n)) < OutboxCapacity <=> n < OutboxCapacity
  <1> DEFINE low == IF n < OutboxCapacity THEN 1 ELSE n - OutboxCapacity + 1
             f == [k \in low..n |-> [seq |-> k, ev |-> emitted[k]]]
  <1>1. OutboxCapacity \in Nat \ {0}
    BY ConfigAssumption
  <1>2. low \in Int /\ {j \in 1..n : j > n - OutboxCapacity} = low..n
    BY <1>1
  <1> HIDE DEF low
  <1>3. Latest(n) = {[seq |-> k, ev |-> emitted[k]] : k \in low..n}
    BY <1>2 DEF Latest
  <1>4. f \in Bijection(low..n, Latest(n))
    <2>1. f \in [low..n -> Latest(n)]
      BY <1>3
    <2>2. \A j, k \in low..n : f[j] = f[k] => j = k
      OBVIOUS
    <2>3. \A o \in Latest(n) : \E k \in low..n : f[k] = o
      BY <1>3
    <2> QED
      BY <2>1, <2>2, <2>3 DEF Bijection, Injection, Surjection, IsInjective
  <1>5. IsFiniteSet(low..n) /\ Cardinality(low..n) = IF low > n THEN 0 ELSE n - low + 1
    BY <1>2, FS_Interval
  <1>6. Cardinality(Latest(n)) = Cardinality(low..n)
    BY <1>4, <1>5, FS_Bijection DEF ExistsBijection
  <1> USE DEF low
  <1> QED
    BY <1>1, <1>5, <1>6

\* Loading a full window drops nothing (what hydrate() keeps of the outbox).
LEMMA LatestKept ==
    ASSUME NEW n \in Nat
    PROVE  Newest(Latest(n)) = Latest(n)
  <1>1. OutboxCapacity \in Nat \ {0}
    BY ConfigAssumption
  <1>2. \A o, p \in Latest(n) : p.seq - o.seq < OutboxCapacity
    BY <1>1 DEF Latest
  <1> QED
    BY <1>2 DEF Newest

\* Removing the oldest entry of a full outbox and adding the next result
\* (apply_committed_sequence) moves the window on by one.
LEMMA LatestSlides ==
    ASSUME NEW n \in Nat \ {0}
    PROVE  Latest(n) = {o \in Latest(n - 1) : \/ Cardinality(Latest(n - 1)) < OutboxCapacity
                                              \/ \E p \in Latest(n - 1) : p.seq < o.seq}
                         \union {[seq |-> n, ev |-> emitted[n]]}
  <1> DEFINE e(k) == [seq |-> k, ev |-> emitted[k]]
             older == Latest(n - 1)
  <1>1. OutboxCapacity \in Nat \ {0} /\ n - 1 \in Nat
    BY ConfigAssumption
  <1>2. Cardinality(older) < OutboxCapacity <=> n - 1 < OutboxCapacity
    BY <1>1, LatestSize
  <1>3. \A o : o \in older <=> \E k \in 1..(n - 1) : k > n - 1 - OutboxCapacity /\ o = e(k)
    BY DEF Latest
  <1>4. \A o : o \in Latest(n) <=> \E k \in 1..n : k > n - OutboxCapacity /\ o = e(k)
    BY DEF Latest
  <1>5. \A k : e(k).seq = k
    OBVIOUS
  <1> HIDE DEF older
  <1>6. CASE n - 1 < OutboxCapacity
    <2>1. \A k \in 1..n : k > n - OutboxCapacity /\ (k = n \/ (k \in 1..(n - 1) /\ k > n - 1 - OutboxCapacity))
      BY <1>1, <1>6
    <2>2. \A o : o \in Latest(n) <=> o \in older \/ o = e(n)
      BY <1>1, <1>3, <1>4, <2>1
    <2> QED
      BY <1>2, <1>6, <2>2 DEF older
  <1>7. CASE ~(n - 1 < OutboxCapacity)
    <2>1. \A k \in 1..(n - 1) : k > n - 1 - OutboxCapacity =>
             (k > n - OutboxCapacity <=> \E p \in older : p.seq < k)
      <3> SUFFICES ASSUME NEW k \in 1..(n - 1), k > n - 1 - OutboxCapacity
                   PROVE  k > n - OutboxCapacity <=> \E p \in older : p.seq < k
        OBVIOUS
      <3>1. ASSUME k > n - OutboxCapacity
            PROVE  \E p \in older : p.seq < k
        <4>1. n - OutboxCapacity \in 1..(n - 1) /\ n - OutboxCapacity > n - 1 - OutboxCapacity
          BY <1>1, <1>7
        <4>2. e(n - OutboxCapacity) \in older
          BY <1>3, <4>1
        <4> QED
          BY <4>2, <1>5, <3>1
      <3>2. ASSUME NEW p \in older, p.seq < k
            PROVE  k > n - OutboxCapacity
        BY <1>1, <1>3, <1>5, <3>2
      <3> QED
        BY <3>1, <3>2
    <2>2. n \in 1..n /\ n > n - OutboxCapacity
      BY <1>1
    <2>3. \A k \in 1..n : k > n - OutboxCapacity => k = n \/ (k \in 1..(n - 1) /\ k > n - 1 - OutboxCapacity)
      BY <1>1
    <2>4. ASSUME NEW o \in Latest(n), o # e(n)
          PROVE  o \in older /\ \E p \in older : p.seq < o.seq
      BY <1>3, <1>4, <1>5, <2>1, <2>3, <2>4
    <2>5. ASSUME NEW o \in older, \E p \in older : p.seq < o.seq
          PROVE  o \in Latest(n)
      <3>1. \A k \in 1..(n - 1) : k \in 1..n
        BY <1>1
      <3> QED
        BY <1>3, <1>4, <1>5, <2>1, <2>5, <3>1
    <2>6. e(n) \in Latest(n)
      BY <1>4, <2>2
    <2> DEFINE kept == {o \in older : \/ Cardinality(older) < OutboxCapacity
                                      \/ \E p \in older : p.seq < o.seq}
    <2>7. kept = {o \in older : \E p \in older : p.seq < o.seq}
      BY <1>2, <1>7
    <2>8. Latest(n) = kept \union {e(n)}
      <3> HIDE DEF e
      <3> QED
        BY <2>4, <2>5, <2>6, <2>7
    <2> QED
      BY <2>8 DEF older
  <1> QED
    BY <1>6, <1>7

\* A committed result adds itself to the stored outbox and evicts what leaves
\* the window (stage_durable_query_output).
LEMMA LatestStored ==
    ASSUME emitted \in Seq(Nat \ {0}), NEW ev \in Nat \ {0}, emitted' = Append(emitted, ev),
           NEW box, box = Latest(Len(emitted)), NEW next, next = Len(emitted) + 1
    PROVE  /\ {o \in box : o.seq # next /\ o.seq > next - OutboxCapacity}
                \union {[seq |-> next, ev |-> ev]} = Latest(Len(emitted))'
           /\ Latest(Len(emitted) - 1)' = box
           /\ Len(emitted') = next
  <1> DEFINE n == Len(emitted)
             e(k) == [seq |-> k, ev |-> emitted[k]]
             f(k) == [seq |-> k, ev |-> emitted'[k]]
             kept == {o \in box : o.seq # next /\ o.seq > next - OutboxCapacity}
  <1>1. OutboxCapacity \in Nat \ {0} /\ n \in Nat
    BY ConfigAssumption
  <1>2. /\ Len(emitted') = n + 1 /\ emitted'[n + 1] = ev
        /\ \A k \in 1..n : emitted'[k] = emitted[k]
    BY Appended
  <1>3. \A o : o \in box <=> \E k \in 1..n : k > n - OutboxCapacity /\ o = e(k)
    BY DEF Latest
  <1>4. \A o : o \in Latest(Len(emitted))' <=> \E k \in 1..(n + 1) : k > n + 1 - OutboxCapacity /\ o = f(k)
    BY <1>1, <1>2 DEF Latest
  <1>5. \A o : o \in Latest(Len(emitted) - 1)' <=> \E k \in 1..n : k > n - OutboxCapacity /\ o = f(k)
    BY <1>1, <1>2 DEF Latest
  <1>6. \A k \in 1..n : e(k) = f(k)
    BY <1>2
  <1>7. \A k : e(k).seq = k /\ f(k).seq = k
    OBVIOUS
  <1>8. f(n + 1) = [seq |-> n + 1, ev |-> ev]
    BY <1>2
  <1> HIDE DEF n, e, f
  <1>9. \A o : o \in Latest(Len(emitted) - 1)' <=> o \in box
    BY <1>3, <1>5, <1>6
  <1>10. \A o : o \in kept <=> \E k \in 1..n : k > n + 1 - OutboxCapacity /\ o = f(k)
    <2>1. next = n + 1
      BY DEF n
    <2> QED
      BY <1>1, <1>3, <1>6, <1>7, <2>1
  <1>11. n + 1 \in 1..(n + 1) /\ n + 1 > n + 1 - OutboxCapacity
    BY <1>1
  <1>12. \A k \in 1..(n + 1) : k = n + 1 \/ k \in 1..n
    BY <1>1
  <1>13. \A k \in 1..n : k \in 1..(n + 1)
    BY <1>1
  <1> HIDE DEF kept
  <1>14. \A o : o \in Latest(Len(emitted))' <=> o \in kept \/ o = f(n + 1)
    BY <1>4, <1>10, <1>11, <1>12, <1>13
  <1>15. kept \union {[seq |-> next, ev |-> ev]} = Latest(Len(emitted))'
    BY <1>8, <1>14 DEF n
  <1>16. Latest(Len(emitted) - 1)' = box
    BY <1>9
  <1> QED
    BY <1>2, <1>15, <1>16 DEF n, kept

\* What a start that would resume finds is what load_durable_output accepts.
LEMMA ExactReconciles ==
    ASSUME IInv, Exact, Resumable, ~damaged
    PROVE  Reconciles
  <1>1. /\ disk \in Disk /\ log \in Seq(BOOLEAN) /\ base \in Nat /\ Sound
        /\ OutboxCapacity \in Nat \ {0} /\ Len(emitted) \in Nat
    BY ConfigAssumption DEF IInv, TypeOK, Core, DiskInv, Resumable
  <1>2. Stored(disk.rseq) = Len(emitted)
    BY <1>1 DEF Sound
  <1> DEFINE numbers == {o.seq : o \in disk.outbox}
             n == Len(emitted)
  <1>3. numbers = {k \in 1..n : k > n - OutboxCapacity}
    <2> DEFINE e(k) == [seq |-> k, ev |-> emitted[k]]
    <2>1. \A o : o \in disk.outbox <=> \E k \in 1..n : k > n - OutboxCapacity /\ o = e(k)
      BY DEF Exact, Latest
    <2>2. \A k : k \in numbers <=> \E o \in disk.outbox : k = o.seq
      OBVIOUS
    <2>3. \A k : e(k).seq = k
      OBVIOUS
    <2> HIDE DEF numbers, n, e
    <2>4. \A k : k \in numbers <=> k \in 1..n /\ k > n - OutboxCapacity
      BY <2>1, <2>2, <2>3
    <2> QED
      BY <2>4
  <1> HIDE DEF numbers
  <1>4. \A m, k \in numbers : m < k => m + 1 \in numbers
    BY <1>1, <1>3
  <1>5. \A m \in numbers : m <= n
    BY <1>1, <1>3
  <1>6. n = 0 => disk.outbox = {}
    BY DEF Exact, Latest
  <1>7. CASE n # 0
    BY <1>2, <1>4, <1>5, <1>7 DEF Reconciles, numbers
  <1>8. CASE n = 0 /\ disk.index # <<>> /\ base > 0
    <2>1. disk.rseq = 0
      BY <1>1, <1>2, <1>8 DEF Exact, Stored, Disk, None
    <2>2. disk.cpos # None
      <3>1. Len(disk.index) \in DOMAIN disk.index /\ disk.index[Len(disk.index)] \in Nat
        BY <1>1, <1>8 DEF Disk
      <3> QED
        BY <1>8, <3>1 DEF Exact, None
    <2> QED
      BY <1>6, <1>8, <2>1, <2>2 DEF Reconciles
  <1>9. CASE n = 0 /\ ~(disk.index # <<>> /\ base > 0)
    <2>1. base = 0 \/ disk.index = <<>>
      BY <1>1, <1>9
    <2>2. DOMAIN emitted = {}
      BY <1>1, <1>9 DEF IInv, TypeOK
    <2>3. Streamed = {}
      BY <2>2 DEF Exact
    <2>4. DOMAIN disk.index = 1..Len(disk.index) /\ Len(disk.index) \in Nat
      BY <1>1 DEF Disk
    <2>5. disk.rows = {}
      <3> SUFFICES ASSUME NEW r \in disk.rows PROVE FALSE
        OBVIOUS
      <3>1. PICK i \in DOMAIN disk.index : r = disk.index[i] /\ log[r]
        BY DEF Exact, Indexed
      <3>2. i > base
        BY <1>1, <2>1, <2>4
      <3>3. r \in Streamed
        BY <3>1, <3>2 DEF Streamed
      <3> QED
        BY <2>3, <3>3
    <2> QED
      BY <1>2, <1>4, <1>5, <1>6, <2>5 DEF Reconciles, numbers
  <1> QED
    BY <1>7, <1>8, <1>9

\* An empty store is exact.
LEMMA FromBlank ==
    ASSUME Blank', disk'.outbox = {}, emitted' = <<>>
    PROVE  Exact'
  <1>1. Streamed' = {} /\ Indexed' = {}
    BY DEF Blank, Streamed, Indexed
  <1>2. Latest(Len(emitted))' = {}
    BY DEF Latest
  <1> QED
    BY <1>1, <1>2 DEF Exact, Blank

----------------------------------------------------------------------------
(* The processor extends the indexed changes by the next one.              *)

\* Over replays and duplicates, the change the processor commits is the one
\* after the last indexed one.
LEMMA NextInLine ==
    ASSUME IInv, ExactInv, pc = "running", sub < Len(log), Arriving > dedup
    PROVE  /\ Exact /\ Resumable /\ ~damaged /\ RamExact
           /\ Arriving \in Nat \ {0} /\ Arriving <= Len(log)
           /\ disk.index # <<>> => Arriving = disk.index[Len(disk.index)] + 1
  <1>1. /\ sub \in Nat /\ dedup \in Nat /\ Len(log) \in Nat /\ ~damaged
        /\ disk.index # <<>> => disk.index[Len(disk.index)] \in Nat
    BY DEF IInv, TypeOK, Core, StartInv, Processing, Disk
  <1>2. Exact /\ Resumable /\ RamExact
    BY <1>1 DEF ExactInv, StoreInv, PositionInv, MemoryInv, Processing
  <1>3. disk.index # <<>> => disk.cpos = disk.index[Len(disk.index)]
    BY <1>2 DEF Exact
  <1>4. disk.index # <<>> => sub = disk.cpos
    <2>1. /\ disk.index # <<>> /\ dedup > 0 => dedup = disk.cpos /\ sub <= dedup
          /\ disk.index # <<>> /\ dedup = 0 => sub = disk.cpos
      BY DEF ExactInv, PositionInv
    <2> QED
      BY <1>1, <2>1 DEF Arriving
  <1> QED
    BY <1>1, <1>2, <1>3, <1>4 DEF Arriving

\* What one more indexed change means for the indexes and the results.
LEMMA Extended ==
    ASSUME IInv, Exact, UNCHANGED <<log, base>>,
           NEW n \in Nat \ {0}, n <= Len(log),
           disk.index # <<>> => n = disk.index[Len(disk.index)] + 1,
           disk'.index = Append(disk.index, n)
    PROVE  /\ Indexed' = Indexed \union {n}
           /\ Streamed' = IF log[n] THEN Streamed \union {n} ELSE Streamed
           /\ \A i \in DOMAIN disk'.index : /\ disk'.index[i] = disk'.index[1] + i - 1
                                            /\ disk'.index[i] <= Len(log)
           /\ disk'.index # <<>> /\ disk'.index[Len(disk'.index)] = n
           /\ base <= Len(disk'.index)
           /\ \A m \in Indexed : m < n
  <1> DEFINE s == disk.index
             t == disk'.index
  <1>1. /\ s \in Seq(Nat \ {0}) /\ base \in Nat /\ base <= Len(s) /\ Len(log) \in Nat
        /\ \A i \in DOMAIN s : s[i] = s[1] + i - 1 /\ s[i] <= Len(log)
    BY DEF IInv, TypeOK, Disk, Exact
  <1>2. /\ t \in Seq(Nat \ {0}) /\ Len(t) = Len(s) + 1
        /\ \A k \in 1..Len(s) : t[k] = s[k]
        /\ t[Len(s) + 1] = n
    BY <1>1, Appended
  <1>3. Len(s) \in Nat /\ DOMAIN s = 1..Len(s) /\ DOMAIN t = 1..(Len(s) + 1)
    BY <1>1, <1>2
  <1>4. s # <<>> => n = s[Len(s)] + 1
    OBVIOUS
  <1>5. s # <<>> <=> Len(s) > 0
    BY <1>1
  <1> HIDE DEF s, t
  <1>6. t # <<>>
    <2>1. Len(t) # 0
      BY <1>2, <1>3
    <2> QED
      BY <2>1
  <1>7. s # <<>> => s[1] \in Nat /\ n = s[1] + Len(s)
    <2> SUFFICES ASSUME s # <<>> PROVE s[1] \in Nat /\ n = s[1] + Len(s)
      OBVIOUS
    <2>1. Len(s) \in DOMAIN s /\ 1 \in DOMAIN s
      BY <1>3, <1>5
    <2>2. s[1] \in Nat
      BY <1>1, <2>1
    <2>3. s[Len(s)] = s[1] + Len(s) - 1
      BY <1>1, <2>1
    <2> QED
      BY <1>3, <1>4, <2>2, <2>3
  <1>8. \A i \in DOMAIN t : t[i] = t[1] + i - 1 /\ t[i] <= Len(log)
    <2> SUFFICES ASSUME NEW i \in DOMAIN t
                 PROVE  t[i] = t[1] + i - 1 /\ t[i] <= Len(log)
      OBVIOUS
    <2>1. CASE i = Len(s) + 1 /\ s # <<>>
      BY <1>1, <1>2, <1>3, <1>5, <1>7, <2>1
    <2>2. CASE i = Len(s) + 1 /\ s = <<>>
      BY <1>1, <1>2, <1>3, <1>5, <2>2
    <2>3. CASE i \in 1..Len(s)
      BY <1>1, <1>2, <1>3, <2>3
    <2> QED
      BY <1>3, <2>1, <2>2, <2>3
  <1>9. \A m \in {s[i] : i \in DOMAIN s} : m < n
    BY <1>1, <1>3, <1>5, <1>7
  <1>10. {t[i] : i \in DOMAIN t} = {s[i] : i \in DOMAIN s} \union {n}
    <2>1. \A i \in DOMAIN t : i \in DOMAIN s \/ i = Len(s) + 1
      BY <1>3
    <2>2. \A i \in DOMAIN s : i \in DOMAIN t /\ t[i] = s[i]
      BY <1>2, <1>3
    <2>3. Len(s) + 1 \in DOMAIN t /\ t[Len(s) + 1] = n
      BY <1>2, <1>3
    <2> QED
      BY <2>1, <2>2, <2>3
  <1>11. {t[i] : i \in {j \in DOMAIN t : j > base /\ log[t[j]]}}
            = {s[i] : i \in {j \in DOMAIN s : j > base /\ log[s[j]]}}
                \union (IF log[n] THEN {n} ELSE {})
    <2>1. Len(s) + 1 > base
      BY <1>1, <1>3
    <2> QED
      BY <1>2, <1>3, <2>1, SMTT(30)
  <1>12. Streamed' = IF log[n] THEN Streamed \union {n} ELSE Streamed
    BY <1>11 DEF Streamed, s, t
  <1>13. Indexed' = Indexed \union {n} /\ \A m \in Indexed : m < n
    BY <1>9, <1>10 DEF Indexed, s, t
  <1>14. t[Len(t)] = n /\ base <= Len(t)
    BY <1>1, <1>2, <1>3
  <1> QED
    BY <1>6, <1>8, <1>12, <1>13, <1>14 DEF s, t

\* A transaction without a result: indexes and checkpoint move together.
LEMMA QuietExact ==
    ASSUME IInv, ExactInv, CommitQuietly
    PROVE  ExactInv'
  <1>1. /\ pc = "running" /\ pc' = "running" /\ sub < Len(log) /\ Arriving > dedup
        /\ ~log[Arriving] /\ sub' = Arriving /\ dedup' = Arriving
        /\ UNCHANGED <<config, log, ram, hydrate, resume, damaged, base, emitted>>
    BY DEF CommitQuietly, given, history
  <1>2. /\ Exact /\ Resumable /\ ~damaged /\ RamExact
        /\ Arriving \in Nat \ {0} /\ Arriving <= Len(log)
        /\ disk.index # <<>> => Arriving = disk.index[Len(disk.index)] + 1
    BY <1>1, NextInLine
  <1>3. /\ disk'.index = Append(disk.index, Arriving)
        /\ disk'.cseq = Arriving /\ disk'.cpos = Arriving
        /\ disk'.hash = disk.hash /\ disk'.rseq = disk.rseq /\ disk'.gen = disk.gen
        /\ disk'.outbox = disk.outbox /\ disk'.rows = disk.rows
    BY DEF CommitQuietly, IInv, TypeOK, Disk
  <1>4. /\ Indexed' = Indexed \union {Arriving}
        /\ Streamed' = IF log[Arriving] THEN Streamed \union {Arriving} ELSE Streamed
        /\ \A i \in DOMAIN disk'.index : /\ disk'.index[i] = disk'.index[1] + i - 1
                                         /\ disk'.index[i] <= Len(log)
        /\ disk'.index # <<>> /\ disk'.index[Len(disk'.index)] = Arriving
        /\ base <= Len(disk'.index)
    BY <1>1, <1>2, <1>3, Extended
  <1>5. Latest(Len(emitted))' = Latest(Len(emitted))
    BY <1>1 DEF Latest
  <1>6. disk'.rows = {n \in Indexed' : log'[n]}
    BY <1>1, <1>2, <1>3, <1>4 DEF Exact
  <1>7. Exact'
    BY <1>1, <1>2, <1>3, <1>4, <1>5, <1>6 DEF Exact
  <1>8. Resumable' /\ RamExact' /\ disk'.hash = "cur"
    BY <1>1, <1>2, <1>3 DEF Resumable, BootstrapProblem, EnableBootstrap, RamExact
  <1>9. StoreInv'
    BY <1>1, <1>7, <1>8 DEF StoreInv
  <1>10. PositionInv'
    BY <1>1, <1>2, <1>3, <1>4, <1>8 DEF PositionInv, WipeSteps, Processing
  <1>11. MemoryInv'
    BY <1>1, <1>8 DEF MemoryInv
  <1> QED
    BY <1>9, <1>10, <1>11 DEF ExactInv

\* A transaction with a result: indexes, checkpoint, row, outbox entry and
\* result sequence move together.
LEMMA CommitExact ==
    ASSUME IInv, ExactInv, Commit
    PROVE  ExactInv'
  <1>1. /\ pc = "running" /\ pc' = "apply" /\ sub < Len(log) /\ Arriving > dedup
        /\ log[Arriving] /\ sub' = Arriving
        /\ UNCHANGED <<config, log, ram, dedup, hydrate, resume, damaged, base>>
    BY DEF Commit, given
  <1>2. /\ Exact /\ Resumable /\ ~damaged /\ RamExact
        /\ Arriving \in Nat \ {0} /\ Arriving <= Len(log)
        /\ disk.index # <<>> => Arriving = disk.index[Len(disk.index)] + 1
    BY <1>1, NextInLine
  <1> DEFINE next == ram.seq + 1
             kept == {o \in disk.outbox : o.seq # next /\ o.seq > next - OutboxCapacity}
  <1>3. /\ disk'.index = Append(disk.index, Arriving)
        /\ disk'.cseq = Arriving /\ disk'.cpos = Arriving
        /\ disk'.hash = disk.hash /\ disk'.rseq = next
        /\ disk'.outbox = kept \union {[seq |-> next, ev |-> Arriving]}
        /\ disk'.rows = disk.rows \union {Arriving}
    BY DEF Commit, IInv, TypeOK, Disk
  <1>4. /\ Indexed' = Indexed \union {Arriving}
        /\ Streamed' = IF log[Arriving] THEN Streamed \union {Arriving} ELSE Streamed
        /\ \A i \in DOMAIN disk'.index : /\ disk'.index[i] = disk'.index[1] + i - 1
                                         /\ disk'.index[i] <= Len(log)
        /\ disk'.index # <<>> /\ disk'.index[Len(disk'.index)] = Arriving
        /\ base <= Len(disk'.index)
        /\ \A m \in Indexed : m < Arriving
    BY <1>1, <1>2, <1>3, Extended
  <1>5. emitted' = Append(emitted, Arriving) /\ Len(emitted') = next
    BY Committed
  <1>6. emitted \in Seq(Nat \ {0}) /\ ram.seq = Len(emitted) /\ disk.outbox = Latest(Len(emitted))
    BY <1>1, <1>2, Working DEF IInv, TypeOK, Exact
  <1>7. /\ disk'.outbox = Latest(Len(emitted))'
        /\ Latest(Len(emitted) - 1)' = disk.outbox
    <2>1. next = Len(emitted) + 1
      BY <1>6
    <2> HIDE DEF next
    <2> QED
      BY <1>2, <1>3, <1>5, <1>6, <2>1, LatestStored
  <1>8. /\ DOMAIN emitted' = DOMAIN emitted \union {next}
        /\ next \notin DOMAIN emitted /\ next \in Nat
        /\ \A k \in DOMAIN emitted : emitted'[k] = emitted[k] /\ k < next
        /\ emitted'[next] = Arriving
    <2>1. /\ emitted' \in Seq(Nat \ {0}) /\ Len(emitted') = Len(emitted) + 1
          /\ \A k \in 1..Len(emitted) : emitted'[k] = emitted[k]
          /\ emitted'[Len(emitted) + 1] = Arriving
      BY <1>2, <1>5, <1>6, Appended
    <2>2. DOMAIN emitted = 1..Len(emitted) /\ Len(emitted) \in Nat
      BY <1>6
    <2>3. DOMAIN emitted' = 1..Len(emitted') /\ Len(emitted') = next /\ next = Len(emitted) + 1
      BY <1>6, <2>1
    <2> QED
      BY <2>1, <2>2, <2>3
  <1>9. \A k \in DOMAIN emitted : emitted[k] \in Streamed /\ emitted[k] < Arriving
    <2>1. Streamed \subseteq Indexed
      BY DEF Streamed, Indexed
    <2> QED
      BY <1>2, <1>4, <2>1 DEF Exact
  <1> HIDE DEF next, kept
  <1>10. \A j, k \in DOMAIN emitted' : j < k => emitted'[j] < emitted'[k]
    <2> SUFFICES ASSUME NEW j \in DOMAIN emitted', NEW k \in DOMAIN emitted', j < k
                 PROVE  emitted'[j] < emitted'[k]
      OBVIOUS
    <2>1. CASE j \in DOMAIN emitted /\ k \in DOMAIN emitted
      BY <1>2, <1>8, <2>1 DEF Exact
    <2>2. CASE j \in DOMAIN emitted /\ k = next
      BY <1>8, <1>9, <2>2
    <2>3. CASE j = next
      <3>1. k \in Nat /\ k <= next
        BY <1>6, <1>8
      <3> QED
        BY <1>8, <2>3, <3>1
    <2> QED
      BY <1>8, <2>1, <2>2, <2>3
  <1>11. {emitted'[k] : k \in DOMAIN emitted'} = Streamed'
    <2>1. {emitted'[k] : k \in DOMAIN emitted'} = {emitted[k] : k \in DOMAIN emitted} \union {Arriving}
      BY <1>8
    <2> QED
      BY <1>1, <1>2, <1>4, <2>1 DEF Exact
  <1>12. disk'.rows = {n \in Indexed' : log'[n]}
    BY <1>1, <1>2, <1>3, <1>4 DEF Exact
  <1>13. disk'.rseq # None
    BY <1>3, <1>8 DEF None
  <1>14. Exact'
    BY <1>1, <1>2, <1>3, <1>4, <1>7, <1>10, <1>11, <1>12, <1>13 DEF Exact
  <1>15. Resumable' /\ disk'.hash = "cur"
    BY <1>1, <1>2, <1>3, <1>13 DEF Resumable, BootstrapProblem, EnableBootstrap
  <1>16. StoreInv'
    BY <1>1, <1>14, <1>15 DEF StoreInv
  <1>17. PositionInv'
    BY <1>1, <1>3, <1>4, <1>15 DEF PositionInv, WipeSteps, Processing
  <1>18. MemoryInv'
    BY <1>1, <1>2, <1>3, <1>7, <1>15 DEF MemoryInv, RamExact
  <1> QED
    BY <1>16, <1>17, <1>18 DEF ExactInv

\* Installing the committed result brings memory level with the store.
LEMMA ApplyExact ==
    ASSUME IInv, ExactInv, Apply
    PROVE  ExactInv'
  <1>1. /\ pc = "apply" /\ pc' = "running" /\ dedup' = sub
        /\ UNCHANGED <<config, log, disk, sub, hydrate, resume, damaged, base, emitted>>
    BY DEF Apply, given
  <1>2. /\ Exact' <=> Exact
        /\ Resumable' <=> Resumable
    BY <1>1, SameStore
  <1>3. /\ Resumable /\ ~damaged /\ disk.hash = "cur" /\ disk.index # <<>> /\ sub = disk.cpos
        /\ disk.rows = ram.rows \union {sub} /\ ram.outbox = Latest(Len(emitted) - 1)
    BY <1>1 DEF ExactInv, PositionInv, MemoryInv, IInv, Core, StartInv, Processing, Resumable
  <1>4. Exact
    BY <1>3 DEF ExactInv, StoreInv
  <1>5. disk.rseq = Len(emitted) /\ disk.rseq \in Nat \ {0}
    BY Applied
  <1>6. emitted[Len(emitted)] = sub /\ sub > 0
    BY <1>1 DEF IInv, Core, RamInv
  <1>7. Len(disk.index) \in DOMAIN disk.index /\ sub <= Len(log)
    BY <1>3, <1>4 DEF Exact, IInv, TypeOK, Disk
  <1> DEFINE kept == {o \in ram.outbox : Cardinality(ram.outbox) < OutboxCapacity
                                          \/ \E p \in ram.outbox : p.seq < o.seq}
  <1>8. /\ ram'.outbox = kept \union {[seq |-> disk.rseq, ev |-> sub]}
        /\ ram'.rows = ram.rows \union {sub}
    BY DEF Apply, IInv, TypeOK, Ram
  <1>9. ram'.outbox = Latest(Len(emitted))
    BY <1>3, <1>5, <1>6, <1>8, LatestSlides
  <1>10. RamExact'
    BY <1>1, <1>3, <1>4, <1>8, <1>9 DEF RamExact, Exact
  <1>11. StoreInv'
    BY <1>1, <1>2, <1>3, <1>4 DEF StoreInv
  <1>12. PositionInv'
    BY <1>1, <1>2, <1>3, <1>6, <1>7 DEF PositionInv, WipeSteps, Processing, IInv, TypeOK
  <1>13. MemoryInv'
    BY <1>1, <1>3, <1>10 DEF MemoryInv
  <1> QED
    BY <1>11, <1>12, <1>13 DEF ExactInv

----------------------------------------------------------------------------
(* The other steps.                                                        *)

\* A change the source publishes is of no concern to what is indexed.
LEMMA PublishExact ==
    ASSUME IInv, ExactInv, Publish
    PROVE  ExactInv'
  <1>1. /\ log' \in Seq(BOOLEAN) /\ Len(log') = Len(log) + 1 /\ Len(log) \in Nat
        /\ \A n \in 1..Len(log) : log'[n] = log[n]
    BY DEF Publish, IInv, TypeOK
  <1>2. /\ sub \in Nat /\ disk \in Disk /\ DOMAIN disk.index = 1..Len(disk.index)
        /\ Len(disk.index) \in Nat
        /\ \A i \in DOMAIN disk.index : disk.index[i] \in Nat \ {0}
    BY DEF IInv, TypeOK, Disk
  <1>3. UNCHANGED <<config, disk, ram, pc, plan, hydrate, resume, sub, dedup, damaged, base, emitted>>
    BY DEF Publish, run, history
  <1>4. /\ Blank' <=> Blank
        /\ Resumable' <=> Resumable
        /\ RamExact' <=> RamExact
        /\ Indexed' = Indexed
        /\ Latest(Len(emitted))' = Latest(Len(emitted))
        /\ Latest(Len(emitted) - 1)' = Latest(Len(emitted) - 1)
    BY <1>3 DEF Blank, Resumable, BootstrapProblem, EnableBootstrap, RamExact, Indexed, Latest
  <1>5. ASSUME \A i \in DOMAIN disk.index : disk.index[i] <= Len(log)
        PROVE  /\ \A i \in DOMAIN disk.index : disk.index[i] <= Len(log')
               /\ {n \in Indexed' : log'[n]} = {n \in Indexed : log[n]}
               /\ Streamed' = Streamed
    <2>1. \A i \in DOMAIN disk.index : /\ disk.index[i] <= Len(log')
                                       /\ log'[disk.index[i]] = log[disk.index[i]]
      BY <1>1, <1>2, <1>5
    <2> QED
      BY <1>3, <2>1 DEF Indexed, Streamed
  <1>6. Exact => Exact'
    BY <1>3, <1>4, <1>5 DEF Exact
  <1>7. Booting => Booting'
    <2> SUFFICES ASSUME Booting PROVE Booting'
      OBVIOUS
    <2>1. \A i \in DOMAIN disk.index : disk.index[i] <= Len(log)
      BY <1>1, <1>2 DEF Booting
    <2> QED
      BY <1>1, <1>2, <1>3, <1>5, <2>1, SMTT(30) DEF Booting
  <1>8. StoreInv'
    BY <1>3, <1>4, <1>6, <1>7 DEF ExactInv, StoreInv, EnableBootstrap
  <1>9. PositionInv'
    <2>1. sub <= Len(log) => sub <= Len(log')
      BY <1>1, <1>2
    <2> QED
      BY <1>3, <1>4, <2>1 DEF ExactInv, PositionInv, Wal
  <1>10. MemoryInv'
    BY <1>3, <1>4 DEF ExactInv, MemoryInv
  <1> QED
    BY <1>8, <1>9, <1>10 DEF ExactInv

\* A first start finds, and leaves, nothing.
LEMMA FirstExact ==
    ASSUME IInv, ExactInv, FirstIndex \/ FirstHash
    PROVE  ExactInv'
  <1>1. /\ disk.hash = "none" /\ disk.gen = 0 /\ Fresh /\ ~hydrate /\ resume = None /\ dedup = 0
        /\ Blank /\ disk.rseq = None /\ ram.rows = {} /\ ram.outbox = {} /\ disk \in Disk /\ ram \in Ram
    BY DEF FirstIndex, FirstHash, IInv, TypeOK, Core, DiskInv, StartInv, ExactInv, StoreInv,
           PositionInv, MemoryInv
  <1>2. CASE FirstIndex
    <2>1. disk' = disk /\ pc' = "first_hash"
      BY <1>1, <1>2 DEF FirstIndex, Blank, Disk
    <2>2. UNCHANGED <<config, log, base, emitted, ram, dedup, sub, hydrate, resume, damaged>>
      BY <1>2 DEF FirstIndex, given, run, history
    <2>3. (Blank' <=> Blank) /\ (Resumable' <=> Resumable) /\ ~Resumable
      BY <1>1, <2>1, <2>2, SameStore DEF Resumable
    <2> QED
      BY <1>1, <2>1, <2>2, <2>3 DEF ExactInv, StoreInv, PositionInv, MemoryInv, Processing
  <1>3. CASE FirstHash
    <2>1. /\ disk'.hash = "cur" /\ pc' = "subscribe"
          /\ \A f \in {"rseq", "gen", "outbox", "rows", "index", "cseq", "cpos"} : disk'[f] = disk[f]
          /\ ram'.rows = ram.rows /\ ram'.outbox = ram.outbox
      BY <1>1, <1>3 DEF FirstHash, Disk, Ram
    <2>2. UNCHANGED <<config, log, base, emitted, dedup, sub, hydrate, resume, damaged>>
      BY <1>3 DEF FirstHash, given, run, history
    <2>3. Blank' /\ RamExact' /\ disk'.outbox = {} /\ emitted' = <<>>
      BY <1>1, <2>1, <2>2 DEF Blank, RamExact, Fresh
    <2>4. Exact'
      BY <2>3, FromBlank
    <2>5. EnableBootstrap' => ~Resumable'
      BY <1>1, <2>1 DEF Resumable, BootstrapProblem
    <2> QED
      BY <1>1, <2>1, <2>2, <2>3, <2>4, <2>5
         DEF ExactInv, StoreInv, PositionInv, MemoryInv, Processing, WipeSteps
  <1> QED
    BY <1>2, <1>3

\* A wipe takes the output, the indexes and the checkpoint away in turn, and
\* nothing can be resumed before the last is gone.
LEMMA WipeExact ==
    ASSUME IInv, ExactInv, Wipe
    PROVE  ExactInv'
  <1>0. pc \in WipeSteps => dedup = 0 /\ ~hydrate /\ resume = None
    BY DEF IInv, Core, StartInv, ExactInv, PositionInv
  <1> USE DEF WipeSteps, Processing
  <1>1. CASE WipeMarker \/ WipeSeq \/ WipeGen \/ WipeOutbox
    <2>1. /\ pc \in {"w_marker", "w_seq", "w_gen", "w_outbox"}
          /\ pc' \in {"w_seq", "w_gen", "w_outbox", "w_rows"}
          /\ disk'.hash = "marker"
          /\ UNCHANGED <<config, hydrate, resume, dedup, ram>>
      BY <1>1 DEF WipeMarker, WipeSeq, WipeGen, WipeOutbox, WipeDisk, given, run,
                  IInv, TypeOK, Disk, Core, WipeInv
    <2>2. ~Resumable'
      BY <2>1 DEF Resumable
    <2> QED
      BY <1>0, <2>1, <2>2 DEF ExactInv, StoreInv, PositionInv, MemoryInv
  <1>2. CASE WipeRows
    <2>1. /\ pc = "w_rows" /\ pc' = "w_ram" /\ disk'.hash = "marker" /\ disk'.rows = {}
          /\ UNCHANGED <<config, hydrate, resume, dedup, ram>>
      BY <1>2 DEF WipeRows, WipeDisk, given, run, IInv, TypeOK, Disk, Core, WipeInv
    <2>2. ~Resumable'
      BY <2>1 DEF Resumable
    <2> QED
      BY <1>0, <2>1, <2>2 DEF ExactInv, StoreInv, PositionInv, MemoryInv
  <1>3. CASE WipeRam
    <2>1. /\ pc = "w_ram" /\ pc' = "w_index" /\ disk.hash = "marker" /\ disk.rows = {} /\ disk.outbox = {}
          /\ UNCHANGED <<config, disk, hydrate, resume, dedup>>
          /\ ram'.rows = {} /\ ram'.outbox = {}
          /\ disk.gen = NextGeneration(plan) /\ plan \in Nat /\ ram \in Ram
      BY <1>3 DEF WipeRam, NewRam, given, run, IInv, TypeOK, Core, WipeInv, Fresh, ExactInv, StoreInv
    <2>2. ~Resumable' /\ RamExact' /\ disk'.rows = {} /\ disk'.gen > 0
      BY <2>1, Generations DEF Resumable, RamExact
    <2> QED
      BY <1>0, <2>1, <2>2 DEF ExactInv, StoreInv, PositionInv, MemoryInv
  <1>4. CASE WipeIndex
    <2>1. /\ pc = "w_index" /\ pc' = "w_ckpt" /\ disk'.hash = "marker"
          /\ disk'.index = <<>> /\ base' = 0
          /\ disk'.rows = disk.rows /\ disk'.outbox = disk.outbox /\ disk'.gen = disk.gen
          /\ UNCHANGED <<config, hydrate, resume, dedup, ram>>
      BY <1>4 DEF WipeIndex, WipeDisk, given, run, IInv, TypeOK, Disk, Core, WipeInv
    <2>2. ~Resumable' /\ (RamExact' <=> RamExact)
      BY <2>1 DEF Resumable, RamExact
    <2> QED
      BY <1>0, <2>1, <2>2 DEF ExactInv, StoreInv, PositionInv, MemoryInv
  <1>5. CASE WipeCkpt
    <2>1. /\ pc = "w_ckpt" /\ pc' = "w_nohash" /\ disk'.hash = "marker"
          /\ disk'.cseq = 0 /\ disk'.cpos = None
          /\ disk'.index = disk.index /\ base' = base
          /\ disk'.rows = disk.rows /\ disk'.outbox = disk.outbox /\ disk'.gen = disk.gen
          /\ UNCHANGED <<config, hydrate, resume, dedup, ram>>
      BY <1>5 DEF WipeCkpt, WipeDisk, given, run, history, IInv, TypeOK, Disk, Core, WipeInv
    <2>2. ~Resumable' /\ (RamExact' <=> RamExact)
      BY <2>1 DEF Resumable, RamExact
    <2> QED
      BY <1>0, <2>1, <2>2 DEF ExactInv, StoreInv, PositionInv, MemoryInv
  <1>6. CASE WipeNoHash
    <2>1. /\ pc = "w_nohash" /\ pc' = "w_hash" /\ disk'.hash = "none"
          /\ disk'.cseq = disk.cseq /\ disk'.cpos = disk.cpos
          /\ disk'.index = disk.index /\ base' = base
          /\ disk'.rows = disk.rows /\ disk'.outbox = disk.outbox /\ disk'.gen = disk.gen
          /\ disk.gen > 0 /\ disk.gen \in Nat
          /\ UNCHANGED <<config, hydrate, resume, dedup, ram>>
      BY <1>6 DEF WipeNoHash, WipeDisk, given, run, history, IInv, TypeOK, Disk, ExactInv, StoreInv
    <2>2. ~Resumable' /\ (RamExact' <=> RamExact) /\ disk'.gen # 0
      BY <2>1 DEF Resumable, RamExact
    <2> QED
      BY <1>0, <2>1, <2>2 DEF ExactInv, StoreInv, PositionInv, MemoryInv
  <1>7. CASE WipeHash
    <2>1. /\ pc = "w_hash" /\ pc' = "subscribe"
          /\ disk'.hash = IF EnableBootstrap THEN "marker" ELSE "cur"
          /\ disk'.cseq = disk.cseq /\ disk'.cpos = disk.cpos
          /\ disk'.index = disk.index /\ base' = base
          /\ disk'.rows = disk.rows /\ disk'.outbox = disk.outbox
          /\ UNCHANGED <<config, hydrate, resume, dedup, ram, emitted>>
      BY <1>7 DEF WipeHash, WipeDisk, given, run, history, IInv, TypeOK, Disk
    <2>2. Blank /\ Fresh
      BY <2>1 DEF IInv, Core, WipeInv, ExactInv, StoreInv, Blank
    <2>3. /\ Blank' /\ disk'.outbox = {} /\ emitted' = <<>>
          /\ (RamExact' <=> RamExact)
          /\ (EnableBootstrap' => ~Resumable')
      BY <2>1, <2>2 DEF Blank, Fresh, RamExact, Resumable, EnableBootstrap
    <2>4. Exact'
      BY <2>3, FromBlank
    <2> QED
      BY <1>0, <2>1, <2>3, <2>4 DEF ExactInv, StoreInv, PositionInv, MemoryInv
  <1> QED
    BY <1>1, <1>2, <1>3, <1>4, <1>5, <1>6, <1>7 DEF Wipe

\* Hydration loads into memory exactly what is stored.
LEMMA HydrateExact ==
    ASSUME IInv, ExactInv, Hydrate
    PROVE  ExactInv'
  <1>1. /\ pc = "hydrate" /\ pc' = "subscribe" /\ ram'.outbox = Newest(disk.outbox) /\ ram'.rows = disk.rows
        /\ UNCHANGED <<config, log, disk, base, emitted, damaged, hydrate, resume, sub, dedup>>
    BY DEF Hydrate, given, run
  <1>2. hydrate /\ ~damaged /\ disk.hash = "cur"
    BY Hydrated
  <1>3. Resumable /\ Exact
    BY <1>1, <1>2 DEF ExactInv, StoreInv, PositionInv
  <1>4. Len(emitted) \in Nat
    BY DEF IInv, TypeOK
  <1>5. ram'.outbox = disk.outbox
    BY <1>1, <1>3, <1>4, LatestKept DEF Exact
  <1>6. RamExact'
    BY <1>1, <1>5 DEF RamExact
  <1>7. /\ Exact' <=> Exact
        /\ Blank' <=> Blank
        /\ Resumable' <=> Resumable
    BY <1>1, SameStore
  <1> QED
    BY <1>1, <1>2, <1>3, <1>6, <1>7
       DEF ExactInv, StoreInv, PositionInv, MemoryInv, Wal, WipeSteps, Processing

\* A bootstrap with nothing to load commits an empty output.
LEMMA EmptyExact ==
    ASSUME IInv, ExactInv, EmptyBootstrap
    PROVE  ExactInv'
  <1>1. /\ pc = "empty" /\ pc' = "complete" /\ disk'.rseq = 0
        /\ \A f \in {"hash", "gen", "outbox", "rows", "index", "cseq", "cpos"} : disk'[f] = disk[f]
        /\ UNCHANGED <<config, log, ram, hydrate, resume, sub, dedup, damaged, base, emitted>>
    BY DEF EmptyBootstrap, given, run, history, IInv, TypeOK, Disk
  <1>2. /\ Blank /\ Fresh /\ dedup = 0 /\ sub <= Len(log) /\ RamExact
        /\ disk.hash \in {"cur", "marker"}
    BY <1>1 DEF IInv, Core, StartInv, ExactInv, StoreInv, PositionInv, MemoryInv
  <1>3. Blank' /\ disk'.outbox = {} /\ emitted' = <<>> /\ RamExact' /\ disk'.hash \in {"cur", "marker"}
    BY <1>1, <1>2 DEF Blank, Fresh, RamExact
  <1>4. Exact'
    BY <1>3, FromBlank
  <1> QED
    BY <1>1, <1>2, <1>3, <1>4
       DEF ExactInv, StoreInv, PositionInv, MemoryInv, Blank, WipeSteps, Processing

\* A bootstrap event is indexed, and its row kept in memory, after the ones
\* before it.
LEMMA BootstrapExact ==
    ASSUME IInv, ExactInv, BootstrapEvent
    PROVE  ExactInv'
  <1> DEFINE s == disk.index
             n == Len(s) + 1
  <1>1. /\ pc = "bootstrap" /\ pc' = "bootstrap" /\ Len(s) < sub
        /\ UNCHANGED <<config, log, hydrate, resume, sub, dedup, damaged, base, emitted>>
    BY DEF BootstrapEvent, given, run, history
  <1>2. /\ Booting /\ ~Resumable /\ disk.hash \in {"cur", "marker"} /\ dedup = 0
        /\ disk \in Disk /\ ram \in Ram /\ s \in Seq(Nat \ {0}) /\ sub \in Nat
    BY <1>1 DEF ExactInv, StoreInv, PositionInv, IInv, TypeOK, Disk
  <1>3. n \in Nat \ {0} /\ n <= sub /\ DOMAIN s = 1..Len(s)
    BY <1>1, <1>2
  <1>4. /\ disk'.index = Append(s, n)
        /\ \A f \in {"hash", "rseq", "gen", "outbox", "rows", "cseq", "cpos"} : disk'[f] = disk[f]
        /\ ram'.rows = IF log[n] THEN ram.rows \union {n} ELSE ram.rows
    BY <1>2 DEF BootstrapEvent, Disk, Ram
  <1>5. /\ disk'.index \in Seq(Nat \ {0}) /\ Len(disk'.index) = n
        /\ \A k \in 1..Len(s) : disk'.index[k] = s[k]
        /\ disk'.index[n] = n
    BY <1>2, <1>3, <1>4, Appended
  <1>6. DOMAIN disk'.index = DOMAIN s \union {n}
    <2>1. DOMAIN disk'.index = 1..n
      BY <1>5
    <2> QED
      BY <1>2, <1>3, <2>1
  <1> HIDE DEF n
  <1>7. Indexed' = Indexed \union {n}
    BY <1>3, <1>5, <1>6 DEF Indexed
  <1>8. ram'.rows = {m \in Indexed' : log'[m]}
    BY <1>1, <1>2, <1>4, <1>7 DEF Booting
  <1>9. \A i \in DOMAIN disk'.index : disk'.index[i] = i
    BY <1>2, <1>3, <1>5, <1>6 DEF Booting
  <1>10. Booting'
    BY <1>1, <1>2, <1>3, <1>4, <1>5, <1>8, <1>9 DEF Booting
  <1>11. ~Resumable' /\ disk'.hash = disk.hash
    BY <1>1, <1>2, <1>4 DEF Resumable, BootstrapProblem, EnableBootstrap
  <1> QED
    BY <1>1, <1>2, <1>10, <1>11
       DEF ExactInv, StoreInv, PositionInv, MemoryInv, WipeSteps, Processing

\* The handover stores the snapshot's rows, its boundary as checkpoint and the
\* result sequence 0, and from then on the snapshot is exact.
LEMMA HandoverExact ==
    ASSUME IInv, ExactInv, Handover
    PROVE  ExactInv'
  <1>1. /\ pc = "bootstrap" /\ pc' = "complete" /\ Len(disk.index) = sub /\ base' = sub
        /\ UNCHANGED <<config, log, ram, hydrate, resume, sub, dedup, damaged, emitted>>
    BY DEF Handover, given, run
  <1>2. /\ Booting /\ Fresh /\ RamCurrent /\ dedup = 0 /\ disk.hash \in {"cur", "marker"}
        /\ disk \in Disk /\ ram \in Ram /\ sub \in Nat
    BY <1>1 DEF ExactInv, StoreInv, PositionInv, IInv, TypeOK, Core, StartInv, RamInv
  <1>3. PICK pos \in {sub} \union (IF sub = 0 THEN {None} ELSE {}) :
          disk' = [disk EXCEPT !.rows = @ \union ram.rows,
                               !.rseq = 0,
                               !.cseq = IF pos = None THEN @ ELSE 0,
                               !.cpos = IF pos = None THEN @ ELSE pos]
    BY DEF Handover
  <1>4. /\ disk'.rows = ram.rows /\ disk'.rseq = 0 /\ disk'.cseq = 0
        /\ disk'.cpos = IF pos = None THEN None ELSE sub
        /\ disk'.hash = disk.hash /\ disk'.index = disk.index /\ disk'.outbox = {}
    BY <1>2, <1>3 DEF Disk, Booting, Fresh, None
  <1>5. /\ DOMAIN disk.index = 1..sub
        /\ \A i \in 1..sub : disk.index[i] = i
        /\ sub > 0 => disk.index # <<>> /\ disk'.cpos = sub
        /\ sub = 0 => disk.index = <<>> /\ disk'.cpos \in {None, 0}
    BY <1>1, <1>2, <1>3, <1>4 DEF Disk, Booting, None
  <1>6. ram.outbox = {}
    <2> SUFFICES ASSUME NEW o \in ram.outbox PROVE FALSE
      OBVIOUS
    <2>1. o.seq \in Nat \ {0} /\ o.seq <= Len(emitted) /\ Len(emitted) = 0
      BY <1>2 DEF Ram, Entry, RamCurrent, Logged, Fresh
    <2> QED
      BY <2>1
  <1>7. RamExact'
    BY <1>1, <1>4, <1>6 DEF RamExact
  <1>8. Indexed' = Indexed /\ Streamed' = {} /\ Latest(Len(emitted))' = {} /\ emitted = <<>>
    <2>1. emitted = <<>> /\ emitted' = <<>>
      BY <1>1, <1>2 DEF Fresh
    <2>2. Latest(Len(emitted))' = {}
      BY <2>1 DEF Latest
    <2>3. {j \in DOMAIN disk'.index : j > base' /\ log'[disk'.index[j]]} = {}
      BY <1>1, <1>2, <1>4, <1>5
    <2> QED
      BY <1>4, <2>1, <2>2, <2>3 DEF Indexed, Streamed
  <1>9. Exact'
    <2>1. \A i \in DOMAIN disk'.index : /\ disk'.index[i] = disk'.index[1] + i - 1
                                        /\ disk'.index[i] <= Len(log')
      <3>1. sub <= Len(log) /\ Len(log) \in Nat
        BY <1>2 DEF Booting, IInv, TypeOK
      <3> QED
        BY <1>1, <1>2, <1>4, <1>5, <3>1
    <2>2. disk'.rows = {n \in Indexed' : log'[n]}
      BY <1>1, <1>2, <1>4, <1>8 DEF Booting
    <2>3. disk'.index # <<>> => disk'.cpos = disk'.index[Len(disk'.index)]
      BY <1>1, <1>2, <1>4, <1>5
    <2>4. disk'.index = <<>> => disk'.cpos \in {None, 0}
      BY <1>1, <1>2, <1>4, <1>5
    <2>5. base' <= Len(disk'.index) /\ disk'.rseq # None /\ disk'.cseq = 0
      BY <1>1, <1>2, <1>4 DEF None
    <2>6. /\ \A j, k \in DOMAIN emitted' : j < k => emitted'[j] < emitted'[k]
          /\ {emitted'[k] : k \in DOMAIN emitted'} = Streamed'
      BY <1>1, <1>8
    <2> QED
      BY <1>4, <1>8, <2>1, <2>2, <2>3, <2>4, <2>5, <2>6 DEF Exact
  <1>10. disk'.index # <<>> => sub' = disk'.cpos
    BY <1>1, <1>2, <1>4, <1>5
  <1>11. sub' <= Len(log')
    BY <1>1, <1>2 DEF Booting
  <1> QED
    BY <1>1, <1>2, <1>4, <1>7, <1>9, <1>10, <1>11
       DEF ExactInv, StoreInv, PositionInv, MemoryInv, WipeSteps, Processing

\* The hash written last lets a later start resume what was handed over.
LEMMA CompleteExact ==
    ASSUME IInv, ExactInv, Complete
    PROVE  ExactInv'
  <1>1. /\ pc = "complete" /\ pc' = "running" /\ disk'.hash = "cur"
        /\ \A f \in {"rseq", "gen", "outbox", "rows", "index", "cseq", "cpos"} : disk'[f] = disk[f]
        /\ UNCHANGED <<config, log, ram, hydrate, resume, sub, dedup, damaged, base, emitted>>
    BY DEF Complete, given, run, history, IInv, TypeOK, Disk
  <1>2. Exact /\ disk.rseq = 0 /\ RamExact
    BY <1>1 DEF ExactInv, StoreInv, MemoryInv
  <1>3. /\ disk'.rseq = disk.rseq /\ disk'.outbox = disk.outbox /\ disk'.rows = disk.rows
        /\ disk'.index = disk.index /\ disk'.cseq = disk.cseq /\ disk'.cpos = disk.cpos
    BY <1>1
  <1>4. /\ Indexed' = Indexed /\ Streamed' = Streamed
        /\ Latest(Len(emitted))' = Latest(Len(emitted))
    BY <1>1, <1>3 DEF Indexed, Streamed, Latest
  <1>5. Exact'
    BY <1>1, <1>2, <1>3, <1>4 DEF Exact
  <1>6. RamExact' /\ Resumable'
    BY <1>1, <1>2, <1>3 DEF RamExact, Resumable, BootstrapProblem, None
  <1> QED
    BY <1>1, <1>5, <1>6 DEF ExactInv, StoreInv, PositionInv, MemoryInv, WipeSteps, Processing

\* A crash loses memory and nothing else; another configuration, and a lost
\* sequence, leave nothing that would be resumed unnoticed.
LEMMA FaultExact ==
    ASSUME IInv, ExactInv, Crash \/ ConfigChange \/ LoseSequence
    PROVE  ExactInv'
  <1>1. CASE Crash
    <2>1. /\ pc' = "down" /\ ram' = NewRam
          /\ UNCHANGED <<config, log, disk, hydrate, resume, sub, dedup, damaged, base, emitted>>
      BY <1>1 DEF Crash, given, run, history
    <2>2. /\ Exact' <=> Exact
          /\ Blank' <=> Blank
          /\ Resumable' <=> Resumable
      BY <2>1, SameStore
    <2> QED
      BY <2>1, <2>2 DEF ExactInv, StoreInv, PositionInv, MemoryInv, WipeSteps, Processing, NewRam
  <1>2. CASE ConfigChange
    <2>1. pc = "down" /\ pc' = "down" /\ disk'.hash = "old"
      BY <1>2 DEF ConfigChange, IInv, TypeOK, Disk
    <2>2. ~Resumable'
      BY <2>1 DEF Resumable
    <2> QED
      BY <2>1, <2>2 DEF ExactInv, StoreInv, PositionInv, MemoryInv, WipeSteps, Processing
  <1>3. CASE LoseSequence
    <2>1. pc = "down" /\ pc' = "down" /\ damaged' /\ ram' = ram /\ disk'.hash = disk.hash
      BY <1>3 DEF LoseSequence, IInv, TypeOK, Disk
    <2>2. ~ram.init
      BY <2>1 DEF IInv, Core, StartInv, NewRam
    <2>3. disk.hash # "none"
      BY <1>3 DEF LoseSequence, IInv, Core, DiskInv, Fresh
    <2> QED
      BY <2>1, <2>2, <2>3 DEF ExactInv, StoreInv, PositionInv, MemoryInv, WipeSteps, Processing
  <1> QED
    BY <1>1, <1>2, <1>3

\* Exactness at the start.
LEMMA InitiallyExact ==
    ASSUME Init
    PROVE  ExactInv
  BY DEF Init, NewDisk, NewRam, ExactInv, StoreInv, PositionInv, MemoryInv, Resumable, Blank,
         WipeSteps, Processing

\* No step of the source, the query or its faults leaves it.
LEMMA ExactStep ==
    ASSUME IInv, ExactInv, [Next]_vars, ~SlowStop, ~ReadsFail
    PROVE  ExactInv'
  <1>1. CASE UNCHANGED vars
    <2>1. /\ Exact' <=> Exact
          /\ Blank' <=> Blank
          /\ Resumable' <=> Resumable
          /\ Latest(Len(emitted) - 1)' = Latest(Len(emitted) - 1)
          /\ (Indexed' = Indexed)
      BY <1>1, SameStore DEF vars
    <2> QED
      BY <1>1, <2>1 DEF vars, ExactInv, StoreInv, PositionInv, MemoryInv, RamExact, Booting,
                        EnableBootstrap, Wal
  <1>2. CASE \/ Prune \/ Start \/ HydrateSkipped \/ HydrateRefused \/ HydrateWipes
             \/ SubscribeRefused \/ SubscribeWipes \/ SubscribeReplay \/ SubscribeBootstrap
             \/ SubscribeLive \/ SkipDuplicate
             \/ Fails \/ HashUnreadable \/ CheckpointsUnreadable \/ Stop \/ StopAborts
    <2>1. UNCHANGED <<config, log, disk, base, emitted, ram, damaged>>
      BY <1>2 DEF Prune, Start, StartRefused, StartWipes, StartFirst, StartResumes, Refuse, BeginWipe,
                  HydrateSkipped, HydrateRefused, HydrateWipes, SubscribeRefused, SubscribeWipes,
                  SubscribeReplay, SubscribeBootstrap, SubscribeLive, SkipDuplicate, Fails,
                  HashUnreadable, CheckpointsUnreadable, Stop, StopAborts, given, history
    <2> QED
      BY <1>2, <2>1, IdleExact
  <1>3. CASE Publish
    BY <1>3, PublishExact
  <1>4. CASE FirstIndex \/ FirstHash
    BY <1>4, FirstExact
  <1>5. CASE Wipe
    BY <1>5, WipeExact
  <1>6. CASE Hydrate
    BY <1>6, HydrateExact
  <1>7. CASE EmptyBootstrap \/ BootstrapEvent \/ Handover \/ Complete
    BY <1>7, EmptyExact, BootstrapExact, HandoverExact, CompleteExact
  <1>8. CASE CommitQuietly \/ Commit \/ Apply
    BY <1>8, QuietExact, CommitExact, ApplyExact
  <1>9. CASE Crash \/ ConfigChange \/ LoseSequence
    BY <1>9, FaultExact
  <1> QED
    BY <1>1, <1>2, <1>3, <1>4, <1>5, <1>6, <1>7, <1>8, <1>9 DEF Next, Starting, Process, Trouble

\* Exactness holds in every reachable state, if stops let the processor finish
\* and starts can read their checkpoints.
LEMMA AlwaysExact ==
    ASSUME ~SlowStop, ~ReadsFail
    PROVE  Spec => [](IInv /\ ExactInv)
  <1>1. Init => ExactInv
    BY InitiallyExact
  <1>2. IInv /\ ExactInv /\ [Next]_vars => ExactInv'
    BY ExactStep
  <1>3. Spec => []IInv
    BY Invariant
  <1> QED
    BY <1>1, <1>2, <1>3, PTL DEF Spec

\* Crash consistency of the query, for every log, outbox capacity, set-up and
\* number of faults: whatever a restart would resume from is exactly what the
\* indexed changes produce.  Both conditions are needed: TLC finds a violation
\* when a processor may be aborted before it installs what it committed
\* (DurableQuery_slow_stop) and when a start may go on without its checkpoints
\* (DurableQuery_unread_checkpoint).
THEOREM ConsistentAfterCrash ==
    ASSUME ~SlowStop, ~ReadsFail
    PROVE  Spec => []CrashConsistent
  <1>1. IInv /\ ExactInv => CrashConsistent
    <2> SUFFICES ASSUME IInv, ExactInv PROVE CrashConsistent
      OBVIOUS
    <2>1. pc \in Processing => ~damaged
      BY DEF IInv, Core, StartInv
    <2>2. ASSUME Resumable, ~damaged PROVE Exact /\ Reconciles /\ Stored(disk.rseq) = Len(emitted)
      <3>1. Exact /\ Sound
        BY <2>2 DEF ExactInv, StoreInv, IInv, Core, DiskInv, Resumable
      <3> QED
        BY <2>2, <3>1, ExactReconciles DEF Sound
    <2> QED
      BY <2>1, <2>2 DEF CrashConsistent, Exact
  <1> QED
    BY <1>1, AlwaysExact, PTL

\* Between two events a running query serves from memory exactly what it has
\* stored: generation, sequence, rows and outbox.  That rows and outbox agree
\* rests on the store being exact, hence the same two conditions.
THEOREM MemoryServesDisk ==
    ASSUME ~SlowStop, ~ReadsFail
    PROVE  Spec => []RamServesDisk
  <1>1. IInv /\ ExactInv => RamServesDisk
    BY DEF IInv, Core, RamInv, RamCurrent, ExactInv, MemoryInv, RamExact, RamServesDisk
  <1> QED
    BY <1>1, AlwaysExact, PTL

=============================================================================
