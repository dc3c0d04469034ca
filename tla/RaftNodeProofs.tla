-------------------------- MODULE RaftNodeProofs --------------------------
(***************************************************************************)
(* Lemmas about one Raft node: what the updates of its file do to what     *)
(* restore() reads back, what erasing and appending do to a log without    *)
(* gaps, and that every handler of module RaftNode preserves NodeInv, the  *)
(* part of the inductive invariant that speaks of one node.                *)
(***************************************************************************)
EXTENDS Raft, SequenceTheorems, WellFoundedInduction, TLAPS

-----------------------------------------------------------------------------
\* Storage: each update keeps the type and changes what restore() reads in
\* exactly the fields it is meant to change.

\* saveMetadata makes the new term and vote what restore() reads, and leaves the
\* log and the snapshot of the file alone.
LEMMA UpdateMetaLemma ==
    ASSUME NEW d \in Storage, NEW t \in Nat, NEW v \in Node \union {None}
    PROVE  LET e == updateMeta(d, t, v)
           IN  /\ e \in Storage /\ e.hasLogPersisted
               /\ restore(e) = [current_term |-> t, votedFor |-> v,
                                log |-> RestoredLog(d), snapshot |-> d.snapshot]
  BY Zenon DEF updateMeta, Storage, restore, RestoredLog

\* saveSnapshot makes the new snapshot what restore() reads, and no more.
LEMMA UpdateSnapshotLemma ==
    ASSUME NEW d \in Storage, NEW ss \in Seq(Cmd)
    PROVE  LET e == updateSnapshot(d, ss)
           IN  /\ e \in Storage /\ e.hasLogPersisted
               /\ restore(e) = [current_term |-> d.current_term,
                                votedFor |-> d.votedFor,
                                log |-> RestoredLog(d), snapshot |-> ss]
  BY Zenon DEF updateSnapshot, Storage, restore, RestoredLog

\* The blocks before startIndex must already hold the log: then all of it is
\* on disk afterwards, whatever the other blocks hold.
LEMMA UpdateLogsLemma ==
    ASSUME NEW d \in Storage, NEW log \in Seq(Entry), Len(log) <= LogBlocks,
           NEW k \in Nat, k <= Len(log),
           \A i \in 1 .. k : d.log[i - 1] = log[i]
    PROVE  LET e == updateLogsWithRange(d, log, k, Len(log))
           IN  /\ e \in Storage /\ e.hasLogPersisted
               /\ restore(e) = [current_term |-> d.current_term,
                                votedFor |-> d.votedFor,
                                log |-> log, snapshot |-> d.snapshot]
  <1> DEFINE e == updateLogsWithRange(d, log, k, Len(log))
             blocks == [b \in Block |->
                          IF k <= b /\ b < Len(log) /\ b < Len(log)
                          THEN log[b + 1] ELSE d.log[b]]
  <1>1. Len(log) \in Nat /\ log \in [1 .. Len(log) -> Entry]
    BY LenProperties
  <1>2. blocks \in [Block -> Entry]
    BY <1>1, LogBlocksAssumption DEF Block, Storage
  <1>3. /\ e.log = blocks /\ e.LogCount = Len(log) /\ e.hasLogPersisted
        /\ e.current_term = d.current_term /\ e.votedFor = d.votedFor
        /\ e.snapshot = d.snapshot
    BY SMTT(30) DEF updateLogsWithRange, Storage
  <1>4. e \in Storage
    BY <1>1, <1>2, Zenon DEF updateLogsWithRange, Storage
  <1>5. \A i \in 1 .. Len(log) : blocks[i - 1] = log[i]
    BY <1>1, LogBlocksAssumption DEF Block
  <1>6. RestoredLog(e) = log
    BY <1>1, <1>3, <1>5, ZenonT(60) DEF RestoredLog
  <1> QED
    BY <1>3, <1>4, <1>6 DEF restore

-----------------------------------------------------------------------------
\* Nodes: each handler preserves the invariant of the node it runs on.

NodeInv(s) ==
    /\ s \in NodeState
    /\ LogOK(s)
    /\ RestoreOK(s)
    /\ s.lastApplied >= front(s.log)
    /\ back(s.log).index <= MaxIndex

CallInv(c) == c \in Call /\ CallOK(c) /\ CallFits(c)

\* What the invariant of a node says, field by field.
Facts(s) ==
    /\ s \in NodeState /\ s.log_storage \in Storage
    /\ s.log \in Seq(Entry) /\ Len(s.log) \in Nat \ {0}
    /\ \A i \in 1 .. Len(s.log) :
          /\ s.log[i] \in Entry
          /\ s.log[i].index = front(s.log) + i - 1
          /\ s.log_storage.log[i - 1] = s.log[i]
    /\ front(s.log) \in Nat
    /\ back(s.log).index = front(s.log) + Len(s.log) - 1
    /\ back(s.log).index <= MaxIndex
    /\ Len(s.log) <= LogBlocks
    /\ s.lastApplied >= front(s.log)
    /\ s.log_storage.hasLogPersisted
    /\ s.log_storage.current_term = s.current_term
    /\ s.log_storage.votedFor = s.votedFor
    /\ RestoredLog(s.log_storage) = s.log
    /\ s.log_storage.snapshot = s.snapshot

\* What the invariant of a node says member by member.
LEMMA NodeFacts ==
    ASSUME NEW s, NodeInv(s)
    PROVE  Facts(s)
  <1>1. s \in NodeState /\ s.log_storage \in Storage /\ s.log \in Seq(Entry)
    BY DEF NodeInv, NodeState
  <1>2. Len(s.log) \in Nat \ {0}
    BY <1>1, EmptySeq DEF NodeInv, LogOK
  <1>3. /\ s.log_storage.hasLogPersisted
        /\ s.log_storage.current_term = s.current_term
        /\ s.log_storage.votedFor = s.votedFor
        /\ RestoredLog(s.log_storage) = s.log
        /\ s.log_storage.snapshot = s.snapshot
    BY DEF NodeInv, RestoreOK, restore
  <1>4. \A i \in 1 .. Len(s.log) : s.log[i] \in Entry
    BY <1>1, ElementOfSeq
  <1>5. \A i \in 1 .. Len(s.log) : s.log[i].index = front(s.log) + i - 1
    BY DEF NodeInv, LogOK, Consecutive
  <1>6. front(s.log) \in Nat
    BY <1>2, <1>4 DEF front, Entry
  <1>7. back(s.log).index = front(s.log) + Len(s.log) - 1
    BY <1>2, <1>5 DEF back
  <1>8. Len(s.log) <= LogBlocks
    BY <1>2, <1>6, <1>7, LogBlocksAssumption, BoundsAssumption DEF NodeInv
  <1>9. \A i \in 1 .. Len(s.log) : s.log_storage.log[i - 1] = s.log[i]
    <2>1. Len(RestoredLog(s.log_storage)) = s.log_storage.LogCount
      BY <1>1 DEF RestoredLog, Storage
    <2> QED
      BY <2>1, <1>3, Zenon DEF RestoredLog
  <1> QED
    BY <1>1, <1>2, <1>3, <1>4, <1>5, <1>6, <1>7, <1>8, <1>9 DEF Facts, NodeInv

\* A step that leaves alone everything the file holds.
LEMMA FrameLemma ==
    ASSUME NEW s, NodeInv(s), NEW t \in NodeState,
           t.current_term = s.current_term, t.votedFor = s.votedFor,
           t.log = s.log, t.snapshot = s.snapshot,
           t.lastApplied = s.lastApplied, t.log_storage = s.log_storage
    PROVE  NodeInv(t)
  BY DEF NodeInv, LogOK, RestoreOK

\* A step that changes the term or the vote and persists them.
LEMMA MetaLemma ==
    ASSUME NEW s, NodeInv(s), NEW t \in NodeState,
           t.log = s.log, t.snapshot = s.snapshot,
           t.lastApplied = s.lastApplied,
           t.log_storage =
               updateMeta(s.log_storage, t.current_term, t.votedFor)
    PROVE  NodeInv(t)
  <1>1. Facts(s)
    BY NodeFacts
  <1>2. t.current_term \in Nat /\ t.votedFor \in Node \union {None}
    BY DEF NodeState
  <1>s. s.log_storage \in Storage
    BY <1>1 DEF Facts
  <1>3. /\ t.log_storage.hasLogPersisted
        /\ restore(t.log_storage) =
              [current_term |-> t.current_term, votedFor |-> t.votedFor,
               log |-> RestoredLog(s.log_storage),
               snapshot |-> s.log_storage.snapshot]
    BY <1>s, <1>2, UpdateMetaLemma
  <1>4. RestoreOK(t)
    BY <1>1, <1>3 DEF Facts, RestoreOK
  <1> QED
    BY <1>4 DEF NodeInv, LogOK

\* The file of a node stays a file when the term and the vote are saved.
LEMMA UpdateMetaType ==
    ASSUME NEW s, NodeInv(s), NEW t \in Nat, NEW v \in Node \union {None}
    PROVE  updateMeta(s.log_storage, t, v) \in Storage
  BY NodeFacts, UpdateMetaLemma DEF Facts

\* Stepping down to a newer term (node.h:523, 614, 660) keeps the invariant and
\* leaves the log alone.
LEMMA StepDownLemma ==
    ASSUME NEW s, NodeInv(s), NEW t \in Nat
    PROVE  /\ NodeInv(StepDown(s, t))
           /\ StepDown(s, t).log = s.log
           /\ StepDown(s, t).commitIndex = s.commitIndex
           /\ StepDown(s, t).current_term = t
  <1> DEFINE r == StepDown(s, t)
  <1>1. s \in NodeState
    BY DEF NodeInv
  <1>2. updateMeta(s.log_storage, t, None) \in Storage
    BY UpdateMetaType
  <1>3. r \in NodeState
    BY <1>1, <1>2, Zenon DEF StepDown, NodeState, Role
  <1>4. /\ r.log = s.log /\ r.snapshot = s.snapshot
        /\ r.lastApplied = s.lastApplied /\ r.commitIndex = s.commitIndex
        /\ r.current_term = t /\ r.votedFor = None
        /\ r.log_storage = updateMeta(s.log_storage, t, None)
    BY <1>1 DEF StepDown, NodeState
  <1>5. NodeInv(r)
    BY <1>3, <1>4, MetaLemma
  <1> QED
    BY <1>4, <1>5

-----------------------------------------------------------------------------
\* Logs: what erasing at either end and appending do to a log without gaps.

Log == {log \in Seq(Entry) : log # <<>> /\ Consecutive(log, front(log))}

\* A sequence with elements is not the empty one.
LEMMA NonEmpty ==
    ASSUME NEW q, Len(q) # 0
    PROVE  q # <<>>
  OBVIOUS

\* The first, the last and any other entry of a consecutive log.
LEMMA LogFacts ==
    ASSUME NEW log \in Log
    PROVE  /\ log \in Seq(Entry) /\ Len(log) \in Nat \ {0}
           /\ \A i \in 1 .. Len(log) : /\ log[i] \in Entry
                                       /\ log[i].index = front(log) + i - 1
           /\ front(log) \in Nat
           /\ back(log) \in Entry
           /\ back(log).index = front(log) + Len(log) - 1
  <1>1. log \in Seq(Entry) /\ Len(log) \in Nat \ {0}
    BY EmptySeq DEF Log
  <1>2. \A i \in 1 .. Len(log) : log[i] \in Entry
    BY <1>1, ElementOfSeq
  <1>3. \A i \in 1 .. Len(log) : log[i].index = front(log) + i - 1
    BY DEF Log, Consecutive
  <1>4. front(log) \in Nat
    BY <1>1, <1>2 DEF front, Entry
  <1>5. back(log) \in Entry /\ back(log).index = front(log) + Len(log) - 1
    BY <1>1, <1>2, <1>3 DEF back
  <1> QED
    BY <1>1, <1>2, <1>3, <1>4, <1>5

\* Erasing the front of a log, as snapshots do (node.h:391, 677), leaves a
\* consecutive log with the same last entry.
LEMMA SuffixLemma ==
    ASSUME NEW log \in Log, NEW k \in 1 .. Len(log)
    PROVE  LET rest == SubSeq(log, k, Len(log))
           IN  /\ rest \in Log
               /\ front(rest) = front(log) + k - 1
               /\ back(rest).index = back(log).index
  <1> DEFINE rest == SubSeq(log, k, Len(log))
  <1>1. /\ Len(log) \in Nat \ {0} /\ front(log) \in Nat
        /\ \A i \in 1 .. Len(log) : /\ log[i] \in Entry
                                    /\ log[i].index = front(log) + i - 1
        /\ back(log).index = front(log) + Len(log) - 1
    BY LogFacts
  <1>2. /\ rest \in Seq(Entry) /\ Len(rest) = Len(log) - k + 1
        /\ \A i \in 1 .. Len(log) - k + 1 : rest[i] = log[k + i - 1]
    BY <1>1, SubSeqProperties
  <1>3. front(rest) = front(log) + k - 1
    BY <1>1, <1>2 DEF front
  <1>4. \A i \in 1 .. Len(rest) : rest[i].index = front(rest) + i - 1
    <2> SUFFICES ASSUME NEW i \in 1 .. Len(rest)
                 PROVE  rest[i].index = front(rest) + i - 1
      OBVIOUS
    <2>1. k + i - 1 \in 1 .. Len(log) /\ rest[i] = log[k + i - 1]
      BY <1>1, <1>2, SMTT(30)
    <2>2. log[k + i - 1].index = front(log) + (k + i - 1) - 1
      BY <2>1, <1>1, Zenon
    <2> QED
      BY <2>1, <2>2, <1>1, <1>3
  <1>5. rest # <<>>
    <2>1. Len(rest) # 0
      BY <1>1, <1>2
    <2> QED
      BY <2>1, NonEmpty, Zenon
  <1>6. back(rest).index = back(log).index
    BY <1>1, <1>2, <1>3, <1>4 DEF back
  <1> QED
    BY <1>2, <1>3, <1>4, <1>5, <1>6, Zenon DEF Log, Consecutive

\* Cutting a log off and inserting the entries that follow, as append_entries
\* does (node.h:540-547), leaves a consecutive log with the same front.
LEMMA PrefixLemma ==
    ASSUME NEW log \in Log, NEW k \in 1 .. Len(log),
           NEW entries \in Seq(Entry),
           Consecutive(entries, front(log) + k)
    PROVE  LET new == SubSeq(log, 1, k) \o entries
           IN  /\ new \in Log
               /\ front(new) = front(log)
               /\ Len(new) = k + Len(entries)
               /\ Len(SubSeq(log, 1, k)) = k
               /\ \A i \in 1 .. k : new[i] = log[i]
               /\ back(new).index = front(log) + k + Len(entries) - 1
  <1> DEFINE kept == SubSeq(log, 1, k)
             new == kept \o entries
  <1>1. /\ Len(log) \in Nat \ {0} /\ front(log) \in Nat
        /\ \A i \in 1 .. Len(log) : /\ log[i] \in Entry
                                    /\ log[i].index = front(log) + i - 1
    BY LogFacts, SMTT(30)
  <1>2. /\ kept \in Seq(Entry) /\ Len(kept) = k
        /\ \A i \in 1 .. k : kept[i] = log[i]
    BY <1>1, SubSeqProperties
  <1>3. Len(entries) \in Nat
    BY LenProperties
  <1>4. /\ new \in Seq(Entry) /\ Len(new) = k + Len(entries)
        /\ \A i \in 1 .. k + Len(entries) :
              new[i] = IF i <= k THEN kept[i] ELSE entries[i - k]
    BY <1>2, ConcatProperties
  <1>5. \A i \in 1 .. k : new[i] = log[i]
    BY <1>1, <1>2, <1>3, <1>4
  <1>6. front(new) = front(log)
    BY <1>1, <1>5 DEF front
  <1>7. \A i \in 1 .. Len(entries) : entries[i].index = front(log) + k + i - 1
    BY DEF Consecutive
  <1>8. \A i \in 1 .. Len(new) : new[i].index = front(log) + i - 1
    <2> SUFFICES ASSUME NEW i \in 1 .. Len(new)
                 PROVE  new[i].index = front(log) + i - 1
      OBVIOUS
    <2>1. CASE i <= k
      BY <2>1, <1>1, <1>5
    <2>2. CASE i > k
      <3>1. i - k \in 1 .. Len(entries)
        BY <2>2, <1>1, <1>3, <1>4
      <3>2. new[i] = entries[i - k]
        BY <2>2, <1>1, <1>3, <1>4
      <3>3. entries[i - k].index = front(log) + k + (i - k) - 1
        BY <3>1, <1>7
      <3> QED
        BY <3>1, <3>2, <3>3, <1>1
    <2> QED
      BY <2>1, <2>2, <1>1, <1>3, <1>4
  <1>9. new # <<>> /\ Len(new) \in 1 .. Len(new)
    <2>1. Len(new) # 0 /\ Len(new) \in 1 .. Len(new)
      BY <1>1, <1>3, <1>4
    <2> QED
      BY <2>1, NonEmpty
  <1>10. back(new).index = front(log) + k + Len(entries) - 1
    <2>1. back(new).index = front(log) + Len(new) - 1
      BY <1>8, <1>9 DEF back
    <2> QED
      BY <2>1, <1>1, <1>3, <1>4
  <1> QED
    BY <1>2, <1>4, <1>5, <1>6, <1>8, <1>9, <1>10, Zenon DEF Log, Consecutive

\* A log of one entry.
LEMMA SingletonLemma ==
    ASSUME NEW e \in Entry
    PROVE  /\ <<e>> \in Log /\ front(<<e>>) = e.index
           /\ back(<<e>>).index = e.index
  BY DEF Log, front, back, Consecutive, Entry

\* The log of a node is consecutive and not empty.
LEMMA NodeLog ==
    ASSUME NEW s, NodeInv(s)
    PROVE  s.log \in Log
  BY DEF NodeInv, NodeState, LogOK, Log

\* A log whose last index is within the bound fits on the device.
LEMMA LogLength ==
    ASSUME NEW log \in Log, back(log).index <= MaxIndex
    PROVE  Len(log) <= LogBlocks
  <1>1. /\ Len(log) \in Nat \ {0} /\ front(log) \in Nat
        /\ back(log).index = front(log) + Len(log) - 1
    BY LogFacts
  <1> QED
    BY <1>1, LogBlocksAssumption, BoundsAssumption

\* A step that changes the log and leaves the file in agreement with it.
LEMMA LogStepLemma ==
    ASSUME NEW t \in NodeState, t.log \in Log, back(t.log).index <= MaxIndex,
           t.lastApplied >= front(t.log), t.log_storage.hasLogPersisted,
           restore(t.log_storage) =
              [current_term |-> t.current_term, votedFor |-> t.votedFor,
               log |-> t.log, snapshot |-> t.snapshot]
    PROVE  NodeInv(t)
  BY DEF NodeInv, LogOK, Log, RestoreOK

-----------------------------------------------------------------------------
\* Construction, on the first start and after a crash

\* A node constructed from a file with a good log satisfies the invariant.
LEMMA ConstructLemma ==
    ASSUME NEW d \in Storage, d.hasLogPersisted, RestoredLog(d) \in Log,
           back(RestoredLog(d)).index <= MaxIndex
    PROVE  NodeInv(Construct(d))
  <1> DEFINE log == RestoredLog(d)
             state == IF d.snapshot # <<>> THEN d.snapshot ELSE <<NoCmd>>
             c == Construct(d)
  <1>1. c = [current_term |-> d.current_term, votedFor |-> d.votedFor,
             role |-> "Follower", votesFrom |-> {}, log |-> log,
             snapshot |-> d.snapshot, state |-> state,
             commitIndex |-> front(log), lastApplied |-> front(log),
             nextIndex |-> [m \in Node |-> 1],
             matchIndex |-> [m \in Node |-> 0],
             matchCount |-> <<>>, log_storage |-> d]
    BY DEF Construct, restore
  <1>2. log \in Seq(Entry) /\ front(log) \in Nat
    BY LogFacts
  <1>3. /\ d.current_term \in Nat /\ d.votedFor \in Node \union {None}
        /\ d.snapshot \in Seq(Cmd)
    BY DEF Storage
  <1>4. state \in Seq(Cmd)
    <2>1. NoCmd \in Cmd
      BY DEF Cmd
    <2>2. <<NoCmd>> \in Seq(Cmd)
      BY <2>1
    <2> QED
      BY <1>3, <2>2
  <1>5. /\ <<>> \in Seq(Nat) /\ "Follower" \in Role /\ {} \in SUBSET Node
        /\ [m \in Node |-> 1] \in [Node -> Nat]
        /\ [m \in Node |-> 0] \in [Node -> Nat]
    BY EmptySeq DEF Role
  <1> HIDE DEF log, state
  <1>6. c \in NodeState
    BY <1>1, <1>2, <1>3, <1>4, <1>5, SMTT(30) DEF NodeState
  <1>7. /\ c.log = log /\ c.lastApplied = front(log) /\ c.log_storage = d
        /\ c.current_term = d.current_term /\ c.votedFor = d.votedFor
        /\ c.snapshot = d.snapshot
    BY <1>1
  <1>8. restore(d) = [current_term |-> c.current_term, votedFor |-> c.votedFor,
                      log |-> c.log, snapshot |-> c.snapshot]
    BY <1>7 DEF restore, log
  <1>9. c.log \in Log /\ back(c.log).index <= MaxIndex
    BY <1>7 DEF log
  <1>10. c.lastApplied >= front(c.log)
    BY <1>2, <1>7
  <1> HIDE DEF c
  <1>11. NodeInv(c)
    BY <1>6, <1>7, <1>8, <1>9, <1>10, LogStepLemma
  <1> QED
    BY <1>11, SMTT(30) DEF c

\* So does a node that crashed between two handlers and starts again.
LEMMA RestartLemma ==
    ASSUME NEW s, NodeInv(s)
    PROVE  NodeInv(Construct(s.log_storage))
  <1>1. /\ s.log_storage \in Storage /\ s.log_storage.hasLogPersisted
        /\ RestoredLog(s.log_storage) = s.log
        /\ back(s.log).index <= MaxIndex
    BY NodeFacts DEF Facts
  <1> QED
    BY <1>1, NodeLog, ConstructLemma

\* So does a node on its first start, when the file is new (node.h:220-226).
LEMMA InitLemma == NodeInv(Construct(BlankStorage))
  <1> DEFINE d0 == BlankStorage
             d1 == updateSnapshot(d0, <<>>)
             log == <<DummyEntry>>
             d2 == updateLogs(d1, log)
             d3 == updateMeta(d2, 0, None)
  <1>1. DummyEntry \in Entry /\ DummyEntry.index = 0
    BY DEF DummyEntry, Entry, Cmd
  <1>2. <<>> \in Seq(Cmd)
    BY EmptySeq
  <1>3. d0 \in Storage /\ ~d0.hasLogPersisted
    BY <1>1, <1>2 DEF BlankStorage, Storage
  <1>4. d1 \in Storage
    BY <1>2, <1>3, UpdateSnapshotLemma, Zenon
  <1>5. log \in Log /\ log \in Seq(Entry) /\ back(log).index = 0 /\ Len(log) = 1
    BY <1>1, SingletonLemma
  <1> HIDE DEF d0, d1, log
  <1>6. d2 \in Storage /\ restore(d2).log = log
    <2>1. Len(log) <= LogBlocks /\ 0 <= Len(log) /\ 0 \in Nat
      BY <1>5, LogBlocksAssumption
    <2>2. \A i \in 1 .. 0 : d1.log[i - 1] = log[i]
      OBVIOUS
    <2>3. /\ d2 \in Storage
          /\ restore(d2) = [current_term |-> d1.current_term,
                            votedFor |-> d1.votedFor,
                            log |-> log, snapshot |-> d1.snapshot]
      BY <1>4, <1>5, <2>1, <2>2, UpdateLogsLemma, ZenonT(60) DEF updateLogs
    <2> QED
      BY <2>3
  <1> HIDE DEF d2
  <1>7. d3 \in Storage /\ d3.hasLogPersisted /\ restore(d3).log = log
    <2>1. RestoredLog(d2) = log
      BY <1>6 DEF restore
    <2> QED
      BY <1>6, <2>1, UpdateMetaLemma
  <1> HIDE DEF d3
  <1>8. NodeInv(Construct(d3))
    <2>1. RestoredLog(d3) = log
      BY <1>7 DEF restore
    <2>2. back(log).index <= MaxIndex
      BY <1>5, BoundsAssumption, SMTT(30)
    <2> QED
      BY <1>5, <1>7, <2>1, <2>2, ConstructLemma
  <1>9. Construct(d0) = Construct(d3)
    BY <1>3, <1>7, Zenon DEF Construct, saveAll, d1, d2, d3, log
  <1> QED
    BY <1>8, <1>9 DEF d0

-----------------------------------------------------------------------------
\* Elections

\* The arguments of each of the three calls have their types.
LEMMA CallFacts ==
    ASSUME NEW c \in Call
    PROVE  /\ c.from \in Node /\ c.to \in Node /\ c.term \in Nat
           /\ c.type \in {"request_vote", "append_entries", "install_snapshot"}
           /\ c.type = "append_entries" =>
                /\ c.prevLogIndex \in Nat /\ c.prevLogTerm \in Nat
                /\ c.entries \in Seq(Entry) /\ c.leaderCommit \in Nat
           /\ c.type = "install_snapshot" =>
                /\ c.lastIncludedIndex \in Nat /\ c.lastIncludedTerm \in Nat
                /\ c.snapshot \in Seq(Cmd)
  BY DEF Call

\* Starting an election (run_background_election) keeps the invariant.
LEMMA StartElectionLemma ==
    ASSUME NEW s, NodeInv(s), NEW n \in Node
    PROVE  NodeInv(StartElection(s, n))
  <1> DEFINE r == StartElection(s, n)
  <1>1. s \in NodeState /\ s.current_term \in Nat
    BY DEF NodeInv, NodeState
  <1>2. s.current_term + 1 \in Nat
    BY <1>1
  <1>3. updateMeta(s.log_storage, s.current_term + 1, n) \in Storage
    BY <1>2, UpdateMetaType
  <1>4. r \in NodeState
    BY <1>1, <1>2, <1>3, Zenon DEF StartElection, NodeState, Role
  <1>5. /\ r.log = s.log /\ r.snapshot = s.snapshot
        /\ r.lastApplied = s.lastApplied
        /\ r.current_term = s.current_term + 1 /\ r.votedFor = n
        /\ r.log_storage = updateMeta(s.log_storage, s.current_term + 1, n)
    BY <1>1 DEF StartElection, NodeState
  <1> QED
    BY <1>4, <1>5, MetaLemma, SMTT(30)

\* request_vote keeps the invariant, granted or refused.
LEMMA RequestVoteLemma ==
    ASSUME NEW s, NodeInv(s), NEW a \in Call
    PROVE  NodeInv(request_vote(s, a))
  <1> DEFINE r == request_vote(s, a)
             newer == a.term > s.current_term
             vote == IF VoteGranted(s, a) THEN a.from
                     ELSE IF newer THEN None ELSE s.votedFor
             term == max(a.term, s.current_term)
             role == IF newer THEN "Follower" ELSE s.role
  <1>1. /\ s \in NodeState /\ s.current_term \in Nat
        /\ s.votedFor \in Node \union {None} /\ s.role \in Role
    BY SMTT(30) DEF NodeInv, NodeState
  <1>2. term \in Nat /\ vote \in Node \union {None} /\ role \in Role
    BY <1>1, CallFacts DEF max, Role
  <1>3. updateMeta(s.log_storage, term, vote) \in Storage
    BY <1>2, UpdateMetaType
  <1>4. r = [s EXCEPT !.current_term = term, !.votedFor = vote, !.role = role,
                      !.log_storage = updateMeta(@, term, vote)]
    BY DEF request_vote
  <1> HIDE DEF newer, vote, term, role, r
  <1>5. r \in NodeState
    BY <1>1, <1>2, <1>3, <1>4, Zenon DEF NodeState
  <1>6. /\ r.log = s.log /\ r.snapshot = s.snapshot
        /\ r.lastApplied = s.lastApplied
        /\ r.current_term = term /\ r.votedFor = vote
        /\ r.log_storage = updateMeta(s.log_storage, term, vote)
    BY <1>1, <1>4 DEF NodeState
  <1>7. NodeInv(r)
    BY <1>5, <1>6, MetaLemma
  <1> QED
    BY <1>7 DEF r

\* Winning an election (node.h:484-493) keeps the invariant.
LEMMA BecomeLeaderLemma ==
    ASSUME NEW s, NodeInv(s), NEW n \in Node
    PROVE  NodeInv(BecomeLeader(s, n))
  <1> DEFINE r == BecomeLeader(s, n)
             last == back(s.log).index
             next == [m \in Node |-> last + 1]
             match == [m \in Node |-> IF m = n THEN last ELSE 0]
             count == IF s.commitIndex <= last
                      THEN [i \in 1 .. last - s.commitIndex |-> 0]
                      ELSE s.matchCount
  <1>1. /\ s \in NodeState /\ s.commitIndex \in Nat /\ s.matchCount \in Seq(Nat)
    BY DEF NodeInv, NodeState
  <1>2. last \in Nat
    <2>1. back(s.log) \in Entry
      BY NodeLog, LogFacts
    <2> QED
      BY <2>1 DEF Entry
  <1>3. r = [s EXCEPT !.role = "Leader", !.nextIndex = next,
                      !.matchIndex = match, !.matchCount = count]
    BY DEF BecomeLeader
  <1> HIDE DEF r, last
  <1>4. next \in [Node -> Nat] /\ match \in [Node -> Nat]
    BY <1>2
  <1>5. count \in Seq(Nat)
    BY <1>1, <1>2
  <1> HIDE DEF next, match, count
  <1>6. r \in NodeState
    BY <1>1, <1>3, <1>4, <1>5, Zenon DEF NodeState, Role
  <1>7. /\ r.current_term = s.current_term /\ r.votedFor = s.votedFor
        /\ r.log = s.log /\ r.snapshot = s.snapshot
        /\ r.lastApplied = s.lastApplied /\ r.log_storage = s.log_storage
    BY <1>1, <1>3 DEF NodeState
  <1>8. NodeInv(r)
    BY <1>6, <1>7, FrameLemma
  <1> QED
    BY <1>8 DEF r

\* handle_request_vote_reply keeps the invariant.
LEMMA RequestVoteReplyLemma ==
    ASSUME NEW s, NodeInv(s), NEW n \in Node, NEW m \in Node,
           NEW reply, reply.term \in Nat
    PROVE  NodeInv(handle_request_vote_reply(s, n, m, reply))
  <1> DEFINE s1 == IF reply.term > s.current_term
                   THEN StepDown(s, reply.term) ELSE s
             s2 == [s1 EXCEPT !.votesFrom = @ \union {m}]
  <1>1. NodeInv(s1)
    BY StepDownLemma
  <1> HIDE DEF s1
  <1>2. s1 \in NodeState /\ s1.votesFrom \in SUBSET Node
    BY <1>1, Zenon DEF NodeInv, NodeState
  <1>3. s1.votesFrom \union {m} \in SUBSET Node
    BY <1>2
  <1>4. s2 \in NodeState
    BY <1>2, <1>3, Zenon DEF NodeState
  <1>5. /\ s2.current_term = s1.current_term /\ s2.votedFor = s1.votedFor
        /\ s2.log = s1.log /\ s2.snapshot = s1.snapshot
        /\ s2.lastApplied = s1.lastApplied /\ s2.log_storage = s1.log_storage
    BY <1>2 DEF NodeState
  <1>6. NodeInv(s2)
    BY <1>1, <1>4, <1>5, FrameLemma, Zenon
  <1> HIDE DEF s2
  <1>7. NodeInv(BecomeLeader(s2, n))
    BY <1>6, BecomeLeaderLemma
  <1> QED
    BY <1>1, <1>6, <1>7 DEF handle_request_vote_reply, s1, s2

-----------------------------------------------------------------------------
\* Log replication

\* new_command keeps the invariant: the range it writes is the new entry, and
\* the blocks before it hold the rest of the log already.
LEMMA NewCommandLemma ==
    ASSUME NEW s, NodeInv(s), NEW n \in Node, NEW v \in Value,
           back(s.log).index < MaxIndex
    PROVE  NodeInv(new_command(s, n, v))
  <1> DEFINE r == new_command(s, n, v)
             last == back(s.log).index
             e == [index |-> last + 1, term |-> s.current_term, cmd |-> v]
             log == Append(s.log, e)
             next == [s.nextIndex EXCEPT ![n] = last + 1 + 1]
             match == [s.matchIndex EXCEPT ![n] = last + 1]
             count == Append(s.matchCount, 1)
             disk == updateLogsWithRange(s.log_storage, log,
                                         Len(log) - 1, Len(log))
  <1>1. /\ s \in NodeState /\ s.current_term \in Nat
        /\ s.matchCount \in Seq(Nat)
        /\ s.nextIndex \in [Node -> Nat] /\ s.matchIndex \in [Node -> Nat]
        /\ s.lastApplied \in Nat
    BY SMTT(30) DEF NodeInv, NodeState
  <1>2. /\ s.log \in Seq(Entry) /\ Len(s.log) \in Nat \ {0}
        /\ \A i \in 1 .. Len(s.log) :
              s.log[i] \in Entry /\ s.log[i].index = front(s.log) + i - 1
        /\ front(s.log) \in Nat /\ back(s.log) \in Entry
        /\ last = front(s.log) + Len(s.log) - 1
    BY NodeLog, LogFacts
  <1>3. last \in Nat /\ e \in Entry /\ e.index = last + 1
    BY <1>1, <1>2, SMTT(30) DEF Entry, Cmd
  <1>4. /\ s.log_storage \in Storage
        /\ \A i \in 1 .. Len(s.log) : s.log_storage.log[i - 1] = s.log[i]
        /\ s.log_storage.current_term = s.current_term
        /\ s.log_storage.votedFor = s.votedFor
        /\ s.log_storage.snapshot = s.snapshot
        /\ s.lastApplied >= front(s.log)
    BY NodeFacts DEF Facts
  <1> HIDE DEF e, last
  <1>5. /\ log \in Seq(Entry) /\ Len(log) = Len(s.log) + 1
        /\ \A i \in 1 .. Len(s.log) : log[i] = s.log[i]
        /\ log[Len(s.log) + 1] = e
    BY <1>2, <1>3, AppendProperties
  <1> HIDE DEF log
  <1>6. front(log) = front(s.log)
    BY <1>2, <1>5, SMTT(30) DEF front
  <1>7. log \in Log
    <2>1. \A i \in 1 .. Len(s.log) : log[i].index = front(log) + i - 1
      BY <1>2, <1>5, <1>6, Zenon
    <2>2. log[Len(s.log) + 1].index = front(log) + (Len(s.log) + 1) - 1
      BY <1>2, <1>3, <1>5, <1>6
    <2>3. \A i \in 1 .. Len(log) : i \in 1 .. Len(s.log) \/ i = Len(s.log) + 1
      BY <1>2, <1>5
    <2>4. \A i \in 1 .. Len(log) : log[i].index = front(log) + i - 1
      BY <2>1, <2>2, <2>3
    <2>5. Len(log) # 0
      BY <1>2, <1>5
    <2> QED
      BY <2>4, <2>5, <1>5, NonEmpty DEF Log, Consecutive
  <1>8. back(log).index = last + 1
    BY <1>2, <1>3, <1>5 DEF back
  <1>9. back(log).index <= MaxIndex
    BY <1>3, <1>8, BoundsAssumption, SMTT(30) DEF last
  <1>10. /\ disk \in Storage /\ disk.hasLogPersisted
         /\ restore(disk) = [current_term |-> s.current_term,
                             votedFor |-> s.votedFor,
                             log |-> log, snapshot |-> s.snapshot]
    <2>1. Len(log) <= LogBlocks
      BY <1>7, <1>9, LogLength
    <2>2. Len(log) - 1 \in Nat /\ Len(log) - 1 <= Len(log)
      BY <1>2, <1>5
    <2>3. \A i \in 1 .. Len(log) - 1 : s.log_storage.log[i - 1] = log[i]
      BY <1>2, <1>4, <1>5
    <2> QED
      BY <1>4, <1>5, <2>1, <2>2, <2>3, UpdateLogsLemma, ZenonT(60)
  <1>11. next \in [Node -> Nat] /\ match \in [Node -> Nat]
    BY <1>1, <1>3
  <1>12. count \in Seq(Nat)
    BY <1>1, AppendProperties
  <1>13. r = [s EXCEPT !.log = log, !.nextIndex = next, !.matchIndex = match,
                       !.matchCount = count, !.log_storage = disk]
    BY DEF new_command, log, e, last
  <1> HIDE DEF r, next, match, count, disk
  <1>14. r \in NodeState
    BY <1>1, <1>5, <1>10, <1>11, <1>12, <1>13, ZenonT(60) DEF NodeState
  <1>15. /\ r.current_term = s.current_term /\ r.votedFor = s.votedFor
         /\ r.log = log /\ r.snapshot = s.snapshot
         /\ r.lastApplied = s.lastApplied /\ r.log_storage = disk
    BY <1>1, <1>13 DEF NodeState
  <1>16. NodeInv(r)
    BY <1>4, <1>6, <1>7, <1>9, <1>10, <1>14, <1>15, LogStepLemma, SMTT(30)
  <1> QED
    BY <1>16 DEF r

\* The step-down at the head of append_entries and install_snapshot.
LEMMA AcknowledgeLemma ==
    ASSUME NEW s, NodeInv(s), NEW t \in Nat
    PROVE  /\ NodeInv(Acknowledge(s, t))
           /\ Acknowledge(s, t).log = s.log
           /\ Acknowledge(s, t).commitIndex = s.commitIndex
  BY StepDownLemma DEF Acknowledge

\* The whole of an append that matches, after the step-down.
LEMMA AppendLemma ==
    ASSUME NEW s, NodeInv(s), NEW entries \in Seq(Entry), entries # <<>>,
           NEW k \in 1 .. Len(s.log), Consecutive(entries, front(s.log) + k),
           front(s.log) + k - 1 + Len(entries) <= MaxIndex,
           NEW c \in Nat
    PROVE  LET kept == SubSeq(s.log, 1, k)
               log  == kept \o entries
           IN  NodeInv([s EXCEPT
                  !.log = log,
                  !.log_storage =
                     updateLogsWithRange(@, log, Len(kept), Len(log)),
                  !.commitIndex = c])
  <1> DEFINE kept == SubSeq(s.log, 1, k)
             log == kept \o entries
             disk == updateLogsWithRange(s.log_storage, log, Len(kept), Len(log))
             r == [s EXCEPT !.log = log, !.log_storage = disk,
                            !.commitIndex = c]
  <1>1. s \in NodeState /\ s.log \in Log
    BY NodeLog DEF NodeInv
  <1>2. /\ log \in Log /\ front(log) = front(s.log)
        /\ Len(log) = k + Len(entries) /\ Len(kept) = k
        /\ \A i \in 1 .. k : log[i] = s.log[i]
        /\ back(log).index = front(s.log) + k + Len(entries) - 1
    BY <1>1, PrefixLemma, SMTT(30)
  <1>3. /\ s.log_storage \in Storage
        /\ Len(s.log) \in Nat /\ front(s.log) \in Nat
        /\ \A i \in 1 .. Len(s.log) : s.log_storage.log[i - 1] = s.log[i]
        /\ s.log_storage.current_term = s.current_term
        /\ s.log_storage.votedFor = s.votedFor
        /\ s.log_storage.snapshot = s.snapshot
        /\ s.lastApplied >= front(s.log)
    BY NodeFacts, ZenonT(60) DEF Facts
  <1>4. Len(entries) \in Nat
    BY LenProperties, SMTT(30)
  <1>5. back(log).index <= MaxIndex
    BY <1>2, <1>3, <1>4, BoundsAssumption
  <1> HIDE DEF kept, log
  <1>6. log \in Seq(Entry)
    BY <1>2 DEF Log
  <1>7. /\ disk \in Storage /\ disk.hasLogPersisted
        /\ restore(disk) = [current_term |-> s.current_term,
                            votedFor |-> s.votedFor,
                            log |-> log, snapshot |-> s.snapshot]
    <2>1. Len(log) <= LogBlocks
      BY <1>2, <1>5, LogLength, ZenonT(60)
    <2>2. Len(kept) \in Nat /\ Len(kept) <= Len(log)
      BY <1>2, <1>3, <1>4, SMTT(30)
    <2>3. \A i \in 1 .. Len(kept) : s.log_storage.log[i - 1] = log[i]
      BY <1>2, <1>3, SMTT(30)
    <2>4. /\ disk \in Storage /\ disk.hasLogPersisted
          /\ restore(disk) = [current_term |-> s.log_storage.current_term,
                              votedFor |-> s.log_storage.votedFor, log |-> log,
                              snapshot |-> s.log_storage.snapshot]
      BY <1>3, <1>6, <2>1, <2>2, <2>3, UpdateLogsLemma, Zenon
    <2> QED
      BY <1>3, <2>4
  <1> HIDE DEF disk
  <1>8. r \in NodeState
    BY <1>1, <1>6, <1>7, Zenon DEF NodeState
  <1>9. /\ r.current_term = s.current_term /\ r.votedFor = s.votedFor
        /\ r.log = log /\ r.snapshot = s.snapshot
        /\ r.lastApplied = s.lastApplied /\ r.log_storage = disk
    BY <1>1, SMTT(30) DEF NodeState
  <1> HIDE DEF r
  <1>10. NodeInv(r)
    BY <1>2, <1>3, <1>5, <1>7, <1>8, <1>9, LogStepLemma, ZenonT(60)
  <1> QED
    BY <1>10 DEF r, disk, log, kept

\* append_entries keeps the invariant, whatever it is sent.
LEMMA AppendEntriesLemma ==
    ASSUME NEW s, NodeInv(s), NEW a, CallInv(a), a.type = "append_entries"
    PROVE  NodeInv(append_entries(s, a))
  <1> DEFINE s1 == Acknowledge(s, a.term)
             k == a.prevLogIndex - front(s.log) + 1
             kept == SubSeq(s.log, 1, k)
             log == IF a.entries = <<>> THEN s.log ELSE kept \o a.entries
             c == IF a.leaderCommit > s1.commitIndex
                  THEN min(a.leaderCommit, back(log).index)
                  ELSE s1.commitIndex
  <1>0. s.current_term \in Nat
    BY DEF NodeInv, NodeState
  <1>1. /\ a.term \in Nat /\ a.prevLogIndex \in Nat /\ a.leaderCommit \in Nat
        /\ a.entries \in Seq(Entry)
    BY CallFacts DEF CallInv
  <1>2. Consecutive(a.entries, a.prevLogIndex + 1)
    BY DEF CallInv, CallOK
  <1>3. a.entries # <<>> => a.prevLogIndex + Len(a.entries) <= MaxIndex
    BY DEF CallInv, CallFits
  <1>4. /\ NodeInv(s1) /\ s1.log = s.log /\ s1.commitIndex = s.commitIndex
    BY <1>1, AcknowledgeLemma, ZenonT(60)
  <1>5. /\ s1 \in NodeState /\ s1.commitIndex \in Nat /\ s.log \in Log
    BY <1>4, NodeLog, ZenonT(60) DEF NodeInv, NodeState
  <1>6. front(s.log) \in Nat /\ back(s.log) \in Entry
    BY <1>5, LogFacts
  <1>7. CASE AppendMatches(s, a) /\ a.term >= s.current_term
    <2>1. k \in 1 .. Len(s.log)
      BY <1>7 DEF AppendMatches, HasEntry, InLog
    <2>2. a.prevLogIndex + 1 = front(s.log) + k
      BY <1>1, <1>6, SMTT(30)
    <2>3. log \in Log
      BY <1>1, <1>2, <1>5, <2>1, <2>2, PrefixLemma, SMTT(30)
    <2>4. c \in Nat
      <3>1. back(log).index \in Nat
        BY <2>3, LogFacts DEF Entry
      <3> QED
        BY <3>1, <1>1, <1>5 DEF min
    <2>n. ~(a.term < s.current_term)
      BY <1>0, <1>1, <1>7
    <2>5. CASE a.entries = <<>>
      <3> DEFINE r == [s1 EXCEPT !.log = s.log, !.log_storage = @,
                                 !.commitIndex = c]
      <3>1. append_entries(s, a) = r
        BY <1>7, <2>n, <2>5 DEF append_entries
      <3> HIDE DEF s1, c
      <3>2. s.log \in Seq(Entry) /\ s1.log_storage \in Storage
        BY <1>5 DEF Log, NodeState
      <3>3. r \in NodeState
        BY <1>5, <2>4, <3>2, Zenon DEF NodeState
      <3>4. /\ r.current_term = s1.current_term /\ r.votedFor = s1.votedFor
            /\ r.log = s1.log /\ r.snapshot = s1.snapshot
            /\ r.lastApplied = s1.lastApplied
            /\ r.log_storage = s1.log_storage
        BY <1>4, <1>5 DEF NodeState
      <3> HIDE DEF r
      <3> QED
        BY <1>4, <3>1, <3>3, <3>4, FrameLemma
    <2>6. CASE a.entries # <<>>
      <3> DEFINE r == [s1 EXCEPT !.log = kept \o a.entries,
                         !.log_storage =
                            updateLogsWithRange(@, kept \o a.entries, Len(kept),
                                                Len(kept \o a.entries)),
                         !.commitIndex = c]
      <3>1. append_entries(s, a) = r
        BY <1>7, <2>n, <2>6, Zenon DEF append_entries
      <3>2. front(s.log) + k - 1 + Len(a.entries) <= MaxIndex
        BY <1>1, <1>3, <1>6, <2>2, <2>6
      <3> HIDE DEF s1, c, k
      <3>3. NodeInv(r)
        BY <1>1, <1>2, <1>4, <2>1, <2>2, <2>4, <2>6, <3>2, AppendLemma, ZenonT(60)
      <3> QED
        BY <3>1, <3>3, Zenon
    <2> QED
      BY <2>5, <2>6
  <1>8. CASE ~(AppendMatches(s, a) /\ a.term >= s.current_term)
    <2>1. a.term < s.current_term \/ ~AppendMatches(s, a)
      BY <1>0, <1>1, <1>8
    <2> QED
      BY <1>4, <2>1, Zenon DEF append_entries
  <1> QED
    BY <1>7, <1>8

\* A nonempty set of integers that a natural number bounds has a largest one.
LEMMA MaxExists ==
    ASSUME NEW b \in Int, NEW S, S \subseteq Int, S # {}, \A i \in S : i <= b
    PROVE  \E i \in S : \A j \in S : j <= i
  <1> DEFINE T == {b - i : i \in S}
             R == OpToRel(<, Nat)
  <1>1. T \subseteq Nat /\ T # {}
    <2>1. \A i \in S : i \in Int /\ i <= b
      OBVIOUS
    <2>2. \A i \in S : b - i \in Nat
      BY <2>1
    <2> QED
      BY <2>2, Zenon
  <1>2. PICK x \in T : \A y \in T : ~(<<y, x>> \in R)
    BY <1>1, NatLessThanWellFounded, WFMin, Zenon
  <1>3. \A y \in T : ~(y < x)
    BY <1>1, <1>2, Zenon DEF OpToRel
  <1>4. PICK i \in S : x = b - i
    OBVIOUS
  <1>5. \A j \in S : ~(b - j < b - i)
    BY <1>3, <1>4, SMTT(30)
  <1> QED
    BY <1>5

\* The counting loop of handle_append_entries_reply (node.h:630-638) keeps the
\* invariant, wherever it stops.
LEMMA CountMatchesLemma ==
    ASSUME NEW s, NodeInv(s), NEW m \in Node, NEW match \in Nat
    PROVE  NodeInv(CountMatches(s, m, match))
  <1> DEFINE from == CountFrom(s, m)
             to == CountTo(s, match)
             hits == {i \in from .. to : Commits(s, i)}
             last == CHOOSE i \in hits : \A j \in hits : j <= i
             stop == IF hits = {} THEN from ELSE last
             count == [k \in 1 .. Len(s.matchCount) |->
                          IF k - 1 \in stop .. to
                          THEN s.matchCount[k] + 1 ELSE s.matchCount[k]]
             r == CountMatches(s, m, match)
  <1>1. /\ s \in NodeState /\ s.commitIndex \in Nat /\ s.matchCount \in Seq(Nat)
        /\ s.matchIndex \in [Node -> Nat]
    BY DEF NodeInv, NodeState
  <1>2. from \in Nat /\ to \in Int
    BY <1>1 DEF CountFrom, CountTo, max
  <1> HIDE DEF from, to
  <1>3. /\ Len(s.matchCount) \in Nat
        /\ \A k \in 1 .. Len(s.matchCount) : s.matchCount[k] \in Nat
    BY <1>1, LenProperties, ElementOfSeq
  <1>4. count \in Seq(Nat)
    <2>1. count \in [1 .. Len(s.matchCount) -> Nat]
      BY <1>3
    <2> QED
      BY <2>1, <1>3, SeqDef
  <1>5. hits # {} => last \in Nat
    <2>1. hits \subseteq Int /\ hits \subseteq Nat /\ \A i \in hits : i <= to
      BY <1>2
    <2> HIDE DEF hits
    <2>2. hits # {} => \E i \in hits : \A j \in hits : j <= i
      BY <1>2, <2>1, MaxExists, Zenon
    <2>3. hits # {} => last \in hits
      BY <2>2
    <2> QED
      BY <2>1, <2>3, Zenon
  <1>6. r = IF hits = {} THEN [s EXCEPT !.matchCount = count]
            ELSE [s EXCEPT !.commitIndex = @ + last + 1,
                           !.matchCount = SubSeq(count, last + 2, Len(count))]
    BY DEF CountMatches, from, to
  <1> HIDE DEF hits, last, stop, count, r
  <1>7. /\ r \in NodeState
        /\ r.current_term = s.current_term /\ r.votedFor = s.votedFor
        /\ r.log = s.log /\ r.snapshot = s.snapshot
        /\ r.lastApplied = s.lastApplied /\ r.log_storage = s.log_storage
    <2>1. CASE hits = {}
      <3>1. r = [s EXCEPT !.matchCount = count]
        BY <1>6, <2>1
      <3>2. r \in NodeState
        BY <1>1, <1>4, <3>1, Zenon DEF NodeState
      <3> QED
        BY <1>1, <3>1, <3>2, Zenon DEF NodeState
    <2>2. CASE hits # {}
      <3> DEFINE ci == s.commitIndex + last + 1
                 mc == SubSeq(count, last + 2, Len(count))
      <3>1. r = [s EXCEPT !.commitIndex = ci, !.matchCount = mc]
        BY <1>6, <2>2
      <3>2. ci \in Nat
        BY <1>1, <1>5, <2>2
      <3>3. mc \in Seq(Nat)
        <4>1. Len(count) \in Nat /\ last + 2 \in Nat \ {0}
          BY <1>4, <1>5, <2>2, LenProperties
        <4>2. \A i \in last + 2 .. Len(count) : i \in 1 .. Len(count)
          BY <4>1, <1>5, <2>2
        <4>3. \A i \in 1 .. Len(count) : count[i] \in Nat
          BY <1>4, ElementOfSeq
        <4> QED
          BY <1>4, <4>1, <4>2, <4>3, SubSeqProperties
      <3> HIDE DEF ci, mc
      <3>4. r \in NodeState
        BY <1>1, <3>1, <3>2, <3>3, Zenon DEF NodeState
      <3> QED
        BY <1>1, <3>1, <3>4, Zenon DEF NodeState
    <2> QED
      BY <2>1, <2>2
  <1>8. NodeInv(r)
    BY <1>7, FrameLemma
  <1> QED
    BY <1>8 DEF r

\* A step that only moves nextIndex and matchIndex.
LEMMA IndexLemma ==
    ASSUME NEW s, NodeInv(s), NEW next \in [Node -> Nat],
           NEW match \in [Node -> Nat]
    PROVE  NodeInv([s EXCEPT !.matchIndex = match, !.nextIndex = next])
  <1> DEFINE r == [s EXCEPT !.matchIndex = match, !.nextIndex = next]
  <1>1. s \in NodeState
    BY DEF NodeInv
  <1>2. r \in NodeState
    BY <1>1, Zenon DEF NodeState
  <1>3. /\ r.current_term = s.current_term /\ r.votedFor = s.votedFor
        /\ r.log = s.log /\ r.snapshot = s.snapshot
        /\ r.lastApplied = s.lastApplied /\ r.log_storage = s.log_storage
    BY <1>1 DEF NodeState
  <1> HIDE DEF r
  <1>4. NodeInv(r)
    BY <1>2, <1>3, FrameLemma
  <1> QED
    BY <1>4 DEF r

\* handle_append_entries_reply keeps the invariant.
LEMMA AppendEntriesReplyLemma ==
    ASSUME NEW s, NodeInv(s), NEW m \in Node, NEW a \in Call,
           a.type = "append_entries", NEW reply
    PROVE  NodeInv(handle_append_entries_reply(s, m, a, reply))
  <1> DEFINE match == max(s.matchIndex[m], a.prevLogIndex + Len(a.entries))
             s1 == CountMatches(s, m, match)
             acked == [s1 EXCEPT !.matchIndex[m] = match,
                                 !.nextIndex[m] = match + 1]
             refused == [s EXCEPT !.nextIndex[m] = min(@, a.prevLogIndex)]
  <1>1. a.term \in Nat /\ a.prevLogIndex \in Nat /\ a.entries \in Seq(Entry)
    BY CallFacts
  <1>2. Len(a.entries) \in Nat
    BY <1>1, LenProperties, SMTT(30)
  <1>3. /\ s \in NodeState /\ s.matchIndex \in [Node -> Nat]
        /\ s.nextIndex \in [Node -> Nat]
    BY SMTT(30) DEF NodeInv, NodeState
  <1>4. match \in Nat
    BY <1>1, <1>2, <1>3 DEF max
  <1> HIDE DEF match
  <1>5. NodeInv(s1)
    BY <1>4, CountMatchesLemma, SMTT(30)
  <1> HIDE DEF s1
  <1>6. NodeInv(acked)
    <2> DEFINE mi == [s1.matchIndex EXCEPT ![m] = match]
               ni == [s1.nextIndex EXCEPT ![m] = match + 1]
    <2>1. /\ s1 \in NodeState /\ s1.matchIndex \in [Node -> Nat]
          /\ s1.nextIndex \in [Node -> Nat]
      BY <1>5, Zenon DEF NodeInv, NodeState
    <2>2. mi \in [Node -> Nat] /\ ni \in [Node -> Nat]
      BY <1>4, <2>1
    <2>3. acked = [s1 EXCEPT !.matchIndex = mi, !.nextIndex = ni]
      OBVIOUS
    <2> HIDE DEF mi, ni
    <2> QED
      BY <1>5, <2>2, <2>3, IndexLemma, ZenonT(60)
  <1>7. NodeInv(refused)
    <2> DEFINE ni == [s.nextIndex EXCEPT ![m] = min(@, a.prevLogIndex)]
    <2>1. ni \in [Node -> Nat]
      BY <1>1, <1>3 DEF min
    <2>2. refused = [s EXCEPT !.matchIndex = s.matchIndex, !.nextIndex = ni]
      BY <1>3, Zenon DEF NodeState
    <2> HIDE DEF ni
    <2> QED
      BY <1>3, <2>1, <2>2, IndexLemma, Zenon
  <1>8. NodeInv(StepDown(s, a.term))
    BY <1>1, StepDownLemma, ZenonT(60)
  <1> QED
    BY <1>6, <1>7, <1>8, Zenon DEF handle_append_entries_reply, s1, match

-----------------------------------------------------------------------------
\* Snapshots and the state machine

\* A step that replaces the log, writes all of it and the snapshot.
LEMMA SnapshotStepLemma ==
    ASSUME NEW s, NodeInv(s), NEW t \in NodeState, t.log \in Log,
           back(t.log).index <= MaxIndex, t.lastApplied >= front(t.log),
           t.current_term = s.current_term, t.votedFor = s.votedFor,
           \/ t.log_storage =
                 updateLogs(updateSnapshot(s.log_storage, t.snapshot), t.log)
           \/ t.log_storage =
                 updateSnapshot(updateLogs(s.log_storage, t.log), t.snapshot)
    PROVE  NodeInv(t)
  <1>1. /\ s.log_storage \in Storage
        /\ s.log_storage.current_term = s.current_term
        /\ s.log_storage.votedFor = s.votedFor
    BY NodeFacts DEF Facts
  <1>2. t.log \in Seq(Entry) /\ t.snapshot \in Seq(Cmd)
    BY DEF NodeState
  <1>3. Len(t.log) <= LogBlocks /\ Len(t.log) \in Nat /\ 0 \in Nat /\ 0 <= Len(t.log)
    BY <1>2, LogLength, LenProperties
  <1>4. ASSUME NEW d \in Storage
        PROVE  /\ updateLogs(d, t.log) \in Storage
               /\ updateLogs(d, t.log).hasLogPersisted
               /\ restore(updateLogs(d, t.log)) =
                     [current_term |-> d.current_term, votedFor |-> d.votedFor,
                      log |-> t.log, snapshot |-> d.snapshot]
    <2>1. \A i \in 1 .. 0 : d.log[i - 1] = t.log[i]
      BY SMTT(30)
    <2> QED
      BY <1>2, <1>3, <2>1, UpdateLogsLemma, Zenon DEF updateLogs
  <1>5. ASSUME NEW d \in Storage
        PROVE  /\ updateSnapshot(d, t.snapshot) \in Storage
               /\ updateSnapshot(d, t.snapshot).hasLogPersisted
               /\ restore(updateSnapshot(d, t.snapshot)) =
                     [current_term |-> d.current_term, votedFor |-> d.votedFor,
                      log |-> RestoredLog(d), snapshot |-> t.snapshot]
    BY <1>2, UpdateSnapshotLemma, SMTT(30)
  <1>6. CASE t.log_storage =
                updateLogs(updateSnapshot(s.log_storage, t.snapshot), t.log)
    <2> DEFINE d == updateSnapshot(s.log_storage, t.snapshot)
    <2>1. d \in Storage /\ d.current_term = s.current_term
          /\ d.votedFor = s.votedFor /\ d.snapshot = t.snapshot
      BY <1>1, <1>5, ZenonT(60) DEF restore
    <2> HIDE DEF d
    <2>2. /\ t.log_storage.hasLogPersisted
          /\ restore(t.log_storage) =
               [current_term |-> d.current_term, votedFor |-> d.votedFor,
                log |-> t.log, snapshot |-> d.snapshot]
      BY <1>4, <1>6, <2>1, SMTT(30) DEF d
    <2> QED
      BY <2>1, <2>2, LogStepLemma, SMTT(30)
  <1>7. CASE t.log_storage =
                updateSnapshot(updateLogs(s.log_storage, t.log), t.snapshot)
    <2> DEFINE d == updateLogs(s.log_storage, t.log)
    <2>1. d \in Storage /\ d.current_term = s.current_term
          /\ d.votedFor = s.votedFor /\ RestoredLog(d) = t.log
      BY <1>1, <1>4, ZenonT(60) DEF restore
    <2> HIDE DEF d
    <2>2. /\ t.log_storage.hasLogPersisted
          /\ restore(t.log_storage) =
               [current_term |-> d.current_term, votedFor |-> d.votedFor,
                log |-> RestoredLog(d), snapshot |-> t.snapshot]
      BY <1>5, <1>7, <2>1 DEF d
    <2> QED
      BY <2>1, <2>2, LogStepLemma
  <1> QED
    BY <1>6, <1>7

\* Saving the log and the snapshot, in either order, leaves a file.
LEMMA SnapshotTypes ==
    ASSUME NEW d \in Storage, NEW log \in Log, back(log).index <= MaxIndex,
           NEW ss \in Seq(Cmd)
    PROVE  /\ updateLogs(updateSnapshot(d, ss), log) \in Storage
           /\ updateSnapshot(updateLogs(d, log), ss) \in Storage
  <1>1. log \in Seq(Entry) /\ Len(log) \in Nat /\ 0 <= Len(log) /\ 0 \in Nat
    BY LogFacts
  <1>2. Len(log) <= LogBlocks
    BY LogLength
  <1>3. ASSUME NEW e \in Storage
        PROVE  updateLogs(e, log) \in Storage
    <2>1. \A i \in 1 .. 0 : e.log[i - 1] = log[i]
      OBVIOUS
    <2> QED
      BY <1>1, <1>2, <2>1, UpdateLogsLemma, Zenon DEF updateLogs
  <1>4. ASSUME NEW e \in Storage
        PROVE  updateSnapshot(e, ss) \in Storage
    BY UpdateSnapshotLemma
  <1> QED
    BY <1>3, <1>4

\* save_snapshot keeps the invariant, also when lastApplied is beyond the log.
LEMMA SaveSnapshotLemma ==
    ASSUME NEW s, NodeInv(s)
    PROVE  NodeInv(save_snapshot(s))
  <1> DEFINE k == s.lastApplied - front(s.log) + 1
             log == IF s.lastApplied <= back(s.log).index
                    THEN SubSeq(s.log, k, Len(s.log)) ELSE <<back(s.log)>>
             disk == updateLogs(updateSnapshot(s.log_storage, s.state), log)
             r == [s EXCEPT !.snapshot = s.state, !.log = log,
                            !.log_storage = disk]
  <1>1. /\ s \in NodeState /\ s.lastApplied \in Nat /\ s.state \in Seq(Cmd)
        /\ s.log_storage \in Storage /\ s.log \in Log
        /\ s.lastApplied >= front(s.log) /\ back(s.log).index <= MaxIndex
    BY NodeLog, Zenon DEF NodeInv, NodeState
  <1>2. /\ Len(s.log) \in Nat \ {0} /\ front(s.log) \in Nat
        /\ back(s.log) \in Entry
        /\ back(s.log).index = front(s.log) + Len(s.log) - 1
    BY <1>1, LogFacts, SMTT(30)
  <1>3. /\ log \in Log /\ back(log).index <= MaxIndex
        /\ s.lastApplied >= front(log)
    <2>1. CASE s.lastApplied <= back(s.log).index
      <3>1. k \in 1 .. Len(s.log)
        BY <1>1, <1>2, <2>1
      <3>2. log = SubSeq(s.log, k, Len(s.log))
        BY <2>1, Zenon
      <3> HIDE DEF log
      <3>3. /\ log \in Log /\ front(log) = front(s.log) + k - 1
            /\ back(log).index = back(s.log).index
        BY <1>1, <3>1, <3>2, SuffixLemma
      <3> QED
        BY <1>1, <1>2, <3>3, SMTT(30)
    <2>2. CASE ~(s.lastApplied <= back(s.log).index)
      <3>1. log = <<back(s.log)>>
        BY <2>2
      <3> HIDE DEF log
      <3>2. /\ log \in Log /\ front(log) = back(s.log).index
            /\ back(log).index = back(s.log).index
        BY <1>2, <3>1, SingletonLemma
      <3>3. back(s.log).index \in Nat
        BY <1>2 DEF Entry
      <3> QED
        BY <1>1, <2>2, <3>2, <3>3
    <2> QED
      BY <2>1, <2>2
  <1> HIDE DEF log
  <1>4. disk \in Storage /\ log \in Seq(Entry)
    BY <1>1, <1>3, SnapshotTypes DEF Log
  <1> HIDE DEF disk
  <1>5. r \in NodeState
    BY <1>1, <1>4, Zenon DEF NodeState
  <1>6. /\ r.current_term = s.current_term /\ r.votedFor = s.votedFor
        /\ r.log = log /\ r.snapshot = s.state
        /\ r.lastApplied = s.lastApplied /\ r.log_storage = disk
    BY <1>1 DEF NodeState
  <1>7. r = save_snapshot(s)
    BY DEF save_snapshot, disk, log
  <1> HIDE DEF r
  <1>8. r.log_storage = updateLogs(updateSnapshot(s.log_storage, r.snapshot), r.log)
    BY <1>6 DEF disk
  <1>9. NodeInv(r)
    BY <1>3, <1>5, <1>6, <1>8, SnapshotStepLemma
  <1> QED
    BY <1>7, <1>9, SMTT(30)

\* install_snapshot keeps the invariant.
LEMMA InstallSnapshotLemma ==
    ASSUME NEW s, NodeInv(s), NEW a, CallInv(a), a.type = "install_snapshot"
    PROVE  NodeInv(install_snapshot(s, a))
  <1> DEFINE s1 == Acknowledge(s, a.term)
             k == a.lastIncludedIndex - front(s.log) + 1
             e == [index |-> a.lastIncludedIndex, term |-> a.lastIncludedTerm,
                   cmd |-> NoCmd]
             log == IF HasEntry(s.log, a.lastIncludedIndex, a.lastIncludedTerm)
                    THEN SubSeq(s.log, k, Len(s.log)) ELSE <<e>>
             c == max(s1.commitIndex, a.lastIncludedIndex)
             disk == updateSnapshot(updateLogs(s1.log_storage, log), a.snapshot)
             r == [s1 EXCEPT !.log = log, !.snapshot = a.snapshot,
                             !.state = a.snapshot,
                             !.lastApplied = a.lastIncludedIndex,
                             !.commitIndex = c, !.log_storage = disk]
  <1>1. /\ a.term \in Nat /\ a.lastIncludedIndex \in Nat
        /\ a.lastIncludedTerm \in Nat /\ a.snapshot \in Seq(Cmd)
        /\ a.lastIncludedIndex <= MaxIndex
    BY CallFacts DEF CallInv, CallFits
  <1>2. NodeInv(s1) /\ s1.log = s.log
    BY <1>1, AcknowledgeLemma, ZenonT(60)
  <1>3. /\ s1 \in NodeState /\ s1.commitIndex \in Nat
        /\ s1.log_storage \in Storage /\ s.log \in Log
        /\ back(s.log).index <= MaxIndex
    BY <1>2, NodeLog, Zenon DEF NodeInv, NodeState
  <1>4. front(s.log) \in Nat
    BY <1>3, LogFacts, SMTT(30)
  <1>5. /\ log \in Log /\ back(log).index <= MaxIndex
        /\ a.lastIncludedIndex >= front(log)
    <2>1. CASE HasEntry(s.log, a.lastIncludedIndex, a.lastIncludedTerm)
      <3>1. k \in 1 .. Len(s.log)
        BY <2>1 DEF HasEntry, InLog
      <3>2. log = SubSeq(s.log, k, Len(s.log))
        BY <2>1, Zenon
      <3> HIDE DEF log
      <3>3. /\ log \in Log /\ front(log) = front(s.log) + k - 1
            /\ back(log).index = back(s.log).index
        BY <1>3, <3>1, <3>2, SuffixLemma
      <3> QED
        BY <1>1, <1>3, <1>4, <3>3
    <2>2. CASE ~HasEntry(s.log, a.lastIncludedIndex, a.lastIncludedTerm)
      <3>1. log = <<e>>
        BY <2>2
      <3>2. e \in Entry /\ e.index = a.lastIncludedIndex
        BY <1>1 DEF Entry, Cmd
      <3> HIDE DEF log, e
      <3>3. /\ log \in Log /\ front(log) = e.index /\ back(log).index = e.index
        BY <3>1, <3>2, SingletonLemma, SMTT(30)
      <3> QED
        BY <1>1, <3>2, <3>3
    <2> QED
      BY <2>1, <2>2
  <1> HIDE DEF log, s1
  <1>6. disk \in Storage /\ log \in Seq(Entry)
    BY <1>1, <1>3, <1>5, SnapshotTypes DEF Log
  <1>7. c \in Nat
    BY <1>1, <1>3 DEF max
  <1> HIDE DEF disk, c
  <1>8. r \in NodeState
    BY <1>1, <1>3, <1>6, <1>7, Zenon DEF NodeState
  <1>9. /\ r.current_term = s1.current_term /\ r.votedFor = s1.votedFor
        /\ r.log = log /\ r.snapshot = a.snapshot
        /\ r.lastApplied = a.lastIncludedIndex /\ r.log_storage = disk
    BY <1>3 DEF NodeState
  <1>10. install_snapshot(s, a) = IF a.term < s.current_term THEN s ELSE r
    BY Zenon DEF install_snapshot, SnapshotLog, disk, log, c, s1
  <1> HIDE DEF r
  <1>11. r.log_storage =
            updateSnapshot(updateLogs(s1.log_storage, r.log), r.snapshot)
    BY <1>9, SMTT(30) DEF disk
  <1>12. NodeInv(r)
    BY <1>2, <1>5, <1>8, <1>9, <1>11, SnapshotStepLemma
  <1> QED
    BY <1>10, <1>12

\* handle_install_snapshot_reply keeps the invariant.
LEMMA InstallSnapshotReplyLemma ==
    ASSUME NEW s, NodeInv(s), NEW m \in Node, NEW a \in Call,
           a.type = "install_snapshot", NEW reply, reply.term \in Nat
    PROVE  NodeInv(handle_install_snapshot_reply(s, m, a, reply))
  <1> DEFINE match == max(s.matchIndex[m], a.lastIncludedIndex)
             mi == [s.matchIndex EXCEPT ![m] = match]
             ni == [s.nextIndex EXCEPT ![m] = match + 1]
             acked == [s EXCEPT !.matchIndex = mi, !.nextIndex = ni]
  <1>1. /\ s.matchIndex \in [Node -> Nat] /\ s.nextIndex \in [Node -> Nat]
    BY SMTT(30) DEF NodeInv, NodeState
  <1>2. match \in Nat
    BY <1>1, CallFacts DEF max
  <1> HIDE DEF match
  <1>3. mi \in [Node -> Nat] /\ ni \in [Node -> Nat]
    BY <1>1, <1>2, SMTT(30)
  <1>4. NodeInv(acked)
    BY <1>3, IndexLemma, Zenon
  <1>5. NodeInv(StepDown(s, reply.term))
    BY StepDownLemma
  <1> QED
    BY <1>4, <1>5, Zenon DEF handle_install_snapshot_reply, match

\* run_background_apply keeps the invariant, whatever it reads behind the log.
LEMMA ApplyLemma ==
    ASSUME NEW s, NodeInv(s), NEW junk \in Cmd, s.commitIndex > s.lastApplied
    PROVE  NodeInv(apply_logs(s, junk))
  <1> DEFINE cmd(k) == IF InLog(s.log, s.lastApplied + k)
                       THEN at(s.log, s.lastApplied + k).cmd ELSE junk
             cmds == [k \in 1 .. s.commitIndex - s.lastApplied |-> cmd(k)]
             state == s.state \o cmds
             r == [s EXCEPT !.state = state, !.lastApplied = s.commitIndex]
  <1>1. /\ s \in NodeState /\ s.commitIndex \in Nat /\ s.lastApplied \in Nat
        /\ s.state \in Seq(Cmd) /\ s.lastApplied >= front(s.log)
        /\ s.log \in Log
    BY NodeLog, Zenon DEF NodeInv, NodeState
  <1>2. front(s.log) \in Nat /\ \A i \in 1 .. Len(s.log) : s.log[i] \in Entry
    BY <1>1, LogFacts
  <1>3. \A k \in 1 .. s.commitIndex - s.lastApplied : cmd(k) \in Cmd
    BY <1>2 DEF InLog, at, Entry
  <1>4. s.commitIndex - s.lastApplied \in Nat
    BY <1>1
  <1> HIDE DEF cmd
  <1>5. cmds \in Seq(Cmd)
    BY <1>3, <1>4
  <1> HIDE DEF cmds
  <1>6. state \in Seq(Cmd)
    BY <1>1, <1>5, ConcatProperties
  <1> HIDE DEF state
  <1>7. r \in NodeState
    BY <1>1, <1>6, Zenon DEF NodeState
  <1>8. /\ r.current_term = s.current_term /\ r.votedFor = s.votedFor
        /\ r.log = s.log /\ r.snapshot = s.snapshot
        /\ r.lastApplied = s.commitIndex /\ r.log_storage = s.log_storage
    BY <1>1 DEF NodeState
  <1>9. apply_logs(s, junk) = r
    BY DEF apply_logs, state, cmds, cmd
  <1> HIDE DEF r
  <1>10. r.lastApplied >= front(r.log)
    BY <1>1, <1>2, <1>8, SMTT(30)
  <1>11. NodeInv(r)
    BY <1>7, <1>8, <1>10, SMTT(30) DEF NodeInv, LogOK, RestoreOK
  <1> QED
    BY <1>9, <1>11, SMTT(30)

-----------------------------------------------------------------------------
\* The messages a node sends

\* The calls for votes a candidate makes are good calls.
LEMMA RequestVoteArgsLemma ==
    ASSUME NEW s, NodeInv(s), NEW n \in Node, NEW m \in Node
    PROVE  CallInv(RequestVoteArgs(s, n, m))
  <1>1. s.current_term \in Nat
    BY DEF NodeInv, NodeState
  <1>2. back(s.log).index \in Nat /\ back(s.log).term \in Nat
    BY NodeLog, LogFacts DEF Entry
  <1> QED
    BY <1>1, <1>2 DEF RequestVoteArgs, CallInv, Call, CallOK, CallFits

\* So is an append_entries whose entries follow prevLogIndex.
LEMMA AppendEntriesArgsLemma ==
    ASSUME NEW s, NodeInv(s), NEW n \in Node, NEW m \in Node,
           NEW prev \in Nat, NEW t \in Nat, NEW entries \in Seq(Entry),
           Consecutive(entries, prev + 1),
           entries # <<>> => prev + Len(entries) <= MaxIndex
    PROVE  CallInv(AppendEntriesArgs(s, n, m, prev, t, entries))
  <1> DEFINE c == AppendEntriesArgs(s, n, m, prev, t, entries)
  <1>1. s.current_term \in Nat /\ s.commitIndex \in Nat
    BY SMTT(30) DEF NodeInv, NodeState
  <1>2. c \in Call
    BY <1>1 DEF AppendEntriesArgs, Call
  <1>3. c.entries = entries /\ c.prevLogIndex = prev /\ c.type = "append_entries"
    BY DEF AppendEntriesArgs
  <1> HIDE DEF c
  <1>4. CallInv(c)
    BY <1>2, <1>3 DEF CallInv, CallOK, CallFits
  <1> QED
    BY <1>4 DEF c

\* So is an install_snapshot of the node's own snapshot.
LEMMA InstallSnapshotArgsLemma ==
    ASSUME NEW s, NodeInv(s), NEW n \in Node, NEW m \in Node
    PROVE  CallInv(InstallSnapshotArgs(s, n, m))
  <1> DEFINE c == InstallSnapshotArgs(s, n, m)
  <1>1. /\ s.current_term \in Nat /\ s.snapshot \in Seq(Cmd)
        /\ back(s.log).index <= MaxIndex
    BY DEF NodeInv, NodeState
  <1>2. /\ Len(s.log) \in Nat \ {0} /\ front(s.log) \in Nat
        /\ s.log[1] \in Entry
        /\ back(s.log).index = front(s.log) + Len(s.log) - 1
    BY NodeLog, LogFacts
  <1>3. s.log[1].term \in Nat /\ front(s.log) <= MaxIndex
    BY <1>1, <1>2, BoundsAssumption, SMTT(30) DEF Entry
  <1>4. c \in Call
    BY <1>1, <1>2, <1>3, SMTT(30) DEF InstallSnapshotArgs, Call
  <1>5. c.lastIncludedIndex = front(s.log) /\ c.type = "install_snapshot"
    BY SMTT(30) DEF InstallSnapshotArgs
  <1> HIDE DEF c
  <1>6. CallInv(c)
    BY <1>3, <1>4, <1>5 DEF CallInv, CallOK, CallFits
  <1> QED
    BY <1>6 DEF c

\* So is every call run_background_commit makes: it cuts the entries out of the
\* log right after prevLogIndex (node.h:957-962).
LEMMA CommitMessagesLemma ==
    ASSUME NEW s, NodeInv(s), NEW n \in Node, NEW c \in CommitMessages(s, n)
    PROVE  CallInv(c)
  <1>1. PICK m \in Node : s.nextIndex[m] <= back(s.log).index
                          /\ c = CommitMessage(s, n, m)
    BY SMTT(30) DEF CommitMessages
  <1> DEFINE next == s.nextIndex[m]
             k == next - 1 - front(s.log) + 2
             rest == SubSeq(s.log, k, Len(s.log))
  <1>2. next \in Nat /\ s.log \in Log /\ back(s.log).index <= MaxIndex
    BY NodeLog, ZenonT(60) DEF NodeInv, NodeState
  <1>3. /\ Len(s.log) \in Nat \ {0} /\ front(s.log) \in Nat
        /\ \A i \in 1 .. Len(s.log) : s.log[i] \in Entry
        /\ back(s.log).index = front(s.log) + Len(s.log) - 1
        /\ next <= back(s.log).index
    BY <1>1, <1>2, LogFacts
  <1> HIDE DEF next
  <1>4. CASE next > front(s.log)
    <2>1. k \in 1 .. Len(s.log) /\ k - 1 \in 1 .. Len(s.log)
      BY <1>2, <1>3, <1>4, SMTT(30)
    <2>2. /\ rest \in Log /\ front(rest) = front(s.log) + k - 1
          /\ back(rest).index = back(s.log).index
      BY <1>2, <2>1, SuffixLemma
    <2> HIDE DEF rest
    <2>3. front(rest) = next /\ next - 1 \in Nat
      BY <1>2, <1>3, <1>4, <2>2, SMTT(30)
    <2>4. /\ rest \in Seq(Entry) /\ Consecutive(rest, (next - 1) + 1)
      <3>1. (next - 1) + 1 = front(rest)
        BY <1>2, <2>3
      <3> QED
        BY <2>2, <3>1 DEF Log
    <2>5. (next - 1) + Len(rest) <= MaxIndex
      <3>1. back(rest).index = front(rest) + Len(rest) - 1 /\ Len(rest) \in Nat
        BY <2>2, LogFacts, SMTT(30)
      <3> QED
        BY <1>2, <2>2, <2>3, <3>1, BoundsAssumption, SMTT(30)
    <2>6. at(s.log, next - 1).term \in Nat
      <3>1. (next - 1) - front(s.log) + 1 = k - 1
        BY <1>2, <1>3, SMTT(30)
      <3>2. s.log[k - 1].term \in Nat
        BY <1>3, <2>1, SMTT(30) DEF Entry
      <3> QED
        BY <3>1, <3>2, SMTT(30) DEF at
    <2>7. c = AppendEntriesArgs(s, n, m, next - 1, at(s.log, next - 1).term, rest)
      BY <1>1, <1>4, SMTT(30) DEF CommitMessage, rest, next
    <2> QED
      BY <2>3, <2>4, <2>5, <2>6, <2>7, AppendEntriesArgsLemma, SMTT(30)
  <1>5. CASE ~(next > front(s.log))
    BY <1>1, <1>5, InstallSnapshotArgsLemma DEF CommitMessage, next
  <1> QED
    BY <1>4, <1>5

\* So is every call run_background_ping makes.
LEMMA PingMessagesLemma ==
    ASSUME NEW s, NodeInv(s), NEW n \in Node, NEW junk \in Nat,
           NEW c \in PingMessages(s, n, junk)
    PROVE  CallInv(c)
  <1> DEFINE prev(m) == PingPrev(s, m)
             term(m) == IF InLog(s.log, prev(m)) THEN at(s.log, prev(m)).term
                        ELSE junk
  <1>1. PICK m \in Node :
            c = AppendEntriesArgs(s, n, m, prev(m), term(m), <<>>)
    BY DEF PingMessages
  <1>2. s.nextIndex[m] \in Nat /\ s.log \in Log
    BY NodeLog, Zenon DEF NodeInv, NodeState
  <1>3. front(s.log) \in Nat /\ \A i \in 1 .. Len(s.log) : s.log[i] \in Entry
    BY <1>2, LogFacts
  <1>4. prev(m) \in Nat
    BY <1>2, <1>3 DEF PingPrev, max
  <1>5. term(m) \in Nat
    BY <1>3 DEF InLog, at, Entry
  <1> HIDE DEF prev, term
  <1>6. <<>> \in Seq(Entry) /\ Consecutive(<<>>, prev(m) + 1)
    BY DEF Consecutive
  <1> QED
    BY <1>1, <1>4, <1>5, <1>6, AppendEntriesArgsLemma, ZenonT(60)
===========================================================================
