-------------------------- MODULE MapReduceProofs --------------------------
(***************************************************************************)
(* Theorems about module MapReduce, for any number of workers, input files *)
(* and crashes and whatever tasks may be late: the stages of the           *)
(* coordinator follow its tasks, and a task that counts as finished has    *)
(* left a complete output.                                                 *)
(***************************************************************************)
EXTENDS MapReduce, FiniteSetTheorems, SequenceTheorems, TLAPS

-----------------------------------------------------------------------------
\* The inductive invariant

\* The tasks of the stages before the stage of t.
Before(t) ==
    IF t \in MapTasks THEN {}
    ELSE IF t \in ReduceTasks THEN MapTasks ELSE MapTasks \union ReduceTasks

\* A task is handed out only when the earlier stages are done.
HandedOutInOrder ==
    \A t \in Task : status[t] # "idle" => \A u \in Before(t) : status[u] = "finished"

Working == {"read", "alloc", "write", "submit"}

\* Some block of s covers what t has to cover.
Full(s, t) == \E k \in 1 .. Len(s) : \A i \in Covers(t) : s[k][i] > 0

\* A worker at a task: what it has read and what it still has to read cover the
\* task, the block it writes is there, and it submits a complete output.
AtWork(w) ==
    LET t == worker[w].task
    IN  /\ status[t] # "idle"
        /\ worker[w].toRead \subseteq files(t)
        /\ \A i \in Covers(t) :
              \/ worker[w].kvs[i] > 0
              \/ worker[w].pc = "read" /\ \E f \in worker[w].toRead : i \in Covers(f)
        /\ worker[w].pc = "write" => worker[w].block \in 1 .. Len(file[t])
        /\ worker[w].pc = "submit" => Full(file[t], t)

WorkersInv == \A w \in Worker : worker[w].pc \in Working => AtWork(w)

IInv ==
    /\ TypeOK
    /\ StagesFollowTasks
    /\ FinishedMeansWritten
    /\ HandedOutInOrder
    /\ WorkersInv

-----------------------------------------------------------------------------
\* The tasks

\* The number of reduce tasks is positive, and every map output goes to one.
LEMMA ReduceTasksCover ==
    /\ reduceFileCnt \in Nat \ {0}
    /\ \A i \in Maps : \E k \in Reduces : i \in ReduceFiles(k)
  <1>1. reduceFileCnt \in Nat \ {0}
    BY FileAssumption DEF reduceFileCnt
  <1>2. ASSUME NEW i \in Maps PROVE \E k \in Reduces : i \in ReduceFiles(k)
    <2> DEFINE q == i \div 2
    <2>1. i \in Nat /\ i <= mapFileCnt - 1 /\ q \in Nat /\ (i = 2 * q \/ i = 2 * q + 1)
      BY FileAssumption DEF Maps
    <2> HIDE DEF q
    <2>2. CASE q <= reduceFileCnt - 1
      <3>1. q \in Reduces
        BY <1>1, <2>1, <2>2 DEF Reduces
      <3>2. i \in ReduceFiles(q)
        BY <2>1 DEF ReduceFiles
      <3> QED
        BY <3>1, <3>2
    <2>3. CASE ~(q <= reduceFileCnt - 1)
      <3>1. mapFileCnt >= 2
        BY <1>1, <2>1, <2>3, FileAssumption DEF reduceFileCnt
      <3>2. reduceFileCnt = mapFileCnt \div 2
        BY <3>1, FileAssumption DEF reduceFileCnt
      <3>3. i = 2 * (reduceFileCnt - 1) + 2 /\ i = mapFileCnt - 1
        BY <2>1, <2>3, <3>1, <3>2, FileAssumption
      <3>4. reduceFileCnt - 1 \in Reduces
        BY <1>1 DEF Reduces
      <3>5. i \in ReduceFiles(reduceFileCnt - 1)
        BY <3>3 DEF ReduceFiles
      <3> QED
        BY <3>4, <3>5
    <2> QED
      BY <2>2, <2>3
  <1> QED
    BY <1>1, <1>2

\* A numbered set of tasks has as many members as numbers.
LEMMA TaskCount ==
    ASSUME NEW n \in Nat, NEW s
    PROVE  /\ IsFiniteSet({s} \X (0 .. n - 1))
           /\ Cardinality({s} \X (0 .. n - 1)) = n
  <1> DEFINE T == {s} \X (0 .. n - 1)
             f == [i \in 1 .. n |-> <<s, i - 1>>]
  <1>1. f \in [1 .. n -> T]
    OBVIOUS
  <1>2. \A i, j \in 1 .. n : f[i] = f[j] => i = j
    OBVIOUS
  <1>3. \A t \in T : \E i \in 1 .. n : f[i] = t
    <2> TAKE t \in T
    <2>1. t[2] + 1 \in 1 .. n /\ t = <<s, t[2]>> /\ t[2] \in Int
      OBVIOUS
    <2>2. f[t[2] + 1] = t
      BY <2>1
    <2> QED
      BY <2>1, <2>2
  <1> HIDE DEF f, T
  <1>4. f \in Bijection(1 .. n, T)
    BY <1>1, <1>2, <1>3 DEF Bijection, Injection, Surjection, IsInjective
  <1>5. ExistsBijection(1 .. n, T)
    BY <1>4 DEF ExistsBijection
  <1> QED
    BY <1>5, FS_CountingElements, FS_NatBijection DEF T

\* The three kinds of task are different, there are some of each, and they are
\* counted by mapFileCnt and reduceFileCnt.
LEMMA TaskKinds ==
    /\ IsFiniteSet(MapTasks) /\ Cardinality(MapTasks) = mapFileCnt
    /\ IsFiniteSet(ReduceTasks) /\ Cardinality(ReduceTasks) = reduceFileCnt
    /\ MapTasks # {} /\ ReduceTasks # {}
    /\ MapTasks \intersect ReduceTasks = {}
    /\ FinalTask \notin MapTasks \union ReduceTasks
  <1>1. IsFiniteSet(MapTasks) /\ Cardinality(MapTasks) = mapFileCnt
    BY TaskCount, FileAssumption DEF MapTasks, Maps
  <1>2. IsFiniteSet(ReduceTasks) /\ Cardinality(ReduceTasks) = reduceFileCnt
    BY TaskCount, ReduceTasksCover DEF ReduceTasks, Reduces
  <1>3. <<"map", 0>> \in MapTasks /\ <<"reduce", 0>> \in ReduceTasks
    BY FileAssumption, ReduceTasksCover DEF MapTasks, Maps, ReduceTasks, Reduces
  <1>4. MapTasks \intersect ReduceTasks = {} /\ FinalTask \notin MapTasks \union ReduceTasks
    BY DEF MapTasks, ReduceTasks, FinalTask
  <1> QED
    BY <1>1, <1>2, <1>3, <1>4

\* What a task reads are tasks of an earlier stage, and they cover what it covers.
LEMMA InputsCover ==
    ASSUME NEW t \in Task
    PROVE  /\ files(t) \subseteq Before(t)
           /\ files(t) \subseteq Task
           /\ Covers(t) \subseteq Maps
           /\ \A i \in Covers(t) :
                 Mapped(t)[i] > 0 \/ \E f \in files(t) : i \in Covers(f)
  <1>1. CASE t \in MapTasks
    <2>1. t[1] = "map" /\ t[2] \in Maps /\ t = <<"map", t[2]>>
      BY <1>1 DEF MapTasks
    <2>2. files(t) = {} /\ Covers(t) = {t[2]}
      BY <2>1 DEF files, Covers
    <2> QED
      BY <2>1, <2>2 DEF Mapped
  <1>2. CASE t \in ReduceTasks
    <2>1. t[1] = "reduce"
      BY <1>2 DEF ReduceTasks
    <2>2. files(t) = {"map"} \X ReduceFiles(t[2]) /\ Covers(t) = ReduceFiles(t[2])
      BY <2>1 DEF files, Covers
    <2>3. ReduceFiles(t[2]) \subseteq Maps
      BY DEF ReduceFiles
    <2>4. files(t) \subseteq MapTasks
      BY <2>2, <2>3 DEF MapTasks
    <2>5. Before(t) = MapTasks
      BY <1>2, TaskKinds DEF Before
    <2>6. \A i \in Covers(t) : <<"map", i>> \in files(t) /\ i \in Covers(<<"map", i>>)
      BY <2>2 DEF Covers
    <2> QED
      BY <2>2, <2>3, <2>4, <2>5, <2>6 DEF Task
  <1>3. CASE t = FinalTask
    <2>1. t[1] = "final"
      BY <1>3 DEF FinalTask
    <2>2. files(t) = ReduceTasks /\ Covers(t) = Maps
      BY <2>1 DEF files, Covers
    <2>3. Before(t) = MapTasks \union ReduceTasks
      BY <1>3, TaskKinds DEF Before
    <2>4. \A k \in Reduces : <<"reduce", k>> \in ReduceTasks
                             /\ Covers(<<"reduce", k>>) = ReduceFiles(k)
      BY DEF ReduceTasks, Covers
    <2>5. \A i \in Maps : \E f \in ReduceTasks : i \in Covers(f)
      BY <2>4, ReduceTasksCover
    <2> QED
      BY <2>2, <2>3, <2>5 DEF Task
  <1> QED
    BY <1>1, <1>2, <1>3 DEF Task

\* A complete file yields something for every input it has to cover.
LEMMA CompleteTotal ==
    ASSUME NEW blocks \in Seq(Content), NEW i \in Maps
    PROVE  /\ Total(blocks, i) \in 0 .. 2
           /\ (\E k \in 1 .. Len(blocks) : blocks[k][i] > 0) => Total(blocks, i) > 0
  BY DEF Total

\* Adding up never loses anything.
LEMMA SumKeeps ==
    ASSUME NEW a \in 0 .. 2, NEW b \in 0 .. 2
    PROVE  /\ Sum(a, b) \in 0 .. 2
           /\ a > 0 \/ b > 0 => Sum(a, b) > 0
  BY DEF Sum

\* One more task of S is finished: the count goes up by one, and reaches the size
\* of S just when all are finished.
LEMMA FinishOne ==
    ASSUME NEW S, IsFiniteSet(S), NEW A \in SUBSET S, NEW t \in S, t \notin A
    PROVE  /\ Cardinality(A \union {t}) = Cardinality(A) + 1
           /\ Cardinality(A) + 1 = Cardinality(S) <=> A \union {t} = S
  <1>1. IsFiniteSet(A)
    BY FS_Subset
  <1>2. IsFiniteSet(A \union {t}) /\ Cardinality(A \union {t}) = Cardinality(A) + 1
    BY <1>1, FS_AddElement
  <1>3. A \union {t} \in SUBSET S
    OBVIOUS
  <1>4. Cardinality(S) = Cardinality(A \union {t}) => S = A \union {t}
    BY <1>3, FS_Subset
  <1> QED
    BY <1>2, <1>4

-----------------------------------------------------------------------------
\* Steps

\* FinishedMeansWritten file by file.
LEMMA WrittenIsFull ==
    FinishedMeansWritten <=> \A t \in Task : status[t] = "finished" => Full(file[t], t)
  BY DEF FinishedMeansWritten, Complete, Full

\* A worker that takes no step keeps its part of the invariant, as long as no task
\* becomes idle again and files only grow.
LEMMA OthersKeep ==
    ASSUME TypeOK, NEW v \in Worker, worker'[v] = worker[v], AtWork(v),
           \A t \in Task : status[t] # "idle" => status'[t] # "idle",
           \A t \in Task : /\ Len(file[t]) \in Nat /\ Len(file'[t]) \in Nat
                           /\ Len(file[t]) <= Len(file'[t])
                           /\ Full(file[t], t) => Full(file'[t], t)
    PROVE  AtWork(v)'
  <1>1. worker[v].task \in Task /\ worker[v].block \in Nat
    BY DEF TypeOK
  <1> QED
    BY <1>1 DEF AtWork

WorkerState ==
    [pc : PC, task : Task, toRead : SUBSET Task, kvs : Content, block : Nat]

\* Files have a length.
LEMMA FilesHaveLength == TypeOK => \A t \in Task : Len(file[t]) \in Nat
  BY DEF TypeOK

\* At the start no task is handed out, and no worker is at work.
LEMMA InitInv == Init => IInv
  <1> SUFFICES ASSUME Init PROVE IInv
    OBVIOUS
  <1>1. NoContent \in Content
    BY DEF NoContent, Content
  <1>2. Idle \in WorkerState
    BY <1>1 DEF Idle, PC, Task, WorkerState
  <1>3. TypeOK
    <2>1. file \in [Task -> Seq(Content)]
      BY EmptySeq DEF Init
    <2>2. worker \in [Worker -> WorkerState]
      BY <1>2, Zenon DEF Init, WorkerState
    <2>3. status \in [Task -> Status]
      BY DEF Init, Status
    <2>4. /\ mapCompCnt \in Nat /\ reduceCompCnt \in Nat /\ workStage \in 0 .. 2
          /\ crashes \in 0 .. MaxCrashes
      BY CrashAssumption DEF Init
    <2>5. isFinished \in BOOLEAN
      BY DEF Init
    <2> QED
      BY <2>1, <2>2, <2>3, <2>4, <2>5, Zenon DEF TypeOK, WorkerState
  <1>4. Finished(MapTasks) = {} /\ Finished(ReduceTasks) = {}
    BY DEF Init, Finished, Task
  <1>5. StagesFollowTasks
    BY <1>4, TaskKinds, FS_EmptySet DEF Init, StagesFollowTasks
  <1>6. FinishedMeansWritten /\ HandedOutInOrder
    BY DEF Init, FinishedMeansWritten, HandedOutInOrder
  <1>7. WorkersInv
    BY DEF Init, WorkersInv, Working, Idle
  <1> QED
    BY <1>3, <1>5, <1>6, <1>7 DEF IInv

\* A step that leaves the coordinator and the files alone and moves one worker
\* keeps the invariant if that worker keeps its part.
LEMMA WorkerStep ==
    ASSUME IInv, UNCHANGED <<coordinator, file>>, NEW w \in Worker,
           TypeOK', \A v \in Worker \ {w} : worker'[v] = worker[v],
           worker'[w].pc \in Working => AtWork(w)'
    PROVE  IInv'
  <1>1. StagesFollowTasks' /\ HandedOutInOrder' /\ FinishedMeansWritten'
    BY DEF IInv, coordinator, StagesFollowTasks, HandedOutInOrder, Finished,
           FinishedMeansWritten, Complete
  <1>2. ASSUME NEW v \in Worker, worker'[v].pc \in Working PROVE AtWork(v)'
    <2>1. CASE v = w
      BY <1>2, <2>1
    <2>2. CASE v # w
      BY <1>2, <2>2, OthersKeep, FilesHaveLength DEF IInv, WorkersInv, coordinator
    <2> QED
      BY <2>1, <2>2
  <1>3. WorkersInv'
    BY <1>2 DEF WorkersInv
  <1> QED
    BY <1>1, <1>3 DEF IInv

\* A worker without a task.
LEMMA IdleType == Idle \in WorkerState /\ [Idle EXCEPT !.pc = "crashed"] \in WorkerState
  <1>1. NoContent \in Content
    BY DEF NoContent, Content
  <1> QED
    BY <1>1 DEF Idle, PC, Task, WorkerState

\* Leaving the loop and crashing end the work on a task.
LEMMA LeaveCrashInv ==
    ASSUME IInv, NEW w \in Worker, leave(w) \/ Crash(w)
    PROVE  IInv'
  <1>1. /\ UNCHANGED <<coordinator, file>>
        /\ worker' \in [Worker -> WorkerState]
        /\ \A v \in Worker \ {w} : worker'[v] = worker[v]
        /\ worker'[w].pc \notin Working
    <2>1. CASE leave(w)
      BY <2>1 DEF IInv, TypeOK, leave, WorkerState, PC, Working
    <2>2. CASE Crash(w)
      <3>1. worker' = [worker EXCEPT ![w] = [Idle EXCEPT !.pc = "crashed"]]
        BY <2>2 DEF Crash
      <3>2. worker' \in [Worker -> WorkerState] /\ worker'[w].pc = "crashed"
        BY <3>1, IdleType DEF IInv, TypeOK, WorkerState, Idle
      <3> QED
        BY <2>2, <3>1, <3>2 DEF IInv, TypeOK, Crash, Working
    <2> QED
      BY <2>1, <2>2
  <1>2. crashes' \in 0 .. MaxCrashes
    BY CrashAssumption DEF IInv, TypeOK, leave, Crash
  <1>3. TypeOK'
    BY <1>1, <1>2 DEF IInv, TypeOK, coordinator, WorkerState
  <1> QED
    BY <1>1, <1>3, WorkerStep

\* readFile: what an input covers is read with it, because the input is finished
\* and so complete.
LEMMA ReadFileInv ==
    ASSUME IInv, NEW w \in Worker, readFile(w)
    PROVE  IInv'
  <1> DEFINE t == worker[w].task
  <1>1. PICK f \in worker[w].toRead :
            worker' = [worker EXCEPT
                ![w].toRead = @ \ {f},
                ![w].kvs = [i \in Maps |-> Sum(@[i], Total(file[f], i))]]
    BY DEF readFile
  <1>2. /\ t \in Task /\ worker[w] \in WorkerState /\ worker[w].pc = "read"
        /\ worker[w].toRead \in SUBSET Task /\ worker[w].kvs \in Content
    BY DEF IInv, TypeOK, readFile, WorkerState
  <1>3. AtWork(w)
    BY <1>2 DEF IInv, WorkersInv, Working
  <1>4. f \in files(t) /\ f \in Task
    BY <1>1, <1>2, <1>3 DEF AtWork
  <1>5. Full(file[f], f)
    BY <1>2, <1>3, <1>4, InputsCover, WrittenIsFull DEF IInv, AtWork, HandedOutInOrder
  <1>6. file[f] \in Seq(Content)
    BY <1>4 DEF IInv, TypeOK
  <1> DEFINE kvs == [i \in Maps |-> Sum(worker[w].kvs[i], Total(file[f], i))]
  <1>7. /\ worker'[w].toRead = worker[w].toRead \ {f} /\ worker'[w].kvs = kvs
        /\ worker'[w].pc = "read" /\ worker'[w].task = t
        /\ worker'[w].block = worker[w].block
        /\ \A v \in Worker \ {w} : worker'[v] = worker[v]
    BY <1>1, <1>2 DEF IInv, TypeOK, WorkerState
  <1>8. \A i \in Maps : worker[w].kvs[i] \in 0 .. 2 /\ Total(file[f], i) \in 0 .. 2
    BY <1>2, <1>6, CompleteTotal DEF Content
  <1>9. kvs \in Content
    BY <1>8, SumKeeps DEF Content
  <1>10. worker' \in [Worker -> WorkerState]
    <2>1. worker' = [worker EXCEPT ![w] = [worker[w] EXCEPT !.toRead = @ \ {f}, !.kvs = kvs]]
      BY <1>1, <1>2 DEF IInv, TypeOK, WorkerState
    <2>2. [worker[w] EXCEPT !.toRead = @ \ {f}, !.kvs = kvs] \in WorkerState
      BY <1>2, <1>9 DEF WorkerState
    <2> QED
      BY <2>1, <2>2 DEF IInv, TypeOK, WorkerState
  <1>11. TypeOK'
    BY <1>10 DEF IInv, TypeOK, WorkerState, readFile, coordinator
  <1>12. ASSUME NEW i \in Covers(t)
         PROVE  worker'[w].kvs[i] > 0 \/ \E g \in worker'[w].toRead : i \in Covers(g)
    <2>1. i \in Maps
      BY <1>2, InputsCover
    <2>2. kvs[i] = Sum(worker[w].kvs[i], Total(file[f], i))
      BY <2>1
    <2>3. CASE worker[w].kvs[i] > 0
      BY <1>7, <1>8, <2>1, <2>2, <2>3, SumKeeps
    <2>4. CASE i \in Covers(f)
      <3>1. Total(file[f], i) > 0
        BY <1>5, <1>6, <2>1, <2>4, CompleteTotal DEF Full
      <3> QED
        BY <1>7, <1>8, <2>1, <2>2, <3>1, SumKeeps
    <2>5. CASE \E g \in worker[w].toRead \ {f} : i \in Covers(g)
      BY <1>7, <2>5
    <2> QED
      BY <1>3, <2>3, <2>4, <2>5 DEF AtWork
  <1>13. AtWork(w)'
    <2>1. status' = status /\ file' = file
      BY DEF readFile, coordinator
    <2>2. status[t] # "idle" /\ worker'[w].toRead \subseteq files(t)
      BY <1>3, <1>7 DEF AtWork
    <2>3. worker'[w].pc # "write" /\ worker'[w].pc # "submit"
      BY <1>7
    <2> QED
      BY <1>7, <1>12, <2>1, <2>2, <2>3, Zenon DEF AtWork
  <1> QED
    BY <1>7, <1>11, <1>13, WorkerStep DEF readFile

\* getBlockMap: nothing is left to read, so kvs covers the task.
LEMMA GetBlockMapInv ==
    ASSUME IInv, NEW w \in Worker, getBlockMap(w)
    PROVE  IInv'
  <1> DEFINE t == worker[w].task
             pc == IF file[t] = <<>> THEN "alloc" ELSE "write"
  <1>1. /\ t \in Task /\ worker[w] \in WorkerState /\ worker[w].pc = "read"
        /\ worker[w].toRead = {}
    BY DEF IInv, TypeOK, getBlockMap, WorkerState
  <1>2. AtWork(w)
    BY <1>1 DEF IInv, WorkersInv, Working
  <1>3. /\ worker'[w].toRead = {} /\ worker'[w].kvs = worker[w].kvs
        /\ worker'[w].pc = pc /\ worker'[w].task = t /\ worker'[w].block = 1
        /\ \A v \in Worker \ {w} : worker'[v] = worker[v]
        /\ worker' \in [Worker -> WorkerState]
    BY <1>1 DEF IInv, TypeOK, WorkerState, getBlockMap, PC
  <1>4. TypeOK'
    BY <1>3 DEF IInv, TypeOK, WorkerState, getBlockMap, coordinator
  <1>5. status' = status /\ file' = file
    BY DEF getBlockMap, coordinator
  <1>6. AtWork(w)'
    <2>1. status[t] # "idle" /\ \A i \in Covers(t) : worker[w].kvs[i] > 0
      BY <1>1, <1>2 DEF AtWork
    <2>2. worker'[w].pc = "write" => 1 \in 1 .. Len(file[t])
      <3>1. file[t] \in Seq(Content)
        BY <1>1 DEF IInv, TypeOK
      <3> QED
        BY <1>3, <3>1, EmptySeq
    <2>3. worker'[w].pc # "submit"
      BY <1>3
    <2> QED
      BY <1>3, <1>5, <2>1, <2>2, <2>3, Zenon DEF AtWork
  <1> QED
    BY <1>3, <1>4, <1>6, WorkerStep DEF getBlockMap

\* A step that leaves the coordinator alone and changes the file of one task, the
\* task of worker w: files grow, and what covered the task still does.
LEMMA FileStep ==
    ASSUME IInv, UNCHANGED coordinator, NEW w \in Worker, TypeOK',
           \A v \in Worker \ {w} : worker'[v] = worker[v],
           \A u \in Task : /\ Len(file[u]) <= Len(file'[u])
                           /\ Full(file[u], u) => Full(file'[u], u),
           AtWork(w)'
    PROVE  IInv'
  <1>1. StagesFollowTasks' /\ HandedOutInOrder'
    BY DEF IInv, coordinator, StagesFollowTasks, HandedOutInOrder, Finished
  <1>2. \A u \in Task : Len(file[u]) \in Nat /\ Len(file'[u]) \in Nat
    BY DEF IInv, TypeOK
  <1>3. \A u \in Task : status'[u] = "finished" => Full(file'[u], u)
    BY WrittenIsFull DEF IInv, coordinator
  <1>4. FinishedMeansWritten'
    BY <1>3 DEF FinishedMeansWritten, Complete, Full
  <1>5. ASSUME NEW v \in Worker, worker'[v].pc \in Working PROVE AtWork(v)'
    <2>1. CASE v # w
      BY <1>2, <1>5, <2>1, OthersKeep DEF IInv, WorkersInv, coordinator
    <2> QED
      BY <2>1
  <1>6. WorkersInv'
    BY <1>5 DEF WorkersInv
  <1> QED
    BY <1>1, <1>4, <1>6 DEF IInv

\* A worker that goes to a block stays a worker.
LEMMA AtBlock ==
    ASSUME NEW r \in WorkerState, NEW p \in PC, NEW n \in Nat
    PROVE  [r EXCEPT !.pc = p, !.block = n] \in WorkerState
  BY DEF WorkerState

\* allocBlock: the new block is the last one, and the others stay.
LEMMA AllocBlockInv ==
    ASSUME IInv, NEW w \in Worker, allocBlock(w)
    PROVE  IInv'
  <1> DEFINE t == worker[w].task
             new == Append(file[t], NoContent)
  <1>1. t \in Task /\ worker[w] \in WorkerState /\ worker[w].pc = "alloc"
    BY DEF IInv, TypeOK, allocBlock, WorkerState
  <1>2. AtWork(w)
    BY <1>1 DEF IInv, WorkersInv, Working
  <1>3. file[t] \in Seq(Content) /\ NoContent \in Content
    BY <1>1 DEF IInv, TypeOK, NoContent, Content
  <1>4. /\ new \in Seq(Content) /\ Len(new) = Len(file[t]) + 1 /\ Len(file[t]) \in Nat
        /\ \A k \in 1 .. Len(file[t]) : new[k] = file[t][k]
    BY <1>3, AppendProperties, LenProperties
  <1>5. file' = [file EXCEPT ![t] = new]
    BY DEF allocBlock
  <1> HIDE DEF new
  <1>6. /\ worker'[w].toRead = worker[w].toRead /\ worker'[w].kvs = worker[w].kvs
        /\ worker'[w].pc = "write" /\ worker'[w].task = t
        /\ worker'[w].block = Len(file[t]) + 1
        /\ \A v \in Worker \ {w} : worker'[v] = worker[v]
        /\ worker' \in [Worker -> WorkerState]
    <2>1. worker' = [worker EXCEPT ![w] = [worker[w] EXCEPT !.pc = "write",
                                                        !.block = Len(file[t]) + 1]]
      BY <1>1 DEF IInv, TypeOK, WorkerState, allocBlock
    <2>2. [worker[w] EXCEPT !.pc = "write", !.block = Len(file[t]) + 1] \in WorkerState
      <3>1. Len(file[t]) + 1 \in Nat /\ "write" \in PC
        BY <1>4 DEF PC
      <3> QED
        BY <1>1, <3>1, AtBlock, Zenon
    <2> QED
      BY <1>1, <2>1, <2>2 DEF IInv, TypeOK, WorkerState
  <1>7. file' \in [Task -> Seq(Content)] /\ file'[t] = new
        /\ \A u \in Task \ {t} : file'[u] = file[u]
    BY <1>1, <1>4, <1>5 DEF IInv, TypeOK
  <1>8. TypeOK'
    BY <1>6, <1>7 DEF IInv, TypeOK, WorkerState, allocBlock, coordinator
  <1>9. \A u \in Task : /\ Len(file[u]) <= Len(file'[u])
                        /\ Full(file[u], u) => Full(file'[u], u)
    <2>1. Full(file[t], t) => Full(new, t)
      BY <1>4 DEF Full
    <2>2. \A u \in Task : Len(file[u]) \in Nat
      BY FilesHaveLength DEF IInv
    <2> QED
      BY <1>4, <1>7, <2>1, <2>2
  <1>10. AtWork(w)'
    <2>1. /\ status[t] # "idle" /\ worker[w].toRead \subseteq files(t)
          /\ \A i \in Covers(t) : worker[w].kvs[i] > 0
      BY <1>1, <1>2 DEF AtWork
    <2>2. worker'[w].block \in 1 .. Len(file'[t])
      BY <1>4, <1>6, <1>7
    <2>3. worker'[w].pc # "submit" /\ status' = status
      BY <1>6 DEF allocBlock, coordinator
    <2> QED
      BY <1>6, <2>1, <2>2, <2>3, Zenon DEF AtWork
  <1> QED
    BY <1>6, <1>8, <1>9, <1>10, FileStep DEF allocBlock

\* writeData: the block it writes covers the task now, whichever did before.
LEMMA WriteDataInv ==
    ASSUME IInv, NEW w \in Worker, writeData(w)
    PROVE  IInv'
  <1> DEFINE t == worker[w].task
             k == worker[w].block
             kvs == worker[w].kvs
             new == [file[t] EXCEPT ![k] = kvs]
  <1>1. /\ t \in Task /\ worker[w] \in WorkerState /\ worker[w].pc = "write"
        /\ kvs \in Content
    BY DEF IInv, TypeOK, writeData, WorkerState
  <1>2. AtWork(w)
    BY <1>1 DEF IInv, WorkersInv, Working
  <1>3. /\ file[t] \in Seq(Content) /\ k \in 1 .. Len(file[t])
        /\ status[t] # "idle" /\ worker[w].toRead \subseteq files(t)
        /\ \A i \in Covers(t) : kvs[i] > 0
    BY <1>1, <1>2 DEF IInv, TypeOK, AtWork
  <1>4. /\ new \in Seq(Content) /\ Len(new) = Len(file[t]) /\ Len(file[t]) \in Nat
        /\ new[k] = kvs
    BY <1>1, <1>3, ExceptSeq, LenProperties
  <1>5. Full(new, t)
    BY <1>3, <1>4 DEF Full
  <1>6. file' = [file EXCEPT ![t] = new]
    BY <1>1 DEF writeData, IInv, TypeOK
  <1> HIDE DEF new
  <1>7. file' \in [Task -> Seq(Content)] /\ file'[t] = new
        /\ \A u \in Task \ {t} : file'[u] = file[u]
    BY <1>1, <1>4, <1>6 DEF IInv, TypeOK
  <1>8. /\ worker'[w].toRead = worker[w].toRead /\ worker'[w].kvs = kvs
        /\ worker'[w].pc = "submit" /\ worker'[w].task = t
        /\ \A v \in Worker \ {w} : worker'[v] = worker[v]
        /\ worker' \in [Worker -> WorkerState]
    BY <1>1 DEF IInv, TypeOK, WorkerState, writeData, PC
  <1>9. TypeOK'
    BY <1>7, <1>8 DEF IInv, TypeOK, WorkerState, writeData, coordinator
  <1>10. \A u \in Task : /\ Len(file[u]) <= Len(file'[u])
                         /\ Full(file[u], u) => Full(file'[u], u)
    <2>1. \A u \in Task : Len(file[u]) \in Nat
      BY FilesHaveLength DEF IInv
    <2> QED
      BY <1>4, <1>5, <1>7, <2>1
  <1>11. AtWork(w)'
    <2>1. worker'[w].pc # "write" /\ status' = status
      BY <1>8 DEF writeData, coordinator
    <2> QED
      BY <1>3, <1>5, <1>7, <1>8, <2>1, Zenon DEF AtWork
  <1> QED
    BY <1>8, <1>9, <1>10, <1>11, FileStep DEF writeData

\* Handing out a task and its time running out finish no task and make none idle,
\* and keep the order of the stages.
LEMMA UnfinishedStep ==
    ASSUME IInv, NEW t \in Task, NEW s \in {"running", "late"},
           status[t] # "finished", status' = [status EXCEPT ![t] = s],
           \A u \in Before(t) : status[u] = "finished",
           UNCHANGED <<mapCompCnt, reduceCompCnt, workStage, isFinished, file>>
    PROVE  /\ status' \in [Task -> Status]
           /\ \A u \in Task : status[u] # "idle" => status'[u] # "idle"
           /\ StagesFollowTasks' /\ FinishedMeansWritten' /\ HandedOutInOrder'
  <1>1. status \in [Task -> Status]
    BY DEF IInv, TypeOK
  <1>2. status' \in [Task -> Status] /\ status'[t] = s
    BY <1>1 DEF Status
  <1>3. \A u \in Task : u # t => status'[u] = status[u]
    BY <1>1
  <1>4. \A u \in Task : status'[u] = "finished" <=> status[u] = "finished"
    BY <1>2, <1>3
  <1>5. /\ MapTasks \subseteq Task /\ ReduceTasks \subseteq Task /\ FinalTask \in Task
        /\ \A u \in Task : Before(u) \subseteq Task
    BY DEF Task, Before
  <1>6. Finished(MapTasks)' = Finished(MapTasks) /\ Finished(ReduceTasks)' = Finished(ReduceTasks)
    BY <1>4, <1>5 DEF Finished
  <1>7. StagesFollowTasks'
    BY <1>4, <1>5, <1>6 DEF IInv, StagesFollowTasks
  <1>8. FinishedMeansWritten'
    BY <1>4 DEF IInv, FinishedMeansWritten, Complete
  <1>9. HandedOutInOrder'
    BY <1>3, <1>4, <1>5 DEF IInv, HandedOutInOrder
  <1> QED
    BY <1>2, <1>3, <1>7, <1>8, <1>9

\* RunOut: a running task was handed out in order.
LEMMA RunOutInv ==
    ASSUME IInv, NEW t \in Task, RunOut(t)
    PROVE  IInv'
  <1>1. \A u \in Before(t) : status[u] = "finished"
    BY DEF RunOut, IInv, HandedOutInOrder
  <1>2. /\ status' \in [Task -> Status]
        /\ \A u \in Task : status[u] # "idle" => status'[u] # "idle"
        /\ StagesFollowTasks' /\ FinishedMeansWritten' /\ HandedOutInOrder'
    BY <1>1, UnfinishedStep DEF RunOut
  <1>3. TypeOK'
    BY <1>2 DEF RunOut, IInv, TypeOK
  <1>4. WorkersInv'
    <2>1. file' = file /\ worker' = worker
      BY DEF RunOut
    <2>2. ASSUME NEW v \in Worker, worker'[v].pc \in Working PROVE AtWork(v)'
      BY <1>2, <2>1, <2>2, OthersKeep, FilesHaveLength DEF IInv, WorkersInv
    <2> QED
      BY <2>2 DEF WorkersInv
  <1> QED
    BY <1>2, <1>3, <1>4 DEF IInv

\* askTask: the stage says that all earlier tasks are finished, and the inputs of
\* the task cover it.
LEMMA AskTaskInv ==
    ASSUME IInv, NEW w \in Worker, askTask(w)
    PROVE  IInv'
  <1>1. PICK t \in StageTasks :
            /\ Ready(t)
            /\ status' = [status EXCEPT ![t] = "running"]
            /\ worker' = [worker EXCEPT ![w] =
                  [pc |-> "read", task |-> t, toRead |-> files(t),
                   kvs |-> Mapped(t), block |-> 0]]
    BY DEF askTask
  <1>2. t \in Task
    BY <1>1 DEF StageTasks, Task
  <1>3. \A u \in Before(t) : status[u] = "finished"
    <2>1. workStage = 0 \/ Finished(MapTasks) = MapTasks
      BY DEF IInv, StagesFollowTasks
    <2>2. workStage \in {0, 1} \/ Finished(ReduceTasks) = ReduceTasks
      BY DEF IInv, StagesFollowTasks
    <2>3. CASE workStage = 0
      BY <1>1, <2>3 DEF StageTasks, Before
    <2>4. CASE workStage = 1
      BY <1>1, <2>1, <2>4, TaskKinds DEF StageTasks, Before, Finished
    <2>5. CASE workStage \notin {0, 1}
      BY <1>1, <2>1, <2>2, <2>5, TaskKinds DEF StageTasks, Before, Finished
    <2> QED
      BY <2>3, <2>4, <2>5
  <1>4. /\ status' \in [Task -> Status]
        /\ \A u \in Task : status[u] # "idle" => status'[u] # "idle"
        /\ StagesFollowTasks' /\ FinishedMeansWritten' /\ HandedOutInOrder'
    BY <1>1, <1>2, <1>3, UnfinishedStep DEF askTask, Ready
  <1> DEFINE new == [pc |-> "read", task |-> t, toRead |-> files(t),
                     kvs |-> Mapped(t), block |-> 0]
  <1>5. new \in WorkerState
    <2>1. files(t) \subseteq Task /\ Mapped(t) \in Content
      BY <1>2, InputsCover DEF Mapped, Content
    <2> QED
      BY <1>2, <2>1 DEF WorkerState, PC
  <1>6. worker' = [worker EXCEPT ![w] = new]
    BY <1>1
  <1>7. worker' \in [Worker -> WorkerState] /\ worker'[w] = new
        /\ \A v \in Worker \ {w} : worker'[v] = worker[v]
    <2> HIDE DEF new
    <2> QED
      BY <1>5, <1>6 DEF IInv, TypeOK, WorkerState
  <1>8. TypeOK'
    BY <1>4, <1>7 DEF askTask, IInv, TypeOK, WorkerState
  <1>9. AtWork(w)'
    <2>1. status'[t] # "idle"
      BY <1>1, <1>2 DEF IInv, TypeOK
    <2>2. \A i \in Covers(t) : Mapped(t)[i] > 0 \/ \E f \in files(t) : i \in Covers(f)
      BY <1>2, InputsCover
    <2>3. /\ worker'[w].pc = "read" /\ worker'[w].task = t
          /\ worker'[w].toRead = files(t) /\ worker'[w].kvs = Mapped(t)
      BY <1>7
    <2>4. worker'[w].pc # "write" /\ worker'[w].pc # "submit"
      BY <2>3
    <2> QED
      BY <2>1, <2>2, <2>3, <2>4, Zenon DEF AtWork
  <1>10. WorkersInv'
    <2>1. ASSUME NEW v \in Worker, worker'[v].pc \in Working PROVE AtWork(v)'
      <3>1. CASE v = w
        BY <1>9, <3>1
      <3>2. CASE v # w
        BY <1>4, <1>7, <2>1, <3>2, OthersKeep, FilesHaveLength
           DEF IInv, WorkersInv, askTask
      <3> QED
        BY <3>1, <3>2
    <2> QED
      BY <2>1 DEF WorkersInv
  <1> QED
    BY <1>4, <1>8, <1>10 DEF IInv

\* submitTask of a task that is not finished yet, or of the final one: the earlier
\* stages are done, and the counters and the stage follow.
LEMMA FinishStep ==
    ASSUME IInv, NEW t \in Task, status[t] # "idle",
           status[t] # "finished" \/ t = FinalTask, ~isFinished, submitTask(t)
    PROVE  /\ status' = [status EXCEPT ![t] = "finished"]
           /\ StagesFollowTasks'
           /\ mapCompCnt' \in Nat /\ reduceCompCnt' \in Nat
           /\ workStage' \in 0 .. 2 /\ isFinished' \in BOOLEAN
  <1>1. status \in [Task -> Status] /\ MapTasks \subseteq Task
        /\ ReduceTasks \subseteq Task /\ FinalTask \in Task
    BY DEF IInv, TypeOK, Task
  <1>2. status' = [status EXCEPT ![t] = "finished"]
    BY TaskKinds DEF submitTask, submitMap, submitReduce, submitFinal
  <1>3. \A u \in Task : status'[u] = IF u = t THEN "finished" ELSE status[u]
    BY <1>1, <1>2
  <1>4. \A u \in Before(t) : status[u] = "finished"
    BY DEF IInv, HandedOutInOrder
  <1>5. /\ mapCompCnt = Cardinality(Finished(MapTasks)) /\ mapCompCnt \in Nat
        /\ reduceCompCnt = Cardinality(Finished(ReduceTasks)) /\ reduceCompCnt \in Nat
        /\ workStage = IF Finished(MapTasks) # MapTasks THEN 0
                       ELSE IF Finished(ReduceTasks) # ReduceTasks THEN 1 ELSE 2
    BY DEF IInv, TypeOK, StagesFollowTasks
  <1>6. CASE t \in MapTasks
    <2>0. status[t] # "finished"
      BY <1>6, TaskKinds
    <2>1. submitMap(t)
      BY <1>6, TaskKinds DEF submitTask
    <2>2. /\ mapCompCnt' = mapCompCnt + 1 /\ reduceCompCnt' = reduceCompCnt
          /\ workStage' = IF mapCompCnt + 1 = mapFileCnt THEN workStage + 1 ELSE workStage
          /\ isFinished' = isFinished
      BY <2>0, <2>1 DEF submitMap
    <2>3. Finished(MapTasks)' = Finished(MapTasks) \union {t}
      BY <1>1, <1>3, <1>6 DEF Finished
    <2>4. Finished(ReduceTasks)' = Finished(ReduceTasks)
      BY <1>1, <1>3, <1>6, TaskKinds DEF Finished
    <2>5. t \notin Finished(MapTasks) /\ Finished(MapTasks) \in SUBSET MapTasks
      BY <2>0 DEF Finished
    <2>6. /\ Cardinality(Finished(MapTasks) \union {t}) = mapCompCnt + 1
          /\ mapCompCnt + 1 = mapFileCnt <=> Finished(MapTasks) \union {t} = MapTasks
      <3>1. /\ Cardinality(Finished(MapTasks) \union {t}) = Cardinality(Finished(MapTasks)) + 1
            /\ Cardinality(Finished(MapTasks)) + 1 = Cardinality(MapTasks)
                  <=> Finished(MapTasks) \union {t} = MapTasks
        BY <1>6, <2>5, TaskKinds, FinishOne, Zenon
      <3> QED
        BY <1>5, <3>1, TaskKinds
    <2>7. Finished(ReduceTasks) # ReduceTasks
      <3>1. PICK r \in ReduceTasks : TRUE
        BY TaskKinds
      <3>2. t \in Before(r)
        BY <1>6, <3>1, TaskKinds DEF Before
      <3>3. status[r] = "idle"
        BY <1>1, <2>0, <3>2 DEF IInv, HandedOutInOrder
      <3> QED
        BY <3>1, <3>3 DEF Finished
    <2>8. workStage = 0
      BY <1>5, <1>6, <2>5
    <2>9. StagesFollowTasks'
      BY <1>5, <2>2, <2>3, <2>4, <2>6, <2>7, <2>8 DEF StagesFollowTasks
    <2>10. /\ mapCompCnt' \in Nat /\ reduceCompCnt' \in Nat /\ workStage' \in 0 .. 2
      BY <1>5, <2>2, <2>8
    <2>11. isFinished' \in BOOLEAN
      BY <2>2, Zenon DEF IInv, TypeOK
    <2> QED
      BY <1>2, <2>9, <2>10, <2>11
  <1>7. CASE t \in ReduceTasks
    <2>0. status[t] # "finished"
      BY <1>7, TaskKinds
    <2>1. submitReduce(t)
      BY <1>7, TaskKinds DEF submitTask
    <2>2. /\ reduceCompCnt' = reduceCompCnt + 1 /\ mapCompCnt' = mapCompCnt
          /\ workStage' = IF reduceCompCnt + 1 = reduceFileCnt THEN workStage + 1
                          ELSE workStage
          /\ isFinished' = isFinished
      BY <2>0, <2>1 DEF submitReduce
    <2>3. Finished(ReduceTasks)' = Finished(ReduceTasks) \union {t}
      BY <1>1, <1>3, <1>7 DEF Finished
    <2>4. Finished(MapTasks)' = Finished(MapTasks)
      BY <1>1, <1>3, <1>7, TaskKinds DEF Finished
    <2>5. t \notin Finished(ReduceTasks) /\ Finished(ReduceTasks) \in SUBSET ReduceTasks
      BY <2>0 DEF Finished
    <2>6. /\ Cardinality(Finished(ReduceTasks) \union {t}) = reduceCompCnt + 1
          /\ reduceCompCnt + 1 = reduceFileCnt <=> Finished(ReduceTasks) \union {t} = ReduceTasks
      <3>1. /\ Cardinality(Finished(ReduceTasks) \union {t}) = Cardinality(Finished(ReduceTasks)) + 1
            /\ Cardinality(Finished(ReduceTasks)) + 1 = Cardinality(ReduceTasks)
                  <=> Finished(ReduceTasks) \union {t} = ReduceTasks
        BY <1>7, <2>5, TaskKinds, FinishOne, Zenon
      <3> QED
        BY <1>5, <3>1, TaskKinds
    <2>7. Finished(MapTasks) = MapTasks
      BY <1>4, <1>7, TaskKinds DEF Before, Finished
    <2>8. workStage = 1
      BY <1>5, <1>7, <2>5, <2>7
    <2>9. StagesFollowTasks'
      BY <1>5, <2>2, <2>3, <2>4, <2>6, <2>7, <2>8 DEF StagesFollowTasks
    <2>10. /\ mapCompCnt' \in Nat /\ reduceCompCnt' \in Nat /\ workStage' \in 0 .. 2
      BY <1>5, <2>2, <2>8
    <2>11. isFinished' \in BOOLEAN
      BY <2>2, Zenon DEF IInv, TypeOK
    <2> QED
      BY <1>2, <2>9, <2>10, <2>11
  <1>8. CASE t = FinalTask
    <2>1. submitFinal(t)
      BY <1>8, TaskKinds DEF submitTask
    <2>2. Finished(MapTasks)' = Finished(MapTasks) /\ Finished(ReduceTasks)' = Finished(ReduceTasks)
      BY <1>1, <1>3, <1>8, TaskKinds DEF Finished
    <2>3. StagesFollowTasks'
      BY <1>1, <1>3, <1>5, <1>8, <2>1, <2>2 DEF StagesFollowTasks, submitFinal
    <2> QED
      BY <1>2, <1>5, <2>1, <2>3 DEF submitFinal
  <1> QED
    BY <1>6, <1>7, <1>8 DEF Task

\* doSubmit: a first submission leaves a full output, another one changes nothing.
LEMMA DoSubmitInv ==
    ASSUME IInv, NEW w \in Worker, doSubmit(w)
    PROVE  IInv'
  <1> DEFINE t == worker[w].task
  <1>1. t \in Task /\ worker[w].pc = "submit" /\ submitTask(t)
        /\ worker' = [worker EXCEPT ![w] = Idle] /\ file' = file /\ crashes' = crashes
    BY DEF IInv, TypeOK, doSubmit
  <1>2. AtWork(w)
    BY <1>1 DEF IInv, WorkersInv, Working
  <1>3. status[t] # "idle" /\ Full(file[t], t)
    BY <1>1, <1>2 DEF AtWork
  <1>4. worker' \in [Worker -> WorkerState] /\ worker'[w] = Idle
        /\ \A v \in Worker \ {w} : worker'[v] = worker[v]
    BY <1>1, IdleType DEF IInv, TypeOK, WorkerState
  <1>5. worker'[w].pc \notin Working
    BY <1>4 DEF Idle, Working
  <1>6. CASE UNCHANGED coordinator
    <2>1. TypeOK'
      BY <1>1, <1>4, <1>6 DEF IInv, TypeOK, WorkerState, coordinator
    <2> QED
      BY <1>1, <1>4, <1>5, <1>6, <2>1, WorkerStep
  <1>7. CASE ~isFinished /\ (status[t] # "finished" \/ t = FinalTask)
    <2>1. /\ status' = [status EXCEPT ![t] = "finished"]
          /\ StagesFollowTasks'
          /\ mapCompCnt' \in Nat /\ reduceCompCnt' \in Nat
          /\ workStage' \in 0 .. 2 /\ isFinished' \in BOOLEAN
      BY <1>1, <1>3, <1>7, FinishStep
    <2>2. \A u \in Task : status'[u] = IF u = t THEN "finished" ELSE status[u]
      BY <2>1 DEF IInv, TypeOK
    <2>3. status' \in [Task -> Status]
      BY <2>1 DEF IInv, TypeOK, Status
    <2>4. TypeOK'
      BY <1>1, <1>4, <2>1, <2>3, Zenon DEF IInv, TypeOK, WorkerState
    <2>5. \A u \in Task : status'[u] = "finished" => Full(file'[u], u)
      BY <1>1, <1>3, <2>2, WrittenIsFull DEF IInv
    <2>6. FinishedMeansWritten'
      BY <2>5 DEF FinishedMeansWritten, Complete, Full
    <2>7. HandedOutInOrder'
      <3>1. \A u \in Task : Before(u) \subseteq Task
        BY DEF Before, Task
      <3> QED
        BY <1>1, <1>3, <2>2, <3>1 DEF IInv, HandedOutInOrder
    <2>8. \A u \in Task : status[u] # "idle" => status'[u] # "idle"
      BY <2>2
    <2>9. ASSUME NEW v \in Worker, worker'[v].pc \in Working PROVE AtWork(v)'
      <3>1. v # w
        BY <1>5, <2>9
      <3> QED
        BY <1>1, <1>4, <2>8, <2>9, <3>1, OthersKeep, FilesHaveLength DEF IInv, WorkersInv
    <2>10. WorkersInv'
      BY <2>9 DEF WorkersInv
    <2> QED
      BY <2>1, <2>4, <2>6, <2>7, <2>10 DEF IInv
  <1>8. isFinished => UNCHANGED coordinator
    BY <1>1 DEF submitTask
  <1>9. status[t] = "finished" /\ t # FinalTask /\ ~isFinished => UNCHANGED coordinator
    BY <1>1 DEF submitTask, submitMap, submitReduce
  <1> QED
    BY <1>6, <1>7, <1>8, <1>9

-----------------------------------------------------------------------------
\* Theorems

\* Every step of a worker, every crash and every task that is late keep IInv.
LEMMA NextInv == IInv /\ [Next]_vars => IInv'
  <1> SUFFICES ASSUME IInv, [Next]_vars PROVE IInv'
    OBVIOUS
  <1>1. CASE UNCHANGED vars
    BY <1>1 DEF vars, coordinator, IInv, TypeOK, StagesFollowTasks, Finished,
                FinishedMeansWritten, Complete, HandedOutInOrder, WorkersInv, AtWork
  <1>2. ASSUME NEW w \in Worker, doWork(w) PROVE IInv'
    BY <1>2, AskTaskInv, ReadFileInv, GetBlockMapInv, AllocBlockInv, WriteDataInv,
       DoSubmitInv, LeaveCrashInv DEF doWork
  <1>3. ASSUME NEW w \in Worker, Crash(w) PROVE IInv'
    BY <1>3, LeaveCrashInv
  <1>4. ASSUME NEW t \in Task, RunOut(t) PROVE IInv'
    BY <1>4, RunOutInv
  <1> QED
    BY <1>1, <1>2, <1>3, <1>4 DEF Next

\* The invariant holds in every reachable state.
THEOREM Inductive == Spec => []IInv
  BY InitInv, NextInv, PTL DEF Spec

\* The coordinator, the files and the workers of map_reduce/ keep their types, for
\* any number of workers and input files.
THEOREM MapReduceTypes == Spec => []TypeOK
  <1>1. IInv => TypeOK
    BY DEF IInv
  <1> QED
    BY <1>1, Inductive, PTL

\* Whatever is submitted late or twice, the counters of the coordinator count each
\* finished task once, and a stage starts just when the one before is done.
THEOREM StagesAreExact == Spec => []StagesFollowTasks
  <1>1. IInv => StagesFollowTasks
    BY DEF IInv
  <1> QED
    BY <1>1, Inductive, PTL

\* Whoever crashed or came late, a task that counts as finished has left an output
\* with every word of its inputs, and so has the job.
THEOREM NoInputIsLost == Spec => []FinishedMeansWritten
  <1>1. IInv => FinishedMeansWritten
    BY DEF IInv
  <1> QED
    BY <1>1, Inductive, PTL
=============================================================================
