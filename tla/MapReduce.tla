----------------------------- MODULE MapReduce -----------------------------
(***************************************************************************)
(* The distributed MapReduce of map_reduce/: a coordinator that hands out  *)
(* map tasks, then reduce tasks, then one final reduce task, and workers   *)
(* that run them and leave their output in files of the distributed file   *)
(* system.                                                                 *)
(*                                                                         *)
(* The RPC server of the coordinator has one thread, so askTask and        *)
(* submitTask are one step each.  A worker makes one call to the file      *)
(* system at a time; each such call is one step, and the steps of the      *)
(* workers interleave.  A task that takes longer than threhold may be      *)
(* handed to a second worker while the first one is still at it.  Workers  *)
(* may crash at any point.                                                 *)
(*                                                                         *)
(* Data.  Of the words of an output only this matters: does it account for *)
(* the words of input file i not at all (0), once (1) or several times     *)
(* (2).  Map and Reduce add up what they read, so a content is a function  *)
(* from the map tasks to 0 .. 2.  Every output fits into one block; a file *)
(* is the sequence of its blocks, a block that nothing was written to is   *)
(* all zeros, and readFile skips zeros.  A file nobody has made yet reads  *)
(* as an empty one (lookup yields inode 0, get_type_attr then size 0), and *)
(* mknode does nothing if the file exists; so making the file changes      *)
(* nothing here and is left out.  Operators named Bad... are slips that a  *)
(* change to the code could make, and are used by no action.               *)
(***************************************************************************)
EXTENDS Integers, Sequences, FiniteSets

CONSTANTS
    Worker,      \* the workers
    mapFileCnt,  \* number of input files
    MayBeLate,   \* tasks whose time can run out before they are submitted
    MaxCrashes   \* crashes of workers

ASSUME WorkerAssumption == IsFiniteSet(Worker) /\ Worker # {}
ASSUME FileAssumption == mapFileCnt \in Nat \ {0}
ASSUME CrashAssumption == MaxCrashes \in Nat /\ MaxCrashes < Cardinality(Worker)

VARIABLES
    status,         \* finished, hasAligned and startTime of every task
    mapCompCnt, reduceCompCnt, workStage, isFinished,
    file,           \* the output file of every task
    worker,         \* where every worker is, and the locals it holds
    crashes

coordinator == <<status, mapCompCnt, reduceCompCnt, workStage, isFinished>>
vars == <<coordinator, file, worker, crashes>>

-----------------------------------------------------------------------------
\* The tasks the constructor sets up.  Reduce task k reads the outputs of the
\* map tasks 2k and 2k + 1, and of 2k + 2 if that is the last one.

Maps == 0 .. mapFileCnt - 1
reduceFileCnt == IF mapFileCnt < 2 THEN 1 ELSE mapFileCnt \div 2
Reduces == 0 .. reduceFileCnt - 1

MapTasks == {"map"} \X Maps
ReduceTasks == {"reduce"} \X Reduces
FinalTask == <<"final", 0>>
Task == MapTasks \union ReduceTasks \union {FinalTask}
ASSUME LateAssumption == MayBeLate \subseteq Task

BadReduceFiles(k) == {j \in Maps : j \in {2 * k, 2 * k + 1, 2 * k + 2}}

\* Of a single input, task 0 also reads "map1", which nobody writes: looking
\* it up yields inode 0, and reading inode 0 yields nothing.
ReduceFiles(k) ==
    {j \in Maps : \/ j \in {2 * k, 2 * k + 1}
                  \/ j = 2 * k + 2 /\ j = mapFileCnt - 1}

\* task.files: the tasks whose outputs t reads
files(t) ==
    CASE t[1] = "map"    -> {}
      [] t[1] = "reduce" -> {"map"} \X ReduceFiles(t[2])
      [] t[1] = "final"  -> ReduceTasks

Content == [Maps -> 0 .. 2]
NoContent == [i \in Maps |-> 0]

\* What the blocks of a file account for together, and with what was read before.
Total(blocks, i) ==
    LET holding == {k \in 1 .. Len(blocks) : blocks[k][i] > 0}
    IN  IF holding = {} THEN 0
        ELSE IF \E k \in holding : holding = {k} /\ blocks[k][i] = 1 THEN 1
        ELSE 2

Sum(a, b) == IF a + b > 2 THEN 2 ELSE a + b

\* What doMap has read before its first write: its input file, once.
Mapped(t) == [i \in Maps |-> IF t = <<"map", i>> THEN 1 ELSE 0]

Idle == [pc |-> "ask", task |-> FinalTask, toRead |-> {}, kvs |-> NoContent,
         block |-> 0]

Init ==
    /\ status = [t \in Task |-> "idle"]
    /\ mapCompCnt = 0 /\ reduceCompCnt = 0 /\ workStage = 0
    /\ isFinished = FALSE
    /\ file = [t \in Task |-> <<>>]
    /\ worker = [w \in Worker |-> Idle]
    /\ crashes = 0

-----------------------------------------------------------------------------
\* The coordinator

StageTasks ==
    IF workStage = 0 THEN MapTasks
    ELSE IF workStage = 1 THEN ReduceTasks ELSE {FinalTask}

BadReady(t) == status[t] = "idle"

\* hasAligned is false, or the time of the task has run out
Ready(t) == status[t] \in {"idle", "late"}

\* The first task of the stage that is ready; with none the answer is Busy,
\* the worker sleeps and nothing changes.
askTask(w) ==
    /\ worker[w].pc = "ask"
    /\ ~isFinished
    /\ \E t \in StageTasks :
          /\ Ready(t)
          /\ \A u \in StageTasks : Ready(u) => t[2] <= u[2]
          /\ status' = [status EXCEPT ![t] = "running"]
          /\ worker' = [worker EXCEPT ![w] =
                [pc |-> "read", task |-> t, toRead |-> files(t),
                 kvs |-> Mapped(t), block |-> 0]]
    /\ UNCHANGED <<mapCompCnt, reduceCompCnt, workStage, isFinished, file, crashes>>

\* duration >= threhold
RunOut(t) ==
    /\ t \in MayBeLate
    /\ status[t] = "running"
    /\ status' = [status EXCEPT ![t] = "late"]
    /\ UNCHANGED <<mapCompCnt, reduceCompCnt, workStage, isFinished, file,
                   worker, crashes>>

BadSubmitMap(t) ==
    /\ status' = [status EXCEPT ![t] = "finished"]
    /\ mapCompCnt' = mapCompCnt + 1
    /\ workStage' = IF mapCompCnt' = mapFileCnt THEN workStage + 1 ELSE workStage
    /\ UNCHANGED <<reduceCompCnt, isFinished>>

submitMap(t) ==
    IF status[t] = "finished" THEN UNCHANGED coordinator
    ELSE /\ status' = [status EXCEPT ![t] = "finished"]
         /\ mapCompCnt' = mapCompCnt + 1
         /\ workStage' = IF mapCompCnt' = mapFileCnt
                         THEN workStage + 1 ELSE workStage
         /\ UNCHANGED <<reduceCompCnt, isFinished>>

BadSubmitReduce(t) ==
    /\ status' = [status EXCEPT ![t] = "finished"]
    /\ reduceCompCnt' = reduceCompCnt + 1
    /\ workStage' = IF reduceCompCnt' >= reduceFileCnt
                    THEN workStage + 1 ELSE workStage
    /\ UNCHANGED <<mapCompCnt, isFinished>>

submitReduce(t) ==
    IF status[t] = "finished" THEN UNCHANGED coordinator
    ELSE /\ status' = [status EXCEPT ![t] = "finished"]
         /\ reduceCompCnt' = reduceCompCnt + 1
         /\ workStage' = IF reduceCompCnt' = reduceFileCnt
                         THEN workStage + 1 ELSE workStage
         /\ UNCHANGED <<mapCompCnt, isFinished>>

BadSubmitFinal(t) ==
    /\ status' = [status EXCEPT ![t] = "finished"]
    /\ isFinished' = (status[t] = "running")
    /\ UNCHANGED <<mapCompCnt, reduceCompCnt, workStage>>

submitFinal(t) ==
    /\ status' = [status EXCEPT ![t] = "finished"]
    /\ isFinished' = TRUE
    /\ UNCHANGED <<mapCompCnt, reduceCompCnt, workStage>>

submitTask(t) ==
    IF isFinished THEN UNCHANGED coordinator
    ELSE \/ t \in MapTasks /\ submitMap(t)
         \/ t \in ReduceTasks /\ submitReduce(t)
         \/ t = FinalTask /\ submitFinal(t)

-----------------------------------------------------------------------------
\* The workers

\* doReduce: getContentFromFile and readFile of the next input
readFile(w) ==
    /\ worker[w].pc = "read"
    /\ \E f \in worker[w].toRead :
          /\ \A g \in worker[w].toRead : f[2] <= g[2]
          /\ worker' = [worker EXCEPT
                ![w].toRead = @ \ {f},
                ![w].kvs = [i \in Maps |-> Sum(@[i], Total(file[f], i))]]
    /\ UNCHANGED <<coordinator, file, crashes>>

BadGetBlockMap(w) ==
    /\ worker[w].pc = "read"
    /\ worker[w].toRead = {}
    /\ worker' = [worker EXCEPT
          ![w].pc = IF file[worker[w].task] = <<>> THEN "alloc" ELSE "submit",
          ![w].block = 1]
    /\ UNCHANGED <<coordinator, file, crashes>>

\* writeFile, then ChfsClient::write_file: it asks for the blocks of the file ...
getBlockMap(w) ==
    /\ worker[w].pc = "read"
    /\ worker[w].toRead = {}
    /\ worker' = [worker EXCEPT
          ![w].pc = IF file[worker[w].task] = <<>> THEN "alloc" ELSE "write",
          ![w].block = 1]
    /\ UNCHANGED <<coordinator, file, crashes>>

\* ... adds one if there are too few, which goes to the end of the file
\* whatever others have added since ...
allocBlock(w) ==
    LET t == worker[w].task
    IN  /\ worker[w].pc = "alloc"
        /\ file' = [file EXCEPT ![t] = Append(@, NoContent)]
        /\ worker' = [worker EXCEPT ![w].pc = "write",
                                    ![w].block = Len(file[t]) + 1]
        /\ UNCHANGED <<coordinator, crashes>>

\* ... and writes the blocks it knows of.
writeData(w) ==
    /\ worker[w].pc = "write"
    /\ file' = [file EXCEPT ![worker[w].task][worker[w].block] = worker[w].kvs]
    /\ worker' = [worker EXCEPT ![w].pc = "submit"]
    /\ UNCHANGED <<coordinator, crashes>>

doSubmit(w) ==
    /\ worker[w].pc = "submit"
    /\ submitTask(worker[w].task)
    /\ worker' = [worker EXCEPT ![w] = Idle]
    /\ UNCHANGED <<file, crashes>>

\* The loop of doWork ends: the answer is NoTask, or stop() was called, which
\* the owner of the workers does once Done() returns true.
leave(w) ==
    /\ worker[w].pc = "ask"
    /\ isFinished
    /\ worker' = [worker EXCEPT ![w].pc = "left"]
    /\ UNCHANGED <<coordinator, file, crashes>>

doWork(w) ==
    \/ askTask(w)
    \/ readFile(w)
    \/ getBlockMap(w)
    \/ allocBlock(w)
    \/ writeData(w)
    \/ doSubmit(w)
    \/ leave(w)

\* The process of a worker dies; what it wrote stays.
Crash(w) ==
    /\ worker[w].pc \notin {"left", "crashed"}
    /\ crashes < MaxCrashes
    /\ crashes' = crashes + 1
    /\ worker' = [worker EXCEPT ![w] = [Idle EXCEPT !.pc = "crashed"]]
    /\ UNCHANGED <<coordinator, file>>

Next ==
    \/ \E w \in Worker : doWork(w) \/ Crash(w)
    \/ \E t \in Task : RunOut(t)

\* The threads of workers that have not crashed run, and time passes.
Fairness ==
    /\ \A w \in Worker : WF_vars(doWork(w))
    /\ \A t \in Task : WF_vars(RunOut(t))

Spec == Init /\ [][Next]_vars
FairSpec == Spec /\ Fairness

-----------------------------------------------------------------------------
\* Properties

Status == {"idle", "running", "late", "finished"}
PC == {"ask", "read", "alloc", "write", "submit", "left", "crashed"}

\* The coordinator, the files and the workers have their types.
TypeOK ==
    /\ status \in [Task -> Status]
    /\ mapCompCnt \in Nat /\ reduceCompCnt \in Nat
    /\ workStage \in 0 .. 2 /\ isFinished \in BOOLEAN
    /\ file \in [Task -> Seq(Content)]
    /\ worker \in [Worker -> [pc : PC, task : Task, toRead : SUBSET Task,
                              kvs : Content, block : Nat]]
    /\ crashes \in 0 .. MaxCrashes

Finished(tasks) == {t \in tasks : status[t] = "finished"}

\* The counters count each finished task once, however often it is submitted
\* (mr_coordinator.cc:82, 91), and the stage follows from them: reduce tasks
\* are handed out only when no map task is missing, the final one only when no
\* reduce task is, and the counters never run past the number of tasks, which
\* would skip the test mapCompCnt == mapFileCnt (mr_coordinator.cc:86, 95).
StagesFollowTasks ==
    /\ mapCompCnt = Cardinality(Finished(MapTasks))
    /\ reduceCompCnt = Cardinality(Finished(ReduceTasks))
    /\ workStage = IF Finished(MapTasks) # MapTasks THEN 0
                   ELSE IF Finished(ReduceTasks) # ReduceTasks THEN 1 ELSE 2
    /\ isFinished => status[FinalTask] = "finished"

\* The map tasks whose words the output of t has to account for.
Covers(t) ==
    CASE t[1] = "map"    -> {t[2]}
      [] t[1] = "reduce" -> ReduceFiles(t[2])
      [] t[1] = "final"  -> Maps

Complete(t) ==
    \E k \in 1 .. Len(file[t]) : \A i \in Covers(t) : file[t][k][i] > 0

\* A task that counts as finished has left a complete output, although the
\* worker that submitted it, a crashed one and a late one may all have written
\* to the file in any order; so a reduce task never reads half an input, and
\* the final task, and with it the job, never ends with an input missing.
FinishedMeansWritten == \A t \in Task : status[t] = "finished" => Complete(t)

\* When Done() returns true the result counts every word as often as it occurs
\* (mr_test.cc:172 compares it with the correct counts).
ExactlyOnce ==
    isFinished => \A i \in Maps : Total(file[FinalTask], i) = 1

\* As long as one worker survives, the job ends: a task whose worker crashed
\* is handed out again (mr_coordinator.cc:26, 46, 62) ...
JobEnds == <>isFinished

\* ... and every worker that survives leaves its loop.
WorkersLeave == \A w \in Worker : <>(worker[w].pc \in {"left", "crashed"})
=============================================================================
