----------------------------- MODULE CommitLog -----------------------------
(***************************************************************************)
(* The redo log of the metadata server (src/chfs/src/distributed/          *)
(* commit_log.cc) under the handlers that write it, mknode and unlink      *)
(* (metadata_server.cc), with checkpoint, machine crash and recover.       *)
(*                                                                         *)
(* A transaction is one call of a handler in one directory.  What a block  *)
(* holds is the set of changes made to it: <<x, 1>> for what transaction x *)
(* does in alloc_inode or remove_file, <<x, 2>> for its write_file of the  *)
(* directory.  The bitmap is changed by both; "table" stands for the three *)
(* other blocks of the first append_log (inode bitmap, inode table, and    *)
(* the inode of the child or, when unlink has freed it, block 0); a        *)
(* directory has an inode block and a data block.                          *)
(*                                                                         *)
(* write_block changes the page cache only: after a crash a block of the   *)
(* file system holds what it held at the last flush or anything written to *)
(* it since.  A block of the log is as it was last synced; only the block  *)
(* that set_operation writes is not synced by its writer.                  *)
(***************************************************************************)
EXTENDS Integers, FiniteSets, Sequences

CONSTANTS
    Thread,
    Dir,           \* the directories that handlers work in
    LogBlockCnt,   \* log blocks 1 .. LogBlockCnt; 0 is the superblock
    ByteSize,      \* the log block number recover_tx reads is modulo this
    kMaxLogSize,   \* the number of log entries that starts a checkpoint
    MaxTxn,        \* bound: transactions begun
    MaxFault,      \* bound: crashes and refused writes
    MaxRecover,    \* bound: calls of recover
    NoOne          \* the holder of a mutex that is free

ASSUME LogAssumption == {LogBlockCnt, ByteSize, kMaxLogSize} \subseteq Nat \ {0}
ASSUME BoundAssumption == {MaxTxn, MaxFault, MaxRecover} \subseteq Nat
ASSUME NoOneAssumption == NoOne \notin Thread \union Dir

VARIABLES
    mem, disk,         \* file system: page cache, what a crash may leave
    super,             \* log block 0: its bitmap and the transaction entries
    logmem, logdisk,   \* the other log blocks: page cache, disk
    is_checkpoint_enabled,
    max_txn_id, generating_ckpt, working_jobs, log_entries_num,
    superblock_lock, logsystem_lock, txn_lock, inode_mtx,
    recover_operations,
    call,              \* the handler every thread is in
    up,                \* no crash since the last recover
    wrecked,           \* a superblock was overwritten: nothing more is modelled
    begun, crashes, recoveries, refused,
    logged,            \* history: the changes append_log has returned for
    answered,          \* history: the changes of the calls that were answered
    overlap            \* history: two transactions were open at a time

files == <<mem, disk, refused>>
log == <<super, logmem, logdisk>>
counters == <<max_txn_id, generating_ckpt, working_jobs, log_entries_num>>
locks == <<superblock_lock, logsystem_lock, txn_lock, inode_mtx>>
server == <<is_checkpoint_enabled, recover_operations, up, wrecked>>
history == <<begun, crashes, recoveries, logged, answered, overlap>>
vars == <<files, log, counters, locks, server, history, call>>

LogBlock == 1 .. LogBlockCnt
TxnId == 0 .. MaxTxn
Txn == 1 .. MaxTxn
Change == Txn \X {1, 2}
Bitmap == <<NoOne, "bitmap">>
Table == <<NoOne, "table">>
Block == {Bitmap, Table} \union (Dir \X {"inode", "data"})

NoEntry == [block |-> 0, count |-> 0, commit |-> FALSE]
NewSuper == [used |-> {}, entry |-> [i \in TxnId |-> NoEntry]]

\* A log block is a transaction block (an operation and log entries) or a
\* state block (the content of a block); both fields are here.
ZeroBlock == [op |-> NoOne, logs |-> <<>>, state |-> {}]

NoCall == [pc |-> "idle", dir |-> NoOne, txn |-> 0, id |-> 0, part |-> 1,
           redo |-> FALSE, failed |-> FALSE, ops |-> <<>>, buffer |-> NewSuper, block |-> 0,
           idx |-> 0, at |-> <<>>]

\* CommitLog does not initialize generating_ckpt.
Init ==
    /\ mem = [b \in Block |-> {}]
    /\ disk = [b \in Block |-> {{}}]
    /\ super = NewSuper
    /\ logmem = [k \in LogBlock |-> ZeroBlock] /\ logdisk = logmem
    /\ is_checkpoint_enabled \in BOOLEAN
    /\ max_txn_id = 0 /\ working_jobs = 0 /\ log_entries_num = 0
    /\ generating_ckpt \in BOOLEAN
    /\ superblock_lock = NoOne /\ logsystem_lock = NoOne
    /\ txn_lock = [i \in TxnId |-> NoOne]
    /\ inode_mtx = [d \in Dir |-> NoOne]
    /\ recover_operations = <<>>
    /\ call = [t \in Thread |-> NoCall]
    /\ up = TRUE /\ wrecked = FALSE
    /\ begun = 0 /\ crashes = 0 /\ recoveries = 0 /\ refused = 0
    /\ logged = {} /\ answered = {} /\ overlap = FALSE

-----------------------------------------------------------------------------
\* Steps of a thread

At(t, pc) == call[t].pc = pc
Goto(t, pc) == call' = [call EXCEPT ![t].pc = pc]
Return(t) == call' = [call EXCEPT ![t] = NoCall]

\* while(generating_ckpt) {}: the plain flag is read before the job is counted.
Pass(t, from, to) ==
    /\ At(t, from)
    /\ ~generating_ckpt
    /\ Goto(t, to)
    /\ UNCHANGED <<files, log, counters, locks, server, history>>

Elements(s) == {s[i] : i \in DOMAIN s}

\* The n lowest log blocks that are not marked, in order.
find_free_log_block(used, n) ==
    LET free == LogBlock \ used
    IN [i \in 1 .. n |->
          CHOOSE k \in free : Cardinality({j \in free : j < k}) = i - 1]

\* find_free_log_block asserts that there is one: without room for n blocks the
\* handler goes no further.
HasRoom(used, n) == Cardinality(LogBlock \ used) >= n

\* A handler starts with the mutex of its directory and alloc_txn.
Begin(t, d, redo) ==
    /\ At(t, "idle")
    /\ inode_mtx[d] = NoOne
    /\ begun < MaxTxn
    /\ begun' = begun + 1
    /\ inode_mtx' = [inode_mtx EXCEPT ![d] = t]
    /\ overlap' = (overlap \/ \E e \in Dir : inode_mtx[e] # NoOne)
    /\ call' = [call EXCEPT ![t] = [NoCall EXCEPT !.pc = "alloc_txn", !.dir = d,
                                                  !.txn = begun + 1, !.redo = redo]]
    /\ UNCHANGED <<files, log, counters, superblock_lock, logsystem_lock,
                   txn_lock, crashes, recoveries, logged, answered>>

request(t) ==
    /\ up /\ recover_operations = <<>>
    /\ \E d \in Dir : Begin(t, d, FALSE)
    /\ UNCHANGED server

\* MetadataServer::recover runs the operations it has collected one by one. An
\* operation that never reached the disk reads as unlink of "" in inode 0: it
\* finds nothing and is dropped here.
redo_operation(t) ==
    /\ up /\ recover_operations # <<>>
    /\ \A u \in Thread : At(u, "idle")
    /\ recover_operations' = Tail(recover_operations)
    /\ IF Head(recover_operations) = NoOne
       THEN UNCHANGED <<files, log, counters, locks, history, call>>
       ELSE Begin(t, Head(recover_operations), TRUE)
    /\ UNCHANGED <<is_checkpoint_enabled, up, wrecked>>

-----------------------------------------------------------------------------
\* alloc_txn

alloc_txn_read(t) ==
    /\ At(t, "alloc_txn_lock")
    /\ superblock_lock = NoOne
    /\ superblock_lock' = t
    /\ working_jobs' = working_jobs + 1
    /\ call' = [call EXCEPT ![t].pc = "alloc_txn_write", ![t].buffer = super]
    /\ UNCHANGED <<files, log, max_txn_id, generating_ckpt, log_entries_num,
                   logsystem_lock, txn_lock, inode_mtx, server, history>>

set_operation(d) == [ZeroBlock EXCEPT !.op = d]

\* The commit mark of an earlier transaction with this id stays.
NewEntry(sup, id, k) ==
    [used |-> sup.used \union {k},
     entry |-> [sup.entry EXCEPT ![id].block = k, ![id].count = 0]]

\* Mutant: max_txn_id stays.
alloc_txn_same_id(t) ==
    LET buffer == call[t].buffer
        k == find_free_log_block(buffer.used, 1)[1]
    IN  /\ At(t, "alloc_txn_write")
        /\ txn_lock[max_txn_id] = NoOne
        /\ super' = NewEntry(buffer, max_txn_id, k)
        /\ logmem' = [logmem EXCEPT ![k] = set_operation(call[t].dir)]
        /\ superblock_lock' = NoOne
        /\ working_jobs' = working_jobs - 1
        /\ call' = [call EXCEPT ![t].pc = "check", ![t].id = max_txn_id,
                                ![t].buffer = NewSuper]
        /\ UNCHANGED <<files, logdisk, max_txn_id, generating_ckpt, log_entries_num,
                       logsystem_lock, txn_lock, inode_mtx, server, history>>

\* The superblock is written and synced; the transaction block gets its
\* operation, in the page cache only.
alloc_txn_write(t) ==
    LET buffer == call[t].buffer
        k == find_free_log_block(buffer.used, 1)[1]
    IN  /\ At(t, "alloc_txn_write")
        /\ txn_lock[max_txn_id] = NoOne
        /\ HasRoom(buffer.used, 1)
        /\ max_txn_id' = max_txn_id + 1
        /\ super' = NewEntry(buffer, max_txn_id, k)
        /\ logmem' = [logmem EXCEPT ![k] = set_operation(call[t].dir)]
        /\ superblock_lock' = NoOne
        /\ working_jobs' = working_jobs - 1
        /\ call' = [call EXCEPT ![t].pc = "check", ![t].id = max_txn_id,
                                ![t].buffer = NewSuper]
        /\ UNCHANGED <<files, logdisk, generating_ckpt, log_entries_num,
                       logsystem_lock, txn_lock, inode_mtx, server, history>>

-----------------------------------------------------------------------------
\* The handler's changes to the file system

\* Writes may fail from the start (may_failed_) and after every recover, which ends
\* with set_may_fail(true), but not in what recover itself runs.
MayFail(t) == ~call[t].redo /\ crashes + refused < MaxFault

\* A handler changes blocks bs in the page cache. When writes may fail every fourth
\* one is refused, so one of them may be.
Wrote(t, bs, c) ==
    /\ \E r \in {{}} \union IF MayFail(t) THEN {{b} : b \in bs} ELSE {} :
          /\ mem' = [b \in Block |-> IF b \in bs \ r THEN mem[b] \union {c} ELSE mem[b]]
          /\ refused' = refused + Cardinality(r)
    /\ disk' = [b \in Block |-> disk[b] \union {mem'[b]}]

\* The name is taken or not there, or no inode or block is left, or remove_file
\* fails half-way: the handler gives up; its transaction stays in the log without
\* entries.
refuse(t) ==
    /\ At(t, "check")
    /\ UNCHANGED files \/ Wrote(t, {Bitmap, Table}, <<call[t].txn, 1>>)
    /\ inode_mtx' = [inode_mtx EXCEPT ![call[t].dir] = NoOne]
    /\ Return(t)
    /\ UNCHANGED <<log, counters, superblock_lock, logsystem_lock, txn_lock,
                   server, history>>

\* alloc_inode or remove_file, under fs_mtx.
change_inode(t) ==
    /\ At(t, "check")
    /\ Wrote(t, {Bitmap, Table}, <<call[t].txn, 1>>)
    /\ Goto(t, "read_images")
    /\ UNCHANGED <<log, counters, locks, server, history>>

\* write_file of the directory, which here takes or frees a data block, as with
\* the first and the last name of a directory. It fails when no block is left
\* or a write is refused, and the handler goes on to log the inode all the same.
write_file(t) ==
    LET d == call[t].dir
        c == <<call[t].txn, 2>>
    IN  /\ At(t, "write_file")
        /\ \/ /\ Wrote(t, {Bitmap, <<d, "inode">>, <<d, "data">>}, c)
              /\ \E failed \in {FALSE, refused' # refused} :
                    call' = [call EXCEPT ![t].pc = "read_images", ![t].part = 2,
                                         ![t].failed = failed]
           \/ /\ call' = [call EXCEPT ![t].pc = "read_images", ![t].part = 2,
                                      ![t].failed = TRUE]
              /\ UNCHANGED files
        /\ UNCHANGED <<log, counters, locks, server, history>>

\* The blocks that the handler gives to append_log, read under logging_mtx.
Images(d, part) ==
    IF part = 1
    THEN <<[block |-> Bitmap, state |-> mem[Bitmap]],
           [block |-> Table, state |-> mem[Table]]>>
    ELSE <<[block |-> <<d, "inode">>, state |-> mem[<<d, "inode">>]]>>

read_images(t) ==
    /\ At(t, "read_images")
    /\ call' = [call EXCEPT ![t].pc = "append_log",
                            ![t].ops = Images(call[t].dir, call[t].part)]
    /\ UNCHANGED <<files, log, counters, locks, server, history>>

-----------------------------------------------------------------------------
\* append_log

\* Mutant: the job is not counted.
append_job_uncounted(t) ==
    /\ At(t, "append_job")
    /\ Goto(t, "append_lock")
    /\ UNCHANGED <<files, log, counters, locks, server, history>>

append_job(t) ==
    /\ At(t, "append_job")
    /\ working_jobs' = working_jobs + 1
    /\ Goto(t, "append_lock")
    /\ UNCHANGED <<files, log, max_txn_id, generating_ckpt, log_entries_num,
                   locks, server, history>>

append_lock(t) ==
    /\ At(t, "append_lock")
    /\ txn_lock[call[t].id] = NoOne
    /\ txn_lock' = [txn_lock EXCEPT ![call[t].id] = t]
    /\ Goto(t, "alloc_log")
    /\ UNCHANGED <<files, log, counters, superblock_lock, logsystem_lock,
                   inode_mtx, server, history>>

alloc_log_read(t) ==
    /\ At(t, "alloc_log")
    /\ superblock_lock = NoOne
    /\ superblock_lock' = t
    /\ call' = [call EXCEPT ![t].pc = "alloc_log_write", ![t].buffer = super]
    /\ UNCHANGED <<files, log, counters, logsystem_lock, txn_lock, inode_mtx,
                   server, history>>

\* Mutant: the new log blocks are not marked.
MoreLogsUnmarked(sup, id, ks) == [sup EXCEPT !.entry[id].count = @ + Len(ks)]

\* The entry counts the new logs before one of them is written.
MoreLogs(sup, id, ks) ==
    [used |-> sup.used \union Elements(ks),
     entry |-> [sup.entry EXCEPT ![id].count = @ + Len(ks)]]

alloc_log_write(t) ==
    LET buffer == call[t].buffer
        ks == find_free_log_block(buffer.used, Len(call[t].ops))
    IN  /\ At(t, "alloc_log_write")
        /\ HasRoom(buffer.used, Len(call[t].ops))
        /\ super' = MoreLogs(buffer, call[t].id, ks)
        /\ superblock_lock' = NoOne
        /\ log_entries_num' = log_entries_num + Len(ks)
        /\ call' = [call EXCEPT ![t].pc = "save_logs", ![t].at = ks,
                                ![t].block = buffer.entry[call[t].id].block,
                                ![t].idx = buffer.entry[call[t].id].count,
                                ![t].buffer = NewSuper]
        /\ UNCHANGED <<files, logmem, logdisk, max_txn_id, generating_ckpt,
                       working_jobs, logsystem_lock, txn_lock, inode_mtx,
                       server, history>>

\* The transaction block with log entries idx + 1, idx + 2 and so on.
WithLogs(block, idx, ops, at) ==
    LET new == idx + 1 .. idx + Len(at)
    IN [block EXCEPT !.logs =
          [i \in DOMAIN @ \union new |->
             IF i \in new THEN [block |-> ops[i - idx].block, at |-> at[i - idx]]
             ELSE @[i]]]

\* The log blocks once the new states and then the transaction block are there.
Saved(image, c) ==
    [k \in LogBlock |->
       IF k = c.block THEN WithLogs(logmem[k], c.idx, c.ops, c.at)
       ELSE IF k \in Elements(c.at)
            THEN [ZeroBlock EXCEPT !.state =
                      c.ops[CHOOSE i \in DOMAIN c.at : c.at[i] = k].state]
            ELSE image[k]]

LeaveAppend(c) ==
    IF c.part = 1 THEN "write_file" ELSE "unlock"

\* The states and the transaction block are written and synced, and append_log
\* returns or goes on to a checkpoint. An entry that a checkpoint has cleared names
\* log block 0: the log entries overwrite the superblock of the log.
save_logs(t) ==
    LET c == call[t]
    IN  /\ At(t, "save_logs")
        /\ IF c.block = 0
           THEN /\ wrecked' = TRUE
                /\ UNCHANGED <<logmem, logdisk, logged>>
           ELSE /\ logmem' = Saved(logmem, c)
                /\ logdisk' = Saved(logdisk, c)
                /\ logged' = logged \union
                       UNION {{c.ops[i].block} \X c.ops[i].state : i \in DOMAIN c.ops}
                /\ UNCHANGED wrecked
        /\ txn_lock' = [txn_lock EXCEPT ![c.id] = NoOne]
        /\ working_jobs' = working_jobs - 1
        /\ call' = [call EXCEPT ![t] =
               [c EXCEPT !.ops = <<>>, !.at = <<>>, !.block = 0, !.idx = 0,
                         !.pc = IF /\ log_entries_num >= kMaxLogSize
                                   /\ is_checkpoint_enabled
                                THEN "checkpoint" ELSE LeaveAppend(c)]]
        /\ UNCHANGED <<files, super, max_txn_id, generating_ckpt, log_entries_num,
                       superblock_lock, logsystem_lock, inode_mtx,
                       is_checkpoint_enabled, recover_operations, up, begun,
                       crashes, recoveries, answered, overlap>>

-----------------------------------------------------------------------------
\* checkpoint

checkpoint(t) ==
    /\ At(t, "checkpoint")
    /\ logsystem_lock = NoOne
    /\ logsystem_lock' = t
    /\ generating_ckpt' = TRUE
    /\ Goto(t, "ckpt_flush")
    /\ UNCHANGED <<files, log, max_txn_id, working_jobs, log_entries_num,
                   superblock_lock, txn_lock, inode_mtx, server, history>>


\* The blocks of the file system are flushed once no job is counted.
ckpt_flush(t) ==
    /\ At(t, "ckpt_flush")
    /\ working_jobs = 0
    /\ disk' = [b \in Block |-> {mem[b]}]
    /\ Goto(t, "ckpt_clear")
    /\ UNCHANGED <<mem, refused, log, counters, locks, server, history>>

\* The log blocks are zeroed and synced in order: first the superblock, ...
ckpt_clear(t) ==
    /\ At(t, "ckpt_clear")
    /\ super' = NewSuper
    /\ Goto(t, "ckpt_zero")
    /\ UNCHANGED <<files, logmem, logdisk, counters, locks, server, history>>

\* ... then the others.
ckpt_zero(t) ==
    /\ At(t, "ckpt_zero")
    /\ logmem' = [k \in LogBlock |-> ZeroBlock]
    /\ logdisk' = logmem'
    /\ max_txn_id' = 0
    /\ log_entries_num' = 0
    /\ generating_ckpt' = FALSE
    /\ logsystem_lock' = NoOne
    /\ Goto(t, LeaveAppend(call[t]))
    /\ UNCHANGED <<files, super, working_jobs, superblock_lock, txn_lock,
                   inode_mtx, server, history>>

-----------------------------------------------------------------------------
\* The end of a handler and commit_log

\* A handler that could not write its directory returns without commit_log.
unlock(t) ==
    /\ At(t, "unlock")
    /\ inode_mtx' = [inode_mtx EXCEPT ![call[t].dir] = NoOne]
    /\ IF call[t].failed THEN Return(t) ELSE Goto(t, "commit_log")
    /\ UNCHANGED <<files, log, counters, superblock_lock, logsystem_lock,
                   txn_lock, server, history>>

commit_job(t) ==
    /\ At(t, "commit_job")
    /\ working_jobs' = working_jobs + 1
    /\ Goto(t, "commit_lock")
    /\ UNCHANGED <<files, log, max_txn_id, generating_ckpt, log_entries_num,
                   locks, server, history>>

commit_read(t) ==
    /\ At(t, "commit_lock")
    /\ superblock_lock = NoOne
    /\ superblock_lock' = t
    /\ call' = [call EXCEPT ![t].pc = "commit_write", ![t].buffer = super]
    /\ UNCHANGED <<files, log, counters, logsystem_lock, txn_lock, inode_mtx,
                   server, history>>

\* The mark is synced and the client has its answer.
commit_write(t) ==
    /\ At(t, "commit_write")
    /\ super' = [call[t].buffer EXCEPT !.entry[call[t].id].commit = TRUE]
    /\ superblock_lock' = NoOne
    /\ working_jobs' = working_jobs - 1
    /\ answered' = answered \union
           {bc \in Block \X Change : bc[2] \in mem[bc[1]] /\ bc[2][1] = call[t].txn}
    /\ Return(t)
    /\ UNCHANGED <<files, logmem, logdisk, max_txn_id, generating_ckpt,
                   log_entries_num, logsystem_lock, txn_lock, inode_mtx, server,
                   begun, crashes, recoveries, logged, overlap>>

-----------------------------------------------------------------------------
\* Crash and recover

\* The machine stops and its page cache is gone. A log block that was not synced is
\* left in the old or in the new state; the next server has a new CommitLog. (With
\* generating_ckpt true it would serve no call, as some states of Init do.)
crash ==
    /\ up /\ crashes + refused < MaxFault
    /\ crashes' = crashes + 1
    /\ mem' = [b \in Block |-> {}]
    /\ \E lost \in SUBSET {k \in LogBlock : logmem[k] # logdisk[k]} :
           logmem' = [k \in LogBlock |-> IF k \in lost THEN logdisk[k] ELSE logmem[k]]
    /\ logdisk' = logmem'
    /\ max_txn_id' = 0 /\ working_jobs' = 0 /\ log_entries_num' = 0
    /\ generating_ckpt' = FALSE
    /\ superblock_lock' = NoOne /\ logsystem_lock' = NoOne
    /\ txn_lock' = [i \in TxnId |-> NoOne]
    /\ inode_mtx' = [d \in Dir |-> NoOne]
    /\ recover_operations' = <<>>
    /\ call' = [t \in Thread |-> NoCall]
    /\ up' = FALSE
    /\ UNCHANGED <<disk, refused, super, is_checkpoint_enabled, wrecked, begun, recoveries,
                   logged, answered, overlap>>

\* The transactions in the superblock, up to the first entry without a block.
TxnCount(sup) ==
    CHOOSE n \in TxnId : /\ sup.entry[n].block = 0
                         /\ \A i \in 0 .. n - 1 : sup.entry[i].block # 0

\* recover looks at the count (byte 2) where it wants the commit mark (byte 3).
HasCommit(entry) == entry.count # 0

\* What recover_tx reads at log entry i of a transaction: zeros if it was never
\* written, and of the log block number the low byte only.
LogAt(entry, i) ==
    LET logs == logmem[entry.block].logs
    IN IF i \in DOMAIN logs
       THEN [block |-> logs[i].block, at |-> logs[i].at % ByteSize]
       ELSE [block |-> NoOne, at |-> 0]

recover_tx(entry) == [i \in 1 .. entry.count |-> LogAt(entry, i)]

\* What recover replays of transaction n.
Redo(sup, n) == IF HasCommit(sup.entry[n]) THEN recover_tx(sup.entry[n]) ELSE <<>>


\* The log entries recover replays, in the order of the transaction ids.
Replay(sup) ==
    LET upto[n \in 0 .. TxnCount(sup)] ==
            IF n = 0 THEN <<>> ELSE upto[n - 1] \o Redo(sup, n - 1)
    IN  upto[TxnCount(sup)]

\* The page cache recover starts from: after a crash each block that it does not
\* overwrite has one of the states it may have on the disk.
Cached(bs) ==
    LET choices[S \in SUBSET bs] ==
            IF S = {} THEN {mem}
            ELSE LET b == CHOOSE x \in S : TRUE
                 IN {[f EXCEPT ![b] = v] : f \in choices[S \ {b}], v \in disk[b]}
    IN  IF up THEN {mem} ELSE choices[bs]

\* A block has the state of the last log entry for it.
Copied(m, replay) ==
    [b \in Block |->
       LET for == {i \in DOMAIN replay : replay[i].block = b}
       IN IF for = {} THEN m[b]
          ELSE logmem[replay[CHOOSE i \in for : \A j \in for : j <= i].at].state]

get_operation(k) == logmem[k].op

\* CommitLog::recover: replay what is logged, collect the operations that have
\* no log entry. A zero entry copies the superblock of the log over block 0.
recover ==
    LET replay == Replay(super)
        written == {l.block : l \in Elements(replay)}
        pending == SelectSeq([n \in 1 .. TxnCount(super) |-> super.entry[n - 1]],
                             LAMBDA e : ~HasCommit(e))
    IN  /\ recoveries < MaxRecover
        /\ recover_operations = <<>>
        /\ \A t \in Thread : At(t, "idle")
        /\ recoveries' = recoveries + 1
        /\ up' = TRUE
        /\ max_txn_id' = TxnCount(super)
        /\ IF \E l \in Elements(replay) : l.at = 0
           THEN /\ wrecked' = TRUE
                /\ UNCHANGED <<mem, disk, recover_operations, logged>>
           ELSE /\ mem' \in {Copied(m, replay) : m \in Cached(Block \ written)}
                /\ disk' = [b \in Block |->
                       IF b \in written
                       THEN disk[b] \union {logmem[l.at].state :
                                             l \in {r \in Elements(replay) : r.block = b}}
                       ELSE IF up THEN disk[b] ELSE {mem'[b]}]
                /\ recover_operations' =
                       [n \in DOMAIN pending |-> get_operation(pending[n].block)]
                /\ logged' = {bc \in logged : bc[2] \in mem'[bc[1]]}
                /\ UNCHANGED wrecked
        /\ UNCHANGED <<refused, log, generating_ckpt, working_jobs, log_entries_num, locks,
                       is_checkpoint_enabled, call, begun, crashes, answered, overlap>>

-----------------------------------------------------------------------------

\* What a thread does inside a handler.
Step(t) ==
    \/ Pass(t, "alloc_txn", "alloc_txn_lock")
    \/ alloc_txn_read(t)
    \/ alloc_txn_write(t)
    \/ refuse(t)
    \/ change_inode(t)
    \/ read_images(t)
    \/ Pass(t, "append_log", "append_job")
    \/ append_job(t)
    \/ append_lock(t)
    \/ alloc_log_read(t)
    \/ alloc_log_write(t)
    \/ save_logs(t)
    \/ checkpoint(t)
    \/ ckpt_flush(t)
    \/ ckpt_clear(t)
    \/ ckpt_zero(t)
    \/ write_file(t)
    \/ unlock(t)
    \/ Pass(t, "commit_log", "commit_job")
    \/ commit_job(t)
    \/ commit_read(t)
    \/ commit_write(t)

Next ==
    /\ ~wrecked
    /\ \/ \E t \in Thread : Step(t) \/ request(t) \/ redo_operation(t)
       \/ crash
       \/ recover

Spec == Init /\ [][Next]_vars

-----------------------------------------------------------------------------
\* Properties

Pc == {"idle", "alloc_txn", "alloc_txn_lock", "alloc_txn_write", "check",
       "read_images", "append_log", "append_job", "append_lock",
       "alloc_log", "alloc_log_write", "save_logs", "checkpoint",
       "ckpt_flush", "ckpt_clear", "ckpt_zero", "write_file", "unlock",
       "commit_log", "commit_job", "commit_lock", "commit_write"}

SuperBlock == [used: SUBSET LogBlock,
               entry: [TxnId -> [block: LogBlock \union {0}, count: Nat,
                                 commit: BOOLEAN]]]

IsLogBlock(k) ==
    /\ k.op \in Dir \union {NoOne}
    /\ k.state \subseteq Change
    /\ \A i \in DOMAIN k.logs : k.logs[i].block \in Block /\ k.logs[i].at \in LogBlock

\* The counters, the mutexes and what is on the disk are of their types.
TypeOK ==
    /\ mem \in [Block -> SUBSET Change]
    /\ \A b \in Block : disk[b] \subseteq SUBSET Change /\ disk[b] # {}
    /\ super \in SuperBlock
    /\ \A k \in LogBlock : IsLogBlock(logmem[k]) /\ IsLogBlock(logdisk[k])
    /\ max_txn_id \in TxnId /\ log_entries_num \in Nat
    /\ working_jobs \in 0 .. Cardinality(Thread)
    /\ {superblock_lock, logsystem_lock} \subseteq Thread \union {NoOne}
    /\ txn_lock \in [TxnId -> Thread \union {NoOne}]
    /\ inode_mtx \in [Dir -> Thread \union {NoOne}]
    /\ \A t \in Thread : call[t].pc \in Pc /\ call[t].buffer \in SuperBlock
    /\ Elements(recover_operations) \subseteq Dir \union {NoOne}
    /\ logged \union answered \subseteq Block \X Change

\* The log blocks that transaction i occupies: its own and those of its entries.
Uses(i) ==
    {super.entry[i].block} \union
    {logmem[super.entry[i].block].logs[n].at : n \in DOMAIN logmem[super.entry[i].block].logs}

\* Without checkpoints no log block serves two transactions, none holds two
\* states or a state and the entries of a transaction, and each is marked:
\* alloc_txn and alloc_log of concurrent handlers never give out a block twice,
\* and neither does a server that has crashed and recovered.
LogBlocksHaveOneUse ==
    ~is_checkpoint_enabled =>
        \A i \in 0 .. TxnCount(super) - 1 :
            LET k == super.entry[i].block
            IN /\ Uses(i) \subseteq super.used
               /\ Cardinality(Uses(i)) = 1 + Cardinality(DOMAIN logmem[k].logs)
               /\ \A j \in 0 .. i - 1 : Uses(i) \cap Uses(j) = {}

\* Change c of block b is in a log entry that recover would replay.
InLog(b, c) ==
    \E i \in 0 .. TxnCount(super) - 1 :
        LET logs == logdisk[super.entry[i].block].logs
        IN \E n \in 1 .. super.entry[i].count :
               /\ n \in DOMAIN logs
               /\ logs[n].block = b
               /\ c \in logdisk[logs[n].at % ByteSize].state



\* The thread that t waits for at a mutex of the log.
WaitsFor(t) ==
    (CASE call[t].pc \in {"alloc_txn_lock", "alloc_log", "commit_lock"} -> {superblock_lock}
       [] At(t, "alloc_txn_write") -> {txn_lock[max_txn_id]}
       [] At(t, "append_lock") -> {txn_lock[call[t].id]}
       [] OTHER -> {}) \ {NoOne}

\* alloc_txn takes superblock_lock and then the lock of a transaction, append_log
\* the two in the other order. Without checkpoints this is harmless: the holder
\* of superblock_lock never waits, because the lock of the next transaction is
\* free. (A checkpoint starts the ids again while the old locks may be held.)
SuperblockHolderRuns ==
    ~is_checkpoint_enabled /\ superblock_lock # NoOne => WaitsFor(superblock_lock) = {}

\* docs/lab2/lab2.md: recover shall "redo the operation for all-or-nothing
\* atomicity". Once recover is done, every change of an answered call is there.
AnsweredSurvives ==
    up /\ recover_operations = <<>> /\ recoveries > 0 /\ ~wrecked =>
        \A bc \in answered : bc[2] \in mem[bc[1]]
=============================================================================
