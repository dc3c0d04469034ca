-------------------------- MODULE CommitLogProofs ---------------------------
(***************************************************************************)
(* Theorems about CommitLog without checkpoints, for every set of threads  *)
(* and directories and every size of the log: log blocks have one use, the *)
(* holder of superblock_lock never waits, and what append_log has returned *)
(* for stays in the log on the disk, through crashes and recovers.         *)
(***************************************************************************)
EXTENDS CommitLogFacts

-----------------------------------------------------------------------------
\* Steps that change the log or the numbers of the transactions

\* The types of the values that LogInv is about.
LEMMA LogTypes ==
    ASSUME super \in SuperBlock
    PROVE  /\ TxnBlocks \in [TxnId -> LogBlock \union {0}] /\ TxnCounts \in [TxnId -> Nat]
           /\ super.used \in SUBSET LogBlock
           /\ \A i \in TxnId : /\ TxnBlocks[i] = super.entry[i].block
                               /\ TxnCounts[i] = super.entry[i].count
BY DEF SuperBlock, TxnBlocks, TxnCounts

\* What the invariant says of a handler that is not idle.
LEMMA Handler ==
    ASSUME Inv, NEW t \in Thread, call[t].pc # "idle"
    PROVE  /\ DOMAIN call[t] = Fields /\ call = [u \in Thread |-> call[u]]
           /\ up /\ max_txn_id \in Nat /\ begun \in 0 .. MaxTxn /\ MaxTxn \in Nat
           /\ max_txn_id <= begun
           /\ Waiting(call[t]) => max_txn_id < begun
           /\ Writing(call[t]) => superblock_lock = t /\ call[t].buffer = super
           /\ Open(call[t]) => call[t].id \in TxnId /\ call[t].id \in Filled(TxnBlocks)
           /\ \A u \in Thread : u # t /\ Open(call[t]) /\ Open(call[u]) => call[u].id # call[t].id
           /\ \A i \in TxnId : txn_lock[i] = t => Appending(call[t]) /\ call[t].id = i
           /\ t # NoOne
<1>1. /\ DOMAIN call[t] = Fields /\ call = [u \in Thread |-> call[u]]
      /\ up /\ max_txn_id \in Nat /\ begun \in 0 .. MaxTxn
      /\ Writing(call[t]) => superblock_lock = t /\ call[t].buffer = super
      /\ \A u \in Thread : Open(call[t]) /\ Open(call[u]) /\ call[t].id = call[u].id => t = u
      /\ Open(call[t]) => call[t].id \in 0 .. max_txn_id - 1
      /\ \A i \in TxnId : txn_lock[i] = t => Appending(call[t]) /\ call[t].id = i
  BY Zenon DEF Inv, Shapes, Numbers, Handlers, Local
<1>2. MaxTxn \in Nat
  BY BoundAssumption
<1>3. IsFiniteSet(Pending) /\ max_txn_id + Cardinality(Pending) <= begun
  BY Zenon DEF Inv, Numbers
<1>4. Cardinality(Pending) \in Nat
  BY <1>3, FS_CardinalityType
<1>5. max_txn_id <= begun
  BY <1>1, <1>2, <1>3, <1>4
<1>6. ASSUME Waiting(call[t]) PROVE max_txn_id < begun
  <2>1. Pending # {}
    BY <1>6, Zenon DEF Pending
  <2>2. Cardinality(Pending) # 0
    BY <1>3, <2>1, FS_EmptySet, Zenon
  <2> QED BY <1>1, <1>2, <1>3, <1>4, <2>2
<1>7. ASSUME Open(call[t]) PROVE call[t].id \in TxnId /\ call[t].id \in Filled(TxnBlocks)
  <2>1. Filled(TxnBlocks) = 0 .. max_txn_id - 1
    BY <1>1, Zenon DEF Inv, Numbers
  <2>2. call[t].id \in Filled(TxnBlocks)
    BY <1>1, <1>7, <2>1, Zenon
  <2> QED BY <2>2, Zenon DEF Filled
<1>8. t # NoOne
  BY NoOneAssumption, SMTT(40)
<1> QED BY <1>1, <1>2, <1>5, <1>6, <1>7, <1>8, Zenon

\* Nothing the invariant is about changes.
LEMMA Still ==
    ASSUME Inv, LogStays, UNCHANGED <<call, superblock_lock, txn_lock>>
    PROVE  Inv'
BY DEF Inv, LogStays, Shapes, Synced, Numbers, Handlers, LogInv, TxnBlocks, TxnCounts,
       LogsIn, StatesIn, Pending

\* A handler begins without a transaction.
LEMMA BeginInv ==
    ASSUME Inv, NEW t \in Thread, NEW d, NEW redo, Begin(t, d, redo), up, up' = up
    PROVE  Inv'
<1>1. /\ UNCHANGED <<super, logmem, logdisk, max_txn_id, superblock_lock, txn_lock, logged>>
      /\ call[t].pc = "idle" /\ begun < MaxTxn /\ begun' = begun + 1
  BY DEF Begin, At, log, counters
<1> DEFINE r == [NoCall EXCEPT !.pc = "alloc_txn", !.dir = d, !.txn = begun + 1, !.redo = redo]
<1>2. call' = [call EXCEPT ![t] = r]
  BY Zenon DEF Begin
<1>3. DOMAIN NoCall = Fields
  BY DEF NoCall, Fields
<1>4. DOMAIN r = Fields /\ r.pc = "alloc_txn"
  BY <1>3, ZenonT(30) DEF Fields
<1> HIDE DEF r
<1>5. /\ call' = [u \in Thread |-> call'[u]] /\ call'[t] = r
      /\ \A u \in Thread : u # t => call'[u] = call[u]
  BY <1>2, Zenon DEF Inv, Shapes
<1>6. /\ ~Waiting(call[t]) /\ ~Writing(call[t]) /\ ~Appending(call[t])
      /\ Waiting(r) /\ ~Writing(r) /\ ~Appending(r) /\ ~HasImages(r) /\ ~Open(r) /\ ~Saving(r)
  BY <1>1, <1>4 DEF Waiting, Writing, Appending, Open, HasImages, Saving
<1>7. Handlers(call, superblock_lock, txn_lock, super, max_txn_id, up)
  BY Zenon DEF Inv
<1>8. Handlers(call', superblock_lock, txn_lock, super, max_txn_id, up)
  <2>1. Local(r)
    BY <1>4, <1>6 DEF Local, Pc
  <2>2. superblock_lock # t /\ \A i \in TxnId : txn_lock[i] # t
    BY <1>6, <1>7, Zenon DEF Handlers
  <2>3. max_txn_id \in Nat /\ max_txn_id <= max_txn_id
    BY DEF Inv, Numbers
  <2>4. HandMove(t, call, superblock_lock, txn_lock, super, max_txn_id,
                 call', superblock_lock, txn_lock, super, max_txn_id)
    BY <1>5, <1>6, <2>1, <2>2, <2>3, Zenon DEF HandMove
  <2> QED BY <1>7, <2>4, HandStep, Zenon
<1>9. /\ TxnBlocks' = TxnBlocks /\ TxnCounts' = TxnCounts
      /\ LogsIn' = LogsIn /\ StatesIn' = StatesIn
  BY <1>1 DEF TxnBlocks, TxnCounts, LogsIn, StatesIn
<1>10. LogInv(TxnBlocks, TxnCounts, super.used, LogsIn, StatesIn, call', logged)
  <2>1. \A u \in Thread : Saving(call'[u]) => call'[u] = call[u]
    BY <1>5, <1>6, Zenon
  <2>2. LogInv(TxnBlocks, TxnCounts, super.used, LogsIn, StatesIn, call, logged)
        /\ logged \subseteq logged
    BY Zenon DEF Inv
  <2> QED BY <2>1, <2>2, LogKeep, Zenon
<1>11. Numbers'
  <2>1. /\ begun \in 0 .. MaxTxn /\ max_txn_id \in Nat
        /\ IsFiniteSet(Pending) /\ max_txn_id + Cardinality(Pending) <= begun
        /\ \A i \in Filled(TxnBlocks) : i < begun
        /\ \A i \in Filled(TxnBlocks) : \A j \in TxnId : j < i => j \in Filled(TxnBlocks)
        /\ up => Filled(TxnBlocks) = 0 .. max_txn_id - 1
    BY Zenon DEF Inv, Numbers
  <2>2. Pending' = Pending \union {t} /\ t \notin Pending
    BY <1>5, <1>6 DEF Pending
  <2>3. /\ IsFiniteSet(Pending') /\ Cardinality(Pending') = Cardinality(Pending) + 1
        /\ Cardinality(Pending) \in Nat
    BY <2>1, <2>2, FS_AddElement, FS_CardinalityType
  <2>4. begun' \in 0 .. MaxTxn /\ max_txn_id + Cardinality(Pending') <= begun'
    BY <1>1, <2>1, <2>3, BoundAssumption, SMTT(40)
  <2>5. \A i \in Filled(TxnBlocks) : i < begun'
    <3>1. \A i \in Filled(TxnBlocks) : i \in Int
      BY DEF Filled, TxnId
    <3> QED BY <1>1, <2>1, <3>1
  <2> QED BY <1>1, <1>9, <2>1, <2>3, <2>4, <2>5, Zenon DEF Numbers
<1>12. Shapes'
  BY <1>1, <1>5, Zenon DEF Inv, Shapes
<1>13. Synced'
  BY <1>1, Zenon DEF Inv, Synced
<1> QED BY <1>1, <1>8, <1>9, <1>10, <1>11, <1>12, <1>13, Zenon DEF Inv

\* Requests, and the operations that recover has collected, start handlers.
LEMMA StartInv ==
    ASSUME Inv, NEW t \in Thread, request(t) \/ redo_operation(t)
    PROVE  Inv'
<1>1. up /\ up' = up
  BY Zenon DEF request, redo_operation, server
<1>2. CASE \E d, redo : Begin(t, d, redo)
  BY <1>1, <1>2, BeginInv, Zenon
<1>3. CASE UNCHANGED <<log, counters, locks, history, call>>
  <2>1. LogStays /\ UNCHANGED <<call, superblock_lock, txn_lock>>
    BY <1>1, <1>3 DEF LogStays, log, counters, locks, history
  <2> QED BY <2>1, Still
<1>4. (\E d, redo : Begin(t, d, redo)) \/ UNCHANGED <<log, counters, locks, history, call>>
  BY Zenon DEF request, redo_operation
<1> QED BY <1>2, <1>3, <1>4

-----------------------------------------------------------------------------
\* The commit mark changes neither the block nor the count of a transaction.
LEMMA CommitWriteInv ==
    ASSUME Inv, NEW t \in Thread, commit_write(t)
    PROVE  Inv'
<1>1. /\ UNCHANGED <<logmem, logdisk, max_txn_id, txn_lock, up, begun, logged>>
      /\ call[t].pc = "commit_write" /\ superblock_lock' = NoOne
      /\ super' = [call[t].buffer EXCEPT !.entry[call[t].id].commit = TRUE]
      /\ Return(t)
  BY DEF commit_write, At, server
<1>2. Moves(t, "idle")
  BY <1>1, ReturnMoves, Zenon
<1>3. /\ ~Waiting(call[t]) /\ Writing(call[t]) /\ ~Appending(call[t]) /\ Open(call[t])
      /\ ~Waiting(call'[t]) /\ ~Writing(call'[t]) /\ ~Appending(call'[t])
      /\ ~HasImages(call'[t]) /\ ~Open(call'[t]) /\ ~Saving(call'[t])
  BY <1>1, <1>2 DEF Moves, Waiting, Writing, Appending, Open, HasImages, Saving
<1> DEFINE id == call[t].id
<1>4. superblock_lock = t /\ call[t].buffer = super /\ id \in TxnId /\ t # NoOne
      /\ up /\ max_txn_id \in Nat /\ \A i \in TxnId : txn_lock[i] # t
  BY <1>1, <1>3, Handler, Zenon
<1>5. super \in SuperBlock
  BY Zenon DEF Inv, Shapes
<1>6. super' = [super EXCEPT !.entry[id].commit = TRUE]
  BY <1>1, <1>4, Zenon
<1> HIDE DEF id
<1>7. /\ super' \in SuperBlock /\ super'.used = super.used
      /\ \A i \in TxnId : /\ super'.entry[i].block = super.entry[i].block
                          /\ super'.entry[i].count = super.entry[i].count
  <2>1. /\ super.used \in SUBSET LogBlock
        /\ super.entry \in [TxnId -> [block: LogBlock \union {0}, count: Nat, commit: BOOLEAN]]
    BY <1>5 DEF SuperBlock
  <2>2. super' = [used |-> super.used, entry |-> [super.entry EXCEPT ![id].commit = TRUE]]
    BY <1>5, <1>6, Zenon DEF SuperBlock
  <2>3. super'.used = super.used /\ super'.entry = [super.entry EXCEPT ![id].commit = TRUE]
    BY <2>2
  <2>4. \A i \in TxnId : /\ super'.entry[i].block = super.entry[i].block
                         /\ super'.entry[i].count = super.entry[i].count
    BY <1>4, <2>1, <2>3
  <2>5. super'.entry \in [TxnId -> [block: LogBlock \union {0}, count: Nat, commit: BOOLEAN]]
    BY <1>4, <2>1, <2>3, ZenonT(40)
  <2>6. super' \in SuperBlock
    BY <2>1, <2>2, <2>3, <2>5 DEF SuperBlock
  <2> QED BY <2>3, <2>4, <2>6
<1>8. /\ TxnBlocks' = TxnBlocks /\ TxnCounts' = TxnCounts
      /\ LogsIn' = LogsIn /\ StatesIn' = StatesIn
  BY <1>1, <1>7, Zenon DEF TxnBlocks, TxnCounts, LogsIn, StatesIn
<1>9. Handlers(call', superblock_lock', txn_lock, super', max_txn_id, up)
  <2>1. Local(call'[t])
    BY <1>2, <1>3 DEF Local, Pc, Moves
  <2>2. /\ \A u \in Thread : u # t => call'[u] = call[u]
        /\ \A u \in Thread : u # t => (superblock_lock' = u <=> superblock_lock = u)
        /\ max_txn_id <= max_txn_id
        /\ superblock_lock' # t
    <3>1. \A u \in Thread : u # NoOne
      BY NoOneAssumption
    <3> QED BY <1>1, <1>2, <1>4, <3>1 DEF Moves
  <2>3. HandMove(t, call, superblock_lock, txn_lock, super, max_txn_id,
                 call', superblock_lock', txn_lock, super', max_txn_id)
    BY <1>3, <1>4, <2>1, <2>2, Zenon DEF HandMove
  <2>4. Handlers(call, superblock_lock, txn_lock, super, max_txn_id, up)
    BY Zenon DEF Inv
  <2> QED BY <1>4, <2>3, <2>4, HandStep, Zenon
<1>10. Pending' = Pending
  BY <1>2, <1>3 DEF Pending, Moves
<1>11. Numbers'
  BY <1>1, <1>8, <1>10, Zenon DEF Inv, Numbers
<1>12. LogInv(TxnBlocks, TxnCounts, super.used, LogsIn, StatesIn, call', logged)
  <2>1. \A u \in Thread : Saving(call'[u]) => call'[u] = call[u]
    BY <1>2, <1>3, Zenon DEF Moves
  <2>2. LogInv(TxnBlocks, TxnCounts, super.used, LogsIn, StatesIn, call, logged)
        /\ logged \subseteq logged
    BY Zenon DEF Inv
  <2> QED BY <2>1, <2>2, LogKeep, Zenon
<1>13. Shapes'
  <2>1. superblock_lock' \in Thread \union {NoOne}
    BY <1>1
  <2> QED BY <1>1, <1>2, <1>7, <2>1, ZenonT(40) DEF Inv, Shapes, Moves
<1>14. Synced'
  BY <1>1, ZenonT(40) DEF Inv, Synced
<1>15. Handlers(call', superblock_lock', txn_lock', super', max_txn_id', up')
  BY <1>1, <1>9, SMTT(40)
<1>16. LogInv(TxnBlocks', TxnCounts', super'.used, LogsIn', StatesIn', call', logged')
  BY <1>1, <1>7, <1>8, <1>12
<1> QED BY <1>11, <1>13, <1>14, <1>15, <1>16, Zenon DEF Inv

\* alloc_txn: the next transaction gets a log block.
LEMMA AllocTxnInv ==
    ASSUME Inv, NEW t \in Thread, alloc_txn_write(t)
    PROVE  Inv'
<1> DEFINE id == max_txn_id
           f == find_free_log_block(super.used, 1)
           k == f[1]
           r == [call[t] EXCEPT !.pc = "check", !.id = id, !.buffer = NewSuper]
<1>1. call[t].pc = "alloc_txn_write"
  BY DEF alloc_txn_write, At
<1>2. Waiting(call[t]) /\ Writing(call[t]) /\ ~Appending(call[t])
  BY <1>1 DEF Waiting, Writing, Appending
<1>3. /\ superblock_lock = t /\ call[t].buffer = super /\ t # NoOne /\ up
      /\ id \in Nat /\ begun \in 0 .. MaxTxn /\ MaxTxn \in Nat /\ id < begun
      /\ call = [u \in Thread |-> call[u]] /\ DOMAIN call[t] = Fields
      /\ \A i \in TxnId : txn_lock[i] # t
  BY <1>1, <1>2, Handler, Zenon
<1>4. /\ UNCHANGED <<logdisk, txn_lock, up, begun, logged>>
      /\ superblock_lock' = NoOne /\ max_txn_id' = id + 1 /\ HasRoom(super.used, 1)
      /\ super' = NewEntry(super, id, k)
      /\ logmem' = [logmem EXCEPT ![k] = set_operation(call[t].dir)]
  BY <1>3 DEF alloc_txn_write, server, history
<1>5. call' = [call EXCEPT ![t] = r]
  BY Zenon DEF alloc_txn_write
<1>6. super \in SuperBlock
  BY Zenon DEF Inv, Shapes
<1>7. k \in LogBlock /\ k \notin super.used
  <2>1. super.used \in SUBSET LogBlock
    BY <1>6, LogTypes
  <2>2. f \in [1 .. 1 -> LogBlock \ super.used]
    BY <1>4, <2>1, FindFree
  <2> QED BY <2>2
<1>8. id \in TxnId
  BY <1>3 DEF TxnId
<1>9. DOMAIN r = Fields /\ r.pc = "check" /\ r.id = id
  BY <1>3, ZenonT(30) DEF Fields
<1> HIDE DEF k, r, f
<1>10. /\ call' = [u \in Thread |-> call'[u]] /\ call'[t] = r
       /\ \A u \in Thread : u # t => call'[u] = call[u]
  BY <1>3, <1>5, Zenon
<1>11. /\ ~Waiting(r) /\ ~Writing(r) /\ ~Appending(r) /\ ~HasImages(r) /\ ~Saving(r)
  BY <1>9 DEF Waiting, Writing, Appending, HasImages, Saving
<1>12. /\ super' \in SuperBlock /\ super'.used = super.used \union {k}
       /\ TxnBlocks' = [TxnBlocks EXCEPT ![id] = k]
       /\ TxnCounts' = [TxnCounts EXCEPT ![id] = 0]
  <2>1. /\ super' = [used |-> super.used \union {k},
                     entry |-> [super.entry EXCEPT ![id].block = k, ![id].count = 0]]
    BY <1>4, Zenon DEF NewEntry
  <2>2. super' \in SuperBlock
    BY <1>6, <1>7, <1>8, <2>1 DEF SuperBlock
  <2>3. \A i \in TxnId : /\ super'.entry[i].block = IF i = id THEN k ELSE super.entry[i].block
                         /\ super'.entry[i].count = IF i = id THEN 0 ELSE super.entry[i].count
    BY <1>6, <1>8, <2>1 DEF SuperBlock
  <2>4. super'.used = super.used \union {k}
    BY <2>1
  <2>5. /\ TxnBlocks' = [TxnBlocks EXCEPT ![id] = k]
        /\ TxnCounts' = [TxnCounts EXCEPT ![id] = 0]
    BY <1>8, <2>3, Zenon DEF TxnBlocks, TxnCounts
  <2> QED BY <2>2, <2>4, <2>5, Zenon
<1>13. LogInv(TxnBlocks, TxnCounts, super.used, LogsIn, StatesIn, call, logged)
  BY Zenon DEF Inv
<1>14. /\ logmem = [j \in LogBlock |-> logmem[j]] /\ DOMAIN logmem[k] = {"op", "logs", "state"}
       /\ logmem[k].logs = <<>> /\ logmem[k].state = {}
  <2>1. logmem = [j \in LogBlock |-> logmem[j]] /\ DOMAIN logmem[k] = {"op", "logs", "state"}
    BY <1>7, Zenon DEF Inv, Shapes
  <2>2. LogsIn[k] = <<>> /\ StatesIn[k] = {}
    BY <1>7, <1>13, Zenon DEF LogInv, Unused
  <2> QED BY <1>7, <2>1, <2>2 DEF LogsIn, StatesIn
<1>15. /\ logmem' = [j \in LogBlock |-> logmem'[j]]
       /\ \A j \in LogBlock : /\ DOMAIN logmem'[j] = {"op", "logs", "state"}
                              /\ logmem'[j].logs = logmem[j].logs
                              /\ logmem'[j].state = logmem[j].state
  <2>1. /\ logmem' = [j \in LogBlock |-> logmem'[j]]
        /\ logmem'[k] = set_operation(call[t].dir)
        /\ \A j \in LogBlock : j # k => logmem'[j] = logmem[j]
    BY <1>4, <1>7, <1>14, Zenon
  <2>2. ASSUME NEW d
        PROVE  /\ DOMAIN set_operation(d) = {"op", "logs", "state"}
               /\ set_operation(d).logs = <<>> /\ set_operation(d).state = {}
    BY DEF set_operation, ZeroBlock
  <2>3. \A j \in LogBlock : DOMAIN logmem[j] = {"op", "logs", "state"}
    BY Zenon DEF Inv, Shapes
  <2> QED BY <1>14, <2>1, <2>2, <2>3, ZenonT(40)
<1>16. LogsIn' = LogsIn /\ StatesIn' = StatesIn
  BY <1>15 DEF LogsIn, StatesIn
<1>17. Filled(TxnBlocks) = 0 .. id - 1 /\ TxnBlocks[id] = 0
  <2>1. Filled(TxnBlocks) = 0 .. id - 1
    BY <1>3, Zenon DEF Inv, Numbers
  <2>2. id \notin Filled(TxnBlocks)
    BY <1>3, <2>1
  <2> QED BY <1>8, <2>1, <2>2, Zenon DEF Filled
<1>18. LogInv(TxnBlocks', TxnCounts', super'.used, LogsIn', StatesIn', call', logged')
  <2>1. \A u \in Thread : Saving(call'[u]) => call'[u] = call[u]
    BY <1>10, <1>11, Zenon
  <2>2. /\ TxnBlocks \in [TxnId -> LogBlock \union {0}] /\ TxnCounts \in [TxnId -> Nat]
        /\ super.used \in SUBSET LogBlock
    BY <1>6, LogTypes
  <2>3. LogInv(TxnBlocks', TxnCounts', super.used \union {k}, LogsIn, StatesIn, call', logged)
    BY <1>7, <1>8, <1>12, <1>13, <1>17, <2>1, <2>2, LogNewTxn, ZenonT(40)
  <2> QED BY <1>4, <1>12, <1>16, <2>3
<1>19. Handlers(call', superblock_lock', txn_lock', super', max_txn_id', up')
  <2>1. Local(call'[t])
    BY <1>9, <1>10, <1>11 DEF Local, Pc
  <2>2. /\ \A u \in Thread : u # t => (superblock_lock' = u <=> superblock_lock = u)
        /\ id + 1 \in Nat /\ id <= id + 1 /\ superblock_lock' # t
    <3>1. \A u \in Thread : u # NoOne
      BY NoOneAssumption
    <3> QED BY <1>3, <1>4, <3>1
  <2>3. HandMove(t, call, superblock_lock, txn_lock, super, id,
                 call', superblock_lock', txn_lock, super', id + 1)
    BY <1>3, <1>9, <1>10, <1>11, <2>1, <2>2, ZenonT(40) DEF HandMove
  <2>4. Handlers(call, superblock_lock, txn_lock, super, id, up)
    BY Zenon DEF Inv
  <2>5. Handlers(call', superblock_lock', txn_lock, super', id + 1, up)
    BY <1>3, <2>3, <2>4, HandStep, Zenon
  <2> QED BY <1>4, <2>5
<1>20. Numbers'
  <2>1. /\ IsFiniteSet(Pending) /\ id + Cardinality(Pending) <= begun
        /\ \A i \in Filled(TxnBlocks) : i < begun
    BY Zenon DEF Inv, Numbers
  <2>2. Pending' = Pending \ {t} /\ t \in Pending
    BY <1>2, <1>10, <1>11 DEF Pending
  <2>3. /\ IsFiniteSet(Pending') /\ Cardinality(Pending') = Cardinality(Pending) - 1
        /\ Cardinality(Pending) \in Nat
    BY <2>1, <2>2, FS_RemoveElement, FS_CardinalityType
  <2>4. max_txn_id' \in Nat /\ max_txn_id' + Cardinality(Pending') <= begun'
    BY <1>3, <1>4, <2>1, <2>3
  <2>5. Filled(TxnBlocks') = 0 .. max_txn_id' - 1
    <3>1. k # 0
      BY <1>7, LogAssumption DEF LogBlock
    <3>2. Filled(TxnBlocks') = Filled(TxnBlocks) \union {id}
      BY <1>8, <1>12, <3>1 DEF Filled, TxnBlocks
    <3> QED BY <1>3, <1>4, <1>17, <3>2
  <2>6. /\ \A i \in 0 .. id : i < begun
        /\ \A i \in 0 .. id : \A j \in TxnId : j < i => j \in 0 .. id
    BY <1>3 DEF TxnId
  <2>7. 0 .. max_txn_id' - 1 = 0 .. id
    BY <1>3, <1>4
  <2>8. /\ \A i \in Filled(TxnBlocks') : i < begun'
        /\ \A i \in Filled(TxnBlocks') : \A j \in TxnId : j < i => j \in Filled(TxnBlocks')
    BY <1>4, <2>5, <2>6, <2>7, ZenonT(40)
  <2> QED BY <1>3, <1>4, <2>3, <2>4, <2>5, <2>8, SMTT(40) DEF Numbers
<1>21. Shapes'
  <2>1. superblock_lock' \in Thread \union {NoOne}
    BY <1>4
  <2> QED BY <1>4, <1>10, <1>12, <1>15, <2>1, Zenon DEF Inv, Shapes
<1>22. Synced'
  BY <1>4, <1>15, ZenonT(40) DEF Inv, Synced
<1> QED BY <1>18, <1>19, <1>20, <1>21, <1>22, ZenonT(40) DEF Inv

-----------------------------------------------------------------------------
\* alloc_log: the handler gets log blocks, and the superblock counts them.
LEMMA AllocLogInv ==
    ASSUME Inv, NEW t \in Thread, alloc_log_write(t)
    PROVE  Inv'
<1> DEFINE id == call[t].id
           n == Len(call[t].ops)
           ks == find_free_log_block(super.used, n)
           r == [call[t] EXCEPT !.pc = "save_logs", !.at = ks,
                                !.block = super.entry[id].block,
                                !.idx = super.entry[id].count, !.buffer = NewSuper]
<1>1. call[t].pc = "alloc_log_write"
  BY DEF alloc_log_write, At
<1>2. ~Waiting(call[t]) /\ Writing(call[t]) /\ Appending(call[t]) /\ HasImages(call[t])
      /\ Open(call[t]) /\ ~Saving(call[t])
  BY <1>1 DEF Waiting, Writing, Appending, HasImages, Open, Saving
<1>3. /\ superblock_lock = t /\ call[t].buffer = super /\ t # NoOne /\ up
      /\ max_txn_id \in Nat /\ id \in TxnId /\ id \in Filled(TxnBlocks)
      /\ call = [u \in Thread |-> call[u]] /\ DOMAIN call[t] = Fields
      /\ \A i \in TxnId : txn_lock[i] = t => id = i
      /\ \A u \in Thread : u # t /\ Open(call[u]) => call[u].id # id
  BY <1>1, <1>2, Handler, Zenon
<1>4. n \in {1, 2} /\ DOMAIN call[t].ops = 1 .. n
  BY <1>2, ZenonT(40) DEF Inv, Handlers, Local
<1>5. /\ UNCHANGED <<logmem, logdisk, max_txn_id, txn_lock, up, begun, logged>>
      /\ superblock_lock' = NoOne /\ HasRoom(super.used, n)
      /\ super' = MoreLogs(super, id, ks)
  BY <1>3 DEF alloc_log_write, server, history
<1>6. call' = [call EXCEPT ![t] = r]
  BY <1>3, Zenon DEF alloc_log_write
<1>7. super \in SuperBlock
  BY Zenon DEF Inv, Shapes
<1>8. /\ TxnBlocks \in [TxnId -> LogBlock \union {0}] /\ TxnCounts \in [TxnId -> Nat]
      /\ super.used \in SUBSET LogBlock
      /\ super.entry[id].block = TxnBlocks[id] /\ super.entry[id].count = TxnCounts[id]
  BY <1>3, <1>7, LogTypes, Zenon
<1>9. /\ ks \in [1 .. n -> LogBlock \ super.used] /\ Len(ks) = n
      /\ \A a, b \in 1 .. n : ks[a] = ks[b] => a = b
  <2>1. ks = find_free_log_block(super.used, n)
    OBVIOUS
  <2>2. n \in {1, 2} /\ HasRoom(super.used, n) /\ super.used \in SUBSET LogBlock
    BY <1>4, <1>5, <1>8, Zenon
  <2> HIDE DEF ks, n
  <2>3. ks \in [1 .. n -> LogBlock \ super.used]
    BY <2>1, <2>2, FindFree, Zenon
  <2>4. \A a, b \in 1 .. n : ks[a] = ks[b] => a = b
    BY <2>1, <2>2, FindFree, ZenonT(40)
  <2>5. Len(ks) = n
    BY <2>2, <2>3
  <2> QED BY <2>3, <2>4, <2>5, Zenon
<1> HIDE DEF ks
<1>10. /\ DOMAIN r = Fields /\ r.pc = "save_logs" /\ r.id = id /\ r.ops = call[t].ops
       /\ r.at = ks /\ r.block = super.entry[id].block /\ r.idx = super.entry[id].count
  BY <1>3, ZenonT(30) DEF Fields
<1> HIDE DEF r
<1>11. /\ call' = [u \in Thread |-> call'[u]] /\ call'[t] = r
       /\ \A u \in Thread : u # t => call'[u] = call[u]
  BY <1>3, <1>6, Zenon
<1>12. ~Waiting(r) /\ ~Writing(r) /\ Appending(r) /\ Open(r) /\ Saving(r)
  BY <1>10 DEF Waiting, Writing, Appending, Open, Saving
<1> HIDE DEF id, n
<1>13. /\ super' \in SuperBlock /\ super'.used = super.used \union Elements(ks)
       /\ TxnBlocks' = TxnBlocks
       /\ TxnCounts' = [TxnCounts EXCEPT ![id] = TxnCounts[id] + n]
  <2>1. super' = [used |-> super.used \union Elements(ks),
                  entry |-> [super.entry EXCEPT ![id].count = @ + n]]
    BY <1>5, <1>9 DEF MoreLogs
  <2>2. super'.used = super.used \union Elements(ks)
        /\ super'.entry = [super.entry EXCEPT ![id].count = @ + n]
    BY <2>1
  <2>3. super.entry \in [TxnId -> [block: LogBlock \union {0}, count: Nat, commit: BOOLEAN]]
    BY <1>7 DEF SuperBlock
  <2>4. super'.entry \in [TxnId -> [block: LogBlock \union {0}, count: Nat, commit: BOOLEAN]]
    BY <1>3, <1>4, <2>2, <2>3, SMTT(40)
  <2>5. Elements(ks) \subseteq LogBlock
    BY <1>9 DEF Elements
  <2>6. super' \in SuperBlock
    BY <1>8, <2>1, <2>2, <2>4, <2>5 DEF SuperBlock
  <2>7. \A i \in TxnId : /\ super'.entry[i].block = super.entry[i].block
                         /\ super'.entry[i].count = IF i = id THEN super.entry[i].count + n
                                                    ELSE super.entry[i].count
    BY <1>3, <2>2, <2>3
  <2>8. /\ TxnBlocks' = TxnBlocks
        /\ TxnCounts' = [TxnCounts EXCEPT ![id] = TxnCounts[id] + n]
    BY <1>3, <2>7, Zenon DEF TxnBlocks, TxnCounts
  <2> QED BY <2>2, <2>6, <2>8, Zenon
<1>14. LogsIn' = LogsIn /\ StatesIn' = StatesIn
  BY <1>5 DEF LogsIn, StatesIn
<1>15. LogInv(TxnBlocks', TxnCounts', super'.used, LogsIn', StatesIn', call', logged')
  <2>1. \A u \in Thread : u # t /\ Saving(call[u]) => call[u].id # r.id
    <3>1. \A u \in Thread : Saving(call[u]) => Open(call[u])
      BY DEF Saving, Open, Waiting
    <3> QED BY <1>3, <1>10, <3>1, Zenon
  <2>2. LogInv(TxnBlocks, TxnCounts, super.used, LogsIn, StatesIn, call, logged)
    BY Zenon DEF Inv
  <2>3. /\ r.id \in Filled(TxnBlocks) /\ r.block = TxnBlocks[r.id] /\ r.idx = TxnCounts[r.id]
        /\ Len(r.ops) = n
    BY <1>3, <1>8, <1>10, Zenon DEF n
  <2>4. TxnCounts' = [TxnCounts EXCEPT ![r.id] = TxnCounts[r.id] + n]
    BY <1>10, <1>13, Zenon
  <2>5. LogInv(TxnBlocks, TxnCounts', super'.used, LogsIn, StatesIn, call', logged)
    <3>1. GetsBlocks(t, r, n, ks, TxnBlocks, TxnCounts, super.used, call, TxnCounts',
                     super'.used, call')
      BY <1>4, <1>9, <1>10, <1>11, <1>12, <1>13, <2>1, <2>3, <2>4, ZenonT(40) DEF GetsBlocks
    <3> QED BY <1>8, <2>2, <3>1, LogMore, Zenon
  <2> QED BY <1>5, <1>13, <1>14, <2>5
<1>16. Handlers(call', superblock_lock', txn_lock', super', max_txn_id', up')
  <2>1. Local(call'[t])
    <3>1. r.pc \in Pc \ {"checkpoint", "ckpt_flush", "ckpt_clear", "ckpt_zero"}
      BY <1>10 DEF Pc
    <3>2. Len(r.ops) \in {1, 2} /\ DOMAIN r.ops = 1 .. Len(r.ops)
      BY <1>4, <1>10, Zenon DEF n
    <3> QED BY <1>10, <1>11, <3>1, <3>2, Zenon DEF Local
  <2>2. /\ \A u \in Thread : u # t => (superblock_lock' = u <=> superblock_lock = u)
        /\ max_txn_id <= max_txn_id /\ superblock_lock' # t
    <3>1. \A u \in Thread : u # NoOne
      BY NoOneAssumption
    <3> QED BY <1>3, <1>5, <3>1
  <2>3. r.id = call[t].id /\ \A i \in TxnId : txn_lock[i] = t => r.id = i
    BY <1>3, <1>10, Zenon DEF id
  <2>4. HandMove(t, call, superblock_lock, txn_lock, super, max_txn_id,
                 call', superblock_lock', txn_lock, super', max_txn_id)
    BY <1>2, <1>3, <1>11, <1>12, <2>1, <2>2, <2>3, ZenonT(40) DEF HandMove
  <2>5. Handlers(call, superblock_lock, txn_lock, super, max_txn_id, up)
    BY Zenon DEF Inv
  <2>6. Handlers(call', superblock_lock', txn_lock, super', max_txn_id, up)
    BY <1>3, <2>4, <2>5, HandStep, Zenon
  <2> QED BY <1>5, <2>6
<1>17. Numbers'
  <2>1. Pending' = Pending
    BY <1>2, <1>11, <1>12 DEF Pending
  <2> QED BY <1>5, <1>13, <2>1, Zenon DEF Inv, Numbers
<1>18. Shapes'
  <2>1. superblock_lock' \in Thread \union {NoOne}
    BY <1>5
  <2> QED BY <1>5, <1>11, <1>13, <2>1, Zenon DEF Inv, Shapes
<1>19. Synced'
  BY <1>5, Zenon DEF Inv, Synced
<1> QED BY <1>15, <1>16, <1>17, <1>18, <1>19, Zenon DEF Inv

-----------------------------------------------------------------------------
\* What append_log leaves in the log blocks, of which those in image were there.
SavedAs(S, image, c, b, nw) ==
    /\ S = [k \in LogBlock |-> S[k]]
    /\ \A k \in LogBlock : DOMAIN S[k] = {"op", "logs", "state"}
    /\ \A k \in LogBlock : k # b /\ k \notin Elements(c.at) => S[k] = image[k]
    /\ \A k \in LogBlock : k # b /\ k \in Elements(c.at) =>
          /\ S[k].logs = <<>>
          /\ S[k].state = c.ops[CHOOSE i \in DOMAIN c.at : c.at[i] = k].state
    /\ S[b] = WithLogs(logmem[b], c.idx, c.ops, c.at)
    /\ S[b].state = logmem[b].state
    /\ DOMAIN S[b].logs = DOMAIN logmem[b].logs \union nw
    /\ \A i \in DOMAIN logmem[b].logs \ nw : S[b].logs[i] = logmem[b].logs[i]
    /\ \A i \in nw : /\ S[b].logs[i].block = c.ops[i - c.idx].block
                     /\ S[b].logs[i].at = c.at[i - c.idx]

\* Saved, the log blocks after append_log, is as SavedAs says.
LEMMA SavedBlocks ==
    ASSUME NEW image, NEW c, NEW b \in LogBlock, c.block = b, NEW S, S = Saved(image, c),
           \A k \in LogBlock : DOMAIN logmem[k] = {"op", "logs", "state"},
           \A k \in LogBlock : DOMAIN image[k] = {"op", "logs", "state"},
           NEW nw, nw = c.idx + 1 .. c.idx + Len(c.at)
    PROVE  SavedAs(S, image, c, b, nw)
<1> DEFINE old == logmem[b]
           F == [i \in DOMAIN old.logs \union nw |->
                   IF i \in nw THEN [block |-> c.ops[i - c.idx].block, at |-> c.at[i - c.idx]]
                   ELSE old.logs[i]]
<1>1. S = [k \in LogBlock |->
             IF k = c.block THEN WithLogs(logmem[k], c.idx, c.ops, c.at)
             ELSE IF k \in Elements(c.at)
                  THEN [ZeroBlock EXCEPT !.state =
                            c.ops[CHOOSE i \in DOMAIN c.at : c.at[i] = k].state]
                  ELSE image[k]]
  BY Zenon DEF Saved
<1>2. S[b] = WithLogs(old, c.idx, c.ops, c.at)
  BY <1>1, Zenon
<1>3. WithLogs(old, c.idx, c.ops, c.at) = [old EXCEPT !.logs = F]
  BY Zenon DEF WithLogs
<1>4. DOMAIN old = {"op", "logs", "state"}
  BY Zenon
<1> HIDE DEF old, F
<1>5. DOMAIN S[b] = {"op", "logs", "state"} /\ S[b].logs = F /\ S[b].state = old.state
  BY <1>2, <1>3, <1>4, Zenon
<1>6. /\ DOMAIN F = DOMAIN old.logs \union nw
      /\ \A i \in DOMAIN old.logs \ nw : F[i] = old.logs[i]
      /\ \A i \in nw : F[i].block = c.ops[i - c.idx].block /\ F[i].at = c.at[i - c.idx]
  <2>1. DOMAIN F = DOMAIN old.logs \union nw
    BY Zenon DEF F
  <2>2. \A i \in DOMAIN old.logs \ nw : F[i] = old.logs[i]
    BY Zenon DEF F
  <2>3. \A i \in nw : F[i] = [block |-> c.ops[i - c.idx].block, at |-> c.at[i - c.idx]]
    BY Zenon DEF F
  <2>4. \A i \in nw : F[i].block = c.ops[i - c.idx].block /\ F[i].at = c.at[i - c.idx]
    <3>1. SUFFICES ASSUME NEW i \in nw, NEW x, x = c.ops[i - c.idx].block,
                          NEW y, y = c.at[i - c.idx]
                   PROVE  F[i].block = x /\ F[i].at = y
      OBVIOUS
    <3>2. F[i] = [block |-> x, at |-> y]
      BY <2>3, <3>1, Zenon
    <3> QED BY <3>2
  <2> QED BY <2>1, <2>2, <2>4, Zenon
<1>7. \A k \in LogBlock : k # b /\ k \notin Elements(c.at) => S[k] = image[k]
  BY <1>1, Zenon
<1>8. \A k \in LogBlock : k # b /\ k \in Elements(c.at) =>
          S[k] = [ZeroBlock EXCEPT !.state =
                      c.ops[CHOOSE i \in DOMAIN c.at : c.at[i] = k].state]
  BY <1>1, Zenon
<1>9. ASSUME NEW v
      PROVE  /\ DOMAIN [ZeroBlock EXCEPT !.state = v] = {"op", "logs", "state"}
             /\ [ZeroBlock EXCEPT !.state = v].logs = <<>>
             /\ [ZeroBlock EXCEPT !.state = v].state = v
  BY DEF ZeroBlock
<1>10. \A k \in LogBlock : k # b /\ k \in Elements(c.at) =>
           /\ DOMAIN S[k] = {"op", "logs", "state"} /\ S[k].logs = <<>>
           /\ S[k].state = c.ops[CHOOSE i \in DOMAIN c.at : c.at[i] = k].state
  <2>1. SUFFICES ASSUME NEW k \in LogBlock, k # b, k \in Elements(c.at),
                        NEW v, v = c.ops[CHOOSE i \in DOMAIN c.at : c.at[i] = k].state
                 PROVE  DOMAIN S[k] = {"op", "logs", "state"} /\ S[k].logs = <<>> /\ S[k].state = v
    BY Zenon
  <2>2. S[k] = [ZeroBlock EXCEPT !.state = v]
    BY <1>8, <2>1, Zenon
  <2> QED BY <1>9, <2>2
<1>11. ASSUME NEW k \in LogBlock PROVE DOMAIN S[k] = {"op", "logs", "state"}
  BY <1>5, <1>7, <1>10, Zenon
<1>12. S = [k \in LogBlock |-> S[k]]
  BY <1>1, Zenon
<1> QED BY <1>2, <1>5, <1>6, <1>7, <1>10, <1>11, <1>12, ZenonT(40) DEF old, SavedAs

\* append_log writes the states and then the log entries.
LEMMA SaveInv ==
    ASSUME Inv, ~is_checkpoint_enabled, NEW t \in Thread, save_logs(t)
    PROVE  Inv'
<1> DEFINE c == call[t]
           b == c.block
           nw == c.idx + 1 .. c.idx + Len(c.at)
           p == IF log_entries_num >= kMaxLogSize /\ is_checkpoint_enabled
                THEN "checkpoint" ELSE LeaveAppend(c)
           r == [c EXCEPT !.ops = <<>>, !.at = <<>>, !.block = 0, !.idx = 0, !.pc = p]
           nl == UNION {{c.ops[i].block} \X c.ops[i].state : i \in DOMAIN c.ops}
<1>1. c.pc = "save_logs"
  BY DEF save_logs, At
<1>2. ~Waiting(c) /\ ~Writing(c) /\ Appending(c) /\ HasImages(c) /\ Open(c) /\ Saving(c)
  BY <1>1 DEF Waiting, Writing, Appending, HasImages, Open, Saving
<1>3. /\ t # NoOne /\ up /\ max_txn_id \in Nat /\ c.id \in TxnId
      /\ call = [u \in Thread |-> call[u]] /\ DOMAIN c = Fields
      /\ \A i \in TxnId : txn_lock[i] = t => c.id = i
      /\ \A u \in Thread : u # t /\ Open(call[u]) => call[u].id # c.id
  BY <1>1, <1>2, Handler, Zenon
<1>4. DOMAIN c.ops = 1 .. Len(c.ops) /\ Len(c.ops) \in Nat
  <2>1. Len(c.ops) \in {1, 2} /\ DOMAIN c.ops = 1 .. Len(c.ops)
    BY <1>2, Zenon DEF Inv, Handlers, Local
  <2> QED BY <2>1
<1>5. LogInv(TxnBlocks, TxnCounts, super.used, LogsIn, StatesIn, call, logged)
  BY Zenon DEF Inv
<1>6. super \in SuperBlock
  BY Zenon DEF Inv, Shapes
<1>7. /\ TxnBlocks \in [TxnId -> LogBlock \union {0}] /\ TxnCounts \in [TxnId -> Nat]
      /\ super.used \in SUBSET LogBlock
  BY <1>6, LogTypes, Zenon
<1>8. b # 0 /\ b \in LogBlock
  <2>1. Knows(c, TxnBlocks, TxnCounts, LogsIn)
    BY <1>5, Zenon DEF LogInv
  <2>2. c.id \in Filled(TxnBlocks) /\ b = TxnBlocks[c.id]
    BY <1>2, <2>1, Zenon DEF Knows
  <2>3. b # 0
    BY <2>2, Zenon DEF Filled
  <2> QED BY <1>3, <1>7, <2>2, <2>3
<1>9. /\ UNCHANGED <<super, max_txn_id, superblock_lock, up, begun>>
      /\ logmem' = Saved(logmem, c) /\ logdisk' = Saved(logdisk, c)
      /\ logged' = logged \union nl
      /\ txn_lock' = [txn_lock EXCEPT ![c.id] = NoOne]
  BY <1>8, Zenon DEF save_logs
<1>10. call' = [call EXCEPT ![t] = r]
  BY Zenon DEF save_logs
<1>11. p \in {"write_file", "unlock"}
  BY DEF LeaveAppend
<1> HIDE DEF p
<1>12. DOMAIN r = Fields /\ r.pc = p /\ r.id = c.id
  BY <1>3, ZenonT(30) DEF Fields
<1> HIDE DEF r
<1>13. /\ call' = [u \in Thread |-> call'[u]] /\ call'[t] = r
       /\ \A u \in Thread : u # t => call'[u] = call[u]
  BY <1>3, <1>10, Zenon
<1>14. ~Waiting(r) /\ ~Writing(r) /\ ~Appending(r) /\ ~HasImages(r) /\ Open(r) /\ ~Saving(r)
  BY <1>11, <1>12 DEF Waiting, Writing, Appending, HasImages, Open, Saving
<1>15. /\ \A k \in LogBlock : DOMAIN logmem[k] = {"op", "logs", "state"}
       /\ \A k \in LogBlock : DOMAIN logdisk[k] = {"op", "logs", "state"}
  BY Zenon DEF Inv, Shapes, Synced
<1> HIDE DEF c
<1>16. /\ logmem' = [k \in LogBlock |-> logmem'[k]]
       /\ \A k \in LogBlock : DOMAIN logmem'[k] = {"op", "logs", "state"}
       /\ \A k \in LogBlock : k # b /\ k \notin Elements(c.at) => logmem'[k] = logmem[k]
       /\ \A k \in LogBlock : k # b /\ k \in Elements(c.at) =>
             /\ logmem'[k].logs = <<>>
             /\ logmem'[k].state = c.ops[CHOOSE i \in DOMAIN c.at : c.at[i] = k].state
       /\ logmem'[b] = WithLogs(logmem[b], c.idx, c.ops, c.at)
       /\ logmem'[b].state = logmem[b].state
       /\ DOMAIN logmem'[b].logs = DOMAIN logmem[b].logs \union nw
       /\ \A i \in DOMAIN logmem[b].logs \ nw : logmem'[b].logs[i] = logmem[b].logs[i]
       /\ \A i \in nw : /\ logmem'[b].logs[i].block = c.ops[i - c.idx].block
                        /\ logmem'[b].logs[i].at = c.at[i - c.idx]
  <2>1. SavedAs(logmem', logmem, c, b, nw)
    BY <1>8, <1>9, <1>15, SavedBlocks, Zenon
  <2> QED BY <2>1, Zenon DEF SavedAs
<1>17. /\ logdisk' = [k \in LogBlock |-> logdisk'[k]]
       /\ \A k \in LogBlock : DOMAIN logdisk'[k] = {"op", "logs", "state"}
       /\ \A k \in LogBlock : k # b /\ k \notin Elements(c.at) => logdisk'[k] = logdisk[k]
       /\ \A k \in LogBlock : k # b /\ k \in Elements(c.at) =>
             /\ logdisk'[k].logs = <<>>
             /\ logdisk'[k].state = c.ops[CHOOSE i \in DOMAIN c.at : c.at[i] = k].state
       /\ logdisk'[b] = WithLogs(logmem[b], c.idx, c.ops, c.at)
  <2>1. SavedAs(logdisk', logdisk, c, b, nw)
    BY <1>8, <1>9, <1>15, SavedBlocks, ZenonT(40)
  <2> QED BY <2>1, Zenon DEF SavedAs
<1>18. TxnBlocks' = TxnBlocks /\ TxnCounts' = TxnCounts
  BY <1>9 DEF TxnBlocks, TxnCounts
<1>19. Saves(t, c, nw, LogsIn, StatesIn, call, logged, LogsIn', StatesIn', call', logged')
  <2>1. \A k \in LogBlock : /\ LogsIn[k] = logmem[k].logs /\ StatesIn[k] = logmem[k].state
                            /\ LogsIn'[k] = logmem'[k].logs /\ StatesIn'[k] = logmem'[k].state
    BY DEF LogsIn, StatesIn
  <2>2. \A u \in Thread : u # t /\ Saving(call[u]) => call[u].id # c.id
    <3>1. \A u \in Thread : Saving(call[u]) => Open(call[u])
      BY DEF Saving, Open, Waiting
    <3> QED BY <1>3, <3>1, Zenon
  <2>3. \A k \in LogBlock : k # b /\ k \notin Elements(c.at) =>
            LogsIn'[k] = LogsIn[k] /\ StatesIn'[k] = StatesIn[k]
    <3>1. SUFFICES ASSUME NEW k \in LogBlock, k # b, k \notin Elements(c.at)
                   PROVE  LogsIn'[k] = LogsIn[k] /\ StatesIn'[k] = StatesIn[k]
      BY Zenon
    <3>2. logmem'[k] = logmem[k]
      BY <1>16, <3>1, Zenon
    <3> QED BY <2>1, <3>2
  <2>4. ASSUME NEW a \in DOMAIN c.at, c.at[a] # b
        PROVE  StatesIn'[c.at[a]] = c.ops[a].state
    <3>1. /\ c.at[a] \in super.used
          /\ \A i \in DOMAIN c.at : c.at[i] = c.at[a] => i = a
      BY <1>2, <1>5 DEF LogInv, Reserves, c
    <3>2. c.at[a] \in Elements(c.at) /\ c.at[a] \in LogBlock
      BY <1>7, <3>1 DEF Elements
    <3>3. (CHOOSE i \in DOMAIN c.at : c.at[i] = c.at[a]) = a
      BY <3>1, Zenon
    <3>4. logmem'[c.at[a]].state =
              c.ops[CHOOSE i \in DOMAIN c.at : c.at[i] = c.at[a]].state
      BY <1>16, <2>4, <3>2, Zenon
    <3> QED BY <2>1, <3>2, <3>3, <3>4, ZenonT(40)
  <2>5. /\ DOMAIN LogsIn'[b] = DOMAIN LogsIn[b] \union nw
        /\ \A i \in DOMAIN LogsIn[b] \ nw : LogsIn'[b][i] = LogsIn[b][i]
        /\ \A i \in nw : /\ LogsIn'[b][i].block = c.ops[i - c.idx].block
                         /\ LogsIn'[b][i].at = c.at[i - c.idx]
    <3>1. LogsIn[b] = logmem[b].logs /\ LogsIn'[b] = logmem'[b].logs
      BY <1>8, <2>1, Zenon
    <3> QED BY <1>16, <3>1, ZenonT(40)
  <2>6. call[t] = c
    BY DEF c
  <2> QED BY <1>2, <1>4, <1>9, <1>13, <1>14, <2>2, <2>3, <2>4, <2>5, <2>6, ZenonT(40) DEF Saves
<1>20. LogInv(TxnBlocks', TxnCounts', super'.used, LogsIn', StatesIn', call', logged')
  <2>1. LogInv(TxnBlocks, TxnCounts, super.used, LogsIn', StatesIn', call', logged')
    BY <1>5, <1>7, <1>19, LogSave, ZenonT(40)
  <2> QED BY <1>9, <1>18, <2>1
<1>21. Handlers(call', superblock_lock', txn_lock', super', max_txn_id', up')
  <2>1. Local(call'[t])
    BY <1>11, <1>12, <1>13, <1>14 DEF Local, Pc
  <2>2. superblock_lock # t /\ txn_lock \in [TxnId -> Thread \union {NoOne}]
    BY <1>2, Zenon DEF Inv, Handlers, Shapes, c
  <2>3. /\ \A i \in TxnId : txn_lock'[i] # t
        /\ \A i \in TxnId : \A u \in Thread : u # t /\ txn_lock'[i] = u => txn_lock[i] = u
    <3>1. \A u \in Thread : u # NoOne
      BY NoOneAssumption
    <3> QED BY <1>3, <1>9, <2>2, <3>1
  <2>4. r.id = call[t].id /\ Open(call[t]) /\ max_txn_id <= max_txn_id
    BY <1>2, <1>3, <1>12 DEF c
  <2>5. HandMove(t, call, superblock_lock, txn_lock, super, max_txn_id,
                 call', superblock_lock, txn_lock', super, max_txn_id)
    BY <1>3, <1>13, <1>14, <2>1, <2>2, <2>3, <2>4, ZenonT(40) DEF HandMove
  <2>6. Handlers(call, superblock_lock, txn_lock, super, max_txn_id, up)
    BY Zenon DEF Inv
  <2>7. Handlers(call', superblock_lock, txn_lock', super, max_txn_id, up)
    BY <1>3, <2>5, <2>6, HandStep, ZenonT(40)
  <2> QED BY <1>9, <2>7
<1>22. Numbers'
  <2>1. Pending' = Pending
    BY <1>2, <1>13, <1>14 DEF Pending, c
  <2> QED BY <1>9, <1>18, <2>1, ZenonT(40) DEF Inv, Numbers
<1>23. Shapes'
  <2>1. txn_lock' \in [TxnId -> Thread \union {NoOne}]
    BY <1>3, <1>9 DEF Inv, Shapes
  <2> QED BY <1>9, <1>13, <1>16, <1>17, <2>1, ZenonT(40) DEF Inv, Shapes
<1>24. Synced'
  <2>1. SUFFICES ASSUME NEW k \in LogBlock
                 PROVE  /\ logdisk'[k].logs = logmem'[k].logs
                        /\ logdisk'[k].state = logmem'[k].state
                        /\ DOMAIN logdisk'[k] = {"op", "logs", "state"}
    BY <2>1, Zenon DEF Synced
  <2>2. CASE k = b
    BY <1>16, <1>17, <2>2, Zenon
  <2>3. CASE k # b /\ k \in Elements(c.at)
    <3> DEFINE v == c.ops[CHOOSE i \in DOMAIN c.at : c.at[i] = k].state
    <3>1. logmem'[k].logs = <<>> /\ logmem'[k].state = v
      BY <1>16, <2>3, Zenon
    <3>2. logdisk'[k].logs = <<>> /\ logdisk'[k].state = v
      BY <1>17, <2>3, Zenon
    <3>3. DOMAIN logdisk'[k] = {"op", "logs", "state"}
      BY <1>17, Zenon
    <3> HIDE DEF v
    <3> QED BY <3>1, <3>2, <3>3, Zenon
  <2>4. CASE k # b /\ k \notin Elements(c.at)
    <3>1. /\ logdisk[k].logs = logmem[k].logs /\ logdisk[k].state = logmem[k].state
      BY Zenon DEF Inv, Synced
    <3>2. logmem'[k].logs = logmem[k].logs /\ logmem'[k].state = logmem[k].state
      BY <1>16, <2>4, Zenon
    <3>3. logdisk'[k].logs = logdisk[k].logs /\ logdisk'[k].state = logdisk[k].state
          /\ DOMAIN logdisk'[k] = {"op", "logs", "state"}
      BY <1>17, <2>4, Zenon
    <3> QED BY <3>1, <3>2, <3>3, Zenon
  <2> QED BY <2>2, <2>3, <2>4, Zenon
<1> QED BY <1>20, <1>21, <1>22, <1>23, <1>24, Zenon DEF Inv

-----------------------------------------------------------------------------
\* Start, crash and recover

\* A thread without a handler holds nothing.
LEMMA Idle ==
    /\ Local(NoCall) /\ NoCall.pc = "idle" /\ ~Waiting(NoCall) /\ ~Writing(NoCall)
    /\ ~Open(NoCall) /\ ~Saving(NoCall) /\ ~Appending(NoCall)
<1>1. DOMAIN NoCall = Fields /\ NoCall.pc = "idle"
  BY DEF NoCall, Fields
<1> QED BY <1>1 DEF Local, Pc, Waiting, Writing, Open, Saving, Appending, HasImages

\* No handler runs and no lock is held.
LEMMA NoHandlers ==
    ASSUME NEW cl, NEW sl, NEW tl, NEW sup, NEW mx, NEW on, sl = NoOne,
           \A t \in Thread : cl[t] = NoCall, \A i \in TxnId : tl[i] = NoOne
    PROVE  Handlers(cl, sl, tl, sup, mx, on)
<1>1. \A t \in Thread : t # NoOne
  BY NoOneAssumption
<1> QED BY <1>1, Idle DEF Handlers

\* A crash ends all handlers and takes no log entry back.
LEMMA CrashInv ==
    ASSUME Inv, crash
    PROVE  Inv'
<1>1. /\ UNCHANGED <<super, begun, logged>> /\ logdisk' = logmem' /\ max_txn_id' = 0
      /\ superblock_lock' = NoOne /\ txn_lock' = [i \in TxnId |-> NoOne]
      /\ call' = [t \in Thread |-> NoCall] /\ up' = FALSE
  BY DEF crash
<1>2. PICK lost : logmem' = [k \in LogBlock |-> IF k \in lost THEN logdisk[k] ELSE logmem[k]]
  BY Zenon DEF crash
<1>3. /\ logmem' = [k \in LogBlock |-> logmem'[k]]
      /\ \A k \in LogBlock : /\ logmem'[k].logs = logmem[k].logs
                             /\ logmem'[k].state = logmem[k].state
                             /\ DOMAIN logmem'[k] = {"op", "logs", "state"}
  <2>1. logmem' = [k \in LogBlock |-> logmem'[k]]
    BY <1>2, Zenon
  <2>2. ASSUME NEW k \in LogBlock
        PROVE  /\ logmem'[k].logs = logmem[k].logs
               /\ logmem'[k].state = logmem[k].state
               /\ DOMAIN logmem'[k] = {"op", "logs", "state"}
    <3>1. logmem'[k] = logdisk[k] \/ logmem'[k] = logmem[k]
      BY <1>2, Zenon
    <3>2. /\ logdisk[k].logs = logmem[k].logs /\ logdisk[k].state = logmem[k].state
          /\ DOMAIN logdisk[k] = {"op", "logs", "state"}
          /\ DOMAIN logmem[k] = {"op", "logs", "state"}
      BY Zenon DEF Inv, Synced, Shapes
    <3> QED BY <3>1, <3>2, Zenon
  <2> QED BY <2>1, <2>2, Zenon
<1>4. \A t \in Thread : call'[t] = NoCall
  BY <1>1, Zenon
<1>5. Handlers(call', superblock_lock', txn_lock', super', max_txn_id', up')
  <2>1. \A i \in TxnId : txn_lock'[i] = NoOne
    BY <1>1, Zenon
  <2> QED BY <1>1, <1>4, <2>1, NoHandlers, ZenonT(40)
<1>6. /\ TxnBlocks' = TxnBlocks /\ TxnCounts' = TxnCounts
      /\ LogsIn' = LogsIn /\ StatesIn' = StatesIn
  BY <1>1, <1>3, Zenon DEF TxnBlocks, TxnCounts, LogsIn, StatesIn
<1>7. LogInv(TxnBlocks', TxnCounts', super'.used, LogsIn', StatesIn', call', logged')
  <2>1. LogInv(TxnBlocks, TxnCounts, super.used, LogsIn, StatesIn, call, logged)
        /\ logged \subseteq logged
    BY Zenon DEF Inv
  <2>2. \A t \in Thread : Saving(call'[t]) => call'[t] = call[t]
    BY <1>4, Idle, Zenon
  <2>3. LogInv(TxnBlocks, TxnCounts, super.used, LogsIn, StatesIn, call', logged)
    BY <2>1, <2>2, LogKeep, Zenon
  <2> QED BY <1>1, <1>6, <2>3
<1>8. Numbers'
  <2>1. Pending' = {}
    BY <1>4, Idle, Zenon DEF Pending
  <2>2. /\ begun \in 0 .. MaxTxn
        /\ \A i \in Filled(TxnBlocks) : i < begun
        /\ \A i \in Filled(TxnBlocks) : \A j \in TxnId : j < i => j \in Filled(TxnBlocks)
    BY Zenon DEF Inv, Numbers
  <2>3. IsFiniteSet(Pending') /\ Cardinality(Pending') = 0
    BY <2>1, FS_EmptySet, Zenon
  <2>4. max_txn_id' \in Nat /\ max_txn_id' + Cardinality(Pending') <= begun
    BY <1>1, <2>2, <2>3, BoundAssumption
  <2> QED BY <1>1, <1>6, <2>2, <2>3, <2>4, ZenonT(40) DEF Numbers
<1>9. Shapes'
  <2>1. /\ superblock_lock' \in Thread \union {NoOne} /\ call' = [t \in Thread |-> call'[t]]
        /\ txn_lock' \in [TxnId -> Thread \union {NoOne}]
    BY <1>1
  <2> QED BY <1>1, <1>3, <2>1, Zenon DEF Inv, Shapes
<1>10. Synced'
  BY <1>1, <1>3, Zenon DEF Synced
<1> QED BY <1>5, <1>7, <1>8, <1>9, <1>10, ZenonT(40) DEF Inv

\* TxnCount is the number of transactions.
LEMMA CountTxns ==
    ASSUME Shapes, Numbers
    PROVE  TxnCount(super) \in TxnId /\ Filled(TxnBlocks) = 0 .. TxnCount(super) - 1
<1> DEFINE P(n) == /\ super.entry[n].block = 0
                   /\ \A i \in 0 .. n - 1 : super.entry[i].block # 0
           c == TxnCount(super)
<1>1. \A i \in TxnId : i \in Filled(TxnBlocks) <=> super.entry[i].block # 0
  BY DEF Filled, TxnBlocks
<1>2. TxnId \in SUBSET Nat /\ begun \in TxnId /\ MaxTxn \in Nat
  BY BoundAssumption DEF Numbers, TxnId
<1>3. PICK n \in TxnId \ Filled(TxnBlocks) : \A y \in TxnId \ Filled(TxnBlocks) : n <= y
  <2>1. begun \notin Filled(TxnBlocks)
    BY <1>2 DEF Numbers
  <2>2. TxnId \ Filled(TxnBlocks) \in SUBSET Nat /\ TxnId \ Filled(TxnBlocks) # {}
    BY <1>2, <2>1, Zenon
  <2> QED BY <2>2, LeastNumber, Zenon
<1>4. P(n)
  <2>1. ASSUME NEW i \in 0 .. n - 1 PROVE super.entry[i].block # 0
    <3>1. i \in TxnId /\ ~(n <= i)
      BY <1>2, <1>3 DEF TxnId
    <3> QED BY <1>1, <1>3, <3>1
  <2> QED BY <1>1, <1>3, <2>1
<1>5. c \in TxnId /\ P(c)
  <2>1. c = CHOOSE m \in TxnId : P(m)
    BY Zenon DEF TxnCount
  <2> HIDE DEF P, c
  <2> QED BY <1>3, <1>4, <2>1, Zenon
<1> HIDE DEF c
<1>6. ASSUME NEW i \in TxnId PROVE i \in Filled(TxnBlocks) <=> i \in 0 .. c - 1
  <2>1. i \in Int /\ c \in Int /\ 0 <= i
    BY <1>2, <1>5
  <2>2. ASSUME i \in Filled(TxnBlocks) PROVE i < c
    <3>1. c \notin Filled(TxnBlocks)
      BY <1>1, <1>5
    <3>2. ~(c < i)
      BY <1>5, <2>2, <3>1 DEF Numbers
    <3>3. i # c
      BY <2>2, <3>1
    <3> QED BY <2>1, <3>2, <3>3
  <2>3. ASSUME i \in 0 .. c - 1 PROVE i \in Filled(TxnBlocks)
    BY <1>1, <1>5, <2>3
  <2> QED BY <2>1, <2>2, <2>3
<1>7. Filled(TxnBlocks) \subseteq TxnId /\ 0 .. c - 1 \subseteq TxnId
  <2>1. Filled(TxnBlocks) \subseteq TxnId
    BY DEF Filled
  <2>2. 0 .. c - 1 \subseteq TxnId
    BY <1>2, <1>5 DEF TxnId
  <2> QED BY <2>1, <2>2
<1> QED BY <1>5, <1>6, <1>7, Zenon DEF c

\* recover counts the transactions and goes on after the last one.
LEMMA RecoverInv ==
    ASSUME Inv, recover
    PROVE  Inv'
<1>1. /\ UNCHANGED <<super, logmem, logdisk, superblock_lock, txn_lock, call, begun>>
      /\ \A t \in Thread : call[t].pc = "idle"
      /\ up' = TRUE /\ max_txn_id' = TxnCount(super)
  BY DEF recover, At, log, locks
<1>2. logged' \subseteq logged
  BY Zenon DEF recover
<1>3. \A t \in Thread : /\ ~Waiting(call[t]) /\ ~Writing(call[t]) /\ ~Open(call[t])
                        /\ ~Saving(call[t]) /\ ~Appending(call[t])
  BY <1>1 DEF Waiting, Writing, Open, Saving, Appending
<1>4. /\ TxnBlocks' = TxnBlocks /\ TxnCounts' = TxnCounts
      /\ LogsIn' = LogsIn /\ StatesIn' = StatesIn
  BY <1>1 DEF TxnBlocks, TxnCounts, LogsIn, StatesIn
<1>5. Handlers(call', superblock_lock', txn_lock', super', max_txn_id', up')
  <2>1. Handlers(call, superblock_lock, txn_lock, super, max_txn_id, up)
    BY Zenon DEF Inv
  <2>2. Handlers(call, superblock_lock, txn_lock, super, max_txn_id', up')
    BY <1>1, <1>3, <2>1, Zenon DEF Handlers
  <2> QED BY <1>1, <2>2
<1>6. Numbers'
  <2>1. /\ begun \in 0 .. MaxTxn /\ IsFiniteSet(Pending)
        /\ \A i \in Filled(TxnBlocks) : i < begun
        /\ \A i \in Filled(TxnBlocks) : \A j \in TxnId : j < i => j \in Filled(TxnBlocks)
    BY Zenon DEF Inv, Numbers
  <2>2. Pending = {} /\ Pending' = {}
    BY <1>1, <1>3, Zenon DEF Pending
  <2>3. IsFiniteSet(Pending') /\ Cardinality(Pending') = 0
    BY <2>2, FS_EmptySet, Zenon
  <2>4. TxnCount(super) \in TxnId /\ Filled(TxnBlocks) = 0 .. TxnCount(super) - 1
    BY CountTxns, Zenon DEF Inv
  <2>5. TxnCount(super) <= begun
    <3> DEFINE c == TxnCount(super)
    <3>1. c \in Nat /\ begun \in Nat
      BY <2>1, <2>4, BoundAssumption DEF TxnId
    <3>2. CASE c = 0
      BY <3>1, <3>2
    <3>3. CASE c # 0
      <4> HIDE DEF c
      <4>1. c - 1 \in 0 .. c - 1
        BY <3>1, <3>3
      <4>2. c - 1 < begun
        BY <2>1, <2>4, <4>1 DEF c
      <4> QED BY <3>1, <4>2 DEF c
    <3> QED BY <3>2, <3>3
  <2>6. max_txn_id' \in Nat /\ max_txn_id' + Cardinality(Pending') <= begun
    BY <1>1, <2>1, <2>3, <2>4, <2>5, BoundAssumption, SMTT(40) DEF TxnId
  <2> QED BY <1>1, <1>4, <2>1, <2>3, <2>4, <2>6, ZenonT(40) DEF Numbers
<1>7. LogInv(TxnBlocks', TxnCounts', super'.used, LogsIn', StatesIn', call', logged')
  <2>1. LogInv(TxnBlocks, TxnCounts, super.used, LogsIn, StatesIn, call, logged)
        /\ \A t \in Thread : Saving(call[t]) => call[t] = call[t]
    BY Zenon DEF Inv
  <2>2. LogInv(TxnBlocks, TxnCounts, super.used, LogsIn, StatesIn, call, logged')
    BY <1>2, <2>1, LogKeep, Zenon
  <2> QED BY <1>1, <1>4, <2>2
<1>8. Shapes' /\ Synced'
  BY <1>1, Zenon DEF Inv, Shapes, Synced
<1> QED BY <1>5, <1>6, <1>7, <1>8, ZenonT(40) DEF Inv

\* The invariant holds when the server starts.
LEMMA InitInv ==
    ASSUME Init
    PROVE  Inv
<1>1. /\ super = NewSuper /\ logmem = [k \in LogBlock |-> ZeroBlock] /\ logdisk = logmem
      /\ max_txn_id = 0 /\ superblock_lock = NoOne /\ txn_lock = [i \in TxnId |-> NoOne]
      /\ call = [t \in Thread |-> NoCall] /\ begun = 0 /\ logged = {}
  BY DEF Init
<1>2. /\ super \in SuperBlock /\ super.used = {}
      /\ \A i \in TxnId : super.entry[i].block = 0
  BY <1>1 DEF NewSuper, NoEntry, SuperBlock
<1>3. \A k \in LogBlock : /\ logmem[k].logs = <<>> /\ logmem[k].state = {}
                          /\ DOMAIN logmem[k] = {"op", "logs", "state"}
  BY <1>1 DEF ZeroBlock
<1>4. \A t \in Thread : call[t] = NoCall
  BY <1>1, Zenon
<1>5. Filled(TxnBlocks) = {}
  BY <1>2 DEF Filled, TxnBlocks
<1>6. Handlers(call, superblock_lock, txn_lock, super, max_txn_id, up)
  <2>1. \A i \in TxnId : txn_lock[i] = NoOne
    BY <1>1, Zenon
  <2> QED BY <1>1, <1>4, <2>1, NoHandlers, Zenon
<1>7. LogInv(TxnBlocks, TxnCounts, super.used, LogsIn, StatesIn, call, logged)
  <2>1. Reserves(TxnBlocks, super.used, LogsIn, call)
    BY <1>4, Idle, Zenon DEF Reserves
  <2>2. \A t \in Thread : Knows(call[t], TxnBlocks, TxnCounts, LogsIn)
    BY <1>4, Idle, Zenon DEF Knows
  <2>3. OneUse(TxnBlocks, super.used, LogsIn) /\ Counted(TxnBlocks, TxnCounts, LogsIn)
    BY <1>5, Zenon DEF OneUse, Counted
  <2>4. Unused(super.used, LogsIn, StatesIn)
    BY <1>3, Zenon DEF Unused, LogsIn, StatesIn
  <2>5. \A bc \in logged : Entered(TxnBlocks, LogsIn, StatesIn, bc)
    BY <1>1, Zenon
  <2> QED BY <2>1, <2>2, <2>3, <2>4, <2>5, Zenon DEF LogInv
<1>8. Numbers
  <2>1. Pending = {}
    BY <1>4, Idle, Zenon DEF Pending
  <2>2. IsFiniteSet(Pending) /\ Cardinality(Pending) = 0
    BY <2>1, FS_EmptySet, Zenon
  <2>3. 0 .. max_txn_id - 1 = {} /\ begun \in 0 .. MaxTxn /\ max_txn_id \in Nat
        /\ max_txn_id + Cardinality(Pending) <= begun
    BY <1>1, <2>2, BoundAssumption
  <2> QED BY <1>5, <2>2, <2>3, Zenon DEF Numbers
<1>9. Shapes
  <2>1. /\ superblock_lock \in Thread \union {NoOne} /\ call = [t \in Thread |-> call[t]]
        /\ txn_lock \in [TxnId -> Thread \union {NoOne}]
        /\ logmem = [k \in LogBlock |-> logmem[k]]
    BY <1>1
  <2> QED BY <1>1, <1>2, <1>3, <2>1, Zenon DEF Shapes
<1>10. Synced
  BY <1>1, <1>3, Zenon DEF Synced
<1> QED BY <1>6, <1>7, <1>8, <1>9, <1>10, ZenonT(40) DEF Inv

-----------------------------------------------------------------------------
\* Every step

\* Every step of a handler preserves the invariant.
LEMMA StepInv ==
    ASSUME Inv, ~is_checkpoint_enabled, NEW t \in Thread, Step(t)
    PROVE  Inv'
<1>1. call[t].pc \notin {"checkpoint", "ckpt_flush", "ckpt_clear", "ckpt_zero"}
  BY Zenon DEF Inv, Handlers, Local
<1>2. ~checkpoint(t) /\ ~ckpt_flush(t) /\ ~ckpt_clear(t) /\ ~ckpt_zero(t)
  BY <1>1, Zenon DEF checkpoint, ckpt_flush, ckpt_clear, ckpt_zero, At
<1>3. CASE \/ Pass(t, "alloc_txn", "alloc_txn_lock") \/ Pass(t, "append_log", "append_job")
           \/ Pass(t, "commit_log", "commit_job")
  BY <1>3, PassInv, Zenon
<1>4. CASE change_inode(t) \/ append_job(t) \/ commit_job(t)
  BY <1>4, GotoInv, Zenon
<1>5. CASE refuse(t) \/ unlock(t)
  BY <1>5, ReturnInv, Zenon
<1>6. CASE read_images(t)
  BY <1>6, ReadImagesInv, Zenon
<1>7. CASE write_file(t)
  BY <1>7, WriteFileInv, ZenonT(40)
<1>8. CASE alloc_txn_read(t) \/ alloc_log_read(t) \/ commit_read(t)
  BY <1>8, TakeSuperInv, Zenon
<1>9. CASE append_lock(t)
  BY <1>9, AppendLockInv, Zenon
<1>10. CASE alloc_txn_write(t)
  BY <1>10, AllocTxnInv, Zenon
<1>11. CASE alloc_log_write(t)
  BY <1>11, AllocLogInv, Zenon
<1>12. CASE save_logs(t)
  BY <1>12, SaveInv, ZenonT(40)
<1>13. CASE commit_write(t)
  BY <1>13, CommitWriteInv, Zenon
<1> QED BY <1>2, <1>3, <1>4, <1>5, <1>6, <1>7, <1>8, <1>9, <1>10, <1>11, <1>12, <1>13,
           ZenonT(40) DEF Step

\* Nothing switches checkpoints on or off.
LEMMA ModeStays ==
    ASSUME [Next]_vars
    PROVE  is_checkpoint_enabled' = is_checkpoint_enabled
<1>1. ASSUME NEW t \in Thread, Step(t) \/ request(t) \/ redo_operation(t)
      PROVE  is_checkpoint_enabled' = is_checkpoint_enabled
  BY <1>1, ZenonT(40) DEF Step, request, redo_operation, Begin, Pass, alloc_txn_read, alloc_txn_write,
     refuse, change_inode, read_images, append_job, append_lock, alloc_log_read,
     alloc_log_write, save_logs, checkpoint, ckpt_flush, ckpt_clear, ckpt_zero, write_file,
     unlock, commit_job, commit_read, commit_write, server
<1>2. ASSUME crash \/ recover
      PROVE  is_checkpoint_enabled' = is_checkpoint_enabled
  BY <1>2, Zenon DEF crash, recover
<1>3. UNCHANGED vars => is_checkpoint_enabled' = is_checkpoint_enabled
  BY DEF vars, server
<1> QED BY <1>1, <1>2, <1>3, Zenon DEF Next

\* So does every step of the server.
LEMMA NextInv ==
    ASSUME IInv, [Next]_vars
    PROVE  IInv'
<1>1. is_checkpoint_enabled' = is_checkpoint_enabled
  BY ModeStays
<1> SUFFICES ASSUME Inv, ~is_checkpoint_enabled PROVE Inv'
  BY <1>1 DEF IInv
<1>2. CASE UNCHANGED vars
  <2>1. LogStays /\ UNCHANGED <<call, superblock_lock, txn_lock>>
    BY <1>2 DEF vars, LogStays, log, counters, locks, server, history
  <2> QED BY <2>1, Still, Zenon
<1>3. CASE \E t \in Thread : Step(t) \/ request(t) \/ redo_operation(t)
  BY <1>3, StepInv, StartInv, Zenon
<1>4. CASE crash
  BY <1>4, CrashInv, Zenon
<1>5. CASE recover
  BY <1>5, RecoverInv, Zenon
<1> QED BY <1>2, <1>3, <1>4, <1>5, Zenon DEF Next

\* The inductive invariant holds of every state of the server.
THEOREM LogInvariant == Spec => []IInv
<1>1. Init => IInv
  BY InitInv DEF IInv
<1>2. IInv /\ [Next]_vars => IInv'
  BY NextInv, Zenon
<1> QED BY <1>1, <1>2, PTL DEF Spec

-----------------------------------------------------------------------------
\* What it says of the log

\* The log blocks of transaction i are as many as the places that take one.
LEMMA CountUses ==
    ASSUME Inv, NEW i \in Filled(TxnBlocks)
    PROVE  /\ Uses(i) = {Spot(TxnBlocks, LogsIn, i, n) : n \in Spots(TxnBlocks, LogsIn, i)}
           /\ Cardinality(Uses(i)) =
                 1 + Cardinality(DOMAIN logmem[super.entry[i].block].logs)
<1> DEFINE b == super.entry[i].block
           D == DOMAIN logmem[b].logs
           S == Spots(TxnBlocks, LogsIn, i)
           f == [n \in S |-> Spot(TxnBlocks, LogsIn, i, n)]
<1>1. i \in TxnId /\ TxnBlocks[i] = b /\ b # 0 /\ b \in LogBlock
  BY DEF Inv, Shapes, Filled, TxnBlocks, SuperBlock
<1>2. LogsIn[TxnBlocks[i]] = logmem[b].logs
  BY <1>1, Zenon DEF LogsIn
<1>3. IsFiniteSet(D) /\ 0 \notin D
  <2>1. TxnCounts[i] \in Nat /\ D \subseteq 1 .. TxnCounts[i]
    BY <1>2, Zenon DEF Inv, LogInv, Counted
  <2>2. IsFiniteSet(1 .. TxnCounts[i])
    BY <2>1, FS_Interval
  <2>3. IsFiniteSet(D)
    BY <2>1, <2>2, FS_Subset, Zenon
  <2> QED BY <2>1, <2>3
<1>4. S = D \union {0} /\ IsFiniteSet(S) /\ Cardinality(S) = Cardinality(D) + 1
  <2>1. S = D \union {0}
    BY <1>2 DEF Spots
  <2> QED BY <1>3, <2>1, FS_AddElement, ZenonT(40)
<1>5. \A n \in S : Spot(TxnBlocks, LogsIn, i, n) = IF n = 0 THEN b ELSE logmem[b].logs[n].at
  BY <1>1, <1>2, Zenon DEF Spot
<1>6. Uses(i) = {Spot(TxnBlocks, LogsIn, i, n) : n \in S}
  <2> HIDE DEF S
  <2>1. Uses(i) = {b} \union {logmem[b].logs[n].at : n \in D}
    BY ZenonT(40) DEF Uses
  <2>2. Spot(TxnBlocks, LogsIn, i, 0) = b /\ 0 \in S
    BY <1>4, <1>5
  <2>3. \A n \in D : Spot(TxnBlocks, LogsIn, i, n) = logmem[b].logs[n].at /\ n \in S
    BY <1>3, <1>4, <1>5, ZenonT(40)
  <2>4. \A n \in S : n = 0 \/ n \in D
    BY <1>4
  <2> HIDE DEF b, D
  <2> QED BY <2>1, <2>2, <2>3, <2>4, Zenon
<1>7. f \in Bijection(S, Uses(i))
  <2>1. \A n \in S, m \in S : f[n] = f[m] => n = m
    BY Zenon DEF Inv, LogInv, OneUse
  <2> HIDE DEF S
  <2>2. f \in [S -> Uses(i)] /\ \A u \in Uses(i) : \E n \in S : f[n] = u
    BY <1>6
  <2>3. f \in Injection(S, Uses(i))
    BY <2>1, <2>2, Zenon DEF Injection, IsInjective
  <2>4. f \in Surjection(S, Uses(i))
    BY <2>2, Zenon DEF Surjection
  <2> QED BY <2>3, <2>4, Zenon DEF Bijection
<1>8. Cardinality(Uses(i)) = Cardinality(S)
  BY <1>4, <1>7, FS_Bijection, Zenon DEF ExistsBijection
<1>9. Cardinality(D) \in Nat
  BY <1>3, FS_CardinalityType, Zenon
<1>10. Cardinality(Uses(i)) = 1 + Cardinality(D)
  <2> HIDE DEF D, S
  <2> QED BY <1>4, <1>8, <1>9
<1> QED BY <1>6, <1>10, Zenon

\* alloc_txn and alloc_log of concurrent handlers, on a server without
\* checkpoints that may crash and recover, never give out a log block twice.
THEOREM NoLogBlockTwice == Spec => []LogBlocksHaveOneUse
<1>1. ASSUME IInv PROVE LogBlocksHaveOneUse
  <2> SUFFICES ASSUME ~is_checkpoint_enabled, NEW i \in 0 .. TxnCount(super) - 1
               PROVE  /\ Uses(i) \subseteq super.used
                      /\ Cardinality(Uses(i)) =
                            1 + Cardinality(DOMAIN logmem[super.entry[i].block].logs)
                      /\ \A j \in 0 .. i - 1 : Uses(i) \cap Uses(j) = {}
    BY Zenon DEF LogBlocksHaveOneUse
  <2>1. Inv
    BY <1>1 DEF IInv
  <2>2. TxnCount(super) \in Nat /\ Filled(TxnBlocks) = 0 .. TxnCount(super) - 1
    BY <2>1, CountTxns, BoundAssumption DEF Inv, TxnId
  <2>3. \A j \in 0 .. i - 1 : j \in Filled(TxnBlocks) /\ j # i
    BY <2>2
  <2>4. OneUse(TxnBlocks, super.used, LogsIn)
    BY <2>1, Zenon DEF Inv, LogInv
  <2>5. i \in Filled(TxnBlocks)
    BY <2>2
  <2>6. \A j \in Filled(TxnBlocks) :
          Uses(j) = {Spot(TxnBlocks, LogsIn, j, n) : n \in Spots(TxnBlocks, LogsIn, j)}
    BY <2>1, CountUses, Zenon
  <2>7. Uses(i) \subseteq super.used
    <3>1. \A n \in Spots(TxnBlocks, LogsIn, i) : Spot(TxnBlocks, LogsIn, i, n) \in super.used
      BY <2>4, <2>5, Zenon DEF OneUse
    <3>2. Uses(i) = {Spot(TxnBlocks, LogsIn, i, n) : n \in Spots(TxnBlocks, LogsIn, i)}
      BY <2>5, <2>6, Zenon
    <3> QED BY <3>1, <3>2
  <2>8. ASSUME NEW j \in 0 .. i - 1 PROVE Uses(i) \cap Uses(j) = {}
    <3>1. \A n \in Spots(TxnBlocks, LogsIn, i) : \A m \in Spots(TxnBlocks, LogsIn, j) :
             Spot(TxnBlocks, LogsIn, i, n) # Spot(TxnBlocks, LogsIn, j, m)
      BY <2>3, <2>4, <2>5, Zenon DEF OneUse
    <3>2. /\ Uses(i) = {Spot(TxnBlocks, LogsIn, i, n) : n \in Spots(TxnBlocks, LogsIn, i)}
          /\ Uses(j) = {Spot(TxnBlocks, LogsIn, j, n) : n \in Spots(TxnBlocks, LogsIn, j)}
      BY <2>3, <2>5, <2>6, ZenonT(40)
    <3> QED BY <3>1, <3>2
  <2> QED BY <2>1, <2>5, <2>7, <2>8, CountUses, Zenon
<1> QED BY <1>1, LogInvariant, PTL

\* A handler that holds superblock_lock never waits for the lock of a
\* transaction, although alloc_txn and append_log take the two in opposite orders.
THEOREM SuperblockLockIsLast == Spec => []SuperblockHolderRuns
<1>1. ASSUME IInv PROVE SuperblockHolderRuns
  <2> SUFFICES ASSUME ~is_checkpoint_enabled, superblock_lock # NoOne
               PROVE  WaitsFor(superblock_lock) = {}
    BY DEF SuperblockHolderRuns
  <2> DEFINE t == superblock_lock
  <2>1. Inv
    BY <1>1 DEF IInv
  <2>2. t \in Thread /\ Writing(call[t])
    BY <2>1 DEF Inv, Shapes, Handlers
  <2>3. CASE call[t].pc # "alloc_txn_write"
    BY <2>2, <2>3 DEF Writing, WaitsFor, At
  <2>4. CASE call[t].pc = "alloc_txn_write"
    <3>1. t \in Pending
      BY <2>2, <2>4 DEF Pending, Waiting
    <3>2. max_txn_id \in TxnId
      <4>1. /\ IsFiniteSet(Pending) /\ max_txn_id \in Nat /\ begun \in 0 .. MaxTxn
            /\ max_txn_id + Cardinality(Pending) <= begun
        BY <2>1 DEF Inv, Numbers
      <4>2. Cardinality(Pending) # 0 /\ Cardinality(Pending) \in Nat
        BY <3>1, <4>1, FS_EmptySet, FS_CardinalityType
      <4> QED BY <4>1, <4>2, BoundAssumption DEF TxnId
    <3>3. txn_lock[max_txn_id] = NoOne
      <4>1. txn_lock[max_txn_id] \in Thread \union {NoOne}
        BY <2>1, <3>2 DEF Inv, Shapes
      <4>2. ASSUME NEW u \in Thread, txn_lock[max_txn_id] = u PROVE FALSE
        <5>1. Appending(call[u]) /\ call[u].id = max_txn_id
          BY <2>1, <3>2, <4>2, ZenonT(40) DEF Inv, Handlers
        <5>2. Open(call[u])
          BY <5>1 DEF Open, Appending, Waiting
        <5>3. call[u].id \in 0 .. max_txn_id - 1
          BY <2>1, <5>2, Zenon DEF Inv, Handlers
        <5>4. max_txn_id \in Nat
          BY <2>1 DEF Inv, Numbers
        <5> QED BY <5>1, <5>3, <5>4
      <4> QED BY <4>1, <4>2
    <3> QED BY <2>4, <3>3 DEF WaitsFor, At
  <2> QED BY <2>3, <2>4
<1> QED BY <1>1, LogInvariant, PTL

\* recover_tx reads the number of a log block from one byte.
LEMMA OneByte ==
    ASSUME NEW a \in LogBlock, LogBlockCnt < ByteSize
    PROVE  a % ByteSize = a
<1>1. a \in Nat /\ ByteSize \in Nat \ {0} /\ a < ByteSize
  BY LogAssumption DEF LogBlock
<1> QED BY <1>1

\* Without checkpoints, and with a number of log blocks that fits in the byte
\* recover_tx reads, what append_log has returned for is in the log.
LoggedStaysLogged ==
    LogBlockCnt < ByteSize /\ ~is_checkpoint_enabled =>
        \A bc \in logged : InLog(bc[1], bc[2])

\* Without checkpoints, every change that append_log has returned for is from
\* then on in a log entry on the disk that recover reads, whatever the other
\* handlers do and however often the server crashes.
THEOREM LoggedIsOnDisk == Spec => []LoggedStaysLogged
<1>1. ASSUME IInv PROVE LoggedStaysLogged
  <2> SUFFICES ASSUME LogBlockCnt < ByteSize, ~is_checkpoint_enabled, NEW bc \in logged
               PROVE  InLog(bc[1], bc[2])
    BY Zenon DEF LoggedStaysLogged
  <2>1. Inv
    BY <1>1 DEF IInv
  <2>2. PICK i \in Filled(TxnBlocks) : \E n \in DOMAIN LogsIn[TxnBlocks[i]] :
               /\ LogsIn[TxnBlocks[i]][n].block = bc[1]
               /\ bc[2] \in StatesIn[LogsIn[TxnBlocks[i]][n].at]
    BY <2>1, Zenon DEF Inv, LogInv, Entered
  <2>3. PICK n \in DOMAIN LogsIn[TxnBlocks[i]] :
               /\ LogsIn[TxnBlocks[i]][n].block = bc[1]
               /\ bc[2] \in StatesIn[LogsIn[TxnBlocks[i]][n].at]
    BY <2>2, ZenonT(40)
  <2> DEFINE b == super.entry[i].block
             a == logmem[b].logs[n].at
  <2>4. /\ i \in TxnId /\ TxnBlocks[i] = b /\ b # 0 /\ b \in LogBlock
        /\ super.used \subseteq LogBlock
    BY <2>1 DEF Inv, Shapes, Filled, TxnBlocks, SuperBlock
  <2>5. LogsIn[TxnBlocks[i]] = logmem[b].logs
    BY <2>4, ZenonT(40) DEF LogsIn
  <2>6. n \in 1 .. TxnCounts[i] /\ TxnCounts[i] = super.entry[i].count
    <3>1. TxnCounts[i] = super.entry[i].count
      BY <2>4, Zenon DEF TxnCounts
    <3>2. DOMAIN LogsIn[TxnBlocks[i]] \subseteq 1 .. TxnCounts[i]
      BY <2>1, ZenonT(40) DEF Inv, LogInv, Counted
    <3> QED BY <2>3, <3>1, <3>2
  <2>7. a \in LogBlock
    <3>1. n # 0
      BY <2>1, <2>6 DEF Inv, LogInv, Counted
    <3>2. n \in Spots(TxnBlocks, LogsIn, i) /\ Spot(TxnBlocks, LogsIn, i, n) = a
      BY <2>3, <2>5, <3>1, Zenon DEF Spots, Spot
    <3>3. a \in super.used
      BY <2>1, <3>2, ZenonT(40) DEF Inv, LogInv, OneUse
    <3> QED BY <2>4, <3>3, ZenonT(40)
  <2>8. a % ByteSize = a
    BY <2>7, OneByte, Zenon
  <2>9. logdisk[b].logs = logmem[b].logs /\ bc[2] \in logdisk[a].state
    <3>1. /\ logdisk[b].logs = logmem[b].logs /\ logdisk[a].state = logmem[a].state
      BY <2>1, <2>4, <2>7, Zenon DEF Inv, Synced
    <3>2. bc[2] \in logmem[a].state
      BY <2>3, <2>5, <2>7, Zenon DEF StatesIn
    <3> QED BY <3>1, <3>2, Zenon
  <2>10. i \in 0 .. TxnCount(super) - 1
    BY <2>1, CountTxns, Zenon DEF Inv
  <2> HIDE DEF a, b
  <2>11. /\ n \in 1 .. super.entry[i].count /\ n \in DOMAIN logdisk[b].logs
         /\ logdisk[b].logs[n].block = bc[1] /\ logdisk[b].logs[n].at = a
    BY <2>3, <2>5, <2>6, <2>9, Zenon DEF a
  <2>12. bc[2] \in logdisk[logdisk[b].logs[n].at % ByteSize].state
    BY <2>8, <2>9, <2>11, Zenon
  <2> QED BY <2>10, <2>11, <2>12, Zenon DEF InLog, b
<1> QED BY <1>1, LogInvariant, PTL
=============================================================================
