--------------------------- MODULE CommitLogFacts ---------------------------
(***************************************************************************)
(* The inductive invariant of CommitLog without checkpoints, and the       *)
(* lemmas about its parts.                                                 *)
(*                                                                         *)
(* The log is given by constant operators of the blocks and counts of the  *)
(* transactions, the marked blocks, and the entries and states in the log  *)
(* blocks; the handlers by their records, the locks and the superblock. A  *)
(* step is first shown to change these in one of a few ways.               *)
(***************************************************************************)
EXTENDS CommitLog, FiniteSetTheorems, WellFoundedInduction, TLAPS

-----------------------------------------------------------------------------
\* Where a handler is: it has no transaction yet, it has one, it holds
\* superblock_lock, it holds the lock of its transaction, it has images of
\* blocks, it has log blocks for them.
Waiting(c) == c.pc \in {"alloc_txn", "alloc_txn_lock", "alloc_txn_write"}
Open(c) == c.pc # "idle" /\ ~Waiting(c)
Writing(c) == c.pc \in {"alloc_txn_write", "alloc_log_write", "commit_write"}
Appending(c) == c.pc \in {"alloc_log", "alloc_log_write", "save_logs"}
HasImages(c) == c.pc \in {"append_log", "append_job", "append_lock"} \/ Appending(c)
Saving(c) == c.pc = "save_logs"

Fields == {"pc", "dir", "txn", "id", "part", "redo", "failed", "ops", "buffer",
           "block", "idx", "at"}

\* A handler's variables; without checkpoints it is never in one.
Local(c) ==
    /\ DOMAIN c = Fields
    /\ c.pc \in Pc \ {"checkpoint", "ckpt_flush", "ckpt_clear", "ckpt_zero"}
    /\ HasImages(c) => Len(c.ops) \in {1, 2} /\ DOMAIN c.ops = 1 .. Len(c.ops)

\* Handlers cl have the locks that their places in the code say, their copies of
\* the superblock are current, and their transactions are their own.
Handlers(cl, sl, tl, sup, mx, on) ==
    \A t \in Thread :
        /\ Local(cl[t])
        /\ cl[t].pc # "idle" => on
        /\ Writing(cl[t]) <=> sl = t
        /\ Writing(cl[t]) => cl[t].buffer = sup
        /\ Open(cl[t]) => cl[t].id \in 0 .. mx - 1
        /\ \A u \in Thread : Open(cl[t]) /\ Open(cl[u]) /\ cl[t].id = cl[u].id => t = u
        /\ \A i \in TxnId : tl[i] = t => Appending(cl[t]) /\ cl[t].id = i

-----------------------------------------------------------------------------
\* The log, given by the block (bk) and the count (cn) of every transaction, the
\* marked blocks (us), and the log entries (lo) and the state (st) in every block.
\* The places that take a log block are the log entries of the transactions and,
\* under number 0, the transaction blocks.
Filled(bk) == {i \in TxnId : bk[i] # 0}
Spots(bk, lo, i) == {0} \union DOMAIN lo[bk[i]]
Spot(bk, lo, i, n) == IF n = 0 THEN bk[i] ELSE lo[bk[i]][n].at

\* Every log block that a transaction has is marked and is in one place.
OneUse(bk, us, lo) ==
    \A i \in Filled(bk) : \A n \in Spots(bk, lo, i) :
        /\ Spot(bk, lo, i, n) \in us
        /\ \A j \in Filled(bk) : \A m \in Spots(bk, lo, j) :
              Spot(bk, lo, i, n) = Spot(bk, lo, j, m) => i = j /\ n = m

\* The log blocks a handler is about to write are marked and nowhere else.
Reserves(bk, us, lo, cl) ==
    \A t \in Thread : Saving(cl[t]) =>
        \A a \in DOMAIN cl[t].at :
            /\ cl[t].at[a] \in us
            /\ \A i \in Filled(bk) : \A n \in Spots(bk, lo, i) :
                  Spot(bk, lo, i, n) # cl[t].at[a]
            /\ \A u \in Thread : Saving(cl[u]) =>
                  \A b \in DOMAIN cl[u].at :
                      cl[t].at[a] = cl[u].at[b] => t = u /\ a = b

\* The superblock counts at least the log entries that are there.
Counted(bk, cn, lo) ==
    \A i \in Filled(bk) : cn[i] \in Nat /\ DOMAIN lo[bk[i]] \subseteq 1 .. cn[i]

\* A handler that is about to write its log entries has the block of its
\* transaction, and no entry is in their place.
Knows(c, bk, cn, lo) ==
    Saving(c) =>
        /\ c.id \in Filled(bk) /\ c.block = bk[c.id]
        /\ DOMAIN c.at = 1 .. Len(c.ops) /\ Len(c.at) = Len(c.ops)
        /\ c.idx \in Nat /\ c.idx + Len(c.ops) <= cn[c.id]
        /\ DOMAIN lo[bk[c.id]] \subseteq 1 .. c.idx

\* An unmarked log block is empty.
Unused(us, lo, st) == \A k \in LogBlock \ us : lo[k] = <<>> /\ st[k] = {}

\* What append_log has returned for is in a log entry.
Entered(bk, lo, st, bc) ==
    \E i \in Filled(bk) : \E n \in DOMAIN lo[bk[i]] :
        lo[bk[i]][n].block = bc[1] /\ bc[2] \in st[lo[bk[i]][n].at]

LogInv(bk, cn, us, lo, st, cl, lg) ==
    /\ OneUse(bk, us, lo) /\ Reserves(bk, us, lo, cl) /\ Counted(bk, cn, lo)
    /\ \A t \in Thread : Knows(cl[t], bk, cn, lo)
    /\ Unused(us, lo, st)
    /\ \A bc \in lg : Entered(bk, lo, st, bc)

-----------------------------------------------------------------------------
\* These values in a state.
TxnBlocks == [i \in TxnId |-> super.entry[i].block]
TxnCounts == [i \in TxnId |-> super.entry[i].count]
LogsIn == [k \in LogBlock |-> logmem[k].logs]
StatesIn == [k \in LogBlock |-> logmem[k].state]

Shapes ==
    /\ super \in SuperBlock
    /\ logmem = [k \in LogBlock |-> logmem[k]] /\ logdisk = [k \in LogBlock |-> logdisk[k]]
    /\ \A k \in LogBlock : DOMAIN logmem[k] = {"op", "logs", "state"}
    /\ call = [t \in Thread |-> call[t]]
    /\ superblock_lock \in Thread \union {NoOne}
    /\ txn_lock \in [TxnId -> Thread \union {NoOne}]

\* Page cache and disk agree on every log block but for the operation.
Synced ==
    \A k \in LogBlock : /\ logdisk[k].logs = logmem[k].logs
                        /\ logdisk[k].state = logmem[k].state
                        /\ DOMAIN logdisk[k] = {"op", "logs", "state"}

Pending == {t \in Thread : Waiting(call[t])}

\* The transactions are numbered without gaps, in a running server up to
\* max_txn_id, and no more than were begun.
Numbers ==
    /\ begun \in 0 .. MaxTxn /\ max_txn_id \in Nat
    /\ IsFiniteSet(Pending) /\ max_txn_id + Cardinality(Pending) <= begun
    /\ \A i \in Filled(TxnBlocks) : i < begun
    /\ \A i \in Filled(TxnBlocks) : \A j \in TxnId : j < i => j \in Filled(TxnBlocks)
    /\ up => Filled(TxnBlocks) = 0 .. max_txn_id - 1

\* The inductive invariant, and with it what every server without checkpoints has.
Inv ==
    /\ Shapes /\ Synced /\ Numbers
    /\ Handlers(call, superblock_lock, txn_lock, super, max_txn_id, up)
    /\ LogInv(TxnBlocks, TxnCounts, super.used, LogsIn, StatesIn, call, logged)
IInv == ~is_checkpoint_enabled => Inv

-----------------------------------------------------------------------------
\* Finding free log blocks

\* A set of natural numbers has a least element.
LEMMA LeastNumber ==
    ASSUME NEW S \in SUBSET Nat, S # {}
    PROVE  \E x \in S : \A y \in S : x <= y
<1>1. PICK x \in S : \A y \in S : ~(<<y, x>> \in OpToRel(<, Nat))
  BY NatLessThanWellFounded, WFMin, Zenon
<1>2. ASSUME NEW y \in S PROVE x <= y
  <2>1. <<y, x>> \notin {ss \in Nat \X Nat : ss[1] < ss[2]}
    BY <1>1 DEF OpToRel
  <2> QED BY <2>1
<1> QED BY <1>2

\* What a set of free blocks has below its least and its second element.
LEMMA FirstTwo ==
    ASSUME NEW F \in SUBSET Nat, IsFiniteSet(F)
    PROVE  /\ Cardinality(F) >= 1 =>
                 \E k \in F : Cardinality({j \in F : j < k}) = 0
           /\ Cardinality(F) >= 2 =>
                 \E k \in F : Cardinality({j \in F : j < k}) = 1
<1>1. ASSUME Cardinality(F) >= 1
      PROVE  \E k \in F : (\A y \in F : k <= y) /\ {j \in F : j < k} = {}
  <2>1. F # {}
    BY <1>1, FS_EmptySet
  <2>2. PICK k \in F : \A y \in F : k <= y
    BY <2>1, LeastNumber
  <2>3. \A j \in F : ~(j < k)
    BY <2>2
  <2>4. {j \in F : j < k} = {}
    BY <2>3, Zenon
  <2> QED BY <2>2, <2>4, Zenon
<1>2. ASSUME Cardinality(F) >= 2
      PROVE  \E k \in F : Cardinality({j \in F : j < k}) = 1
  <2>1. PICK a \in F : \A y \in F : a <= y
    BY <1>1, <1>2, FS_CardinalityType
  <2>2. IsFiniteSet(F \ {a}) /\ Cardinality(F \ {a}) = Cardinality(F) - 1
        /\ Cardinality(F) \in Nat
    BY FS_RemoveElement, FS_CardinalityType
  <2>3. F \ {a} # {}
    BY <1>2, <2>2, FS_EmptySet
  <2>4. PICK k \in F \ {a} : \A y \in F \ {a} : k <= y
    BY <2>3, LeastNumber, Zenon
  <2>5. \A j \in F : j < k <=> j = a
    BY <2>1, <2>4
  <2>6. {j \in F : j < k} = {a}
    BY <2>5, Zenon
  <2> QED BY <2>4, <2>6, FS_Singleton, Zenon
<1> QED BY <1>1, <1>2, FS_EmptySet

\* The blocks found are free and different.
LEMMA FindFree ==
    ASSUME NEW us \in SUBSET LogBlock, NEW n \in {1, 2}, HasRoom(us, n),
           NEW f, f = find_free_log_block(us, n)
    PROVE  /\ f \in [1 .. n -> LogBlock \ us] /\ Len(f) = n
           /\ \A a, b \in 1 .. n : f[a] = f[b] => a = b
<1> DEFINE F == LogBlock \ us
<1>1. F \in SUBSET Nat /\ IsFiniteSet(F)
  <2>1. LogBlock \in SUBSET Nat /\ IsFiniteSet(LogBlock)
    BY LogAssumption, FS_Interval DEF LogBlock
  <2> QED BY <2>1, FS_Subset
<1>2. Cardinality(F) \in Nat /\ Cardinality(F) >= n
  BY <1>1, FS_CardinalityType DEF HasRoom
<1>3. \A i \in 1 .. n : \E k \in F : Cardinality({j \in F : j < k}) = i - 1
  <2>1. SUFFICES ASSUME NEW i \in 1 .. n
                 PROVE  \E k \in F : Cardinality({j \in F : j < k}) = i - 1
    BY Zenon
  <2>2. CASE i = 1
    BY <1>1, <1>2, <2>2, FirstTwo
  <2>3. CASE i = 2
    BY <1>1, <1>2, <2>3, FirstTwo
  <2>4. i = 1 \/ i = 2
    OBVIOUS
  <2> QED BY <2>2, <2>3, <2>4, Zenon
<1>4. f = [i \in 1 .. n |-> CHOOSE k \in F : Cardinality({j \in F : j < k}) = i - 1]
  BY Zenon DEF find_free_log_block
<1> HIDE DEF F
<1>5. \A i \in 1 .. n : f[i] \in F /\ Cardinality({j \in F : j < f[i]}) = i - 1
  <2>1. SUFFICES ASSUME NEW i \in 1 .. n
                 PROVE  f[i] \in F /\ Cardinality({j \in F : j < f[i]}) = i - 1
    OBVIOUS
  <2>2. f[i] = CHOOSE k \in F : Cardinality({j \in F : j < k}) = i - 1
    BY <1>4, Zenon
  <2> QED BY <1>3, <2>2, Zenon
<1>6. f \in [1 .. n -> F]
  BY <1>4, <1>5, Zenon
<1>7. ASSUME NEW a \in 1 .. n, NEW b \in 1 .. n, f[a] = f[b] PROVE a = b
  <2>1. a - 1 = b - 1
    BY <1>5, <1>7, Zenon
  <2> QED BY <2>1
<1>8. Len(f) = n
  BY <1>6
<1> QED BY <1>6, <1>7, <1>8 DEF F

-----------------------------------------------------------------------------
\* The log under the steps of the handlers

\* Only handlers that were about to write log entries are.
LEMMA LogKeep ==
    ASSUME NEW bk, NEW cn, NEW us, NEW lo, NEW st, NEW cl, NEW lg, NEW cl2, NEW lg2,
           LogInv(bk, cn, us, lo, st, cl, lg),
           \A t \in Thread : Saving(cl2[t]) => cl2[t] = cl[t],
           lg2 \subseteq lg
    PROVE  LogInv(bk, cn, us, lo, st, cl2, lg2)
<1>1. Reserves(bk, us, lo, cl2)
  BY DEF LogInv, Reserves
<1>2. \A t \in Thread : Knows(cl2[t], bk, cn, lo)
  BY Zenon DEF LogInv, Knows
<1> QED BY <1>1, <1>2, Zenon DEF LogInv

\* alloc_txn gives transaction id the free log block k, which is empty.
LEMMA LogNewTxn ==
    ASSUME NEW bk \in [TxnId -> LogBlock \union {0}], NEW cn \in [TxnId -> Nat],
           NEW us \in SUBSET LogBlock, NEW lo, NEW st, NEW cl, NEW lg, NEW cl2,
           LogInv(bk, cn, us, lo, st, cl, lg),
           \A t \in Thread : Saving(cl2[t]) => cl2[t] = cl[t],
           NEW id \in TxnId, bk[id] = 0, NEW k \in LogBlock, k \notin us,
           NEW bk2, bk2 = [bk EXCEPT ![id] = k], NEW cn2, cn2 = [cn EXCEPT ![id] = 0]
    PROVE  LogInv(bk2, cn2, us \union {k}, lo, st, cl2, lg)
<1>1. LogInv(bk, cn, us, lo, st, cl2, lg)
  BY LogKeep, Zenon
<1>2. k # 0 /\ 0 \notin us
  BY LogAssumption DEF LogBlock
<1>3. Filled(bk2) = Filled(bk) \union {id} /\ id \notin Filled(bk)
  BY <1>2 DEF Filled
<1>4. lo[k] = <<>> /\ DOMAIN lo[k] = {}
  BY <1>1 DEF LogInv, Unused
<1>5. Spots(bk2, lo, id) = {0} /\ Spot(bk2, lo, id, 0) = k /\ bk2[id] = k /\ cn2[id] = 0
  BY <1>4 DEF Spots, Spot
<1>6. \A i \in Filled(bk) : /\ bk2[i] = bk[i] /\ cn2[i] = cn[i]
                           /\ Spots(bk2, lo, i) = Spots(bk, lo, i)
                           /\ \A n : Spot(bk2, lo, i, n) = Spot(bk, lo, i, n)
  <2>1. SUFFICES ASSUME NEW i \in Filled(bk)
                 PROVE  bk2[i] = bk[i] /\ cn2[i] = cn[i]
    BY <2>1 DEF Spots, Spot
  <2>2. i # id /\ i \in TxnId
    BY <1>3, Zenon DEF Filled
  <2> QED BY <2>2
<1>7. \A i \in Filled(bk) : \A n \in Spots(bk, lo, i) : Spot(bk, lo, i, n) # k
  BY <1>1, ZenonT(40) DEF LogInv, OneUse
<1>8. OneUse(bk2, us \union {k}, lo)
  <2>1. SUFFICES ASSUME NEW i \in Filled(bk2), NEW n \in Spots(bk2, lo, i)
                 PROVE  /\ Spot(bk2, lo, i, n) \in us \union {k}
                        /\ \A j \in Filled(bk2) : \A m \in Spots(bk2, lo, j) :
                             Spot(bk2, lo, i, n) = Spot(bk2, lo, j, m) => i = j /\ n = m
    BY <2>1, Zenon DEF OneUse
  <2>2. CASE i = id
    <3>1. n = 0
      BY <1>5, <2>2, Zenon
    <3>2. ASSUME NEW j \in Filled(bk2), NEW m \in Spots(bk2, lo, j),
                 Spot(bk2, lo, j, m) = k
          PROVE  j = id /\ m = 0
      <4>1. CASE j = id
        BY <1>5, <4>1, Zenon
      <4>2. CASE j \in Filled(bk)
        <5>1. m \in Spots(bk, lo, j) /\ Spot(bk2, lo, j, m) = Spot(bk, lo, j, m)
          BY <1>6, <4>2, Zenon
        <5> QED BY <1>7, <3>2, <4>2, <5>1, Zenon
      <4> QED BY <1>3, <4>1, <4>2, Zenon
    <3> QED BY <1>5, <2>2, <3>1, <3>2, Zenon
  <2>3. CASE i \in Filled(bk)
    <3>1. n \in Spots(bk, lo, i) /\ Spot(bk2, lo, i, n) = Spot(bk, lo, i, n)
      BY <1>6, <2>3, Zenon
    <3>2. ASSUME NEW j \in Filled(bk2), NEW m \in Spots(bk2, lo, j),
                 Spot(bk2, lo, i, n) = Spot(bk2, lo, j, m)
          PROVE  i = j /\ n = m
      <4>1. CASE j = id
        BY <1>5, <1>7, <2>3, <3>1, <3>2, <4>1, Zenon
      <4>2. CASE j \in Filled(bk)
        <5>1. m \in Spots(bk, lo, j) /\ Spot(bk2, lo, j, m) = Spot(bk, lo, j, m)
          BY <1>6, <4>2, Zenon
        <5>2. Spot(bk, lo, i, n) = Spot(bk, lo, j, m)
          BY <3>1, <3>2, <5>1, Zenon
        <5>3. OneUse(bk, us, lo)
          BY <1>1, Zenon DEF LogInv
        <5> QED BY <2>3, <3>1, <4>2, <5>1, <5>2, <5>3, Zenon DEF OneUse
      <4> QED BY <1>3, <4>1, <4>2, Zenon
    <3>3. Spot(bk2, lo, i, n) \in us
      BY <1>1, <2>3, <3>1, Zenon DEF LogInv, OneUse
    <3> QED BY <3>2, <3>3, Zenon
  <2> QED BY <1>3, <2>2, <2>3, Zenon
<1>9. Reserves(bk2, us \union {k}, lo, cl2)
  <2>1. SUFFICES ASSUME NEW t \in Thread, Saving(cl2[t]), NEW a \in DOMAIN cl2[t].at
                 PROVE  /\ cl2[t].at[a] \in us \union {k}
                        /\ \A i \in Filled(bk2) : \A n \in Spots(bk2, lo, i) :
                              Spot(bk2, lo, i, n) # cl2[t].at[a]
                        /\ \A u \in Thread : Saving(cl2[u]) =>
                              \A b \in DOMAIN cl2[u].at :
                                  cl2[t].at[a] = cl2[u].at[b] => t = u /\ a = b
    BY <2>1, Zenon DEF Reserves
  <2>2. /\ cl2[t].at[a] \in us
        /\ \A i \in Filled(bk) : \A n \in Spots(bk, lo, i) :
              Spot(bk, lo, i, n) # cl2[t].at[a]
        /\ \A u \in Thread : Saving(cl2[u]) =>
              \A b \in DOMAIN cl2[u].at : cl2[t].at[a] = cl2[u].at[b] => t = u /\ a = b
    BY <1>1, <2>1 DEF LogInv, Reserves
  <2>3. \A i \in Filled(bk2) : \A n \in Spots(bk2, lo, i) :
              Spot(bk2, lo, i, n) # cl2[t].at[a]
    <3>1. SUFFICES ASSUME NEW i \in Filled(bk2), NEW n \in Spots(bk2, lo, i)
                   PROVE  Spot(bk2, lo, i, n) # cl2[t].at[a]
      BY Zenon
    <3>2. CASE i = id
      <4>1. Spot(bk2, lo, i, n) = k
        BY <1>5, <3>2, Zenon
      <4> QED BY <2>2, <4>1
    <3>3. CASE i \in Filled(bk)
      <4>1. n \in Spots(bk, lo, i) /\ Spot(bk2, lo, i, n) = Spot(bk, lo, i, n)
        BY <1>6, <3>3, Zenon
      <4> QED BY <2>2, <3>3, <4>1, Zenon
    <3> QED BY <1>3, <3>2, <3>3, Zenon
  <2> QED BY <2>2, <2>3, Zenon
<1>10. Counted(bk2, cn2, lo)
  <2>1. \A i \in Filled(bk) : cn2[i] \in Nat /\ DOMAIN lo[bk2[i]] \subseteq 1 .. cn2[i]
    BY <1>1, <1>6, Zenon DEF LogInv, Counted
  <2>2. cn2[id] \in Nat /\ DOMAIN lo[bk2[id]] \subseteq 1 .. cn2[id]
    BY <1>4, <1>5
  <2> QED BY <1>3, <2>1, <2>2, Zenon DEF Counted
<1>11. \A t \in Thread : Knows(cl2[t], bk2, cn2, lo)
  BY <1>1, <1>3, <1>6, Zenon DEF LogInv, Knows
<1>12. Unused(us \union {k}, lo, st)
  BY <1>1, Zenon DEF LogInv, Unused
<1>13. \A bc \in lg : Entered(bk2, lo, st, bc)
  <2>1. SUFFICES ASSUME NEW bc \in lg
                 PROVE  Entered(bk2, lo, st, bc)
    BY Zenon
  <2>2. PICK i \in Filled(bk) : \E n \in DOMAIN lo[bk[i]] :
                lo[bk[i]][n].block = bc[1] /\ bc[2] \in st[lo[bk[i]][n].at]
    BY <1>1, Zenon DEF LogInv, Entered
  <2>3. bk2[i] = bk[i] /\ i \in Filled(bk2)
    BY <1>3, <1>6, Zenon
  <2> QED BY <2>2, <2>3, Zenon DEF Entered
<1> QED BY <1>8, <1>9, <1>10, <1>11, <1>12, <1>13, Zenon DEF LogInv

\* alloc_log gives the handler of thread t, which becomes c, n free log blocks f.
GetsBlocks(t, c, n, f, bk, cn, us, cl, cn2, us2, cl2) ==
    /\ \A u \in Thread : u # t => cl2[u] = cl[u]
    /\ n \in {1, 2} /\ f \in [1 .. n -> LogBlock \ us] /\ Len(f) = n
    /\ \A a, b \in 1 .. n : f[a] = f[b] => a = b
    /\ cl2[t] = c /\ Saving(c) /\ c.at = f /\ Len(c.ops) = n
    /\ c.id \in Filled(bk) /\ c.block = bk[c.id] /\ c.idx = cn[c.id]
    /\ \A u \in Thread : u # t /\ Saving(cl[u]) => cl[u].id # c.id
    /\ cn2 = [cn EXCEPT ![c.id] = cn[c.id] + n]
    /\ us2 = us \union Elements(f)

\* alloc_log preserves the invariant of the log.
LEMMA LogMore ==
    ASSUME NEW bk \in [TxnId -> LogBlock \union {0}], NEW cn \in [TxnId -> Nat],
           NEW us \in SUBSET LogBlock, NEW lo, NEW st, NEW cl, NEW lg,
           LogInv(bk, cn, us, lo, st, cl, lg),
           NEW t \in Thread, NEW c, NEW n, NEW f, NEW cn2, NEW us2, NEW cl2,
           GetsBlocks(t, c, n, f, bk, cn, us, cl, cn2, us2, cl2)
    PROVE  LogInv(bk, cn2, us2, lo, st, cl2, lg)
<1>a. /\ \A u \in Thread : u # t => cl2[u] = cl[u]
      /\ cl2[t] = c /\ Saving(c) /\ c.at = f /\ Len(c.ops) = n
      /\ \A u \in Thread : u # t /\ Saving(cl[u]) => cl[u].id # c.id
  BY Zenon DEF GetsBlocks
<1>b. /\ n \in {1, 2} /\ f \in [1 .. n -> LogBlock \ us] /\ Len(f) = n
      /\ \A a, b \in 1 .. n : f[a] = f[b] => a = b
  BY Zenon DEF GetsBlocks
<1>c. /\ c.id \in Filled(bk) /\ c.block = bk[c.id] /\ c.idx = cn[c.id]
      /\ cn2 = [cn EXCEPT ![c.id] = cn[c.id] + n] /\ us2 = us \union Elements(f)
  BY Zenon DEF GetsBlocks
<1>1. us \subseteq us2 /\ DOMAIN f = 1 .. n /\ \A a \in 1 .. n : f[a] \in us2 /\ f[a] \notin us
  <2>1. DOMAIN f = 1 .. n /\ \A a \in 1 .. n : f[a] \notin us
    BY <1>b
  <2>2. \A a \in 1 .. n : f[a] \in Elements(f)
    BY <2>1, Zenon DEF Elements
  <2> QED BY <1>c, <2>1, <2>2, Zenon
<1>2. c.id \in TxnId /\ cn[c.id] \in Nat /\ cn2[c.id] = cn[c.id] + n
      /\ \A i \in TxnId : i # c.id => cn2[i] = cn[i]
  BY <1>b, <1>c DEF Filled
<1>3. OneUse(bk, us2, lo)
  <2>1. OneUse(bk, us, lo)
    BY Zenon DEF LogInv
  <2>2. ASSUME NEW i \in Filled(bk), NEW m \in Spots(bk, lo, i)
        PROVE  Spot(bk, lo, i, m) \in us2
    BY <1>1, <2>1, Zenon DEF OneUse
  <2> QED BY <2>1, <2>2 DEF OneUse
<1>4. \A i \in Filled(bk) : \A m \in Spots(bk, lo, i) : Spot(bk, lo, i, m) \in us
  BY Zenon DEF LogInv, OneUse
<1>5. Reserves(bk, us2, lo, cl2)
  <2>0. Reserves(bk, us, lo, cl)
    BY Zenon DEF LogInv
  <2>1. SUFFICES ASSUME NEW v \in Thread, Saving(cl2[v]), NEW a \in DOMAIN cl2[v].at
                 PROVE  /\ cl2[v].at[a] \in us2
                        /\ \A i \in Filled(bk) : \A m \in Spots(bk, lo, i) :
                              Spot(bk, lo, i, m) # cl2[v].at[a]
                        /\ \A u \in Thread : Saving(cl2[u]) =>
                              \A b \in DOMAIN cl2[u].at :
                                  cl2[v].at[a] = cl2[u].at[b] => v = u /\ a = b
    BY <2>1, Zenon DEF Reserves
  <2>2. \A u \in Thread : u # t /\ Saving(cl2[u]) => \A b \in DOMAIN cl2[u].at :
            cl2[u].at[b] \in us
    BY <1>a, <2>0, Zenon DEF Reserves
  <2>3. CASE v = t
    <3>1. cl2[v].at = f /\ a \in 1 .. n
      BY <1>1, <1>a, <2>1, <2>3, Zenon
    <3>2. f[a] \in us2 /\ f[a] \notin us
      BY <1>1, <3>1, Zenon
    <3>3. ASSUME NEW u \in Thread, Saving(cl2[u]), NEW b \in DOMAIN cl2[u].at,
                 f[a] = cl2[u].at[b]
          PROVE  v = u /\ a = b
      <4>1. u = t
        BY <2>2, <3>2, <3>3, Zenon
      <4>2. b \in 1 .. n /\ f[a] = f[b]
        BY <1>1, <1>a, <3>3, <4>1, Zenon
      <4> QED BY <1>b, <2>3, <3>1, <4>1, <4>2, Zenon
    <3>4. \A i \in Filled(bk) : \A m \in Spots(bk, lo, i) : Spot(bk, lo, i, m) # f[a]
      BY <1>4, <3>2, Zenon
    <3> QED BY <3>1, <3>2, <3>3, <3>4, Zenon
  <2>4. CASE v # t
    <3>1. cl2[v] = cl[v]
      BY <1>a, <2>4, Zenon
    <3>2. /\ cl2[v].at[a] \in us
          /\ \A i \in Filled(bk) : \A m \in Spots(bk, lo, i) :
                Spot(bk, lo, i, m) # cl2[v].at[a]
          /\ \A u \in Thread : Saving(cl[u]) =>
                \A b \in DOMAIN cl[u].at : cl2[v].at[a] = cl[u].at[b] => v = u /\ a = b
      BY <2>0, <2>1, <3>1 DEF Reserves
    <3>3. ASSUME NEW u \in Thread, Saving(cl2[u]), NEW b \in DOMAIN cl2[u].at,
                 cl2[v].at[a] = cl2[u].at[b]
          PROVE  v = u /\ a = b
      <4>1. CASE u = t
        BY <1>1, <1>a, <3>2, <3>3, <4>1, Zenon
      <4>2. CASE u # t
        BY <1>a, <3>2, <3>3, <4>2, Zenon
      <4> QED BY <4>1, <4>2, Zenon
    <3>4. cl2[v].at[a] \in us2
      BY <1>1, <3>2, Zenon
    <3> QED BY <3>2, <3>3, <3>4, Zenon
  <2> QED BY <2>3, <2>4, Zenon
<1>6. Counted(bk, cn2, lo)
  <2>1. SUFFICES ASSUME NEW i \in Filled(bk)
                 PROVE  cn2[i] \in Nat /\ DOMAIN lo[bk[i]] \subseteq 1 .. cn2[i]
    BY <2>1, Zenon DEF Counted
  <2>2. cn[i] \in Nat /\ DOMAIN lo[bk[i]] \subseteq 1 .. cn[i] /\ i \in TxnId
    BY Zenon DEF LogInv, Counted, Filled
  <2>3. cn2[i] \in Nat /\ cn[i] <= cn2[i]
    BY <1>2, <1>b, <2>2
  <2> QED BY <2>2, <2>3
<1>7. ASSUME NEW u \in Thread PROVE Knows(cl2[u], bk, cn2, lo)
  <2>1. CASE u = t
    <3>1. DOMAIN lo[bk[c.id]] \subseteq 1 .. cn[c.id]
      BY <1>c, Zenon DEF LogInv, Counted
    <3>2. DOMAIN c.at = 1 .. Len(c.ops) /\ Len(c.at) = Len(c.ops)
      BY <1>1, <1>a, <1>b, Zenon
    <3>3. c.idx \in Nat /\ c.idx + Len(c.ops) <= cn2[c.id]
      BY <1>2, <1>a, <1>b, <1>c
    <3> QED BY <1>a, <1>c, <2>1, <3>1, <3>2, <3>3, Zenon DEF Knows
  <2>2. CASE u # t
    <3>1. cl2[u] = cl[u] /\ Knows(cl[u], bk, cn, lo)
      BY <1>a, <2>2, Zenon DEF LogInv
    <3>2. ASSUME Saving(cl[u]) PROVE cn2[cl[u].id] = cn[cl[u].id]
      <4>1. cl[u].id # c.id /\ cl[u].id \in TxnId
        BY <1>a, <2>2, <3>1, <3>2, Zenon DEF Knows, Filled
      <4> QED BY <1>2, <4>1, Zenon
    <3> QED BY <3>1, <3>2, Zenon DEF Knows
  <2> QED BY <2>1, <2>2, Zenon
<1>8. Unused(us2, lo, st)
  BY <1>1, Zenon DEF LogInv, Unused
<1> QED BY <1>3, <1>5, <1>6, <1>7, <1>8, Zenon DEF LogInv

\* append_log, called by the handler c of thread t, writes states in the log blocks
\* c.at and then the log entries nw.
Saves(t, c, nw, lo, st, cl, lg, lo2, st2, cl2, lg2) ==
    /\ \A u \in Thread : u # t => cl2[u] = cl[u]
    /\ cl[t] = c /\ Saving(c) /\ ~Saving(cl2[t])
    /\ \A u \in Thread : u # t /\ Saving(cl[u]) => cl[u].id # c.id
    /\ DOMAIN c.ops = 1 .. Len(c.ops) /\ Len(c.ops) \in Nat
    /\ nw = c.idx + 1 .. c.idx + Len(c.at)
    /\ \A k \in LogBlock : k # c.block /\ k \notin Elements(c.at) =>
           lo2[k] = lo[k] /\ st2[k] = st[k]
    /\ \A a \in DOMAIN c.at : c.at[a] # c.block => st2[c.at[a]] = c.ops[a].state
    /\ DOMAIN lo2[c.block] = DOMAIN lo[c.block] \union nw
    /\ \A i \in DOMAIN lo[c.block] \ nw : lo2[c.block][i] = lo[c.block][i]
    /\ \A i \in nw : /\ lo2[c.block][i].block = c.ops[i - c.idx].block
                     /\ lo2[c.block][i].at = c.at[i - c.idx]
    /\ lg2 = lg \union UNION {{c.ops[i].block} \X c.ops[i].state : i \in DOMAIN c.ops}

\* append_log preserves the invariant of the log.
LEMMA LogSave ==
    ASSUME NEW bk \in [TxnId -> LogBlock \union {0}], NEW cn \in [TxnId -> Nat],
           NEW us \in SUBSET LogBlock, NEW lo, NEW st, NEW cl, NEW lg,
           LogInv(bk, cn, us, lo, st, cl, lg),
           NEW t \in Thread, NEW c, NEW nw, NEW lo2, NEW st2, NEW cl2, NEW lg2,
           Saves(t, c, nw, lo, st, cl, lg, lo2, st2, cl2, lg2)
    PROVE  LogInv(bk, cn, us, lo2, st2, cl2, lg2)
<1> DEFINE id == c.id
\* What Saves says, of the handlers (a), the numbers (b), the log blocks (c, d), the log
\* entries (e, f, g) and the changes that are logged (h).
<1>a. /\ \A u \in Thread : u # t => cl2[u] = cl[u]
      /\ cl[t] = c /\ Saving(c) /\ ~Saving(cl2[t])
      /\ \A u \in Thread : u # t /\ Saving(cl[u]) => cl[u].id # id
  BY Zenon DEF Saves
<1>b. /\ DOMAIN c.ops = 1 .. Len(c.ops) /\ Len(c.ops) \in Nat
      /\ nw = c.idx + 1 .. c.idx + Len(c.at)
  BY Zenon DEF Saves
<1>c. \A k \in LogBlock : k # c.block /\ k \notin Elements(c.at) =>
         lo2[k] = lo[k] /\ st2[k] = st[k]
  BY Zenon DEF Saves
<1>d. \A a \in DOMAIN c.at : c.at[a] # c.block => st2[c.at[a]] = c.ops[a].state
  BY Zenon DEF Saves
<1>e. DOMAIN lo2[c.block] = DOMAIN lo[c.block] \union nw
  BY Zenon DEF Saves
<1>f. \A i \in DOMAIN lo[c.block] \ nw : lo2[c.block][i] = lo[c.block][i]
  BY Zenon DEF Saves
<1>g. \A i \in nw : /\ lo2[c.block][i].block = c.ops[i - c.idx].block
                   /\ lo2[c.block][i].at = c.at[i - c.idx]
  BY Zenon DEF Saves
<1>h. lg2 = lg \union UNION {{c.ops[i].block} \X c.ops[i].state : i \in DOMAIN c.ops}
  BY Zenon DEF Saves
<1>1. /\ OneUse(bk, us, lo) /\ Reserves(bk, us, lo, cl) /\ Counted(bk, cn, lo)
      /\ Unused(us, lo, st) /\ \A bc \in lg : Entered(bk, lo, st, bc)
      /\ \A u \in Thread : Knows(cl[u], bk, cn, lo)
  BY Zenon DEF LogInv
<1>2. /\ id \in Filled(bk) /\ c.block = bk[id]
      /\ DOMAIN c.at = 1 .. Len(c.ops) /\ Len(c.at) = Len(c.ops)
      /\ c.idx \in Nat /\ c.idx + Len(c.ops) <= cn[id]
      /\ DOMAIN lo[bk[id]] \subseteq 1 .. c.idx
  BY <1>1, <1>a, Zenon DEF Knows
<1>3. \A i \in Filled(bk) : i \in TxnId /\ bk[i] \in LogBlock /\ 0 \in Spots(bk, lo, i)
          /\ Spot(bk, lo, i, 0) = bk[i] /\ bk[i] \in us
  <2>1. \A i \in Filled(bk) : i \in TxnId /\ bk[i] \in LogBlock
    BY DEF Filled
  <2>2. \A i \in Filled(bk) : 0 \in Spots(bk, lo, i) /\ Spot(bk, lo, i, 0) = bk[i]
    BY Zenon DEF Spots, Spot
  <2> QED BY <1>1, <2>1, <2>2 DEF OneUse
<1>4. \A a \in DOMAIN c.at :
          /\ c.at[a] \in us /\ c.at[a] \in Elements(c.at)
          /\ \A i \in Filled(bk) : \A n \in Spots(bk, lo, i) : Spot(bk, lo, i, n) # c.at[a]
          /\ \A b \in DOMAIN c.at : c.at[a] = c.at[b] => a = b
  <2>1. \A a \in DOMAIN c.at :
          /\ c.at[a] \in us
          /\ \A i \in Filled(bk) : \A n \in Spots(bk, lo, i) : Spot(bk, lo, i, n) # c.at[a]
          /\ \A b \in DOMAIN c.at : c.at[a] = c.at[b] => a = b
    BY <1>1, <1>a DEF Reserves
  <2>2. \A a \in DOMAIN c.at : c.at[a] \in Elements(c.at)
    BY Zenon DEF Elements
  <2> QED BY <2>1, <2>2, ZenonT(40)
<1>5. \A i \in Filled(bk) : bk[i] \notin Elements(c.at)
  <2>1. ASSUME NEW i \in Filled(bk), NEW a \in DOMAIN c.at PROVE bk[i] # c.at[a]
    BY <1>3, <1>4, Zenon
  <2> QED BY <2>1, Zenon DEF Elements
<1>6. ASSUME NEW i \in Filled(bk), i # id PROVE lo2[bk[i]] = lo[bk[i]]
  <2>1. bk[i] # bk[id]
    <3>1. Spot(bk, lo, i, 0) = bk[i] /\ Spot(bk, lo, id, 0) = bk[id]
          /\ 0 \in Spots(bk, lo, i) /\ 0 \in Spots(bk, lo, id)
      BY <1>2, <1>3, Zenon
    <3>2. Spot(bk, lo, i, 0) # Spot(bk, lo, id, 0)
      BY <1>1, <1>2, <1>6, <3>1, ZenonT(40) DEF OneUse
    <3> QED BY <3>1, <3>2, Zenon
  <2> QED BY <1>2, <1>3, <1>5, <1>c, <2>1, Zenon
<1>7. \A i \in nw : i - c.idx \in DOMAIN c.at /\ i \notin 1 .. c.idx /\ i # 0 /\ i \in 1 .. cn[id]
  <2>1. cn[id] \in Nat
    BY <1>2, <1>3
  <2> QED BY <1>2, <1>b, <2>1, SMTT(40)
<1> DEFINE Old(i, n) == n \in Spots(bk, lo, i) /\ Spot(bk, lo2, i, n) = Spot(bk, lo, i, n)
           New(i, n) == /\ i = id /\ n \in nw /\ n - c.idx \in DOMAIN c.at
                        /\ Spot(bk, lo2, i, n) = c.at[n - c.idx]
\* A place has the log block that it had, or it is new.
<1>8. ASSUME NEW i \in Filled(bk), NEW n \in Spots(bk, lo2, i) PROVE Old(i, n) \/ New(i, n)
  <2>1. CASE i # id
    <3>1. lo2[bk[i]] = lo[bk[i]]
      BY <1>6, <2>1, Zenon
    <3> QED BY <3>1, Zenon DEF Spots, Spot
  <2>2. CASE i = id /\ n \notin nw
    <3>1. n = 0 \/ n \in DOMAIN lo[bk[id]]
      BY <1>2, <1>e, <2>2, Zenon DEF Spots
    <3>2. n # 0 => lo2[bk[id]][n] = lo[bk[id]][n]
      BY <1>2, <1>f, <2>2, <3>1, Zenon
    <3> QED BY <2>2, <3>1, <3>2, Zenon DEF Spots, Spot
  <2>3. CASE i = id /\ n \in nw
    <3>1. n # 0 /\ lo2[bk[id]][n].at = c.at[n - c.idx] /\ n - c.idx \in DOMAIN c.at
      BY <1>2, <1>7, <1>g, <2>3, Zenon
    <3> QED BY <2>3, <3>1, Zenon DEF Spot
  <2> QED BY <2>1, <2>2, <2>3, Zenon
<1>9. OneUse(bk, us, lo2)
  <2>1. SUFFICES ASSUME NEW i \in Filled(bk), NEW n \in Spots(bk, lo2, i)
                 PROVE  /\ Spot(bk, lo2, i, n) \in us
                        /\ \A j \in Filled(bk) : \A m \in Spots(bk, lo2, j) :
                             Spot(bk, lo2, i, n) = Spot(bk, lo2, j, m) => i = j /\ n = m
    BY <2>1, Zenon DEF OneUse
  <2>2. Spot(bk, lo2, i, n) \in us
    <3>1. CASE Old(i, n)
      BY <1>1, <3>1, Zenon DEF OneUse
    <3>2. CASE New(i, n)
      BY <1>4, <3>2, Zenon
    <3> QED BY <1>8, <3>1, <3>2, Zenon
  <2>3. ASSUME NEW j \in Filled(bk), NEW m \in Spots(bk, lo2, j),
               Spot(bk, lo2, i, n) = Spot(bk, lo2, j, m)
        PROVE  i = j /\ n = m
    <3>1. CASE Old(i, n) /\ Old(j, m)
      <4>1. Spot(bk, lo, i, n) = Spot(bk, lo, j, m)
        BY <2>3, <3>1, Zenon
      <4> QED BY <1>1, <3>1, <4>1, Zenon DEF OneUse
    <3>2. CASE Old(i, n) /\ New(j, m)
      <4>1. Spot(bk, lo, i, n) = c.at[m - c.idx]
        BY <2>3, <3>2, Zenon
      <4>2. n \in Spots(bk, lo, i) /\ m - c.idx \in DOMAIN c.at
        BY <3>2, Zenon
      <4> QED BY <1>4, <4>1, <4>2, Zenon
    <3>3. CASE New(i, n) /\ Old(j, m)
      <4>1. Spot(bk, lo, j, m) = c.at[n - c.idx]
        BY <2>3, <3>3, Zenon
      <4>2. m \in Spots(bk, lo, j) /\ n - c.idx \in DOMAIN c.at
        BY <3>3, Zenon
      <4> QED BY <1>4, <4>1, <4>2, Zenon
    <3>4. CASE New(i, n) /\ New(j, m)
      <4>1. c.at[n - c.idx] = c.at[m - c.idx]
        BY <2>3, <3>4, Zenon
      <4>2. n - c.idx = m - c.idx
        BY <1>4, <3>4, <4>1, Zenon
      <4>3. n \in Int /\ m \in Int
        <5>1. n \in nw /\ m \in nw
          BY <3>4, Zenon
        <5> QED BY <1>2, <1>b, <5>1
      <4>4. n = m
        BY <1>2, <4>2, <4>3, SMTT(40)
      <4> QED BY <3>4, <4>4, Zenon
    <3>5. (Old(i, n) \/ New(i, n)) /\ (Old(j, m) \/ New(j, m))
      BY <1>8
    <3> HIDE DEF Old, New
    <3> QED BY <3>1, <3>2, <3>3, <3>4, <3>5
  <2> QED BY <2>2, <2>3, Zenon

<1>10. Reserves(bk, us, lo2, cl2)
  <2>1. SUFFICES ASSUME NEW v \in Thread, Saving(cl2[v]), NEW a \in DOMAIN cl2[v].at
                 PROVE  /\ cl2[v].at[a] \in us
                        /\ \A i \in Filled(bk) : \A n \in Spots(bk, lo2, i) :
                              Spot(bk, lo2, i, n) # cl2[v].at[a]
                        /\ \A u \in Thread : Saving(cl2[u]) =>
                              \A b \in DOMAIN cl2[u].at :
                                  cl2[v].at[a] = cl2[u].at[b] => v = u /\ a = b
    BY <2>1, Zenon DEF Reserves
  <2>2. v # t /\ cl2[v] = cl[v]
    BY <1>a, <2>1, ZenonT(40)
  <2>3. /\ cl2[v].at[a] \in us
        /\ \A i \in Filled(bk) : \A n \in Spots(bk, lo, i) :
              Spot(bk, lo, i, n) # cl2[v].at[a]
        /\ \A u \in Thread : Saving(cl[u]) =>
              \A b \in DOMAIN cl[u].at : cl2[v].at[a] = cl[u].at[b] => v = u /\ a = b
    BY <1>1, <2>1, <2>2 DEF Reserves
  <2>4. ASSUME NEW i \in Filled(bk), NEW n \in Spots(bk, lo2, i)
        PROVE  Spot(bk, lo2, i, n) # cl2[v].at[a]
    <3>1. CASE Old(i, n)
      BY <2>3, <3>1, Zenon
    <3>2. CASE New(i, n)
      <4>1. \A b \in DOMAIN c.at : cl2[v].at[a] # c.at[b]
        BY <1>a, <2>2, <2>3, Zenon
      <4> QED BY <3>2, <4>1, Zenon
    <3> QED BY <1>8, <3>1, <3>2, Zenon
  <2>5. ASSUME NEW u \in Thread, Saving(cl2[u]), NEW b \in DOMAIN cl2[u].at,
               cl2[v].at[a] = cl2[u].at[b]
        PROVE  v = u /\ a = b
    <3>1. cl2[u] = cl[u]
      BY <1>a, <2>5, Zenon
    <3> QED BY <2>3, <2>5, <3>1, Zenon
  <2> QED BY <2>3, <2>4, <2>5, Zenon
<1>11. Counted(bk, cn, lo2)
  <2>1. SUFFICES ASSUME NEW i \in Filled(bk)
                 PROVE  cn[i] \in Nat /\ DOMAIN lo2[bk[i]] \subseteq 1 .. cn[i]
    BY <2>1, Zenon DEF Counted
  <2>2. cn[i] \in Nat /\ DOMAIN lo[bk[i]] \subseteq 1 .. cn[i]
    BY <1>1, Zenon DEF Counted
  <2>3. CASE i # id
    BY <1>6, <2>2, <2>3, Zenon
  <2>4. CASE i = id
    BY <1>2, <1>7, <1>e, <2>2, <2>4, Zenon
  <2> QED BY <2>3, <2>4, Zenon
<1>12. ASSUME NEW u \in Thread PROVE Knows(cl2[u], bk, cn, lo2)
  <2>1. CASE u # t /\ Saving(cl[u])
    <3>1. cl2[u] = cl[u] /\ Knows(cl[u], bk, cn, lo) /\ cl[u].id # id
      BY <1>1, <1>a, <2>1, Zenon
    <3>2. cl[u].id \in Filled(bk)
      BY <2>1, <3>1, Zenon DEF Knows
    <3>3. lo2[bk[cl[u].id]] = lo[bk[cl[u].id]]
      BY <1>6, <3>1, <3>2, Zenon
    <3> QED BY <3>1, <3>3, Zenon DEF Knows
  <2>2. CASE ~Saving(cl2[u])
    BY <2>2, Zenon DEF Knows
  <2>3. Saving(cl2[u]) => u # t /\ Saving(cl[u])
    BY <1>a, Zenon
  <2> QED BY <2>1, <2>2, <2>3, Zenon
<1>13. Unused(us, lo2, st2)
  <2>1. SUFFICES ASSUME NEW k \in LogBlock \ us
                 PROVE  lo2[k] = <<>> /\ st2[k] = {}
    BY <2>1, Zenon DEF Unused
  <2>2. k # c.block
    BY <1>2, <1>3, Zenon
  <2>3. k \notin Elements(c.at)
    BY <1>4, Zenon DEF Elements
  <2> QED BY <1>1, <1>c, <2>2, <2>3, Zenon DEF Unused
<1>14. ASSUME NEW bc \in lg2 PROVE Entered(bk, lo2, st2, bc)
  <2>1. CASE bc \in lg
    <3>0. PICK i \in Filled(bk) : \E n \in DOMAIN lo[bk[i]] :
              lo[bk[i]][n].block = bc[1] /\ bc[2] \in st[lo[bk[i]][n].at]
      BY <1>1, <2>1, Zenon DEF Entered
    <3>1. PICK n \in DOMAIN lo[bk[i]] :
              lo[bk[i]][n].block = bc[1] /\ bc[2] \in st[lo[bk[i]][n].at]
      BY <3>0, Zenon
    <3> DEFINE k == lo[bk[i]][n].at
    <3>2. n # 0
      <4>1. cn[i] \in Nat /\ n \in 1 .. cn[i]
        BY <1>1, Zenon DEF Counted
      <4> QED BY <4>1
    <3>3. n \in Spots(bk, lo, i) /\ Spot(bk, lo, i, n) = k
      BY <3>2, Zenon DEF Spots, Spot
    <3>4. k \in LogBlock
      BY <1>1, <3>3, Zenon DEF OneUse
    <3>5. k # bk[id]
      <4>1. Spot(bk, lo, id, 0) = bk[id] /\ 0 \in Spots(bk, lo, id)
        BY <1>2, <1>3, Zenon
      <4>2. Spot(bk, lo, i, n) # Spot(bk, lo, id, 0)
        BY <1>1, <1>2, <3>2, <3>3, <4>1, Zenon DEF OneUse
      <4> QED BY <3>3, <4>1, <4>2, Zenon
    <3>6. k \notin Elements(c.at)
      <4>1. \A a \in DOMAIN c.at : k # c.at[a]
        BY <1>4, <3>3, Zenon
      <4> QED BY <4>1, Zenon DEF Elements
    <3>7. st2[k] = st[k]
      BY <1>2, <1>c, <3>4, <3>5, <3>6, Zenon
    <3>8. n \in DOMAIN lo2[bk[i]] /\ lo2[bk[i]][n] = lo[bk[i]][n]
      <4>1. CASE i # id
        BY <1>6, <4>1, Zenon
      <4>2. CASE i = id
        <5>1. n \notin nw
          BY <1>2, <1>7, <4>2, Zenon
        <5> QED BY <1>2, <1>e, <1>f, <4>2, <5>1, Zenon
      <4> QED BY <4>1, <4>2, Zenon
    <3> HIDE DEF k
    <3>9. lo2[bk[i]][n].block = bc[1] /\ bc[2] \in st2[lo2[bk[i]][n].at]
      BY <3>1, <3>7, <3>8, Zenon DEF k
    <3> QED BY <3>8, <3>9, Zenon DEF Entered
  <2>2. CASE bc \notin lg
    <3>1. PICK a \in DOMAIN c.ops : bc \in {c.ops[a].block} \X c.ops[a].state
      BY <1>h, <2>2, Zenon
    <3>2. bc[1] = c.ops[a].block /\ bc[2] \in c.ops[a].state
      BY <3>1, Zenon
    <3>3. a \in DOMAIN c.at /\ c.idx + a \in nw /\ (c.idx + a) - c.idx = a
      BY <1>2, <1>b
    <3>4. c.at[a] # bk[id]
      <4>1. Spot(bk, lo, id, 0) = bk[id] /\ 0 \in Spots(bk, lo, id)
        BY <1>2, <1>3, Zenon
      <4>2. Spot(bk, lo, id, 0) # c.at[a]
        BY <1>2, <1>4, <3>3, <4>1, Zenon
      <4> QED BY <4>1, <4>2, Zenon
    <3>5. st2[c.at[a]] = c.ops[a].state
      BY <1>2, <1>d, <3>3, <3>4, Zenon
    <3>6. /\ c.idx + a \in DOMAIN lo2[bk[id]]
          /\ lo2[bk[id]][c.idx + a].block = c.ops[a].block
          /\ lo2[bk[id]][c.idx + a].at = c.at[a]
      <4> DEFINE j == c.idx + a
      <4>1. j \in nw /\ j - c.idx = a
        BY <3>3, Zenon
      <4> HIDE DEF j
      <4>2. /\ lo2[c.block][j].block = c.ops[j - c.idx].block
            /\ lo2[c.block][j].at = c.at[j - c.idx]
            /\ j \in DOMAIN lo2[c.block]
        BY <1>e, <1>g, <4>1, Zenon
      <4> QED BY <1>2, <4>1, <4>2, Zenon DEF j
    <3>7. bc[2] \in st2[lo2[bk[id]][c.idx + a].at]
      BY <3>2, <3>5, <3>6, Zenon
    <3>8. lo2[bk[id]][c.idx + a].block = bc[1]
      BY <3>2, <3>6, Zenon
    <3> QED BY <1>2, <3>6, <3>7, <3>8, Zenon DEF Entered
  <2> QED BY <2>1, <2>2, Zenon
<1> QED BY <1>9, <1>10, <1>11, <1>12, <1>13, <1>14, Zenon DEF LogInv

-----------------------------------------------------------------------------
\* The handlers under a step of one of them

\* Only the handler of thread t moves. It may take or give back superblock_lock,
\* change the superblock while it holds that lock, open transaction mx, and take
\* or give back the lock of its transaction.
HandMove(t, cl, sl, tl, sup, mx, cl2, sl2, tl2, sup2, mx2) ==
    /\ \A u \in Thread : u # t => cl2[u] = cl[u]
    /\ Local(cl2[t])
    /\ Writing(cl2[t]) <=> sl2 = t
    /\ \A u \in Thread : u # t => (sl2 = u <=> sl = u)
    /\ Writing(cl2[t]) => cl2[t].buffer = sup2
    /\ sup2 = sup \/ sl = t
    /\ mx \in Nat /\ mx2 \in Nat /\ mx <= mx2
    /\ Open(cl2[t]) => \/ Open(cl[t]) /\ cl2[t].id = cl[t].id
                       \/ cl2[t].id = mx /\ mx2 = mx + 1
    /\ \A i \in TxnId : tl2[i] = t => Appending(cl2[t]) /\ cl2[t].id = i
    /\ \A i \in TxnId : \A u \in Thread : u # t /\ tl2[i] = u => tl[i] = u

\* Such a step preserves the invariant of the handlers.
LEMMA HandStep ==
    ASSUME NEW cl, NEW sl, NEW tl, NEW sup, NEW mx, NEW on,
           NEW cl2, NEW sl2, NEW tl2, NEW sup2, NEW mx2,
           Handlers(cl, sl, tl, sup, mx, on), NEW t \in Thread, on,
           HandMove(t, cl, sl, tl, sup, mx, cl2, sl2, tl2, sup2, mx2)
    PROVE  Handlers(cl2, sl2, tl2, sup2, mx2, on)
<1> USE DEF HandMove
<1>1. ASSUME NEW u \in Thread
      PROVE  /\ Local(cl[u])
             /\ Writing(cl[u]) <=> sl = u
             /\ Writing(cl[u]) => cl[u].buffer = sup
             /\ Open(cl[u]) => cl[u].id \in 0 .. mx - 1
             /\ \A v \in Thread : Open(cl[u]) /\ Open(cl[v]) /\ cl[u].id = cl[v].id => u = v
             /\ \A i \in TxnId : tl[i] = u => Appending(cl[u]) /\ cl[u].id = i
  BY Zenon DEF Handlers
<1>2. ASSUME NEW u \in Thread, Open(cl2[u]) PROVE cl2[u].id \in 0 .. mx2 - 1
  <2>1. CASE Open(cl[u]) /\ cl2[u].id = cl[u].id
    <3>1. cl2[u].id \in 0 .. mx - 1 /\ mx \in Nat /\ mx2 \in Nat /\ mx <= mx2
      BY <1>1, <2>1, Zenon
    <3> HIDE DEF HandMove
    <3> QED BY <3>1
  <2>2. CASE cl2[u].id = mx /\ mx2 = mx + 1
    BY <2>2
  <2> QED BY <1>2, <2>1, <2>2, Zenon
<1>3. ASSUME NEW u \in Thread, u # t, Open(cl2[t]), Open(cl2[u])
      PROVE  cl2[t].id # cl2[u].id
  <2>1. cl2[u] = cl[u] /\ Open(cl[u]) /\ cl[u].id \in 0 .. mx - 1
    BY <1>1, <1>3, Zenon
  <2>2. CASE Open(cl[t]) /\ cl2[t].id = cl[t].id
    BY <1>1, <1>3, <2>1, <2>2, Zenon
  <2>3. CASE cl2[t].id = mx
    BY <2>1, <2>3
  <2> QED BY <1>3, <2>2, <2>3, Zenon
<1>4. ASSUME NEW u \in Thread, NEW v \in Thread, Open(cl2[u]), Open(cl2[v]),
             cl2[u].id = cl2[v].id
      PROVE  u = v
  <2>1. CASE u # t /\ v # t
    BY <1>1, <1>4, <2>1, Zenon
  <2>2. CASE u = t \/ v = t
    BY <1>3, <1>4, <2>2
  <2> QED BY <2>1, <2>2, Zenon
<1>5. ASSUME NEW u \in Thread
      PROVE  Local(cl2[u]) /\ (Writing(cl2[u]) <=> sl2 = u)
             /\ (Writing(cl2[u]) => cl2[u].buffer = sup2)
             /\ \A i \in TxnId : tl2[i] = u => Appending(cl2[u]) /\ cl2[u].id = i
  <2>1. CASE u = t
    BY <2>1, Zenon
  <2>2. CASE u # t
    <3>1. cl2[u] = cl[u] /\ (sl2 = u <=> sl = u)
      BY <2>2, Zenon
    <3>2. sl = u => sup2 = sup
      BY <2>2
    <3> QED BY <1>1, <2>2, <3>1, <3>2
  <2> QED BY <2>1, <2>2, Zenon
<1> QED BY <1>2, <1>4, <1>5, Zenon DEF Handlers

-----------------------------------------------------------------------------
\* Steps that leave the log alone

\* The handler of thread t goes to place x, and returns when that is "idle".
Moves(t, x) ==
    /\ call' = [u \in Thread |-> call'[u]]
    /\ \A u \in Thread : u # t => call'[u] = call[u]
    /\ DOMAIN call'[t] = Fields
    /\ call'[t].pc = x
    /\ x # "idle" => call'[t].id = call[t].id

Runs == Pc \ {"checkpoint", "ckpt_flush", "ckpt_clear", "ckpt_zero"}

\* The log and the counters stay as they are.
LogStays ==
    UNCHANGED <<super, logmem, logdisk, max_txn_id, begun, up, logged>>

\* A lock keeps its holder or goes from nobody to thread t.
Takes(t, lock, lock2, b, b2) ==
    \/ (b <=> b2) /\ lock2 = lock
    \/ ~b /\ b2 /\ lock = NoOne /\ lock2 = t

\* A step that leaves the log as it is preserves the invariant.
LEMMA Quiet ==
    ASSUME Inv, NEW t \in Thread, NEW x \in Runs \ {"save_logs"}, Moves(t, x), LogStays,
           call[t].pc # "idle",
           HasImages(call'[t]) =>
               Len(call'[t].ops) \in {1, 2} /\ DOMAIN call'[t].ops = 1 .. Len(call'[t].ops),
           Waiting(call'[t]) <=> Waiting(call[t]),
           Open(call'[t]) => Open(call[t]),
           Takes(t, superblock_lock, superblock_lock', Writing(call[t]), Writing(call'[t])),
           Writing(call'[t]) => call'[t].buffer = super,
           txn_lock' \in [TxnId -> Thread \union {NoOne}],
           \A i \in TxnId : txn_lock'[i] = t => Appending(call'[t]) /\ call[t].id = i,
           \A i \in TxnId : \A u \in Thread : u # t /\ txn_lock'[i] = u => txn_lock[i] = u
    PROVE  Inv'
<1>1. /\ TxnBlocks' = TxnBlocks /\ TxnCounts' = TxnCounts /\ super' = super
      /\ LogsIn' = LogsIn /\ StatesIn' = StatesIn /\ logged' = logged
      /\ max_txn_id' = max_txn_id /\ up' = up /\ begun' = begun
  BY Zenon DEF LogStays, TxnBlocks, TxnCounts, LogsIn, StatesIn
<1>2. t # NoOne
  BY NoOneAssumption
<1>3. max_txn_id \in Nat /\ up
  BY Zenon DEF Inv, Numbers, Handlers
<1>4. Handlers(call, superblock_lock, txn_lock, super, max_txn_id, up)
  BY Zenon DEF Inv
<1>5. Local(call'[t])
  BY DEF Moves, Local, Runs
<1>6. /\ Writing(call'[t]) <=> superblock_lock' = t
      /\ \A u \in Thread : u # t => (superblock_lock' = u <=> superblock_lock = u)
  <2>1. Writing(call[t]) <=> superblock_lock = t
    BY <1>4, Zenon DEF Handlers
  <2>2. \A u \in Thread : u # NoOne
    BY NoOneAssumption
  <2> QED BY <2>1, <2>2, Zenon DEF Takes
<1>7. Open(call'[t]) => call'[t].id = call[t].id
  BY DEF Moves, Open
<1>8. Appending(call'[t]) => call'[t].id = call[t].id
  BY DEF Moves, Appending
<1>9. Handlers(call', superblock_lock', txn_lock', super, max_txn_id, up)
  <2>1. \A u \in Thread : u # t => call'[u] = call[u]
    BY Zenon DEF Moves
  <2>2. \A i \in TxnId : txn_lock'[i] = t => Appending(call'[t]) /\ call'[t].id = i
    BY <1>8, Zenon
  <2>3. max_txn_id <= max_txn_id
    BY <1>3
  <2>4. Open(call'[t]) => \/ Open(call[t]) /\ call'[t].id = call[t].id
                          \/ call'[t].id = max_txn_id /\ max_txn_id = max_txn_id + 1
    BY <1>7, Zenon
  <2>5. super = super \/ superblock_lock = t
    OBVIOUS
  <2>6. HandMove(t, call, superblock_lock, txn_lock, super, max_txn_id,
                 call', superblock_lock', txn_lock', super, max_txn_id)
    BY <1>3, <1>5, <1>6, <2>1, <2>2, <2>3, <2>4, <2>5, ZenonT(40) DEF HandMove
  <2> QED BY <1>3, <1>4, <2>6, HandStep, Zenon
<1>10. Pending' = Pending
  BY DEF Pending, Moves
<1>11. Numbers'
  BY <1>1, <1>10, Zenon DEF Inv, Numbers
<1>12. LogInv(TxnBlocks, TxnCounts, super.used, LogsIn, StatesIn, call', logged)
  <2>1. \A u \in Thread : Saving(call'[u]) => call'[u] = call[u]
    BY DEF Moves, Saving
  <2>2. LogInv(TxnBlocks, TxnCounts, super.used, LogsIn, StatesIn, call, logged)
    BY Zenon DEF Inv
  <2> QED BY <2>1, <2>2, LogKeep, Zenon
<1>13. Shapes'
  <2>1. superblock_lock' \in Thread \union {NoOne}
    BY DEF Inv, Shapes, Takes
  <2> QED BY <2>1, Zenon DEF Inv, Shapes, LogStays, Moves
<1>14. Synced'
  BY Zenon DEF Inv, Synced, LogStays
<1> QED BY <1>1, <1>9, <1>11, <1>12, <1>13, <1>14, Zenon DEF Inv

\* Goto changes the place of a handler and nothing else of it.
LEMMA GotoMoves ==
    ASSUME Inv, NEW t \in Thread, NEW x, Goto(t, x)
    PROVE  Moves(t, x) /\ call'[t].ops = call[t].ops
<1>1. call = [u \in Thread |-> call[u]] /\ DOMAIN call[t] = Fields
  BY Zenon DEF Inv, Shapes, Handlers, Local
<1>2. /\ call' = [u \in Thread |-> call'[u]]
      /\ \A u \in Thread : u # t => call'[u] = call[u]
      /\ call'[t] = [call[t] EXCEPT !.pc = x]
  BY <1>1, Zenon DEF Goto
<1> HIDE DEF Goto
<1>3. /\ DOMAIN call'[t] = Fields /\ call'[t].pc = x
      /\ call'[t].id = call[t].id /\ call'[t].ops = call[t].ops
  BY <1>1, <1>2, ZenonT(30) DEF Fields
<1> QED BY <1>2, <1>3, Zenon DEF Moves

\* A handler that returns is idle.
LEMMA ReturnMoves ==
    ASSUME Inv, NEW t \in Thread, Return(t)
    PROVE  Moves(t, "idle")
<1>1. call = [u \in Thread |-> call[u]]
  BY Zenon DEF Inv, Shapes
<1>2. /\ call' = [u \in Thread |-> call'[u]]
      /\ \A u \in Thread : u # t => call'[u] = call[u]
      /\ call'[t] = NoCall
  BY <1>1, Zenon DEF Return
<1>3. DOMAIN NoCall = Fields /\ NoCall.pc = "idle"
  BY DEF NoCall, Fields
<1> QED BY <1>2, <1>3, Zenon DEF Moves

\* The locks and the images of a handler that goes from one place to another.
LEMMA Places ==
    ASSUME Inv, NEW t \in Thread, NEW x, Moves(t, x), NEW y, call[t].pc = y
    PROVE  /\ HasImages(call[t]) => Len(call[t].ops) \in {1, 2}
                                    /\ DOMAIN call[t].ops = 1 .. Len(call[t].ops)
           /\ Waiting(call[t]) <=> y \in {"alloc_txn", "alloc_txn_lock", "alloc_txn_write"}
           /\ Waiting(call'[t]) <=> x \in {"alloc_txn", "alloc_txn_lock", "alloc_txn_write"}
           /\ Open(call[t]) <=> y # "idle" /\ ~Waiting(call[t])
           /\ Open(call'[t]) <=> x # "idle" /\ ~Waiting(call'[t])
           /\ Writing(call[t]) <=> y \in {"alloc_txn_write", "alloc_log_write", "commit_write"}
           /\ Writing(call'[t]) <=> x \in {"alloc_txn_write", "alloc_log_write", "commit_write"}
           /\ Appending(call[t]) <=> y \in {"alloc_log", "alloc_log_write", "save_logs"}
           /\ Appending(call'[t]) <=> x \in {"alloc_log", "alloc_log_write", "save_logs"}
           /\ HasImages(call[t]) <=> \/ y \in {"append_log", "append_job", "append_lock"}
                                     \/ Appending(call[t])
           /\ HasImages(call'[t]) <=> \/ x \in {"append_log", "append_job", "append_lock"}
                                      \/ Appending(call'[t])
           /\ txn_lock \in [TxnId -> Thread \union {NoOne}]
           /\ \A i \in TxnId : txn_lock[i] = t => Appending(call[t]) /\ call[t].id = i
<1>1. call'[t].pc = x
  BY Zenon DEF Moves
<1>2. /\ HasImages(call[t]) => Len(call[t].ops) \in {1, 2}
                               /\ DOMAIN call[t].ops = 1 .. Len(call[t].ops)
      /\ txn_lock \in [TxnId -> Thread \union {NoOne}]
      /\ \A i \in TxnId : txn_lock[i] = t => Appending(call[t]) /\ call[t].id = i
  BY Zenon DEF Inv, Shapes, Handlers, Local
<1> QED BY <1>1, <1>2, Zenon DEF Waiting, Open, Writing, Appending, HasImages

\* A step in which the handler neither takes nor gives back a lock of the log.
LEMMA QuietStep ==
    ASSUME Inv, NEW t \in Thread, NEW x, NEW y, Moves(t, x), LogStays, At(t, y),
           UNCHANGED <<superblock_lock, txn_lock>>,
           \/ y = "alloc_txn" /\ x = "alloc_txn_lock"
           \/ y = "check" /\ x \in {"read_images", "idle"}
           \/ /\ y = "read_images" /\ x = "append_log" /\ Len(call'[t].ops) \in {1, 2}
              /\ DOMAIN call'[t].ops = 1 .. Len(call'[t].ops)
           \/ y = "append_log" /\ x = "append_job" /\ call'[t].ops = call[t].ops
           \/ y = "append_job" /\ x = "append_lock" /\ call'[t].ops = call[t].ops
           \/ y = "write_file" /\ x = "read_images"
           \/ y = "unlock" /\ x \in {"commit_log", "idle"}
           \/ y = "commit_log" /\ x = "commit_job"
           \/ y = "commit_job" /\ x = "commit_lock"
    PROVE  Inv'
<1>1. call[t].pc = y
  BY Zenon DEF At
<1>2. x \in Runs \ {"save_logs"} /\ y # "idle"
  BY ZenonT(40) DEF Runs, Pc
<1>3. /\ Waiting(call'[t]) <=> Waiting(call[t])
      /\ Open(call'[t]) => Open(call[t])
      /\ ~Writing(call[t]) /\ ~Writing(call'[t])
      /\ ~Appending(call[t]) /\ ~Appending(call'[t])
  BY <1>1, Places, SMTT(30)
<1>4. HasImages(call'[t]) =>
          Len(call'[t].ops) \in {1, 2} /\ DOMAIN call'[t].ops = 1 .. Len(call'[t].ops)
  BY <1>1, Places, ZenonT(40)
<1>5. Takes(t, superblock_lock, superblock_lock', Writing(call[t]), Writing(call'[t]))
  BY <1>3 DEF Takes
<1>6. /\ txn_lock' \in [TxnId -> Thread \union {NoOne}]
      /\ \A i \in TxnId : txn_lock'[i] = t => Appending(call'[t]) /\ call[t].id = i
      /\ \A i \in TxnId : \A u \in Thread : u # t /\ txn_lock'[i] = u => txn_lock[i] = u
  <2>1. txn_lock' = txn_lock
    OBVIOUS
  <2>2. /\ txn_lock \in [TxnId -> Thread \union {NoOne}]
        /\ \A i \in TxnId : txn_lock[i] = t => Appending(call[t]) /\ call[t].id = i
    BY <1>1, Places, ZenonT(40)
  <2> QED BY <1>3, <2>1, <2>2, ZenonT(40)
<1> QED BY <1>1, <1>2, <1>3, <1>4, <1>5, <1>6, Quiet, Zenon

\* Waiting for the end of a checkpoint (commit_log.cc:92) touches nothing.
LEMMA PassInv ==
    ASSUME Inv, NEW t \in Thread,
           \/ Pass(t, "alloc_txn", "alloc_txn_lock")
           \/ Pass(t, "append_log", "append_job")
           \/ Pass(t, "commit_log", "commit_job")
    PROVE  Inv'
<1>1. ASSUME NEW y, NEW x, Pass(t, y, x)
      PROVE  /\ Moves(t, x) /\ call'[t].ops = call[t].ops /\ LogStays /\ At(t, y)
             /\ UNCHANGED <<superblock_lock, txn_lock>>
  <2>1. At(t, y) /\ Goto(t, x) /\ UNCHANGED <<log, counters, locks, server, history>>
    BY <1>1, Zenon DEF Pass
  <2>2. LogStays /\ UNCHANGED <<superblock_lock, txn_lock>>
    BY <2>1 DEF LogStays, log, counters, locks, server, history
  <2> QED BY <2>1, <2>2, GotoMoves, Zenon
<1>2. CASE Pass(t, "alloc_txn", "alloc_txn_lock")
  BY <1>1, <1>2, QuietStep, Zenon
<1>3. CASE Pass(t, "append_log", "append_job")
  BY <1>1, <1>3, QuietStep, Zenon
<1>4. CASE Pass(t, "commit_log", "commit_job")
  BY <1>1, <1>4, QuietStep, Zenon
<1> QED BY <1>2, <1>3, <1>4, Zenon

\* Changing the inode and counting a job leave the log alone.
LEMMA GotoInv ==
    ASSUME Inv, NEW t \in Thread,
           change_inode(t) \/ append_job(t) \/ commit_job(t)
    PROVE  Inv'
<1>1. LogStays /\ UNCHANGED <<superblock_lock, txn_lock>>
  BY DEF change_inode, append_job, commit_job, LogStays, log, counters, locks, server, history
<1>2. CASE change_inode(t)
  <2>1. At(t, "check") /\ Goto(t, "read_images")
    BY <1>2, Zenon DEF change_inode
  <2> QED BY <1>1, <2>1, GotoMoves, QuietStep, Zenon
<1>3. CASE append_job(t)
  <2>1. At(t, "append_job") /\ Goto(t, "append_lock")
    BY <1>3, Zenon DEF append_job
  <2> QED BY <1>1, <2>1, GotoMoves, QuietStep, Zenon
<1>4. CASE commit_job(t)
  <2>1. At(t, "commit_job") /\ Goto(t, "commit_lock")
    BY <1>4, Zenon DEF commit_job
  <2> QED BY <1>1, <2>1, GotoMoves, QuietStep, Zenon
<1> QED BY <1>2, <1>3, <1>4, Zenon

\* A refused write ends the handler; unlocking goes on to commit_log.
LEMMA ReturnInv ==
    ASSUME Inv, NEW t \in Thread, refuse(t) \/ unlock(t)
    PROVE  Inv'
<1>1. LogStays /\ UNCHANGED <<superblock_lock, txn_lock>>
  BY DEF refuse, unlock, LogStays, log, counters, server, history
<1>2. CASE refuse(t)
  <2>1. At(t, "check") /\ Return(t)
    BY <1>2, Zenon DEF refuse
  <2> QED BY <1>1, <2>1, ReturnMoves, QuietStep, Zenon
<1>3. CASE unlock(t)
  <2>1. At(t, "unlock") /\ (Return(t) \/ Goto(t, "commit_log"))
    BY <1>3, Zenon DEF unlock
  <2> QED BY <1>1, <2>1, ReturnMoves, GotoMoves, QuietStep, Zenon
<1> QED BY <1>2, <1>3, Zenon

\* The fields of a handler that an action sets by itself.
LEMMA FieldMoves ==
    ASSUME Inv, NEW t \in Thread, NEW x, NEW r, call' = [call EXCEPT ![t] = r],
           DOMAIN r = Fields, r.pc = x, r.id = call[t].id
    PROVE  Moves(t, x) /\ call'[t] = r
<1>1. call = [u \in Thread |-> call[u]]
  BY Zenon DEF Inv, Shapes
<1>2. /\ call' = [u \in Thread |-> call'[u]]
      /\ \A u \in Thread : u # t => call'[u] = call[u]
      /\ call'[t] = r
  BY <1>1, Zenon
<1> QED BY <1>2, Zenon DEF Moves

\* The handler reads the images of the blocks that it is going to log.
LEMMA ReadImagesInv ==
    ASSUME Inv, NEW t \in Thread, read_images(t)
    PROVE  Inv'
<1>1. LogStays /\ UNCHANGED <<superblock_lock, txn_lock>> /\ At(t, "read_images")
  BY DEF read_images, LogStays, log, counters, locks, server, history
<1> DEFINE im == Images(call[t].dir, call[t].part)
           r == [call[t] EXCEPT !.pc = "append_log", !.ops = im]
<1>2. call' = [call EXCEPT ![t] = r]
  BY Zenon DEF read_images
<1>3. DOMAIN call[t] = Fields
  BY Zenon DEF Inv, Handlers, Local
<1>4. Len(im) \in {1, 2} /\ DOMAIN im = 1 .. Len(im)
  <2>1. \A a, b : Len(<<a, b>>) = 2 /\ DOMAIN <<a, b>> = 1 .. 2
    OBVIOUS
  <2>2. \A a : Len(<<a>>) = 1 /\ DOMAIN <<a>> = 1 .. 1
    OBVIOUS
  <2>3. (\E a, b : im = <<a, b>>) \/ (\E a : im = <<a>>)
    BY Zenon DEF Images
  <2> HIDE DEF im
  <2>4. (Len(im) = 2 /\ DOMAIN im = 1 .. 2) \/ (Len(im) = 1 /\ DOMAIN im = 1 .. 1)
    BY <2>1, <2>2, <2>3, Zenon
  <2> QED BY <2>4
<1> HIDE DEF im
<1>5. DOMAIN r = Fields /\ r.pc = "append_log" /\ r.id = call[t].id /\ r.ops = im
  BY <1>3, ZenonT(30) DEF Fields
<1> HIDE DEF r
<1>6. Moves(t, "append_log") /\ call'[t] = r
  BY <1>2, <1>5, FieldMoves, Zenon
<1>7. Len(call'[t].ops) \in {1, 2} /\ DOMAIN call'[t].ops = 1 .. Len(call'[t].ops)
  <2>1. call'[t].ops = im
    BY <1>5, <1>6, Zenon
  <2> QED BY <1>4, <2>1, Zenon
<1> QED BY <1>1, <1>6, <1>7, QuietStep, Zenon

\* write_file on the directory leaves the log alone.
LEMMA WriteFileInv ==
    ASSUME Inv, NEW t \in Thread, write_file(t)
    PROVE  Inv'
<1>1. LogStays /\ UNCHANGED <<superblock_lock, txn_lock>> /\ At(t, "write_file")
  BY DEF write_file, LogStays, log, counters, locks, server, history
<1>2. PICK failed : call' = [call EXCEPT ![t].pc = "read_images", ![t].part = 2,
                                         ![t].failed = failed]
  BY Zenon DEF write_file
<1> DEFINE r == [call[t] EXCEPT !.pc = "read_images", !.part = 2, !.failed = failed]
<1>3. call' = [call EXCEPT ![t] = r]
  BY <1>2, Zenon
<1>4. DOMAIN call[t] = Fields
  BY Zenon DEF Inv, Handlers, Local
<1>5. DOMAIN r = Fields /\ r.pc = "read_images" /\ r.id = call[t].id
  BY <1>4, ZenonT(30) DEF Fields
<1> HIDE DEF r
<1>6. Moves(t, "read_images")
  BY <1>3, <1>5, FieldMoves, Zenon
<1> QED BY <1>1, <1>6, QuietStep, Zenon

\* A step in which the handler takes superblock_lock and reads the superblock.
LEMMA TakeSuper ==
    ASSUME Inv, NEW t \in Thread, NEW x, NEW y, LogStays, At(t, y),
           call' = [call EXCEPT ![t].pc = x, ![t].buffer = super],
           superblock_lock = NoOne, superblock_lock' = t, txn_lock' = txn_lock,
           \/ y = "alloc_txn_lock" /\ x = "alloc_txn_write"
           \/ y = "alloc_log" /\ x = "alloc_log_write"
           \/ y = "commit_lock" /\ x = "commit_write"
    PROVE  Inv'
<1> DEFINE r == [call[t] EXCEPT !.pc = x, !.buffer = super]
<1>1. call' = [call EXCEPT ![t] = r]
  BY Zenon
<1>2. DOMAIN call[t] = Fields
  BY Zenon DEF Inv, Handlers, Local
<1>3. DOMAIN r = Fields /\ r.pc = x /\ r.id = call[t].id /\ r.ops = call[t].ops
      /\ r.buffer = super
  BY <1>2, ZenonT(30) DEF Fields
<1> HIDE DEF r
<1>4. Moves(t, x) /\ call'[t] = r
  BY <1>1, <1>3, FieldMoves, Zenon
<1>5. call'[t].buffer = super /\ call'[t].ops = call[t].ops
  BY <1>3, <1>4, Zenon
<1>6. call[t].pc = y
  BY DEF At
<1>7. x \in Runs \ {"save_logs"} /\ y # "idle"
  BY DEF Runs, Pc
<1>8. /\ Waiting(call'[t]) <=> Waiting(call[t])
      /\ Open(call'[t]) => Open(call[t])
      /\ ~Writing(call[t]) /\ Writing(call'[t])
      /\ Appending(call[t]) <=> Appending(call'[t])
      /\ HasImages(call[t]) <=> HasImages(call'[t])
  BY <1>4, <1>6, Places, ZenonT(40)
<1>9. HasImages(call'[t]) =>
          Len(call'[t].ops) \in {1, 2} /\ DOMAIN call'[t].ops = 1 .. Len(call'[t].ops)
  BY <1>4, <1>5, <1>6, <1>8, Places
<1>10. Takes(t, superblock_lock, superblock_lock', Writing(call[t]), Writing(call'[t]))
  BY <1>8 DEF Takes
<1>11. /\ txn_lock' \in [TxnId -> Thread \union {NoOne}]
       /\ \A i \in TxnId : txn_lock'[i] = t => Appending(call'[t]) /\ call[t].id = i
       /\ \A i \in TxnId : \A u \in Thread : u # t /\ txn_lock'[i] = u => txn_lock[i] = u
  <2>1. /\ txn_lock \in [TxnId -> Thread \union {NoOne}]
        /\ \A i \in TxnId : txn_lock[i] = t => Appending(call[t]) /\ call[t].id = i
    BY <1>4, <1>6, Places, Zenon
  <2> QED BY <1>8, <2>1, Zenon
<1> QED BY <1>4, <1>5, <1>6, <1>7, <1>8, <1>9, <1>10, <1>11, Quiet, ZenonT(40)

\* alloc_txn, alloc_log and commit_log lock and read the superblock.
LEMMA TakeSuperInv ==
    ASSUME Inv, NEW t \in Thread,
           alloc_txn_read(t) \/ alloc_log_read(t) \/ commit_read(t)
    PROVE  Inv'
<1>1. LogStays /\ superblock_lock = NoOne /\ superblock_lock' = t /\ txn_lock' = txn_lock
  BY DEF alloc_txn_read, alloc_log_read, commit_read, LogStays, log, counters, server, history
<1>2. CASE alloc_txn_read(t)
  <2>1. /\ At(t, "alloc_txn_lock")
        /\ call' = [call EXCEPT ![t].pc = "alloc_txn_write", ![t].buffer = super]
    BY <1>2, Zenon DEF alloc_txn_read
  <2> QED BY <1>1, <2>1, TakeSuper, Zenon
<1>3. CASE alloc_log_read(t)
  <2>1. /\ At(t, "alloc_log")
        /\ call' = [call EXCEPT ![t].pc = "alloc_log_write", ![t].buffer = super]
    BY <1>3, Zenon DEF alloc_log_read
  <2> QED BY <1>1, <2>1, TakeSuper, Zenon
<1>4. CASE commit_read(t)
  <2>1. /\ At(t, "commit_lock")
        /\ call' = [call EXCEPT ![t].pc = "commit_write", ![t].buffer = super]
    BY <1>4, Zenon DEF commit_read
  <2> QED BY <1>1, <2>1, TakeSuper, Zenon
<1> QED BY <1>2, <1>3, <1>4, Zenon

\* append_log takes the lock of its own transaction.
LEMMA AppendLockInv ==
    ASSUME Inv, NEW t \in Thread, append_lock(t)
    PROVE  Inv'
<1>1. /\ LogStays /\ superblock_lock' = superblock_lock /\ call[t].pc = "append_lock"
      /\ txn_lock' = [txn_lock EXCEPT ![call[t].id] = t]
      /\ Goto(t, "alloc_log")
  BY DEF append_lock, At, LogStays, log, counters, server, history
<1>2. Moves(t, "alloc_log") /\ call'[t].ops = call[t].ops
  BY <1>1, GotoMoves, Zenon
<1>3. "alloc_log" \in Runs \ {"save_logs"} /\ call[t].pc # "idle"
  BY <1>1, ZenonT(40) DEF Runs, Pc
<1>4. /\ Waiting(call'[t]) <=> Waiting(call[t])
      /\ Open(call'[t]) => Open(call[t])
      /\ ~Writing(call[t]) /\ ~Writing(call'[t])
      /\ ~Appending(call[t]) /\ Appending(call'[t])
      /\ HasImages(call[t]) <=> HasImages(call'[t])
  BY <1>1, <1>2, Places, SMTT(40)
<1>5. HasImages(call'[t]) =>
          Len(call'[t].ops) \in {1, 2} /\ DOMAIN call'[t].ops = 1 .. Len(call'[t].ops)
  BY <1>1, <1>2, <1>4, Places, SMTT(30)
<1>6. Takes(t, superblock_lock, superblock_lock', Writing(call[t]), Writing(call'[t]))
  BY <1>1, <1>4, ZenonT(40) DEF Takes
<1>7. /\ txn_lock' \in [TxnId -> Thread \union {NoOne}]
      /\ \A i \in TxnId : txn_lock'[i] = t => Appending(call'[t]) /\ call[t].id = i
      /\ \A i \in TxnId : \A u \in Thread : u # t /\ txn_lock'[i] = u => txn_lock[i] = u
  <2>1. /\ txn_lock \in [TxnId -> Thread \union {NoOne}]
        /\ \A i \in TxnId : txn_lock[i] = t => Appending(call[t]) /\ call[t].id = i
    BY <1>1, <1>2, Places, Zenon
  <2> QED BY <1>1, <1>4, <2>1, Zenon
<1> QED BY <1>1, <1>2, <1>3, <1>4, <1>5, <1>6, <1>7, Quiet, ZenonT(40)
=============================================================================
