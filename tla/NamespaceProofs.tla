-------------------------- MODULE NamespaceProofs --------------------------
(***************************************************************************)
(* Theorems about Namespace, for every set of threads and names and every  *)
(* size of the disk: types, the names of a directory are unique, an inode  *)
(* has one name, a name has its inode, only an unlink removes a name, and  *)
(* no two handlers wait for each other unless a number is given out again. *)
(***************************************************************************)
EXTENDS NamespaceFacts, WellFoundedInduction

-----------------------------------------------------------------------------
\* Every action preserves the inductive invariant.

\* mknode locks its directory and looks for the name.
LEMMA mknode_lock_IInv ==
    ASSUME HasLeast, IInv, NEW t \in Thread, mknode_lock(t), record_refused
    PROVE  IInv'
<1> DEFINE p == call[t].parent
<1>0. TypeOK /\ call \in [Thread -> Call] /\ p \in Inode /\ Dirs \in [Inode -> Seq(Entry)]
  BY Facts
<1>1. /\ call[t].pc = "lockParent" /\ call[t].op = "mknode" /\ inode_mtx[p] = NoOne
      /\ UNCHANGED <<bitmap, table, type, blocks, dir, fs_mtx>>
  BY Zenon DEF mknode_lock, disk
<1>2. readdir(p) = Dirs[p] /\ Dirs[p] \in Seq(Entry)
  BY <1>0, Types
<1>3. CASE Named(readdir(p), call[t].name) # 0
  <2>1. return(t)
    BY <1>3, Zenon DEF mknode_lock
  <2>2. ~Removed(call[t])
    BY <1>1 DEF Removed
  <2>3. bitmap' \subseteq Block /\ fs_mtx' \in Thread \union {NoOne}
    BY <1>0, <1>1 DEF TypeOK
  <2> QED BY <1>1, <2>1, <2>2, <2>3, ErrorKeeps, Zenon
<1>4. CASE Named(readdir(p), call[t].name) = 0
  <2>1. /\ inode_mtx' = [inode_mtx EXCEPT ![p] = t]
        /\ call' = [call EXCEPT ![t].pc = "alloc", ![t].entries = readdir(p)]
    BY <1>4, Zenon DEF mknode_lock
  <2>2. "alloc" \in PC
    BY DEF PC
  <2>3. Moved(call, call', t, "alloc", Dirs[p], call[t].id, call[t].bits, call[t].todo)
    BY <1>0, <1>2, <2>1, <2>2, MoveEntries, Zenon
  <2>4. \A k \in DOMAIN Dirs[p] : Dirs[p][k].name # call[t].name
    BY <1>2, <1>4, NamedFinds, Zenon
  <2> QED BY <1>1, <2>1, <2>3, <2>4, ParentKeeps, Zenon
<1> QED BY <1>3, <1>4

\* unlink locks its directory and looks up the inode.
LEMMA unlink_lock_IInv ==
    ASSUME HasLeast, IInv, NEW t \in Thread, unlink_lock(t), record_refused
    PROVE  IInv'
<1> DEFINE p == call[t].parent
           pos == Named(readdir(p), call[t].name)
<1>0. TypeOK /\ call \in [Thread -> Call] /\ p \in Inode /\ Dirs \in [Inode -> Seq(Entry)]
  BY Facts
<1>1. /\ call[t].pc = "lockParent" /\ call[t].op = "unlink" /\ inode_mtx[p] = NoOne
      /\ UNCHANGED <<bitmap, table, type, blocks, dir, fs_mtx>>
  BY Zenon DEF unlink_lock, disk
<1>2. readdir(p) = Dirs[p] /\ Dirs[p] \in Seq(Entry)
  BY <1>0, Types
<1>3. CASE pos = 0
  <2>1. return(t)
    BY <1>3, Zenon DEF unlink_lock
  <2>2. ~Removed(call[t])
    BY <1>1 DEF Removed
  <2>3. bitmap' \subseteq Block /\ fs_mtx' \in Thread \union {NoOne}
    BY <1>0, <1>1 DEF TypeOK
  <2> QED BY <1>1, <2>1, <2>2, <2>3, ErrorKeeps, Zenon
<1>4. CASE pos # 0
  <2> DEFINE x == readdir(p)[pos].id
  <2>1. /\ inode_mtx' = [inode_mtx EXCEPT ![p] = t]
        /\ call' = [call EXCEPT ![t].pc = "lockChild", ![t].entries = readdir(p),
                                ![t].id = x]
    BY <1>4, Zenon DEF unlink_lock
  <2>2. "lockChild" \in PC
    BY DEF PC
  <2>3. pos \in DOMAIN Dirs[p]
    BY <1>2, <1>4, NamedFinds, Zenon
  <2>4. x \in Inode /\ x \in 0 .. MaxInode /\ x \in Ids(Dirs[p])
    <3>1. x \in Ids(Dirs[p])
      BY <1>2, <2>3 DEF Ids
    <3>2. Dirs[p][pos] \in Entry
      BY <1>2, <2>3
    <3>3. x \in Inode
      BY <1>2, <3>2 DEF Entry
    <3> QED BY <3>1, <3>3, SizeAssumption DEF Inode
  <2> HIDE DEF x
  <2>5. Moved(call, call', t, "lockChild", Dirs[p], x, call[t].bits, call[t].todo)
    BY <1>0, <1>2, <2>1, <2>2, <2>4, MoveEntriesId, Zenon
  <2> QED BY <1>1, <2>1, <2>4, <2>5, ParentKeeps, Zenon
<1> QED BY <1>3, <1>4

\* A handler locks its second inode.
LEMMA lock_child_IInv ==
    ASSUME IInv, NEW t \in Thread, lock_child(t), record_refused
    PROVE  IInv'
<1> DEFINE x == call[t].id
           p == call[t].parent
<1>0. /\ Locks(inode_mtx, call) /\ NameInv(Dirs, LiveSet, call, refused)
      /\ TypeOK /\ inode_mtx \in [Inode -> Thread \union {NoOne}]
      /\ Form(call[t]) /\ Reads(call[t], Dirs) /\ p \in Inode
      /\ call \in [Thread -> Call] /\ call[t].entries \in Seq(Entry)
      /\ \A u \in Thread : call[u].parent \in Inode
                           /\ (WithChild(call[u]) => call[u].id \in Inode)
  BY Facts
<1>1. /\ call[t].pc = "lockChild" /\ inode_mtx[x] = NoOne
      /\ inode_mtx' = [inode_mtx EXCEPT ![x] = t]
      /\ UNCHANGED <<bitmap, table, type, blocks, dir, fs_mtx>>
  BY Zenon DEF lock_child, disk
<1>2. /\ x \in Inode /\ call[t].op \in {"mknode", "unlink"} /\ call[t].name \in Name
      /\ Holding(call[t]) /\ ~WithChild(call[t]) /\ ~Removed(call[t]) /\ ~Written(call[t])
  BY <1>0, <1>1, SMT DEF Form, Holding, WithChild, Removed, Written
<1>3. call[t].entries = Dirs[p]
  BY <1>0, <1>2, Zenon DEF Reads
<1>4. /\ call' \in [Thread -> Call] /\ \A u \in Thread \ {t} : call'[u] = call[u]
      /\ call'[t].op = call[t].op /\ call'[t].parent = p /\ call'[t].name = call[t].name
      /\ call'[t].id = x
      /\ \/ /\ call[t].op = "mknode" /\ call'[t].pc = "write"
            /\ call'[t].entries = With(Dirs[p], call[t].name, x)
         \/ /\ call[t].op = "unlink" /\ call'[t].pc = "remove"
            /\ call'[t].entries = Dirs[p]
  <2>1. CASE call[t].op = "mknode"
    <3> DEFINE e == With(call[t].entries, call[t].name, x)
    <3>1. call' = [call EXCEPT ![t].pc = "write", ![t].entries = e]
      BY <2>1, Zenon DEF lock_child
    <3>2. e \in Seq(Entry)
      BY <1>0, <1>2, WithAdds, Zenon
    <3> HIDE DEF e
    <3>3. "write" \in PC
      BY DEF PC
    <3>4. Moved(call, call', t, "write", e, x, call[t].bits, call[t].todo)
      BY <1>0, <3>1, <3>2, <3>3, MoveEntries, Zenon
    <3>5. e = With(Dirs[p], call[t].name, x)
      BY <1>3, Zenon DEF e
    <3> QED BY <2>1, <3>4, <3>5, Zenon DEF Moved
  <2>2. CASE call[t].op = "unlink"
    <3>1. call' = [call EXCEPT ![t].pc = "remove"]
      BY <2>2 DEF lock_child
    <3>2. "remove" \in PC
      BY DEF PC
    <3>3. Moved(call, call', t, "remove", call[t].entries, x, call[t].bits, call[t].todo)
      BY <1>0, <3>1, <3>2, MovePc, Zenon
    <3> QED BY <1>3, <2>2, <3>3, Zenon DEF Moved
  <2> QED BY <1>2, <2>1, <2>2
<1>5. /\ Holding(call'[t]) /\ WithChild(call'[t]) /\ ~Removed(call'[t])
      /\ Fresh(call'[t]) <=> Fresh(call[t])
      /\ call'[t].pc # "idle"
      /\ Written(call'[t]) <=> call[t].op = "mknode"
  BY <1>1, <1>4, SMT DEF Holding, WithChild, Removed, Fresh, Written
<1>6. Form(call'[t]) /\ Resizing(call'[t], LiveSet, blocks)
  BY <1>2, <1>4, Zenon DEF Form, Resizing
<1>7. Reads(call'[t], Dirs)
  BY <1>0, <1>2, <1>4, <1>5 DEF Reads
<1>8. refused' = refused
  BY <1>4, <1>5, RefusedSame
<1>9. Locks(inode_mtx', call')
  BY <1>0, <1>1, <1>2, <1>4, <1>5, LocksChild, Zenon
<1>10. NameInv(Dirs, LiveSet, call', refused')
  <2>1. \A u \in Thread :
              /\ Removed(call'[u]) <=> Removed(call[u])
              /\ Fresh(call'[u]) <=> Fresh(call[u])
              /\ Removed(call[u]) \/ Fresh(call[u]) =>
                    call'[u].parent = call[u].parent /\ call'[u].id = call[u].id
    BY <1>2, <1>4, <1>5, Zenon
  <2> QED BY <1>0, <1>8, <2>1, NamesKeep, Zenon
<1>11. /\ bitmap' \subseteq Block /\ fs_mtx' \in Thread \union {NoOne}
       /\ refused' \subseteq Inode /\ inode_mtx' \in [Inode -> Thread \union {NoOne}]
  BY <1>0, <1>1, <1>2, <1>8, Zenon DEF TypeOK
<1> QED BY <1>1, <1>4, <1>6, <1>7, <1>9, <1>10, <1>11, StepKeeps, Zenon

\* remove_file reads the bitmap for the next block, or is refused.
LEMMA free_read_IInv ==
    ASSUME IInv, NEW t \in Thread, free_read(t), record_refused
    PROVE  IInv'
<1> DEFINE b == Head(call[t].todo)
<1>0. TypeOK /\ call \in [Thread -> Call] /\ Form(call[t])
  BY Facts
<1>1. call[t].pc = "free" /\ UNCHANGED <<bitmap, table, type, blocks, dir>>
  BY Zenon DEF free_read, disk
<1>2. bitmap' \subseteq Block /\ bitmap \in SUBSET Block
  BY <1>0, <1>1, Zenon DEF TypeOK
<1>3. CASE b \notin Block \/ b \notin bitmap
  <2>1. return(t) /\ fs_mtx' = NoOne
    BY <1>3, Zenon DEF free_read
  <2>2. call'[t].pc = "idle"
    BY <1>0, <2>1, NoCallForm, Zenon DEF return
  <2>3. refused \subseteq refused' /\ call[t].id \in refused'
    BY <1>1, <2>2 DEF record_refused
  <2>4. refused' \subseteq Inode
    <3>1. \A u \in Thread : call[u].pc = "free" => call[u].id \in Inode
      BY Facts, Zenon DEF Form
    <3>2. refused \subseteq Inode
      BY <1>0 DEF TypeOK
    <3> QED BY <3>1, <3>2 DEF record_refused
  <2>5. fs_mtx' \in Thread \union {NoOne}
    BY <2>1
  <2> QED BY <1>1, <1>2, <2>1, <2>3, <2>4, <2>5, ReturnKeeps, Zenon
<1>4. CASE ~(b \notin Block \/ b \notin bitmap)
  <2>1. /\ UNCHANGED <<inode_mtx, fs_mtx>>
        /\ call' = [call EXCEPT ![t].pc = "freeBlock", ![t].bits = bitmap]
    BY <1>4, Zenon DEF free_read
  <2>2. "freeBlock" \in PC
    BY DEF PC
  <2>3. Moved(call, call', t, "freeBlock", call[t].entries, call[t].id, bitmap,
              call[t].todo)
    BY <1>0, <1>2, <2>1, <2>2, MoveBits, Zenon
  <2>4. Form(call'[t]) /\ Resizing(call'[t], LiveSet, blocks)
    BY <1>0, <1>1, <2>3 DEF Moved, Form, Resizing
  <2>5. fs_mtx' \in Thread \union {NoOne}
    BY <1>0, <2>1 DEF TypeOK
  <2> QED BY <1>1, <1>2, <2>1, <2>3, <2>4, <2>5, MoveKeeps, Zenon
<1> QED BY <1>3, <1>4

\* What free_block makes of the variables of its handler.
LEMMA free_block_moves ==
    ASSUME HasLeast, IInv, NEW t \in Thread, free_block(t)
    PROVE  LET last == Len(call[t].todo) = 1
           IN  /\ last => Moved(call, call', t, "write",
                                Without(call[t].entries, call[t].id), call[t].id, {},
                                Tail(call[t].todo))
               /\ ~last => Moved(call, call', t, "free", call[t].entries, call[t].id, {},
                                 Tail(call[t].todo))
<1> DEFINE last == Len(call[t].todo) = 1
           e == IF last THEN Without(call[t].entries, call[t].id) ELSE call[t].entries
           pc == IF last THEN "write" ELSE "free"
           td == Tail(call[t].todo)
<1>0. /\ call \in [Thread -> Call] /\ call[t].entries \in Seq(Entry)
      /\ call[t].todo \in Seq(Block \union {Mixed})
      /\ call[t].pc = "freeBlock" /\ Form(call[t]) /\ Reads(call[t], Dirs)
      /\ call[t].parent \in Inode
  BY Facts DEF free_block
<1>1. call' = [call EXCEPT ![t].pc = pc, ![t].bits = {}, ![t].todo = td,
                           ![t].entries = e]
  BY Zenon DEF free_block
<1>2. pc \in PC /\ {} \in SUBSET Block
  BY DEF PC
<1>3. call[t].todo # <<>>
  BY <1>0 DEF Form
<1>4. td \in Seq(Block \union {Mixed})
  BY <1>0, <1>3
<1>5. e \in Seq(Entry)
  <2>1. call[t].id \in Ids(call[t].entries)
    <3>1. call[t].op = "unlink" /\ Holding(call[t]) /\ ~Written(call[t])
      BY <1>0 DEF Form, Holding, Written
    <3> QED BY <1>0, <3>1, Zenon DEF Reads
  <2>2. Without(call[t].entries, call[t].id) \in Seq(Entry)
    BY <1>0, <2>1, WithoutRemoves, Zenon
  <2> QED BY <1>0, <2>2
<1> HIDE DEF e, pc, td
<1>6. Moved(call, call', t, pc, e, call[t].id, {}, td)
  BY <1>0, <1>1, <1>2, <1>4, <1>5, MoveAll, Zenon
<1> QED BY <1>6, Zenon DEF e, pc, td

\* remove_file frees a block; after the last one the entry is taken out.
LEMMA free_block_IInv ==
    ASSUME HasLeast, IInv, NEW t \in Thread, free_block(t), record_refused
    PROVE  IInv'
<1> DEFINE last == Len(call[t].todo) = 1
           x == call[t].id
           p == call[t].parent
<1>0. /\ Locks(inode_mtx, call) /\ NameInv(Dirs, LiveSet, call, refused)
      /\ TypeOK /\ inode_mtx \in [Inode -> Thread \union {NoOne}]
      /\ Form(call[t]) /\ Reads(call[t], Dirs) /\ p \in Inode
      /\ call \in [Thread -> Call] /\ call[t].bits \in SUBSET Block
      /\ call[t].todo \in Seq(Block \union {Mixed})
  BY Facts
<1>1. /\ call[t].pc = "freeBlock" /\ UNCHANGED <<table, type, blocks, dir, inode_mtx>>
      /\ bitmap' = call[t].bits \ {Head(call[t].todo)}
      /\ fs_mtx' = IF last THEN NoOne ELSE fs_mtx
  BY Zenon DEF free_block
<1>2. bitmap' \subseteq Block /\ fs_mtx' \in Thread \union {NoOne}
  BY <1>0, <1>1 DEF TypeOK
<1>3. /\ call[t].op = "unlink" /\ x \in Inode /\ call[t].todo # <<>>
      /\ call[t].name \in Name
      /\ Holding(call[t]) /\ WithChild(call[t]) /\ Removed(call[t]) /\ ~Written(call[t])
      /\ ~Fresh(call[t])
  <2>1. Form(call[t]) /\ call[t].pc \in {"free", "freeBlock"}
    BY <1>0, <1>1
  <2> QED BY <2>1, AtFree, Zenon
<1>4. CASE ~last
  <2>1. Moved(call, call', t, "free", call[t].entries, call[t].id, {}, Tail(call[t].todo))
    BY <1>4, free_block_moves, Zenon
  <2>2. Tail(call[t].todo) # <<>>
    BY <1>0, <1>3, <1>4, LongTail, Zenon
  <2>3. Form(call'[t]) /\ Resizing(call'[t], LiveSet, blocks)
    BY <1>3, <2>1, <2>2 DEF Moved, Form, Resizing
  <2> QED BY <1>1, <1>2, <2>1, <2>3, MoveKeeps, Zenon
<1>5. CASE last
  <2>1. Moved(call, call', t, "write", Without(call[t].entries, x), x, {},
              Tail(call[t].todo))
    BY <1>5, free_block_moves, Zenon
  <2>2. /\ call' \in [Thread -> Call] /\ \A u \in Thread \ {t} : call'[u] = call[u]
        /\ call'[t].pc = "write" /\ call'[t].op = "unlink" /\ call'[t].parent = p
        /\ call'[t].name = call[t].name /\ call'[t].id = x
        /\ call'[t].entries = Without(call[t].entries, x)
    BY <1>3, <2>1, Zenon DEF Moved
  <2>3. /\ Holding(call'[t]) /\ WithChild(call'[t]) /\ Removed(call'[t])
        /\ Written(call'[t]) /\ ~Fresh(call'[t])
        /\ Form(call'[t]) /\ Resizing(call'[t], LiveSet, blocks)
    BY <1>3, <2>2, Zenon DEF Form, Resizing, Holding, WithChild, Removed, Written, Fresh
  <2>4. Reads(call'[t], Dirs)
    BY <1>0, <1>3, <2>2, <2>3 DEF Reads
  <2>5. refused' = refused
    BY <2>2, RefusedSame
  <2>6. Locks(inode_mtx', call')
    <3>1. \A u \in Thread :
             /\ Holding(call'[u]) <=> Holding(call[u])
             /\ WithChild(call'[u]) <=> WithChild(call[u])
             /\ Holding(call[u]) => call'[u].parent = call[u].parent
             /\ WithChild(call[u]) => call'[u].id = call[u].id
      BY <1>3, <2>2, <2>3, Zenon
    <3>2. Locks(inode_mtx, call')
      BY <1>0, <3>1, LocksKeep, Zenon
    <3> QED BY <1>1, <3>2
  <2>7. NameInv(Dirs, LiveSet, call', refused')
    <3>1. \A u \in Thread :
                /\ Removed(call'[u]) <=> Removed(call[u])
                /\ Fresh(call'[u]) <=> Fresh(call[u])
                /\ Removed(call[u]) \/ Fresh(call[u]) =>
                      call'[u].parent = call[u].parent /\ call'[u].id = call[u].id
      BY <1>3, <2>2, <2>3, Zenon
    <3> QED BY <1>0, <2>5, <3>1, NamesKeep, Zenon
  <2>8. refused' \subseteq Inode /\ inode_mtx' \in [Inode -> Thread \union {NoOne}]
    BY <1>0, <1>1, <2>5, Zenon DEF TypeOK
  <2> QED BY <1>1, <1>2, <2>2, <2>3, <2>4, <2>6, <2>7, <2>8, StepKeeps, Zenon
<1> QED BY <1>4, <1>5

\* mknode is given inode id with block b.
Allocates(t, id, b) ==
    /\ table' = [table EXCEPT ![id] = b]
    /\ type' = [type EXCEPT ![id] = call[t].type]
    /\ blocks' = [blocks EXCEPT ![id] = <<>>]
    /\ dir' = [dir EXCEPT ![id] = <<>>]
    /\ call' = [call EXCEPT ![t].pc = "lockChild", ![t].id = id, ![t].bits = {}]
    /\ UNCHANGED inode_mtx

\* A new inode under the number id, of which only removed names speak.
LEMMA AllocKeeps ==
    ASSUME IInv, NEW t \in Thread, NEW id \in Inode, NEW b \in Block,
           ~Live(id), call[t].pc = "allocInode", record_refused,
           bitmap' \subseteq Block, fs_mtx' \in Thread \union {NoOne},
           Allocates(t, id, b)
    PROVE  IInv'
<1>0. /\ Locks(inode_mtx, call) /\ NameInv(Dirs, LiveSet, call, refused)
      /\ TypeOK /\ inode_mtx \in [Inode -> Thread \union {NoOne}]
      /\ Form(call[t]) /\ Reads(call[t], Dirs) /\ call[t].parent \in Inode
      /\ call \in [Thread -> Call] /\ Sizes(Dirs, LiveSet, blocks)
  BY Facts
<1>1. /\ id \in Inode /\ ~Live(id) /\ call[t].pc = "allocInode"
      /\ bitmap' \subseteq Block /\ fs_mtx' \in Thread \union {NoOne}
  OBVIOUS
<1>2. /\ table' = [table EXCEPT ![id] = b]
      /\ type' = [type EXCEPT ![id] = call[t].type]
      /\ blocks' = [blocks EXCEPT ![id] = <<>>]
      /\ dir' = [dir EXCEPT ![id] = <<>>]
      /\ call' = [call EXCEPT ![t].pc = "lockChild", ![t].id = id, ![t].bits = {}]
      /\ UNCHANGED inode_mtx
  BY Zenon DEF Allocates
<1>18. b \in Block /\ b # KInvalidBlockID
  BY SizeAssumption DEF Block, KInvalidBlockID
<1>3. id \in 0 .. MaxInode /\ {} \in SUBSET Block /\ "lockChild" \in PC
  BY <1>1 DEF Inode, PC
<1>4. Moved(call, call', t, "lockChild", call[t].entries, id, {}, call[t].todo)
  BY <1>0, <1>2, <1>3, MoveIdBits, Zenon
<1>5. /\ call' \in [Thread -> Call] /\ \A u \in Thread \ {t} : call'[u] = call[u]
      /\ call'[t].pc = "lockChild" /\ call'[t].op = call[t].op
      /\ call'[t].parent = call[t].parent /\ call'[t].name = call[t].name
      /\ call'[t].entries = call[t].entries /\ call'[t].id = id
  BY <1>4, Zenon DEF Moved
<1>6. /\ Holding(call[t]) /\ ~WithChild(call[t]) /\ ~Written(call[t])
      /\ ~Fresh(call[t]) /\ ~Removed(call[t]) /\ call[t].op = "mknode"
      /\ call[t].name \in Name
  BY <1>0, <1>1, AtAllocInode, Zenon
<1>7. /\ Holding(call'[t]) /\ ~WithChild(call'[t]) /\ ~Written(call'[t])
      /\ Fresh(call'[t]) /\ ~Removed(call'[t])
      /\ Form(call'[t])
  BY <1>1, <1>5, <1>6, SMT DEF Form, Holding, WithChild, Written, Fresh, Removed
<1>8. refused' = refused
  BY <1>5, RefusedSame
<1>9. \A i \in Inode : /\ readdir(i)' = readdir(i)
                       /\ i # id => (Live(i)' <=> Live(i)) /\ blocks'[i] = blocks[i]
                       /\ Live(id)' /\ blocks'[id] = <<>>
  <2>1. /\ \A i \in Inode : i # id => /\ table'[i] = table[i] /\ dir'[i] = dir[i]
                                      /\ blocks'[i] = blocks[i]
        /\ table'[id] = b /\ dir'[id] = <<>> /\ blocks'[id] = <<>>
    BY <1>0, <1>1, <1>2 DEF TypeOK
  <2>2. /\ \A i \in Inode : i # id => (Live(i)' <=> Live(i))
        /\ Live(id)'
    BY <1>18, <2>1, Zenon DEF Live
  <2>3. \A i \in Inode : i # id => readdir(i)' = readdir(i)
    BY <2>1, Zenon DEF readdir, Live
  <2>4. readdir(id)' = <<>> /\ readdir(id) = <<>>
    BY <1>1, <2>1, <2>2, Zenon DEF readdir
  <2> QED BY <2>1, <2>2, <2>3, <2>4, Zenon
<1>10. Dirs' = Dirs /\ Dirs[id] = <<>>
  BY <1>1, <1>9 DEF Dirs, readdir
<1>11. LiveSet' = LiveSet \union {id} /\ id \notin LiveSet
  BY <1>1, <1>9, Zenon DEF LiveSet
<1>12. Locks(inode_mtx', call')
  <2>1. \A u \in Thread :
           /\ Holding(call'[u]) <=> Holding(call[u])
           /\ WithChild(call'[u]) <=> WithChild(call[u])
           /\ Holding(call[u]) => call'[u].parent = call[u].parent
           /\ WithChild(call[u]) => call'[u].id = call[u].id
    BY <1>5, <1>6, <1>7, Zenon
  <2>2. Locks(inode_mtx, call')
    BY <1>0, <2>1, LocksKeep, Zenon
  <2> QED BY <1>2, <2>2
<1>13. NameInv(Dirs', LiveSet', call', refused')
  <2>1. NameInv(Dirs, LiveSet \union {id}, call', refused)
    BY <1>0, <1>1, <1>5, <1>6, <1>7, <1>10, <1>11, NamesAlloc, Zenon
  <2> QED BY <1>8, <1>10, <1>11, <2>1, Zenon
<1>14. \A u \in Thread : Form(call'[u]) /\ Reads(call'[u], Dirs')
  <2>1. Reads(call'[t], Dirs)
    BY <1>0, <1>5, <1>6, <1>7, Zenon DEF Reads
  <2> QED BY <1>5, <1>7, <1>10, <2>1, Zenon DEF IInv
<1>15. \A u \in Thread : Resizing(call'[u], LiveSet', blocks')
  <2>1. Resizing(call'[t], LiveSet', blocks')
    BY <1>5 DEF Resizing
  <2>2. ASSUME NEW u \in Thread, u # t PROVE Resizing(call'[u], LiveSet', blocks')
    <3>1. Resizing(call[u], LiveSet, blocks) /\ call'[u] = call[u]
          /\ call[u].parent \in Inode
      BY <1>5, <2>2, Facts
    <3> QED BY <1>9, <1>11, <3>1, Zenon DEF Resizing
  <2> QED BY <2>1, <2>2
<1>16. Sizes(Dirs', LiveSet', blocks')
  <2>1. SUFFICES ASSUME NEW i \in LiveSet'
        PROVE  /\ Len(blocks'[i]) \in {0, 1, 2}
               /\ Len(blocks'[i]) # 2 => (blocks'[i] = <<>> <=> Dirs[i] = <<>>)
    BY <1>10 DEF Sizes
  <2>2. CASE i = id
    BY <1>1, <1>9, <1>10, <2>2, SMTT(30)
  <2>3. CASE i # id
    <3>1. i \in LiveSet /\ i \in Inode
      BY <1>11, <2>3 DEF LiveSet
    <3> QED BY <1>0, <1>9, <2>3, <3>1 DEF Sizes
  <2> QED BY <2>2, <2>3
<1>17. TypeOK'
  <2>1. table' \in [Inode -> 0 .. MaxBlock]
    <3>1. b \in 0 .. MaxBlock
      BY <1>18 DEF Block
    <3> QED BY <1>0, <1>2, <3>1 DEF TypeOK
  <2>2. type' \in [Inode -> InodeType]
    <3>1. call[t].type \in InodeType
      BY <1>0, Zenon DEF Call
    <3> QED BY <1>0, <1>2, <3>1 DEF TypeOK
  <2>3. blocks' \in [Inode -> Seq(Block \union {Mixed})]
    <3>1. <<>> \in Seq(Block \union {Mixed})
      OBVIOUS
    <3> QED BY <1>0, <1>2, <3>1, Zenon DEF TypeOK
  <2>4. dir' \in [Inode -> Seq(Entry)]
    <3>1. <<>> \in Seq(Entry)
      OBVIOUS
    <3> QED BY <1>0, <1>2, <3>1, Zenon DEF TypeOK
  <2>5. refused' \subseteq Inode /\ inode_mtx' \in [Inode -> Thread \union {NoOne}]
    BY <1>0, <1>2, <1>8, Zenon DEF TypeOK
  <2> QED BY <1>1, <1>5, <2>1, <2>2, <2>3, <2>4, <2>5, Zenon DEF TypeOK, Call
<1> QED BY <1>12, <1>13, <1>14, <1>15, <1>16, <1>17, Zenon DEF IInv

\* alloc_inode takes a free number and a free block, or fails.
LEMMA alloc_inode_IInv ==
    ASSUME HasLeast, IInv, NEW t \in Thread, alloc_inode(t), record_refused
    PROVE  IInv'
<1> DEFINE b == find_first_free(Block \ call[t].bits)
           id == find_first_free(FreeInodes)
<1>0. Form(call[t]) /\ call[t].bits \in SUBSET Block
  BY Facts
<1>1. /\ call[t].pc = "allocInode" /\ bitmap' = call[t].bits \union {b}
      /\ fs_mtx' = NoOne
  BY Zenon DEF alloc_inode
<1>2. b \in Block
  <2>1. Block \ call[t].bits # {}
    BY <1>0, <1>1 DEF Form
  <2>2. Block \ call[t].bits \subseteq Nat
    BY SizeAssumption DEF Block
  <2>3. b \in Block \ call[t].bits
    BY <2>1, <2>2, FirstFree, Zenon
  <2> QED BY <2>3
<1>3. bitmap' \subseteq Block /\ fs_mtx' \in Thread \union {NoOne}
  BY <1>0, <1>1, <1>2
<1>4. CASE FreeInodes = {}
  <2>1. return(t) /\ UNCHANGED <<table, type, blocks, dir>>
    BY <1>4, Zenon DEF alloc_inode
  <2>2. ~Removed(call[t])
    BY <1>1 DEF Removed
  <2> QED BY <1>3, <2>1, <2>2, ErrorKeeps, Zenon
<1>5. CASE FreeInodes # {}
  <2>1. id \in Inode /\ ~Live(id)
    <3>1. FreeInodes \subseteq Nat
      BY SizeAssumption DEF FreeInodes, Inode
    <3>2. id \in FreeInodes
      BY <1>5, <3>1, FirstFree, Zenon
    <3> QED BY <3>2 DEF FreeInodes
  <2>2. Allocates(t, id, b)
    BY <1>5, Zenon DEF alloc_inode, Allocates
  <2> HIDE DEF id, b
  <2> QED BY <1>1, <1>2, <1>3, <2>1, <2>2, AllocKeeps, Zenon
<1> QED BY <1>4, <1>5, Zenon

\* remove_file frees inode x.
Frees(t, x) ==
    /\ call[t].pc = "remove" /\ call[t].id = x /\ Live(x)
    /\ fs_mtx' = t
    /\ table' = [table EXCEPT ![x] = KInvalidBlockID]
    /\ call' = [call EXCEPT ![t].pc = "free", ![t].todo = Append(blocks[x], table[x])]
    /\ UNCHANGED <<bitmap, type, blocks, dir, inode_mtx>>

\* The inode x of an unlink is gone, its name is not.
LEMMA RemoveKeeps ==
    ASSUME IInv, NEW t \in Thread, NEW x \in Inode, Frees(t, x), record_refused
    PROVE  IInv'
<1> DEFINE td == Append(blocks[x], table[x])
           p == call[t].parent
<1>0. /\ Locks(inode_mtx, call) /\ NameInv(Dirs, LiveSet, call, refused)
      /\ TypeOK /\ Form(call[t]) /\ Reads(call[t], Dirs) /\ p \in Inode
      /\ call \in [Thread -> Call] /\ Sizes(Dirs, LiveSet, blocks)
      /\ Dirs \in [Inode -> Seq(Entry)] /\ LiveSet \subseteq Inode
      /\ \A u \in Thread : Form(call[u]) /\ call[u].parent \in Inode
  BY Facts
<1>1. call[t].pc = "remove" /\ call[t].id = x /\ Live(x)
  BY Zenon DEF Frees
<1>2. /\ table' = [table EXCEPT ![x] = KInvalidBlockID] /\ fs_mtx' = t
      /\ call' = [call EXCEPT ![t].pc = "free", ![t].todo = td]
      /\ UNCHANGED <<bitmap, type, blocks, dir, inode_mtx>>
  BY Zenon DEF Frees
<1>3. td \in Seq(Block \union {Mixed}) /\ td # <<>>
  <2>1. blocks[x] \in Seq(Block \union {Mixed})
    BY <1>0, Zenon DEF TypeOK
  <2>2. table[x] \in 0 .. MaxBlock /\ table[x] # 0
    BY <1>0, <1>1, Zenon DEF TypeOK, Live, KInvalidBlockID
  <2>3. table[x] \in Block \union {Mixed}
    BY <2>2, SizeAssumption DEF Block
  <2> QED BY <2>1, <2>3
<1> HIDE DEF td
<1>4. Moved(call, call', t, "free", call[t].entries, x, call[t].bits, td)
  <2>1. "free" \in PC
    BY DEF PC
  <2> QED BY <1>0, <1>1, <1>2, <1>3, <2>1, MoveTodo, Zenon
<1>5. /\ call' \in [Thread -> Call] /\ \A u \in Thread \ {t} : call'[u] = call[u]
      /\ call'[t].pc = "free" /\ call'[t].op = call[t].op
      /\ call'[t].parent = p /\ call'[t].name = call[t].name
      /\ call'[t].entries = call[t].entries /\ call'[t].id = x /\ call'[t].todo = td
  BY <1>4, Zenon DEF Moved
<1>6. /\ Holding(call[t]) /\ WithChild(call[t]) /\ ~Written(call[t])
      /\ ~Fresh(call[t]) /\ ~Removed(call[t]) /\ call[t].op = "unlink"
      /\ call[t].name \in Name
  BY <1>0, <1>1, AtRemove, Zenon
<1>7. /\ Holding(call'[t]) /\ WithChild(call'[t]) /\ ~Written(call'[t])
      /\ ~Fresh(call'[t]) /\ Removed(call'[t])
      /\ Form(call'[t])
  BY <1>3, <1>5, <1>6, Zenon DEF Form, Holding, WithChild, Written, Fresh, Removed
<1>8. refused' = refused
  BY <1>5, RefusedSame
<1>9. /\ \A i \in Inode : i # x => readdir(i)' = readdir(i) /\ (Live(i)' <=> Live(i))
      /\ readdir(x)' = <<>> /\ ~Live(x)'
  <2>1. /\ \A i \in Inode : i # x => table'[i] = table[i]
        /\ table'[x] = KInvalidBlockID /\ dir' = dir
    BY <1>0, <1>2 DEF TypeOK
  <2> QED BY <2>1, Zenon DEF readdir, Live
<1>10. Dirs' = [Dirs EXCEPT ![x] = <<>>]
  <2>1. \A i \in Inode : Dirs'[i] = [Dirs EXCEPT ![x] = <<>>][i]
    BY <1>9 DEF Dirs
  <2>2. Dirs' = [i \in Inode |-> Dirs'[i]]
    BY DEF Dirs
  <2>3. [Dirs EXCEPT ![x] = <<>>] = [i \in Inode |-> [Dirs EXCEPT ![x] = <<>>][i]]
    BY Zenon DEF Dirs
  <2> QED BY <2>1, <2>2, <2>3
<1>11. LiveSet' = LiveSet \ {x}
  BY <1>9, Zenon DEF LiveSet
<1>12. Locks(inode_mtx', call')
  <2>1. \A u \in Thread :
           /\ Holding(call'[u]) <=> Holding(call[u])
           /\ WithChild(call'[u]) <=> WithChild(call[u])
           /\ Holding(call[u]) => call'[u].parent = call[u].parent
           /\ WithChild(call[u]) => call'[u].id = call[u].id
    BY <1>1, <1>5, <1>6, <1>7, Zenon
  <2>2. Locks(inode_mtx, call')
    BY <1>0, <2>1, LocksKeep, Zenon
  <2> QED BY <1>2, <2>2
<1>13. x \in Ids(Dirs[p])
  BY <1>0, <1>1, <1>6, Zenon DEF Reads
<1>14. NameInv(Dirs', LiveSet', call', refused')
  <2>1. \A u \in Thread : /\ Removed(call[u]) => Holding(call[u])
                          /\ Fresh(call[u]) => call[u].id \in Inode
    BY <1>0, Places, Zenon
  <2>2. NameInv(Dirs', LiveSet \ {call[t].id}, call', refused)
    BY <1>0, <1>1, <1>5, <1>6, <1>7, <1>10, <1>13, <2>1, NamesRemove, ZenonT(30)
  <2> QED BY <1>1, <1>8, <1>11, <2>2, Zenon
\* Nobody else works in directory x, whose mutex this handler holds.
<1>15. \A u \in Thread : Holding(call[u]) => call[u].parent # x
  <2>1. SUFFICES ASSUME NEW u \in Thread, Holding(call[u]) PROVE call[u].parent # x
    BY Zenon
  <2>2. CASE u = t
    BY <1>0, <1>1, <1>6, <2>2, Zenon DEF Locks
  <2>3. CASE t # u
    <3>1. call[t].id # call[u].parent
      BY <1>0, <1>6, <2>1, <2>3, LocksExclude, Zenon
    <3> QED BY <1>1, <3>1, Zenon
  <2> QED BY <2>2, <2>3
<1>16. \A u \in Thread : Form(call'[u]) /\ Reads(call'[u], Dirs')
  <2>1. \A u \in Thread : Holding(call[u]) => Dirs'[call[u].parent] = Dirs[call[u].parent]
    BY <1>0, <1>10, <1>15, ZenonT(30)
  <2>2. Reads(call'[t], Dirs')
    BY <1>0, <1>5, <1>1, <1>6, <1>7, <2>1 DEF Reads
  <2>3. ASSUME NEW u \in Thread, u # t PROVE Reads(call'[u], Dirs')
    <3>1. Reads(call[u], Dirs) /\ call'[u] = call[u]
      BY <1>5, <2>3, Facts
    <3> QED BY <2>1, <3>1, Zenon DEF Reads
  <2>4. \A u \in Thread : Form(call'[u])
    BY <1>0, <1>5, <1>7, Zenon
  <2> QED BY <2>2, <2>3, <2>4
<1>17. \A u \in Thread : Resizing(call'[u], LiveSet', blocks')
  <2>1. Resizing(call'[t], LiveSet', blocks')
    BY <1>5 DEF Resizing
  <2>2. ASSUME NEW u \in Thread, u # t PROVE Resizing(call'[u], LiveSet', blocks')
    <3>1. Resizing(call[u], LiveSet, blocks) /\ call'[u] = call[u]
      BY <1>5, <2>2, Facts
    <3>2. call[u].pc = "resize" => call[u].parent # x
      BY <1>15 DEF Holding
    <3>3. blocks' = blocks
      BY <1>2, Zenon
    <3> QED BY <1>11, <3>1, <3>2, <3>3, ZenonT(30) DEF Resizing
  <2> QED BY <2>1, <2>2
<1>18. Sizes(Dirs', LiveSet', blocks')
  <2>1. blocks' = blocks
    BY <1>2
  <2>2. \A i \in LiveSet \ {x} : Dirs'[i] = Dirs[i]
    BY <1>0, <1>10
  <2> QED BY <1>0, <1>11, <2>1, <2>2 DEF Sizes
<1>19. TypeOK'
  <2>1. table' \in [Inode -> 0 .. MaxBlock]
    BY <1>0, <1>2, SizeAssumption DEF TypeOK, KInvalidBlockID
  <2>2. fs_mtx' \in Thread \union {NoOne}
    BY <1>2
  <2>3. /\ bitmap' \subseteq Block /\ type' \in [Inode -> InodeType]
        /\ blocks' \in [Inode -> Seq(Block \union {Mixed})] /\ dir' \in [Inode -> Seq(Entry)]
        /\ inode_mtx' \in [Inode -> Thread \union {NoOne}] /\ refused' \subseteq Inode
    BY <1>0, <1>2, <1>8, Zenon DEF TypeOK
  <2> QED BY <1>5, <2>1, <2>2, <2>3, Zenon DEF TypeOK, Call
<1> QED BY <1>12, <1>14, <1>16, <1>17, <1>18, <1>19, ZenonT(30) DEF IInv

\* remove_file clears the entry of the inode table.
LEMMA remove_file_IInv ==
    ASSUME IInv, NEW t \in Thread, remove_file(t), record_refused
    PROVE  IInv'
<1>0. TypeOK /\ Form(call[t])
  BY Facts
<1>1. call[t].pc = "remove" /\ UNCHANGED <<bitmap, type, blocks, dir>>
  BY Zenon DEF remove_file
<1>2. CASE ~Live(call[t].id)
  <2>1. return(t) /\ UNCHANGED <<table, fs_mtx>>
    BY <1>2, Zenon DEF remove_file
  <2>2. ~Removed(call[t])
    BY <1>1 DEF Removed
  <2>3. bitmap' \subseteq Block /\ fs_mtx' \in Thread \union {NoOne}
    BY <1>0, <1>1, <2>1 DEF TypeOK
  <2> QED BY <1>1, <2>1, <2>2, <2>3, ErrorKeeps, Zenon
<1>3. CASE Live(call[t].id)
  <2>1. call[t].id \in Inode
    BY <1>0, <1>1 DEF Form
  <2>2. Frees(t, call[t].id)
    BY <1>3, Zenon DEF remove_file, Frees, free_inode
  <2> QED BY <2>1, <2>2, RemoveKeeps, Zenon
<1> QED BY <1>2, <1>3, Zenon

\* The handler writes directory p, with the blocks bs, and answers.
Stores(t, p, bs) ==
    /\ call[t].parent = p /\ Live(p) /\ Written(call[t])
    /\ Len(bs) \in {0, 1, 2}
    /\ Len(bs) # 2 => (bs = <<>> <=> call[t].entries = <<>>)
    /\ bs \in Seq(Block \union {Mixed})
    /\ dir' = [dir EXCEPT ![p] = call[t].entries]
    /\ blocks' = [blocks EXCEPT ![p] = bs]
    /\ return(t)
    /\ UNCHANGED <<table, type, fs_mtx>>

\* A handler writes its directory and returns.
LEMMA StoreKeeps ==
    ASSUME HasLeast, IInv, NEW t \in Thread, NEW p \in Inode, NEW bs, Stores(t, p, bs),
           bitmap' \subseteq Block, record_refused
    PROVE  IInv'
<1> DEFINE x == call[t].id
           e == call[t].entries
<1>0. /\ Locks(inode_mtx, call) /\ NameInv(Dirs, LiveSet, call, refused)
      /\ TypeOK /\ Form(call[t]) /\ Reads(call[t], Dirs)
      /\ call \in [Thread -> Call] /\ Sizes(Dirs, LiveSet, blocks)
      /\ inode_mtx \in [Inode -> Thread \union {NoOne}] /\ e \in Seq(Entry)
      /\ Dirs \in [Inode -> Seq(Entry)] /\ LiveSet \subseteq Inode
      /\ \A u \in Thread : Form(call[u]) /\ call[u].parent \in Inode
                           /\ (WithChild(call[u]) => call[u].id \in Inode)
  BY Facts
<1>1. /\ call[t].parent = p /\ Live(p) /\ Written(call[t])
      /\ Len(bs) \in {0, 1, 2}
      /\ Len(bs) # 2 => (bs = <<>> <=> e = <<>>)
      /\ bs \in Seq(Block \union {Mixed})
  BY Zenon DEF Stores
<1>2. /\ dir' = [dir EXCEPT ![p] = e] /\ blocks' = [blocks EXCEPT ![p] = bs]
      /\ UNCHANGED <<table, type, fs_mtx>>
      /\ call' = [call EXCEPT ![t] = NoCall]
      /\ inode_mtx' = [i \in Inode |-> IF inode_mtx[i] = t THEN NoOne ELSE inode_mtx[i]]
  BY Zenon DEF Stores, return
<1>3. /\ call'[t] = NoCall /\ \A u \in Thread \ {t} : call'[u] = call[u]
      /\ call' \in [Thread -> Call]
  BY <1>0, <1>2, NoCallForm, Zenon
<1>4. call'[t].pc = "idle" /\ call'[t].op = "none"
  BY <1>3, NoCallForm, Zenon
<1>5. /\ ~Holding(call'[t]) /\ ~WithChild(call'[t])
      /\ ~Fresh(call'[t]) /\ ~Removed(call'[t])
      /\ Form(call'[t]) /\ Resizing(call'[t], LiveSet', blocks') /\ Reads(call'[t], Dirs')
  BY <1>4 DEF Holding, WithChild, Fresh, Removed, Form, Resizing, Reads
<1>6. /\ call[t].pc \in {"write", "resize"} /\ call[t].op \in {"mknode", "unlink"}
      /\ Holding(call[t]) /\ WithChild(call[t]) /\ x \in Inode /\ call[t].name \in Name
      /\ call[t].op = "mknode" => Fresh(call[t]) /\ ~Removed(call[t])
      /\ call[t].op = "unlink" => Removed(call[t])
  <2>1. Form(call[t]) /\ Written(call[t])
    BY <1>0, <1>1, Zenon
  <2> QED BY <2>1, AtWritten, Zenon
<1>7. refused' = refused
  BY <1>3, <1>6, RefusedSame
<1>8. LiveSet' = LiveSet /\ p \in LiveSet
  BY <1>1, <1>2, Zenon DEF LiveSet, Live
<1>9. Dirs' = [Dirs EXCEPT ![p] = e]
  <2>1. /\ \A i \in Inode : i # p => readdir(i)' = readdir(i)
        /\ readdir(p)' = e
    <3>1. \A i \in Inode : (i # p => dir'[i] = dir[i]) /\ dir'[p] = e
      BY <1>0, <1>2 DEF TypeOK
    <3> QED BY <1>1, <1>2, <3>1, ZenonT(30) DEF readdir, Live
  <2>2. \A i \in Inode : Dirs'[i] = [Dirs EXCEPT ![p] = e][i]
    BY <2>1 DEF Dirs
  <2>3. Dirs' = [i \in Inode |-> Dirs'[i]]
    BY DEF Dirs
  <2>4. [Dirs EXCEPT ![p] = e] = [i \in Inode |-> [Dirs EXCEPT ![p] = e][i]]
    BY Zenon DEF Dirs
  <2> QED BY <2>2, <2>3, <2>4
<1>10. Locks(inode_mtx', call')
  BY <1>0, <1>2, <1>3, <1>5, LocksReturn, Zenon
<1>11. NameInv(Dirs', LiveSet', call', refused')
  <2>1. \A u \in Thread : /\ Removed(call[u]) => Holding(call[u]) /\ WithChild(call[u])
                          /\ Fresh(call[u]) => Holding(call[u]) /\ call[u].id \in Inode
    BY <1>0, Places, Zenon
  <2>2. CASE call[t].op = "mknode"
    <3>1. /\ e = With(Dirs[p], call[t].name, x)
          /\ \A k \in DOMAIN Dirs[p] : Dirs[p][k].name # call[t].name
      BY <1>0, <1>1, <1>6, <2>2, Zenon DEF Reads
    <3>2. NameInv(Dirs', LiveSet, call', refused)
      <4>1. /\ Dirs' = [Dirs EXCEPT ![call[t].parent] =
                             With(Dirs[call[t].parent], call[t].name, call[t].id)]
            /\ \A k \in DOMAIN Dirs[call[t].parent] :
                  Dirs[call[t].parent][k].name # call[t].name
            /\ call[t].parent \in Inode
        BY <1>0, <1>1, <1>9, <3>1, Zenon
      <4>2. /\ Fresh(call[t]) /\ WithChild(call[t]) /\ ~Removed(call[t])
            /\ ~Removed(call'[t]) /\ ~Fresh(call'[t]) /\ call[t].name \in Name
        BY <1>5, <1>6, <2>2, Zenon
      <4> QED BY <1>0, <1>3, <2>1, <4>1, <4>2, NamesAdd, Zenon
    <3> QED BY <1>7, <1>8, <3>2, Zenon
  <2>3. CASE call[t].op = "unlink"
    <3>1. e = Without(Dirs[p], x) /\ x \in Ids(Dirs[p])
      BY <1>0, <1>1, <1>6, <2>3, Zenon DEF Reads
    <3>2. NameInv(Dirs', LiveSet, call', refused)
      BY <1>0, <1>1, <1>3, <1>5, <1>6, <1>9, <2>1, <2>3, <3>1, NamesDelete, ZenonT(30)
    <3> QED BY <1>7, <1>8, <3>2, Zenon
  <2> QED BY <1>6, <2>2, <2>3
\* Nobody else works in directory p.
<1>12. \A u \in Thread \ {t} : Holding(call[u]) => call[u].parent # p
  <2>1. SUFFICES ASSUME NEW u \in Thread \ {t}, Holding(call[u]) PROVE call[u].parent # p
    BY Zenon
  <2>2. u \in Thread /\ t # u
    BY <2>1
  <2>3. call[t].parent # call[u].parent
    BY <1>0, <1>6, <2>1, <2>2, LocksExclude, Zenon
  <2> QED BY <1>1, <2>3
<1>13. \A u \in Thread : Form(call'[u]) /\ Reads(call'[u], Dirs')
  <2>1. ASSUME NEW u \in Thread, u # t PROVE Reads(call'[u], Dirs') /\ Form(call'[u])
    <3>1. Reads(call[u], Dirs) /\ call'[u] = call[u] /\ Form(call[u])
      BY <1>3, <2>1, Facts, Zenon
    <3>2. Holding(call[u]) => Dirs'[call[u].parent] = Dirs[call[u].parent]
      BY <1>0, <1>9, <1>12, <2>1, Zenon
    <3> QED BY <3>1, <3>2, Zenon DEF Reads
  <2> QED BY <1>5, <2>1
<1>14. \A u \in Thread : Resizing(call'[u], LiveSet', blocks')
  <2>1. ASSUME NEW u \in Thread, u # t PROVE Resizing(call'[u], LiveSet', blocks')
    <3>1. Resizing(call[u], LiveSet, blocks) /\ call'[u] = call[u] /\ call[u].parent \in Inode
      BY <1>3, <2>1, Facts, Zenon
    <3>2. call[u].pc = "resize" => call[u].parent # p
      BY <1>12, <2>1, ZenonT(30) DEF Holding
    <3>3. call[u].parent # p => blocks'[call[u].parent] = blocks[call[u].parent]
      BY <1>0, <1>2, <3>1 DEF TypeOK
    <3> QED BY <1>8, <3>1, <3>2, <3>3, Zenon DEF Resizing
  <2> QED BY <1>5, <2>1
<1>15. Sizes(Dirs', LiveSet', blocks')
  <2>1. SUFFICES ASSUME NEW i \in LiveSet
        PROVE  /\ Len(blocks'[i]) \in {0, 1, 2}
               /\ Len(blocks'[i]) # 2 => (blocks'[i] = <<>> <=> Dirs'[i] = <<>>)
    BY <1>8, Zenon DEF Sizes
  <2>2. i \in Inode
    BY <1>0
  <2>3. CASE i = p
    <3>1. blocks'[i] = bs /\ Dirs'[i] = e
      BY <1>0, <1>2, <1>9, <2>2, <2>3, Zenon DEF TypeOK
    <3> QED BY <1>1, <3>1, Zenon
  <2>4. CASE i # p
    <3>1. blocks'[i] = blocks[i] /\ Dirs'[i] = Dirs[i]
      BY <1>0, <1>2, <1>9, <2>2, <2>4, Zenon DEF TypeOK
    <3> QED BY <1>0, <3>1, Zenon DEF Sizes
  <2> QED BY <2>3, <2>4
<1>16. TypeOK'
  <2>1. dir' \in [Inode -> Seq(Entry)]
    BY <1>0, <1>2, Zenon DEF TypeOK
  <2>2. blocks' \in [Inode -> Seq(Block \union {Mixed})]
    BY <1>0, <1>1, <1>2, Zenon DEF TypeOK
  <2>3. inode_mtx' \in [Inode -> Thread \union {NoOne}]
    BY <1>0, <1>2
  <2>4. /\ table' \in [Inode -> 0 .. MaxBlock] /\ type' \in [Inode -> InodeType]
        /\ fs_mtx' \in Thread \union {NoOne} /\ refused' \subseteq Inode
    BY <1>0, <1>2, <1>7, Zenon DEF TypeOK
  <2> QED BY <1>3, <2>1, <2>2, <2>3, <2>4, Zenon DEF TypeOK, Call
<1> QED BY <1>10, <1>11, <1>13, <1>14, <1>15, <1>16, ZenonT(30) DEF IInv

\* write_file on a directory that keeps its block.
LEMMA write_file_IInv ==
    ASSUME HasLeast, IInv, NEW t \in Thread, write_file(t), record_refused
    PROVE  IInv'
<1> DEFINE p == call[t].parent
<1>0. /\ TypeOK /\ Form(call[t]) /\ Reads(call[t], Dirs) /\ p \in Inode
      /\ Sizes(Dirs, LiveSet, blocks)
  BY Facts, Zenon
<1>1. /\ call[t].pc = "write" /\ Holding(call[t]) /\ Written(call[t])
      /\ ~Live(p) \/ (blocks[p] = <<>> <=> call[t].entries = <<>>)
  BY DEF write_file, Holding, Written
<1>2. CASE Live(p)
  <2>1. store(t, blocks[p]) /\ UNCHANGED bitmap
    BY <1>2, Zenon DEF write_file
  <2>2. Len(blocks[p]) \in {0, 1, 2} /\ blocks[p] \in Seq(Block \union {Mixed})
    BY <1>0, <1>2 DEF Sizes, LiveSet, TypeOK
  <2>3. Stores(t, p, blocks[p])
    BY <1>1, <1>2, <2>1, <2>2, Zenon DEF Stores, store
  <2>4. bitmap' \subseteq Block
    BY <1>0, <2>1 DEF TypeOK
  <2> QED BY <1>0, <2>3, <2>4, StoreKeeps, Zenon
<1>3. CASE ~Live(p)
  <2>1. return(t) /\ UNCHANGED <<bitmap, table, type, blocks, dir, fs_mtx>>
    BY <1>3, Zenon DEF write_file, disk
  <2>2. ~Removed(call[t])
    <3>1. SUFFICES ASSUME call[t].op = "unlink" PROVE FALSE
      BY DEF Removed
    <3>2. call[t].id \in Ids(Dirs[p])
      BY <1>0, <1>1, <3>1, Zenon DEF Reads
    <3>3. Dirs[p] = <<>>
      BY <1>0, <1>3, Types, Zenon
    <3> QED BY <3>2, <3>3 DEF Ids
  <2>3. bitmap' \subseteq Block /\ fs_mtx' \in Thread \union {NoOne}
    BY <1>0, <2>1 DEF TypeOK
  <2> QED BY <2>1, <2>2, <2>3, ErrorKeeps, Zenon
<1> QED BY <1>2, <1>3, Zenon

\* write_file on a directory that gets or gives back its block.
LEMMA resize_write_IInv ==
    ASSUME HasLeast, IInv, NEW t \in Thread, resize_write(t), record_refused
    PROVE  IInv'
<1> DEFINE p == call[t].parent
           bits == call[t].bits
           b == find_first_free(Block \ bits)
<1>0. /\ TypeOK /\ Form(call[t]) /\ p \in Inode /\ Resizing(call[t], LiveSet, blocks)
      /\ bits \in SUBSET Block
  BY Facts, Zenon
<1>1. call[t].pc = "resize" /\ Written(call[t])
  BY DEF resize_write, Written
<1>2. /\ Live(p) /\ (blocks[p] = <<>> <=> call[t].entries # <<>>)
      /\ blocks[p] = <<>> => ~(Block \subseteq bits)
  BY <1>0, <1>1 DEF Resizing, LiveSet
<1>3. CASE blocks[p] = <<>>
  <2>1. bitmap' = bits \union {b} /\ store(t, <<b>>)
    BY <1>3, Zenon DEF resize_write
  <2>2. b \in Block
    <3>1. Block \ bits # {}
      BY <1>2, <1>3
    <3>2. Block \ bits \subseteq Nat
      BY SizeAssumption DEF Block
    <3>3. b \in Block \ bits
      BY <3>1, <3>2, FirstFree, Zenon
    <3> QED BY <3>3
  <2> HIDE DEF b
  <2>3. <<b>> \in Seq(Block \union {Mixed}) /\ Len(<<b>>) = 1 /\ <<b>> # <<>>
    BY <2>2
  <2>4. Stores(t, p, <<b>>)
    <3>1. Len(<<b>>) \in {0, 1, 2} /\ call[t].entries # <<>>
      BY <1>2, <1>3, <2>3, Zenon
    <3> QED BY <1>1, <1>2, <2>1, <2>3, <3>1, Zenon DEF Stores, store
  <2>5. bitmap' \subseteq Block
    BY <1>0, <2>1, <2>2
  <2> QED BY <1>0, <2>4, <2>5, StoreKeeps, Zenon
<1>4. CASE blocks[p] # <<>>
  <2>1. bitmap' = bits \ {blocks[p][1]} /\ store(t, <<>>)
    BY <1>4, Zenon DEF resize_write
  <2>2. <<>> \in Seq(Block \union {Mixed}) /\ Len(<<>>) \in {0, 1, 2}
    OBVIOUS
  <2>3. Stores(t, p, <<>>)
    BY <1>1, <1>2, <1>4, <2>1, <2>2, Zenon DEF Stores, store
  <2>4. bitmap' \subseteq Block
    BY <1>0, <2>1
  <2> QED BY <1>0, <2>3, <2>4, StoreKeeps, Zenon
<1> QED BY <1>3, <1>4, Zenon

\* A file nobody works on gets a block of a data server.
LEMMA allocate_block_IInv ==
    ASSUME IInv, NEW i \in Inode, allocate_block(i), record_refused
    PROVE  IInv'
<1>0. /\ Locks(inode_mtx, call) /\ NameInv(Dirs, LiveSet, call, refused)
      /\ TypeOK /\ Sizes(Dirs, LiveSet, blocks)
  BY DEF IInv
<1>1. PICK b \in DataBlock : blocks' = [blocks EXCEPT ![i] = <<b, Mixed>>]
  BY Zenon DEF allocate_block
<1>2. /\ inode_mtx[i] = NoOne
      /\ UNCHANGED <<bitmap, table, type, dir, inode_mtx, fs_mtx, call>>
  BY Zenon DEF allocate_block
<1>3. refused' = refused
  <2>1. \A u \in Thread : ~(call[u].pc = "free" /\ call'[u].pc = "idle")
    BY <1>2
  <2>2. {call[u].id : u \in {v \in Thread : call[v].pc = "free" /\ call'[v].pc = "idle"}} = {}
    BY <2>1
  <2> QED BY <2>2 DEF record_refused
<1>4. Dirs' = Dirs /\ LiveSet' = LiveSet
  BY <1>2, Zenon DEF Dirs, LiveSet, readdir, Live
<1>5. /\ \A j \in Inode : j # i => blocks'[j] = blocks[j]
      /\ blocks'[i] = <<b, Mixed>>
  BY <1>0, <1>1 DEF TypeOK
<1>6. \A u \in Thread : Resizing(call[u], LiveSet, blocks')
  <2>1. SUFFICES ASSUME NEW u \in Thread PROVE Resizing(call[u], LiveSet, blocks')
    OBVIOUS
  <2>2. Resizing(call[u], LiveSet, blocks) /\ call[u].parent \in Inode
    BY Facts
  <2>3. call[u].pc = "resize" => call[u].parent # i
    <3>1. SUFFICES ASSUME call[u].pc = "resize" PROVE call[u].parent # i
      OBVIOUS
    <3>2. Holding(call[u])
      BY <3>1 DEF Holding
    <3>3. inode_mtx[call[u].parent] = u
      BY <1>0, <3>2, Zenon DEF Locks
    <3>4. u # NoOne
      BY NoOneAssumption
    <3> QED BY <1>2, <3>3, <3>4, Zenon
  <2> QED BY <1>5, <2>2, <2>3, Zenon DEF Resizing
<1>7. Sizes(Dirs, LiveSet, blocks')
  <2>1. SUFFICES ASSUME NEW j \in LiveSet
        PROVE  /\ Len(blocks'[j]) \in {0, 1, 2}
               /\ Len(blocks'[j]) # 2 => (blocks'[j] = <<>> <=> Dirs[j] = <<>>)
    BY Zenon DEF Sizes
  <2>2. CASE j = i
    <3>1. Len(<<b, Mixed>>) = 2
      OBVIOUS
    <3> QED BY <1>5, <2>2, <3>1, Zenon
  <2>3. CASE j # i
    BY <1>0, <1>5, <2>3, Zenon DEF Sizes, LiveSet
  <2> QED BY <2>2, <2>3
<1>8. TypeOK'
  <2>1. <<b, Mixed>> \in Seq(Block \union {Mixed})
    <3>1. b \in Block \union {Mixed} /\ Mixed \in Block \union {Mixed}
      BY DataBlockAssumption DEF Block
    <3> QED BY <3>1
  <2>2. blocks' \in [Inode -> Seq(Block \union {Mixed})]
    BY <1>0, <1>1, <2>1, Zenon DEF TypeOK
  <2> QED BY <1>0, <1>2, <1>3, <2>2, Zenon DEF TypeOK
<1>9. \A u \in Thread : Form(call[u]) /\ Reads(call[u], Dirs)
  BY DEF IInv
<1> QED BY <1>0, <1>2, <1>3, <1>4, <1>6, <1>7, <1>8, <1>9, Zenon DEF IInv

\* Every step keeps the inductive invariant.
LEMMA NextIInv == HasLeast /\ IInv /\ [Next]_vars => IInv'
<1> SUFFICES ASSUME HasLeast, IInv, [Next]_vars PROVE IInv'
  OBVIOUS
<1>1. CASE Next
  <2>1. /\ BlocksHaveOneUse /\ \A t \in Thread : ~Misread(t)
        /\ record_refused
        /\ (\E t \in Thread : Step(t)) \/ (\E i \in Inode : allocate_block(i))
    BY <1>1, Zenon DEF Next
  <2>2. ASSUME NEW t \in Thread, Step(t) PROVE IInv'
    <3>1. ~Misread(t)
      BY <2>1
    <3> QED
      BY <2>1, <2>2, <3>1, request_IInv, mknode_lock_IInv, unlink_lock_IInv,
         alloc_read_IInv, alloc_inode_IInv, lock_child_IInv, remove_file_IInv,
         free_read_IInv, free_block_IInv, write_file_IInv, resize_read_IInv,
         resize_write_IInv, ZenonT(30) DEF Step
  <2>3. ASSUME NEW i \in Inode, allocate_block(i) PROVE IInv'
    BY <2>1, <2>3, allocate_block_IInv
  <2> QED BY <2>1, <2>2, <2>3
<1>2. CASE UNCHANGED vars
  <2>1. /\ TypeOK' /\ Dirs' = Dirs /\ LiveSet' = LiveSet /\ blocks' = blocks
        /\ call' = call /\ inode_mtx' = inode_mtx /\ refused' = refused
    BY <1>2, Zenon DEF vars, IInv, TypeOK, Dirs, LiveSet, readdir, Live
  <2> QED BY <2>1, Zenon DEF IInv
<1> QED BY <1>1, <1>2

\* The names that a step takes from directory p, and the unlinks it carries out.
LosesOnlyUnlinked(p) ==
    Live(p) /\ Live(p)' =>
        \A e \in Entries(p) \ Entries(p)' :
            \E t \in Thread : Unlinking(t, p, e.id) /\ call'[t] = NoCall

\* What a handler writes lacks no entry of the directory but the one that it
\* unlinks.
LEMMA WrittenKeeps ==
    ASSUME HasLeast, NEW c, NEW D \in [Inode -> Seq(Entry)], Form(c), Reads(c, D), Written(c),
           c.parent \in Inode, NEW m \in DOMAIN D[c.parent],
           \A j \in DOMAIN c.entries : c.entries[j] # D[c.parent][m]
    PROVE  c.op = "unlink" /\ D[c.parent][m].id = c.id
<1> DEFINE s == D[c.parent]
<1>1. s \in Seq(Entry) /\ c.id \in Inode /\ c.op \in {"mknode", "unlink"}
      /\ c.name \in Name /\ Holding(c)
  BY Zenon DEF Form, Written, Holding
<1> HIDE DEF s
<1>2. CASE c.op = "mknode"
  <2>1. c.entries = With(s, c.name, c.id)
    BY <1>1, <1>2, Zenon DEF Reads, s
  <2>2. DOMAIN c.entries = 1 .. Len(s) + 1 /\ DOMAIN s = 1 .. Len(s)
        /\ Len(s) \in Nat /\ \A j \in DOMAIN s : c.entries[j] = s[j]
    <3>1. DOMAIN With(s, c.name, c.id) = 1 .. Len(s) + 1 /\ DOMAIN s = 1 .. Len(s)
          /\ Len(s) \in Nat
      BY <1>1, WithAdds, SMTT(30)
    <3>2. \A j \in DOMAIN s : With(s, c.name, c.id)[j] = s[j]
      BY <1>1, WithKeeps, Zenon
    <3> QED BY <2>1, <3>1, <3>2, Zenon
  <2>3. m \in DOMAIN s /\ \A j \in DOMAIN c.entries : c.entries[j] # s[m]
    BY DEF s
  <2>4. m \in DOMAIN c.entries
    BY <2>2, <2>3, SMTT(30)
  <2> QED BY <2>2, <2>3, <2>4
<1>3. CASE c.op = "unlink"
  <2>1. c.entries = Without(s, c.id) /\ c.id \in Ids(s)
    BY <1>1, <1>3, Zenon DEF Reads, s
  <2>2. PICK pos \in DOMAIN s :
             /\ s[pos].id = c.id
             /\ Without(s, c.id) \in Seq(Entry)
             /\ DOMAIN Without(s, c.id) = 1 .. Len(s) - 1
             /\ \A j \in DOMAIN Without(s, c.id) :
                   /\ (IF j < pos THEN j ELSE j + 1) \in DOMAIN s
                   /\ Without(s, c.id)[j] = s[IF j < pos THEN j ELSE j + 1]
             /\ DOMAIN s = 1 .. Len(s) /\ Len(s) \in Nat
    BY <1>1, <2>1, WithoutRemoves, Zenon
  <2>3. m \in DOMAIN s /\ \A j \in DOMAIN c.entries : c.entries[j] # s[m]
    BY DEF s
  <2>4. m = pos
    <3>1. SUFFICES ASSUME m # pos PROVE FALSE
      OBVIOUS
    <3>2. CASE m < pos
      <4>1. m \in DOMAIN Without(s, c.id)
        BY <2>2, <2>3, <3>2, SMTT(30)
      <4>2. Without(s, c.id)[m] = s[m]
        BY <2>2, <3>2, <4>1, Zenon
      <4> QED BY <2>1, <2>3, <4>1, <4>2, Zenon
    <3>3. CASE m > pos
      <4>1. m - 1 \in DOMAIN Without(s, c.id) /\ ~(m - 1 < pos) /\ (m - 1) + 1 = m
        BY <2>2, <2>3, <3>3, SMTT(30)
      <4>2. Without(s, c.id)[m - 1] = s[m]
        BY <2>2, <4>1, Zenon
      <4> QED BY <2>1, <2>3, <4>1, <4>2, Zenon
    <3>4. m < pos \/ m > pos
      BY <2>2, <2>3, <3>1, SMTT(30)
    <3> QED BY <3>2, <3>3, <3>4, Zenon
  <2>5. s[m].id = c.id
    BY <2>2, <2>4
  <2> QED BY <1>3, <2>5 DEF s
<1> QED BY <1>1, <1>2, <1>3, Zenon

\* A directory that is written loses the name of an unlink at most.
LEMMA StoreLoses ==
    ASSUME HasLeast, IInv, NEW t \in Thread,
           dir' = [dir EXCEPT ![call[t].parent] = call[t].entries],
           return(t), Written(call[t]), Live(call[t].parent), NEW q \in Inode
    PROVE  LosesOnlyUnlinked(q)
<1> DEFINE p == call[t].parent
<1>0. /\ TypeOK /\ Form(call[t]) /\ Reads(call[t], Dirs) /\ p \in Inode
      /\ Dirs \in [Inode -> Seq(Entry)] /\ call \in [Thread -> Call]
  BY Facts
<1>1. Dirs[p] = dir[p]
  BY <1>0, Types, Zenon
<1>2. dir'[p] = call[t].entries /\ \A j \in Inode : j # p => dir'[j] = dir[j]
  BY <1>0 DEF TypeOK
<1>3. call'[t] = NoCall
  BY <1>0, Zenon DEF return
<1>4. CASE q # p
  BY <1>2, <1>4, ZenonT(30) DEF LosesOnlyUnlinked, Entries
<1>5. CASE q = p
  <2>1. SUFFICES ASSUME NEW k \in DOMAIN dir[p],
                        \A j \in DOMAIN call[t].entries : call[t].entries[j] # dir[p][k]
                 PROVE  Unlinking(t, p, dir[p][k].id)
    <3>1. dir'[q] = call[t].entries /\ dir[q] = dir[p]
      BY <1>2, <1>5
    <3>2. SUFFICES ASSUME NEW e \in Entries(q), e \notin Entries(q)'
                   PROVE  Unlinking(t, q, e.id)
      BY <1>3, Zenon DEF LosesOnlyUnlinked
    <3>3. PICK k \in DOMAIN dir[q] : e = dir[q][k]
      BY Zenon DEF Entries
    <3>4. \A j \in DOMAIN dir'[q] : dir'[q][j] # e
      BY <3>2, ZenonT(30) DEF Entries
    <3>5. Unlinking(t, p, dir[p][k].id)
      BY <2>1, <3>1, <3>3, <3>4
    <3> QED BY <1>5, <3>1, <3>3, <3>5, Zenon
  <2>2. call[t].op = "unlink" /\ Dirs[p][k].id = call[t].id
    <3>1. k \in DOMAIN Dirs[p]
          /\ \A j \in DOMAIN call[t].entries : call[t].entries[j] # Dirs[p][k]
      BY <1>1, <2>1
    <3> QED BY <1>0, <3>1, WrittenKeeps, ZenonT(30)
  <2> QED BY <1>1, <2>2, Zenon DEF Unlinking
<1> QED BY <1>4, <1>5, Zenon

\* A directory that is not written loses nothing.
LEMMA SameDirLoses ==
    ASSUME NEW q \in Inode, dir'[q] = dir[q]
    PROVE  LosesOnlyUnlinked(q)
BY Zenon DEF LosesOnlyUnlinked, Entries

\* No step of a handler loses a name that it does not unlink.
LEMMA StepLoses ==
    ASSUME HasLeast, IInv, NEW t \in Thread, Step(t), NEW q \in Inode
    PROVE  LosesOnlyUnlinked(q)
<1>1. CASE UNCHANGED dir
  BY <1>1, SameDirLoses, Zenon
<1>2. CASE alloc_inode(t) /\ FreeInodes # {}
  <2> DEFINE id == find_first_free(FreeInodes)
  <2>1. id \in FreeInodes
    <3>1. FreeInodes \in SUBSET Nat
      BY DEF FreeInodes, Inode
    <3> QED BY <1>2, <3>1, FirstFree, Zenon
  <2>2. dir' = [dir EXCEPT ![id] = <<>>]
    BY <1>2, Zenon DEF alloc_inode
  <2>3. id \in Inode /\ ~Live(id)
    BY <2>1 DEF FreeInodes
  <2> HIDE DEF id
  <2>4. CASE q = id
    BY <2>3, <2>4, Zenon DEF LosesOnlyUnlinked
  <2>5. CASE q # id
    <3>1. dir'[q] = dir[q]
      BY <2>2, <2>5, Facts DEF TypeOK
    <3> QED BY <3>1, SameDirLoses, ZenonT(30)
  <2> QED BY <2>4, <2>5
<1>3. CASE write_file(t) /\ Live(call[t].parent)
  <2>1. store(t, blocks[call[t].parent]) /\ call[t].pc = "write"
    BY <1>3, Zenon DEF write_file
  <2>2. Written(call[t])
    BY <2>1 DEF Written
  <2>3. dir' = [dir EXCEPT ![call[t].parent] = call[t].entries] /\ return(t)
    BY <2>1, Zenon DEF store
  <2> QED BY <1>3, <2>2, <2>3, StoreLoses, Zenon
<1>4. CASE resize_write(t)
  <2>1. call[t].pc = "resize" /\ \E bs : store(t, bs)
    BY <1>4, Zenon DEF resize_write
  <2>2. Written(call[t])
    BY <2>1 DEF Written
  <2>3. dir' = [dir EXCEPT ![call[t].parent] = call[t].entries] /\ return(t)
    BY <2>1, Zenon DEF store
  <2>4. Live(call[t].parent)
    BY <2>1, Facts, Zenon DEF Resizing, LiveSet
  <2> QED BY <2>2, <2>3, <2>4, StoreLoses, Zenon
<1>5. \/ UNCHANGED dir \/ (alloc_inode(t) /\ FreeInodes # {})
      \/ (write_file(t) /\ Live(call[t].parent)) \/ resize_write(t)
  <2>1. request(t) \/ lock_child(t) \/ alloc_read(t) \/ free_read(t)
        \/ mknode_lock(t) \/ unlink_lock(t) \/ resize_read(t) => UNCHANGED dir
    BY Zenon DEF request, lock_child, alloc_read, free_read, mknode_lock,
         unlink_lock, resize_read, disk
  <2>2. remove_file(t) \/ free_block(t) => UNCHANGED dir
    BY Zenon DEF remove_file, free_block
  <2>3. alloc_inode(t) /\ FreeInodes = {} => UNCHANGED dir
    BY Zenon DEF alloc_inode
  <2>4. write_file(t) /\ ~Live(call[t].parent) => UNCHANGED dir
    BY Zenon DEF write_file, disk
  <2> QED BY <2>1, <2>2, <2>3, <2>4, Zenon DEF Step
<1> QED BY <1>1, <1>2, <1>3, <1>4, <1>5, Zenon

-----------------------------------------------------------------------------
\* The theorems

\* A set of natural numbers has a least element.
LEMMA LeastNumber == HasLeast
<1>1. SUFFICES ASSUME NEW S \in SUBSET Nat, S # {}
               PROVE  \E x \in S : \A y \in S : x <= y
  BY DEF HasLeast
<1>2. PICK x \in S : \A y \in S : ~(<<y, x>> \in OpToRel(<, Nat))
  BY <1>1, NatLessThanWellFounded, WFMin
<1>3. \A y \in S : x <= y
  <2>1. SUFFICES ASSUME NEW y \in S PROVE x <= y
    OBVIOUS
  <2>2. <<y, x>> \notin {ss \in Nat \X Nat : ss[1] < ss[2]}
    BY <1>2 DEF OpToRel
  <2> QED BY <2>2
<1> QED BY <1>3

\* The inductive invariant holds in every reachable state.
LEMMA IInvHolds == Spec => []IInv
BY InitIInv, NextIInv, LeastNumber, PTL DEF Spec

-----------------------------------------------------------------------------
\* The theorems

\* The handlers never put an entry, a block or an inode number out of range on
\* the disk.
THEOREM NamespaceTypes == Spec => []TypeOK
<1>1. IInv => TypeOK
  BY DEF IInv
<1> QED BY <1>1, IInvHolds, PTL

\* mknode looks the name up and adds it under the lock of the directory: no two
\* entries of a directory have the same name.
THEOREM UniqueNamesTheorem == Spec => []NamesAreUnique
<1>1. IInv => NamesAreUnique
  <2> SUFFICES ASSUME IInv PROVE NamesAreUnique
    OBVIOUS
  <2>1. TypeOK /\ UniqueNames(Dirs)
    BY Zenon DEF IInv, NameInv
  <2>2. \A p \in Inode : Live(p) => Dirs[p] = dir[p]
    BY <2>1, Types, Zenon
  <2> QED BY <2>1, <2>2, Zenon DEF UniqueNames, NamesAreUnique
<1> QED BY <1>1, IInvHolds, PTL

\* No inode has two names, although numbers are given out again while the unlink
\* that freed them is still on its way; only after an unlink that remove_file
\* refused half-way may the number it left be named twice.
THEOREM OneNameTheorem == Spec => []OneNamePerInode
<1>1. IInv => OneNamePerInode
  <2> SUFFICES ASSUME IInv PROVE OneNamePerInode
    OBVIOUS
  <2>1. TypeOK /\ OneName(Dirs, refused)
    BY Zenon DEF IInv, NameInv
  <2>2. \A p \in Inode : Live(p) => Dirs[p] = dir[p]
    BY <2>1, Types, Zenon
  <2>3. SUFFICES ASSUME NEW p \in {i \in Inode : Live(i)},
                        NEW q \in {i \in Inode : Live(i)},
                        NEW k \in DOMAIN dir[p], NEW l \in DOMAIN dir[q],
                        dir[p][k].id = dir[q][l].id
                 PROVE  (p = q /\ k = l) \/ dir[p][k].id \in refused
    BY Zenon DEF OneNamePerInode
  <2>4. p \in Inode /\ q \in Inode /\ Dirs[p] = dir[p] /\ Dirs[q] = dir[q]
    BY <2>2
  <2>5. k \in DOMAIN Dirs[p] /\ l \in DOMAIN Dirs[q]
        /\ Dirs[p][k].id = Dirs[q][l].id
    BY <2>3, <2>4
  <2>6. (p = q /\ k = l) \/ Dirs[p][k].id \in refused
    BY <2>1, <2>4, <2>5, Zenon DEF OneName
  <2> QED BY <2>4, <2>6
<1> QED BY <1>1, IInvHolds, PTL

\* A name stands for an inode that exists, except while the unlink that removes
\* both is on its way, or after an unlink that was refused half-way.
THEOREM NamesHaveInodesTheorem == Spec => []NamesHaveInodes
<1>1. IInv => NamesHaveInodes
  <2> SUFFICES ASSUME IInv PROVE NamesHaveInodes
    OBVIOUS
  <2>1. TypeOK /\ Named1(Dirs, LiveSet, call, refused)
    BY Zenon DEF IInv, NameInv
  <2>2. \A p \in Inode : Live(p) => Dirs[p] = dir[p]
    BY <2>1, Types, Zenon
  <2>3. SUFFICES ASSUME NEW p \in Inode, Live(p), NEW k \in DOMAIN dir[p]
                 PROVE  \/ Live(dir[p][k].id) \/ dir[p][k].id \in refused
                        \/ \E t \in Thread : Unlinking(t, p, dir[p][k].id)
    BY Zenon DEF NamesHaveInodes, Entries
  <2>4. Dirs[p] = dir[p] /\ k \in DOMAIN Dirs[p]
    BY <2>2, <2>3
  <2>5. \/ dir[p][k].id \in refused
        \/ \E u \in Thread : /\ Removed(call[u])
                             /\ call[u].parent = p /\ call[u].id = dir[p][k].id
        \/ dir[p][k].id \in LiveSet
    BY <2>1, <2>4, Zenon DEF Named1
  <2>6. dir[p][k].id \in LiveSet => Live(dir[p][k].id)
    BY Zenon DEF LiveSet
  <2> QED BY <2>5, <2>6, Zenon DEF Removed, Unlinking
<1> QED BY <1>1, IInvHolds, PTL

\* A handler that another one waits for holds its parent, or its child as well.
LEMMA WaitsForHolder ==
    ASSUME IInv, NEW t \in Thread, NEW u \in Thread, Waits(t, u)
    PROVE  Holding(call[u])
<1>0. Locks(inode_mtx, call) /\ call[t].parent \in Inode /\ Form(call[t])
  BY Facts
<1>1. CASE call[t].pc = "lockParent" /\ inode_mtx[call[t].parent] = u
  BY <1>0, <1>1, Zenon DEF Locks
<1>2. CASE call[t].pc = "lockChild" /\ inode_mtx[call[t].id] = u
  <2>1. call[t].id \in Inode
    BY <1>0, <1>2 DEF Form
  <2> QED BY <1>0, <1>2, <2>1, Zenon DEF Locks
<1> QED BY <1>1, <1>2, Zenon DEF Waits

\* Two handlers that wait for each other both wait for a child, which is the
\* directory the other one holds.
LEMMA WaitsBoth ==
    ASSUME IInv, NEW t \in Thread, NEW u \in Thread, Waits(t, u), Waits(u, t)
    PROVE  /\ call[t].pc = "lockChild" /\ call[t].id \in Inode
           /\ call[t].id = call[u].parent
<1>1. Holding(call[t]) /\ Holding(call[u])
  BY WaitsForHolder, Zenon
<1>2. /\ call[t].pc = "lockChild" /\ inode_mtx[call[t].id] = u
      /\ call[u].pc = "lockChild"
  BY <1>1 DEF Waits, Holding
<1>3. Locks(inode_mtx, call) /\ Form(call[t])
  BY Facts
<1>4. call[t].id \in Inode
  BY <1>2, <1>3 DEF Form
<1>5. ~WithChild(call[u])
  BY <1>2 DEF WithChild
<1> QED BY <1>2, <1>3, <1>4, <1>5, Zenon DEF Locks

\* The handlers lock a directory before its entry, and no two directories name
\* each other: two handlers wait for each other, or one for itself, only when a
\* mknode has been given the number of a directory that one of them still holds.
THEOREM CyclesTheorem == Spec => []CyclesNeedReuse
<1>1. IInv => CyclesNeedReuse
  <2> SUFFICES ASSUME IInv, NEW t \in Thread, NEW u \in Thread,
                      Waits(t, u), Waits(u, t)
               PROVE  \E v, w \in {t, u} :
                         /\ call[v].op = "mknode" /\ call[v].pc = "lockChild"
                         /\ call[v].id = call[w].parent
    BY Zenon DEF CyclesNeedReuse
  <2>1. /\ call[t].pc = "lockChild" /\ call[t].id = call[u].parent
        /\ call[u].pc = "lockChild" /\ call[u].id = call[t].parent
    BY WaitsBoth, Zenon
  <2>2. CASE call[t].op = "mknode"
    BY <2>1, <2>2, Zenon
  <2>3. CASE call[u].op = "mknode"
    BY <2>1, <2>3, Zenon
  <2>4. CASE call[t].op # "mknode" /\ call[u].op # "mknode"
    <3>1. /\ Form(call[t]) /\ Form(call[u])
          /\ Reads(call[t], Dirs) /\ Reads(call[u], Dirs)
          /\ call[t].parent \in Inode /\ call[u].parent \in Inode
          /\ NoCycles(Dirs)
      BY Facts, Zenon DEF NameInv
    <3>2. call[t].op = "unlink" /\ call[u].op = "unlink"
          /\ Holding(call[t]) /\ Holding(call[u])
      BY <2>1, <2>4, <3>1 DEF Form, Holding
    <3>3. /\ call[t].id \in Ids(Dirs[call[t].parent])
          /\ call[u].id \in Ids(Dirs[call[u].parent])
      BY <3>1, <3>2, Zenon DEF Reads
    <3>4. /\ call[u].parent \in Ids(Dirs[call[t].parent])
          /\ call[t].parent \in Ids(Dirs[call[u].parent])
      BY <2>1, <3>3
    <3> QED BY <3>1, <3>4, Zenon DEF NoCycles
  <2> QED BY <2>2, <2>3, <2>4
<1> QED BY <1>1, IInvHolds, PTL

\* A name leaves a directory only when an unlink of it is carried out: a handler
\* holds the directory from the read to the write, so that handlers in the same
\* directory lose none of each other's entries.
THEOREM UnlinkTheorem == Spec => OnlyUnlinkRemovesNames
<1>1. IInv /\ [Next]_vars =>
        [\A p \in Inode : Live(p) /\ Live(p)' =>
          \A e \in Entries(p) \ Entries(p)' :
              \E t \in Thread : Unlinking(t, p, e.id) /\ call'[t] = NoCall]_vars
  <2> SUFFICES ASSUME IInv, [Next]_vars, NEW p \in Inode, ~UNCHANGED vars
               PROVE  LosesOnlyUnlinked(p)
    BY Zenon DEF LosesOnlyUnlinked
  <2>1. (\E t \in Thread : Step(t)) \/ (\E i \in Inode : allocate_block(i))
    BY Zenon DEF Next
  <2>2. CASE \E t \in Thread : Step(t)
    BY <2>2, StepLoses, LeastNumber, Zenon
  <2>3. CASE \E i \in Inode : allocate_block(i)
    <3>1. UNCHANGED dir
      BY <2>3, Zenon DEF allocate_block
    <3> QED BY <3>1, SameDirLoses, Zenon
  <2> QED BY <2>1, <2>2, <2>3
<1> QED BY <1>1, IInvHolds, PTL DEF Spec, OnlyUnlinkRemovesNames

============================================================================
