----------------------------- MODULE Namespace -----------------------------
(***************************************************************************)
(* The names of the distributed file system: mknode and unlink of the      *)
(* metadata server (src/chfs/src/distributed/metadata_server.cc) with what *)
(* they do to the inode table and to the block bitmap of its disk.         *)
(*                                                                         *)
(* Four RPC threads run the handlers.  A handler holds inode_mtx of the    *)
(* parent directory from beginning to end and inode_mtx of the child from  *)
(* its allocation or lookup on; fs_mtx is held in alloc_inode and in       *)
(* remove_file, but not in write_file, which allocates and frees blocks of *)
(* the directory as well.  The allocator reads the bitmap block, changes   *)
(* its copy and writes it back: two steps here.                            *)
(*                                                                         *)
(* A directory fits in one block, a file has at most one.  blocks[] of a   *)
(* directory names a block of this disk; blocks[] of a file names a block  *)
(* of a data server and, in the next word, that server and the version,    *)
(* which is no block number at all.  lookup, readdir and get_type_attr     *)
(* change nothing and are left out, and so is the commit log.              *)
(***************************************************************************)
EXTENDS Integers, Sequences

CONSTANTS
    Thread, Name,
    MaxInode,    \* inodes 1 .. MaxInode, 1 is the root directory
    MaxBlock,    \* blocks 1 .. MaxBlock of the metadata server
    Reserved,    \* the blocks up to this one hold the table and the bitmaps
    DataBlock,   \* the block numbers the data servers give out
    NoOne        \* the holder of a mutex that is free

ASSUME SizeAssumption ==
    /\ MaxInode \in Nat \ {0}
    /\ Reserved \in Nat /\ MaxBlock \in Nat /\ Reserved < MaxBlock
ASSUME DataBlockAssumption == DataBlock \subseteq 1 .. MaxBlock
ASSUME NoOneAssumption == NoOne \notin Thread

VARIABLES
    bitmap,      \* the blocks marked as used
    table,       \* the block of every inode
    type,        \* what the block of an inode says: its type, ...
    blocks,      \* ... its blocks[] ...
    dir,         \* ... and the entries in its data block
    inode_mtx, fs_mtx,
    call,        \* the handler every thread is in
    refused      \* history: the inodes whose unlink was refused half-way

vars == <<bitmap, table, type, blocks, dir, inode_mtx, fs_mtx, call, refused>>
disk == <<bitmap, table, type, blocks, dir>>

Inode == 1 .. MaxInode

BadBlock == 1 .. MaxBlock + 1

\* The block numbers the bitmap search is bounded by.
Block == 1 .. MaxBlock

KInvalidBlockID == 0
Mixed == MaxBlock + 1      \* (mac_id << 32) + version
InodeType == {"FILE", "Directory"}

\* entries: the directory as the handler has read it or is going to write it;
\* bits: its copy of the bitmap; todo: the blocks remove_file has left to free.
NoCall == [pc |-> "idle", op |-> "none", parent |-> 1, name |-> NoOne,
           type |-> "FILE", entries |-> <<>>, id |-> 0, bits |-> {},
           todo |-> <<>>]

\* A new file system: the root directory has the first free block.
Init ==
    /\ bitmap = 1 .. Reserved + 1
    /\ table = [i \in Inode |-> IF i = 1 THEN Reserved + 1 ELSE KInvalidBlockID]
    /\ type = [i \in Inode |-> "Directory"]
    /\ blocks = [i \in Inode |-> <<>>]
    /\ dir = [i \in Inode |-> <<>>]
    /\ inode_mtx = [i \in Inode |-> NoOne]
    /\ fs_mtx = NoOne
    /\ call = [t \in Thread |-> NoCall]
    /\ refused = {}

-----------------------------------------------------------------------------
\* Inode manager, block allocator and directories

Live(i) == table[i] # KInvalidBlockID

\* The inode bitmap has a bit for every inode with an entry in the table.
FreeInodes == {i \in Inode : ~Live(i)}

free_inode(id) == table' = [table EXCEPT ![id] = KInvalidBlockID]

find_first_free(S) == CHOOSE x \in S : \A y \in S : x <= y

\* The content of a directory; an inode that is gone reads as an empty one.
readdir(i) == IF Live(i) THEN dir[i] ELSE <<>>

\* The first of the positions in S, 0 if there is none.
First(S) == IF S = {} THEN 0 ELSE find_first_free(S)

Named(entries, name) == First({k \in DOMAIN entries : entries[k].name = name})

With(entries, name, id) == Append(entries, [name |-> name, id |-> id])

BadWithout(entries, id) == Tail(entries)

Without(entries, id) ==
    LET pos == First({k \in DOMAIN entries : entries[k].id = id})
    IN  SubSeq(entries, 1, pos - 1) \o SubSeq(entries, pos + 1, Len(entries))

BadReturn(t) ==
    /\ inode_mtx' = [inode_mtx EXCEPT ![call[t].parent] = NoOne]
    /\ call' = [call EXCEPT ![t] = NoCall]

\* The handler gives back what it holds and answers.
return(t) ==
    /\ inode_mtx' = [i \in Inode |->
          IF inode_mtx[i] = t THEN NoOne ELSE inode_mtx[i]]
    /\ call' = [call EXCEPT ![t] = NoCall]

-----------------------------------------------------------------------------
\* A client's request reaches a free thread.  The client has seen the directory,
\* which may be gone when the handler locks it.
request(t) ==
    /\ call[t].pc = "idle"
    /\ \E op \in {"mknode", "unlink"}, p \in Inode, n \in Name, ty \in InodeType :
          /\ Live(p) /\ type[p] = "Directory"
          /\ op = "unlink" => ty = "FILE"
          /\ call' = [call EXCEPT ![t] =
                [NoCall EXCEPT !.pc = "lockParent", !.op = op, !.parent = p,
                               !.name = n, !.type = ty]]
    /\ UNCHANGED <<disk, inode_mtx, fs_mtx>>

BadMknodeNoCheck(t) ==
    LET p == call[t].parent
    IN  /\ call[t].pc = "lockParent" /\ call[t].op = "mknode"
        /\ inode_mtx[p] = NoOne
        /\ inode_mtx' = [inode_mtx EXCEPT ![p] = t]
        /\ call' = [call EXCEPT ![t].pc = "alloc", ![t].entries = readdir(p)]
        /\ UNCHANGED <<disk, fs_mtx>>

BadMknodeNoLock(t) ==
    LET p == call[t].parent
    IN  /\ call[t].pc = "lockParent" /\ call[t].op = "mknode"
        /\ IF Named(readdir(p), call[t].name) # 0
           THEN return(t)
           ELSE /\ call' = [call EXCEPT ![t].pc = "alloc",
                                        ![t].entries = readdir(p)]
                /\ UNCHANGED inode_mtx
        /\ UNCHANGED <<disk, fs_mtx>>

\* mknode, to the answer that the name exists.
mknode_lock(t) ==
    LET p == call[t].parent
    IN  /\ call[t].pc = "lockParent" /\ call[t].op = "mknode"
        /\ inode_mtx[p] = NoOne
        /\ IF Named(readdir(p), call[t].name) # 0
           THEN return(t)
           ELSE /\ inode_mtx' = [inode_mtx EXCEPT ![p] = t]
                /\ call' = [call EXCEPT ![t].pc = "alloc",
                                        ![t].entries = readdir(p)]
        /\ UNCHANGED <<disk, fs_mtx>>

\* unlink, to the answer that there is no such name.
unlink_lock(t) ==
    LET p == call[t].parent
        pos == Named(readdir(p), call[t].name)
    IN  /\ call[t].pc = "lockParent" /\ call[t].op = "unlink"
        /\ inode_mtx[p] = NoOne
        /\ IF pos = 0
           THEN return(t)
           ELSE /\ inode_mtx' = [inode_mtx EXCEPT ![p] = t]
                /\ call' = [call EXCEPT ![t].pc = "lockChild",
                                        ![t].entries = readdir(p),
                                        ![t].id = readdir(p)[pos].id]
        /\ UNCHANGED <<disk, fs_mtx>>

\* alloc_inode under fs_mtx: the allocator reads the bitmap, ...
alloc_read(t) ==
    /\ call[t].pc = "alloc"
    /\ fs_mtx = NoOne
    /\ IF Block \subseteq bitmap
       THEN return(t) /\ UNCHANGED fs_mtx
       ELSE /\ fs_mtx' = t
            /\ call' = [call EXCEPT ![t].pc = "allocInode", ![t].bits = bitmap]
            /\ UNCHANGED inode_mtx
    /\ UNCHANGED disk

\* ... writes it back, the first free inode takes the block, and its block is
\* initialised.  Without a free inode the block stays marked.
alloc_inode(t) ==
    LET b == find_first_free(Block \ call[t].bits)
        id == find_first_free(FreeInodes)
    IN  /\ call[t].pc = "allocInode"
        /\ bitmap' = call[t].bits \union {b}
        /\ fs_mtx' = NoOne
        /\ IF FreeInodes = {}
           THEN return(t) /\ UNCHANGED <<table, type, blocks, dir>>
           ELSE /\ table' = [table EXCEPT ![id] = b]
                /\ type' = [type EXCEPT ![id] = call[t].type]
                /\ blocks' = [blocks EXCEPT ![id] = <<>>]
                /\ dir' = [dir EXCEPT ![id] = <<>>]
                /\ call' = [call EXCEPT ![t].pc = "lockChild", ![t].id = id,
                                        ![t].bits = {}]
                /\ UNCHANGED inode_mtx

BadLockChild(t) ==
    /\ call[t].pc = "lockChild"
    /\ call' =
          IF call[t].op = "mknode"
          THEN [call EXCEPT ![t].pc = "write",
                            ![t].entries = With(@, call[t].name, call[t].id)]
          ELSE [call EXCEPT ![t].pc = "remove"]
    /\ UNCHANGED <<disk, inode_mtx, fs_mtx>>

\* inode_mtx of the new inode, or of the one to remove.
lock_child(t) ==
    LET id == call[t].id
    IN  /\ call[t].pc = "lockChild"
        /\ inode_mtx[id] = NoOne
        /\ inode_mtx' = [inode_mtx EXCEPT ![id] = t]
        /\ call' =
              IF call[t].op = "mknode"
              THEN [call EXCEPT ![t].pc = "write",
                                ![t].entries = With(@, call[t].name, id)]
              ELSE [call EXCEPT ![t].pc = "remove"]
        /\ UNCHANGED <<disk, fs_mtx>>

\* remove_file under fs_mtx frees the inode, ...
remove_file(t) ==
    LET id == call[t].id
    IN  /\ call[t].pc = "remove"
        /\ fs_mtx = NoOne
        /\ IF ~Live(id)
           THEN return(t) /\ UNCHANGED <<table, fs_mtx>>
           ELSE /\ fs_mtx' = t
                /\ free_inode(id)
                /\ call' = [call EXCEPT ![t].pc = "free",
                                        ![t].todo = Append(blocks[id], table[id])]
                /\ UNCHANGED inode_mtx
        /\ UNCHANGED <<bitmap, type, blocks, dir>>

\* ... then its blocks, one after the other: deallocate reads the bitmap and
\* refuses what is no block in use, which ends the whole request ...
free_read(t) ==
    LET b == Head(call[t].todo)
    IN  /\ call[t].pc = "free"
        /\ IF b \notin Block \/ b \notin bitmap
           THEN return(t) /\ fs_mtx' = NoOne
           ELSE /\ call' = [call EXCEPT ![t].pc = "freeBlock",
                                        ![t].bits = bitmap]
                /\ UNCHANGED <<inode_mtx, fs_mtx>>
        /\ UNCHANGED disk

\* ... and writes it back.
free_block(t) ==
    LET c == call[t]
        last == Len(c.todo) = 1
    IN  /\ c.pc = "freeBlock"
        /\ bitmap' = c.bits \ {Head(c.todo)}
        /\ fs_mtx' = IF last THEN NoOne ELSE fs_mtx
        /\ call' = [call EXCEPT ![t].pc = IF last THEN "write" ELSE "free",
                                ![t].bits = {}, ![t].todo = Tail(@),
                                ![t].entries = IF last THEN Without(@, c.id) ELSE @]
        /\ UNCHANGED <<table, type, blocks, dir, inode_mtx>>

-----------------------------------------------------------------------------
\* write_file of the new content of the parent directory, without fs_mtx

\* Content and inode are written and the handler answers.
store(t, bs) ==
    LET p == call[t].parent
    IN  /\ dir' = [dir EXCEPT ![p] = call[t].entries]
        /\ blocks' = [blocks EXCEPT ![p] = bs]
        /\ return(t)
        /\ UNCHANGED <<table, type, fs_mtx>>

\* The directory keeps its number of blocks, or its inode is gone.
write_file(t) ==
    LET p == call[t].parent
    IN  /\ call[t].pc = "write"
        /\ ~Live(p) \/ (blocks[p] = <<>> <=> call[t].entries = <<>>)
        /\ IF Live(p)
           THEN store(t, blocks[p]) /\ UNCHANGED bitmap
           ELSE return(t) /\ UNCHANGED <<disk, fs_mtx>>

\* Its first entry needs a block, its last one leaves a block to free: the
\* allocator reads the bitmap (an error ends the request) ...
resize_read(t) ==
    LET p == call[t].parent
        grows == blocks[p] = <<>>
    IN  /\ call[t].pc = "write"
        /\ Live(p) /\ (grows <=> call[t].entries # <<>>)
        /\ IF IF grows THEN Block \subseteq bitmap ELSE blocks[p][1] \notin bitmap
           THEN return(t)
           ELSE /\ call' = [call EXCEPT ![t].pc = "resize", ![t].bits = bitmap]
                /\ UNCHANGED inode_mtx
        /\ UNCHANGED <<disk, fs_mtx>>

\* ... and writes it back.
resize_write(t) ==
    LET p == call[t].parent
        bits == call[t].bits
        b == find_first_free(Block \ bits)
    IN  /\ call[t].pc = "resize"
        /\ IF blocks[p] = <<>>
           THEN bitmap' = bits \union {b} /\ store(t, <<b>>)
           ELSE bitmap' = bits \ {blocks[p][1]} /\ store(t, <<>>)

\* allocate_block for a file: its inode names a block of a data server.
allocate_block(i) ==
    /\ Live(i) /\ type[i] = "FILE" /\ blocks[i] = <<>>
    /\ inode_mtx[i] = NoOne
    /\ \E b \in DataBlock : blocks' = [blocks EXCEPT ![i] = <<b, Mixed>>]
    /\ UNCHANGED <<bitmap, table, type, dir, inode_mtx, fs_mtx, call>>

-----------------------------------------------------------------------------
\* Every block in use, with what it is used for.
Held ==
    {<<table[i], i, "inode">> : i \in {j \in Inode : Live(j)}}
    \union {<<blocks[i][1], i, "data">> :
             i \in {j \in Inode : Live(j) /\ Len(blocks[j]) = 1}}

\* No block is used for two things, and none that is used is free for the next
\* allocation.  allocate and deallocate change the bitmap in two steps, and
\* write_file calls them without the lock that alloc_inode and remove_file take.
BlocksHaveOneUse ==
    /\ \A x, y \in Held : x[1] = y[1] => x = y
    /\ \A x \in Held : x[1] \in bitmap

\* The blocks before the data blocks are never given out: the inode table and
\* the bitmaps stay what they are (BlockAllocator's constructor).
ReservedStaysReserved == 1 .. Reserved \subseteq bitmap

Step(t) ==
    \/ request(t) \/ mknode_lock(t) \/ unlink_lock(t)
    \/ alloc_read(t) \/ alloc_inode(t) \/ lock_child(t)
    \/ remove_file(t) \/ free_read(t) \/ free_block(t)
    \/ write_file(t) \/ resize_read(t) \/ resize_write(t)

\* A file's data-server block read as a block of directory entries here.
Misread(t) ==
    /\ call[t].pc \notin {"idle", "lockParent"}
    /\ Live(call[t].parent) /\ Len(blocks[call[t].parent]) = 2

\* An unlink that free_read ends has freed the inode and leaves its name.
record_refused ==
    refused' = refused \union
        {call[t].id : t \in {u \in Thread :
                               call[u].pc = "free" /\ call'[u].pc = "idle"}}

\* When a block has two uses, or is read as what it is not, the disk holds one
\* thing where the handlers expect another: the model ends there.
Next ==
    /\ BlocksHaveOneUse /\ ReservedStaysReserved
    /\ \A t \in Thread : ~Misread(t)
    /\ (\E t \in Thread : Step(t)) \/ (\E i \in Inode : allocate_block(i))
    /\ record_refused

Spec == Init /\ [][Next]_vars

-----------------------------------------------------------------------------
Entry == [name : Name, id : Inode]
PC == {"idle", "lockParent", "alloc", "allocInode", "lockChild", "remove",
       "free", "freeBlock", "write", "resize"}

\* Types: the handlers never put an entry, a block or an inode number out of
\* range on the disk.
TypeOK ==
    /\ bitmap \subseteq Block
    /\ table \in [Inode -> 0 .. MaxBlock]
    /\ type \in [Inode -> InodeType]
    /\ blocks \in [Inode -> Seq(Block \union {Mixed})]
    /\ dir \in [Inode -> Seq(Entry)]
    /\ inode_mtx \in [Inode -> Thread \union {NoOne}]
    /\ fs_mtx \in Thread \union {NoOne}
    /\ call \in [Thread ->
          [pc : PC, op : {"none", "mknode", "unlink"}, parent : Inode,
           name : Name \union {NoOne}, type : InodeType, entries : Seq(Entry),
           id : 0 .. MaxInode, bits : SUBSET Block,
           todo : Seq(Block \union {Mixed})]]
    /\ refused \subseteq Inode

Entries(i) == {dir[i][k] : k \in DOMAIN dir[i]}
Unlinking(t, p, id) ==
    call[t].op = "unlink" /\ call[t].parent = p /\ call[t].id = id

\* A name in a directory stands for an inode that exists, except while an
\* unlink that holds both locks is on its way from remove_file to write_file.
\* Only an unlink that remove_file refuses half-way, for the block of a data
\* server or for a bit the allocators' race has cleared, leaves a name behind.
NamesHaveInodes ==
    \A p \in Inode : Live(p) =>
        \A e \in Entries(p) :
            \/ Live(e.id) \/ e.id \in refused
            \/ \E t \in Thread : Unlinking(t, p, e.id)

\* No inode has two names, in one directory or in two, although the numbers of
\* removed inodes are given out again before their names are removed: again
\* only the number of an inode whose unlink was refused half-way may have two.
OneNamePerInode ==
    \A p, q \in {i \in Inode : Live(i)} :
        \A k \in DOMAIN dir[p], l \in DOMAIN dir[q] :
            dir[p][k].id = dir[q][l].id =>
                (p = q /\ k = l) \/ dir[p][k].id \in refused

\* No two entries of a directory have the same name.
NamesAreUnique ==
    \A p \in Inode : Live(p) =>
        \A k, l \in DOMAIN dir[p] : dir[p][k].name = dir[p][l].name => k = l

\* A name leaves a directory only when an unlink of it is carried out: handlers
\* that work on the same directory lose none of each other's entries.
OnlyUnlinkRemovesNames ==
    [][\A p \in Inode : Live(p) /\ Live(p)' =>
          \A e \in Entries(p) \ Entries(p)' :
              \E t \in Thread : Unlinking(t, p, e.id) /\ call'[t] = NoCall]_vars

Waits(t, u) ==
    LET c == call[t]
    IN  \/ c.pc = "lockParent" /\ inode_mtx[c.parent] = u
        \/ c.pc = "lockChild" /\ inode_mtx[c.id] = u

\* Handlers lock a directory before its entry, so none waits for itself and no two
\* for each other, unless a mknode is given the number of a directory that was
\* removed while a handler waited for it and holds its mutex by now: then it waits
\* for that handler, which may be itself (metadata_server.cc:153).
CyclesNeedReuse ==
    \A t, u \in Thread : Waits(t, u) /\ Waits(u, t) =>
        \E v, w \in {t, u} :
            /\ call[v].op = "mknode" /\ call[v].pc = "lockChild"
            /\ call[v].id = call[w].parent
============================================================================
