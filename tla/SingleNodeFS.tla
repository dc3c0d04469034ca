---------------------------- MODULE SingleNodeFS ----------------------------
(***************************************************************************)
(* The single-node file system: the FUSE daemon                            *)
(* (src/chfs/daemons/single_node_fs/main.cc), which serves one call after  *)
(* the other, on FileOperation (src/chfs/src/filesystem), InodeManager,    *)
(* Inode and BlockAllocator, on a device in memory.                        *)
(*                                                                         *)
(* A block holds BlockUnits units: bytes of a file, or the entries of a    *)
(* directory, one unit each.  An inode has NDirect direct blocks and one   *)
(* indirect block for NIndirect more.  Blocks that hold the superblock,    *)
(* the bitmaps and the inode table are never given out and not modelled.   *)
(* The bit of an inode in its bitmap is set just when its entry in the     *)
(* inode table is.                                                         *)
(*                                                                         *)
(* The kernel is external: it names inodes that have a name, sends unlink  *)
(* for files only (for a directory it sends rmdir), and setattr, here, to  *)
(* set the size of a file only.                                            *)
(***************************************************************************)
EXTENDS Integers, FiniteSets, FiniteSetsExt, Sequences, SequencesExt, TLC

CONSTANTS
    NBlocks,        \* blocks 1 .. NBlocks can be allocated
    MaxInode,       \* max_inode_supported
    BlockUnits,     \* block_size
    NDirect,        \* nblocks - 1
    NIndirect,      \* block ids in an indirect block
    Name,
    Prefix, Number, \* what a name has before its first ':', and the number after
    Value, Zero,    \* what a unit of a file may hold; what new space holds
    MaxSize,        \* bound: offsets and sizes in calls
    BufLen          \* bound: units in a write

ASSUME SizeAssumption ==
    {NBlocks, MaxInode, BlockUnits, NDirect, NIndirect} \subseteq Nat \ {0}
ASSUME NameAssumption ==
    /\ Prefix \in [Name -> Name] /\ \A n \in Name : Prefix[Prefix[n]] = Prefix[n]
    /\ Number \in [Name -> Nat]
ASSUME CallAssumption == {MaxSize, BufLen} \subseteq Nat

VARIABLES
    disk,    \* the block bitmap, the inode table and the blocks
    reply,   \* the answer to the last call
    up       \* the daemon has not crashed

vars == <<disk, reply, up>>

Block == 1 .. NBlocks
Inode == 1 .. MaxInode
Root == 1
KInvalidBlockID == 0
NewBlock == <<>>

-----------------------------------------------------------------------------
\* BlockAllocator and InodeManager

Free(d) == Block \ d.bitmap

\* Mutant: the end of the bitmap is not an error.
allocate_unchecked(r) ==
    IF Free(r.disk) = {} THEN [r EXCEPT !.got = KInvalidBlockID]
    ELSE LET b == Min(Free(r.disk))
         IN [r EXCEPT !.disk.bitmap = @ \union {b}, !.got = b]

\* r is [disk, ok, ...]: a block is marked and given out as r.got.
allocate(r) ==
    IF Free(r.disk) = {} THEN [r EXCEPT !.ok = FALSE]
    ELSE LET b == Min(Free(r.disk))
         IN [r EXCEPT !.disk.bitmap = @ \union {b}, !.got = b]

\* What a free block holds is left out: it is written before it is read again.
deallocate(r, b) ==
    IF r.ok /\ b \in r.disk.bitmap
    THEN [r EXCEPT !.disk.bitmap = @ \ {b}, !.disk.block[b] = NewBlock]
    ELSE [r EXCEPT !.ok = FALSE]

\* An id with a table entry; the last two ids of the table are never readable.
read_inode(d, id) == id < MaxInode - 1 /\ d.table[id] # KInvalidBlockID

NewInode(type) ==
    [type |-> type, size |-> 0, indirect |-> KInvalidBlockID,
     blocks |-> [k \in 1 .. NDirect |-> KInvalidBlockID]]

\* A block and then an inode id are taken; without an id the block stays taken.
alloc_inode(d, type) ==
    LET r == allocate([disk |-> d, ok |-> TRUE, got |-> 0])
        ids == {i \in Inode : d.table[i] = KInvalidBlockID}
    IN  IF ~r.ok \/ ids = {} THEN [r EXCEPT !.ok = FALSE]
        ELSE [disk |-> [r.disk EXCEPT !.table[Min(ids)] = r.got,
                                      !.block[r.got] = NewInode(type)],
              ok |-> TRUE, got |-> Min(ids)]

-----------------------------------------------------------------------------
\* FileOperation

calculate_block_sz(sz) == (sz + BlockUnits - 1) \div BlockUnits

InodeOf(d, id) == d.block[d.table[id]]

\* The ids of the data blocks of an inode, those in the indirect block last.
DataBlocks(d, inode) ==
    LET n == calculate_block_sz(inode.size)
    IN [k \in 1 .. n |-> IF k <= NDirect THEN inode.blocks[k]
                         ELSE d.block[inode.indirect][k - NDirect]]

\* The content of a file: its blocks in order, cut at its size.
read_file(d, id) ==
    LET inode == InodeOf(d, id)
        ids == DataBlocks(d, inode)
    IN [k \in 1 .. inode.size |->
          d.block[ids[((k - 1) \div BlockUnits) + 1]][((k - 1) % BlockUnits) + 1]]

\* One more data block: r.ids are the data blocks of the file, r.ind its
\* indirect block, which is allocated after the first block that needs it.
grow(r, k) ==
    LET data == allocate(r)
        first == k > NDirect /\ r.ind = KInvalidBlockID
        ind == IF data.ok /\ first THEN allocate(data) ELSE data
    IN  IF ~r.ok THEN r
        ELSE [ind EXCEPT !.ids = Append(@, data.got), !.ind = IF first THEN ind.got ELSE @]

\* Mutant: the indirect block is freed while one block of it is in use.
shrink_early(r, n) ==
    LET freed == SubSeq(r.ids, n + 1, Len(r.ids))
        s == FoldLeft(deallocate, [r EXCEPT !.ids = SubSeq(r.ids, 1, n)], freed)
    IN  IF Len(r.ids) > NDirect /\ n <= NDirect + 1
        THEN deallocate(s, r.ind) ELSE s

\* Mutant: the indirect block is forgotten but not freed.
shrink_leaks(r, n) ==
    LET freed == SubSeq(r.ids, n + 1, Len(r.ids))
        s == FoldLeft(deallocate, [r EXCEPT !.ids = SubSeq(r.ids, 1, n)], freed)
    IN  IF Len(r.ids) > NDirect /\ n <= NDirect
        THEN [s EXCEPT !.ind = KInvalidBlockID] ELSE s

\* The blocks after the first n are freed, and the indirect block if it is empty.
shrink(r, n) ==
    LET freed == SubSeq(r.ids, n + 1, Len(r.ids))
        s == FoldLeft(deallocate, [r EXCEPT !.ids = SubSeq(r.ids, 1, n)], freed)
    IN  IF Len(r.ids) > NDirect /\ n <= NDirect
        THEN [deallocate(s, r.ind) EXCEPT !.ind = KInvalidBlockID] ELSE s

\* Unit k of a block that holds the units of c from offset off on, zero-filled.
Chunk(c, off) ==
    [k \in 1 .. BlockUnits |-> IF off + k <= Len(c) THEN c[off + k] ELSE Zero]

\* The content is written to the blocks, then the inode, then the indirect block.
\* Entries of the indirect block past the end of the file are never read.
save(r, id, c) ==
    LET n == Len(r.ids)
        inode == [InodeOf(r.disk, id) EXCEPT !.size = Len(c), !.indirect = r.ind,
                     !.blocks = [k \in 1 .. NDirect |->
                                   IF k <= n THEN r.ids[k] ELSE KInvalidBlockID]]
        data == [b \in ToSet(r.ids) |->
                   Chunk(c, BlockUnits * ((CHOOSE k \in 1 .. n : r.ids[k] = b) - 1))]
        indirect == IF n > NDirect THEN r.ind :> SubSeq(r.ids, NDirect + 1, n) ELSE <<>>
    IN  [r.disk EXCEPT !.block = indirect @@ (r.disk.table[id] :> inode) @@ data @@ @]

max_file_sz_supported == (NDirect + NIndirect) * BlockUnits

\* FileOperation::write_file. When blocks run out, what was allocated stays
\* marked in the bitmap and nothing else is written.
write_file(d, id, c) ==
    LET inode == InodeOf(d, id)
        n == calculate_block_sz(Len(c))
        r == [disk |-> d, ok |-> TRUE, got |-> 0, ids |-> DataBlocks(d, inode),
              ind |-> inode.indirect]
        old == Len(r.ids)
        s == IF n > old THEN FoldLeft(grow, r, [k \in 1 .. n - old |-> old + k])
             ELSE shrink(r, n)
    IN  IF Len(c) > max_file_sz_supported THEN [disk |-> d, ok |-> FALSE]
        ELSE IF ~s.ok THEN [disk |-> s.disk, ok |-> FALSE]
        ELSE [disk |-> save(s, id, c), ok |-> TRUE]

\* c.resize(sz)
Resized(c, sz) == [k \in 1 .. sz |-> IF k <= Len(c) THEN c[k] ELSE Zero]

\* Mutant: the content is always resized to the end of the write.
write_file_cut(d, id, buf, off) ==
    LET end == off + Len(buf)
        c == Resized(read_file(d, id), end)
    IN write_file(d, id, [k \in 1 .. Len(c) |->
                            IF k > off /\ k <= end THEN buf[k - off] ELSE c[k]])

write_file_w_off(d, id, buf, off) ==
    LET end == off + Len(buf)
        content == read_file(d, id)
        c == IF end > Len(content) THEN Resized(content, end) ELSE content
    IN write_file(d, id, [k \in 1 .. Len(c) |->
                            IF k > off /\ k <= end THEN buf[k - off] ELSE c[k]])

resize(d, id, sz) ==
    LET content == read_file(d, id)
    IN IF Len(content) # sz THEN write_file(d, id, Resized(content, sz))
       ELSE [disk |-> d, ok |-> TRUE]

read_file_w_off(d, id, sz, off) == SubSeq(read_file(d, id), off + 1, off + sz)

\* What parse_directory reads of an entry that dir_list_to_string wrote as name:id:
\* it cuts at the first ':', and reads a number (0 if there is none) from there on.
Entry(n, id) == IF Prefix[n] = n THEN <<n, id>> ELSE <<Prefix[n], Number[n]>>

\* The first entry with the name; <<>> if there is none.
lookup(d, id, n) ==
    LET found == SelectSeq(read_file(d, id), LAMBDA e : e[1] = n)
    IN IF found = <<>> THEN <<>> ELSE found[1]

\* FileOperation::mk_helper. If the directory cannot be written the new inode
\* stays, without a name.
mk_helper(d, id, n, type) ==
    LET r == alloc_inode(d, type)
        w == write_file(r.disk, id, Append(read_file(d, id), Entry(n, r.got)))
    IN  CASE lookup(d, id, n) # <<>> -> [disk |-> d, error |-> "AlreadyExist", got |-> 0]
          [] lookup(d, id, n) = <<>> /\ ~r.ok ->
                [disk |-> r.disk, error |-> "OUT_OF_RESOURCE", got |-> 0]
          [] OTHER -> [disk |-> w.disk, got |-> r.got,
                       error |-> IF w.ok THEN "DONE" ELSE "OUT_OF_RESOURCE"]

\* FileOperation::remove_file of a file without an indirect block.
remove_file(d, id) ==
    LET used == SelectSeq(InodeOf(d, id).blocks, LAMBDA b : b # KInvalidBlockID)
        r == [disk |-> [d EXCEPT !.table[id] = KInvalidBlockID], ok |-> TRUE]
    IN FoldLeft(deallocate, r, Append(used, d.table[id]))

\* FileOperation::unlink of a name that is there.
unlink(d, parent, id) ==
    LET entries == read_file(d, parent)
        r == remove_file(d, id)
    IN IF ~r.ok THEN r
       ELSE write_file(r.disk, parent, SelectSeq(entries, LAMBDA e : e[2] # id))

-----------------------------------------------------------------------------
\* The handlers of the daemon that only read

\* Type and size of an inode.
chfs_getattr(d, id) ==
    IF read_inode(d, id) THEN [type |-> InodeOf(d, id).type, size |-> InodeOf(d, id).size]
    ELSE [type |-> "None", size |-> 0]

\* The units of a file from off on, cut at its size.
chfs_read(d, id, size, off) ==
    LET st_size == chfs_getattr(d, id).size
        read_size == IF off + size > st_size THEN st_size - off ELSE size
    IN IF off >= st_size THEN <<>> ELSE read_file_w_off(d, id, read_size, off)

\* The entries of a directory.
chfs_readdir(d, id) == read_file(d, id)

\* The inode of a name, 0 if there is none or it cannot be read.
chfs_lookup(d, parent, n) ==
    LET e == lookup(d, parent, n)
    IN IF e # <<>> /\ read_inode(d, e[2]) THEN e[2] ELSE 0

\* The inodes that the kernel can find.
Used(d) == {i \in Inode : d.table[i] # KInvalidBlockID}
Directories(d) == {i \in Inode : chfs_getattr(d, i).type = "Directory"}
Named(d) ==
    {Root} \union ({chfs_lookup(d, i, n) : i \in Directories(d), n \in Name} \ {0})
NamedFiles(d) == Named(d) \ Directories(d)
NamedDirectories(d) == Named(d) \intersect Directories(d)

-----------------------------------------------------------------------------
\* The handlers of the daemon that write

Answer(op, error) == reply' = [op |-> op, error |-> error]

\* bootstrap_fuse: the root directory is the first inode.
Init ==
    /\ disk = alloc_inode([bitmap |-> {}, table |-> [i \in Inode |-> KInvalidBlockID],
                           block |-> [b \in Block |-> NewBlock]], "Directory").disk
    /\ reply = [op |-> "mount", error |-> "OK"]
    /\ up = TRUE

\* mknod and mkdir: the answer carries the attributes of the new inode.
chfs_make(op, type, error, parent, n) ==
    LET r == mk_helper(disk, parent, n, type)
    IN  /\ disk' = r.disk
        /\ CASE r.error = "AlreadyExist" -> Answer(op, "EEXIST")
             [] r.error = "OUT_OF_RESOURCE" -> Answer(op, error)
             [] OTHER -> Answer(op, IF read_inode(r.disk, r.got) THEN "OK" ELSE "-1")
        /\ UNCHANGED up

chfs_mknod(parent, n) == chfs_make("mknod", "FILE", "ENOENT", parent, n)
chfs_mkdir(parent, n) == chfs_make("mkdir", "Directory", "ENOSYS", parent, n)

\* remove_file reads an indirect block into a vector without storage: the
\* daemon crashes.
chfs_unlink(parent, n) ==
    LET e == lookup(disk, parent, n)
        r == unlink(disk, parent, e[2])
    IN  \/ /\ e = <<>>
           /\ Answer("unlink", "ENOENT")
           /\ UNCHANGED <<disk, up>>
        \/ /\ e # <<>> /\ e[2] \in NamedFiles(disk)
           /\ InodeOf(disk, e[2]).indirect # KInvalidBlockID
           /\ up' = FALSE
           /\ UNCHANGED <<disk, reply>>
        \/ /\ e # <<>> /\ e[2] \in NamedFiles(disk)
           /\ InodeOf(disk, e[2]).indirect = KInvalidBlockID
           /\ disk' = r.disk
           /\ Answer("unlink", IF r.ok THEN "OK" ELSE "ENOSYS")
           /\ UNCHANGED up

chfs_write(id, buf, off) ==
    LET r == write_file_w_off(disk, id, buf, off)
    IN  /\ disk' = r.disk
        /\ Answer("write", IF r.ok THEN "OK" ELSE "ENOSYS")
        /\ UNCHANGED up

\* setattr takes the size from attr whatever to_set says.
chfs_setattr(id, sz) ==
    LET r == resize(disk, id, sz)
    IN  /\ disk' = r.disk
        /\ Answer("setattr", IF r.ok THEN "OK" ELSE "ENOSYS")
        /\ UNCHANGED up

\* statfs, readlink, rmdir, symlink, rename and link abort the daemon.
UNIMPLEMENTED ==
    /\ up' = FALSE
    /\ UNCHANGED <<disk, reply>>

Buffers == UNION {[1 .. BufLen -> {v}] : v \in Value}

Next ==
    /\ up
    /\ \/ \E parent \in NamedDirectories(disk), n \in Name :
             \/ chfs_mknod(parent, n)
             \/ chfs_mkdir(parent, n)
             \/ chfs_unlink(parent, n)
       \/ \E id \in NamedFiles(disk), off \in 0 .. MaxSize :
             \/ \E buf \in Buffers : chfs_write(id, buf, off)
             \/ chfs_setattr(id, off)
       \/ UNIMPLEMENTED

Spec == Init /\ [][Next]_vars

-----------------------------------------------------------------------------
\* Properties

\* The bitmap, the table and the inodes name blocks of the device.
TypeOK ==
    /\ disk.bitmap \subseteq Block
    /\ disk.table \in [Inode -> Block \union {KInvalidBlockID}]
    /\ DOMAIN disk.block = Block
    /\ \A i \in Used(disk) :
          LET inode == InodeOf(disk, i)
          IN /\ inode.type \in {"FILE", "Directory"}
             /\ inode.size \in 0 .. (NDirect + NIndirect) * BlockUnits
             /\ inode.indirect \in Block \union {KInvalidBlockID}
             /\ ToSet(DataBlocks(disk, inode)) \subseteq Block
    /\ up \in BOOLEAN

\* Every block that inode i uses, in some order.
BlocksOf(i) ==
    LET inode == InodeOf(disk, i)
    IN <<disk.table[i]>> \o DataBlocks(disk, inode) \o
       (IF inode.indirect = KInvalidBlockID THEN <<>> ELSE <<inode.indirect>>)

\* No block is used twice and every block in use is marked, so that no later
\* allocate can give it out: write_file (when it grows, shrinks, takes or drops
\* the indirect block, or runs out of blocks), remove_file and mk_helper keep it so.
BlocksHaveOneUse ==
    /\ \A i \in Used(disk) : IsInjective(BlocksOf(i)) /\ ToSet(BlocksOf(i)) \subseteq disk.bitmap
    /\ \A i, j \in Used(disk) :
          i # j => ToSet(BlocksOf(i)) \intersect ToSet(BlocksOf(j)) = {}

\* The blocks that are marked but can no longer be reached or freed.
Lost == disk.bitmap \ UNION {ToSet(BlocksOf(i)) : i \in Named(disk)}

\* Space is lost only in a call that answers an error: a successful write,
\* truncation, creation or removal frees just what it no longer uses.
LostOnlyOnError == [][reply'.error = "OK" => Lost' = Lost]_vars

\* A client's view of inode i: what it reads from a file, the first BufLen units
\* and then the others; what readdir lists of a directory.
Seen(i) ==
    IF chfs_getattr(disk, i).type = "Directory" THEN chfs_readdir(disk, i)
    ELSE chfs_read(disk, i, BufLen, 0) \o
         chfs_read(disk, i, max_file_sz_supported, BufLen)

\* Seen without blocks, every call is atomic: it does what it says or changes
\* nothing, and reads return what was last written (a call that crashes the
\* daemon is not answered).
Store == INSTANCE FileStore WITH
    files <- [i \in Named(disk) |-> [type |-> chfs_getattr(disk, i).type,
                                     content |-> Seen(i)]]

ImplementsStore == Store!Spec
=============================================================================
