----------------------------- MODULE ChunkStore -----------------------------
(***************************************************************************)
(* The data path of the distributed file system: clients                   *)
(* (distributed/client.cc) that read, write and free the blocks of files,  *)
(* the handlers of the metadata server that keep the list of blocks of a   *)
(* file (get_block_map, allocate_block and free_block of                   *)
(* distributed/metadata_server.cc) and the data servers that hold the      *)
(* blocks with a version each (distributed/dataserver.cc).                 *)
(*                                                                         *)
(* Both kinds of server run four handlers at a time.  The metadata server  *)
(* holds inode_mtx of the file through allocate_block and free_block, and  *)
(* mac_mtx of the data server during a call to it; get_block_map and the   *)
(* handlers of the data server take no lock.  One read or write of a block *)
(* is one step (lab2.md, part 3: "Writing data to a block is atomic").     *)
(* Calls do not fail ("RPC won't fail", lab2.md) and the files exist.      *)
(*                                                                         *)
(* Data.  Of the bytes of a block only whose data they are matters: that   *)
(* of a file, or the zeros of a fresh block.  A call reads or writes the   *)
(* blocks lo .. hi of a file.  A version is one byte, and odd while the    *)
(* block is allocated.  Operators named Bad... are slips that a change to  *)
(* the code could make, and are used by no action.                         *)
(***************************************************************************)
EXTENDS Integers, Sequences

CONSTANTS
    File, Client, Server,
    KDefaultBlockCnt,  \* block 0 holds the versions
    Zeros,             \* the content of a fresh block
    NoOne,             \* the holder of a mutex that is free
    MaxBlocks,         \* blocks one call can touch
    MaxVersion         \* no block is allocated from this version on

ASSUME CountAssumption ==
    KDefaultBlockCnt \in Nat /\ MaxBlocks \in Nat /\ MaxVersion \in Nat
ASSUME NoOneAssumption == NoOne \notin Client
ASSUME ZerosAssumption == Zeros \notin File

VARIABLES
    version,    \* block 0 of every data server
    content,    \* the other blocks
    blocks,     \* blocks[] of the inode of every file
    inode_mtx, mac_mtx,
    client      \* the call every client is in

vars == <<version, content, blocks, inode_mtx, mac_mtx, client>>

Block == 1 .. KDefaultBlockCnt - 1
BlockInfo == [mac : Server, block : Block, version : 0 .. 255]

SameBlock(d, e) == d.mac = e.mac /\ d.block = e.block
Allocated(s, b) == version[s][b] % 2 = 1

\* map and pos: the block map a client works on, and where it is in it;
\* inode and info: the copy of the inode and the block a handler works on.
NoCall == [pc |-> "idle", file |-> NoOne, hi |-> 0, map |-> <<>>, pos |-> 0,
           inode |-> <<>>, info |-> NoOne]

Init ==
    /\ version = [s \in Server |-> [b \in Block |-> 0]]
    /\ content = [s \in Server |-> [b \in Block |-> Zeros]]
    /\ blocks = [f \in File |-> <<>>]
    /\ inode_mtx = [f \in File |-> NoOne]
    /\ mac_mtx = [s \in Server |-> NoOne]
    /\ client = [c \in Client |-> NoCall]

-----------------------------------------------------------------------------
\* The metadata server and what it asks of the data servers

\* The version is the low half of a word, and is taken from it modulo 32.
get_block_map(f) ==
    [i \in 1 .. Len(blocks[f]) |-> [blocks[f][i] EXCEPT !.version = @ % 32]]

BadLockInode(c) ==
    LET f == client[c].file
    IN  /\ client[c].pc = "alloc"
        /\ inode_mtx' = [inode_mtx EXCEPT ![f] = c]
        /\ client' = [client EXCEPT ![c].pc = "ask", ![c].inode = blocks[f]]
        /\ UNCHANGED <<version, content, blocks, mac_mtx>>

\* allocate_block: the handler locks and reads the inode, ...
lockInode(c) ==
    LET f == client[c].file
    IN  /\ client[c].pc = "alloc"
        /\ inode_mtx[f] = NoOne
        /\ inode_mtx' = [inode_mtx EXCEPT ![f] = c]
        /\ client' = [client EXCEPT ![c].pc = "ask", ![c].inode = blocks[f]]
        /\ UNCHANGED <<version, content, blocks, mac_mtx>>

\* ... asks one data server after the other, a random one first, until one has
\* a free block; that one marks its first free block as allocated ...
alloc_block(c) ==
    /\ client[c].pc = "ask"
    /\ \E s \in Server, b \in Block :
          /\ mac_mtx[s] = NoOne
          /\ ~Allocated(s, b)
          /\ \A a \in Block : a < b => Allocated(s, a)
          /\ version[s][b] < MaxVersion
          /\ mac_mtx' = [mac_mtx EXCEPT ![s] = c]
          /\ version' = [version EXCEPT ![s][b] = (@ + 1) % 256]
          /\ client' = [client EXCEPT
                ![c].pc = "zero",
                ![c].info = [mac |-> s, block |-> b,
                             version |-> (version[s][b] + 1) % 256]]
    /\ UNCHANGED <<content, blocks, inode_mtx>>

\* ... and clears it.
zero_block(c) ==
    LET e == client[c].info
    IN  /\ client[c].pc = "zero"
        /\ content' = [content EXCEPT ![e.mac][e.block] = Zeros]
        /\ mac_mtx' = [mac_mtx EXCEPT ![e.mac] = NoOne]
        /\ client' = [client EXCEPT ![c].pc = "record"]
        /\ UNCHANGED <<version, blocks, inode_mtx>>

BadAllocateBlock(c) ==
    LET f == client[c].file
        e == client[c].info
        map == Append(client[c].map, e)
    IN  /\ client[c].pc = "record"
        /\ blocks' = [blocks EXCEPT ![f] = client[c].inode \o <<e, e>>]
        /\ inode_mtx' = [inode_mtx EXCEPT ![f] = NoOne]
        /\ client' = [client EXCEPT
              ![c].pc = IF Len(map) < client[c].hi THEN "alloc" ELSE "write",
              ![c].map = map, ![c].inode = <<>>, ![c].info = NoOne]
        /\ UNCHANGED <<version, content, mac_mtx>>

\* The handler writes the inode back with the block added; the client asks for
\* the next block it lacks or goes on to its first write.
allocate_block(c) ==
    LET f == client[c].file
        e == client[c].info
        map == Append(client[c].map, e)
    IN  /\ client[c].pc = "record"
        /\ blocks' = [blocks EXCEPT ![f] = Append(client[c].inode, e)]
        /\ inode_mtx' = [inode_mtx EXCEPT ![f] = NoOne]
        /\ client' = [client EXCEPT
              ![c].pc = IF Len(map) < client[c].hi THEN "alloc" ELSE "write",
              ![c].map = map, ![c].inode = <<>>, ![c].info = NoOne]
        /\ UNCHANGED <<version, content, mac_mtx>>

Without(seq, p) ==
    [i \in 1 .. Len(seq) - 1 |-> IF i < p THEN seq[i] ELSE seq[i + 1]]

\* free_block: the handler locks and reads the inode and looks for the block;
\* without it the call has no effect.
find_block(c) ==
    /\ client[c].pc = "idle"
    /\ \E f \in File : \E p \in 1 .. Len(blocks[f]) :
          /\ inode_mtx[f] = NoOne
          /\ \A q \in 1 .. p - 1 : ~SameBlock(blocks[f][q], blocks[f][p])
          /\ inode_mtx' = [inode_mtx EXCEPT ![f] = c]
          /\ client' = [client EXCEPT
                ![c].pc = "free", ![c].file = f, ![c].pos = p,
                ![c].inode = blocks[f], ![c].info = blocks[f][p]]
    /\ UNCHANGED <<version, content, blocks, mac_mtx>>

BadFree(c) ==
    LET e == client[c].info
    IN  /\ client[c].pc = "free"
        /\ mac_mtx[e.mac] = NoOne
        /\ version' = [version EXCEPT ![e.mac][e.block] = @ - 1]
        /\ client' = [client EXCEPT ![c].pc = "remove"]
        /\ UNCHANGED <<content, blocks, mac_mtx, inode_mtx>>

\* The data server frees the block, or refuses to if it is free already ...
free_on_server(c) ==
    LET e == client[c].info
        ok == Allocated(e.mac, e.block)
    IN  /\ client[c].pc = "free"
        /\ mac_mtx[e.mac] = NoOne
        /\ version' = IF ok THEN [version EXCEPT ![e.mac][e.block] = (@ + 1) % 256]
                      ELSE version
        /\ inode_mtx' = IF ok THEN inode_mtx
                        ELSE [inode_mtx EXCEPT ![client[c].file] = NoOne]
        /\ client' = [client EXCEPT ![c] = IF ok THEN [@ EXCEPT !.pc = "remove"]
                                           ELSE NoCall]
        /\ UNCHANGED <<content, blocks, mac_mtx>>

\* ... and the handler writes the inode back without it.
free_block(c) ==
    LET f == client[c].file
    IN  /\ client[c].pc = "remove"
        /\ blocks' = [blocks EXCEPT ![f] = Without(client[c].inode, client[c].pos)]
        /\ inode_mtx' = [inode_mtx EXCEPT ![f] = NoOne]
        /\ client' = [client EXCEPT ![c] = NoCall]
        /\ UNCHANGED <<version, content, mac_mtx>>

-----------------------------------------------------------------------------
\* The clients

BadReadFile(c) ==
    /\ client[c].pc = "idle"
    /\ \E f \in File, lo \in 1 .. MaxBlocks, hi \in 1 .. MaxBlocks :
          /\ lo <= hi /\ lo <= Len(blocks[f])
          /\ client' = [client EXCEPT
                ![c].pc = "read", ![c].file = f, ![c].hi = hi,
                ![c].map = get_block_map(f), ![c].pos = lo - 1]
    /\ UNCHANGED <<version, content, blocks, inode_mtx, mac_mtx>>

\* Before its first block a read_file that starts behind the end of the file
\* gives up.
read_file(c) ==
    /\ client[c].pc = "idle"
    /\ \E f \in File, lo \in 1 .. MaxBlocks, hi \in 1 .. MaxBlocks :
          /\ lo <= hi /\ lo <= Len(blocks[f])
          /\ client' = [client EXCEPT
                ![c].pc = "read", ![c].file = f, ![c].hi = hi,
                ![c].map = get_block_map(f), ![c].pos = lo]
    /\ UNCHANGED <<version, content, blocks, inode_mtx, mac_mtx>>

write_file(c) ==
    /\ client[c].pc = "idle"
    /\ \E f \in File, lo \in 1 .. MaxBlocks, hi \in 1 .. MaxBlocks :
          /\ lo <= hi
          /\ client' = [client EXCEPT
                ![c].pc = IF Len(blocks[f]) < hi THEN "alloc" ELSE "write",
                ![c].file = f, ![c].hi = hi,
                ![c].map = get_block_map(f), ![c].pos = lo]
    /\ UNCHANGED <<version, content, blocks, inode_mtx, mac_mtx>>

\* The client's loop: the next block, or the end.
Advance(c, pc) ==
    LET r == client[c]
    IN  client' = [client EXCEPT ![c] =
            IF r.pos < r.hi /\ r.pos < Len(r.map)
            THEN [r EXCEPT !.pc = pc, !.pos = r.pos + 1] ELSE NoCall]

\* read_data: the data server compares the versions ...
check_version(c) ==
    LET e == client[c].map[client[c].pos]
    IN  /\ client[c].pc = "read"
        /\ client' = [client EXCEPT ![c] =
              IF Allocated(e.mac, e.block) /\ version[e.mac][e.block] = e.version
              THEN [@ EXCEPT !.pc = "fetch"] ELSE NoCall]
        /\ UNCHANGED <<version, content, blocks, inode_mtx, mac_mtx>>

\* ... and then reads the block.
read_data(c) ==
    /\ client[c].pc = "fetch"
    /\ Advance(c, "read")
    /\ UNCHANGED <<version, content, blocks, inode_mtx, mac_mtx>>

\* write_data: the data server looks whether the block is allocated ...
check_allocated(c) ==
    LET e == client[c].map[client[c].pos]
    IN  /\ client[c].pc = "write"
        /\ client' = [client EXCEPT ![c] =
              IF Allocated(e.mac, e.block) THEN [@ EXCEPT !.pc = "store"] ELSE NoCall]
        /\ UNCHANGED <<version, content, blocks, inode_mtx, mac_mtx>>

\* ... and then writes to it.
write_data(c) ==
    LET e == client[c].map[client[c].pos]
    IN  /\ client[c].pc = "store"
        /\ content' = [content EXCEPT ![e.mac][e.block] = client[c].file]
        /\ Advance(c, "write")
        /\ UNCHANGED <<version, blocks, inode_mtx, mac_mtx>>

Next ==
    \E c \in Client :
        \/ read_file(c) \/ check_version(c) \/ read_data(c)
        \/ write_file(c) \/ check_allocated(c) \/ write_data(c)
        \/ lockInode(c) \/ alloc_block(c) \/ zero_block(c) \/ allocate_block(c)
        \/ find_block(c) \/ free_on_server(c) \/ free_block(c)

Spec == Init /\ [][Next]_vars

-----------------------------------------------------------------------------
\* Properties

AllocPC == {"ask", "zero", "record"}
FreePC == {"free", "remove"}
DataPC == {"read", "fetch", "write", "store"}

\* Servers, inodes, mutexes and calls have their types; a call has the locals
\* of the place it is at.
TypeOK ==
    /\ version \in [Server -> [Block -> 0 .. 255]]
    /\ content \in [Server -> [Block -> File \union {Zeros}]]
    /\ blocks \in [File -> Seq(BlockInfo)]
    /\ inode_mtx \in [File -> Client \union {NoOne}]
    /\ mac_mtx \in [Server -> Client \union {NoOne}]
    /\ client \in [Client ->
          [pc : {"idle", "alloc"} \union AllocPC \union FreePC \union DataPC,
           file : File \union {NoOne}, hi : Nat, map : Seq(BlockInfo), pos : Nat,
           inode : Seq(BlockInfo), info : BlockInfo \union {NoOne}]]
    /\ \A c \in Client :
          /\ client[c].pc # "idle" => client[c].file \in File
          /\ client[c].pc \in {"zero", "record"} \union FreePC
                => client[c].info \in BlockInfo
          /\ client[c].pc \in DataPC => client[c].pos \in 1 .. Len(client[c].map)

\* The entry i of file f is about to be removed: its block is free already.
BeingRemoved(f, i) ==
    \E c \in Client : /\ client[c].pc = "remove"
                      /\ client[c].file = f /\ client[c].pos = i

Entry(f, i) == i \in 1 .. Len(blocks[f]) /\ ~BeingRemoved(f, i)
Fresh(c) == client[c].pc \in {"zero", "record"}

\* Whatever clients allocate and free at the same time (metadata_server.cc:407
\* and 484, no more than inode_mtx and mac_mtx between them), a block belongs
\* to one place of one file or to one running allocate_block, ...
BlocksHaveOneOwner ==
    /\ \A f, g \in File : \A i \in 1 .. Len(blocks[f]), j \in 1 .. Len(blocks[g]) :
          Entry(f, i) /\ Entry(g, j) /\ SameBlock(blocks[f][i], blocks[g][j])
          => f = g /\ i = j
    /\ \A c \in Client : Fresh(c) =>
          /\ \A f \in File : \A i \in 1 .. Len(blocks[f]) :
                Entry(f, i) => ~SameBlock(blocks[f][i], client[c].info)
          /\ \A d \in Client \ {c} :
                Fresh(d) => ~SameBlock(client[d].info, client[c].info)

\* ... the inode has the version the data server has, which is odd, so that
\* free_block never finds the block free (metadata_server.cc:538), and no
\* allocated block is lost.
InodesMatchServers ==
    /\ \A f \in File : \A i \in 1 .. Len(blocks[f]) : Entry(f, i) =>
          LET e == blocks[f][i]
          IN  Allocated(e.mac, e.block) /\ version[e.mac][e.block] = e.version
    /\ \A s \in Server, b \in Block : Allocated(s, b) =>
          \/ \E f \in File : \E i \in 1 .. Len(blocks[f]) :
                Entry(f, i) /\ blocks[f][i].mac = s /\ blocks[f][i].block = b
          \/ \E c \in Client :
                Fresh(c) /\ client[c].info.mac = s /\ client[c].info.block = b

\* The blocks the file of a reader has, with the one being added and removed.
BelongsTo(f, s, b) ==
    \E i \in 1 .. Len(blocks[f]) : blocks[f][i].mac = s /\ blocks[f][i].block = b

\* A block map may be old when it is used, but a block whose version still
\* matches, when read_data compares it (dataserver.cc:71-75) or when it then reads
\* the block, has stayed with the file all the time. (Between the two the block
\* may be freed and reused, and the read returns the data of another file.)
MatchMeansSameFile ==
    \A c \in Client : client[c].pc \in {"read", "fetch"} =>
        LET e == client[c].map[client[c].pos]
        IN  version[e.mac][e.block] = e.version
            => BelongsTo(client[c].file, e.mac, e.block)

\* A write that the data server would carry out is one to a block of the file:
\* it is to "reject block read/write requests with a mismatched version"
\* (lab2.md, part 1C).
AcceptedMeansSameFile ==
    \A c \in Client : client[c].pc = "write" =>
        LET e == client[c].map[client[c].pos]
        IN  Allocated(e.mac, e.block)
            => BelongsTo(client[c].file, e.mac, e.block)
=============================================================================
