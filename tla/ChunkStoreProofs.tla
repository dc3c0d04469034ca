-------------------------- MODULE ChunkStoreProofs --------------------------
(***************************************************************************)
(* Theorems about module ChunkStore, for any files, clients, data servers  *)
(* and bounds: a block of a data server has one owner, and the inodes of   *)
(* the metadata server agree with the versions of the data servers.        *)
(***************************************************************************)
EXTENDS ChunkStore, SequenceTheorems, TLAPS

-----------------------------------------------------------------------------
\* The inductive invariant.  Ownership is stated for values of the inodes, the
\* calls and the versions, so that the state after a step can take their place.

CallState ==
    [pc : {"idle", "alloc"} \union AllocPC \union FreePC \union DataPC,
     file : File \union {NoOne}, hi : Nat, map : Seq(BlockInfo), pos : Nat,
     inode : Seq(BlockInfo), info : BlockInfo \union {NoOne}]

\* A call has the locals of the place it is at (the last conjuncts of TypeOK).
CallOK(r) ==
    /\ r \in CallState
    /\ r.pc # "idle" => r.file \in File
    /\ r.pc \in {"zero", "record"} \union FreePC => r.info \in BlockInfo
    /\ r.pc \in DataPC => r.pos \in 1 .. Len(r.map)

Removing(cl, f, i) ==
    \E c \in Client : cl[c].pc = "remove" /\ cl[c].file = f /\ cl[c].pos = i

\* Place i of file f holds a block that is not free already.
Holds(bl, cl, f, i) == i \in 1 .. Len(bl[f]) /\ ~Removing(cl, f, i)

IsFresh(cl, c) == cl[c].pc \in {"zero", "record"}

\* The block of e is allocated in the version e has.
Current(ver, e) == ver[e.mac][e.block] % 2 = 1 /\ ver[e.mac][e.block] = e.version

OneOwner(bl, cl) ==
    /\ \A f, g \in File, i, j \in Nat :
          Holds(bl, cl, f, i) /\ Holds(bl, cl, g, j) /\ SameBlock(bl[f][i], bl[g][j])
          => f = g /\ i = j
    /\ \A c \in Client, f \in File, i \in Nat :
          IsFresh(cl, c) /\ Holds(bl, cl, f, i) => ~SameBlock(bl[f][i], cl[c].info)
    /\ \A c, d \in Client :
          IsFresh(cl, c) /\ IsFresh(cl, d) /\ SameBlock(cl[d].info, cl[c].info) => c = d

OwnersCurrent(ver, bl, cl) ==
    /\ \A f \in File, i \in Nat : Holds(bl, cl, f, i) => Current(ver, bl[f][i])
    /\ \A c \in Client : IsFresh(cl, c) => Current(ver, cl[c].info)

Owned(bl, cl, s, b) ==
    \/ \E f \in File, i \in Nat :
          Holds(bl, cl, f, i) /\ bl[f][i].mac = s /\ bl[f][i].block = b
    \/ \E c \in Client : IsFresh(cl, c) /\ cl[c].info.mac = s /\ cl[c].info.block = b

NoneLost(ver, bl, cl) ==
    \A s \in Server, b \in Block : ver[s][b] % 2 = 1 => Owned(bl, cl, s, b)

Ownership(ver, bl, cl) ==
    OneOwner(bl, cl) /\ OwnersCurrent(ver, bl, cl) /\ NoneLost(ver, bl, cl)

\* A handler of the metadata server that changes an inode has locked it, and its
\* copy is up to date; a writer that lacks blocks will write no more than it asks for.
HandlerInv(mtx, bl, r, c) ==
    /\ r.pc \in AllocPC \union FreePC => mtx[r.file] = c /\ r.inode = bl[r.file]
    /\ r.pc \in FreePC => r.pos \in 1 .. Len(r.inode) /\ r.info = r.inode[r.pos]
    /\ r.pc \in {"alloc"} \union AllocPC => r.pos \in 1 .. r.hi

IInv ==
    /\ TypeOK
    /\ \A c \in Client : HandlerInv(inode_mtx, blocks, client[c], c)
    /\ Ownership(version, blocks, client)

-----------------------------------------------------------------------------
\* What one step does to a call, and to what is owned

\* Types of calls, one by one.
LEMMA CallsOK ==
    TypeOK => \A c \in Client : CallOK(client[c])
BY DEF TypeOK, CallOK, CallState

\* One call changes; the others keep their locks and their inodes.
LEMMA OneCall ==
    ASSUME IInv, NEW c \in Client, NEW r, CallOK(r),
           client' = [client EXCEPT ![c] = r],
           version' \in [Server -> [Block -> 0 .. 255]],
           content' \in [Server -> [Block -> File \union {Zeros}]],
           blocks' \in [File -> Seq(BlockInfo)],
           inode_mtx' \in [File -> Client \union {NoOne}],
           mac_mtx' \in [Server -> Client \union {NoOne}],
           HandlerInv(inode_mtx', blocks', r, c),
           \A d \in Client \ {c} : HandlerInv(inode_mtx', blocks', client[d], d),
           Ownership(version', blocks', client')
    PROVE  IInv'
<1>1. client \in [Client -> CallState]
    BY DEF IInv, TypeOK, CallState
<1>2. /\ client' \in [Client -> CallState]
      /\ client'[c] = r
      /\ \A d \in Client \ {c} : client'[d] = client[d]
    BY <1>1 DEF CallOK
<1>3. \A d \in Client : CallOK(client'[d])
    BY <1>2, CallsOK DEF IInv
<1>4. TypeOK'
    BY <1>2, <1>3, SMTT(30) DEF TypeOK, CallOK, CallState
<1>5. \A d \in Client : HandlerInv(inode_mtx', blocks', client'[d], d)
    BY <1>2
<1> QED BY <1>4, <1>5 DEF IInv

\* A call that neither gains nor loses a block leaves the ownership alone.
LEMMA SameOwners ==
    ASSUME NEW ver, NEW bl, NEW cl \in [Client -> CallState], Ownership(ver, bl, cl),
           NEW c \in Client, NEW r \in CallState,
           cl[c].pc # "remove", r.pc # "remove",
           cl[c].pc \in {"zero", "record"} <=> r.pc \in {"zero", "record"},
           r.pc \in {"zero", "record"} => r.info = cl[c].info
    PROVE  Ownership(ver, bl, [cl EXCEPT ![c] = r])
<1> DEFINE cl2 == [cl EXCEPT ![c] = r]
<1>1. cl2[c] = r /\ \A d \in Client \ {c} : cl2[d] = cl[d]
    OBVIOUS
<1> HIDE DEF cl2
<1>2. \A f, i : Removing(cl2, f, i) <=> Removing(cl, f, i)
    BY <1>1 DEF Removing
<1>3. \A f, i : Holds(bl, cl2, f, i) <=> Holds(bl, cl, f, i)
    BY <1>2 DEF Holds
<1>4. \A d \in Client : IsFresh(cl2, d) <=> IsFresh(cl, d)
    BY <1>1 DEF IsFresh
<1>5. \A d \in Client : IsFresh(cl, d) => cl2[d].info = cl[d].info
    BY <1>1 DEF IsFresh
<1>6. OneOwner(bl, cl2)
    BY <1>3, <1>4, <1>5 DEF Ownership, OneOwner
<1>7. OwnersCurrent(ver, bl, cl2)
    BY <1>3, <1>4, <1>5 DEF Ownership, OwnersCurrent
<1>8. NoneLost(ver, bl, cl2)
    BY <1>3, <1>4, <1>5 DEF Ownership, NoneLost, Owned
<1> QED BY <1>6, <1>7, <1>8 DEF Ownership, cl2
\* No other handler works on file f while c may lock it or has locked it.
LEMMA OthersKeep ==
    ASSUME IInv, NEW c \in Client, NEW f \in File, inode_mtx[f] \in {NoOne, c},
           \A g \in File \ {f} : inode_mtx'[g] = inode_mtx[g] /\ blocks'[g] = blocks[g]
    PROVE  \A d \in Client \ {c} : HandlerInv(inode_mtx', blocks', client[d], d)
<1> SUFFICES ASSUME NEW d \in Client \ {c}
             PROVE  HandlerInv(inode_mtx', blocks', client[d], d)
    OBVIOUS
<1>1. CallOK(client[d]) /\ HandlerInv(inode_mtx, blocks, client[d], d)
    BY CallsOK DEF IInv
<1>2. client[d].pc \in AllocPC \union FreePC => client[d].file \in File \ {f}
    BY <1>1, NoOneAssumption DEF HandlerInv, CallOK, AllocPC, FreePC
<1> QED BY <1>1, <1>2 DEF HandlerInv

\* A step of one call that changes no version and no inode.
LEMMA QuietStep ==
    ASSUME IInv, NEW c \in Client, NEW r, CallOK(r),
           client' = [client EXCEPT ![c] = r],
           version' = version, blocks' = blocks,
           content' \in [Server -> [Block -> File \union {Zeros}]],
           inode_mtx' \in [File -> Client \union {NoOne}],
           mac_mtx' \in [Server -> Client \union {NoOne}],
           HandlerInv(inode_mtx', blocks, r, c),
           \A d \in Client \ {c} : HandlerInv(inode_mtx', blocks', client[d], d),
           client[c].pc # "remove", r.pc # "remove",
           client[c].pc \in {"zero", "record"} <=> r.pc \in {"zero", "record"},
           r.pc \in {"zero", "record"} => r.info = client[c].info
    PROVE  IInv'
<1>1. client \in [Client -> CallState] /\ r \in CallState
    BY DEF IInv, TypeOK, CallState, CallOK
<1>2. Ownership(version, blocks, [client EXCEPT ![c] = r])
    BY <1>1, SameOwners, Zenon DEF IInv
<1>3. Ownership(version', blocks', client')
    BY <1>2
<1>4. /\ version' \in [Server -> [Block -> 0 .. 255]]
      /\ blocks' \in [File -> Seq(BlockInfo)]
    BY Zenon DEF IInv, TypeOK
<1>5. HandlerInv(inode_mtx', blocks', r, c)
    OBVIOUS
<1> QED BY <1>3, <1>4, <1>5, OneCall, Zenon

\* The other calls keep what they know of mutexes and inodes.
LEMMA SameInodes ==
    ASSUME IInv, NEW c \in Client, UNCHANGED <<inode_mtx, blocks>>
    PROVE  \A d \in Client \ {c} : HandlerInv(inode_mtx', blocks', client[d], d)
BY DEF IInv

\* get_block_map returns one entry for each block of the file.
LEMMA BlockMap ==
    ASSUME TypeOK, NEW f \in File
    PROVE  get_block_map(f) \in Seq(BlockInfo) /\ Len(get_block_map(f)) = Len(blocks[f])
<1>1. blocks[f] \in Seq(BlockInfo)
    BY DEF TypeOK
<1>2. \A e \in BlockInfo : [e EXCEPT !.version = @ % 32] \in BlockInfo
    <2> SUFFICES ASSUME NEW e \in BlockInfo
                 PROVE  [e EXCEPT !.version = @ % 32] \in BlockInfo
        OBVIOUS
    <2>1. e.version % 32 \in 0 .. 255
        BY DEF BlockInfo
    <2> QED BY <2>1 DEF BlockInfo
<1>3. \A i \in 1 .. Len(blocks[f]) : [blocks[f][i] EXCEPT !.version = @ % 32] \in BlockInfo
    BY <1>1, <1>2
<1> QED BY <1>1, <1>3 DEF get_block_map

\* An idle client has no mutex and no copy of an inode.
LEMMA NoCallOK ==
    /\ CallOK(NoCall)
    /\ NoCall.pc = "idle"
    /\ \A mtx, bl, c : HandlerInv(mtx, bl, NoCall, c)
<1>1. NoCall \in CallState
    BY DEF NoCall, CallState
<1> QED BY <1>1 DEF NoCall, CallOK, HandlerInv, AllocPC, FreePC, DataPC
-----------------------------------------------------------------------------
\* The steps that allocate and free nothing

\* The invariant holds at the start.
LEMMA InitInv ==
    Init => IInv
<1> SUFFICES ASSUME Init PROVE IInv
    OBVIOUS
<1>1. \A c \in Client : client[c] = NoCall
    BY DEF Init
<1>2. client \in [Client -> CallState]
    BY NoCallOK DEF Init, CallOK
<1>3. TypeOK
    BY <1>1, <1>2, NoCallOK DEF Init, TypeOK, CallState, FreePC, DataPC
<1>4. \A f \in File, i \in Nat : ~Holds(blocks, client, f, i)
    BY DEF Holds, Init
<1>5. \A c \in Client : ~IsFresh(client, c)
    BY <1>1, NoCallOK DEF IsFresh
<1>6. OneOwner(blocks, client) /\ OwnersCurrent(version, blocks, client)
    BY <1>4, <1>5 DEF OneOwner, OwnersCurrent
<1>7. NoneLost(version, blocks, client)
    BY DEF NoneLost, Init
<1> QED BY <1>1, <1>3, <1>6, <1>7, NoCallOK DEF IInv, Ownership

\* read_file and write_file: the block map of the file, and where to start in it.
LEMMA StartCall ==
    ASSUME IInv, NEW c \in Client, client[c].pc = "idle",
           NEW f \in File, NEW lo \in 1 .. MaxBlocks, NEW hi \in 1 .. MaxBlocks,
           lo <= hi, NEW pc \in {"alloc", "read", "write"},
           pc # "alloc" => lo <= Len(blocks[f]),
           client' = [client EXCEPT ![c].pc = pc, ![c].file = f, ![c].hi = hi,
                          ![c].map = get_block_map(f), ![c].pos = lo],
           UNCHANGED <<version, content, blocks, inode_mtx, mac_mtx>>
    PROVE  IInv'
<1> DEFINE r == [client[c] EXCEPT !.pc = pc, !.file = f, !.hi = hi,
                     !.map = get_block_map(f), !.pos = lo]
<1>1. client[c] \in CallState /\ client \in [Client -> CallState]
    BY DEF IInv, TypeOK, CallState
<1>2. get_block_map(f) \in Seq(BlockInfo) /\ Len(get_block_map(f)) = Len(blocks[f])
    BY BlockMap DEF IInv
<1>3. lo \in Nat /\ hi \in Nat /\ lo \in 1 .. hi /\ Len(blocks[f]) \in Nat
    BY CountAssumption DEF IInv, TypeOK
<1>4. /\ r \in CallState
      /\ r.pc = pc /\ r.file = f /\ r.hi = hi /\ r.map = get_block_map(f) /\ r.pos = lo
    BY <1>1, <1>2, <1>3, Zenon DEF CallState, DataPC
<1>5. client' = [client EXCEPT ![c] = r]
    BY <1>1, Zenon
<1> HIDE DEF r
<1>6. CallOK(r)
    BY <1>2, <1>3, <1>4 DEF CallOK, FreePC, DataPC
<1>7. HandlerInv(inode_mtx, blocks, r, c)
    BY <1>3, <1>4 DEF HandlerInv, AllocPC, FreePC
<1> QED BY <1>4, <1>5, <1>6, <1>7, SameInodes, QuietStep, Zenon DEF IInv, TypeOK

\* A client starts to read.
LEMMA ReadFileInv ==
    ASSUME IInv, NEW c \in Client, read_file(c)
    PROVE  IInv'
BY StartCall, ZenonT(40) DEF read_file

\* A client starts to write.
LEMMA WriteFileInv ==
    ASSUME IInv, NEW c \in Client, write_file(c)
    PROVE  IInv'
<1>1. PICK f \in File, lo \in 1 .. MaxBlocks, hi \in 1 .. MaxBlocks :
          /\ lo <= hi
          /\ client' = [client EXCEPT
                ![c].pc = IF Len(blocks[f]) < hi THEN "alloc" ELSE "write",
                ![c].file = f, ![c].hi = hi,
                ![c].map = get_block_map(f), ![c].pos = lo]
    BY Zenon DEF write_file
<1>2. lo <= hi /\ (lo <= Len(blocks[f]) \/ Len(blocks[f]) < hi)
    BY <1>1, CountAssumption DEF IInv, TypeOK
<1>3. CASE Len(blocks[f]) < hi
    <2>1. client' = [client EXCEPT ![c].pc = "alloc", ![c].file = f, ![c].hi = hi,
                         ![c].map = get_block_map(f), ![c].pos = lo]
        BY <1>1, <1>3
    <2> QED BY <1>2, <2>1, StartCall, Zenon DEF write_file
<1>4. CASE ~(Len(blocks[f]) < hi)
    <2>1. client' = [client EXCEPT ![c].pc = "write", ![c].file = f, ![c].hi = hi,
                         ![c].map = get_block_map(f), ![c].pos = lo]
        BY <1>1, <1>4
    <2> QED BY <1>2, <1>4, <2>1, StartCall, Zenon DEF write_file
<1> QED BY <1>3, <1>4

\* The rest of a read_file or write_file: the call goes on or ends.
LEMMA EndCall ==
    ASSUME IInv, NEW c \in Client, client[c].pc \in DataPC,
           client' = [client EXCEPT ![c] = NoCall],
           content' \in [Server -> [Block -> File \union {Zeros}]],
           UNCHANGED <<version, blocks, inode_mtx, mac_mtx>>
    PROVE  IInv'
BY NoCallOK, SameInodes, QuietStep, Zenon DEF IInv, TypeOK, DataPC

\* A call goes on to a block of its map.
LEMMA NextBlock ==
    ASSUME IInv, NEW c \in Client, client[c].pc \in DataPC,
           NEW pc \in DataPC, NEW pos \in 1 .. Len(client[c].map),
           client' = [client EXCEPT ![c] = [client[c] EXCEPT !.pc = pc, !.pos = pos]],
           content' \in [Server -> [Block -> File \union {Zeros}]],
           UNCHANGED <<version, blocks, inode_mtx, mac_mtx>>
    PROVE  IInv'
<1> DEFINE r == [client[c] EXCEPT !.pc = pc, !.pos = pos]
<1>1. CallOK(client[c]) /\ client[c] \in CallState /\ Len(client[c].map) \in Nat
    BY CallsOK DEF IInv, CallOK, CallState
<1>2. client[c].file \in File
    BY <1>1 DEF CallOK, DataPC
<1>3. pos \in Nat
    BY <1>1
<1>4. /\ r \in CallState
      /\ r.pc = pc /\ r.pos = pos /\ r.map = client[c].map /\ r.file = client[c].file
    BY <1>1, <1>3, Zenon DEF CallState
<1> HIDE DEF r
<1>5. CallOK(r)
    BY <1>2, <1>4 DEF CallOK, DataPC, FreePC
<1>6. HandlerInv(inode_mtx, blocks, r, c)
    BY <1>4 DEF HandlerInv, AllocPC, FreePC, DataPC
<1>7. client' = [client EXCEPT ![c] = r]
    BY DEF r
<1> QED BY <1>4, <1>5, <1>6, <1>7, SameInodes, QuietStep, Zenon DEF IInv, TypeOK, DataPC

\* The data server tests the version or the allocation.
LEMMA CheckInv ==
    ASSUME IInv, NEW c \in Client, check_version(c) \/ check_allocated(c)
    PROVE  IInv'
<1>1. PICK pc \in DataPC :
          \/ client' = [client EXCEPT ![c] = NoCall]
          \/ client' = [client EXCEPT ![c] = [client[c] EXCEPT !.pc = pc]]
    <2>1. CASE check_version(c)
        <3>1. "fetch" \in DataPC
            BY DEF DataPC
        <3> QED BY <2>1, <3>1, Zenon DEF check_version
    <2>2. CASE check_allocated(c)
        <3>1. "store" \in DataPC
            BY SMTT(30) DEF DataPC
        <3> QED BY <2>2, <3>1, Zenon DEF check_allocated
    <2> QED BY <2>1, <2>2, Zenon
<1>2. client[c] \in CallState /\ client[c].pc \in DataPC
    BY Zenon DEF check_version, check_allocated, DataPC, IInv, TypeOK, CallState
<1>3. client[c].pos \in 1 .. Len(client[c].map)
    BY <1>2, CallsOK DEF IInv, CallOK
<1>4. /\ UNCHANGED <<version, blocks, inode_mtx, mac_mtx>>
      /\ content' \in [Server -> [Block -> File \union {Zeros}]]
    BY Zenon DEF check_version, check_allocated, IInv, TypeOK
<1>5. CASE client' = [client EXCEPT ![c] = NoCall]
    BY <1>2, <1>4, <1>5, EndCall, Zenon
<1>6. CASE client' = [client EXCEPT ![c] = [client[c] EXCEPT !.pc = pc]]
    <2>1. PICK pos \in 1 .. Len(client[c].map) : pos = client[c].pos
        BY <1>3
    <2>2. [client[c] EXCEPT !.pc = pc] = [client[c] EXCEPT !.pc = pc, !.pos = pos]
        BY <1>2, <2>1, Zenon DEF CallState
    <2>3. client' = [client EXCEPT ![c] = [client[c] EXCEPT !.pc = pc, !.pos = pos]]
        BY <1>6, <2>2, Zenon
    <2> QED BY <1>2, <1>4, <2>3, NextBlock, Zenon
<1> QED BY <1>1, <1>5, <1>6

\* A call is done with a block and goes on or returns.
LEMMA AdvanceInv ==
    ASSUME IInv, NEW c \in Client, client[c].pc \in DataPC,
           NEW pc \in DataPC, Advance(c, pc),
           content' \in [Server -> [Block -> File \union {Zeros}]],
           UNCHANGED <<version, blocks, inode_mtx, mac_mtx>>
    PROVE  IInv'
<1>1. client[c] \in CallState /\ client[c].pos \in Nat /\ Len(client[c].map) \in Nat
    BY DEF IInv, TypeOK, CallState
<1>2. CASE client[c].pos < client[c].hi /\ client[c].pos < Len(client[c].map)
    <2> DEFINE n == client[c].pos + 1
    <2>0. n \in 1 .. Len(client[c].map)
        BY <1>1, <1>2
    <2>1. PICK pos \in 1 .. Len(client[c].map) : pos = n
        BY <2>0, Zenon
    <2>2. client' = [client EXCEPT ![c] =
                        [client[c] EXCEPT !.pc = pc, !.pos = client[c].pos + 1]]
        BY <1>2 DEF Advance
    <2>3. client' = [client EXCEPT ![c] = [client[c] EXCEPT !.pc = pc, !.pos = pos]]
        BY <2>1, <2>2, Zenon
    <2> QED BY <2>3, NextBlock, Zenon
<1>3. CASE ~(client[c].pos < client[c].hi /\ client[c].pos < Len(client[c].map))
    <2>1. client' = [client EXCEPT ![c] = NoCall]
        BY <1>3, Zenon DEF Advance
    <2> QED BY <2>1, EndCall, Zenon
<1> QED BY <1>2, <1>3

\* read_data changes nothing on the server.
LEMMA ReadDataInv ==
    ASSUME IInv, NEW c \in Client, read_data(c)
    PROVE  IInv'
<1>1. client[c].pc \in DataPC /\ "read" \in DataPC
    BY DEF read_data, DataPC
<1>2. content' \in [Server -> [Block -> File \union {Zeros}]]
    BY DEF read_data, IInv, TypeOK
<1> QED BY <1>1, <1>2, AdvanceInv DEF read_data

\* write_data changes the content of a block only.
LEMMA WriteDataInv ==
    ASSUME IInv, NEW c \in Client, write_data(c)
    PROVE  IInv'
<1>1. client[c].pc \in DataPC /\ "write" \in DataPC
    BY Zenon DEF write_data, DataPC
<1> DEFINE e == client[c].map[client[c].pos]
<1>2. client[c].file \in File /\ e \in BlockInfo
    BY <1>1, CallsOK DEF IInv, CallOK, CallState, DataPC
<1>3. content' \in [Server -> [Block -> File \union {Zeros}]]
    BY <1>2, ZenonT(40) DEF write_data, IInv, TypeOK, BlockInfo
<1> QED BY <1>1, <1>3, AdvanceInv, Zenon DEF write_data

\* The lock is free, so that no other handler has the inode of f in hand.
LEMMA LockInodeInv ==
    ASSUME IInv, NEW c \in Client, lockInode(c)
    PROVE  IInv'
<1> DEFINE f == client[c].file
           r == [client[c] EXCEPT !.pc = "ask", !.inode = blocks[f]]
<1>1. CallOK(client[c]) /\ client[c] \in CallState /\ client[c].pc = "alloc" /\ f \in File
    BY CallsOK DEF IInv, CallOK, lockInode
<1>2. HandlerInv(inode_mtx, blocks, client[c], c)
    BY DEF IInv
<1>3. blocks[f] \in Seq(BlockInfo)
    BY <1>1 DEF IInv, TypeOK
<1>4. /\ r \in CallState
      /\ r.pc = "ask" /\ r.inode = blocks[f] /\ r.file = f
      /\ r.pos = client[c].pos /\ r.hi = client[c].hi
    BY <1>1, <1>3, Zenon DEF CallState, AllocPC
<1>5. client' = [client EXCEPT ![c] = r]
    BY Zenon DEF lockInode
<1> HIDE DEF r
<1>6. CallOK(r)
    BY <1>1, <1>4 DEF CallOK, FreePC, DataPC
<1>7. /\ inode_mtx' \in [File -> Client \union {NoOne}]
      /\ inode_mtx'[f] = c
      /\ \A g \in File \ {f} : inode_mtx'[g] = inode_mtx[g] /\ blocks'[g] = blocks[g]
    BY <1>1 DEF lockInode, IInv, TypeOK
<1>8. HandlerInv(inode_mtx', blocks, r, c)
    BY <1>1, <1>2, <1>4, <1>7 DEF HandlerInv, AllocPC, FreePC
<1>9. \A d \in Client \ {c} : HandlerInv(inode_mtx', blocks', client[d], d)
    BY <1>1, <1>7, OthersKeep, Zenon DEF lockInode
<1> HIDE DEF f
<1>10. UNCHANGED <<version, blocks, content, mac_mtx>>
    BY DEF lockInode
<1> QED BY <1>1, <1>4, <1>5, <1>6, <1>7, <1>8, <1>9, <1>10, QuietStep, Zenon DEF IInv, TypeOK

\* The client at hand is idle, so that it removes nothing; again the lock is free.
LEMMA FindBlockInv ==
    ASSUME IInv, NEW c \in Client, find_block(c)
    PROVE  IInv'
<1>1. PICK f \in File : \E p \in 1 .. Len(blocks[f]) :
          /\ inode_mtx[f] = NoOne
          /\ inode_mtx' = [inode_mtx EXCEPT ![f] = c]
          /\ client' = [client EXCEPT
                ![c].pc = "free", ![c].file = f, ![c].pos = p,
                ![c].inode = blocks[f], ![c].info = blocks[f][p]]
    BY Zenon DEF find_block
<1>2. PICK p \in 1 .. Len(blocks[f]) :
          client' = [client EXCEPT
                ![c].pc = "free", ![c].file = f, ![c].pos = p,
                ![c].inode = blocks[f], ![c].info = blocks[f][p]]
    BY <1>1, Zenon
<1> DEFINE r == [client[c] EXCEPT !.pc = "free", !.file = f, !.pos = p,
                     !.inode = blocks[f], !.info = blocks[f][p]]
<1>3. client[c] \in CallState /\ client[c].pc = "idle"
    BY DEF find_block, IInv, TypeOK, CallState
<1>4. blocks[f] \in Seq(BlockInfo) /\ blocks[f][p] \in BlockInfo /\ p \in Nat
    BY DEF IInv, TypeOK
<1>5. /\ r \in CallState
      /\ r.pc = "free" /\ r.file = f /\ r.pos = p
      /\ r.inode = blocks[f] /\ r.info = blocks[f][p]
    BY <1>3, <1>4, Zenon DEF CallState, FreePC
<1>6. client' = [client EXCEPT ![c] = r]
    BY <1>2, Zenon
<1> HIDE DEF r
<1>7. CallOK(r)
    BY <1>4, <1>5 DEF CallOK, DataPC
<1>8. /\ inode_mtx' \in [File -> Client \union {NoOne}]
      /\ inode_mtx'[f] = c
      /\ \A g \in File \ {f} : inode_mtx'[g] = inode_mtx[g] /\ blocks'[g] = blocks[g]
    BY <1>1 DEF find_block, IInv, TypeOK
<1>9. HandlerInv(inode_mtx', blocks, r, c)
    BY <1>5, <1>8 DEF HandlerInv, AllocPC, FreePC
<1>10. \A d \in Client \ {c} : HandlerInv(inode_mtx', blocks', client[d], d)
    BY <1>1, <1>8, OthersKeep, Zenon
<1>11. UNCHANGED <<version, blocks, content, mac_mtx>>
    BY DEF find_block
<1> QED BY <1>3, <1>5, <1>6, <1>7, <1>8, <1>9, <1>10, <1>11, QuietStep, Zenon DEF IInv, TypeOK

\* The server clears the block it has allocated.
LEMMA ZeroBlockInv ==
    ASSUME IInv, NEW c \in Client, zero_block(c)
    PROVE  IInv'
<1> DEFINE r == [client[c] EXCEPT !.pc = "record"]
<1>1. CallOK(client[c]) /\ client[c] \in CallState /\ client[c].pc = "zero"
    BY CallsOK DEF IInv, CallOK, zero_block
<1>2. HandlerInv(inode_mtx, blocks, client[c], c)
    BY DEF IInv
<1>3. client[c].info \in BlockInfo
    BY <1>1 DEF CallOK
<1>4. /\ r \in CallState
      /\ r.pc = "record" /\ r.info = client[c].info /\ r.file = client[c].file
      /\ r.inode = client[c].inode /\ r.pos = client[c].pos /\ r.hi = client[c].hi
    BY <1>1, Zenon DEF CallState, AllocPC
<1>5. client' = [client EXCEPT ![c] = r]
    BY DEF zero_block
<1> HIDE DEF r
<1>6. CallOK(r)
    BY <1>1, <1>3, <1>4 DEF CallOK, FreePC, DataPC
<1>7. HandlerInv(inode_mtx, blocks, r, c)
    BY <1>1, <1>2, <1>4, SMTT(30) DEF HandlerInv, AllocPC, FreePC
<1>8. /\ content' \in [Server -> [Block -> File \union {Zeros}]]
      /\ mac_mtx' \in [Server -> Client \union {NoOne}]
    BY <1>3 DEF zero_block, IInv, TypeOK, BlockInfo
<1>9. UNCHANGED <<version, blocks, inode_mtx>>
    BY DEF zero_block
<1>10. \A d \in Client \ {c} : HandlerInv(inode_mtx', blocks', client[d], d)
    BY <1>9, SameInodes
<1> QED BY <1>1, <1>4, <1>5, <1>6, <1>7, <1>8, <1>9, <1>10, QuietStep, Zenon DEF IInv, TypeOK
-----------------------------------------------------------------------------
\* What allocating and freeing a block do to the ownership

\* Versions fit in a byte: one up from an even version is odd, from an odd one even.
LEMMA NextVersion ==
    ASSUME NEW v \in 0 .. 255
    PROVE  /\ (v + 1) % 256 \in 0 .. 255
           /\ v % 2 # 1 => ((v + 1) % 256) % 2 = 1
           /\ v % 2 = 1 => ((v + 1) % 256) % 2 # 1
<1>1. CASE v = 255
    BY <1>1
<1>2. CASE v # 255
    <2>1. v + 1 \in 0 .. 255 /\ (v + 1) % 256 = v + 1
        BY <1>2
    <2> QED BY <2>1
<1> QED BY <1>1, <1>2

\* One version changes.
Bumped(ver, ver2, s, b, v) ==
    /\ ver2[s][b] = v
    /\ \A t \in Server, a \in Block : t # s \/ a # b => ver2[t][a] = ver[t][a]

\* Every owner names a block of a data server.
Typed(bl, cl) ==
    /\ bl \in [File -> Seq(BlockInfo)]
    /\ cl \in [Client -> CallState]
    /\ \A c \in Client : IsFresh(cl, c) => cl[c].info \in BlockInfo

\* Blocks that a file holds are blocks of a server.
LEMMA HeldTyped ==
    ASSUME NEW bl, NEW cl, Typed(bl, cl)
    PROVE  \A f \in File, i \in Nat : Holds(bl, cl, f, i) => bl[f][i] \in BlockInfo
BY DEF Typed, Holds

\* alloc_block: the block was free, so that no one had it.
LEMMA AllocOwner ==
    ASSUME NEW ver \in [Server -> [Block -> 0 .. 255]], NEW bl, NEW cl, Typed(bl, cl),
           Ownership(ver, bl, cl),
           NEW c \in Client, cl[c].pc = "ask", NEW r \in CallState, r.pc = "zero",
           NEW s \in Server, NEW b \in Block, ver[s][b] % 2 # 1,
           NEW v \in 0 .. 255, v % 2 = 1,
           r.info = [mac |-> s, block |-> b, version |-> v],
           NEW ver2, Bumped(ver, ver2, s, b, v)
    PROVE  Ownership(ver2, bl, [cl EXCEPT ![c] = r])
<1> DEFINE cl2 == [cl EXCEPT ![c] = r]
<1>1. cl2[c] = r /\ \A d \in Client \ {c} : cl2[d] = cl[d]
    BY DEF Typed
<1>2. /\ ver2[s][b] = v
      /\ \A t \in Server, a \in Block : t # s \/ a # b => ver2[t][a] = ver[t][a]
    BY DEF Bumped
<1> HIDE DEF cl2
<1>3. r.info.mac = s /\ r.info.block = b /\ r.info.version = v
    OBVIOUS
<1>4. \A f, i : Removing(cl2, f, i) <=> Removing(cl, f, i)
    BY <1>1 DEF Removing
<1>5. \A f, i : Holds(bl, cl2, f, i) <=> Holds(bl, cl, f, i)
    BY <1>4 DEF Holds
<1>6. IsFresh(cl2, c) /\ ~IsFresh(cl, c)
    BY <1>1 DEF IsFresh
<1>7. \A d \in Client \ {c} : (IsFresh(cl2, d) <=> IsFresh(cl, d)) /\ cl2[d].info = cl[d].info
    BY <1>1, ZenonT(40) DEF IsFresh
<1>8. \A f \in File, i \in Nat : Holds(bl, cl, f, i) =>
          /\ bl[f][i].mac \in Server /\ bl[f][i].block \in Block
          /\ bl[f][i].mac # s \/ bl[f][i].block # b
    <2> SUFFICES ASSUME NEW f \in File, NEW i \in Nat, Holds(bl, cl, f, i)
                 PROVE  /\ bl[f][i].mac \in Server /\ bl[f][i].block \in Block
                        /\ bl[f][i].mac # s \/ bl[f][i].block # b
        OBVIOUS
    <2>1. bl[f][i] \in BlockInfo
        BY HeldTyped
    <2>2. Current(ver, bl[f][i])
        BY Zenon DEF Ownership, OwnersCurrent
    <2> QED BY <2>1, <2>2 DEF Current, BlockInfo
<1>9. \A d \in Client : IsFresh(cl, d) =>
          /\ cl[d].info.mac \in Server /\ cl[d].info.block \in Block
          /\ cl[d].info.mac # s \/ cl[d].info.block # b
    BY ZenonT(40) DEF Typed, Ownership, OwnersCurrent, Current, BlockInfo
<1>10. OneOwner(bl, cl2)
    <2>1. \A f, g \in File, i, j \in Nat :
              Holds(bl, cl2, f, i) /\ Holds(bl, cl2, g, j) /\ SameBlock(bl[f][i], bl[g][j])
              => f = g /\ i = j
        BY <1>5, Zenon DEF Ownership, OneOwner
    <2>2. \A d \in Client, f \in File, i \in Nat :
              IsFresh(cl2, d) /\ Holds(bl, cl2, f, i) => ~SameBlock(bl[f][i], cl2[d].info)
        BY <1>1, <1>3, <1>5, <1>7, <1>8, SMTT(30) DEF Ownership, OneOwner, SameBlock
    <2>3. \A d, x \in Client :
              IsFresh(cl2, d) /\ IsFresh(cl2, x) /\ SameBlock(cl2[x].info, cl2[d].info) => d = x
        BY <1>1, <1>3, <1>7, <1>9, SMTT(30) DEF Ownership, OneOwner, SameBlock
    <2> QED BY <2>1, <2>2, <2>3 DEF OneOwner
<1>11. OwnersCurrent(ver2, bl, cl2)
    <2>1. \A f \in File, i \in Nat : Holds(bl, cl2, f, i) => Current(ver2, bl[f][i])
        <3> SUFFICES ASSUME NEW f \in File, NEW i \in Nat, Holds(bl, cl, f, i)
                     PROVE  Current(ver2, bl[f][i])
            BY <1>5
        <3>1. Current(ver, bl[f][i])
            BY DEF Ownership, OwnersCurrent
        <3> QED BY <3>1, <1>2, <1>8, Zenon DEF Current
    <2>2. \A d \in Client : IsFresh(cl2, d) => Current(ver2, cl2[d].info)
        <3> SUFFICES ASSUME NEW d \in Client, IsFresh(cl2, d)
                     PROVE  Current(ver2, cl2[d].info)
            BY Zenon
        <3>1. CASE d = c
            BY <3>1, <1>1, <1>2, <1>3, ZenonT(40) DEF Current
        <3>2. CASE d # c
            <4>1. IsFresh(cl, d) /\ cl2[d].info = cl[d].info
                BY <3>2, <1>7, Zenon
            <4>2. Current(ver, cl[d].info)
                BY <4>1, Zenon DEF Ownership, OwnersCurrent
            <4> QED BY <4>1, <4>2, <1>2, <1>9 DEF Current
        <3> QED BY <3>1, <3>2, Zenon
    <2> QED BY <2>1, <2>2, Zenon DEF OwnersCurrent
<1>12. NoneLost(ver2, bl, cl2)
    <2> SUFFICES ASSUME NEW t \in Server, NEW a \in Block, ver2[t][a] % 2 = 1
                 PROVE  Owned(bl, cl2, t, a)
        BY SMTT(30) DEF NoneLost
    <2>1. CASE t = s /\ a = b
        BY <2>1, <1>1, <1>3, <1>6 DEF Owned
    <2>2. CASE t # s \/ a # b
        <3>1. Owned(bl, cl, t, a)
            BY <2>2, <1>2 DEF Ownership, NoneLost
        <3> QED BY <3>1, <1>5, <1>6, <1>7, ZenonT(40) DEF Owned
    <2> QED BY <2>1, <2>2
<1> QED BY <1>10, <1>11, <1>12 DEF Ownership, cl2
\* free_on_server: the block of the entry is current, and no other entry has it.
LEMMA FreeOwner ==
    ASSUME NEW ver, NEW bl, NEW cl, Typed(bl, cl), Ownership(ver, bl, cl),
           NEW c \in Client, cl[c].pc = "free", NEW r \in CallState, r.pc = "remove",
           NEW f \in File, NEW p \in 1 .. Len(bl[f]), r.file = f, r.pos = p,
           \A d \in Client \ {c} : cl[d].pc = "remove" => cl[d].file # f,
           NEW v, v % 2 # 1,
           NEW ver2, Bumped(ver, ver2, bl[f][p].mac, bl[f][p].block, v)
    PROVE  Ownership(ver2, bl, [cl EXCEPT ![c] = r])
<1> DEFINE cl2 == [cl EXCEPT ![c] = r]
           s == bl[f][p].mac
           b == bl[f][p].block
<1>1. cl2[c] = r /\ \A d \in Client \ {c} : cl2[d] = cl[d]
    BY DEF Typed
<1>2. /\ ver2[s][b] = v
      /\ \A t \in Server, a \in Block : t # s \/ a # b => ver2[t][a] = ver[t][a]
    BY DEF Bumped
<1>3. p \in Nat /\ Holds(bl, cl, f, p)
    BY DEF Holds, Removing, Typed
<1> HIDE DEF cl2
<1>4. \A g, i : Removing(cl2, g, i) <=> Removing(cl, g, i) \/ (g = f /\ i = p)
    BY <1>1 DEF Removing
<1>5. \A g, i : Holds(bl, cl2, g, i) <=> Holds(bl, cl, g, i) /\ ~(g = f /\ i = p)
    BY <1>4 DEF Holds
<1>6. \A d \in Client : IsFresh(cl2, d) <=> IsFresh(cl, d)
    BY <1>1 DEF IsFresh
<1>7. \A d \in Client : IsFresh(cl, d) => cl2[d].info = cl[d].info
    BY <1>1, ZenonT(40) DEF IsFresh
<1>8. \A g \in File, i \in Nat : Holds(bl, cl2, g, i) =>
          /\ bl[g][i].mac \in Server /\ bl[g][i].block \in Block
          /\ bl[g][i].mac # s \/ bl[g][i].block # b
    <2> SUFFICES ASSUME NEW g \in File, NEW i \in Nat, Holds(bl, cl2, g, i)
                 PROVE  /\ bl[g][i].mac \in Server /\ bl[g][i].block \in Block
                        /\ bl[g][i].mac # s \/ bl[g][i].block # b
        OBVIOUS
    <2>1. Holds(bl, cl, g, i) /\ ~(g = f /\ i = p)
        BY <1>5
    <2>2. bl[g][i] \in BlockInfo
        BY <2>1, HeldTyped
    <2>3. ~SameBlock(bl[g][i], bl[f][p])
        BY <1>3, <2>1, Zenon DEF Ownership, OneOwner
    <2> QED BY <2>2, <2>3 DEF SameBlock, BlockInfo
<1>9. \A d \in Client : IsFresh(cl, d) =>
          /\ cl[d].info.mac \in Server /\ cl[d].info.block \in Block
          /\ cl[d].info.mac # s \/ cl[d].info.block # b
    BY <1>3, SMTT(30) DEF Typed, Ownership, OneOwner, SameBlock, BlockInfo
<1>10. OneOwner(bl, cl2)
    BY <1>5, <1>6, <1>7, SMTT(30) DEF Ownership, OneOwner
<1>11. OwnersCurrent(ver2, bl, cl2)
    <2>1. \A g \in File, i \in Nat : Holds(bl, cl2, g, i) => Current(ver2, bl[g][i])
        <3> SUFFICES ASSUME NEW g \in File, NEW i \in Nat, Holds(bl, cl2, g, i)
                     PROVE  Current(ver2, bl[g][i])
            OBVIOUS
        <3>1. Current(ver, bl[g][i])
            <4>1. Holds(bl, cl, g, i)
                BY <1>5, Zenon
            <4> QED BY <4>1, Zenon DEF Ownership, OwnersCurrent
        <3>2. /\ bl[g][i].mac \in Server /\ bl[g][i].block \in Block
              /\ bl[g][i].mac # s \/ bl[g][i].block # b
            BY <1>8, Zenon
        <3>3. ver2[bl[g][i].mac][bl[g][i].block] = ver[bl[g][i].mac][bl[g][i].block]
            BY <1>2, <3>2, ZenonT(40)
        <3> QED BY <3>1, <3>3, Zenon DEF Current
    <2>2. \A d \in Client : IsFresh(cl2, d) => Current(ver2, cl2[d].info)
        <3> SUFFICES ASSUME NEW d \in Client, IsFresh(cl, d)
                     PROVE  Current(ver2, cl[d].info)
            BY <1>6, <1>7
        <3>1. Current(ver, cl[d].info)
            BY Zenon DEF Ownership, OwnersCurrent
        <3> QED BY <3>1, <1>2, <1>9 DEF Current
    <2> QED BY <2>1, <2>2, SMTT(30) DEF OwnersCurrent
<1>12. NoneLost(ver2, bl, cl2)
    <2> SUFFICES ASSUME NEW t \in Server, NEW a \in Block, ver2[t][a] % 2 = 1
                 PROVE  Owned(bl, cl2, t, a)
        BY DEF NoneLost
    <2>1. t # s \/ a # b
        BY <1>2, SMTT(30)
    <2>2. Owned(bl, cl, t, a)
        BY <2>1, <1>2 DEF Ownership, NoneLost
    <2> QED BY <2>1, <2>2, <1>5, <1>6, <1>7, Zenon DEF Owned
<1> QED BY <1>10, <1>11, <1>12 DEF Ownership, cl2
\* allocate_block: the fresh block of the handler becomes the last one of the file.
LEMMA RecordOwner ==
    ASSUME NEW ver, NEW bl, NEW cl, Typed(bl, cl), Ownership(ver, bl, cl),
           NEW c \in Client, cl[c].pc = "record",
           NEW r \in CallState, r.pc \in {"alloc", "write"}, NEW f \in File,
           \A d \in Client : cl[d].pc = "remove" => cl[d].file # f,
           NEW bl2, bl2 = [bl EXCEPT ![f] = Append(bl[f], cl[c].info)]
    PROVE  Ownership(ver, bl2, [cl EXCEPT ![c] = r])
<1> DEFINE cl2 == [cl EXCEPT ![c] = r]
           last == Len(bl[f]) + 1
<1>1. cl2[c] = r /\ \A d \in Client \ {c} : cl2[d] = cl[d]
    BY DEF Typed
<1> HIDE DEF cl2
<1>2. IsFresh(cl, c) /\ ~IsFresh(cl2, c)
    BY <1>1 DEF IsFresh
<1>3. \A d \in Client \ {c} : (IsFresh(cl2, d) <=> IsFresh(cl, d)) /\ cl2[d].info = cl[d].info
    BY <1>1 DEF IsFresh
<1>4. \A g, i : Removing(cl2, g, i) <=> Removing(cl, g, i)
    BY <1>1 DEF Removing
<1>5. cl[c].info \in BlockInfo /\ bl[f] \in Seq(BlockInfo)
    BY <1>2 DEF Typed
<1>6. /\ \A g \in File \ {f} : bl2[g] = bl[g]
      /\ bl2[f] = Append(bl[f], cl[c].info)
    BY DEF Typed
<1>7. /\ last \in Nat /\ last \notin 1 .. Len(bl[f])
      /\ 1 .. Len(bl2[f]) = (1 .. Len(bl[f])) \union {last}
      /\ bl2[f][last] = cl[c].info
      /\ \A i \in 1 .. Len(bl[f]) : bl2[f][i] = bl[f][i]
    BY <1>5, <1>6
<1>8. \A g \in File : \A i : Holds(bl, cl, g, i) => bl2[g][i] = bl[g][i] /\ ~(g = f /\ i = last)
    BY <1>6, <1>7 DEF Holds
<1>9. ~Removing(cl, f, last)
    BY DEF Removing
<1>10. \A g \in File : \A i : Holds(bl2, cl2, g, i) <=> Holds(bl, cl, g, i) \/ (g = f /\ i = last)
    BY <1>4, <1>6, <1>7, <1>9 DEF Holds
<1> HIDE DEF last
<1>11. OneOwner(bl2, cl2)
    <2>1. \A g, h \in File, i, j \in Nat :
              Holds(bl2, cl2, g, i) /\ Holds(bl2, cl2, h, j) /\ SameBlock(bl2[g][i], bl2[h][j])
              => g = h /\ i = j
        <3> SUFFICES ASSUME NEW g \in File, NEW h \in File, NEW i \in Nat, NEW j \in Nat,
                            Holds(bl2, cl2, g, i), Holds(bl2, cl2, h, j),
                            SameBlock(bl2[g][i], bl2[h][j]), ~(g = h /\ i = j)
                     PROVE  FALSE
            BY Zenon
        <3>1. CASE Holds(bl, cl, g, i) /\ Holds(bl, cl, h, j)
            <4>1. SameBlock(bl[g][i], bl[h][j])
                BY <3>1, <1>8, Zenon
            <4> QED BY <3>1, <4>1 DEF Ownership, OneOwner
        <3>2. CASE Holds(bl, cl, g, i) /\ h = f /\ j = last
            <4>1. SameBlock(bl[g][i], cl[c].info)
                BY <3>2, <1>7, <1>8, ZenonT(40)
            <4> QED BY <3>2, <4>1, <1>2 DEF Ownership, OneOwner
        <3>3. CASE Holds(bl, cl, h, j) /\ g = f /\ i = last
            <4>1. SameBlock(bl[h][j], cl[c].info)
                BY <3>3, <1>7, <1>8, ZenonT(40) DEF SameBlock
            <4> QED BY <3>3, <4>1, <1>2 DEF Ownership, OneOwner
        <3>4. Holds(bl, cl, g, i) \/ (g = f /\ i = last)
            BY <1>10, Zenon
        <3>5. Holds(bl, cl, h, j) \/ (h = f /\ j = last)
            BY <1>10, Zenon
        <3> QED BY <3>1, <3>2, <3>3, <3>4, <3>5
    <2>2. \A d \in Client, g \in File, i \in Nat :
              IsFresh(cl2, d) /\ Holds(bl2, cl2, g, i) => ~SameBlock(bl2[g][i], cl2[d].info)
        <3> SUFFICES ASSUME NEW d \in Client, NEW g \in File, NEW i \in Nat,
                            IsFresh(cl2, d), Holds(bl2, cl2, g, i)
                     PROVE  ~SameBlock(bl2[g][i], cl2[d].info)
            BY Zenon
        <3>1. d # c /\ IsFresh(cl, d) /\ cl2[d].info = cl[d].info
            BY <1>2, <1>3
        <3>2. CASE Holds(bl, cl, g, i)
            BY <3>1, <3>2, <1>8, ZenonT(40) DEF Ownership, OneOwner
        <3>3. CASE g = f /\ i = last
            <4>1. ~SameBlock(cl[c].info, cl[d].info)
                BY <3>1, <1>2 DEF Ownership, OneOwner
            <4> QED BY <3>1, <3>3, <4>1, <1>7
        <3> QED BY <3>2, <3>3, <1>10, Zenon
    <2>3. \A d, x \in Client :
              IsFresh(cl2, d) /\ IsFresh(cl2, x) /\ SameBlock(cl2[x].info, cl2[d].info) => d = x
        BY <1>2, <1>3 DEF Ownership, OneOwner
    <2> QED BY <2>1, <2>2, <2>3, Zenon DEF OneOwner
<1>12. OwnersCurrent(ver, bl2, cl2)
    <2>1. \A d \in Client : IsFresh(cl, d) => Current(ver, cl[d].info)
        BY Zenon DEF Ownership, OwnersCurrent
    <2>2. \A g \in File, i \in Nat : Holds(bl, cl, g, i) => Current(ver, bl[g][i])
        BY Zenon DEF Ownership, OwnersCurrent
    <2>3. ASSUME NEW g \in File, NEW i \in Nat, Holds(bl2, cl2, g, i)
          PROVE  Current(ver, bl2[g][i])
        <3>1. CASE Holds(bl, cl, g, i)
            <4>1. Current(ver, bl[g][i]) /\ bl2[g][i] = bl[g][i]
                BY <3>1, <2>2, <1>8, ZenonT(40)
            <4> QED BY <4>1, Zenon
        <3>2. CASE g = f /\ i = last
            BY <3>2, <2>1, <1>2, <1>7, Zenon
        <3> QED BY <2>3, <3>1, <3>2, <1>10, Zenon
    <2>4. \A d \in Client : IsFresh(cl2, d) => Current(ver, cl2[d].info)
        BY <2>1, <1>2, <1>3
    <2> QED BY <2>3, <2>4, Zenon DEF OwnersCurrent
<1>13. NoneLost(ver, bl2, cl2)
    <2> SUFFICES ASSUME NEW t \in Server, NEW a \in Block, ver[t][a] % 2 = 1
                 PROVE  Owned(bl2, cl2, t, a)
        BY Zenon DEF NoneLost
    <2>1. Owned(bl, cl, t, a)
        BY DEF Ownership, NoneLost
    <2>2. ASSUME NEW g \in File, NEW i \in Nat,
                 Holds(bl, cl, g, i), bl[g][i].mac = t, bl[g][i].block = a
          PROVE  Owned(bl2, cl2, t, a)
        <3>1. Holds(bl2, cl2, g, i) /\ bl2[g][i] = bl[g][i]
            BY <2>2, <1>8, <1>10, Zenon
        <3> QED BY <2>2, <3>1, Zenon DEF Owned
    <2>3. ASSUME NEW d \in Client, IsFresh(cl, d), cl[d].info.mac = t, cl[d].info.block = a
          PROVE  Owned(bl2, cl2, t, a)
        <3>1. CASE d = c
            <4>1. Holds(bl2, cl2, f, last)
                BY <1>10, Zenon
            <4> QED BY <2>3, <3>1, <4>1, <1>7, ZenonT(40) DEF Owned
        <3>2. CASE d # c
            BY <2>3, <3>2, <1>3 DEF Owned
        <3> QED BY <3>1, <3>2
    <2> QED BY <2>1, <2>2, <2>3, Zenon DEF Owned
<1> QED BY <1>11, <1>12, <1>13 DEF Ownership, cl2

\* free_block: the entry that held nothing goes, and those behind it move up.
LEMMA RemoveOwner ==
    ASSUME NEW ver, NEW bl, NEW cl, Typed(bl, cl), Ownership(ver, bl, cl),
           NEW c \in Client, cl[c].pc = "remove",
           NEW f \in File, NEW p \in 1 .. Len(bl[f]), cl[c].file = f, cl[c].pos = p,
           \A d \in Client \ {c} : cl[d].pc = "remove" => cl[d].file # f,
           NEW bl2, bl2 = [bl EXCEPT ![f] = Without(bl[f], p)]
    PROVE  Ownership(ver, bl2, [cl EXCEPT ![c] = NoCall])
<1> DEFINE cl2 == [cl EXCEPT ![c] = NoCall]
           Old(g, i) == IF g = f /\ i >= p THEN i + 1 ELSE i
<1>1. cl2[c] = NoCall /\ \A d \in Client \ {c} : cl2[d] = cl[d]
    BY DEF Typed
<1> HIDE DEF cl2
<1>2. \A d \in Client : IsFresh(cl2, d) <=> IsFresh(cl, d)
    BY <1>1, NoCallOK DEF IsFresh
<1>3. \A d \in Client : IsFresh(cl, d) => cl2[d].info = cl[d].info
    BY <1>1, SMTT(30) DEF IsFresh
<1>4. \A g, i : g # f => (Removing(cl2, g, i) <=> Removing(cl, g, i))
    BY <1>1, NoCallOK DEF Removing
<1>5. \A i : ~Removing(cl2, f, i)
    BY <1>1, NoCallOK DEF Removing
<1>6. \A i : Removing(cl, f, i) <=> i = p
    BY DEF Removing
<1>7. bl[f] \in Seq(BlockInfo) /\ Len(bl[f]) \in Nat \ {0} /\ p \in Nat
    BY DEF Typed
<1>8. /\ \A g \in File \ {f} : bl2[g] = bl[g]
      /\ bl2[f] = Without(bl[f], p)
    BY DEF Typed
<1>9. /\ Len(bl2[f]) = Len(bl[f]) - 1
      /\ \A i \in 1 .. Len(bl[f]) - 1 : bl2[f][i] = bl[f][Old(f, i)]
    BY <1>7, <1>8 DEF Without
<1>10. \A g \in File, i \in Nat : Holds(bl2, cl2, g, i) =>
          Old(g, i) \in Nat /\ Holds(bl, cl, g, Old(g, i)) /\ bl2[g][i] = bl[g][Old(g, i)]
    BY <1>4, <1>6, <1>7, <1>8, <1>9 DEF Holds
<1>11. \A g \in File, i \in Nat : Holds(bl, cl, g, i) =>
          \E j \in Nat : Holds(bl2, cl2, g, j) /\ Old(g, j) = i
    <2> SUFFICES ASSUME NEW g \in File, NEW i \in Nat, Holds(bl, cl, g, i)
                 PROVE  \E j \in Nat : Holds(bl2, cl2, g, j) /\ Old(g, j) = i
        BY Zenon
    <2>1. CASE g # f
        BY <2>1, <1>4, <1>8 DEF Holds
    <2>2. CASE g = f /\ i < p
        BY <2>2, <1>5, <1>7, <1>9 DEF Holds
    <2>3. CASE g = f /\ i > p
        <3>1. i - 1 \in Nat /\ Old(g, i - 1) = i /\ Holds(bl2, cl2, g, i - 1)
            BY <2>3, <1>5, <1>7, <1>9 DEF Holds
        <3> QED BY <3>1
    <2>4. ~(g = f /\ i = p)
        BY <1>6 DEF Holds
    <2>5. i < p \/ i = p \/ i > p
        BY <1>7
    <2> QED BY <2>1, <2>2, <2>3, <2>4, <2>5, Zenon
<1>12. \A g \in File, i, j \in Nat : Old(g, i) = Old(g, j) => i = j
    BY <1>7
<1> HIDE DEF Old
<1>13. OneOwner(bl2, cl2)
    <2>1. \A g, h \in File, i, j \in Nat :
              Holds(bl2, cl2, g, i) /\ Holds(bl2, cl2, h, j) /\ SameBlock(bl2[g][i], bl2[h][j])
              => g = h /\ i = j
        <3> SUFFICES ASSUME NEW g \in File, NEW h \in File, NEW i \in Nat, NEW j \in Nat,
                            Holds(bl2, cl2, g, i), Holds(bl2, cl2, h, j),
                            SameBlock(bl2[g][i], bl2[h][j])
                     PROVE  g = h /\ i = j
            OBVIOUS
        <3>1. Old(g, i) \in Nat /\ Holds(bl, cl, g, Old(g, i)) /\ bl2[g][i] = bl[g][Old(g, i)]
            BY <1>10, Zenon
        <3>2. Old(h, j) \in Nat /\ Holds(bl, cl, h, Old(h, j)) /\ bl2[h][j] = bl[h][Old(h, j)]
            BY <1>10, Zenon
        <3>3. g = h /\ Old(g, i) = Old(h, j)
            BY <3>1, <3>2 DEF Ownership, OneOwner
        <3> QED BY <3>3, <1>12, SMTT(30)
    <2>2. \A d \in Client, g \in File, i \in Nat :
              IsFresh(cl2, d) /\ Holds(bl2, cl2, g, i) => ~SameBlock(bl2[g][i], cl2[d].info)
        BY <1>2, <1>3, <1>10 DEF Ownership, OneOwner
    <2>3. \A d, x \in Client :
              IsFresh(cl2, d) /\ IsFresh(cl2, x) /\ SameBlock(cl2[x].info, cl2[d].info) => d = x
        BY <1>2, <1>3 DEF Ownership, OneOwner
    <2> QED BY <2>1, <2>2, <2>3, ZenonT(40) DEF OneOwner
<1>14. OwnersCurrent(ver, bl2, cl2)
    BY <1>2, <1>3, <1>10, ZenonT(40) DEF Ownership, OwnersCurrent
<1>15. NoneLost(ver, bl2, cl2)
    <2> SUFFICES ASSUME NEW t \in Server, NEW a \in Block, ver[t][a] % 2 = 1
                 PROVE  Owned(bl2, cl2, t, a)
        BY Zenon DEF NoneLost
    <2>1. Owned(bl, cl, t, a)
        BY SMTT(30) DEF Ownership, NoneLost
    <2>2. ASSUME NEW g \in File, NEW i \in Nat,
                 Holds(bl, cl, g, i), bl[g][i].mac = t, bl[g][i].block = a
          PROVE  Owned(bl2, cl2, t, a)
        <3>1. PICK j \in Nat : Holds(bl2, cl2, g, j) /\ Old(g, j) = i
            BY <2>2, <1>11, Zenon
        <3>2. bl2[g][j].mac = t /\ bl2[g][j].block = a
            BY <2>2, <3>1, <1>10, ZenonT(40)
        <3> QED BY <3>1, <3>2 DEF Owned
    <2>3. CASE \E d \in Client : IsFresh(cl, d) /\ cl[d].info.mac = t /\ cl[d].info.block = a
        BY <2>3, <1>2, <1>3 DEF Owned
    <2> QED BY <2>1, <2>2, <2>3, Zenon DEF Owned
<1> QED BY <1>13, <1>14, <1>15 DEF Ownership, cl2
-----------------------------------------------------------------------------
\* The steps that allocate or free a block

\* The types that the lemmas on owners assume.
LEMMA StateTyped ==
    IInv => Typed(blocks, client)
<1> SUFFICES ASSUME IInv PROVE Typed(blocks, client)
    OBVIOUS
<1>1. \A c \in Client : IsFresh(client, c) => client[c].info \in BlockInfo
    BY CallsOK DEF IInv, CallOK, IsFresh
<1> QED BY <1>1 DEF IInv, TypeOK, Typed, CallState

\* A handler that has locked the inode of a file is the only one that removes from it.
LEMMA OneRemover ==
    ASSUME IInv, NEW c \in Client, client[c].pc \in AllocPC \union FreePC
    PROVE  \A d \in Client \ {c} :
               client[d].pc = "remove" => client[d].file # client[c].file
BY DEF IInv, HandlerInv, FreePC

\* alloc_block marks a block, which the call owns from then on.
LEMMA AllocBlockInv ==
    ASSUME IInv, NEW c \in Client, alloc_block(c)
    PROVE  IInv'
<1>1. PICK s \in Server, b \in Block :
          /\ ~Allocated(s, b)
          /\ mac_mtx' = [mac_mtx EXCEPT ![s] = c]
          /\ version' = [version EXCEPT ![s][b] = (version[s][b] + 1) % 256]
          /\ client' = [client EXCEPT
                ![c].pc = "zero",
                ![c].info = [mac |-> s, block |-> b,
                             version |-> (version[s][b] + 1) % 256]]
    BY ZenonT(40) DEF alloc_block
<1>2. version \in [Server -> [Block -> 0 .. 255]] /\ version[s][b] \in 0 .. 255
    BY SMTT(30) DEF IInv, TypeOK
<1>3. PICK v \in 0 .. 255 : v = (version[s][b] + 1) % 256 /\ v % 2 = 1
    BY <1>1, <1>2, NextVersion DEF Allocated
<1> DEFINE e == [mac |-> s, block |-> b, version |-> v]
           r == [client[c] EXCEPT !.pc = "zero", !.info = e]
<1>4. CallOK(client[c]) /\ client[c] \in CallState /\ client[c].pc = "ask"
    BY CallsOK DEF IInv, CallOK, alloc_block
<1>5. HandlerInv(inode_mtx, blocks, client[c], c)
    BY DEF IInv
<1>6. e \in BlockInfo
    BY DEF BlockInfo
<1>7. client' = [client EXCEPT ![c] = r]
    BY <1>1, <1>3, ZenonT(40)
<1> HIDE DEF e
<1>8. /\ r \in CallState
      /\ r.pc = "zero" /\ r.info = e /\ r.file = client[c].file
      /\ r.inode = client[c].inode /\ r.pos = client[c].pos /\ r.hi = client[c].hi
    BY <1>4, <1>6, Zenon DEF CallState, AllocPC
<1> HIDE DEF r
<1>9. CallOK(r)
    BY <1>4, <1>6, <1>8 DEF CallOK, FreePC, DataPC
<1>10. UNCHANGED <<content, blocks, inode_mtx>>
    BY DEF alloc_block
<1>11. HandlerInv(inode_mtx', blocks', r, c)
    BY <1>4, <1>5, <1>8, <1>10, SMTT(30) DEF HandlerInv, AllocPC, FreePC
<1>12. /\ version' \in [Server -> [Block -> 0 .. 255]]
       /\ Bumped(version, version', s, b, v)
    BY <1>1, <1>2, <1>3, ZenonT(40) DEF Bumped
<1>13. mac_mtx' \in [Server -> Client \union {NoOne}]
    BY <1>1 DEF IInv, TypeOK
<1>14. Ownership(version', blocks, [client EXCEPT ![c] = r])
    <2>1. r.info = [mac |-> s, block |-> b, version |-> v]
        BY <1>8 DEF e
    <2>2. version[s][b] % 2 # 1
        BY <1>1 DEF Allocated
    <2> QED BY <1>2, <1>3, <1>4, <1>8, <1>12, <2>1, <2>2, StateTyped, AllocOwner, ZenonT(40)
           DEF IInv
<1>15. \A d \in Client \ {c} : HandlerInv(inode_mtx', blocks', client[d], d)
    BY <1>10, SameInodes
<1>16. Ownership(version', blocks', client')
    BY <1>7, <1>10, <1>14
<1>17. /\ content' \in [Server -> [Block -> File \union {Zeros}]]
       /\ blocks' \in [File -> Seq(BlockInfo)]
       /\ inode_mtx' \in [File -> Client \union {NoOne}]
    BY <1>10 DEF IInv, TypeOK
<1> QED BY <1>7, <1>9, <1>11, <1>12, <1>13, <1>15, <1>16, <1>17, OneCall, Zenon

\* The entry is current, so that the data server never refuses to free its block.
LEMMA FreeOnServerInv ==
    ASSUME IInv, NEW c \in Client, free_on_server(c)
    PROVE  IInv'
<1> DEFINE f == client[c].file
           p == client[c].pos
           e == client[c].info
           r == [client[c] EXCEPT !.pc = "remove"]
<1>1. CallOK(client[c]) /\ client[c] \in CallState /\ client[c].pc = "free"
    BY CallsOK DEF IInv, CallOK, free_on_server
<1>2. HandlerInv(inode_mtx, blocks, client[c], c)
    BY DEF IInv
<1>3. f \in File /\ e \in BlockInfo
    BY <1>1 DEF CallOK, FreePC
<1>4. p \in 1 .. Len(blocks[f]) /\ e = blocks[f][p] /\ p \in Nat
    BY <1>1, <1>2 DEF HandlerInv, FreePC, CallState
<1>5. \A d \in Client \ {c} : client[d].pc = "remove" => client[d].file # f
    BY <1>1, OneRemover DEF FreePC
<1>6. Holds(blocks, client, f, p)
    BY <1>1, <1>4, <1>5, ZenonT(40) DEF Holds, Removing
<1>7. Current(version, e)
    BY <1>3, <1>4, <1>6 DEF IInv, Ownership, OwnersCurrent
<1>8. Allocated(e.mac, e.block)
    BY <1>7, ZenonT(40) DEF Current, Allocated
<1>9. /\ version' = [version EXCEPT ![e.mac][e.block] = (version[e.mac][e.block] + 1) % 256]
      /\ inode_mtx' = inode_mtx
      /\ client' = [client EXCEPT ![c] = r]
      /\ UNCHANGED <<content, blocks, mac_mtx>>
    BY <1>8 DEF free_on_server
<1>10. /\ r \in CallState
       /\ r.pc = "remove" /\ r.file = f /\ r.pos = p /\ r.info = e
       /\ r.inode = client[c].inode
    BY <1>1, Zenon DEF CallState, FreePC
<1> HIDE DEF r
<1>11. CallOK(r)
    BY <1>3, <1>10, SMTT(30) DEF CallOK, FreePC, DataPC
<1>12. HandlerInv(inode_mtx, blocks, r, c)
    BY <1>1, <1>2, <1>10 DEF HandlerInv, AllocPC, FreePC
<1>13. e.mac \in Server /\ e.block \in Block
    BY <1>3, SMTT(30) DEF BlockInfo
<1>14. version \in [Server -> [Block -> 0 .. 255]]
    BY SMTT(30) DEF IInv, TypeOK
<1>15. PICK v \in 0 .. 255 : v = (version[e.mac][e.block] + 1) % 256 /\ v % 2 # 1
    <2>1. PICK w \in 0 .. 255 : w = version[e.mac][e.block]
        BY <1>13, <1>14, ZenonT(40)
    <2>2. w % 2 = 1
        BY <1>7, <2>1 DEF Current
    <2>3. (w + 1) % 256 \in 0 .. 255 /\ ((w + 1) % 256) % 2 # 1
        BY <2>2, NextVersion, ZenonT(40)
    <2> QED BY <2>1, <2>3, ZenonT(40)
<1>16. /\ version' \in [Server -> [Block -> 0 .. 255]]
       /\ Bumped(version, version', e.mac, e.block, v)
    <2>1. version' = [version EXCEPT ![e.mac][e.block] = v]
        BY <1>9, <1>15, Zenon
    <2> HIDE DEF e
    <2> QED BY <2>1, <1>13, <1>14 DEF Bumped
<1>17. Bumped(version, version', blocks[f][p].mac, blocks[f][p].block, v)
    BY <1>4, <1>16, Zenon
<1> HIDE DEF e, f, p
<1>18. Ownership(version', blocks, [client EXCEPT ![c] = r])
    BY <1>1, <1>3, <1>4, <1>5, <1>10, <1>15, <1>17, StateTyped, FreeOwner, ZenonT(40) DEF IInv
<1>19. \A d \in Client \ {c} : HandlerInv(inode_mtx', blocks', client[d], d)
    BY <1>9, SameInodes
<1>20. Ownership(version', blocks', client') /\ HandlerInv(inode_mtx', blocks', r, c)
    BY <1>9, <1>12, <1>18
<1>21. /\ content' \in [Server -> [Block -> File \union {Zeros}]]
       /\ blocks' \in [File -> Seq(BlockInfo)]
       /\ inode_mtx' \in [File -> Client \union {NoOne}]
       /\ mac_mtx' \in [Server -> Client \union {NoOne}]
    BY <1>9 DEF IInv, TypeOK
<1> QED BY <1>9, <1>11, <1>16, <1>19, <1>20, <1>21, OneCall, ZenonT(40)
\* allocate_block writes the block into the inode.
LEMMA AllocateBlockInv ==
    ASSUME IInv, NEW c \in Client, allocate_block(c)
    PROVE  IInv'
<1> DEFINE f == client[c].file
           e == client[c].info
           map == Append(client[c].map, e)
<1>1. PICK pc \in {"alloc", "write"} :
          pc = IF Len(map) < client[c].hi THEN "alloc" ELSE "write"
    OBVIOUS
<1> DEFINE r == [client[c] EXCEPT !.pc = pc, !.map = map, !.inode = <<>>, !.info = NoOne]
<1>2. CallOK(client[c]) /\ client[c] \in CallState /\ client[c].pc = "record"
    BY CallsOK DEF IInv, CallOK, allocate_block
<1>3. f \in File /\ e \in BlockInfo
    BY <1>2, SMTT(30) DEF CallOK
<1>4. inode_mtx[f] = c /\ client[c].inode = blocks[f] /\ client[c].pos \in 1 .. client[c].hi
    BY <1>2 DEF IInv, HandlerInv, AllocPC
<1>5. map \in Seq(BlockInfo) /\ Len(map) \in Nat
    BY <1>2, <1>3 DEF CallState
<1>6. client' = [client EXCEPT ![c] = r]
    BY <1>1, Zenon DEF allocate_block
<1> HIDE DEF map
<1>7. /\ r \in CallState
      /\ r.pc = pc /\ r.file = f /\ r.map = map /\ r.pos = client[c].pos /\ r.hi = client[c].hi
    <2>1. <<>> \in Seq(BlockInfo)
        OBVIOUS
    <2> QED BY <1>2, <1>5, <2>1, Zenon DEF CallState, DataPC
<1>8. pc = "write" => client[c].pos \in 1 .. Len(map)
    BY <1>1, <1>2, <1>4, <1>5 DEF CallState
<1> HIDE DEF r
<1>9. CallOK(r)
    BY <1>3, <1>7, <1>8 DEF CallOK, FreePC, DataPC
<1>10. HandlerInv(inode_mtx', blocks', r, c)
    BY <1>4, <1>7 DEF HandlerInv, AllocPC, FreePC
<1>11. /\ blocks' = [blocks EXCEPT ![f] = Append(blocks[f], e)]
       /\ inode_mtx' = [inode_mtx EXCEPT ![f] = NoOne]
       /\ UNCHANGED <<version, content, mac_mtx>>
    BY <1>4 DEF allocate_block
<1>12. blocks \in [File -> Seq(BlockInfo)] /\ inode_mtx \in [File -> Client \union {NoOne}]
    BY DEF IInv, TypeOK
<1>13. Append(blocks[f], e) \in Seq(BlockInfo)
    BY <1>3, <1>12
<1>14. /\ blocks' \in [File -> Seq(BlockInfo)]
       /\ inode_mtx' \in [File -> Client \union {NoOne}]
       /\ \A g \in File \ {f} : inode_mtx'[g] = inode_mtx[g] /\ blocks'[g] = blocks[g]
    BY <1>3, <1>11, <1>12, <1>13, ZenonT(40)
<1>15. \A d \in Client \ {c} : HandlerInv(inode_mtx', blocks', client[d], d)
    BY <1>3, <1>4, <1>14, OthersKeep
<1>16. \A d \in Client : client[d].pc = "remove" => client[d].file # f
    BY <1>2, OneRemover DEF AllocPC
<1>17. Ownership(version, blocks', [client EXCEPT ![c] = r])
    BY <1>2, <1>3, <1>7, <1>11, <1>16, StateTyped, RecordOwner, Zenon DEF IInv
<1>18. Ownership(version', blocks', client')
    BY <1>6, <1>11, <1>17, Zenon
<1>19. /\ version' \in [Server -> [Block -> 0 .. 255]]
       /\ content' \in [Server -> [Block -> File \union {Zeros}]]
       /\ mac_mtx' \in [Server -> Client \union {NoOne}]
    BY <1>11, Zenon DEF IInv, TypeOK
<1> QED BY <1>6, <1>9, <1>10, <1>14, <1>15, <1>18, <1>19, OneCall, Zenon

\* free_block takes the freed block out of the inode.
LEMMA FreeBlockInv ==
    ASSUME IInv, NEW c \in Client, free_block(c)
    PROVE  IInv'
<1> DEFINE f == client[c].file
           p == client[c].pos
<1>1. CallOK(client[c]) /\ client[c] \in CallState /\ client[c].pc = "remove"
    BY CallsOK DEF IInv, CallOK, free_block
<1>2. f \in File
    BY <1>1, SMTT(30) DEF CallOK
<1>3. inode_mtx[f] = c /\ client[c].inode = blocks[f] /\ p \in 1 .. Len(blocks[f])
    BY <1>1 DEF IInv, HandlerInv, FreePC
<1>4. /\ blocks' = [blocks EXCEPT ![f] = Without(blocks[f], p)]
      /\ inode_mtx' = [inode_mtx EXCEPT ![f] = NoOne]
      /\ client' = [client EXCEPT ![c] = NoCall]
      /\ UNCHANGED <<version, content, mac_mtx>>
    BY <1>3 DEF free_block
<1>5. blocks \in [File -> Seq(BlockInfo)] /\ inode_mtx \in [File -> Client \union {NoOne}]
    BY Zenon DEF IInv, TypeOK
<1>6. Without(blocks[f], p) \in Seq(BlockInfo)
    <2>1. blocks[f] \in Seq(BlockInfo) /\ Len(blocks[f]) - 1 \in Nat
        BY <1>2, <1>3, <1>5
    <2> QED BY <1>3, <2>1 DEF Without
<1>7. /\ blocks' \in [File -> Seq(BlockInfo)]
      /\ inode_mtx' \in [File -> Client \union {NoOne}]
      /\ \A g \in File \ {f} : inode_mtx'[g] = inode_mtx[g] /\ blocks'[g] = blocks[g]
    BY <1>2, <1>4, <1>5, <1>6, Zenon
<1>8. \A d \in Client \ {c} : HandlerInv(inode_mtx', blocks', client[d], d)
    BY <1>2, <1>3, <1>7, OthersKeep
<1>9. \A d \in Client \ {c} : client[d].pc = "remove" => client[d].file # f
    BY <1>1, OneRemover DEF FreePC
<1>10. Ownership(version, blocks', [client EXCEPT ![c] = NoCall])
    BY <1>1, <1>2, <1>3, <1>4, <1>9, StateTyped, RemoveOwner, Zenon DEF IInv
<1>11. Ownership(version', blocks', client')
    BY <1>4, <1>10, Zenon
<1>12. /\ version' \in [Server -> [Block -> 0 .. 255]]
       /\ content' \in [Server -> [Block -> File \union {Zeros}]]
       /\ mac_mtx' \in [Server -> Client \union {NoOne}]
    BY <1>4, Zenon DEF IInv, TypeOK
<1> QED BY <1>4, <1>7, <1>8, <1>11, <1>12, NoCallOK, OneCall, Zenon

\* Every step keeps the inductive invariant.
LEMMA NextInv ==
    IInv /\ [Next]_vars => IInv'
<1>1. ASSUME IInv, UNCHANGED vars PROVE IInv'
    BY <1>1, Zenon DEF vars, IInv, TypeOK
<1>2. ASSUME IInv, Next PROVE IInv'
    BY <1>2, ReadFileInv, CheckInv, ReadDataInv, WriteFileInv, WriteDataInv, LockInodeInv,
       AllocBlockInv, ZeroBlockInv, AllocateBlockInv, FindBlockInv, FreeOnServerInv,
       FreeBlockInv, SMTT(30)
       DEF Next
<1> QED BY <1>1, <1>2

-----------------------------------------------------------------------------
\* What the invariant says of the properties

\* The invariant contains that blocks have one owner.
LEMMA OwnersAreUnique ==
    IInv => BlocksHaveOneOwner
BY SMTT(30) DEF IInv, TypeOK, Ownership, OneOwner, BlocksHaveOneOwner, Entry, BeingRemoved, Fresh,
       Holds, Removing, IsFresh

\* The invariant contains that inodes and servers agree.
LEMMA OwnersMatch ==
    IInv => InodesMatchServers
<1> SUFFICES ASSUME IInv PROVE InodesMatchServers
    OBVIOUS
<1>1. \A f, i : Entry(f, i) <=> Holds(blocks, client, f, i)
    BY Zenon DEF Entry, BeingRemoved, Holds, Removing
<1>2. \A c : Fresh(c) <=> IsFresh(client, c)
    BY DEF Fresh, IsFresh
<1>3. \A f \in File : \A i \in 1 .. Len(blocks[f]) : Entry(f, i) => Current(version, blocks[f][i])
    BY <1>1, SMTT(30) DEF IInv, TypeOK, Ownership, OwnersCurrent
<1>4. ASSUME NEW s \in Server, NEW b \in Block, Allocated(s, b)
      PROVE  \/ \E f \in File : \E i \in 1 .. Len(blocks[f]) :
                    Entry(f, i) /\ blocks[f][i].mac = s /\ blocks[f][i].block = b
             \/ \E c \in Client :
                    Fresh(c) /\ client[c].info.mac = s /\ client[c].info.block = b
    <2>1. Owned(blocks, client, s, b)
        BY <1>4 DEF Allocated, IInv, Ownership, NoneLost
    <2>2. \A f, i : Holds(blocks, client, f, i) => i \in 1 .. Len(blocks[f])
        BY DEF Holds
    <2> QED BY <2>1, <2>2, <1>1, <1>2, Zenon DEF Owned
<1> QED BY <1>3, <1>4, Zenon DEF InodesMatchServers, Current, Allocated

\* The invariant holds in every state: the types, the locks the handlers of the
\* metadata server hold, and who owns a block.
THEOREM Inductive == Spec => []IInv
BY InitInv, NextInv, PTL DEF Spec

\* Servers, inodes, mutexes and calls have their types; no read_data or write_data
\* looks past the end of its block map (client.cc, read_file and write_file).
THEOREM ChunkTypes == Spec => []TypeOK
<1>1. IInv => TypeOK
    BY DEF IInv
<1> QED BY <1>1, Inductive, PTL

\* Whatever clients and servers there are, a block belongs to one place of one file
\* or to one running allocate_block (metadata_server.cc:407 and 484).
THEOREM NoBlockIsShared == Spec => []BlocksHaveOneOwner
BY OwnersAreUnique, Inductive, PTL

\* The inodes have the versions of the data servers and no allocated block is lost,
\* however often the one byte of the version has wrapped around.
THEOREM NoBlockIsLost == Spec => []InodesMatchServers
BY OwnersMatch, Inductive, PTL
=============================================================================
