--------------------------- MODULE NamespaceFacts ---------------------------
(***************************************************************************)
(* The inductive invariant of Namespace, and the lemmas about its parts.   *)
(*                                                                         *)
(* The invariant is stated over four values taken from a state: D, what    *)
(* readdir gives for every inode; L, the inodes that exist; cl, the        *)
(* handlers; m, the holders of inode_mtx.  Its parts are constant          *)
(* operators of these, so that a step is first shown to change them in one *)
(* of a few ways and every part is then shown to survive that change.      *)
(***************************************************************************)
EXTENDS Namespace, TLAPS

Dirs == [i \in Inode |-> readdir(i)]
LiveSet == {i \in Inode : Live(i)}

Ids(s) == {s[k].id : k \in DOMAIN s}

Call == [pc : PC, op : {"none", "mknode", "unlink"}, parent : Inode,
         name : Name \union {NoOne}, type : InodeType, entries : Seq(Entry),
         id : 0 .. MaxInode, bits : SUBSET Block,
         todo : Seq(Block \union {Mixed})]

-----------------------------------------------------------------------------
\* Where a handler is: it holds its parent, it holds its child as well, it has
\* the new content of the directory to write, ...
Holding(c) == c.pc \notin {"idle", "lockParent"}
WithChild(c) == c.pc \in {"remove", "free", "freeBlock", "write", "resize"}
Written(c) == c.pc \in {"write", "resize"}

\* ... has removed the inode and not yet the name, or has the inode and not yet
\* the name.
Removed(c) == c.op = "unlink" /\ c.pc \in {"free", "freeBlock", "write", "resize"}
Fresh(c) == c.op = "mknode" /\ c.pc \in {"lockChild", "write", "resize"}

\* What a handler has in its variables.
Form(c) ==
    /\ c.pc # "idle" => c.op \in {"mknode", "unlink"} /\ c.name \in Name
    /\ c.pc \in {"alloc", "allocInode"} => c.op = "mknode"
    /\ c.pc \in {"remove", "free", "freeBlock"} => c.op = "unlink"
    /\ c.pc \notin {"idle", "lockParent", "alloc", "allocInode"} => c.id \in Inode
    /\ c.pc = "allocInode" => ~(Block \subseteq c.bits)
    /\ c.pc \in {"free", "freeBlock"} => c.todo # <<>>

\* A handler that resizes its directory found it there, and a free block in its
\* copy of the bitmap when the directory grows.
Resizing(c, L, bl) ==
    c.pc = "resize" =>
        /\ c.parent \in L
        /\ bl[c.parent] = <<>> <=> c.entries # <<>>
        /\ bl[c.parent] = <<>> => ~(Block \subseteq c.bits)

\* Exactly the handlers that are past the lock hold it.
Locks(m, cl) ==
    \A t \in Thread :
        /\ Holding(cl[t]) => m[cl[t].parent] = t
        /\ WithChild(cl[t]) => m[cl[t].id] = t /\ cl[t].id # cl[t].parent
        /\ \A i \in Inode : m[i] = t =>
              /\ Holding(cl[t])
              /\ i = cl[t].parent \/ (WithChild(cl[t]) /\ i = cl[t].id)

\* What a handler has read of its directory is what the directory still holds,
\* up to the change it is going to write.
Reads(c, D) ==
    Holding(c) =>
        /\ ~Written(c) => c.entries = D[c.parent]
        /\ Written(c) /\ c.op = "mknode" =>
              c.entries = With(D[c.parent], c.name, c.id)
        /\ Written(c) /\ c.op = "unlink" =>
              c.entries = Without(D[c.parent], c.id)
        /\ c.op = "mknode" =>
              \A k \in DOMAIN D[c.parent] : D[c.parent][k].name # c.name
        /\ c.op = "unlink" => c.id \in Ids(D[c.parent])

UniqueNames(D) ==
    \A p \in Inode : \A k, l \in DOMAIN D[p] : D[p][k].name = D[p][l].name => k = l

\* An inode whose unlink was not refused has one name ...
OneName(D, rf) ==
    \A p, q \in Inode : \A k \in DOMAIN D[p], l \in DOMAIN D[q] :
        D[p][k].id = D[q][l].id => (p = q /\ k = l) \/ D[p][k].id \in rf

\* ... which is on its way out, or the inode exists and is not one that a mknode
\* has just been given.
Named1(D, L, cl, rf) ==
    \A p \in Inode : \A k \in DOMAIN D[p] :
        \/ D[p][k].id \in rf
        \/ \E u \in Thread : /\ Removed(cl[u])
                             /\ cl[u].parent = p /\ cl[u].id = D[p][k].id
        \/ /\ D[p][k].id \in L
           /\ \A t \in Thread : Fresh(cl[t]) => cl[t].id # D[p][k].id

\* A new inode without a name belongs to one mknode, and nothing removes it.
FreshIsLive(L, cl, rf) ==
    \A t \in Thread : Fresh(cl[t]) => cl[t].id \in L \/ cl[t].id \in rf
FreshIsOne(cl, rf) ==
    \A t, u \in Thread :
        Fresh(cl[t]) /\ Fresh(cl[u]) /\ cl[t].id = cl[u].id =>
            t = u \/ cl[t].id \in rf

\* No two directories name each other, and the inode of a mknode does not hold
\* the directory it is going to be in.
NoCycles(D) == \A p, q \in Inode : ~(q \in Ids(D[p]) /\ p \in Ids(D[q]))
FreshHasNoParent(D, cl) ==
    \A t \in Thread : Fresh(cl[t]) => cl[t].parent \notin Ids(D[cl[t].id])

\* A directory has a block when it has an entry.
Sizes(D, L, bl) ==
    \A i \in L : /\ Len(bl[i]) \in {0, 1, 2}
                 /\ Len(bl[i]) # 2 => (bl[i] = <<>> <=> D[i] = <<>>)

NameInv(D, L, cl, rf) ==
    /\ UniqueNames(D)
    /\ OneName(D, rf) /\ Named1(D, L, cl, rf)
    /\ FreshIsLive(L, cl, rf) /\ FreshIsOne(cl, rf)
    /\ NoCycles(D) /\ FreshHasNoParent(D, cl)

IInv ==
    /\ TypeOK
    /\ Locks(inode_mtx, call)
    /\ \A t \in Thread : /\ Form(call[t])
                         /\ Resizing(call[t], LiveSet, blocks)
                         /\ Reads(call[t], Dirs)
    /\ NameInv(Dirs, LiveSet, call, refused)
    /\ Sizes(Dirs, LiveSet, blocks)

-----------------------------------------------------------------------------
\* The operators of the model

\* A set of numbers that is not empty has a least one. (NamespaceProofs proves
\* it, from theorems whose presence would slow down every proof before.)
HasLeast == \A S \in SUBSET Nat : S # {} => \E x \in S : \A y \in S : x <= y

\* The allocators return a number that is free.
LEMMA FirstFree ==
    ASSUME HasLeast, NEW S \in SUBSET Nat, S # {}
    PROVE  find_first_free(S) \in S
BY Zenon DEF HasLeast, find_first_free

\* Named finds the entry with the name, if there is one.
LEMMA NamedFinds ==
    ASSUME HasLeast, NEW s \in Seq(Entry), NEW n
    PROVE  /\ Named(s, n) = 0 => \A k \in DOMAIN s : s[k].name # n
           /\ Named(s, n) # 0 => Named(s, n) \in DOMAIN s
<1> DEFINE I == {k \in DOMAIN s : s[k].name = n}
<1>1. Named(s, n) = IF I = {} THEN 0 ELSE find_first_free(I)
  BY Zenon DEF Named, First
<1>2. I \subseteq Nat /\ DOMAIN s = 1 .. Len(s) /\ Len(s) \in Nat
  OBVIOUS
<1>3. CASE I = {}
  <2>1. Named(s, n) = 0
    BY <1>1, <1>3
  <2>2. \A k \in DOMAIN s : s[k].name # n
    BY <1>2, <1>3
  <2> QED BY <2>1, <2>2
<1>4. CASE I # {}
  <2>1. Named(s, n) \in I
    BY <1>1, <1>2, <1>4, FirstFree, Zenon
  <2>2. Named(s, n) \in 1 .. Len(s)
    BY <2>1
  <2> QED BY <2>2, <1>2
<1> QED BY <1>3, <1>4

\* With adds one entry at the end.
LEMMA WithAdds ==
    ASSUME NEW s \in Seq(Entry), NEW n \in Name, NEW id \in Inode
    PROVE  /\ With(s, n, id) \in Seq(Entry)
           /\ DOMAIN With(s, n, id) = 1 .. Len(s) + 1
           /\ \A k \in DOMAIN s : With(s, n, id)[k] = s[k]
           /\ With(s, n, id)[Len(s) + 1].name = n
           /\ With(s, n, id)[Len(s) + 1].id = id
           /\ DOMAIN s = 1 .. Len(s) /\ Len(s) \in Nat
           /\ With(s, n, id) # <<>>
<1> DEFINE e == [name |-> n, id |-> id]
<1>1. e \in Entry /\ e.name = n /\ e.id = id
  BY DEF Entry
<1> HIDE DEF e
<1> QED
  <2>1. With(s, n, id) = Append(s, e)
    BY DEF With, e
  <2> QED BY <1>1, <2>1

\* The entries that were there stay where they are.
LEMMA WithKeeps ==
    ASSUME NEW s \in Seq(Entry), NEW n \in Name, NEW id \in Inode
    PROVE  \A k \in DOMAIN s : With(s, n, id)[k] = s[k]
BY WithAdds

\* Of a list with two or more elements something is left after the first.
LEMMA LongTail ==
    ASSUME NEW S, NEW s \in Seq(S), s # <<>>, Len(s) # 1
    PROVE  Tail(s) # <<>>
<1>1. Len(s) \in Nat /\ Len(s) # 0
  OBVIOUS
<1>2. Len(Tail(s)) = Len(s) - 1
  OBVIOUS
<1>3. Len(Tail(s)) # 0
  BY <1>1, <1>2
<1>4. Len(<<>>) = 0
  OBVIOUS
<1> QED BY <1>3, <1>4, Zenon

\* The type and the length of two lists put together.
LEMMA Concat ==
    ASSUME NEW S, NEW a \in Seq(S), NEW b \in Seq(S)
    PROVE  a \o b \in Seq(S) /\ Len(a \o b) = Len(a) + Len(b)
OBVIOUS

\* Removing position pos shifts what follows it.
RemovePos(s, pos) == SubSeq(s, 1, pos - 1) \o SubSeq(s, pos + 1, Len(s))

\* The elements behind the removed one move up by one place.
LEMMA RemoveShifts ==
    ASSUME NEW s \in Seq(Entry), NEW pos \in 1 .. Len(s)
    PROVE  /\ RemovePos(s, pos) \in Seq(Entry)
           /\ DOMAIN RemovePos(s, pos) = 1 .. Len(s) - 1
           /\ \A k \in 1 .. Len(s) - 1 :
                 RemovePos(s, pos)[k] = s[IF k < pos THEN k ELSE k + 1]
<1> DEFINE a == SubSeq(s, 1, pos - 1)
           b == SubSeq(s, pos + 1, Len(s))
<1>1. /\ a \in Seq(Entry) /\ Len(a) = pos - 1
      /\ \A k \in 1 .. pos - 1 : a[k] = s[k]
  OBVIOUS
<1>2. /\ b \in Seq(Entry) /\ Len(b) = Len(s) - pos
      /\ \A k \in 1 .. Len(s) - pos : b[k] = s[pos + k]
  OBVIOUS
<1>3. RemovePos(s, pos) = a \o b
  BY DEF RemovePos
<1> HIDE DEF a, b
<1>4. /\ a \o b \in Seq(Entry) /\ Len(a \o b) = Len(s) - 1
      /\ DOMAIN (a \o b) = 1 .. Len(s) - 1
  <2>1. a \o b \in Seq(Entry) /\ Len(a \o b) = Len(a) + Len(b)
    BY <1>1, <1>2, Concat, Zenon
  <2>2. Len(s) \in Nat
    OBVIOUS
  <2>3. Len(a) + Len(b) = Len(s) - 1
    BY <1>1, <1>2, <2>2
  <2>4. DOMAIN (a \o b) = 1 .. Len(a \o b)
    BY <2>1
  <2> QED BY <2>1, <2>3, <2>4
<1>5. ASSUME NEW k \in 1 .. Len(s) - 1
      PROVE  (a \o b)[k] = s[IF k < pos THEN k ELSE k + 1]
  <2>1. CASE k < pos
    BY <1>1, <1>2, <2>1
  <2>2. CASE ~(k < pos)
    <3>1. (a \o b)[k] = b[k - (pos - 1)]
      BY <1>1, <1>2, <2>2, SMTT(30)
    <3>2. k - (pos - 1) \in 1 .. Len(s) - pos
      BY <2>2
    <3>3. b[k - (pos - 1)] = s[pos + (k - (pos - 1))]
      BY <1>2, <3>2, Zenon
    <3>4. pos + (k - (pos - 1)) = k + 1
      OBVIOUS
    <3> QED BY <2>2, <3>1, <3>3, <3>4
  <2> QED BY <2>1, <2>2, Zenon
<1> QED BY <1>3, <1>4, <1>5, Zenon

\* Without removes one entry with the id, and keeps the order of the others.
LEMMA WithoutRemoves ==
    ASSUME HasLeast, NEW s \in Seq(Entry), NEW id, id \in Ids(s)
    PROVE  \E pos \in DOMAIN s :
             /\ s[pos].id = id
             /\ Without(s, id) \in Seq(Entry)
             /\ DOMAIN Without(s, id) = 1 .. Len(s) - 1
             /\ \A k \in DOMAIN Without(s, id) :
                   /\ (IF k < pos THEN k ELSE k + 1) \in DOMAIN s
                   /\ Without(s, id)[k] = s[IF k < pos THEN k ELSE k + 1]
             /\ DOMAIN s = 1 .. Len(s) /\ Len(s) \in Nat
<1> DEFINE I == {k \in DOMAIN s : s[k].id = id}
           pos == find_first_free(I)
<1>1. I \subseteq Nat /\ I # {} /\ DOMAIN s = 1 .. Len(s) /\ Len(s) \in Nat
  BY DEF Ids
<1>2. pos \in I
  BY <1>1, FirstFree, Zenon
<1>3. First(I) = pos
  BY <1>1, Zenon DEF First
<1>4. Without(s, id) = RemovePos(s, pos)
  BY <1>3, Zenon DEF Without, RemovePos
<1>5. pos \in 1 .. Len(s) /\ s[pos].id = id
  BY <1>1, <1>2
<1> HIDE DEF pos, I
<1>6. /\ Without(s, id) \in Seq(Entry)
      /\ DOMAIN Without(s, id) = 1 .. Len(s) - 1
      /\ \A k \in 1 .. Len(s) - 1 :
            Without(s, id)[k] = s[IF k < pos THEN k ELSE k + 1]
  BY <1>4, <1>5, RemoveShifts
<1>7. \A k \in 1 .. Len(s) - 1 : (IF k < pos THEN k ELSE k + 1) \in 1 .. Len(s)
  BY <1>1, <1>5
<1> QED BY <1>1, <1>5, <1>6, <1>7, Zenon

-----------------------------------------------------------------------------
\* Locks

\* A handler that keeps its place keeps its locks.
LEMMA LocksKeep ==
    ASSUME NEW m, NEW cl, NEW cl2, Locks(m, cl),
           \A u \in Thread :
              /\ Holding(cl2[u]) <=> Holding(cl[u])
              /\ WithChild(cl2[u]) <=> WithChild(cl[u])
              /\ Holding(cl[u]) => cl2[u].parent = cl[u].parent
              /\ WithChild(cl[u]) => cl2[u].id = cl[u].id
    PROVE  Locks(m, cl2)
<1>1. \A u \in Thread : WithChild(cl[u]) => Holding(cl[u])
  BY SMT DEF WithChild, Holding
<1> QED BY <1>1, ZenonT(30) DEF Locks

\* A handler that answers gives its locks back.
LEMMA LocksReturn ==
    ASSUME NEW m \in [Inode -> Thread \union {NoOne}], NEW m2,
           NEW cl, NEW cl2, NEW t \in Thread, Locks(m, cl),
           \A u \in Thread : cl[u].parent \in Inode
                             /\ (WithChild(cl[u]) => cl[u].id \in Inode),
           m2 = [i \in Inode |-> IF m[i] = t THEN NoOne ELSE m[i]],
           ~Holding(cl2[t]), \A u \in Thread \ {t} : cl2[u] = cl[u]
    PROVE  Locks(m2, cl2)
<1>1. SUFFICES ASSUME NEW u \in Thread
      PROVE  /\ Holding(cl2[u]) => m2[cl2[u].parent] = u
             /\ WithChild(cl2[u]) => m2[cl2[u].id] = u /\ cl2[u].id # cl2[u].parent
             /\ \A i \in Inode : m2[i] = u =>
                   /\ Holding(cl2[u])
                   /\ i = cl2[u].parent \/ (WithChild(cl2[u]) /\ i = cl2[u].id)
  BY Zenon DEF Locks
<1>2. ~WithChild(cl2[t])
  BY SMT DEF WithChild, Holding
<1>3. CASE u = t
  BY <1>2, <1>3, NoOneAssumption
<1>4. CASE u # t
  BY <1>4, NoOneAssumption DEF Locks
<1> QED BY <1>3, <1>4

\* Locking the parent keeps Locks.
LEMMA LocksParent ==
    ASSUME NEW m \in [Inode -> Thread \union {NoOne}], NEW m2,
           NEW cl, NEW cl2, NEW t \in Thread, Locks(m, cl),
           \A u \in Thread : cl[u].parent \in Inode
                             /\ (WithChild(cl[u]) => cl[u].id \in Inode),
           m[cl[t].parent] = NoOne, m2 = [m EXCEPT ![cl[t].parent] = t],
           ~Holding(cl[t]), Holding(cl2[t]), ~WithChild(cl2[t]),
           cl2[t].parent = cl[t].parent, \A u \in Thread \ {t} : cl2[u] = cl[u]
    PROVE  Locks(m2, cl2)
<1>1. SUFFICES ASSUME NEW u \in Thread
      PROVE  /\ Holding(cl2[u]) => m2[cl2[u].parent] = u
             /\ WithChild(cl2[u]) => m2[cl2[u].id] = u /\ cl2[u].id # cl2[u].parent
             /\ \A i \in Inode : m2[i] = u =>
                   /\ Holding(cl2[u])
                   /\ i = cl2[u].parent \/ (WithChild(cl2[u]) /\ i = cl2[u].id)
  BY Zenon DEF Locks
<1>3. CASE u = t
  BY <1>3, NoOneAssumption DEF Locks
<1>4. CASE u # t
  BY <1>4, NoOneAssumption DEF Locks
<1> QED BY <1>3, <1>4

\* Locking the child, another inode than the parent, keeps Locks.
LEMMA LocksChild ==
    ASSUME NEW m \in [Inode -> Thread \union {NoOne}], NEW m2,
           NEW cl, NEW cl2, NEW t \in Thread, Locks(m, cl),
           \A u \in Thread : cl[u].parent \in Inode
                             /\ (WithChild(cl[u]) => cl[u].id \in Inode),
           cl[t].id \in Inode,
           m[cl[t].id] = NoOne, m2 = [m EXCEPT ![cl[t].id] = t],
           Holding(cl[t]), ~WithChild(cl[t]), WithChild(cl2[t]), Holding(cl2[t]),
           cl2[t].parent = cl[t].parent, cl2[t].id = cl[t].id,
           \A u \in Thread \ {t} : cl2[u] = cl[u]
    PROVE  Locks(m2, cl2)
<1>1. SUFFICES ASSUME NEW u \in Thread
      PROVE  /\ Holding(cl2[u]) => m2[cl2[u].parent] = u
             /\ WithChild(cl2[u]) => m2[cl2[u].id] = u /\ cl2[u].id # cl2[u].parent
             /\ \A i \in Inode : m2[i] = u =>
                   /\ Holding(cl2[u])
                   /\ i = cl2[u].parent \/ (WithChild(cl2[u]) /\ i = cl2[u].id)
  BY Zenon DEF Locks
<1>2. m[cl[t].parent] = t /\ cl[t].id # cl[t].parent
  BY NoOneAssumption DEF Locks
<1>3. CASE u = t
  BY <1>2, <1>3, NoOneAssumption DEF Locks
<1>4. CASE u # t
  BY <1>4, NoOneAssumption DEF Locks
<1> QED BY <1>3, <1>4

\* Two handlers hold no lock together.
LEMMA LocksExclude ==
    ASSUME NEW m, NEW cl, Locks(m, cl), NEW t \in Thread, NEW u \in Thread, t # u
    PROVE  /\ Holding(cl[t]) /\ Holding(cl[u]) => cl[t].parent # cl[u].parent
           /\ WithChild(cl[t]) /\ Holding(cl[u]) => cl[t].id # cl[u].parent
           /\ WithChild(cl[t]) /\ WithChild(cl[u]) => cl[t].id # cl[u].id
BY DEF Locks

-----------------------------------------------------------------------------
\* Names

\* A step that neither makes nor breaks a mknode or an unlink half-way keeps
\* what holds of the names.
LEMMA NamesKeep ==
    ASSUME NEW D, NEW L, NEW cl, NEW cl2, NEW rf, NameInv(D, L, cl, rf),
           \A u \in Thread :
              /\ Removed(cl2[u]) <=> Removed(cl[u])
              /\ Fresh(cl2[u]) <=> Fresh(cl[u])
              /\ Removed(cl[u]) \/ Fresh(cl[u]) =>
                    cl2[u].parent = cl[u].parent /\ cl2[u].id = cl[u].id
    PROVE  NameInv(D, L, cl2, rf)
<1>1. Named1(D, L, cl2, rf)
  BY DEF NameInv, Named1
<1>2. FreshIsLive(L, cl2, rf) /\ FreshIsOne(cl2, rf) /\ FreshHasNoParent(D, cl2)
  BY DEF NameInv, FreshIsLive, FreshIsOne, FreshHasNoParent
<1> QED BY <1>1, <1>2 DEF NameInv

\* A handler may answer, unless it has removed an inode and not the name: then
\* the number counts as refused.
LEMMA NamesReturn ==
    ASSUME NEW D, NEW L, NEW cl, NEW cl2, NEW rf, NEW rf2, NEW t \in Thread,
           NameInv(D, L, cl, rf), rf \subseteq rf2,
           Removed(cl[t]) => cl[t].id \in rf2,
           ~Removed(cl2[t]), ~Fresh(cl2[t]),
           \A u \in Thread \ {t} : cl2[u] = cl[u]
    PROVE  NameInv(D, L, cl2, rf2)
<1>1. Named1(D, L, cl2, rf2)
  <2>1. SUFFICES ASSUME NEW p \in Inode, NEW k \in DOMAIN D[p], D[p][k].id \notin rf2
        PROVE  \/ \E u \in Thread : /\ Removed(cl2[u])
                                    /\ cl2[u].parent = p /\ cl2[u].id = D[p][k].id
               \/ /\ D[p][k].id \in L
                  /\ \A u \in Thread : Fresh(cl2[u]) => cl2[u].id # D[p][k].id
    BY DEF Named1
  <2>2. CASE \E u \in Thread : /\ Removed(cl[u])
                               /\ cl[u].parent = p /\ cl[u].id = D[p][k].id
    BY <2>1, <2>2
  <2>3. CASE /\ D[p][k].id \in L
             /\ \A u \in Thread : Fresh(cl[u]) => cl[u].id # D[p][k].id
    BY <2>3
  <2> QED BY <2>1, <2>2, <2>3 DEF NameInv, Named1
<1>2. OneName(D, rf2)
  BY DEF NameInv, OneName
<1>3. FreshIsLive(L, cl2, rf2) /\ FreshIsOne(cl2, rf2) /\ FreshHasNoParent(D, cl2)
  BY DEF NameInv, FreshIsLive, FreshIsOne, FreshHasNoParent
<1> QED BY <1>1, <1>2, <1>3 DEF NameInv

\* mknode is given a number that is free.  A name of that number is one an
\* unlink is about to remove.
LEMMA NamesAlloc ==
    ASSUME NEW D, NEW L, NEW cl, NEW cl2, NEW rf, NEW t \in Thread, NEW id \in Inode,
           NameInv(D, L, cl, rf), id \notin L, D[id] = <<>>,
           ~Removed(cl[t]), ~Fresh(cl[t]), ~Removed(cl2[t]), Fresh(cl2[t]),
           cl2[t].id = id, \A u \in Thread \ {t} : cl2[u] = cl[u]
    PROVE  NameInv(D, L \union {id}, cl2, rf)
<1> DEFINE L2 == L \union {id}
<1>1. Named1(D, L2, cl2, rf)
  <2>1. SUFFICES ASSUME NEW p \in Inode, NEW k \in DOMAIN D[p], D[p][k].id \notin rf
        PROVE  \/ \E u \in Thread : /\ Removed(cl2[u])
                                    /\ cl2[u].parent = p /\ cl2[u].id = D[p][k].id
               \/ /\ D[p][k].id \in L2
                  /\ \A u \in Thread : Fresh(cl2[u]) => cl2[u].id # D[p][k].id
    BY DEF Named1
  <2>2. CASE \E u \in Thread : /\ Removed(cl[u])
                               /\ cl[u].parent = p /\ cl[u].id = D[p][k].id
    BY <2>2
  <2>3. CASE /\ D[p][k].id \in L
             /\ \A u \in Thread : Fresh(cl[u]) => cl[u].id # D[p][k].id
    BY <2>3
  <2> QED BY <2>1, <2>2, <2>3 DEF NameInv, Named1
<1>2. FreshIsLive(L2, cl2, rf)
  BY DEF NameInv, FreshIsLive
<1>3. FreshIsOne(cl2, rf)
  BY DEF NameInv, FreshIsOne, FreshIsLive
<1>4. FreshHasNoParent(D, cl2)
  <2>1. Ids(D[id]) = {}
    BY DEF Ids
  <2> QED BY <2>1 DEF NameInv, FreshHasNoParent
<1> QED BY <1>1, <1>2, <1>3, <1>4 DEF NameInv

\* remove_file frees the inode of the name its unlink has found.
LEMMA NamesRemove ==
    ASSUME NEW D \in [Inode -> Seq(Entry)], NEW D2, NEW L, NEW m, NEW cl, NEW cl2,
           NEW rf, NEW t \in Thread,
           NameInv(D, L, cl, rf), Locks(m, cl), Holding(cl[t]),
           \A u \in Thread : /\ Removed(cl[u]) => Holding(cl[u])
                             /\ Fresh(cl[u]) => cl[u].id \in Inode,
           ~Removed(cl[t]), ~Fresh(cl[t]), Removed(cl2[t]), ~Fresh(cl2[t]),
           cl[t].parent \in Inode, cl[t].id \in Ids(D[cl[t].parent]), cl[t].id \in Inode,
           cl2[t].parent = cl[t].parent, cl2[t].id = cl[t].id,
           \A u \in Thread \ {t} : cl2[u] = cl[u],
           D2 = [D EXCEPT ![cl[t].id] = <<>>]
    PROVE  NameInv(D2, L \ {cl[t].id}, cl2, rf)
<1> DEFINE x == cl[t].id
           L2 == L \ {x}
<1>0. /\ D2[x] = <<>> /\ DOMAIN D2[x] = {} /\ Ids(D2[x]) = {}
      /\ \A i \in Inode : i # x => D2[i] = D[i]
  BY DEF Ids
<1>1. PICK kt \in DOMAIN D[cl[t].parent] : D[cl[t].parent][kt].id = x
  BY DEF Ids
<1>2. Named1(D2, L2, cl2, rf)
  <2>1. SUFFICES ASSUME NEW p \in Inode, NEW k \in DOMAIN D[p], D[p][k].id \notin rf
        PROVE  \/ \E u \in Thread : /\ Removed(cl2[u])
                                    /\ cl2[u].parent = p /\ cl2[u].id = D[p][k].id
               \/ /\ D[p][k].id \in L2
                  /\ \A u \in Thread : Fresh(cl2[u]) => cl2[u].id # D[p][k].id
    BY <1>0 DEF Named1
  <2>2. CASE D[p][k].id = x
    <3>1. p = cl[t].parent
      BY <1>1, <2>1, <2>2, Zenon DEF NameInv, OneName
    <3> QED BY <2>2, <3>1, Zenon
  <2>3. CASE D[p][k].id # x
    <3>1. CASE \E u \in Thread : /\ Removed(cl[u])
                                 /\ cl[u].parent = p /\ cl[u].id = D[p][k].id
      BY <3>1, Zenon
    <3>2. CASE /\ D[p][k].id \in L
               /\ \A u \in Thread : Fresh(cl[u]) => cl[u].id # D[p][k].id
      BY <3>2, <2>3
    <3> QED BY <2>1, <3>1, <3>2, Zenon DEF NameInv, Named1
  <2> QED BY <2>2, <2>3, Zenon
<1>3. \A u \in Thread : Fresh(cl2[u]) => Fresh(cl[u]) /\ cl2[u] = cl[u] /\ u # t
  OBVIOUS
<1>4. \A u \in Thread : Fresh(cl[u]) /\ x \notin rf => cl[u].id # x
  <2>1. ASSUME NEW v \in Thread, Removed(cl[v]), cl[v].parent = cl[t].parent
        PROVE  FALSE
    BY <2>1 DEF Locks
  <2> QED BY <1>1, <2>1, SMTT(30) DEF NameInv, Named1
<1>5. FreshIsLive(L2, cl2, rf)
  BY <1>3, <1>4 DEF NameInv, FreshIsLive
<1>6. FreshIsOne(cl2, rf)
  BY <1>3, Zenon DEF NameInv, FreshIsOne
<1>7. FreshHasNoParent(D2, cl2)
  <2>1. SUFFICES ASSUME NEW u \in Thread, Fresh(cl2[u])
        PROVE  cl2[u].parent \notin Ids(D2[cl2[u].id])
    BY Zenon DEF FreshHasNoParent
  <2>2. cl[u].parent \notin Ids(D[cl[u].id]) /\ cl2[u] = cl[u]
    BY <1>3, <2>1 DEF NameInv, FreshHasNoParent
  <2>3. D2[cl[u].id] = D[cl[u].id] \/ Ids(D2[cl[u].id]) = {}
    BY <1>0, <1>3, <2>1, Zenon
  <2> QED BY <2>2, <2>3, Zenon
<1>8. UniqueNames(D2) /\ OneName(D2, rf)
  BY <1>0 DEF NameInv, UniqueNames, OneName
<1>9. NoCycles(D2)
  BY <1>0, Zenon DEF NameInv, NoCycles
<1> QED BY <1>2, <1>5, <1>6, <1>7, <1>8, <1>9, Zenon DEF NameInv

\* mknode writes its entry.
LEMMA NamesAdd ==
    ASSUME NEW D \in [Inode -> Seq(Entry)], NEW D2, NEW L, NEW m, NEW cl, NEW cl2,
           NEW rf, NEW t \in Thread,
           NameInv(D, L, cl, rf), Locks(m, cl),
           \A u \in Thread : /\ Removed(cl[u]) => Holding(cl[u]) /\ WithChild(cl[u])
                             /\ Fresh(cl[u]) => Holding(cl[u]) /\ cl[u].id \in Inode,
           Fresh(cl[t]), WithChild(cl[t]), ~Removed(cl[t]),
           cl[t].parent \in Inode, cl[t].name \in Name,
           \A k \in DOMAIN D[cl[t].parent] : D[cl[t].parent][k].name # cl[t].name,
           ~Removed(cl2[t]), ~Fresh(cl2[t]),
           \A u \in Thread \ {t} : cl2[u] = cl[u],
           D2 = [D EXCEPT ![cl[t].parent] =
                    With(D[cl[t].parent], cl[t].name, cl[t].id)]
    PROVE  NameInv(D2, L, cl2, rf)
<1> DEFINE x == cl[t].id
           p == cl[t].parent
           n == Len(D[p]) + 1
<1>0. x \in Inode
  OBVIOUS
<1>1. /\ DOMAIN D2[p] = DOMAIN D[p] \union {n} /\ n \notin DOMAIN D[p]
      /\ \A k \in DOMAIN D[p] : D2[p][k] = D[p][k]
      /\ D2[p][n].name = cl[t].name /\ D2[p][n].id = x
      /\ \A i \in Inode : i # p => D2[i] = D[i]
  <2>1. D2[p] = With(D[p], cl[t].name, x) /\ \A i \in Inode : i # p => D2[i] = D[i]
    OBVIOUS
  <2>2. D[p] \in Seq(Entry)
    OBVIOUS
  <2>3. DOMAIN With(D[p], cl[t].name, x) = 1 .. n /\ DOMAIN D[p] = 1 .. Len(D[p])
        /\ Len(D[p]) \in Nat
    BY <1>0, <2>2, WithAdds, SMTT(30)
  <2>4. 1 .. n = (1 .. Len(D[p])) \union {n} /\ n \notin 1 .. Len(D[p])
    BY <2>3, SMTT(30)
  <2>5. /\ \A k \in DOMAIN D[p] : With(D[p], cl[t].name, x)[k] = D[p][k]
        /\ With(D[p], cl[t].name, x)[n].name = cl[t].name
        /\ With(D[p], cl[t].name, x)[n].id = x
    BY <1>0, <2>2, WithAdds, SMTT(30)
  <2> QED BY <2>1, <2>3, <2>4, <2>5, Zenon
<1>2. \A i \in Inode : \A k \in DOMAIN D2[i] :
         \/ k \in DOMAIN D[i] /\ D2[i][k] = D[i][k]
         \/ i = p /\ k = n
  BY <1>1
<1>3. \A i \in Inode : \A k \in DOMAIN D[i] : D[i][k].id = x => x \in rf
  <2>1. ASSUME NEW u \in Thread, Removed(cl[u]), cl[u].id = x PROVE FALSE
    BY <2>1, LocksExclude
  <2> QED BY <2>1, ZenonT(30) DEF NameInv, Named1
<1>4. \A i \in Inode : Ids(D2[i]) \subseteq Ids(D[i]) \union (IF i = p THEN {x} ELSE {})
  <2>1. SUFFICES ASSUME NEW i \in Inode, NEW k \in DOMAIN D2[i]
        PROVE  D2[i][k].id \in Ids(D[i]) \union (IF i = p THEN {x} ELSE {})
    BY SMTT(30) DEF Ids
  <2>2. CASE k \in DOMAIN D[i] /\ D2[i][k] = D[i][k]
    BY <2>2, Zenon DEF Ids
  <2>3. CASE i = p /\ k = n
    BY <1>1, <2>3, Zenon
  <2> QED BY <1>2, <2>2, <2>3, Zenon
<1> HIDE DEF x, p, n
<1>5. UniqueNames(D2)
  <2>1. SUFFICES ASSUME NEW i \in Inode, NEW k \in DOMAIN D2[i], NEW l \in DOMAIN D2[i],
                        D2[i][k].name = D2[i][l].name
        PROVE  k = l
    BY Zenon DEF UniqueNames
  <2>2. CASE k \in DOMAIN D[i] /\ l \in DOMAIN D[i]
    <3>1. D2[i][k] = D[i][k] /\ D2[i][l] = D[i][l]
      BY <1>1, <2>2, ZenonT(30)
    <3> QED BY <2>1, <2>2, <3>1, Zenon DEF NameInv, UniqueNames
  <2>3. CASE i = p /\ k = n /\ l \in DOMAIN D[i]
    BY <1>1, <2>1, <2>3, SMTT(30) DEF p
  <2>4. CASE i = p /\ l = n /\ k \in DOMAIN D[i]
    BY <1>1, <2>1, <2>4, SMTT(30) DEF p
  <2> QED BY <1>2, <2>2, <2>3, <2>4, SMTT(30)
<1>6. OneName(D2, rf)
  <2>1. SUFFICES ASSUME NEW i \in Inode, NEW j \in Inode,
                        NEW k \in DOMAIN D2[i], NEW l \in DOMAIN D2[j],
                        D2[i][k].id = D2[j][l].id
        PROVE  (i = j /\ k = l) \/ D2[i][k].id \in rf
    BY ZenonT(30) DEF OneName
  <2>2. CASE k \in DOMAIN D[i] /\ l \in DOMAIN D[j]
    <3>1. D2[i][k] = D[i][k] /\ D2[j][l] = D[j][l]
      BY <1>1, <2>2, SMTT(30)
    <3> QED BY <2>1, <2>2, <3>1, ZenonT(30) DEF NameInv, OneName
  <2>3. CASE i = p /\ k = n /\ l \in DOMAIN D[j]
    BY <1>1, <1>3, <2>1, <2>3, ZenonT(30)
  <2>4. CASE j = p /\ l = n /\ k \in DOMAIN D[i]
    BY <1>1, <1>3, <2>1, <2>4, ZenonT(30)
  <2> QED BY <1>2, <2>2, <2>3, <2>4
<1>7. Named1(D2, L, cl2, rf)
  <2>1. SUFFICES ASSUME NEW i \in Inode, NEW k \in DOMAIN D2[i], D2[i][k].id \notin rf
        PROVE  \/ \E u \in Thread : /\ Removed(cl2[u])
                                    /\ cl2[u].parent = i /\ cl2[u].id = D2[i][k].id
               \/ /\ D2[i][k].id \in L
                  /\ \A u \in Thread : Fresh(cl2[u]) => cl2[u].id # D2[i][k].id
    BY ZenonT(30) DEF Named1
  <2>2. CASE i = p /\ k = n
    <3>1. D2[i][k].id = x /\ x \notin rf
      BY <1>1, <2>1, <2>2, Zenon
    <3>2. x \in L
      BY <3>1, Zenon DEF NameInv, FreshIsLive, x
    <3>3. \A u \in Thread : Fresh(cl2[u]) => cl2[u].id # x
      BY <3>1, SMTT(30) DEF NameInv, FreshIsOne, x
    <3> QED BY <3>1, <3>2, <3>3, Zenon
  <2>3. CASE k \in DOMAIN D[i] /\ D2[i][k] = D[i][k]
    <3>1. CASE \E u \in Thread : /\ Removed(cl[u])
                                 /\ cl[u].parent = i /\ cl[u].id = D[i][k].id
      BY <3>1, <2>3, Zenon
    <3>2. CASE /\ D[i][k].id \in L
               /\ \A u \in Thread : Fresh(cl[u]) => cl[u].id # D[i][k].id
      BY <3>2, <2>3, Zenon
    <3> QED BY <2>1, <2>3, <3>1, <3>2, ZenonT(30) DEF NameInv, Named1
  <2> QED BY <1>2, <2>2, <2>3, Zenon
<1>8. FreshIsLive(L, cl2, rf) /\ FreshIsOne(cl2, rf)
  BY Zenon DEF NameInv, FreshIsLive, FreshIsOne
<1>9. NoCycles(D2)
  <2>1. SUFFICES ASSUME NEW i \in Inode, NEW j \in Inode,
                        j \in Ids(D2[i]), i \in Ids(D2[j])
        PROVE  FALSE
    BY Zenon DEF NoCycles
  <2>2. p \notin Ids(D[x]) /\ x # p
    BY Zenon DEF NameInv, FreshHasNoParent, Locks, x, p
  <2>3. CASE j \in Ids(D[i]) /\ i \in Ids(D[j])
    BY <2>3, Zenon DEF NameInv, NoCycles
  <2> QED BY <1>4, <2>1, <2>2, <2>3, SMTT(30)
<1>10. FreshHasNoParent(D2, cl2)
  <2>1. SUFFICES ASSUME NEW u \in Thread, Fresh(cl2[u])
        PROVE  cl2[u].parent \notin Ids(D2[cl2[u].id])
    BY Zenon DEF FreshHasNoParent
  <2>2. u # t /\ cl2[u] = cl[u] /\ Fresh(cl[u])
    BY <2>1, Zenon
  <2>3. cl[u].parent \notin Ids(D[cl[u].id]) /\ cl[u].id \in Inode
    BY <2>2, Zenon DEF NameInv, FreshHasNoParent
  <2>4. cl[u].parent # x
    BY <2>2, LocksExclude, Zenon DEF x
  <2> QED BY <1>4, <2>2, <2>3, <2>4, ZenonT(30)
<1> QED BY <1>5, <1>6, <1>7, <1>8, <1>9, <1>10, Zenon DEF NameInv

\* unlink writes its directory without the entry.
LEMMA NamesDelete ==
    ASSUME HasLeast, NEW D \in [Inode -> Seq(Entry)], NEW D2, NEW L, NEW cl, NEW cl2,
           NEW rf, NEW t \in Thread,
           NameInv(D, L, cl, rf),
           \A u \in Thread : Fresh(cl[u]) => cl[u].id \in Inode,
           Removed(cl[t]), cl[t].parent \in Inode, cl[t].id \in Ids(D[cl[t].parent]),
           ~Removed(cl2[t]), ~Fresh(cl2[t]),
           \A u \in Thread \ {t} : cl2[u] = cl[u],
           D2 = [D EXCEPT ![cl[t].parent] = Without(D[cl[t].parent], cl[t].id)]
    PROVE  NameInv(D2, L, cl2, rf)
<1> DEFINE x == cl[t].id
           p == cl[t].parent
           s == D[p]
<1>1. s \in Seq(Entry) /\ D2[p] = Without(s, x) /\ \A i \in Inode : i # p => D2[i] = D[i]
  OBVIOUS
<1>2. PICK pos \in DOMAIN s :
         /\ s[pos].id = x
         /\ Without(s, x) \in Seq(Entry)
         /\ DOMAIN Without(s, x) = 1 .. Len(s) - 1
         /\ \A k \in DOMAIN Without(s, x) :
               /\ (IF k < pos THEN k ELSE k + 1) \in DOMAIN s
               /\ Without(s, x)[k] = s[IF k < pos THEN k ELSE k + 1]
         /\ DOMAIN s = 1 .. Len(s) /\ Len(s) \in Nat
  <2>1. x \in Ids(s)
    OBVIOUS
  <2> QED BY <1>1, <2>1, WithoutRemoves, Zenon
<1>14. /\ DOMAIN D2[p] = 1 .. Len(s) - 1 /\ pos \in 1 .. Len(s) /\ Len(s) \in Nat
       /\ \A k \in DOMAIN D2[p] :
             /\ (IF k < pos THEN k ELSE k + 1) \in DOMAIN s
             /\ D2[p][k] = s[IF k < pos THEN k ELSE k + 1]
  BY <1>1, <1>2, Zenon
\* Where an entry was before.
<1> DEFINE was(i, k) == IF i = p THEN IF k < pos THEN k ELSE k + 1 ELSE k
<1> HIDE DEF x, p, s
<1>3. \A i \in Inode : \A k \in DOMAIN D2[i] :
         was(i, k) \in DOMAIN D[i] /\ D2[i][k] = D[i][was(i, k)]
  BY <1>1, <1>14, ZenonT(30) DEF s
<1>4. \A k \in DOMAIN D2[p] : was(p, k) # pos
  BY <1>14, SMTT(30)
<1>5. \A i \in Inode : \A k, l \in DOMAIN D2[i] : was(i, k) = was(i, l) => k = l
  BY <1>14, SMTT(30)
<1> HIDE DEF was
<1>6. \A i \in Inode : Ids(D2[i]) \subseteq Ids(D[i])
  BY <1>3, SMTT(30) DEF Ids
<1>7. pos \in DOMAIN D[p] /\ D[p][pos].id = x /\ p \in Inode
  BY <1>2 DEF s, p
<1>8. UniqueNames(D2)
  <2>1. SUFFICES ASSUME NEW i \in Inode, NEW k \in DOMAIN D2[i], NEW l \in DOMAIN D2[i],
                        D2[i][k].name = D2[i][l].name
        PROVE  k = l
    BY Zenon DEF UniqueNames
  <2>2. was(i, k) = was(i, l)
    <3>1. /\ was(i, k) \in DOMAIN D[i] /\ D2[i][k] = D[i][was(i, k)]
          /\ was(i, l) \in DOMAIN D[i] /\ D2[i][l] = D[i][was(i, l)]
      BY <1>3, Zenon
    <3>2. D[i][was(i, k)].name = D[i][was(i, l)].name
      BY <2>1, <3>1, Zenon
    <3>3. UniqueNames(D)
      BY DEF NameInv
    <3> QED BY <3>1, <3>2, <3>3, Zenon DEF UniqueNames
  <2> QED BY <1>5, <2>2, Zenon
<1>9. OneName(D2, rf)
  <2>1. SUFFICES ASSUME NEW i \in Inode, NEW j \in Inode,
                        NEW k \in DOMAIN D2[i], NEW l \in DOMAIN D2[j],
                        D2[i][k].id = D2[j][l].id
        PROVE  (i = j /\ k = l) \/ D2[i][k].id \in rf
    BY Zenon DEF OneName
  <2>2. (i = j /\ was(i, k) = was(j, l)) \/ D2[i][k].id \in rf
    <3>1. /\ was(i, k) \in DOMAIN D[i] /\ D2[i][k] = D[i][was(i, k)]
          /\ was(j, l) \in DOMAIN D[j] /\ D2[j][l] = D[j][was(j, l)]
      BY <1>3, Zenon
    <3>2. D[i][was(i, k)].id = D[j][was(j, l)].id
      BY <2>1, <3>1, Zenon
    <3>3. OneName(D, rf)
      BY DEF NameInv
    <3>4. (i = j /\ was(i, k) = was(j, l)) \/ D[i][was(i, k)].id \in rf
      BY <3>1, <3>2, <3>3, ZenonT(30) DEF OneName
    <3> QED BY <3>1, <3>4, Zenon
  <2> QED BY <1>5, <2>2, Zenon
<1>10. Named1(D2, L, cl2, rf)
  <2>1. SUFFICES ASSUME NEW i \in Inode, NEW k \in DOMAIN D2[i], D2[i][k].id \notin rf
        PROVE  \/ \E u \in Thread : /\ Removed(cl2[u])
                                    /\ cl2[u].parent = i /\ cl2[u].id = D2[i][k].id
               \/ /\ D2[i][k].id \in L
                  /\ \A u \in Thread : Fresh(cl2[u]) => cl2[u].id # D2[i][k].id
    BY ZenonT(30) DEF Named1
  <2> DEFINE l == was(i, k)
  <2>2. l \in DOMAIN D[i] /\ D2[i][k] = D[i][l]
    BY <1>3
  <2> HIDE DEF l
  <2>3. CASE \E u \in Thread : /\ Removed(cl[u])
                               /\ cl[u].parent = i /\ cl[u].id = D[i][l].id
    <3>1. PICK u \in Thread : /\ Removed(cl[u])
                              /\ cl[u].parent = i /\ cl[u].id = D[i][l].id
      BY <2>3, Zenon
    <3>2. CASE u = t
      <4>1. i = p /\ D[i][l].id = D[p][pos].id
        BY <1>7, <3>1, <3>2 DEF p, x
      <4>2. l = pos
        BY <1>7, <2>1, <2>2, <4>1, ZenonT(30) DEF NameInv, OneName
      <4> QED BY <1>4, <4>1, <4>2, Zenon DEF l
    <3>3. CASE u # t
      BY <3>1, <3>3, <2>2
    <3> QED BY <3>2, <3>3, Zenon
  <2>4. CASE /\ D[i][l].id \in L
             /\ \A u \in Thread : Fresh(cl[u]) => cl[u].id # D[i][l].id
    BY <2>4, <2>2, Zenon
  <2> QED BY <2>1, <2>2, <2>3, <2>4, ZenonT(30) DEF NameInv, Named1
<1>11. FreshIsLive(L, cl2, rf) /\ FreshIsOne(cl2, rf)
  BY Zenon DEF NameInv, FreshIsLive, FreshIsOne
<1>12. NoCycles(D2)
  BY <1>6, Zenon DEF NameInv, NoCycles
<1>13. FreshHasNoParent(D2, cl2)
  BY <1>6 DEF NameInv, FreshHasNoParent
<1> QED BY <1>8, <1>9, <1>10, <1>11, <1>12, <1>13, Zenon DEF NameInv

-----------------------------------------------------------------------------
\* How a step changes the handlers

\* Handler t goes on at pc with these variables, the others stay.
Moved(cl, cl2, t, pc, e, id, b, td) ==
    /\ cl2 \in [Thread -> Call]
    /\ \A u \in Thread \ {t} : cl2[u] = cl[u]
    /\ cl2[t].pc = pc /\ cl2[t].op = cl[t].op /\ cl2[t].parent = cl[t].parent
    /\ cl2[t].name = cl[t].name /\ cl2[t].type = cl[t].type
    /\ cl2[t].entries = e /\ cl2[t].id = id /\ cl2[t].bits = b /\ cl2[t].todo = td

\* A handler goes on and changes nothing else.
LEMMA MovePc ==
    ASSUME NEW cl \in [Thread -> Call], NEW t \in Thread, NEW pc \in PC
    PROVE  Moved(cl, [cl EXCEPT ![t].pc = pc], t, pc, cl[t].entries, cl[t].id,
                 cl[t].bits, cl[t].todo)
BY ZenonT(30) DEF Moved, Call

\* A handler goes on with entries it has read or changed.
LEMMA MoveEntries ==
    ASSUME NEW cl \in [Thread -> Call], NEW t \in Thread, NEW pc \in PC,
           NEW e \in Seq(Entry)
    PROVE  Moved(cl, [cl EXCEPT ![t].pc = pc, ![t].entries = e], t, pc, e, cl[t].id,
                 cl[t].bits, cl[t].todo)
BY ZenonT(30) DEF Moved, Call

\* A handler goes on with entries and an inode number.
LEMMA MoveEntriesId ==
    ASSUME NEW cl \in [Thread -> Call], NEW t \in Thread, NEW pc \in PC,
           NEW e \in Seq(Entry), NEW id \in 0 .. MaxInode
    PROVE  Moved(cl, [cl EXCEPT ![t].pc = pc, ![t].entries = e, ![t].id = id], t, pc, e,
                 id, cl[t].bits, cl[t].todo)
BY ZenonT(30) DEF Moved, Call

\* A handler goes on with a copy of the bitmap.
LEMMA MoveBits ==
    ASSUME NEW cl \in [Thread -> Call], NEW t \in Thread, NEW pc \in PC,
           NEW b \in SUBSET Block
    PROVE  Moved(cl, [cl EXCEPT ![t].pc = pc, ![t].bits = b], t, pc, cl[t].entries,
                 cl[t].id, b, cl[t].todo)
BY ZenonT(30) DEF Moved, Call

\* A handler goes on with an inode number and a copy of the bitmap.
LEMMA MoveIdBits ==
    ASSUME NEW cl \in [Thread -> Call], NEW t \in Thread, NEW pc \in PC,
           NEW id \in 0 .. MaxInode, NEW b \in SUBSET Block
    PROVE  Moved(cl, [cl EXCEPT ![t].pc = pc, ![t].id = id, ![t].bits = b], t, pc,
                 cl[t].entries, id, b, cl[t].todo)
BY ZenonT(30) DEF Moved, Call

\* A handler goes on with blocks to free.
LEMMA MoveTodo ==
    ASSUME NEW cl \in [Thread -> Call], NEW t \in Thread, NEW pc \in PC,
           NEW td \in Seq(Block \union {Mixed})
    PROVE  Moved(cl, [cl EXCEPT ![t].pc = pc, ![t].todo = td], t, pc, cl[t].entries,
                 cl[t].id, cl[t].bits, td)
BY ZenonT(30) DEF Moved, Call

\* A handler goes on with a bitmap, blocks to free and entries.
LEMMA MoveAll ==
    ASSUME NEW cl \in [Thread -> Call], NEW t \in Thread, NEW pc \in PC,
           NEW b \in SUBSET Block, NEW td \in Seq(Block \union {Mixed}),
           NEW e \in Seq(Entry)
    PROVE  Moved(cl, [cl EXCEPT ![t].pc = pc, ![t].bits = b, ![t].todo = td,
                                ![t].entries = e],
                 t, pc, e, cl[t].id, b, td)
BY ZenonT(30) DEF Moved, Call

\* The record of an idle thread.
LEMMA NoCallForm ==
    /\ NoCall \in Call
    /\ NoCall.pc = "idle" /\ NoCall.op = "none"
<1>1. 1 \in Inode /\ 0 \in 0 .. MaxInode
  BY SizeAssumption DEF Inode
<1>2. <<>> \in Seq(Entry) /\ <<>> \in Seq(Block \union {Mixed})
  OBVIOUS
<1> QED BY <1>1, <1>2, ZenonT(30) DEF NoCall, Call, PC, InodeType

-----------------------------------------------------------------------------
\* The values the invariant is about

\* The types of the values that the invariant is about.
LEMMA Types ==
    ASSUME TypeOK
    PROVE  /\ Dirs \in [Inode -> Seq(Entry)] /\ LiveSet \subseteq Inode
           /\ call \in [Thread -> Call]
           /\ \A i \in Inode : /\ Dirs[i] = readdir(i)
                               /\ i \in LiveSet <=> Live(i)
                               /\ Live(i) => Dirs[i] = dir[i]
                               /\ ~Live(i) => Dirs[i] = <<>>
<1>1. \A i \in Inode : readdir(i) \in Seq(Entry)
  BY DEF TypeOK, readdir
<1>2. call \in [Thread -> Call]
  BY Zenon DEF TypeOK, Call
<1> QED BY <1>1, <1>2 DEF Dirs, LiveSet, readdir

\* Where a handler is decides what it holds.
LEMMA Places ==
    ASSUME NEW c, Form(c)
    PROVE  /\ WithChild(c) => Holding(c) /\ c.id \in Inode
           /\ Written(c) => WithChild(c)
           /\ Removed(c) => Holding(c) /\ WithChild(c) /\ ~Fresh(c)
           /\ Fresh(c) => Holding(c) /\ c.id \in Inode
BY SMT DEF Form, Holding, WithChild, Written, Removed, Fresh

\* A handler at allocInode is a mknode that has only its parent.
LEMMA AtAllocInode ==
    ASSUME NEW c, Form(c), c.pc = "allocInode"
    PROVE  /\ Holding(c) /\ ~WithChild(c) /\ ~Written(c) /\ ~Fresh(c) /\ ~Removed(c)
           /\ c.op = "mknode" /\ c.name \in Name
BY SMT DEF Form, Holding, WithChild, Written, Removed, Fresh

\* A handler at remove is an unlink whose inode is still there.
LEMMA AtRemove ==
    ASSUME NEW c, Form(c), c.pc = "remove"
    PROVE  /\ Holding(c) /\ WithChild(c) /\ ~Written(c) /\ ~Fresh(c) /\ ~Removed(c)
           /\ c.op = "unlink" /\ c.name \in Name /\ c.id \in Inode
BY SMT DEF Form, Holding, WithChild, Written, Removed, Fresh

\* A handler that frees blocks is an unlink whose inode is gone.
LEMMA AtFree ==
    ASSUME NEW c, Form(c), c.pc \in {"free", "freeBlock"}
    PROVE  /\ Holding(c) /\ WithChild(c) /\ ~Written(c) /\ ~Fresh(c) /\ Removed(c)
           /\ c.op = "unlink" /\ c.name \in Name /\ c.id \in Inode /\ c.todo # <<>>
BY SMT DEF Form, Holding, WithChild, Written, Removed, Fresh

\* A handler that writes its directory has both mutexes.
LEMMA AtWritten ==
    ASSUME NEW c, Form(c), Written(c)
    PROVE  /\ c.pc \in {"write", "resize"} /\ c.op \in {"mknode", "unlink"}
           /\ Holding(c) /\ WithChild(c) /\ c.id \in Inode /\ c.name \in Name
           /\ c.op = "mknode" => Fresh(c) /\ ~Removed(c)
           /\ c.op = "unlink" => Removed(c)
BY SMT DEF Form, Holding, WithChild, Written, Removed, Fresh

\* After lockParent comes alloc for a mknode, lockChild for an unlink.
LEMMA PastParent ==
    ASSUME NEW c, NEW d, Form(c), c.pc = "lockParent", d.op = c.op, d.name = c.name,
           \/ d.pc = "alloc" /\ c.op = "mknode"
           \/ d.pc = "lockChild" /\ d.id \in Inode
    PROVE  Form(d) /\ d.pc # "resize"
BY SMT DEF Form

-----------------------------------------------------------------------------
\* The inductive invariant holds in a new file system ...
LEMMA InitIInv == Init => IInv
<1> SUFFICES ASSUME Init PROVE IInv
  OBVIOUS
<1>1. TypeOK
  <2>1. bitmap \subseteq Block /\ Reserved + 1 \in 0 .. MaxBlock /\ 0 \in 0 .. MaxBlock
    BY SizeAssumption DEF Init, Block
  <2>2. table \in [Inode -> 0 .. MaxBlock]
    BY <2>1 DEF Init, KInvalidBlockID
  <2>3. call \in [Thread -> Call]
    BY NoCallForm, Zenon DEF Init
  <2>4. type \in [Inode -> InodeType]
    BY DEF Init, InodeType
  <2>5. blocks \in [Inode -> Seq(Block \union {Mixed})] /\ dir \in [Inode -> Seq(Entry)]
    BY DEF Init
  <2>6. inode_mtx \in [Inode -> Thread \union {NoOne}] /\ fs_mtx \in Thread \union {NoOne}
    BY DEF Init
  <2>7. refused \subseteq Inode
    BY DEF Init
  <2> QED BY <2>1, <2>2, <2>3, <2>4, <2>5, <2>6, <2>7, Zenon DEF TypeOK, Call
<1>2. \A i \in Inode : Dirs[i] = <<>> /\ blocks[i] = <<>> /\ inode_mtx[i] = NoOne
  BY DEF Init, Dirs, readdir
<1>3. \A t \in Thread : call[t].pc = "idle" /\ call[t].op = "none"
  BY NoCallForm, Zenon DEF Init
<1>4. \A t \in Thread : /\ ~Holding(call[t]) /\ ~WithChild(call[t])
                        /\ ~Fresh(call[t]) /\ ~Removed(call[t])
                        /\ Form(call[t]) /\ Resizing(call[t], LiveSet, blocks)
                        /\ Reads(call[t], Dirs)
  BY <1>3, Zenon DEF Holding, WithChild, Fresh, Removed, Form, Resizing, Reads
<1>5. Locks(inode_mtx, call)
  BY <1>2, <1>4, NoOneAssumption, Zenon DEF Locks
<1>6. \A i \in Inode : DOMAIN Dirs[i] = {} /\ Ids(Dirs[i]) = {}
  BY <1>2 DEF Ids
<1>7. NameInv(Dirs, LiveSet, call, refused)
  BY <1>4, <1>6 DEF NameInv, UniqueNames, OneName, Named1, FreshIsLive, FreshIsOne,
     NoCycles, FreshHasNoParent
<1>8. Sizes(Dirs, LiveSet, blocks)
  BY <1>2 DEF Sizes, LiveSet
<1> QED BY <1>1, <1>4, <1>5, <1>7, <1>8, Zenon DEF IInv

\* ... and a step that leaves the inodes and the directories alone keeps it when
\* it keeps what it says of the handler that takes the step.
LEMMA StepKeeps ==
    ASSUME IInv, NEW t \in Thread,
           UNCHANGED <<table, type, blocks, dir>>,
           bitmap' \subseteq Block, fs_mtx' \in Thread \union {NoOne},
           inode_mtx' \in [Inode -> Thread \union {NoOne}],
           refused' \subseteq Inode, call' \in [Thread -> Call],
           \A u \in Thread \ {t} : call'[u] = call[u],
           Locks(inode_mtx', call'), Form(call'[t]),
           Resizing(call'[t], LiveSet, blocks), Reads(call'[t], Dirs),
           NameInv(Dirs, LiveSet, call', refused')
    PROVE  IInv'
<1>1. TypeOK'
  BY Zenon DEF IInv, TypeOK, Call
<1>2. Dirs' = Dirs /\ LiveSet' = LiveSet /\ blocks' = blocks
  BY Zenon DEF Dirs, LiveSet, readdir, Live
<1>3. \A u \in Thread : /\ Form(call'[u]) /\ Resizing(call'[u], LiveSet, blocks)
                        /\ Reads(call'[u], Dirs)
  BY Zenon DEF IInv
<1>4. Sizes(Dirs, LiveSet, blocks)
  BY DEF IInv
<1> QED BY <1>1, <1>2, <1>3, <1>4, Zenon DEF IInv

\* The handler that answers leaves nothing behind, and after an unlink that has
\* removed the inode the number counts as refused.
LEMMA ReturnKeeps ==
    ASSUME IInv, NEW t \in Thread, return(t),
           UNCHANGED <<table, type, blocks, dir>>,
           bitmap' \subseteq Block, fs_mtx' \in Thread \union {NoOne},
           refused \subseteq refused', refused' \subseteq Inode,
           Removed(call[t]) => call[t].id \in refused'
    PROVE  IInv'
<1>1. /\ call \in [Thread -> Call] /\ inode_mtx \in [Inode -> Thread \union {NoOne}]
      /\ \A u \in Thread : call[u].parent \in Inode
  <2>1. call \in [Thread -> Call]
    BY Types DEF IInv
  <2> QED BY <2>1, Zenon DEF IInv, TypeOK, Call
<1>2. /\ call'[t] = NoCall /\ \A u \in Thread \ {t} : call'[u] = call[u]
      /\ call' \in [Thread -> Call]
  BY <1>1, NoCallForm, Zenon DEF return
<1>3. inode_mtx' = [i \in Inode |-> IF inode_mtx[i] = t THEN NoOne ELSE inode_mtx[i]]
  BY Zenon DEF return
<1>4. inode_mtx' \in [Inode -> Thread \union {NoOne}]
  BY <1>1, <1>3
<1>5. call'[t].pc = "idle" /\ call'[t].op = "none"
  BY <1>2, NoCallForm, Zenon
<1>6. /\ ~Holding(call'[t]) /\ ~WithChild(call'[t])
      /\ ~Fresh(call'[t]) /\ ~Removed(call'[t])
      /\ Form(call'[t]) /\ Resizing(call'[t], LiveSet, blocks) /\ Reads(call'[t], Dirs)
  BY <1>5 DEF Holding, WithChild, Fresh, Removed, Form, Resizing, Reads
<1>7. \A u \in Thread : WithChild(call[u]) => call[u].id \in Inode
  BY Places, Zenon DEF IInv
<1>8. Locks(inode_mtx, call) /\ NameInv(Dirs, LiveSet, call, refused)
  BY Zenon DEF IInv
<1>9. Locks(inode_mtx', call')
  BY <1>1, <1>2, <1>3, <1>6, <1>7, <1>8, LocksReturn, Zenon
<1>10. NameInv(Dirs, LiveSet, call', refused')
  BY <1>2, <1>6, <1>8, NamesReturn, Zenon
<1> QED BY <1>2, <1>4, <1>6, <1>9, <1>10, StepKeeps, ZenonT(30)

-----------------------------------------------------------------------------
\* The steps

\* What the invariant says of one handler.
LEMMA Facts ==
    ASSUME IInv, NEW t \in Thread
    PROVE  /\ TypeOK /\ call \in [Thread -> Call]
           /\ inode_mtx \in [Inode -> Thread \union {NoOne}]
           /\ call[t].parent \in Inode /\ call[t].entries \in Seq(Entry)
           /\ call[t].bits \in SUBSET Block /\ call[t].id \in 0 .. MaxInode
           /\ call[t].todo \in Seq(Block \union {Mixed})
           /\ Dirs \in [Inode -> Seq(Entry)] /\ LiveSet \subseteq Inode
           /\ Locks(inode_mtx, call) /\ Form(call[t]) /\ Reads(call[t], Dirs)
           /\ Resizing(call[t], LiveSet, blocks)
           /\ NameInv(Dirs, LiveSet, call, refused) /\ Sizes(Dirs, LiveSet, blocks)
           /\ \A u \in Thread : call[u].parent \in Inode
           /\ \A u \in Thread : Form(call[u])
           /\ \A u \in Thread : WithChild(call[u]) => call[u].id \in Inode
<1>1. TypeOK /\ call \in [Thread -> Call] /\ Dirs \in [Inode -> Seq(Entry)]
      /\ LiveSet \subseteq Inode
  BY Types, Zenon DEF IInv
<1>2. /\ \A u \in Thread : call[u].parent \in Inode
      /\ call[t].parent \in Inode /\ call[t].entries \in Seq(Entry)
      /\ call[t].bits \in SUBSET Block /\ call[t].id \in 0 .. MaxInode
      /\ call[t].todo \in Seq(Block \union {Mixed})
  BY <1>1, ZenonT(30) DEF Call
<1>3. \A u \in Thread : WithChild(call[u]) => call[u].id \in Inode
  BY Places, Zenon DEF IInv
<1>4. inode_mtx \in [Inode -> Thread \union {NoOne}]
  BY <1>1 DEF TypeOK
<1> QED BY <1>1, <1>2, <1>3, <1>4, Zenon DEF IInv

\* Only free_read adds to what was refused.
LEMMA RefusedSame ==
    ASSUME NEW t \in Thread, record_refused,
           \A u \in Thread \ {t} : call'[u] = call[u],
           call[t].pc # "free" \/ call'[t].pc # "idle"
    PROVE  refused' = refused
<1>1. \A u \in Thread : ~(call[u].pc = "free" /\ call'[u].pc = "idle")
  OBVIOUS
<1>2. {call[u].id : u \in {v \in Thread : call[v].pc = "free" /\ call'[v].pc = "idle"}} = {}
  BY <1>1
<1> QED BY <1>2 DEF record_refused

\* The handler answers with nothing half done.
LEMMA ErrorKeeps ==
    ASSUME IInv, NEW t \in Thread, return(t), record_refused,
           UNCHANGED <<table, type, blocks, dir>>,
           bitmap' \subseteq Block, fs_mtx' \in Thread \union {NoOne},
           ~Removed(call[t])
    PROVE  IInv'
<1>1. call \in [Thread -> Call] /\ refused \subseteq Inode
  BY Facts, Zenon DEF TypeOK
<1>2. \A u \in Thread \ {t} : call'[u] = call[u]
  BY <1>1, Zenon DEF return
<1>3. call[t].pc # "free"
  <2>1. Form(call[t])
    BY Facts
  <2> QED BY <2>1, Zenon DEF Form, Removed
<1>4. refused' = refused
  BY <1>2, <1>3, RefusedSame
<1> QED BY <1>1, <1>4, ReturnKeeps, ZenonT(30)

\* A new request touches no directory.
LEMMA request_IInv ==
    ASSUME IInv, NEW t \in Thread, request(t), record_refused
    PROVE  IInv'
<1>0. TypeOK /\ call \in [Thread -> Call] /\ call[t].pc = "idle"
      /\ inode_mtx \in [Inode -> Thread \union {NoOne}]
      /\ NameInv(Dirs, LiveSet, call, refused) /\ Locks(inode_mtx, call)
  BY Facts DEF request
<1>1. PICK op \in {"mknode", "unlink"}, p \in Inode, n \in Name, ty \in InodeType :
         /\ Live(p) /\ type[p] = "Directory"
         /\ op = "unlink" => ty = "FILE"
         /\ call' = [call EXCEPT ![t] =
                     [NoCall EXCEPT !.pc = "lockParent", !.op = op, !.parent = p,
                                    !.name = n, !.type = ty]]
  BY Zenon DEF request
<1> DEFINE r == [NoCall EXCEPT !.pc = "lockParent", !.op = op, !.parent = p,
                               !.name = n, !.type = ty]
<1>2. r \in Call /\ r.pc = "lockParent" /\ r.op = op /\ r.name = n
  <2>1. NoCall \in Call /\ "lockParent" \in PC
    BY NoCallForm DEF PC
  <2> QED BY <2>1, ZenonT(30) DEF Call
<1> HIDE DEF r
<1>3. call'[t] = r /\ call' \in [Thread -> Call] /\ \A u \in Thread \ {t} : call'[u] = call[u]
  BY <1>0, <1>1, <1>2, Zenon DEF r
<1>4. UNCHANGED <<bitmap, table, type, blocks, dir, inode_mtx, fs_mtx>>
  BY DEF request, disk
<1>5. refused' = refused
  BY <1>0, <1>3, RefusedSame
<1>6. /\ ~Holding(call[t]) /\ ~WithChild(call[t]) /\ ~Fresh(call[t]) /\ ~Removed(call[t])
  BY <1>0, Zenon DEF Holding, WithChild, Fresh, Removed
<1>7. /\ ~Holding(call'[t]) /\ ~WithChild(call'[t])
      /\ ~Fresh(call'[t]) /\ ~Removed(call'[t])
      /\ Form(call'[t]) /\ Resizing(call'[t], LiveSet, blocks) /\ Reads(call'[t], Dirs)
  BY <1>2, <1>3 DEF Holding, WithChild, Fresh, Removed, Form, Resizing, Reads
<1>8. Locks(inode_mtx', call')
  <2>1. \A u \in Thread :
           /\ Holding(call'[u]) <=> Holding(call[u])
           /\ WithChild(call'[u]) <=> WithChild(call[u])
           /\ Holding(call[u]) => call'[u].parent = call[u].parent
           /\ WithChild(call[u]) => call'[u].id = call[u].id
    BY <1>3, <1>6, <1>7, Zenon
  <2> QED BY <1>0, <1>4, <2>1, LocksKeep, Zenon
<1>9. NameInv(Dirs, LiveSet, call', refused')
  <2>1. \A u \in Thread :
              /\ Removed(call'[u]) <=> Removed(call[u])
              /\ Fresh(call'[u]) <=> Fresh(call[u])
              /\ Removed(call[u]) \/ Fresh(call[u]) =>
                    call'[u].parent = call[u].parent /\ call'[u].id = call[u].id
    BY <1>3, <1>6, <1>7, Zenon
  <2> QED BY <1>0, <1>5, <2>1, NamesKeep, Zenon
<1>10. /\ bitmap' \subseteq Block /\ fs_mtx' \in Thread \union {NoOne}
       /\ refused' \subseteq Inode /\ inode_mtx' \in [Inode -> Thread \union {NoOne}]
  BY <1>0, <1>4, <1>5, Zenon DEF TypeOK
<1> QED BY <1>3, <1>4, <1>7, <1>8, <1>9, <1>10, StepKeeps, Zenon

\* A handler goes on with the locks, the entries and the inode it has.
LEMMA MoveKeeps ==
    ASSUME IInv, NEW t \in Thread, NEW pc, NEW b, NEW td,
           Moved(call, call', t, pc, call[t].entries, call[t].id, b, td),
           UNCHANGED <<table, type, blocks, dir, inode_mtx>>, record_refused,
           bitmap' \subseteq Block, fs_mtx' \in Thread \union {NoOne},
           \/ call[t].pc = "alloc" /\ pc = "allocInode"
           \/ call[t].pc = "free" /\ pc = "freeBlock"
           \/ call[t].pc = "freeBlock" /\ pc = "free"
           \/ call[t].pc = "write" /\ pc = "resize",
           Form(call'[t]), Resizing(call'[t], LiveSet, blocks)
    PROVE  IInv'
<1>1. /\ call' \in [Thread -> Call] /\ \A u \in Thread \ {t} : call'[u] = call[u]
      /\ call'[t].pc = pc /\ call'[t].op = call[t].op
      /\ call'[t].parent = call[t].parent /\ call'[t].name = call[t].name
      /\ call'[t].entries = call[t].entries /\ call'[t].id = call[t].id
  BY Zenon DEF Moved
<1>2. /\ Holding(call'[t]) <=> Holding(call[t])
      /\ WithChild(call'[t]) <=> WithChild(call[t])
      /\ Written(call'[t]) <=> Written(call[t])
      /\ Fresh(call'[t]) <=> Fresh(call[t])
      /\ Removed(call'[t]) <=> Removed(call[t])
      /\ call'[t].pc # "idle"
  BY <1>1, SMT DEF Holding, WithChild, Written, Fresh, Removed
<1>3. Reads(call'[t], Dirs)
  <2>1. Reads(call[t], Dirs)
    BY Facts, Zenon
  <2> QED BY <1>1, <1>2, <2>1, Zenon DEF Reads
<1>4. refused' = refused
  BY <1>1, <1>2, RefusedSame, Zenon
<1>5. /\ Locks(inode_mtx, call) /\ NameInv(Dirs, LiveSet, call, refused)
      /\ TypeOK /\ inode_mtx \in [Inode -> Thread \union {NoOne}]
  BY Facts, Zenon
<1>6. Locks(inode_mtx', call')
  <2>1. \A u \in Thread :
           /\ Holding(call'[u]) <=> Holding(call[u])
           /\ WithChild(call'[u]) <=> WithChild(call[u])
           /\ Holding(call[u]) => call'[u].parent = call[u].parent
           /\ WithChild(call[u]) => call'[u].id = call[u].id
    BY <1>1, <1>2, Zenon
  <2>2. Locks(inode_mtx, call')
    BY <1>5, <2>1, LocksKeep, Zenon
  <2> QED BY <2>2
<1>7. NameInv(Dirs, LiveSet, call', refused')
  <2>1. \A u \in Thread :
              /\ Removed(call'[u]) <=> Removed(call[u])
              /\ Fresh(call'[u]) <=> Fresh(call[u])
              /\ Removed(call[u]) \/ Fresh(call[u]) =>
                    call'[u].parent = call[u].parent /\ call'[u].id = call[u].id
    BY <1>1, <1>2, Zenon
  <2> QED BY <1>4, <1>5, <2>1, NamesKeep, Zenon
<1>8. refused' \subseteq Inode /\ inode_mtx' \in [Inode -> Thread \union {NoOne}]
  BY <1>4, <1>5, Zenon DEF TypeOK
<1> QED BY <1>1, <1>3, <1>6, <1>7, <1>8, StepKeeps, Zenon

\* alloc_inode reads the bitmap.
LEMMA alloc_read_IInv ==
    ASSUME IInv, NEW t \in Thread, alloc_read(t), record_refused
    PROVE  IInv'
<1>0. TypeOK /\ call \in [Thread -> Call] /\ Form(call[t])
  BY Facts
<1>1. call[t].pc = "alloc" /\ UNCHANGED <<bitmap, table, type, blocks, dir>>
  BY DEF alloc_read, disk
<1>2. bitmap' \subseteq Block /\ bitmap \in SUBSET Block
  BY <1>0, <1>1, Zenon DEF TypeOK
<1>3. CASE Block \subseteq bitmap
  <2>1. return(t) /\ UNCHANGED fs_mtx
    BY <1>3, Zenon DEF alloc_read
  <2>2. ~Removed(call[t])
    BY <1>1 DEF Removed
  <2>3. fs_mtx' \in Thread \union {NoOne}
    BY <1>0, <2>1 DEF TypeOK
  <2> QED BY <1>1, <1>2, <2>1, <2>2, <2>3, ErrorKeeps, Zenon
<1>4. CASE ~(Block \subseteq bitmap)
  <2>1. /\ fs_mtx' = t /\ UNCHANGED inode_mtx
        /\ call' = [call EXCEPT ![t].pc = "allocInode", ![t].bits = bitmap]
    BY <1>4, Zenon DEF alloc_read
  <2>2. "allocInode" \in PC
    BY DEF PC
  <2>3. Moved(call, call', t, "allocInode", call[t].entries, call[t].id, bitmap,
              call[t].todo)
    BY <1>0, <1>2, <2>1, <2>2, MoveBits, Zenon
  <2>4. Form(call'[t]) /\ Resizing(call'[t], LiveSet, blocks)
    BY <1>0, <1>1, <1>4, <2>3, Zenon DEF Moved, Form, Resizing
  <2> QED BY <1>1, <1>2, <2>1, <2>3, <2>4, MoveKeeps, Zenon
<1> QED BY <1>3, <1>4, Zenon

\* resize reads the bitmap.
LEMMA resize_read_IInv ==
    ASSUME IInv, NEW t \in Thread, resize_read(t), record_refused,
           BlocksHaveOneUse, ~Misread(t)
    PROVE  IInv'
<1> DEFINE p == call[t].parent
           grows == blocks[p] = <<>>
           fails == IF grows THEN Block \subseteq bitmap ELSE blocks[p][1] \notin bitmap
<1>0. /\ TypeOK /\ call \in [Thread -> Call] /\ Form(call[t]) /\ Reads(call[t], Dirs)
      /\ p \in Inode /\ Sizes(Dirs, LiveSet, blocks)
  BY Facts
<1>1. /\ call[t].pc = "write" /\ UNCHANGED <<bitmap, table, type, blocks, dir, fs_mtx>>
      /\ Live(p) /\ (grows <=> call[t].entries # <<>>)
  BY Zenon DEF resize_read, disk
<1>2. bitmap' \subseteq Block /\ bitmap \in SUBSET Block /\ fs_mtx' \in Thread \union {NoOne}
  BY <1>0, <1>1, Zenon DEF TypeOK
<1>3. CASE fails
  <2>1. return(t)
    BY <1>3, Zenon DEF resize_read
  <2>2. ~Removed(call[t])
    <3>1. SUFFICES ASSUME call[t].op = "unlink" PROVE FALSE
      BY DEF Removed
    <3>2. Dirs[p] # <<>>
      <4>1. Holding(call[t])
        BY <1>1, Zenon DEF Holding
      <4>2. call[t].id \in Ids(Dirs[p])
        BY <1>0, <3>1, <4>1, Zenon DEF Reads
      <4> QED BY <4>2 DEF Ids
    <3>3. p \in LiveSet
      BY <1>0, <1>1 DEF LiveSet
    <3>4. Len(blocks[p]) # 2
      BY <1>1 DEF Misread
    <3>5. blocks[p] # <<>> /\ Len(blocks[p]) = 1
      <4>1. blocks[p] # <<>> /\ Len(blocks[p]) \in {0, 1}
        BY <1>0, <3>2, <3>3, <3>4, Zenon DEF Sizes
      <4>2. blocks[p] \in Seq(Block \union {Mixed})
        BY <1>0, Zenon DEF TypeOK
      <4> QED BY <4>1, <4>2, SMTT(30)
    <3>6. <<blocks[p][1], p, "data">> \in Held
      BY <1>0, <1>1, <3>5 DEF Held
    <3>7. blocks[p][1] \in bitmap
      BY <3>6 DEF BlocksHaveOneUse
    <3> QED BY <1>3, <3>5, <3>7
  <2> QED BY <1>1, <1>2, <2>1, <2>2, ErrorKeeps, Zenon
<1>4. CASE ~fails
  <2>1. /\ UNCHANGED inode_mtx
        /\ call' = [call EXCEPT ![t].pc = "resize", ![t].bits = bitmap]
    BY <1>4, Zenon DEF resize_read
  <2>2. "resize" \in PC
    BY DEF PC
  <2>3. Moved(call, call', t, "resize", call[t].entries, call[t].id, bitmap, call[t].todo)
    BY <1>0, <1>2, <2>1, <2>2, MoveBits, ZenonT(30)
  <2>4. Form(call'[t])
    BY <1>0, <1>1, <2>3, Zenon DEF Moved, Form
  <2>5. Resizing(call'[t], LiveSet, blocks)
    <3>1. p \in LiveSet
      BY <1>0, <1>1 DEF LiveSet
    <3>2. /\ call'[t].parent = p /\ call'[t].entries = call[t].entries
          /\ call'[t].bits = bitmap
      BY <2>3 DEF Moved
    <3>3. grows => ~(Block \subseteq bitmap)
      BY <1>4
    <3> QED BY <1>1, <3>1, <3>2, <3>3, Zenon DEF Resizing
  <2> QED BY <1>1, <1>2, <2>1, <2>3, <2>4, <2>5, MoveKeeps, Zenon
<1> QED BY <1>3, <1>4, ZenonT(30)

\* A handler takes its parent.
LEMMA ParentKeeps ==
    ASSUME IInv, NEW t \in Thread, NEW pc, NEW id,
           Moved(call, call', t, pc, Dirs[call[t].parent], id, call[t].bits, call[t].todo),
           call[t].pc = "lockParent", inode_mtx[call[t].parent] = NoOne,
           inode_mtx' = [inode_mtx EXCEPT ![call[t].parent] = t],
           UNCHANGED <<bitmap, table, type, blocks, dir, fs_mtx>>, record_refused,
           \/ /\ pc = "alloc" /\ call[t].op = "mknode"
              /\ \A k \in DOMAIN Dirs[call[t].parent] :
                    Dirs[call[t].parent][k].name # call[t].name
           \/ /\ pc = "lockChild" /\ call[t].op = "unlink" /\ id \in Inode
              /\ id \in Ids(Dirs[call[t].parent])
    PROVE  IInv'
<1>1. /\ call' \in [Thread -> Call] /\ \A u \in Thread \ {t} : call'[u] = call[u]
      /\ call'[t].pc = pc /\ call'[t].op = call[t].op
      /\ call'[t].parent = call[t].parent /\ call'[t].name = call[t].name
      /\ call'[t].entries = Dirs[call[t].parent] /\ call'[t].id = id
  BY Zenon DEF Moved
<1>2. /\ ~Holding(call[t]) /\ Holding(call'[t]) /\ ~WithChild(call'[t])
      /\ ~Written(call'[t]) /\ ~Fresh(call'[t]) /\ ~Removed(call'[t])
      /\ ~Fresh(call[t]) /\ ~Removed(call[t]) /\ call'[t].pc # "idle"
  BY <1>1, Zenon DEF Holding, WithChild, Written, Fresh, Removed
<1>3. /\ Locks(inode_mtx, call) /\ NameInv(Dirs, LiveSet, call, refused)
      /\ TypeOK /\ inode_mtx \in [Inode -> Thread \union {NoOne}] /\ Form(call[t])
      /\ \A u \in Thread : call[u].parent \in Inode
                           /\ (WithChild(call[u]) => call[u].id \in Inode)
  BY Facts, SMTT(30)
<1>4. Form(call'[t]) /\ Resizing(call'[t], LiveSet, blocks)
  BY <1>1, <1>3, PastParent, Zenon DEF Resizing
<1>5. Reads(call'[t], Dirs)
  BY <1>1, <1>2, ZenonT(30) DEF Reads
<1>6. refused' = refused
  BY <1>1, <1>2, RefusedSame
<1>7. Locks(inode_mtx', call')
  BY <1>1, <1>2, <1>3, LocksParent, Zenon
<1>8. NameInv(Dirs, LiveSet, call', refused')
  <2>1. \A u \in Thread :
              /\ Removed(call'[u]) <=> Removed(call[u])
              /\ Fresh(call'[u]) <=> Fresh(call[u])
              /\ Removed(call[u]) \/ Fresh(call[u]) =>
                    call'[u].parent = call[u].parent /\ call'[u].id = call[u].id
    BY <1>1, <1>2, ZenonT(30)
  <2> QED BY <1>3, <1>6, <2>1, NamesKeep, Zenon
<1>9. /\ bitmap' \subseteq Block /\ fs_mtx' \in Thread \union {NoOne}
      /\ refused' \subseteq Inode /\ inode_mtx' \in [Inode -> Thread \union {NoOne}]
  BY <1>3, <1>6, Zenon DEF TypeOK
<1> QED BY <1>1, <1>4, <1>5, <1>7, <1>8, <1>9, StepKeeps, Zenon
=============================================================================
